----------------------------- MODULE MCRealtime -----------------------------
(* Realtime with two clients, one of each direction of the pair.           *)
EXTENDS Realtime

CONSTANTS c1, c2

MCPrices == <<2, 3, 1>>
MCStreams == <<"forward", "reversed">>
MCSubscribed == (c1 :> "forward") @@ (c2 :> "reversed")
=============================================================================
