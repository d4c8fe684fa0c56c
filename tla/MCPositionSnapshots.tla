------------------------ MODULE MCPositionSnapshots ------------------------
(* PositionSnapshots with a swap fee of three quarters, so that a protocol  *)
(* fee is minted within a few transactions of small amounts.                *)
EXTENDS PositionSnapshots

MCOwners == {"alice", "bob"}
MCAmounts == {40}
=============================================================================
