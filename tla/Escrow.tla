------------------------------- MODULE Escrow -------------------------------
(***************************************************************************)
(* What the pool's ledger promises to its users: the pool application is   *)
(* an escrow.  Value that enters is either on its way to a settlement, in  *)
(* the reserves, or owed to an account, and what an account is owed goes   *)
(* down only by what that account is paid.  PoolLedger implements it       *)
(* (PoolAccounting gives the mapping); no code corresponds to it directly. *)
(***************************************************************************)
EXTENDS Integers, Functions

CONSTANTS Tokens, Accounts

VARIABLES
  custody,    \* what the application owns of each token
  arriving,   \* what it received with requests not yet settled
  reserve,    \* what belongs to the liquidity providers together
  owed,       \* what each account may take out
  paid        \* what each account holds outside

evars == <<custody, arriving, reserve, owed, paid>>

Total(balances) == SumFunction(balances)

Init ==
  /\ custody = [t \in Tokens |-> 0]
  /\ arriving = [t \in Tokens |-> 0]
  /\ reserve = [t \in Tokens |-> 0]
  /\ owed = [t \in Tokens |-> [a \in Accounts |-> 0]]
  /\ paid \in [Tokens -> [Accounts -> Nat]]

\* Accounts hand over value with a request.
Deposit ==
  /\ \A t \in Tokens :
       /\ custody'[t] >= custody[t]
       /\ custody'[t] - custody[t] = arriving'[t] - arriving[t]
       /\ custody'[t] + Total(paid'[t]) = custody[t] + Total(paid[t])
       /\ \A a \in Accounts : paid'[t][a] <= paid[t][a]
  /\ UNCHANGED <<reserve, owed>>

\* Value from elsewhere enters with a request: the application that created
\* the pool pays its first liquidity.
Endow ==
  /\ \A t \in Tokens :
       /\ custody'[t] >= custody[t]
       /\ custody'[t] - custody[t] = arriving'[t] - arriving[t]
  /\ UNCHANGED <<reserve, owed, paid>>

\* A request whose handler panics is gone, and what it carried stays with the
\* application, owed to nobody.
Forfeit ==
  /\ \A t \in Tokens : arriving'[t] \in 0 .. arriving[t]
  /\ UNCHANGED <<custody, reserve, owed, paid>>

\* A request is settled: value is divided anew between the reserves and the
\* accounts, to the disadvantage of no account.
Settle ==
  /\ \A t \in Tokens :
       /\ arriving'[t] <= arriving[t]
       /\ reserve'[t] >= 0
       /\ \A a \in Accounts : owed'[t][a] >= owed[t][a]
       /\ arriving'[t] + reserve'[t] + Total(owed'[t])
            = arriving[t] + reserve[t] + Total(owed[t])
  /\ UNCHANGED <<custody, paid>>

\* An account is paid what it is owed, in part or whole.
Pay(t, a) ==
  /\ owed'[t][a] >= 0
  /\ owed' = [owed EXCEPT ![t][a] = owed'[t][a]]
  /\ paid' = [paid EXCEPT ![t][a] = @ + owed[t][a] - owed'[t][a]]
  /\ custody' = [custody EXCEPT ![t] = @ - (owed[t][a] - owed'[t][a])]
  /\ UNCHANGED <<arriving, reserve>>

Next ==
  \/ Deposit \/ Endow
  \/ Settle \/ Forfeit
  \/ \E t \in Tokens, a \in Accounts : Pay(t, a)

Spec == Init /\ [][Next]_evars
=============================================================================
