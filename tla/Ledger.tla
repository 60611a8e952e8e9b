------------------------------- MODULE Ledger -------------------------------
(***************************************************************************)
(* What request billing promises of one balance: an account may hold an    *)
(* amount once, and is concluded once, at any amount (0 for a refund).     *)
(* The balance always changes by exactly what the account does, and never  *)
(* below 0.                                                                *)
(***************************************************************************)
EXTENDS Integers

CONSTANTS Accounts, Amounts, InitBalance

VARIABLES balance, taken, final

vars == <<balance, taken, final>>

Init ==
  /\ balance = InitBalance
  /\ taken = [a \in Accounts |-> 0]
  /\ final = [a \in Accounts |-> FALSE]

\* The account now has n; the balance pays the difference.
Take(a, n) ==
  /\ balance + taken[a] >= n
  /\ balance' = balance + taken[a] - n
  /\ taken' = [taken EXCEPT ![a] = n]

Hold(a) ==
  /\ ~final[a]
  /\ taken[a] = 0
  /\ \E n \in Amounts : Take(a, n)
  /\ UNCHANGED final

Conclude(a) ==
  /\ ~final[a]
  /\ final' = [final EXCEPT ![a] = TRUE]
  /\ \E n \in Amounts : Take(a, n)

Next == \E a \in Accounts : Hold(a) \/ Conclude(a)

Spec == Init /\ [][Next]_vars
=============================================================================
