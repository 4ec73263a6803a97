------------------------------- MODULE Account -------------------------------
(***************************************************************************)
(* What the balance of a user promises: every charge and every deduction   *)
(* takes effect at once, at most once, on the balance as it then is.       *)
(***************************************************************************)
EXTENDS Integers

CONSTANTS Users, Calls, UserOf, Delta, InitialBalance

VARIABLES
  balance,  \* balance of each user
  applied   \* calls that took effect

Init == balance = [u \in Users |-> InitialBalance[u]] /\ applied = {}

\* A charge has a positive delta; a deduction needs the money.
Apply(c) ==
  LET u == UserOf[c] IN
  /\ c \notin applied
  /\ Delta[c] # 0
  /\ balance[u] + Delta[c] >= 0
  /\ balance' = [balance EXCEPT ![u] = @ + Delta[c]]
  /\ applied' = applied \cup {c}

Next == \E c \in Calls : Apply(c)

Spec == Init /\ [][Next]_<<balance, applied>>
=============================================================================
