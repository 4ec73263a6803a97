-------------------------- MODULE PaymentLifecycle --------------------------
(***************************************************************************)
(* What the payment of an order promises, without saying how: an order is  *)
(* open, in payment or paid; the money is taken at most once, while the    *)
(* order is in payment; once it is taken the payment can only complete.    *)
(***************************************************************************)
CONSTANT Orders

VARIABLES phase, taken

Begin(o) ==
  /\ phase[o] = "open"
  /\ phase' = [phase EXCEPT ![o] = "inPayment"]
  /\ UNCHANGED taken

Take(o) ==
  /\ phase[o] = "inPayment" /\ ~taken[o]
  /\ taken' = [taken EXCEPT ![o] = TRUE]
  /\ UNCHANGED phase

Complete(o) ==
  /\ phase[o] = "inPayment" /\ taken[o]
  /\ phase' = [phase EXCEPT ![o] = "paid"]
  /\ UNCHANGED taken

Fail(o) ==
  /\ phase[o] = "inPayment" /\ ~taken[o]
  /\ phase' = [phase EXCEPT ![o] = "open"]
  /\ UNCHANGED taken

Init == phase = [o \in Orders |-> "open"] /\ taken = [o \in Orders |-> FALSE]

Next == \E o \in Orders : Begin(o) \/ Take(o) \/ Complete(o) \/ Fail(o)

Spec == Init /\ [][Next]_<<phase, taken>>
=============================================================================
