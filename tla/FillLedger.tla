----------------------------- MODULE FillLedger -----------------------------
(***************************************************************************)
(* What the OMS promises about quantities, whatever the order of messages, *)
(* crashes and recoveries: every unit the broker executes is booked at     *)
(* most once, nothing is booked that was not executed, and nothing booked  *)
(* is ever forgotten.                                                      *)
(***************************************************************************)
EXTENDS Integers

CONSTANTS
  Order,   \* the orders
  Units    \* units of each order

VARIABLES
  executed,  \* per order, units the broker has executed
  booked     \* per order, units of the fills the OMS has recorded

Init ==
  /\ executed = [o \in Order |-> 0]
  /\ booked = [o \in Order |-> 0]

Execute(o) ==
  /\ \E k \in 1..(Units - executed[o]) :
       executed' = [executed EXCEPT ![o] = @ + k]
  /\ UNCHANGED booked

Book(o) ==
  /\ \E k \in 1..(executed[o] - booked[o]) :
       booked' = [booked EXCEPT ![o] = @ + k]
  /\ UNCHANGED executed

Next == \E o \in Order : Execute(o) \/ Book(o)

Spec == Init /\ [][Next]_<<executed, booked>>
=============================================================================
