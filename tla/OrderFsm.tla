------------------------------ MODULE OrderFsm ------------------------------
(***************************************************************************)
(* The order lifecycle of core/state_machine.py: the arcs of               *)
(* build_order_fsm and the trigger operation of StateMachine.  An event    *)
(* that has no arc in the current state is refused: trigger returns False  *)
(* and the machine stays where it is.                                      *)
(***************************************************************************)

OrderState == {"PENDING", "SUBMITTED", "ACCEPTED", "PARTIAL",
               "FILLED", "CANCELLED", "REJECTED", "EXPIRED"}

OrderEvent == {"SUBMIT", "ACCEPT", "PARTIAL_FILL", "FULL_FILL",
               "CANCEL", "REJECT", "EXPIRE"}

\* _TERMINAL_STATES of execution/oms.py.
TerminalStates == {"FILLED", "CANCELLED", "REJECTED", "EXPIRED"}

\* The transition table, one triple <<from, event, to>> per arc.
Arcs ==
  {<<"PENDING", "SUBMIT", "SUBMITTED">>,
   <<"SUBMITTED", "ACCEPT", "ACCEPTED">>,
   <<"ACCEPTED", "PARTIAL_FILL", "PARTIAL">>,
   <<"PARTIAL", "PARTIAL_FILL", "PARTIAL">>,
   <<"ACCEPTED", "FULL_FILL", "FILLED">>,
   <<"PARTIAL", "FULL_FILL", "FILLED">>,
   <<"SUBMITTED", "CANCEL", "CANCELLED">>,
   <<"ACCEPTED", "CANCEL", "CANCELLED">>,
   <<"PARTIAL", "CANCEL", "CANCELLED">>,
   <<"PENDING", "REJECT", "REJECTED">>,
   <<"SUBMITTED", "REJECT", "REJECTED">>,
   <<"ACCEPTED", "REJECT", "REJECTED">>,
   <<"ACCEPTED", "EXPIRE", "EXPIRED">>,
   <<"PARTIAL", "EXPIRE", "EXPIRED">>}

CanTrigger(s, e) == \E to \in OrderState : <<s, e, to>> \in Arcs

\* The state after trigger(e): the target of the arc, or s when there is none.
Trigger(s, e) ==
  IF CanTrigger(s, e)
  THEN CHOOSE to \in OrderState : <<s, e, to>> \in Arcs
  ELSE s
=============================================================================
