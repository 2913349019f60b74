----------------------------- MODULE KillState -----------------------------
(***************************************************************************)
(* The states of the global kill switch (KillSwitchState in core/types.py) *)
(* and the methods of KillSwitchEngine (execution/kill_switch.py) that the *)
(* application calls, each as the state it leaves behind.  The engine      *)
(* holds one state for all its causes: a trip overwrites whatever cause    *)
(* was there before.                                                       *)
(***************************************************************************)
KillSwitchState ==
  {"OK", "DAILY_LOSS", "DRAWDOWN_HALVED", "DRAWDOWN_PAUSED",
   "DRAWDOWN_LIQUIDATE", "HEARTBEAT_MISSED", "RECONCILIATION_BREAK",
   "BUDGET_EXHAUSTED"}

\* Clearing one cause leaves every other state alone.
ClearCause(s, cause) == IF s = cause THEN "OK" ELSE s

RecordHeartbeat(s) == ClearCause(s, "HEARTBEAT_MISSED")
ResetDaily(s) == ClearCause(s, "DAILY_LOSS")
ClearReconciliationBreak(s) == ClearCause(s, "RECONCILIATION_BREAK")

\* check_heartbeat trips over any other cause.
CheckHeartbeat(s, overdue) == IF overdue THEN "HEARTBEAT_MISSED" ELSE s
=============================================================================
