------------------------------- MODULE Ladder -------------------------------
(***************************************************************************)
(* The tracker as the application wires it: App subscribes                 *)
(* _on_drawdown_ladder_fired to the event that update_on_mark publishes    *)
(* while it holds the tracker's lock (a threading.Lock, not reentrant).    *)
(* For a bucket worse than YELLOW the handler builds the Manager's state,  *)
(* which begins with tracker.get_state, asks the Manager and stores a      *)
(* directive for the sleeve; the bucket itself is set when publish returns.*)
(***************************************************************************)
EXTENDS Tracker

CONSTANT Escalated   \* buckets the Manager is asked about

VARIABLES
  asked,      \* per marking thread: no, state (in build_agent_state), answer
  directive   \* sleeves' directives in the Manager's memory: pending or written

varsL == <<trackerVars, asked, directive>>

InitL == InitTracker /\ asked = [t \in MarkThread |-> "no"] /\ directive = "none"

Worse(r) == Classify(r.peak, r.equity) > r.bucket
Escalates(r) == Worse(r) /\ Classify(r.peak, r.equity) \in Escalated

\* update_on_mark as far as the publication, and into the handler.
MarkEscalates(t) ==
  /\ Enter(t, "idle")
  /\ \E e \in Equity :
       /\ Escalates(Marked(rec, e))
       /\ rec' = Marked(rec, e)
       /\ Read(Classify(rec'.peak, e))
  /\ lock' = t
  /\ asked' = [asked EXCEPT ![t] = "state"]
  /\ directive' = "pending"
  /\ UNCHANGED <<now, pos, held, engine, pc, copy, stored, overlap, lost>>

\* build_agent_state(MANAGER) gets past tracker.get_state.
StateIsBuilt(t) ==
  /\ asked[t] = "state" /\ lock = NoThread
  /\ asked' = [asked EXCEPT ![t] = "answer"]
  /\ UNCHANGED <<trackerVars, directive>>

\* The Manager answers and write_drawdown_directive stores it, or the call
\* fails and is logged; publish returns and the bucket is set.
ManagerAnswers(t) ==
  /\ asked[t] = "answer"
  /\ asked' = [asked EXCEPT ![t] = "no"]
  /\ directive' \in {"written", "failed"}
  /\ rec' = Laddered(rec)
  /\ lock' = NoThread
  /\ pc' = [pc EXCEPT ![t] = "persist"]
  /\ UNCHANGED <<now, pos, held, engine, copy, stored, trackerHistory>>

MarkQuietly(t) ==
  /\ asked[t] = "no"
  /\ Mark(t)
  /\ ~Escalates([rec EXCEPT !.equity = rec'.equity, !.peak = rec'.peak])
  /\ UNCHANGED <<asked, directive>>

Others ==
  /\ Trade \/ Persist \/ GetState \/ EngineUnbenches \/ Tick
  /\ UNCHANGED <<asked, directive>>

Step(t) == MarkEscalates(t) \/ StateIsBuilt(t) \/ ManagerAnswers(t)

NextL == Others \/ \E t \in MarkThread : Step(t) \/ MarkQuietly(t)

\* A thread that can go on does: the handler has no other reason to wait.
LadderSpec ==
  /\ InitL /\ [][NextL]_varsL
  /\ \A t \in MarkThread : WF_varsL(StateIsBuilt(t)) /\ WF_varsL(ManagerAnswers(t))

\* A drawdown that reaches a worse bucket gets it, whatever becomes of the
\* event: of _publish_ladder_event, "Failures are swallowed - bucket
\* transition state is more important than event-bus delivery".
TighteningSettles ==
  \A t \in MarkThread : lock = t ~> (lock # t /\ rec.bucket \in Escalated)
=============================================================================
