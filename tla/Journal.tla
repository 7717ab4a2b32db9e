------------------------------ MODULE Journal ------------------------------
(***************************************************************************)
(* The append-only journal of one run, and what the code reads back from   *)
(* it.  A journal is a sequence of events; the position of an event is its *)
(* per-run `seq`.  A replay works on the prefix it loaded, so every reader *)
(* takes the journal j and the length n of the prefix it may look at.      *)
(*                                                                         *)
(* An event keeps the four things the properties tell apart: its type, the *)
(* durable identity it belongs to, a number (the attempt of a task event,  *)
(* the deadline of a timer) and a value (an output, a timer kind).         *)
(***************************************************************************)
EXTENDS Naturals, Sequences, FiniteSets, FiniteSetsExt

\* the types of the events the models record (events.py)
EventType ==
  {"WorkflowCreated", "WorkflowResumed", "TaskScheduled", "TaskAttemptStarted",
   "TaskAttemptFailed", "TaskCompleted", "TaskFailed", "TimerCreated", "TimerFired",
   "EventWaitStarted", "ExternalEventReceived", "WorkflowWaiting",
   "WorkflowCompleted", "WorkflowFailed", "WorkflowCancelled", "RunForked"}

TerminalType == {"WorkflowCompleted", "WorkflowFailed", "WorkflowCancelled"}

TerminalStatus == {"completed", "failed", "cancelled"}

\* the identity of events that belong to the run and not to one durable call
NoId == [name |-> "run", ord |-> 0]

Entry(type, id, n, val) == [type |-> type, id |-> id, n |-> n, val |-> val]

\* MUTANT of StatusOf: the event's own type is written into runs.status
StatusIsEventType(type) == type

\* _TERMINAL_EVENT_STATUS
StatusOf(type) == CASE type = "WorkflowCompleted" -> "completed"
                    [] type = "WorkflowFailed" -> "failed"
                    [] type = "WorkflowCancelled" -> "cancelled"

\* Did the first n events record `type` for this identity?
Recorded(j, n, type, id) == \E i \in 1..n : j[i].type = type /\ j[i].id = id

\* The dict a drive loads keeps the last payload recorded for an identity.
LatestIndex(j, n, type, id) ==
  Max({i \in 1..n : j[i].type = type /\ j[i].id = id})

TerminalIndices(j) == {i \in DOMAIN j : j[i].type \in TerminalType}

\* _recorded_terminal_status: scanned from the end
RecordedTerminalStatus(j) == StatusOf(j[Max(TerminalIndices(j))].type)

\* self._max_attempt: the highest attempt number started or failed so far
MaxAttempt(j, n, id) ==
  Max({0} \cup {j[i].n : i \in {k \in 1..n :
                 /\ j[k].id = id
                 /\ j[k].type \in {"TaskAttemptStarted", "TaskAttemptFailed"}}})

\* self._failures: recorded failures of a call, which spend its retry budget
Failures(j, n, id) ==
  Cardinality({i \in 1..n : j[i].type = "TaskAttemptFailed" /\ j[i].id = id})

\* how many events of one type come before the i-th event
EarlierOf(j, i, type) == Cardinality({k \in 1..(i - 1) : j[k].type = type})

\* the events of one type in a prefix, in journal order
EventsOf(j, n, type) == SelectSeq(SubSeq(j, 1, n), LAMBDA e : e.type = type)
=============================================================================
