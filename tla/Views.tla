-------------------------------- MODULE Views --------------------------------
(***************************************************************************)
(* What readers are told of a run: control/views.py, behind the HTTP read  *)
(* API, Studio, satay.inspect and satay.diff.                              *)
(* Every view is a fold over the journal j, together with the status st of *)
(* the run's row, which may lag the journal.                               *)
(*                                                                         *)
(* A payload is known by its name (a value of the task) and how often it   *)
(* was copied into a fork; Payloads says what a name stands for.           *)
(***************************************************************************)
EXTENDS Journal, Versioning, SequencesExt

TaskEvent ==
  {"TaskScheduled", "TaskAttemptStarted", "TaskAttemptFailed", "TaskCompleted", "TaskFailed"}

\* _TASK_EVENTS and call_identity: the durable calls a reader sees
CallsOf(j) == {j[i].id : i \in {k \in DOMAIN j : j[k].type \in TaskEvent}}

EventsOfCall(j, id) == SelectSeq(j, LAMBDA e : e.id = id /\ e.type \in TaskEvent)

\* next_delay is None: the failure that spent the last of the budget
IsLast(e) == e.type = "TaskAttemptFailed" /\ e.val = "last"

Numbers(es) == {es[i].n : i \in {k \in DOMAIN es : es[k].type \in {"TaskAttemptStarted", "TaskAttemptFailed"}}}

\* _scan_tasks: one entry per call
Scan(j, id) ==
  LET es == EventsOfCall(j, id) IN
  [first     |-> Min({i \in DOMAIN j : j[i].id = id /\ j[i].type \in TaskEvent}),
   attempts  |-> Max({0} \cup Numbers(es)),
   completed |-> \E i \in DOMAIN es : es[i].type = "TaskCompleted",
   exhausted |-> \E i \in DOMAIN es : IsLast(es[i])]

\* _task_status
TaskStatus(info, runFailed) ==
  CASE info.completed -> "completed"
    [] ~info.completed /\ (info.exhausted \/ runFailed) -> "failed"
    [] ~info.completed /\ ~info.exhausted /\ ~runFailed -> "running"

\* tree: a node per call, in the order they were first seen
Tree(j, st) ==
  LET node(id) == LET info == Scan(j, id)
                  IN  [id |-> id, first |-> info.first, attempts |-> info.attempts,
                       status |-> TaskStatus(info, st = "failed")]
  IN  SetToSortSeq({node(id) : id \in CallsOf(j)}, LAMBDA a, b : a.first < b.first)

\* MUTANT of MapStatus: one completed item completes the map
MapStatusAny(statuses) ==
  CASE "completed" \in statuses -> "completed"
    [] "completed" \notin statuses -> IF "failed" \in statuses THEN "failed" ELSE "running"

\* ... and the node of a map, over the statuses of its items
MapStatus(statuses) ==
  CASE "failed" \in statuses -> "failed"
    [] statuses = {"completed"} -> "completed"
    [] OTHER -> "running"

-----------------------------------------------------------------------------
(* task_detail                                                              *)

NoDetail == [status |-> "running", attempts |-> <<>>, exhausted |-> FALSE, output |-> "none"]

Started(e) == [n |-> e.n, status |-> "running"]

\* the attempt in hand ends with this status
EndAttempt(detail, s) == [detail EXCEPT !.attempts[Len(detail.attempts)].status = s]

\* MUTANT of DetailStep: the verdict on a failed attempt is not read
DetailStepRunning(detail, e) ==
  CASE e.type = "TaskAttemptStarted" -> [detail EXCEPT !.attempts = Append(@, Started(e))]
    [] e.type = "TaskAttemptFailed" /\ detail.attempts # <<>> -> EndAttempt(detail, "failed")
    [] e.type = "TaskCompleted" /\ detail.attempts # <<>> ->
         [EndAttempt(detail, "completed") EXCEPT !.status = "completed", !.output = e.val]
    [] OTHER -> detail

DetailStep(detail, e) ==
  CASE e.type = "TaskAttemptStarted" -> [detail EXCEPT !.attempts = Append(@, Started(e))]
    [] e.type = "TaskAttemptFailed" /\ detail.attempts # <<>> ->
         [EndAttempt(detail, "failed") EXCEPT !.exhausted = @ \/ IsLast(e)]
    [] e.type = "TaskCompleted" /\ detail.attempts # <<>> ->
         [EndAttempt(detail, "completed") EXCEPT !.status = "completed", !.output = e.val]
    [] OTHER -> detail

TaskDetail(j, id) ==
  LET detail == FoldLeft(DetailStep, NoDetail, EventsOfCall(j, id))
      status == IF detail.status # "completed" /\ detail.exhausted THEN "failed"
                ELSE detail.status
  IN  [status |-> status, attempts |-> detail.attempts, output |-> detail.output]

-----------------------------------------------------------------------------
(* inspect, compare and run_list                                            *)

\* _run_outcome and _outcome_from_events: from the end, cancellations skipped
RunOutcome(j) ==
  LET ends == {i \in DOMAIN j : j[i].type \in {"WorkflowCompleted", "WorkflowFailed"}}
  IN  CASE ends = {} -> "none"
        [] ends # {} /\ j[Max(ends)].type = "WorkflowCompleted" -> "output"
        [] OTHER -> "error"

\* _calls_view, one call: its last recorded output and how it went
CallView(j, st, id) ==
  LET info == Scan(j, id) IN
  [id |-> id, first |-> info.first, attempts |-> info.attempts,
   status |-> TaskStatus(info, st = "failed"),
   output |-> IF Recorded(j, Len(j), "TaskCompleted", id)
              THEN j[LatestIndex(j, Len(j), "TaskCompleted", id)].val ELSE "none"]

\* _fork_lineage: the record with the greatest seq is the run's own
ForkLineage(j) ==
  LET forks == {i \in DOMAIN j : j[i].type = "RunForked"}
  IN  IF forks = {} THEN "none" ELSE ToString(j[Max(forks)].n)

\* model_usage: the attempts that ended, well or not, each with the usage it reported
ModelUsage(j) == SelectSeq(j, LAMBDA e : e.type \in {"TaskCompleted", "TaskAttemptFailed"})

\* run_calls and inspect: the calls in the order they were scheduled, and the outcome
Inspect(j, st) ==
  [status |-> st, outcome |-> RunOutcome(j), usage |-> ModelUsage(j),
   calls  |-> SetToSortSeq({CallView(j, st, id) : id \in CallsOf(j)},
                           LAMBDA a, b : a.first < b.first)]

\* _version_mismatch, the banner of a run
Banner(stamped, current) ==
  [stamped |-> stamped, current |-> current,
   mismatch |-> is_version_mismatch(stamped, current)]

\* _run_summary, an element of run_list
Summary(j, st, stamped, current) ==
  [status |-> st, version_mismatch |-> Banner(stamped, current),
   forked_from |-> ForkLineage(j)]

IsInterruption(e) == e.type = "WorkflowResumed"

\* timeline: every event as it is, the recoveries among them marked
Timeline(j, st, stamped, current) ==
  [status |-> st, interrupted |-> \E i \in DOMAIN j : IsInterruption(j[i]),
   version_mismatch |-> Banner(stamped, current), forked_from |-> ForkLineage(j),
   events |-> [i \in DOMAIN j |-> [event |-> j[i], is_interruption |-> IsInterruption(j[i])]]]

=============================================================================
