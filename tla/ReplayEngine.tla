---------------------------- MODULE ReplayEngine ----------------------------
(***************************************************************************)
(* One run of Satay, as its replay engine, task executor, run controller   *)
(* and store rows make it.  A drive re-runs the workflow from the top and  *)
(* reconciles every durable call with the journal: a recorded outcome is   *)
(* reused, a miss is executed and recorded.                                *)
(*                                                                         *)
(* A driver is an asyncio task of the one process that may drive or cancel *)
(* the run.  Every commit (an appended event, a row write) is a step of    *)
(* its own, because a crash can fall between any two commits.  Drivers     *)
(* interleave only where the code suspends, in a task body and in a        *)
(* backoff sleep: `turn` is the driver the event loop is running, Free     *)
(* while every driver is suspended or idle.                                *)
(*                                                                         *)
(* Workflow code is a function from the outcomes it has observed to its    *)
(* next durable call.  A crash may be followed by a deployment of other    *)
(* code.  Outcomes and identities keep only what the properties need.      *)
(***************************************************************************)
EXTENDS Journal, Versioning

CONSTANTS
  Driver,         \* asyncio tasks that drive or cancel the run
  Free,           \* `turn` when no driver holds the event loop
  Task,           \* task names
  Topic,          \* event types a workflow can wait for
  Value,          \* task outputs
  MaxCalls,       \* bound: durable calls of a workflow
  Version,        \* what may be deployed
  Workflow,       \* the workflow of each deployment
  Origin,         \* where each deployment's code version is taken from
  Retries,        \* retries declared by each task
  Strict,         \* nondeterminism policy is `strict`
  VersionPolicy,  \* the worker's version-mismatch policy
  MaxCrashes,     \* bound: crashes of the process
  MaxResumes,     \* bound: resumes of the run (each appends an event)
  MaxEvents,      \* bound: external events sent
  MaxTime         \* bound: the clock

Outcome == Value \cup Topic \cup {"error", "timeout", "woke"}

Histories == UNION {[1..n -> Outcome] : n \in 0..MaxCalls}

\* a durable call, or the end of the workflow; after is the duration of a sleep
\* or of a wait's timeout, 0 for a wait without one
Step == [kind : {"task", "sleep", "wait", "return", "raise"},
         name : Task \cup Topic \cup {"sleep", "none"}, after : Nat]

IsCode(c) ==
  /\ c \in [Histories -> Step]
  /\ \A h \in Histories :
       /\ c[h].kind = "task" => c[h].name \in Task
       /\ c[h].kind = "wait" => c[h].name \in Topic
       /\ c[h].kind = "sleep" => c[h].name = "sleep"
       /\ Len(h) = MaxCalls => c[h].kind \in {"return", "raise"}

ASSUME SizesAreNatural ==
  /\ MaxCalls \in Nat /\ MaxCrashes \in Nat /\ MaxResumes \in Nat
  /\ MaxEvents \in Nat /\ MaxTime \in Nat
ASSUME PoliciesAreKnown == Strict \in BOOLEAN /\ VersionPolicy \in VersionMismatchPolicy
ASSUME RetriesAreNatural == Retries \in [Task -> Nat]
ASSUME FreeIsNoDriver == Free \notin Driver
ASSUME WorkflowsAreCode == \A v \in Version : IsCode(Workflow[v])
ASSUME NamesAreDistinct ==
  /\ Task \cap Topic = {}
  /\ (Task \cup Topic) \cap {"sleep", "event", "run", "none"} = {}

\* the code version of a deployment, current_code_version while it runs
CodeVersion(v) == stamp_code_version(Origin[v])

VARIABLES
  journal,    \* events rows of the run, in seq order
  status,     \* runs.status; "none" before the row exists
  stamp,      \* runs.code_version
  timers,     \* timers rows
  inbox,      \* event_inbox rows, in arrival order
  now,        \* the injected clock
  code,       \* the deployment that runs
  pc,         \* where each driver is
  turn,       \* the driver that holds the event loop
  loaded,     \* length of the journal each drive replays
  outs,       \* outcomes the workflow has observed in this drive
  calls,      \* identities of the calls they belong to
  ordinals,   \* IdentityResolver counters
  attempt,    \* executor: current attempt number
  failures,   \* executor: failures charged to the current call
  executed,   \* history: identities whose task body ran, in order
  crashes     \* crashes so far

store == <<journal, status, stamp, timers, inbox>>
frame == <<loaded, outs, calls, ordinals, attempt, failures>>
env   == <<now, code, executed, crashes>>
vars  == <<store, env, pc, turn, frame>>

Name == Task \cup Topic \cup {"sleep", "none"}
Identity == [name : Task \cup {"sleep", "event", "run"}, ord : Nat]
Event == [type : EventType, id : Identity, n : Nat,
          val : Outcome \cup {"none", "sleep", "event_timeout", "retry", "last"}]
TimerRow == [timer_id : Nat, id : Identity, kind : {"sleep", "event_timeout"},
             fire_at : Nat, status : {"pending", "fired", "discarded"}]
InboxRow == [topic : Topic, consumed : BOOLEAN]
Pc == {"idle", "create", "drive", "replay", "attempt", "body", "returned",
       "backoff", "timer", "await", "receive", "waiting", "park", "settle", "copy"}

Init ==
  /\ journal = <<>> /\ status = "none" /\ timers = {} /\ inbox = <<>>
  /\ now = 0 /\ code \in Version /\ stamp = CodeVersion(code)
  /\ pc = [d \in Driver |-> "idle"] /\ turn = Free
  /\ loaded = [d \in Driver |-> 0]
  /\ outs = [d \in Driver |-> <<>>] /\ calls = [d \in Driver |-> <<>>]
  /\ ordinals = [d \in Driver |-> [m \in Name |-> 0]]
  /\ attempt = [d \in Driver |-> 0] /\ failures = [d \in Driver |-> 0]
  /\ executed = <<>> /\ crashes = 0

-----------------------------------------------------------------------------
(* The event loop, and what a driver sees of its drive                      *)

GoTo(d, p) == pc' = [pc EXCEPT ![d] = p] /\ turn' = d
Suspend(d, p) == pc' = [pc EXCEPT ![d] = p] /\ turn' = Free
Runs(d) == turn \in {Free, d}
At(d, p) == pc[d] = p /\ Runs(d)
Idle(d) == pc[d] = "idle" /\ turn = Free

Commit(type, id, n, val) == journal' = Append(journal, Entry(type, id, n, val))

\* the durable call the workflow is awaiting
Awaited(d) == Workflow[code][outs[d]]
Awaits(d, kind) == At(d, "replay") /\ Awaited(d).kind = kind

\* its identity: a task or a sleep by name and ordinal, a wait as event#ordinal,
\* where the ordinal counts the waits of that event type but the type is dropped
CallId(d) ==
  [name |-> IF Awaited(d).kind = "wait" THEN "event" ELSE Awaited(d).name,
   ord  |-> ordinals[d][Awaited(d).name]]

\* MUTANT of Hit: the recorded facts are not consulted
HitNothing(d, type) == FALSE

\* the replay state loaded at the start of the drive has this fact of the call
Hit(d, type) == Recorded(journal, loaded[d], type, CallId(d))

HitEvent(d, type) == journal[LatestIndex(journal, loaded[d], type, CallId(d))]

\* the workflow receives outcome o of the awaited call and runs to its next one
Observe(d, o) ==
  /\ outs' = [outs EXCEPT ![d] = Append(@, o)]
  /\ calls' = [calls EXCEPT ![d] = Append(@, CallId(d))]
  /\ ordinals' = [ordinals EXCEPT ![d][Awaited(d).name] = @ + 1]
  /\ UNCHANGED <<loaded, attempt, failures>>
  /\ GoTo(d, "replay")

\* the drive is over: its engine and its frames are gone
Release(d) ==
  /\ Suspend(d, "idle")
  /\ loaded' = [loaded EXCEPT ![d] = 0]
  /\ outs' = [outs EXCEPT ![d] = <<>>] /\ calls' = [calls EXCEPT ![d] = <<>>]
  /\ ordinals' = [ordinals EXCEPT ![d] = [m \in Name |-> 0]]
  /\ attempt' = [attempt EXCEPT ![d] = 0] /\ failures' = [failures EXCEPT ![d] = 0]

-----------------------------------------------------------------------------
(* RunController.result and RunController.cancel                            *)

\* an unknown run: insert its row, then record it
StartRun(d) ==
  /\ Idle(d) /\ status = "none"
  /\ status' = "running" /\ stamp' = CodeVersion(code)
  /\ GoTo(d, "create")
  /\ UNCHANGED <<journal, timers, inbox, env, frame>>

RecordCreated(d) ==
  /\ At(d, "create")
  /\ Commit("WorkflowCreated", NoId, 0, "none")
  /\ GoTo(d, "drive")
  /\ UNCHANGED <<status, stamp, timers, inbox, env, frame>>

\* a run interrupted while running: version check, WorkflowResumed, drive
ResumeRun(d) ==
  /\ Idle(d) /\ status = "running"
  /\ MayResume(stamp, CodeVersion(code), VersionPolicy)
  /\ Len(EventsOf(journal, Len(journal), "WorkflowResumed")) < MaxResumes
  /\ Commit("WorkflowResumed", NoId, 0, "none")
  /\ GoTo(d, "drive")
  /\ UNCHANGED <<status, stamp, timers, inbox, env, frame>>

\* a parked run is driven again with neither the check nor the event
WakeRun(d) ==
  /\ Idle(d) /\ status = "waiting"
  /\ GoTo(d, "drive")
  /\ UNCHANGED <<store, env, frame>>

\* append_cancellation; its status flip is SettleStatus
CancelRun(d) ==
  /\ Idle(d) /\ status \in {"running", "waiting"}
  /\ Commit("WorkflowCancelled", NoId, 0, "none")
  /\ GoTo(d, "settle")
  /\ UNCHANGED <<status, stamp, timers, inbox, env, frame>>

SettleStatus(d) ==
  /\ At(d, "settle")
  /\ status' = RecordedTerminalStatus(journal)
  /\ Release(d)
  /\ UNCHANGED <<journal, stamp, timers, inbox, env>>

-----------------------------------------------------------------------------
(* ReplayEngine.drive                                                       *)

\* the journal is already terminal: only reconcile the status
DriveTerminal(d) ==
  /\ At(d, "drive") /\ TerminalIndices(journal) # {}
  /\ status' = RecordedTerminalStatus(journal)
  /\ Release(d)
  /\ UNCHANGED <<journal, stamp, timers, inbox, env>>

\* MUTANT of DriveLoad: no short-circuit on a terminal journal
DriveLoadAlways(d) ==
  /\ At(d, "drive")
  /\ loaded' = [loaded EXCEPT ![d] = Len(journal)]
  /\ GoTo(d, "replay")
  /\ UNCHANGED <<store, env, outs, calls, ordinals, attempt, failures>>

DriveLoad(d) ==
  /\ At(d, "drive") /\ TerminalIndices(journal) = {}
  /\ loaded' = [loaded EXCEPT ![d] = Len(journal)]
  /\ GoTo(d, "replay")
  /\ UNCHANGED <<store, env, outs, calls, ordinals, attempt, failures>>

\* MUTANT of Return: the status flips before the terminal event commits
ReturnFlipsFirst(d) ==
  /\ Awaits(d, "return")
  /\ IF status = "completed"
     THEN Commit("WorkflowCompleted", NoId, 0, "none") /\ UNCHANGED status /\ GoTo(d, "settle")
     ELSE status' = "completed" /\ UNCHANGED <<journal, pc>> /\ turn' = d
  /\ UNCHANGED <<stamp, timers, inbox, env, frame>>

\* the workflow returned, or let an error escape; SettleStatus follows
Return(d) ==
  /\ Awaits(d, "return")
  /\ Commit("WorkflowCompleted", NoId, 0, "none")
  /\ GoTo(d, "settle")
  /\ UNCHANGED <<status, stamp, timers, inbox, env, frame>>

Raise(d) ==
  /\ Awaits(d, "raise")
  /\ Commit("WorkflowFailed", NoId, 0, "none")
  /\ GoTo(d, "settle")
  /\ UNCHANGED <<status, stamp, timers, inbox, env, frame>>

-----------------------------------------------------------------------------
(* ReplayEngine.durable_call and LocalTaskExecutor.execute                  *)

\* the task calls of this drive so far: their number is the position of the next one
TaskCalls(d) == {k \in DOMAIN calls[d] : calls[d][k].name \in Task}

\* MUTANT of Diverges: the position check is gone
NeverDiverges(d) == FALSE

\* the journal scheduled another task at this position
Diverges(d) ==
  \E i \in 1..loaded[d] :
    /\ journal[i].type = "TaskScheduled"
    /\ EarlierOf(journal, i, "TaskScheduled") = Cardinality(TaskCalls(d))
    /\ journal[i].id.name # Awaited(d).name

\* NondeterminismError under `strict` propagates out of the drive unrecorded
RefuseReplay(d) ==
  /\ Awaits(d, "task") /\ Strict /\ Diverges(d)
  /\ Release(d)
  /\ UNCHANGED <<store, env>>

CallAllowed(d) == Awaits(d, "task") /\ ~(Strict /\ Diverges(d))

ReuseResult(d) ==
  /\ CallAllowed(d) /\ Hit(d, "TaskCompleted")
  /\ Observe(d, HitEvent(d, "TaskCompleted").val)
  /\ UNCHANGED <<store, env>>

\* MUTANT of Schedule: an interrupted call is scheduled again
ScheduleAgain(d) ==
  /\ CallAllowed(d) /\ ~Hit(d, "TaskCompleted")
  /\ Commit("TaskScheduled", CallId(d), 0, "none")
  /\ attempt' = [attempt EXCEPT ![d] = MaxAttempt(journal, loaded[d], CallId(d)) + 1]
  /\ failures' = [failures EXCEPT ![d] = Failures(journal, loaded[d], CallId(d))]
  /\ GoTo(d, "attempt")
  /\ UNCHANGED <<status, stamp, timers, inbox, env, loaded, outs, calls, ordinals>>

\* MUTANT of Schedule: a resume forgets the failures already recorded
ScheduleRefilled(d) ==
  /\ CallAllowed(d) /\ ~Hit(d, "TaskCompleted")
  /\ IF Hit(d, "TaskScheduled") THEN UNCHANGED journal
     ELSE Commit("TaskScheduled", CallId(d), 0, "none")
  /\ attempt' = [attempt EXCEPT ![d] = MaxAttempt(journal, loaded[d], CallId(d)) + 1]
  /\ failures' = [failures EXCEPT ![d] = 0]
  /\ GoTo(d, "attempt")
  /\ UNCHANGED <<status, stamp, timers, inbox, env, loaded, outs, calls, ordinals>>

\* a miss: record the call once, and hand it to the executor with its history
Schedule(d) ==
  /\ CallAllowed(d) /\ ~Hit(d, "TaskCompleted")
  /\ IF Hit(d, "TaskScheduled") THEN UNCHANGED journal
     ELSE Commit("TaskScheduled", CallId(d), 0, "none")
  /\ attempt' = [attempt EXCEPT ![d] = MaxAttempt(journal, loaded[d], CallId(d)) + 1]
  /\ failures' = [failures EXCEPT ![d] = Failures(journal, loaded[d], CallId(d))]
  /\ GoTo(d, "attempt")
  /\ UNCHANGED <<status, stamp, timers, inbox, env, loaded, outs, calls, ordinals>>

StartAttempt(d) ==
  /\ At(d, "attempt")
  /\ Commit("TaskAttemptStarted", CallId(d), attempt[d], "none")
  /\ Suspend(d, "body")
  /\ UNCHANGED <<status, stamp, timers, inbox, env, frame>>

\* the task body acts on the world; the driver is still suspended in it
RunBody(d) ==
  /\ At(d, "body")
  /\ executed' = Append(executed, CallId(d))
  /\ Suspend(d, "returned")
  /\ UNCHANGED <<store, now, code, crashes, frame>>

Complete(d) ==
  /\ At(d, "returned")
  /\ \E v \in Value :
       /\ Commit("TaskCompleted", CallId(d), 0, v)
       /\ Observe(d, v)
  /\ UNCHANGED <<status, stamp, timers, inbox, env>>

\* after one more failure, is there budget for another attempt?
RetriesLeft(d) == failures[d] + 1 <= Retries[Awaited(d).name]

\* the body raised or overran its timeout, before or after its effect
FailAttempt(d) ==
  /\ At(d, "body") \/ At(d, "returned")
  /\ Commit("TaskAttemptFailed", CallId(d), attempt[d],
            IF RetriesLeft(d) THEN "retry" ELSE "last")
  /\ IF RetriesLeft(d)
     THEN /\ failures' = [failures EXCEPT ![d] = @ + 1]
          /\ Suspend(d, "backoff")
          /\ UNCHANGED <<loaded, outs, calls, ordinals, attempt>>
     ELSE Observe(d, "error")
  /\ UNCHANGED <<status, stamp, timers, inbox, env>>

Backoff(d) ==
  /\ At(d, "backoff")
  /\ attempt' = [attempt EXCEPT ![d] = @ + 1]
  /\ GoTo(d, "attempt")
  /\ UNCHANGED <<store, env, loaded, outs, calls, ordinals, failures>>

-----------------------------------------------------------------------------
(* ReplayEngine.durable_sleep and durable_wait_for_event                    *)

\* the first unconsumed inbox row of the awaited type, FIFO; 0 when there is none
Match(d) ==
  LET rows == {i \in DOMAIN inbox : /\ inbox[i].topic = Awaited(d).name
                                    /\ ~inbox[i].consumed}
  IN IF rows = {} THEN 0 ELSE Min(rows)

TimedOut(d) ==
  /\ Hit(d, "TimerFired")
  /\ HitEvent(d, "TimerFired").val = "event_timeout"

SleepOver(d) ==
  /\ Awaits(d, "sleep") /\ Hit(d, "TimerFired")
  /\ Observe(d, "woke")
  /\ UNCHANGED <<store, env>>

ReuseEvent(d) ==
  /\ Awaits(d, "wait") /\ Hit(d, "ExternalEventReceived")
  /\ Observe(d, HitEvent(d, "ExternalEventReceived").val)
  /\ UNCHANGED <<store, env>>

ReuseTimeout(d) ==
  /\ Awaits(d, "wait") /\ ~Hit(d, "ExternalEventReceived") /\ TimedOut(d)
  /\ Observe(d, "timeout")
  /\ UNCHANGED <<store, env>>

WaitMisses(d) ==
  Awaits(d, "wait") /\ ~Hit(d, "ExternalEventReceived") /\ ~TimedOut(d)

\* a buffered event: the inbox row is consumed first, the event recorded next
ConsumeEvent(d) ==
  /\ WaitMisses(d) /\ Match(d) # 0
  /\ inbox' = [inbox EXCEPT ![Match(d)].consumed = TRUE]
  /\ GoTo(d, "receive")
  /\ UNCHANGED <<journal, status, stamp, timers, env, frame>>

RecordEvent(d) ==
  /\ At(d, "receive")
  /\ Commit("ExternalEventReceived", CallId(d), 0, Awaited(d).name)
  /\ Observe(d, Awaited(d).name)
  /\ UNCHANGED <<status, stamp, timers, inbox, env>>

\* a miss that has to park
Parks(d) ==
  \/ Awaits(d, "sleep") /\ ~Hit(d, "TimerFired")
  \/ WaitMisses(d) /\ Match(d) = 0

\* MUTANT of CreateTimer: guarded by the event that commits after it (KAN-443)
CreateTimerSharedGuard(d) ==
  /\ Parks(d) /\ (Awaited(d).kind = "sleep" \/ Awaited(d).after # 0)
  /\ IF Hit(d, "EventWaitStarted") THEN UNCHANGED journal
     ELSE Commit("TimerCreated", CallId(d), now + Awaited(d).after,
                 IF Awaited(d).kind = "sleep" THEN "sleep" ELSE "event_timeout")
  /\ GoTo(d, "timer")
  /\ UNCHANGED <<status, stamp, timers, inbox, env, frame>>

\* a sleep, or a wait with a timeout, records its timer once ...
CreateTimer(d) ==
  /\ Parks(d) /\ (Awaited(d).kind = "sleep" \/ Awaited(d).after # 0)
  /\ IF Hit(d, "TimerCreated") THEN UNCHANGED journal
     ELSE Commit("TimerCreated", CallId(d), now + Awaited(d).after,
                 IF Awaited(d).kind = "sleep" THEN "sleep" ELSE "event_timeout")
  /\ GoTo(d, "timer")
  /\ UNCHANGED <<status, stamp, timers, inbox, env, frame>>

\* _timers_created: what the drive loaded, or else what it just recorded itself
KnownTimer(d) ==
  LatestIndex(journal,
              IF Hit(d, "TimerCreated") THEN loaded[d] ELSE Len(journal),
              "TimerCreated", CallId(d))

RowOf(d) ==
  LET e == journal[KnownTimer(d)]
  IN [timer_id |-> KnownTimer(d), id |-> e.id, kind |-> e.val,
      fire_at |-> e.n, status |-> "pending"]

\* MUTANT of EnsureTimerRow: a drive that finds the event takes the row for granted
EnsureTimerRowOnce(d) ==
  /\ At(d, "timer")
  /\ timers' = IF Hit(d, "TimerCreated") THEN timers ELSE timers \cup {RowOf(d)}
  /\ GoTo(d, IF Awaited(d).kind = "sleep" THEN "waiting" ELSE "await")
  /\ UNCHANGED <<journal, status, stamp, inbox, env, frame>>

\* ... and then always (re)inserts the row the event implies
EnsureTimerRow(d) ==
  /\ At(d, "timer")
  /\ timers' = IF \E row \in timers : row.timer_id = KnownTimer(d) THEN timers
               ELSE timers \cup {RowOf(d)}
  /\ GoTo(d, IF Awaited(d).kind = "sleep" THEN "waiting" ELSE "await")
  /\ UNCHANGED <<journal, status, stamp, inbox, env, frame>>

StartWait(d) ==
  /\ \/ At(d, "await")
     \/ Parks(d) /\ Awaited(d).kind = "wait" /\ Awaited(d).after = 0
  /\ IF Hit(d, "EventWaitStarted") THEN UNCHANGED journal
     ELSE Commit("EventWaitStarted", CallId(d), 0, Awaited(d).name)
  /\ GoTo(d, "waiting")
  /\ UNCHANGED <<status, stamp, timers, inbox, env, frame>>

RecordWaiting(d) ==
  /\ At(d, "waiting")
  /\ IF Hit(d, "WorkflowWaiting") THEN UNCHANGED journal
     ELSE Commit("WorkflowWaiting", CallId(d), 0, "none")
  /\ GoTo(d, "park")
  /\ UNCHANGED <<status, stamp, timers, inbox, env, frame>>

\* WorkflowParked unwinds the workflow and drive marks the run waiting
Park(d) ==
  /\ At(d, "park")
  /\ status' = "waiting"
  /\ Release(d)
  /\ UNCHANGED <<journal, stamp, timers, inbox, env>>

-----------------------------------------------------------------------------
(* The poll loop, as far as the run can see it: TimerEventWorker says when   *)

\* MUTANT of Received: a delivered event does not discard the timeout
ReceivedUnseen(row) == FALSE

\* the wait was resolved by an event before its timeout
Received(row) ==
  /\ row.kind = "event_timeout"
  /\ Recorded(journal, Len(journal), "ExternalEventReceived", row.id)

\* MUTANT of AlreadyFired: only the row guards a second fire
AlreadyFiredUnseen(row) == FALSE

AlreadyFired(row) ==
  \E i \in 1..Len(journal) : journal[i].type = "TimerFired" /\ journal[i].id = row.id
                             /\ journal[i].val = row.kind

\* due_timers
DueTimers == {row \in timers : row.status = "pending" /\ row.fire_at <= now}

SetTimerStatus(row, s) == timers' = (timers \ {row}) \cup {[row EXCEPT !.status = s]}

\* TimerFired is appended, whatever the run's status ...
FireTimer(row) ==
  /\ turn = Free /\ row \in DueTimers /\ ~Received(row) /\ ~AlreadyFired(row)
  /\ Commit("TimerFired", row.id, row.fire_at, row.kind)
  /\ UNCHANGED <<status, stamp, timers, inbox, env, pc, turn, frame>>

\* ... and a timer that has fired, or whose wait was resolved, leaves the due ones
SettleTimer(row) ==
  /\ turn = Free /\ row \in DueTimers /\ (Received(row) \/ AlreadyFired(row))
  /\ SetTimerStatus(row, IF Received(row) THEN "discarded" ELSE "fired")
  /\ UNCHANGED <<journal, status, stamp, inbox, env, pc, turn, frame>>

\* _redrive: straight to drive, without version check or WorkflowResumed
Redrive(d) ==
  /\ Idle(d) /\ status \in {"running", "waiting"}
  /\ GoTo(d, "drive")
  /\ UNCHANGED <<store, env, frame>>

-----------------------------------------------------------------------------
(* The environment                                                          *)

\* add_inbox_event
Buffered(t) == Append(inbox, [topic |-> t, consumed |-> FALSE])

\* satay.send_event writes the inbox row; no run is told
SendEvent(t) ==
  /\ turn = Free /\ Len(inbox) < MaxEvents
  /\ inbox' = Buffered(t)
  /\ UNCHANGED <<journal, status, stamp, timers, env, pc, turn, frame>>

PassTime ==
  /\ now < MaxTime
  /\ now' = now + 1
  /\ UNCHANGED <<store, code, executed, crashes, pc, turn, frame>>

\* the process dies with every driver; it comes back, perhaps with other code
Crash ==
  /\ status # "none" /\ crashes < MaxCrashes
  /\ crashes' = crashes + 1
  /\ code' \in Version
  /\ pc' = [d \in Driver |-> "idle"] /\ turn' = Free
  /\ loaded' = [d \in Driver |-> 0]
  /\ outs' = [d \in Driver |-> <<>>] /\ calls' = [d \in Driver |-> <<>>]
  /\ ordinals' = [d \in Driver |-> [m \in Name |-> 0]]
  /\ attempt' = [d \in Driver |-> 0] /\ failures' = [d \in Driver |-> 0]
  /\ UNCHANGED <<store, now, executed>>

Control(d) ==
  \/ StartRun(d) \/ RecordCreated(d) \/ ResumeRun(d) \/ WakeRun(d)
  \/ CancelRun(d) \/ SettleStatus(d) \/ Redrive(d)

Drive(d) == DriveTerminal(d) \/ DriveLoad(d) \/ Return(d) \/ Raise(d)

CallTask(d) ==
  \/ ReuseResult(d) \/ Schedule(d) \/ StartAttempt(d)
  \/ RunBody(d) \/ Complete(d) \/ FailAttempt(d) \/ Backoff(d)

CallPrimitive(d) ==
  \/ SleepOver(d) \/ ReuseEvent(d) \/ ReuseTimeout(d) \/ ConsumeEvent(d)
  \/ RecordEvent(d) \/ CreateTimer(d) \/ EnsureTimerRow(d) \/ StartWait(d)
  \/ RecordWaiting(d)

Next ==
  \/ \E d \in Driver : \/ Control(d) \/ Drive(d) \/ CallTask(d) \/ CallPrimitive(d)
                      \/ RefuseReplay(d) \/ Park(d)
  \/ \E row \in timers : FireTimer(row) \/ SettleTimer(row)
  \/ \E t \in Topic : SendEvent(t)
  \/ PassTime
  \/ Crash

Spec == Init /\ [][Next]_vars

-----------------------------------------------------------------------------
(* Correctness                                                              *)

AllIdle == \A d \in Driver : pc[d] = "idle"

StoreTypeOK ==
  /\ journal \in Seq(Event)
  /\ status \in {"none", "running", "waiting"} \cup TerminalStatus
  /\ stamp \in {CodeVersion(v) : v \in Version}
  /\ timers \subseteq TimerRow /\ inbox \in Seq(InboxRow)

EnvTypeOK ==
  /\ now \in Nat /\ crashes \in Nat
  /\ code \in Version /\ executed \in Seq(Identity)

DriverTypeOK ==
  /\ pc \in [Driver -> Pc] /\ turn \in Driver \cup {Free}
  /\ loaded \in [Driver -> Nat]
  /\ outs \in [Driver -> Histories] /\ calls \in [Driver -> Seq(Identity)]
  /\ ordinals \in [Driver -> [Name -> Nat]]
  /\ attempt \in [Driver -> Nat] /\ failures \in [Driver -> Nat]

\* Every variable holds what its column or attribute can hold.
TypeOK == StoreTypeOK /\ EnvTypeOK /\ DriverTypeOK

RecordedOnce(types) ==
  \A i, k \in DOMAIN journal :
    /\ journal[i].type \in types
    /\ journal[k].type = journal[i].type /\ journal[k].id = journal[i].id
    => i = k

\* A logical task call is scheduled once and completes once, however often it
\* is resumed, retried or replayed (ADR-0006, once-recorded completion).
TaskRecordedOnce == RecordedOnce({"TaskScheduled", "TaskCompleted"})

\* A park is recorded once: a resume completes the writes a crash cut off and
\* repeats none, so no second timer and no second wait exist (KAN-443).
ParkRecordedOnce ==
  RecordedOnce({"TimerCreated", "EventWaitStarted", "WorkflowWaiting",
                "ExternalEventReceived"})

\* The event that ends a drive is appended only to a journal that has not
\* ended: a crash before the status flip makes no second outcome (ADR-0004).
DriveOutcomeIsFirst ==
  \A i, k \in TerminalIndices(journal) :
    i < k => journal[k].type = "WorkflowCancelled"

\* runs.status may lag the journal and never leads it (ADR-0004): a terminal
\* status was recorded by the journal's last terminal event before.
StatusNeverLeads ==
  status \in TerminalStatus =>
    \E i \in TerminalIndices(journal) :
      /\ \A k \in TerminalIndices(journal) : k <= i
      /\ \/ journal[i].type = "WorkflowCompleted" /\ status = "completed"
         \/ journal[i].type = "WorkflowFailed" /\ status = "failed"
         \/ journal[i].type = "WorkflowCancelled" /\ status = "cancelled"

\* A run parks only with everything its wake-up needs on disk: the park, the
\* wait, and a timers row at the deadline the journal recorded (KAN-443).
ParkIsComplete ==
  \A d \in Driver : pc[d] = "park" =>
    LET has(type) == Recorded(journal, Len(journal), type, CallId(d))
    IN /\ has("WorkflowWaiting")
       /\ Awaited(d).kind = "wait" => has("EventWaitStarted")
       /\ Awaited(d).kind = "sleep" \/ Awaited(d).after # 0 =>
            \E row \in timers :
              /\ row.id = CallId(d) /\ row.timer_id \in DOMAIN journal
              /\ journal[row.timer_id].type = "TimerCreated"
              /\ journal[row.timer_id].id = row.id
              /\ journal[row.timer_id].n = row.fire_at

\* A park is recorded whole, and once.
ParksAreRecorded == ParkRecordedOnce /\ ParkIsComplete

\* the results a drive has seen; only an exhausted task gives none
Results(d) == {k \in TaskCalls(d) : outs[d][k] # "error"}

\* What the workflow observes in any drive is what the journal recorded: its n-th
\* result is the journal's n-th completion, of the same call and with the same value,
\* even after the code was replaced (strict replay refuses the rest).
ReplayFollowsJournal ==
  \A d \in Driver : \A k \in Results(d) : \E i \in DOMAIN journal :
    /\ journal[i].type = "TaskCompleted"
    /\ journal[i].id = calls[d][k] /\ journal[i].val = outs[d][k]
    /\ EarlierOf(journal, i, "TaskCompleted") = Cardinality({l \in Results(d) : l < k})

\* Attempt numbers of a call go up by one through retries and resumes; the
\* task reads its number from the context.
AttemptsAscend ==
  \A i \in DOMAIN journal : journal[i].type = "TaskAttemptStarted" =>
    journal[i].n = 1 + Cardinality({k \in 1..(i - 1) :
                          /\ journal[k].type = "TaskAttemptStarted"
                          /\ journal[k].id = journal[i].id})

\* Retries bound the recorded failures of a call: a crash between the last of
\* them and WorkflowFailed buys one attempt more, and a resume never refills the
\* budget.
RetryBudget ==
  \A i \in DOMAIN journal : journal[i].type = "TaskAttemptFailed" =>
    Failures(journal, Len(journal), journal[i].id)
      <= Retries[journal[i].id.name] + 1 + crashes

\* The attempts of a call are counted right across crashes and resumes: in their
\* numbers, and against the retries.
AttemptsAreCounted == AttemptsAscend /\ RetryBudget

\* Once a result is recorded, no step runs that call's body again (ADR-0006,
\* replay reuses it).
NoReexecution ==
  [][executed' # executed =>
       ~Recorded(journal, Len(journal), "TaskCompleted", executed'[Len(executed')])]_vars

-----------------------------------------------------------------------------
(* Claims of the repository that the code does not keep                     *)

\* "if the process instead crashes while parked, nothing is lost"
\* (SLICE-V3.md): every consumed event was received by a wait.
EventsNotLost ==
  AllIdle =>
    Cardinality({i \in DOMAIN inbox : inbox[i].consumed}) <=
      Cardinality({i \in DOMAIN journal : journal[i].type = "ExternalEventReceived"})

\* "Append WorkflowCancelled and halt the run" (studio.md): a terminal status
\* is final.
OutcomeIsFinal == [][(status \in TerminalStatus) => (status' = status)]_vars
=============================================================================
