------------------------------- MODULE FanOut -------------------------------
(***************************************************************************)
(* The fan-outs of a run: satay.map and satay.gather, fail-fast or in      *)
(* collect mode.  The workflow makes one fan-out after the other.  The     *)
(* members of a fan-out are asyncio tasks of one drive; they share what    *)
(* the drive loaded, interleave in task bodies and backoffs, and each      *)
(* commit is a step of its own (a crash can fall between any two).         *)
(*                                                                         *)
(* `turn` is the member <<d, i>> of drive d that holds the event loop,     *)
(* <<d, 0>> for the workflow itself, Free while all are suspended.         *)
(*                                                                         *)
(* The events that create, resume or cancel a run are ReplayEngine's.      *)
(***************************************************************************)
EXTENDS Journal

CONSTANTS
  Driver,      \* asyncio tasks that may drive the run: a caller, the poll loop
  Free,        \* `turn` when no member holds the event loop
  Task,        \* task names
  Key,         \* map keys
  NoKey,       \* the key of a call that is told apart by its ordinal
  Value,       \* task outputs
  Version,     \* the code versions that may be deployed
  Plan,        \* the fan-outs of each version, in order
  Retries,     \* retries declared by each task
  Unsafe,      \* the tasks of each version that effect safety `strict` refuses
  MaxCrashes,  \* bound: crashes of the process
  MaxDrives    \* bound: drives of the run

\* a member: a task call, a map item (keyed), or a sleep; nested is a fail-fast
\* map that is the member of a collecting gather
Call == [name : Task \cup {"sleep"}, key : Key \cup {NoKey}]
Round == [mode : {"failfast", "collect", "nested"}, calls : Seq(Call), width : Nat \ {0}]

IsRound(r) ==
  /\ r \in Round /\ r.calls # <<>>
  /\ \A i \in DOMAIN r.calls : r.calls[i].name = "sleep" => r.calls[i].key = NoKey
  \* the items of a map are keyed calls of one task; only a map has a concurrency
  /\ \A i, k \in DOMAIN r.calls :
       r.calls[i].key # NoKey => r.calls[k].key # NoKey /\ r.calls[k].name = r.calls[i].name
  /\ \A i \in DOMAIN r.calls : r.calls[i].key = NoKey => r.width >= Len(r.calls)
  \* resolve_map_keys: keys are unique within one map
  /\ \A i, k \in DOMAIN r.calls :
       r.calls[i] = r.calls[k] /\ r.calls[i].key # NoKey => i = k

ASSUME BoundsAreNatural == MaxCrashes \in Nat /\ MaxDrives \in Nat
ASSUME RetriesAreNatural == Retries \in [Task -> Nat]
\* a side effect without a guard is a danger only where it may be retried
ASSUME UnsafeMayRetry ==
  /\ Unsafe \in [Version -> SUBSET Task]
  /\ \A v \in Version : \A t \in Unsafe[v] : Retries[t] > 0
ASSUME FreeIsNoDriver == Free \notin Driver /\ NoKey \notin Key
\* sleeps have a resolver of their own, and events of the run no identity: neither is
\* mistaken for a task; a key, a string, is no ordinal
ASSUME NamesAreApart ==
  /\ {"sleep", NoId.name} \cap Task = {}
  /\ \A k \in Key \cup {NoKey} : k \notin Nat
\* what a task returns is told apart from the other ways in which a member ends
ASSUME ResultsAreResults == Value \cap {"none", "error", "parked", "woke", "diverged", "unsafe"} = {}
ASSUME PlansAreRounds ==
  /\ Plan \in [Version -> Seq(Round)]
  /\ \A v \in Version : \A k \in DOMAIN Plan[v] : IsRound(Plan[v][k])

VARIABLES
  journal,    \* events rows of the run
  status,     \* runs.status
  woken,      \* the poll loop fired a timer and has not re-driven the run yet
  code,       \* the deployed code version
  mixed,      \* history: was code of another version deployed?
  crashes,    \* crashes so far
  drives,     \* drives so far
  pc,         \* where each drive is
  turn,       \* the member that holds the event loop
  frame       \* per drive: what it loaded, its counters, members and results

vars == <<journal, status, woken, code, mixed, crashes, drives, pc, turn, frame>>

Name == Task \cup {"sleep"}

\* loaded     length of the journal the drive replays
\* scheduled  self._scheduled, kept up to date during the drive
\* failed     self._failed, likewise
\* ordinals   IdentityResolver counters
\* issued     self._call_index: calls without a key so far
\* seen       the outcomes of the fan-outs that are over
\* members    the members of the current fan-out
NoFrame == [loaded |-> 0, scheduled |-> {}, failed |-> {},
            ordinals |-> [m \in Name |-> 0], issued |-> 0, seen |-> <<>>, members |-> <<>>]

NewMember == [at |-> "new", id |-> NoId, attempt |-> 0, failures |-> 0, slot |-> "none"]

Init ==
  /\ journal = <<>> /\ status = "running" /\ woken = FALSE
  /\ code \in Version /\ mixed = FALSE /\ crashes = 0 /\ drives = 0
  /\ pc = [d \in Driver |-> "idle"] /\ turn = Free
  /\ frame = [d \in Driver |-> NoFrame]

-----------------------------------------------------------------------------
(* What a member sees                                                        *)

Member(d, i) == frame[d].members[i]
Members(d) == DOMAIN frame[d].members
CurrentRound(d) == Plan[code][Len(frame[d].seen) + 1]
CallOf(d, i) == CurrentRound(d).calls[i]

Commit(type, id, n, val) == journal' = Append(journal, Entry(type, id, n, val))

\* the identity of a call: an item's key, or the next ordinal of its name
CallId(d, i) ==
  LET c == CallOf(d, i)
  IN [name |-> c.name, ord |-> IF c.key = NoKey THEN frame[d].ordinals[c.name] ELSE c.key]

Loaded(d, type, id) == Recorded(journal, frame[d].loaded, type, id)

\* MUTANT of KnownFailure: a recorded TaskFailed is not a hit
KnownFailureUnseen(d, id) == FALSE

KnownFailure(d, id) == id \in frame[d].failed

\* _COLLECTING, set by this fan-out or by one around it: the run survives
Recording(d) == CurrentRound(d).mode # "failfast"

\* MUTANT of InFlight: a member that failed keeps its place in the semaphore
InFlightLeaks(d) ==
  {i \in Members(d) : Member(d, i).at # "new" /\ Member(d, i).slot \in {"none", "error"}}

\* members inside the semaphore
InFlight(d) == {i \in Members(d) : Member(d, i).at \notin {"new", "done"}}

\* a member died of a refusal: the errors of _PROPAGATE
Propagating == {"diverged", "unsafe"}
Has(d, slots) == \E i \in Members(d) : Member(d, i).slot \in slots

\* a map starts no item any more once one was refused; a gather starts all its members
Aborted(d, i) == CallOf(d, i).key # NoKey /\ Has(d, Propagating)

\* MUTANT of MayBegin: members begin in any order
MayBeginAnyhow(d, i) ==
  /\ pc[d] \in {"fan", "drain"} /\ turn = Free /\ Member(d, i).at = "new" /\ ~Aborted(d, i)
  /\ Cardinality(InFlight(d)) < CurrentRound(d).width

\* members begin in the order of the arguments; asyncio.Semaphore is fair
MayBegin(d, i) ==
  /\ pc[d] \in {"fan", "drain"} /\ turn = Free
  /\ Member(d, i).at = "new" /\ \A k \in 1..(i - 1) : Member(d, k).at # "new"
  /\ ~Aborted(d, i)
  /\ Cardinality(InFlight(d)) < CurrentRound(d).width

Holds(d, i, at) ==
  /\ pc[d] \in {"fan", "drain"} /\ turn \in {Free, <<d, i>>} /\ Member(d, i).at = at

\* only a call without a key takes a position in the nondeterminism check
TakesPosition(c) == c.name # "sleep" /\ c.key = NoKey

\* self._schedule_order of a drive that loaded n events: where they were scheduled
ScheduleOrder(j, n) == {k \in 1..n : j[k].type = "TaskScheduled" /\ j[k].id.ord \notin Key}

\* the call recorded at this position is of another task
Diverges(d, i) ==
  /\ TakesPosition(CallOf(d, i))
  /\ \E k \in ScheduleOrder(journal, frame[d].loaded) :
       /\ Cardinality(ScheduleOrder(journal, k - 1)) = frame[d].issued
       /\ journal[k].id.name # CallOf(d, i).name

-----------------------------------------------------------------------------
(* Moves                                                                     *)

rest == <<status, woken, code, mixed, crashes, drives, pc>>

\* member i becomes m
Become(d, i, m) == frame' = [frame EXCEPT ![d].members[i] = m]

\* ... and, as it begins, takes its identity
Enter(d, i, m) ==
  frame' = [frame EXCEPT ![d].members[i] = [m EXCEPT !.id = CallId(d, i)],
                         ![d].ordinals[CallOf(d, i).name] =
                            IF CallOf(d, i).key = NoKey THEN @ + 1 ELSE @,
                         ![d].issued = IF TakesPosition(CallOf(d, i)) THEN @ + 1 ELSE @]

Done(d, i, slot) == [Member(d, i) EXCEPT !.at = "done", !.slot = slot]

\* the next fan-out of the workflow, if there is one
Spawn(f) ==
  LET n == Len(f.seen) + 1
  IN [f EXCEPT !.members = IF n > Len(Plan[code]) THEN <<>>
                           ELSE [i \in DOMAIN Plan[code][n].calls |-> NewMember]]

Release(d) ==
  /\ pc' = [pc EXCEPT ![d] = "idle"] /\ turn' = Free
  /\ frame' = [frame EXCEPT ![d] = NoFrame]

-----------------------------------------------------------------------------
(* ReplayEngine.durable_call, _keyed_call and _execute, by a member         *)

\* NondeterminismError: propagates out of the fan-out and out of the drive
Refuse(d, i) ==
  /\ MayBegin(d, i) /\ Diverges(d, i)
  /\ Enter(d, i, Done(d, i, "diverged"))
  /\ UNCHANGED <<journal, rest, turn>>

CallBegins(d, i) == MayBegin(d, i) /\ CallOf(d, i).name # "sleep" /\ ~Diverges(d, i)

ReuseResult(d, i) ==
  /\ CallBegins(d, i) /\ Loaded(d, "TaskCompleted", CallId(d, i))
  /\ LET e == journal[LatestIndex(journal, frame[d].loaded, "TaskCompleted", CallId(d, i))]
     IN Enter(d, i, Done(d, i, e.val))
  /\ UNCHANGED <<journal, rest, turn>>

ReuseFailure(d, i) ==
  /\ CallBegins(d, i) /\ ~Loaded(d, "TaskCompleted", CallId(d, i))
  /\ KnownFailure(d, CallId(d, i))
  /\ Enter(d, i, Done(d, i, "error"))
  /\ UNCHANGED <<journal, rest, turn>>

PriorFailures(d, id) == Failures(journal, frame[d].loaded, id)

\* a miss: neither outcome is recorded
Misses(d, i) ==
  /\ CallBegins(d, i)
  /\ ~Loaded(d, "TaskCompleted", CallId(d, i)) /\ ~KnownFailure(d, CallId(d, i))

\* EffectSafetyError: propagates like a NondeterminismError
RefuseEffect(d, i) ==
  /\ Misses(d, i) /\ CallOf(d, i).name \in Unsafe[code]
  /\ Enter(d, i, Done(d, i, "unsafe"))
  /\ UNCHANGED <<journal, rest, turn>>

Schedule(d, i) ==
  LET id == CallId(d, i) IN
  /\ Misses(d, i) /\ id.name \notin Unsafe[code]
  /\ IF id \in frame[d].scheduled THEN UNCHANGED journal
     ELSE Commit("TaskScheduled", id, 0, "none")
  /\ frame' = [frame EXCEPT
       ![d].members[i] = [at |-> "attempt", id |-> id, slot |-> "none",
                          attempt |-> MaxAttempt(journal, frame[d].loaded, id) + 1,
                          failures |-> PriorFailures(d, id)],
       ![d].ordinals[id.name] = IF CallOf(d, i).key = NoKey THEN @ + 1 ELSE @,
       ![d].issued = IF TakesPosition(CallOf(d, i)) THEN @ + 1 ELSE @,
       ![d].scheduled = @ \cup {id}]
  /\ turn' = <<d, i>>
  /\ UNCHANGED rest

StartAttempt(d, i) ==
  /\ Holds(d, i, "attempt")
  /\ Commit("TaskAttemptStarted", Member(d, i).id, Member(d, i).attempt, "none")
  /\ Become(d, i, [Member(d, i) EXCEPT !.at = "body"])
  /\ turn' = Free
  /\ UNCHANGED rest

Complete(d, i) ==
  /\ Holds(d, i, "body")
  /\ \E v \in Value :
       /\ Commit("TaskCompleted", Member(d, i).id, 0, v)
       /\ Become(d, i, Done(d, i, v))
  /\ turn' = Free
  /\ UNCHANGED rest

RetriesLeft(d, i) == Member(d, i).failures + 1 <= Retries[Member(d, i).id.name]

\* a retry waits; a spent budget ends the member, once its TaskFailed is
\* recorded if the run survives the failure
FailAttempt(d, i) ==
  /\ Holds(d, i, "body")
  /\ Commit("TaskAttemptFailed", Member(d, i).id, Member(d, i).attempt,
            IF RetriesLeft(d, i) THEN "retry" ELSE "last")
  /\ IF RetriesLeft(d, i)
     THEN /\ Become(d, i, [Member(d, i) EXCEPT !.at = "backoff", !.failures = @ + 1])
          /\ turn' = Free
     ELSE IF Recording(d)
     THEN Become(d, i, [Member(d, i) EXCEPT !.at = "spent"]) /\ turn' = <<d, i>>
     ELSE Become(d, i, Done(d, i, "error")) /\ turn' = Free
  /\ UNCHANGED rest

Backoff(d, i) ==
  /\ Holds(d, i, "backoff")
  /\ Become(d, i, [Member(d, i) EXCEPT !.at = "attempt", !.attempt = @ + 1])
  /\ turn' = <<d, i>>
  /\ UNCHANGED <<journal, rest>>

RecordFailure(d, i) ==
  /\ Holds(d, i, "spent")
  /\ Commit("TaskFailed", Member(d, i).id, 0, "none")
  /\ frame' = [frame EXCEPT ![d].members[i] = Done(d, i, "error"),
                            ![d].failed = @ \cup {Member(d, i).id}]
  /\ turn' = Free
  /\ UNCHANGED rest

-----------------------------------------------------------------------------
(* ReplayEngine.durable_sleep, by a member                                   *)

SleepOver(d, i) ==
  /\ MayBegin(d, i) /\ CallOf(d, i).name = "sleep" /\ Loaded(d, "TimerFired", CallId(d, i))
  /\ Enter(d, i, Done(d, i, "woke"))
  /\ UNCHANGED <<journal, rest, turn>>

\* TimerCreated, and the timers row it implies
CreateTimer(d, i) ==
  /\ MayBegin(d, i) /\ CallOf(d, i).name = "sleep" /\ ~Loaded(d, "TimerFired", CallId(d, i))
  /\ IF Loaded(d, "TimerCreated", CallId(d, i)) THEN UNCHANGED journal
     ELSE Commit("TimerCreated", CallId(d, i), 0, "sleep")
  /\ Enter(d, i, [Member(d, i) EXCEPT !.at = "waiting"])
  /\ turn' = <<d, i>>
  /\ UNCHANGED rest

\* WorkflowParked ends the member; the drive ends when the fan-out raises it
RecordWaiting(d, i) ==
  /\ Holds(d, i, "waiting")
  /\ IF Loaded(d, "WorkflowWaiting", Member(d, i).id) THEN UNCHANGED journal
     ELSE Commit("WorkflowWaiting", Member(d, i).id, 0, "none")
  /\ Become(d, i, Done(d, i, "parked"))
  /\ turn' = Free
  /\ UNCHANGED rest

\* _fire_one, when the deadline has come: the journal guards a second fire
FireTimer(id) ==
  /\ turn = Free /\ Recorded(journal, Len(journal), "TimerCreated", id)
  /\ ~Recorded(journal, Len(journal), "TimerFired", id)
  /\ Commit("TimerFired", id, 0, "sleep")
  /\ woken' = TRUE
  /\ UNCHANGED <<status, code, mixed, crashes, drives, pc, turn, frame>>

-----------------------------------------------------------------------------
(* ReplayEngine._settle_composite                                            *)

Raised == {"error", "parked"}
Over(d) == \A i \in Members(d) : Member(d, i).at = "done"

Outcome(d, i) == [id |-> Member(d, i).id, slot |-> Member(d, i).slot]

\* the fan-out returns these outcomes, and the workflow goes on to the next one
Rejoin(d, outcomes) ==
  /\ frame' = [frame EXCEPT ![d] = Spawn([frame[d] EXCEPT !.seen = Append(@, outcomes)])]
  /\ pc' = [pc EXCEPT ![d] = "fan"]
  /\ UNCHANGED <<journal, status, woken, code, mixed, crashes, drives, turn>>

\* it is woken behind the members that may begin: they were scheduled before
Fans(d, at) ==
  /\ pc[d] = at /\ turn = Free /\ Members(d) # {}
  /\ \A i \in Members(d) : ~MayBegin(d, i)

\* every member has settled; in collect mode its error is its outcome
ReturnAll(d) ==
  /\ Fans(d, "fan") /\ Over(d) /\ ~Has(d, Propagating)
  /\ CurrentRound(d).mode = "collect" \/ ~Has(d, Raised)
  /\ Rejoin(d, [i \in Members(d) |-> Outcome(d, i)])

\* a refusal cancels the members in flight: they record nothing more
Abort(d) ==
  /\ Fans(d, "fan") /\ Has(d, Propagating)
  /\ Release(d)
  /\ UNCHANGED <<journal, status, woken, code, mixed, crashes, drives>>

\* fail-fast: the first failure is noticed, the others are let settle
Notice(d) ==
  /\ Fans(d, "fan") /\ CurrentRound(d).mode # "collect"
  /\ Has(d, Raised) /\ ~Has(d, Propagating)
  /\ pc' = [pc EXCEPT ![d] = "drain"]
  /\ UNCHANGED <<journal, status, woken, code, mixed, crashes, drives, turn, frame>>

\* MUTANT of Drained: the first failure is raised over the siblings in flight
NotDrained(d) == TRUE

Drained(d) == Over(d)

\* ... and the first failure in the order of the arguments is raised
FirstRaised(d) ==
  Min({i \in Members(d) : Member(d, i).slot \in Raised})

Raises(d, slot) ==
  /\ Fans(d, "drain") /\ Drained(d) /\ Member(d, FirstRaised(d)).slot = slot

\* a collecting gather around it takes the error as the map's outcome
RaiseInside(d) ==
  /\ Raises(d, "error") /\ CurrentRound(d).mode = "nested"
  /\ Rejoin(d, <<Outcome(d, FirstRaised(d))>>)

RaiseFailure(d) ==
  /\ Raises(d, "error") /\ CurrentRound(d).mode = "failfast"
  /\ Commit("WorkflowFailed", NoId, 0, "none")
  /\ pc' = [pc EXCEPT ![d] = "settle"] /\ turn' = <<d, 0>>
  /\ UNCHANGED <<status, woken, code, mixed, crashes, drives, frame>>

RaisePark(d) ==
  /\ Raises(d, "parked")
  /\ status' = "waiting"
  /\ Release(d)
  /\ UNCHANGED <<journal, woken, code, mixed, crashes, drives>>

-----------------------------------------------------------------------------
(* ReplayEngine.drive                                                        *)

Driving == {d \in Driver : pc[d] # "idle"}

\* a caller drives the run while nobody else does; the poll loop whenever a
\* timer has fired
Redrive(d) ==
  /\ pc[d] = "idle" /\ turn = Free /\ status \in {"running", "waiting"}
  /\ Driving = {} \/ woken
  /\ drives < MaxDrives /\ drives' = drives + 1
  /\ pc' = [pc EXCEPT ![d] = "drive"] /\ turn' = <<d, 0>> /\ woken' = FALSE
  /\ UNCHANGED <<journal, status, code, mixed, crashes, frame>>

DriveTerminal(d) ==
  /\ pc[d] = "drive" /\ TerminalIndices(journal) # {}
  /\ status' = RecordedTerminalStatus(journal)
  /\ Release(d)
  /\ UNCHANGED <<journal, woken, code, mixed, crashes, drives>>

IdsOf(type) == {journal[i].id : i \in {k \in DOMAIN journal : journal[k].type = type}}

DriveLoad(d) ==
  /\ pc[d] = "drive" /\ TerminalIndices(journal) = {}
  /\ frame' = [frame EXCEPT ![d] =
       Spawn([NoFrame EXCEPT !.loaded = Len(journal), !.scheduled = IdsOf("TaskScheduled"),
                             !.failed = IdsOf("TaskFailed")])]
  /\ pc' = [pc EXCEPT ![d] = "fan"] /\ turn' = Free
  /\ UNCHANGED <<journal, status, woken, code, mixed, crashes, drives>>

Return(d) ==
  /\ pc[d] = "fan" /\ turn = Free /\ Members(d) = {}
  /\ Commit("WorkflowCompleted", NoId, 0, "none")
  /\ pc' = [pc EXCEPT ![d] = "settle"] /\ turn' = <<d, 0>>
  /\ UNCHANGED <<status, woken, code, mixed, crashes, drives, frame>>

SettleStatus(d) ==
  /\ pc[d] = "settle"
  /\ status' = RecordedTerminalStatus(journal)
  /\ Release(d)
  /\ UNCHANGED <<journal, woken, code, mixed, crashes, drives>>

Crash ==
  /\ crashes < MaxCrashes
  /\ crashes' = crashes + 1 /\ woken' = FALSE
  /\ code' \in Version /\ mixed' = (mixed \/ code' # code)
  /\ pc' = [d \in Driver |-> "idle"] /\ turn' = Free
  /\ frame' = [d \in Driver |-> NoFrame]
  /\ UNCHANGED <<journal, status, drives>>

CallStep(d, i) ==
  \/ Refuse(d, i) \/ ReuseResult(d, i) \/ ReuseFailure(d, i) \/ RefuseEffect(d, i)
  \/ Schedule(d, i)
  \/ StartAttempt(d, i) \/ Complete(d, i) \/ FailAttempt(d, i) \/ Backoff(d, i)
  \/ RecordFailure(d, i) \/ SleepOver(d, i) \/ CreateTimer(d, i) \/ RecordWaiting(d, i)

DriveStep(d) ==
  \/ \E i \in Members(d) : CallStep(d, i)
  \/ ReturnAll(d) \/ Abort(d) \/ Notice(d) \/ RaiseInside(d) \/ RaiseFailure(d)
  \/ RaisePark(d)
  \/ DriveTerminal(d) \/ DriveLoad(d) \/ Return(d) \/ SettleStatus(d)

Next ==
  \/ \E d \in Driver : Redrive(d) \/ DriveStep(d)
  \/ \E id \in IdsOf("TimerCreated") : FireTimer(id)
  \/ Crash

\* asyncio runs what is ready, and task bodies return
Fairness == \A d \in Driver : WF_vars(DriveStep(d))

Spec == Init /\ [][Next]_vars /\ Fairness

-----------------------------------------------------------------------------
(* Correctness                                                              *)

TaskIds == {journal[i].id : i \in {k \in DOMAIN journal : journal[k].id.name \in Task}}

\* A call has at most one verdict, TaskCompleted or TaskFailed, and a verdict
\* ends it: no resume schedules, runs or judges it again (ADR-0006, ADR-0027).
VerdictIsLast ==
  \A i, k \in DOMAIN journal :
    /\ journal[i].type \in {"TaskCompleted", "TaskFailed"} /\ i < k
    => journal[k].id # journal[i].id

\* Every outcome the workflow was handed is in the journal for a replay to
\* find: a value as TaskCompleted, a survivable error as TaskFailed ("a
\* survivable failure is a recorded failure", ADR-0027), under its own identity.
OutcomesAreRecorded ==
  \A d \in Driver : \A r \in DOMAIN frame[d].seen : \A i \in DOMAIN frame[d].seen[r] :
    LET o == frame[d].seen[r][i]
    IN \E k \in DOMAIN journal :
         /\ journal[k].id = o.id
         /\ \/ journal[k].type = "TaskCompleted" /\ journal[k].val = o.slot
            \/ journal[k].type = "TaskFailed" /\ o.slot = "error"
            \/ journal[k].type = "TimerFired" /\ o.slot = "woke"

\* A call fails at most once more than its retries allow for every drive after
\* the first: a drive that was cut off, by a crash, a refusal or a park that
\* outranked the failure in the order of the arguments, leaves no verdict.
BudgetHolds ==
  \A id \in TaskIds :
    Failures(journal, Len(journal), id) <= Retries[id.name] + drives

\* What became of a call is recorded before the workflow learns of it, and for good:
\* its failures, its verdict, its result.
VerdictsAreDurable == VerdictIsLast /\ OutcomesAreRecorded /\ BudgetHolds

\* A replay is called nondeterministic only if other code is deployed: members are
\* matched to the positions they were scheduled at, however the first fan-out was
\* interleaved or cut off ("the workflow changed between runs", nondeterminism.py).
\* Of workflows in which effect safety refuses no call ahead of another of its gather:
\* the refused call has taken its position, and the others are recorded one too early.
NoFalseDivergence ==
  ~mixed => \A d \in Driver : ~Has(d, {"diverged"})

\* A run parks as a whole: when it is released, no call of it is in flight, so
\* none is left without a verdict or a spent budget (no crash intervening). Of
\* workflows that effect safety refuses before they ever park, or never.
ParksWhole ==
  status = "waiting" /\ Driving = {} /\ crashes = 0 =>
    \A id \in TaskIds :
      \/ \E i \in DOMAIN journal : /\ journal[i].id = id
                                   /\ journal[i].type \in {"TaskCompleted", "TaskFailed"}
      \/ Failures(journal, Len(journal), id) > Retries[id.name]

\* A drive comes to its end: no member waits for a place in the semaphore that a
\* failed or a reused one did not give back.
DriveEnds == \A d \in Driver : (pc[d] # "idle") ~> (pc[d] = "idle")
=============================================================================
