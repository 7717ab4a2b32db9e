------------------------------- MODULE ChildRun -------------------------------
(***************************************************************************)
(* A workflow that starts a child workflow and awaits its result:          *)
(* durable_child of replay/engine.py, RunController.result and             *)
(* await_unpark behind the handle it returns.  The child is a full run: its *)
(* own row, journal and timers.                                            *)
(*                                                                         *)
(* A drive of the parent drives the child inside it, so a driver has a     *)
(* stack of drives.  The drivers are the caller, who starts and resumes    *)
(* the root run, and the poll loop, which wakes whichever run is parked    *)
(* without knowing who started it.  Both are tasks of one event loop: they *)
(* interleave where a task body or the wait of await_unpark suspends.      *)
(*                                                                         *)
(* A workflow is a list of calls, a call is known by its place in it; a    *)
(* task has a single attempt, and an output that differs from one          *)
(* execution to the next.                                                  *)
(***************************************************************************)
EXTENDS Naturals, Sequences, FiniteSets

CONSTANTS
  Root,        \* the run the caller starts
  Kid,         \* ids a child run may be given
  RootCalls,   \* the workflows the root run may have
  KidCalls,    \* the workflow of a child
  Value,       \* outputs of tasks
  Cancelling,  \* runs somebody may cancel
  MaxCrashes,  \* bound: crashes of the process
  MaxResumes   \* bound: resumes of the root run

Op == {"task", "sleep", "child", "result", "return"}

ASSUME RootIsNoKid == Root \notin Kid
ASSUME CallsEnd == \A w \in RootCalls \cup {KidCalls} :
                     /\ w \in Seq(Op) /\ Len(w) > 0 /\ w[Len(w)] = "return"
\* a handle comes from a child that was started; a child has no children (bound)
ASSUME ResultsAreOfChildren ==
  \A w \in RootCalls : \A i \in DOMAIN w : w[i] = "result" => \E k \in 1..(i - 1) : w[k] = "child"
ASSUME KidsAreChildless == \A i \in DOMAIN KidCalls : KidCalls[i] \notin {"child", "result"}
ASSUME ChildBounds == MaxCrashes \in Nat /\ MaxResumes \in Nat
ASSUME CancellingRuns == Cancelling \subseteq Kid \cup {Root}

VARIABLES
  journal,   \* events of each run
  status,    \* runs.status, "none" without a row
  timers,    \* timers rows
  now,
  setting,   \* the root's workflow, and whether the poll loop runs beside the caller
  stack,     \* the drives each driver is in, innermost last
  turn,      \* the driver that holds the event loop
  tick,      \* the poll loop: asleep, or the due timers and woken runs left
  crashes,
  handed,    \* history: outcomes of the child the root's code was handed
  overlap    \* history: runs that two drivers were at, at once

store == <<journal, status, timers>>
history == <<handed, overlap>>
vars == <<store, now, setting, stack, turn, tick, crashes, history>>

Run == Kid \cup {Root}
Driver == {"caller", "loop"}
Terminal == {"completed", "failed", "cancelled"}
Calls(r) == IF r = Root THEN setting.calls ELSE KidCalls

Asleep == [phase |-> "asleep", due |-> {}, woken |-> {}]

ChildInit ==
  /\ journal = [r \in Run |-> <<>>] /\ status = [r \in Run |-> "none"]
  /\ timers = {} /\ now = 0
  /\ setting \in [calls : RootCalls, background : BOOLEAN]
  /\ stack = [d \in Driver |-> <<>>] /\ turn = "free" /\ tick = Asleep
  /\ crashes = 0 /\ handed = {} /\ overlap = {}

-----------------------------------------------------------------------------
(* The journal of a run                                                     *)

Has(r, type, call) ==
  \E i \in DOMAIN journal[r] : journal[r][i].type = type /\ journal[r][i].call = call

Count(r, type) == Cardinality({i \in DOMAIN journal[r] : journal[r][i].type = type})

\* the value of the event of this type and call
Recorded(r, type, call) ==
  (CHOOSE e \in {journal[r][i] : i \in DOMAIN journal[r]} : e.type = type /\ e.call = call).val

TerminalEvent == {"WorkflowCompleted", "WorkflowFailed", "WorkflowCancelled"}

StatusOf(type) == CASE type = "WorkflowCompleted" -> "completed"
                    [] type = "WorkflowFailed" -> "failed"
                    [] type = "WorkflowCancelled" -> "cancelled"

LastOf(r, types) ==
  LET ends == {i \in DOMAIN journal[r] : journal[r][i].type \in types}
  IN  journal[r][CHOOSE i \in ends : \A k \in ends : k <= i]

Ended(r) == \E i \in DOMAIN journal[r] : journal[r][i].type \in TerminalEvent

Commit(r, type, call, val) ==
  journal' = [journal EXCEPT ![r] = Append(@, [type |-> type, call |-> call, val |-> val])]

SetStatus(r, s) == status' = [status EXCEPT ![r] = s]

-----------------------------------------------------------------------------
(* Drives                                                                   *)

Frame(r, pc) == [run |-> r, pc |-> pc, at |-> 1, loaded |-> 0, child |-> r, last |-> "none"]

Top(d) == stack[d][Len(stack[d])]
At(d, pc) == stack[d] # <<>> /\ turn \in {"free", d} /\ Top(d).pc = pc
Call(d) == Calls(Top(d).run)[Top(d).at]
Awaits(d, op) == At(d, "run") /\ Call(d) = op

\* a step of the innermost drive; the driver keeps the event loop ...
Step(d, frame) == stack' = [stack EXCEPT ![d][Len(stack[d])] = frame] /\ turn' = d
GoTo(d, pc) == Step(d, [Top(d) EXCEPT !.pc = pc])

\* ... or gives it away
Suspend(d, frame) == stack' = [stack EXCEPT ![d][Len(stack[d])] = frame] /\ turn' = "free"

\* the workflow's code is handed v and goes on to its next call
Observe(d, v) ==
  Step(d, [Top(d) EXCEPT !.pc = "run", !.at = @ + 1, !.last = v])

\* the drivers in a drive of r; a caller that only waits for r is not
AtWork(r) ==
  {d \in Driver : \E i \in DOMAIN stack[d] :
     stack[d][i].run = r /\ stack[d][i].pc \notin {"unpark", "wait"}}

Meet(d, r) == overlap' = IF AtWork(r) \ {d} # {} THEN overlap \cup {r} ELSE overlap

\* another drive begins inside the innermost one, which is left at pc
Enter(d, r, inner, pc) ==
  /\ stack' = [stack EXCEPT ![d] =
       Append(SubSeq(@, 1, Len(@) - 1), [Top(d) EXCEPT !.pc = pc]) \o <<Frame(r, inner)>>]
  /\ turn' = d /\ Meet(d, r)

\* a driver that drives nothing begins
Begin(d, r, frames) ==
  /\ stack' = [stack EXCEPT ![d] = frames]
  /\ turn' = d /\ Meet(d, r)

\* drive() returns, to the drive around it if there is one
Return(d) ==
  /\ stack' = [stack EXCEPT ![d] = SubSeq(@, 1, Len(@) - 1)] /\ turn' = d

\* did the journal have this fact when the innermost drive loaded it?
Hit(d, type) ==
  \E i \in 1..Top(d).loaded : /\ journal[Top(d).run][i].type = type
                              /\ journal[Top(d).run][i].call = Top(d).at

-----------------------------------------------------------------------------
(* RunController.result and _drive_child: the run is created, resumed,      *)
(* woken or, when it is terminal, left alone                                *)

Unbegun(d) == At(d, "enter") /\ status[Top(d).run] = "none"

CreateRow(d) ==
  /\ Unbegun(d)
  /\ SetStatus(Top(d).run, "running") /\ GoTo(d, "created")
  /\ UNCHANGED <<journal, timers, now, setting, tick, crashes, history>>

\* the head of the journal names the parent's call
CommitCreated(d) ==
  /\ At(d, "created")
  /\ Commit(Top(d).run, "WorkflowCreated", 0, "none") /\ GoTo(d, "load")
  /\ UNCHANGED <<status, timers, now, setting, tick, crashes, history>>

EnterTerminal(d) ==
  /\ At(d, "enter") /\ status[Top(d).run] \in Terminal
  /\ Return(d)
  /\ UNCHANGED <<store, now, setting, tick, crashes, history>>

\* a graceful wake
EnterParked(d) ==
  /\ At(d, "enter") /\ status[Top(d).run] = "waiting"
  /\ GoTo(d, "load")
  /\ UNCHANGED <<store, now, setting, tick, crashes, history>>

\* interrupted in the middle
EnterResumed(d) ==
  /\ At(d, "enter") /\ status[Top(d).run] = "running"
  /\ Commit(Top(d).run, "WorkflowResumed", 0, "none") /\ GoTo(d, "load")
  /\ UNCHANGED <<status, timers, now, setting, tick, crashes, history>>

-----------------------------------------------------------------------------
(* ReplayEngine.drive                                                       *)

\* a journal that is terminal already only has its status reconciled
Reconcile(d) ==
  /\ At(d, "load") /\ Ended(Top(d).run)
  /\ SetStatus(Top(d).run, StatusOf(LastOf(Top(d).run, TerminalEvent).type)) /\ Return(d)
  /\ UNCHANGED <<journal, timers, now, setting, tick, crashes, history>>

\* MUTANT of LoadJournal: the drive goes on over a journal that has ended
LoadAnyway(d) ==
  /\ At(d, "load")
  /\ Step(d, [Top(d) EXCEPT !.pc = "run", !.loaded = Len(journal[Top(d).run])])
  /\ UNCHANGED <<store, now, setting, tick, crashes, history>>

LoadJournal(d) ==
  /\ At(d, "load") /\ ~Ended(Top(d).run)
  /\ Step(d, [Top(d) EXCEPT !.pc = "run", !.loaded = Len(journal[Top(d).run])])
  /\ UNCHANGED <<store, now, setting, tick, crashes, history>>

TaskHit(d) ==
  /\ Awaits(d, "task") /\ Hit(d, "TaskCompleted")
  /\ Observe(d, Recorded(Top(d).run, "TaskCompleted", Top(d).at))
  /\ UNCHANGED <<store, now, setting, tick, crashes, history>>

ScheduleTask(d) ==
  /\ Awaits(d, "task") /\ ~Hit(d, "TaskCompleted")
  /\ IF Hit(d, "TaskScheduled") THEN UNCHANGED journal
     ELSE Commit(Top(d).run, "TaskScheduled", Top(d).at, "none")
  /\ Suspend(d, [Top(d) EXCEPT !.pc = "body"])
  /\ UNCHANGED <<status, timers, now, setting, tick, crashes, history>>

TaskReturns(d) ==
  /\ At(d, "body")
  /\ \E v \in Value :
       /\ Commit(Top(d).run, "TaskCompleted", Top(d).at, v)
       /\ Observe(d, v)
  /\ UNCHANGED <<status, timers, now, setting, tick, crashes, history>>

\* its last attempt: the exception leaves the workflow
TaskRaises(d) ==
  /\ At(d, "body")
  /\ GoTo(d, "fail")
  /\ UNCHANGED <<store, now, setting, tick, crashes, history>>

SleepHit(d) ==
  /\ Awaits(d, "sleep") /\ Hit(d, "TimerFired")
  /\ Observe(d, "woke")
  /\ UNCHANGED <<store, now, setting, tick, crashes, history>>

CreateTimer(d) ==
  /\ Awaits(d, "sleep") /\ ~Hit(d, "TimerFired")
  /\ IF Hit(d, "TimerCreated") THEN UNCHANGED journal
     ELSE Commit(Top(d).run, "TimerCreated", Top(d).at, now + 1)
  /\ GoTo(d, "timer")
  /\ UNCHANGED <<status, timers, now, setting, tick, crashes, history>>

Row(r, call, fireAt) == [run |-> r, call |-> call, at |-> fireAt, status |-> "pending"]

\* INSERT OR IGNORE on the timer_id of the recorded event
EnsureTimerRow(d) ==
  LET f == Top(d)
      row == Row(f.run, f.at, Recorded(f.run, "TimerCreated", f.at))
  IN  /\ At(d, "timer")
      /\ timers' = IF \E t \in timers : t.run = row.run /\ t.call = row.call
                   THEN timers ELSE timers \cup {row}
      /\ GoTo(d, "park")
      /\ UNCHANGED <<journal, status, now, setting, tick, crashes, history>>

CommitWaiting(d) ==
  /\ At(d, "park")
  /\ IF Hit(d, "WorkflowWaiting") THEN UNCHANGED journal
     ELSE Commit(Top(d).run, "WorkflowWaiting", Top(d).at, "none")
  /\ GoTo(d, "parked")
  /\ UNCHANGED <<status, timers, now, setting, tick, crashes, history>>

\* WorkflowParked leaves the workflow; drive() returns and says nothing of it
ParkRun(d) ==
  /\ At(d, "parked")
  /\ SetStatus(Top(d).run, "waiting") /\ Return(d)
  /\ UNCHANGED <<journal, timers, now, setting, tick, crashes, history>>

CommitOutcome(d) ==
  /\ \/ Awaits(d, "return") /\ Commit(Top(d).run, "WorkflowCompleted", 0, Top(d).last)
     \/ At(d, "fail") /\ Commit(Top(d).run, "WorkflowFailed", 0, "error")
  /\ GoTo(d, "settle")
  /\ UNCHANGED <<status, timers, now, setting, tick, crashes, history>>

\* each branch of drive() writes the status of its own event
SettleStatus(d) ==
  /\ At(d, "settle")
  /\ SetStatus(Top(d).run, StatusOf(journal[Top(d).run][Len(journal[Top(d).run])].type))
  /\ Return(d)
  /\ UNCHANGED <<journal, timers, now, setting, tick, crashes, history>>

-----------------------------------------------------------------------------
(* durable_child                                                            *)

\* uuid4: an id no event and no row has
FreshKid(k) ==
  status[k] = "none" /\ \A r \in Run : ~\E i \in DOMAIN journal[r] : journal[r][i].val = k

\* MUTANT of StartChild: the recorded child is not looked up
StartFresh(d) ==
  /\ Awaits(d, "child")
  /\ \E k \in {k \in Kid : FreshKid(k)} :
       /\ Commit(Top(d).run, "ChildWorkflowScheduled", Top(d).at, k)
       /\ Step(d, [Top(d) EXCEPT !.pc = "named", !.child = k])
  /\ UNCHANGED <<status, timers, now, setting, tick, crashes, history>>

\* the recorded child of this call, or a new one; bound: the ids in Kid
StartChild(d) ==
  /\ Awaits(d, "child")
  /\ \/ /\ Hit(d, "ChildWorkflowScheduled")
        /\ Step(d, [Top(d) EXCEPT !.pc = "named",
                    !.child = Recorded(Top(d).run, "ChildWorkflowScheduled", Top(d).at)])
        /\ UNCHANGED journal
     \/ /\ ~Hit(d, "ChildWorkflowScheduled")
        /\ \E k \in {k \in Kid : FreshKid(k)} :
             /\ Commit(Top(d).run, "ChildWorkflowScheduled", Top(d).at, k)
             /\ Step(d, [Top(d) EXCEPT !.pc = "named", !.child = k])
  /\ UNCHANGED <<status, timers, now, setting, tick, crashes, history>>

\* driven here and now, to its end or its first park
DriveChild(d) ==
  /\ At(d, "named")
  /\ Enter(d, Top(d).child, "enter", "started")
  /\ UNCHANGED <<store, now, setting, tick, crashes, handed>>

\* _child_failure_error: rebuilt from the child's journal, it escapes the parent's code
RaiseChildFailure(d) == GoTo(d, "fail")

\* fail-fast, or a handle to the child
ChildStarted(d) ==
  /\ At(d, "started")
  /\ IF status[Top(d).child] = "failed" THEN RaiseChildFailure(d) ELSE Observe(d, "handle")
  /\ UNCHANGED <<store, now, setting, tick, crashes, history>>

-----------------------------------------------------------------------------
(* handle.result() in the parent's code                                     *)

AwaitResult(d) ==
  /\ Awaits(d, "result")
  /\ Enter(d, Top(d).child, "enter", "await")
  /\ UNCHANGED <<store, now, setting, tick, crashes, handed>>

HandOver(d, v) == Observe(d, v) /\ handed' = handed \cup {v}

\* await_unpark inside a tick or without a poll loop: PARKED is an outcome
HandParked(d) ==
  /\ At(d, "await") /\ status[Top(d).child] = "waiting"
  /\ d = "loop" \/ ~setting.background
  /\ HandOver(d, "parked")
  /\ UNCHANGED <<store, now, setting, tick, crashes, overlap>>

\* otherwise it polls the row of the child, with the parent's drive suspended
PollChild(d) ==
  /\ At(d, "await") /\ status[Top(d).child] = "waiting"
  /\ d = "caller" /\ setting.background
  /\ Suspend(d, [Top(d) EXCEPT !.pc = "poll"])
  /\ UNCHANGED <<store, now, setting, tick, crashes, history>>

OutcomeEvent == {"WorkflowCompleted", "WorkflowFailed"}

\* MUTANT of HandOutcome: whatever a run ended with is its value
HandAnything(d) ==
  /\ \/ At(d, "await") /\ status[Top(d).child] # "waiting"
     \/ At(d, "poll") /\ status[Top(d).child] \in Terminal
  /\ HandOver(d, LastOf(Top(d).child, TerminalEvent).val)
  /\ UNCHANGED <<store, now, setting, tick, crashes, overlap>>

\* _outcome: the last completion or failure of the journal; a run that was only
\* cancelled has none, and result() raises
HandOutcome(d) ==
  LET c == Top(d).child IN
  /\ \/ At(d, "await") /\ status[c] # "waiting"
     \/ At(d, "poll") /\ status[c] \in Terminal
  /\ IF Count(c, "WorkflowCompleted") > 0 /\ LastOf(c, OutcomeEvent).type = "WorkflowCompleted"
     THEN HandOver(d, LastOf(c, OutcomeEvent).val)
     ELSE GoTo(d, "fail") /\ handed' = handed \cup {"error"}
  /\ UNCHANGED <<store, now, setting, tick, crashes, overlap>>

-----------------------------------------------------------------------------
(* The child node that readers of the parent are shown: tree and inspect    *)

\* the status of the child's row
ChildStatus(c) == IF status[c] = "none" THEN "unknown" ELSE status[c]

\* _run_outcome: what a read reports and result() would return or raise
ChildOutput(c) ==
  IF Count(c, "WorkflowCompleted") > 0 /\ LastOf(c, OutcomeEvent).type = "WorkflowCompleted"
  THEN LastOf(c, OutcomeEvent).val ELSE "none"

-----------------------------------------------------------------------------
(* The caller, the poll loop and the process                                *)

Idle(d) == stack[d] = <<>> /\ turn = "free"

\* without a background loop the ticks are the caller's own
MayStart == setting.background \/ tick.phase = "asleep"
MayTick == setting.background \/ stack["caller"] = <<>>

\* start(..., run_id=Root).result(), the first time or after a crash
Start ==
  /\ Idle("caller") /\ MayStart /\ status[Root] \notin Terminal
  /\ status[Root] = "running" => Count(Root, "WorkflowResumed") < MaxResumes
  /\ Begin("caller", Root, <<Frame(Root, "unpark"), Frame(Root, "enter")>>)
  /\ UNCHANGED <<store, now, setting, tick, crashes, handed>>

\* await_unpark of that result(): a run that is parked is waited for or PARKED
AwaitUnpark ==
  /\ At("caller", "unpark")
  /\ IF status[Root] = "waiting" /\ setting.background
     THEN Suspend("caller", [Top("caller") EXCEPT !.pc = "wait"])
     ELSE stack' = [stack EXCEPT !["caller"] = <<>>] /\ turn' = "free"
  /\ UNCHANGED <<store, now, setting, tick, crashes, history>>

Unparked ==
  /\ At("caller", "wait") /\ status[Root] \in Terminal
  /\ stack' = [stack EXCEPT !["caller"] = <<>>]
  /\ UNCHANGED <<store, now, setting, turn, tick, crashes, history>>

\* a cancel command, applied at the beginning of a tick (append_cancellation)
Cancel(r) ==
  /\ tick.phase = "asleep" /\ turn = "free" /\ MayTick
  /\ r \in Cancelling /\ status[r] \notin Terminal \cup {"none"}
  /\ Begin("loop", r, <<Frame(r, "cancel")>>)
  /\ tick' = [Asleep EXCEPT !.phase = "fire"]
  /\ UNCHANGED <<store, now, setting, crashes, handed>>

CommitCancelled ==
  /\ At("loop", "cancel")
  /\ Commit(Top("loop").run, "WorkflowCancelled", 0, "none") /\ GoTo("loop", "settle")
  /\ UNCHANGED <<status, timers, now, setting, tick, crashes, history>>

\* _fire_timers: the due rows, read once
ReadDue ==
  /\ tick.phase = "asleep" /\ turn = "free" /\ MayTick
  /\ tick' = [phase |-> "fire", due |-> {t \in timers : t.status = "pending" /\ t.at <= now}, woken |-> {}]
  /\ tick'.due # {}
  /\ turn' = "loop"
  /\ UNCHANGED <<store, now, setting, stack, crashes, history>>

Ticking(phase) == tick.phase = phase /\ turn = "loop" /\ stack["loop"] = <<>>

Settle(t) == timers' = (timers \ {t}) \cup {[t EXCEPT !.status = "fired"]}

\* TimerFired, unless the journal has it ...
FireTimer(t) ==
  /\ Ticking("fire") /\ t \in tick.due
  /\ IF Has(t.run, "TimerFired", t.call)
     THEN /\ Settle(t) /\ tick' = [tick EXCEPT !.due = @ \ {t}] /\ UNCHANGED journal
     ELSE /\ Commit(t.run, "TimerFired", t.call, "none") /\ UNCHANGED timers
          /\ tick' = [tick EXCEPT !.phase = "row", !.due = @ \ {t}, !.woken = @ \cup {t.run}]
  /\ UNCHANGED <<status, now, setting, stack, turn, crashes, history>>

\* ... and the row of the timer that fired
SettleTimer(t) ==
  /\ Ticking("row") /\ t.status = "pending" /\ Has(t.run, "TimerFired", t.call)
  /\ t.run \in tick.woken /\ t \notin tick.due
  /\ Settle(t) /\ tick' = [tick EXCEPT !.phase = "fire"]
  /\ UNCHANGED <<journal, status, now, setting, stack, turn, crashes, history>>

\* MUTANT of WakeRun: the runs somebody else started are left alone
WakeRoot(r) ==
  /\ Ticking("fire") /\ tick.due = {} /\ r \in tick.woken
  /\ tick' = [tick EXCEPT !.woken = @ \ {r}]
  /\ IF status[r] \in Terminal \/ r # Root THEN UNCHANGED <<stack, turn, overlap>>
     ELSE Begin("loop", r, <<Frame(r, "load")>>)
  /\ UNCHANGED <<store, now, setting, crashes, handed>>

\* each woken run is driven once, unless it ended meanwhile
WakeRun(r) ==
  /\ Ticking("fire") /\ tick.due = {} /\ r \in tick.woken
  /\ tick' = [tick EXCEPT !.woken = @ \ {r}]
  /\ IF status[r] \in Terminal THEN UNCHANGED <<stack, turn, overlap>>
     ELSE Begin("loop", r, <<Frame(r, "load")>>)
  /\ UNCHANGED <<store, now, setting, crashes, handed>>

EndTick ==
  /\ Ticking("fire") /\ tick.due = {} /\ tick.woken = {}
  /\ tick' = Asleep /\ turn' = "free"
  /\ UNCHANGED <<store, now, setting, stack, crashes, history>>

\* only as far as some timer needs
PassTime ==
  /\ turn = "free" /\ \E t \in timers : t.status = "pending" /\ t.at > now
  /\ now' = now + 1
  /\ UNCHANGED <<store, setting, stack, turn, tick, crashes, history>>

Crash ==
  /\ crashes < MaxCrashes
  /\ crashes' = crashes + 1
  /\ stack' = [d \in Driver |-> <<>>] /\ turn' = "free" /\ tick' = Asleep
  /\ UNCHANGED <<store, now, setting, history>>

Drive(d) ==
  \/ CreateRow(d) \/ CommitCreated(d) \/ EnterTerminal(d) \/ EnterParked(d) \/ EnterResumed(d)
  \/ Reconcile(d) \/ LoadJournal(d)
  \/ TaskHit(d) \/ ScheduleTask(d) \/ TaskReturns(d) \/ TaskRaises(d)
  \/ SleepHit(d) \/ CreateTimer(d) \/ EnsureTimerRow(d) \/ CommitWaiting(d) \/ ParkRun(d)
  \/ CommitOutcome(d) \/ SettleStatus(d)
  \/ StartChild(d) \/ DriveChild(d) \/ ChildStarted(d)
  \/ AwaitResult(d) \/ HandParked(d) \/ PollChild(d) \/ HandOutcome(d)

Tick ==
  \/ ReadDue \/ EndTick
  \/ \E t \in timers : FireTimer(t) \/ SettleTimer(t)
  \/ \E r \in Run : WakeRun(r)

ChildNext ==
  \/ \E d \in Driver : Drive(d)
  \/ Start \/ AwaitUnpark \/ Unparked \/ CommitCancelled \/ \E r \in Run : Cancel(r)
  \/ Tick \/ PassTime \/ Crash

\* bodies end, time passes and the loop goes on; nobody has to start a run again
ChildSpec ==
  /\ ChildInit /\ [][ChildNext]_vars
  /\ \A d \in Driver : WF_vars(Drive(d))
  /\ WF_vars(AwaitUnpark) /\ WF_vars(CommitCancelled) /\ WF_vars(Tick) /\ WF_vars(PassTime)

-----------------------------------------------------------------------------
(* Correctness                                                              *)

Named(call) ==
  {journal[Root][i].val : i \in {k \in DOMAIN journal[Root] :
     journal[Root][k].type = "ChildWorkflowScheduled" /\ journal[Root][k].call = call}}

\* One call of start_child has one child, however often the parent is driven, and no
\* row of a child is there that the parent's journal does not name.
OneChild ==
  /\ Root \notin overlap => \A call \in DOMAIN setting.calls : Cardinality(Named(call)) <= 1
  /\ \A k \in Kid : status[k] # "none" => \E call \in DOMAIN setting.calls : k \in Named(call)

Once(r) ==
  /\ \A call \in DOMAIN Calls(r) :
       Cardinality({i \in DOMAIN journal[r] : journal[r][i].type = "TaskCompleted"
                                             /\ journal[r][i].call = call}) <= 1
  /\ Count(r, "WorkflowCompleted") + Count(r, "WorkflowFailed") <= 1

\* A child that was interrupted resumes and does not start over, and one that has
\* ended is reused, whoever drives it: its parent, its parent's handle or the poll loop.
ResumesNotRestarts == \A r \in Run : r \notin overlap => Once(r)

\* A reader of the parent is shown of the child what the parent was handed: its value
\* (and that it completed, unless a cancellation came between its last event and its
\* status), or no value and that it ended otherwise.
ShownAsHanded(k) ==
  \A v \in handed \ {"parked"} :
    IF v = "error" THEN ChildOutput(k) = "none" /\ ChildStatus(k) \in {"failed", "cancelled"}
    ELSE ChildOutput(k) = v /\ ChildStatus(k) \in {"completed", "cancelled"}

\* Every drive of the parent is handed the same outcome of the child, readers are told
\* the same, and a parent does not complete over a child that failed (ADR-0020); PARKED
\* is no outcome.
ResultIsChilds ==
  Root \notin overlap /\ overlap \cap Kid = {} =>
    /\ \A call \in DOMAIN setting.calls : \A k \in Named(call) : ShownAsHanded(k)
    /\ Cardinality(handed \ {"parked"}) <= 1
    /\ status[Root] = "completed" /\ "parked" \notin handed =>
         \A call \in DOMAIN setting.calls : \A k \in Named(call) :
           /\ Count(k, "WorkflowCompleted") > 0
           /\ LastOf(Root, OutcomeEvent).val = LastOf(k, OutcomeEvent).val

\* the wake was lost in a crash
Stranded(r) ==
  /\ status[r] = "waiting" /\ \A t \in timers : t.run = r => t.status = "fired"
  /\ tick.phase = "asleep" /\ AtWork(r) = {}

Parked(r) == status[r] = "waiting" /\ \E t \in timers : t.run = r /\ t.status = "pending"

\* A parked child goes on without its parent, and a parent that waits for it is told.
ParkedEnds ==
  setting.background =>
    \A r \in Run : Parked(r) ~> (status[r] \in Terminal \/ Stranded(r))
=============================================================================
