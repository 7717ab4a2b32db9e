-------------------------- MODULE TimerEventWorker --------------------------
(***************************************************************************)
(* The poll loop beside the run of ReplayEngine: each tick it delivers     *)
(* events, then fires due timers, then re-drives the run they woke.        *)
(*                                                                         *)
(* The worker is one more driver.  While it drives the run it takes the    *)
(* engine's own steps; between them it is at a phase of its tick:          *)
(*   asleep   the interval between two ticks                               *)
(*   scan     events are delivered, due timers are read next               *)
(*   fire     going through the due timers                                 *)
(*   settle   one has fired, its row is still pending                      *)
(*   wake     the run may have to be driven                                *)
(*   dead     an exception left tick(), which run() does not catch         *)
(* A tick also drives the store's other runs; with OtherRuns it suspends   *)
(* in their task bodies before scan and before wake.                       *)
(***************************************************************************)
EXTENDS ReplayEngine

CONSTANTS
  Worker,     \* the driver that is the poll loop
  OtherRuns   \* does the tick drive other runs of the store as well?

ASSUME WorkerIsDriver == Worker \in Driver /\ OtherRuns \in BOOLEAN

VARIABLES
  phase,      \* where the tick is
  due,        \* ids of the due timers it read and has not handled
  woken,      \* a timer of this run fired: the run is in to_resume
  awaiting    \* drivers inside await_unpark, polling runs.status

loop == <<phase, due, woken>>
allVars == <<vars, loop, awaiting>>

WorkerInit ==
  /\ Init
  /\ phase = "asleep" /\ due = {} /\ woken = FALSE /\ awaiting = {}

Whole == Len(journal)

Unfinished == status \in {"running", "waiting"}

-----------------------------------------------------------------------------
(* TimerEventWorker._deliver_events                                         *)

Resolved(id) ==
  \/ Recorded(journal, Whole, "ExternalEventReceived", id)
  \/ \E i \in 1..Whole : journal[i].type = "TimerFired" /\ journal[i].id = id
                         /\ journal[i].val = "event_timeout"

\* the waits a run has started and not resolved, with the event type of each
OutstandingWaits ==
  {journal[LatestIndex(journal, Whole, "EventWaitStarted", journal[i].id)] :
     i \in {k \in 1..Whole : /\ journal[k].type = "EventWaitStarted"
                             /\ ~Resolved(journal[k].id)}}

\* some outstanding wait has an unconsumed event in the inbox
EventAwaits ==
  \E e \in OutstandingWaits : \E i \in DOMAIN inbox :
    inbox[i].topic = e.val /\ ~inbox[i].consumed

\* MUTANT of Deliver: a run with a due timer is left to the timers
DeliverAfterTimers ==
  /\ phase = "asleep" /\ Idle(Worker)
  /\ IF Unfinished /\ EventAwaits /\ \A row \in timers : row.fire_at > now
     THEN Redrive(Worker) ELSE UNCHANGED vars
  /\ phase' = "scan"
  /\ UNCHANGED <<due, woken, awaiting>>

\* the tick begins: consumption happens inside the re-drive's wait
Deliver ==
  /\ phase = "asleep" /\ Idle(Worker)
  /\ IF Unfinished /\ EventAwaits THEN Redrive(Worker) ELSE UNCHANGED vars
  /\ phase' = "scan"
  /\ UNCHANGED <<due, woken, awaiting>>

-----------------------------------------------------------------------------
(* TimerEventWorker._fire_timers and _fire_one                              *)

\* they are read once per tick
Scan ==
  /\ phase = "scan" /\ Idle(Worker)
  /\ due' = {row.timer_id : row \in DueTimers}
  /\ phase' = "fire" /\ turn' = Worker
  /\ UNCHANGED <<store, env, pc, frame, woken, awaiting>>

\* the due timer being handled: the earliest, ties by timer_id
NextDue(row) ==
  /\ row \in timers /\ row.timer_id \in due
  /\ \A r \in timers : r.timer_id \in due =>
       \/ row.fire_at < r.fire_at
       \/ row.fire_at = r.fire_at /\ row.timer_id <= r.timer_id

DiscardTimer(row) ==
  /\ phase = "fire" /\ NextDue(row) /\ Received(row)
  /\ SetTimerStatus(row, "discarded")
  /\ due' = due \ {row.timer_id}
  /\ UNCHANGED <<journal, status, stamp, inbox, env, pc, turn, frame, phase, woken, awaiting>>

\* a duplicate read: the row is settled and the run is not woken
SettleDuplicate(row) ==
  /\ phase = "fire" /\ NextDue(row) /\ ~Received(row) /\ AlreadyFired(row)
  /\ SetTimerStatus(row, "fired")
  /\ due' = due \ {row.timer_id}
  /\ UNCHANGED <<journal, status, stamp, inbox, env, pc, turn, frame, phase, woken, awaiting>>

\* TimerFired is appended first, whatever the run's status ...
FireNext(row) ==
  /\ phase = "fire" /\ NextDue(row) /\ ~Received(row) /\ ~AlreadyFired(row)
  /\ Commit("TimerFired", row.id, row.fire_at, row.kind)
  /\ phase' = "settle"
  /\ UNCHANGED <<status, stamp, timers, inbox, env, pc, turn, frame, due, woken, awaiting>>

\* ... and its row is settled by a second commit
SettleNext(row) ==
  /\ phase = "settle" /\ NextDue(row)
  /\ SetTimerStatus(row, "fired")
  /\ due' = due \ {row.timer_id} /\ woken' = TRUE /\ phase' = "fire"
  /\ UNCHANGED <<journal, status, stamp, inbox, env, pc, turn, frame, awaiting>>

Fired ==
  /\ phase = "fire" /\ due = {}
  /\ phase' = "wake" /\ turn' = Free
  /\ UNCHANGED <<store, env, pc, frame, due, woken, awaiting>>

\* MUTANT of Wake: a fired timer does not wake its run
WakeNever ==
  /\ phase = "wake" /\ Idle(Worker)
  /\ phase' = "asleep" /\ woken' = FALSE
  /\ UNCHANGED <<store, env, pc, turn, frame, due, awaiting>>

\* MUTANT of Wake: the status of the woken run is not read again
WakeFinished ==
  /\ phase = "wake" /\ Idle(Worker)
  /\ IF woken THEN GoTo(Worker, "drive") ELSE UNCHANGED <<pc, turn>>
  /\ phase' = "asleep" /\ woken' = FALSE
  /\ UNCHANGED <<store, env, frame, due, awaiting>>

\* the run is driven once if any of its timers fired
Wake ==
  /\ phase = "wake" /\ Idle(Worker)
  /\ IF woken /\ Unfinished THEN Redrive(Worker) ELSE UNCHANGED vars
  /\ phase' = "asleep" /\ woken' = FALSE
  /\ UNCHANGED <<due, awaiting>>

-----------------------------------------------------------------------------
(* The steps of the engine, of result() and of the environment beside them  *)

\* a tick that drives no other run keeps the event loop from phase to phase
MidTick == phase \in {"scan", "wake"} /\ pc[Worker] = "idle" /\ turn = Free /\ ~OtherRuns

\* a drive of the run between its load and its end
DriveStep(d) ==
  \/ RecordCreated(d) \/ SettleStatus(d) \/ Drive(d) \/ CallTask(d) \/ CallPrimitive(d)

\* a drive that parks: result() of a caller then waits for the loop to unpark it
ParkStep(d) ==
  /\ Park(d)
  /\ awaiting' = IF d # Worker /\ phase # "dead" THEN awaiting \cup {d} ELSE awaiting

\* NondeterminismError raised in a re-drive leaves the tick and ends the loop
RefuseStep(d) ==
  /\ RefuseReplay(d)
  /\ phase' = IF d = Worker THEN "dead" ELSE phase
  /\ UNCHANGED <<due, woken, awaiting>>

\* await_unpark returns once the run is terminal or the loop is gone
Unpark(d) ==
  /\ d \in awaiting /\ turn = Free
  /\ status \in TerminalStatus \/ phase = "dead"
  /\ awaiting' = awaiting \ {d}
  /\ UNCHANGED <<vars, loop>>

\* a caller asks for the run's result, or cancels it (cancel needs no result)
CallerStep(d) ==
  /\ d # Worker /\ ~MidTick
  /\ \/ d \notin awaiting /\ (StartRun(d) \/ ResumeRun(d) \/ WakeRun(d))
     \/ CancelRun(d)
  /\ UNCHANGED <<loop, awaiting>>

TickStep ==
  \/ Deliver \/ Scan \/ Fired \/ Wake
  \/ \E row \in timers :
       DiscardTimer(row) \/ SettleDuplicate(row) \/ FireNext(row) \/ SettleNext(row)

EngineStep(d) ==
  /\ d # Worker => ~MidTick
  /\ \/ DriveStep(d) /\ UNCHANGED <<loop, awaiting>>
     \/ ParkStep(d) /\ UNCHANGED loop
     \/ RefuseStep(d)
     \/ Unpark(d)

EventStep == \E t \in Topic : ~MidTick /\ SendEvent(t) /\ UNCHANGED <<loop, awaiting>>

ClockStep == PassTime /\ UNCHANGED <<loop, awaiting>>

CrashStep ==
  /\ Crash
  /\ phase' = "asleep" /\ due' = {} /\ woken' = FALSE /\ awaiting' = {}

WorkerNext ==
  \/ TickStep \/ \E d \in Driver : CallerStep(d) \/ EngineStep(d)
  \/ EventStep \/ ClockStep \/ CrashStep

\* The loop keeps ticking, ready tasks keep getting their turn and their bodies
\* return, and the clock runs.  Nobody has to call, send or crash.
WorkerFairness ==
  /\ WF_allVars(TickStep) /\ WF_allVars(ClockStep)
  /\ \A d \in Driver : SF_allVars(EngineStep(d))

WorkerSpec == WorkerInit /\ [][WorkerNext]_allVars /\ WorkerFairness

-----------------------------------------------------------------------------
(* Correctness                                                              *)

\* while the loop goes through the due timers no driver of the run holds the loop
RunTurn == IF phase \in {"fire", "settle"} THEN Free ELSE turn

Run == INSTANCE ReplayEngine WITH turn <- RunTurn

\* The poll loop does to the run only what ReplayEngine lets a poll loop do: it
\* fires and settles due timers between the steps of drivers, and re-drives only
\* a run that has not ended (_fire_timers reads the status again after firing).
ImplementsRun == Run!Spec

\* A timer fires once, though a crash may fall between its TimerFired and its
\* row and the next tick reads the row as due again.
TimerFiredOnce == RecordedOnce({"TimerFired"})

\* A wait ends one way: the journal never holds both the event a wait received
\* and its timeout (ADR-0021, the timeout of a resolved wait is discarded).
WaitEndsOnce ==
  \A i, k \in DOMAIN journal :
    /\ journal[i].type = "ExternalEventReceived"
    /\ journal[k].type = "TimerFired" /\ journal[k].val = "event_timeout"
    => journal[i].id # journal[k].id

\* A caller in result() and the poll loop do not record one thing twice between them,
\* neither a task call nor the end of a wait (ADR-0006).
NothingTwice == TaskRecordedOnce /\ WaitEndsOnce

\* No timer fires before the deadline its TimerCreated recorded, in whatever
\* process the run is picked up.
NoEarlyFire ==
  \A k \in DOMAIN journal : journal[k].type = "TimerFired" =>
    \E i \in 1..(k - 1) :
      /\ journal[i].type = "TimerCreated" /\ journal[i].id = journal[k].id
      /\ journal[i].n = journal[k].n /\ journal[i].n <= now

\* A durable timer is kept across crashes: it fires once, and in time.
FiresOnceInTime == TimerFiredOnce /\ NoEarlyFire

\* "The timeout only fires when no matching event is present" (ADR-0021): a
\* delivered event wins over the timeout of the wait of a run that has not ended.
EventWins ==
  [][\A row \in timers :
       Unfinished /\ row.kind = "event_timeout" /\ ~AlreadyFired(row) /\ AlreadyFired(row)'
       => ~\E e \in OutstandingWaits : \E i \in DOMAIN inbox :
            e.id = row.id /\ inbox[i].topic = e.val /\ ~inbox[i].consumed]_allVars

\* the run is parked, for the n-th time
Parked(n) ==
  status = "waiting" /\ Len(EventsOf(journal, Whole, "WorkflowWaiting")) = n

\* the run has ended or has gone on to a later park
PastPark(n) ==
  status \in TerminalStatus \/ Len(EventsOf(journal, Whole, "WorkflowWaiting")) > n

\* A run parked on a timer goes on: "the run is released while waiting and
\* resumes when the timer fires" (SLICE-V3), if the bounded clock gets there.
TimerEndsPark ==
  \A n \in 1..MaxCalls :
    (Parked(n) /\ \E row \in timers :
       row.status = "pending" /\ ~Resolved(row.id) /\ row.fire_at <= MaxTime)
      ~> PastPark(n)

\* A run parked on a wait whose event is in the inbox receives it and goes on.
EventEndsPark ==
  \A n \in 1..MaxCalls : (Parked(n) /\ EventAwaits) ~> PastPark(n)

\* Whatever a run is parked on, its park ends when that comes.
ParkEnds == TimerEndsPark /\ EventEndsPark
=============================================================================
