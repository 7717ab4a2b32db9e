---------------------------- MODULE WorkerProofs ----------------------------
(***************************************************************************)
(* The poll loop beside any number of callers: it fires a timer once and   *)
(* in time, and does to the run only what ReplayEngine lets a poll loop do. *)
(* Beside one caller, in a process that lives, nothing is recorded twice,   *)
(* and an event that is there wins over the timeout of its wait.            *)
(***************************************************************************)
EXTENDS TimerEventWorker, ReplayEngineProofs

\* a step of the run that is not the poll loop's hand on a timer, nor a crash
EngineMove ==
  \/ \E d \in Driver : \/ Control(d) \/ Drive(d) \/ CallTask(d) \/ CallPrimitive(d)
                       \/ RefuseReplay(d) \/ Park(d)
  \/ (\E t \in Topic : SendEvent(t)) \/ PassTime \/ UNCHANGED vars

Firing == {"fire", "settle"}

\* going through the due timers the loop awaits nothing, so that no driver moves
PhaseOK ==
  /\ phase \in {"asleep", "scan", "fire", "settle", "wake", "dead"}
  /\ phase \in Firing => turn = Worker /\ pc[Worker] = "idle"

\* what is in hand is due by the deadline its event recorded, and not settled yet
DueOK ==
  /\ \A t \in due : t \in 1..Len(journal) /\ journal[t].type = "TimerCreated" /\ journal[t].n <= now
  /\ \A row \in timers : row.timer_id \in due => row.status = "pending"

\* a TimerCreated has one row
RowsAreUnique == \A r, s \in timers : r.timer_id = s.timer_id => r = s

\* the kind of a timer is that of the call it belongs to
KindOf(id) == IF id.name = "sleep" THEN "sleep" ELSE "event_timeout"
TimerTypes == {"TimerCreated", "TimerFired"}

KindsOK ==
  \A i \in 1..Len(journal) : journal[i].type \in TimerTypes => journal[i].val = KindOf(journal[i].id)

\* between the two commits of a fire the timer has fired, and its wait got no event
SettleOK ==
  phase = "settle" => \A row \in timers : NextDue(row) => AlreadyFired(row) /\ ~Received(row)

LoopInv == PhaseOK /\ DueOK /\ TimersOK /\ RowsAreUnique /\ KindsOK /\ SettleOK

-----------------------------------------------------------------------------
(* The steps of the composition, by what they do to the run                  *)

\* While the loop goes through the timers only the clock runs beside it.
LEMMA OnlyTheClock ==
  ASSUME PhaseOK, phase \in Firing, EngineMove
  PROVE  PassTime \/ UNCHANGED vars
<1>1. turn = Worker /\ pc[Worker] = "idle" /\ Worker \in Driver /\ Free # Worker
  BY WorkerIsDriver, FreeIsNoDriver DEF PhaseOK
<1>2. ~\E t \in Topic : SendEvent(t)
  BY <1>1 DEF SendEvent
<1>3. ASSUME NEW d \in Driver,
             \/ Control(d) \/ Drive(d) \/ CallTask(d) \/ CallPrimitive(d) \/ RefuseReplay(d) \/ Park(d)
      PROVE  FALSE
  <2>1. turn = Free \/ (turn = d /\ pc[d] # "idle")
    BY <1>3 DEF Control, Drive, CallTask, CallPrimitive, StartRun, RecordCreated, ResumeRun,
         WakeRun, Redrive, CancelRun, SettleStatus, DriveTerminal, DriveLoad, Return, Raise,
         RefuseReplay, Park, ReuseResult, Schedule, StartAttempt, RunBody, Complete, FailAttempt,
         Backoff, SleepOver, ReuseEvent, ReuseTimeout, ConsumeEvent, RecordEvent, CreateTimer,
         EnsureTimerRow, StartWait, RecordWaiting, Parks, WaitMisses, CallAllowed, Awaits, At,
         Runs, Idle
  <2> QED BY <1>1, <2>1
<1> QED BY <1>2, <1>3 DEF EngineMove

RowStep(row) == DiscardTimer(row) \/ SettleDuplicate(row) \/ FireNext(row) \/ SettleNext(row)

LEMMA WorkerMoves ==
  ASSUME PhaseOK, [WorkerNext]_allVars
  PROVE  \/ /\ EngineMove /\ due' = due
            /\ \/ phase' = phase
               \/ phase \notin Firing /\ phase' \in {"asleep", "scan", "dead"}
         \/ Scan \/ Fired
         \/ \E row \in timers : RowStep(row)
         \/ Crash /\ phase' = "asleep" /\ due' = {}
<1>1. CASE Deliver \/ Wake
  <2>1. EngineMove
    BY <1>1, WorkerIsDriver DEF Deliver, Wake, EngineMove, Control
  <2> QED BY <1>1, <2>1 DEF Deliver, Wake, Firing
<1>2. ASSUME NEW d \in Driver, CallerStep(d)
      PROVE  EngineMove /\ due' = due /\ phase' = phase
  BY <1>2 DEF CallerStep, EngineMove, Control, loop
<1>3. ASSUME NEW d \in Driver, EngineStep(d)
      PROVE  /\ EngineMove /\ due' = due
             /\ \/ phase' = phase
                \/ phase \notin Firing /\ phase' = "dead"
  <2>1. EngineMove
    BY <1>3 DEF EngineStep, DriveStep, ParkStep, RefuseStep, Unpark, EngineMove, Control, CallTask
  <2>2. due' = due
    BY <1>3 DEF EngineStep, RefuseStep, Unpark, loop
  <2>3. phase' = phase \/ RefuseStep(Worker)
    BY <1>3 DEF EngineStep, RefuseStep, Unpark, loop
  <2>4. RefuseStep(Worker) => phase \notin Firing /\ phase' = "dead"
    BY WorkerIsDriver, FreeIsNoDriver DEF RefuseStep, RefuseReplay, Awaits, At, PhaseOK
  <2> QED BY <2>1, <2>2, <2>3, <2>4
<1>4. CASE EventStep \/ ClockStep \/ UNCHANGED allVars
  BY <1>4 DEF EventStep, ClockStep, EngineMove, loop, allVars
<1>5. CASE CrashStep
  BY <1>5 DEF CrashStep
<1> QED BY <1>1, <1>2, <1>3, <1>4, <1>5 DEF WorkerNext, TickStep, RowStep

LEMMA EngineMoveIsStep == ASSUME EngineMove PROVE [Next]_vars
  BY DEF EngineMove, Next

LEMMA RowStepIsPollLoop ==
  ASSUME NEW row \in timers, RowStep(row)
  PROVE  /\ Fires(row) \/ Settles(row)
         /\ FireNext(row) => Fires(row)
         /\ ~FireNext(row) => Settles(row)
  BY DEF RowStep, DiscardTimer, SettleDuplicate, FireNext, SettleNext, Fires, Settles

\* The clock does not go back.
LEMMA ClockRuns == ASSUME TypeOK, [Next]_vars PROVE now <= now'
<1>1. now \in Nat
  BY DEF TypeOK, EnvTypeOK
<1>2. now' = now \/ PassTime
  BY DEF Next, Control, Drive, CallTask, CallPrimitive, StartRun, RecordCreated, ResumeRun,
         WakeRun, Redrive, FireTimer, SettleTimer, CancelRun, SettleStatus, DriveTerminal,
         DriveLoad, Return, Raise, RefuseReplay, Park, ReuseResult, Schedule, StartAttempt,
         RunBody, Complete, FailAttempt, Backoff, SleepOver, ReuseEvent, ReuseTimeout,
         ConsumeEvent, RecordEvent, CreateTimer, EnsureTimerRow, StartWait, RecordWaiting,
         SendEvent, Crash, vars, env
<1> QED BY <1>1, <1>2 DEF PassTime

\* The types, in the composition.
LEMMA WorkerTypes ==
  ASSUME TypeInv, PhaseOK, [WorkerNext]_allVars
  PROVE  TypeInv'
<1>1. CASE EngineMove \/ Crash
  BY <1>1, EngineMoveIsStep, NextTypes DEF Next
<1>2. CASE \E row \in timers : RowStep(row)
  BY <1>2, RowStepIsPollLoop, PollLoopKeeps
<1>3. CASE Scan \/ Fired
  <2>1. UNCHANGED <<store, env, pc, frame>> /\ turn' \in {Worker, Free}
    BY <1>3 DEF Scan, Fired
  <2>2. EventsOK' /\ Grows /\ journal' \in Seq(Event)
    BY <2>1, SameJournalGrows DEF store
  <2>3. TypeOK'
    BY <2>1, WorkerIsDriver
       DEF store, env, frame, TypeInv, TypeOK, StoreTypeOK, EnvTypeOK, DriverTypeOK
  <2>4. DriversOK'
    BY <2>1, <2>2, DriverStays DEF env, frame, DriversOK
  <2> QED BY <2>2, <2>3, <2>4 DEF TypeInv
<1> QED BY <1>1, <1>2, <1>3, WorkerMoves

-----------------------------------------------------------------------------
(* Every step keeps LoopInv                                                  *)

LEMMA WorkerGrows ==
  ASSUME TypeInv, PhaseOK, [WorkerNext]_allVars
  PROVE  /\ Grows /\ now <= now' /\ Len(journal) \in Nat
         /\ \A i \in 1..Len(journal) : i \in 1..Len(journal') /\ journal'[i] = journal[i]
<1>0. TypeOK /\ Len(journal) \in Nat /\ now \in Nat
  BY JournalFacts DEF TypeInv, TypeOK, EnvTypeOK
<1>1. Grows /\ now <= now'
  <2>1. CASE EngineMove \/ Crash
    <3>1. [Next]_vars
      BY <2>1, EngineMoveIsStep DEF Next
    <3> QED BY <1>0, <3>1, StepGrows, ClockRuns
  <2>2. CASE Scan \/ Fired
    BY <1>0, <2>2, SameJournalGrows DEF Scan, Fired, store, env
  <2>3. ASSUME NEW row \in timers, RowStep(row)
        PROVE  Grows /\ now <= now'
    <3>1. Fires(row) \/ Settles(row)
      BY <2>3, RowStepIsPollLoop
    <3>2. now' = now
      BY <3>1 DEF Fires, Settles, env
    <3>3. CASE Settles(row)
      BY <1>0, <3>2, <3>3, SameJournalGrows DEF Settles
    <3>4. CASE Fires(row)
      <4>1. Grows
        BY <1>0, <3>4, AppendFacts DEF Fires, Commit, Grows
      <4> QED BY <1>0, <3>2, <4>1
    <3> QED BY <3>1, <3>3, <3>4
  <2> QED BY <2>1, <2>2, <2>3, WorkerMoves
<1>2. \A i \in 1..Len(journal) : i \in 1..Len(journal') /\ journal'[i] = journal[i]
  BY <1>0, <1>1 DEF Grows
<1> QED BY <1>0, <1>1, <1>2

\* the row a settle leaves in the place of `row`
Settled(row, s) == [row EXCEPT !.status = s]

LEMMA SettledFacts ==
  ASSUME TypeOK, NEW row \in timers, Settles(row)
  PROVE  \E r :
           /\ timers' = (timers \ {row}) \cup {r}
           /\ r.timer_id = row.timer_id /\ r.id = row.id
           /\ r.fire_at = row.fire_at /\ r.kind = row.kind
<1>1. PICK s : timers' = (timers \ {row}) \cup {Settled(row, s)}
  BY DEF Settles, SetTimerStatus, Settled
<1>2. row \in TimerRow
  BY DEF TypeOK, StoreTypeOK
<1>3. /\ Settled(row, s).timer_id = row.timer_id /\ Settled(row, s).id = row.id
      /\ Settled(row, s).fire_at = row.fire_at /\ Settled(row, s).kind = row.kind
  BY <1>2 DEF Settled, TimerRow
<1> QED BY <1>1, <1>3

\* Outside the poll loop the rows change where a park ensures its own.
LEMMA EngineRowsChange ==
  ASSUME EngineMove
  PROVE  timers' = timers \/ \E d \in Driver : EnsureTimerRow(d)
  BY DEF EngineMove, Control, Drive, CallTask, CallPrimitive, StartRun, RecordCreated, ResumeRun,
         WakeRun, Redrive, CancelRun, SettleStatus, DriveTerminal,
         DriveLoad, Return, Raise, RefuseReplay, Park, ReuseResult, Schedule, StartAttempt,
         RunBody, Complete, FailAttempt, Backoff, SleepOver, ReuseEvent, ReuseTimeout,
         ConsumeEvent, RecordEvent, CreateTimer, StartWait, RecordWaiting,
         SendEvent, PassTime, vars, store

LEMMA PhaseKept ==
  ASSUME TypeInv, PhaseOK, [WorkerNext]_allVars
  PROVE  PhaseOK'
<1>0. pc \in [Driver -> Pc] /\ Worker \in Driver
  BY WorkerIsDriver DEF TypeInv, TypeOK, DriverTypeOK
<1>1. ASSUME EngineMove,
             phase' = phase \/ (phase \notin Firing /\ phase' \in {"asleep", "scan", "dead"})
      PROVE  PhaseOK'
  <2>1. CASE phase \in Firing
    <3>1. PassTime \/ UNCHANGED vars
      BY <1>1, <2>1, OnlyTheClock
    <3> QED BY <1>1, <2>1, <3>1 DEF PhaseOK, PassTime, vars
  <2>2. CASE phase \notin Firing
    BY <1>1, <2>2 DEF PhaseOK, Firing
  <2> QED BY <2>1, <2>2
<1>2. CASE Scan \/ Fired
  BY <1>0, <1>2 DEF Scan, Fired, Idle, PhaseOK, Firing
<1>3. ASSUME NEW row \in timers, RowStep(row)
      PROVE  PhaseOK'
  BY <1>3 DEF RowStep, DiscardTimer, SettleDuplicate, FireNext, SettleNext, PhaseOK, Firing
<1>4. ASSUME Crash, phase' = "asleep"
      PROVE  PhaseOK'
  BY <1>4 DEF PhaseOK, Firing
<1>m. \/ /\ EngineMove /\ due' = due
         /\ \/ phase' = phase
            \/ phase \notin Firing /\ phase' \in {"asleep", "scan", "dead"}
      \/ Scan \/ Fired
      \/ \E row \in timers : RowStep(row)
      \/ Crash /\ phase' = "asleep" /\ due' = {}
  BY WorkerMoves
<1> QED BY <1>1, <1>2, <1>3, <1>4, <1>m

\* Every row stays the one its TimerCreated implies, and the only one.
LEMMA RowsKept ==
  ASSUME TypeInv, PhaseOK, TimersOK, RowsAreUnique, [WorkerNext]_allVars
  PROVE  TimersOK' /\ RowsAreUnique'
<1>0. TypeOK /\ \A i \in 1..Len(journal) : i \in 1..Len(journal') /\ journal'[i] = journal[i]
  BY WorkerGrows DEF TypeInv
<1>1. CASE timers' = timers
  BY <1>0, <1>1 DEF TimersOK, RowsAreUnique
<1>2. ASSUME NEW d \in Driver, EnsureTimerRow(d)
      PROVE  TimersOK' /\ RowsAreUnique'
  <2>1. TimersOK'
    BY <1>2, RowsKeep DEF Next, CallPrimitive
  <2>2. \/ timers' = timers
        \/ /\ timers' = timers \cup {RowOf(d)} /\ RowOf(d).timer_id = KnownTimer(d)
           /\ \A row \in timers : row.timer_id # KnownTimer(d)
    BY <1>2 DEF EnsureTimerRow, RowOf
  <2> QED BY <2>1, <2>2 DEF RowsAreUnique
<1>3. ASSUME NEW row \in timers, Settles(row)
      PROVE  TimersOK' /\ RowsAreUnique'
  <2>1. PICK r : /\ timers' = (timers \ {row}) \cup {r}
                 /\ r.timer_id = row.timer_id /\ r.id = row.id
                 /\ r.fire_at = row.fire_at /\ r.kind = row.kind
    BY <1>0, <1>3, SettledFacts
  <2>2. \A s \in timers' :
          /\ s.timer_id \in 1..Len(journal)
          /\ journal[s.timer_id].type = "TimerCreated"
          /\ journal[s.timer_id].id = s.id
          /\ journal[s.timer_id].n = s.fire_at
          /\ journal[s.timer_id].val = s.kind
    BY <2>1 DEF TimersOK
  <2>3. TimersOK'
    BY <1>0, <2>2 DEF TimersOK
  <2>4. RowsAreUnique'
    BY <2>1 DEF RowsAreUnique
  <2> QED BY <2>3, <2>4
<1>4. CASE EngineMove
  BY <1>1, <1>2, <1>4, EngineRowsChange
<1>5. CASE Scan \/ Fired \/ Crash
  BY <1>1, <1>5 DEF Scan, Fired, Crash, store
<1>6. ASSUME NEW row \in timers, RowStep(row)
      PROVE  TimersOK' /\ RowsAreUnique'
  BY <1>1, <1>3, <1>6, RowStepIsPollLoop DEF Fires
<1> QED BY <1>4, <1>5, <1>6, WorkerMoves

\* What is in hand stays due, and leaves the hand with its settling.
LEMMA DueKept ==
  ASSUME TypeInv, PhaseOK, TimersOK, RowsAreUnique, DueOK, [WorkerNext]_allVars
  PROVE  DueOK'
<1>0. /\ TypeOK /\ now \in Nat /\ now' \in Nat /\ now <= now' /\ Len(journal) \in Nat
      /\ \A i \in 1..Len(journal) : journal[i].n \in Nat
      /\ \A i \in 1..Len(journal) : i \in 1..Len(journal') /\ journal'[i] = journal[i]
  BY WorkerGrows, WorkerTypes, JournalFacts DEF TypeInv, TypeOK, EnvTypeOK, Event
<1>1. ASSUME \A t \in due' : t \in 1..Len(journal) /\ journal[t].type = "TimerCreated"
                             /\ journal[t].n <= now,
             \A row \in timers' : row.timer_id \in due' => row.status = "pending"
      PROVE  DueOK'
  <2>1. \A t \in due' : journal'[t].n <= now'
    BY <1>0, <1>1
  <2> QED BY <1>0, <1>1, <2>1 DEF DueOK
<1>2. CASE timers' = timers /\ due' \subseteq due
  BY <1>1, <1>2 DEF DueOK
<1>3. CASE EngineMove /\ due' = due
  <2>1. ASSUME NEW d \in Driver, EnsureTimerRow(d)
        PROVE  \A row \in timers' : row \in timers \/ row.status = "pending"
    <3>1. RowOf(d).status = "pending"
      BY DEF RowOf
    <3> QED BY <2>1, <3>1 DEF EnsureTimerRow
  <2>2. \A row \in timers' : row \in timers \/ row.status = "pending"
    BY <1>3, <2>1, EngineRowsChange
  <2> QED BY <1>1, <1>3, <2>2 DEF DueOK
<1>4. CASE Scan
  <2>1. timers' = timers /\ due' = {row.timer_id : row \in DueTimers}
    BY <1>4 DEF Scan, store
  <2>2. \A row \in DueTimers : row \in timers /\ row.status = "pending" /\ row.fire_at <= now
    BY DEF DueTimers
  <2>3. \A t \in due' : t \in 1..Len(journal) /\ journal[t].type = "TimerCreated"
                        /\ journal[t].n <= now
    BY <2>1, <2>2 DEF TimersOK
  <2>4. \A row \in timers' : row.timer_id \in due' => row.status = "pending"
    BY <2>1, <2>2 DEF RowsAreUnique
  <2> QED BY <1>1, <2>3, <2>4
<1>5. CASE Fired
  BY <1>2, <1>5 DEF Fired, store
<1>8. ASSUME Crash, due' = {}
      PROVE  DueOK'
  BY <1>2, <1>8 DEF Crash, store
<1>6. ASSUME NEW row \in timers, FireNext(row)
      PROVE  DueOK'
  BY <1>2, <1>6 DEF FireNext
<1>7. ASSUME NEW row \in timers, RowStep(row), ~FireNext(row)
      PROVE  DueOK'
  <2>1. due' = due \ {row.timer_id}
    BY <1>7 DEF RowStep, DiscardTimer, SettleDuplicate, SettleNext
  <2>2. PICK r : timers' = (timers \ {row}) \cup {r} /\ r.timer_id = row.timer_id
    BY <1>0, <1>7, RowStepIsPollLoop, SettledFacts
  <2> QED BY <1>1, <2>1, <2>2 DEF DueOK
<1>m. \/ /\ EngineMove /\ due' = due
         /\ \/ phase' = phase
            \/ phase \notin Firing /\ phase' \in {"asleep", "scan", "dead"}
      \/ Scan \/ Fired
      \/ \E row \in timers : RowStep(row)
      \/ Crash /\ phase' = "asleep" /\ due' = {}
  BY WorkerMoves
<1> QED BY <1>3, <1>4, <1>5, <1>6, <1>7, <1>8, <1>m

\* Outside the poll loop no event of a timer is appended but its TimerCreated.
LEMMA EngineTimerEvents ==
  ASSUME EngineMove
  PROVE  NoFact(TimerTypes) \/ \E d \in Driver : CreateTimer(d)
<1> SUFFICES ASSUME ~\E d \in Driver : CreateTimer(d) PROVE NoFact(TimerTypes)
  OBVIOUS
<1>1. \/ journal' = journal
      \/ \E type \in EventType \ TimerTypes : \E id, n, val : Commit(type, id, n, val)
  BY DEF EngineMove, Control, Drive, CallTask, CallPrimitive, StartRun, RecordCreated, ResumeRun,
         WakeRun, Redrive, CancelRun, SettleStatus, DriveTerminal,
         DriveLoad, Return, Raise, RefuseReplay, Park, ReuseResult, Schedule, StartAttempt,
         RunBody, Complete, FailAttempt, Backoff, SleepOver, ReuseEvent, ReuseTimeout,
         ConsumeEvent, RecordEvent, EnsureTimerRow, StartWait, RecordWaiting,
         SendEvent, PassTime, vars, store, EventType, TimerTypes
<1>2. ASSUME NEW type \in EventType \ TimerTypes, NEW id, NEW n, NEW val, Commit(type, id, n, val)
      PROVE  NoFact(TimerTypes)
  <2>1. journal' = Append(journal, Entry(type, id, n, val))
    BY <1>2 DEF Commit
  <2>2. Entry(type, id, n, val).type \notin TimerTypes
    BY DEF Entry
  <2> QED BY <2>1, <2>2 DEF NoFact
<1>3. CASE journal' = journal
  BY <1>3 DEF NoFact
<1> QED BY <1>1, <1>2, <1>3

LEMMA TimerKind ==
  ASSUME TimersOK, KindsOK, NEW row \in timers
  PROVE  row.kind = KindOf(row.id)
<1>1. journal[row.timer_id].type \in TimerTypes
  BY DEF TimersOK, TimerTypes
<1> QED BY <1>1 DEF TimersOK, KindsOK

LEMMA KindsKept ==
  ASSUME TypeInv, PhaseOK, TimersOK, KindsOK, [WorkerNext]_allVars
  PROVE  KindsOK'
<1>0. TypeOK
  BY DEF TypeInv
<1>1. CASE NoFact(TimerTypes)
  <2>1. \A i \in 1..Len(journal') : journal'[i].type \in TimerTypes =>
          i \in 1..Len(journal) /\ journal'[i] = journal[i]
    BY <1>0, <1>1, NoFactKeeps
  <2> QED BY <2>1 DEF KindsOK
<1>2. ASSUME NEW type, NEW id, NEW n, NEW val, Commit(type, id, n, val), val = KindOf(id)
      PROVE  KindsOK'
  <2>1. /\ \A i \in 1..Len(journal') : i \in 1..Len(journal) \/ i = Len(journal) + 1
        /\ \A i \in 1..Len(journal) : journal'[i] = journal[i]
        /\ journal'[Len(journal) + 1].id = id /\ journal'[Len(journal) + 1].val = val
    BY <1>0, <1>2, AppendFacts DEF Commit, Entry
  <2> QED BY <1>2, <2>1 DEF KindsOK
<1>3. ASSUME NEW d \in Driver, CreateTimer(d)
      PROVE  KindsOK'
  <2>1. /\ Awaited(d).kind \in {"sleep", "wait"}
        /\ Awaited(d).kind = "sleep" => Awaited(d).name = "sleep"
    BY <1>0, <1>3, AwaitedFacts DEF CreateTimer, Parks, WaitMisses, Awaits
  <2>2. (IF Awaited(d).kind = "sleep" THEN "sleep" ELSE "event_timeout") = KindOf(CallId(d))
    BY <2>1 DEF KindOf, CallId
  <2>3. \/ journal' = journal
        \/ \E n : Commit("TimerCreated", CallId(d), n, KindOf(CallId(d)))
    BY <1>3, <2>2 DEF CreateTimer
  <2> QED BY <1>1, <1>2, <2>3 DEF NoFact
<1>4. CASE EngineMove
  BY <1>1, <1>3, <1>4, EngineTimerEvents
<1>5. CASE Scan \/ Fired \/ Crash
  BY <1>1, <1>5 DEF Scan, Fired, Crash, store, NoFact
<1>6. ASSUME NEW row \in timers, RowStep(row)
      PROVE  KindsOK'
  <2>1. CASE Fires(row)
    BY <1>2, <2>1, TimerKind DEF Fires
  <2>2. CASE Settles(row)
    BY <1>1, <2>2 DEF Settles, NoFact
  <2> QED BY <1>6, <2>1, <2>2, RowStepIsPollLoop
<1> QED BY <1>4, <1>5, <1>6, WorkerMoves

\* One timer at a time is in hand.
LEMMA NextDueIsOne ==
  ASSUME TypeOK, RowsAreUnique, NEW r \in timers, NEW s \in timers, NextDue(r), NextDue(s)
  PROVE  r = s
<1>1. r \in TimerRow /\ s \in TimerRow
  BY DEF TypeOK, StoreTypeOK
<1>2. r.timer_id = s.timer_id
  BY <1>1 DEF NextDue, TimerRow
<1> QED BY <1>2 DEF RowsAreUnique

LEMMA SettleKept ==
  ASSUME TypeInv, PhaseOK, TimersOK, RowsAreUnique, KindsOK, SettleOK, [WorkerNext]_allVars
  PROVE  SettleOK'
<1>0. TypeOK /\ Len(journal) \in Nat
  BY JournalFacts DEF TypeInv
<1>1. CASE EngineMove /\ phase' = "settle" /\ due' = due /\ phase = "settle"
  <2>1. UNCHANGED <<journal, timers>>
    BY <1>1, OnlyTheClock DEF Firing, PassTime, vars, store
  <2> QED BY <1>1, <2>1 DEF SettleOK, NextDue, AlreadyFired, Received
<1>2. ASSUME NEW row \in timers, FireNext(row)
      PROVE  SettleOK'
  <2>1. /\ Commit("TimerFired", row.id, row.fire_at, row.kind)
        /\ NextDue(row) /\ ~Received(row) /\ UNCHANGED <<timers, due>>
    BY <1>2 DEF FireNext
  <2>2. /\ Len(journal') = Len(journal) + 1
        /\ \A i \in 1..Len(journal) : journal'[i] = journal[i]
        /\ \A i \in 1..Len(journal') : i \in 1..Len(journal) \/ i = Len(journal) + 1
        /\ journal'[Len(journal) + 1].type = "TimerFired"
        /\ journal'[Len(journal) + 1].id = row.id /\ journal'[Len(journal) + 1].val = row.kind
    BY <1>0, <2>1, AppendFacts DEF Commit, Entry
  <2>3. \E i \in 1..Len(journal') : journal'[i].type = "TimerFired" /\ journal'[i].id = row.id
                                    /\ journal'[i].val = row.kind
    BY <1>0, <2>2
  <2>4. ~(/\ row.kind = "event_timeout"
          /\ \E i \in 1..Len(journal') :
               journal'[i].type = "ExternalEventReceived" /\ journal'[i].id = row.id)
    BY <2>1, <2>2 DEF Received, Recorded
  <2>5. ASSUME NEW r \in timers', NextDue(r)'
        PROVE  r = row
    <3>1. r \in timers /\ NextDue(r)
      BY <2>1, <2>5 DEF NextDue
    <3> QED BY <1>0, <2>1, <3>1, NextDueIsOne
  <2>6. ASSUME NEW r \in timers', NextDue(r)'
        PROVE  AlreadyFired(r)' /\ ~Received(r)'
    BY <2>3, <2>4, <2>5, <2>6 DEF AlreadyFired, Received, Recorded
  <2> QED BY <2>6 DEF SettleOK
<1>3. CASE phase' # "settle"
  BY <1>3 DEF SettleOK
<1>4. CASE Scan \/ Fired
  BY <1>3, <1>4 DEF Scan, Fired
<1>5. ASSUME NEW row \in timers, RowStep(row), ~FireNext(row)
      PROVE  SettleOK'
  BY <1>3, <1>5 DEF RowStep, DiscardTimer, SettleDuplicate, SettleNext
<1> QED BY <1>1, <1>2, <1>3, <1>4, <1>5, WorkerMoves DEF Firing

LEMMA LoopInvHolds == WorkerSpec => [](TypeInv /\ LoopInv)
<1>1. WorkerInit => TypeInv /\ LoopInv
  <2> SUFFICES ASSUME WorkerInit PROVE TypeInv /\ LoopInv
    OBVIOUS
  <2>1. TypeInv
    BY InitTypes DEF WorkerInit
  <2>2. journal = <<>> /\ timers = {} /\ due = {} /\ phase = "asleep"
    BY DEF WorkerInit, Init
  <2> QED
    BY <2>1, <2>2 DEF LoopInv, PhaseOK, Firing, DueOK, TimersOK, RowsAreUnique, KindsOK, SettleOK
<1>2. TypeInv /\ LoopInv /\ [WorkerNext]_allVars => (TypeInv /\ LoopInv)'
  BY WorkerTypes, PhaseKept, RowsKept, DueKept, KindsKept, SettleKept DEF LoopInv
<1> QED BY <1>1, <1>2, PTL DEF WorkerSpec

-----------------------------------------------------------------------------
(* Timers                                                                    *)

\* No step but the poll loop's records that a timer fired.
LEMMA OnlyTheLoopFires ==
  ASSUME PhaseOK, [WorkerNext]_allVars
  PROVE  NoFact({"TimerFired"}) \/ \E row \in timers : FireNext(row)
<1>1. EngineMove => NoFact({"TimerFired"})
  <2>1. NoFact(TimerTypes) => NoFact({"TimerFired"})
    BY DEF NoFact, TimerTypes
  <2>2. ASSUME NEW d \in Driver, CreateTimer(d)
        PROVE  NoFact({"TimerFired"})
    BY <2>2 DEF CreateTimer, Commit, NoFact, Entry
  <2> QED BY <2>1, <2>2, EngineTimerEvents
<1>2. Scan \/ Fired \/ Crash => NoFact({"TimerFired"})
  BY DEF Scan, Fired, Crash, store, NoFact
<1>3. ASSUME NEW row \in timers, RowStep(row), ~FireNext(row)
      PROVE  NoFact({"TimerFired"})
  BY <1>3, RowStepIsPollLoop DEF Settles, NoFact
<1> QED BY <1>1, <1>2, <1>3, WorkerMoves

\* A fired timer stays one that fired in time.
LEMMA NoEarlyFireKept ==
  ASSUME TypeInv, LoopInv, NoEarlyFire, [WorkerNext]_allVars
  PROVE  NoEarlyFire'
<1>0. /\ TypeOK /\ now \in Nat /\ now' \in Nat /\ now <= now' /\ Len(journal) \in Nat
      /\ \A i \in 1..Len(journal) : journal[i].n \in Nat
      /\ \A i \in 1..Len(journal) : i \in 1..Len(journal') /\ journal'[i] = journal[i]
      /\ DOMAIN journal = 1..Len(journal) /\ DOMAIN journal' = 1..Len(journal')
      /\ Len(journal') \in Nat
  <2>1. TypeOK /\ TypeOK' /\ PhaseOK
    BY WorkerTypes DEF TypeInv, LoopInv
  <2>2. DOMAIN journal' = 1..Len(journal') /\ Len(journal') \in Nat
    BY <2>1, LenProperties DEF TypeOK, StoreTypeOK
  <2> QED BY <2>1, <2>2, WorkerGrows, JournalFacts DEF TypeOK, EnvTypeOK, Event
<1>1. ASSUME NEW k \in 1..Len(journal), journal[k].type = "TimerFired"
      PROVE  \E i \in 1..(k - 1) :
               /\ journal'[i].type = "TimerCreated" /\ journal'[i].id = journal'[k].id
               /\ journal'[i].n = journal'[k].n /\ journal'[i].n <= now'
  <2>1. PICK i \in 1..(k - 1) :
          /\ journal[i].type = "TimerCreated" /\ journal[i].id = journal[k].id
          /\ journal[i].n = journal[k].n /\ journal[i].n <= now
    BY <1>0, <1>1 DEF NoEarlyFire
  <2>2. i \in 1..Len(journal)
    BY <1>0
  <2>3. journal'[i] = journal[i] /\ journal'[k] = journal[k] /\ journal[i].n \in Nat
    BY <1>0, <2>2
  <2> QED BY <1>0, <2>1, <2>3
<1>2. ASSUME NEW row \in timers, FireNext(row), NEW k \in 1..Len(journal'), k = Len(journal) + 1
      PROVE  \E i \in 1..(k - 1) :
               /\ journal'[i].type = "TimerCreated" /\ journal'[i].id = journal'[k].id
               /\ journal'[i].n = journal'[k].n /\ journal'[i].n <= now'
  <2>1. journal'[k].id = row.id /\ journal'[k].n = row.fire_at
    BY <1>0, <1>2, AppendFacts DEF FireNext, Commit, Entry
  <2>2. /\ row.timer_id \in 1..Len(journal) /\ journal[row.timer_id].type = "TimerCreated"
        /\ journal[row.timer_id].id = row.id /\ journal[row.timer_id].n = row.fire_at
    BY DEF LoopInv, TimersOK
  <2>3. journal[row.timer_id].n <= now
    BY <1>2 DEF LoopInv, DueOK, FireNext, NextDue
  <2>4. journal'[row.timer_id] = journal[row.timer_id] /\ now' = now
    BY <1>0, <1>2, <2>2 DEF FireNext, env
  <2>5. row.timer_id \in 1..(k - 1)
    BY <1>0, <1>2, <2>2
  <2> QED BY <2>1, <2>2, <2>3, <2>4, <2>5
<1>3. ASSUME NEW k \in 1..Len(journal'), journal'[k].type = "TimerFired"
      PROVE  \/ k \in 1..Len(journal) /\ journal[k].type = "TimerFired"
             \/ k = Len(journal) + 1 /\ \E row \in timers : FireNext(row)
  <2>1. CASE NoFact({"TimerFired"})
    BY <1>0, <1>3, <2>1, NoFactKeeps
  <2>2. ASSUME NEW row \in timers, FireNext(row)
        PROVE  \/ k \in 1..Len(journal) /\ journal[k].type = "TimerFired"
               \/ k = Len(journal) + 1
    <3>1. Len(journal') = Len(journal) + 1
      BY <1>0, <2>2, AppendFacts DEF FireNext, Commit
    <3> QED BY <1>0, <1>3, <3>1
  <2> QED BY <2>1, <2>2, OnlyTheLoopFires DEF LoopInv
<1>4. \A k \in DOMAIN journal' : journal'[k].type = "TimerFired" =>
        \E i \in 1..(k - 1) :
          /\ journal'[i].type = "TimerCreated" /\ journal'[i].id = journal'[k].id
          /\ journal'[i].n = journal'[k].n /\ journal'[i].n <= now'
  BY <1>0, <1>1, <1>2, <1>3
<1> QED BY <1>4 DEF NoEarlyFire

\* The loop fires no timer that the journal says has fired.
LEMMA TimerFiredOnceKept ==
  ASSUME TypeInv, LoopInv, TimerFiredOnce, [WorkerNext]_allVars
  PROVE  TimerFiredOnce'
<1>0. TypeOK
  BY DEF TypeInv
<1>1. CASE NoFact({"TimerFired"})
  BY <1>0, <1>1, NoFactKeeps DEF TimerFiredOnce
<1>2. ASSUME NEW row \in timers, FireNext(row)
      PROVE  TimerFiredOnce'
  <2>1. ~Recorded(journal, Len(journal), "TimerFired", row.id)
    <3> SUFFICES ASSUME NEW i \in 1..Len(journal), journal[i].type = "TimerFired",
                        journal[i].id = row.id
                 PROVE  FALSE
      BY DEF Recorded
    <3>1. journal[i].val = row.kind
      BY TimerKind DEF LoopInv, KindsOK, TimerTypes
    <3> QED BY <1>2, <3>1 DEF FireNext, AlreadyFired
  <2> QED BY <1>0, <1>2, <2>1, FirstFactKeeps DEF FireNext, TimerFiredOnce
<1> QED BY <1>1, <1>2, OnlyTheLoopFires DEF LoopInv

\* A timer fires once and never early, in whatever process: however many callers
\* drive and cancel the run beside the poll loop, wherever a crash falls between
\* the two commits of a fire, and whatever code comes back after it.
THEOREM FiresOnceInTimeHolds == WorkerSpec => []FiresOnceInTime
<1>1. WorkerInit => FiresOnceInTime
  <2> SUFFICES ASSUME WorkerInit PROVE FiresOnceInTime
    OBVIOUS
  <2>1. journal = <<>>
    BY DEF WorkerInit, Init
  <2> QED BY <2>1 DEF FiresOnceInTime, TimerFiredOnce, RecordedOnce, NoEarlyFire
<1>2. TypeInv /\ LoopInv /\ FiresOnceInTime /\ [WorkerNext]_allVars => FiresOnceInTime'
  BY NoEarlyFireKept, TimerFiredOnceKept DEF FiresOnceInTime
<1> QED BY <1>1, <1>2, LoopInvHolds, PTL DEF WorkerSpec

-----------------------------------------------------------------------------
(* The composition implements the run.  Run is ReplayEngine with the event   *)
(* loop free while the poll loop goes through the timers: its readers read   *)
(* the same store and frames.                                                *)

LEMMA RunReadsJournal ==
  ASSUME NEW j, NEW n, NEW type, NEW id
  PROVE  /\ Run!Recorded(j, n, type, id) <=> Recorded(j, n, type, id)
         /\ Run!LatestIndex(j, n, type, id) = LatestIndex(j, n, type, id)
         /\ Run!TerminalIndices(j) = TerminalIndices(j)
         /\ Run!RecordedTerminalStatus(j) = RecordedTerminalStatus(j)
         /\ Run!MaxAttempt(j, n, id) = MaxAttempt(j, n, id)
         /\ Run!Failures(j, n, id) = Failures(j, n, id)
         /\ Run!EventsOf(j, n, type) = EventsOf(j, n, type)
         /\ Run!EarlierOf(j, n, type) = EarlierOf(j, n, type)
<1>1. \A S : Run!Max(S) = Max(S)
  BY DEF Run!Max, Max
<1>2. Run!Recorded(j, n, type, id) <=> Recorded(j, n, type, id)
  BY DEF Run!Recorded, Recorded
<1>8. Run!Failures(j, n, id) = Failures(j, n, id)
  BY DEF Run!Failures, Failures, Run!Cardinality, Cardinality
<1>9. Run!TerminalIndices(j) = TerminalIndices(j)
  BY DEF Run!TerminalIndices, TerminalIndices, Run!TerminalType, TerminalType
<1>3. Run!EventsOf(j, n, type) = EventsOf(j, n, type)
  BY DEF Run!EventsOf, EventsOf
<1>4. Run!LatestIndex(j, n, type, id) = LatestIndex(j, n, type, id)
  BY <1>1 DEF Run!LatestIndex, LatestIndex
<1>5. Run!MaxAttempt(j, n, id) = MaxAttempt(j, n, id)
  BY <1>1 DEF Run!MaxAttempt, MaxAttempt
<1>6. \A t : Run!StatusOf(t) = StatusOf(t)
  BY DEF Run!StatusOf, StatusOf
<1>7. Run!RecordedTerminalStatus(j) = RecordedTerminalStatus(j)
  BY <1>1, <1>9, <1>6 DEF Run!RecordedTerminalStatus, RecordedTerminalStatus
<1>10. Run!EarlierOf(j, n, type) = EarlierOf(j, n, type)
  BY DEF Run!EarlierOf, EarlierOf, Run!Cardinality, Cardinality
<1> QED BY <1>2, <1>3, <1>4, <1>5, <1>7, <1>8, <1>9, <1>10

LEMMA RunReadsCode ==
  /\ \A v : Run!CodeVersion(v) = CodeVersion(v)
  /\ \A a, b, c : Run!MayResume(a, b, c) <=> MayResume(a, b, c)
<1>1. ASSUME NEW o PROVE Run!stamp_code_version(o) = stamp_code_version(o)
  BY DEF Run!stamp_code_version, stamp_code_version, Run!None, None
<1>2. ASSUME NEW v PROVE Run!CodeVersion(v) = CodeVersion(v)
  BY <1>1 DEF Run!CodeVersion, CodeVersion
<1>3. ASSUME NEW a, NEW b, NEW c PROVE Run!MayResume(a, b, c) <=> MayResume(a, b, c)
  BY DEF Run!MayResume, MayResume, Run!is_version_mismatch, is_version_mismatch
<1> QED BY <1>2, <1>3

LEMMA RunReadsDrive ==
  ASSUME NEW d, NEW type
  PROVE  /\ Run!Awaited(d) = Awaited(d) /\ Run!CallId(d) = CallId(d)
         /\ Run!Hit(d, type) <=> Hit(d, type)
         /\ Run!HitEvent(d, type) = HitEvent(d, type)
         /\ Run!Match(d) = Match(d) /\ (Run!TimedOut(d) <=> TimedOut(d))
         /\ Run!KnownTimer(d) = KnownTimer(d) /\ Run!RowOf(d) = RowOf(d)
         /\ Run!Diverges(d) <=> Diverges(d)
         /\ Run!RetriesLeft(d) <=> RetriesLeft(d)
<1>1. Run!Awaited(d) = Awaited(d)
  BY DEF Run!Awaited, Awaited
<1>2. Run!CallId(d) = CallId(d)
  BY <1>1 DEF Run!CallId, CallId
<1>3. \A t : (Run!Hit(d, t) <=> Hit(d, t)) /\ Run!HitEvent(d, t) = HitEvent(d, t)
  BY <1>2, RunReadsJournal DEF Run!Hit, Hit, Run!HitEvent, HitEvent
<1>4. Run!TimedOut(d) <=> TimedOut(d)
  BY <1>3 DEF Run!TimedOut, TimedOut
<1>5. Run!Match(d) = Match(d)
  <2>1. \A S : Run!Min(S) = Min(S)
    BY DEF Run!Min, Min
  <2> QED BY <1>1, <2>1 DEF Run!Match, Match
<1>6. Run!KnownTimer(d) = KnownTimer(d)
  BY <1>2, <1>3, RunReadsJournal DEF Run!KnownTimer, KnownTimer
<1>7. Run!RowOf(d) = RowOf(d)
  BY <1>6 DEF Run!RowOf, RowOf
<1>8. Run!TaskCalls(d) = TaskCalls(d)
  BY DEF Run!TaskCalls, TaskCalls
<1>9. Run!Diverges(d) <=> Diverges(d)
  <2>1. \A i : Run!EarlierOf(journal, i, "TaskScheduled") = EarlierOf(journal, i, "TaskScheduled")
    BY RunReadsJournal
  <2>2. \A S : Run!Cardinality(S) = Cardinality(S)
    BY DEF Run!Cardinality, Cardinality
  <2> QED BY <1>1, <1>8, <2>1, <2>2 DEF Run!Diverges, Diverges
<1>10. Run!RetriesLeft(d) <=> RetriesLeft(d)
  BY <1>1 DEF Run!RetriesLeft, RetriesLeft
<1> QED BY <1>1, <1>2, <1>3, <1>4, <1>5, <1>6, <1>7, <1>9, <1>10

\* Outside the fires Run sees the event loop as it is.
LEMMA RunMoves ==
  ASSUME NEW d, RunTurn = turn, RunTurn' = turn'
  PROVE  /\ \A p : /\ Run!GoTo(d, p) <=> GoTo(d, p)
                   /\ Run!Suspend(d, p) <=> Suspend(d, p)
                   /\ Run!At(d, p) <=> At(d, p)
         /\ \A kind : Run!Awaits(d, kind) <=> Awaits(d, kind)
         /\ Run!Idle(d) <=> Idle(d)
         /\ Run!Release(d) <=> Release(d)
         /\ \A o : Run!Observe(d, o) <=> Observe(d, o)
         /\ Run!CallAllowed(d) <=> CallAllowed(d)
         /\ Run!WaitMisses(d) <=> WaitMisses(d)
         /\ Run!Parks(d) <=> Parks(d)
<1>1. \A p : /\ Run!GoTo(d, p) <=> GoTo(d, p)
             /\ Run!Suspend(d, p) <=> Suspend(d, p)
             /\ Run!At(d, p) <=> At(d, p)
  BY DEF Run!GoTo, GoTo, Run!Suspend, Suspend, Run!At, At, Run!Runs, Runs
<1>2. \A kind : Run!Awaits(d, kind) <=> Awaits(d, kind)
  BY <1>1, RunReadsDrive DEF Run!Awaits, Awaits
<1>3. Run!Idle(d) <=> Idle(d)
  BY DEF Run!Idle, Idle
<1>4. Run!Release(d) <=> Release(d)
  BY <1>1 DEF Run!Release, Release, Run!Name, Name
<1>5. ASSUME NEW o PROVE Run!Observe(d, o) <=> Observe(d, o)
  BY <1>1, RunReadsDrive DEF Run!Observe, Observe
<1>6. Run!CallAllowed(d) <=> CallAllowed(d)
  BY <1>2, RunReadsDrive DEF Run!CallAllowed, CallAllowed
<1>7. Run!WaitMisses(d) <=> WaitMisses(d)
  BY <1>2, RunReadsDrive DEF Run!WaitMisses, WaitMisses
<1>8. Run!Parks(d) <=> Parks(d)
  BY <1>2, <1>7, RunReadsDrive DEF Run!Parks, Parks
<1> QED BY <1>1, <1>2, <1>3, <1>4, <1>5, <1>6, <1>7, <1>8

LEMMA RunCommits ==
  ASSUME NEW type, NEW id, NEW n, NEW val
  PROVE  (Run!Commit(type, id, n, val) <=> Commit(type, id, n, val)) /\ Run!NoId = NoId
  BY DEF Run!Commit, Commit, Run!Entry, Entry, Run!NoId, NoId

LEMMA RunControl ==
  ASSUME NEW d \in Driver, RunTurn = turn, RunTurn' = turn', Control(d)
  PROVE  Run!Control(d)
<1> USE RunMoves, RunCommits DEF Run!store, store, Run!env, env, Run!frame, frame
<1>1. StartRun(d) => Run!StartRun(d)
  BY RunReadsCode DEF StartRun, Run!StartRun
<1>2. RecordCreated(d) => Run!RecordCreated(d)
  BY DEF RecordCreated, Run!RecordCreated
<1>3. ResumeRun(d) => Run!ResumeRun(d)
  <2>1. \A n, type : Run!EventsOf(journal, n, type) = EventsOf(journal, n, type)
    BY RunReadsJournal
  <2> QED BY <2>1, RunReadsCode DEF ResumeRun, Run!ResumeRun
<1>4. WakeRun(d) => Run!WakeRun(d)
  BY DEF WakeRun, Run!WakeRun
<1>5. CancelRun(d) => Run!CancelRun(d)
  BY DEF CancelRun, Run!CancelRun
<1>6. SettleStatus(d) => Run!SettleStatus(d)
  BY RunReadsJournal DEF SettleStatus, Run!SettleStatus
<1>7. Redrive(d) => Run!Redrive(d)
  BY DEF Redrive, Run!Redrive
<1> QED BY <1>1, <1>2, <1>3, <1>4, <1>5, <1>6, <1>7 DEF Control, Run!Control

LEMMA RunDrives ==
  ASSUME NEW d \in Driver, RunTurn = turn, RunTurn' = turn',
         Drive(d) \/ RefuseReplay(d) \/ Park(d)
  PROVE  Run!Drive(d) \/ Run!RefuseReplay(d) \/ Run!Park(d)
<1> USE RunMoves, RunCommits DEF Run!store, store, Run!env, env, Run!frame, frame
<1>1. DriveTerminal(d) => Run!DriveTerminal(d)
  BY RunReadsJournal DEF DriveTerminal, Run!DriveTerminal
<1>2. DriveLoad(d) => Run!DriveLoad(d)
  BY RunReadsJournal DEF DriveLoad, Run!DriveLoad
<1>3. Return(d) => Run!Return(d)
  BY DEF Return, Run!Return
<1>4. Raise(d) => Run!Raise(d)
  BY DEF Raise, Run!Raise
<1>5. RefuseReplay(d) => Run!RefuseReplay(d)
  BY RunReadsDrive DEF RefuseReplay, Run!RefuseReplay
<1>6. Park(d) => Run!Park(d)
  BY DEF Park, Run!Park
<1> QED BY <1>1, <1>2, <1>3, <1>4, <1>5, <1>6 DEF Drive, Run!Drive

LEMMA RunCallsTask ==
  ASSUME NEW d \in Driver, RunTurn = turn, RunTurn' = turn', CallTask(d)
  PROVE  Run!CallTask(d)
<1> USE RunMoves, RunCommits, RunReadsDrive
    DEF Run!store, store, Run!env, env, Run!frame, frame
<1>1. ReuseResult(d) => Run!ReuseResult(d)
  BY DEF ReuseResult, Run!ReuseResult
<1>2. Schedule(d) => Run!Schedule(d)
  <2>1. /\ Run!MaxAttempt(journal, loaded[d], CallId(d)) = MaxAttempt(journal, loaded[d], CallId(d))
        /\ Run!Failures(journal, loaded[d], CallId(d)) = Failures(journal, loaded[d], CallId(d))
    BY RunReadsJournal
  <2> QED BY <2>1 DEF Schedule, Run!Schedule
<1>3. StartAttempt(d) => Run!StartAttempt(d)
  BY DEF StartAttempt, Run!StartAttempt
<1>4. RunBody(d) => Run!RunBody(d)
  BY DEF RunBody, Run!RunBody
<1>5. Complete(d) => Run!Complete(d)
  BY DEF Complete, Run!Complete
<1>6. FailAttempt(d) => Run!FailAttempt(d)
  BY DEF FailAttempt, Run!FailAttempt
<1>7. Backoff(d) => Run!Backoff(d)
  BY DEF Backoff, Run!Backoff
<1> QED BY <1>1, <1>2, <1>3, <1>4, <1>5, <1>6, <1>7 DEF CallTask, Run!CallTask

LEMMA RunCallsPrimitive ==
  ASSUME NEW d \in Driver, RunTurn = turn, RunTurn' = turn', CallPrimitive(d)
  PROVE  Run!CallPrimitive(d)
<1> USE RunMoves, RunCommits, RunReadsDrive
    DEF Run!store, store, Run!env, env, Run!frame, frame
<1>1. SleepOver(d) => Run!SleepOver(d)
  BY DEF SleepOver, Run!SleepOver
<1>2. ReuseEvent(d) => Run!ReuseEvent(d)
  BY DEF ReuseEvent, Run!ReuseEvent
<1>3. ReuseTimeout(d) => Run!ReuseTimeout(d)
  BY DEF ReuseTimeout, Run!ReuseTimeout
<1>4. ConsumeEvent(d) => Run!ConsumeEvent(d)
  BY DEF ConsumeEvent, Run!ConsumeEvent
<1>5. RecordEvent(d) => Run!RecordEvent(d)
  BY DEF RecordEvent, Run!RecordEvent
<1>6. CreateTimer(d) => Run!CreateTimer(d)
  BY DEF CreateTimer, Run!CreateTimer
<1>7. EnsureTimerRow(d) => Run!EnsureTimerRow(d)
  BY DEF EnsureTimerRow, Run!EnsureTimerRow
<1>8. StartWait(d) => Run!StartWait(d)
  BY DEF StartWait, Run!StartWait
<1>9. RecordWaiting(d) => Run!RecordWaiting(d)
  BY DEF RecordWaiting, Run!RecordWaiting
<1> QED
  BY <1>1, <1>2, <1>3, <1>4, <1>5, <1>6, <1>7, <1>8, <1>9 DEF CallPrimitive, Run!CallPrimitive

\* A step of the run that is not the poll loop's, between two phases of a tick.
LEMMA RunEngineMove ==
  ASSUME PhaseOK, EngineMove,
         phase' = phase \/ (phase \notin Firing /\ phase' \in {"asleep", "scan", "dead"})
  PROVE  [Run!Next]_(Run!vars)
<1> USE DEF Run!store, store, Run!env, env, Run!frame, frame
<1>1. CASE UNCHANGED vars
  <2>1. RunTurn' = RunTurn
    BY <1>1 DEF RunTurn, Firing, vars
  <2> QED BY <1>1, <2>1 DEF Run!vars, vars
<1>2. CASE PassTime
  <2>1. RunTurn' = RunTurn
    BY <1>2 DEF RunTurn, Firing, PassTime
  <2> QED BY <1>2, <2>1 DEF PassTime, Run!PassTime, Run!Next
<1>3. CASE ~PassTime /\ ~UNCHANGED vars
  <2>1. phase \notin Firing /\ phase' \notin Firing
    BY <1>3, OnlyTheClock DEF Firing
  <2>2. RunTurn = turn /\ RunTurn' = turn'
    BY <2>1 DEF RunTurn, Firing
  <2>3. ASSUME NEW d \in Driver,
               \/ Control(d) \/ Drive(d) \/ CallTask(d) \/ CallPrimitive(d) \/ RefuseReplay(d) \/ Park(d)
        PROVE  Run!Next
    BY <2>2, <2>3, RunControl, RunDrives, RunCallsTask, RunCallsPrimitive DEF Run!Next
  <2>4. ASSUME NEW t \in Topic, SendEvent(t)
        PROVE  Run!Next
    <3>1. Run!SendEvent(t)
      BY <2>2, <2>4 DEF SendEvent, Run!SendEvent, Buffered, Run!Buffered
    <3> QED BY <3>1 DEF Run!Next
  <2> QED BY <1>3, <2>3, <2>4 DEF EngineMove
<1> QED BY <1>1, <1>2, <1>3

\* The poll loop fires a due timer that has not fired, and settles one that has.
LEMMA RunPollLoop ==
  ASSUME TypeOK, LoopInv, NEW row \in timers, RowStep(row)
  PROVE  Run!Next
<1> USE DEF Run!store, store, Run!env, env, Run!frame, frame
<1>1. /\ Run!Received(row) <=> Received(row)
      /\ Run!AlreadyFired(row) <=> AlreadyFired(row)
  BY RunReadsJournal DEF Run!Received, Received, Run!AlreadyFired, AlreadyFired
<1>2. row \in Run!DueTimers
  <2>1. row.timer_id \in due
    BY DEF RowStep, DiscardTimer, SettleDuplicate, FireNext, SettleNext, NextDue
  <2>2. row.status = "pending" /\ row.fire_at <= now
    BY <2>1 DEF LoopInv, DueOK, TimersOK
  <2> QED BY <2>2 DEF Run!DueTimers
<1>3. RunTurn = Free /\ RunTurn' = Free
  BY DEF RowStep, DiscardTimer, SettleDuplicate, FireNext, SettleNext, RunTurn
<1>4. CASE FireNext(row)
  <2>1. Run!FireTimer(row)
    BY <1>1, <1>2, <1>3, <1>4, RunCommits DEF FireNext, Run!FireTimer
  <2> QED BY <2>1 DEF Run!Next
<1>5. CASE ~FireNext(row)
  <2>1. /\ Received(row) \/ AlreadyFired(row)
        /\ SetTimerStatus(row, IF Received(row) THEN "discarded" ELSE "fired")
        /\ UNCHANGED <<journal, status, stamp, inbox, env, pc, frame>>
    <3>1. CASE DiscardTimer(row)
      BY <3>1 DEF DiscardTimer
    <3>2. CASE SettleDuplicate(row)
      BY <3>2 DEF SettleDuplicate
    <3>3. CASE SettleNext(row)
      BY <3>3 DEF SettleNext, LoopInv, SettleOK
    <3> QED BY <1>5, <3>1, <3>2, <3>3 DEF RowStep
  <2>2. Run!SettleTimer(row)
    BY <1>1, <1>2, <1>3, <2>1 DEF Run!SettleTimer, Run!SetTimerStatus, SetTimerStatus
  <2> QED BY <2>2 DEF Run!Next
<1> QED BY <1>4, <1>5

LEMMA RunStep ==
  ASSUME TypeInv, LoopInv, [WorkerNext]_allVars
  PROVE  [Run!Next]_(Run!vars)
<1> USE DEF Run!store, store, Run!env, env, Run!frame, frame
<1>1. CASE Scan \/ Fired
  <2>1. RunTurn' = RunTurn
    BY <1>1 DEF Scan, Fired, Idle, RunTurn
  <2> QED BY <1>1, <2>1 DEF Scan, Fired, Run!vars
<1>2. ASSUME Crash, phase' = "asleep"
      PROVE  Run!Next
  <2>1. RunTurn' = Free
    BY <1>2 DEF Crash, RunTurn
  <2>2. Run!Crash
    BY <1>2, <2>1 DEF Crash, Run!Crash, Name, Run!Name
  <2> QED BY <2>2 DEF Run!Next
<1>3. ASSUME NEW row \in timers, RowStep(row)
      PROVE  Run!Next
  BY <1>3, RunPollLoop DEF TypeInv
<1> QED BY <1>1, <1>2, <1>3, RunEngineMove, WorkerMoves DEF LoopInv

\* The poll loop, its wake-ups and the callers that wait for it do to a run only
\* what one more driver of it may do: every behaviour of the composition is one of
\* ReplayEngine, so what holds of every run of the engine holds under the loop.
THEOREM ImplementsRunHolds == WorkerSpec => ImplementsRun
<1>1. WorkerInit => Run!Init
  <2> SUFFICES ASSUME WorkerInit PROVE Run!Init
    OBVIOUS
  <2>1. Init /\ RunTurn = Free
    BY DEF WorkerInit, Init, RunTurn
  <2> QED BY <2>1, RunReadsCode DEF Init, Run!Init, Name, Run!Name
<1>2. TypeInv /\ LoopInv /\ [WorkerNext]_allVars => [Run!Next]_(Run!vars)
  BY RunStep
<1> QED BY <1>1, <1>2, LoopInvHolds, PTL DEF WorkerSpec, ImplementsRun, Run!Spec

-----------------------------------------------------------------------------
(* A caller and the poll loop beside each other, without crashes             *)

\* One task at a time awaits or drives the run besides the loop, and the process
\* lives: a process that comes back knows no caller that waits.
OneCaller == \A d, e \in Driver \ {Worker} : d = e
NoCrashes == MaxCrashes = 0

Caller == Driver \ {Worker}
Suspended == {"idle", "body", "returned", "backoff"}
Parking == {"timer", "await", "waiting", "park"}
ParkStarts == {"EventWaitStarted", "TimerCreated"}

\* who is between two suspensions holds the event loop
TurnOK == \A d \in Driver : pc[d] \notin Suspended => turn = d

\* what the first drive of a run has recorded: it parks on what it created of a park
\* without a suspension, and it has loaded nothing that was scheduled
FirstOK(d) ==
  \A i \in 1..Len(journal) :
    /\ journal[i].type \in ParkStarts => pc[d] \in Parking
    /\ journal[i].type = "TaskScheduled" =>
         pc[d] \notin {"idle", "create", "drive"} /\ i > loaded[d]

\* Until the run first parks or ends, its caller is in the first drive of it ...
FirstDrive ==
  status \in {"none", "running"} =>
    /\ pc[Worker] = "idle" /\ ~woken /\ phase # "dead" /\ awaiting = {}
    /\ status = "none" => journal = <<>> /\ AllIdle
    /\ status = "running" => \E d \in Caller : FirstOK(d) /\ pc[d] # "idle"

\* ... and from then on it awaits the run, as long as there is a loop to drive it, or
\* the run is over.
WaitsOrOver(d) ==
  \/ d \in awaiting
  \/ phase = "dead"
  \/ TerminalIndices(journal) # {} /\ pc[d] \in {"idle", "drive", "settle"}
ThenAwaits == status \notin {"none", "running"} => \A d \in Caller : WaitsOrOver(d)

PlacesOfBoth ==
  /\ awaiting \subseteq Caller /\ \A d \in awaiting : pc[d] \in {"idle", "settle"}
  /\ phase = "dead" => pc[Worker] = "idle"
  /\ status \in TerminalStatus => TerminalIndices(journal) # {}

\* no timer fires into a journal that a drive has loaded, nor for a wait that is
\* about to receive its event
NoneFired ==
  \A d \in Driver :
    /\ pc[d] \in Replaying =>
         \A i \in 1..Len(journal) : i > loaded[d] => journal[i].type # "TimerFired"
    /\ pc[d] = "receive" => ~Recorded(journal, Len(journal), "TimerFired", CallId(d))

BesideInv == TurnOK /\ FirstDrive /\ ThenAwaits /\ PlacesOfBoth /\ NoneFired

EngineOf(d) ==
  Control(d) \/ Drive(d) \/ CallTask(d) \/ CallPrimitive(d) \/ RefuseReplay(d) \/ Park(d)

\* A driver moves when nobody else holds the event loop, and keeps it or suspends.
LEMMA TurnMoves ==
  ASSUME TypeOK, NEW d \in Driver, EngineOf(d)
  PROVE  /\ turn \in {Free, d}
         /\ turn' = d \/ pc'[d] \in Suspended
<1>0. pc \in [Driver -> Pc]
  BY DEF TypeOK, DriverTypeOK
<1>1. turn \in {Free, d}
  BY DEF EngineOf, Control, Drive, CallTask, CallPrimitive, StartRun, RecordCreated, ResumeRun,
     WakeRun, Redrive, CancelRun, SettleStatus, DriveTerminal, DriveLoad, Return, Raise,
     RefuseReplay, Park, ReuseResult, Schedule, StartAttempt, RunBody, Complete, FailAttempt,
     Backoff, SleepOver, ReuseEvent, ReuseTimeout, ConsumeEvent, RecordEvent, CreateTimer,
     EnsureTimerRow, StartWait, RecordWaiting, Parks, WaitMisses, CallAllowed, Awaits, At,
     Runs, Idle
<1>2. turn' = d \/ pc'[d] \in Suspended
  BY <1>0 DEF EngineOf, Control, Drive, CallTask, CallPrimitive, StartRun, RecordCreated, ResumeRun,
     WakeRun, Redrive, CancelRun, SettleStatus, DriveTerminal, DriveLoad, Return, Raise,
     RefuseReplay, Park, ReuseResult, Schedule, StartAttempt, RunBody, Complete, FailAttempt,
     Backoff, SleepOver, ReuseEvent, ReuseTimeout, ConsumeEvent, RecordEvent, CreateTimer,
     EnsureTimerRow, StartWait, RecordWaiting, Observe, Release, GoTo, Suspend, Suspended
<1> QED BY <1>1, <1>2

\* The status goes from none to running, to waiting, and to the end.
LEMMA StatusMoves ==
  ASSUME TypeInv, NEW d \in Driver, EngineOf(d)
  PROVE  \/ status' = status
         \/ StartRun(d)
         \/ Park(d) /\ status' = "waiting"
         \/ /\ SettleStatus(d) \/ DriveTerminal(d)
            /\ TerminalIndices(journal) # {} /\ journal' = journal /\ status' \in TerminalStatus
<1>0. TypeOK /\ DriverOK(d)
  BY DEF TypeInv, DriversOK
<1>1. CASE SettleStatus(d) \/ DriveTerminal(d)
  <2>1. /\ TerminalIndices(journal) # {} /\ journal' = journal
        /\ status' = RecordedTerminalStatus(journal)
    BY <1>0, <1>1 DEF SettleStatus, DriveTerminal, DriverOK, At
  <2> QED BY <1>0, <1>1, <2>1, LastTerminal, JournalFacts
<1>2. CASE ~SettleStatus(d) /\ ~DriveTerminal(d) /\ ~StartRun(d) /\ ~Park(d)
  BY <1>2 DEF EngineOf, Control, Drive, CallTask, CallPrimitive, RecordCreated, ResumeRun,
     WakeRun, Redrive, CancelRun, DriveLoad, Return, Raise,
     RefuseReplay, ReuseResult, Schedule, StartAttempt, RunBody, Complete, FailAttempt,
     Backoff, SleepOver, ReuseEvent, ReuseTimeout, ConsumeEvent, RecordEvent, CreateTimer,
     EnsureTimerRow, StartWait, RecordWaiting, store
<1> QED BY <1>1, <1>2 DEF Park

\* a step that leaves the run and the loop where they are, but for clock and inbox
Beside == UNCHANGED <<journal, status, timers, code, pc, turn, frame, phase, woken, awaiting>>

\* The steps of the composition, by who takes them.
LEMMA WhoMoves ==
  ASSUME TypeInv, NoCrashes, [WorkerNext]_allVars
  PROVE  \/ \E d \in Driver :
              /\ EngineOf(d)
              /\ \/ d # Worker /\ CallerStep(d)
                 \/ DriveStep(d) /\ UNCHANGED <<loop, awaiting>>
                 \/ ParkStep(d) /\ UNCHANGED loop
                 \/ RefuseStep(d)
                 \/ d = Worker /\ (Deliver \/ Wake)
         \/ UNCHANGED vars /\ (Deliver \/ Wake)
         \/ \E d \in Driver : Unpark(d)
         \/ Scan \/ Fired
         \/ \E row \in timers : RowStep(row)
         \/ Beside
<1>1. ~CrashStep
  <2>1. crashes \in Nat /\ MaxCrashes = 0
    BY DEF TypeInv, TypeOK, EnvTypeOK, NoCrashes
  <2> QED BY <2>1 DEF CrashStep, Crash
<1>2. Deliver \/ Wake => EngineOf(Worker) \/ UNCHANGED vars
  BY DEF Deliver, Wake, EngineOf, Control
<1>3. ASSUME NEW d \in Driver, CallerStep(d) PROVE d # Worker /\ EngineOf(d)
  BY <1>3 DEF CallerStep, EngineOf, Control
<1>4. ASSUME NEW d \in Driver, DriveStep(d) \/ ParkStep(d) \/ RefuseStep(d) PROVE EngineOf(d)
  BY <1>4 DEF DriveStep, ParkStep, RefuseStep, EngineOf, Control
<1>5. EventStep \/ ClockStep \/ UNCHANGED allVars => Beside
  BY DEF EventStep, ClockStep, SendEvent, PassTime, allVars, vars, store, env, loop, Beside
<1>6. Worker \in Driver
  BY WorkerIsDriver
<1> QED BY <1>1, <1>2, <1>3, <1>4, <1>5, <1>6 DEF WorkerNext, TickStep, EngineStep, RowStep

LEMMA TurnKept ==
  ASSUME TypeInv, PhaseOK, TurnOK, NoCrashes, [WorkerNext]_allVars
  PROVE  TurnOK'
<1>0. TypeOK /\ Worker \in Driver /\ Free \notin Driver
  BY WorkerIsDriver, FreeIsNoDriver DEF TypeInv
<1>1. ASSUME NEW d \in Driver, EngineOf(d)
      PROVE  TurnOK'
  <2>1. OthersStay(d)
    BY <1>1, DriveMoves DEF EngineOf
  <2>2. turn \in {Free, d} /\ (turn' = d \/ pc'[d] \in Suspended)
    BY <1>0, <1>1, TurnMoves
  <2>3. ASSUME NEW e \in Driver, e # d PROVE pc'[e] \in Suspended
    BY <1>0, <2>1, <2>2, <2>3 DEF OthersStay, TurnOK
  <2> QED BY <2>2, <2>3 DEF TurnOK
<1>2. CASE UNCHANGED <<pc, turn>>
  BY <1>2 DEF TurnOK
<1>3. CASE Scan \/ Fired
  <2>1. pc' = pc /\ (turn = Free \/ (turn = Worker /\ pc[Worker] = "idle"))
    BY <1>3 DEF Scan, Fired, Idle, PhaseOK, Firing
  <2>2. \A e \in Driver : pc[e] \in Suspended
    BY <1>0, <2>1 DEF TurnOK, Suspended
  <2> QED BY <2>1, <2>2 DEF TurnOK
<1>4. (\E row \in timers : RowStep(row)) \/ Beside \/ (\E d \in Driver : Unpark(d)) \/ UNCHANGED vars
        => UNCHANGED <<pc, turn>>
  BY DEF RowStep, DiscardTimer, SettleDuplicate, FireNext, SettleNext, Beside, Unpark, vars
<1> QED BY <1>1, <1>2, <1>3, <1>4, WhoMoves

\* What the first drive has recorded, in a step of the caller that makes it.
LEMMA FirstCalls ==
  ASSUME TypeInv, NEW d \in Driver, FirstOK(d), CallTask(d) \/ CallPrimitive(d)
  PROVE  FirstOK(d)'
<1>0. TypeOK /\ DriverTypeOK /\ DriverOK(d) /\ loaded[d] \in Nat /\ Len(journal) \in Nat
  BY JournalFacts DEF TypeInv, TypeOK, DriversOK, DriverTypeOK
<1>1. loaded'[d] = loaded[d] /\ pc'[d] \in Replaying
  <2>1. loaded' = loaded
    BY DEF CallTask, CallPrimitive, ReuseResult, Schedule, StartAttempt, RunBody, Complete,
      FailAttempt, Backoff, SleepOver, ReuseEvent, ReuseTimeout, ConsumeEvent, RecordEvent,
      CreateTimer, EnsureTimerRow, StartWait, RecordWaiting, Observe, frame
  <2> QED BY <1>0, <2>1, CallsAreQuiet
<1>2. \/ pc'[d] \in Parking
      \/ pc[d] \notin Parking /\ NoFact(ParkStarts)
  <2>1. CASE CreateTimer(d) \/ EnsureTimerRow(d) \/ StartWait(d) \/ RecordWaiting(d)
    BY <1>0, <2>1 DEF CreateTimer, EnsureTimerRow, StartWait, RecordWaiting, GoTo, DriverTypeOK, Parking
  <2>2. CASE \/ CallTask(d) \/ SleepOver(d) \/ ReuseEvent(d) \/ ReuseTimeout(d) \/ ConsumeEvent(d)
             \/ RecordEvent(d)
    <3>1. pc[d] \notin Parking
      BY <2>2 DEF CallTask, ReuseResult, Schedule, StartAttempt, RunBody, Complete,
        FailAttempt, Backoff, SleepOver, ReuseEvent, ReuseTimeout, ConsumeEvent, RecordEvent,
        CallAllowed, WaitMisses, Awaits, At, Parking
    <3>2. \/ journal' = journal
          \/ \E type \in EventType \ ParkStarts : \E id, n, val : Commit(type, id, n, val)
      BY <2>2 DEF CallTask, ReuseResult, Schedule, StartAttempt, RunBody, Complete,
        FailAttempt, Backoff, SleepOver, ReuseEvent, ReuseTimeout, ConsumeEvent, RecordEvent,
        store, EventType, ParkStarts
    <3>3. ASSUME NEW type \in EventType \ ParkStarts, NEW id, NEW n, NEW val, Commit(type, id, n, val)
          PROVE  NoFact(ParkStarts)
      <4>1. journal' = Append(journal, Entry(type, id, n, val))
        BY <3>3 DEF Commit
      <4>2. Entry(type, id, n, val).type \notin ParkStarts
        BY DEF Entry
      <4> QED BY <4>1, <4>2 DEF NoFact
    <3> QED BY <3>1, <3>2, <3>3 DEF NoFact
  <2> QED BY <2>1, <2>2 DEF CallPrimitive
<1>3. ASSUME NEW i \in 1..Len(journal'), journal'[i].type \in ParkStarts
      PROVE  pc'[d] \in Parking
  <2>1. CASE pc[d] \notin Parking /\ NoFact(ParkStarts)
    <3>1. i \in 1..Len(journal) /\ journal'[i] = journal[i]
      BY <1>0, <1>3, <2>1, NoFactKeeps
    <3> QED BY <1>3, <2>1, <3>1 DEF FirstOK
  <2> QED BY <1>2, <2>1
<1>4. ASSUME NEW i \in 1..Len(journal'), journal'[i].type = "TaskScheduled"
      PROVE  i > loaded[d]
  <2>1. Grows
    BY <1>0, StepGrows DEF Next
  <2>2. CASE i \in 1..Len(journal)
    BY <1>4, <2>1, <2>2 DEF FirstOK, Grows
  <2>3. CASE i \notin 1..Len(journal)
    BY <1>0, <2>3 DEF DriverOK
  <2> QED BY <2>2, <2>3
<1>5. pc'[d] \notin {"idle", "create", "drive"}
  BY <1>1 DEF Replaying, Pc
<1> QED BY <1>1, <1>3, <1>4, <1>5 DEF FirstOK

\* While the run is in its first drive the loop finds nothing of it to do.
LEMMA NothingForTheLoop ==
  ASSUME TypeInv, LoopInv, TurnOK, FirstDrive, status \in {"none", "running"}
  PROVE  /\ Deliver \/ Wake => UNCHANGED vars /\ phase' # "dead" /\ ~woken'
         /\ \A row \in timers : ~RowStep(row)
<1>0. /\ TypeOK /\ Worker \in Driver /\ Free \notin Driver /\ ~woken
      /\ DOMAIN journal = 1..Len(journal)
      /\ status = "none" => journal = <<>>
      /\ status = "running" => \E d \in Caller : FirstOK(d)
  BY WorkerIsDriver, FreeIsNoDriver, JournalFacts DEF TypeInv, FirstDrive
<1>1. ASSUME NEW i \in 1..Len(journal), journal[i].type \in ParkStarts
      PROVE  \E d \in Caller : turn = d
  <2>1. status = "running"
    BY <1>0, <1>1
  <2>2. PICK d \in Caller : FirstOK(d)
    BY <1>0, <2>1
  <2>3. pc[d] \notin Suspended
    BY <1>1, <2>2 DEF FirstOK, Parking, Suspended
  <2> QED BY <2>3 DEF TurnOK, Caller
<1>2. ASSUME Deliver
      PROVE  UNCHANGED vars /\ phase' # "dead" /\ ~woken'
  <2>1. ~EventAwaits
    <3> SUFFICES ASSUME EventAwaits PROVE FALSE
      OBVIOUS
    <3>1. PICK e \in OutstandingWaits : TRUE
      BY DEF EventAwaits
    <3>2. PICK i \in 1..Len(journal) : journal[i].type = "EventWaitStarted"
      BY <3>1 DEF OutstandingWaits, Whole
    <3> QED BY <1>0, <1>1, <1>2, <3>2 DEF ParkStarts, Deliver, Idle, Caller
  <2> QED BY <1>0, <1>2, <2>1 DEF Deliver
<1>3. Wake => UNCHANGED vars /\ phase' # "dead" /\ ~woken'
  BY <1>0 DEF Wake
<1>4. ASSUME NEW row \in timers, RowStep(row) PROVE FALSE
  <2>1. row.timer_id \in 1..Len(journal) /\ journal[row.timer_id].type \in ParkStarts
    BY DEF LoopInv, TimersOK, ParkStarts
  <2>2. turn = Worker
    BY <1>4 DEF LoopInv, PhaseOK, Firing, RowStep, DiscardTimer, SettleDuplicate, FireNext, SettleNext
  <2> QED BY <1>1, <2>1, <2>2 DEF Caller
<1> QED BY <1>2, <1>3, <1>4

\* Whoever is in the middle of a drive then is the caller that made it.
LEMMA FirstIsCallers ==
  ASSUME OneCaller, FirstDrive, status \in {"none", "running"}, NEW d \in Driver, pc[d] # "idle"
  PROVE  status = "running" /\ d \in Caller /\ FirstOK(d)
<1>1. status # "none" /\ d # Worker
  BY DEF FirstDrive, AllIdle
<1>2. PICK e \in Caller : FirstOK(e)
  BY <1>1 DEF FirstDrive
<1>3. e = d
  BY <1>1 DEF OneCaller, Caller
<1> QED BY <1>1, <1>2, <1>3 DEF Caller

\* A drive that has loaded nothing that was scheduled follows it.
LEMMA FirstFollows ==
  ASSUME TypeInv, NEW d \in Driver, FirstOK(d) PROVE ~RefuseReplay(d)
<1>1. loaded[d] \in Nat /\ Len(journal) \in Nat /\ loaded[d] <= Len(journal)
  BY JournalFacts DEF TypeInv, TypeOK, DriverTypeOK, DriversOK, DriverOK
<1> SUFFICES ASSUME Diverges(d) PROVE FALSE
  BY DEF RefuseReplay
<1>2. PICK i \in 1..loaded[d] : journal[i].type = "TaskScheduled"
  BY DEF Diverges
<1>3. i \in 1..Len(journal) /\ ~(i > loaded[d])
  BY <1>1, <1>2
<1> QED BY <1>2, <1>3 DEF FirstOK

\* The steps of a drive, while the first one is under way.
LEMMA FirstSteps ==
  ASSUME TypeInv, NEW d \in Driver, FirstOK(d), DriveStep(d),
         status' = status, status \in {"none", "running"}
  PROVE  FirstOK(d)' /\ pc'[d] # "idle"
<1>0. TypeOK /\ DriverTypeOK /\ DriverOK(d) /\ loaded[d] \in Nat /\ Len(journal) \in Nat
  BY JournalFacts DEF TypeInv, TypeOK, DriversOK, DriverTypeOK
<1>1. CASE CallTask(d) \/ CallPrimitive(d)
  <2>1. pc'[d] \in Replaying
    BY <1>0, <1>1, CallsAreQuiet
  <2> QED BY <1>1, <2>1, FirstCalls DEF Replaying
<1>2. CASE RecordCreated(d) \/ Return(d) \/ Raise(d)
  <2>1. /\ loaded' = loaded /\ pc[d] \in {"create", "replay"}
        /\ pc'[d] = (IF RecordCreated(d) THEN "drive" ELSE "settle")
        /\ RecordCreated(d) <=> pc[d] = "create"
    BY <1>0, <1>2 DEF RecordCreated, Return, Raise, Awaits, At, GoTo, DriverTypeOK, frame
  <2>2. PICK type \in EventType \ (ParkStarts \cup {"TaskScheduled"}) : Commit(type, NoId, 0, "none")
    BY <1>2 DEF RecordCreated, Return, Raise, EventType, ParkStarts
  <2>3. \A i \in 1..Len(journal') :
          journal'[i].type \in ParkStarts \cup {"TaskScheduled"} =>
            i \in 1..Len(journal) /\ journal'[i] = journal[i]
    BY <1>0, <2>2, AppendFacts DEF Commit, Entry
  <2>4. ASSUME NEW i \in 1..Len(journal'), journal'[i].type \in ParkStarts \cup {"TaskScheduled"}
        PROVE  journal'[i].type = "TaskScheduled" /\ pc[d] = "replay" /\ i > loaded[d]
    BY <2>1, <2>3, <2>4 DEF FirstOK, Parking
  <2> QED BY <2>1, <2>4 DEF FirstOK, ParkStarts
<1>3. CASE DriveLoad(d)
  <2>1. pc[d] = "drive" /\ pc'[d] = "replay" /\ journal' = journal
    BY <1>0, <1>3 DEF DriveLoad, At, GoTo, DriverTypeOK, store
  <2> QED BY <2>1 DEF FirstOK, Parking
<1>4. ~SettleStatus(d) /\ ~DriveTerminal(d)
  <2>1. SettleStatus(d) \/ DriveTerminal(d) => TerminalIndices(journal) # {}
    BY <1>0 DEF SettleStatus, DriveTerminal, DriverOK, At
  <2>2. SettleStatus(d) \/ DriveTerminal(d) => status' \in TerminalStatus
    BY <1>0, <2>1, LastTerminal, JournalFacts DEF SettleStatus, DriveTerminal
  <2> QED BY <2>2 DEF TerminalStatus
<1> QED BY <1>1, <1>2, <1>3, <1>4 DEF DriveStep, Drive

LEMMA FirstKept ==
  ASSUME OneCaller, NoCrashes, TypeInv, LoopInv, TurnOK, FirstDrive, PlacesOfBoth, [WorkerNext]_allVars
  PROVE  FirstDrive'
<1>0. TypeOK /\ DriverTypeOK /\ Worker \in Driver
  BY WorkerIsDriver DEF TypeInv, TypeOK
<1> SUFFICES ASSUME status' \in {"none", "running"} PROVE FirstDrive'
  BY DEF FirstDrive
<1>1. status \in {"none", "running"}
  <2>1. status' = status \/ status = "none"
    <3>1. ASSUME NEW d \in Driver, EngineOf(d) PROVE status' = status \/ status = "none"
      BY <3>1, StatusMoves DEF StartRun, TerminalStatus
    <3>2. (\E row \in timers : RowStep(row)) \/ Scan \/ Fired \/ Beside \/ (\E d \in Driver : Unpark(d))
          \/ UNCHANGED vars => status' = status
      BY DEF RowStep, DiscardTimer, SettleDuplicate, FireNext, SettleNext, Scan, Fired, Beside, Unpark,
         vars, store
    <3> QED BY <3>1, <3>2, WhoMoves
  <2> QED BY <2>1
<1>2. /\ pc[Worker] = "idle" /\ ~woken /\ phase # "dead" /\ awaiting = {}
      /\ status = "none" => journal = <<>> /\ AllIdle
      /\ status = "running" => \E d \in Caller : FirstOK(d) /\ pc[d] # "idle"
  BY <1>1 DEF FirstDrive
<1>3. ASSUME UNCHANGED <<journal, status, pc, loaded, awaiting>>, phase' # "dead", ~woken'
      PROVE  FirstDrive'
  BY <1>2, <1>3 DEF FirstDrive, FirstOK, AllIdle
<1>4. ASSUME NEW d \in Driver, DriveStep(d), UNCHANGED <<loop, awaiting>>
      PROVE  FirstDrive'
  <2>1. pc[d] # "idle"
    BY <1>4 DEF DriveStep, RecordCreated, SettleStatus, Drive, CallTask, CallPrimitive, DriveTerminal,
       DriveLoad, Return, Raise, ReuseResult, Schedule, StartAttempt, RunBody, Complete, FailAttempt,
       Backoff, SleepOver, ReuseEvent, ReuseTimeout, ConsumeEvent, RecordEvent, CreateTimer,
       EnsureTimerRow, StartWait, RecordWaiting, Parks, WaitMisses, CallAllowed, Awaits, At
  <2>2. status = "running" /\ d \in Caller /\ FirstOK(d)
    BY <1>1, <2>1, FirstIsCallers
  <2>3. status' = status
    BY <1>4, <2>2, StatusMoves DEF EngineOf, Control, DriveStep, StartRun, TerminalStatus
  <2>4. FirstOK(d)' /\ pc'[d] # "idle"
    BY <1>1, <1>4, <2>2, <2>3, FirstSteps
  <2>5. pc'[Worker] = pc[Worker]
    BY <1>0, <1>4, <2>2, DriveMoves DEF DriveStep, Control, OthersStay, Caller
  <2> QED BY <1>2, <1>4, <2>2, <2>3, <2>4, <2>5 DEF FirstDrive, loop
<1>5. ASSUME NEW d \in Driver, ParkStep(d) \/ RefuseStep(d)
      PROVE  FALSE
  <2>1. pc[d] # "idle"
    BY <1>5 DEF ParkStep, RefuseStep, Park, RefuseReplay, Awaits, At
  <2>2. FirstOK(d)
    BY <1>1, <2>1, FirstIsCallers
  <2>3. ~ParkStep(d)
    BY DEF ParkStep, Park
  <2> QED BY <1>5, <2>2, <2>3, FirstFollows DEF RefuseStep
<1>6. ASSUME NEW d \in Driver, d # Worker, CallerStep(d)
      PROVE  FirstDrive'
  <2>1. pc[d] = "idle" /\ UNCHANGED <<loop, awaiting>>
    BY <1>6 DEF CallerStep, StartRun, ResumeRun, WakeRun, CancelRun, Idle
  <2>2. status # "running"
    <3> SUFFICES ASSUME status = "running" PROVE FALSE
      OBVIOUS
    <3>1. PICK e \in Caller : pc[e] # "idle"
      BY <1>2
    <3> QED BY <1>6, <2>1, <3>1 DEF OneCaller, Caller
  <2>3. StartRun(d) /\ status = "none"
    BY <1>1, <1>6, <2>2 DEF CallerStep, ResumeRun, WakeRun, CancelRun
  <2>4. journal' = <<>> /\ status' = "running" /\ pc'[d] = "create" /\ pc'[Worker] = "idle"
    BY <1>0, <1>2, <1>6, <2>3 DEF StartRun, GoTo, DriverTypeOK
  <2>5. FirstOK(d)'
    BY <2>4 DEF FirstOK
  <2> QED BY <1>2, <1>6, <2>1, <2>4, <2>5 DEF FirstDrive, loop, Caller
<1>7. CASE Deliver \/ Wake
  <2>1. UNCHANGED vars /\ phase' # "dead" /\ ~woken'
    BY <1>1, <1>7, NothingForTheLoop
  <2> QED BY <1>3, <1>7, <2>1 DEF Deliver, Wake, vars, store, frame
<1>8. CASE Scan \/ Fired \/ Beside
  BY <1>2, <1>3, <1>8 DEF Scan, Fired, Beside, store, frame
<1>9. ~(\E d \in Driver : Unpark(d)) /\ ~(\E row \in timers : RowStep(row))
  BY <1>1, <1>2, NothingForTheLoop DEF Unpark
<1> QED BY <1>4, <1>5, <1>6, <1>7, <1>8, <1>9, WhoMoves

\* No step takes back that the run is over.
LEMMA EndStays ==
  ASSUME TypeInv, PhaseOK, [WorkerNext]_allVars, TerminalIndices(journal) # {}
  PROVE  TerminalIndices(journal') # {}
<1>1. TypeOK /\ journal' \in Seq(Event) /\ Grows
  BY WorkerTypes, WorkerGrows DEF TypeInv, TypeOK, StoreTypeOK
<1> QED BY <1>1, StaysRecorded

LEMMA PlacesKept ==
  ASSUME NoCrashes, TypeInv, LoopInv, FirstDrive, PlacesOfBoth, [WorkerNext]_allVars
  PROVE  PlacesOfBoth'
<1>0. TypeOK /\ DriverTypeOK /\ Worker \in Driver /\ PhaseOK
  BY WorkerIsDriver DEF TypeInv, TypeOK, LoopInv
<1>1. (TerminalIndices(journal) # {}) => (TerminalIndices(journal') # {})
  BY <1>0, EndStays
<1>2. status' \in TerminalStatus => TerminalIndices(journal') # {}
  <2>1. ASSUME NEW d \in Driver, EngineOf(d)
        PROVE  status' = status \/ status' \notin TerminalStatus \/ TerminalIndices(journal) # {}
    BY <2>1, StatusMoves DEF StartRun, TerminalStatus
  <2>2. (\E row \in timers : RowStep(row)) \/ Scan \/ Fired \/ Beside \/ (\E d \in Driver : Unpark(d))
        \/ UNCHANGED vars => status' = status
    BY DEF RowStep, DiscardTimer, SettleDuplicate, FireNext, SettleNext, Scan, Fired, Beside, Unpark,
       vars, store
  <2>3. status' = status \/ status' \notin TerminalStatus \/ TerminalIndices(journal) # {}
    BY <2>1, <2>2, WhoMoves
  <2> QED BY <1>1, <2>3 DEF PlacesOfBoth
<1>3. ASSUME UNCHANGED <<pc, awaiting>>, phase' # "dead" \/ phase = "dead"
      PROVE  PlacesOfBoth'
  BY <1>2, <1>3 DEF PlacesOfBoth
<1>4. ASSUME NEW d \in Driver, EngineOf(d), awaiting' = awaiting, phase' # "dead" \/ phase = "dead",
             d \in awaiting => pc'[d] \in {"idle", "settle"},
             d = Worker => phase' # "dead"
      PROVE  PlacesOfBoth'
  <2>1. OthersStay(d)
    BY <1>4, DriveMoves DEF EngineOf
  <2>2. \A e \in awaiting : pc'[e] \in {"idle", "settle"}
    BY <1>4, <2>1 DEF PlacesOfBoth, OthersStay, Caller
  <2>3. phase' = "dead" => pc'[Worker] = "idle"
    BY <1>0, <1>4, <2>1 DEF PlacesOfBoth, OthersStay
  <2> QED BY <1>2, <1>4, <2>2, <2>3 DEF PlacesOfBoth
<1>5. ASSUME NEW d \in Driver, DriveStep(d), UNCHANGED <<loop, awaiting>>
      PROVE  PlacesOfBoth'
  <2>1. pc[d] # "idle" /\ (pc[d] = "settle" => SettleStatus(d))
    BY <1>5 DEF DriveStep, RecordCreated, SettleStatus, Drive, CallTask, CallPrimitive, DriveTerminal,
       DriveLoad, Return, Raise, ReuseResult, Schedule, StartAttempt, RunBody, Complete, FailAttempt,
       Backoff, SleepOver, ReuseEvent, ReuseTimeout, ConsumeEvent, RecordEvent, CreateTimer,
       EnsureTimerRow, StartWait, RecordWaiting, Parks, WaitMisses, CallAllowed, Awaits, At
  <2>2. d \in awaiting => pc'[d] = "idle"
    BY <1>0, <2>1 DEF PlacesOfBoth, SettleStatus, Release, Suspend, DriverTypeOK
  <2>3. d = Worker => phase # "dead"
    BY <2>1 DEF PlacesOfBoth
  <2> QED BY <1>4, <1>5, <2>2, <2>3 DEF loop, EngineOf, Control, DriveStep
<1>6. ASSUME NEW d \in Driver, ParkStep(d), UNCHANGED loop
      PROVE  PlacesOfBoth'
  <2>1. pc'[d] = "idle" /\ pc[d] = "park" /\ OthersStay(d)
    BY <1>0, <1>6, DriveMoves DEF ParkStep, Park, At, Release, Suspend, DriverTypeOK
  <2>2. awaiting' \subseteq awaiting \cup (Caller \cap {d})
    BY <1>6 DEF ParkStep, Caller
  <2>3. \A e \in awaiting' : e \in Driver /\ pc'[e] \in {"idle", "settle"}
    BY <2>1, <2>2 DEF PlacesOfBoth, OthersStay, Caller
  <2>4. phase' = "dead" => pc'[Worker] = "idle"
    BY <1>0, <1>6, <2>1 DEF PlacesOfBoth, OthersStay, loop
  <2> QED BY <1>2, <2>2, <2>3, <2>4 DEF PlacesOfBoth
<1>7. ASSUME NEW d \in Driver, RefuseStep(d)
      PROVE  PlacesOfBoth'
  <2>1. pc'[d] = "idle" /\ pc[d] = "replay" /\ OthersStay(d) /\ awaiting' = awaiting
    BY <1>0, <1>7, DriveMoves DEF RefuseStep, RefuseReplay, Awaits, At, Release, Suspend, DriverTypeOK
  <2>2. \A e \in awaiting : pc'[e] \in {"idle", "settle"}
    BY <2>1 DEF PlacesOfBoth, OthersStay, Caller
  <2>3. phase' = "dead" => pc'[Worker] = "idle"
    BY <1>0, <1>7, <2>1 DEF PlacesOfBoth, OthersStay, RefuseStep
  <2> QED BY <1>2, <2>1, <2>2, <2>3 DEF PlacesOfBoth
<1>8. ASSUME NEW d \in Driver, d # Worker, CallerStep(d)
      PROVE  PlacesOfBoth'
  <2>1. d \in awaiting => pc'[d] = "settle"
    BY <1>0, <1>8 DEF CallerStep, CancelRun, GoTo, DriverTypeOK
  <2> QED BY <1>4, <1>8, <2>1 DEF CallerStep, loop, EngineOf, Control
<1>9. CASE Deliver \/ Wake
  <2>1. awaiting' = awaiting /\ phase' # "dead"
    BY <1>9 DEF Deliver, Wake
  <2>2. UNCHANGED vars \/ EngineOf(Worker)
    BY <1>9 DEF Deliver, Wake, EngineOf, Control
  <2>3. Worker \notin awaiting
    BY DEF PlacesOfBoth, Caller
  <2> QED BY <1>0, <1>3, <1>4, <2>1, <2>2, <2>3 DEF vars
<1>10. (\E row \in timers : RowStep(row)) \/ Scan \/ Fired \/ Beside =>
         UNCHANGED <<pc, awaiting>> /\ (phase' # "dead" \/ phase = "dead")
  BY DEF RowStep, DiscardTimer, SettleDuplicate, FireNext, SettleNext, Scan, Fired, Beside
<1>11. ASSUME NEW d \in Driver, Unpark(d)
       PROVE  PlacesOfBoth'
  <2>1. pc' = pc /\ phase' = phase /\ awaiting' \subseteq awaiting
    BY <1>11 DEF Unpark, vars, loop
  <2> QED BY <1>2, <2>1 DEF PlacesOfBoth
<1> QED BY <1>3, <1>5, <1>6, <1>7, <1>8, <1>9, <1>10, <1>11, WhoMoves

\* The end of the first drive.
LEMMA ThenBegins ==
  ASSUME OneCaller, NoCrashes, TypeInv, LoopInv, TurnOK, FirstDrive, PlacesOfBoth, [WorkerNext]_allVars,
         status \in {"none", "running"}, status' \notin {"none", "running"}, NEW c \in Caller
  PROVE  WaitsOrOver(c)'
<1>0. TypeOK /\ DriverTypeOK /\ Worker \in Driver /\ PhaseOK
  BY WorkerIsDriver DEF TypeInv, TypeOK, LoopInv
<1>1. status' # status
  OBVIOUS
<1>2. PICK d \in Driver : EngineOf(d) /\ status' # status /\ ~(d = Worker /\ (Deliver \/ Wake))
        /\ ((d # Worker /\ CallerStep(d)) \/ (DriveStep(d) /\ UNCHANGED <<loop, awaiting>>)
            \/ (ParkStep(d) /\ UNCHANGED loop) \/ RefuseStep(d))
  <2>1. (\E row \in timers : RowStep(row)) \/ Scan \/ Fired \/ Beside \/ (\E d \in Driver : Unpark(d))
        \/ UNCHANGED vars => status' = status
    BY DEF RowStep, DiscardTimer, SettleDuplicate, FireNext, SettleNext, Scan, Fired, Beside, Unpark,
       vars, store
  <2>2. ~(Deliver \/ Wake)
    BY <1>1, <2>1, NothingForTheLoop
  <2> QED BY <1>1, <2>1, <2>2, WhoMoves
<1>3. ~StartRun(d)
  BY DEF StartRun
<1>4. \/ ParkStep(d)
      \/ (SettleStatus(d) \/ DriveTerminal(d)) /\ TerminalIndices(journal) # {}
  <2>1. \/ Park(d) /\ pc[d] = "park"
        \/ (SettleStatus(d) \/ DriveTerminal(d)) /\ TerminalIndices(journal) # {}
    BY <1>2, <1>3, StatusMoves DEF Park, At
  <2>2. ASSUME pc[d] = "park" PROVE ~DriveStep(d) /\ ~CallerStep(d) /\ ~RefuseStep(d)
    BY <2>2 DEF DriveStep, RecordCreated, SettleStatus, Drive, CallTask, CallPrimitive, DriveTerminal,
       DriveLoad, Return, Raise, ReuseResult, Schedule, StartAttempt, RunBody, Complete, FailAttempt,
       Backoff, SleepOver, ReuseEvent, ReuseTimeout, ConsumeEvent, RecordEvent, CreateTimer,
       EnsureTimerRow, StartWait, RecordWaiting, Parks, WaitMisses, CallAllowed, Awaits, At,
       CallerStep, StartRun, ResumeRun, WakeRun, CancelRun, Idle, RefuseStep, RefuseReplay
  <2> QED BY <1>2, <2>1, <2>2
<1>5. pc[d] # "idle"
  BY <1>4 DEF ParkStep, Park, SettleStatus, DriveTerminal, At
<1>6. d = c
  BY <1>5, FirstIsCallers DEF OneCaller, Caller
<1>7. CASE ParkStep(d)
  BY <1>6, <1>7 DEF ParkStep, FirstDrive, Caller, WaitsOrOver
<1>8. CASE (SettleStatus(d) \/ DriveTerminal(d)) /\ TerminalIndices(journal) # {}
  <2>1. pc'[d] = "idle" /\ journal' = journal
    BY <1>0, <1>8 DEF SettleStatus, DriveTerminal, Release, Suspend, DriverTypeOK
  <2> QED BY <1>6, <1>8, <2>1 DEF WaitsOrOver
<1> QED BY <1>4, <1>7, <1>8

LEMMA ThenKept ==
  ASSUME OneCaller, NoCrashes, TypeInv, LoopInv, TurnOK, FirstDrive, ThenAwaits, PlacesOfBoth,
         [WorkerNext]_allVars
  PROVE  ThenAwaits'
<1>0. TypeOK /\ DriverTypeOK /\ Worker \in Driver /\ PhaseOK
  BY WorkerIsDriver DEF TypeInv, TypeOK, LoopInv
<1> SUFFICES ASSUME status' \notin {"none", "running"}, NEW c \in Caller PROVE WaitsOrOver(c)'
  BY DEF ThenAwaits
<1>1. CASE status \in {"none", "running"}
  BY <1>1, ThenBegins
<1>2. CASE status \notin {"none", "running"}
  <2>1. WaitsOrOver(c) /\ ((TerminalIndices(journal) # {}) => (TerminalIndices(journal') # {}))
    BY <1>0, <1>2, EndStays DEF ThenAwaits
  <2>2. ASSUME pc'[c] = pc[c], awaiting \subseteq awaiting', phase = "dead" => phase' = "dead"
        PROVE  WaitsOrOver(c)'
    BY <2>1, <2>2 DEF WaitsOrOver
  <2>3. ASSUME NEW d \in Driver, EngineOf(d), d # c, awaiting \subseteq awaiting',
               phase = "dead" => phase' = "dead"
        PROVE  WaitsOrOver(c)'
    BY <2>2, <2>3, DriveMoves DEF EngineOf, OthersStay, Caller
  <2>4. CASE DriveStep(c) /\ UNCHANGED <<loop, awaiting>>
    <3>1. CASE TerminalIndices(journal) # {} /\ pc[c] \in {"idle", "drive", "settle"}
      <4>1. SettleStatus(c) \/ DriveTerminal(c)
        BY <2>4, <3>1 DEF DriveStep, RecordCreated, Drive, CallTask, CallPrimitive,
       DriveLoad, Return, Raise, ReuseResult, Schedule, StartAttempt, RunBody, Complete, FailAttempt,
       Backoff, SleepOver, ReuseEvent, ReuseTimeout, ConsumeEvent, RecordEvent, CreateTimer,
       EnsureTimerRow, StartWait, RecordWaiting, Parks, WaitMisses, CallAllowed, Awaits, At
      <4>2. pc'[c] = "idle"
        BY <1>0, <4>1 DEF SettleStatus, DriveTerminal, Release, Suspend, DriverTypeOK, Caller
      <4> QED BY <2>1, <3>1, <4>2 DEF WaitsOrOver
    <3> QED BY <2>1, <2>4, <3>1 DEF WaitsOrOver, loop
  <2>5. CASE ParkStep(c) /\ UNCHANGED loop
    BY <2>5 DEF ParkStep, Caller, WaitsOrOver, loop
  <2>6. CASE RefuseStep(c)
    <3>1. pc[c] = "replay" /\ awaiting' = awaiting /\ phase' = phase
      BY <2>6 DEF RefuseStep, RefuseReplay, Awaits, At, Caller
    <3> QED BY <2>1, <3>1 DEF WaitsOrOver
  <2>7. CASE CallerStep(c)
    <3>1. UNCHANGED <<loop, awaiting>> /\ (WakeRun(c) \/ CancelRun(c))
      BY <1>2, <2>7 DEF CallerStep, StartRun, ResumeRun
    <3>2. pc'[c] \in {"drive", "settle"}
      BY <1>0, <3>1 DEF WakeRun, CancelRun, GoTo, DriverTypeOK, Caller
    <3> QED BY <2>1, <3>1, <3>2 DEF WaitsOrOver, loop
  <2>8. ASSUME NEW d \in Driver, d # c, EngineOf(d),
               \/ CallerStep(d)
               \/ DriveStep(d) /\ UNCHANGED <<loop, awaiting>>
               \/ ParkStep(d) /\ UNCHANGED loop
               \/ RefuseStep(d)
               \/ Deliver \/ Wake
        PROVE  WaitsOrOver(c)'
    BY <2>3, <2>8 DEF CallerStep, ParkStep, RefuseStep, Deliver, Wake, loop
  <2>9. CASE UNCHANGED vars /\ (Deliver \/ Wake)
    BY <2>2, <2>9 DEF Deliver, Wake, vars
  <2>10. CASE (\E row \in timers : RowStep(row)) \/ Scan \/ Fired \/ Beside
    BY <2>2, <2>10 DEF RowStep, DiscardTimer, SettleDuplicate, FireNext, SettleNext, Scan, Fired, Beside
  <2>11. ASSUME NEW d \in Driver, Unpark(d)
         PROVE  WaitsOrOver(c)'
    <3>1. /\ UNCHANGED <<journal, pc, phase, status>> /\ awaiting' = awaiting \ {d} /\ d \in awaiting
          /\ status \in TerminalStatus \/ phase = "dead"
      BY <2>11 DEF Unpark, vars, store, loop
    <3>2. CASE d # c
      BY <2>1, <3>1, <3>2 DEF WaitsOrOver
    <3>3. CASE d = c
      BY <3>1, <3>3 DEF WaitsOrOver, PlacesOfBoth
    <3> QED BY <3>2, <3>3
  <2>12. c # Worker /\ c \in Driver
    BY DEF Caller
  <2> QED BY <2>4, <2>5, <2>6, <2>7, <2>8, <2>9, <2>10, <2>11, <2>12, WhoMoves
<1> QED BY <1>1, <1>2

\* One drive of the run at a time is past its load.
Alone == \A d, e \in Driver : pc[d] \in Replaying /\ pc[e] \in Replaying => d = e

LEMMA OneReplays ==
  ASSUME OneCaller, BesideInv
  PROVE  Alone
<1> SUFFICES ASSUME NEW d \in Driver, d # Worker, pc[d] \in Replaying, pc[Worker] \in Replaying
             PROVE  FALSE
  BY DEF Alone, OneCaller
<1>1. pc[Worker] # "idle" /\ pc[d] \notin {"idle", "drive", "settle"}
  BY DEF Replaying
<1>2. status \notin {"none", "running"} /\ WaitsOrOver(d)
  BY <1>1 DEF BesideInv, FirstDrive, ThenAwaits, Caller
<1> QED BY <1>1, <1>2 DEF BesideInv, PlacesOfBoth, WaitsOrOver

\* OneReplays, after a step.
LEMMA OneReplaysNext ==
  ASSUME OneCaller, BesideInv'
  PROVE  Alone'
<1> SUFFICES ASSUME NEW d \in Driver, d # Worker, pc'[d] \in Replaying, pc'[Worker] \in Replaying
             PROVE  FALSE
  BY DEF Alone, OneCaller
<1>1. pc'[Worker] # "idle" /\ pc'[d] \notin {"idle", "drive", "settle"}
  BY DEF Replaying
<1>2. status' \notin {"none", "running"} /\ WaitsOrOver(d)'
  BY <1>1 DEF BesideInv, FirstDrive, ThenAwaits, Caller
<1> QED BY <1>1, <1>2 DEF BesideInv, PlacesOfBoth, WaitsOrOver

\* When a timer fires nobody is in the middle of a drive.
LEMMA FiresAlone ==
  ASSUME TypeInv, LoopInv, BesideInv, NEW row \in timers, FireNext(row), NEW d \in Driver
  PROVE  pc[d] \notin Replaying
<1>1. /\ pc[Worker] = "idle" /\ phase # "dead" /\ status \notin {"none", "running"}
  BY NothingForTheLoop DEF LoopInv, PhaseOK, Firing, FireNext, BesideInv, RowStep
<1>2. d # Worker => WaitsOrOver(d)
  BY <1>1 DEF BesideInv, ThenAwaits, Caller
<1> QED BY <1>1, <1>2 DEF BesideInv, PlacesOfBoth, WaitsOrOver, Replaying

\* A wait that takes an event from the inbox has not timed out.
LEMMA NotTimedOut ==
  ASSUME TypeInv, KindsOK, NEW d \in Driver, ConsumeEvent(d),
         \A i \in 1..Len(journal) : i > loaded[d] => journal[i].type # "TimerFired"
  PROVE  ~Recorded(journal, Len(journal), "TimerFired", CallId(d))
<1>0. Len(journal) \in Nat /\ loaded[d] \in Nat /\ loaded[d] <= Len(journal)
  BY JournalFacts DEF TypeInv, TypeOK, DriverTypeOK, DriversOK, DriverOK
<1>1. Awaited(d).kind = "wait" /\ ~TimedOut(d)
  BY DEF ConsumeEvent, WaitMisses, Awaits
<1> SUFFICES ASSUME Hit(d, "TimerFired") PROVE FALSE
  BY <1>0 DEF Hit, Recorded
<1>2. PICK i \in 1..loaded[d] : HitEvent(d, "TimerFired") = journal[i]
                               /\ journal[i].type = "TimerFired" /\ journal[i].id = CallId(d)
  BY <1>0, LatestIsRecorded DEF Hit, HitEvent
<1>3. journal[i].val = KindOf(CallId(d))
  BY <1>0, <1>2 DEF KindsOK, TimerTypes
<1>4. KindOf(CallId(d)) = "event_timeout"
  BY <1>1 DEF CallId, KindOf
<1> QED BY <1>1, <1>2, <1>3, <1>4 DEF TimedOut

LEMMA ReceiveBegins ==
  ASSUME TypeOK, NEW d \in Driver, EngineOf(d), pc'[d] = "receive"
  PROVE  ConsumeEvent(d)
<1>0. pc \in [Driver -> Pc]
  BY DEF TypeOK, DriverTypeOK
<1>2. ASSUME Release(d) PROVE FALSE
  BY <1>0, <1>2 DEF Release, Suspend
<1>3. ASSUME NEW o, Observe(d, o) PROVE FALSE
  BY <1>0, <1>3 DEF Observe, GoTo
<1>4. ~Control(d)
  <2>1. ~SettleStatus(d)
    BY <1>2 DEF SettleStatus
  <2> QED BY <1>0, <2>1 DEF Control, StartRun, RecordCreated, ResumeRun, WakeRun, Redrive,
                            CancelRun, GoTo
<1>5. ~Drive(d)
  <2>1. ~DriveTerminal(d)
    BY <1>2 DEF DriveTerminal
  <2> QED BY <1>0, <2>1 DEF Drive, DriveLoad, Return, Raise, GoTo
<1>6. ~RefuseReplay(d) /\ ~Park(d)
  BY <1>2 DEF RefuseReplay, Park
<1>7. ~CallTask(d)
  <2>1. ~ReuseResult(d) /\ ~Complete(d)
    BY <1>3 DEF ReuseResult, Complete
  <2>2. ~Schedule(d) /\ ~StartAttempt(d) /\ ~Backoff(d)
    BY <1>0 DEF Schedule, StartAttempt, Backoff, GoTo, Suspend
  <2>3. ~RunBody(d)
    BY <1>0 DEF RunBody, GoTo, Suspend
  <2>4. ~FailAttempt(d)
    BY <1>0, <1>3 DEF FailAttempt, GoTo, Suspend
  <2> QED BY <2>1, <2>2, <2>3, <2>4 DEF CallTask
<1>8. CallPrimitive(d) => ConsumeEvent(d)
  <2>1. ~SleepOver(d) /\ ~ReuseEvent(d) /\ ~ReuseTimeout(d) /\ ~RecordEvent(d)
    BY <1>3 DEF SleepOver, ReuseEvent, ReuseTimeout, RecordEvent
  <2>2. ~CreateTimer(d) /\ ~EnsureTimerRow(d) /\ ~StartWait(d) /\ ~RecordWaiting(d)
    BY <1>0 DEF CreateTimer, EnsureTimerRow, StartWait, RecordWaiting, GoTo
  <2> QED BY <2>1, <2>2 DEF CallPrimitive
<1> QED BY <1>4, <1>5, <1>6, <1>7, <1>8 DEF EngineOf

LEMMA FiredKept ==
  ASSUME NoCrashes, TypeInv, LoopInv, BesideInv, [WorkerNext]_allVars
  PROVE  NoneFired'
<1>0. TypeOK /\ PhaseOK /\ Len(journal) \in Nat
  BY JournalFacts DEF TypeInv, LoopInv
<1>1. ASSUME NEW row \in timers, FireNext(row)
      PROVE  NoneFired'
  <2>1. \A d \in Driver : pc'[d] \notin Replaying
    BY <1>1, FiresAlone DEF FireNext
  <2> QED BY <2>1 DEF NoneFired, Replaying, Pc
<1>2. ASSUME NoFact({"TimerFired"}), NEW d \in Driver,
             pc'[d] = pc[d], loaded'[d] = loaded[d], CallId(d)' = CallId(d)
      PROVE  /\ pc'[d] \in Replaying =>
                  \A i \in 1..Len(journal') : i > loaded'[d] => journal'[i].type # "TimerFired"
             /\ pc'[d] = "receive" => ~Recorded(journal', Len(journal'), "TimerFired", CallId(d)')
  <2>1. \A i \in 1..Len(journal') : journal'[i].type = "TimerFired" =>
          i \in 1..Len(journal) /\ journal'[i] = journal[i]
    BY <1>0, <1>2, NoFactKeeps
  <2>2. Recorded(journal', Len(journal'), "TimerFired", CallId(d)) =>
          Recorded(journal, Len(journal), "TimerFired", CallId(d))
    BY <1>0, <1>2, NoFactKeeps
  <2> QED BY <1>2, <2>1, <2>2 DEF BesideInv, NoneFired
<1>3. ASSUME UNCHANGED <<code, pc, outs, ordinals, loaded>>, NoFact({"TimerFired"})
      PROVE  NoneFired'
  <2>1. \A d \in Driver : CallId(d)' = CallId(d)
    BY <1>3 DEF CallId, Awaited
  <2> QED BY <1>2, <1>3, <2>1 DEF NoneFired
<1>4. ASSUME NEW d \in Driver, EngineOf(d), NoFact({"TimerFired"})
      PROVE  NoneFired'
  <2>1. OthersStay(d) /\ code' = code /\ Moves(d)
    BY <1>4, DriveMoves DEF EngineOf
  <2>2. \A i \in 1..Len(journal') : journal'[i].type = "TimerFired" =>
          i \in 1..Len(journal) /\ journal'[i] = journal[i]
    BY <1>0, <1>4, NoFactKeeps
  <2>3. ASSUME NEW e \in Driver, e # d
        PROVE  CallId(e)' = CallId(e) /\ pc'[e] = pc[e] /\ loaded'[e] = loaded[e]
    BY <2>1, <2>3 DEF OthersStay, CallId, Awaited
  <2>4. pc'[d] \in Replaying =>
          \A i \in 1..Len(journal') : i > loaded'[d] => journal'[i].type # "TimerFired"
    <3>1. CASE Loads(d)
      BY <1>0, <3>1 DEF Loads
    <3>2. CASE pc'[d] \in Replaying /\ pc[d] \in Replaying /\ loaded'[d] = loaded[d]
      BY <2>2, <3>2 DEF BesideInv, NoneFired
    <3> QED BY <2>1, <3>1, <3>2 DEF Moves, Stays, Rests, Observes, Handles, Driving, Resting, Replaying
  <2>5. pc'[d] = "receive" => ~Recorded(journal', Len(journal'), "TimerFired", CallId(d)')
    <3> SUFFICES ASSUME pc'[d] = "receive" PROVE ~Recorded(journal', Len(journal'), "TimerFired", CallId(d)')
      OBVIOUS
    <3>1. ConsumeEvent(d)
      BY <1>0, <1>4, ReceiveBegins
    <3>2. UNCHANGED <<journal, outs, ordinals>> /\ pc[d] \in Replaying
      BY <3>1 DEF ConsumeEvent, WaitMisses, Awaits, At, frame, Replaying, Pc
    <3>3. CallId(d)' = CallId(d)
      BY <2>1, <3>2 DEF CallId, Awaited
    <3> QED BY <3>1, <3>2, <3>3, NotTimedOut DEF LoopInv, BesideInv, NoneFired
  <2> QED BY <1>2, <1>4, <2>3, <2>4, <2>5 DEF NoneFired
<1>5. CASE Scan \/ Fired \/ Beside \/ UNCHANGED vars \/ \E d \in Driver : Unpark(d)
  <2>1. UNCHANGED <<journal, code, pc, outs, ordinals, loaded>>
    BY <1>5 DEF Scan, Fired, Beside, Unpark, vars, store, env, frame
  <2> QED BY <1>3, <2>1 DEF NoFact
<1>6. ASSUME NEW row \in timers, RowStep(row)
      PROVE  NoneFired'
  <2>1. UNCHANGED <<code, pc, outs, ordinals, loaded>>
    BY <1>6 DEF RowStep, DiscardTimer, SettleDuplicate, FireNext, SettleNext, env, frame
  <2>2. FireNext(row) \/ NoFact({"TimerFired"})
    BY <1>6 DEF RowStep, DiscardTimer, SettleDuplicate, SettleNext, NoFact
  <2> QED BY <1>1, <1>3, <2>1, <2>2
<1>7. ASSUME NEW d \in Driver, EngineOf(d)
      PROVE  NoFact({"TimerFired"})
  <2>1. CreateTimer(d) => NoFact({"TimerFired"})
    BY DEF CreateTimer, Commit, NoFact, Entry
  <2>2. \A e \in Driver : CreateTimer(e) => NoFact({"TimerFired"})
    BY DEF CreateTimer, Commit, NoFact, Entry
  <2>3. EngineMove
    BY <1>7 DEF EngineMove, EngineOf
  <2>4. NoFact(TimerTypes) => NoFact({"TimerFired"})
    BY DEF NoFact, TimerTypes
  <2> QED BY <2>2, <2>3, <2>4, EngineTimerEvents
<1> QED BY <1>4, <1>5, <1>6, <1>7, WhoMoves

LEMMA BesideKept ==
  ASSUME OneCaller, NoCrashes, TypeInv, LoopInv, BesideInv, [WorkerNext]_allVars
  PROVE  BesideInv'
<1>1. TurnOK' /\ FirstDrive'
  BY TurnKept, FirstKept DEF LoopInv, BesideInv
<1>2. ThenAwaits' /\ PlacesOfBoth'
  BY ThenKept, PlacesKept DEF BesideInv
<1> QED BY <1>1, <1>2, FiredKept DEF BesideInv

\* The argument of CallsStep, for one driver at a time.
LEMMA CallsKeptBeside ==
  ASSUME NoCrashes, TypeInv, TypeInv', LoopInv, CallsInv, Alone, Alone', [WorkerNext]_allVars
  PROVE  CallsInv'
<1>0. TypeOK /\ DriverTypeOK /\ TaskRecordedOnce
  BY DEF TypeInv, TypeOK, CallsInv
<1>1. ASSUME NEW d \in Driver, TaskRecordedOnce', Fresh(d)', NotDone(d)', pc'[d] \in Replaying
      PROVE  CallsInv'
  <2>1. \A e \in Driver : e # d => pc'[e] \notin Replaying /\ pc'[e] \notin Executing
    BY <1>1 DEF Alone, Replaying, Executing, Pc
  <2>2. \A e \in Driver : e # d => Fresh(e)' /\ NotDone(e)'
    BY <2>1 DEF Fresh, NotDone
  <2> QED BY <1>1, <2>2 DEF CallsInv
<1>2. ASSUME NEW d \in Driver, Schedule(d)
      PROVE  CallsInv'
  <2>1. pc'[d] \in Replaying
    BY <1>0, <1>2 DEF Schedule, GoTo, DriverTypeOK, Replaying, Pc
  <2> QED BY <1>0, <1>1, <1>2, <2>1, ScheduleStep DEF CallsInv
<1>3. ASSUME NEW d \in Driver, Complete(d)
      PROVE  CallsInv'
  <2>1. pc'[d] \in Replaying
    BY <1>0, <1>3 DEF Complete, Observe, GoTo, DriverTypeOK, Replaying, Pc
  <2> QED BY <1>0, <1>1, <1>3, <2>1, CompleteStep DEF CallsInv
<1>4. ASSUME NEW d \in Driver, ~Schedule(d), ~Complete(d), EngineOf(d)
      PROVE  CallsInv'
  <2>1. NoTaskFact /\ OthersStay(d) /\ code' = code
    BY <1>4, OtherSteps, DriveMoves DEF EngineOf
  <2>2. TaskRecordedOnce'
    BY <1>0, <2>1, NoTaskFactKeeps
  <2>3. ASSUME NEW e \in Driver, e # d
        PROVE  Fresh(e)' /\ NotDone(e)'
    <3>1. /\ pc'[e] = pc[e] /\ outs'[e] = outs[e]
          /\ ordinals'[e] = ordinals[e] /\ loaded'[e] = loaded[e]
      BY <2>1, <2>3 DEF OthersStay
    <3> QED BY <2>1, <3>1, SameCallStep DEF CallsInv
  <2>4. Fresh(d)' /\ NotDone(d)'
    <3>1. CASE pc'[d] \notin Replaying
      BY <3>1 DEF Fresh, NotDone, Replaying, Executing, Pc
    <3>2. CASE DriveLoad(d)
      <4>1. pc'[d] = "replay" /\ loaded'[d] = Len(journal) /\ journal' = journal
        BY <1>0, <3>2 DEF DriveLoad, GoTo, store, DriverTypeOK
      <4> QED BY <1>0, <4>1, JournalFacts DEF Fresh, NotDone, Executing
    <3>3. CASE /\ \E o : Observe(d, o)
               /\ pc[d] \in Replaying /\ Awaited(d).kind \in {"task", "sleep", "wait"}
      <4>1. PICK o : Observe(d, o)
        BY <3>3
      <4>2. journal' \in Seq(Event)
        BY DEF TypeInv, TypeOK, StoreTypeOK
      <4> QED BY <1>0, <2>1, <3>3, <4>1, <4>2, NoTaskFactKeeps, NextCallStep DEF CallsInv
    <3>4. CASE /\ UNCHANGED <<code, outs, ordinals, loaded>>
               /\ pc'[d] \in Executing <=> pc[d] \in Executing
               /\ pc[d] \in Replaying
      BY <2>1, <3>4, SameCallStep DEF CallsInv
    <3> QED BY <1>4, <3>1, <3>2, <3>3, <3>4, OtherSteps DEF EngineOf
  <2> QED BY <2>2, <2>3, <2>4 DEF CallsInv
<1>5. ASSUME UNCHANGED <<code, pc, outs, ordinals, loaded>>, NoTaskFact
      PROVE  CallsInv'
  <2>1. ASSUME NEW d \in Driver PROVE Fresh(d)' /\ NotDone(d)'
    BY <1>5, SameCallStep DEF CallsInv
  <2> QED BY <1>0, <1>5, <2>1, NoTaskFactKeeps DEF CallsInv
<1>6. CASE Scan \/ Fired \/ Beside \/ UNCHANGED vars \/ \E d \in Driver : Unpark(d)
  <2>1. UNCHANGED <<journal, code, pc, outs, ordinals, loaded>>
    BY <1>6 DEF Scan, Fired, Beside, Unpark, vars, store, env, frame
  <2> QED BY <1>5, <2>1 DEF NoTaskFact
<1>7. ASSUME NEW row \in timers, RowStep(row)
      PROVE  CallsInv'
  <2>1. UNCHANGED <<code, pc, outs, ordinals, loaded>>
    BY <1>7 DEF RowStep, DiscardTimer, SettleDuplicate, FireNext, SettleNext, env, frame
  <2>2. NoTaskFact
    BY <1>7 DEF RowStep, DiscardTimer, SettleDuplicate, FireNext, SettleNext, NoTaskFact, TaskFact,
       Commit, Entry
  <2> QED BY <1>5, <2>1, <2>2
<1> QED BY <1>2, <1>3, <1>4, <1>6, <1>7, WhoMoves

\* A wait ends one way, in every step.
LEMMA WaitEndsKept ==
  ASSUME NoCrashes, TypeInv, LoopInv, BesideInv, WaitEndsOnce, [WorkerNext]_allVars
  PROVE  WaitEndsOnce'
<1>0. TypeOK /\ Len(journal) \in Nat /\ DOMAIN journal = 1..Len(journal)
  BY JournalFacts DEF TypeInv
<1> DEFINE Ends == {"ExternalEventReceived", "TimerFired"}
<1>1. CASE NoFact(Ends)
  <2>1. \A i \in 1..Len(journal') : journal'[i].type \in Ends =>
          i \in 1..Len(journal) /\ journal'[i] = journal[i]
    BY <1>0, <1>1, NoFactKeeps
  <2>2. DOMAIN journal' = 1..Len(journal')
    BY <1>0, <1>1, AppendFacts DEF NoFact
  <2> QED BY <1>0, <2>1, <2>2 DEF WaitEndsOnce
<1>2. ASSUME NEW type, NEW id, NEW n, NEW val, Commit(type, id, n, val),
             type = "ExternalEventReceived" => ~Recorded(journal, Len(journal), "TimerFired", id),
             type = "TimerFired" /\ val = "event_timeout" =>
               ~Recorded(journal, Len(journal), "ExternalEventReceived", id)
      PROVE  WaitEndsOnce'
  <2>1. /\ DOMAIN journal' = 1..(Len(journal) + 1)
        /\ \A i \in 1..Len(journal) : journal'[i] = journal[i]
        /\ journal'[Len(journal) + 1] = Entry(type, id, n, val)
    BY <1>0, <1>2, AppendFacts DEF Commit
  <2>2. Entry(type, id, n, val).type = type /\ Entry(type, id, n, val).id = id
        /\ Entry(type, id, n, val).val = val
    BY DEF Entry
  <2> SUFFICES ASSUME NEW i \in DOMAIN journal', NEW k \in DOMAIN journal',
                      journal'[i].type = "ExternalEventReceived",
                      journal'[k].type = "TimerFired", journal'[k].val = "event_timeout",
                      journal'[i].id = journal'[k].id
               PROVE  FALSE
    BY DEF WaitEndsOnce
  <2>3. CASE i \in 1..Len(journal) /\ k \in 1..Len(journal)
    BY <1>0, <2>1, <2>3 DEF WaitEndsOnce
  <2>4. CASE i = Len(journal) + 1 /\ k \in 1..Len(journal)
    BY <1>2, <2>1, <2>2, <2>4 DEF Recorded
  <2>5. CASE i \in 1..Len(journal) /\ k = Len(journal) + 1
    BY <1>2, <2>1, <2>2, <2>5 DEF Recorded
  <2>6. CASE i = Len(journal) + 1 /\ k = Len(journal) + 1
    BY <2>1, <2>2, <2>6
  <2> QED BY <1>0, <2>1, <2>3, <2>4, <2>5, <2>6
<1>3. ASSUME NEW d \in Driver, EngineOf(d)
      PROVE  WaitEndsOnce'
  <2>1. CASE RecordEvent(d)
    BY <1>2, <2>1 DEF RecordEvent, At, BesideInv, NoneFired
  <2>2. CASE ~RecordEvent(d)
    <3>1. \/ journal' = journal
          \/ \E type \in EventType \ Ends : \E id, n, val : Commit(type, id, n, val)
      BY <1>3, <2>2 DEF EngineOf, Control, Drive, CallTask, CallPrimitive, StartRun, RecordCreated,
         ResumeRun, WakeRun, Redrive, CancelRun, SettleStatus, DriveTerminal,
         DriveLoad, Return, Raise, RefuseReplay, Park, ReuseResult, Schedule, StartAttempt,
         RunBody, Complete, FailAttempt, Backoff, SleepOver, ReuseEvent, ReuseTimeout,
         ConsumeEvent, CreateTimer, EnsureTimerRow, StartWait, RecordWaiting, store, EventType
    <3>2. ASSUME NEW type \in EventType \ Ends, NEW id, NEW n, NEW val, Commit(type, id, n, val)
          PROVE  WaitEndsOnce'
      BY <1>2, <3>2
    <3> QED BY <1>1, <3>1, <3>2 DEF NoFact
  <2> QED BY <2>1, <2>2
<1>4. ASSUME NEW row \in timers, RowStep(row)
      PROVE  WaitEndsOnce'
  <2>1. CASE FireNext(row)
    BY <1>2, <2>1 DEF FireNext, Received
  <2>2. CASE ~FireNext(row)
    BY <1>1, <1>4, <2>2 DEF RowStep, DiscardTimer, SettleDuplicate, SettleNext, NoFact
  <2> QED BY <2>1, <2>2
<1>5. Scan \/ Fired \/ Beside \/ UNCHANGED vars \/ (\E d \in Driver : Unpark(d)) => journal' = journal
  BY DEF Scan, Fired, Beside, Unpark, vars, store
<1> QED BY <1>1, <1>3, <1>4, <1>5, WhoMoves DEF NoFact

LEMMA BesideBegins ==
  ASSUME WorkerInit
  PROVE  BesideInv /\ CallsInv /\ WaitEndsOnce
<1>1. /\ journal = <<>> /\ status = "none" /\ pc = [d \in Driver |-> "idle"] /\ timers = {}
      /\ phase = "asleep" /\ woken = FALSE /\ awaiting = {} /\ Worker \in Driver
  BY WorkerIsDriver DEF WorkerInit, Init
<1>2. BesideInv
  BY <1>1 DEF BesideInv, TurnOK, Suspended, FirstDrive, AllIdle, ThenAwaits, PlacesOfBoth,
     NoneFired, Replaying, TerminalStatus
<1> QED BY <1>1, <1>2 DEF CallsInv, TaskRecordedOnce, RecordedOnce, Fresh, NotDone, Replaying,
                          Executing, WaitEndsOnce

LEMMA BesideStep ==
  ASSUME OneCaller, NoCrashes, TypeInv, LoopInv, BesideInv, CallsInv, WaitEndsOnce, [WorkerNext]_allVars
  PROVE  (BesideInv /\ CallsInv /\ WaitEndsOnce)'
<1>1. TypeInv' /\ BesideInv'
  BY WorkerTypes, BesideKept DEF LoopInv
<1>2. Alone /\ Alone'
  BY <1>1, OneReplays, OneReplaysNext
<1> QED BY <1>1, <1>2, CallsKeptBeside, WaitEndsKept

\* Between them a caller that awaits the run's end and the poll loop record each task
\* call once and end each wait one way, for any workflow, any number of parks and
\* whatever else a tick drives, as long as the process lives: the caller makes the
\* first drive, in which the loop finds nothing to do, and is not at the run again
\* before it has ended, or the loop has.
THEOREM NothingTwiceHolds == ASSUME OneCaller, NoCrashes PROVE WorkerSpec => []NothingTwice
<1> DEFINE Inv == TypeInv /\ LoopInv /\ BesideInv /\ CallsInv /\ WaitEndsOnce
<1>1. WorkerInit => BesideInv /\ CallsInv /\ WaitEndsOnce
  BY BesideBegins
<1>2. ASSUME TypeInv, LoopInv, BesideInv, CallsInv, WaitEndsOnce, [WorkerNext]_allVars
      PROVE  (BesideInv /\ CallsInv /\ WaitEndsOnce)'
  BY <1>2, BesideStep
<1>3. CallsInv /\ WaitEndsOnce => NothingTwice
  BY DEF CallsInv, NothingTwice
<1> QED BY <1>1, <1>2, <1>3, LoopInvHolds, PTL DEF WorkerSpec

-----------------------------------------------------------------------------
(* An event that is there wins over the timeout of its wait                  *)

\* the tick drives no other run of the store
OneRun == OtherRuns = FALSE

\* the first n outcomes of a history, the calls named m on the way to its end, and the
\* identity of the call that comes there
Cut(h, n) == [i \in 1..n |-> h[i]]
CallsTo(v, h, m) == {n \in 1..Len(h) : Workflow[v][Cut(h, n - 1)].name = m}
IdAt(v, h) ==
  [name |-> IF Workflow[v][h].kind = "wait" THEN "event" ELSE Workflow[v][h].name,
   ord  |-> Cardinality(CallsTo(v, h, Workflow[v][h].name))]

\* the journal ends the call that comes after h with o
Ended(j, v, h, o) ==
  LET c == Workflow[v][h]
      has(type) == Recorded(j, Len(j), type, IdAt(v, h))
  IN \/ c.kind = "task" /\ Done(j, IdAt(v, h), o)
     \/ c.kind = "sleep" /\ o = "woke" /\ has("TimerFired")
     \/ c.kind = "wait" /\ o = c.name /\ has("ExternalEventReceived")
     \/ c.kind = "wait" /\ o = "timeout" /\ has("TimerFired")

\* a replay of the journal by v comes to h
Walked(j, v, h) == \A n \in 1..Len(h) : Ended(j, v, Cut(h, n - 1), h[n])

SamePath(g, h) == \A n \in 1..Len(g) : n <= Len(h) => g[n] = h[n]

NoEventOf(t) == \A k \in DOMAIN inbox : inbox[k].topic = t => inbox[k].consumed

\* What a drive has seen is what the journal says, and it parks on a call that the
\* journal has not ended: a sleep that goes on, a wait with no event for it.
OrdinalsOK(d) == \A m \in Name : ordinals[d][m] = Cardinality(CallsTo(code, outs[d], m))
Begins(d) == pc[d] \in {"idle", "create", "drive"} => outs[d] = <<>>
Reads(d) == ~Erred(d) => Walked(journal, code, outs[d])
ParksOn(d) ==
  pc[d] \in Parking =>
    /\ Awaited(d).kind = "sleep" => ~Hit(d, "TimerFired")
    /\ Awaited(d).kind = "wait" => NoEventOf(Awaited(d).name)

WalkOK(d) == OrdinalsOK(d) /\ Begins(d) /\ Reads(d) /\ ParksOn(d)

\* a wait of the journal comes after h, and so it does in every drive
WaitsAfter(i, h) ==
  /\ Walked(journal, code, h)
  /\ Workflow[code][h].kind = "wait" /\ Workflow[code][h].name = journal[i].val
  /\ journal[i].id = IdAt(code, h)
  /\ \A d \in Driver : pc[d] \in Replaying /\ ~Erred(d) => SamePath(outs[d], h)

WaitsOK ==
  \A i \in 1..Len(journal) :
    /\ journal[i].type = "EventWaitStarted" => \E h \in Histories : WaitsAfter(i, h)
    /\ journal[i].type = "ExternalEventReceived" => WaitsFor(code, journal[i].val)

\* no wait that is not resolved has an event in the inbox
NoneToDeliver ==
  \A i \in 1..Len(journal) :
    journal[i].type = "EventWaitStarted" /\ ~Resolved(journal[i].id) => NoEventOf(journal[i].val)

\* once events are delivered, and until the due timers are fired
Delivered == phase \in Firing \/ (phase = "scan" /\ pc[Worker] = "idle")

LoopRests == phase = "scan" /\ pc[Worker] = "idle" => turn = Free
AllDelivered == Delivered /\ Unfinished => NoneToDeliver

WinsInv == (\A d \in Driver : WalkOK(d)) /\ WaitsOK /\ LoopRests /\ AllDelivered

-----------------------------------------------------------------------------
(* Histories                                                                 *)

LEMMA CutFacts ==
  ASSUME NEW h \in Histories, NEW n \in 0..Len(h)
  PROVE  /\ Cut(h, n) \in Histories /\ Len(Cut(h, n)) = n /\ n \in Nat
         /\ \A i \in 1..n : Cut(h, n)[i] = h[i]
         /\ Cut(h, Len(h)) = h
<1>1. h \in Seq(Outcome) /\ Len(h) \in 0..MaxCalls /\ MaxCalls \in Nat
  BY HistoryIsSeq, SizesAreNatural
<1>2. h \in [1..Len(h) -> Outcome]
  BY <1>1, LenProperties
<1>3. n \in 0..MaxCalls /\ n \in Nat
  BY <1>1
<1>4. Cut(h, n) \in [1..n -> Outcome]
  BY <1>1, <1>2 DEF Cut
<1>5. Cut(h, n) \in Histories
  BY <1>3, <1>4 DEF Histories
<1>6. Cut(h, n) \in Seq(Outcome)
  BY <1>5, HistoryIsSeq
<1>7. Len(Cut(h, n)) = n
  BY <1>3, <1>4, <1>6, LenProperties
<1>8. Cut(h, Len(h)) = h
  BY <1>2 DEF Cut
<1> QED BY <1>3, <1>5, <1>7, <1>8 DEF Cut

LEMMA SameCut ==
  ASSUME NEW g, NEW h, NEW n, \A i \in 1..n : g[i] = h[i]
  PROVE  Cut(g, n) = Cut(h, n)
  BY DEF Cut

\* A history and the one that is longer by an outcome.
LEMMA OneLonger ==
  ASSUME NEW h \in Histories, NEW o, Append(h, o) \in Histories
  PROVE  /\ Len(h) \in Nat /\ Len(Append(h, o)) = Len(h) + 1 /\ Append(h, o)[Len(h) + 1] = o
         /\ \A i \in 1..Len(h) : Append(h, o)[i] = h[i]
         /\ \A n \in 0..Len(h) : Cut(Append(h, o), n) = Cut(h, n)
<1>1. h \in Seq(Outcome) /\ Len(h) \in 0..MaxCalls
  BY HistoryIsSeq
<1>2. Len(h) \in Nat
  BY <1>1, SizesAreNatural
<1>3. /\ Len(Append(h, o)) = Len(h) + 1 /\ Append(h, o)[Len(h) + 1] = o
      /\ \A i \in 1..Len(h) : Append(h, o)[i] = h[i]
  BY <1>1, <1>2, AppendFacts
<1>4. ASSUME NEW n \in 0..Len(h) PROVE Cut(Append(h, o), n) = Cut(h, n)
  <2>1. \A i \in 1..n : Append(h, o)[i] = h[i]
    BY <1>2, <1>3
  <2> QED BY <2>1, SameCut
<1> QED BY <1>2, <1>3, <1>4

\* One more call of its name is behind the history that is longer by an outcome.
LEMMA CallsCount ==
  ASSUME NEW v, NEW h \in Histories, NEW o, Append(h, o) \in Histories, NEW m
  PROVE  /\ Cardinality(CallsTo(v, h, m)) \in Nat
         /\ Cardinality(CallsTo(v, Append(h, o), m)) =
              IF Workflow[v][h].name = m THEN Cardinality(CallsTo(v, h, m)) + 1
              ELSE Cardinality(CallsTo(v, h, m))
<1> DEFINE A == CallsTo(v, h, m)
           N == Len(h)
<1>0. N \in Nat
  BY OneLonger
<1>1. A \in SUBSET (1..N)
  BY DEF CallsTo
<1>2. IsFiniteSet(A)
  BY <1>0, <1>1, FinitePositions
<1>3. Cut(Append(h, o), N) = h
  <2>1. N \in 0..N
    BY <1>0
  <2> QED BY <2>1, OneLonger, CutFacts
<1>4. \A n \in 1..N : Cut(Append(h, o), n - 1) = Cut(h, n - 1)
  <2>1. \A n \in 1..N : n - 1 \in 0..N
    BY <1>0
  <2> QED BY <2>1, OneLonger
<1>5. CallsTo(v, Append(h, o), m) = IF Workflow[v][h].name = m THEN A \cup {N + 1} ELSE A
  <2>1. Len(Append(h, o)) = N + 1
    BY OneLonger
  <2>2. \A n \in 1..(N + 1) : n \in 1..N \/ (n = N + 1 /\ n - 1 = N)
    BY <1>0
  <2>3. 1..N \subseteq 1..(N + 1) /\ N + 1 \in 1..(N + 1) /\ (N + 1) - 1 = N
    BY <1>0
  <2> HIDE DEF N
  <2> QED BY <1>3, <1>4, <2>1, <2>2, <2>3 DEF CallsTo, N
<1>6. N + 1 \notin A
  BY <1>0, <1>1
<1> HIDE DEF A
<1>7. Cardinality(A) \in Nat
  BY <1>2, FS_CardinalityType
<1>8. Cardinality(A \cup {N + 1}) = Cardinality(A) + 1
  BY <1>2, <1>6, FS_AddElement
<1> QED BY <1>5, <1>7, <1>8 DEF A

LEMMA NoCallsYet ==
  ASSUME NEW v, NEW m
  PROVE  Cardinality(CallsTo(v, <<>>, m)) = 0
<1>1. CallsTo(v, <<>>, m) = {}
  BY DEF CallsTo
<1> QED BY <1>1, FS_EmptySet

-----------------------------------------------------------------------------
(* What a journal says of a history                                          *)

\* What a journal has ended stays ended, ...
LEMMA EndedStays ==
  ASSUME NEW j, NEW k, Len(j) \in Nat, Len(k) \in Nat, Len(j) <= Len(k),
         \A i \in 1..Len(j) : k[i] = j[i]
  PROVE  /\ \A v, h, o : Ended(j, v, h, o) => Ended(k, v, h, o)
         /\ \A v, h : Walked(j, v, h) => Walked(k, v, h)
<1>1. \A type, id : Recorded(j, Len(j), type, id) => Recorded(k, Len(k), type, id)
  BY DEF Recorded
<1>2. \A id, o : Done(j, id, o) => Done(k, id, o)
  BY DEF Done
<1>3. ASSUME NEW v, NEW h, NEW o, Ended(j, v, h, o) PROVE Ended(k, v, h, o)
  BY <1>1, <1>2, <1>3 DEF Ended
<1> QED BY <1>3 DEF Walked

EndsOnce(j) ==
  /\ \A i, k \in 1..Len(j) :
       j[i].type = "TaskCompleted" /\ j[k].type = "TaskCompleted" /\ j[i].id = j[k].id => i = k
  /\ \A i, k \in 1..Len(j) :
       /\ j[i].type = "ExternalEventReceived" /\ j[k].type = "TimerFired"
       => j[i].id # j[k].id \/ j[i].id.name # "event"

\* ... and with one outcome.
LEMMA OneEnd ==
  ASSUME NEW j, NEW v, NEW h, NEW o, NEW p, EndsOnce(j), Ended(j, v, h, o), Ended(j, v, h, p)
  PROVE  o = p
<1>1. Workflow[v][h].kind = "wait" => IdAt(v, h).name = "event"
  BY DEF IdAt
<1>2. CASE Workflow[v][h].kind = "task"
  BY <1>2 DEF Ended, Done, EndsOnce
<1>3. CASE Workflow[v][h].kind = "sleep"
  BY <1>3 DEF Ended
<1>4. CASE Workflow[v][h].kind = "wait"
  BY <1>1, <1>4 DEF Ended, Recorded, EndsOnce
<1> QED BY <1>2, <1>3, <1>4 DEF Ended

\* A replay is on the path of a history the journal says as much of.
LEMMA PathGoesOn ==
  ASSUME NEW j, NEW v, NEW g \in Histories, NEW h \in Histories, NEW o,
         Append(g, o) \in Histories, SamePath(g, h), Walked(j, v, h), EndsOnce(j),
         Ended(j, v, g, o)
  PROVE  SamePath(Append(g, o), h)
<1>1. /\ Len(g) \in Nat /\ Len(Append(g, o)) = Len(g) + 1 /\ Append(g, o)[Len(g) + 1] = o
      /\ \A i \in 1..Len(g) : Append(g, o)[i] = g[i]
  BY OneLonger
<1>2. Len(h) \in Nat
  BY HistoryIsSeq, SizesAreNatural
<1>3. Len(g) < Len(h) => h[Len(g) + 1] = o
  <2> SUFFICES ASSUME Len(g) < Len(h) PROVE h[Len(g) + 1] = o
    OBVIOUS
  <2>1. Cut(h, Len(g)) = g
    <3>1. \A i \in 1..Len(g) : g[i] = h[i]
      BY <1>1, <1>2 DEF SamePath
    <3>2. Len(g) \in 0..Len(g)
      BY <1>1
    <3> QED BY <3>1, <3>2, SameCut, CutFacts
  <2>2. Len(g) + 1 \in 1..Len(h) /\ (Len(g) + 1) - 1 = Len(g)
    BY <1>1, <1>2
  <2>3. Ended(j, v, g, h[Len(g) + 1])
    BY <2>1, <2>2 DEF Walked
  <2> QED BY <2>3, OneEnd
<1> QED BY <1>1, <1>2, <1>3 DEF SamePath

\* Of two histories the journal says one is the beginning of the other, or it has ended
\* the call that comes after the shorter.
LEMMA ShorterEnded ==
  ASSUME NEW j, NEW v, NEW g \in Histories, NEW h \in Histories, SamePath(g, h),
         Walked(j, v, h), Len(g) < Len(h)
  PROVE  \E o : Ended(j, v, g, o)
<1>1. Len(g) \in Nat /\ Len(h) \in Nat
  BY HistoryIsSeq, SizesAreNatural
<1>2. \A i \in 1..Len(g) : g[i] = h[i]
  BY <1>1 DEF SamePath
<1>3. Len(g) \in 0..Len(g) /\ Len(g) + 1 \in 1..Len(h) /\ (Len(g) + 1) - 1 = Len(g)
  BY <1>1
<1>4. Cut(h, Len(g)) = g
  BY <1>2, <1>3, SameCut, CutFacts
<1> QED BY <1>3, <1>4 DEF Walked

-----------------------------------------------------------------------------
(* The steps of a drive                                                      *)

LEMMA HereIs ==
  ASSUME TypeOK, NEW d \in Driver, WalkOK(d)
  PROVE  IdAt(code, outs[d]) = CallId(d) /\ Workflow[code][outs[d]] = Awaited(d)
         /\ outs[d] \in Histories
<1>1. Awaited(d).name \in Name /\ outs[d] \in Histories
  BY AwaitedFacts DEF TypeOK, DriverTypeOK
<1> QED BY <1>1 DEF WalkOK, OrdinalsOK, IdAt, CallId, Awaited

\* A run waits for one event type.
LEMMA OneWaitType ==
  ASSUME TypeOK, OneTopicEach, NEW d \in Driver, Awaited(d).kind = "wait",
         NEW t \in Topic, WaitsFor(code, t)
  PROVE  t = Awaited(d).name
<1>1. outs[d] \in Histories /\ code \in Version /\ Awaited(d).name \in Topic
  BY AwaitedFacts DEF TypeOK, DriverTypeOK, EnvTypeOK
<1>2. WaitsFor(code, Awaited(d).name)
  BY <1>1 DEF WaitsFor, Awaited
<1> QED BY <1>1, <1>2 DEF OneTopicEach

\* What a drive observes the journal has ended with, unless it is an error.
Advances(d) ==
  \E o : /\ Observe(d, o) /\ pc[d] \in Replaying
         /\ Awaited(d).kind \in {"task", "sleep", "wait"}
         /\ o = "error" \/ Ended(journal', code, outs[d], o)

LEMMA ReusesAdvance ==
  ASSUME TypeInv, OneTopicEach, WaitsOK, NEW d \in Driver, WalkOK(d),
         ReuseResult(d) \/ SleepOver(d) \/ ReuseEvent(d) \/ ReuseTimeout(d)
  PROVE  Advances(d)
<1>0. /\ TypeOK /\ Len(journal) \in Nat /\ loaded[d] \in Nat /\ loaded[d] <= Len(journal)
      /\ \A i \in 1..Len(journal) : journal[i] \in Event
  BY JournalFacts DEF TypeInv, TypeOK, DriverTypeOK, DriversOK, DriverOK
<1>1. /\ IdAt(code, outs[d]) = CallId(d) /\ Workflow[code][outs[d]] = Awaited(d)
  BY <1>0, HereIs
<1>2. /\ journal' = journal /\ pc[d] = "replay" /\ "replay" \in Replaying
      /\ Awaited(d).kind \in {"task", "sleep", "wait"}
  BY DEF ReuseResult, SleepOver, ReuseEvent, ReuseTimeout, CallAllowed, Awaits, At, store,
         Replaying, Pc
<1>3. \A type : Hit(d, type) => Recorded(journal, Len(journal), type, CallId(d))
  BY <1>0 DEF Hit, Recorded
<1>4. \A type : Hit(d, type) =>
        \E i \in 1..Len(journal) :
          HitEvent(d, type) = journal[i] /\ journal[i].type = type /\ journal[i].id = CallId(d)
  <2> SUFFICES ASSUME NEW type, Hit(d, type)
               PROVE  \E i \in 1..Len(journal) :
                        /\ HitEvent(d, type) = journal[i]
                        /\ journal[i].type = type /\ journal[i].id = CallId(d)
    OBVIOUS
  <2>1. /\ LatestIndex(journal, loaded[d], type, CallId(d)) \in 1..loaded[d]
        /\ journal[LatestIndex(journal, loaded[d], type, CallId(d))].type = type
        /\ journal[LatestIndex(journal, loaded[d], type, CallId(d))].id = CallId(d)
    BY <1>0, LatestIsRecorded DEF Hit
  <2> QED BY <1>0, <2>1 DEF HitEvent
<1>5. CASE ReuseResult(d)
  <2>1. Awaited(d).kind = "task" /\ Hit(d, "TaskCompleted")
        /\ Observe(d, HitEvent(d, "TaskCompleted").val)
    BY <1>5 DEF ReuseResult, CallAllowed, Awaits
  <2>2. Done(journal, CallId(d), HitEvent(d, "TaskCompleted").val)
    BY <1>4, <2>1 DEF Done
  <2> QED BY <1>1, <1>2, <2>1, <2>2 DEF Advances, Ended
<1>6. CASE SleepOver(d)
  <2>1. Awaited(d).kind = "sleep" /\ Hit(d, "TimerFired") /\ Observe(d, "woke")
    BY <1>6 DEF SleepOver, Awaits
  <2> QED BY <1>1, <1>2, <1>3, <2>1 DEF Advances, Ended
<1>7. CASE ReuseEvent(d)
  <2>1. Awaited(d).kind = "wait" /\ Hit(d, "ExternalEventReceived")
        /\ Observe(d, HitEvent(d, "ExternalEventReceived").val)
    BY <1>7 DEF ReuseEvent, Awaits
  <2>2. PICK i \in 1..Len(journal) :
          /\ HitEvent(d, "ExternalEventReceived") = journal[i]
          /\ journal[i].type = "ExternalEventReceived" /\ journal[i].id = CallId(d)
    BY <1>4, <2>1
  <2>3. WaitsFor(code, journal[i].val) /\ journal[i].val \in Topic
    BY <2>2 DEF WaitsOK, TypeInv, EventsOK, EventOK
  <2>4. journal[i].val = Awaited(d).name
    BY <1>0, <2>1, <2>3, OneWaitType
  <2> QED BY <1>1, <1>2, <1>3, <2>1, <2>2, <2>4 DEF Advances, Ended
<1>8. CASE ReuseTimeout(d)
  <2>1. Awaited(d).kind = "wait" /\ Hit(d, "TimerFired") /\ Observe(d, "timeout")
    BY <1>8 DEF ReuseTimeout, TimedOut, Awaits
  <2> QED BY <1>1, <1>2, <1>3, <2>1 DEF Advances, Ended
<1> QED BY <1>5, <1>6, <1>7, <1>8

LEMMA RecordsAdvance ==
  ASSUME TypeInv, NEW d \in Driver, WalkOK(d), Complete(d) \/ RecordEvent(d)
  PROVE  Advances(d)
<1>0. TypeOK /\ Len(journal) \in Nat /\ DriverOK(d)
  BY JournalFacts DEF TypeInv, TypeOK, DriversOK
<1>1. /\ IdAt(code, outs[d]) = CallId(d) /\ Workflow[code][outs[d]] = Awaited(d)
  BY <1>0, HereIs
<1>2. ASSUME NEW type, NEW val, Commit(type, CallId(d), 0, val)
      PROVE  \E i \in 1..Len(journal') :
               journal'[i].type = type /\ journal'[i].id = CallId(d) /\ journal'[i].val = val
  <2>1. /\ Len(journal') = Len(journal) + 1
        /\ journal'[Len(journal) + 1] = Entry(type, CallId(d), 0, val)
    BY <1>0, <1>2, AppendFacts DEF Commit
  <2>2. Len(journal) + 1 \in 1..Len(journal')
    BY <1>0, <2>1
  <2> QED BY <2>1, <2>2 DEF Entry
<1>3. CASE Complete(d)
  <2>1. PICK v \in Value : Commit("TaskCompleted", CallId(d), 0, v) /\ Observe(d, v)
    BY <1>3 DEF Complete
  <2>2. pc[d] \in Replaying /\ Awaited(d).kind = "task"
    BY <1>0, <1>3 DEF Complete, At, DriverOK, Executing, Replaying, Pc
  <2>3. Done(journal', CallId(d), v)
    BY <1>2, <2>1 DEF Done
  <2> QED BY <1>1, <2>1, <2>2, <2>3 DEF Advances, Ended
<1>4. CASE RecordEvent(d)
  <2>1. Commit("ExternalEventReceived", CallId(d), 0, Awaited(d).name) /\ Observe(d, Awaited(d).name)
    BY <1>4 DEF RecordEvent
  <2>2. pc[d] \in Replaying /\ Awaited(d).kind = "wait"
    BY <1>0, <1>4 DEF RecordEvent, At, DriverOK, Replaying, Pc
  <2>3. Recorded(journal', Len(journal'), "ExternalEventReceived", CallId(d))
    BY <1>2, <2>1 DEF Recorded
  <2> QED BY <1>1, <2>1, <2>2, <2>3 DEF Advances, Ended
<1> QED BY <1>3, <1>4

\* A driver goes on with its drive, ends it, or stays at its call.
LEMMA HowItMoves ==
  ASSUME TypeInv, OneTopicEach, WaitsOK, NEW d \in Driver, WalkOK(d), EngineOf(d)
  PROVE  \/ Advances(d)
         \/ Release(d)
         \/ outs' = outs /\ ordinals' = ordinals
<1>0. DriverOK(d)
  BY DEF TypeInv, DriversOK
<1>1. CASE Control(d)
  BY <1>1 DEF Control, StartRun, RecordCreated, ResumeRun, WakeRun, Redrive, CancelRun,
     SettleStatus, frame
<1>2. CASE Drive(d)
  BY <1>2 DEF Drive, DriveTerminal, DriveLoad, Return, Raise, frame
<1>3. CASE RefuseReplay(d) \/ Park(d)
  BY <1>3 DEF RefuseReplay, Park
<1>4. CASE FailAttempt(d)
  <2>1. pc[d] \in Replaying /\ Awaited(d).kind = "task"
    BY <1>0, <1>4 DEF FailAttempt, At, DriverOK, Executing, Replaying, Pc
  <2>2. CASE RetriesLeft(d)
    BY <1>4, <2>2 DEF FailAttempt
  <2>3. CASE ~RetriesLeft(d)
    BY <1>4, <2>1, <2>3 DEF FailAttempt, Advances
  <2> QED BY <2>2, <2>3
<1>5. CASE Schedule(d) \/ StartAttempt(d) \/ RunBody(d) \/ Backoff(d)
  BY <1>5 DEF Schedule, StartAttempt, RunBody, Backoff, frame
<1>6. CASE ConsumeEvent(d) \/ CreateTimer(d) \/ EnsureTimerRow(d) \/ StartWait(d) \/ RecordWaiting(d)
  BY <1>6 DEF ConsumeEvent, CreateTimer, EnsureTimerRow, StartWait, RecordWaiting, frame
<1>7. CASE ReuseResult(d) \/ Complete(d) \/ SleepOver(d) \/ ReuseEvent(d) \/ ReuseTimeout(d) \/ RecordEvent(d)
  BY <1>7, ReusesAdvance, RecordsAdvance
<1> QED BY <1>1, <1>2, <1>3, <1>4, <1>5, <1>6, <1>7 DEF EngineOf, CallTask, CallPrimitive

\* A call does not end the drive that makes it.
LEMMA CallsGoOn ==
  ASSUME TypeOK, NEW d \in Driver, CallTask(d) \/ CallPrimitive(d)
  PROVE  pc'[d] \notin {"idle", "create", "drive"}
<1> SUFFICES ASSUME pc'[d] \in {"idle", "create", "drive"} PROVE FALSE
  OBVIOUS
<1>1. pc \in [Driver -> Pc]
  BY DEF TypeOK, DriverTypeOK
<1>2. \A o : ~Observe(d, o)
  BY <1>1 DEF Observe, GoTo
<1>3. ~CallTask(d)
  <2>1. ~ReuseResult(d) /\ ~Complete(d)
    BY <1>2 DEF ReuseResult, Complete
  <2>2. ~Schedule(d) /\ ~StartAttempt(d) /\ ~Backoff(d) /\ ~RunBody(d)
    BY <1>1 DEF Schedule, StartAttempt, Backoff, RunBody, GoTo, Suspend
  <2>3. ~FailAttempt(d)
    BY <1>1, <1>2 DEF FailAttempt, Suspend
  <2> QED BY <2>1, <2>2, <2>3 DEF CallTask
<1>4. ~CallPrimitive(d)
  <2>1. ~SleepOver(d) /\ ~ReuseEvent(d) /\ ~ReuseTimeout(d) /\ ~RecordEvent(d)
    BY <1>2 DEF SleepOver, ReuseEvent, ReuseTimeout, RecordEvent
  <2>2. ~ConsumeEvent(d) /\ ~CreateTimer(d) /\ ~EnsureTimerRow(d) /\ ~StartWait(d) /\ ~RecordWaiting(d)
    BY <1>1 DEF ConsumeEvent, CreateTimer, EnsureTimerRow, StartWait, RecordWaiting, GoTo
  <2> QED BY <2>1, <2>2 DEF CallPrimitive
<1> QED BY <1>3, <1>4

\* A driver comes to rest by the end of its drive only.
LEMMA BeginsAtRest ==
  ASSUME TypeOK, NEW d \in Driver, EngineOf(d), pc'[d] \in {"idle", "create", "drive"}
  PROVE  pc[d] \in {"idle", "create", "drive"} \/ Release(d)
<1>0. pc \in [Driver -> Pc]
  BY DEF TypeOK, DriverTypeOK
<1>1. CASE Control(d)
  BY <1>1 DEF Control, StartRun, RecordCreated, ResumeRun, WakeRun, Redrive, CancelRun,
     SettleStatus, Idle, At
<1>2. CASE Drive(d)
  BY <1>0, <1>2 DEF Drive, DriveTerminal, DriveLoad, Return, Raise, At, GoTo
<1>3. CASE RefuseReplay(d) \/ Park(d)
  BY <1>3 DEF RefuseReplay, Park
<1> QED BY <1>1, <1>2, <1>3, CallsGoOn DEF EngineOf

LEMMA NotErred ==
  ASSUME TypeOK, ErrorsEscape, NEW d \in Driver, Awaited(d).kind # "raise"
  PROVE  ~Erred(d)
<1>1. outs[d] \in Histories /\ code \in Version
  BY DEF TypeOK, DriverTypeOK, EnvTypeOK
<1> QED BY <1>1 DEF ErrorsEscape, Erred, Awaited

\* What a drive that goes on has behind it.
LEMMA OneOutcomeOn ==
  ASSUME TypeOK, TypeOK', NEW d \in Driver, NEW o, Observe(d, o)
  PROVE  /\ outs'[d] = Append(outs[d], o) /\ outs[d] \in Histories
         /\ Append(outs[d], o) \in Histories
         /\ \A m \in Name : ordinals'[d][m] = IF m = Awaited(d).name THEN ordinals[d][m] + 1
                                              ELSE ordinals[d][m]
         /\ Erred(d)' <=> Erred(d) \/ o = "error"
<1>0. outs \in [Driver -> Histories] /\ ordinals \in [Driver -> [Name -> Nat]] /\ outs'[d] \in Histories
  BY DEF TypeOK, DriverTypeOK
<1>1. outs'[d] = Append(outs[d], o)
  BY <1>0 DEF Observe
<1>2. \A m \in Name : ordinals'[d][m] = IF m = Awaited(d).name THEN ordinals[d][m] + 1
                                        ELSE ordinals[d][m]
  BY <1>0 DEF Observe
<1>3. outs[d] \in Histories /\ Append(outs[d], o) \in Histories
  BY <1>0, <1>1
<1>4. /\ Len(outs[d]) \in Nat /\ Len(Append(outs[d], o)) = Len(outs[d]) + 1
      /\ Append(outs[d], o)[Len(outs[d]) + 1] = o
      /\ \A i \in 1..Len(outs[d]) : Append(outs[d], o)[i] = outs[d][i]
  BY <1>3, OneLonger
<1>5. /\ DOMAIN outs[d] = 1..Len(outs[d])
      /\ DOMAIN Append(outs[d], o) = 1..(Len(outs[d]) + 1)
  BY <1>3, <1>4, HistoryIsSeq, LenProperties
<1>6. Erred(d)' <=> Erred(d) \/ o = "error"
  BY <1>1, <1>4, <1>5 DEF Erred
<1> QED BY <1>1, <1>2, <1>3, <1>6

LEMMA OwnWalk ==
  ASSUME TypeInv, TypeInv', OneTopicEach, ErrorsEscape, WaitsOK, Grows, NEW d \in Driver,
         WalkOK(d), EngineOf(d)
  PROVE  OrdinalsOK(d)' /\ Begins(d)' /\ Reads(d)'
<1>0. TypeOK /\ TypeOK' /\ DriverTypeOK /\ Len(journal) \in Nat /\ code' = code
  BY JournalFacts, DriveMoves DEF TypeInv, TypeOK, EngineOf
<1>1. \A v, h : Walked(journal, v, h) => Walked(journal', v, h)
  BY <1>0, EndedStays DEF Grows
<1>2. CASE Advances(d)
  <2>1. PICK o : /\ Observe(d, o) /\ pc[d] \in Replaying
                 /\ Awaited(d).kind \in {"task", "sleep", "wait"}
                 /\ o = "error" \/ Ended(journal', code, outs[d], o)
    BY <1>2 DEF Advances
  <2> DEFINE h == outs[d]
             g == Append(h, o)
  <2>2. /\ outs'[d] = g /\ h \in Histories /\ g \in Histories
        /\ \A m \in Name : ordinals'[d][m] = IF m = Awaited(d).name THEN ordinals[d][m] + 1
                                             ELSE ordinals[d][m]
        /\ Erred(d)' <=> Erred(d) \/ o = "error"
    BY <1>0, <2>1, OneOutcomeOn
  <2>3. OrdinalsOK(d)'
    <3>1. ASSUME NEW m \in Name
          PROVE  ordinals'[d][m] = Cardinality(CallsTo(code, g, m))
      <4>1. Cardinality(CallsTo(code, g, m)) =
              IF Workflow[code][h].name = m THEN Cardinality(CallsTo(code, h, m)) + 1
              ELSE Cardinality(CallsTo(code, h, m))
        BY <2>2, CallsCount
      <4>2. ordinals[d][m] = Cardinality(CallsTo(code, h, m))
        BY DEF WalkOK, OrdinalsOK
      <4> QED BY <2>2, <4>1, <4>2 DEF Awaited
    <3> QED BY <1>0, <2>2, <3>1 DEF OrdinalsOK
  <2>4. Begins(d)'
    <3>1. pc'[d] = "replay"
      BY <1>0, <2>1 DEF Observe, GoTo, DriverTypeOK
    <3> QED BY <3>1 DEF Begins
  <2>5. Reads(d)'
    <3> SUFFICES ASSUME ~Erred(d)' PROVE Walked(journal', code, g)
      BY <1>0, <2>2 DEF Reads
    <3>1. ~Erred(d) /\ Ended(journal', code, h, o)
      BY <2>1, <2>2
    <3>2. Walked(journal', code, h)
      BY <1>1, <3>1 DEF WalkOK, Reads
    <3>3. /\ Len(h) \in Nat /\ Len(g) = Len(h) + 1 /\ g[Len(h) + 1] = o
          /\ \A i \in 1..Len(h) : g[i] = h[i]
          /\ \A n \in 0..Len(h) : Cut(g, n) = Cut(h, n)
      BY <2>2, OneLonger
    <3>4. Cut(h, Len(h)) = h
      <4>1. Len(h) \in 0..Len(h)
        BY <3>3
      <4> QED BY <2>2, <4>1, CutFacts
    <3> HIDE DEF h, g
    <3>5. ASSUME NEW n \in 1..Len(g) PROVE Ended(journal', code, Cut(g, n - 1), g[n])
      <4>1. CASE n \in 1..Len(h)
        <5>1. n - 1 \in 0..Len(h)
          BY <3>3, <4>1
        <5> QED BY <3>2, <3>3, <4>1, <5>1 DEF Walked
      <4>2. CASE n = Len(h) + 1
        <5>1. n - 1 = Len(h) /\ n - 1 \in 0..Len(h)
          BY <3>3, <4>2
        <5> QED BY <3>1, <3>3, <3>4, <4>2, <5>1
      <4> QED BY <3>3, <4>1, <4>2
    <3> QED BY <3>5 DEF Walked
  <2> QED BY <2>3, <2>4, <2>5
<1>3. CASE Release(d)
  <2>1. outs'[d] = <<>> /\ \A m \in Name : ordinals'[d][m] = 0
    BY <1>0, <1>3 DEF Release, DriverTypeOK
  <2>2. OrdinalsOK(d)' /\ Begins(d)'
    BY <2>1, NoCallsYet DEF OrdinalsOK, Begins
  <2>3. Walked(journal', code', <<>>)
    BY DEF Walked
  <2> QED BY <2>1, <2>2, <2>3 DEF Reads
<1>4. CASE outs' = outs /\ ordinals' = ordinals
  <2>1. OrdinalsOK(d)'
    BY <1>0, <1>4 DEF WalkOK, OrdinalsOK
  <2>2. Reads(d)'
    <3>1. Erred(d)' <=> Erred(d)
      BY <1>4 DEF Erred
    <3> QED BY <1>0, <1>1, <1>4, <3>1 DEF WalkOK, Reads
  <2>3. Begins(d)'
    <3> SUFFICES ASSUME pc'[d] \in {"idle", "create", "drive"} PROVE outs'[d] = <<>>
      BY DEF Begins
    <3>1. CASE pc[d] \in {"idle", "create", "drive"}
      BY <1>4, <3>1 DEF WalkOK, Begins
    <3>2. CASE Release(d)
      BY <1>0, <3>2 DEF Release, DriverTypeOK
    <3>3. pc[d] \in {"idle", "create", "drive"} \/ Release(d)
      BY <1>0, BeginsAtRest
    <3> QED BY <3>1, <3>2, <3>3
  <2> QED BY <2>1, <2>2, <2>3
<1> QED BY <1>2, <1>3, <1>4, HowItMoves

\* There is no event for a wait that finds none.
LEMMA NoneToMatch ==
  ASSUME TypeOK, NEW d \in Driver, Match(d) = 0
  PROVE  NoEventOf(Awaited(d).name)
<1> DEFINE rows == {i \in DOMAIN inbox : inbox[i].topic = Awaited(d).name /\ ~inbox[i].consumed}
           N == Len(inbox)
<1>1. N \in Nat /\ DOMAIN inbox = 1..N
  BY LenProperties DEF TypeOK, StoreTypeOK
<1>2. CASE rows = {}
  BY <1>2 DEF NoEventOf
<1>3. CASE rows # {}
  <2> DEFINE back == {n \in 0..N : N - n \in rows}
  <2>1. back \in SUBSET Nat /\ back # {}
    <3>1. PICK i \in rows : TRUE
      BY <1>3
    <3>2. i \in 1..N
      BY <1>1
    <3>3. N - i \in 0..N /\ N - (N - i) = i
      BY <1>1, <3>2
    <3>4. N - i \in back
      BY <3>1, <3>3
    <3> QED BY <1>1, <3>4
  <2>2. IsFiniteSet(back)
    <3>1. back \in SUBSET (0..N)
      OBVIOUS
    <3>2. IsFiniteSet(0..N)
      BY <1>1, FS_Interval
    <3> QED BY <3>1, <3>2, FS_Subset
  <2>3. PICK m \in back : \A n \in back : n <= m
    <3> HIDE DEF back
    <3> QED BY <2>1, <2>2, MaxOfFiniteSet
  <2>4. N - m \in rows /\ \A i \in rows : N - m <= i
    <3>1. ASSUME NEW i \in rows PROVE N - m <= i
      <4>1. i \in 1..N
        BY <1>1
      <4>2. N - i \in 0..N /\ N - (N - i) = i
        BY <1>1, <4>1
      <4>3. N - i \in back
        BY <4>2
      <4>4. N - i <= m /\ m \in Nat
        BY <1>1, <2>3, <4>3
      <4> QED BY <1>1, <4>1, <4>4
    <3> QED BY <3>1
  <2>5. Min(rows) \in rows
    <3> HIDE DEF rows, back
    <3> QED BY <2>4 DEF Min
  <2>6. Match(d) = Min(rows)
    BY <1>3 DEF Match
  <2> QED BY <1>1, <2>5, <2>6
<1> QED BY <1>2, <1>3

\* A driver that stands still.
LEMMA StillWalks ==
  ASSUME TypeInv, Grows, NEW d \in Driver, WalkOK(d), code' = code,
         pc'[d] = pc[d], outs'[d] = outs[d], ordinals'[d] = ordinals[d], loaded'[d] = loaded[d],
         pc[d] \in Parking => inbox' = inbox
  PROVE  WalkOK(d)'
<1>0. Len(journal) \in Nat /\ loaded[d] \in Nat /\ loaded[d] <= Len(journal)
  BY JournalFacts DEF TypeInv, TypeOK, DriverTypeOK, DriversOK, DriverOK
<1>1. OrdinalsOK(d)' /\ Begins(d)'
  BY DEF WalkOK, OrdinalsOK, Begins
<1>2. Reads(d)'
  <2>1. Walked(journal, code, outs[d]) => Walked(journal', code, outs[d])
    BY <1>0, EndedStays DEF Grows
  <2> QED BY <2>1 DEF WalkOK, Reads, Erred
<1>3. ParksOn(d)'
  <2> SUFFICES ASSUME pc[d] \in Parking PROVE ParksOn(d)'
    BY DEF ParksOn
  <2>1. Awaited(d)' = Awaited(d) /\ CallId(d)' = CallId(d)
    BY DEF Awaited, CallId
  <2>2. Hit(d, "TimerFired")' <=> Hit(d, "TimerFired")
    <3>1. \A i \in 1..loaded[d] : journal'[i] = journal[i]
      BY <1>0 DEF Grows
    <3> QED BY <2>1, <3>1 DEF Hit, Recorded
  <2> QED BY <2>1, <2>2 DEF WalkOK, ParksOn, NoEventOf
<1> QED BY <1>1, <1>2, <1>3 DEF WalkOK

LEMMA ParkBegins ==
  ASSUME TypeOK, NEW d \in Driver, EngineOf(d), pc'[d] \in Parking
  PROVE  CreateTimer(d) \/ EnsureTimerRow(d) \/ StartWait(d) \/ RecordWaiting(d)
<1>0. pc \in [Driver -> Pc]
  BY DEF TypeOK, DriverTypeOK
<1>2. ASSUME Release(d) PROVE FALSE
  BY <1>0, <1>2 DEF Release, Suspend, Parking
<1>3. ASSUME NEW o, Observe(d, o) PROVE FALSE
  BY <1>0, <1>3 DEF Observe, GoTo, Parking
<1>4. ~Control(d)
  <2>1. ~SettleStatus(d)
    BY <1>2 DEF SettleStatus
  <2> QED BY <1>0, <2>1 DEF Control, StartRun, RecordCreated, ResumeRun, WakeRun, Redrive,
                            CancelRun, GoTo, Parking
<1>5. ~Drive(d)
  <2>1. ~DriveTerminal(d)
    BY <1>2 DEF DriveTerminal
  <2> QED BY <1>0, <2>1 DEF Drive, DriveLoad, Return, Raise, GoTo, Parking
<1>6. ~RefuseReplay(d) /\ ~Park(d)
  BY <1>2 DEF RefuseReplay, Park
<1>7. ~CallTask(d)
  <2>1. ~ReuseResult(d) /\ ~Complete(d)
    BY <1>3 DEF ReuseResult, Complete
  <2>2. ~Schedule(d) /\ ~StartAttempt(d) /\ ~Backoff(d) /\ ~RunBody(d)
    BY <1>0 DEF Schedule, StartAttempt, Backoff, RunBody, GoTo, Suspend, Parking
  <2>3. ~FailAttempt(d)
    BY <1>0, <1>3 DEF FailAttempt, Suspend, Parking
  <2> QED BY <2>1, <2>2, <2>3 DEF CallTask
<1>8. ~SleepOver(d) /\ ~ReuseEvent(d) /\ ~ReuseTimeout(d) /\ ~RecordEvent(d)
  BY <1>3 DEF SleepOver, ReuseEvent, ReuseTimeout, RecordEvent
<1>9. ~ConsumeEvent(d)
  BY <1>0 DEF ConsumeEvent, GoTo, Parking
<1> QED BY <1>4, <1>5, <1>6, <1>7, <1>8, <1>9 DEF EngineOf, CallPrimitive

\* A driver parks when its sleep goes on, or there is no event for its wait.
LEMMA OwnPark ==
  ASSUME TypeInv, Grows, NEW d \in Driver, WalkOK(d), EngineOf(d)
  PROVE  ParksOn(d)'
<1>0. /\ TypeOK /\ Len(journal) \in Nat /\ loaded[d] \in Nat /\ loaded[d] <= Len(journal)
      /\ DriverOK(d) /\ pc \in [Driver -> Pc]
  BY JournalFacts DEF TypeInv, TypeOK, DriverTypeOK, DriversOK, DriverOK
<1> SUFFICES ASSUME pc'[d] \in Parking PROVE ParksOn(d)'
  BY DEF ParksOn
<1>1. CreateTimer(d) \/ EnsureTimerRow(d) \/ StartWait(d) \/ RecordWaiting(d)
  BY <1>0, ParkBegins
<1>2. /\ UNCHANGED <<code, outs, ordinals, loaded, inbox>>
      /\ pc[d] \in Parking \/ Parks(d)
  BY <1>1 DEF CreateTimer, EnsureTimerRow, StartWait, RecordWaiting, env, frame, At, Parking
<1>3. Awaited(d)' = Awaited(d) /\ CallId(d)' = CallId(d)
  BY <1>2 DEF Awaited, CallId
<1>4. Hit(d, "TimerFired")' <=> Hit(d, "TimerFired")
  <2>1. \A i \in 1..loaded[d] : journal'[i] = journal[i]
    BY <1>0 DEF Grows
  <2> QED BY <1>2, <1>3, <2>1 DEF Hit, Recorded
<1>5. CASE pc[d] \in Parking
  BY <1>2, <1>3, <1>4, <1>5 DEF WalkOK, ParksOn, NoEventOf
<1>6. CASE Parks(d)
  <2>1. Awaited(d).kind = "sleep" => ~Hit(d, "TimerFired")
    BY <1>6 DEF Parks, WaitMisses, Awaits
  <2>2. Awaited(d).kind = "wait" => NoEventOf(Awaited(d).name)
    BY <1>0, <1>6, NoneToMatch DEF Parks, WaitMisses, Awaits
  <2> QED BY <1>2, <1>3, <1>4, <2>1, <2>2 DEF ParksOn, NoEventOf
<1> QED BY <1>2, <1>5, <1>6

\* Events come between the suspensions of the drivers.
LEMMA InboxStays ==
  ASSUME NoCrashes, TypeInv, [WorkerNext]_allVars
  PROVE  inbox' = inbox \/ (turn = Free /\ UNCHANGED <<pc, journal>>) \/ \E d \in Driver : EngineOf(d)
<1>1. CASE EventStep
  BY <1>1 DEF EventStep, SendEvent
<1>2. CASE ClockStep \/ UNCHANGED allVars
  BY <1>2 DEF ClockStep, PassTime, allVars, vars, store
<1>3. CASE Scan \/ Fired \/ UNCHANGED vars \/ \E d \in Driver : Unpark(d)
  BY <1>3 DEF Scan, Fired, Unpark, vars, store
<1>4. ASSUME NEW row \in timers, RowStep(row) PROVE inbox' = inbox
  BY <1>4 DEF RowStep, DiscardTimer, SettleDuplicate, FireNext, SettleNext
<1>5. ~CrashStep
  BY DEF CrashStep, Crash, NoCrashes, TypeInv, TypeOK, EnvTypeOK
<1>6. CASE Deliver \/ Wake
  BY <1>6, WorkerIsDriver DEF Deliver, Wake, EngineOf, Control, vars, store
<1>7. ASSUME NEW d \in Driver, CallerStep(d) \/ DriveStep(d) \/ ParkStep(d) \/ RefuseStep(d)
      PROVE  EngineOf(d)
  BY <1>7 DEF CallerStep, DriveStep, ParkStep, RefuseStep, EngineOf, Control
<1> QED BY <1>1, <1>2, <1>3, <1>4, <1>5, <1>6, <1>7 DEF WorkerNext, TickStep, EngineStep, RowStep

LEMMA WalkKept ==
  ASSUME NoCrashes, OneTopicEach, ErrorsEscape, TypeInv, TypeInv', LoopInv, BesideInv,
         \A d \in Driver : WalkOK(d), WaitsOK, [WorkerNext]_allVars
  PROVE  \A d \in Driver : WalkOK(d)'
<1>0. TypeOK /\ Grows /\ TurnOK /\ Free \notin Driver
  BY WorkerGrows, FreeIsNoDriver DEF TypeInv, LoopInv, BesideInv
<1>1. ASSUME NEW d \in Driver, EngineOf(d), NEW e \in Driver
      PROVE  WalkOK(e)'
  <2>1. CASE e = d
    BY <1>0, <1>1, <2>1, OwnWalk, OwnPark DEF WalkOK
  <2>2. CASE e # d
    <3>1. OthersStay(d) /\ code' = code
      BY <1>1, DriveMoves DEF EngineOf
    <3>2. pc[e] \notin Parking
      <4>1. turn # e
        BY <1>0, <1>1, <2>2, TurnMoves
      <4>2. pc[e] \in Suspended
        BY <1>0, <4>1 DEF TurnOK
      <4> QED BY <4>2 DEF Suspended, Parking
    <3> QED BY <1>0, <2>2, <3>1, <3>2, StillWalks DEF OthersStay
  <2> QED BY <2>1, <2>2
<1>2. ASSUME UNCHANGED <<code, pc, outs, ordinals, loaded>>, NEW e \in Driver,
             pc[e] \in Parking => inbox' = inbox
      PROVE  WalkOK(e)'
  BY <1>0, <1>2, StillWalks
<1>3. CASE ~\E d \in Driver : EngineOf(d)
  <2>1. UNCHANGED <<code, pc, outs, ordinals, loaded>>
    BY <1>3, WhoMoves DEF Scan, Fired, Beside, Unpark, vars, store, env, frame, RowStep,
       DiscardTimer, SettleDuplicate, FireNext, SettleNext
  <2>2. ASSUME NEW e \in Driver, pc[e] \in Parking PROVE inbox' = inbox
    <3>1. turn = e
      BY <1>0, <2>2 DEF TurnOK, Parking, Suspended
    <3> QED BY <1>0, <1>3, <3>1, InboxStays
  <2> QED BY <1>2, <2>1, <2>2
<1> QED BY <1>1, <1>3

-----------------------------------------------------------------------------
(* The waits a journal has started                                           *)

WaitTypes == {"EventWaitStarted", "ExternalEventReceived"}

\* A journal ends each call with one outcome, after a step as well.
LEMMA EachEndsOnce ==
  ASSUME TaskRecordedOnce', WaitEndsOnce', KindsOK', DOMAIN journal' = 1..Len(journal')
  PROVE  EndsOnce(journal')
<1>1. ASSUME NEW i \in 1..Len(journal'), NEW k \in 1..Len(journal'),
             journal'[i].type = "ExternalEventReceived", journal'[k].type = "TimerFired",
             journal'[i].id = journal'[k].id, journal'[i].id.name = "event"
      PROVE  FALSE
  <2>1. journal'[k].val = "event_timeout"
    BY <1>1 DEF KindsOK, KindOf, TimerTypes
  <2> QED BY <1>1, <2>1 DEF WaitEndsOnce
<1>2. \A i, k \in 1..Len(journal') :
        journal'[i].type = "TaskCompleted" /\ journal'[k].type = "TaskCompleted"
        /\ journal'[i].id = journal'[k].id => i = k
  BY DEF TaskRecordedOnce, RecordedOnce
<1> QED BY <1>1, <1>2 DEF EndsOnce

\* Waits are started and received by the drives.
LEMMA WaitFacts ==
  ASSUME NEW d \in Driver, EngineOf(d)
  PROVE  NoFact(WaitTypes) \/ StartWait(d) \/ RecordEvent(d)
<1> SUFFICES ASSUME ~StartWait(d), ~RecordEvent(d) PROVE NoFact(WaitTypes)
  OBVIOUS
<1>1. \/ journal' = journal
      \/ \E type \in EventType \ WaitTypes : \E id, n, val : Commit(type, id, n, val)
  BY DEF EngineOf, Control, Drive, CallTask, CallPrimitive, StartRun, RecordCreated,
     ResumeRun, WakeRun, Redrive, CancelRun, SettleStatus, DriveTerminal,
     DriveLoad, Return, Raise, RefuseReplay, Park, ReuseResult, Schedule, StartAttempt,
     RunBody, Complete, FailAttempt, Backoff, SleepOver, ReuseEvent, ReuseTimeout,
     ConsumeEvent, CreateTimer, EnsureTimerRow, RecordWaiting, store, EventType, WaitTypes
<1>2. ASSUME NEW type \in EventType \ WaitTypes, NEW id, NEW n, NEW val, Commit(type, id, n, val)
      PROVE  NoFact(WaitTypes)
  <2>1. Entry(type, id, n, val).type \notin WaitTypes
    BY DEF Entry
  <2> QED BY <1>2, <2>1 DEF Commit, NoFact
<1> QED BY <1>1, <1>2 DEF NoFact

\* A drive stays on the path of a history the journal says.
LEMMA PathsStay ==
  ASSUME TypeInv, TypeInv', OneTopicEach, WaitsOK, NEW d \in Driver, WalkOK(d), EngineOf(d),
         EndsOnce(journal'), NEW h \in Histories, Walked(journal', code, h), NEW e \in Driver,
         pc[e] \in Replaying /\ ~Erred(e) => SamePath(outs[e], h),
         pc'[e] \in Replaying, ~Erred(e)'
  PROVE  SamePath(outs'[e], h)
<1>0. TypeOK /\ TypeOK' /\ OthersStay(d) /\ Moves(d) /\ DriverTypeOK
  BY DriveMoves DEF TypeInv, TypeOK, EngineOf
<1>1. CASE e # d
  BY <1>0, <1>1 DEF OthersStay, Erred
<1>2. CASE e = d /\ Advances(d)
  <2>1. PICK o : /\ Observe(d, o) /\ pc[d] \in Replaying
                 /\ o = "error" \/ Ended(journal', code, outs[d], o)
    BY <1>2 DEF Advances
  <2>2. /\ outs'[d] = Append(outs[d], o) /\ outs[d] \in Histories /\ Append(outs[d], o) \in Histories
        /\ Erred(d)' <=> Erred(d) \/ o = "error"
    BY <1>0, <2>1, OneOutcomeOn
  <2> QED BY <1>2, <2>1, <2>2, PathGoesOn
<1>3. CASE e = d /\ Release(d)
  <2>1. outs'[e] = <<>>
    BY <1>0, <1>3 DEF Release, DriverTypeOK
  <2> QED BY <2>1 DEF SamePath
<1>4. CASE e = d /\ outs' = outs
  <2>1. CASE pc[d] \in Replaying
    BY <1>4, <2>1 DEF Erred
  <2>2. CASE pc[d] \notin Replaying
    <3>1. pc[d] = "drive"
      BY <1>0, <1>4, <2>2 DEF Moves, Stays, Rests, Loads, Observes, Handles, Driving, Resting, Replaying
    <3>2. outs'[e] = <<>>
      BY <1>4, <3>1 DEF WalkOK, Begins
    <3> QED BY <3>2 DEF SamePath
  <2> QED BY <2>1, <2>2
<1> QED BY <1>1, <1>2, <1>3, <1>4, HowItMoves

\* The waits of a journal stay where they are on the path, ...
LEMMA OldWaits ==
  ASSUME TypeOK, Grows, WaitsOK, code' = code, NEW i \in 1..Len(journal),
         \A h \in Histories : \A e \in Driver :
           /\ Walked(journal', code, h)
           /\ pc[e] \in Replaying /\ ~Erred(e) => SamePath(outs[e], h)
           /\ pc'[e] \in Replaying /\ ~Erred(e)'
           => SamePath(outs'[e], h)
  PROVE  /\ journal'[i].type = "EventWaitStarted" => \E h \in Histories : WaitsAfter(i, h)'
         /\ journal'[i].type = "ExternalEventReceived" => WaitsFor(code', journal'[i].val)
<1>1. journal'[i] = journal[i]
  BY DEF Grows
<1>2. ASSUME journal'[i].type = "EventWaitStarted"
      PROVE  \E h \in Histories : WaitsAfter(i, h)'
  <2>1. PICK h \in Histories : WaitsAfter(i, h)
    BY <1>1, <1>2 DEF WaitsOK
  <2>2. Walked(journal', code, h)
    BY <2>1, JournalFacts, EndedStays DEF Grows, WaitsAfter
  <2>3. \A e \in Driver : pc'[e] \in Replaying /\ ~Erred(e)' => SamePath(outs'[e], h)
    BY <2>1, <2>2 DEF WaitsAfter
  <2>4. WaitsAfter(i, h)'
    BY <1>1, <2>1, <2>2, <2>3 DEF WaitsAfter
  <2> QED BY <2>4
<1> QED BY <1>1, <1>2 DEF WaitsOK

\* ... and a drive starts its wait where it is.
LEMMA WaitsKept ==
  ASSUME NoCrashes, OneTopicEach, ErrorsEscape, TypeInv, TypeInv', LoopInv, Alone,
         \A d \in Driver : WalkOK(d), WaitsOK, EndsOnce(journal'), [WorkerNext]_allVars
  PROVE  WaitsOK'
<1>0. TypeOK /\ Grows /\ PhaseOK /\ Len(journal) \in Nat
  BY WorkerGrows, JournalFacts DEF TypeInv, LoopInv
<1>1. ASSUME NoFact(WaitTypes), code' = code,
             \A h \in Histories : \A e \in Driver :
               /\ Walked(journal', code, h)
               /\ pc[e] \in Replaying /\ ~Erred(e) => SamePath(outs[e], h)
               /\ pc'[e] \in Replaying /\ ~Erred(e)'
               => SamePath(outs'[e], h)
      PROVE  WaitsOK'
  <2>1. \A i \in 1..Len(journal') : journal'[i].type \in WaitTypes => i \in 1..Len(journal)
    BY <1>0, <1>1, NoFactKeeps
  <2>2. \A i \in 1..Len(journal) :
          /\ journal'[i].type = "EventWaitStarted" => \E h \in Histories : WaitsAfter(i, h)'
          /\ journal'[i].type = "ExternalEventReceived" => WaitsFor(code', journal'[i].val)
    BY <1>0, <1>1, OldWaits
  <2> QED BY <2>1, <2>2 DEF WaitsOK, WaitTypes
<1>2. ASSUME NEW d \in Driver, EngineOf(d)
      PROVE  WaitsOK'
  <2>1. code' = code /\ OthersStay(d)
    BY <1>2, DriveMoves DEF EngineOf
  <2>2. \A h \in Histories : \A e \in Driver :
          /\ Walked(journal', code, h)
          /\ pc[e] \in Replaying /\ ~Erred(e) => SamePath(outs[e], h)
          /\ pc'[e] \in Replaying /\ ~Erred(e)'
          => SamePath(outs'[e], h)
    BY <1>2, PathsStay
  <2>3. CASE NoFact(WaitTypes)
    BY <1>1, <2>1, <2>2, <2>3
  <2>4. ASSUME NEW type, Commit(type, CallId(d), 0, Awaited(d).name),
               type = "EventWaitStarted" =>
                 \E h \in Histories :
                   /\ Walked(journal', code, h) /\ Workflow[code][h].kind = "wait"
                   /\ Workflow[code][h].name = Awaited(d).name /\ CallId(d) = IdAt(code, h)
                   /\ \A e \in Driver : pc'[e] \in Replaying /\ ~Erred(e)' => SamePath(outs'[e], h),
               type = "ExternalEventReceived" => WaitsFor(code, Awaited(d).name)
        PROVE  WaitsOK'
    <3>1. /\ \A i \in 1..Len(journal') : i \in 1..Len(journal) \/ i = Len(journal) + 1
          /\ journal'[Len(journal) + 1].type = type
          /\ journal'[Len(journal) + 1].id = CallId(d)
          /\ journal'[Len(journal) + 1].val = Awaited(d).name
      BY <1>0, <2>4, AppendFacts DEF Commit, Entry
    <3>2. \A i \in 1..Len(journal) :
            /\ journal'[i].type = "EventWaitStarted" => \E h \in Histories : WaitsAfter(i, h)'
            /\ journal'[i].type = "ExternalEventReceived" => WaitsFor(code', journal'[i].val)
      BY <1>0, <2>1, <2>2, OldWaits
    <3>3. ASSUME NEW i \in 1..Len(journal'), i = Len(journal) + 1, type = "EventWaitStarted"
          PROVE  \E h \in Histories : WaitsAfter(i, h)'
      <4>1. PICK h \in Histories :
              /\ Walked(journal', code, h) /\ Workflow[code][h].kind = "wait"
              /\ Workflow[code][h].name = Awaited(d).name /\ CallId(d) = IdAt(code, h)
              /\ \A e \in Driver : pc'[e] \in Replaying /\ ~Erred(e)' => SamePath(outs'[e], h)
        BY <2>4, <3>3
      <4>2. WaitsAfter(i, h)'
        BY <2>1, <3>1, <3>3, <4>1 DEF WaitsAfter
      <4> QED BY <4>2
    <3>4. type = "ExternalEventReceived" => WaitsFor(code', journal'[Len(journal) + 1].val)
      BY <2>1, <2>4, <3>1
    <3> QED BY <3>1, <3>2, <3>3, <3>4 DEF WaitsOK
  <2>5. CASE StartWait(d)
    <3>1. CASE Hit(d, "EventWaitStarted")
      BY <2>3, <2>5, <3>1 DEF StartWait, NoFact
    <3>2. CASE ~Hit(d, "EventWaitStarted")
      <4>1. Commit("EventWaitStarted", CallId(d), 0, Awaited(d).name) /\ outs' = outs
        BY <2>5, <3>2 DEF StartWait, frame
      <4>2. pc[d] \in Replaying /\ Awaited(d).kind = "wait" /\ DriverOK(d)
        BY <2>5 DEF StartWait, Parks, Awaits, At, TypeInv, DriversOK, DriverOK, WaitMisses, Replaying, Pc
      <4>3. /\ outs[d] \in Histories /\ Workflow[code][outs[d]] = Awaited(d)
            /\ CallId(d) = IdAt(code, outs[d])
        BY <1>0, HereIs
      <4>4. Walked(journal', code, outs[d])
        <5>1. Walked(journal, code, outs[d])
          BY <1>0, <4>2, NotErred DEF WalkOK, Reads
        <5> QED BY <1>0, <5>1, EndedStays DEF Grows
      <4>5. ASSUME NEW e \in Driver, pc'[e] \in Replaying PROVE SamePath(outs'[e], outs[d])
        <5>1. e = d
          BY <2>1, <4>2, <4>5 DEF OthersStay, Alone
        <5> QED BY <4>1, <5>1 DEF SamePath
      <4> QED BY <2>4, <4>1, <4>2, <4>3, <4>4, <4>5
    <3> QED BY <3>1, <3>2
  <2>6. CASE RecordEvent(d)
    <3>1. Commit("ExternalEventReceived", CallId(d), 0, Awaited(d).name) /\ Awaited(d).kind = "wait"
      BY <2>6 DEF RecordEvent, At, TypeInv, DriversOK, DriverOK
    <3>2. outs[d] \in Histories /\ Workflow[code][outs[d]] = Awaited(d)
      BY <1>0, HereIs
    <3>3. WaitsFor(code, Awaited(d).name)
      BY <3>1, <3>2 DEF WaitsFor
    <3> QED BY <2>4, <3>1, <3>3
  <2> QED BY <1>2, <2>3, <2>5, <2>6, WaitFacts
<1>3. ASSUME UNCHANGED <<code, pc, outs>>, NoFact(WaitTypes)
      PROVE  WaitsOK'
  <2>1. \A e \in Driver : Erred(e)' <=> Erred(e)
    BY <1>3 DEF Erred
  <2> QED BY <1>1, <1>3, <2>1
<1>4. CASE Scan \/ Fired \/ Beside \/ UNCHANGED vars \/ \E d \in Driver : Unpark(d)
  <2>1. UNCHANGED <<journal, code, pc, outs>>
    BY <1>4 DEF Scan, Fired, Beside, Unpark, vars, store, env, frame
  <2> QED BY <1>3, <2>1 DEF NoFact
<1>5. ASSUME NEW row \in timers, RowStep(row)
      PROVE  WaitsOK'
  <2>1. UNCHANGED <<code, pc, outs>>
    BY <1>5 DEF RowStep, DiscardTimer, SettleDuplicate, FireNext, SettleNext, env, frame
  <2>2. NoFact(WaitTypes)
    BY <1>5 DEF RowStep, DiscardTimer, SettleDuplicate, FireNext, SettleNext, NoFact, WaitTypes,
       Commit, Entry
  <2> QED BY <1>3, <2>1, <2>2
<1> QED BY <1>2, <1>4, <1>5, WhoMoves

-----------------------------------------------------------------------------
(* No event for a wait, between the delivery of events and the timers        *)

\* A wait that the journal ends is resolved.
LEMMA EndedIsResolved ==
  ASSUME KindsOK, NEW h, NEW o, Workflow[code][h].kind = "wait", Ended(journal, code, h, o)
  PROVE  Resolved(IdAt(code, h))
<1>1. IdAt(code, h).name = "event"
  BY DEF IdAt
<1>2. CASE Recorded(journal, Len(journal), "ExternalEventReceived", IdAt(code, h))
  BY <1>2 DEF Resolved, Whole
<1>3. CASE Recorded(journal, Len(journal), "TimerFired", IdAt(code, h))
  <2>1. PICK i \in 1..Len(journal) : journal[i].type = "TimerFired" /\ journal[i].id = IdAt(code, h)
    BY <1>3 DEF Recorded
  <2>2. journal[i].val = "event_timeout"
    BY <1>1, <2>1 DEF KindsOK, KindOf, TimerTypes
  <2> QED BY <2>1, <2>2 DEF Resolved, Whole
<1> QED BY <1>2, <1>3 DEF Ended

\* What a wait of the journal waits for.
LEMMA WaitTopic ==
  ASSUME TypeOK, WaitsOK, NEW i \in 1..Len(journal), journal[i].type = "EventWaitStarted"
  PROVE  journal[i].val \in Topic /\ WaitsFor(code, journal[i].val)
<1>1. PICK h \in Histories : WaitsAfter(i, h)
  BY DEF WaitsOK
<1>2. code \in Version
  BY DEF TypeOK, EnvTypeOK
<1>3. Workflow[code][h].name \in Topic
  BY <1>1, <1>2, WorkflowsAreCode DEF IsCode, WaitsAfter
<1> QED BY <1>1, <1>3 DEF WaitsAfter, WaitsFor

\* When a tick finds no event for a wait there is none.
LEMMA NotAwaited ==
  ASSUME TypeOK, WaitsOK, OneTopicEach, ~EventAwaits
  PROVE  NoneToDeliver
<1> SUFFICES ASSUME NEW i \in 1..Len(journal), journal[i].type = "EventWaitStarted",
                    ~Resolved(journal[i].id)
             PROVE  NoEventOf(journal[i].val)
  BY DEF NoneToDeliver
<1> DEFINE k == LatestIndex(journal, Whole, "EventWaitStarted", journal[i].id)
<1>1. Len(journal) \in Nat /\ code \in Version
  BY JournalFacts DEF TypeOK, EnvTypeOK
<1>2. Recorded(journal, Len(journal), "EventWaitStarted", journal[i].id)
  BY DEF Recorded
<1>3. k \in 1..Len(journal) /\ journal[k].type = "EventWaitStarted"
  BY <1>1, <1>2, LatestIsRecorded DEF Whole
<1>4. journal[k] \in OutstandingWaits
  BY DEF OutstandingWaits, Whole
<1> HIDE DEF k
<1>5. journal[k].val = journal[i].val
  BY <1>1, <1>3, WaitTopic DEF OneTopicEach
<1> QED BY <1>4, <1>5 DEF EventAwaits, NoEventOf

\* A drive that parks has left no event for any wait.
LEMMA ParkDelivers ==
  ASSUME TypeInv, KindsOK, NoneFired, OneTopicEach, ErrorsEscape, WaitsOK,
         NEW d \in Driver, WalkOK(d), pc[d] = "park"
  PROVE  NoneToDeliver
<1>0. /\ TypeOK /\ Awaited(d).kind \in {"sleep", "wait"} /\ pc[d] \in Parking /\ pc[d] \in Replaying
      /\ Len(journal) \in Nat /\ loaded[d] \in Nat
  BY JournalFacts DEF TypeInv, TypeOK, DriverTypeOK, DriversOK, DriverOK, Parking, Replaying, Pc
<1> SUFFICES ASSUME NEW i \in 1..Len(journal), journal[i].type = "EventWaitStarted",
                    ~Resolved(journal[i].id)
             PROVE  NoEventOf(journal[i].val)
  BY DEF NoneToDeliver
<1>1. CASE Awaited(d).kind = "wait"
  <2>1. NoEventOf(Awaited(d).name)
    BY <1>0, <1>1 DEF WalkOK, ParksOn
  <2>2. journal[i].val = Awaited(d).name
    BY <1>0, <1>1, WaitTopic, OneWaitType
  <2> QED BY <2>1, <2>2
<1>2. CASE Awaited(d).kind = "sleep"
  <2> DEFINE g == outs[d]
  <2>1. PICK h \in Histories : WaitsAfter(i, h)
    BY DEF WaitsOK
  <2>2. ~Erred(d)
    BY <1>0, <1>2, NotErred
  <2>3. /\ g \in Histories /\ Workflow[code][g].kind = "sleep" /\ IdAt(code, g) = CallId(d)
        /\ Walked(journal, code, g) /\ SamePath(g, h)
    BY <1>0, <1>2, <2>1, <2>2, HereIs DEF WalkOK, Reads, WaitsAfter
  <2>4. /\ Workflow[code][h].kind = "wait" /\ journal[i].id = IdAt(code, h)
        /\ Walked(journal, code, h)
    BY <2>1 DEF WaitsAfter
  <2> HIDE DEF g
  <2>5. /\ Len(g) \in Nat /\ Len(h) \in Nat
        /\ g \in [1..Len(g) -> Outcome] /\ h \in [1..Len(h) -> Outcome]
    BY <2>3, HistoryIsSeq, SizesAreNatural, LenProperties
  <2>6. ~(Len(g) < Len(h))
    <3> SUFFICES ASSUME Len(g) < Len(h) PROVE FALSE
      OBVIOUS
    <3>1. PICK o : Ended(journal, code, g, o)
      BY <2>3, <2>4, ShorterEnded
    <3>2. Recorded(journal, Len(journal), "TimerFired", CallId(d))
      BY <2>3, <3>1 DEF Ended
    <3>3. PICK k \in 1..Len(journal) : journal[k].type = "TimerFired" /\ journal[k].id = CallId(d)
      BY <3>2 DEF Recorded
    <3>4. k \in 1..loaded[d]
      BY <1>0, <3>3 DEF NoneFired
    <3>5. Hit(d, "TimerFired")
      BY <3>3, <3>4 DEF Hit, Recorded
    <3> QED BY <1>0, <1>2, <3>5 DEF WalkOK, ParksOn
  <2>7. ~(Len(h) < Len(g))
    <3> SUFFICES ASSUME Len(h) < Len(g) PROVE FALSE
      OBVIOUS
    <3>1. SamePath(h, g)
      BY <2>3, <2>5 DEF SamePath
    <3>2. PICK o : Ended(journal, code, h, o)
      BY <2>3, <3>1, ShorterEnded
    <3> QED BY <2>4, <3>2, EndedIsResolved
  <2>8. g # h
    BY <2>3, <2>4
  <2>9. Len(g) = Len(h) => g = h
    BY <2>3, <2>5 DEF SamePath
  <2>10. Len(g) < Len(h) \/ Len(h) < Len(g) \/ Len(g) = Len(h)
    <3>1. Len(g) \in Nat /\ Len(h) \in Nat
      BY <2>5
    <3> QED BY <3>1
  <2> QED BY <2>6, <2>7, <2>8, <2>9, <2>10
<1> QED BY <1>0, <1>1, <1>2

LEMMA OthersHoldBack ==
  ASSUME TypeInv, PhaseOK, OneRun, LoopRests, Delivered, ~MidTick,
         NEW d \in Driver, d # Worker, EngineOf(d)
  PROVE  FALSE
<1>1. turn \in {Free, d} /\ Free \notin Driver /\ Worker \in Driver
  BY TurnMoves, FreeIsNoDriver, WorkerIsDriver DEF TypeInv
<1>2. phase \notin Firing
  BY <1>1 DEF PhaseOK
<1> QED BY <1>2 DEF Delivered, LoopRests, MidTick, OneRun

LEMMA WorkerDelivers ==
  ASSUME TypeInv, LoopInv, BesideInv, OneTopicEach, ErrorsEscape, WaitsOK,
         \A d \in Driver : WalkOK(d), phase \notin Firing, phase' = phase, DriveStep(Worker) \/ Park(Worker)
  PROVE  LoopRests' /\ AllDelivered'
<1>0. TypeOK /\ Worker \in Driver /\ DriverOK(Worker)
  BY WorkerIsDriver DEF TypeInv, DriversOK
<1> SUFFICES ASSUME phase' = "scan", pc'[Worker] = "idle"
             PROVE  turn' = Free /\ (Unfinished' => NoneToDeliver')
  BY DEF LoopRests, AllDelivered, Delivered, Firing
<1>1. SettleStatus(Worker) \/ DriveTerminal(Worker) \/ Park(Worker)
  <2>1. ~CallTask(Worker) /\ ~CallPrimitive(Worker)
    BY <1>0, CallsGoOn
  <2>2. ~RecordCreated(Worker) /\ ~DriveLoad(Worker) /\ ~Return(Worker) /\ ~Raise(Worker)
    BY <1>0 DEF TypeOK, DriverTypeOK, RecordCreated, DriveLoad, Return, Raise, GoTo
  <2> QED BY <2>1, <2>2 DEF DriveStep, Drive
<1>2. turn' = Free
  BY <1>1 DEF SettleStatus, DriveTerminal, Park, Release, Suspend
<1>3. CASE Park(Worker)
  <2>1. pc[Worker] = "park" /\ journal' = journal /\ inbox' = inbox
    BY <1>3 DEF Park, At
  <2>2. NoneToDeliver
    BY <1>0, <2>1, ParkDelivers DEF LoopInv, BesideInv
  <2>3. NoneToDeliver'
    BY <2>1, <2>2 DEF NoneToDeliver, Resolved, Whole, NoEventOf
  <2> QED BY <1>2, <2>3
<1>4. CASE SettleStatus(Worker) \/ DriveTerminal(Worker)
  <2>1. /\ TerminalIndices(journal) # {}
        /\ status' = RecordedTerminalStatus(journal)
    BY <1>0, <1>4 DEF SettleStatus, DriveTerminal, DriverOK, At
  <2>2. status' \in TerminalStatus
    BY <1>0, <2>1, LastTerminal, JournalFacts
  <2>3. ~Unfinished'
    BY <2>2 DEF Unfinished, TerminalStatus
  <2> QED BY <1>2, <2>3
<1> QED BY <1>1, <1>3, <1>4

\* What the loop does to a timer is no event for a wait.
LEMMA RowsDeliver ==
  ASSUME TypeOK, AllDelivered, NEW row \in timers, RowStep(row)
  PROVE  LoopRests' /\ AllDelivered'
<1>1. /\ phase \in Firing /\ phase' \in Firing /\ inbox' = inbox /\ status' = status
      /\ NoFact({"EventWaitStarted"})
  BY DEF RowStep, DiscardTimer, SettleDuplicate, FireNext, SettleNext, Firing, NoFact, Commit, Entry
<1>2. \A i \in 1..Len(journal') : journal'[i].type = "EventWaitStarted" =>
        i \in 1..Len(journal) /\ journal'[i] = journal[i]
  BY <1>1, NoFactKeeps
<1>3. \A i \in 1..Len(journal) : i \in 1..Len(journal') /\ journal'[i] = journal[i]
  <2>1. CASE journal' = journal
    BY <2>1
  <2>2. CASE \E e : journal' = Append(journal, e)
    BY <2>2, AppendFacts
  <2> QED BY <1>1, <2>1, <2>2 DEF NoFact
<1>4. \A id : Resolved(id) => Resolved(id)'
  BY <1>3 DEF Resolved, Recorded, Whole
<1>5. NoneToDeliver => NoneToDeliver'
  BY <1>1, <1>2, <1>4 DEF NoneToDeliver, NoEventOf
<1> QED BY <1>1, <1>5 DEF LoopRests, AllDelivered, Delivered, Unfinished, Firing

LEMMA DeliveredKept ==
  ASSUME NoCrashes, OneRun, OneTopicEach, ErrorsEscape, TypeInv, LoopInv, BesideInv, WinsInv,
         [WorkerNext]_allVars
  PROVE  LoopRests' /\ AllDelivered'
<1>0. /\ TypeOK /\ PhaseOK /\ LoopRests /\ AllDelivered /\ WaitsOK /\ \A d \in Driver : WalkOK(d)
      /\ Worker \in Driver /\ Free \notin Driver
  BY WorkerIsDriver, FreeIsNoDriver
  DEF TypeInv, LoopInv, WinsInv, LoopRests, AllDelivered
<1>1. ASSUME UNCHANGED <<journal, status, inbox, pc, turn, phase>>
      PROVE  LoopRests' /\ AllDelivered'
  BY <1>0, <1>1 DEF LoopRests, AllDelivered, Delivered, Unfinished, NoneToDeliver, Resolved, Whole,
     NoEventOf
<1>2. ASSUME phase' = phase, pc'[Worker] = pc[Worker], Delivered => FALSE
      PROVE  LoopRests' /\ AllDelivered'
  BY <1>2 DEF LoopRests, AllDelivered, Delivered
<1>3. CASE Deliver
  <2>1. phase' = "scan" /\ turn = Free /\ pc[Worker] = "idle"
    BY <1>3 DEF Deliver, Idle
  <2>2. CASE Unfinished /\ EventAwaits
    <3>1. pc'[Worker] = "drive"
      BY <1>0, <1>3, <2>2 DEF Deliver, Redrive, GoTo, TypeOK, DriverTypeOK
    <3> QED BY <2>1, <3>1 DEF LoopRests, AllDelivered, Delivered, Firing
  <2>3. CASE ~(Unfinished /\ EventAwaits)
    <3>1. UNCHANGED <<journal, status, inbox, turn>>
      BY <1>3, <2>3 DEF Deliver, vars, store
    <3>2. Unfinished => NoneToDeliver
      BY <1>0, <2>3, NotAwaited
    <3>3. Unfinished' => NoneToDeliver'
      BY <3>1, <3>2 DEF Unfinished, NoneToDeliver, Resolved, Whole, NoEventOf
    <3> QED BY <2>1, <3>1, <3>3 DEF LoopRests, AllDelivered
  <2> QED BY <2>2, <2>3
<1>4. CASE Scan
  <2>1. phase = "scan" /\ pc[Worker] = "idle" /\ phase' = "fire" /\ UNCHANGED <<journal, status, inbox>>
    BY <1>4 DEF Scan, Idle, store
  <2>2. Unfinished => NoneToDeliver
    BY <1>0, <2>1 DEF AllDelivered, Delivered
  <2>3. Unfinished' => NoneToDeliver'
    BY <2>1, <2>2 DEF Unfinished, NoneToDeliver, Resolved, Whole, NoEventOf
  <2> QED BY <2>1, <2>3 DEF LoopRests, AllDelivered
<1>5. CASE Fired \/ Wake
  <2>1. phase' \in {"wake", "asleep"}
    BY <1>5 DEF Fired, Wake
  <2> QED BY <2>1 DEF LoopRests, AllDelivered, Delivered, Firing
<1>6. ASSUME NEW row \in timers, RowStep(row)
      PROVE  LoopRests' /\ AllDelivered'
  BY <1>0, <1>6, RowsDeliver
<1>7. ASSUME NEW d \in Driver, d # Worker, ~MidTick, EngineOf(d), phase' = phase
      PROVE  LoopRests' /\ AllDelivered'
  <2>1. ~Delivered
    BY <1>0, <1>7, OthersHoldBack
  <2>2. pc'[Worker] = pc[Worker]
    BY <1>0, <1>7, DriveMoves DEF EngineOf, OthersStay
  <2> QED BY <1>2, <1>7, <2>1, <2>2
<1>8. ASSUME NEW d \in Driver, CallerStep(d)
      PROVE  LoopRests' /\ AllDelivered'
  BY <1>7, <1>8 DEF CallerStep, EngineOf, Control, loop
<1>9. ASSUME NEW d \in Driver, EngineStep(d)
      PROVE  LoopRests' /\ AllDelivered'
  <2>1. CASE Unpark(d)
    BY <1>1, <2>1 DEF Unpark, vars, store, loop
  <2>2. CASE d # Worker /\ ~Unpark(d)
    <3>1. EngineOf(d) /\ ~MidTick /\ phase' = phase
      BY <1>9, <2>2 DEF EngineStep, DriveStep, ParkStep, RefuseStep, EngineOf, Control, loop
    <3> QED BY <1>7, <2>2, <3>1
  <2>3. CASE RefuseStep(Worker)
    BY <2>3 DEF RefuseStep, LoopRests, AllDelivered, Delivered, Firing
  <2>4. CASE d = Worker /\ ~RefuseStep(Worker) /\ ~Unpark(d)
    <3>1. (DriveStep(Worker) \/ ParkStep(Worker)) /\ phase' = phase
      BY <1>9, <2>4 DEF EngineStep, loop
    <3>2. pc[Worker] # "idle"
      BY <3>1 DEF DriveStep, ParkStep, Park, RecordCreated, SettleStatus, Drive, CallTask,
         CallPrimitive, DriveTerminal, DriveLoad, Return, Raise, ReuseResult, Schedule, StartAttempt,
         RunBody, Complete, FailAttempt, Backoff, SleepOver, ReuseEvent, ReuseTimeout, ConsumeEvent,
         RecordEvent, CreateTimer, EnsureTimerRow, StartWait, RecordWaiting, Parks, WaitMisses,
         CallAllowed, Awaits, At
    <3>3. phase \notin Firing
      BY <1>0, <3>2 DEF PhaseOK
    <3> QED BY <1>0, <3>1, <3>3, WorkerDelivers DEF ParkStep
  <2> QED BY <2>1, <2>2, <2>3, <2>4
<1>10. CASE EventStep
  <2>1. PICK t \in Topic : ~MidTick /\ SendEvent(t) /\ phase' = phase
    BY <1>10 DEF EventStep, loop
  <2>2. turn = Free /\ pc' = pc
    BY <2>1 DEF SendEvent
  <2>3. ~Delivered
    BY <1>0, <2>1, <2>2 DEF Delivered, PhaseOK, MidTick, OneRun
  <2> QED BY <1>2, <2>1, <2>2, <2>3
<1>11. CASE ClockStep \/ UNCHANGED allVars
  BY <1>1, <1>11 DEF ClockStep, PassTime, allVars, vars, store, loop
<1>12. ~CrashStep
  BY DEF CrashStep, Crash, NoCrashes, TypeInv, TypeOK, EnvTypeOK
<1> QED BY <1>3, <1>4, <1>5, <1>6, <1>8, <1>9, <1>10, <1>11, <1>12 DEF WorkerNext, TickStep, RowStep

LEMMA WinsKept ==
  ASSUME NoCrashes, OneRun, OneTopicEach, ErrorsEscape, TypeInv, TypeInv', LoopInv, BesideInv,
         Alone, WinsInv, TaskRecordedOnce', WaitEndsOnce', [WorkerNext]_allVars
  PROVE  WinsInv'
<1>1. KindsOK' /\ DOMAIN journal' = 1..Len(journal')
  BY KindsKept, LenProperties DEF TypeInv, TypeOK, StoreTypeOK, LoopInv
<1>2. EndsOnce(journal')
  BY <1>1, EachEndsOnce
<1>3. (\A d \in Driver : WalkOK(d)') /\ WaitsOK'
  BY <1>2, WalkKept, WaitsKept DEF WinsInv
<1> QED BY <1>3, DeliveredKept DEF WinsInv

\* A timer that fires for a wait finds no event for it.
LEMMA FiresWithoutEvent ==
  ASSUME PhaseOK, AllDelivered, TypeOK, [WorkerNext]_allVars, NEW row \in timers,
         Unfinished, ~AlreadyFired(row), AlreadyFired(row)',
         NEW e \in OutstandingWaits, NEW i \in DOMAIN inbox,
         inbox[i].topic = e.val, ~inbox[i].consumed
  PROVE  FALSE
<1>1. ~NoFact({"TimerFired"})
  <2> SUFFICES ASSUME NoFact({"TimerFired"}) PROVE FALSE
    OBVIOUS
  <2>1. \A k \in 1..Len(journal') : journal'[k].type = "TimerFired" =>
          k \in 1..Len(journal) /\ journal'[k] = journal[k]
    BY NoFactKeeps
  <2> QED BY <2>1 DEF AlreadyFired
<1>2. phase = "fire"
  BY <1>1, OnlyTheLoopFires DEF FireNext
<1>3. NoneToDeliver
  BY <1>2 DEF AllDelivered, Delivered, Firing
<1>4. PICK k \in 1..Len(journal) :
        /\ journal[k].type = "EventWaitStarted" /\ ~Resolved(journal[k].id)
        /\ e = journal[LatestIndex(journal, Len(journal), "EventWaitStarted", journal[k].id)]
  BY DEF OutstandingWaits, Whole
<1> DEFINE l == LatestIndex(journal, Len(journal), "EventWaitStarted", journal[k].id)
<1>5. l \in 1..Len(journal) /\ journal[l].type = "EventWaitStarted" /\ journal[l].id = journal[k].id
  BY <1>4, JournalFacts, LatestIsRecorded DEF Recorded
<1> HIDE DEF l
<1>6. NoEventOf(journal[l].val)
  BY <1>3, <1>4, <1>5 DEF NoneToDeliver
<1>7. e = journal[l]
  BY <1>4 DEF l
<1> QED BY <1>6, <1>7 DEF NoEventOf

\* An event that is there when a tick begins wins over the timeout of its wait: the drive
\* that the tick makes for it receives it, or ends the run, or parks where no event is
\* left, before the loop reads the due timers.
THEOREM EventWinsHolds ==
  ASSUME OneCaller, NoCrashes, OneRun, OneTopicEach, ErrorsEscape
  PROVE  WorkerSpec => EventWins
<1> DEFINE Inv == TypeInv /\ LoopInv /\ BesideInv /\ CallsInv /\ WaitEndsOnce /\ WinsInv
<1>1. WorkerInit => BesideInv /\ CallsInv /\ WaitEndsOnce /\ WinsInv
  <2> SUFFICES ASSUME WorkerInit PROVE BesideInv /\ CallsInv /\ WaitEndsOnce /\ WinsInv
    OBVIOUS
  <2>1. BesideInv /\ CallsInv /\ WaitEndsOnce
    BY BesideBegins
  <2>2. /\ journal = <<>> /\ status = "none" /\ phase = "asleep"
        /\ pc = [d \in Driver |-> "idle"] /\ outs = [d \in Driver |-> <<>>]
        /\ ordinals = [d \in Driver |-> [m \in Name |-> 0]]
    BY DEF WorkerInit, Init
  <2>3. ASSUME NEW d \in Driver PROVE WalkOK(d)
    <3>1. OrdinalsOK(d)
      BY <2>2, NoCallsYet DEF OrdinalsOK
    <3>2. Begins(d) /\ ParksOn(d)
      BY <2>2 DEF Begins, ParksOn, Parking
    <3>3. Walked(journal, code, <<>>)
      BY DEF Walked
    <3> QED BY <2>2, <3>1, <3>2, <3>3 DEF WalkOK, Reads
  <2>4. WaitsOK /\ LoopRests /\ AllDelivered
    BY <2>2 DEF WaitsOK, LoopRests, AllDelivered, Delivered, Firing
  <2> QED BY <2>1, <2>3, <2>4 DEF WinsInv
<1>2. ASSUME TypeInv, LoopInv, BesideInv, CallsInv, WaitEndsOnce, WinsInv, [WorkerNext]_allVars
      PROVE  (BesideInv /\ CallsInv /\ WaitEndsOnce /\ WinsInv)'
  <2>1. TypeInv' /\ (BesideInv /\ CallsInv /\ WaitEndsOnce)'
    BY <1>2, BesideStep, WorkerTypes DEF LoopInv
  <2>2. Alone
    BY <1>2, OneReplays
  <2>3. TaskRecordedOnce' /\ WaitEndsOnce'
    BY <2>1 DEF CallsInv
  <2> QED BY <1>2, <2>1, <2>2, <2>3, WinsKept
<1>3. Inv /\ [WorkerNext]_allVars =>
        [\A row \in timers :
           Unfinished /\ row.kind = "event_timeout" /\ ~AlreadyFired(row) /\ AlreadyFired(row)'
           => ~\E e \in OutstandingWaits : \E i \in DOMAIN inbox :
                e.id = row.id /\ inbox[i].topic = e.val /\ ~inbox[i].consumed]_allVars
  BY FiresWithoutEvent DEF LoopInv, WinsInv, TypeInv
<1> QED BY <1>1, <1>2, <1>3, LoopInvHolds, PTL DEF WorkerSpec, EventWins
=============================================================================
