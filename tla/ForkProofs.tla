------------------------------ MODULE ForkProofs ------------------------------
(***************************************************************************)
(* A fork re-runs what lies behind its fork point and nothing before it,   *)
(* and parks with a row that wakes it unless the fork point cut its wait   *)
(* in two: for any number of drivers, forks of forks and crashes, in the   *)
(* middle of the copy too.                                                 *)
(***************************************************************************)
EXTENDS ForkedRun, ReplayEngineProofs

-----------------------------------------------------------------------------
(* How the engine moves a run                                               *)

\* the journal of a run gets no second lineage from the engine
Records == journal' = journal \/ \E e : e.type # "RunForked" /\ journal' = Append(journal, e)

\* What any step of the engine does to a run.
LEMMA RunMoves ==
  ASSUME TypeInv, [Next]_vars PROVE \A d \in Driver : Moves(d)
<1> SUFFICES ASSUME NEW d \in Driver PROVE Moves(d)
  OBVIOUS
<1>1. ASSUME NEW e \in Driver,
             \/ Control(e) \/ Drive(e) \/ CallTask(e) \/ CallPrimitive(e)
             \/ RefuseReplay(e) \/ Park(e)
      PROVE  Moves(d)
  <2>1. OthersStay(e) /\ code' = code /\ Moves(e)
    BY <1>1, DriveMoves
  <2> QED BY <2>1 DEF OthersStay, Moves, Stays
<1>2. CASE Crash
  BY <1>2 DEF Crash, Moves, Rests
<1>3. CASE \/ \E row \in timers : FireTimer(row) \/ SettleTimer(row)
           \/ \E t \in Topic : SendEvent(t)
           \/ PassTime \/ UNCHANGED vars
  BY <1>3 DEF FireTimer, SettleTimer, SendEvent, PassTime, vars, env, frame, Moves, Stays
<1> QED BY <1>1, <1>2, <1>3 DEF Next

LEMMA RunRecords ==
  ASSUME [Next]_vars PROVE Records
<1>1. ASSUME NEW d \in Driver,
             Control(d) \/ Drive(d) \/ CallTask(d) \/ CallPrimitive(d) \/ RefuseReplay(d) \/ Park(d)
      PROVE  Records
  <2>1. \/ journal' = journal
        \/ \E type \in EventType \ {"RunForked"} : \E id, n, val : Commit(type, id, n, val)
    BY <1>1 DEF Control, Drive, CallTask, CallPrimitive, StartRun, RecordCreated, ResumeRun,
       WakeRun, Redrive, CancelRun, SettleStatus, DriveTerminal, DriveLoad, Return, Raise,
       RefuseReplay, Park, ReuseResult, Schedule, StartAttempt, RunBody, Complete, FailAttempt,
       Backoff, SleepOver, ReuseEvent, ReuseTimeout, ConsumeEvent, RecordEvent, CreateTimer,
       EnsureTimerRow, StartWait, RecordWaiting, store, EventType
  <2> QED BY <2>1 DEF Commit, Entry, Records
<1>2. CASE \E row \in timers : FireTimer(row) \/ SettleTimer(row)
  BY <1>2 DEF FireTimer, SettleTimer, Commit, Entry, Records
<1>3. CASE (\E t \in Topic : SendEvent(t)) \/ PassTime \/ Crash \/ UNCHANGED vars
  BY <1>3 DEF SendEvent, PassTime, Crash, vars, store, Records
<1> QED BY <1>1, <1>2, <1>3 DEF Next


-----------------------------------------------------------------------------
(* The invariant                                                            *)

\* what is read of the source: its events, and the rows they name
SourceOK ==
  /\ source \in Seq(Event) /\ point \in Nat /\ point <= Len(source) /\ lineage \in Nat
  /\ \A i \in 1..Len(source) : EventOK(source[i])
  /\ sourceRows \subseteq TimerRow
  /\ \A row \in sourceRows :
       /\ row.timer_id \in 1..Len(source)
       /\ source[row.timer_id].type = "TimerCreated"
       /\ source[row.timer_id].id = row.id
       /\ source[row.timer_id].n = row.fire_at
       /\ source[row.timer_id].val = row.kind

\* the first n events are the source's
CopiedTo(n) == \A i \in 1..n : journal[i] = source[i]

\* while a driver copies nothing else is under way, and it has copied in order
CopyOK(d) ==
  pc[d] = "copy" =>
    /\ turn = d /\ lineage > 0 /\ \A e \in Driver \ {d} : pc[e] = "idle"
    /\ Len(journal) <= point /\ CopiedTo(Len(journal))

\* a seeded journal begins with the prefix ...
SeedOK == Seeded => CopiedTo(point)

\* ... and every drive has loaded all of it, and executes what it did not find there
DriveOK(d) ==
  /\ pc[d] \in Resting => loaded[d] = 0
  /\ pc[d] \in Executing => ~Hit(d, "TaskCompleted")
  /\ Seeded /\ pc[d] \in Driving => point <= loaded[d]

ForkInv ==
  /\ TypeInv /\ PlacesInv /\ SourceOK /\ SeedOK
  /\ \A d \in Driver : CopyOK(d) /\ DriveOK(d)

\* Only the engine's own steps extend a journal past its seed.
LEMMA StaysSeeded ==
  ASSUME TypeOK, SourceOK, Records, UNCHANGED seed
  PROVE  Seeded' => Seeded
<1>1. Len(journal) \in Nat /\ point \in Nat /\ point' = point /\ lineage' = lineage
  BY JournalFacts DEF SourceOK, seed
<1>2. CASE journal' = journal
  BY <1>1, <1>2 DEF Seeded
<1>3. CASE \E e : e.type # "RunForked" /\ journal' = Append(journal, e)
  <2>1. PICK e : e.type # "RunForked" /\ journal' = Append(journal, e)
    BY <1>3
  <2>2. /\ Len(journal') = Len(journal) + 1 /\ journal'[Len(journal) + 1] = e
        /\ \A i \in 1..Len(journal) : journal'[i] = journal[i]
    BY <2>1, AppendFacts
  <2>3. ASSUME Seeded' PROVE point + 1 # Len(journal) + 1
    BY <1>1, <2>1, <2>2, <2>3 DEF Seeded, Entry
  <2> QED BY <1>1, <2>2, <2>3 DEF Seeded
<1> QED BY <1>2, <1>3 DEF Records

\* A copy goes on only by its own steps: time may pass and the process may crash.
LEMMA CopyIsAlone ==
  ASSUME TypeInv, NEW d \in Driver, pc[d] = "copy", CopyOK(d), RunStep
  PROVE  Crash \/ UNCHANGED <<journal, pc, turn>>
<1>1. turn = d /\ d # Free /\ \A e \in Driver : pc[e] = IF e = d THEN "copy" ELSE "idle"
  BY FreeIsNoDriver DEF CopyOK
<1>2. ASSUME NEW e \in Driver PROVE ~Control(e)
  BY <1>1 DEF Control, StartRun, RecordCreated, ResumeRun, WakeRun, CancelRun, SettleStatus,
     Redrive, Idle, At
<1>3. ASSUME NEW e \in Driver PROVE ~Drive(e) /\ ~RefuseReplay(e) /\ ~Park(e)
  BY <1>1 DEF Drive, DriveTerminal, DriveLoad, Return, Raise, RefuseReplay, Park, Awaits, At
<1>4. ASSUME NEW e \in Driver PROVE ~CallTask(e)
  BY <1>1 DEF CallTask, ReuseResult, Schedule, StartAttempt, RunBody, Complete, FailAttempt,
     Backoff, CallAllowed, Awaits, At
<1>5. ASSUME NEW e \in Driver PROVE ~CallPrimitive(e)
  BY <1>1 DEF CallPrimitive, SleepOver, ReuseEvent, ReuseTimeout, ConsumeEvent, RecordEvent,
     CreateTimer, EnsureTimerRow, StartWait, RecordWaiting, WaitMisses, Parks, Awaits, At
<1>6. ~(\E row \in timers : FireTimer(row) \/ SettleTimer(row)) /\ ~(\E t \in Topic : SendEvent(t))
  BY <1>1 DEF FireTimer, SettleTimer, SendEvent
<1>7. PassTime => UNCHANGED <<journal, pc, turn>>
  BY DEF PassTime, store
<1> QED BY <1>2, <1>3, <1>4, <1>5, <1>6, <1>7 DEF RunStep


-----------------------------------------------------------------------------
(* Every step keeps it                                                      *)

\* A driver keeps its part of the invariant while the engine drives the fork.
LEMMA DrivingKeeps ==
  ASSUME TypeInv, SourceOK, NEW d \in Driver, DriveOK(d), Moves(d), Grows, UNCHANGED seed,
         Seeded' => Seeded
  PROVE  DriveOK(d)'
<1>0. /\ Len(journal) \in Nat /\ loaded[d] \in Nat /\ loaded[d] <= Len(journal)
      /\ pc[d] \in Pc /\ point \in Nat /\ point' = point
  BY JournalFacts DEF TypeInv, TypeOK, DriverTypeOK, DriversOK, DriverOK, SourceOK, seed
<1>1. /\ Resting \cap Driving = {} /\ Executing \subseteq Driving
      /\ Resting \cap Executing = {} /\ "settle" \notin Resting \cup Driving
  BY DEF Resting, Driving, Executing, Pc
<1>2. ASSUME outs'[d] = outs[d], ordinals'[d] = ordinals[d], loaded'[d] = loaded[d], code' = code
      PROVE  Hit(d, "TaskCompleted")' <=> Hit(d, "TaskCompleted")
  <2>1. CallId(d)' = CallId(d)
    BY <1>2 DEF CallId, Awaited
  <2>2. \A i \in 1..loaded[d] : journal'[i] = journal[i]
    BY <1>0 DEF Grows
  <2> QED BY <1>2, <2>1, <2>2 DEF Hit, Recorded
<1>3. CASE Stays(d)
  BY <1>0, <1>2, <1>3 DEF Stays, DriveOK
<1>4. CASE Rests(d)
  <2>1. /\ pc'[d] \in Resting \cup {"settle"}
        /\ pc'[d] \in Resting => loaded'[d] = 0
    BY <1>4 DEF Rests, Resting, DriveOK
  <2>2. pc'[d] \notin Executing /\ pc'[d] \notin Driving
    BY <2>1 DEF Resting, Driving, Executing, Pc
  <2> QED BY <2>1, <2>2 DEF DriveOK
<1>5. CASE Loads(d)
  <2>1. "replay" \in Driving /\ "replay" \notin Executing
    BY DEF Driving, Resting, Executing, Pc
  <2>2. Seeded => point <= Len(journal)
    BY <1>0 DEF Seeded
  <2> QED BY <1>0, <1>1, <1>5, <2>1, <2>2 DEF Loads, DriveOK
<1>6. CASE Observes(d)
  <2>1. "replay" \in Driving /\ "replay" \notin Executing
    BY DEF Driving, Resting, Executing, Pc
  <2> QED BY <1>0, <1>1, <1>6, <2>1 DEF Observes, DriveOK
<1>7. CASE Handles(d)
  <2>1. pc'[d] \in Driving
    BY <1>1, <1>7 DEF Handles, Driving, Resting, Executing, Pc
  <2>2. pc'[d] \in Executing => ~Hit(d, "TaskCompleted")
    BY <1>7 DEF Handles, DriveOK, Executing
  <2>3. Hit(d, "TaskCompleted")' <=> Hit(d, "TaskCompleted")
    BY <1>2, <1>7 DEF Handles
  <2> QED BY <1>0, <1>1, <1>7, <2>1, <2>2, <2>3 DEF Handles, DriveOK
<1> QED BY <1>3, <1>4, <1>5, <1>6, <1>7 DEF Moves

LEMMA EngineKeeps ==
  ASSUME ForkInv, RunStep \/ UNCHANGED forkVars
  PROVE  ForkInv'
<1>0. TypeInv /\ PlacesInv /\ SourceOK /\ SeedOK /\ TypeOK /\ \A d \in Driver : CopyOK(d) /\ DriveOK(d)
  BY DEF ForkInv, TypeInv
<1>1. [Next]_vars /\ UNCHANGED seed
  BY DEF RunStep, Next, forkVars
<1>2. TypeInv' /\ PlacesInv' /\ Grows /\ Records /\ \A d \in Driver : Moves(d)
  BY <1>0, <1>1, NextTypes, PlacesStep, StepGrows, RunRecords, RunMoves
<1>3. SourceOK'
  BY <1>0, <1>1 DEF SourceOK, seed, EventOK
<1>4. Seeded' => Seeded
  BY <1>0, <1>1, <1>2, StaysSeeded
<1>5. SeedOK'
  <2> SUFFICES ASSUME Seeded' PROVE CopiedTo(point)'
    BY DEF SeedOK
  <2>1. Seeded /\ CopiedTo(point) /\ point' = point /\ source' = source
    BY <1>0, <1>1, <1>4 DEF SeedOK, seed
  <2>2. \A i \in 1..point : i \in 1..Len(journal)
    BY <1>0, <2>1, JournalFacts DEF Seeded, SourceOK
  <2> QED BY <1>2, <2>1, <2>2 DEF CopiedTo, Grows
<1>6. ASSUME NEW d \in Driver PROVE CopyOK(d)' /\ DriveOK(d)'
  <2>1. DriveOK(d)'
    BY <1>0, <1>1, <1>2, <1>4, DrivingKeeps
  <2>2. ASSUME pc'[d] = "copy" PROVE pc[d] = "copy"
    BY <1>2, <2>2 DEF Moves, Stays, Rests, Loads, Observes, Handles, Executing
  <2>3. ASSUME pc[d] = "copy", pc'[d] = "copy"
        PROVE  UNCHANGED <<journal, pc, turn>>
    <3>1. CASE RunStep
      BY <1>0, <2>3, <3>1, CopyIsAlone DEF Crash
    <3>2. CASE UNCHANGED forkVars
      BY <3>2 DEF forkVars, vars, store
    <3> QED BY <3>1, <3>2
  <2>4. CopyOK(d)'
    BY <1>0, <1>1, <2>2, <2>3 DEF CopyOK, CopiedTo, seed
  <2> QED BY <2>1, <2>4
<1> QED BY <1>2, <1>3, <1>5, <1>6 DEF ForkInv


\* A fork begins where every drive is over, so none is left over the new journal.
LEMMA BeginKeeps ==
  ASSUME ForkInv, NEW d \in Driver, NEW k \in DOMAIN journal, BeginFork(d, k)
  PROVE  ForkInv'
<1>0. /\ TypeInv /\ TypeOK /\ StoreTypeOK /\ EnvTypeOK /\ DriverTypeOK /\ EventsOK /\ TimersOK
      /\ SourceOK /\ \A e \in Driver : DriveOK(e)
      /\ Len(journal) \in Nat /\ DOMAIN journal = 1..Len(journal)
  BY JournalFacts DEF ForkInv, PlacesInv, TypeInv, TypeOK
<1>1. /\ \A e \in Driver : pc[e] = "idle" /\ loaded[e] = 0
      /\ pc' = [pc EXCEPT ![d] = "copy"] /\ turn' = d
      /\ journal' = <<>> /\ source' = journal /\ point' = k /\ lineage' = lineage + 1
      /\ timers' = {} /\ sourceRows' = {row \in timers : row.timer_id <= k}
      /\ UNCHANGED <<inbox, now, code, crashes, frame>>
      /\ executed' = <<>> /\ status' = "running" /\ stamp' = CodeVersion(code)
  BY <1>0 DEF BeginFork, AllIdle, GoTo, DriveOK, Resting
<1>2. Len(journal') = 0 /\ journal' \in Seq(Event)
  BY <1>1, EmptySeq
<1>3. \A e \in Driver : pc'[e] = (IF e = d THEN "copy" ELSE "idle") /\ loaded'[e] = 0
  BY <1>0, <1>1 DEF DriverTypeOK, frame
<1>4. TypeInv'
  <2>1. StoreTypeOK'
    BY <1>0, <1>1, <1>2 DEF StoreTypeOK, EnvTypeOK
  <2>2. EnvTypeOK'
    BY <1>0, <1>1, EmptySeq DEF EnvTypeOK
  <2>3. DriverTypeOK'
    BY <1>0, <1>1 DEF DriverTypeOK, frame, Pc
  <2>4. EventsOK'
    BY <1>2 DEF EventsOK
  <2>5. DriversOK'
    BY <1>2, <1>3 DEF DriversOK, DriverOK, Executing
  <2> QED BY <2>1, <2>2, <2>3, <2>4, <2>5 DEF TypeInv, TypeOK
<1>5. PlacesInv'
  BY <1>1, <1>3 DEF PlacesInv, TimersOK, PlaceOK
<1>6. SourceOK'
  <2>1. source' \in Seq(Event) /\ point' \in Nat /\ point' <= Len(source') /\ lineage' \in Nat
    BY <1>0, <1>1 DEF StoreTypeOK, SourceOK
  <2>2. \A i \in 1..Len(source') : EventOK(source'[i])
    BY <1>0, <1>1 DEF EventsOK
  <2>3. sourceRows' \subseteq TimerRow
    BY <1>0, <1>1 DEF StoreTypeOK
  <2> QED BY <1>0, <1>1, <2>1, <2>2, <2>3 DEF SourceOK, TimersOK, EventOK
<1>7. ~Seeded'
  BY <1>0, <1>1, <1>2 DEF Seeded
<1>8. ASSUME NEW e \in Driver PROVE CopyOK(e)' /\ DriveOK(e)'
  <2>1. CopyOK(e)'
    BY <1>0, <1>1, <1>2, <1>3 DEF CopyOK, CopiedTo, SourceOK
  <2> QED BY <1>3, <1>7, <2>1 DEF DriveOK, Executing
<1> QED BY <1>4, <1>5, <1>6, <1>7, <1>8 DEF ForkInv, SeedOK

\* A copied event names a row of the source, which is then the one of its timer.
LEMMA CopyKeeps ==
  ASSUME ForkInv, NEW d \in Driver, CopyEvent(d)
  PROVE  ForkInv'
<1> DEFINE next == Len(journal) + 1
           named == {row \in sourceRows : row.timer_id = next}
<1>0. /\ TypeInv /\ TypeOK /\ StoreTypeOK /\ EnvTypeOK /\ DriverTypeOK /\ EventsOK /\ DriversOK
      /\ TimersOK /\ SourceOK /\ CopyOK(d) /\ \A e \in Driver : DriveOK(e)
      /\ Len(journal) \in Nat
  BY JournalFacts DEF ForkInv, PlacesInv, TypeInv, TypeOK
<1>1. /\ pc[d] = "copy" /\ Len(journal) < point
      /\ journal' = Append(journal, source[next]) /\ timers' = timers \cup named
      /\ UNCHANGED <<status, stamp, inbox, env, pc, turn, frame, source, sourceRows, point, lineage>>
  BY DEF CopyEvent, Seeding, At, PrefixLength
<1>2. next \in 1..Len(source) /\ source[next] \in Event /\ EventOK(source[next])
  BY <1>0, <1>1, ElementOfSeq DEF SourceOK
<1>3. /\ Len(journal') = next /\ journal'[next] = source[next]
      /\ \A i \in 1..Len(journal) : journal'[i] = journal[i]
  BY <1>0, <1>1, AppendFacts
<1>4. journal' \in Seq(Event) /\ Grows
  BY <1>0, <1>1, <1>2, <1>3, AppendProperties DEF StoreTypeOK, Grows
<1>5. \A e \in Driver : pc[e] = IF e = d THEN "copy" ELSE "idle"
  BY <1>0, <1>1 DEF CopyOK
<1>6. TypeInv'
  <2>1. StoreTypeOK'
    BY <1>0, <1>1, <1>4 DEF StoreTypeOK, SourceOK
  <2>2. EnvTypeOK' /\ DriverTypeOK'
    BY <1>0, <1>1 DEF EnvTypeOK, DriverTypeOK, env, frame
  <2>3. EventsOK'
    <3> SUFFICES ASSUME NEW i \in 1..Len(journal') PROVE EventOK(journal'[i])
      BY DEF EventsOK, EventOK
    <3>1. i = next \/ i \in 1..Len(journal)
      BY <1>0, <1>3
    <3> QED BY <1>0, <1>2, <1>3, <3>1 DEF EventsOK
  <2>4. DriversOK'
    BY <1>0, <1>1, <1>4, DriverStays DEF DriversOK, frame, env
  <2> QED BY <2>1, <2>2, <2>3, <2>4 DEF TypeInv, TypeOK
<1>7. PlacesInv'
  <2>1. TimersOK'
    <3> SUFFICES ASSUME NEW row \in timers'
                 PROVE  /\ row.timer_id \in 1..Len(journal')
                        /\ journal'[row.timer_id].type = "TimerCreated"
                        /\ journal'[row.timer_id].id = row.id
                        /\ journal'[row.timer_id].n = row.fire_at
                        /\ journal'[row.timer_id].val = row.kind
      BY DEF TimersOK
    <3>1. CASE row \in timers
      BY <1>0, <1>3, <3>1 DEF TimersOK
    <3>2. CASE row \in named
      BY <1>0, <1>3, <3>2 DEF SourceOK
    <3> QED BY <1>1, <3>1, <3>2
  <2>2. \A e \in Driver : PlaceOK(e)'
    BY <1>1, <1>5 DEF PlaceOK
  <2> QED BY <2>1, <2>2 DEF PlacesInv
<1>8. SourceOK'
  BY <1>0, <1>1 DEF SourceOK, EventOK
<1>9. ~Seeded'
  BY <1>0, <1>1, <1>3 DEF Seeded, SourceOK
<1>10. ASSUME NEW e \in Driver PROVE CopyOK(e)' /\ DriveOK(e)'
  <2>1. CopiedTo(Len(journal))'
    <3> SUFFICES ASSUME NEW i \in 1..Len(journal') PROVE journal'[i] = source[i]
      BY <1>1 DEF CopiedTo
    <3>1. i = next \/ i \in 1..Len(journal)
      BY <1>0, <1>3
    <3> QED BY <1>0, <1>1, <1>3, <3>1 DEF CopyOK, CopiedTo
  <2>2. CopyOK(e)'
    BY <1>0, <1>1, <1>3, <1>5, <2>1 DEF CopyOK, SourceOK
  <2>3. pc'[e] \in {"copy", "idle"} /\ loaded'[e] = loaded[e]
    BY <1>1, <1>5 DEF frame
  <2> QED BY <1>0, <1>1, <1>9, <2>2, <2>3 DEF DriveOK, Executing, Resting
<1> QED BY <1>6, <1>7, <1>8, <1>9, <1>10 DEF ForkInv, SeedOK

\* The lineage closes the prefix, and seeds the journal.
LEMMA RecordKeeps ==
  ASSUME ForkInv, NEW d \in Driver, RecordForked(d)
  PROVE  ForkInv'
<1>0. /\ TypeInv /\ TypeOK /\ StoreTypeOK /\ EnvTypeOK /\ DriverTypeOK /\ EventsOK /\ DriversOK
      /\ TimersOK /\ SourceOK /\ CopyOK(d) /\ \A e \in Driver : DriveOK(e)
      /\ Len(journal) \in Nat
  BY JournalFacts DEF ForkInv, PlacesInv, TypeInv, TypeOK
<1>1. /\ pc[d] = "copy" /\ Len(journal) = point
      /\ Commit("RunForked", NoId, lineage - 1, "none")
      /\ GoTo(d, "drive") \/ Suspend(d, "idle")
      /\ UNCHANGED <<status, stamp, timers, inbox, env, frame, seed>>
  BY DEF RecordForked, Seeding, At, PrefixLength
<1>2. lineage - 1 \in Nat /\ NoId \in Identity
  BY <1>0, <1>1 DEF CopyOK, SourceOK, NoId, Identity
<1>3. /\ journal' \in Seq(Event) /\ EventsOK' /\ Grows /\ Len(journal') = Len(journal) + 1
  BY <1>0, <1>1, <1>2, PlainCommitGrows DEF EventType
<1>4. \A e \in Driver : pc[e] = IF e = d THEN "copy" ELSE "idle"
  BY <1>0, <1>1 DEF CopyOK
<1>5. \A e \in Driver : pc'[e] \in {"idle", "drive"} /\ loaded'[e] = loaded[e]
  BY <1>0, <1>1, <1>4 DEF GoTo, Suspend, DriverTypeOK, frame
<1>6. TypeInv'
  <2>1. StoreTypeOK' /\ EnvTypeOK'
    BY <1>0, <1>1, <1>3 DEF StoreTypeOK, EnvTypeOK, env
  <2>2. DriverTypeOK'
    BY <1>0, <1>1, GoToMoves DEF Pc
  <2>3. ASSUME NEW e \in Driver PROVE DriverOK(e)'
    BY <1>0, <1>3, <1>5, DriverAtRest
  <2> QED BY <1>3, <2>1, <2>2, <2>3 DEF TypeInv, TypeOK, DriversOK
<1>7. PlacesInv'
  <2>1. TimersOK'
    BY <1>0, <1>1, <1>3 DEF TimersOK, Grows
  <2> QED BY <1>5, <2>1 DEF PlacesInv, PlaceOK
<1>8. SourceOK'
  BY <1>0, <1>1 DEF SourceOK, EventOK, seed
<1>9. SeedOK'
  BY <1>0, <1>1, <1>3 DEF SeedOK, CopiedTo, CopyOK, Grows, seed
<1>10. ASSUME NEW e \in Driver PROVE CopyOK(e)' /\ DriveOK(e)'
  <2>1. loaded'[e] = 0
    BY <1>0, <1>4, <1>5 DEF DriveOK, Resting
  <2> QED BY <1>5, <2>1 DEF CopyOK, DriveOK, Executing, Driving, Resting
<1> QED BY <1>6, <1>7, <1>8, <1>9, <1>10 DEF ForkInv


LEMMA ForkInvHolds == ForkSpec => []ForkInv
<1>1. ForkInit => ForkInv
  <2> SUFFICES ASSUME ForkInit PROVE ForkInv
    OBVIOUS
  <2>1. TypeInv
    BY InitTypes DEF ForkInit
  <2>2. PlacesInv
    BY DEF ForkInit, Init, PlacesInv, TimersOK, PlaceOK
  <2>3. SourceOK /\ SeedOK
    BY EmptySeq DEF ForkInit, SourceOK, SeedOK, Seeded
  <2>4. ASSUME NEW d \in Driver PROVE CopyOK(d) /\ DriveOK(d)
    BY DEF ForkInit, Init, CopyOK, DriveOK, Seeded, Executing
  <2> QED BY <2>1, <2>2, <2>3, <2>4 DEF ForkInv
<1>2. ForkInv /\ [ForkNext]_forkVars => ForkInv'
  <2> SUFFICES ASSUME ForkInv, [ForkNext]_forkVars PROVE ForkInv'
    OBVIOUS
  <2>1. CASE RunStep \/ UNCHANGED forkVars
    BY <2>1, EngineKeeps
  <2>2. CASE ForkStep
    <3>1. PICK d \in Driver :
            (\E k \in DOMAIN journal : BeginFork(d, k)) \/ CopyEvent(d) \/ RecordForked(d)
      BY <2>2 DEF ForkStep, ForkPoints
    <3> QED BY <3>1, BeginKeeps, CopyKeeps, RecordKeeps
  <2> QED BY <2>1, <2>2 DEF ForkNext
<1> QED BY <1>1, <1>2, PTL DEF ForkSpec

-----------------------------------------------------------------------------
(* What a fork re-runs, and what it leaves behind when it parks              *)

\* Once its prefix is copied whole, a fork runs no task body that the prefix records
\* as completed: whoever drives it has loaded the prefix and looks there first.
THEOREM PrefixIsReusedHolds == ForkSpec => PrefixIsReused
<1> DEFINE Reused == Len(executed') > Len(executed) /\ Seeded =>
                       ~Recorded(source, point, "TaskCompleted", executed'[Len(executed')])
<1>1. ForkInv /\ [ForkNext]_forkVars => [Reused]_forkVars
  <2> SUFFICES ASSUME ForkInv, ForkNext, Len(executed') > Len(executed), Seeded
               PROVE  ~Recorded(source, point, "TaskCompleted", executed'[Len(executed')])
    OBVIOUS
  <2>1. /\ TypeOK /\ SeedOK /\ SourceOK /\ executed \in Seq(Identity) /\ Len(executed) \in Nat
        /\ \A d \in Driver : DriveOK(d)
    BY LenProperties DEF ForkInv, TypeInv, TypeOK, EnvTypeOK
  <2>2. ~ForkStep
    BY <2>1, EmptySeq DEF ForkStep, BeginFork, CopyEvent, RecordForked, env
  <2>3. PICK d \in Driver : RunBody(d)
    <3>1. executed' # executed
      BY <2>1
    <3> QED BY <2>2, <3>1 DEF ForkNext, RunStep, Control, Drive, CallTask, CallPrimitive, StartRun,
         RecordCreated, ResumeRun, WakeRun, Redrive, CancelRun, SettleStatus, DriveTerminal,
         DriveLoad, Return, Raise, RefuseReplay, Park, ReuseResult, Schedule, StartAttempt,
         Complete, FailAttempt, Backoff, SleepOver, ReuseEvent, ReuseTimeout, ConsumeEvent,
         RecordEvent, CreateTimer, EnsureTimerRow, StartWait, RecordWaiting, FireTimer,
         SettleTimer, SendEvent, PassTime, Crash, env
  <2>4. pc[d] = "body" /\ executed' = Append(executed, CallId(d))
    BY <2>3 DEF RunBody, At
  <2>5. executed'[Len(executed')] = CallId(d)
    BY <2>1, <2>4, AppendProperties, SeqMonotonic
  <2>6. ~Hit(d, "TaskCompleted") /\ point <= loaded[d] /\ loaded[d] \in Nat
    BY <2>1, <2>4 DEF DriveOK, Executing, Driving, Resting, Pc, TypeOK, DriverTypeOK
  <2> QED BY <2>1, <2>5, <2>6 DEF SeedOK, CopiedTo, SourceOK, Hit, Recorded
<1> QED BY <1>1, ForkInvHolds, PTL DEF ForkSpec, PrefixIsReused

\* A fork that parks has a timers row of its own or waits for an event alone, unless
\* the fork point cut that very wait in two and the row is an ancestor's.
THEOREM ForkParkIsCompleteHolds == ForkSpec => []ForkParkIsComplete
<1>1. ForkInv => ForkParkIsComplete
  <2> SUFFICES ASSUME ForkInv, NEW d \in Driver, pc[d] = "park",
                      Awaited(d).kind # "wait" \/ Awaited(d).after # 0
               PROVE  \E row \in timers : row.id = CallId(d)
    BY DEF ForkParkIsComplete, CutInWait
  <2>1. PlaceOK(d) /\ Awaited(d).kind \in {"sleep", "wait"}
    BY DEF ForkInv, PlacesInv, TypeInv, DriversOK, DriverOK
  <2> QED BY <2>1 DEF PlaceOK, HasRow
<1> QED BY <1>1, ForkInvHolds, PTL
=============================================================================
