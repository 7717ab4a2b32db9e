------------------------ MODULE ReplayEngineProofs ------------------------
(***************************************************************************)
(* ReplayEngine keeps the types of its variables under any number of       *)
(* drivers, crashes and code versions.                                     *)
(*                                                                         *)
(* The rest is about what the journal of a run records: its outcome, its   *)
(* task calls, its parks and its attempts.  Most of it holds when one      *)
(* driver at a time drives or cancels the run.  Nothing in the code makes  *)
(* that so: two drivers of one run each work on the journal they loaded.   *)
(***************************************************************************)
EXTENDS ReplayEngine, JournalProofs, SequenceTheorems

Executing == {"attempt", "body", "returned", "backoff"}

\* what the readers of an event rely on beyond its type
EventOK(e) ==
  /\ e.type = "TaskCompleted" => e.val \in Value
  /\ e.type = "ExternalEventReceived" => e.val \in Topic
  /\ e.type = "TimerCreated" => e.val \in {"sleep", "event_timeout"}

EventsOK == \A i \in 1..Len(journal) : EventOK(journal[i])

\* what the place of a driver says of the call it awaits and of the journal
DriverOK(d) ==
  /\ pc[d] \in Executing => Awaited(d).kind = "task"
  /\ pc[d] \in {"timer", "waiting", "park"} => Awaited(d).kind \in {"sleep", "wait"}
  /\ pc[d] \in {"await", "receive"} => Awaited(d).kind = "wait"
  /\ pc[d] = "timer" => Recorded(journal, Len(journal), "TimerCreated", CallId(d))
  /\ pc[d] = "settle" => TerminalIndices(journal) # {}
  /\ loaded[d] <= Len(journal)

DriversOK == \A d \in Driver : DriverOK(d)

\* TypeOK strengthened to an inductive invariant
TypeInv == TypeOK /\ EventsOK /\ DriversOK

-----------------------------------------------------------------------------
(* Facts about the data                                                      *)

LEMMA EmptyHistory == <<>> \in Histories
<1>1. <<>> \in [1..0 -> Outcome] /\ 0 \in 0..MaxCalls
  BY SizesAreNatural
<1> QED BY <1>1 DEF Histories

LEMMA HistoryIsSeq ==
  ASSUME NEW h \in Histories
  PROVE  h \in Seq(Outcome) /\ Len(h) \in 0..MaxCalls
<1>1. PICK n \in 0..MaxCalls : h \in [1..n -> Outcome]
  BY DEF Histories
<1>2. n \in Nat
  BY SizesAreNatural
<1> QED BY <1>1, <1>2, SeqDef, LenProperties

\* A history with room for one more outcome stays a history.
LEMMA LongerHistory ==
  ASSUME NEW h \in Histories, NEW o \in Outcome, Len(h) < MaxCalls
  PROVE  Append(h, o) \in Histories
<1>1. h \in Seq(Outcome) /\ Len(h) \in 0..MaxCalls
  BY HistoryIsSeq
<1>2. Append(h, o) \in Seq(Outcome) /\ Len(Append(h, o)) = Len(h) + 1
  BY <1>1, AppendProperties
<1>3. Append(h, o) \in [1..(Len(h) + 1) -> Outcome]
  BY <1>2, LenProperties
<1>4. Len(h) + 1 \in 0..MaxCalls
  BY <1>1, SizesAreNatural
<1> QED BY <1>3, <1>4 DEF Histories

\* What a driver awaits is a step of its workflow; unless the workflow is over,
\* the history has room for an outcome and the call has an identity.
LEMMA AwaitedFacts ==
  ASSUME TypeOK, NEW d \in Driver
  PROVE  /\ Awaited(d) \in Step
         /\ Awaited(d).name \in Name
         /\ Awaited(d).kind = "task" => Awaited(d).name \in Task
         /\ Awaited(d).kind = "wait" => Awaited(d).name \in Topic
         /\ Awaited(d).kind = "sleep" => Awaited(d).name = "sleep"
         /\ Awaited(d).kind \in {"task", "sleep", "wait"} =>
              Len(outs[d]) < MaxCalls /\ CallId(d) \in Identity
<1>1. outs[d] \in Histories /\ IsCode(Workflow[code])
  BY WorkflowsAreCode DEF TypeOK, DriverTypeOK, EnvTypeOK
<1>2. /\ Awaited(d) \in Step
      /\ Awaited(d).kind = "task" => Awaited(d).name \in Task
      /\ Awaited(d).kind = "wait" => Awaited(d).name \in Topic
      /\ Awaited(d).kind = "sleep" => Awaited(d).name = "sleep"
      /\ Len(outs[d]) = MaxCalls => Awaited(d).kind \in {"return", "raise"}
  BY <1>1 DEF IsCode, Awaited
<1>3. Awaited(d).name \in Name
  BY <1>2 DEF Step, Name
<1>4. Awaited(d).kind \in {"task", "sleep", "wait"} => Len(outs[d]) < MaxCalls
  BY <1>1, <1>2, HistoryIsSeq, SizesAreNatural
<1>5. ordinals[d][Awaited(d).name] \in Nat
  BY <1>3 DEF TypeOK, DriverTypeOK
<1>6. Awaited(d).kind \in {"task", "sleep", "wait"} => CallId(d) \in Identity
  BY <1>2, <1>5 DEF CallId, Identity
<1> QED BY <1>2, <1>3, <1>4, <1>6

-----------------------------------------------------------------------------
(* The moves actions are made of                                             *)

\* the journal only grows, at its end
Grows ==
  /\ Len(journal') \in Nat /\ Len(journal) <= Len(journal')
  /\ \A i \in 1..Len(journal) : journal'[i] = journal[i]

\* a step of driver d leaves the drives of the others alone
OthersStay(d) ==
  \A e \in Driver \ {d} :
    /\ pc'[e] = pc[e] /\ outs'[e] = outs[e]
    /\ ordinals'[e] = ordinals[e] /\ loaded'[e] = loaded[e]

LEMMA JournalFacts ==
  ASSUME TypeOK
  PROVE  /\ Len(journal) \in Nat /\ DOMAIN journal = 1..Len(journal)
         /\ \A i \in 1..Len(journal) : journal[i] \in Event
  BY LenProperties, ElementOfSeq DEF TypeOK, StoreTypeOK

\* A commit of a well-formed event keeps the journal well formed and only grows it.
LEMMA CommitGrows ==
  ASSUME TypeInv, NEW type \in EventType, NEW id \in Identity, NEW n \in Nat,
         NEW val \in Outcome \cup {"none", "sleep", "event_timeout", "retry", "last"},
         Commit(type, id, n, val), EventOK(Entry(type, id, n, val))
  PROVE  /\ journal' \in Seq(Event) /\ EventsOK' /\ Grows
         /\ Len(journal') = Len(journal) + 1
         /\ journal'[Len(journal) + 1] = Entry(type, id, n, val)
<1>1. journal \in Seq(Event) /\ Len(journal) \in Nat
  BY JournalFacts DEF TypeInv, TypeOK, StoreTypeOK
<1>2. Entry(type, id, n, val) \in Event
  BY DEF Entry, Event
<1>3. /\ journal' \in Seq(Event) /\ Len(journal') = Len(journal) + 1
      /\ \A i \in 1..Len(journal) : journal'[i] = journal[i]
      /\ journal'[Len(journal) + 1] = Entry(type, id, n, val)
  BY <1>1, <1>2, AppendProperties DEF Commit
<1>4. Grows
  BY <1>1, <1>3 DEF Grows
<1>5. EventsOK'
  <2> SUFFICES ASSUME NEW i \in 1..Len(journal') PROVE EventOK(journal'[i])
    BY DEF EventsOK, EventOK
  <2>1. CASE i = Len(journal) + 1
    BY <2>1, <1>3
  <2>2. CASE i \in 1..Len(journal)
    BY <2>2, <1>3 DEF TypeInv, EventsOK
  <2> QED BY <1>1, <1>3, <2>1, <2>2
<1> QED BY <1>3, <1>4, <1>5

\* The same of an event whose value no reader uses.
LEMMA PlainCommitGrows ==
  ASSUME TypeInv, NEW type \in EventType, NEW id \in Identity, NEW n \in Nat,
         NEW val \in Outcome \cup {"none", "sleep", "event_timeout", "retry", "last"},
         type \notin {"TaskCompleted", "ExternalEventReceived", "TimerCreated"},
         Commit(type, id, n, val)
  PROVE  /\ journal' \in Seq(Event) /\ EventsOK' /\ Grows
         /\ Len(journal') = Len(journal) + 1
         /\ journal'[Len(journal) + 1] = Entry(type, id, n, val)
<1>1. EventOK(Entry(type, id, n, val))
  BY DEF EventOK, Entry
<1> QED BY <1>1, CommitGrows

LEMMA SameJournalGrows ==
  ASSUME TypeInv, UNCHANGED journal
  PROVE  journal' \in Seq(Event) /\ EventsOK' /\ Grows
  BY JournalFacts DEF TypeInv, TypeOK, StoreTypeOK, EventsOK, EventOK, Grows

\* A recorded fact and the end of the journal stay recorded.
LEMMA StaysRecorded ==
  ASSUME TypeOK, Grows, NEW type, NEW id
  PROVE  /\ Recorded(journal, Len(journal), type, id) =>
              Recorded(journal', Len(journal'), type, id)
         /\ journal' \in Seq(Event) /\ TerminalIndices(journal) # {} =>
              TerminalIndices(journal') # {}
<1>1. Len(journal) \in Nat /\ DOMAIN journal = 1..Len(journal)
  BY JournalFacts
<1>2. \A i \in 1..Len(journal) : i \in 1..Len(journal') /\ journal'[i] = journal[i]
  BY <1>1 DEF Grows
<1>3. Recorded(journal, Len(journal), type, id) => Recorded(journal', Len(journal'), type, id)
  BY <1>2 DEF Recorded
<1>4. ASSUME journal' \in Seq(Event), TerminalIndices(journal) # {}
      PROVE  TerminalIndices(journal') # {}
  <2>1. DOMAIN journal' = 1..Len(journal')
    BY <1>4, LenProperties
  <2> QED BY <1>1, <1>2, <1>4, <2>1 DEF TerminalIndices
<1> QED BY <1>3, <1>4

\* A driver that does not move keeps its part of the invariant.
LEMMA DriverStays ==
  ASSUME TypeInv, Grows, journal' \in Seq(Event), code' = code, NEW d \in Driver,
         pc'[d] = pc[d], outs'[d] = outs[d], ordinals'[d] = ordinals[d],
         loaded'[d] = loaded[d]
  PROVE  DriverOK(d)'
<1>1. Awaited(d)' = Awaited(d) /\ CallId(d)' = CallId(d)
  BY DEF Awaited, CallId
<1>2. DriverOK(d) /\ TypeOK
  BY DEF TypeInv, DriversOK
<1>3. loaded[d] \in Nat /\ Len(journal) \in Nat
  BY <1>2, JournalFacts DEF TypeOK, DriverTypeOK
<1>4. /\ pc[d] = "timer" => Recorded(journal', Len(journal'), "TimerCreated", CallId(d))
      /\ pc[d] = "settle" => TerminalIndices(journal') # {}
  BY <1>2, StaysRecorded DEF DriverOK
<1>5. loaded[d] <= Len(journal')
  BY <1>2, <1>3 DEF DriverOK, Grows
<1> QED BY <1>1, <1>2, <1>4, <1>5 DEF DriverOK

\* What is left to show of a step of driver d.
LEMMA DriverStep ==
  ASSUME TypeInv, NEW d \in Driver, Grows, EventsOK', OthersStay(d), code' = code,
         StoreTypeOK', EnvTypeOK', DriverTypeOK', DriverOK(d)'
  PROVE  TypeInv'
<1>1. ASSUME NEW e \in Driver \ {d} PROVE DriverOK(e)'
  BY DriverStays DEF OthersStay, StoreTypeOK
<1> QED BY <1>1 DEF TypeInv, TypeOK, DriversOK

-----------------------------------------------------------------------------
(* Where a step leaves its driver                                            *)

LEMMA GoToMoves ==
  ASSUME TypeInv, NEW d \in Driver, NEW p \in Pc, UNCHANGED frame,
         GoTo(d, p) \/ Suspend(d, p)
  PROVE  DriverTypeOK' /\ OthersStay(d) /\ pc'[d] = p
  BY DEF TypeInv, TypeOK, DriverTypeOK, GoTo, Suspend, frame, OthersStay

LEMMA ReleaseMoves ==
  ASSUME TypeInv, NEW d \in Driver, Release(d)
  PROVE  /\ DriverTypeOK' /\ OthersStay(d)
         /\ pc'[d] = "idle" /\ loaded'[d] = 0
<1>1. [m \in Name |-> 0] \in [Name -> Nat] /\ <<>> \in Seq(Identity) /\ <<>> \in Histories
  BY EmptySeq, EmptyHistory
<1> QED
  BY <1>1 DEF TypeInv, TypeOK, DriverTypeOK, Release, Suspend, OthersStay, Pc

LEMMA ObserveMoves ==
  ASSUME TypeInv, NEW d \in Driver, NEW o \in Outcome, Observe(d, o),
         Awaited(d).kind \in {"task", "sleep", "wait"}
  PROVE  /\ DriverTypeOK' /\ OthersStay(d)
         /\ pc'[d] = "replay" /\ loaded' = loaded
<1> DEFINE m == Awaited(d).name
<1>1. DriverTypeOK /\ TypeOK
  BY DEF TypeInv, TypeOK
<1>2. CallId(d) \in Identity /\ Len(outs[d]) < MaxCalls /\ m \in Name
  BY <1>1, AwaitedFacts
<1>3. Append(outs[d], o) \in Histories /\ Append(calls[d], CallId(d)) \in Seq(Identity)
  BY <1>1, <1>2, LongerHistory, AppendProperties DEF DriverTypeOK
<1>4. outs' \in [Driver -> Histories] /\ calls' \in [Driver -> Seq(Identity)]
  BY <1>1, <1>3 DEF DriverTypeOK, Observe
<1>5. ordinals' \in [Driver -> [Name -> Nat]]
  <2>1. ordinals' = [ordinals EXCEPT ![d][m] = @ + 1]
    BY DEF Observe
  <2> HIDE DEF m
  <2> QED BY <1>1, <1>2, <2>1 DEF DriverTypeOK
<1>6. /\ pc' \in [Driver -> Pc] /\ turn' \in Driver \cup {Free}
      /\ UNCHANGED <<loaded, attempt, failures>>
  BY <1>1 DEF DriverTypeOK, Observe, GoTo, Pc
<1>7. DriverTypeOK'
  BY <1>1, <1>4, <1>5, <1>6 DEF DriverTypeOK
<1>8. OthersStay(d) /\ pc'[d] = "replay" /\ loaded' = loaded
  BY <1>1 DEF OthersStay, DriverTypeOK, Observe, GoTo
<1> QED BY <1>7, <1>8

\* While its frames stay, a driver awaits the same call.
LEMMA SameCall ==
  ASSUME NEW d, UNCHANGED <<code, outs, ordinals>>
  PROVE  Awaited(d)' = Awaited(d) /\ CallId(d)' = CallId(d)
  BY DEF Awaited, CallId

\* A driver that is idle, at a drive's start or at a replay has only loaded to show.
LEMMA DriverAtRest ==
  ASSUME TypeInv, NEW d \in Driver, Grows, loaded'[d] \in {0, loaded[d]},
         pc'[d] \in {"idle", "create", "drive", "replay"}
  PROVE  DriverOK(d)'
<1>1. loaded[d] \in Nat /\ Len(journal) \in Nat /\ Len(journal') \in Nat
  BY JournalFacts DEF TypeInv, TypeOK, DriverTypeOK, Grows
<1>2. loaded'[d] <= Len(journal')
  BY <1>1 DEF TypeInv, DriversOK, DriverOK, Grows
<1> QED BY <1>2 DEF DriverOK, Executing

-----------------------------------------------------------------------------
(* Every step keeps TypeInv                                                  *)

LEMMA ControlKeeps ==
  ASSUME TypeInv, NEW d \in Driver, Control(d)
  PROVE  TypeInv'
<1> USE DEF env
<1>0. /\ TypeOK /\ StoreTypeOK /\ EnvTypeOK /\ DriverTypeOK /\ NoId \in Identity
      /\ DriverOK(d)
  BY DEF TypeInv, TypeOK, DriversOK, NoId, Identity
<1>e. code' = code /\ EnvTypeOK'
  BY <1>0 DEF Control, StartRun, RecordCreated, ResumeRun, WakeRun, CancelRun,
              SettleStatus, Redrive, EnvTypeOK
<1>1. CASE StartRun(d)
  <2>1. /\ StoreTypeOK' /\ journal' \in Seq(Event) /\ EventsOK' /\ Grows
    BY <1>0, <1>1, SameJournalGrows DEF StartRun, StoreTypeOK, EnvTypeOK
  <2>2. DriverTypeOK' /\ OthersStay(d) /\ pc'[d] = "create" /\ loaded' = loaded
    BY <1>1, GoToMoves DEF StartRun, Pc, frame
  <2> QED BY <1>e, <2>1, <2>2, DriverAtRest, DriverStep
<1>2. CASE RecordCreated(d)
  <2>1. journal' \in Seq(Event) /\ EventsOK' /\ Grows
    BY <1>0, <1>2, PlainCommitGrows DEF RecordCreated, EventType
  <2>2. DriverTypeOK' /\ OthersStay(d) /\ pc'[d] = "drive" /\ loaded' = loaded
    BY <1>2, GoToMoves DEF RecordCreated, Pc, frame
  <2>3. StoreTypeOK'
    BY <1>0, <1>2, <2>1 DEF RecordCreated, StoreTypeOK
  <2> QED BY <1>e, <2>1, <2>2, <2>3, DriverAtRest, DriverStep
<1>3. CASE ResumeRun(d)
  <2>1. journal' \in Seq(Event) /\ EventsOK' /\ Grows
    BY <1>0, <1>3, PlainCommitGrows DEF ResumeRun, EventType
  <2>2. DriverTypeOK' /\ OthersStay(d) /\ pc'[d] = "drive" /\ loaded' = loaded
    BY <1>3, GoToMoves DEF ResumeRun, Pc, frame
  <2>3. StoreTypeOK'
    BY <1>0, <1>3, <2>1 DEF ResumeRun, StoreTypeOK
  <2> QED BY <1>e, <2>1, <2>2, <2>3, DriverAtRest, DriverStep
<1>4. CASE WakeRun(d) \/ Redrive(d)
  <2>1. StoreTypeOK' /\ journal' \in Seq(Event) /\ EventsOK' /\ Grows
    BY <1>0, <1>4, SameJournalGrows DEF WakeRun, Redrive, store, StoreTypeOK
  <2>2. DriverTypeOK' /\ OthersStay(d) /\ pc'[d] = "drive" /\ loaded' = loaded
    BY <1>4, GoToMoves DEF WakeRun, Redrive, Pc, frame
  <2> QED BY <1>e, <2>1, <2>2, DriverAtRest, DriverStep
<1>5. CASE CancelRun(d)
  <2>1. /\ journal' \in Seq(Event) /\ EventsOK' /\ Grows
        /\ Len(journal') = Len(journal) + 1
        /\ journal'[Len(journal) + 1] = Entry("WorkflowCancelled", NoId, 0, "none")
    BY <1>0, <1>5, PlainCommitGrows DEF CancelRun, EventType
  <2>2. DriverTypeOK' /\ OthersStay(d) /\ pc'[d] = "settle" /\ loaded' = loaded
    BY <1>5, GoToMoves DEF CancelRun, Pc, frame
  <2>3. StoreTypeOK'
    BY <1>0, <1>5, <2>1 DEF CancelRun, StoreTypeOK
  <2>4. TerminalIndices(journal') # {}
    BY <2>1, <1>0, JournalFacts, LenProperties DEF TerminalIndices, TerminalType, Entry
  <2>5. loaded'[d] <= Len(journal')
    BY <1>0, <2>1, <2>2, JournalFacts DEF DriverOK, DriverTypeOK
  <2>6. DriverOK(d)'
    BY <2>2, <2>4, <2>5 DEF DriverOK, Executing
  <2> QED BY <1>e, <2>1, <2>2, <2>3, <2>6, DriverStep
<1>6. CASE SettleStatus(d)
  <2>1. journal' \in Seq(Event) /\ EventsOK' /\ Grows
    BY <1>0, <1>6, SameJournalGrows DEF SettleStatus
  <2>2. RecordedTerminalStatus(journal) \in TerminalStatus
    BY <1>0, <1>6, JournalFacts, LastTerminal DEF SettleStatus, At, DriverOK
  <2>3. StoreTypeOK'
    BY <1>0, <1>6, <2>2 DEF SettleStatus, StoreTypeOK
  <2>4. DriverTypeOK' /\ OthersStay(d) /\ pc'[d] = "idle" /\ loaded'[d] = 0
    BY <1>6, ReleaseMoves DEF SettleStatus
  <2> QED BY <1>e, <2>1, <2>3, <2>4, DriverAtRest, DriverStep
<1> QED
  BY <1>1, <1>2, <1>3, <1>4, <1>5, <1>6 DEF Control

LEMMA DriveKeeps ==
  ASSUME TypeInv, NEW d \in Driver, Drive(d) \/ RefuseReplay(d) \/ Park(d)
  PROVE  TypeInv'
<1> USE DEF env
<1>0. /\ TypeOK /\ StoreTypeOK /\ EnvTypeOK /\ DriverTypeOK /\ NoId \in Identity
      /\ DriverOK(d)
  BY DEF TypeInv, TypeOK, DriversOK, NoId, Identity
<1>e. code' = code /\ EnvTypeOK'
  BY <1>0 DEF Drive, DriveTerminal, DriveLoad, Return, Raise, RefuseReplay, Park, EnvTypeOK
<1>1. CASE DriveTerminal(d)
  <2>1. journal' \in Seq(Event) /\ EventsOK' /\ Grows
    BY <1>0, <1>1, SameJournalGrows DEF DriveTerminal
  <2>2. RecordedTerminalStatus(journal) \in TerminalStatus
    BY <1>0, <1>1, JournalFacts, LastTerminal DEF DriveTerminal
  <2>3. StoreTypeOK'
    BY <1>0, <1>1, <2>2 DEF DriveTerminal, StoreTypeOK
  <2>4. DriverTypeOK' /\ OthersStay(d) /\ pc'[d] = "idle" /\ loaded'[d] = 0
    BY <1>1, ReleaseMoves DEF DriveTerminal
  <2> QED BY <1>e, <2>1, <2>3, <2>4, DriverAtRest, DriverStep
<1>2. CASE DriveLoad(d)
  <2>1. StoreTypeOK' /\ journal' \in Seq(Event) /\ EventsOK' /\ Grows
    BY <1>0, <1>2, SameJournalGrows DEF DriveLoad, store, StoreTypeOK
  <2>2. Len(journal) \in Nat /\ journal' = journal
    BY <1>0, <1>2, JournalFacts DEF DriveLoad, store
  <2>3. DriverTypeOK' /\ OthersStay(d) /\ pc'[d] = "replay" /\ loaded'[d] = Len(journal)
    BY <1>0, <1>2, <2>2 DEF DriveLoad, DriverTypeOK, OthersStay, GoTo, Pc
  <2>4. DriverOK(d)'
    BY <2>2, <2>3 DEF DriverOK, Executing
  <2> QED BY <1>e, <2>1, <2>3, <2>4, DriverStep
<1>3. CASE Return(d) \/ Raise(d)
  <2>1. PICK type \in {"WorkflowCompleted", "WorkflowFailed"} : Commit(type, NoId, 0, "none")
    BY <1>3 DEF Return, Raise
  <2>2. /\ journal' \in Seq(Event) /\ EventsOK' /\ Grows
        /\ Len(journal') = Len(journal) + 1
        /\ journal'[Len(journal) + 1] = Entry(type, NoId, 0, "none")
    BY <1>0, <2>1, PlainCommitGrows DEF EventType
  <2>3. DriverTypeOK' /\ OthersStay(d) /\ pc'[d] = "settle" /\ loaded' = loaded
    BY <1>3, GoToMoves DEF Return, Raise, Pc, frame
  <2>4. StoreTypeOK'
    BY <1>0, <1>3, <2>2 DEF Return, Raise, StoreTypeOK
  <2>5. TerminalIndices(journal') # {}
    BY <2>2, <1>0, JournalFacts, LenProperties DEF TerminalIndices, TerminalType, Entry
  <2>6. loaded'[d] <= Len(journal')
    BY <1>0, <2>2, <2>3, JournalFacts DEF DriverOK, DriverTypeOK
  <2>7. DriverOK(d)'
    BY <2>3, <2>5, <2>6 DEF DriverOK, Executing
  <2> QED BY <1>e, <2>2, <2>3, <2>4, <2>7, DriverStep
<1>4. CASE RefuseReplay(d) \/ Park(d)
  <2>1. journal' \in Seq(Event) /\ EventsOK' /\ Grows
    BY <1>0, <1>4, SameJournalGrows DEF RefuseReplay, Park, store
  <2>2. StoreTypeOK'
    BY <1>0, <1>4 DEF RefuseReplay, Park, store, StoreTypeOK
  <2>3. DriverTypeOK' /\ OthersStay(d) /\ pc'[d] = "idle" /\ loaded'[d] = 0
    BY <1>4, ReleaseMoves DEF RefuseReplay, Park
  <2> QED BY <1>e, <2>1, <2>2, <2>3, DriverAtRest, DriverStep
<1> QED
  BY <1>1, <1>2, <1>3, <1>4 DEF Drive

\* What a replay finds recorded of a call is an event of the journal.
LEMMA HitIsEvent ==
  ASSUME TypeInv, NEW d \in Driver, NEW type, Hit(d, type)
  PROVE  /\ HitEvent(d, type) \in Event /\ EventOK(HitEvent(d, type))
         /\ HitEvent(d, type).type = type
<1>1. /\ loaded[d] \in Nat /\ loaded[d] <= Len(journal) /\ Len(journal) \in Nat
      /\ \A i \in 1..Len(journal) : journal[i] \in Event
  BY JournalFacts DEF TypeInv, TypeOK, DriverTypeOK, DriversOK, DriverOK
<1>2. /\ LatestIndex(journal, loaded[d], type, CallId(d)) \in 1..loaded[d]
      /\ HitEvent(d, type).type = type
  BY <1>1, LatestIsRecorded DEF Hit, HitEvent
<1> QED BY <1>1, <1>2 DEF HitEvent, TypeInv, EventsOK

LEMMA ReuseResultKeeps ==
  ASSUME TypeInv, NEW d \in Driver,
         ReuseResult(d) \/ SleepOver(d) \/ ReuseEvent(d) \/ ReuseTimeout(d)
  PROVE  TypeInv'
<1>1. journal' \in Seq(Event) /\ EventsOK' /\ Grows
  BY SameJournalGrows DEF ReuseResult, SleepOver, ReuseEvent, ReuseTimeout, store
<1>2. StoreTypeOK' /\ EnvTypeOK' /\ code' = code
  BY DEF TypeInv, TypeOK, StoreTypeOK, EnvTypeOK, ReuseResult, SleepOver, ReuseEvent,
         ReuseTimeout, store, env
<1>3. /\ Awaited(d).kind \in {"task", "sleep", "wait"}
      /\ \E o \in Outcome : Observe(d, o)
  <2>1. CASE ReuseResult(d)
    BY <2>1, HitIsEvent DEF ReuseResult, CallAllowed, Awaits, EventOK, Outcome
  <2>2. CASE SleepOver(d)
    BY <2>2 DEF SleepOver, Awaits, Outcome
  <2>3. CASE ReuseEvent(d)
    BY <2>3, HitIsEvent DEF ReuseEvent, Awaits, EventOK, Outcome
  <2>4. CASE ReuseTimeout(d)
    BY <2>4 DEF ReuseTimeout, Awaits, Outcome
  <2> QED BY <2>1, <2>2, <2>3, <2>4
<1>4. DriverTypeOK' /\ OthersStay(d) /\ pc'[d] = "replay" /\ loaded' = loaded
  BY <1>3, ObserveMoves
<1> QED BY <1>1, <1>2, <1>4, DriverAtRest, DriverStep

LEMMA ScheduleKeeps ==
  ASSUME TypeInv, NEW d \in Driver, Schedule(d)
  PROVE  TypeInv'
<1>0. TypeOK /\ DriverTypeOK /\ DriverOK(d) /\ Awaited(d).kind = "task"
  BY DEF TypeInv, TypeOK, DriversOK, Schedule, CallAllowed, Awaits
<1>1. CallId(d) \in Identity
  BY <1>0, AwaitedFacts
<1>2. journal' \in Seq(Event) /\ EventsOK' /\ Grows
  BY <1>1, SameJournalGrows, PlainCommitGrows DEF Schedule, EventType
<1>3. StoreTypeOK' /\ EnvTypeOK' /\ code' = code
  BY <1>2 DEF TypeInv, TypeOK, StoreTypeOK, EnvTypeOK, Schedule, env
<1>4. /\ MaxAttempt(journal, loaded[d], CallId(d)) \in Nat
      /\ Failures(journal, loaded[d], CallId(d)) \in Nat
  <2>1. loaded[d] \in Nat /\ \A i \in 1..loaded[d] : journal[i].n \in Nat
    BY <1>0, JournalFacts DEF DriverTypeOK, DriverOK, Event
  <2> QED BY <2>1, MaxAttemptFacts, FailuresAreCounted
<1>5. attempt' \in [Driver -> Nat] /\ failures' \in [Driver -> Nat]
  <2> DEFINE a == MaxAttempt(journal, loaded[d], CallId(d))
             f == Failures(journal, loaded[d], CallId(d))
  <2>1. attempt' = [attempt EXCEPT ![d] = a + 1] /\ failures' = [failures EXCEPT ![d] = f]
    BY DEF Schedule
  <2> HIDE DEF a, f
  <2>2. a \in Nat /\ f \in Nat
    BY <1>4 DEF a, f
  <2> QED BY <1>0, <2>1, <2>2 DEF DriverTypeOK
<1>6. /\ DriverTypeOK' /\ OthersStay(d) /\ pc'[d] = "attempt"
      /\ UNCHANGED <<loaded, outs, ordinals>>
  BY <1>0, <1>5 DEF Schedule, GoTo, DriverTypeOK, OthersStay, Pc
<1>7. DriverOK(d)'
  <2>1. Awaited(d)' = Awaited(d) /\ loaded'[d] <= Len(journal')
    BY <1>0, <1>3, <1>6, <1>2, SameCall, JournalFacts DEF DriverOK, Grows, DriverTypeOK
  <2> QED BY <1>0, <1>6, <2>1 DEF DriverOK, Executing
<1> QED BY <1>2, <1>3, <1>6, <1>7, DriverStep

LEMMA CallTaskKeeps ==
  ASSUME TypeInv, NEW d \in Driver,
         StartAttempt(d) \/ RunBody(d) \/ Complete(d) \/ FailAttempt(d) \/ Backoff(d)
  PROVE  TypeInv'
<1>0. TypeOK /\ DriverTypeOK /\ DriverOK(d) /\ Awaited(d).kind = "task"
  BY DEF TypeInv, TypeOK, DriversOK, DriverOK, Executing, At,
         StartAttempt, RunBody, Complete, FailAttempt, Backoff
<1>1. CallId(d) \in Identity /\ attempt[d] \in Nat
  BY <1>0, AwaitedFacts DEF DriverTypeOK
<1>2. ASSUME Grows, EventsOK', StoreTypeOK', EnvTypeOK', code' = code, DriverTypeOK',
             OthersStay(d), pc'[d] \in Executing, UNCHANGED <<loaded, outs, ordinals>>
      PROVE  TypeInv'
  <2>1. Awaited(d)' = Awaited(d) /\ loaded'[d] <= Len(journal')
    BY <1>0, <1>2, SameCall, JournalFacts DEF DriverOK, Grows, DriverTypeOK
  <2>2. DriverOK(d)'
    BY <1>0, <1>2, <2>1 DEF DriverOK, Executing
  <2> QED BY <1>2, <2>2, DriverStep
<1>3. CASE StartAttempt(d)
  <2>1. journal' \in Seq(Event) /\ EventsOK' /\ Grows
    BY <1>1, <1>3, PlainCommitGrows DEF StartAttempt, EventType
  <2>2. StoreTypeOK' /\ EnvTypeOK' /\ code' = code
    BY <1>3, <2>1 DEF TypeInv, TypeOK, StoreTypeOK, EnvTypeOK, StartAttempt, env
  <2>3. DriverTypeOK' /\ OthersStay(d) /\ pc'[d] \in Executing
    BY <1>3, GoToMoves DEF StartAttempt, Pc, Executing
  <2> QED BY <1>2, <1>3, <2>1, <2>2, <2>3 DEF StartAttempt, frame
<1>4. CASE RunBody(d)
  <2>1. journal' \in Seq(Event) /\ EventsOK' /\ Grows
    BY <1>4, SameJournalGrows DEF RunBody, store
  <2>2. executed' \in Seq(Identity)
    BY <1>0, <1>1, <1>4, AppendProperties DEF RunBody, TypeOK, EnvTypeOK
  <2>3. StoreTypeOK' /\ EnvTypeOK' /\ code' = code
    BY <1>4, <2>1, <2>2 DEF TypeInv, TypeOK, StoreTypeOK, EnvTypeOK, RunBody, store
  <2>4. DriverTypeOK' /\ OthersStay(d) /\ pc'[d] \in Executing
    BY <1>4, GoToMoves DEF RunBody, Pc, Executing
  <2> QED BY <1>2, <1>4, <2>1, <2>3, <2>4 DEF RunBody, frame
<1>5. CASE Complete(d)
  <2>1. PICK v \in Value : Commit("TaskCompleted", CallId(d), 0, v) /\ Observe(d, v)
    BY <1>5 DEF Complete
  <2>2. v \in Outcome /\ EventOK(Entry("TaskCompleted", CallId(d), 0, v))
    BY DEF Outcome, EventOK, Entry
  <2>3. journal' \in Seq(Event) /\ EventsOK' /\ Grows
    BY <1>1, <2>1, <2>2, CommitGrows DEF EventType
  <2>4. StoreTypeOK' /\ EnvTypeOK' /\ code' = code
    BY <1>5, <2>3 DEF TypeInv, TypeOK, StoreTypeOK, EnvTypeOK, Complete, env
  <2>5. DriverTypeOK' /\ OthersStay(d) /\ pc'[d] = "replay" /\ loaded' = loaded
    BY <1>0, <2>1, <2>2, ObserveMoves
  <2> QED BY <2>3, <2>4, <2>5, DriverAtRest, DriverStep
<1>6. CASE FailAttempt(d)
  <2>1. journal' \in Seq(Event) /\ EventsOK' /\ Grows
    BY <1>1, <1>6, PlainCommitGrows DEF FailAttempt, EventType
  <2>2. StoreTypeOK' /\ EnvTypeOK' /\ code' = code
    BY <1>6, <2>1 DEF TypeInv, TypeOK, StoreTypeOK, EnvTypeOK, FailAttempt, env
  <2>3. CASE RetriesLeft(d)
    <3>1. /\ failures' = [failures EXCEPT ![d] = @ + 1]
          /\ pc' = [pc EXCEPT ![d] = "backoff"] /\ turn' = Free
          /\ UNCHANGED <<loaded, outs, calls, ordinals, attempt>>
      BY <1>6, <2>3 DEF FailAttempt, Suspend
    <3>2. failures' \in [Driver -> Nat] /\ pc' \in [Driver -> Pc] /\ pc'[d] \in Executing
      BY <1>0, <3>1 DEF DriverTypeOK, Pc, Executing
    <3>3. DriverTypeOK' /\ OthersStay(d)
      BY <1>0, <3>1, <3>2 DEF DriverTypeOK, OthersStay
    <3> QED BY <1>2, <2>1, <2>2, <3>1, <3>2, <3>3
  <2>4. CASE ~RetriesLeft(d)
    <3>1. DriverTypeOK' /\ OthersStay(d) /\ pc'[d] = "replay" /\ loaded' = loaded
      BY <1>0, <1>6, <2>4, ObserveMoves DEF FailAttempt, Outcome
    <3> QED BY <2>1, <2>2, <3>1, DriverAtRest, DriverStep
  <2> QED BY <2>3, <2>4
<1>7. CASE Backoff(d)
  <2>1. journal' \in Seq(Event) /\ EventsOK' /\ Grows
    BY <1>7, SameJournalGrows DEF Backoff, store
  <2>2. StoreTypeOK' /\ EnvTypeOK' /\ code' = code
    BY <1>7, <2>1 DEF TypeInv, TypeOK, StoreTypeOK, EnvTypeOK, Backoff, store, env
  <2>3. DriverTypeOK' /\ OthersStay(d) /\ pc'[d] \in Executing
    BY <1>0, <1>7 DEF Backoff, GoTo, DriverTypeOK, OthersStay, Pc, Executing
  <2> QED BY <1>2, <1>7, <2>1, <2>2, <2>3 DEF Backoff
<1> QED BY <1>3, <1>4, <1>5, <1>6, <1>7

\* The event of the timer a drive parks by is on disk when its row is looked for.
LEMMA KnownTimerFacts ==
  ASSUME TypeInv, NEW d \in Driver, pc[d] = "timer"
  PROVE  /\ KnownTimer(d) \in 1..Len(journal)
         /\ journal[KnownTimer(d)].type = "TimerCreated"
         /\ journal[KnownTimer(d)].id = CallId(d)
<1>1. /\ Len(journal) \in Nat /\ loaded[d] \in Nat /\ loaded[d] <= Len(journal)
      /\ Recorded(journal, Len(journal), "TimerCreated", CallId(d))
  BY JournalFacts DEF TypeInv, TypeOK, DriverTypeOK, DriversOK, DriverOK
<1> DEFINE n == IF Hit(d, "TimerCreated") THEN loaded[d] ELSE Len(journal)
<1>2. n \in Nat /\ n <= Len(journal) /\ Recorded(journal, n, "TimerCreated", CallId(d))
  BY <1>1 DEF Hit
<1>3. KnownTimer(d) = LatestIndex(journal, n, "TimerCreated", CallId(d))
  BY DEF KnownTimer
<1> HIDE DEF n
<1>4. /\ KnownTimer(d) \in 1..n /\ journal[KnownTimer(d)].type = "TimerCreated"
      /\ journal[KnownTimer(d)].id = CallId(d)
  BY <1>2, <1>3, LatestIsRecorded
<1> QED BY <1>1, <1>2, <1>4

LEMMA TimerRowTyped ==
  ASSUME TypeInv, NEW d \in Driver, pc[d] = "timer"
  PROVE  RowOf(d) \in TimerRow
<1>1. /\ Len(journal) \in Nat /\ KnownTimer(d) \in 1..Len(journal)
      /\ journal[KnownTimer(d)].type = "TimerCreated"
  BY JournalFacts, KnownTimerFacts DEF TypeInv
<1>2. journal[KnownTimer(d)] \in Event /\ EventOK(journal[KnownTimer(d)])
  BY <1>1, JournalFacts DEF TypeInv, EventsOK
<1>3. journal[KnownTimer(d)].val \in {"sleep", "event_timeout"}
  BY <1>1, <1>2 DEF EventOK
<1> QED BY <1>1, <1>2, <1>3 DEF RowOf, TimerRow, Event

LEMMA PrimitiveKeeps ==
  ASSUME TypeInv, NEW d \in Driver,
         \/ ConsumeEvent(d) \/ RecordEvent(d) \/ CreateTimer(d)
         \/ EnsureTimerRow(d) \/ StartWait(d) \/ RecordWaiting(d)
  PROVE  TypeInv'
<1>0. /\ TypeOK /\ StoreTypeOK /\ EnvTypeOK /\ DriverTypeOK /\ DriverOK(d)
      /\ Awaited(d).kind \in {"sleep", "wait"}
  BY DEF TypeInv, TypeOK, DriversOK, DriverOK, At, Awaits, Parks, WaitMisses,
         ConsumeEvent, RecordEvent, CreateTimer, EnsureTimerRow, StartWait, RecordWaiting
<1>1. /\ CallId(d) \in Identity /\ Awaited(d) \in Step
      /\ Awaited(d).kind = "wait" => Awaited(d).name \in Topic
  BY <1>0, AwaitedFacts
<1>2. EnvTypeOK' /\ code' = code
  BY <1>0 DEF EnvTypeOK, env, ConsumeEvent, RecordEvent, CreateTimer, EnsureTimerRow,
              StartWait, RecordWaiting
<1>3. ASSUME Grows, EventsOK', StoreTypeOK', NEW p \in Pc, GoTo(d, p), UNCHANGED frame,
             \/ p \in {"waiting", "park"}
             \/ p \in {"await", "receive"} /\ Awaited(d).kind = "wait"
             \/ p = "timer" /\ Recorded(journal', Len(journal'), "TimerCreated", CallId(d))
      PROVE  TypeInv'
  <2>1. DriverTypeOK' /\ OthersStay(d) /\ pc'[d] = p
    BY <1>3, GoToMoves
  <2>2. /\ Awaited(d)' = Awaited(d) /\ CallId(d)' = CallId(d)
        /\ loaded'[d] <= Len(journal')
    BY <1>0, <1>2, <1>3, SameCall, JournalFacts DEF DriverOK, Grows, DriverTypeOK, frame
  <2>3. DriverOK(d)'
    BY <1>0, <1>3, <2>1, <2>2 DEF DriverOK, Executing
  <2> QED BY <1>2, <1>3, <2>1, <2>3, DriverStep
<1>4. CASE ConsumeEvent(d)
  <2>1. journal' \in Seq(Event) /\ EventsOK' /\ Grows
    BY <1>4, SameJournalGrows DEF ConsumeEvent
  <2>2. inbox' \in Seq(InboxRow)
    <3>1. inbox' = [inbox EXCEPT ![Match(d)].consumed = TRUE]
      BY <1>4 DEF ConsumeEvent
    <3>2. PICK n \in Nat : inbox \in [1..n -> InboxRow]
      BY <1>0, LenProperties DEF StoreTypeOK
    <3>3. inbox' \in [1..n -> InboxRow]
      BY <3>1, <3>2 DEF InboxRow
    <3> QED BY <3>3, SeqDef
  <2>3. StoreTypeOK' /\ GoTo(d, "receive") /\ UNCHANGED frame /\ Awaited(d).kind = "wait"
    BY <1>0, <1>4, <2>1, <2>2 DEF StoreTypeOK, ConsumeEvent, WaitMisses, Awaits
  <2> QED BY <1>3, <2>1, <2>3 DEF Pc
<1>5. CASE RecordEvent(d)
  <2>1. Awaited(d).name \in Topic
    BY <1>0, <1>1, <1>5 DEF RecordEvent, At, DriverOK
  <2>2. EventOK(Entry("ExternalEventReceived", CallId(d), 0, Awaited(d).name))
    BY <2>1 DEF EventOK, Entry
  <2>3. journal' \in Seq(Event) /\ EventsOK' /\ Grows
    BY <1>1, <1>5, <2>1, <2>2, CommitGrows DEF RecordEvent, EventType, Outcome
  <2>4. StoreTypeOK'
    BY <1>0, <1>5, <2>3 DEF StoreTypeOK, RecordEvent
  <2>5. DriverTypeOK' /\ OthersStay(d) /\ pc'[d] = "replay" /\ loaded' = loaded
    BY <1>0, <1>5, <2>1, ObserveMoves DEF RecordEvent, Outcome
  <2> QED BY <1>2, <2>3, <2>4, <2>5, DriverAtRest, DriverStep
<1>6. CASE CreateTimer(d)
  <2> DEFINE val == IF Awaited(d).kind = "sleep" THEN "sleep" ELSE "event_timeout"
             fire_at == now + Awaited(d).after
             e == Entry("TimerCreated", CallId(d), fire_at, val)
  <2>1. fire_at \in Nat /\ val \in {"sleep", "event_timeout"} /\ EventOK(e)
    BY <1>0, <1>1 DEF EnvTypeOK, Step, EventOK, Entry
  <2>2. CASE Hit(d, "TimerCreated")
    <3>1. journal' = journal
      BY <1>6, <2>2 DEF CreateTimer
    <3>2. journal' \in Seq(Event) /\ EventsOK' /\ Grows
      BY <3>1, SameJournalGrows
    <3>3. Recorded(journal', Len(journal'), "TimerCreated", CallId(d))
      BY <1>0, <2>2, <3>1, JournalFacts DEF Hit, Recorded, DriverOK, DriverTypeOK
    <3>4. StoreTypeOK' /\ GoTo(d, "timer") /\ UNCHANGED frame
      BY <1>0, <1>6, <3>1 DEF StoreTypeOK, CreateTimer
    <3> QED BY <1>3, <3>2, <3>3, <3>4 DEF Pc
  <2>3. CASE ~Hit(d, "TimerCreated")
    <3>1. Commit("TimerCreated", CallId(d), fire_at, val)
      BY <1>6, <2>3 DEF CreateTimer
    <3>2. /\ journal' \in Seq(Event) /\ EventsOK' /\ Grows
          /\ Len(journal') = Len(journal) + 1
          /\ journal'[Len(journal) + 1] = e
      <4> HIDE DEF fire_at, val
      <4> QED BY <1>1, <2>1, <3>1, CommitGrows DEF EventType
    <3>3. Recorded(journal', Len(journal'), "TimerCreated", CallId(d))
      BY <1>0, <3>2, JournalFacts DEF Recorded, Entry
    <3>4. StoreTypeOK' /\ GoTo(d, "timer") /\ UNCHANGED frame
      BY <1>0, <1>6, <3>2 DEF StoreTypeOK, CreateTimer
    <3> QED BY <1>3, <3>2, <3>3, <3>4 DEF Pc
  <2> QED BY <2>2, <2>3
<1>7. CASE EnsureTimerRow(d)
  <2>1. journal' \in Seq(Event) /\ EventsOK' /\ Grows
    BY <1>7, SameJournalGrows DEF EnsureTimerRow
  <2>2. timers' \subseteq TimerRow
    BY <1>0, <1>7, TimerRowTyped DEF EnsureTimerRow, At, StoreTypeOK
  <2>3. StoreTypeOK' /\ UNCHANGED frame
    BY <1>0, <1>7, <2>1, <2>2 DEF StoreTypeOK, EnsureTimerRow
  <2>4. \/ GoTo(d, "waiting")
        \/ GoTo(d, "await") /\ Awaited(d).kind = "wait"
    BY <1>0, <1>7 DEF EnsureTimerRow
  <2> QED BY <1>3, <2>1, <2>3, <2>4 DEF Pc
<1>8. CASE StartWait(d)
  <2>1. Awaited(d).kind = "wait"
    BY <1>0, <1>8 DEF StartWait, At, DriverOK
  <2>2. journal' \in Seq(Event) /\ EventsOK' /\ Grows
    BY <1>1, <1>8, <2>1, SameJournalGrows, PlainCommitGrows DEF StartWait, EventType, Outcome
  <2>3. StoreTypeOK' /\ GoTo(d, "waiting") /\ UNCHANGED frame
    BY <1>0, <1>8, <2>2 DEF StoreTypeOK, StartWait
  <2> QED BY <1>3, <2>2, <2>3 DEF Pc
<1>9. CASE RecordWaiting(d)
  <2>1. journal' \in Seq(Event) /\ EventsOK' /\ Grows
    BY <1>1, <1>9, SameJournalGrows, PlainCommitGrows DEF RecordWaiting, EventType
  <2>2. StoreTypeOK' /\ GoTo(d, "park") /\ UNCHANGED frame
    BY <1>0, <1>9, <2>1 DEF StoreTypeOK, RecordWaiting
  <2> QED BY <1>3, <2>1, <2>2 DEF Pc
<1> QED BY <1>4, <1>5, <1>6, <1>7, <1>8, <1>9

LEMMA EnvironmentKeeps ==
  ASSUME TypeInv, (\E t \in Topic : SendEvent(t)) \/ PassTime \/ Crash
  PROVE  TypeInv'
<1>0. TypeOK /\ StoreTypeOK /\ EnvTypeOK /\ DriverTypeOK /\ DriversOK
  BY DEF TypeInv, TypeOK
<1>1. journal' \in Seq(Event) /\ EventsOK' /\ Grows /\ journal' = journal
  BY SameJournalGrows DEF SendEvent, PassTime, Crash, store
<1>2. CASE \E t \in Topic : SendEvent(t)
  <2>1. PICK t \in Topic : SendEvent(t)
    BY <1>2
  <2>2. [topic |-> t, consumed |-> FALSE] \in InboxRow
    BY DEF InboxRow
  <2>3. inbox' \in Seq(InboxRow)
    BY <1>0, <2>1, <2>2, AppendProperties DEF SendEvent, Buffered, StoreTypeOK
  <2>4. StoreTypeOK' /\ EnvTypeOK' /\ DriverTypeOK'
    BY <1>0, <1>1, <2>1, <2>3 DEF SendEvent, StoreTypeOK, EnvTypeOK, DriverTypeOK, env, frame
  <2>5. DriversOK'
    BY <1>1, <2>1, DriverStays DEF SendEvent, env, frame, DriversOK
  <2> QED BY <1>1, <2>4, <2>5 DEF TypeInv, TypeOK
<1>3. CASE PassTime
  <2>1. StoreTypeOK' /\ EnvTypeOK' /\ DriverTypeOK'
    BY <1>0, <1>3 DEF PassTime, StoreTypeOK, EnvTypeOK, DriverTypeOK, store, frame
  <2>2. DriversOK'
    BY <1>1, <1>3, DriverStays DEF PassTime, frame, DriversOK
  <2> QED BY <1>1, <2>1, <2>2 DEF TypeInv, TypeOK
<1>4. CASE Crash
  <2>1. StoreTypeOK' /\ EnvTypeOK'
    BY <1>0, <1>4 DEF Crash, StoreTypeOK, EnvTypeOK, store
  <2>2. DriverTypeOK'
    <3>1. [m \in Name |-> 0] \in [Name -> Nat] /\ <<>> \in Seq(Identity) /\ <<>> \in Histories
      BY EmptySeq, EmptyHistory
    <3> QED BY <1>4, <3>1 DEF Crash, DriverTypeOK, Pc
  <2>3. DriversOK'
    BY <1>4, <1>1, JournalFacts, <1>0 DEF Crash, DriversOK, DriverOK, Executing
  <2> QED BY <1>1, <2>1, <2>2, <2>3 DEF TypeInv, TypeOK
<1> QED BY <1>2, <1>3, <1>4

\* What the poll loop does to a timer, whoever holds the event loop: its event is
\* appended, or its row is settled.
Fires(row) ==
  /\ Commit("TimerFired", row.id, row.fire_at, row.kind)
  /\ UNCHANGED <<status, stamp, timers, inbox, env, pc, turn, frame>>

Settles(row) ==
  /\ \E s \in {"fired", "discarded"} : SetTimerStatus(row, s)
  /\ UNCHANGED <<journal, status, stamp, inbox, env, pc, turn, frame>>

LEMMA PollLoop ==
  ASSUME NEW row, FireTimer(row) \/ SettleTimer(row)
  PROVE  Fires(row) \/ Settles(row)
  BY DEF FireTimer, SettleTimer, Fires, Settles

LEMMA PollLoopKeeps ==
  ASSUME TypeInv, NEW row \in timers, Fires(row) \/ Settles(row)
  PROVE  TypeInv'
<1>0. /\ TypeOK /\ StoreTypeOK /\ EnvTypeOK /\ DriverTypeOK /\ DriversOK
      /\ row \in TimerRow
  BY DEF TypeInv, TypeOK, StoreTypeOK
<1>1. journal' \in Seq(Event) /\ EventsOK' /\ Grows
  <2>1. CASE Fires(row)
    <3>1. row.id \in Identity /\ row.fire_at \in Nat /\ row.kind \in {"sleep", "event_timeout"}
      BY <1>0 DEF TimerRow
    <3> QED BY <2>1, <3>1, PlainCommitGrows DEF Fires, EventType
  <2>2. CASE Settles(row)
    BY <2>2, SameJournalGrows DEF Settles
  <2> QED BY <2>1, <2>2
<1>2. timers' \subseteq TimerRow
  <2>1. CASE Fires(row)
    BY <1>0, <2>1 DEF Fires, StoreTypeOK
  <2>2. ASSUME NEW s \in {"fired", "discarded"}, SetTimerStatus(row, s)
        PROVE  timers' \subseteq TimerRow
    <3>1. [row EXCEPT !.status = s] \in TimerRow
      BY <1>0 DEF TimerRow
    <3> QED BY <1>0, <2>2, <3>1 DEF SetTimerStatus, StoreTypeOK
  <2> QED BY <2>1, <2>2 DEF Settles
<1>3. StoreTypeOK' /\ EnvTypeOK' /\ DriverTypeOK'
  BY <1>0, <1>1, <1>2 DEF Fires, Settles, StoreTypeOK, EnvTypeOK, DriverTypeOK, env, frame
<1>4. DriversOK'
  BY <1>1, DriverStays DEF Fires, Settles, env, frame, DriversOK
<1> QED BY <1>1, <1>3, <1>4 DEF TypeInv, TypeOK

LEMMA InitTypes == Init => TypeInv
<1> SUFFICES ASSUME Init PROVE TypeInv
  OBVIOUS
<1>1. /\ [m \in Name |-> 0] \in [Name -> Nat] /\ <<>> \in Histories
      /\ <<>> \in Seq(Identity) /\ <<>> \in Seq(Event) /\ <<>> \in Seq(InboxRow)
      /\ Len(journal) = 0
  BY EmptySeq, EmptyHistory DEF Init
<1>2. StoreTypeOK /\ EnvTypeOK /\ DriverTypeOK
  BY <1>1 DEF Init, StoreTypeOK, EnvTypeOK, DriverTypeOK, Pc
<1>3. EventsOK /\ DriversOK
  BY <1>1 DEF Init, EventsOK, DriversOK, DriverOK, Executing
<1> QED BY <1>2, <1>3 DEF TypeInv, TypeOK

LEMMA NextTypes == TypeInv /\ [Next]_vars => TypeInv'
<1> SUFFICES ASSUME TypeInv, [Next]_vars PROVE TypeInv'
  OBVIOUS
<1>1. ASSUME NEW d \in Driver,
             Control(d) \/ Drive(d) \/ RefuseReplay(d) \/ Park(d)
      PROVE  TypeInv'
  BY <1>1, ControlKeeps, DriveKeeps
<1>2. ASSUME NEW d \in Driver, CallTask(d)
      PROVE  TypeInv'
  BY <1>2, ReuseResultKeeps, ScheduleKeeps, CallTaskKeeps DEF CallTask
<1>3. ASSUME NEW d \in Driver, CallPrimitive(d)
      PROVE  TypeInv'
  BY <1>3, ReuseResultKeeps, PrimitiveKeeps DEF CallPrimitive
<1>4. CASE (\E t \in Topic : SendEvent(t)) \/ PassTime \/ Crash
  BY <1>4, EnvironmentKeeps
<1>6. CASE \E row \in timers : FireTimer(row) \/ SettleTimer(row)
  BY <1>6, PollLoop, PollLoopKeeps
<1>5. CASE UNCHANGED vars
  <2>1. EventsOK' /\ Grows /\ journal' \in Seq(Event)
    BY <1>5, SameJournalGrows DEF vars, store
  <2>2. TypeOK'
    BY <1>5 DEF vars, store, env, frame, TypeInv, TypeOK, StoreTypeOK, EnvTypeOK, DriverTypeOK
  <2>3. DriversOK'
    BY <1>5, <2>1, DriverStays DEF vars, env, frame, DriversOK
  <2> QED BY <2>1, <2>2, <2>3 DEF TypeInv
<1> QED BY <1>1, <1>2, <1>3, <1>4, <1>5, <1>6 DEF Next

\* Every variable keeps its type, for any number of drivers, whatever workflows
\* are deployed and however often the process crashes: no row or attribute ever
\* holds what its column cannot, a repaired timers row and a terminal status
\* read back from the journal included.
THEOREM TypesAreKept == Spec => []TypeOK
<1>1. TypeInv => TypeOK
  BY DEF TypeInv
<1> QED BY <1>1, InitTypes, NextTypes, PTL DEF Spec

-----------------------------------------------------------------------------
(* One driver                                                                *)

\* the process runs one asyncio task that drives or cancels the run
OneDriver == \A d, e \in Driver : d = e

-----------------------------------------------------------------------------
(* The outcome of the run                                                    *)

Replaying == Pc \ {"idle", "create", "drive", "settle"}

StatusIsLast ==
  \E i \in TerminalIndices(journal) :
    /\ \A k \in TerminalIndices(journal) : k <= i
    /\ status = StatusOf(journal[i].type)

\* A drive past its load works on a journal that has not ended; no drive is
\* under way before the run's row exists or once its status is terminal.
OutcomeInv ==
  /\ status \notin {"running", "waiting"} => AllIdle
  /\ status = "none" => journal = <<>> /\ timers = {}
  /\ \A d \in Driver :
       pc[d] \notin {"idle", "drive", "settle"} => TerminalIndices(journal) = {}
  /\ status \in TerminalStatus => StatusIsLast
  /\ DriveOutcomeIsFirst

\* a step that appends nothing, or an event that does not end the run
Quiet ==
  \/ journal' = journal
  \/ \E e : e.type \notin TerminalType /\ journal' = Append(journal, e)

LEMMA AppendFacts ==
  ASSUME TypeOK, NEW e, journal' = Append(journal, e)
  PROVE  /\ Len(journal) \in Nat
         /\ DOMAIN journal = 1..Len(journal) /\ DOMAIN journal' = 1..(Len(journal) + 1)
         /\ Len(journal') = Len(journal) + 1
         /\ \A i \in 1..Len(journal) : journal'[i] = journal[i]
         /\ journal'[Len(journal) + 1] = e
<1> DEFINE S == Event \cup {e}
<1>1. journal \in Seq(S) /\ e \in S
  BY SeqMonotonic DEF TypeOK, StoreTypeOK
<1>2. /\ Append(journal, e) \in Seq(S) /\ Len(Append(journal, e)) = Len(journal) + 1
      /\ \A i \in 1..Len(journal) : Append(journal, e)[i] = journal[i]
      /\ Append(journal, e)[Len(journal) + 1] = e
  <2> HIDE DEF S
  <2> QED BY <1>1, AppendProperties
<1>3. DOMAIN journal' = 1..Len(journal')
  <2> HIDE DEF S
  <2> QED BY <1>2, LenProperties
<1> QED BY <1>2, <1>3, JournalFacts

LEMMA QuietKeepsEnd ==
  ASSUME TypeOK, Quiet
  PROVE  /\ TerminalIndices(journal') = TerminalIndices(journal)
         /\ \A i \in TerminalIndices(journal) : journal'[i] = journal[i]
<1>1. CASE journal' = journal
  BY <1>1
<1>2. CASE \E e : e.type \notin TerminalType /\ journal' = Append(journal, e)
  <2>1. PICK e : e.type \notin TerminalType /\ journal' = Append(journal, e)
    BY <1>2
  <2> QED BY <2>1, AppendFacts DEF TerminalIndices
<1> QED BY <1>1, <1>2 DEF Quiet

\* Inside a drive, every step but the end of the drive is quiet.
LEMMA CallsAreQuiet ==
  ASSUME NEW d \in Driver, TypeOK, CallTask(d) \/ CallPrimitive(d)
  PROVE  Quiet /\ status' = status /\ pc[d] \in Replaying /\ pc'[d] \in Replaying
<1>0. pc \in [Driver -> Pc]
  BY DEF TypeOK, DriverTypeOK
<1>1. pc[d] \in Replaying /\ status' = status
  BY DEF CallTask, CallPrimitive, ReuseResult, Schedule, StartAttempt, RunBody, Complete,
         FailAttempt, Backoff, SleepOver, ReuseEvent, ReuseTimeout, ConsumeEvent, RecordEvent,
         CreateTimer, EnsureTimerRow, StartWait, RecordWaiting, CallAllowed, WaitMisses,
         Parks, Awaits, At, store, Replaying, Pc
<1>2. pc'[d] \in Replaying
  BY <1>0 DEF CallTask, CallPrimitive, ReuseResult, Schedule, StartAttempt, RunBody, Complete,
         FailAttempt, Backoff, SleepOver, ReuseEvent, ReuseTimeout, ConsumeEvent, RecordEvent,
         CreateTimer, EnsureTimerRow, StartWait, RecordWaiting, Observe, GoTo, Suspend,
         Replaying, Pc
<1>3. \/ journal' = journal
      \/ \E type \in EventType \ TerminalType : \E id, n, val : Commit(type, id, n, val)
  BY DEF CallTask, CallPrimitive, ReuseResult, Schedule, StartAttempt, RunBody, Complete,
         FailAttempt, Backoff, SleepOver, ReuseEvent, ReuseTimeout, ConsumeEvent, RecordEvent,
         CreateTimer, EnsureTimerRow, StartWait, RecordWaiting, store, EventType, TerminalType
<1>4. Quiet
  <2>1. CASE journal' = journal
    BY <2>1 DEF Quiet
  <2>2. ASSUME NEW type \in EventType \ TerminalType, NEW id, NEW n, NEW val,
               Commit(type, id, n, val)
        PROVE  Quiet
    <3>1. journal' = Append(journal, Entry(type, id, n, val))
      BY <2>2 DEF Commit
    <3>2. Entry(type, id, n, val).type \notin TerminalType
      BY DEF Entry
    <3> QED BY <3>1, <3>2 DEF Quiet
  <2> QED BY <1>3, <2>1, <2>2
<1> QED BY <1>1, <1>2, <1>4

\* A step in the middle of the run: the status stays running or waiting.
LEMMA QuietStep ==
  ASSUME OneDriver, TypeOK, NEW d \in Driver, OutcomeInv, Quiet,
         status \in {"running", "waiting"}, status' \in {"running", "waiting"},
         \/ pc'[d] \in {"idle", "drive", "settle"}
         \/ TerminalIndices(journal) = {}
  PROVE  OutcomeInv'
<1>1. /\ TerminalIndices(journal') = TerminalIndices(journal)
      /\ \A i \in TerminalIndices(journal) : journal'[i] = journal[i]
  BY QuietKeepsEnd
<1>2. DriveOutcomeIsFirst'
  BY <1>1 DEF DriveOutcomeIsFirst, OutcomeInv
<1>3. \A e \in Driver : pc'[e] \notin {"idle", "drive", "settle"} => TerminalIndices(journal') = {}
  BY <1>1 DEF OneDriver
<1> QED BY <1>2, <1>3 DEF OutcomeInv, TerminalStatus

\* The drive, or a cancellation, appends the event that ends the run.
LEMMA EndStep ==
  ASSUME OneDriver, TypeOK, NEW d \in Driver, OutcomeInv, NEW type,
         Commit(type, NoId, 0, "none"), status' = status,
         status \in {"running", "waiting"}, pc'[d] = "settle",
         type = "WorkflowCancelled" \/ TerminalIndices(journal) = {}
  PROVE  OutcomeInv'
<1>1. /\ Len(journal) \in Nat
      /\ DOMAIN journal = 1..Len(journal) /\ DOMAIN journal' = 1..(Len(journal) + 1)
      /\ \A i \in 1..Len(journal) : journal'[i] = journal[i]
      /\ journal'[Len(journal) + 1].type = type
  BY AppendFacts DEF Commit, Entry
<1>2. DriveOutcomeIsFirst'
  <2> SUFFICES ASSUME NEW i \in TerminalIndices(journal'), NEW k \in TerminalIndices(journal'),
                      i < k
               PROVE  journal'[k].type = "WorkflowCancelled"
    BY DEF DriveOutcomeIsFirst
  <2>1. i \in 1..Len(journal) /\ k \in 1..(Len(journal) + 1)
    BY <1>1 DEF TerminalIndices
  <2>2. i \in TerminalIndices(journal)
    BY <1>1, <2>1 DEF TerminalIndices
  <2>3. CASE k = Len(journal) + 1
    BY <1>1, <2>2, <2>3
  <2>4. CASE k \in 1..Len(journal)
    <3>1. k \in TerminalIndices(journal) /\ journal'[k] = journal[k]
      BY <1>1, <2>4 DEF TerminalIndices
    <3> QED BY <2>2, <3>1 DEF OutcomeInv, DriveOutcomeIsFirst
  <2> QED BY <1>1, <2>1, <2>3, <2>4
<1>3. \A e \in Driver : pc'[e] = "settle"
  BY DEF OneDriver
<1> QED BY <1>2, <1>3 DEF OutcomeInv, TerminalStatus

\* The status is read back from the journal and the drive is over.
LEMMA SettleStep ==
  ASSUME OneDriver, TypeOK, NEW d \in Driver, OutcomeInv, journal' = journal,
         TerminalIndices(journal) # {}, status' = RecordedTerminalStatus(journal),
         pc'[d] = "idle"
  PROVE  OutcomeInv'
<1>1. /\ status' \in TerminalStatus
      /\ \E i \in TerminalIndices(journal) :
           /\ \A k \in TerminalIndices(journal) : k <= i
           /\ status' = StatusOf(journal[i].type)
  BY JournalFacts, LastTerminal
<1>2. StatusIsLast' /\ DriveOutcomeIsFirst'
  BY <1>1 DEF StatusIsLast, OutcomeInv, DriveOutcomeIsFirst
<1>3. \A e \in Driver : pc'[e] = "idle"
  BY DEF OneDriver
<1> QED BY <1>1, <1>2, <1>3 DEF OutcomeInv, AllIdle, TerminalStatus

LEMMA OutcomeStep ==
  ASSUME OneDriver, TypeInv, OutcomeInv, [Next]_vars
  PROVE  OutcomeInv'
<1>0. TypeOK /\ DriverTypeOK /\ \A d \in Driver : DriverOK(d)
  BY DEF TypeInv, TypeOK, DriversOK
<1>1. ASSUME NEW d \in Driver, pc[d] # "idle"
      PROVE  status \in {"running", "waiting"}
  BY <1>1 DEF OutcomeInv, AllIdle
<1>2. ASSUME NEW d \in Driver, StartRun(d)
      PROVE  OutcomeInv'
  <2>1. journal = <<>> /\ journal' = journal /\ status' = "running"
    BY <1>2 DEF StartRun, OutcomeInv
  <2>2. TerminalIndices(journal) = {}
    BY <2>1 DEF TerminalIndices
  <2> QED BY <2>1, <2>2 DEF OutcomeInv, DriveOutcomeIsFirst, TerminalStatus
<1>3. ASSUME NEW d \in Driver, RecordCreated(d) \/ ResumeRun(d) \/ WakeRun(d) \/ Redrive(d)
      PROVE  OutcomeInv'
  <2>1. Quiet
    BY <1>3 DEF RecordCreated, ResumeRun, WakeRun, Redrive, store, Commit, Entry, Quiet, TerminalType
  <2>2. /\ status' = status /\ status \in {"running", "waiting"} /\ pc'[d] = "drive"
    BY <1>0, <1>1, <1>3
       DEF RecordCreated, ResumeRun, WakeRun, Redrive, store, At, GoTo, Idle, DriverTypeOK
  <2> QED BY <1>0, <2>1, <2>2, QuietStep
<1>4. ASSUME NEW d \in Driver, CancelRun(d)
      PROVE  OutcomeInv'
  BY <1>0, <1>4, EndStep DEF CancelRun, GoTo, DriverTypeOK
<1>5. ASSUME NEW d \in Driver, Return(d) \/ Raise(d)
      PROVE  OutcomeInv'
  <2>1. pc[d] = "replay" /\ pc'[d] = "settle" /\ status' = status
    BY <1>0, <1>5 DEF Return, Raise, Awaits, At, GoTo, DriverTypeOK
  <2>2. PICK type : Commit(type, NoId, 0, "none")
    BY <1>5 DEF Return, Raise
  <2>3. TerminalIndices(journal) = {} /\ status \in {"running", "waiting"}
    BY <1>1, <2>1 DEF OutcomeInv
  <2> QED BY <1>0, <2>1, <2>2, <2>3, EndStep
<1>6. ASSUME NEW d \in Driver, SettleStatus(d) \/ DriveTerminal(d)
      PROVE  OutcomeInv'
  <2>1. /\ TerminalIndices(journal) # {} /\ journal' = journal /\ pc'[d] = "idle"
        /\ status' = RecordedTerminalStatus(journal)
    BY <1>0, <1>6 DEF SettleStatus, DriveTerminal, At, DriverOK, Release, Suspend, DriverTypeOK
  <2> QED BY <1>0, <2>1, SettleStep
<1>7. ASSUME NEW d \in Driver, DriveLoad(d) \/ RefuseReplay(d) \/ Park(d)
      PROVE  OutcomeInv'
  <2>1. /\ Quiet /\ pc[d] # "idle" /\ status' \in {status, "waiting"}
        /\ pc'[d] = "idle" \/ TerminalIndices(journal) = {}
    BY <1>0, <1>7 DEF DriveLoad, RefuseReplay, Park, Awaits, At, Release, Suspend, store,
                      Quiet, DriverTypeOK
  <2> QED BY <1>0, <1>1, <2>1, QuietStep
<1>8. ASSUME NEW d \in Driver, CallTask(d) \/ CallPrimitive(d)
      PROVE  OutcomeInv'
  <2>1. Quiet /\ status' = status /\ pc[d] \in Replaying
    BY <1>0, <1>8, CallsAreQuiet
  <2>2. TerminalIndices(journal) = {} /\ status \in {"running", "waiting"}
    BY <1>1, <2>1 DEF OutcomeInv, Replaying
  <2> QED BY <1>0, <2>1, <2>2, QuietStep
<1>9. CASE (\E t \in Topic : SendEvent(t)) \/ PassTime \/ UNCHANGED vars
  <2>1. UNCHANGED <<journal, status, pc, timers>>
    BY <1>9 DEF SendEvent, PassTime, vars, store
  <2> QED
    BY <2>1 DEF OutcomeInv, AllIdle, StatusIsLast, DriveOutcomeIsFirst
<1>10. CASE Crash
  <2>1. journal' = journal /\ status' = status /\ timers' = timers /\ \A d \in Driver : pc'[d] = "idle"
    BY <1>10 DEF Crash, store
  <2> QED
    BY <2>1 DEF OutcomeInv, AllIdle, StatusIsLast, DriveOutcomeIsFirst
<1>11. ASSUME NEW row \in timers, FireTimer(row) \/ SettleTimer(row)
       PROVE  OutcomeInv'
  <2>1. Quiet
    BY <1>11 DEF FireTimer, SettleTimer, Commit, Entry, Quiet, TerminalType
  <2>2. status' = status /\ status # "none" /\ pc' = pc
    BY <1>11 DEF FireTimer, SettleTimer, OutcomeInv
  <2>3. /\ TerminalIndices(journal') = TerminalIndices(journal)
        /\ \A i \in TerminalIndices(journal) : journal'[i] = journal[i]
    BY <1>0, <2>1, QuietKeepsEnd
  <2>4. DriveOutcomeIsFirst' /\ (StatusIsLast => StatusIsLast')
    BY <2>2, <2>3 DEF OutcomeInv, DriveOutcomeIsFirst, StatusIsLast
  <2> QED BY <2>2, <2>3, <2>4 DEF OutcomeInv, AllIdle
<1> QED
  BY <1>2, <1>3, <1>4, <1>5, <1>6, <1>7, <1>8, <1>9, <1>10, <1>11 DEF Next, Control, Drive

LEMMA OutcomeInit == Init => OutcomeInv
<1> SUFFICES ASSUME Init PROVE OutcomeInv
  OBVIOUS
<1>1. TerminalIndices(journal) = {}
  BY DEF Init, TerminalIndices
<1> QED BY <1>1 DEF Init, OutcomeInv, AllIdle, DriveOutcomeIsFirst, TerminalStatus

LEMMA OutcomeHolds == ASSUME OneDriver PROVE Spec => [](TypeInv /\ OutcomeInv)
<1>1. Init => TypeInv /\ OutcomeInv
  BY InitTypes, OutcomeInit
<1>2. TypeInv /\ OutcomeInv /\ [Next]_vars => (TypeInv /\ OutcomeInv)'
  BY NextTypes, OutcomeStep
<1> QED BY <1>1, <1>2, PTL DEF Spec

\* The event that ends a drive is appended to a journal that has not ended,
\* wherever crashes fall: only a cancellation can follow an outcome.
THEOREM DriveOutcomeIsFirstHolds == ASSUME OneDriver PROVE Spec => []DriveOutcomeIsFirst
<1>1. OutcomeInv => DriveOutcomeIsFirst
  BY DEF OutcomeInv
<1> QED BY <1>1, OutcomeHolds, PTL

\* runs.status never leads the journal: a terminal status is the one the last
\* terminal event recorded, however often the status flip was cut off.
THEOREM StatusNeverLeadsHolds == ASSUME OneDriver PROVE Spec => []StatusNeverLeads
<1>1. TypeInv /\ OutcomeInv => StatusNeverLeads
  <2> SUFFICES ASSUME TypeInv, OutcomeInv, status \in TerminalStatus PROVE StatusNeverLeads
    BY DEF StatusNeverLeads
  <2>1. PICK i \in TerminalIndices(journal) :
          /\ \A k \in TerminalIndices(journal) : k <= i
          /\ status = StatusOf(journal[i].type)
    BY DEF OutcomeInv, StatusIsLast
  <2>2. journal[i].type \in TerminalType
    BY DEF TerminalIndices
  <2> QED BY <2>1, <2>2 DEF StatusNeverLeads, StatusOf, TerminalType
<1> QED BY <1>1, OutcomeHolds, PTL

-----------------------------------------------------------------------------
(* The task calls of the run                                                 *)

TaskFact(e) == e.type \in {"TaskScheduled", "TaskCompleted"}

\* the call of this event is behind the drive, or it is the one being executed
Accounted(d, e) ==
  /\ e.id.name \in Task
  /\ \/ e.id.ord < ordinals[d][e.id.name]
     \/ e.type = "TaskScheduled" /\ pc[d] \in Executing /\ e.id = CallId(d)

\* What a drive itself recorded of tasks after its load is accounted for, so a
\* call it misses in the loaded prefix is not recorded after it either.
Fresh(d) ==
  pc[d] \in Replaying =>
    \A i \in 1..Len(journal) :
      i > loaded[d] /\ TaskFact(journal[i]) => Accounted(d, journal[i])

NotDone(d) ==
  pc[d] \in Executing => ~Recorded(journal, Len(journal), "TaskCompleted", CallId(d))

CallsInv ==
  /\ TaskRecordedOnce
  /\ \A d \in Driver : Fresh(d) /\ NotDone(d)

\* a step that records nothing of a task's scheduling or completion
NoTaskFact ==
  \/ journal' = journal
  \/ \E e : ~TaskFact(e) /\ journal' = Append(journal, e)

LEMMA NoTaskFactKeeps ==
  ASSUME TypeOK, NoTaskFact
  PROVE  /\ \A i \in 1..Len(journal') : TaskFact(journal'[i]) =>
              i \in 1..Len(journal) /\ journal'[i] = journal[i]
         /\ TaskRecordedOnce => TaskRecordedOnce'
         /\ \A id : Recorded(journal', Len(journal'), "TaskCompleted", id) =>
              Recorded(journal, Len(journal), "TaskCompleted", id)
<1>1. /\ \A i \in 1..Len(journal') : TaskFact(journal'[i]) =>
           i \in 1..Len(journal) /\ journal'[i] = journal[i]
      /\ DOMAIN journal' = 1..Len(journal') /\ DOMAIN journal = 1..Len(journal)
  <2>1. CASE journal' = journal
    BY <2>1, JournalFacts
  <2>2. CASE \E e : ~TaskFact(e) /\ journal' = Append(journal, e)
    <3>1. PICK e : ~TaskFact(e) /\ journal' = Append(journal, e)
      BY <2>2
    <3> QED BY <3>1, AppendFacts
  <2> QED BY <2>1, <2>2 DEF NoTaskFact
<1>2. TaskRecordedOnce => TaskRecordedOnce'
  BY <1>1 DEF TaskRecordedOnce, RecordedOnce, TaskFact
<1>3. ASSUME NEW id, Recorded(journal', Len(journal'), "TaskCompleted", id)
      PROVE  Recorded(journal, Len(journal), "TaskCompleted", id)
  BY <1>1, <1>3 DEF Recorded, TaskFact
<1> QED BY <1>1, <1>2, <1>3

\* A new fact of a call that had none of its type is the only one of its type.
LEMMA NewFactIsOnly ==
  ASSUME TypeOK, TaskRecordedOnce, NEW type, NEW id, NEW n, NEW val,
         Commit(type, id, n, val), ~Recorded(journal, Len(journal), type, id)
  PROVE  TaskRecordedOnce'
<1>1. /\ Len(journal) \in Nat
      /\ DOMAIN journal = 1..Len(journal) /\ DOMAIN journal' = 1..(Len(journal) + 1)
      /\ \A i \in 1..Len(journal) : journal'[i] = journal[i]
      /\ journal'[Len(journal) + 1].type = type /\ journal'[Len(journal) + 1].id = id
  BY AppendFacts DEF Commit, Entry
<1>2. \A i \in 1..Len(journal) : ~(journal[i].type = type /\ journal[i].id = id)
  BY DEF Recorded
<1> QED BY <1>1, <1>2 DEF TaskRecordedOnce, RecordedOnce

\* What a replay misses in the prefix it loaded, the whole journal misses.
LEMMA MissIsMiss ==
  ASSUME TypeInv, NEW d \in Driver, Fresh(d), CallAllowed(d),
         NEW type \in {"TaskScheduled", "TaskCompleted"}, ~Hit(d, type)
  PROVE  ~Recorded(journal, Len(journal), type, CallId(d))
<1> SUFFICES ASSUME NEW i \in 1..Len(journal),
                    journal[i].type = type, journal[i].id = CallId(d)
             PROVE  FALSE
  BY DEF Recorded
<1>1. pc[d] = "replay" /\ Awaited(d).kind = "task"
  BY DEF CallAllowed, Awaits, At
<1>2. Len(journal) \in Nat /\ loaded[d] \in Nat
  BY JournalFacts DEF TypeInv, TypeOK, DriverTypeOK
<1>3. i > loaded[d]
  BY <1>2 DEF Hit, Recorded
<1>4. Accounted(d, journal[i])
  BY <1>1, <1>3 DEF Fresh, TaskFact, Replaying, Pc
<1>5. CallId(d).ord < ordinals[d][CallId(d).name]
  BY <1>1, <1>4 DEF Accounted, Executing
<1>6. CallId(d).name = Awaited(d).name /\ CallId(d).ord = ordinals[d][Awaited(d).name]
  BY <1>1 DEF CallId
<1>7. ordinals[d][Awaited(d).name] \in Nat
  BY AwaitedFacts DEF TypeInv, TypeOK, DriverTypeOK
<1> QED BY <1>5, <1>6, <1>7

\* A drive that stays at its call keeps what it accounts for.
LEMMA SameCallStep ==
  ASSUME TypeInv, NEW d \in Driver, Fresh(d), NotDone(d), NoTaskFact,
         code' = code, outs'[d] = outs[d], ordinals'[d] = ordinals[d],
         loaded'[d] = loaded[d],
         pc'[d] \in Executing <=> pc[d] \in Executing,
         pc'[d] \in Replaying => pc[d] \in Replaying
  PROVE  Fresh(d)' /\ NotDone(d)'
<1>1. CallId(d)' = CallId(d)
  BY DEF CallId, Awaited
<1>2. /\ \A i \in 1..Len(journal') : TaskFact(journal'[i]) =>
           i \in 1..Len(journal) /\ journal'[i] = journal[i]
      /\ \A id : Recorded(journal', Len(journal'), "TaskCompleted", id) =>
           Recorded(journal, Len(journal), "TaskCompleted", id)
  BY NoTaskFactKeeps DEF TypeInv
<1>3. NotDone(d)'
  BY <1>1, <1>2 DEF NotDone
<1>4. Fresh(d)'
  <2> SUFFICES ASSUME pc'[d] \in Replaying, NEW i \in 1..Len(journal'), i > loaded'[d],
                      TaskFact(journal'[i])
               PROVE  Accounted(d, journal[i])'
    BY DEF Fresh, TaskFact, Accounted
  <2>1. Accounted(d, journal[i]) /\ journal'[i] = journal[i]
    BY <1>2 DEF Fresh
  <2> QED BY <1>1, <2>1 DEF Accounted
<1> QED BY <1>3, <1>4

\* A drive that goes on to its next call leaves the facts of this one behind.
LEMMA NextCallStep ==
  ASSUME TypeInv, NEW d \in Driver, NEW o, Fresh(d), Observe(d, o), pc[d] \in Replaying,
         Awaited(d).kind \in {"task", "sleep", "wait"}, journal' \in Seq(Event),
         \A i \in 1..Len(journal') : TaskFact(journal'[i]) =>
           \/ i \in 1..Len(journal) /\ journal'[i] = journal[i]
           \/ Awaited(d).kind = "task" /\ journal'[i].id = CallId(d)
  PROVE  Fresh(d)' /\ NotDone(d)'
<1> DEFINE name == Awaited(d).name
<1>0. TypeOK /\ DriverTypeOK /\ DriverOK(d) /\ name \in Name
  BY AwaitedFacts DEF TypeInv, TypeOK, DriversOK
<1>1. pc'[d] = "replay" /\ loaded'[d] = loaded[d]
  BY <1>0 DEF DriverTypeOK, Observe, GoTo
<1>2. \A m \in Name : ordinals'[d][m] = IF m = name THEN ordinals[d][m] + 1 ELSE ordinals[d][m]
  <2>1. ordinals' = [ordinals EXCEPT ![d][name] = @ + 1]
    BY DEF Observe
  <2> HIDE DEF name
  <2> QED BY <1>0, <2>1 DEF DriverTypeOK
<1>3. ASSUME NEW i \in 1..Len(journal'), i > loaded[d], TaskFact(journal'[i])
      PROVE  /\ journal'[i].id.name \in Task
             /\ journal'[i].id.ord < ordinals'[d][journal'[i].id.name]
  <2> DEFINE e == journal'[i]
  <2>0. e \in Event
    BY ElementOfSeq
  <2> SUFFICES e.id.name \in Task /\ e.id.ord < ordinals'[d][e.id.name]
    OBVIOUS
  <2> HIDE DEF e
  <2>1. e.id.ord \in Nat /\ \A m \in Task : m \in Name /\ ordinals[d][m] \in Nat
    BY <1>0, <2>0 DEF Event, Identity, DriverTypeOK, Name
  <2>2. CASE Awaited(d).kind = "task" /\ e.id = CallId(d)
    <3>1. e.id.name = name /\ e.id.ord = ordinals[d][name] /\ name \in Task
      BY <1>0, <2>2, AwaitedFacts DEF CallId
    <3> QED BY <1>2, <2>1, <3>1
  <2>3. CASE e.id.name \in Task /\ e.id.ord < ordinals[d][e.id.name]
    BY <1>2, <2>1, <2>3
  <2>4. CASE i \in 1..Len(journal) /\ journal'[i] = journal[i]
    <3>1. Accounted(d, e)
      BY <1>3, <2>4 DEF Fresh, e
    <3>2. pc[d] \in Executing => Awaited(d).kind = "task"
      BY <1>0 DEF DriverOK
    <3> QED BY <2>2, <2>3, <3>1, <3>2 DEF Accounted
  <2> QED BY <1>3, <2>2, <2>4 DEF e
<1>4. Fresh(d)'
  BY <1>1, <1>3 DEF Fresh, Accounted, TaskFact
<1>5. NotDone(d)'
  BY <1>1 DEF NotDone, Executing
<1> QED BY <1>4, <1>5

LEMMA ScheduleStep ==
  ASSUME TypeInv, NEW d \in Driver, TaskRecordedOnce, Fresh(d), Schedule(d)
  PROVE  TaskRecordedOnce' /\ Fresh(d)' /\ NotDone(d)'
<1>0. /\ TypeOK /\ DriverTypeOK /\ CallAllowed(d) /\ ~Hit(d, "TaskCompleted")
      /\ pc[d] = "replay" /\ Awaited(d).kind = "task" /\ Awaited(d).name \in Task
  BY AwaitedFacts DEF TypeInv, TypeOK, Schedule, CallAllowed, Awaits, At
<1>1. /\ pc'[d] = "attempt" /\ loaded' = loaded /\ ordinals' = ordinals
      /\ CallId(d)' = CallId(d)
  BY <1>0, SameCall DEF Schedule, GoTo, DriverTypeOK, env
<1>2. ~Recorded(journal, Len(journal), "TaskCompleted", CallId(d))
  BY <1>0, MissIsMiss
<1>4. CASE Hit(d, "TaskScheduled")
  <2>1. journal' = journal
    BY <1>4 DEF Schedule
  <2>2. TaskRecordedOnce' /\ NotDone(d)'
    BY <1>1, <1>2, <2>1 DEF TaskRecordedOnce, RecordedOnce, NotDone
  <2>3. Fresh(d)'
    BY <1>0, <1>1, <2>1 DEF Fresh, Accounted, TaskFact, Replaying, Executing, Pc
  <2> QED BY <2>2, <2>3
<1>5. CASE ~Hit(d, "TaskScheduled")
  <2>1. Commit("TaskScheduled", CallId(d), 0, "none")
    BY <1>5 DEF Schedule
  <2>2. TaskRecordedOnce'
    BY <1>0, <1>5, <2>1, MissIsMiss, NewFactIsOnly
  <2>3. /\ Len(journal) \in Nat /\ Len(journal') = Len(journal) + 1
        /\ \A i \in 1..Len(journal) : journal'[i] = journal[i]
        /\ journal'[Len(journal) + 1].type = "TaskScheduled"
        /\ journal'[Len(journal) + 1].id = CallId(d)
    BY <1>0, <2>1, AppendFacts DEF Commit, Entry
  <2>4. NotDone(d)'
    BY <1>1, <1>2, <2>3 DEF NotDone, Recorded
  <2>5. Fresh(d)'
    <3> SUFFICES ASSUME NEW i \in 1..Len(journal'), i > loaded[d], TaskFact(journal'[i])
                 PROVE  Accounted(d, journal[i])'
      BY <1>1 DEF Fresh, TaskFact, Accounted
    <3>1. CASE i = Len(journal) + 1
      BY <1>0, <1>1, <2>3, <3>1 DEF Accounted, Executing, CallId
    <3>2. CASE i \in 1..Len(journal)
      <4>1. Accounted(d, journal[i]) /\ journal'[i] = journal[i]
        BY <1>0, <2>3, <3>2 DEF Fresh, Replaying, Pc
      <4> QED BY <1>0, <1>1, <4>1 DEF Accounted, Executing
    <3> QED BY <2>3, <3>1, <3>2
  <2> QED BY <2>2, <2>4, <2>5
<1> QED BY <1>4, <1>5

LEMMA CompleteStep ==
  ASSUME TypeInv, TypeInv', NEW d \in Driver, TaskRecordedOnce, Fresh(d), NotDone(d),
         Complete(d)
  PROVE  TaskRecordedOnce' /\ Fresh(d)' /\ NotDone(d)'
<1>1. PICK v \in Value : Commit("TaskCompleted", CallId(d), 0, v) /\ Observe(d, v)
  BY DEF Complete
<1>2. pc[d] \in Executing /\ pc[d] \in Replaying /\ Awaited(d).kind = "task"
  BY DEF Complete, At, Executing, Replaying, Pc, TypeInv, DriversOK, DriverOK
<1>3. TypeOK /\ journal' \in Seq(Event)
  BY DEF TypeInv, TypeOK, StoreTypeOK
<1>4. TaskRecordedOnce'
  BY <1>1, <1>2, <1>3, NewFactIsOnly DEF NotDone
<1>5. \A i \in 1..Len(journal') :
        \/ i \in 1..Len(journal) /\ journal'[i] = journal[i]
        \/ journal'[i].id = CallId(d)
  BY <1>1, <1>3, AppendFacts DEF Commit, Entry
<1>6. Fresh(d)' /\ NotDone(d)'
  BY <1>1, <1>2, <1>3, <1>5, NextCallStep
<1> QED BY <1>4, <1>6

\* The steps of a driver that record nothing of tasks, by what they do to its drive.
LEMMA OtherSteps ==
  ASSUME TypeInv, TypeInv', NEW d \in Driver,
         Control(d) \/ Drive(d) \/ RefuseReplay(d) \/ Park(d) \/ CallTask(d) \/ CallPrimitive(d),
         ~Schedule(d), ~Complete(d)
  PROVE  /\ NoTaskFact
         /\ \/ pc'[d] \notin Replaying
            \/ DriveLoad(d)
            \/ /\ \E o : Observe(d, o)
               /\ pc[d] \in Replaying /\ Awaited(d).kind \in {"task", "sleep", "wait"}
            \/ /\ UNCHANGED <<code, outs, ordinals, loaded>>
               /\ pc'[d] \in Executing <=> pc[d] \in Executing
               /\ pc[d] \in Replaying
<1>0. TypeOK /\ pc \in [Driver -> Pc] /\ DriverOK(d)
  BY DEF TypeInv, TypeOK, DriverTypeOK, DriversOK
<1>1. \/ journal' = journal
      \/ \E type \in EventType \ {"TaskScheduled", "TaskCompleted"} : \E id, n, val :
           Commit(type, id, n, val)
  BY DEF Control, Drive, CallTask, CallPrimitive, StartRun, RecordCreated, ResumeRun, WakeRun,
         Redrive, CancelRun, SettleStatus, DriveTerminal, DriveLoad, Return, Raise, RefuseReplay, Park,
         ReuseResult, StartAttempt, RunBody, FailAttempt, Backoff, SleepOver, ReuseEvent,
         ReuseTimeout, ConsumeEvent, RecordEvent, CreateTimer, EnsureTimerRow, StartWait,
         RecordWaiting, store, EventType
<1>2. NoTaskFact
  <2>1. CASE journal' = journal
    BY <2>1 DEF NoTaskFact
  <2>2. ASSUME NEW type \in EventType \ {"TaskScheduled", "TaskCompleted"},
               NEW id, NEW n, NEW val, Commit(type, id, n, val)
        PROVE  NoTaskFact
    <3>1. journal' = Append(journal, Entry(type, id, n, val))
      BY <2>2 DEF Commit
    <3>2. ~TaskFact(Entry(type, id, n, val))
      BY DEF Entry, TaskFact
    <3> QED BY <3>1, <3>2 DEF NoTaskFact
  <2> QED BY <1>1, <2>1, <2>2
<1>3. CASE Control(d) \/ DriveTerminal(d) \/ Return(d) \/ Raise(d) \/ RefuseReplay(d) \/ Park(d)
  <2>1. pc'[d] \in {"idle", "create", "drive", "settle"}
    BY <1>0, <1>3 DEF Control, StartRun, RecordCreated, ResumeRun, WakeRun, CancelRun,
                      Redrive, SettleStatus, DriveTerminal, Return, Raise, RefuseReplay, Park,
                      Release, GoTo, Suspend
  <2> QED BY <1>2, <2>1 DEF Replaying
<1>4. CASE ReuseResult(d) \/ SleepOver(d) \/ ReuseEvent(d) \/ ReuseTimeout(d) \/ RecordEvent(d)
  <2>1. \E o : Observe(d, o)
    BY <1>4 DEF ReuseResult, SleepOver, ReuseEvent, ReuseTimeout, RecordEvent
  <2>2. pc[d] \in Replaying /\ Awaited(d).kind \in {"task", "sleep", "wait"}
    BY <1>0, <1>4 DEF ReuseResult, SleepOver, ReuseEvent, ReuseTimeout, RecordEvent, CallAllowed,
                      Awaits, At, Replaying, Pc, DriverOK
  <2> QED BY <1>2, <2>1, <2>2
<1>5. CASE StartAttempt(d) \/ RunBody(d) \/ Backoff(d)
  <2>1. UNCHANGED <<code, outs, ordinals, loaded>>
    BY <1>5 DEF StartAttempt, RunBody, Backoff, env, frame
  <2>2. pc[d] \in Replaying /\ pc[d] \in Executing /\ pc'[d] \in Executing
    BY <1>0, <1>5 DEF StartAttempt, RunBody, Backoff, At, GoTo, Suspend, Replaying, Executing, Pc
  <2> QED BY <1>2, <2>1, <2>2
<1>6. CASE FailAttempt(d)
  <2>1. pc[d] \in Replaying /\ pc[d] \in Executing /\ Awaited(d).kind = "task"
    BY <1>0, <1>6 DEF FailAttempt, At, Replaying, Executing, Pc, DriverOK
  <2>2. CASE RetriesLeft(d)
    <3>1. UNCHANGED <<code, outs, ordinals, loaded>> /\ pc'[d] \in Executing
      BY <1>0, <1>6, <2>2 DEF FailAttempt, Suspend, Executing, env
    <3> QED BY <1>2, <2>1, <3>1
  <2>3. CASE ~RetriesLeft(d)
    BY <1>2, <1>6, <2>1, <2>3 DEF FailAttempt
  <2> QED BY <2>2, <2>3
<1>7. CASE ConsumeEvent(d) \/ CreateTimer(d) \/ EnsureTimerRow(d) \/ StartWait(d) \/ RecordWaiting(d)
  <2>1. UNCHANGED <<code, outs, ordinals, loaded>>
    BY <1>7 DEF ConsumeEvent, CreateTimer, EnsureTimerRow, StartWait, RecordWaiting, env, frame
  <2>2. pc[d] \in Replaying /\ pc[d] \notin Executing /\ pc'[d] \notin Executing
    BY <1>0, <1>7 DEF ConsumeEvent, CreateTimer, EnsureTimerRow, StartWait, RecordWaiting, Parks,
                      WaitMisses, Awaits, At, GoTo, Replaying, Executing, Pc
  <2> QED BY <1>2, <2>1, <2>2
<1> QED
  BY <1>2, <1>3, <1>4, <1>5, <1>6, <1>7 DEF Drive, CallTask, CallPrimitive

LEMMA CallsStep ==
  ASSUME OneDriver, TypeInv, TypeInv', CallsInv, [Next]_vars
  PROVE  CallsInv'
<1>0. TypeOK /\ DriverTypeOK /\ TaskRecordedOnce /\ journal' \in Seq(Event)
  BY DEF TypeInv, TypeOK, StoreTypeOK, CallsInv
<1>1. ASSUME NEW d \in Driver, TaskRecordedOnce', Fresh(d)', NotDone(d)'
      PROVE  CallsInv'
  <2>1. \A e \in Driver : e = d
    BY DEF OneDriver
  <2> QED BY <1>1, <2>1 DEF CallsInv
<1>2. ASSUME NEW d \in Driver, Schedule(d)
      PROVE  CallsInv'
  BY <1>0, <1>1, <1>2, ScheduleStep DEF CallsInv
<1>3. ASSUME NEW d \in Driver, Complete(d)
      PROVE  CallsInv'
  BY <1>0, <1>1, <1>3, CompleteStep DEF CallsInv
<1>4. ASSUME NEW d \in Driver, ~Schedule(d), ~Complete(d),
             Control(d) \/ Drive(d) \/ RefuseReplay(d) \/ Park(d) \/ CallTask(d) \/ CallPrimitive(d)
      PROVE  CallsInv'
  <2>1. NoTaskFact
    BY <1>4, OtherSteps
  <2>2. TaskRecordedOnce'
    BY <1>0, <2>1, NoTaskFactKeeps
  <2>3. CASE pc'[d] \notin Replaying
    <3>1. Fresh(d)' /\ NotDone(d)'
      BY <2>3 DEF Fresh, NotDone, Replaying, Executing, Pc
    <3> QED BY <1>1, <2>2, <3>1
  <2>4. CASE DriveLoad(d)
    <3>1. pc'[d] = "replay" /\ loaded'[d] = Len(journal) /\ journal' = journal
      BY <1>0, <2>4 DEF DriveLoad, GoTo, store, DriverTypeOK
    <3>2. Fresh(d)' /\ NotDone(d)'
      BY <1>0, <3>1, JournalFacts DEF Fresh, NotDone, Executing
    <3> QED BY <1>1, <2>2, <3>2
  <2>5. CASE /\ \E o : Observe(d, o)
             /\ pc[d] \in Replaying /\ Awaited(d).kind \in {"task", "sleep", "wait"}
    <3>1. PICK o : Observe(d, o)
      BY <2>5
    <3>2. Fresh(d)' /\ NotDone(d)'
      BY <1>0, <2>1, <2>5, <3>1, NoTaskFactKeeps, NextCallStep DEF CallsInv
    <3> QED BY <1>1, <2>2, <3>2
  <2>6. CASE /\ UNCHANGED <<code, outs, ordinals, loaded>>
             /\ pc'[d] \in Executing <=> pc[d] \in Executing
             /\ pc[d] \in Replaying
    <3>1. Fresh(d)' /\ NotDone(d)'
      BY <2>1, <2>6, SameCallStep DEF CallsInv
    <3> QED BY <1>1, <2>2, <3>1
  <2> QED BY <1>4, <2>3, <2>4, <2>5, <2>6, OtherSteps
<1>5. CASE \/ \E row \in timers : FireTimer(row) \/ SettleTimer(row)
           \/ (\E t \in Topic : SendEvent(t)) \/ PassTime \/ UNCHANGED vars
  <2>1. UNCHANGED <<code, pc, outs, ordinals, loaded>>
    BY <1>5 DEF FireTimer, SettleTimer, SendEvent, PassTime, vars, env, frame
  <2>2. NoTaskFact
    BY <1>5 DEF FireTimer, SettleTimer, SendEvent, PassTime, vars, store, NoTaskFact,
                TaskFact, Commit, Entry
  <2>3. ASSUME NEW d \in Driver PROVE Fresh(d)' /\ NotDone(d)'
    BY <2>1, <2>2, SameCallStep DEF CallsInv
  <2> QED BY <1>0, <2>2, <2>3, NoTaskFactKeeps DEF CallsInv
<1>6. CASE Crash
  <2>1. journal' = journal /\ \A d \in Driver : pc'[d] = "idle"
    BY <1>6 DEF Crash, store
  <2> QED
    BY <1>0, <2>1 DEF CallsInv, TaskRecordedOnce, RecordedOnce, Fresh, NotDone, Replaying, Executing
<1> QED
  BY <1>2, <1>3, <1>4, <1>5, <1>6 DEF Next

LEMMA CallsHold == ASSUME OneDriver PROVE Spec => [](TypeInv /\ CallsInv)
<1>1. Init => TypeInv /\ CallsInv
  <2> SUFFICES ASSUME Init PROVE CallsInv
    BY InitTypes
  <2> QED BY DEF Init, CallsInv, TaskRecordedOnce, RecordedOnce, Fresh, NotDone,
                 Replaying, Executing
<1>2. TypeInv /\ CallsInv /\ [Next]_vars => (TypeInv /\ CallsInv)'
  BY NextTypes, CallsStep
<1> QED BY <1>1, <1>2, PTL DEF Spec

\* A logical task call is scheduled once and completes once, for any workflow,
\* any retry budget and any number of crashes, deployments and resumes.
THEOREM TaskRecordedOnceHolds == ASSUME OneDriver PROVE Spec => []TaskRecordedOnce
<1>1. CallsInv => TaskRecordedOnce
  BY DEF CallsInv
<1> QED BY <1>1, CallsHold, PTL

\* No step runs the body of a call whose result the journal already holds.
THEOREM NoReexecutionHolds == ASSUME OneDriver PROVE Spec => NoReexecution
<1>1. ASSUME TypeInv, CallsInv, [Next]_vars, executed' # executed
      PROVE  ~Recorded(journal, Len(journal), "TaskCompleted", executed'[Len(executed')])
  <2>1. PICK d \in Driver : RunBody(d)
    BY <1>1 DEF Next, Control, Drive, CallTask, CallPrimitive, StartRun, RecordCreated, ResumeRun,
         WakeRun, Redrive, FireTimer, SettleTimer, CancelRun, SettleStatus, DriveTerminal, DriveLoad, Return, Raise, RefuseReplay,
         Park, ReuseResult, Schedule, StartAttempt, Complete, FailAttempt, Backoff, SleepOver,
         ReuseEvent, ReuseTimeout, ConsumeEvent, RecordEvent, CreateTimer, EnsureTimerRow,
         StartWait, RecordWaiting, SendEvent, PassTime, Crash, vars, env
  <2>2. executed' = Append(executed, CallId(d)) /\ pc[d] = "body"
    BY <2>1 DEF RunBody, At
  <2>3. Awaited(d).kind = "task"
    BY <1>1, <2>2 DEF TypeInv, DriversOK, DriverOK, Executing
  <2>4. executed \in Seq(Identity) /\ CallId(d) \in Identity
    BY <1>1, <2>3, AwaitedFacts DEF TypeInv, TypeOK, EnvTypeOK
  <2>5. executed'[Len(executed')] = CallId(d)
    BY <2>2, <2>4, AppendProperties
  <2>6. ~Recorded(journal, Len(journal), "TaskCompleted", CallId(d))
    BY <1>1, <2>2 DEF CallsInv, NotDone, Executing
  <2> QED BY <2>5, <2>6
<1> QED BY <1>1, CallsHold, PTL DEF Spec, NoReexecution

-----------------------------------------------------------------------------
(* What the journal records of the parks of a run and of the attempts of its *)
(* calls: each park whole and once, each attempt under the next number and   *)
(* against the retries.                                                      *)

\* a step that records no event of these types
NoFact(types) ==
  \/ journal' = journal
  \/ \E e : e.type \notin types /\ journal' = Append(journal, e)

LEMMA NoFactKeeps ==
  ASSUME TypeOK, NEW types, NoFact(types)
  PROVE  /\ \A i \in 1..Len(journal') : journal'[i].type \in types =>
              i \in 1..Len(journal) /\ journal'[i] = journal[i]
         /\ RecordedOnce(types) => RecordedOnce(types)'
         /\ \A type \in types : \A id : Recorded(journal', Len(journal'), type, id) =>
              Recorded(journal, Len(journal), type, id)
<1>1. /\ \A i \in 1..Len(journal') : journal'[i].type \in types =>
           i \in 1..Len(journal) /\ journal'[i] = journal[i]
      /\ DOMAIN journal' = 1..Len(journal') /\ DOMAIN journal = 1..Len(journal)
  <2>1. CASE journal' = journal
    BY <2>1, JournalFacts
  <2>2. CASE \E e : e.type \notin types /\ journal' = Append(journal, e)
    <3>1. PICK e : e.type \notin types /\ journal' = Append(journal, e)
      BY <2>2
    <3> QED BY <3>1, AppendFacts
  <2> QED BY <2>1, <2>2 DEF NoFact
<1>2. RecordedOnce(types) => RecordedOnce(types)'
  BY <1>1 DEF RecordedOnce
<1>3. ASSUME NEW type \in types, NEW id, Recorded(journal', Len(journal'), type, id)
      PROVE  Recorded(journal, Len(journal), type, id)
  BY <1>1, <1>3 DEF Recorded
<1> QED BY <1>1, <1>2, <1>3

\* An event that is the first of its type for its call repeats nothing.
LEMMA FirstFactKeeps ==
  ASSUME TypeOK, NEW types, RecordedOnce(types), NEW type, NEW id, NEW n, NEW val,
         Commit(type, id, n, val), ~Recorded(journal, Len(journal), type, id)
  PROVE  RecordedOnce(types)'
<1>1. /\ Len(journal) \in Nat
      /\ DOMAIN journal = 1..Len(journal) /\ DOMAIN journal' = 1..(Len(journal) + 1)
      /\ \A i \in 1..Len(journal) : journal'[i] = journal[i]
      /\ journal'[Len(journal) + 1].type = type /\ journal'[Len(journal) + 1].id = id
  BY AppendFacts DEF Commit, Entry
<1>2. \A i \in 1..Len(journal) : ~(journal[i].type = type /\ journal[i].id = id)
  BY DEF Recorded
<1> QED BY <1>1, <1>2 DEF RecordedOnce

-----------------------------------------------------------------------------
(* Parks                                                                     *)

\* each version of the code waits for events of one type: the identity of a wait
\* leaves the type out (engine.py:502), so waits for two types share identities
WaitsFor(v, t) ==
  \E h \in Histories : Workflow[v][h].kind = "wait" /\ Workflow[v][h].name = t

OneTopicEach == \A v \in Version : \A t, u \in Topic : WaitsFor(v, t) /\ WaitsFor(v, u) => t = u

ParkTypes == {"TimerCreated", "EventWaitStarted", "WorkflowWaiting", "ExternalEventReceived"}

\* the places of a drive behind the commit of such an event
Behind(type) ==
  CASE type = "TimerCreated" -> {"timer", "await", "waiting", "park"}
    [] type = "EventWaitStarted" -> {"waiting", "park"}
    [] type = "WorkflowWaiting" -> {"park"}
    [] type = "ExternalEventReceived" -> {}

\* What a drive itself recorded of parks after its load belongs to the call it is
\* parking at, or is an event that an earlier call of the drive received.
FreshPark(d) ==
  pc[d] \in Replaying =>
    \A i \in 1..Len(journal) : i > loaded[d] /\ journal[i].type \in ParkTypes =>
      \/ journal[i].id = CallId(d) /\ pc[d] \in Behind(journal[i].type)
      \/ /\ journal[i].type = "ExternalEventReceived"
         /\ \E k \in DOMAIN calls[d] : calls[d][k] = journal[i].id

\* the calls of a drive lie below its counters
CalledOK(d) ==
  \A k \in DOMAIN calls[d] : \E m \in Name :
    /\ calls[d][k].name = (IF m \in Topic THEN "event" ELSE m)
    /\ calls[d][k].ord < ordinals[d][m]
    /\ m \in Topic => WaitsFor(code, m)

NotReceived(d) ==
  pc[d] = "receive" => ~Recorded(journal, Len(journal), "ExternalEventReceived", CallId(d))

ParksInv ==
  /\ ParkRecordedOnce
  /\ \A d \in Driver : FreshPark(d) /\ CalledOK(d) /\ NotReceived(d)

\* The wait a driver is at is none of the calls it has behind it.
LEMMA WaitIsNew ==
  ASSUME TypeOK, OneTopicEach, NEW d \in Driver, CalledOK(d), Awaited(d).kind = "wait"
  PROVE  \A k \in DOMAIN calls[d] : calls[d][k] # CallId(d)
<1> SUFFICES ASSUME NEW k \in DOMAIN calls[d], calls[d][k] = CallId(d) PROVE FALSE
  OBVIOUS
<1> DEFINE t == Awaited(d).name
<1>1. PICK m \in Name :
        /\ calls[d][k].name = (IF m \in Topic THEN "event" ELSE m)
        /\ calls[d][k].ord < ordinals[d][m]
        /\ m \in Topic => WaitsFor(code, m)
  BY DEF CalledOK
<1>2. CallId(d).name = "event" /\ CallId(d).ord = ordinals[d][t]
  BY DEF CallId
<1>3. t \in Topic /\ WaitsFor(code, t)
  BY AwaitedFacts DEF WaitsFor, Awaited, TypeOK, DriverTypeOK
<1>4. m \in Topic /\ WaitsFor(code, m)
  BY <1>1, <1>2, NamesAreDistinct DEF Name
<1>5. m = t
  <2> HIDE DEF t
  <2> QED BY <1>3, <1>4 DEF OneTopicEach, TypeOK, EnvTypeOK
<1>6. ordinals[d][t] \in Nat
  BY AwaitedFacts DEF TypeOK, DriverTypeOK
<1> QED BY <1>1, <1>2, <1>5, <1>6

\* What a replay misses of a park in the prefix it loaded, the whole journal misses.
LEMMA ParkMissIsMiss ==
  ASSUME TypeInv, OneTopicEach, NEW d \in Driver, FreshPark(d), CalledOK(d),
         NEW type \in ParkTypes, ~Hit(d, type), pc[d] \in Replaying, pc[d] \notin Behind(type),
         type = "ExternalEventReceived" => Awaited(d).kind = "wait"
  PROVE  ~Recorded(journal, Len(journal), type, CallId(d))
<1> SUFFICES ASSUME NEW i \in 1..Len(journal),
                    journal[i].type = type, journal[i].id = CallId(d)
             PROVE  FALSE
  BY DEF Recorded
<1>1. Len(journal) \in Nat /\ loaded[d] \in Nat /\ TypeOK
  BY JournalFacts DEF TypeInv, TypeOK, DriverTypeOK
<1>2. i > loaded[d]
  BY <1>1 DEF Hit, Recorded
<1>3. type = "ExternalEventReceived" /\ \E k \in DOMAIN calls[d] : calls[d][k] = CallId(d)
  BY <1>2 DEF FreshPark
<1> QED BY <1>1, <1>3, WaitIsNew

\* A drive that stays at its call and records at most a fact of it.
LEMMA ParkSameCall ==
  ASSUME TypeOK, NEW d \in Driver, FreshPark(d), CalledOK(d), pc[d] \in Replaying,
         UNCHANGED <<code, outs, ordinals, loaded, calls>>,
         \A type \in ParkTypes : pc[d] \in Behind(type) => pc'[d] \in Behind(type),
         \A i \in 1..Len(journal') : journal'[i].type \in ParkTypes =>
           \/ i \in 1..Len(journal) /\ journal'[i] = journal[i]
           \/ journal'[i].id = CallId(d) /\ pc'[d] \in Behind(journal'[i].type)
  PROVE  FreshPark(d)' /\ CalledOK(d)'
<1>1. CallId(d)' = CallId(d)
  BY SameCall
<1>2. FreshPark(d)'
  <2> SUFFICES ASSUME NEW i \in 1..Len(journal'), i > loaded[d], journal'[i].type \in ParkTypes
               PROVE  \/ journal'[i].id = CallId(d) /\ pc'[d] \in Behind(journal'[i].type)
                      \/ /\ journal'[i].type = "ExternalEventReceived"
                         /\ \E k \in DOMAIN calls[d] : calls[d][k] = journal'[i].id
    BY <1>1 DEF FreshPark
  <2> QED BY DEF FreshPark
<1>3. CalledOK(d)'
  BY DEF CalledOK
<1> QED BY <1>2, <1>3

\* A drive that goes on to its next call.
LEMMA ParkNextCall ==
  ASSUME TypeInv, NEW d \in Driver, NEW o, FreshPark(d), CalledOK(d), Observe(d, o),
         code' = code, pc[d] \in {"replay", "body", "returned", "receive"},
         Awaited(d).kind \in {"task", "sleep", "wait"},
         \A i \in 1..Len(journal') : journal'[i].type \in ParkTypes =>
           \/ i \in 1..Len(journal) /\ journal'[i] = journal[i]
           \/ journal'[i].type = "ExternalEventReceived" /\ journal'[i].id = CallId(d)
  PROVE  FreshPark(d)' /\ CalledOK(d)' /\ NotReceived(d)'
<1> DEFINE name == Awaited(d).name
<1>0. TypeOK /\ DriverTypeOK /\ name \in Name /\ CallId(d) \in Identity
  BY AwaitedFacts DEF TypeInv, TypeOK
<1>1. pc'[d] = "replay" /\ loaded'[d] = loaded[d]
  BY <1>0 DEF DriverTypeOK, Observe, GoTo
<1>2. \A m \in Name : ordinals'[d][m] = IF m = name THEN ordinals[d][m] + 1 ELSE ordinals[d][m]
  <2>1. ordinals' = [ordinals EXCEPT ![d][name] = @ + 1]
    BY DEF Observe
  <2> HIDE DEF name
  <2> QED BY <1>0, <2>1 DEF DriverTypeOK
<1>3. /\ Len(calls[d]) \in Nat /\ DOMAIN calls[d] = 1..Len(calls[d])
      /\ DOMAIN calls'[d] = 1..(Len(calls[d]) + 1)
      /\ \A k \in 1..Len(calls[d]) : calls'[d][k] = calls[d][k]
      /\ calls'[d][Len(calls[d]) + 1] = CallId(d)
  <2>1. calls'[d] = Append(calls[d], CallId(d)) /\ calls[d] \in Seq(Identity)
    BY <1>0 DEF Observe, DriverTypeOK
  <2> QED BY <1>0, <2>1, AppendProperties, LenProperties
<1>4. FreshPark(d)'
  <2> SUFFICES ASSUME NEW i \in 1..Len(journal'), i > loaded[d], journal'[i].type \in ParkTypes
               PROVE  /\ journal'[i].type = "ExternalEventReceived"
                      /\ \E k \in DOMAIN calls'[d] : calls'[d][k] = journal'[i].id
    BY <1>1 DEF FreshPark
  <2>1. CASE journal'[i].type = "ExternalEventReceived" /\ journal'[i].id = CallId(d)
    BY <1>3, <2>1
  <2>2. CASE i \in 1..Len(journal) /\ journal'[i] = journal[i]
    <3>1. pc[d] \in Replaying /\ pc[d] \notin Behind(journal[i].type)
      BY <2>2 DEF Behind, ParkTypes, Replaying, Pc
    <3>2. /\ journal[i].type = "ExternalEventReceived"
          /\ \E k \in DOMAIN calls[d] : calls[d][k] = journal[i].id
      BY <2>2, <3>1 DEF FreshPark
    <3> QED BY <1>3, <2>2, <3>2
  <2> QED BY <2>1, <2>2
<1>5. CalledOK(d)'
  <2> SUFFICES ASSUME NEW k \in 1..(Len(calls[d]) + 1)
               PROVE  \E m \in Name :
                        /\ calls'[d][k].name = (IF m \in Topic THEN "event" ELSE m)
                        /\ calls'[d][k].ord < ordinals'[d][m]
                        /\ m \in Topic => WaitsFor(code, m)
    BY <1>3 DEF CalledOK
  <2>1. CASE k = Len(calls[d]) + 1
    <3>1. calls'[d][k] = CallId(d)
      BY <1>3, <2>1
    <3>2. ordinals[d][name] \in Nat /\ ordinals'[d][name] = ordinals[d][name] + 1
      BY <1>0, <1>2 DEF DriverTypeOK
    <3>3. CallId(d).ord < ordinals'[d][name]
      BY <3>2 DEF CallId
    <3>4. /\ CallId(d).name = (IF name \in Topic THEN "event" ELSE name)
          /\ name \in Topic => Awaited(d).kind = "wait"
      <4>1. IsCode(Workflow[code]) /\ outs[d] \in Histories
        BY <1>0, WorkflowsAreCode DEF TypeOK, EnvTypeOK, DriverTypeOK
      <4>2. /\ Awaited(d).kind = "task" => name \in Task
            /\ Awaited(d).kind = "sleep" => name = "sleep"
            /\ Awaited(d).kind = "wait" => name \in Topic
        BY <4>1 DEF IsCode, Awaited
      <4> QED BY <4>2, NamesAreDistinct DEF CallId
    <3>5. name \in Topic => WaitsFor(code, name)
      BY <1>0, <3>4 DEF WaitsFor, Awaited, DriverTypeOK
    <3> HIDE DEF name
    <3> QED BY <1>0, <3>1, <3>3, <3>4, <3>5
  <2>2. CASE k \in 1..Len(calls[d])
    <3>1. PICK m \in Name :
            /\ calls[d][k].name = (IF m \in Topic THEN "event" ELSE m)
            /\ calls[d][k].ord < ordinals[d][m]
            /\ m \in Topic => WaitsFor(code, m)
      BY <1>3, <2>2 DEF CalledOK
    <3>2. calls'[d][k] = calls[d][k] /\ calls[d][k].ord \in Nat
      <4>1. calls[d] \in Seq(Identity)
        BY <1>0 DEF DriverTypeOK
      <4>2. calls[d][k] \in Identity
        BY <4>1, <2>2, ElementOfSeq
      <4> QED BY <1>3, <2>2, <4>2 DEF Identity
    <3>3. ordinals[d][m] \in Nat /\ ordinals'[d][m] >= ordinals[d][m]
      <4>1. ordinals[d][m] \in Nat
        BY <1>0 DEF DriverTypeOK
      <4>2. ordinals'[d][m] \in {ordinals[d][m], ordinals[d][m] + 1}
        BY <1>2
      <4> QED BY <4>1, <4>2
    <3>4. calls[d][k].ord < ordinals'[d][m]
      BY <1>2, <3>1, <3>2, <3>3
    <3> QED BY <3>1, <3>2, <3>4
  <2> QED BY <1>3, <2>1, <2>2
<1>6. NotReceived(d)'
  BY <1>1 DEF NotReceived
<1> QED BY <1>4, <1>5, <1>6

\* The steps of a driver that record nothing of a park, by what they do to its drive.
LEMMA OtherParkSteps ==
  ASSUME TypeInv, NEW d \in Driver,
         Control(d) \/ Drive(d) \/ RefuseReplay(d) \/ Park(d) \/ CallTask(d) \/ CallPrimitive(d),
         ~RecordEvent(d), ~CreateTimer(d), ~EnsureTimerRow(d), ~StartWait(d), ~RecordWaiting(d),
         ~ConsumeEvent(d)
  PROVE  /\ NoFact(ParkTypes) /\ code' = code
         /\ \/ /\ pc'[d] \notin Replaying
               /\ calls'[d] = <<>> \/ UNCHANGED <<calls, ordinals>>
            \/ DriveLoad(d)
            \/ /\ \E o : Observe(d, o)
               /\ pc[d] \in {"replay", "body", "returned"}
               /\ Awaited(d).kind \in {"task", "sleep", "wait"}
            \/ /\ UNCHANGED <<code, outs, ordinals, loaded, calls>>
               /\ pc[d] \in Executing \cup {"replay"} /\ pc'[d] \in Executing
<1>0. /\ TypeOK /\ pc \in [Driver -> Pc] /\ DriverOK(d)
      /\ calls \in [Driver -> Seq(Identity)]
  BY DEF TypeInv, TypeOK, DriverTypeOK, DriversOK
<1>1. \/ journal' = journal
      \/ \E type \in EventType \ ParkTypes : \E id, n, val : Commit(type, id, n, val)
  BY DEF Control, Drive, CallTask, CallPrimitive, StartRun, RecordCreated, ResumeRun, WakeRun,
         Redrive, CancelRun, SettleStatus, DriveTerminal, DriveLoad, Return, Raise, RefuseReplay,
         Park, ReuseResult, Schedule, StartAttempt, RunBody, Complete, FailAttempt, Backoff,
         SleepOver, ReuseEvent, ReuseTimeout, store, EventType, ParkTypes
<1>2. NoFact(ParkTypes)
  <2>1. CASE journal' = journal
    BY <2>1 DEF NoFact
  <2>2. ASSUME NEW type \in EventType \ ParkTypes, NEW id, NEW n, NEW val, Commit(type, id, n, val)
        PROVE  NoFact(ParkTypes)
    <3>1. journal' = Append(journal, Entry(type, id, n, val))
      BY <2>2 DEF Commit
    <3>2. Entry(type, id, n, val).type \notin ParkTypes
      BY DEF Entry
    <3> QED BY <3>1, <3>2 DEF NoFact
  <2> QED BY <1>1, <2>1, <2>2
<1>3. code' = code
  BY DEF Control, Drive, CallTask, CallPrimitive, StartRun, RecordCreated, ResumeRun, WakeRun,
         Redrive, CancelRun, SettleStatus, DriveTerminal, DriveLoad, Return, Raise, RefuseReplay,
         Park, ReuseResult, Schedule, StartAttempt, RunBody, Complete, FailAttempt, Backoff,
         SleepOver, ReuseEvent, ReuseTimeout, env
<1>4. CASE Control(d) \/ DriveTerminal(d) \/ Return(d) \/ Raise(d) \/ RefuseReplay(d) \/ Park(d)
  <2>1. pc'[d] \in {"idle", "create", "drive", "settle"}
    BY <1>0, <1>4 DEF Control, StartRun, RecordCreated, ResumeRun, WakeRun, CancelRun,
                      Redrive, SettleStatus, DriveTerminal, Return, Raise, RefuseReplay, Park,
                      Release, GoTo, Suspend
  <2>2. calls'[d] = <<>> \/ UNCHANGED <<calls, ordinals>>
    BY <1>0, <1>4 DEF Control, StartRun, RecordCreated, ResumeRun, WakeRun, CancelRun,
                      Redrive, SettleStatus, DriveTerminal, Return, Raise, RefuseReplay, Park,
                      Release, frame
  <2>3. \/ pc'[d] = "create" \/ pc'[d] \notin Replaying
    BY <2>1 DEF Replaying
  <2> QED BY <1>2, <1>3, <2>1, <2>2 DEF Replaying
<1>5. CASE ReuseResult(d) \/ SleepOver(d) \/ ReuseEvent(d) \/ ReuseTimeout(d) \/ Complete(d)
  <2>1. \E o : Observe(d, o)
    BY <1>5 DEF ReuseResult, SleepOver, ReuseEvent, ReuseTimeout, Complete
  <2>2. pc[d] \in {"replay", "returned"} /\ Awaited(d).kind \in {"task", "sleep", "wait"}
    BY <1>0, <1>5 DEF ReuseResult, SleepOver, ReuseEvent, ReuseTimeout, Complete, CallAllowed,
                      Awaits, At, Executing, DriverOK
  <2> QED BY <1>2, <1>3, <2>1, <2>2
<1>6. CASE StartAttempt(d) \/ RunBody(d) \/ Backoff(d) \/ Schedule(d)
  <2>1. UNCHANGED <<outs, ordinals, loaded, calls>>
    BY <1>6 DEF StartAttempt, RunBody, Backoff, Schedule, frame
  <2>2. pc[d] \in Executing \cup {"replay"} /\ pc'[d] \in Executing
    BY <1>0, <1>6 DEF StartAttempt, RunBody, Backoff, Schedule, CallAllowed, Awaits, At, GoTo,
                      Suspend, Executing
  <2> QED BY <1>2, <1>3, <2>1, <2>2
<1>7. CASE FailAttempt(d)
  <2>1. pc[d] \in {"body", "returned"} /\ pc[d] \in Executing /\ Awaited(d).kind = "task"
    BY <1>0, <1>7 DEF FailAttempt, At, Executing, DriverOK
  <2>2. CASE RetriesLeft(d)
    <3>1. UNCHANGED <<outs, ordinals, loaded, calls>> /\ pc'[d] \in Executing
      BY <1>0, <1>7, <2>2 DEF FailAttempt, Suspend, Executing
    <3> QED BY <1>2, <1>3, <2>1, <3>1
  <2>3. CASE ~RetriesLeft(d)
    BY <1>2, <1>3, <1>7, <2>1, <2>3 DEF FailAttempt
  <2> QED BY <2>2, <2>3
<1> QED
  BY <1>2, <1>3, <1>4, <1>5, <1>6, <1>7 DEF Drive, CallTask, CallPrimitive

\* The steps of a park: the call stays, and at most one fact of it is recorded.
LEMMA ParkingStep ==
  ASSUME TypeInv, OneTopicEach, NEW d \in Driver, ParkRecordedOnce, FreshPark(d), CalledOK(d),
         \/ CreateTimer(d) \/ EnsureTimerRow(d) \/ StartWait(d) \/ RecordWaiting(d)
  PROVE  ParkRecordedOnce' /\ FreshPark(d)' /\ CalledOK(d)' /\ NotReceived(d)'
<1>0. TypeOK /\ pc \in [Driver -> Pc] /\ DriverOK(d) /\ pc[d] \in Replaying
  BY DEF TypeInv, TypeOK, DriverTypeOK, DriversOK, CreateTimer, EnsureTimerRow, StartWait,
         RecordWaiting, Parks, WaitMisses, Awaits, At, Replaying, Pc
<1>1. UNCHANGED <<code, outs, ordinals, loaded, calls>>
  BY DEF CreateTimer, EnsureTimerRow, StartWait, RecordWaiting, env, frame
<1>2. \A type \in ParkTypes : pc[d] \in Behind(type) => pc'[d] \in Behind(type)
  BY <1>0 DEF CreateTimer, EnsureTimerRow, StartWait, RecordWaiting, Parks, WaitMisses, Awaits,
              At, GoTo, Behind, ParkTypes
<1>3. NotReceived(d)'
  BY <1>0 DEF NotReceived, CreateTimer, EnsureTimerRow, StartWait, RecordWaiting, GoTo
<1>4. CASE journal' = journal
  <2>1. FreshPark(d)' /\ CalledOK(d)'
    BY <1>0, <1>1, <1>2, <1>4, ParkSameCall
  <2> QED BY <1>3, <1>4, <2>1 DEF ParkRecordedOnce, RecordedOnce
<1>5. ASSUME NEW type \in {"TimerCreated", "EventWaitStarted", "WorkflowWaiting"}, NEW n, NEW val,
             Commit(type, CallId(d), n, val), ~Hit(d, type), pc[d] \notin Behind(type),
             pc'[d] \in Behind(type)
      PROVE  ParkRecordedOnce' /\ FreshPark(d)' /\ CalledOK(d)'
  <2>1. type \in ParkTypes /\ ~Recorded(journal, Len(journal), type, CallId(d))
    BY <1>0, <1>5, ParkMissIsMiss DEF ParkTypes
  <2>2. ParkRecordedOnce'
    BY <1>0, <1>5, <2>1, FirstFactKeeps DEF ParkRecordedOnce
  <2>3. \A i \in 1..Len(journal') :
          \/ i \in 1..Len(journal) /\ journal'[i] = journal[i]
          \/ journal'[i].id = CallId(d) /\ journal'[i].type = type
    BY <1>0, <1>5, AppendFacts DEF Commit, Entry
  <2>4. FreshPark(d)' /\ CalledOK(d)'
    BY <1>0, <1>1, <1>2, <1>5, <2>3, ParkSameCall
  <2> QED BY <2>2, <2>4
<1>6. CASE CreateTimer(d)
  <2>1. pc[d] = "replay" /\ pc'[d] = "timer"
    BY <1>0, <1>6 DEF CreateTimer, Parks, WaitMisses, Awaits, At, GoTo
  <2>2. \/ journal' = journal
        \/ ~Hit(d, "TimerCreated") /\ \E n, val : Commit("TimerCreated", CallId(d), n, val)
    BY <1>6 DEF CreateTimer
  <2> QED BY <1>3, <1>4, <1>5, <2>1, <2>2 DEF Behind
<1>7. CASE EnsureTimerRow(d)
  BY <1>4, <1>7 DEF EnsureTimerRow
<1>8. CASE StartWait(d)
  <2>1. pc[d] \in {"replay", "await"} /\ pc'[d] = "waiting"
    BY <1>0, <1>8 DEF StartWait, Parks, WaitMisses, Awaits, At, GoTo
  <2>2. \/ journal' = journal
        \/ ~Hit(d, "EventWaitStarted") /\ \E n, val : Commit("EventWaitStarted", CallId(d), n, val)
    BY <1>8 DEF StartWait
  <2> QED BY <1>3, <1>4, <1>5, <2>1, <2>2 DEF Behind
<1>9. CASE RecordWaiting(d)
  <2>1. pc[d] = "waiting" /\ pc'[d] = "park"
    BY <1>0, <1>9 DEF RecordWaiting, At, GoTo
  <2>2. \/ journal' = journal
        \/ ~Hit(d, "WorkflowWaiting") /\ \E n, val : Commit("WorkflowWaiting", CallId(d), n, val)
    BY <1>9 DEF RecordWaiting
  <2> QED BY <1>3, <1>4, <1>5, <2>1, <2>2 DEF Behind
<1> QED BY <1>6, <1>7, <1>8, <1>9

\* A buffered event is consumed, and then recorded.
LEMMA ReceiveStep ==
  ASSUME TypeInv, OneTopicEach, NEW d \in Driver, ParkRecordedOnce, FreshPark(d), CalledOK(d),
         NotReceived(d), ConsumeEvent(d) \/ RecordEvent(d)
  PROVE  ParkRecordedOnce' /\ FreshPark(d)' /\ CalledOK(d)' /\ NotReceived(d)'
<1>0. TypeOK /\ pc \in [Driver -> Pc] /\ DriverOK(d)
  BY DEF TypeInv, TypeOK, DriverTypeOK, DriversOK
<1>1. CASE ConsumeEvent(d)
  <2>1. /\ pc[d] = "replay" /\ pc'[d] = "receive" /\ Awaited(d).kind = "wait" /\ journal' = journal
        /\ ~Hit(d, "ExternalEventReceived") /\ UNCHANGED <<code, outs, ordinals, loaded, calls>>
    BY <1>0, <1>1 DEF ConsumeEvent, WaitMisses, Awaits, At, GoTo, env, frame
  <2>2. pc[d] \in Replaying /\ \A type \in ParkTypes : pc[d] \notin Behind(type)
    BY <2>1 DEF Replaying, Pc, Behind, ParkTypes
  <2>3. "ExternalEventReceived" \in ParkTypes
    BY DEF ParkTypes
  <2>4. ~Recorded(journal, Len(journal), "ExternalEventReceived", CallId(d))
    BY <1>0, <2>1, <2>2, <2>3, ParkMissIsMiss
  <2>5. FreshPark(d)' /\ CalledOK(d)'
    BY <1>0, <2>1, <2>2, ParkSameCall
  <2>6. NotReceived(d)'
    BY <2>1, <2>4, SameCall DEF NotReceived
  <2> QED BY <2>1, <2>5, <2>6 DEF ParkRecordedOnce, RecordedOnce
<1>2. CASE RecordEvent(d)
  <2>1. /\ pc[d] = "receive" /\ Awaited(d).kind = "wait" /\ code' = code
        /\ Commit("ExternalEventReceived", CallId(d), 0, Awaited(d).name)
        /\ Observe(d, Awaited(d).name)
    BY <1>0, <1>2 DEF RecordEvent, At, DriverOK, env
  <2>2. ParkRecordedOnce'
    BY <1>0, <2>1, FirstFactKeeps DEF ParkRecordedOnce, NotReceived
  <2>3. \A i \in 1..Len(journal') :
          \/ i \in 1..Len(journal) /\ journal'[i] = journal[i]
          \/ journal'[i].type = "ExternalEventReceived" /\ journal'[i].id = CallId(d)
    BY <1>0, <2>1, AppendFacts DEF Commit, Entry
  <2>4. FreshPark(d)' /\ CalledOK(d)' /\ NotReceived(d)'
    BY <1>0, <2>1, <2>3, ParkNextCall
  <2> QED BY <2>2, <2>4
<1> QED BY <1>1, <1>2

LEMMA ParksStep ==
  ASSUME OneDriver, OneTopicEach, TypeInv, ParksInv, [Next]_vars
  PROVE  ParksInv'
<1>0. TypeOK /\ DriverTypeOK /\ ParkRecordedOnce
  BY DEF TypeInv, TypeOK, ParksInv
<1>1. ASSUME NEW d \in Driver, ParkRecordedOnce', FreshPark(d)', CalledOK(d)', NotReceived(d)'
      PROVE  ParksInv'
  <2>1. \A e \in Driver : e = d
    BY DEF OneDriver
  <2> QED BY <1>1, <2>1 DEF ParksInv
<1>2. ASSUME NoFact(ParkTypes)
      PROVE  /\ ParkRecordedOnce'
             /\ \A id : Recorded(journal', Len(journal'), "ExternalEventReceived", id) =>
                  Recorded(journal, Len(journal), "ExternalEventReceived", id)
  BY <1>0, <1>2, NoFactKeeps DEF ParkRecordedOnce, ParkTypes
<1>3. ASSUME NEW d \in Driver,
             \/ CreateTimer(d) \/ EnsureTimerRow(d) \/ StartWait(d) \/ RecordWaiting(d)
             \/ ConsumeEvent(d) \/ RecordEvent(d)
      PROVE  ParksInv'
  BY <1>0, <1>1, <1>3, ParkingStep, ReceiveStep DEF ParksInv
<1>4. ASSUME NEW d \in Driver,
             Control(d) \/ Drive(d) \/ RefuseReplay(d) \/ Park(d) \/ CallTask(d) \/ CallPrimitive(d),
             ~RecordEvent(d), ~CreateTimer(d), ~EnsureTimerRow(d), ~StartWait(d), ~RecordWaiting(d),
             ~ConsumeEvent(d)
      PROVE  ParksInv'
  <2>1. NoFact(ParkTypes) /\ code' = code
    BY <1>4, OtherParkSteps
  <2>2. FreshPark(d) /\ CalledOK(d) /\ NotReceived(d)
    BY DEF ParksInv
  <2>3. CASE pc'[d] \notin Replaying /\ (calls'[d] = <<>> \/ UNCHANGED <<calls, ordinals>>)
    <3>1. FreshPark(d)' /\ NotReceived(d)'
      BY <2>3 DEF FreshPark, NotReceived, Replaying, Pc
    <3>2. CalledOK(d)'
      BY <2>1, <2>2, <2>3 DEF CalledOK
    <3> QED BY <1>1, <1>2, <2>1, <3>1, <3>2
  <2>4. CASE DriveLoad(d)
    <3>1. /\ pc'[d] = "replay" /\ loaded'[d] = Len(journal) /\ journal' = journal
          /\ UNCHANGED <<calls, ordinals>>
      BY <1>0, <2>4 DEF DriveLoad, GoTo, store, DriverTypeOK
    <3>2. FreshPark(d)' /\ NotReceived(d)' /\ CalledOK(d)'
      BY <1>0, <2>1, <2>2, <3>1, JournalFacts DEF FreshPark, NotReceived, CalledOK
    <3> QED BY <1>1, <1>2, <2>1, <3>2
  <2>5. CASE /\ \E o : Observe(d, o)
             /\ pc[d] \in {"replay", "body", "returned"}
             /\ Awaited(d).kind \in {"task", "sleep", "wait"}
    <3>1. PICK o : Observe(d, o)
      BY <2>5
    <3>2. FreshPark(d)' /\ CalledOK(d)' /\ NotReceived(d)'
      BY <1>0, <2>1, <2>2, <2>5, <3>1, NoFactKeeps, ParkNextCall
    <3> QED BY <1>1, <1>2, <2>1, <3>2
  <2>6. CASE /\ UNCHANGED <<code, outs, ordinals, loaded, calls>>
             /\ pc[d] \in Executing \cup {"replay"} /\ pc'[d] \in Executing
    <3>1. /\ pc[d] \in Replaying /\ \A type \in ParkTypes : pc[d] \notin Behind(type)
          /\ pc'[d] # "receive"
      BY <2>6 DEF Executing, Replaying, Pc, Behind, ParkTypes
    <3>2. FreshPark(d)' /\ CalledOK(d)'
      BY <1>0, <2>1, <2>2, <2>6, <3>1, NoFactKeeps, ParkSameCall
    <3> QED BY <1>1, <1>2, <2>1, <3>1, <3>2 DEF NotReceived
  <2> QED BY <1>4, <2>3, <2>4, <2>5, <2>6, OtherParkSteps
<1>5. CASE \/ \E row \in timers : FireTimer(row) \/ SettleTimer(row)
           \/ (\E t \in Topic : SendEvent(t)) \/ PassTime \/ UNCHANGED vars
  <2>1. UNCHANGED <<code, pc, outs, ordinals, loaded, calls>>
    BY <1>5 DEF FireTimer, SettleTimer, SendEvent, PassTime, vars, env, frame
  <2>2. NoFact(ParkTypes)
    BY <1>5 DEF FireTimer, SettleTimer, SendEvent, PassTime, vars, store, NoFact,
                ParkTypes, Commit, Entry
  <2>3. ASSUME NEW d \in Driver PROVE FreshPark(d)' /\ CalledOK(d)' /\ NotReceived(d)'
    <3>1. CalledOK(d)'
      BY <2>1 DEF ParksInv, CalledOK
    <3>2. NotReceived(d)'
      BY <1>2, <2>1, <2>2, SameCall DEF ParksInv, NotReceived
    <3>3. FreshPark(d)'
      <4>1. CASE pc[d] \in Replaying
        BY <1>0, <2>1, <2>2, <4>1, NoFactKeeps, ParkSameCall DEF ParksInv
      <4>2. CASE pc[d] \notin Replaying
        BY <2>1, <4>2 DEF FreshPark
      <4> QED BY <4>1, <4>2
    <3> QED BY <3>1, <3>2, <3>3
  <2> QED BY <1>2, <2>2, <2>3 DEF ParksInv
<1>6. CASE Crash
  <2>1. journal' = journal /\ \A d \in Driver : pc'[d] = "idle" /\ calls'[d] = <<>>
    BY <1>6 DEF Crash, store
  <2> QED
    BY <1>0, <2>1 DEF ParksInv, ParkRecordedOnce, RecordedOnce, FreshPark, CalledOK, NotReceived,
                      Replaying
<1> QED
  BY <1>3, <1>4, <1>5, <1>6 DEF Next

-----------------------------------------------------------------------------
(* What a park leaves on disk, for any number of drivers                     *)

HasRow(id) == \E row \in timers : row.id = id

\* every timers row is the one its TimerCreated implies
TimersOK ==
  \A row \in timers :
    /\ row.timer_id \in 1..Len(journal)
    /\ journal[row.timer_id].type = "TimerCreated"
    /\ journal[row.timer_id].id = row.id
    /\ journal[row.timer_id].n = row.fire_at
    /\ journal[row.timer_id].val = row.kind

Written(d, type) == Recorded(journal, Len(journal), type, CallId(d))

\* what a drive has written by the place it has reached in a park
PlaceOK(d) ==
  /\ pc[d] = "await" => HasRow(CallId(d))
  /\ pc[d] \in {"waiting", "park"} =>
       /\ Awaited(d).kind = "wait" => Written(d, "EventWaitStarted")
       /\ Awaited(d).kind = "sleep" \/ Awaited(d).after # 0 => HasRow(CallId(d))
  /\ pc[d] = "park" => Written(d, "WorkflowWaiting")

PlacesInv == TimersOK /\ \A d \in Driver : PlaceOK(d)

RowsStay == \A row \in timers : \E r \in timers' : r.id = row.id

\* A step appends at most one event, and a driver's step leaves the other drives alone.
LEMMA StepAppends == ASSUME TypeOK, [Next]_vars PROVE NoFact({})
  BY DEF Next, Control, Drive, CallTask, CallPrimitive, StartRun, RecordCreated, ResumeRun,
         WakeRun, Redrive, FireTimer, SettleTimer, CancelRun, SettleStatus, DriveTerminal,
         DriveLoad, Return, Raise, RefuseReplay, Park, ReuseResult, Schedule, StartAttempt,
         RunBody, Complete, FailAttempt, Backoff, SleepOver, ReuseEvent, ReuseTimeout,
         ConsumeEvent, RecordEvent, CreateTimer, EnsureTimerRow, StartWait, RecordWaiting,
         SendEvent, PassTime, Crash, vars, store, NoFact, Commit

LEMMA StepGrows == ASSUME TypeOK, [Next]_vars PROVE Grows
<1>1. CASE journal' = journal
  BY <1>1, JournalFacts DEF Grows
<1>2. CASE \E e : journal' = Append(journal, e)
  <2>1. PICK e : journal' = Append(journal, e)
    BY <1>2
  <2> QED BY <2>1, AppendFacts DEF Grows
<1> QED BY <1>1, <1>2, StepAppends DEF NoFact

\* What a driver's step does to its place and its frames.
LEMMA DriverMoves ==
  ASSUME TypeOK, NEW d \in Driver,
         Control(d) \/ Drive(d) \/ RefuseReplay(d) \/ Park(d) \/ CallTask(d) \/ CallPrimitive(d)
  PROVE  /\ code' = code /\ crashes' = crashes
         /\ \/ \E o : Observe(d, o)
            \/ Release(d)
            \/ \E p : (GoTo(d, p) \/ Suspend(d, p)) /\ UNCHANGED <<outs, ordinals>>
                      /\ \E n : loaded' = [loaded EXCEPT ![d] = n]
<1>0. DriverTypeOK
  BY DEF TypeOK
<1>1. code' = code /\ crashes' = crashes
  BY DEF Control, Drive, CallTask, CallPrimitive, StartRun, RecordCreated, ResumeRun,
         WakeRun, Redrive, CancelRun, SettleStatus, DriveTerminal, DriveLoad, Return, Raise,
         RefuseReplay, Park, ReuseResult, Schedule, StartAttempt, RunBody, Complete, FailAttempt,
         Backoff, SleepOver, ReuseEvent, ReuseTimeout, ConsumeEvent, RecordEvent, CreateTimer,
         EnsureTimerRow, StartWait, RecordWaiting, env
<1>2. \/ \E o : Observe(d, o)
      \/ Release(d)
      \/ \E p : (GoTo(d, p) \/ Suspend(d, p)) /\ UNCHANGED <<outs, ordinals>>
                /\ \E n : loaded' = [loaded EXCEPT ![d] = n]
  BY <1>0 DEF Control, Drive, CallTask, CallPrimitive, StartRun, RecordCreated, ResumeRun,
         WakeRun, Redrive, CancelRun, SettleStatus, DriveTerminal, DriveLoad, Return, Raise,
         RefuseReplay, Park, ReuseResult, Schedule, StartAttempt, RunBody, Complete, FailAttempt,
         Backoff, SleepOver, ReuseEvent, ReuseTimeout, ConsumeEvent, RecordEvent, CreateTimer,
         EnsureTimerRow, StartWait, RecordWaiting, frame, DriverTypeOK
<1> QED BY <1>1, <1>2

LEMMA OthersAreLeft ==
  ASSUME TypeOK, NEW d \in Driver,
         Control(d) \/ Drive(d) \/ RefuseReplay(d) \/ Park(d) \/ CallTask(d) \/ CallPrimitive(d)
  PROVE  code' = code /\ OthersStay(d)
<1>0. DriverTypeOK
  BY DEF TypeOK
<1>1. /\ code' = code
      /\ \/ \E o : Observe(d, o)
         \/ Release(d)
         \/ \E p : (GoTo(d, p) \/ Suspend(d, p)) /\ UNCHANGED <<outs, ordinals>>
                   /\ \E n : loaded' = [loaded EXCEPT ![d] = n]
  BY DriverMoves
<1> QED BY <1>0, <1>1 DEF OthersStay, Observe, Release, GoTo, Suspend, DriverTypeOK

\* A driver that does not move keeps what it has written.
LEMMA PlaceStays ==
  ASSUME TypeOK, NEW d \in Driver, PlaceOK(d), Grows, RowsStay, code' = code,
         pc'[d] = pc[d], outs'[d] = outs[d], ordinals'[d] = ordinals[d]
  PROVE  PlaceOK(d)'
<1>1. Awaited(d)' = Awaited(d) /\ CallId(d)' = CallId(d)
  BY DEF Awaited, CallId
<1>2. HasRow(CallId(d)) => HasRow(CallId(d))'
  BY <1>1 DEF HasRow, RowsStay
<1>3. \A type : Written(d, type) => Written(d, type)'
  BY <1>1, StaysRecorded DEF Written
<1> QED BY <1>1, <1>2, <1>3 DEF PlaceOK

\* The rows keep the deadlines of their events.
LEMMA RowsKeep ==
  ASSUME TypeInv, TimersOK, [Next]_vars
  PROVE  TimersOK' /\ RowsStay
<1>0. TypeOK /\ Grows
  BY StepGrows DEF TypeInv
<1>1. \A i \in 1..Len(journal) : i \in 1..Len(journal') /\ journal'[i] = journal[i]
  BY <1>0, JournalFacts DEF Grows
<1> DEFINE OK(r) == /\ r.timer_id \in 1..Len(journal)
                    /\ journal[r.timer_id].type = "TimerCreated"
                    /\ journal[r.timer_id].id = r.id
                    /\ journal[r.timer_id].n = r.fire_at
                    /\ journal[r.timer_id].val = r.kind
<1>2. ASSUME \A r \in timers' : OK(r) PROVE TimersOK'
  BY <1>1, <1>2 DEF TimersOK
<1>3. CASE timers' = timers
  BY <1>2, <1>3 DEF TimersOK, RowsStay
<1>4. ASSUME NEW d \in Driver, EnsureTimerRow(d)
      PROVE  TimersOK' /\ RowsStay
  <2>1. /\ KnownTimer(d) \in 1..Len(journal)
        /\ journal[KnownTimer(d)].type = "TimerCreated"
    BY <1>4, KnownTimerFacts DEF EnsureTimerRow, At
  <2>2. OK(RowOf(d))
    BY <2>1 DEF RowOf
  <2>3. timers' = timers \/ timers' = timers \cup {RowOf(d)}
    BY <1>4 DEF EnsureTimerRow
  <2> QED BY <1>2, <2>2, <2>3 DEF TimersOK, RowsStay
<1>5. ASSUME NEW row \in timers, SettleTimer(row)
      PROVE  TimersOK' /\ RowsStay
  <2>1. PICK s : timers' = (timers \ {row}) \cup {[row EXCEPT !.status = s]}
    BY <1>5 DEF SettleTimer, SetTimerStatus
  <2> DEFINE r == [row EXCEPT !.status = s]
  <2>2. row \in TimerRow
    BY <1>0 DEF TypeOK, StoreTypeOK
  <2>3. r.timer_id = row.timer_id /\ r.id = row.id /\ r.fire_at = row.fire_at /\ r.kind = row.kind
    BY <2>2 DEF TimerRow
  <2> HIDE DEF r
  <2>4. timers' = (timers \ {row}) \cup {r}
    BY <2>1 DEF r
  <2>5. OK(r)
    BY <2>3 DEF TimersOK
  <2> QED BY <1>2, <2>3, <2>4, <2>5 DEF TimersOK, RowsStay
<1> QED
  BY <1>3, <1>4, <1>5
     DEF Next, Control, Drive, CallTask, CallPrimitive, StartRun, RecordCreated, ResumeRun,
         WakeRun, Redrive, FireTimer, CancelRun, SettleStatus, DriveTerminal,
         DriveLoad, Return, Raise, RefuseReplay, Park, ReuseResult, Schedule, StartAttempt,
         RunBody, Complete, FailAttempt, Backoff, SleepOver, ReuseEvent, ReuseTimeout,
         ConsumeEvent, RecordEvent, CreateTimer, StartWait, RecordWaiting,
         SendEvent, PassTime, Crash, vars, store

\* The steps that leave a driver behind a write of its park.
LEMMA OwnPlaceStep ==
  ASSUME TypeInv, TimersOK, RowsStay, NEW d \in Driver, PlaceOK(d), [Next]_vars,
         EnsureTimerRow(d) \/ StartWait(d) \/ RecordWaiting(d)
  PROVE  PlaceOK(d)'
<1>0. TypeOK /\ pc \in [Driver -> Pc] /\ DriverOK(d) /\ Grows /\ loaded[d] \in Nat
  BY StepGrows DEF TypeInv, TypeOK, DriverTypeOK, DriversOK
<1>1. Awaited(d)' = Awaited(d) /\ CallId(d)' = CallId(d)
  BY SameCall DEF EnsureTimerRow, StartWait, RecordWaiting, env, frame
<1>2. HasRow(CallId(d)) => HasRow(CallId(d))'
  BY <1>1 DEF HasRow, RowsStay
<1>3. \A type : Written(d, type) => Written(d, type)'
  BY <1>0, <1>1, StaysRecorded DEF Written
<1>4. ASSUME NEW type, NEW n, NEW val, Hit(d, type) \/ Commit(type, CallId(d), n, val)
      PROVE  Written(d, type)'
  <2>1. CASE Hit(d, type)
    <3>1. Len(journal) \in Nat /\ loaded[d] <= Len(journal)
      BY <1>0, JournalFacts DEF DriverOK
    <3>2. Written(d, type)
      BY <1>0, <2>1, <3>1 DEF Hit, Recorded, Written
    <3> QED BY <1>3, <3>2
  <2>2. CASE Commit(type, CallId(d), n, val)
    <3>1. /\ Len(journal) \in Nat /\ Len(journal') = Len(journal) + 1
          /\ journal'[Len(journal) + 1].type = type /\ journal'[Len(journal) + 1].id = CallId(d)
      BY <1>0, <2>2, AppendFacts DEF Commit, Entry
    <3> QED BY <1>1, <3>1 DEF Written, Recorded
  <2> QED BY <1>4, <2>1, <2>2
<1>5. CASE EnsureTimerRow(d)
  <2>1. /\ KnownTimer(d) \in 1..Len(journal)
        /\ journal[KnownTimer(d)].id = CallId(d)
    BY <1>5, KnownTimerFacts DEF EnsureTimerRow, At
  <2>2. HasRow(CallId(d))'
    <3>1. CASE \E row \in timers : row.timer_id = KnownTimer(d)
      <4>1. PICK row \in timers : row.timer_id = KnownTimer(d)
        BY <3>1
      <4>2. row.id = CallId(d)
        BY <2>1, <4>1 DEF TimersOK
      <4> QED BY <1>2, <4>2 DEF HasRow
    <3>2. CASE ~\E row \in timers : row.timer_id = KnownTimer(d)
      <4>1. RowOf(d) \in timers' /\ RowOf(d).id = CallId(d)
        BY <1>5, <2>1, <3>2 DEF EnsureTimerRow, RowOf
      <4> QED BY <1>1, <4>1 DEF HasRow
    <3> QED BY <3>1, <3>2
  <2>3. \/ pc'[d] = "waiting" /\ Awaited(d).kind = "sleep"
        \/ pc'[d] = "await"
    BY <1>0, <1>5 DEF EnsureTimerRow, GoTo
  <2> QED BY <1>1, <2>2, <2>3 DEF PlaceOK
<1>6. CASE StartWait(d)
  <2>1. Written(d, "EventWaitStarted")'
    BY <1>4, <1>6 DEF StartWait
  <2>2. pc'[d] = "waiting"
    BY <1>0, <1>6 DEF StartWait, GoTo
  <2>3. Awaited(d).kind = "sleep" \/ Awaited(d).after # 0 => HasRow(CallId(d))
    BY <1>6 DEF StartWait, At, PlaceOK
  <2> QED BY <1>1, <1>2, <2>1, <2>2, <2>3 DEF PlaceOK
<1>7. CASE RecordWaiting(d)
  <2>1. Written(d, "WorkflowWaiting")'
    BY <1>4, <1>7 DEF RecordWaiting
  <2>2. pc[d] = "waiting" /\ pc'[d] = "park"
    BY <1>0, <1>7 DEF RecordWaiting, At, GoTo
  <2> QED BY <1>1, <1>2, <1>3, <2>1, <2>2 DEF PlaceOK
<1> QED BY <1>5, <1>6, <1>7

LEMMA PlacesStep ==
  ASSUME TypeInv, PlacesInv, [Next]_vars
  PROVE  PlacesInv'
<1>0. TypeOK /\ Grows /\ TimersOK' /\ RowsStay /\ \A d \in Driver : PlaceOK(d)
  BY StepGrows, RowsKeep DEF TypeInv, PlacesInv
<1>1. ASSUME NEW d \in Driver,
             Control(d) \/ Drive(d) \/ RefuseReplay(d) \/ Park(d) \/ CallTask(d) \/ CallPrimitive(d),
             NEW e \in Driver
      PROVE  PlaceOK(e)'
  <2>1. CASE e # d
    BY <1>0, <1>1, <2>1, OthersAreLeft, PlaceStays DEF OthersStay
  <2>2. CASE EnsureTimerRow(d) \/ StartWait(d) \/ RecordWaiting(d)
    BY <1>0, <2>1, <2>2, OwnPlaceStep DEF PlacesInv
  <2>3. CASE ~EnsureTimerRow(d) /\ ~StartWait(d) /\ ~RecordWaiting(d)
    <3>1. pc \in [Driver -> Pc]
      BY <1>0 DEF TypeOK, DriverTypeOK
    <3>2. pc'[d] \notin {"await", "waiting", "park"}
      BY <1>1, <2>3, <3>1
         DEF Control, Drive, CallTask, CallPrimitive, StartRun, RecordCreated, ResumeRun,
             WakeRun, Redrive, CancelRun, SettleStatus, DriveTerminal,
             DriveLoad, Return, Raise, RefuseReplay, Park, ReuseResult, Schedule, StartAttempt,
             RunBody, Complete, FailAttempt, Backoff, SleepOver, ReuseEvent, ReuseTimeout,
             ConsumeEvent, RecordEvent, CreateTimer, Observe, Release, GoTo, Suspend
    <3>3. PlaceOK(d)'
      BY <3>2 DEF PlaceOK
    <3> QED BY <2>1, <3>3
  <2> QED BY <2>1, <2>2, <2>3
<1>2. CASE \/ \E row \in timers : FireTimer(row) \/ SettleTimer(row)
           \/ (\E t \in Topic : SendEvent(t)) \/ PassTime \/ UNCHANGED vars
  <2>1. UNCHANGED <<code, pc, outs, ordinals>>
    BY <1>2 DEF FireTimer, SettleTimer, SendEvent, PassTime, vars, env, frame
  <2>2. \A d \in Driver : PlaceOK(d)'
    BY <1>0, <2>1, PlaceStays
  <2> QED BY <1>0, <2>2 DEF PlacesInv
<1>3. CASE Crash
  BY <1>0, <1>3 DEF Crash, PlacesInv, PlaceOK
<1> QED BY <1>0, <1>1, <1>2, <1>3 DEF Next, PlacesInv

\* Whoever parks leaves everything on disk that will wake the run, however many
\* asyncio tasks drive it and wherever crashes cut a park off.
LEMMA ParkIsCompleteHolds == Spec => []ParkIsComplete
<1>1. Init => TypeInv /\ PlacesInv
  <2> SUFFICES ASSUME Init PROVE PlacesInv
    BY InitTypes
  <2> QED BY DEF Init, PlacesInv, TimersOK, PlaceOK
<1>2. TypeInv /\ PlacesInv /\ [Next]_vars => (TypeInv /\ PlacesInv)'
  BY NextTypes, PlacesStep
<1>3. TypeInv /\ PlacesInv => ParkIsComplete
  <2> SUFFICES ASSUME TypeInv, PlacesInv, NEW d \in Driver, pc[d] = "park"
               PROVE  /\ Written(d, "WorkflowWaiting")
                      /\ Awaited(d).kind = "wait" => Written(d, "EventWaitStarted")
                      /\ Awaited(d).kind = "sleep" \/ Awaited(d).after # 0 =>
                           \E row \in timers :
                             /\ row.id = CallId(d) /\ row.timer_id \in DOMAIN journal
                             /\ journal[row.timer_id].type = "TimerCreated"
                             /\ journal[row.timer_id].id = row.id
                             /\ journal[row.timer_id].n = row.fire_at
    BY DEF ParkIsComplete, Written
  <2>1. DOMAIN journal = 1..Len(journal)
    BY JournalFacts DEF TypeInv
  <2> QED BY <2>1 DEF PlacesInv, PlaceOK, TimersOK, HasRow
<1> QED BY <1>1, <1>2, <1>3, PTL DEF Spec

\* A park is recorded whole and once, by a workflow whose waits are told apart: a
\* resume completes what a crash cut off and repeats nothing of it, so no second
\* timer, wait or delivery of one call is ever in the journal.
THEOREM ParksAreRecordedHolds == ASSUME OneDriver, OneTopicEach PROVE Spec => []ParksAreRecorded
<1>1. Init => TypeInv /\ ParksInv
  <2> SUFFICES ASSUME Init PROVE ParksInv
    BY InitTypes
  <2> QED BY DEF Init, ParksInv, ParkRecordedOnce, RecordedOnce, FreshPark, CalledOK, NotReceived,
                 Replaying
<1>2. TypeInv /\ ParksInv /\ [Next]_vars => (TypeInv /\ ParksInv)'
  BY NextTypes, ParksStep
<1>3. ParksInv => ParkRecordedOnce
  BY DEF ParksInv
<1>4. Spec => []ParkRecordedOnce
  BY <1>1, <1>2, <1>3, PTL DEF Spec
<1>5. ParkRecordedOnce /\ ParkIsComplete => ParksAreRecorded
  BY DEF ParksAreRecorded
<1> QED BY <1>4, <1>5, ParkIsCompleteHolds, PTL

-----------------------------------------------------------------------------
(* Attempts                                                                  *)

AttemptTypes == {"TaskAttemptStarted", "TaskAttemptFailed"}

\* attempts of a call that the journal says were started, and that failed
Starts(id) == Tally(journal, Len(journal), "TaskAttemptStarted", id)
Failed(id) == Tally(journal, Len(journal), "TaskAttemptFailed", id)

\* a failure belongs to an attempt of a task that was started
FailuresOK ==
  \A i \in 1..Len(journal) : journal[i].type = "TaskAttemptFailed" =>
    journal[i].id.name \in Task /\ journal[i].n <= Starts(journal[i].id)

\* What a drive itself recorded of attempts after its load is of calls behind it, or
\* of the one it executes.
FreshAttempts(d) ==
  pc[d] \in Replaying =>
    \A i \in 1..Len(journal) : i > loaded[d] /\ journal[i].type \in AttemptTypes =>
      /\ journal[i].id.name \in Task
      /\ \/ journal[i].id.ord < ordinals[d][journal[i].id.name]
         \/ pc[d] \in Executing /\ journal[i].id = CallId(d)

\* the locals of the executor count what the journal records
Counted(d) ==
  pc[d] \in Executing =>
    /\ failures[d] = Failed(CallId(d))
    /\ attempt[d] = Starts(CallId(d)) + (IF pc[d] = "attempt" THEN 1 ELSE 0)

LEMMA AscendIsTally ==
  AttemptsAscend <=>
    \A i \in DOMAIN journal : journal[i].type = "TaskAttemptStarted" =>
      journal[i].n = 1 + Tally(journal, i - 1, "TaskAttemptStarted", journal[i].id)
  BY DEF AttemptsAscend, Tally, Places

LEMMA TalliesAreNat ==
  ASSUME TypeOK, NEW id
  PROVE  Starts(id) \in Nat /\ Failed(id) \in Nat
  BY JournalFacts, TallyIsNat DEF Starts, Failed

\* What one more event does to a count.
LEMMA TalliesGrow ==
  ASSUME TypeOK, NEW e, journal' = Append(journal, e), NEW type, NEW id
  PROVE  Tally(journal', Len(journal'), type, id) =
           IF e.type = type /\ e.id = id THEN Tally(journal, Len(journal), type, id) + 1
           ELSE Tally(journal, Len(journal), type, id)
<1>1. /\ Len(journal) \in Nat /\ Len(journal') = Len(journal) + 1
      /\ \A i \in 1..Len(journal) : journal'[i] = journal[i]
      /\ journal'[Len(journal) + 1] = e
  BY AppendFacts
<1>2. PICK j, k : j = journal /\ k = journal'
  OBVIOUS
<1>3. PICK n, m : n = Len(journal) /\ m = Len(journal')
  OBVIOUS
<1>4. n \in Nat /\ m = n + 1 /\ k[m] = e /\ \A i \in 1..n : k[i] = j[i]
  BY <1>1, <1>2, <1>3
<1>6. OneMore(j, n, k, m)
  BY <1>4 DEF OneMore
<1>5. /\ Tally(j, n, type, id) \in Nat /\ Tally(k, m, type, id) \in Nat
      /\ k[m].type = type /\ k[m].id = id => Tally(k, m, type, id) = Tally(j, n, type, id) + 1
      /\ k[m].type # type \/ k[m].id # id => Tally(k, m, type, id) = Tally(j, n, type, id)
  BY <1>6, TallyGrows
<1> QED BY <1>2, <1>3, <1>4, <1>5

LEMMA TalliesStay ==
  ASSUME TypeOK, NoFact(AttemptTypes), NEW type \in AttemptTypes, NEW id
  PROVE  Tally(journal', Len(journal'), type, id) = Tally(journal, Len(journal), type, id)
<1>1. CASE journal' = journal
  BY <1>1
<1>2. CASE \E e : e.type \notin AttemptTypes /\ journal' = Append(journal, e)
  <2>1. PICK e : e.type \notin AttemptTypes /\ journal' = Append(journal, e)
    BY <1>2
  <2> QED BY <2>1, TalliesGrow
<1> QED BY <1>1, <1>2 DEF NoFact

\* Attempts go on ascending if a new one is the next.
LEMMA AscendGrows ==
  ASSUME TypeOK, AttemptsAscend, NEW e, journal' = Append(journal, e),
         e.type = "TaskAttemptStarted" => e.n = Starts(e.id) + 1
  PROVE  AttemptsAscend'
<1>1. /\ Len(journal) \in Nat /\ DOMAIN journal = 1..Len(journal)
      /\ DOMAIN journal' = 1..(Len(journal) + 1)
      /\ \A i \in 1..Len(journal) : journal'[i] = journal[i]
      /\ journal'[Len(journal) + 1] = e
  BY AppendFacts
<1>2. ASSUME NEW i \in 1..(Len(journal) + 1), journal'[i].type = "TaskAttemptStarted"
      PROVE  journal'[i].n = 1 + Tally(journal', i - 1, "TaskAttemptStarted", journal'[i].id)
  <2>1. \A x \in 1..(i - 1) : journal'[x] = journal[x]
    BY <1>1
  <2>2. Tally(journal', i - 1, "TaskAttemptStarted", journal'[i].id)
          = Tally(journal, i - 1, "TaskAttemptStarted", journal'[i].id)
    <3>1. \A id : Places(journal', i - 1, "TaskAttemptStarted", id)
                    = Places(journal, i - 1, "TaskAttemptStarted", id)
      BY <2>1 DEF Places
    <3> QED BY <3>1 DEF Tally
  <2>3. CASE i \in 1..Len(journal)
    BY <1>1, <1>2, <2>2, <2>3, AscendIsTally
  <2>4. CASE i = Len(journal) + 1
    <3>1. i - 1 = Len(journal) /\ journal'[i] = e /\ Starts(e.id) \in Nat
      BY <1>1, <2>4, TalliesAreNat
    <3> QED BY <1>2, <2>2, <3>1 DEF Starts
  <2> QED BY <1>1, <2>3, <2>4
<1>3. AttemptsAscend' <=>
        \A i \in DOMAIN journal' : journal'[i].type = "TaskAttemptStarted" =>
          journal'[i].n = 1 + Tally(journal', i - 1, "TaskAttemptStarted", journal'[i].id)
  BY DEF AttemptsAscend, Tally, Places
<1> QED BY <1>1, <1>2, <1>3

LEMMA FailuresGrow ==
  ASSUME TypeOK, FailuresOK, NEW e, journal' = Append(journal, e),
         e.type = "TaskAttemptFailed" => e.id.name \in Task /\ e.n <= Starts(e.id),
         e.type = "TaskAttemptFailed" => e.n \in Nat
  PROVE  FailuresOK'
<1>1. /\ Len(journal) \in Nat /\ Len(journal') = Len(journal) + 1
      /\ \A i \in 1..Len(journal) : journal'[i] = journal[i]
      /\ journal'[Len(journal) + 1] = e
  BY AppendFacts
<1>2. ASSUME NEW i \in 1..Len(journal'), journal'[i].type = "TaskAttemptFailed"
      PROVE  /\ journal'[i].id.name \in Task
             /\ journal'[i].n <= Tally(journal', Len(journal'), "TaskAttemptStarted", journal'[i].id)
  <2> DEFINE id == journal'[i].id
  <2>1. Starts(id) \in Nat
    BY TalliesAreNat
  <2>2. Tally(journal', Len(journal'), "TaskAttemptStarted", id) \in {Starts(id), Starts(id) + 1}
    <3> HIDE DEF id
    <3> QED BY TalliesGrow DEF Starts
  <2>3. id.name \in Task /\ journal'[i].n <= Starts(id) /\ journal'[i].n \in Nat
    <3>1. CASE i \in 1..Len(journal)
      BY <1>1, <1>2, <3>1, JournalFacts DEF FailuresOK, Event
    <3>2. CASE i = Len(journal) + 1
      BY <1>1, <1>2, <3>2
    <3> QED BY <1>1, <3>1, <3>2
  <2> QED BY <2>1, <2>2, <2>3
<1> QED BY <1>2 DEF FailuresOK, Starts

LEMMA QuietAttempts ==
  ASSUME TypeOK, AttemptsAscend, FailuresOK, NoFact(AttemptTypes)
  PROVE  AttemptsAscend' /\ FailuresOK'
<1>1. CASE journal' = journal
  BY <1>1 DEF AttemptsAscend, FailuresOK, Starts
<1>2. CASE \E e : e.type \notin AttemptTypes /\ journal' = Append(journal, e)
  <2>1. PICK e : e.type \notin AttemptTypes /\ journal' = Append(journal, e)
    BY <1>2
  <2> QED BY <2>1, AscendGrows, FailuresGrow DEF AttemptTypes
<1> QED BY <1>1, <1>2 DEF NoFact

\* A drive that stays at its call and records at most an attempt of it.
LEMMA AttemptsSameCall ==
  ASSUME TypeOK, NEW d \in Driver, FreshAttempts(d), pc[d] \in Replaying,
         UNCHANGED <<code, outs, ordinals, loaded>>,
         pc[d] \in Executing => pc'[d] \in Executing,
         \A i \in 1..Len(journal') : journal'[i].type \in AttemptTypes =>
           \/ i \in 1..Len(journal) /\ journal'[i] = journal[i]
           \/ journal'[i].id = CallId(d) /\ pc'[d] \in Executing /\ CallId(d).name \in Task
  PROVE  FreshAttempts(d)'
<1>1. CallId(d)' = CallId(d)
  BY SameCall
<1> SUFFICES ASSUME NEW i \in 1..Len(journal'), i > loaded[d], journal'[i].type \in AttemptTypes
             PROVE  /\ journal'[i].id.name \in Task
                    /\ \/ journal'[i].id.ord < ordinals[d][journal'[i].id.name]
                       \/ pc'[d] \in Executing /\ journal'[i].id = CallId(d)
  BY <1>1 DEF FreshAttempts
<1> QED BY DEF FreshAttempts

LEMMA AttemptsNextCall ==
  ASSUME TypeInv, NEW d \in Driver, NEW o, FreshAttempts(d), Observe(d, o), pc[d] \in Replaying,
         Awaited(d).kind \in {"task", "sleep", "wait"}, journal' \in Seq(Event),
         \A i \in 1..Len(journal') : journal'[i].type \in AttemptTypes =>
           \/ i \in 1..Len(journal) /\ journal'[i] = journal[i]
           \/ Awaited(d).kind = "task" /\ journal'[i].id = CallId(d)
  PROVE  FreshAttempts(d)' /\ Counted(d)'
<1> DEFINE name == Awaited(d).name
<1>0. TypeOK /\ DriverTypeOK /\ DriverOK(d) /\ name \in Name
  BY AwaitedFacts DEF TypeInv, TypeOK, DriversOK
<1>1. pc'[d] = "replay" /\ loaded'[d] = loaded[d]
  BY <1>0 DEF DriverTypeOK, Observe, GoTo
<1>2. \A m \in Name : ordinals'[d][m] = IF m = name THEN ordinals[d][m] + 1 ELSE ordinals[d][m]
  <2>1. ordinals' = [ordinals EXCEPT ![d][name] = @ + 1]
    BY DEF Observe
  <2> HIDE DEF name
  <2> QED BY <1>0, <2>1 DEF DriverTypeOK
<1>3. ASSUME NEW i \in 1..Len(journal'), i > loaded[d], journal'[i].type \in AttemptTypes
      PROVE  /\ journal'[i].id.name \in Task
             /\ journal'[i].id.ord < ordinals'[d][journal'[i].id.name]
  <2> DEFINE e == journal'[i]
  <2>0. e \in Event
    BY ElementOfSeq
  <2> SUFFICES e.id.name \in Task /\ e.id.ord < ordinals'[d][e.id.name]
    OBVIOUS
  <2> HIDE DEF e
  <2>1. e.id.ord \in Nat /\ \A m \in Task : m \in Name /\ ordinals[d][m] \in Nat
    BY <1>0, <2>0 DEF Event, Identity, DriverTypeOK, Name
  <2>2. CASE Awaited(d).kind = "task" /\ e.id = CallId(d)
    <3>1. e.id.name = name /\ e.id.ord = ordinals[d][name] /\ name \in Task
      BY <1>0, <2>2, AwaitedFacts DEF CallId
    <3> QED BY <1>2, <2>1, <3>1
  <2>3. CASE e.id.name \in Task /\ e.id.ord < ordinals[d][e.id.name]
    BY <1>2, <2>1, <2>3
  <2>4. CASE i \in 1..Len(journal) /\ journal'[i] = journal[i]
    <3>1. /\ e.id.name \in Task
          /\ \/ e.id.ord < ordinals[d][e.id.name]
             \/ pc[d] \in Executing /\ e.id = CallId(d)
      BY <1>3, <2>4 DEF FreshAttempts, e
    <3>2. pc[d] \in Executing => Awaited(d).kind = "task"
      BY <1>0 DEF DriverOK
    <3> QED BY <2>2, <2>3, <3>1, <3>2
  <2> QED BY <1>3, <2>2, <2>4 DEF e
<1>4. FreshAttempts(d)'
  BY <1>1, <1>3 DEF FreshAttempts
<1>5. Counted(d)'
  BY <1>1 DEF Counted, Executing
<1> QED BY <1>4, <1>5

\* What is left to show of a step when one driver drives.
AttemptsOf(d) == AttemptsAscend /\ FailuresOK /\ FreshAttempts(d) /\ Counted(d)

\* A step that records no attempt and keeps the call of the drive.
LEMMA QuietSameCall ==
  ASSUME TypeOK, NEW d \in Driver, AttemptsOf(d), NoFact(AttemptTypes), pc[d] \in Replaying,
         UNCHANGED <<code, outs, ordinals, loaded>>,
         pc[d] \in Executing => pc'[d] \in Executing
  PROVE  /\ AttemptsAscend' /\ FailuresOK' /\ FreshAttempts(d)'
         /\ CallId(d)' = CallId(d)
         /\ Starts(CallId(d))' = Starts(CallId(d)) /\ Failed(CallId(d))' = Failed(CallId(d))
<1>1. AttemptsAscend' /\ FailuresOK'
  BY QuietAttempts DEF AttemptsOf
<1>2. \A i \in 1..Len(journal') : journal'[i].type \in AttemptTypes =>
        i \in 1..Len(journal) /\ journal'[i] = journal[i]
  BY NoFactKeeps
<1>3. FreshAttempts(d)'
  BY <1>2, AttemptsSameCall DEF AttemptsOf
<1>4. CallId(d)' = CallId(d)
  BY SameCall
<1>5. ASSUME NEW id PROVE Starts(id)' = Starts(id) /\ Failed(id)' = Failed(id)
  BY TalliesStay DEF Starts, Failed, AttemptTypes
<1>6. Starts(CallId(d))' = Starts(CallId(d)) /\ Failed(CallId(d))' = Failed(CallId(d))
  <2>1. PICK id : id = CallId(d)
    OBVIOUS
  <2> QED BY <1>4, <1>5, <2>1 DEF Starts, Failed
<1> QED BY <1>1, <1>3, <1>4, <1>6

\* The executor is handed the history of its call: all of it, though it is read from
\* the prefix the drive loaded.
LEMMA HistoryIsWhole ==
  ASSUME TypeInv, NEW d \in Driver, AttemptsOf(d), pc[d] = "replay", Awaited(d).kind = "task"
  PROVE  /\ MaxAttempt(journal, loaded[d], CallId(d)) = Starts(CallId(d))
         /\ Failures(journal, loaded[d], CallId(d)) = Failed(CallId(d))
<1> DEFINE id == CallId(d)
           n == Len(journal)
           m == loaded[d]
<1>a. TypeOK /\ DriverTypeOK /\ DriverOK(d)
  BY DEF TypeInv, TypeOK, DriversOK
<1>b. n \in Nat /\ loaded[d] \in Nat /\ loaded[d] <= n /\ Awaited(d).name \in Name
  BY <1>a, JournalFacts, AwaitedFacts DEF DriverTypeOK, DriverOK
<1>0. /\ TypeOK /\ n \in Nat /\ m \in 0..n /\ Awaited(d).name \in Name
      /\ ordinals[d][Awaited(d).name] \in Nat
  BY <1>a, <1>b DEF DriverTypeOK
<1>1. ASSUME NEW i \in 1..n, journal[i].id = id, journal[i].type \in AttemptTypes PROVE i <= m
  <2>1. CallId(d).name = Awaited(d).name /\ CallId(d).ord = ordinals[d][Awaited(d).name]
    BY DEF CallId
  <2> QED BY <1>0, <1>1, <2>1 DEF AttemptsOf, FreshAttempts, Replaying, Executing, Pc
<1>2. Attempts(journal, n, id) \subseteq 1..m
  BY <1>0, <1>1 DEF Attempts, AttemptTypes
<1>3. \A i \in 1..n : journal[i].n \in Nat
  BY <1>0, JournalFacts DEF Event
<1>4. \A i \in Places(journal, n, "TaskAttemptStarted", id) :
        journal[i].n = 1 + Tally(journal, i - 1, "TaskAttemptStarted", id)
  <2> SUFFICES ASSUME NEW i \in Places(journal, n, "TaskAttemptStarted", id)
               PROVE  journal[i].n = 1 + Tally(journal, i - 1, "TaskAttemptStarted", id)
    OBVIOUS
  <2>1. i \in DOMAIN journal /\ journal[i].type = "TaskAttemptStarted" /\ journal[i].id = id
    BY <1>0, JournalFacts DEF Places
  <2>2. journal[i].n = 1 + Tally(journal, i - 1, "TaskAttemptStarted", journal[i].id)
    BY <2>1, AscendIsTally DEF AttemptsOf
  <2> QED BY <2>1, <2>2
<1>5. \A i \in Places(journal, n, "TaskAttemptFailed", id) :
        journal[i].n <= Tally(journal, n, "TaskAttemptStarted", id)
  BY DEF Places, AttemptsOf, FailuresOK, Starts
<1>6. MaxAttempt(journal, m, id) = Tally(journal, n, "TaskAttemptStarted", id)
  <2> HIDE DEF id, n, m
  <2> QED BY <1>0, <1>2, <1>3, <1>4, <1>5, MaxAttemptCounts
<1>7. Places(journal, m, "TaskAttemptFailed", id) = Places(journal, n, "TaskAttemptFailed", id)
  BY <1>0, <1>1 DEF Places, AttemptTypes
<1>8. Failures(journal, m, id) = Tally(journal, m, "TaskAttemptFailed", id)
  BY DEF Failures, Tally, Places
<1> QED BY <1>6, <1>7, <1>8 DEF Starts, Failed, Tally

LEMMA ScheduleCounts ==
  ASSUME TypeInv, NEW d \in Driver, AttemptsOf(d), Schedule(d)
  PROVE  AttemptsOf(d)'
<1>0. /\ TypeOK /\ DriverTypeOK /\ pc[d] = "replay" /\ Awaited(d).kind = "task"
      /\ UNCHANGED <<code, outs, ordinals, loaded>> /\ pc'[d] = "attempt"
      /\ attempt'[d] = MaxAttempt(journal, loaded[d], CallId(d)) + 1
      /\ failures'[d] = Failures(journal, loaded[d], CallId(d))
  BY DEF TypeInv, TypeOK, DriverTypeOK, Schedule, CallAllowed, Awaits, At, GoTo, env
<1>1. NoFact(AttemptTypes)
  <2>1. \/ journal' = journal
        \/ journal' = Append(journal, Entry("TaskScheduled", CallId(d), 0, "none"))
    BY DEF Schedule, Commit
  <2>2. Entry("TaskScheduled", CallId(d), 0, "none").type \notin AttemptTypes
    BY DEF Entry, AttemptTypes
  <2> QED BY <2>1, <2>2 DEF NoFact
<1>2. /\ AttemptsAscend' /\ FailuresOK' /\ FreshAttempts(d)'
      /\ Starts(CallId(d))' = Starts(CallId(d)) /\ Failed(CallId(d))' = Failed(CallId(d))
  BY <1>0, <1>1, QuietSameCall DEF Replaying, Executing, Pc
<1>3. Counted(d)'
  BY <1>0, <1>2, HistoryIsWhole, TalliesAreNat DEF Counted
<1> QED BY <1>2, <1>3 DEF AttemptsOf

LEMMA StartCounts ==
  ASSUME TypeInv, NEW d \in Driver, AttemptsOf(d), StartAttempt(d)
  PROVE  AttemptsOf(d)'
<1> DEFINE e == Entry("TaskAttemptStarted", CallId(d), attempt[d], "none")
<1>0. /\ TypeOK /\ DriverTypeOK /\ pc[d] = "attempt" /\ Awaited(d).kind = "task"
      /\ UNCHANGED <<code, outs, ordinals, loaded, attempt, failures>> /\ pc'[d] = "body"
  BY DEF TypeInv, TypeOK, DriverTypeOK, DriversOK, DriverOK, Executing, StartAttempt, At, Suspend,
         env, frame
<1>1. journal' = Append(journal, e) /\ e.type = "TaskAttemptStarted" /\ e.id = CallId(d) /\ e.n = attempt[d]
  BY DEF StartAttempt, Commit, Entry
<1> HIDE DEF e
<1>2. /\ failures[d] = Failed(CallId(d)) /\ attempt[d] = Starts(CallId(d)) + 1
      /\ Starts(CallId(d)) \in Nat /\ Failed(CallId(d)) \in Nat
  BY <1>0, TalliesAreNat DEF AttemptsOf, Counted, Executing
<1>3. CallId(d)' = CallId(d) /\ CallId(d).name \in Task
  BY <1>0, SameCall, AwaitedFacts DEF CallId
<1>4. AttemptsAscend' /\ FailuresOK'
  BY <1>0, <1>1, <1>2, AscendGrows, FailuresGrow DEF AttemptsOf
<1>5. \A i \in 1..Len(journal') :
        \/ i \in 1..Len(journal) /\ journal'[i] = journal[i]
        \/ journal'[i].id = CallId(d)
  BY <1>0, <1>1, AppendFacts
<1>6. FreshAttempts(d)'
  BY <1>0, <1>3, <1>5, AttemptsSameCall DEF AttemptsOf, Executing, Replaying, Pc
<1>7. ASSUME NEW id, id = CallId(d)
      PROVE  Starts(id)' = Starts(id) + 1 /\ Failed(id)' = Failed(id)
  BY <1>0, <1>1, <1>7, TalliesGrow DEF Starts, Failed
<1>8. Starts(CallId(d))' = Starts(CallId(d)) + 1 /\ Failed(CallId(d))' = Failed(CallId(d))
  <2>1. PICK id : id = CallId(d)
    OBVIOUS
  <2> QED BY <1>3, <1>7, <2>1 DEF Starts, Failed
<1>9. Counted(d)'
  BY <1>0, <1>2, <1>3, <1>8 DEF Counted
<1> QED BY <1>4, <1>6, <1>9 DEF AttemptsOf

LEMMA FailCounts ==
  ASSUME TypeInv, TypeInv', NEW d \in Driver, AttemptsOf(d), FailAttempt(d)
  PROVE  /\ AttemptsOf(d)'
         /\ \A id : Failed(id)' = IF id = CallId(d) THEN Failed(id) + 1 ELSE Failed(id)
<1> DEFINE e == Entry("TaskAttemptFailed", CallId(d), attempt[d], IF RetriesLeft(d) THEN "retry" ELSE "last")
<1>0. /\ TypeOK /\ DriverTypeOK /\ pc[d] \in {"body", "returned"} /\ Awaited(d).kind = "task"
      /\ code' = code /\ journal' \in Seq(Event)
  BY DEF TypeInv, TypeOK, StoreTypeOK, DriverTypeOK, DriversOK, DriverOK, Executing, FailAttempt, At, env
<1>1. journal' = Append(journal, e) /\ e.type = "TaskAttemptFailed" /\ e.id = CallId(d) /\ e.n = attempt[d]
  BY DEF FailAttempt, Commit, Entry
<1> HIDE DEF e
<1>2. /\ failures[d] = Failed(CallId(d)) /\ attempt[d] = Starts(CallId(d))
      /\ Starts(CallId(d)) \in Nat /\ Failed(CallId(d)) \in Nat
  BY <1>0, TalliesAreNat DEF AttemptsOf, Counted, Executing
<1>3. CallId(d).name \in Task
  BY <1>0, AwaitedFacts DEF CallId
<1>4. AttemptsAscend' /\ FailuresOK'
  BY <1>0, <1>1, <1>2, <1>3, AscendGrows, FailuresGrow DEF AttemptsOf
<1>5. \A i \in 1..Len(journal') :
        \/ i \in 1..Len(journal) /\ journal'[i] = journal[i]
        \/ journal'[i].id = CallId(d)
  BY <1>0, <1>1, AppendFacts
<1>6. ASSUME NEW id
      PROVE  /\ Starts(id)' = Starts(id)
             /\ Failed(id)' = IF id = CallId(d) THEN Failed(id) + 1 ELSE Failed(id)
  BY <1>0, <1>1, TalliesGrow DEF Starts, Failed
<1>7. CASE RetriesLeft(d)
  <2>1. /\ UNCHANGED <<code, outs, ordinals, loaded, attempt>> /\ pc'[d] = "backoff"
        /\ failures'[d] = failures[d] + 1
    BY <1>0, <1>7 DEF FailAttempt, Suspend, DriverTypeOK
  <2>2. CallId(d)' = CallId(d)
    BY <2>1, SameCall
  <2>3. FreshAttempts(d)'
    BY <1>0, <1>3, <1>5, <2>1, <2>2, AttemptsSameCall DEF AttemptsOf, Executing, Replaying, Pc
  <2>4. Starts(CallId(d))' = Starts(CallId(d)) /\ Failed(CallId(d))' = Failed(CallId(d)) + 1
    <3>1. PICK id : id = CallId(d)
      OBVIOUS
    <3> QED BY <1>6, <2>2, <3>1 DEF Starts, Failed
  <2>5. Counted(d)'
    BY <1>2, <2>1, <2>4 DEF Counted
  <2> QED BY <1>4, <1>6, <2>3, <2>5 DEF AttemptsOf
<1>8. CASE ~RetriesLeft(d)
  <2>1. Observe(d, "error")
    BY <1>8 DEF FailAttempt
  <2>2. FreshAttempts(d)' /\ Counted(d)'
    BY <1>0, <1>5, <2>1, AttemptsNextCall DEF AttemptsOf, Replaying, Pc
  <2> QED BY <1>4, <1>6, <2>2 DEF AttemptsOf
<1> QED BY <1>7, <1>8

\* A drive that observes an outcome, or stays where it is, without a new attempt.
LEMMA ObserveCounts ==
  ASSUME TypeInv, TypeInv', NEW d \in Driver, AttemptsOf(d), NEW o, Observe(d, o),
         NoFact(AttemptTypes), pc[d] \in Replaying, Awaited(d).kind \in {"task", "sleep", "wait"}
  PROVE  AttemptsOf(d)'
<1>1. TypeOK /\ journal' \in Seq(Event)
  BY DEF TypeInv, TypeOK, StoreTypeOK
<1>2. AttemptsAscend' /\ FailuresOK'
  BY <1>1, QuietAttempts DEF AttemptsOf
<1>3. \A i \in 1..Len(journal') : journal'[i].type \in AttemptTypes =>
        i \in 1..Len(journal) /\ journal'[i] = journal[i]
  BY <1>1, NoFactKeeps
<1>4. FreshAttempts(d)' /\ Counted(d)'
  BY <1>1, <1>3, AttemptsNextCall DEF AttemptsOf
<1> QED BY <1>2, <1>4 DEF AttemptsOf

\* An executing driver takes the steps of the executor only.
LEMMA ExecutorSteps ==
  ASSUME NEW d \in Driver, pc[d] \in Executing,
         Control(d) \/ Drive(d) \/ RefuseReplay(d) \/ Park(d) \/ CallTask(d) \/ CallPrimitive(d)
  PROVE  StartAttempt(d) \/ RunBody(d) \/ Complete(d) \/ FailAttempt(d) \/ Backoff(d)
  BY DEF Control, Drive, CallTask, CallPrimitive, StartRun, RecordCreated, ResumeRun,
         WakeRun, Redrive, CancelRun, SettleStatus, DriveTerminal, DriveLoad, Return, Raise,
         RefuseReplay, Park, ReuseResult, Schedule, SleepOver, ReuseEvent, ReuseTimeout,
         ConsumeEvent, RecordEvent, CreateTimer, EnsureTimerRow, StartWait, RecordWaiting,
         CallAllowed, WaitMisses, Parks, Awaits, At, Idle, Executing

LEMMA NoAttemptSteps ==
  ASSUME NEW d \in Driver,
         Control(d) \/ Drive(d) \/ RefuseReplay(d) \/ Park(d) \/ CallTask(d) \/ CallPrimitive(d),
         ~StartAttempt(d), ~FailAttempt(d)
  PROVE  NoFact(AttemptTypes)
<1>1. \/ journal' = journal
      \/ \E type \in EventType \ AttemptTypes : \E id, n, val : Commit(type, id, n, val)
  BY DEF Control, Drive, CallTask, CallPrimitive, StartRun, RecordCreated, ResumeRun, WakeRun,
         Redrive, CancelRun, SettleStatus, DriveTerminal, DriveLoad, Return, Raise, RefuseReplay,
         Park, ReuseResult, Schedule, RunBody, Complete, Backoff, SleepOver, ReuseEvent,
         ReuseTimeout, ConsumeEvent, RecordEvent, CreateTimer, EnsureTimerRow, StartWait,
         RecordWaiting, store, EventType, AttemptTypes
<1>2. ASSUME NEW type \in EventType \ AttemptTypes, NEW id, NEW n, NEW val, Commit(type, id, n, val)
      PROVE  NoFact(AttemptTypes)
  <2>1. journal' = Append(journal, Entry(type, id, n, val))
    BY <1>2 DEF Commit
  <2>2. Entry(type, id, n, val).type \notin AttemptTypes
    BY DEF Entry
  <2> QED BY <2>1, <2>2 DEF NoFact
<1> QED BY <1>1, <1>2 DEF NoFact

LEMMA DriverCounts ==
  ASSUME TypeInv, TypeInv', NEW d \in Driver, AttemptsOf(d),
         Control(d) \/ Drive(d) \/ RefuseReplay(d) \/ Park(d) \/ CallTask(d) \/ CallPrimitive(d)
  PROVE  AttemptsOf(d)'
<1>0. TypeOK /\ DriverTypeOK /\ DriverOK(d)
  BY DEF TypeInv, TypeOK, DriversOK
<1>1. CASE Schedule(d) \/ StartAttempt(d) \/ FailAttempt(d)
  BY <1>1, ScheduleCounts, StartCounts, FailCounts
<1>2. CASE ~Schedule(d) /\ ~StartAttempt(d) /\ ~FailAttempt(d)
  <2>1. NoFact(AttemptTypes)
    BY <1>2, NoAttemptSteps
  <2>2. AttemptsAscend' /\ FailuresOK'
    BY <1>0, <2>1, QuietAttempts DEF AttemptsOf
  <2>3. CASE Complete(d)
    <3>1. PICK v : Observe(d, v)
      BY <2>3 DEF Complete
    <3>2. pc[d] \in Replaying /\ Awaited(d).kind = "task"
      BY <1>0, <2>3 DEF Complete, At, DriverOK, Executing, Replaying, Pc
    <3> QED BY <2>1, <3>1, <3>2, ObserveCounts
  <2>4. CASE RunBody(d) \/ Backoff(d)
    <3>1. /\ UNCHANGED <<code, outs, ordinals, loaded, failures>>
          /\ pc[d] \in Replaying /\ pc[d] \in Executing /\ pc'[d] \in Executing
          /\ \/ pc[d] = "body" /\ pc'[d] = "returned" /\ attempt'[d] = attempt[d]
             \/ pc[d] = "backoff" /\ pc'[d] = "attempt" /\ attempt'[d] = attempt[d] + 1
      <4>1. CASE RunBody(d)
        BY <1>0, <4>1 DEF RunBody, At, Suspend, DriverTypeOK, frame, Executing, Replaying, Pc
      <4>2. CASE Backoff(d)
        BY <1>0, <4>2 DEF Backoff, At, GoTo, DriverTypeOK, env, Executing, Replaying, Pc
      <4> QED BY <2>4, <4>1, <4>2
    <3>2. /\ FreshAttempts(d)' /\ CallId(d)' = CallId(d)
          /\ Starts(CallId(d))' = Starts(CallId(d)) /\ Failed(CallId(d))' = Failed(CallId(d))
      BY <1>0, <2>1, <3>1, QuietSameCall
    <3>3. Counted(d)'
      BY <1>0, <3>1, <3>2, TalliesAreNat DEF AttemptsOf, Counted
    <3> QED BY <2>2, <3>2, <3>3 DEF AttemptsOf
  <2>5. CASE pc'[d] \notin Replaying
    <3>1. FreshAttempts(d)' /\ Counted(d)'
      BY <2>5 DEF FreshAttempts, Counted, Replaying, Executing, Pc
    <3> QED BY <2>2, <3>1 DEF AttemptsOf
  <2>6. CASE DriveLoad(d)
    <3>1. pc'[d] = "replay" /\ loaded'[d] = Len(journal) /\ journal' = journal
      BY <1>0, <2>6 DEF DriveLoad, GoTo, store, DriverTypeOK
    <3>2. FreshAttempts(d)' /\ Counted(d)'
      BY <1>0, <3>1, JournalFacts DEF FreshAttempts, Counted, Executing
    <3> QED BY <2>2, <3>2 DEF AttemptsOf
  <2>7. CASE /\ \E o : Observe(d, o)
             /\ pc[d] \in Replaying /\ Awaited(d).kind \in {"task", "sleep", "wait"}
    <3>1. PICK o : Observe(d, o)
      BY <2>7
    <3> QED BY <2>1, <2>7, <3>1, ObserveCounts
  <2>8. CASE /\ UNCHANGED <<code, outs, ordinals, loaded>>
             /\ pc'[d] \in Executing <=> pc[d] \in Executing
             /\ pc[d] \in Replaying /\ ~RunBody(d) /\ ~Backoff(d) /\ ~Complete(d)
    <3>1. pc[d] \notin Executing /\ pc'[d] \notin Executing
      BY <1>2, <2>8, ExecutorSteps
    <3>2. FreshAttempts(d)'
      BY <1>0, <2>1, <2>8, QuietSameCall
    <3>3. Counted(d)'
      BY <3>1 DEF Counted
    <3> QED BY <2>2, <3>2, <3>3 DEF AttemptsOf
  <2> QED BY <1>2, <2>3, <2>4, <2>5, <2>6, <2>7, <2>8, OtherSteps
<1> QED BY <1>1, <1>2

\* The steps of the poll loop, of the senders and of the clock record no attempt.
LEMMA OutsideCounts ==
  ASSUME TypeInv, NEW d \in Driver, AttemptsOf(d),
         \/ \E row \in timers : FireTimer(row) \/ SettleTimer(row)
         \/ (\E t \in Topic : SendEvent(t)) \/ PassTime \/ UNCHANGED vars
  PROVE  NoFact(AttemptTypes) /\ AttemptsOf(d)'
<1>1. UNCHANGED <<code, pc, outs, ordinals, loaded, attempt, failures>>
  BY DEF FireTimer, SettleTimer, SendEvent, PassTime, vars, env, frame
<1>2. NoFact(AttemptTypes)
  BY DEF FireTimer, SettleTimer, SendEvent, PassTime, vars, store, NoFact, AttemptTypes, Commit, Entry
<1>3. TypeOK
  BY DEF TypeInv
<1>4. AttemptsAscend' /\ FailuresOK'
  BY <1>2, <1>3, QuietAttempts DEF AttemptsOf
<1>5. CASE pc[d] \in Replaying
  <2>1. /\ FreshAttempts(d)' /\ CallId(d)' = CallId(d)
        /\ Starts(CallId(d))' = Starts(CallId(d)) /\ Failed(CallId(d))' = Failed(CallId(d))
    BY <1>1, <1>2, <1>3, <1>5, QuietSameCall
  <2>2. Counted(d)'
    BY <1>1, <2>1 DEF AttemptsOf, Counted
  <2> QED BY <1>2, <1>4, <2>1, <2>2 DEF AttemptsOf
<1>6. CASE pc[d] \notin Replaying
  <2>1. FreshAttempts(d)' /\ Counted(d)'
    BY <1>1, <1>6 DEF FreshAttempts, Counted, Replaying, Executing, Pc
  <2> QED BY <1>2, <1>4, <2>1 DEF AttemptsOf
<1> QED BY <1>5, <1>6

-----------------------------------------------------------------------------
(* The retry budget                                                          *)

\* A workflow lets the error of a task escape.  One that catches it and parks runs
\* the task again in every later drive (ADR-0027), with no bound on its failures.
ErrorsEscape ==
  \A v \in Version : \A h \in Histories :
    (\E k \in DOMAIN h : h[k] = "error") => Workflow[v][h].kind = "raise"

\* this drive has seen a task spend its budget
Erred(d) == \E k \in DOMAIN outs[d] : outs[d][k] = "error"

\* A call overdraws its budget by the failure that ends the run, and by one for every
\* crash that keeps the end from being recorded.
BudgetInv ==
  /\ \A id \in Identity : id.name \in Task => Failed(id) <= Retries[id.name] + 1 + crashes
  /\ TerminalIndices(journal) = {} /\ (\A d \in Driver : ~Erred(d)) =>
       \A id \in Identity : id.name \in Task => Failed(id) <= Retries[id.name] + crashes
  /\ \A d \in Driver : Erred(d) => pc[d] \in {"replay", "settle"}

LEMMA FailuresStay ==
  ASSUME TypeOK, NEW d \in Driver,
         Control(d) \/ Drive(d) \/ RefuseReplay(d) \/ Park(d) \/ CallTask(d) \/ CallPrimitive(d),
         ~FailAttempt(d), NEW id
  PROVE  Failed(id)' = Failed(id)
<1>1. CASE StartAttempt(d)
  <2> DEFINE e == Entry("TaskAttemptStarted", CallId(d), attempt[d], "none")
  <2>1. journal' = Append(journal, e) /\ e.type # "TaskAttemptFailed"
    BY <1>1 DEF StartAttempt, Commit, Entry
  <2> HIDE DEF e
  <2> QED BY <2>1, TalliesGrow DEF Failed
<1>2. CASE ~StartAttempt(d)
  BY <1>2, NoAttemptSteps, TalliesStay DEF Failed, AttemptTypes
<1> QED BY <1>1, <1>2

\* After the error there is only the end of the drive.
LEMMA ErrorEndsDrive ==
  ASSUME TypeInv, ErrorsEscape, BudgetInv, NEW d \in Driver, Erred(d),
         Control(d) \/ Drive(d) \/ RefuseReplay(d) \/ Park(d) \/ CallTask(d) \/ CallPrimitive(d)
  PROVE  Raise(d) \/ SettleStatus(d)
<1>1. pc[d] \in {"replay", "settle"}
  BY DEF BudgetInv
<1>2. Awaited(d).kind = "raise"
  BY DEF ErrorsEscape, Erred, Awaited, TypeInv, TypeOK, EnvTypeOK, DriverTypeOK
<1> QED
  BY <1>1, <1>2
     DEF Control, Drive, CallTask, CallPrimitive, StartRun, RecordCreated, ResumeRun,
         WakeRun, Redrive, CancelRun, DriveTerminal, DriveLoad, Return, RefuseReplay, Park,
         ReuseResult, Schedule, StartAttempt, RunBody, Complete, FailAttempt, Backoff, SleepOver,
         ReuseEvent, ReuseTimeout, ConsumeEvent, RecordEvent, CreateTimer, EnsureTimerRow,
         StartWait, RecordWaiting, CallAllowed, WaitMisses, Parks, Awaits, At, Idle

LEMMA BudgetStep ==
  ASSUME OneDriver, ErrorsEscape, TypeInv, TypeInv', OutcomeInv, BudgetInv, NEW d \in Driver,
         AttemptsOf(d), [Next]_vars,
         Control(d) \/ Drive(d) \/ RefuseReplay(d) \/ Park(d) \/ CallTask(d) \/ CallPrimitive(d)
  PROVE  BudgetInv'
<1>0. /\ TypeOK /\ DriverTypeOK /\ DriverOK(d) /\ Grows /\ journal' \in Seq(Event)
      /\ crashes' = crashes /\ crashes \in Nat
      /\ \A m \in Task : Retries[m] \in Nat
  BY StepGrows, DriverMoves, RetriesAreNatural DEF TypeInv, TypeOK, DriversOK, StoreTypeOK, EnvTypeOK
<1>1. \A e \in Driver : e = d
  BY DEF OneDriver
<1>2. \A id : Failed(id) \in Nat
  BY <1>0, TalliesAreNat
<1>3. ASSUME Erred(d)' PROVE pc'[d] \in {"replay", "settle"}
  <2>1. CASE Erred(d)
    <3>1. CASE Raise(d)
      BY <1>0, <3>1 DEF Raise, GoTo, DriverTypeOK
    <3>2. CASE SettleStatus(d)
      BY <1>0, <1>3, <3>2 DEF SettleStatus, Release, Erred, DriverTypeOK
    <3> QED BY <2>1, <3>1, <3>2, ErrorEndsDrive
  <2>2. CASE ~Erred(d)
    <3>1. outs'[d] # outs[d] /\ outs'[d] # <<>>
      BY <1>3, <2>2 DEF Erred
    <3>2. \E o : Observe(d, o)
      BY <1>0, <3>1, DriverMoves DEF Release, DriverTypeOK
    <3> QED BY <1>0, <3>2 DEF Observe, GoTo, DriverTypeOK
  <2> QED BY <2>1, <2>2
<1>4. CASE ~FailAttempt(d)
  <2>1. \A id : Failed(id)' = Failed(id)
    BY <1>0, <1>4, FailuresStay
  <2>2. ASSUME TerminalIndices(journal') = {}, ~Erred(d)'
        PROVE  TerminalIndices(journal) = {} /\ ~Erred(d)
    <3>1. TerminalIndices(journal) = {}
      BY <1>0, <2>2, StaysRecorded
    <3>2. ~SettleStatus(d)
      BY <1>0, <3>1 DEF SettleStatus, At, DriverOK
    <3>3. ~Raise(d)
      <4> SUFFICES ASSUME Raise(d) PROVE FALSE
        OBVIOUS
      <4>1. journal' = Append(journal, Entry("WorkflowFailed", NoId, 0, "none"))
        BY DEF Raise, Commit
      <4>2. /\ Len(journal) \in Nat /\ DOMAIN journal' = 1..(Len(journal) + 1)
            /\ journal'[Len(journal) + 1] = Entry("WorkflowFailed", NoId, 0, "none")
        BY <1>0, <4>1, AppendFacts
      <4>3. Len(journal) + 1 \in TerminalIndices(journal')
        BY <4>2 DEF TerminalIndices, TerminalType, Entry
      <4> QED BY <2>2, <4>3
    <3> QED BY <3>1, <3>2, <3>3, ErrorEndsDrive
  <2> QED BY <1>0, <1>1, <1>3, <2>1, <2>2 DEF BudgetInv, Failed
<1>5. CASE FailAttempt(d)
  <2>1. \A id : Failed(id)' = IF id = CallId(d) THEN Failed(id) + 1 ELSE Failed(id)
    BY <1>5, FailCounts
  <2>2. /\ pc[d] \in {"body", "returned"} /\ TerminalIndices(journal) = {} /\ ~Erred(d)
        /\ failures[d] = Failed(CallId(d)) /\ Awaited(d).kind = "task"
    BY <1>0, <1>5 DEF FailAttempt, At, OutcomeInv, BudgetInv, AttemptsOf, Counted, Executing, DriverOK
  <2>3. /\ CallId(d) \in Identity /\ CallId(d).name \in Task /\ CallId(d).name = Awaited(d).name
    BY <1>0, <2>2, AwaitedFacts DEF CallId
  <2>4. \A id \in Identity : id.name \in Task => Failed(id) <= Retries[id.name] + crashes
    BY <1>1, <2>2 DEF BudgetInv
  <2>5. \A id \in Identity : id.name \in Task => Failed(id)' <= Retries[id.name] + 1 + crashes'
    BY <1>0, <1>2, <2>1, <2>4
  <2>6. ASSUME ~Erred(d)'
        PROVE  \A id \in Identity : id.name \in Task => Failed(id)' <= Retries[id.name] + crashes'
    <3>1. RetriesLeft(d)
      <4> SUFFICES ASSUME ~RetriesLeft(d) PROVE FALSE
        OBVIOUS
      <4>1. outs'[d] = Append(outs[d], "error") /\ outs[d] \in Seq(Outcome)
        BY <1>0, <1>5, HistoryIsSeq DEF FailAttempt, Observe, DriverTypeOK
      <4>2. /\ Len(outs[d]) + 1 \in DOMAIN outs'[d] /\ outs'[d][Len(outs[d]) + 1] = "error"
        BY <4>1, AppendProperties, LenProperties DEF Outcome
      <4> QED BY <2>6, <4>2 DEF Erred
    <3>2. Failed(CallId(d)) + 1 <= Retries[CallId(d).name]
      BY <2>2, <2>3, <3>1 DEF RetriesLeft
    <3> QED BY <1>0, <1>2, <2>1, <2>3, <2>4, <3>2
  <2> QED BY <1>1, <1>3, <2>5, <2>6 DEF BudgetInv, Failed
<1> QED BY <1>4, <1>5

\* Where nothing is recorded of attempts and no drive goes on, the budget stays.
LEMMA BudgetStays ==
  ASSUME TypeOK, BudgetInv, NoFact(AttemptTypes), crashes' = crashes,
         UNCHANGED <<pc, outs>>,
         TerminalIndices(journal') = {} => TerminalIndices(journal) = {}
  PROVE  BudgetInv'
<1>1. \A id : Failed(id)' = Failed(id)
  BY TalliesStay DEF Failed, AttemptTypes
<1> QED BY <1>1 DEF BudgetInv, Failed, Erred

LEMMA BudgetCrash ==
  ASSUME TypeOK, BudgetInv, Crash
  PROVE  BudgetInv'
<1>1. journal' = journal /\ crashes' = crashes + 1 /\ crashes \in Nat
  BY DEF Crash, store, TypeOK, EnvTypeOK
<1>2. \A id : Failed(id)' = Failed(id) /\ Failed(id) \in Nat
  BY <1>1, TalliesAreNat DEF Failed
<1>3. \A d \in Driver : ~Erred(d)'
  BY DEF Crash, Erred
<1>4. \A m \in Task : Retries[m] \in Nat
  BY RetriesAreNatural
<1>5. /\ \A id \in Identity : id.name \in Task => Failed(id)' <= Retries[id.name] + 1 + crashes'
      /\ \A id \in Identity : id.name \in Task => Failed(id)' <= Retries[id.name] + crashes'
  BY <1>1, <1>2, <1>4 DEF BudgetInv
<1> QED BY <1>3, <1>5 DEF BudgetInv, Failed

AttemptsInv == AttemptsAscend /\ FailuresOK /\ (\A d \in Driver : FreshAttempts(d) /\ Counted(d))

LEMMA AttemptsStep ==
  ASSUME OneDriver, TypeInv, TypeInv', AttemptsInv, [Next]_vars
  PROVE  AttemptsInv'
<1>1. ASSUME NEW d \in Driver,
             Control(d) \/ Drive(d) \/ RefuseReplay(d) \/ Park(d) \/ CallTask(d) \/ CallPrimitive(d)
      PROVE  AttemptsInv'
  <2>1. AttemptsOf(d)'
    BY <1>1, DriverCounts DEF AttemptsInv, AttemptsOf
  <2>2. \A e \in Driver : e = d
    BY DEF OneDriver
  <2> QED BY <2>1, <2>2 DEF AttemptsInv, AttemptsOf
<1>2. ASSUME \/ \E row \in timers : FireTimer(row) \/ SettleTimer(row)
             \/ (\E t \in Topic : SendEvent(t)) \/ PassTime \/ UNCHANGED vars
      PROVE  AttemptsInv'
  <2>1. NoFact(AttemptTypes)
    BY <1>2 DEF FireTimer, SettleTimer, SendEvent, PassTime, vars, store, NoFact, AttemptTypes,
                Commit, Entry
  <2>2. AttemptsAscend' /\ FailuresOK'
    BY <2>1, QuietAttempts DEF TypeInv, AttemptsInv
  <2>3. ASSUME NEW d \in Driver PROVE FreshAttempts(d)' /\ Counted(d)'
    BY <1>2, OutsideCounts DEF AttemptsInv, AttemptsOf
  <2> QED BY <2>2, <2>3 DEF AttemptsInv
<1>3. CASE Crash
  <2>1. journal' = journal /\ \A d \in Driver : pc'[d] = "idle"
    BY <1>3 DEF Crash, store
  <2>2. AttemptsAscend' /\ FailuresOK'
    BY <2>1 DEF AttemptsInv, AttemptsAscend, FailuresOK, Starts
  <2>3. \A d \in Driver : FreshAttempts(d)' /\ Counted(d)'
    BY <2>1 DEF FreshAttempts, Counted, Replaying, Executing
  <2> QED BY <2>2, <2>3 DEF AttemptsInv
<1> QED BY <1>1, <1>2, <1>3 DEF Next

LEMMA BudgetNext ==
  ASSUME OneDriver, ErrorsEscape, TypeInv, TypeInv', OutcomeInv, AttemptsInv, BudgetInv, [Next]_vars
  PROVE  BudgetInv'
<1>0. TypeOK /\ Grows /\ journal' \in Seq(Event)
  BY StepGrows DEF TypeInv, TypeOK, StoreTypeOK
<1>1. ASSUME NEW d \in Driver,
             Control(d) \/ Drive(d) \/ RefuseReplay(d) \/ Park(d) \/ CallTask(d) \/ CallPrimitive(d)
      PROVE  BudgetInv'
  BY <1>1, BudgetStep DEF AttemptsInv, AttemptsOf
<1>2. ASSUME \/ \E row \in timers : FireTimer(row) \/ SettleTimer(row)
             \/ (\E t \in Topic : SendEvent(t)) \/ PassTime \/ UNCHANGED vars
      PROVE  BudgetInv'
  <2>1. NoFact(AttemptTypes) /\ crashes' = crashes /\ UNCHANGED <<pc, outs>>
    BY <1>2 DEF FireTimer, SettleTimer, SendEvent, PassTime, vars, store, env, frame, NoFact,
                AttemptTypes, Commit, Entry
  <2>2. TerminalIndices(journal') = {} => TerminalIndices(journal) = {}
    BY <1>0, StaysRecorded
  <2> QED BY <1>0, <2>1, <2>2, BudgetStays
<1> QED BY <1>0, <1>1, <1>2, BudgetCrash DEF Next

\* The attempts of a call are counted right: its attempt numbers go up by one through
\* every retry, crash and resume, and a resume never refills its retries, for any
\* workflow that lets the error of a task escape.
THEOREM AttemptsAreCountedHolds ==
  ASSUME OneDriver, ErrorsEscape PROVE Spec => []AttemptsAreCounted
<1>1. Init => TypeInv /\ OutcomeInv /\ AttemptsInv /\ BudgetInv
  <2> SUFFICES ASSUME Init PROVE AttemptsInv /\ BudgetInv
    BY InitTypes, OutcomeInit
  <2>1. journal = <<>> /\ crashes = 0 /\ \A d \in Driver : pc[d] = "idle" /\ outs[d] = <<>>
    BY DEF Init
  <2>2. TypeOK /\ \A m \in Task : Retries[m] \in Nat
    BY InitTypes, RetriesAreNatural DEF TypeInv
  <2>3. \A id : Failed(id) = 0
    <3>1. \A id : Places(journal, Len(journal), "TaskAttemptFailed", id) = {}
      BY <2>1 DEF Places
    <3> QED BY <3>1, FS_EmptySet DEF Failed, Tally
  <2>4. AttemptsInv
    BY <2>1 DEF AttemptsInv, AttemptsAscend, FailuresOK, FreshAttempts, Counted, Replaying, Executing
  <2>5. BudgetInv
    BY <2>1, <2>2, <2>3 DEF BudgetInv, Erred
  <2> QED BY <2>4, <2>5
<1>2. TypeInv /\ OutcomeInv /\ AttemptsInv /\ BudgetInv /\ [Next]_vars
        => (TypeInv /\ OutcomeInv /\ AttemptsInv /\ BudgetInv)'
  BY NextTypes, OutcomeStep, AttemptsStep, BudgetNext
<1>3. TypeInv /\ AttemptsInv /\ BudgetInv => AttemptsAreCounted
  <2> SUFFICES ASSUME TypeInv, AttemptsInv, BudgetInv, NEW i \in DOMAIN journal,
                      journal[i].type = "TaskAttemptFailed"
               PROVE  Failures(journal, Len(journal), journal[i].id)
                        <= Retries[journal[i].id.name] + 1 + crashes
    BY DEF AttemptsAreCounted, AttemptsInv, RetryBudget
  <2>1. i \in 1..Len(journal) /\ journal[i].id \in Identity
    BY JournalFacts DEF TypeInv, Event
  <2>2. journal[i].id.name \in Task
    BY <2>1 DEF AttemptsInv, FailuresOK
  <2>3. \A id : Failures(journal, Len(journal), id) = Failed(id)
    BY DEF Failures, Failed, Tally, Places
  <2> QED BY <2>1, <2>2, <2>3 DEF BudgetInv
<1> QED BY <1>1, <1>2, <1>3, PTL DEF Spec

-----------------------------------------------------------------------------
(* What a drive sees follows what the journal recorded                       *)

Scheduled(i) == journal[i].type = "TaskScheduled"

\* the result v of a call is recorded
Done(j, id, v) ==
  \E i \in 1..Len(j) : j[i].type = "TaskCompleted" /\ j[i].id = id /\ j[i].val = v

\* the call is scheduled, and what was scheduled before it are calls of the drive
\* before its k-th; c are the calls of the drive
Placed(j, c, id, k) ==
  \E s \in 1..Len(j) :
    /\ j[s].type = "TaskScheduled" /\ j[s].id = id
    /\ \A r \in 1..(s - 1) : j[r].type = "TaskScheduled" =>
         \E l \in DOMAIN c : l < k /\ c[l].name \in Task /\ c[l] = j[r].id

TasksAreNamed == \A i \in 1..Len(journal) : TaskFact(journal[i]) => journal[i].id.name \in Task

\* A call completes after it is scheduled, and after the calls scheduled before it.
CompletionsFollow ==
  \A i \in 1..Len(journal) : journal[i].type = "TaskCompleted" =>
    \E s \in 1..(i - 1) :
      /\ Scheduled(s) /\ journal[s].id = journal[i].id
      /\ \A r \in 1..(s - 1) : Scheduled(r) => Recorded(journal, i - 1, "TaskCompleted", journal[r].id)

\* The calls of a task are scheduled in the order of their ordinals.
OrdinalsFollow ==
  \A s \in 1..Len(journal) : Scheduled(s) =>
    \A o \in Nat : o < journal[s].id.ord =>
      Recorded(journal, s - 1, "TaskScheduled", [name |-> journal[s].id.name, ord |-> o])

\* The calls of a drive have the ordinals the counters of the drive have passed.
Numbered(d) ==
  /\ \A k \in TaskCalls(d) : calls[d][k].ord < ordinals[d][calls[d][k].name]
  /\ \A t \in Task : \A o \in Nat : o < ordinals[d][t] =>
       \E k \in TaskCalls(d) : calls[d][k] = [name |-> t, ord |-> o]
  /\ \A k, l \in TaskCalls(d) : calls[d][k] = calls[d][l] => k = l

Follows(d) ==
  /\ Len(calls[d]) = Len(outs[d])
  /\ Numbered(d)
  /\ \A k \in Results(d) : Done(journal, calls[d][k], outs[d][k])
  /\ \A k \in TaskCalls(d) : Placed(journal, calls[d], calls[d][k], k)
  /\ \A k \in 1..Len(outs[d]) : outs[d][k] = "error" => k = Len(outs[d])
  /\ pc[d] \in Executing => Placed(journal, calls[d], CallId(d), Len(calls[d]) + 1)

JournalFollows == TasksAreNamed /\ CompletionsFollow /\ OrdinalsFollow

FollowInv == JournalFollows /\ \A d \in Driver : Follows(d)

-----------------------------------------------------------------------------
(* Counting                                                                  *)

\* The calls of a drive, as sequences and as positions.
LEMMA CallFacts ==
  ASSUME TypeOK, NEW d \in Driver, Len(calls[d]) = Len(outs[d])
  PROVE  /\ Len(calls[d]) \in Nat
         /\ DOMAIN calls[d] = 1..Len(calls[d]) /\ DOMAIN outs[d] = 1..Len(calls[d])
         /\ TaskCalls(d) \in SUBSET (1..Len(calls[d]))
         /\ \A k \in TaskCalls(d) : calls[d][k] \in Identity /\ calls[d][k].name \in Task
<1>1. calls[d] \in Seq(Identity) /\ outs[d] \in Histories
  BY DEF TypeOK, DriverTypeOK
<1>2. outs[d] \in Seq(Outcome)
  BY <1>1, HistoryIsSeq
<1>3. /\ Len(calls[d]) \in Nat /\ DOMAIN calls[d] = 1..Len(calls[d])
      /\ DOMAIN outs[d] = 1..Len(calls[d])
      /\ \A k \in 1..Len(calls[d]) : calls[d][k] \in Identity
  BY <1>1, <1>2, LenProperties, ElementOfSeq
<1> QED BY <1>3 DEF TaskCalls

LEMMA CallsArePlaced ==
  ASSUME NEW d \in Driver, Follows(d), NEW k \in TaskCalls(d)
  PROVE  \E t \in 1..Len(journal) :
           /\ Scheduled(t) /\ journal[t].id = calls[d][k]
           /\ \A r \in 1..(t - 1) : Scheduled(r) =>
                \E l \in TaskCalls(d) : l < k /\ calls[d][l] = journal[r].id
<1>1. Placed(journal, calls[d], calls[d][k], k)
  BY DEF Follows
<1> QED BY <1>1 DEF Placed, Scheduled, TaskCalls

\* The n-th result of a drive that follows the journal is the n-th completion.
LEMMA FollowsIsOrder ==
  ASSUME TypeOK, TaskRecordedOnce, JournalFollows, NEW d \in Driver, Follows(d),
         NEW k \in Results(d)
  PROVE  \E i \in DOMAIN journal :
           /\ journal[i].type = "TaskCompleted"
           /\ journal[i].id = calls[d][k] /\ journal[i].val = outs[d][k]
           /\ EarlierOf(journal, i, "TaskCompleted") = Cardinality({l \in Results(d) : l < k})
<1> DEFINE N == Len(calls[d])
           Completed(i) == journal[i].type = "TaskCompleted"
<1>1. /\ N \in Nat /\ Results(d) \in SUBSET TaskCalls(d) /\ TaskCalls(d) \in SUBSET (1..N)
      /\ Len(journal) \in Nat /\ DOMAIN journal = 1..Len(journal) /\ Len(outs[d]) = N
  BY CallFacts, JournalFacts DEF Results, Follows
<1>2. /\ \A i, m \in 1..Len(journal) :
           Completed(i) /\ Completed(m) /\ journal[i].id = journal[m].id => i = m
      /\ \A i, m \in 1..Len(journal) :
           Scheduled(i) /\ Scheduled(m) /\ journal[i].id = journal[m].id => i = m
  BY <1>1 DEF TaskRecordedOnce, RecordedOnce, Scheduled
<1> HIDE DEF Completed
<1>3. PICK i \in 1..Len(journal) :
        Completed(i) /\ journal[i].id = calls[d][k] /\ journal[i].val = outs[d][k]
  BY DEF Follows, Done, Completed
<1>4. PICK s \in 1..(i - 1) :
        /\ Scheduled(s) /\ journal[s].id = journal[i].id
        /\ \A r \in 1..(s - 1) : Scheduled(r) => Recorded(journal, i - 1, "TaskCompleted", journal[r].id)
  BY <1>3 DEF JournalFollows, CompletionsFollow, Completed
<1>5. \A l, m \in TaskCalls(d) : calls[d][l] = calls[d][m] => l = m
  BY DEF Follows, Numbered
<1>6. ASSUME NEW l \in TaskCalls(d), l < N PROVE l \in Results(d)
  BY <1>1, <1>6 DEF Follows, Results
<1>7. ASSUME NEW l \in TaskCalls(d)
      PROVE  \E t \in 1..Len(journal) :
               /\ Scheduled(t) /\ journal[t].id = calls[d][l]
               /\ \A r \in 1..(t - 1) : Scheduled(r) =>
                    \E q \in TaskCalls(d) : q < l /\ calls[d][q] = journal[r].id
  BY <1>7, CallsArePlaced
<1>8. ASSUME NEW r \in 1..(s - 1), Scheduled(r)
      PROVE  \E q \in Results(d) : q < k /\ calls[d][q] = journal[r].id
  <2>1. PICK t \in 1..Len(journal) :
          /\ Scheduled(t) /\ journal[t].id = calls[d][k]
          /\ \A z \in 1..(t - 1) : Scheduled(z) =>
               \E q \in TaskCalls(d) : q < k /\ calls[d][q] = journal[z].id
    BY <1>1, <1>7
  <2>2. s = t
    BY <1>1, <1>2, <1>3, <1>4, <2>1
  <2>3. PICK q \in TaskCalls(d) : q < k /\ calls[d][q] = journal[r].id
    BY <1>8, <2>1, <2>2
  <2>4. q < N
    BY <1>1, <2>3
  <2> QED BY <1>6, <2>3, <2>4
<1>9. ASSUME NEW m \in 1..(i - 1), Completed(m)
      PROVE  \E l \in Results(d) : l < k /\ calls[d][l] = journal[m].id
  <2>0. m \in 1..Len(journal) /\ m < i
    BY <1>1
  <2>1. PICK t \in 1..(m - 1) :
          /\ Scheduled(t) /\ journal[t].id = journal[m].id
          /\ \A r \in 1..(t - 1) : Scheduled(r) => Recorded(journal, m - 1, "TaskCompleted", journal[r].id)
    BY <1>9, <2>0 DEF JournalFollows, CompletionsFollow, Completed
  <2>2. t # s
    BY <1>1, <1>2, <1>3, <1>4, <1>9, <2>0, <2>1
  <2>3. ~(s < t)
    <3> SUFFICES ASSUME s < t PROVE FALSE
      OBVIOUS
    <3>1. Recorded(journal, m - 1, "TaskCompleted", journal[s].id)
      BY <1>1, <1>4, <2>1
    <3>2. PICK z \in 1..(m - 1) : Completed(z) /\ journal[z].id = journal[i].id
      BY <1>4, <3>1 DEF Recorded, Completed
    <3>3. z \in 1..Len(journal) /\ z < i
      BY <1>1, <2>0
    <3> QED BY <1>2, <1>3, <3>2, <3>3
  <2>4. t \in 1..(s - 1)
    BY <1>1, <2>2, <2>3
  <2> QED BY <1>8, <2>1, <2>4
<1>10. ASSUME NEW l \in Results(d), l < k
       PROVE  \E m \in 1..(i - 1) : Completed(m) /\ calls[d][l] = journal[m].id
  <2>0. l \in TaskCalls(d) /\ k \in TaskCalls(d) /\ l # k /\ l \in 1..N /\ k \in 1..N
    BY <1>1, <1>10
  <2>1. PICK t \in 1..Len(journal) :
          /\ Scheduled(t) /\ journal[t].id = calls[d][l]
          /\ \A r \in 1..(t - 1) : Scheduled(r) =>
               \E q \in TaskCalls(d) : q < l /\ calls[d][q] = journal[r].id
    BY <1>7, <2>0
  <2>2. t # s
    BY <1>3, <1>4, <1>5, <2>0, <2>1
  <2>3. ~(s < t)
    <3> SUFFICES ASSUME s < t PROVE FALSE
      OBVIOUS
    <3>1. PICK q \in TaskCalls(d) : q < l /\ calls[d][q] = journal[s].id
      BY <1>1, <1>4, <2>1
    <3> QED BY <1>1, <1>3, <1>4, <1>5, <1>10, <2>0, <3>1
  <2>4. t \in 1..(s - 1)
    BY <1>1, <2>2, <2>3
  <2>5. Recorded(journal, i - 1, "TaskCompleted", calls[d][l])
    BY <1>4, <2>1, <2>4
  <2> QED BY <2>5 DEF Recorded, Completed
<1>11. EarlierOf(journal, i, "TaskCompleted") = Cardinality({l \in Results(d) : l < k})
  <2> DEFINE A == {m \in 1..(i - 1) : journal[m].type = "TaskCompleted"}
             B == {l \in Results(d) : l < k}
             f == [m \in A |-> journal[m].id]
             g == calls[d]
             n == i - 1
  <2> USE DEF Completed
  <2>1. n \in Nat /\ A \in SUBSET (1..n) /\ B \in SUBSET (1..N)
    BY <1>1
  <2>2. \A a \in A : \E b \in B : f[a] = g[b]
    BY <1>9
  <2>3. \A b \in B : \E a \in A : f[a] = g[b]
    BY <1>10
  <2>4. ASSUME NEW a \in A, NEW c \in A, f[a] = f[c] PROVE a = c
    <3>1. a \in 1..Len(journal) /\ c \in 1..Len(journal) /\ Completed(a) /\ Completed(c)
      BY <1>1
    <3> QED BY <1>2, <2>4, <3>1
  <2>5. \A b, c \in B : g[b] = g[c] => b = c
    BY <1>1, <1>5
  <2>6. (\A a, c \in A : f[a] = f[c] => a = c) /\ N \in Nat
    BY <1>1, <2>4
  <2>7. SameMarks(A, B, f, g)
    BY <2>2, <2>3, <2>5, <2>6 DEF SameMarks
  <2> HIDE DEF A, B, f, g, n, N
  <2>8. Cardinality(A) = Cardinality(B)
    BY <2>1, <2>6, <2>7, SameNumber
  <2> QED BY <2>8 DEF A, B, n, EarlierOf
<1> QED BY <1>1, <1>3, <1>11 DEF Completed

-----------------------------------------------------------------------------
(* The position check finds the call                                         *)

\* the drive has made this call
Called(d, id) == \E k \in TaskCalls(d) : calls[d][k] = id

\* The first call scheduled that the drive has not made is the one it awaits, or the
\* drive diverges.
LEMMA FirstUncalled ==
  ASSUME TypeOK, TaskRecordedOnce, JournalFollows, NEW d \in Driver, Follows(d),
         loaded[d] <= Len(journal), Awaited(d).kind = "task", ~Diverges(d),
         NEW i \in 1..loaded[d], Scheduled(i), ~Called(d, journal[i].id)
  PROVE  \E s \in 1..i :
           /\ Scheduled(s) /\ journal[s].id = CallId(d)
           /\ \A r \in 1..(s - 1) : Scheduled(r) => Called(d, journal[r].id)
<1> DEFINE N == Len(calls[d])
<1>1. /\ N \in Nat /\ TaskCalls(d) \in SUBSET (1..N)
      /\ \A k \in TaskCalls(d) : calls[d][k] \in Identity /\ calls[d][k].name \in Task
      /\ Len(journal) \in Nat /\ loaded[d] \in Nat /\ i \in 1..Len(journal)
      /\ \A k \in 1..Len(journal) : journal[k] \in Event
  BY CallFacts, JournalFacts DEF Follows, TypeOK, DriverTypeOK
<1> DEFINE S == {n \in 0..(i - 1) : \A r \in 1..n : Scheduled(r) => Called(d, journal[r].id)}
<1>2. S \in SUBSET Nat /\ IsFiniteSet(S) /\ S # {}
  <2>1. 0 \in S
    BY <1>1
  <2>2. IsFiniteSet(0..(i - 1))
    <3>1. i - 1 \in Int /\ 0 \in Int
      BY <1>1
    <3> QED BY <3>1, FS_Interval
  <2>3. S \in SUBSET (0..(i - 1)) /\ S \in SUBSET Nat
    BY <1>1
  <2>4. IsFiniteSet(S)
    BY <2>2, <2>3, FS_Subset
  <2> QED BY <2>1, <2>3, <2>4
<1>3. PICK n \in S : \A m \in S : m <= n
  <2> HIDE DEF S
  <2> QED BY <1>2, MaxOfFiniteSet
<1> DEFINE s == n + 1
<1>4. s \in 1..i /\ s \in 1..Len(journal) /\ \A r \in 1..(s - 1) : Scheduled(r) => Called(d, journal[r].id)
  BY <1>1, <1>3
<1>5. Scheduled(s) /\ ~Called(d, journal[s].id)
  <2>1. CASE s = i
    BY <2>1
  <2>2. CASE s # i
    <3>1. s \in 0..(i - 1) /\ s \notin S
      BY <1>1, <1>3, <1>4, <2>2
    <3>2. PICK r \in 1..s : Scheduled(r) /\ ~Called(d, journal[r].id)
      BY <3>1
    <3>3. r = s
      BY <1>1, <1>4, <3>2
    <3> QED BY <3>2, <3>3
  <2> QED BY <2>1, <2>2
<1> HIDE DEF s
<1>6. ASSUME NEW k \in TaskCalls(d)
      PROVE  \E r \in 1..(s - 1) : Scheduled(r) /\ journal[r].id = calls[d][k]
  <2>1. PICK t \in 1..Len(journal) :
          /\ Scheduled(t) /\ journal[t].id = calls[d][k]
          /\ \A r \in 1..(t - 1) : Scheduled(r) =>
               \E l \in TaskCalls(d) : l < k /\ calls[d][l] = journal[r].id
    BY <1>6, CallsArePlaced
  <2>2. t # s
    BY <1>5, <1>6, <2>1 DEF Called
  <2>3. ~(s < t)
    BY <1>1, <1>4, <1>5, <2>1 DEF Called
  <2>4. t \in 1..(s - 1)
    BY <1>1, <1>4, <2>2, <2>3
  <2> QED BY <2>1, <2>4
<1>7. EarlierOf(journal, s, "TaskScheduled") = Cardinality(TaskCalls(d))
  <2> DEFINE A == {r \in 1..(s - 1) : Scheduled(r)}
             B == TaskCalls(d)
             f == [r \in A |-> journal[r].id]
             g == calls[d]
             m == s - 1
  <2>1. m \in Nat /\ A \in SUBSET (1..m) /\ B \in SUBSET (1..N) /\ N \in Nat
    BY <1>1, <1>4
  <2>2. \A a \in A : \E b \in B : f[a] = g[b]
    BY <1>4 DEF Called
  <2>3. \A b \in B : \E a \in A : f[a] = g[b]
    BY <1>6
  <2>4. ASSUME NEW a \in A, NEW c \in A, f[a] = f[c] PROVE a = c
    <3>1. a \in DOMAIN journal /\ c \in DOMAIN journal /\ journal[a].id = journal[c].id
      BY <1>1, <1>4, <2>4, JournalFacts
    <3> QED BY <3>1 DEF TaskRecordedOnce, RecordedOnce, Scheduled
  <2>5. \A b, c \in B : g[b] = g[c] => b = c
    BY DEF Follows, Numbered
  <2>6. SameMarks(A, B, f, g)
    BY <2>2, <2>3, <2>4, <2>5 DEF SameMarks
  <2> HIDE DEF A, B, f, g, m, N
  <2>7. Cardinality(A) = Cardinality(B)
    BY <2>1, <2>6, SameNumber
  <2> QED BY <2>7 DEF A, B, m, EarlierOf, Scheduled
<1>8. s \in 1..loaded[d] /\ journal[s].type = "TaskScheduled"
  BY <1>1, <1>4, <1>5 DEF Scheduled
<1>9. journal[s].id.name = Awaited(d).name
  BY <1>7, <1>8 DEF Diverges
<1> DEFINE id == journal[s].id
           t == Awaited(d).name
<1>10. id \in Identity /\ id.name = t /\ id.ord \in Nat /\ t \in Task /\ ordinals[d][t] \in Nat
  <2>1. journal[s] \in Event
    BY <1>1, <1>4
  <2>2. t \in Task /\ t \in Name
    BY AwaitedFacts
  <2>3. ordinals[d][t] \in Nat
    BY <2>2 DEF TypeOK, DriverTypeOK
  <2> QED BY <1>9, <2>1, <2>2, <2>3 DEF Event, Identity
<1>11. id = [name |-> t, ord |-> id.ord]
  BY <1>10 DEF Identity
<1>12. ~(id.ord < ordinals[d][t])
  BY <1>5, <1>10, <1>11 DEF Follows, Numbered, Called
<1>13. ~(ordinals[d][t] < id.ord)
  <2> SUFFICES ASSUME ordinals[d][t] < id.ord PROVE FALSE
    OBVIOUS
  <2>1. Recorded(journal, s - 1, "TaskScheduled", [name |-> id.name, ord |-> ordinals[d][t]])
    BY <1>4, <1>5, <1>10 DEF JournalFollows, OrdinalsFollow
  <2>2. PICK r \in 1..(s - 1) :
          Scheduled(r) /\ journal[r].id = [name |-> t, ord |-> ordinals[d][t]]
    BY <1>10, <2>1 DEF Recorded, Scheduled
  <2>3. PICK k \in TaskCalls(d) : calls[d][k] = [name |-> t, ord |-> ordinals[d][t]]
    BY <1>4, <2>2 DEF Called
  <2>4. calls[d][k].ord < ordinals[d][calls[d][k].name]
    BY DEF Follows, Numbered
  <2> QED BY <1>10, <2>3, <2>4
<1>14. id.ord = ordinals[d][t]
  BY <1>10, <1>12, <1>13
<1>15. id = CallId(d)
  BY <1>11, <1>14 DEF CallId
<1> QED BY <1>4, <1>5, <1>15

\* A call that the loaded prefix scheduled has its place behind the calls of the drive.
LEMMA CallPlaced ==
  ASSUME TypeOK, TaskRecordedOnce, JournalFollows, NEW d \in Driver, Follows(d),
         loaded[d] <= Len(journal), Awaited(d).kind = "task", ~Diverges(d),
         Hit(d, "TaskScheduled")
  PROVE  Placed(journal, calls[d], CallId(d), Len(calls[d]) + 1)
<1>1. /\ Len(calls[d]) \in Nat /\ TaskCalls(d) \in SUBSET (1..Len(calls[d]))
      /\ Len(journal) \in Nat /\ loaded[d] \in Nat
  BY CallFacts, JournalFacts DEF Follows, TypeOK, DriverTypeOK
<1>2. PICK i \in 1..loaded[d] : Scheduled(i) /\ journal[i].id = CallId(d)
  BY DEF Hit, Recorded, Scheduled
<1>3. ~Called(d, journal[i].id)
  <2> SUFFICES ASSUME NEW k \in TaskCalls(d), calls[d][k] = CallId(d) PROVE FALSE
    BY <1>2 DEF Called
  <2>1. CallId(d).ord < ordinals[d][CallId(d).name]
    BY DEF Follows, Numbered
  <2>2. CallId(d).name = Awaited(d).name /\ CallId(d).ord = ordinals[d][Awaited(d).name]
    BY DEF CallId
  <2>3. ordinals[d][Awaited(d).name] \in Nat
    BY AwaitedFacts DEF TypeOK, DriverTypeOK
  <2> QED BY <2>1, <2>2, <2>3
<1>4. PICK s \in 1..i :
        /\ Scheduled(s) /\ journal[s].id = CallId(d)
        /\ \A r \in 1..(s - 1) : Scheduled(r) => Called(d, journal[r].id)
  BY <1>2, <1>3, FirstUncalled
<1>5. ASSUME NEW r \in 1..(s - 1), Scheduled(r)
      PROVE  \E l \in TaskCalls(d) : l < Len(calls[d]) + 1 /\ calls[d][l] = journal[r].id
  BY <1>1, <1>4, <1>5 DEF Called
<1>6. s \in 1..Len(journal)
  BY <1>1
<1> QED BY <1>4, <1>5, <1>6 DEF Placed, Scheduled, TaskCalls

\* A drive that awaits a call the loaded prefix did not schedule has made every call
\* the journal has scheduled.
LEMMA AllAreCalled ==
  ASSUME TypeOK, TaskRecordedOnce, JournalFollows, NEW d \in Driver, Follows(d), Fresh(d),
         loaded[d] <= Len(journal), Awaited(d).kind = "task", ~Diverges(d),
         pc[d] = "replay", ~Hit(d, "TaskScheduled"), NEW i \in 1..Len(journal), Scheduled(i)
  PROVE  Called(d, journal[i].id)
<1>1. Len(journal) \in Nat /\ loaded[d] \in Nat /\ journal[i] \in Event
  BY JournalFacts DEF TypeOK, DriverTypeOK
<1>2. CASE i <= loaded[d]
  <2> SUFFICES ASSUME ~Called(d, journal[i].id) PROVE FALSE
    OBVIOUS
  <2>1. i \in 1..loaded[d]
    BY <1>1, <1>2
  <2>2. PICK s \in 1..i : Scheduled(s) /\ journal[s].id = CallId(d)
    BY <2>1, FirstUncalled
  <2>3. s \in 1..loaded[d]
    BY <1>1, <1>2
  <2> QED BY <2>2, <2>3 DEF Hit, Recorded, Scheduled
<1>3. CASE i > loaded[d]
  <2> DEFINE id == journal[i].id
  <2>1. Accounted(d, journal[i])
    BY <1>3 DEF Fresh, TaskFact, Scheduled, Replaying, Pc
  <2>2. id.name \in Task /\ id.ord < ordinals[d][id.name]
    BY <2>1 DEF Accounted, Executing
  <2>3. id \in Identity
    BY <1>1 DEF Event
  <2>4. id.ord \in Nat /\ id = [name |-> id.name, ord |-> id.ord]
    BY <2>3 DEF Identity
  <2> QED BY <2>2, <2>4 DEF Follows, Numbered, Called
<1> QED BY <1>1, <1>2, <1>3

-----------------------------------------------------------------------------
(* Every step keeps the order                                                *)

\* What is recorded and what is placed stays so in a longer journal ...
LEMMA GrownFacts ==
  ASSUME TypeOK, Grows
  PROVE  /\ \A id, v : Done(journal, id, v) => Done(journal', id, v)
         /\ \A c, id, k : Placed(journal, c, id, k) => Placed(journal', c, id, k)
<1>1. /\ Len(journal) \in Nat /\ Len(journal') \in Nat /\ Len(journal) <= Len(journal')
      /\ \A i \in 1..Len(journal) : i \in 1..Len(journal') /\ journal'[i] = journal[i]
  BY JournalFacts DEF Grows
<1>2. \A id, v : Done(journal, id, v) => Done(journal', id, v)
  BY <1>1 DEF Done
<1>3. ASSUME NEW c, NEW id, NEW k, Placed(journal, c, id, k)
      PROVE  Placed(journal', c, id, k)
  <2>1. PICK s \in 1..Len(journal) :
          /\ journal[s].type = "TaskScheduled" /\ journal[s].id = id
          /\ \A r \in 1..(s - 1) : journal[r].type = "TaskScheduled" =>
               \E l \in DOMAIN c : l < k /\ c[l].name \in Task /\ c[l] = journal[r].id
    BY <1>3 DEF Placed
  <2>2. \A r \in 1..(s - 1) : r \in 1..Len(journal)
    BY <1>1
  <2> QED BY <1>1, <2>1, <2>2 DEF Placed
<1> QED BY <1>2, <1>3

\* ... and in a longer drive.
LEMMA LongerCalls ==
  ASSUME NEW j, NEW c, NEW e, NEW id, NEW k, Placed(j, c, id, k),
         \A l \in DOMAIN c : l \in DOMAIN e /\ e[l] = c[l]
  PROVE  Placed(j, e, id, k)
  BY DEF Placed

LEMMA QuietJournal ==
  ASSUME TypeOK, NoTaskFact, Grows, JournalFollows
  PROVE  JournalFollows'
<1>1. /\ Len(journal) \in Nat /\ Len(journal') \in Nat /\ Len(journal) <= Len(journal')
      /\ \A i \in 1..Len(journal) : journal'[i] = journal[i]
      /\ \A i \in 1..Len(journal') : TaskFact(journal'[i]) =>
           i \in 1..Len(journal) /\ journal'[i] = journal[i]
  BY JournalFacts, NoTaskFactKeeps DEF Grows
<1>2. TasksAreNamed'
  BY <1>1 DEF JournalFollows, TasksAreNamed, TaskFact
<1>3. ASSUME NEW i \in 1..Len(journal) PROVE \A type, id : Recorded(journal, i - 1, type, id) => Recorded(journal', i - 1, type, id)
  BY <1>1 DEF Recorded
<1>4. CompletionsFollow'
  <2> SUFFICES ASSUME NEW i \in 1..Len(journal'), journal'[i].type = "TaskCompleted"
               PROVE  \E s \in 1..(i - 1) :
                        /\ journal'[s].type = "TaskScheduled" /\ journal'[s].id = journal'[i].id
                        /\ \A r \in 1..(s - 1) : journal'[r].type = "TaskScheduled" =>
                             Recorded(journal', i - 1, "TaskCompleted", journal'[r].id)
    BY DEF CompletionsFollow, Scheduled
  <2>1. i \in 1..Len(journal) /\ journal'[i] = journal[i]
    BY <1>1 DEF TaskFact
  <2>2. PICK s \in 1..(i - 1) :
          /\ Scheduled(s) /\ journal[s].id = journal[i].id
          /\ \A r \in 1..(s - 1) : Scheduled(r) => Recorded(journal, i - 1, "TaskCompleted", journal[r].id)
    BY <2>1 DEF JournalFollows, CompletionsFollow
  <2>3. s \in 1..Len(journal) /\ \A r \in 1..(s - 1) : r \in 1..Len(journal)
    BY <1>1, <2>1
  <2> QED BY <1>1, <1>3, <2>1, <2>2, <2>3 DEF Scheduled
<1>5. OrdinalsFollow'
  <2> SUFFICES ASSUME NEW s \in 1..Len(journal'), journal'[s].type = "TaskScheduled",
                      NEW o \in Nat, o < journal'[s].id.ord
               PROVE  Recorded(journal', s - 1, "TaskScheduled", [name |-> journal'[s].id.name, ord |-> o])
    BY DEF OrdinalsFollow, Scheduled
  <2>1. s \in 1..Len(journal) /\ journal'[s] = journal[s]
    BY <1>1 DEF TaskFact
  <2> QED BY <1>3, <2>1 DEF JournalFollows, OrdinalsFollow, Scheduled
<1> QED BY <1>2, <1>4, <1>5 DEF JournalFollows

LEMMA SameDrive ==
  ASSUME TypeOK, Grows, NEW d \in Driver, Follows(d), code' = code,
         calls'[d] = calls[d], outs'[d] = outs[d], ordinals'[d] = ordinals[d],
         pc'[d] \in Executing => pc[d] \in Executing
  PROVE  Follows(d)'
<1>1. TaskCalls(d)' = TaskCalls(d) /\ Results(d)' = Results(d) /\ CallId(d)' = CallId(d)
  BY DEF TaskCalls, Results, CallId, Awaited
<1>2. Numbered(d)'
  BY <1>1 DEF Follows, Numbered
<1>3. \A k \in Results(d) : Done(journal', calls[d][k], outs[d][k])
  BY GrownFacts DEF Follows
<1>4. \A k \in TaskCalls(d) : Placed(journal', calls[d], calls[d][k], k)
  BY GrownFacts DEF Follows
<1>5. pc'[d] \in Executing => Placed(journal', calls[d], CallId(d), Len(calls[d]) + 1)
  BY GrownFacts DEF Follows
<1> QED BY <1>1, <1>2, <1>3, <1>4, <1>5 DEF Follows

\* A drive that has no call follows any journal.
LEMMA NoDrive ==
  ASSUME NEW d \in Driver, calls'[d] = <<>>, outs'[d] = <<>>, ordinals'[d] = [m \in Name |-> 0],
         pc'[d] = "idle"
  PROVE  Follows(d)'
<1>1. TaskCalls(d)' = {} /\ Results(d)' = {}
  BY DEF TaskCalls, Results
<1>2. \A t \in Task : ordinals'[d][t] = 0
  BY DEF Name
<1>3. Numbered(d)'
  BY <1>1, <1>2 DEF Numbered
<1> QED BY <1>1, <1>3 DEF Follows, Executing

\* The drive goes on to its next call: this one is placed if it is a task, and what the
\* workflow observed of it is recorded, or an error.
LEMMA NextCall ==
  ASSUME TypeOK, Grows, NEW d \in Driver, Follows(d), ~Erred(d), NEW o, Observe(d, o),
         Awaited(d).kind \in {"task", "sleep", "wait"},
         Awaited(d).kind = "task" =>
           /\ Placed(journal', calls[d], CallId(d), Len(calls[d]) + 1)
           /\ o = "error" \/ Done(journal', CallId(d), o)
  PROVE  Follows(d)'
<1> DEFINE n == Len(calls[d])
           c == calls'[d]
           t == Awaited(d).name
<1>0. /\ DriverTypeOK /\ calls[d] \in Seq(Identity) /\ outs[d] \in Seq(Outcome)
      /\ CallId(d) \in Identity /\ t \in Name
      /\ Awaited(d).kind = "task" => t \in Task
      /\ Awaited(d).kind = "wait" => t \in Topic
      /\ Awaited(d).kind = "sleep" => t = "sleep"
  BY AwaitedFacts, HistoryIsSeq DEF TypeOK, DriverTypeOK
<1>1. /\ n \in Nat /\ Len(outs[d]) = n
      /\ DOMAIN calls[d] = 1..n /\ DOMAIN outs[d] = 1..n
      /\ TaskCalls(d) \in SUBSET (1..n)
      /\ \A k \in TaskCalls(d) : calls[d][k] \in Identity /\ calls[d][k].name \in Task
  BY CallFacts DEF Follows
<1>2. /\ c = Append(calls[d], CallId(d)) /\ outs'[d] = Append(outs[d], o)
      /\ pc'[d] = "replay"
  BY <1>0 DEF Observe, GoTo, DriverTypeOK
<1>3. /\ Len(c) = n + 1 /\ DOMAIN c = 1..(n + 1) /\ c[n + 1] = CallId(d)
      /\ \A k \in 1..n : c[k] = calls[d][k]
  BY <1>0, <1>1, <1>2, AppendProperties, LenProperties
<1>4. /\ Len(outs'[d]) = n + 1 /\ DOMAIN outs'[d] = 1..(n + 1) /\ outs'[d][n + 1] = o
      /\ \A k \in 1..n : outs'[d][k] = outs[d][k]
  <2> DEFINE S == Outcome \cup {o}
  <2>1. outs[d] \in Seq(S) /\ o \in S
    BY <1>0, SeqMonotonic
  <2> HIDE DEF S
  <2> QED BY <1>1, <1>2, <2>1, AppendProperties, LenProperties
<1>5. \A m \in Name : ordinals'[d][m] = IF m = t THEN ordinals[d][m] + 1 ELSE ordinals[d][m]
  <2>1. ordinals' = [ordinals EXCEPT ![d][t] = @ + 1]
    BY DEF Observe
  <2> HIDE DEF t
  <2> QED BY <1>0, <2>1 DEF DriverTypeOK
<1>6. \A m \in Task : m \in Name /\ ordinals[d][m] \in Nat
  BY <1>0 DEF DriverTypeOK, Name
<1>7. CallId(d).name \in Task <=> Awaited(d).kind = "task"
  BY <1>0, NamesAreDistinct DEF CallId
<1>8. /\ Awaited(d).kind = "task" => CallId(d) = [name |-> t, ord |-> ordinals[d][t]]
      /\ Awaited(d).kind # "task" => t \notin Task
  BY <1>0, NamesAreDistinct DEF CallId
<1> HIDE DEF c, n, t
<1>9. /\ \A k \in 1..n : k \in TaskCalls(d)' <=> k \in TaskCalls(d)
      /\ n + 1 \in TaskCalls(d)' <=> Awaited(d).kind = "task"
      /\ TaskCalls(d)' \in SUBSET (1..(n + 1))
  BY <1>1, <1>3, <1>7 DEF TaskCalls, c
<1>10. ASSUME NEW k \in TaskCalls(d)'
       PROVE  \/ k \in TaskCalls(d) /\ k \in 1..n /\ c[k] = calls[d][k]
              \/ k = n + 1 /\ Awaited(d).kind = "task" /\ c[k] = CallId(d)
  BY <1>1, <1>3, <1>9
<1>11. ASSUME NEW k \in TaskCalls(d)
       PROVE  /\ calls[d][k].name \in Task /\ calls[d][k].ord \in Nat
              /\ calls[d][k].ord < ordinals[d][calls[d][k].name]
              /\ calls[d][k].ord < ordinals'[d][calls[d][k].name]
  <2>1. calls[d][k].name \in Task /\ calls[d][k].ord \in Nat
    BY <1>1 DEF Identity
  <2>2. calls[d][k].ord < ordinals[d][calls[d][k].name]
    BY DEF Follows, Numbered
  <2> QED BY <1>5, <1>6, <2>1, <2>2
<1>12. ASSUME NEW k \in TaskCalls(d)' PROVE c[k].ord < ordinals'[d][c[k].name]
  <2>1. CASE k \in TaskCalls(d) /\ c[k] = calls[d][k]
    BY <1>11, <2>1
  <2>2. CASE Awaited(d).kind = "task" /\ c[k] = CallId(d)
    BY <1>0, <1>5, <1>6, <1>8, <2>2
  <2> QED BY <1>10, <2>1, <2>2
<1>13. ASSUME NEW m \in Task, NEW p \in Nat, p < ordinals'[d][m]
       PROVE  \E k \in TaskCalls(d)' : c[k] = [name |-> m, ord |-> p]
  <2>1. CASE p < ordinals[d][m]
    <3>1. PICK k \in TaskCalls(d) : calls[d][k] = [name |-> m, ord |-> p]
      BY <2>1 DEF Follows, Numbered
    <3> QED BY <1>1, <1>3, <1>9, <3>1
  <2>2. CASE ~(p < ordinals[d][m])
    <3>1. m = t /\ p = ordinals[d][t]
      BY <1>5, <1>6, <1>13, <2>2
    <3>2. Awaited(d).kind = "task"
      BY <1>8, <3>1
    <3> QED BY <1>3, <1>8, <1>9, <3>1, <3>2
  <2> QED BY <2>1, <2>2
<1>14. ASSUME NEW k \in TaskCalls(d)', NEW l \in TaskCalls(d)', c[k] = c[l] PROVE k = l
  <2>1. ASSUME NEW q \in TaskCalls(d), Awaited(d).kind = "task", calls[d][q] = CallId(d) PROVE FALSE
    <3>1. calls[d][q].ord < ordinals[d][calls[d][q].name]
      BY <1>11
    <3>2. t \in Task /\ ordinals[d][t] \in Nat
      BY <1>0, <1>6, <2>1
    <3> QED BY <1>8, <2>1, <3>1, <3>2
  <2>2. CASE k \in TaskCalls(d) /\ l \in TaskCalls(d) /\ c[k] = calls[d][k] /\ c[l] = calls[d][l]
    BY <1>14, <2>2 DEF Follows, Numbered
  <2> QED BY <1>10, <1>14, <2>1, <2>2
<1>15. Numbered(d)'
  BY <1>12, <1>13, <1>14 DEF Numbered, c
<1>16. ASSUME NEW k \in Results(d)' PROVE Done(journal', c[k], outs'[d][k])
  <2>1. k \in TaskCalls(d)' /\ outs'[d][k] # "error"
    BY DEF Results
  <2>2. CASE k \in TaskCalls(d) /\ k \in 1..n /\ c[k] = calls[d][k]
    <3>1. outs'[d][k] = outs[d][k]
      BY <1>4, <2>2
    <3>2. k \in Results(d)
      BY <2>1, <2>2, <3>1 DEF Results
    <3>3. Done(journal, calls[d][k], outs[d][k])
      BY <3>2 DEF Follows
    <3> QED BY <2>2, <3>1, <3>3, GrownFacts
  <2>3. CASE k = n + 1 /\ Awaited(d).kind = "task" /\ c[k] = CallId(d)
    BY <1>4, <2>1, <2>3
  <2> QED BY <1>10, <2>1, <2>2, <2>3
<1>17. ASSUME NEW k \in TaskCalls(d)' PROVE Placed(journal', c, c[k], k)
  <2>1. \A l \in DOMAIN calls[d] : l \in DOMAIN c /\ c[l] = calls[d][l]
    BY <1>1, <1>3
  <2>2. CASE k \in TaskCalls(d) /\ c[k] = calls[d][k]
    <3>1. Placed(journal', calls[d], calls[d][k], k)
      BY <2>2, GrownFacts DEF Follows
    <3> QED BY <2>1, <2>2, <3>1, LongerCalls
  <2>3. CASE k = n + 1 /\ Awaited(d).kind = "task" /\ c[k] = CallId(d)
    <3>1. Placed(journal', calls[d], CallId(d), n + 1)
      BY <2>3 DEF n
    <3> QED BY <2>1, <2>3, <3>1, LongerCalls
  <2> QED BY <1>10, <2>2, <2>3
<1>18. ASSUME NEW k \in 1..(n + 1), outs'[d][k] = "error" PROVE k = n + 1
  <2>1. \A l \in 1..n : outs[d][l] # "error"
    BY <1>1 DEF Erred
  <2>2. k \notin 1..n
    BY <1>4, <1>18, <2>1
  <2> QED BY <1>1, <2>2
<1>19. Len(c) = Len(outs'[d])
  BY <1>3, <1>4
<1>20. pc'[d] \notin Executing
  BY <1>2 DEF Executing
<1> QED BY <1>4, <1>15, <1>16, <1>17, <1>18, <1>19, <1>20 DEF Follows, c

\* An event that is appended is the last, and what was recorded before it stays.
LEMMA OneMoreFact ==
  ASSUME TypeOK, NEW type, NEW id, NEW n, NEW val, Commit(type, id, n, val)
  PROVE  /\ Len(journal) \in Nat /\ Len(journal') = Len(journal) + 1 /\ Grows
         /\ \A i \in 1..Len(journal) : journal'[i] = journal[i]
         /\ journal'[Len(journal) + 1].type = type /\ journal'[Len(journal) + 1].id = id
         /\ journal'[Len(journal) + 1].val = val
         /\ \A m \in 1..(Len(journal) + 1) : \A u, w :
              Recorded(journal, m - 1, u, w) => Recorded(journal', m - 1, u, w)
<1>1. /\ Len(journal) \in Nat /\ Len(journal') = Len(journal) + 1
      /\ \A i \in 1..Len(journal) : journal'[i] = journal[i]
      /\ journal'[Len(journal) + 1] = Entry(type, id, n, val)
  BY AppendFacts DEF Commit
<1>2. ASSUME NEW m \in 1..(Len(journal) + 1), NEW u, NEW w, Recorded(journal, m - 1, u, w)
      PROVE  Recorded(journal', m - 1, u, w)
  <2>1. PICK i \in 1..(m - 1) : journal[i].type = u /\ journal[i].id = w
    BY <1>2 DEF Recorded
  <2>2. journal'[i] = journal[i]
    BY <1>1
  <2> QED BY <2>1, <2>2 DEF Recorded
<1> QED BY <1>1, <1>2 DEF Grows, Entry

\* A task is scheduled behind the calls of the drive, at its ordinal.
LEMMA ScheduleFollows ==
  ASSUME TypeInv, Strict, TaskRecordedOnce, JournalFollows, NEW d \in Driver, Fresh(d),
         Follows(d), Schedule(d)
  PROVE  JournalFollows' /\ Follows(d)'
<1>0. /\ TypeOK /\ DriverTypeOK /\ loaded[d] <= Len(journal) /\ loaded[d] \in Nat
      /\ pc[d] = "replay" /\ Awaited(d).kind = "task" /\ ~Diverges(d)
      /\ Awaited(d).name \in Task /\ Awaited(d).name \in Name /\ CallId(d) \in Identity
      /\ UNCHANGED <<code, outs, calls, ordinals>>
  BY AwaitedFacts DEF TypeInv, TypeOK, DriverTypeOK, DriversOK, DriverOK, Schedule, CallAllowed,
                      Awaits, At, env
<1>1. ASSUME JournalFollows', Grows, Placed(journal', calls[d], CallId(d), Len(calls[d]) + 1)
      PROVE  JournalFollows' /\ Follows(d)'
  <2>1. TaskCalls(d)' = TaskCalls(d) /\ Results(d)' = Results(d) /\ CallId(d)' = CallId(d)
    BY <1>0 DEF TaskCalls, Results, CallId, Awaited
  <2>2. Numbered(d)'
    BY <1>0, <2>1 DEF Follows, Numbered
  <2>3. /\ \A k \in Results(d) : Done(journal', calls[d][k], outs[d][k])
        /\ \A k \in TaskCalls(d) : Placed(journal', calls[d], calls[d][k], k)
    BY <1>0, <1>1, GrownFacts DEF Follows
  <2> QED BY <1>0, <1>1, <2>1, <2>2, <2>3 DEF Follows
<1>2. CASE Hit(d, "TaskScheduled")
  <2>1. journal' = journal
    BY <1>2 DEF Schedule
  <2>2. Placed(journal, calls[d], CallId(d), Len(calls[d]) + 1)
    BY <1>0, <1>2, CallPlaced
  <2>3. Grows /\ JournalFollows'
    BY <1>0, <2>1, JournalFacts, QuietJournal DEF Grows, NoTaskFact
  <2> QED BY <1>1, <2>1, <2>2, <2>3
<1>3. CASE ~Hit(d, "TaskScheduled")
  <2> DEFINE n == Len(journal)
             s == n + 1
             t == Awaited(d).name
  <2>1. Commit("TaskScheduled", CallId(d), 0, "none")
    BY <1>3 DEF Schedule
  <2>2. /\ n \in Nat /\ Len(journal') = n + 1 /\ Grows
        /\ \A i \in 1..n : journal'[i] = journal[i]
        /\ journal'[s].type = "TaskScheduled" /\ journal'[s].id = CallId(d)
        /\ \A m \in 1..(n + 1) : \A u, w : Recorded(journal, m - 1, u, w) => Recorded(journal', m - 1, u, w)
    BY <1>0, <2>1, OneMoreFact
  <2>3. CallId(d) = [name |-> t, ord |-> ordinals[d][t]] /\ ordinals[d][t] \in Nat
    BY <1>0 DEF CallId, DriverTypeOK
  <2>4. \A i \in 1..n : Scheduled(i) => Called(d, journal[i].id)
    BY <1>0, <1>3, AllAreCalled
  <2>5. Placed(journal', calls[d], CallId(d), Len(calls[d]) + 1)
    <3>1. Len(calls[d]) \in Nat /\ TaskCalls(d) \in SUBSET (1..Len(calls[d]))
      BY <1>0, CallFacts DEF Follows
    <3>2. \A r \in 1..(s - 1) : journal'[r].type = "TaskScheduled" =>
            \E l \in DOMAIN calls[d] : l < Len(calls[d]) + 1 /\ calls[d][l].name \in Task
                                       /\ calls[d][l] = journal'[r].id
      BY <2>2, <2>4, <3>1 DEF Called, Scheduled, TaskCalls
    <3> QED BY <2>2, <3>2 DEF Placed
  <2> HIDE DEF n, s, t
  <2>6. \A i \in 1..Len(journal') : i = s \/ i \in 1..n
    BY <2>2 DEF s
  <2>7. TasksAreNamed'
    BY <1>0, <2>2, <2>3, <2>6 DEF JournalFollows, TasksAreNamed, TaskFact, n, t
  <2>8. CompletionsFollow'
    <3> SUFFICES ASSUME NEW i \in 1..Len(journal'), journal'[i].type = "TaskCompleted"
                 PROVE  \E q \in 1..(i - 1) :
                          /\ journal'[q].type = "TaskScheduled" /\ journal'[q].id = journal'[i].id
                          /\ \A r \in 1..(q - 1) : journal'[r].type = "TaskScheduled" =>
                               Recorded(journal', i - 1, "TaskCompleted", journal'[r].id)
      BY DEF CompletionsFollow, Scheduled
    <3>1. i \in 1..n /\ i \in 1..(n + 1) /\ journal'[i] = journal[i]
      BY <2>2, <2>6
    <3>2. PICK q \in 1..(i - 1) :
            /\ Scheduled(q) /\ journal[q].id = journal[i].id
            /\ \A r \in 1..(q - 1) : Scheduled(r) => Recorded(journal, i - 1, "TaskCompleted", journal[r].id)
      BY <3>1 DEF JournalFollows, CompletionsFollow, n
    <3>3. q \in 1..n /\ \A r \in 1..(q - 1) : r \in 1..n
      BY <2>2, <3>1
    <3> QED BY <2>2, <3>1, <3>2, <3>3 DEF Scheduled
  <2>9. OrdinalsFollow'
    <3> SUFFICES ASSUME NEW q \in 1..Len(journal'), journal'[q].type = "TaskScheduled",
                        NEW o \in Nat, o < journal'[q].id.ord
                 PROVE  Recorded(journal', q - 1, "TaskScheduled", [name |-> journal'[q].id.name, ord |-> o])
      BY DEF OrdinalsFollow, Scheduled
    <3>1. CASE q \in 1..n
      <4>1. Recorded(journal, q - 1, "TaskScheduled", [name |-> journal[q].id.name, ord |-> o])
        BY <2>2, <3>1 DEF JournalFollows, OrdinalsFollow, Scheduled, n
      <4> QED BY <2>2, <3>1, <4>1
    <3>2. CASE q = s
      <4>1. PICK k \in TaskCalls(d) : calls[d][k] = [name |-> t, ord |-> o]
        BY <1>0, <2>2, <2>3, <3>2 DEF Follows, Numbered, t
      <4>2. PICK r \in 1..n : Scheduled(r) /\ journal[r].id = calls[d][k]
        BY CallsArePlaced DEF n
      <4>3. q - 1 = n /\ journal'[r] = journal[r] /\ journal'[q].id.name = t
        BY <2>2, <2>3, <3>2 DEF s
      <4> QED BY <4>1, <4>2, <4>3 DEF Recorded, Scheduled
    <3> QED BY <2>6, <3>1, <3>2
  <2> QED BY <1>1, <2>2, <2>5, <2>7, <2>8, <2>9 DEF JournalFollows
<1> QED BY <1>2, <1>3

\* A call completes after the calls scheduled before it: they are calls the drive has
\* made, and none ended in an error.
LEMMA CompleteFollows ==
  ASSUME TypeInv, TaskRecordedOnce, JournalFollows, NEW d \in Driver, Follows(d),
         ~Erred(d), Complete(d)
  PROVE  JournalFollows' /\ Follows(d)'
<1> DEFINE n == Len(journal)
           s == n + 1
<1>0. /\ TypeOK /\ pc[d] \in Executing /\ Awaited(d).kind = "task" /\ Awaited(d).name \in Task
      /\ CallId(d).name = Awaited(d).name
  BY AwaitedFacts DEF TypeInv, DriversOK, DriverOK, Complete, At, Executing, CallId
<1>1. PICK v \in Value : Commit("TaskCompleted", CallId(d), 0, v) /\ Observe(d, v)
  BY DEF Complete
<1>2. /\ n \in Nat /\ Len(journal') = n + 1 /\ Grows
      /\ \A i \in 1..n : journal'[i] = journal[i]
      /\ journal'[s].type = "TaskCompleted" /\ journal'[s].id = CallId(d) /\ journal'[s].val = v
      /\ \A m \in 1..(n + 1) : \A u, w : Recorded(journal, m - 1, u, w) => Recorded(journal', m - 1, u, w)
  BY <1>0, <1>1, OneMoreFact
<1>3. Placed(journal, calls[d], CallId(d), Len(calls[d]) + 1)
  BY <1>0 DEF Follows
<1>4. /\ Placed(journal', calls[d], CallId(d), Len(calls[d]) + 1)
      /\ Done(journal', CallId(d), v)
  <2>1. Placed(journal', calls[d], CallId(d), Len(calls[d]) + 1)
    BY <1>0, <1>2, <1>3, GrownFacts
  <2>2. s \in 1..Len(journal')
    BY <1>2
  <2> QED BY <1>2, <2>1, <2>2 DEF Done
<1>5. Follows(d)'
  BY <1>0, <1>1, <1>2, <1>4, NextCall
<1>6. PICK q \in 1..n :
        /\ Scheduled(q) /\ journal[q].id = CallId(d)
        /\ \A r \in 1..(q - 1) : Scheduled(r) =>
             \E l \in DOMAIN calls[d] : calls[d][l].name \in Task /\ calls[d][l] = journal[r].id
  BY <1>3 DEF Placed, Scheduled
<1>7. ASSUME NEW r \in 1..(q - 1), Scheduled(r)
      PROVE  Recorded(journal, n, "TaskCompleted", journal[r].id)
  <2>1. PICK l \in DOMAIN calls[d] : calls[d][l].name \in Task /\ calls[d][l] = journal[r].id
    BY <1>6, <1>7
  <2>2. DOMAIN calls[d] = DOMAIN outs[d]
    BY <1>0, CallFacts DEF Follows
  <2>3. l \in Results(d)
    BY <2>1, <2>2 DEF Results, TaskCalls, Erred
  <2>4. Done(journal, calls[d][l], outs[d][l])
    BY <2>3 DEF Follows
  <2> QED BY <2>1, <2>4 DEF Done, Recorded
<1> HIDE DEF n, s
<1>8. \A i \in 1..Len(journal') : i = s \/ i \in 1..n
  BY <1>2 DEF s
<1>9. TasksAreNamed'
  BY <1>0, <1>2, <1>8 DEF JournalFollows, TasksAreNamed, TaskFact, n
<1>10. CompletionsFollow'
  <2> SUFFICES ASSUME NEW i \in 1..Len(journal'), journal'[i].type = "TaskCompleted"
               PROVE  \E p \in 1..(i - 1) :
                        /\ journal'[p].type = "TaskScheduled" /\ journal'[p].id = journal'[i].id
                        /\ \A r \in 1..(p - 1) : journal'[r].type = "TaskScheduled" =>
                             Recorded(journal', i - 1, "TaskCompleted", journal'[r].id)
    BY DEF CompletionsFollow, Scheduled
  <2>1. CASE i \in 1..n
    <3>1. i \in 1..(n + 1) /\ journal'[i] = journal[i]
      BY <1>2, <2>1
    <3>2. PICK p \in 1..(i - 1) :
            /\ Scheduled(p) /\ journal[p].id = journal[i].id
            /\ \A r \in 1..(p - 1) : Scheduled(r) => Recorded(journal, i - 1, "TaskCompleted", journal[r].id)
      BY <2>1, <3>1 DEF JournalFollows, CompletionsFollow, n
    <3>3. p \in 1..n /\ \A r \in 1..(p - 1) : r \in 1..n
      BY <1>2, <2>1
    <3> QED BY <1>2, <3>1, <3>2, <3>3 DEF Scheduled
  <2>2. CASE i = s
    <3>1. i - 1 = n /\ q \in 1..(i - 1) /\ n + 1 \in 1..(n + 1) /\ (n + 1) - 1 = n
      BY <1>2, <2>2 DEF s
    <3>2. \A r \in 1..(q - 1) : r \in 1..n
      BY <1>2
    <3>3. \A r \in 1..(q - 1) : Scheduled(r) => Recorded(journal', n, "TaskCompleted", journal[r].id)
      BY <1>2, <1>7, <3>1
    <3> QED BY <1>2, <1>6, <2>2, <3>1, <3>2, <3>3 DEF Scheduled
  <2> QED BY <1>8, <2>1, <2>2
<1>11. OrdinalsFollow'
  <2> SUFFICES ASSUME NEW p \in 1..Len(journal'), journal'[p].type = "TaskScheduled",
                      NEW o \in Nat, o < journal'[p].id.ord
               PROVE  Recorded(journal', p - 1, "TaskScheduled", [name |-> journal'[p].id.name, ord |-> o])
    BY DEF OrdinalsFollow, Scheduled
  <2>1. p \in 1..n
    BY <1>2, <1>8
  <2>2. Recorded(journal, p - 1, "TaskScheduled", [name |-> journal[p].id.name, ord |-> o])
    BY <1>2, <2>1 DEF JournalFollows, OrdinalsFollow, Scheduled, n
  <2> QED BY <1>2, <2>1, <2>2
<1> QED BY <1>5, <1>9, <1>10, <1>11 DEF JournalFollows

\* A result that is reused is the call's own, and the call has its place.
LEMMA ReuseFollows ==
  ASSUME TypeInv, Strict, TaskRecordedOnce, JournalFollows, NEW d \in Driver, Follows(d),
         ~Erred(d), ReuseResult(d)
  PROVE  JournalFollows' /\ Follows(d)'
<1> DEFINE v == HitEvent(d, "TaskCompleted").val
<1>0. /\ TypeOK /\ loaded[d] \in Nat /\ loaded[d] <= Len(journal) /\ Len(journal) \in Nat
      /\ Awaited(d).kind = "task" /\ ~Diverges(d) /\ Hit(d, "TaskCompleted")
      /\ journal' = journal /\ Observe(d, v)
  BY JournalFacts DEF TypeInv, TypeOK, DriverTypeOK, DriversOK, DriverOK, ReuseResult, CallAllowed,
                      Awaits, store
<1>1. Done(journal, CallId(d), v)
  <2>1. /\ LatestIndex(journal, loaded[d], "TaskCompleted", CallId(d)) \in 1..loaded[d]
        /\ HitEvent(d, "TaskCompleted").type = "TaskCompleted"
        /\ HitEvent(d, "TaskCompleted").id = CallId(d)
    BY <1>0, LatestIsRecorded DEF Hit, HitEvent
  <2> QED BY <1>0, <2>1 DEF Done, HitEvent
<1>2. Hit(d, "TaskScheduled")
  <2>1. PICK i \in 1..loaded[d] : journal[i].type = "TaskCompleted" /\ journal[i].id = CallId(d)
    BY <1>0 DEF Hit, Recorded
  <2>2. PICK q \in 1..(i - 1) : Scheduled(q) /\ journal[q].id = CallId(d)
    BY <1>0, <2>1 DEF JournalFollows, CompletionsFollow
  <2>3. q \in 1..loaded[d]
    BY <1>0
  <2> QED BY <2>2, <2>3 DEF Hit, Recorded, Scheduled
<1>3. Placed(journal, calls[d], CallId(d), Len(calls[d]) + 1)
  BY <1>0, <1>2, CallPlaced
<1>4. Grows /\ JournalFollows'
  BY <1>0, QuietJournal DEF Grows, NoTaskFact
<1> HIDE DEF v
<1>5. Follows(d)'
  BY <1>0, <1>1, <1>3, <1>4, NextCall
<1> QED BY <1>4, <1>5

\* What the other steps of a driver do to its drive.
LEMMA OtherMoves ==
  ASSUME TypeInv, NEW d \in Driver,
         Control(d) \/ Drive(d) \/ RefuseReplay(d) \/ Park(d) \/ CallTask(d) \/ CallPrimitive(d),
         ~Schedule(d), ~Complete(d), ~ReuseResult(d)
  PROVE  /\ code' = code
         /\ \/ Release(d)
            \/ /\ UNCHANGED <<calls, outs, ordinals>>
               /\ pc'[d] \in Executing => pc[d] \in Executing
            \/ \E o : /\ Observe(d, o) /\ Awaited(d).kind \in {"task", "sleep", "wait"}
                      /\ Awaited(d).kind = "task" => pc[d] \in Executing /\ o = "error"
<1>0. TypeOK /\ pc \in [Driver -> Pc] /\ DriverOK(d) /\ code' = code
  BY DriverMoves DEF TypeInv, TypeOK, DriverTypeOK, DriversOK
<1>1. CASE SettleStatus(d) \/ DriveTerminal(d) \/ RefuseReplay(d) \/ Park(d)
  BY <1>0, <1>1 DEF SettleStatus, DriveTerminal, RefuseReplay, Park
<1>2. CASE \/ StartRun(d) \/ RecordCreated(d) \/ ResumeRun(d) \/ WakeRun(d) \/ CancelRun(d)
           \/ Redrive(d) \/ DriveLoad(d) \/ Return(d) \/ Raise(d)
  <2>1. pc'[d] \notin Executing /\ UNCHANGED <<calls, outs, ordinals>>
    BY <1>0, <1>2 DEF StartRun, RecordCreated, ResumeRun, WakeRun, CancelRun, Redrive, DriveLoad,
                      Return, Raise, GoTo, frame, Executing
  <2> QED BY <1>0, <2>1
<1>3. CASE SleepOver(d) \/ ReuseEvent(d) \/ ReuseTimeout(d) \/ RecordEvent(d)
  <2>1. Awaited(d).kind \in {"sleep", "wait"}
    BY <1>0, <1>3 DEF SleepOver, ReuseEvent, ReuseTimeout, RecordEvent, Awaits, At, DriverOK
  <2>2. \E o : Observe(d, o)
    BY <1>3 DEF SleepOver, ReuseEvent, ReuseTimeout, RecordEvent
  <2> QED BY <1>0, <2>1, <2>2
<1>4. CASE StartAttempt(d) \/ RunBody(d) \/ Backoff(d)
  <2>1. UNCHANGED <<calls, outs, ordinals>> /\ pc[d] \in Executing
    BY <1>4 DEF StartAttempt, RunBody, Backoff, At, frame, Executing
  <2> QED BY <1>0, <2>1
<1>5. CASE FailAttempt(d)
  <2>1. pc[d] \in Executing /\ Awaited(d).kind = "task"
    BY <1>0, <1>5 DEF FailAttempt, At, Executing, DriverOK
  <2>2. UNCHANGED <<calls, outs, ordinals>> \/ Observe(d, "error")
    BY <1>5 DEF FailAttempt
  <2> QED BY <1>0, <2>1, <2>2
<1>6. CASE ConsumeEvent(d) \/ CreateTimer(d) \/ EnsureTimerRow(d) \/ StartWait(d) \/ RecordWaiting(d)
  <2>1. pc'[d] \notin Executing /\ UNCHANGED <<calls, outs, ordinals>>
    BY <1>0, <1>6 DEF ConsumeEvent, CreateTimer, EnsureTimerRow, StartWait, RecordWaiting, GoTo,
                      frame, Executing
  <2> QED BY <1>0, <2>1
<1> QED
  BY <1>1, <1>2, <1>3, <1>4, <1>5, <1>6 DEF Control, Drive, CallTask, CallPrimitive

LEMMA FollowStep ==
  ASSUME OneDriver, ErrorsEscape, Strict, TypeInv, TypeInv', CallsInv, FollowInv, [Next]_vars
  PROVE  FollowInv'
<1>0. TypeOK /\ DriverTypeOK /\ TaskRecordedOnce /\ JournalFollows /\ Grows
  BY StepGrows DEF TypeInv, TypeOK, CallsInv, FollowInv
<1>1. ASSUME NEW d \in Driver, Awaited(d).kind \in {"task", "sleep", "wait"} PROVE ~Erred(d)
  BY <1>0, <1>1 DEF ErrorsEscape, Erred, Awaited, TypeOK, EnvTypeOK, DriverTypeOK
<1>2. ASSUME NEW d \in Driver, JournalFollows', Follows(d)' PROVE FollowInv'
  <2>1. \A e \in Driver : e = d
    BY DEF OneDriver
  <2> QED BY <1>2, <2>1 DEF FollowInv
<1>3. ASSUME NEW d \in Driver, Schedule(d) PROVE FollowInv'
  BY <1>0, <1>2, <1>3, ScheduleFollows DEF FollowInv, CallsInv
<1>4. ASSUME NEW d \in Driver, Complete(d) PROVE FollowInv'
  <2>1. Awaited(d).kind = "task"
    BY <1>4 DEF TypeInv, DriversOK, DriverOK, Complete, At, Executing
  <2> QED BY <1>0, <1>1, <1>2, <1>4, <2>1, CompleteFollows DEF FollowInv
<1>5. ASSUME NEW d \in Driver, ReuseResult(d) PROVE FollowInv'
  <2>1. Awaited(d).kind = "task"
    BY <1>5 DEF ReuseResult, CallAllowed, Awaits
  <2> QED BY <1>0, <1>1, <1>2, <1>5, <2>1, ReuseFollows DEF FollowInv
<1>6. ASSUME NEW d \in Driver, ~Schedule(d), ~Complete(d), ~ReuseResult(d),
             Control(d) \/ Drive(d) \/ RefuseReplay(d) \/ Park(d) \/ CallTask(d) \/ CallPrimitive(d)
      PROVE  FollowInv'
  <2>1. NoTaskFact
    BY <1>6, OtherSteps
  <2>2. JournalFollows'
    BY <1>0, <2>1, QuietJournal
  <2>3. Follows(d) /\ code' = code
    BY <1>6, OtherMoves DEF FollowInv
  <2>4. CASE Release(d)
    <3>1. /\ calls'[d] = <<>> /\ outs'[d] = <<>> /\ ordinals'[d] = [m \in Name |-> 0]
          /\ pc'[d] = "idle"
      BY <1>0, <2>4 DEF Release, Suspend, DriverTypeOK
    <3> QED BY <1>2, <2>2, <3>1, NoDrive
  <2>5. CASE /\ UNCHANGED <<calls, outs, ordinals>>
             /\ pc'[d] \in Executing => pc[d] \in Executing
    BY <1>0, <1>2, <2>2, <2>3, <2>5, SameDrive
  <2>6. ASSUME NEW o, Observe(d, o), Awaited(d).kind \in {"task", "sleep", "wait"},
               Awaited(d).kind = "task" => pc[d] \in Executing /\ o = "error"
        PROVE  FollowInv'
    <3>1. Awaited(d).kind = "task" =>
            /\ Placed(journal', calls[d], CallId(d), Len(calls[d]) + 1)
            /\ o = "error" \/ Done(journal', CallId(d), o)
      BY <1>0, <2>3, <2>6, GrownFacts DEF Follows
    <3>2. Follows(d)'
      BY <1>0, <1>1, <2>3, <2>6, <3>1, NextCall
    <3> QED BY <1>2, <2>2, <3>2
  <2> QED BY <1>6, <2>4, <2>5, <2>6, OtherMoves
<1>7. CASE \/ \E row \in timers : FireTimer(row) \/ SettleTimer(row)
           \/ (\E t \in Topic : SendEvent(t)) \/ PassTime \/ UNCHANGED vars
  <2>1. UNCHANGED <<code, pc, outs, calls, ordinals>>
    BY <1>7 DEF FireTimer, SettleTimer, SendEvent, PassTime, vars, env, frame
  <2>2. NoTaskFact
    BY <1>7 DEF FireTimer, SettleTimer, SendEvent, PassTime, vars, store, NoTaskFact,
                TaskFact, Commit, Entry
  <2>3. ASSUME NEW d \in Driver PROVE Follows(d)'
    BY <1>0, <2>1, SameDrive DEF FollowInv
  <2> QED BY <1>0, <2>2, <2>3, QuietJournal DEF FollowInv
<1>8. CASE Crash
  <2>1. NoTaskFact
    BY <1>8 DEF Crash, store, NoTaskFact
  <2>2. ASSUME NEW d \in Driver PROVE Follows(d)'
    <3>1. /\ calls'[d] = <<>> /\ outs'[d] = <<>> /\ ordinals'[d] = [m \in Name |-> 0]
          /\ pc'[d] = "idle"
      BY <1>8 DEF Crash
    <3> QED BY <3>1, NoDrive
  <2> QED BY <1>0, <2>1, <2>2, QuietJournal DEF FollowInv
<1> QED
  BY <1>3, <1>4, <1>5, <1>6, <1>7, <1>8 DEF Next

\* The n-th result a drive sees is the journal's n-th completion, for any workflows that
\* replace one another and let the error of a task escape, under the strict policy.
THEOREM ReplayFollowsJournalHolds ==
  ASSUME OneDriver, ErrorsEscape, Strict PROVE Spec => []ReplayFollowsJournal
<1>1. Init => TypeInv /\ CallsInv /\ FollowInv
  <2> SUFFICES ASSUME Init PROVE CallsInv /\ FollowInv
    BY InitTypes
  <2>1. CallsInv
    BY DEF Init, CallsInv, TaskRecordedOnce, RecordedOnce, Fresh, NotDone, Replaying, Executing
  <2>2. JournalFollows
    BY DEF Init, JournalFollows, TasksAreNamed, CompletionsFollow, OrdinalsFollow
  <2>3. ASSUME NEW d \in Driver PROVE Follows(d)
    <3>1. /\ calls[d] = <<>> /\ outs[d] = <<>> /\ pc[d] = "idle"
          /\ \A t \in Task : ordinals[d][t] = 0
      BY DEF Init, Name
    <3>2. TaskCalls(d) = {} /\ Results(d) = {}
      BY <3>1 DEF TaskCalls, Results
    <3> QED BY <3>1, <3>2 DEF Follows, Numbered, Executing
  <2> QED BY <2>1, <2>2, <2>3 DEF FollowInv
<1>2. TypeInv /\ CallsInv /\ FollowInv /\ [Next]_vars => (TypeInv /\ CallsInv /\ FollowInv)'
  BY NextTypes, CallsStep, FollowStep
<1>3. TypeInv /\ CallsInv /\ FollowInv => ReplayFollowsJournal
  BY FollowsIsOrder DEF TypeInv, CallsInv, FollowInv, ReplayFollowsJournal
<1> QED BY <1>1, <1>2, <1>3, PTL DEF Spec

-----------------------------------------------------------------------------
(* How the engine moves a run                                               *)

\* before a drive has loaded its journal, and between its load and its end
Resting == {"idle", "create", "drive", "copy"}
Driving == Pc \ (Resting \cup {"settle"})

\* A driver stays where it is, ...
Stays(d) ==
  /\ pc'[d] = pc[d] /\ outs'[d] = outs[d] /\ ordinals'[d] = ordinals[d] /\ loaded'[d] = loaded[d]
  /\ code' = code
\* ... is not in a drive, ...
Rests(d) ==
  \/ pc'[d] = "settle"
  \/ pc'[d] = "idle" /\ loaded'[d] = 0
  \/ pc[d] \in {"idle", "create"} /\ pc'[d] \in {"create", "drive"} /\ loaded'[d] = loaded[d]
\* ... begins one, ...
Loads(d) ==
  pc[d] = "drive" /\ pc'[d] = "replay" /\ journal' = journal /\ loaded'[d] = Len(journal)
\* ... or goes on with it: it comes to the next call, or deals with the one it awaits.
Observes(d) == pc[d] \in Driving /\ pc'[d] = "replay" /\ loaded'[d] = loaded[d]
Handles(d) ==
  /\ pc[d] \in Driving /\ loaded'[d] = loaded[d]
  /\ outs'[d] = outs[d] /\ ordinals'[d] = ordinals[d] /\ code' = code
  /\ \/ pc'[d] \in Executing /\ (pc[d] \in Executing \/ ~Hit(d, "TaskCompleted"))
     \/ pc'[d] \in {"timer", "receive", "await", "waiting", "park"}

Moves(d) == Stays(d) \/ Rests(d) \/ Loads(d) \/ Observes(d) \/ Handles(d)

\* A step of a driver moves its own drive and no other.
LEMMA DriveMoves ==
  ASSUME TypeInv, NEW d \in Driver,
         Control(d) \/ Drive(d) \/ CallTask(d) \/ CallPrimitive(d) \/ RefuseReplay(d) \/ Park(d)
  PROVE  OthersStay(d) /\ code' = code /\ Moves(d)
<1>0. DriverTypeOK /\ TypeOK /\ DriverOK(d)
  BY DEF TypeInv, TypeOK, DriversOK
<1>1. CASE StartRun(d) \/ RecordCreated(d) \/ ResumeRun(d) \/ WakeRun(d) \/ CancelRun(d) \/ Redrive(d)
  BY <1>0, <1>1 DEF StartRun, RecordCreated, ResumeRun, WakeRun, CancelRun, Redrive, Idle, At,
     GoTo, DriverTypeOK, env, frame, OthersStay, Moves, Rests
<1>2. CASE SettleStatus(d) \/ DriveTerminal(d) \/ RefuseReplay(d) \/ Park(d)
  <2>1. Release(d) /\ code' = code
    BY <1>2 DEF SettleStatus, DriveTerminal, RefuseReplay, Park, env
  <2>2. OthersStay(d) /\ pc'[d] = "idle" /\ loaded'[d] = 0
    BY <2>1, ReleaseMoves
  <2> QED BY <2>1, <2>2 DEF Moves, Rests
<1>3. CASE DriveLoad(d)
  BY <1>0, <1>3 DEF DriveLoad, At, GoTo, DriverTypeOK, store, env, OthersStay, Moves, Loads
<1>4. CASE Return(d) \/ Raise(d)
  BY <1>0, <1>4 DEF Return, Raise, GoTo, DriverTypeOK, env, frame, OthersStay, Moves, Rests
<1>5. ASSUME NEW o, Observe(d, o), pc[d] \in Driving, code' = code
      PROVE  OthersStay(d) /\ Moves(d)
  BY <1>0, <1>5 DEF Observe, GoTo, DriverTypeOK, OthersStay, Moves, Observes
<1>6. CASE ReuseResult(d) \/ Complete(d) \/ SleepOver(d) \/ ReuseEvent(d) \/ ReuseTimeout(d) \/ RecordEvent(d)
  <2>1. (\E o : Observe(d, o)) /\ pc[d] \in {"replay", "returned", "receive"} /\ code' = code
    BY <1>6 DEF ReuseResult, Complete, SleepOver, ReuseEvent, ReuseTimeout, RecordEvent, CallAllowed,
       Awaits, At, env
  <2>2. {"replay", "returned", "receive"} \subseteq Driving
    BY DEF Driving, Resting, Pc
  <2> QED BY <1>5, <2>1, <2>2
<1>7. CASE Schedule(d) \/ StartAttempt(d) \/ RunBody(d) \/ Backoff(d)
  <2>1. /\ UNCHANGED <<loaded, outs, ordinals, code>> /\ pc[d] \in {"replay"} \cup Executing
        /\ pc[d] = "replay" => ~Hit(d, "TaskCompleted")
    BY <1>7 DEF Schedule, StartAttempt, RunBody, Backoff, CallAllowed, Awaits, At, env, frame, Executing
  <2>2. \E p \in Executing : pc' = [pc EXCEPT ![d] = p]
    BY <1>7 DEF Schedule, StartAttempt, RunBody, Backoff, GoTo, Suspend, Executing
  <2>3. {"replay"} \cup Executing \subseteq Driving
    BY DEF Driving, Resting, Pc, Executing
  <2> QED BY <1>0, <2>1, <2>2, <2>3 DEF DriverTypeOK, OthersStay, Moves, Handles
<1>8. CASE FailAttempt(d)
  <2>1. pc[d] \in Executing /\ pc[d] \in Driving /\ code' = code
    BY <1>8 DEF FailAttempt, At, env, Executing, Driving, Resting, Pc
  <2>2. CASE RetriesLeft(d)
    BY <1>0, <1>8, <2>1, <2>2 DEF FailAttempt, Suspend, DriverTypeOK, OthersStay, Moves, Handles, Executing
  <2>3. CASE ~RetriesLeft(d)
    BY <1>5, <1>8, <2>1, <2>3 DEF FailAttempt
  <2> QED BY <2>2, <2>3
<1>9. CASE ConsumeEvent(d) \/ CreateTimer(d)
  <2>1. /\ UNCHANGED <<loaded, outs, ordinals, code>> /\ pc[d] = "replay"
        /\ \E p \in {"receive", "timer"} : pc' = [pc EXCEPT ![d] = p]
    BY <1>9 DEF ConsumeEvent, CreateTimer, WaitMisses, Parks, Awaits, At, GoTo, env, frame
  <2>2. "replay" \in Driving
    BY DEF Driving, Resting, Pc
  <2> QED BY <1>0, <2>1, <2>2 DEF DriverTypeOK, OthersStay, Moves, Handles
<1>10. CASE EnsureTimerRow(d)
  <2>1. /\ UNCHANGED <<loaded, outs, ordinals, code>> /\ pc[d] = "timer"
        /\ \E p \in {"waiting", "await"} : pc' = [pc EXCEPT ![d] = p]
    BY <1>10 DEF EnsureTimerRow, At, GoTo, env, frame
  <2>2. "timer" \in Driving
    BY DEF Driving, Resting, Pc
  <2> QED BY <1>0, <1>10, <2>1, <2>2 DEF DriverTypeOK, OthersStay, Moves, Handles
<1>11. CASE StartWait(d) \/ RecordWaiting(d)
  <2>1. /\ UNCHANGED <<loaded, outs, ordinals, code>>
        /\ pc[d] \in {"await", "waiting", "replay"}
        /\ \E p \in {"waiting", "park"} : pc' = [pc EXCEPT ![d] = p]
    BY <1>11 DEF StartWait, RecordWaiting, Parks, WaitMisses, Awaits, At, GoTo, env, frame
  <2>2. {"await", "waiting", "replay"} \subseteq Driving
    BY DEF Driving, Resting, Pc
  <2> QED BY <1>0, <2>1, <2>2 DEF DriverTypeOK, OthersStay, Moves, Handles
<1>12. CASE Control(d)
  BY <1>1, <1>2, <1>12 DEF Control
<1>13. CASE Drive(d)
  BY <1>2, <1>3, <1>4, <1>13 DEF Drive
<1>14. CASE CallTask(d)
  BY <1>6, <1>7, <1>8, <1>14 DEF CallTask
<1>15. CASE CallPrimitive(d)
  BY <1>6, <1>9, <1>10, <1>11, <1>15 DEF CallPrimitive
<1> QED BY <1>2, <1>12, <1>13, <1>14, <1>15
=============================================================================
