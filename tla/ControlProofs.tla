----------------------------- MODULE ControlProofs -----------------------------
(***************************************************************************)
(* Theorems about DevStack and ControlPlane, for any processes, scripts    *)
(* among them, runs and bounds: at most one process has the store of a     *)
(* data directory open; what it reads of a run is the journal there is;    *)
(* and a fork is applied to a run that has ended.                          *)
(***************************************************************************)
EXTENDS ControlPlane, JournalProofs

\* A process that is up at all is the one that holds the lock: also after its loop
\* has died, and when stop() was left half-way.
HolderIsUp ==
  /\ part \in [Process -> Part]
  /\ \A p \in Process : part[p] # "down" => lock = p

\* Init establishes the invariant.
LEMMA HolderInit == StackInit => HolderIsUp
BY DEF StackInit, HolderIsUp, Part

\* What a process other than p is doing keeps it down while p has the lock.
LEMMA OthersAreDown ==
  ASSUME HolderIsUp, NEW p \in Process, part[p] # "down", NEW q \in Process, q # p
  PROVE  lock = p /\ part[q] = "down"
BY DEF HolderIsUp

\* A step that moves one process between two parts keeps the lock where it was.
LEMMA MoveKeeps ==
  ASSUME HolderIsUp, NEW p \in Process, NEW from \in Part \ {"down"}, NEW to \in Part,
         Move(p, from, to), UNCHANGED lock
  PROVE  HolderIsUp'
<1>1. part' \in [Process -> Part]
  BY DEF HolderIsUp, Move
<1>2. ASSUME NEW q \in Process, part'[q] # "down" PROVE lock' = q
  <2>1. CASE q = p
    BY <2>1 DEF HolderIsUp, Move
  <2>2. CASE q # p
    BY <1>2, <2>2 DEF HolderIsUp, Move
  <2>. QED BY <2>1, <2>2
<1>. QED BY <1>1, <1>2 DEF HolderIsUp

\* A step that takes one process down and frees the lock leaves nobody up.
LEMMA DownKeeps ==
  ASSUME HolderIsUp, NEW p \in Process, part[p] # "down",
         part' = [part EXCEPT ![p] = "down"]
  PROVE  HolderIsUp'
<1>1. part' \in [Process -> Part]
  BY DEF HolderIsUp, Part
<1>2. ASSUME NEW q \in Process PROVE part'[q] = "down"
  <2>1. CASE q = p
    BY <2>1 DEF HolderIsUp
  <2>2. CASE q # p
    BY <2>2, OthersAreDown DEF HolderIsUp
  <2>. QED BY <2>1, <2>2
<1>. QED BY <1>1, <1>2 DEF HolderIsUp

\* Every step of the processes keeps the invariant.
LEMMA HolderStep == HolderIsUp /\ [StackNext]_stack => HolderIsUp'
<1>. SUFFICES ASSUME HolderIsUp, [StackNext]_stack PROVE HolderIsUp'
  OBVIOUS
<1>1. CASE UNCHANGED stack
  BY <1>1 DEF HolderIsUp, stack
<1>2. ASSUME NEW p \in Process, Acquire(p) PROVE HolderIsUp'
  <2>1. part' \in [Process -> Part]
    BY <1>2 DEF HolderIsUp, Acquire, Move, Part
  <2>2. ASSUME NEW q \in Process, q # p PROVE part'[q] = "down"
    BY <1>2, <2>2, NobodyIsNoProcess DEF HolderIsUp, Acquire, Move
  <2>. QED BY <1>2, <2>1, <2>2 DEF HolderIsUp, Acquire
<1>3. ASSUME NEW p \in Process, OpenStore(p) \/ StartWorker(p) \/ StartServer(p) \/ StopServer(p)
                                \/ StopWorker(p) \/ CloseStore(p)
      PROVE HolderIsUp'
  <2>1. PICK from \in Part \ {"down"}, to \in Part : Move(p, from, to)
    BY <1>3 DEF OpenStore, StartWorker, StartServer, StopServer, StopWorker, CloseStore, Part
  <2>2. UNCHANGED lock
    BY <1>3 DEF OpenStore, StartWorker, StartServer, StopServer, StopWorker, CloseStore
  <2>. QED BY <2>1, <2>2, MoveKeeps
<1>4. ASSUME NEW p \in Process, StopRaises(p) PROVE HolderIsUp'
  <2>1. CASE Move(p, "drained", "leaked") /\ UNCHANGED lock
    BY <2>1, MoveKeeps DEF Part
  <2>2. CASE Move(p, "drained", "down")
    BY <2>2, DownKeeps DEF Move
  <2>. QED BY <1>4, <2>1, <2>2 DEF StopRaises
<1>5. ASSUME NEW p \in Process, Release(p) PROVE HolderIsUp'
  BY <1>5, DownKeeps DEF Release, Move
<1>6. ASSUME NEW p \in Process, Exit(p) PROVE HolderIsUp'
  BY <1>6, DownKeeps DEF Exit
<1>7. ASSUME NEW p \in Process, LoopDies(p) PROVE HolderIsUp'
  BY <1>7 DEF LoopDies, HolderIsUp
<1>. QED BY <1>1, <1>2, <1>3, <1>4, <1>5, <1>6, <1>7 DEF StackNext, Starting, Stopping

\* A process that has the store open is up, and two that are up are one.
LEMMA HolderWrites == HolderIsUp => SingleWriter
BY DEF HolderIsUp, SingleWriter, StoreOpen

\* The lock serialises the processes, whatever crashes, refusals, dead loops and
\* half-done stops come in between (ADR-0017/Q54).
THEOREM OneWriterAlone == StackSpec => []SingleWriter
<1>1. StackSpec => []HolderIsUp
  BY HolderInit, HolderStep, PTL DEF StackSpec
<1>. QED BY <1>1, HolderWrites, PTL

\* Commands, ticks, drives and deletions leave the parts of the processes alone, or
\* take one of the steps of DevStack.
LEMMA ControlImplementsStack == [ControlNext]_vars => [StackNext]_stack
<1>. SUFFICES ASSUME [ControlNext]_vars PROVE [StackNext]_stack
  OBVIOUS
<1>1. CASE UNCHANGED vars
  BY <1>1 DEF vars
<1>2. ASSUME NEW p \in Process, Boot(p) PROVE StackNext
  BY <1>2 DEF Boot, StackNext, Starting
<1>3. ASSUME NEW p \in Process, Lifecycle(p) PROVE StackNext
  BY <1>3 DEF Lifecycle, StackNext, Starting, Stopping
<1>4. ASSUME NEW p \in Process, Post(p) PROVE UNCHANGED stack
  BY <1>4 DEF Post, PostStart, PostCancel, PostEvent, PostFork, Accept
<1>5. ASSUME NEW p \in Process, Dies(p) PROVE StackNext
  BY <1>5 DEF Dies, StackNext
<1>6. ASSUME NEW p \in Process, Applied(p) PROVE UNCHANGED stack
  BY <1>6 DEF Applied
<1>7. ASSUME NEW p \in Process, NEW outcome, Finish(p, outcome) PROVE [StackNext]_stack
  BY <1>5, <1>6, <1>7 DEF Finish
<1>8. ASSUME NEW p \in Process, Tick(p) PROVE [StackNext]_stack
  <2>1. CASE Drain(p) \/ EndTick(p)
    BY <2>1 DEF Drain, EndTick
  <2>2. CASE ApplyCancel(p) \/ ApplyEvent(p)
    BY <1>6, <2>2 DEF ApplyCancel, ApplyEvent
  <2>3. CASE ApplyUnknown(p)
    BY <1>5, <2>3 DEF ApplyUnknown
  <2>4. CASE ApplyStart(p)
    BY <1>5, <1>6, <2>4 DEF ApplyStart
  <2>5. CASE ApplyFork(p)
    BY <1>5, <2>5 DEF ApplyFork
  <2>6. CASE Load(p)
    BY <1>7, <2>6 DEF Load
  <2>7. CASE EndDrive(p)
    BY <1>7, <2>7 DEF EndDrive
  <2>. QED BY <1>8, <2>1, <2>2, <2>3, <2>4, <2>5, <2>6, <2>7 DEF Tick
<1>9. ASSUME NEW p \in Process, RefuseDrive(p) PROVE StackNext
  BY <1>5, <1>9 DEF RefuseDrive
<1>10. ASSUME NEW p \in Process, NEW r \in Run, Wake(p, r) PROVE UNCHANGED stack
  BY <1>10 DEF Wake
<1>11. ASSUME NEW r \in Run, DeleteRun(r) PROVE UNCHANGED stack
  BY <1>11 DEF DeleteRun
<1>. QED BY <1>1, <1>2, <1>3, <1>4, <1>8, <1>9, <1>10, <1>11 DEF ControlNext

\* No two processes write one data directory while commands are accepted, queued and
\* applied, runs are driven and deleted, and processes come and go (control/app.py,
\* devstack/orchestrator.py).
THEOREM OneWriter == ControlSpec => []SingleWriter
<1>1. ControlInit => StackInit
  BY DEF ControlInit
<1>2. ControlSpec => StackSpec
  BY <1>1, ControlImplementsStack, PTL DEF ControlSpec, StackSpec
<1>. QED BY <1>2, OneWriterAlone, PTL

-----------------------------------------------------------------------------
(* Sequences: what a memo makes of the rows, and what a queue is made of    *)

Event == [type : {"created", "forked"} \cup Terminal, life : Nat]

Command == [op : {"start", "unknown", "cancel", "event", "fork"}, run : Run,
            of : Run \cup {NoRun}, point : Nat, n : Nat]

\* s is a first part of t
Leads(s, t) == Len(s) <= Len(t) /\ \A i \in 1..Len(s) : s[i] = t[i]

\* A memo that is a first part of the journal reads as the journal.
LEMMA ReadsAll ==
  ASSUME NEW S, NEW s \in Seq(S), NEW t \in Seq(S), Leads(s, t)
  PROVE  ReadThrough(s, t) = t
<1>1. Len(s) \in Nat /\ Len(t) \in Nat /\ Len(s) <= Len(t)
  BY DEF Leads
<1>. DEFINE u == SubSeq(t, Len(s) + 1, Len(t))
<1>2. u \in Seq(S) /\ Len(u) = Len(t) - Len(s)
      /\ \A i \in 1..Len(u) : u[i] = t[Len(s) + i]
  BY <1>1
<1>3. s \o u \in Seq(S) /\ Len(s \o u) = Len(t)
  BY <1>1, <1>2
<1>4. ASSUME NEW i \in 1..Len(t) PROVE (s \o u)[i] = t[i]
  <2>1. CASE i <= Len(s)
    BY <1>1, <1>2, <2>1 DEF Leads
  <2>2. CASE i > Len(s)
    <3>1. i - Len(s) \in 1..Len(u) /\ Len(s) + (i - Len(s)) = i
      BY <1>1, <1>2, <2>2
    <3>2. (s \o u)[i] = u[i - Len(s)]
      BY <1>1, <1>2, <2>2, <3>1
    <3>. QED BY <1>2, <3>1, <3>2
  <2>. QED BY <1>1, <2>1, <2>2
<1>5. s \o u = t
  BY <1>3, <1>4
<1>. QED BY <1>5 DEF ReadThrough

\* Whatever the memo, what is read are events, and no fewer than the memo has.
LEMMA ReadsEvents ==
  ASSUME NEW S, NEW s \in Seq(S), NEW t \in Seq(S)
  PROVE  ReadThrough(s, t) \in Seq(S) /\ Len(ReadThrough(s, t)) >= Len(s)
<1>1. Len(s) \in Nat /\ Len(t) \in Nat
  OBVIOUS
<1>2. SubSeq(t, Len(s) + 1, Len(t)) \in Seq(S)
  BY <1>1
<1>. QED BY <1>1, <1>2 DEF ReadThrough

\* Journals grow at their end: a first part stays one.
LEMMA StillLeads ==
  ASSUME NEW S, NEW s \in Seq(S), NEW t \in Seq(S), NEW u \in Seq(S), Leads(s, t)
  PROVE  Leads(s, t \o u)
BY DEF Leads

\* An event appended is such a growth.
LEMMA AppendLeads ==
  ASSUME NEW S, NEW s \in Seq(S), NEW t \in Seq(S), NEW e \in S, Leads(s, t)
  PROVE  Leads(s, Append(t, e))
BY DEF Leads

\* A journal that has ended has a last end, and its type is an outcome.
LEMMA LastEndIsTerminal ==
  ASSUME NEW s \in Seq(Event), Ends(s) # {}
  PROVE  s[LastEnd(s)].type \in Terminal
<1>1. Len(s) \in Nat /\ Ends(s) \in SUBSET (1..Len(s))
  BY DEF Ends
<1>a. IsFiniteSet(Ends(s)) /\ Ends(s) \in SUBSET Nat
  <2>1. ASSUME NEW n \in Nat, Ends(s) \in SUBSET (1..n) PROVE IsFiniteSet(Ends(s))
    BY <2>1, FinitePositions
  <2>. QED BY <1>1, <2>1
<1>2. Max(Ends(s)) \in Ends(s) /\ \A k \in Ends(s) : k <= Max(Ends(s))
  BY <1>a, MaxOfFiniteSet
<1>3. LastEnd(s) \in Ends(s)
  BY <1>2 DEF LastEnd
<1>. QED BY <1>3 DEF Ends

-----------------------------------------------------------------------------
(* The invariant of the control plane                                       *)

ControlTypeOK ==
  /\ runs \in [Run -> {"none", "running", "waiting"} \cup Terminal]
  /\ journal \in [Run -> Seq(Event)] /\ life \in [Run -> Nat]
  /\ memo \in [Process -> [Run -> Seq(Event)]]
  /\ queue \in [Process -> Seq(Command)] /\ batch \in [Process -> Seq(Command)]
  /\ tick \in [Process -> {"sleep", "apply", "load", "body"}]
  /\ driving \in [Process -> Run \cup {NoRun}]
  /\ sent \in Nat

\* a loop that lives belongs to a process whose stop() has not got to it
LoopIsServed ==
  /\ loop \in [Process -> {"none", "up", "dead"}]
  /\ \A p \in Process : loop[p] = "up" => part[p] \in {"worker", "server", "drained"}

\* what a process without the store has in memory: nothing
ClosedIsIdle ==
  \A p \in Process : ~StoreOpen(p) =>
    /\ tick[p] = "sleep" /\ queue[p] = <<>> /\ batch[p] = <<>>
    /\ \A r \in Run : memo[p][r] = <<>>

Busy(p) == tick[p] \in {"load", "body"}

RowsHaveLives == \A r \in Run : life[r] = 0 => runs[r] = "none"

\* what p has read of a run is still there, unless the run was deleted
MemoLeads(p) == \A r \in Run : <<p, r>> \notin gone => Leads(memo[p][r], journal[r])

\* a run that is being driven does not end otherwise
DriveIsOpen(p) ==
  Busy(p) => driving[p] \in Run /\ runs[driving[p]] \in {"running", "waiting"}

\* the run a fork is to create is named by no command before it
Apart(s) == \A i, j \in DOMAIN s : i < j /\ s[j].op = "fork" => s[i].run # s[j].run

\* ... and has never existed, until the fork is applied
NewIds(p) ==
  /\ Apart(queue[p]) /\ Apart(batch[p])
  /\ \A j \in DOMAIN queue[p] : queue[p][j].op = "fork" =>
       /\ life[queue[p][j].run] = 0
       /\ \A i \in DOMAIN batch[p] : batch[p][i].run # queue[p][j].run
  /\ \A j \in DOMAIN batch[p] : batch[p][j].op = "fork" =>
       (j = 1 /\ Busy(p)) \/ life[batch[p][j].run] = 0

\* a fork that p has accepted: p has read up to its point, and its source has ended
Ready(p, c) ==
  /\ c.of \in Run /\ c.point <= Len(memo[p][c.of])
  /\ <<p, c.of>> \in gone \/ runs[c.of] \in Terminal

ForksReady(p) ==
  /\ \A j \in DOMAIN queue[p] : queue[p][j].op = "fork" => Ready(p, queue[p][j])
  /\ \A j \in DOMAIN batch[p] : batch[p][j].op = "fork" => Ready(p, batch[p][j])

\* a memo is only ever extended
MemoExtends(p) ==
  \A r \in Run : Len(memo'[p][r]) \in Nat /\ Len(memo'[p][r]) >= Len(memo[p][r])

ProcessOK(p) == MemoLeads(p) /\ DriveIsOpen(p) /\ NewIds(p) /\ ForksReady(p)

ControlInv ==
  /\ HolderIsUp /\ ControlTypeOK /\ LoopIsServed /\ ClosedIsIdle /\ RowsHaveLives
  /\ \A p \in Process : ProcessOK(p)

\* Init establishes it.
LEMMA ControlInitInv == ControlInit => ControlInv
<1>. SUFFICES ASSUME ControlInit PROVE ControlInv
  OBVIOUS
<1>1. HolderIsUp /\ LoopIsServed
  BY HolderInit DEF ControlInit, StackInit, LoopIsServed
<1>2. ControlTypeOK
  BY DEF ControlInit, ControlTypeOK
<1>3. ClosedIsIdle /\ RowsHaveLives
  BY DEF ControlInit, ClosedIsIdle, RowsHaveLives
<1>4. ASSUME NEW p \in Process PROVE ProcessOK(p)
  BY DEF ControlInit, ProcessOK, MemoLeads, Leads, DriveIsOpen, Busy, NewIds, ForksReady, Apart
<1>. QED BY <1>1, <1>2, <1>3, <1>4 DEF ControlInv

\* One process at a time has the store: when p does, the others are idle.
LEMMA OthersAreIdle ==
  ASSUME ControlInv, NEW p \in Process, StoreOpen(p), NEW q \in Process, q # p
  PROVE  /\ ~StoreOpen(q) /\ ~Busy(q) /\ queue[q] = <<>> /\ batch[q] = <<>>
         /\ \A r \in Run : memo[q][r] = <<>>
<1>1. part[q] = "down"
  BY OthersAreDown DEF ControlInv, StoreOpen
<1>2. ~StoreOpen(q)
  BY <1>1 DEF StoreOpen
<1>. QED BY <1>2 DEF ControlInv, ClosedIsIdle, Busy

\* A tick is the work of a process that has the store open.
LEMMA TickingIsOpen ==
  ASSUME ControlInv, NEW p \in Process, loop[p] = "up"
  PROVE  StoreOpen(p)
BY DEF ControlInv, LoopIsServed, StoreOpen

\* A process that is idle after a step meets its part of the invariant.
LEMMA IdleIsOK ==
  ASSUME NEW p \in Process, tick'[p] = "sleep", queue'[p] = <<>>, batch'[p] = <<>>,
         \A r \in Run : memo'[p][r] = <<>>, ControlTypeOK'
  PROVE  ProcessOK(p)'
<1>1. \A r \in Run : Len(journal'[r]) \in Nat
  BY DEF ControlTypeOK
<1>2. MemoLeads(p)'
  BY <1>1 DEF MemoLeads, Leads
<1>. QED BY <1>2 DEF ProcessOK, DriveIsOpen, Busy, NewIds, ForksReady, Apart

\* What is queued or drained are commands.
LEMMA QueuedAreCommands ==
  ASSUME ControlTypeOK, NEW p \in Process
  PROVE  /\ DOMAIN queue[p] = 1..Len(queue[p]) /\ Len(queue[p]) \in Nat
         /\ DOMAIN batch[p] = 1..Len(batch[p]) /\ Len(batch[p]) \in Nat
         /\ \A j \in DOMAIN queue[p] : queue[p][j] \in Command /\ queue[p][j].run \in Run
         /\ \A j \in DOMAIN batch[p] : batch[p][j] \in Command /\ batch[p][j].run \in Run
<1>1. queue[p] \in Seq(Command) /\ batch[p] \in Seq(Command)
  BY DEF ControlTypeOK
<1>2. \A c \in Command : c.run \in Run
  BY DEF Command
<1>. QED BY <1>1, <1>2

\* A step of one process that has the store: what has to be shown is that it keeps the
\* types, the lives of the rows and its own part of the invariant.
LEMMA StepOfOne ==
  ASSUME ControlInv, NEW p \in Process, StoreOpen(p), UNCHANGED <<lock, part>>,
         \A q \in Process : q # p =>
           tick'[q] = tick[q] /\ queue'[q] = queue[q] /\ batch'[q] = batch[q] /\ memo'[q] = memo[q],
         LoopIsServed', ControlTypeOK', RowsHaveLives', ProcessOK(p)'
  PROVE  ControlInv'
<1>1. HolderIsUp'
  BY DEF ControlInv, HolderIsUp
<1>2. ASSUME NEW q \in Process, q # p
      PROVE  tick'[q] = "sleep" /\ queue'[q] = <<>> /\ batch'[q] = <<>> /\ \A r \in Run : memo'[q][r] = <<>>
  <2>1. ~StoreOpen(q)
    BY <1>2, OthersAreIdle
  <2>. QED BY <1>2, <2>1 DEF ControlInv, ClosedIsIdle
<1>3. ASSUME NEW q \in Process PROVE ProcessOK(q)'
  <2>1. CASE q = p
    BY <2>1
  <2>2. CASE q # p
    BY <1>2, <2>2, IdleIsOK
  <2>. QED BY <2>1, <2>2
<1>4. ClosedIsIdle'
  BY <1>2 DEF ClosedIsIdle, StoreOpen
<1>. QED BY <1>1, <1>3, <1>4 DEF ControlInv

\* A fork that may be applied still may, if the memo is extended and no ended run goes on.
LEMMA ReadyKeeps ==
  ASSUME ControlTypeOK, NEW p \in Process, NEW c \in Command, Ready(p, c), UNCHANGED gone, MemoExtends(p),
         \A r \in Run : runs[r] \in Terminal => runs'[r] \in Terminal
  PROVE  Ready(p, c)'
<1>1. c.point \in Nat /\ Len(memo[p][c.of]) \in Nat
  BY DEF ControlTypeOK, Command, Ready
<1>2. Len(memo'[p][c.of]) \in Nat /\ Len(memo'[p][c.of]) >= Len(memo[p][c.of])
  BY DEF Ready, MemoExtends
<1>3. c.of \in Run /\ c.point <= Len(memo[p][c.of]) /\ (<<p, c.of>> \in gone \/ runs[c.of] \in Terminal)
  BY DEF Ready
<1>4. c.point <= Len(memo'[p][c.of])
  BY <1>1, <1>2, <1>3
<1>5. <<p, c.of>> \in gone' \/ runs'[c.of] \in Terminal
  BY <1>3
<1>. QED BY <1>3, <1>4, <1>5 DEF Ready

\* Commands that stay in the queue and in the batch stay as they were, if no life begins
\* for a run that a fork is to create and no ended run goes on.
LEMMA CommandsKeep ==
  ASSUME NEW p \in Process, NewIds(p), ForksReady(p), ControlTypeOK, MemoExtends(p),
         UNCHANGED <<queue, batch, gone>>, Busy(p) => Busy(p)',
         \A r \in Run : life[r] = 0 /\ life'[r] # 0 =>
           batch[p] # <<>> /\ r = batch[p][1].run /\ Busy(p)',
         \A r \in Run : runs[r] \in Terminal => runs'[r] \in Terminal
  PROVE  NewIds(p)' /\ ForksReady(p)'
<1>1. \A j \in DOMAIN batch[p] : batch[p][j].run \in Run
  BY QueuedAreCommands
<1>2. \A j \in DOMAIN queue[p] : queue[p][j].run \in Run
  BY QueuedAreCommands
<1>3. DOMAIN batch[p] = 1..Len(batch[p]) /\ Len(batch[p]) \in Nat /\ (batch[p] # <<>> => 1 \in DOMAIN batch[p])
  BY QueuedAreCommands DEF ControlTypeOK
<1>4. NewIds(p)'
  <2>1. ASSUME NEW j \in DOMAIN queue[p], queue[p][j].op = "fork" PROVE life'[queue[p][j].run] = 0
    BY <1>2, <1>3, <2>1 DEF NewIds
  <2>2. ASSUME NEW j \in DOMAIN batch[p], batch[p][j].op = "fork"
        PROVE  (j = 1 /\ Busy(p)') \/ life'[batch[p][j].run] = 0
    <3>1. CASE j = 1
      BY <1>1, <2>2, <3>1 DEF NewIds
    <3>2. CASE j # 1
      <4>1. life[batch[p][j].run] = 0 /\ 1 < j /\ 1 \in DOMAIN batch[p]
        BY <1>3, <2>2, <3>2 DEF NewIds
      <4>2. batch[p][1].run # batch[p][j].run
        BY <2>2, <4>1 DEF NewIds, Apart
      <4>. QED BY <1>1, <2>2, <4>1, <4>2
    <3>. QED BY <3>1, <3>2
  <2>. QED BY <2>1, <2>2 DEF NewIds
<1>5. ForksReady(p)'
  BY QueuedAreCommands, ReadyKeeps DEF ForksReady
<1>. QED BY <1>4, <1>5

\* The command at hand is done, or the rest of the batch is dropped with the loop.
LEMMA HeadDone ==
  ASSUME NEW p \in Process, NewIds(p), ForksReady(p), ControlTypeOK, MemoExtends(p),
         UNCHANGED <<queue, gone, life>>, ~Busy(p)',
         \A r \in Run : runs[r] \in Terminal => runs'[r] \in Terminal,
         \/ batch'[p] = <<>>
         \/ batch[p] # <<>> /\ batch'[p] = Tail(batch[p])
  PROVE  NewIds(p)' /\ ForksReady(p)' /\ DriveIsOpen(p)'
<1>1. DriveIsOpen(p)'
  BY DEF DriveIsOpen
<1>k. ASSUME NEW c \in Command, Ready(p, c) PROVE Ready(p, c)'
  BY <1>k, ReadyKeeps
<1>a. \A j \in DOMAIN queue[p] : queue[p][j].op = "fork" => Ready(p, queue[p][j])'
  <2>1. \A j \in DOMAIN queue[p] : queue[p][j] \in Command
    BY QueuedAreCommands
  <2>. QED BY <1>k, <2>1 DEF ForksReady
<1>2. CASE batch'[p] = <<>>
  BY <1>1, <1>2, <1>a DEF NewIds, ForksReady, Apart
<1>3. CASE batch[p] # <<>> /\ batch'[p] = Tail(batch[p])
  <2>1. batch[p] \in Seq(Command)
    BY DEF ControlTypeOK
  <2>2. DOMAIN batch'[p] = 1..(Len(batch[p]) - 1) /\ DOMAIN batch[p] = 1..Len(batch[p])
        /\ Len(batch[p]) \in Nat
    BY <1>3, <2>1
  <2>3. \A j \in DOMAIN batch'[p] : j + 1 \in DOMAIN batch[p] /\ j + 1 # 1
                                    /\ batch'[p][j] = batch[p][j + 1]
    BY <1>3, <2>1, <2>2
  <2>a. ASSUME NEW i \in DOMAIN batch'[p], NEW j \in DOMAIN batch'[p], i < j, batch'[p][j].op = "fork"
        PROVE  batch'[p][i].run # batch'[p][j].run
    <3>1. i + 1 < j + 1
      BY <2>2, <2>a
    <3>2. batch[p][j + 1].op = "fork" /\ i + 1 \in DOMAIN batch[p] /\ j + 1 \in DOMAIN batch[p]
      BY <2>3, <2>a
    <3>3. batch[p][i + 1].run # batch[p][j + 1].run
      BY <3>1, <3>2 DEF NewIds, Apart
    <3>. QED BY <2>3, <3>3
  <2>4. Apart(batch[p])'
    BY <2>a DEF Apart
  <2>5. NewIds(p)'
    BY <2>3, <2>4 DEF NewIds, Apart
  <2>6. ForksReady(p)'
    <3>1. ASSUME NEW j \in DOMAIN batch'[p], batch'[p][j].op = "fork" PROVE Ready(p, batch[p][j])'
      <4>1. PICK c \in Command : c = batch[p][j + 1]
        BY <2>3, QueuedAreCommands
      <4>2. Ready(p, c)'
        BY <1>k, <2>3, <3>1, <4>1 DEF ForksReady
      <4>. QED BY <2>3, <4>1, <4>2
    <3>. QED BY <1>a, <3>1 DEF ForksReady
  <2>. QED BY <1>1, <2>5, <2>6
<1>. QED BY <1>2, <1>3

\* Journals grow, and the memo takes up what there is: it stays a first part.
LEMMA MemoGrows ==
  ASSUME NEW p \in Process, MemoLeads(p), ControlTypeOK, UNCHANGED gone,
         \A r \in Run : \/ journal'[r] = journal[r]
                        \/ \E u \in Seq(Event) : journal'[r] = journal[r] \o u
                        \/ \E e \in Event : journal'[r] = Append(journal[r], e),
         \A r \in Run : memo'[p][r] = memo[p][r] \/ memo'[p][r] = ReadEvents(p, r)
  PROVE  MemoLeads(p)'
<1>. SUFFICES ASSUME NEW r \in Run, <<p, r>> \notin gone
              PROVE  Leads(memo'[p][r], journal'[r])
  BY DEF MemoLeads
<1>1. memo[p][r] \in Seq(Event) /\ journal[r] \in Seq(Event) /\ Leads(memo[p][r], journal[r])
  BY DEF ControlTypeOK, MemoLeads
<1>2. Leads(journal[r], journal[r])
  BY <1>1 DEF Leads
<1>3. ReadEvents(p, r) = journal[r]
  BY <1>1, ReadsAll DEF ReadEvents
<1>4. PICK s \in {memo[p][r], journal[r]} : memo'[p][r] = s
  BY <1>3
<1>5. s \in Seq(Event) /\ Leads(s, journal[r])
  BY <1>1, <1>2
<1>6. CASE journal'[r] = journal[r]
  BY <1>4, <1>5, <1>6
<1>7. ASSUME NEW u \in Seq(Event), journal'[r] = journal[r] \o u PROVE Leads(s, journal'[r])
  BY <1>1, <1>5, <1>7, StillLeads
<1>8. ASSUME NEW e \in Event, journal'[r] = Append(journal[r], e) PROVE Leads(s, journal'[r])
  BY <1>1, <1>5, <1>8, AppendLeads
<1>. QED BY <1>4, <1>6, <1>7, <1>8

\* ... and no shorter than it was.
LEMMA MemoIsExtended ==
  ASSUME NEW p \in Process, ControlTypeOK,
         \A r \in Run : memo'[p][r] = memo[p][r] \/ memo'[p][r] = ReadEvents(p, r)
  PROVE  MemoExtends(p)
<1>. SUFFICES ASSUME NEW r \in Run
              PROVE  Len(memo'[p][r]) \in Nat /\ Len(memo'[p][r]) >= Len(memo[p][r])
  BY DEF MemoExtends
<1>1. memo[p][r] \in Seq(Event) /\ journal[r] \in Seq(Event)
  BY DEF ControlTypeOK
<1>2. ReadEvents(p, r) \in Seq(Event) /\ Len(ReadEvents(p, r)) >= Len(memo[p][r])
  BY <1>1, ReadsEvents DEF ReadEvents
<1>. QED BY <1>1, <1>2

\* What a process reads are events, so the memo keeps its type.
LEMMA RemembersEvents ==
  ASSUME ControlTypeOK, NEW p \in Process, NEW r \in Run, Remember(p, r)
  PROVE  /\ ReadEvents(p, r) \in Seq(Event) /\ Len(ReadEvents(p, r)) >= Len(memo[p][r])
         /\ memo' \in [Process -> [Run -> Seq(Event)]]
         /\ \A x \in Run : memo'[p][x] = memo[p][x] \/ memo'[p][x] = ReadEvents(p, x)
         /\ \A q \in Process : q # p => memo'[q] = memo[q]
<1>1. memo[p][r] \in Seq(Event) /\ journal[r] \in Seq(Event)
  BY DEF ControlTypeOK
<1>2. ReadEvents(p, r) \in Seq(Event) /\ Len(ReadEvents(p, r)) >= Len(memo[p][r])
  BY <1>1, ReadsEvents DEF ReadEvents
<1>. QED BY <1>2 DEF ControlTypeOK, Remember

\* An event recorded makes a journal longer.
LEMMA RecordAppends ==
  ASSUME ControlTypeOK, NEW r \in Run, NEW type \in {"created", "forked"} \cup Terminal, Record(r, type)
  PROVE  /\ journal' \in [Run -> Seq(Event)]
         /\ \A x \in Run : \/ journal'[x] = journal[x]
                           \/ \E e \in Event : journal'[x] = Append(journal[x], e)
<1>. DEFINE e == [type |-> type, life |-> life[r]]
<1>1. e \in Event
  BY DEF Event, ControlTypeOK
<1>2. journal' = [journal EXCEPT ![r] = Append(journal[r], e)]
  BY DEF Record
<1>. HIDE DEF e
<1>3. Append(journal[r], e) \in Seq(Event)
  BY <1>1 DEF ControlTypeOK
<1>. QED BY <1>1, <1>2, <1>3 DEF ControlTypeOK

\* A row created begins a life of its run, and its journal grows by what it begins with.
LEMMA CreateBegins ==
  ASSUME ControlTypeOK, RowsHaveLives, NEW r \in Run, NEW u \in Seq(Event), Create(r, u)
  PROVE  /\ journal' \in [Run -> Seq(Event)]
         /\ \A x \in Run : \/ journal'[x] = journal[x]
                           \/ \E v \in Seq(Event) : journal'[x] = journal[x] \o v
         /\ runs' = [runs EXCEPT ![r] = "running"]
         /\ runs' \in [Run -> {"none", "running", "waiting"} \cup Terminal]
         /\ life' \in [Run -> Nat] /\ \A x \in Run : life'[x] # life[x] => x = r
         /\ RowsHaveLives'
<1>1. journal[r] \o u \in Seq(Event)
  BY DEF ControlTypeOK
<1>2. journal' = [journal EXCEPT ![r] = journal[r] \o u] /\ runs' = [runs EXCEPT ![r] = "running"]
      /\ life' = [life EXCEPT ![r] = life[r] + 1]
  BY DEF Create
<1>3. \A x \in Run : x # r => life'[x] = life[x] /\ runs'[x] = runs[x]
  BY <1>2 DEF ControlTypeOK
<1>4. life[r] \in Nat /\ life'[r] = life[r] + 1
  BY <1>2 DEF ControlTypeOK
<1>5. RowsHaveLives'
  BY <1>3, <1>4 DEF RowsHaveLives
<1>6. life' \in [Run -> Nat]
  BY <1>2, <1>4 DEF ControlTypeOK
<1>7. journal' \in [Run -> Seq(Event)]
  BY <1>1, <1>2 DEF ControlTypeOK
<1>8. \A x \in Run : journal'[x] = journal[x] \/ (x = r /\ journal'[x] = journal[x] \o u)
  BY <1>2 DEF ControlTypeOK
<1>. QED BY <1>2, <1>3, <1>5, <1>6, <1>7, <1>8 DEF ControlTypeOK

\* A command whose new run is named by no other one goes behind the others.
LEMMA ApartAppend ==
  ASSUME NEW s \in Seq(Command), NEW c \in Command, Apart(s),
         c.op = "fork" => \A i \in DOMAIN s : s[i].run # c.run
  PROVE  Apart(Append(s, c))
<1>. DEFINE t == Append(s, c)
<1>1. Len(s) \in Nat /\ DOMAIN s = 1..Len(s) /\ DOMAIN t = 1..(Len(s) + 1) /\ t[Len(s) + 1] = c
      /\ \A j \in 1..Len(s) : t[j] = s[j]
  OBVIOUS
<1>. HIDE DEF t
<1>2. ASSUME NEW i \in DOMAIN t, NEW j \in DOMAIN t, i < j, t[j].op = "fork"
      PROVE  t[i].run # t[j].run
  <2>1. i \in DOMAIN s /\ t[i] = s[i]
    BY <1>1, <1>2
  <2>2. CASE j = Len(s) + 1
    BY <1>1, <1>2, <2>1, <2>2
  <2>3. CASE j \in DOMAIN s
    BY <1>1, <1>2, <2>1, <2>3 DEF Apart
  <2>. QED BY <1>1, <2>2, <2>3
<1>3. Apart(t)
  BY <1>2 DEF Apart
<1>. QED BY <1>3 DEF t

\* A request accepted is queued behind the others.
LEMMA AcceptKeeps ==
  ASSUME ControlInv, NEW p \in Process, NEW c \in Command, Accept(p, c),
         memo' \in [Process -> [Run -> Seq(Event)]],
         \A r \in Run : memo'[p][r] = memo[p][r] \/ memo'[p][r] = ReadEvents(p, r),
         \A q \in Process : q # p => memo'[q] = memo[q],
         c.op = "fork" => Fresh(c.run) /\ Ready(p, c)'
  PROVE  ControlInv'
<1>1. StoreOpen(p) /\ UNCHANGED <<lock, part, loop, runs, journal, life, batch, tick, driving, gone>>
  BY DEF Accept, StoreOpen, stack, disk
<1>2. ControlTypeOK /\ ProcessOK(p) /\ RowsHaveLives /\ LoopIsServed
  BY DEF ControlInv
<1>3. queue[p] \in Seq(Command) /\ queue' = [queue EXCEPT ![p] = Append(queue[p], c)]
  BY <1>2 DEF Accept, ControlTypeOK
<1>4. queue'[p] = Append(queue[p], c) /\ queue' \in [Process -> Seq(Command)]
      /\ \A q \in Process : q # p => queue'[q] = queue[q]
  BY <1>2, <1>3 DEF ControlTypeOK
<1>5. ControlTypeOK'
  BY <1>1, <1>2, <1>4 DEF ControlTypeOK, Accept
<1>6. DOMAIN queue[p] = 1..Len(queue[p]) /\ Len(queue[p]) \in Nat
      /\ DOMAIN queue'[p] = 1..(Len(queue[p]) + 1)
      /\ queue'[p][Len(queue[p]) + 1] = c
      /\ \A j \in DOMAIN queue[p] : queue'[p][j] = queue[p][j]
  BY <1>3, <1>4
<1>7. NewIds(p)'
  <2>1. ASSUME c.op = "fork"
        PROVE  /\ life[c.run] = 0
               /\ \A i \in DOMAIN queue[p] : queue[p][i].run # c.run
               /\ \A i \in DOMAIN batch[p] : batch[p][i].run # c.run
    BY <2>1 DEF Fresh
  <2>2. Apart(queue'[p])
    BY <1>2, <1>3, <1>4, <2>1, ApartAppend DEF ProcessOK, NewIds
  <2>3. Apart(batch[p])' /\ (Busy(p)' <=> Busy(p))
    BY <1>1, <1>2 DEF ProcessOK, NewIds, Apart, Busy
  <2>4. ASSUME NEW j \in DOMAIN queue'[p], queue'[p][j].op = "fork"
        PROVE  life'[queue'[p][j].run] = 0 /\ \A i \in DOMAIN batch'[p] : batch'[p][i].run # queue'[p][j].run
    BY <1>1, <1>2, <1>6, <2>1, <2>4 DEF ProcessOK, NewIds
  <2>. QED BY <1>1, <1>2, <2>2, <2>3, <2>4 DEF ProcessOK, NewIds
<1>8. ForksReady(p)'
  <2>1. \A j \in DOMAIN queue'[p] : queue'[p][j] = c \/ (j \in DOMAIN queue[p] /\ queue'[p][j] = queue[p][j])
    BY <1>6
  <2>2. MemoExtends(p)
    BY <1>2, MemoIsExtended
  <2>3. ASSUME NEW d \in Command, Ready(p, d) PROVE Ready(p, d)'
    BY <1>1, <1>2, <2>2, <2>3, ReadyKeeps
  <2>4. ASSUME NEW j \in DOMAIN queue'[p], queue'[p][j].op = "fork" PROVE Ready(p, queue[p][j])'
    <3>1. CASE queue'[p][j] = c
      BY <2>4, <3>1
    <3>2. CASE j \in DOMAIN queue[p] /\ queue'[p][j] = queue[p][j]
      <4>1. PICK d \in Command : d = queue[p][j]
        BY <1>2, <3>2, QueuedAreCommands
      <4>2. Ready(p, d)'
        BY <1>2, <2>3, <2>4, <3>2, <4>1 DEF ProcessOK, ForksReady
      <4>. QED BY <3>2, <4>1, <4>2
    <3>. QED BY <2>1, <3>1, <3>2
  <2>5. ASSUME NEW j \in DOMAIN batch'[p], batch'[p][j].op = "fork" PROVE Ready(p, batch[p][j])'
    <3>1. PICK d \in Command : d = batch[p][j]
      BY <1>1, <1>2, QueuedAreCommands
    <3>2. Ready(p, d)'
      BY <1>1, <1>2, <2>3, <2>5, <3>1 DEF ProcessOK, ForksReady
    <3>. QED BY <1>1, <3>1, <3>2
  <2>. QED BY <2>4, <2>5 DEF ForksReady
<1>9. DriveIsOpen(p)'
  BY <1>1, <1>2 DEF ProcessOK, DriveIsOpen, Busy
<1>10. MemoLeads(p)'
  BY <1>1, <1>2, MemoGrows DEF ProcessOK
<1>11. RowsHaveLives' /\ LoopIsServed'
  BY <1>1, <1>2 DEF RowsHaveLives, LoopIsServed
<1>. QED BY <1>1, <1>4, <1>5, <1>7, <1>8, <1>9, <1>10, <1>11, StepOfOne DEF ProcessOK

\* Every request keeps the invariant.
LEMMA PostKeeps ==
  ASSUME ControlInv, NEW p \in Process, Post(p)
  PROVE  ControlInv'
<1>1. sent \in Nat /\ memo \in [Process -> [Run -> Seq(Event)]]
  BY DEF ControlInv, ControlTypeOK
<1>2. ASSUME NEW r \in Run, NEW op \in {"start", "unknown", "cancel", "event"},
             Accept(p, Request(op, r, NoRun, 0)), UNCHANGED memo
      PROVE  ControlInv'
  <2>a. Request(op, r, NoRun, 0) \in Command /\ Request(op, r, NoRun, 0).op # "fork"
    BY <1>1 DEF Request, Command
  <2>1. PICK c \in Command : c = Request(op, r, NoRun, 0) /\ c.op # "fork"
    BY <2>a
  <2>. QED BY <1>1, <1>2, <2>1, AcceptKeeps
<1>3. ASSUME NEW r \in Run, NEW s \in Run, NEW k \in DOMAIN ReadEvents(p, s), PostFork(p, s, k, r)
      PROVE  ControlInv'
  <2>1. ControlTypeOK /\ Remember(p, s) /\ Fresh(r) /\ runs[s] \in Terminal
    BY <1>3 DEF PostFork, Forkable, ControlInv
  <2>2. ReadEvents(p, s) \in Seq(Event)
    BY <2>1, RemembersEvents
  <2>3. k \in Nat /\ k <= Len(ReadEvents(p, s))
    BY <2>2
  <2>a. Request("fork", r, s, k) \in Command
    BY <1>1, <2>3 DEF Request, Command
  <2>4. PICK c \in Command : c = Request("fork", r, s, k)
    BY <2>a
  <2>5. c.run = r /\ c.of = s /\ c.point = k
    BY <2>4 DEF Request
  <2>6. Accept(p, c)
    BY <1>3, <2>4 DEF PostFork
  <2>7. memo'[p][s] = ReadEvents(p, s)
    BY <1>1, <2>1 DEF Remember
  <2>8. Ready(p, c)'
    BY <2>1, <2>3, <2>5, <2>6, <2>7 DEF Ready, Accept, disk
  <2>. QED BY <2>1, <2>5, <2>6, <2>8, RemembersEvents, AcceptKeeps
<1>. QED BY <1>2, <1>3 DEF Post, PostStart, PostCancel, PostEvent

\* A tick begins with what is queued.
LEMMA DrainKeeps ==
  ASSUME ControlInv, NEW p \in Process, Drain(p)
  PROVE  ControlInv'
<1>1. StoreOpen(p) /\ ControlTypeOK /\ ProcessOK(p) /\ RowsHaveLives /\ LoopIsServed
  BY TickingIsOpen DEF ControlInv, Drain, Ticks
<1>2. UNCHANGED <<lock, part, loop, runs, journal, life, memo, driving, sent, gone>>
  BY DEF Drain, stack, disk, history
<1>3. batch'[p] = queue[p] /\ queue'[p] = <<>> /\ tick'[p] = "apply"
      /\ \A q \in Process : q # p => queue'[q] = queue[q] /\ batch'[q] = batch[q] /\ tick'[q] = tick[q]
  BY <1>1 DEF Drain, ControlTypeOK
<1>4. ControlTypeOK'
  BY <1>1, <1>2 DEF Drain, ControlTypeOK
<1>5. NewIds(p)' /\ DriveIsOpen(p)' /\ ForksReady(p)' /\ MemoLeads(p)'
  BY <1>1, <1>2, <1>3 DEF ProcessOK, NewIds, Apart, DriveIsOpen, Busy, ForksReady, Ready, MemoLeads
<1>6. RowsHaveLives' /\ LoopIsServed'
  BY <1>1, <1>2 DEF RowsHaveLives, LoopIsServed
<1>. QED BY <1>1, <1>2, <1>3, <1>4, <1>5, <1>6, StepOfOne DEF ProcessOK

\* One entry of a function is replaced.
LEMMA EntryReplaced ==
  ASSUME NEW S, NEW T, NEW f \in [S -> T], NEW x \in S, NEW y \in T, NEW g, g = [f EXCEPT ![x] = y]
  PROVE  g \in [S -> T] /\ g[x] = y /\ \A z \in S : z # x => g[z] = f[z]
OBVIOUS

\* A command that is done, or one that ends the loop: what is left to show is what became of
\* the disk and of the memo.
LEMMA OverKeeps ==
  ASSUME ControlInv, NEW p \in Process, loop[p] = "up",
         \/ Applied(p) /\ batch[p] # <<>>
         \/ Dies(p)
         \/ /\ batch[p] = <<>> /\ batch' = batch /\ UNCHANGED <<stack, history>>
            /\ tick' = [tick EXCEPT ![p] = "sleep"] /\ driving' = [driving EXCEPT ![p] = NoRun],
         UNCHANGED <<queue, life>>,
         runs' \in [Run -> {"none", "running", "waiting"} \cup Terminal],
         \A r \in Run : /\ runs[r] \in Terminal => runs'[r] \in Terminal
                        /\ runs[r] = "none" => runs'[r] = "none",
         journal' \in [Run -> Seq(Event)],
         \A r \in Run : \/ journal'[r] = journal[r]
                        \/ \E e \in Event : journal'[r] = Append(journal[r], e),
         memo' \in [Process -> [Run -> Seq(Event)]],
         \A r \in Run : memo'[p][r] = memo[p][r] \/ memo'[p][r] = ReadEvents(p, r),
         \A q \in Process : q # p => memo'[q] = memo[q]
  PROVE  ControlInv'
<1>1. StoreOpen(p) /\ ControlTypeOK /\ ProcessOK(p) /\ RowsHaveLives /\ LoopIsServed
  BY TickingIsOpen DEF ControlInv
<1>a. UNCHANGED <<lock, part, sent, gone>> /\ driving' = [driving EXCEPT ![p] = NoRun]
  BY DEF Applied, Dies, LoopDies, stack, history
<1>b. PICK t \in {"apply", "sleep"} : tick' = [tick EXCEPT ![p] = t]
  BY DEF Applied, Dies
<1>c. PICK b \in Seq(Command) :
        /\ batch' = [batch EXCEPT ![p] = b]
        /\ b = <<>> \/ (batch[p] # <<>> /\ b = Tail(batch[p]))
  <2>1. batch[p] \in Seq(Command) /\ <<>> \in Seq(Command)
    BY <1>1 DEF ControlTypeOK
  <2>2. ASSUME NEW s \in Seq(Command), s # <<>> PROVE Tail(s) \in Seq(Command)
    BY <2>2
  <2>3. CASE Applied(p) /\ batch[p] # <<>>
    BY <2>1, <2>2, <2>3 DEF Applied
  <2>4. CASE Dies(p)
    BY <2>1, <2>4 DEF Dies
  <2>5. CASE batch[p] = <<>> /\ batch' = batch
    BY <1>1, <2>1, <2>5 DEF ControlTypeOK
  <2>. QED BY <2>3, <2>4, <2>5
<1>d. /\ tick \in [Process -> {"sleep", "apply", "load", "body"}] /\ batch \in [Process -> Seq(Command)]
      /\ driving \in [Process -> Run \cup {NoRun}]
  BY <1>1 DEF ControlTypeOK
<1>e. /\ tick' \in [Process -> {"sleep", "apply", "load", "body"}] /\ tick'[p] = t
      /\ \A q \in Process : q # p => tick'[q] = tick[q]
  <2>1. t \in {"sleep", "apply", "load", "body"}
    OBVIOUS
  <2>. QED BY <1>b, <1>d, <2>1, EntryReplaced
<1>f. /\ batch' \in [Process -> Seq(Command)] /\ batch'[p] = b
      /\ \A q \in Process : q # p => batch'[q] = batch[q]
  <2>1. batch' = [batch EXCEPT ![p] = b] /\ b \in Seq(Command)
    BY <1>c
  <2>. QED BY <1>d, <2>1, EntryReplaced, Zenon
<1>g. driving' \in [Process -> Run \cup {NoRun}]
  BY <1>a, <1>d, EntryReplaced
<1>2. tick'[p] \in {"apply", "sleep"} /\ batch'[p] = b
  BY <1>e, <1>f
<1>3. LoopIsServed'
  BY <1>1 DEF Applied, Dies, LoopDies, stack, LoopIsServed
<1>5. ControlTypeOK'
  BY <1>1, <1>a, <1>e, <1>f, <1>g DEF ControlTypeOK
<1>6. \A q \in Process : q # p => queue'[q] = queue[q] /\ batch'[q] = batch[q] /\ tick'[q] = tick[q]
  BY <1>e, <1>f
<1>7. RowsHaveLives'
  BY <1>1 DEF RowsHaveLives
<1>8. MemoLeads(p)'
  BY <1>1, <1>a, MemoGrows DEF ProcessOK
<1>9. ~Busy(p)'
  BY <1>2 DEF Busy
<1>10. NewIds(p)' /\ ForksReady(p)' /\ DriveIsOpen(p)'
  BY <1>1, <1>2, <1>a, <1>c, <1>9, MemoIsExtended, HeadDone DEF ProcessOK
<1>. QED BY <1>1, <1>a, <1>3, <1>5, <1>6, <1>7, <1>8, <1>10, StepOfOne DEF ProcessOK

\* The command of a kind is at hand.
LEMMA AtHand ==
  ASSUME ControlInv, NEW p \in Process, NEW op, Command1(p, op)
  PROVE  /\ loop[p] = "up" /\ tick[p] = "apply" /\ batch[p] # <<>> /\ batch[p][1].op = op
         /\ batch[p][1] \in Command /\ batch[p][1].run \in Run
<1>1. ControlTypeOK /\ batch[p] # <<>>
  BY DEF ControlInv, Command1
<1>2. 1 \in DOMAIN batch[p]
  BY <1>1 DEF ControlTypeOK
<1>. QED BY <1>1, <1>2, QueuedAreCommands DEF Command1, Ticks

\* Cancelling, delivering an event and an unknown workflow.
LEMMA OtherCommandsKeep ==
  ASSUME ControlInv, NEW p \in Process, ApplyCancel(p) \/ ApplyEvent(p) \/ ApplyUnknown(p)
  PROVE  ControlInv'
<1>1. ControlTypeOK
  BY DEF ControlInv
<1>2. CASE ApplyEvent(p)
  BY <1>1, <1>2, AtHand, OverKeeps DEF ApplyEvent, disk, ControlTypeOK
<1>3. CASE ApplyUnknown(p)
  BY <1>1, <1>3, AtHand, OverKeeps DEF ApplyUnknown, disk, ControlTypeOK
<1>4. CASE ApplyCancel(p)
  <2>. DEFINE r == batch[p][1].run
  <2>1. loop[p] = "up" /\ r \in Run /\ batch[p] # <<>> /\ Applied(p) /\ UNCHANGED <<memo, queue>>
    BY <1>4, AtHand DEF ApplyCancel
  <2>2. CASE UNCHANGED disk
    BY <1>1, <2>1, <2>2, OverKeeps DEF disk, ControlTypeOK
  <2>3. CASE /\ runs[r] \notin {"none"} \cup Terminal /\ Record(r, "cancelled")
             /\ runs' = [runs EXCEPT ![r] = "cancelled"] /\ UNCHANGED life
    <3>1. /\ runs' \in [Run -> {"none", "running", "waiting"} \cup Terminal]
          /\ \A x \in Run : /\ runs[x] \in Terminal => runs'[x] \in Terminal
                            /\ runs[x] = "none" => runs'[x] = "none"
      BY <1>1, <2>1, <2>3 DEF ControlTypeOK, Terminal
    <3>2. memo' \in [Process -> [Run -> Seq(Event)]] /\ \A x \in Run : memo'[p][x] = memo[p][x]
      BY <1>1, <2>1 DEF ControlTypeOK
    <3>3. /\ journal' \in [Run -> Seq(Event)]
          /\ \A x \in Run : \/ journal'[x] = journal[x]
                            \/ \E e \in Event : journal'[x] = Append(journal[x], e)
      BY <1>1, <2>1, <2>3, RecordAppends DEF Terminal
    <3>. QED BY <2>1, <2>3, <3>1, <3>2, <3>3, OverKeeps
  <2>. QED BY <1>4, <2>2, <2>3 DEF ApplyCancel
<1>. QED BY <1>2, <1>3, <1>4

\* A drive begins: the run it is of is open, and no fork waits for the run id.
LEMMA DriveBegins ==
  ASSUME ControlInv, NEW p \in Process, loop[p] = "up", NEW r \in Run,
         tick[p] = "apply", tick' = [tick EXCEPT ![p] = "load"], driving' = [driving EXCEPT ![p] = r],
         UNCHANGED <<stack, batch, queue, history>>, runs'[r] \in {"running", "waiting"},
         ControlTypeOK', RowsHaveLives', MemoLeads(p)', MemoExtends(p),
         \A q \in Process : q # p => memo'[q] = memo[q],
         \A x \in Run : life[x] = 0 /\ life'[x] # 0 => batch[p] # <<>> /\ x = batch[p][1].run,
         \A x \in Run : runs[x] \in Terminal => runs'[x] \in Terminal
  PROVE  ControlInv'
<1>1. StoreOpen(p) /\ ControlTypeOK /\ ProcessOK(p) /\ LoopIsServed
  BY TickingIsOpen DEF ControlInv
<1>2. tick'[p] = "load" /\ driving'[p] = r /\ \A q \in Process : q # p => tick'[q] = tick[q]
  BY <1>1 DEF ControlTypeOK
<1>3. ~Busy(p) /\ Busy(p)'
  BY <1>2 DEF Busy
<1>4. DriveIsOpen(p)'
  BY <1>2 DEF DriveIsOpen
<1>5. NewIds(p)' /\ ForksReady(p)'
  BY <1>1, <1>3, CommandsKeep DEF ProcessOK, history
<1>6. LoopIsServed'
  BY <1>1 DEF LoopIsServed, stack
<1>. QED BY <1>1, <1>2, <1>4, <1>5, <1>6, StepOfOne DEF ProcessOK, stack

\* Starting a run.
LEMMA StartKeeps ==
  ASSUME ControlInv, NEW p \in Process, ApplyStart(p)
  PROVE  ControlInv'
<1>. DEFINE r == batch[p][1].run
<1>1. loop[p] = "up" /\ tick[p] = "apply" /\ r \in Run /\ batch[p] # <<>> /\ UNCHANGED queue
  BY AtHand DEF ApplyStart
<1>2. ControlTypeOK /\ RowsHaveLives /\ ProcessOK(p) /\ runs[r] \in {"none", "running", "waiting"} \cup Terminal
  BY <1>1 DEF ControlInv, ControlTypeOK
<1>3. CASE runs[r] \in Terminal
  <2>1. (Applied(p) \/ Dies(p)) /\ Remember(p, r) /\ UNCHANGED disk
    BY <1>3 DEF ApplyStart, Terminal
  <2>. QED BY <1>1, <1>2, <2>1, RemembersEvents, OverKeeps DEF disk, ControlTypeOK
<1>4. CASE runs[r] \notin Terminal
  <2>1. /\ IF runs[r] = "none" THEN Create(r, <<[type |-> "created", life |-> life[r] + 1]>>)
           ELSE UNCHANGED disk
        /\ tick' = [tick EXCEPT ![p] = "load"] /\ driving' = [driving EXCEPT ![p] = r]
        /\ UNCHANGED <<stack, memo, batch, history>>
    BY <1>4 DEF ApplyStart, Terminal
  <2>2. /\ tick' \in [Process -> {"sleep", "apply", "load", "body"}]
        /\ driving' \in [Process -> Run \cup {NoRun}]
    BY <1>1, <1>2, <2>1 DEF ControlTypeOK
  <2>3. CASE runs[r] # "none"
    <3>1. UNCHANGED disk
      BY <2>1, <2>3
    <3>2. ControlTypeOK' /\ RowsHaveLives' /\ MemoLeads(p)'
      BY <1>1, <1>2, <2>1, <2>2, <3>1
      DEF ControlTypeOK, RowsHaveLives, ProcessOK, MemoLeads, disk, history
    <3>. QED BY <1>1, <1>2, <1>4, <2>1, <2>3, <3>1, <3>2, MemoIsExtended, DriveBegins DEF disk
  <2>4. CASE runs[r] = "none"
    <3>. DEFINE u == <<[type |-> "created", life |-> life[r] + 1]>>
    <3>1. [type |-> "created", life |-> life[r] + 1] \in Event
      BY <1>1, <1>2 DEF ControlTypeOK, Event
    <3>2. u \in Seq(Event) /\ Create(r, u)
      BY <2>1, <2>4, <3>1
    <3>. HIDE DEF u
    <3>3. /\ journal' \in [Run -> Seq(Event)]
          /\ \A x \in Run : \/ journal'[x] = journal[x]
                            \/ \E v \in Seq(Event) : journal'[x] = journal[x] \o v
          /\ runs' = [runs EXCEPT ![r] = "running"]
          /\ runs' \in [Run -> {"none", "running", "waiting"} \cup Terminal]
          /\ life' \in [Run -> Nat] /\ \A x \in Run : life'[x] # life[x] => x = r
          /\ RowsHaveLives'
      BY <1>1, <1>2, <3>2, CreateBegins
    <3>4. ControlTypeOK'
      BY <1>1, <1>2, <2>1, <2>2, <3>3 DEF ControlTypeOK, history
    <3>5. MemoLeads(p)'
      BY <1>2, <2>1, <3>3, MemoGrows DEF ProcessOK, history
    <3>6. runs'[r] = "running" /\ \A x \in Run : runs[x] \in Terminal => runs'[x] \in Terminal
      BY <1>1, <1>2, <2>4, <3>3 DEF ControlTypeOK, Terminal
    <3>. QED BY <1>1, <1>2, <2>1, <3>3, <3>4, <3>5, <3>6, MemoIsExtended, DriveBegins
  <2>. QED BY <2>3, <2>4
<1>. QED BY <1>3, <1>4

\* Forking a run: the row of the fork is its first.
LEMMA ForkKeeps ==
  ASSUME ControlInv, NEW p \in Process, ApplyFork(p)
  PROVE  ControlInv'
<1>1. PICK c \in Command : c = batch[p][1] /\ c.op = "fork" /\ c.run \in Run
  BY AtHand DEF ApplyFork
<1>2. loop[p] = "up" /\ tick[p] = "apply" /\ batch[p] # <<>> /\ UNCHANGED queue
  BY AtHand DEF ApplyFork
<1>3. ControlTypeOK /\ RowsHaveLives /\ ProcessOK(p)
  BY DEF ControlInv
<1>4. 1 \in DOMAIN batch[p] /\ ~Busy(p)
  BY <1>2, <1>3 DEF ControlTypeOK, Busy
<1>5. life[c.run] = 0 /\ runs[c.run] = "none" /\ Ready(p, c)
  BY <1>1, <1>3, <1>4 DEF ProcessOK, NewIds, ForksReady, RowsHaveLives
<1>6. c.of \in Run /\ c.point \in Nat /\ c.point <= Len(memo[p][c.of])
  BY <1>5 DEF Ready, Command
<1>7. CASE runs[c.of] = "none"
  <2>1. Dies(p) /\ UNCHANGED <<disk, memo>>
    BY <1>1, <1>7 DEF ApplyFork
  <2>. QED BY <1>2, <1>3, <2>1, OverKeeps DEF disk, ControlTypeOK
<1>8. CASE runs[c.of] # "none"
  <2>. DEFINE prefix == SubSeq(ReadEvents(p, c.of), 1, c.point)
              u == prefix \o <<[type |-> "forked", life |-> life[c.run] + 1]>>
  <2>1. /\ Create(c.run, u) /\ Remember(p, c.of)
        /\ tick' = [tick EXCEPT ![p] = "load"] /\ driving' = [driving EXCEPT ![p] = c.run]
        /\ UNCHANGED <<stack, batch, history>>
    BY <1>1, <1>8 DEF ApplyFork
  <2>2. /\ ReadEvents(p, c.of) \in Seq(Event) /\ Len(ReadEvents(p, c.of)) >= Len(memo[p][c.of])
        /\ memo' \in [Process -> [Run -> Seq(Event)]]
        /\ \A x \in Run : memo'[p][x] = memo[p][x] \/ memo'[p][x] = ReadEvents(p, x)
        /\ \A q \in Process : q # p => memo'[q] = memo[q]
    BY <1>3, <1>6, <2>1, RemembersEvents
  <2>3. memo[p][c.of] \in Seq(Event)
    BY <1>3, <1>6 DEF ControlTypeOK
  <2>4. \A i \in 1..c.point : ReadEvents(p, c.of)[i] \in Event
    BY <1>6, <2>2, <2>3
  <2>5. prefix \in Seq(Event)
    BY <1>6, <2>2, <2>3, <2>4
  <2>6. [type |-> "forked", life |-> life[c.run] + 1] \in Event
    BY <1>5 DEF Event
  <2>7. u \in Seq(Event)
    BY <2>5, <2>6
  <2>. HIDE DEF u
  <2>8. /\ journal' \in [Run -> Seq(Event)]
        /\ \A x \in Run : \/ journal'[x] = journal[x]
                          \/ \E v \in Seq(Event) : journal'[x] = journal[x] \o v
        /\ runs' = [runs EXCEPT ![c.run] = "running"]
        /\ runs' \in [Run -> {"none", "running", "waiting"} \cup Terminal]
        /\ life' \in [Run -> Nat] /\ \A x \in Run : life'[x] # life[x] => x = c.run
        /\ RowsHaveLives'
    BY <1>1, <1>3, <2>1, <2>7, CreateBegins
  <2>9. /\ tick' \in [Process -> {"sleep", "apply", "load", "body"}]
        /\ driving' \in [Process -> Run \cup {NoRun}]
    BY <1>1, <1>3, <2>1 DEF ControlTypeOK
  <2>10. ControlTypeOK'
    BY <1>2, <1>3, <2>1, <2>2, <2>8, <2>9 DEF ControlTypeOK, history
  <2>11. MemoLeads(p)'
    BY <1>3, <2>1, <2>2, <2>8, MemoGrows DEF ProcessOK, history
  <2>12. runs'[c.run] = "running" /\ \A x \in Run : runs[x] \in Terminal => runs'[x] \in Terminal
    BY <1>1, <1>3, <1>5, <2>8 DEF ControlTypeOK, Terminal
  <2>13. MemoExtends(p)
    BY <1>3, <2>2, MemoIsExtended
  <2>. QED BY <1>1, <1>2, <2>1, <2>2, <2>8, <2>10, <2>11, <2>12, <2>13, DriveBegins
<1>. QED BY <1>7, <1>8

\* A parked run is woken, or the tick is over.
LEMMA WakeKeeps ==
  ASSUME ControlInv, NEW p \in Process, NEW r \in Run, Wake(p, r)
  PROVE  ControlInv'
<1>1. ControlTypeOK /\ RowsHaveLives /\ ProcessOK(p)
  BY DEF ControlInv
<1>2. /\ loop[p] = "up" /\ tick[p] = "apply" /\ runs[r] = "waiting"
      /\ tick' = [tick EXCEPT ![p] = "load"] /\ driving' = [driving EXCEPT ![p] = r]
      /\ UNCHANGED <<stack, runs, journal, life, memo, queue, batch, history>>
  BY DEF Wake, Ticks, disk
<1>3. ControlTypeOK'
  BY <1>1, <1>2 DEF ControlTypeOK, history
<1>4. RowsHaveLives' /\ MemoLeads(p)' /\ MemoExtends(p)
  BY <1>1, <1>2, MemoIsExtended DEF RowsHaveLives, ProcessOK, MemoLeads, history
<1>. QED BY <1>1, <1>2, <1>3, <1>4, DriveBegins

LEMMA EndTickKeeps ==
  ASSUME ControlInv, NEW p \in Process, EndTick(p)
  PROVE  ControlInv'
<1>1. ControlTypeOK /\ RowsHaveLives /\ ProcessOK(p) /\ LoopIsServed /\ StoreOpen(p)
  BY TickingIsOpen DEF ControlInv, EndTick, Ticks
<1>2. /\ tick[p] = "apply" /\ tick' = [tick EXCEPT ![p] = "sleep"]
      /\ UNCHANGED <<lock, part, loop, runs, journal, life, memo, queue, batch, driving, sent, gone>>
  BY DEF EndTick, Ticks, disk, history, stack
<1>3. ControlTypeOK'
  BY <1>1, <1>2 DEF ControlTypeOK
<1>4. tick'[p] = "sleep" /\ \A q \in Process : q # p => tick'[q] = tick[q]
  BY <1>1, <1>2 DEF ControlTypeOK
<1>5. RowsHaveLives' /\ LoopIsServed' /\ MemoLeads(p)' /\ MemoExtends(p)
  BY <1>1, <1>2, MemoIsExtended DEF RowsHaveLives, LoopIsServed, ProcessOK, MemoLeads
<1>6. Busy(p) => Busy(p)'
  BY <1>2 DEF Busy
<1>7. NewIds(p)' /\ ForksReady(p)'
  BY <1>1, <1>2, <1>5, <1>6, CommandsKeep DEF ProcessOK
<1>8. DriveIsOpen(p)'
  BY <1>4 DEF DriveIsOpen, Busy
<1>. QED BY <1>1, <1>2, <1>3, <1>4, <1>5, <1>7, <1>8, StepOfOne DEF ProcessOK

\* The run a process drives has neither ended nor been deleted.
LEMMA DrivenIsOpen ==
  ASSUME ControlInv, NEW p \in Process, loop[p] = "up", Busy(p)
  PROVE  driving[p] \in Run /\ runs[driving[p]] \in {"running", "waiting"}
BY DEF ControlInv, ProcessOK, DriveIsOpen

\* The drive is over: the command that asked for it is done, or the loop dies, or there was none.
LEMMA FinishKeeps ==
  ASSUME ControlInv, NEW p \in Process, loop[p] = "up", Busy(p), NEW outcome, Finish(p, outcome),
         UNCHANGED <<queue, life>>,
         NEW status \in {"waiting"} \cup Terminal, runs' = [runs EXCEPT ![driving[p]] = status],
         journal' \in [Run -> Seq(Event)],
         \A r \in Run : \/ journal'[r] = journal[r]
                        \/ \E e \in Event : journal'[r] = Append(journal[r], e),
         memo' \in [Process -> [Run -> Seq(Event)]],
         \A r \in Run : memo'[p][r] = memo[p][r] \/ memo'[p][r] = ReadEvents(p, r),
         \A q \in Process : q # p => memo'[q] = memo[q]
  PROVE  ControlInv'
<1>1. ControlTypeOK /\ driving[p] \in Run /\ runs[driving[p]] \in {"running", "waiting"}
  BY DrivenIsOpen DEF ControlInv
<1>2. runs' \in [Run -> {"none", "running", "waiting"} \cup Terminal]
  BY <1>1 DEF ControlTypeOK
<1>3. \A r \in Run : /\ runs[r] \in Terminal => runs'[r] \in Terminal
                     /\ runs[r] = "none" => runs'[r] = "none"
  BY <1>1 DEF ControlTypeOK, Terminal
<1>4. \/ Applied(p) /\ batch[p] # <<>>
      \/ Dies(p)
      \/ /\ batch[p] = <<>> /\ batch' = batch /\ UNCHANGED <<stack, history>>
         /\ tick' = [tick EXCEPT ![p] = "sleep"] /\ driving' = [driving EXCEPT ![p] = NoRun]
  BY DEF Finish
<1>. QED BY <1>2, <1>3, <1>4, OverKeeps

\* A drive reads the journal, and goes on if the run has not ended.
LEMMA LoadKeeps ==
  ASSUME ControlInv, NEW p \in Process, Load(p)
  PROVE  ControlInv'
<1>. DEFINE r == driving[p]
            events == ReadEvents(p, r)
<1>1. loop[p] = "up" /\ tick[p] = "load" /\ Busy(p) /\ Remember(p, r)
  BY DEF Load, Ticks, Busy
<1>2. ControlTypeOK /\ RowsHaveLives /\ ProcessOK(p) /\ LoopIsServed /\ StoreOpen(p)
      /\ r \in Run /\ runs[r] \in {"running", "waiting"}
  BY <1>1, TickingIsOpen, DrivenIsOpen DEF ControlInv
<1>3. /\ events \in Seq(Event)
      /\ memo' \in [Process -> [Run -> Seq(Event)]]
      /\ \A x \in Run : memo'[p][x] = memo[p][x] \/ memo'[p][x] = ReadEvents(p, x)
      /\ \A q \in Process : q # p => memo'[q] = memo[q]
  BY <1>1, <1>2, RemembersEvents
<1>4. CASE Ends(events) = {}
  <2>1. /\ tick' = [tick EXCEPT ![p] = "body"]
        /\ UNCHANGED <<lock, part, loop, runs, journal, life, queue, batch, driving, sent, gone>>
    BY <1>4 DEF Load, stack, disk, history
  <2>2. ControlTypeOK'
    BY <1>2, <1>3, <2>1 DEF ControlTypeOK
  <2>3. tick'[p] = "body" /\ \A q \in Process : q # p => tick'[q] = tick[q]
    BY <1>2, <2>1 DEF ControlTypeOK
  <2>4. MemoLeads(p)' /\ MemoExtends(p)
    BY <1>2, <1>3, <2>1, MemoGrows, MemoIsExtended DEF ProcessOK
  <2>5. NewIds(p)' /\ ForksReady(p)'
    BY <1>2, <2>1, <2>3, <2>4, CommandsKeep DEF ProcessOK, Busy
  <2>6. DriveIsOpen(p)' /\ RowsHaveLives' /\ LoopIsServed'
    BY <1>2, <2>1 DEF DriveIsOpen, RowsHaveLives, LoopIsServed
  <2>. QED BY <1>2, <1>3, <2>1, <2>2, <2>3, <2>4, <2>5, <2>6, StepOfOne DEF ProcessOK
<1>5. CASE Ends(events) # {}
  <2>1. PICK status \in Terminal : status = events[LastEnd(events)].type
    BY <1>3, <1>5, LastEndIsTerminal
  <2>2. runs' = [runs EXCEPT ![r] = status] /\ Finish(p, status) /\ UNCHANGED <<journal, life, queue>>
    BY <1>5, <2>1 DEF Load
  <2>3. journal' \in [Run -> Seq(Event)]
    BY <1>2, <2>2 DEF ControlTypeOK
  <2>. QED BY <1>1, <1>3, <2>2, <2>3, FinishKeeps
<1>. QED BY <1>4, <1>5

\* A drive ends, with an outcome or parked, or is refused.
LEMMA EndDriveKeeps ==
  ASSUME ControlInv, NEW p \in Process, EndDrive(p) \/ RefuseDrive(p)
  PROVE  ControlInv'
<1>1. loop[p] = "up" /\ tick[p] = "body" /\ Busy(p) /\ UNCHANGED <<memo, queue>>
  BY DEF EndDrive, RefuseDrive, Ticks, Busy
<1>2. ControlTypeOK /\ driving[p] \in Run
  BY <1>1, DrivenIsOpen DEF ControlInv
<1>3. memo' \in [Process -> [Run -> Seq(Event)]]
  BY <1>1, <1>2 DEF ControlTypeOK
<1>4. ASSUME NEW outcome \in {"completed", "failed"}, Record(driving[p], outcome), UNCHANGED life,
             runs' = [runs EXCEPT ![driving[p]] = outcome], Finish(p, outcome)
      PROVE  ControlInv'
  <2>1. outcome \in Terminal
    BY DEF Terminal
  <2>2. /\ journal' \in [Run -> Seq(Event)]
        /\ \A x \in Run : \/ journal'[x] = journal[x]
                          \/ \E e \in Event : journal'[x] = Append(journal[x], e)
    BY <1>2, <1>4, <2>1, RecordAppends
  <2>. QED BY <1>1, <1>3, <1>4, <2>1, <2>2, FinishKeeps
<1>5. CASE runs' = [runs EXCEPT ![driving[p]] = "waiting"] /\ UNCHANGED <<journal, life>>
           /\ Finish(p, "waiting")
  <2>1. journal' \in [Run -> Seq(Event)]
    BY <1>2, <1>5 DEF ControlTypeOK
  <2>. QED BY <1>1, <1>3, <1>5, <2>1, FinishKeeps
<1>6. CASE RefuseDrive(p)
  BY <1>1, <1>2, <1>6, OverKeeps DEF RefuseDrive, disk, ControlTypeOK
<1>. QED BY <1>4, <1>5, <1>6 DEF EndDrive

\* A process gets on with its start or its stop: its store stays as open as it was.
LEMMA PartKeeps ==
  ASSUME ControlInv, [StackNext]_stack, UNCHANGED <<disk, worker, sent, gone>>,
         LoopIsServed', \A p \in Process : StoreOpen(p) => StoreOpen(p)'
  PROVE  ControlInv'
<1>1. HolderIsUp'
  BY HolderStep DEF ControlInv
<1>2. UNCHANGED <<runs, journal, life, memo, queue, batch, tick, driving, sent, gone>>
  BY DEF disk, worker
<1>3. ControlTypeOK'
  BY <1>2 DEF ControlInv, ControlTypeOK
<1>4. ClosedIsIdle' /\ RowsHaveLives'
  BY <1>2 DEF ControlInv, ClosedIsIdle, RowsHaveLives
<1>5. ASSUME NEW p \in Process PROVE ProcessOK(p)'
  <2>1. ProcessOK(p)
    BY DEF ControlInv
  <2>2. MemoLeads(p)' /\ DriveIsOpen(p)'
    BY <1>2, <2>1 DEF ProcessOK, MemoLeads, DriveIsOpen, Busy
  <2>3. NewIds(p)'
    BY <1>2, <2>1 DEF ProcessOK, NewIds, Busy
  <2>4. ForksReady(p)'
    BY <1>2, <2>1 DEF ProcessOK, ForksReady, Ready
  <2>. QED BY <2>2, <2>3, <2>4 DEF ProcessOK
<1>. QED BY <1>1, <1>3, <1>4, <1>5 DEF ControlInv

\* A process that exits or closes its store forgets what it had in memory.
LEMMA ForgetKeeps ==
  ASSUME ControlInv, NEW p \in Process, [StackNext]_stack, part[p] # "down", Forget(p), LoopIsServed',
         \A q \in Process : q # p => part'[q] = part[q]
  PROVE  ControlInv'
<1>1. HolderIsUp' /\ ControlTypeOK /\ RowsHaveLives
  BY HolderStep DEF ControlInv
<1>2. UNCHANGED <<runs, journal, life, sent>>
  BY DEF Forget, disk
<1>3. /\ memo' = [memo EXCEPT ![p] = [r \in Run |-> <<>>]]
      /\ queue' = [queue EXCEPT ![p] = <<>>] /\ batch' = [batch EXCEPT ![p] = <<>>]
      /\ tick' = [tick EXCEPT ![p] = "sleep"] /\ driving' = [driving EXCEPT ![p] = NoRun]
  BY DEF Forget
<1>4. [r \in Run |-> <<>>] \in [Run -> Seq(Event)] /\ <<>> \in Seq(Command)
  OBVIOUS
<1>5. /\ memo' \in [Process -> [Run -> Seq(Event)]]
      /\ queue' \in [Process -> Seq(Command)] /\ batch' \in [Process -> Seq(Command)]
      /\ tick' \in [Process -> {"sleep", "apply", "load", "body"}]
      /\ driving' \in [Process -> Run \cup {NoRun}]
  BY <1>1, <1>3, <1>4 DEF ControlTypeOK
<1>6. ControlTypeOK'
  BY <1>1, <1>2, <1>5 DEF ControlTypeOK
<1>7. ASSUME NEW q \in Process
      PROVE  tick'[q] = "sleep" /\ queue'[q] = <<>> /\ batch'[q] = <<>> /\ \A r \in Run : memo'[q][r] = <<>>
  <2>1. CASE q = p
    BY <1>1, <1>3, <2>1 DEF ControlTypeOK
  <2>2. CASE q # p
    <3>1. part[q] = "down"
      BY <2>2, OthersAreDown DEF ControlInv
    <3>2. ~StoreOpen(q)
      BY <3>1 DEF StoreOpen
    <3>. QED BY <1>1, <1>3, <2>2, <3>2 DEF ControlInv, ClosedIsIdle, ControlTypeOK
  <2>. QED BY <2>1, <2>2
<1>8. \A q \in Process : ProcessOK(q)'
  BY <1>6, <1>7, IdleIsOK
<1>9. ClosedIsIdle' /\ RowsHaveLives'
  BY <1>1, <1>2, <1>7 DEF ClosedIsIdle, RowsHaveLives
<1>. QED BY <1>1, <1>6, <1>8, <1>9 DEF ControlInv

\* Starting and stopping a process.
LEMMA LifecycleKeeps ==
  ASSUME ControlInv, NEW p \in Process, Boot(p) \/ Lifecycle(p)
  PROVE  ControlInv'
<1>1. [StackNext]_stack
  BY ControlImplementsStack DEF ControlNext
<1>2. LoopIsServed /\ part \in [Process -> Part]
  BY DEF ControlInv, HolderIsUp
<1>3. CASE Boot(p)
  <2>1. UNCHANGED <<disk, worker, sent, gone, loop>> /\ Move(p, "down", "lock")
    BY <1>3 DEF Boot, Acquire
  <2>. QED BY <1>1, <1>2, <2>1, PartKeeps DEF LoopIsServed, StoreOpen, Move
<1>4. CASE /\ OpenStore(p) \/ StartWorker(p) \/ StartServer(p) \/ StopServer(p) \/ Release(p)
           /\ UNCHANGED <<disk, worker, history>>
  <2>1. \A q \in Process : StoreOpen(q) => StoreOpen(q)'
    BY <1>2, <1>4 DEF OpenStore, StartWorker, StartServer, StopServer, Release, Move, StoreOpen
  <2>2. LoopIsServed'
    BY <1>2, <1>4 DEF OpenStore, StartWorker, StartServer, StopServer, Release, Move, LoopIsServed
  <2>3. UNCHANGED <<disk, worker, sent, gone>>
    BY <1>4 DEF history
  <2>. QED BY <1>1, <2>1, <2>2, <2>3, PartKeeps
<1>5. CASE (StopWorker(p) \/ CloseStore(p) \/ StopRaises(p) \/ Exit(p)) /\ Forget(p)
  <2>1. part[p] # "down" /\ \A q \in Process : q # p => part'[q] = part[q]
    BY <1>2, <1>5 DEF StopWorker, CloseStore, StopRaises, Exit, Move
  <2>2. LoopIsServed'
    BY <1>2, <1>5 DEF StopWorker, CloseStore, StopRaises, Exit, Move, LoopIsServed
  <2>. QED BY <1>1, <1>5, <2>1, <2>2, ForgetKeeps
<1>. QED BY <1>3, <1>4, <1>5 DEF Lifecycle

\* Deleting a run: whoever has the store open has it in `gone` from then on.
LEMMA DeleteKeeps ==
  ASSUME ControlInv, NEW r \in Run, DeleteRun(r)
  PROVE  ControlInv'
<1>1. HolderIsUp /\ ControlTypeOK /\ RowsHaveLives /\ LoopIsServed /\ ClosedIsIdle
  BY DEF ControlInv
<1>2. /\ runs[r] \in Terminal /\ runs' = [runs EXCEPT ![r] = "none"] /\ journal' = [journal EXCEPT ![r] = <<>>]
      /\ gone' = gone \cup {<<p, r>> : p \in {q \in Process : StoreOpen(q)}}
      /\ UNCHANGED <<lock, part, loop, life, memo, queue, batch, tick, driving, sent>>
  BY DEF DeleteRun, stack, worker
<1>3. ControlTypeOK'
  BY <1>1, <1>2 DEF ControlTypeOK
<1>4. HolderIsUp' /\ LoopIsServed' /\ ClosedIsIdle' /\ RowsHaveLives'
  BY <1>1, <1>2 DEF HolderIsUp, LoopIsServed, ClosedIsIdle, StoreOpen, RowsHaveLives, ControlTypeOK
<1>5. \A x \in Run : x # r => runs'[x] = runs[x] /\ journal'[x] = journal[x]
  BY <1>1, <1>2 DEF ControlTypeOK
<1>6. ASSUME NEW p \in Process PROVE ProcessOK(p)'
  <2>1. CASE ~StoreOpen(p)
    BY <1>1, <1>2, <1>3, <2>1, IdleIsOK DEF ClosedIsIdle
  <2>2. CASE StoreOpen(p)
    <3>1. ProcessOK(p) /\ <<p, r>> \in gone' /\ gone \subseteq gone'
      BY <1>2, <2>2 DEF ControlInv
    <3>2. MemoLeads(p)'
      BY <1>2, <1>5, <3>1 DEF ProcessOK, MemoLeads
    <3>3. DriveIsOpen(p)'
      BY <1>1, <1>2, <1>5, <3>1 DEF ProcessOK, DriveIsOpen, Busy, Terminal
    <3>4. NewIds(p)'
      BY <1>2, <3>1 DEF ProcessOK, NewIds, Busy
    <3>5. ForksReady(p)'
      BY <1>2, <1>5, <3>1 DEF ProcessOK, ForksReady, Ready
    <3>. QED BY <3>2, <3>3, <3>4, <3>5 DEF ProcessOK
  <2>. QED BY <2>1, <2>2
<1>. QED BY <1>3, <1>4, <1>6 DEF ControlInv

-----------------------------------------------------------------------------
(* Theorems about the control plane                                         *)

\* Every step keeps the invariant.
LEMMA ControlStep == ControlInv /\ [ControlNext]_vars => ControlInv'
<1>. SUFFICES ASSUME ControlInv, [ControlNext]_vars PROVE ControlInv'
  OBVIOUS
<1>1. CASE UNCHANGED vars
  <2>1. UNCHANGED <<disk, worker, sent, gone, stack>>
    BY <1>1 DEF vars, history
  <2>. QED BY <2>1, PartKeeps DEF ControlInv, LoopIsServed, StoreOpen, stack
<1>2. ASSUME NEW p \in Process, Tick(p) PROVE ControlInv'
  BY <1>2, DrainKeeps, OtherCommandsKeep, StartKeeps, ForkKeeps, EndTickKeeps, LoadKeeps, EndDriveKeeps DEF Tick
<1>. QED BY <1>1, <1>2, LifecycleKeeps, PostKeeps, EndDriveKeeps, WakeKeeps, DeleteKeeps DEF ControlNext

LEMMA ControlHolds == ControlSpec => []ControlInv
BY ControlInitInv, ControlStep, PTL DEF ControlSpec

\* The memo of decoded events (store.py, read_events) is the journal: through restarts, runs
\* driven by other processes, forks and cancellations a process reads what there is of a run,
\* unless the run was deleted while it had the store open.
THEOREM ReadsAreJournalHolds == ControlSpec => []ReadsAreJournal
<1>1. ControlInv => ReadsAreJournal
  <2>. SUFFICES ASSUME ControlInv, NEW p \in Process, NEW r \in Run, <<p, r>> \notin gone
                PROVE  ReadEvents(p, r) = journal[r]
    BY DEF ReadsAreJournal
  <2>1. memo[p][r] \in Seq(Event) /\ journal[r] \in Seq(Event) /\ Leads(memo[p][r], journal[r])
    BY DEF ControlInv, ControlTypeOK, ProcessOK, MemoLeads
  <2>. QED BY <2>1, ReadsAll DEF ReadEvents
<1>. QED BY <1>1, ControlHolds, PTL

\* A fork is applied to a source that has ended, as it had when the request was validated
\* (commands.py, validate_fork_request and create_fork), unless the source was deleted behind
\* the back of the process: nothing that is queued, driven or restarted in between lets an
\* ended run go on.
THEOREM ForkOfTerminalHolds == ControlSpec => []ForkOfTerminal
<1>1. ControlInv => ForkOfTerminal
  <2>. SUFFICES ASSUME ControlInv, NEW p \in Process, Command1(p, "fork"), <<p, batch[p][1].of>> \notin gone
                PROVE  runs[batch[p][1].of] \in Terminal
    BY DEF ForkOfTerminal
  <2>1. batch[p][1].op = "fork" /\ batch[p] # <<>> /\ batch[p] \in Seq(Command)
    BY AtHand DEF ControlInv, ControlTypeOK
  <2>2. Ready(p, batch[p][1])
    BY <2>1 DEF ControlInv, ProcessOK, ForksReady
  <2>. QED BY <2>2 DEF Ready
<1>. QED BY <1>1, ControlHolds, PTL
=============================================================================
