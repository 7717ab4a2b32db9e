----------------------------- MODULE ControlPlane -----------------------------
(***************************************************************************)
(* The HTTP control API of the processes of DevStack: control/api.py and   *)
(* control/server.py accept commands, control/commands.py queues them in   *)
(* memory, and the tick of the poll loop (timers/__init__.py) applies them *)
(* one after the other, driving the runs they start or fork.  The runs are *)
(* on disk and outlive the process; queue, batch and the store's memo of   *)
(* decoded events do not.  `satay runs delete` is a process of its own and *)
(* takes no lock.                                                          *)
(*                                                                         *)
(* A drive is only what a caller sees of ReplayEngine: it reads the        *)
(* journal, is suspended in a task, and ends with an outcome or a park.    *)
(***************************************************************************)
EXTENDS DevStack, Sequences, FiniteSets

CONSTANTS
  Run,          \* run ids
  NoRun,        \* the loop drives nothing
  MaxCommands,  \* bound: requests accepted
  MaxBoots      \* bound: processes that got the lock

ASSUME ControlBounds == NoRun \notin Run /\ MaxCommands \in Nat /\ MaxBoots \in Nat

VARIABLES
  runs,       \* runs.status, "none" without a row
  journal,    \* events of each run: type, and which life of the run id wrote it
  life,       \* history: rows created under each run id
  memo,       \* _event_cache of each process's store
  queue,      \* CommandQueue
  batch,      \* commands drained and not yet applied
  tick,       \* where the tick is
  driving,    \* the run being driven
  sent,       \* number of requests accepted; a command carries its number
  applied,    \* history: numbers of the commands applied
  lost,       \* history: numbers of those dropped with a process or a dead loop
  gone,       \* history: runs deleted while a process had the store open
  boots

disk == <<runs, journal, life>>
worker == <<memo, queue, batch, tick, driving>>
history == <<sent, applied, lost, gone, boots>>
vars == <<stack, disk, worker, history>>

Terminal == {"completed", "failed", "cancelled"}

ControlInit ==
  /\ StackInit
  /\ runs = [r \in Run |-> "none"] /\ journal = [r \in Run |-> <<>>]
  /\ life = [r \in Run |-> 0]
  /\ memo = [p \in Process |-> [r \in Run |-> <<>>]]
  /\ queue = [p \in Process |-> <<>>] /\ batch = [p \in Process |-> <<>>]
  /\ tick = [p \in Process |-> "sleep"] /\ driving = [p \in Process |-> NoRun]
  /\ sent = 0 /\ applied = {} /\ lost = {} /\ gone = {} /\ boots = 0

-----------------------------------------------------------------------------
(* The store                                                                *)

\* MUTANT of ReadThrough: the rows are fetched from the first one on
ReadAgain(cached, rows) == cached \o rows

\* read_events: the memoised prefix and the rows behind its last seq
ReadThrough(cached, rows) == cached \o SubSeq(rows, Len(cached) + 1, Len(rows))

ReadEvents(p, r) == ReadThrough(memo[p][r], journal[r])
Remember(p, r) == memo' = [memo EXCEPT ![p][r] = ReadEvents(p, r)]

Ends(j) == {i \in DOMAIN j : j[i].type \in Terminal}
LastEnd(j) == CHOOSE i \in Ends(j) : \A k \in Ends(j) : k <= i

Record(r, type) == journal' = [journal EXCEPT ![r] = Append(@, [type |-> type, life |-> life[r]])]

\* create_run and the events the run begins with
Create(r, events) ==
  /\ runs' = [runs EXCEPT ![r] = "running"] /\ life' = [life EXCEPT ![r] = @ + 1]
  /\ journal' = [journal EXCEPT ![r] = @ \o events]

-----------------------------------------------------------------------------
(* ControlAPI: a request is answered 202 once its command is queued         *)

Accept(p, c) ==
  /\ part[p] = "server" /\ sent < MaxCommands
  /\ sent' = sent + 1
  /\ queue' = [queue EXCEPT ![p] = Append(@, c)]
  /\ UNCHANGED <<stack, disk, batch, tick, driving, applied, lost, gone, boots>>

Request(op, r, s, k) == [op |-> op, run |-> r, of |-> s, point |-> k, n |-> sent + 1]

\* the run id is the client's, or a new one
PostStart(p, r) ==
  \E op \in {"start", "unknown"} : Accept(p, Request(op, r, NoRun, 0)) /\ UNCHANGED memo

PostCancel(p, r) == Accept(p, Request("cancel", r, NoRun, 0)) /\ UNCHANGED memo

PostEvent(p, r) == Accept(p, Request("event", r, NoRun, 0)) /\ UNCHANGED memo

\* a uuid
Fresh(r) ==
  life[r] = 0 /\ \A p \in Process : \A c \in {queue[p][i] : i \in DOMAIN queue[p]}
                                        \cup {batch[p][i] : i \in DOMAIN batch[p]} : c.run # r

\* MUTANT of Forkable: the status of the source is not looked at
ForkableAny(s) == runs[s] # "none"

\* _validate_source_run
Forkable(s) == runs[s] \in Terminal

\* resolve_fork_point: validated when accepted, applied later
PostFork(p, s, k, r) ==
  /\ Forkable(s) /\ k \in DOMAIN ReadEvents(p, s) /\ Fresh(r)
  /\ Remember(p, s)
  /\ Accept(p, Request("fork", r, s, k))

-----------------------------------------------------------------------------
(* TimerEventWorker.tick and apply_command                                  *)

Ticks(p, at) == loop[p] = "up" /\ tick[p] = at
Command1(p, op) == Ticks(p, "apply") /\ batch[p] # <<>> /\ batch[p][1].op = op

\* MUTANT of Drain: one command is taken and the deque is cleared
DrainFirst(p) ==
  /\ Ticks(p, "sleep")
  /\ batch' = [batch EXCEPT ![p] = IF queue[p] = <<>> THEN <<>> ELSE <<queue[p][1]>>]
  /\ queue' = [queue EXCEPT ![p] = <<>>]
  /\ tick' = [tick EXCEPT ![p] = "apply"]
  /\ UNCHANGED <<stack, disk, memo, driving, history>>

\* CommandQueue.drain at the beginning of a tick
Drain(p) ==
  /\ Ticks(p, "sleep")
  /\ batch' = [batch EXCEPT ![p] = queue[p]] /\ queue' = [queue EXCEPT ![p] = <<>>]
  /\ tick' = [tick EXCEPT ![p] = "apply"]
  /\ UNCHANGED <<stack, disk, memo, driving, history>>

\* the command at hand is done
Applied(p) ==
  /\ applied' = applied \cup {batch[p][1].n}
  /\ batch' = [batch EXCEPT ![p] = Tail(@)]
  /\ tick' = [tick EXCEPT ![p] = "apply"] /\ driving' = [driving EXCEPT ![p] = NoRun]
  /\ UNCHANGED <<stack, sent, lost, gone, boots>>

Numbers(commands) == {commands[i].n : i \in DOMAIN commands}

\* an exception leaves apply_command or a re-drive: the rest of the batch is dropped
Dies(p) ==
  /\ LoopDies(p)
  /\ lost' = lost \cup Numbers(batch[p])
  /\ batch' = [batch EXCEPT ![p] = <<>>]
  /\ tick' = [tick EXCEPT ![p] = "sleep"] /\ driving' = [driving EXCEPT ![p] = NoRun]
  /\ UNCHANGED <<sent, applied, gone, boots>>

\* append_cancellation, a no-op for an unknown or ended run
ApplyCancel(p) ==
  /\ Command1(p, "cancel")
  /\ LET r == batch[p][1].run IN
     IF runs[r] \in {"none"} \cup Terminal THEN UNCHANGED disk
     ELSE Record(r, "cancelled") /\ runs' = [runs EXCEPT ![r] = "cancelled"] /\ UNCHANGED life
  /\ Applied(p) /\ UNCHANGED <<memo, queue>>

\* the inbox row; which run it wakes is left to Wake
ApplyEvent(p) == Command1(p, "event") /\ Applied(p) /\ UNCHANGED <<disk, memo, queue>>

\* UnknownWorkflowError
ApplyUnknown(p) == Command1(p, "unknown") /\ Dies(p) /\ UNCHANGED <<disk, memo, queue>>

\* StartRun through RunHandle.result(): a finished run hands over its outcome, which for
\* a failed or cancelled one is an exception
ApplyStart(p) ==
  /\ Command1(p, "start") /\ UNCHANGED queue
  /\ LET r == batch[p][1].run IN
     CASE runs[r] = "completed" -> Applied(p) /\ Remember(p, r) /\ UNCHANGED disk
       [] runs[r] \in {"failed", "cancelled"} -> Dies(p) /\ Remember(p, r) /\ UNCHANGED disk
       [] OTHER ->
            /\ IF runs[r] = "none" THEN Create(r, <<[type |-> "created", life |-> life[r] + 1]>>)
               ELSE UNCHANGED disk
            /\ tick' = [tick EXCEPT ![p] = "load"] /\ driving' = [driving EXCEPT ![p] = r]
            /\ UNCHANGED <<stack, memo, batch, history>>

\* create_fork; a source deleted since the request was validated is a ForkValidationError
ApplyFork(p) ==
  /\ Command1(p, "fork") /\ UNCHANGED queue
  /\ LET c == batch[p][1]
         prefix == SubSeq(ReadEvents(p, c.of), 1, c.point)
     IN IF runs[c.of] = "none" THEN Dies(p) /\ UNCHANGED <<disk, memo>>
        ELSE /\ Create(c.run, prefix \o <<[type |-> "forked", life |-> life[c.run] + 1]>>)
             /\ Remember(p, c.of)
             /\ tick' = [tick EXCEPT ![p] = "load"] /\ driving' = [driving EXCEPT ![p] = c.run]
             /\ UNCHANGED <<stack, batch, history>>

\* deliver_events and fire_timers: the commands are done, a parked run is re-driven
\* (at most one a tick)
Wake(p, r) ==
  /\ Ticks(p, "apply") /\ batch[p] = <<>> /\ runs[r] = "waiting"
  /\ tick' = [tick EXCEPT ![p] = "load"] /\ driving' = [driving EXCEPT ![p] = r]
  /\ UNCHANGED <<stack, disk, memo, queue, batch, history>>

EndTick(p) ==
  /\ Ticks(p, "apply") /\ batch[p] = <<>>
  /\ tick' = [tick EXCEPT ![p] = "sleep"]
  /\ UNCHANGED <<stack, disk, memo, queue, batch, driving, history>>

\* the drive is over; result() raises what a started run failed with
Finish(p, outcome) ==
  IF batch[p] = <<>>
  THEN /\ tick' = [tick EXCEPT ![p] = "sleep"] /\ driving' = [driving EXCEPT ![p] = NoRun]
       /\ UNCHANGED <<stack, batch, history>>
  ELSE IF batch[p][1].op = "start" /\ outcome \in {"failed", "cancelled"} THEN Dies(p)
  ELSE Applied(p)

\* the drive reads the journal: one that has ended only settles the status
Load(p) ==
  /\ Ticks(p, "load") /\ Remember(p, driving[p])
  /\ LET r == driving[p]
         events == ReadEvents(p, r)
     IN IF Ends(events) = {}
        THEN /\ tick' = [tick EXCEPT ![p] = "body"]
             /\ UNCHANGED <<stack, disk, queue, batch, driving, history>>
        ELSE /\ runs' = [runs EXCEPT ![r] = events[LastEnd(events)].type]
             /\ Finish(p, events[LastEnd(events)].type)
             /\ UNCHANGED <<journal, life, queue>>

EndDrive(p) ==
  /\ Ticks(p, "body") /\ UNCHANGED <<life, memo, queue>>
  /\ \/ \E outcome \in {"completed", "failed"} :
          /\ Record(driving[p], outcome) /\ runs' = [runs EXCEPT ![driving[p]] = outcome]
          /\ Finish(p, outcome)
     \/ /\ runs' = [runs EXCEPT ![driving[p]] = "waiting"] /\ UNCHANGED journal
        /\ Finish(p, "waiting")

\* NondeterminismError under the default policy
RefuseDrive(p) == Ticks(p, "body") /\ Dies(p) /\ UNCHANGED <<disk, memo, queue>>

-----------------------------------------------------------------------------
(* Processes, and the command line beside them                              *)

\* what a process loses when it exits, or closes its store
Forget(p) ==
  /\ lost' = lost \cup Numbers(queue[p]) \cup Numbers(batch[p])
  /\ memo' = [memo EXCEPT ![p] = [r \in Run |-> <<>>]]
  /\ queue' = [queue EXCEPT ![p] = <<>>] /\ batch' = [batch EXCEPT ![p] = <<>>]
  /\ tick' = [tick EXCEPT ![p] = "sleep"] /\ driving' = [driving EXCEPT ![p] = NoRun]
  /\ gone' = {g \in gone : g[1] # p}
  /\ UNCHANGED <<disk, sent, applied>>

Boot(p) ==
  /\ Acquire(p) /\ boots < MaxBoots /\ boots' = boots + 1
  /\ UNCHANGED <<disk, worker, sent, applied, lost, gone>>

\* a tick cut off by stop() leaves its run as it is
Lifecycle(p) ==
  \/ (OpenStore(p) \/ StartWorker(p) \/ StartServer(p)) /\ UNCHANGED <<disk, worker, history>>
  \/ (StopServer(p) \/ Release(p)) /\ UNCHANGED <<disk, worker, history>>
  \/ (StopWorker(p) \/ CloseStore(p) \/ StopRaises(p) \/ Exit(p)) /\ Forget(p) /\ UNCHANGED boots

\* satay runs delete
DeleteRun(r) ==
  /\ runs[r] \in Terminal
  /\ runs' = [runs EXCEPT ![r] = "none"] /\ journal' = [journal EXCEPT ![r] = <<>>]
  /\ gone' = gone \cup {<<p, r>> : p \in {q \in Process : StoreOpen(q)}}
  /\ UNCHANGED <<stack, life, worker, sent, applied, lost, boots>>

Tick(p) ==
  \/ Drain(p) \/ ApplyCancel(p) \/ ApplyEvent(p) \/ ApplyUnknown(p) \/ ApplyStart(p)
  \/ ApplyFork(p) \/ EndTick(p) \/ Load(p) \/ EndDrive(p)

Post(p) ==
  \/ \E r \in Run : PostStart(p, r) \/ PostCancel(p, r) \/ PostEvent(p, r)
  \/ \E s, r \in Run : \E k \in DOMAIN ReadEvents(p, s) : PostFork(p, s, k, r)

ControlNext ==
  \/ \E p \in Process : Boot(p) \/ Lifecycle(p) \/ Post(p) \/ Tick(p) \/ RefuseDrive(p)
  \/ \E p \in Process : \E r \in Run : Wake(p, r)
  \/ \E r \in Run : DeleteRun(r)

\* the event loop gets to every coroutine that can go on, and task bodies end
ControlSpec == ControlInit /\ [][ControlNext]_vars /\ \A p \in Process : WF_vars(Tick(p))

-----------------------------------------------------------------------------
(* Correctness                                                              *)

\* A process reads the journal there is, however its memo was filled, through restarts
\* and runs driven by others (ADR-0036), unless the run was deleted behind its back.
ReadsAreJournal ==
  \A p \in Process : \A r \in Run :
    StoreOpen(p) /\ <<p, r>> \notin gone => ReadEvents(p, r) = journal[r]

\* What was validated when a fork was accepted still holds when its command is applied: the
\* source has ended and will not go on (ADR-0004/Q53), whatever was queued, driven and
\* restarted in between, unless the source was deleted behind the back of the process.
ForkOfTerminal ==
  \A p \in Process :
    Command1(p, "fork") /\ <<p, batch[p][1].of>> \notin gone => runs[batch[p][1].of] \in Terminal

Pending(n) == \E p \in Process : n \in Numbers(queue[p]) \cup Numbers(batch[p])

\* the loop that would apply it is dead: the server goes on accepting all the same
Stranded(n) == \E p \in Process : loop[p] # "up" /\ n \in Numbers(queue[p])

\* An accepted command is applied, unless its process exits or its poll loop dies before:
\* one slow run, or a flood of later requests, only delays it (ADR-0012).
AcceptedIsApplied ==
  \A n \in 1..MaxCommands : Pending(n) ~> (n \in applied \cup lost \/ Stranded(n))
=============================================================================
