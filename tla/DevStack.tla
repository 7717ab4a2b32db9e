------------------------------- MODULE DevStack -------------------------------
(***************************************************************************)
(* Processes that serve one data directory, and the lock that keeps them   *)
(* from doing so together: `satay dev` (devstack/orchestrator.py) and the  *)
(* control.run_app blocks of scripts (control/app.py) over the advisory    *)
(* lock of devstack/lock.py.                                               *)
(*                                                                         *)
(* A process takes the lock, opens the store, starts the poll loop and the *)
(* HTTP server, and stops them in reverse.  The operating system frees the *)
(* lock of a process that exits.  A loop that has died of an exception     *)
(* raises it again where stop() awaits it, so the rest of stop() is        *)
(* skipped: `satay dev` ends with it, a script may live on.                *)
(***************************************************************************)
EXTENDS Naturals

CONSTANTS
  Process,    \* processes that want to serve the data directory
  Script,     \* those that do so with control.run_app; the others are `satay dev`
  Nobody      \* the lock is free

ASSUME ScriptsAreProcesses == Script \subseteq Process
ASSUME NobodyIsNoProcess == Nobody \notin Process

VARIABLES
  lock,       \* who holds the exclusive flock on dev.lock
  part,       \* the last part each process has started, or is still to stop
  loop        \* the poll loop of each process

stack == <<lock, part, loop>>

Part == {"down", "lock", "store", "worker", "server", "drained", "halted", "shut", "leaked"}

StackTypeOK ==
  /\ lock \in Process \cup {Nobody}
  /\ part \in [Process -> Part]
  /\ loop \in [Process -> {"none", "up", "dead"}]

StackInit ==
  /\ lock = Nobody
  /\ part = [p \in Process |-> "down"]
  /\ loop = [p \in Process |-> "none"]

Move(p, from, to) == part[p] = from /\ part' = [part EXCEPT ![p] = to]

\* DataDirLock.acquire; on contention DataDirLockedError ends the start, with no trace
Acquire(p) == lock = Nobody /\ Move(p, "down", "lock") /\ lock' = p /\ UNCHANGED loop

OpenStore(p) == Move(p, "lock", "store") /\ UNCHANGED <<lock, loop>>

StartWorker(p) ==
  Move(p, "store", "worker") /\ loop' = [loop EXCEPT ![p] = "up"] /\ UNCHANGED lock

\* a bind failure is a SystemExit out of the server's task: Exit
StartServer(p) == Move(p, "worker", "server") /\ UNCHANGED <<lock, loop>>

\* stop(): the server takes no more requests ...
StopServer(p) == Move(p, "server", "drained") /\ UNCHANGED <<lock, loop>>

\* ... the loop is cancelled where it is suspended ...
StopWorker(p) ==
  /\ loop[p] = "up" /\ Move(p, "drained", "halted")
  /\ loop' = [loop EXCEPT ![p] = "none"] /\ UNCHANGED lock

\* ... or its exception comes out of `await worker_task`: in a script it leaves the
\* block with the store open and the lock held, `satay dev` exits with it
StopRaises(p) ==
  /\ loop[p] = "dead"
  /\ \/ p \in Script /\ Move(p, "drained", "leaked") /\ UNCHANGED <<lock, loop>>
     \/ /\ p \notin Script /\ Move(p, "drained", "down")
        /\ lock' = Nobody /\ loop' = [loop EXCEPT ![p] = "none"]

CloseStore(p) == Move(p, "halted", "shut") /\ UNCHANGED <<lock, loop>>

\* MUTANT of Release: the lock goes while the store is still open
ReleaseEarly(p) ==
  /\ part[p] = "halted" /\ lock' = Nobody
  /\ UNCHANGED <<part, loop>>

\* DataDirLock.release
Release(p) == Move(p, "shut", "down") /\ lock' = Nobody /\ UNCHANGED loop

\* killed, crashed, or over: flock dies with the process
Exit(p) ==
  /\ part[p] # "down"
  /\ part' = [part EXCEPT ![p] = "down"] /\ loop' = [loop EXCEPT ![p] = "none"]
  /\ lock' = IF lock = p THEN Nobody ELSE lock

\* an exception leaves tick(), and with it run()
LoopDies(p) == loop[p] = "up" /\ loop' = [loop EXCEPT ![p] = "dead"] /\ UNCHANGED <<lock, part>>

Starting(p) == Acquire(p) \/ OpenStore(p) \/ StartWorker(p) \/ StartServer(p)
Stopping(p) == StopWorker(p) \/ StopRaises(p) \/ CloseStore(p) \/ Release(p)

StackNext ==
  \E p \in Process : Starting(p) \/ StopServer(p) \/ Stopping(p) \/ Exit(p) \/ LoopDies(p)

StackSpec == StackInit /\ [][StackNext]_stack

-----------------------------------------------------------------------------
(* Correctness                                                              *)

\* the connection a process writes the journal through
StoreOpen(p) == part[p] \in {"store", "worker", "server", "drained", "halted", "leaked"}

\* No two processes that serve a data directory have its store open at once, whatever
\* crashes, refusals, dead loops and half-done stops come in between (ADR-0017/Q54).
SingleWriter == \A p, q \in Process : StoreOpen(p) /\ StoreOpen(q) => p = q
=============================================================================
