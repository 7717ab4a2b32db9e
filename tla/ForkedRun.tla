------------------------------ MODULE ForkedRun ------------------------------
(***************************************************************************)
(* The run of ReplayEngine when it may be a fork: control/commands.py and  *)
(* api/fork.py.  A fork is a new run whose journal is seeded with a prefix *)
(* of a terminal run's and closed with RunForked; then it is driven like   *)
(* any other run.  Forking moves the model's attention from the source to  *)
(* the fork: the engine's variables describe the fork from then on, and    *)
(* the source stays as it was.                                             *)
(*                                                                         *)
(* A copied TimerCreated keeps its timer_id, which is a primary key: the   *)
(* row of that id is the source's and the fork never gets one of its own.  *)
(* `timers` holds the rows of the fork and, of the source, those a copied  *)
(* event names; the poll loop fires these into the source's journal.       *)
(***************************************************************************)
EXTENDS ReplayEngine

CONSTANTS
  MaxForks,   \* bound: forks of forks
  Cuts        \* bound: where each of them may be cut

ASSUME ForksAreNatural == MaxForks \in Nat /\ Cuts \in [1..MaxForks -> SUBSET Nat]

VARIABLES
  source,     \* events of the run this one was forked from
  sourceRows, \* timers rows that the events to copy name
  point,      \* fork_point_seq
  lineage,    \* number of forks that led to this run: its run_id
  theirs      \* timer_ids whose rows belong to an ancestor

seed == <<source, sourceRows, point, lineage, theirs>>
forkVars == <<vars, seed>>

ForkInit ==
  /\ Init
  /\ source = <<>> /\ sourceRows = {} /\ point = 0 /\ lineage = 0 /\ theirs = {}

-----------------------------------------------------------------------------
(* resolve_fork_point                                                       *)

ScheduledAt(t) ==
  {i \in DOMAIN journal : journal[i].type = "TaskScheduled" /\ journal[i].id.name = t}

\* before_task=: the prefix ends before the earliest occurrence
PointBefore(t) == Min(ScheduledAt(t)) - 1

\* fork_point_seq=, any event; before_task= with before_ordinal= is one of these
ForkPoints == DOMAIN journal

-----------------------------------------------------------------------------
(* create_fork, apply_fork and the handle of satay.fork                     *)

Seeding(d) == At(d, "copy")

\* the source is read and the row of the new run inserted
BeginFork(d, k) ==
  /\ AllIdle /\ Idle(d) /\ lineage < MaxForks /\ k \in Cuts[lineage + 1]
  /\ status \in TerminalStatus
  /\ status' = "running" /\ stamp' = CodeVersion(code)
  /\ source' = journal /\ journal' = <<>> /\ point' = k
  /\ sourceRows' = {row \in timers : row.timer_id <= k} /\ timers' = {} /\ theirs' = {}
  /\ lineage' = lineage + 1
  /\ executed' = <<>>
  /\ GoTo(d, "copy")
  /\ UNCHANGED <<inbox, now, code, crashes, frame>>

\* the fork point is inclusive
PrefixLength == point

\* the prefix is copied verbatim, one commit per event: a copied TimerCreated names
\* the source's row ...
CopyEvent(d) ==
  LET next == Len(journal) + 1
      named == {row \in sourceRows : row.timer_id = next}
  IN /\ Seeding(d) /\ Len(journal) < PrefixLength
     /\ journal' = Append(journal, source[next])
     /\ timers' = timers \cup named
     /\ theirs' = theirs \cup {row.timer_id : row \in named}
     /\ UNCHANGED <<status, stamp, inbox, env, pc, turn, frame, source, sourceRows, point, lineage>>

\* ... and the lineage recorded last; apply_fork goes on to drive the fork, fork()
\* returns a handle whose result() will (Redrive)
RecordForked(d) ==
  /\ Seeding(d) /\ Len(journal) = PrefixLength
  /\ Commit("RunForked", NoId, lineage - 1, "none")
  /\ GoTo(d, "drive") \/ Suspend(d, "idle")
  /\ UNCHANGED <<status, stamp, timers, inbox, env, frame, seed>>

ForkStep ==
  \E d \in Driver :
    \/ \E k \in ForkPoints : BeginFork(d, k)
    \/ \E t \in Task : /\ ScheduledAt(t) # {} /\ PointBefore(t) \in ForkPoints
                      /\ BeginFork(d, PointBefore(t))
    \/ CopyEvent(d) \/ RecordForked(d)

RunStep ==
  /\ \/ \E d \in Driver : \/ Control(d) \/ Drive(d) \/ CallTask(d) \/ CallPrimitive(d)
                          \/ RefuseReplay(d) \/ Park(d)
     \/ \E row \in timers : row.timer_id \notin theirs /\ (FireTimer(row) \/ SettleTimer(row))
     \/ \E t \in Topic : SendEvent(t)
     \/ PassTime
     \/ Crash
  /\ UNCHANGED seed

ForkNext == ForkStep \/ RunStep

ForkSpec == ForkInit /\ [][ForkNext]_forkVars

-----------------------------------------------------------------------------
(* Correctness                                                              *)

\* create_fork went through: the run is a fork and its journal is seeded
Seeded ==
  /\ lineage > 0 /\ Len(journal) > point
  /\ journal[point + 1] = Entry("RunForked", NoId, lineage - 1, "none")

\* A fork re-runs what lies behind its fork point and nothing before it ("replay
\* reuses the copied completions as journal hits", commands.py), whatever crashes,
\* refusals and deployments come in between, once its prefix was copied whole.
PrefixIsReused ==
  [][Len(executed') > Len(executed) /\ Seeded =>
       ~Recorded(source, point, "TaskCompleted", executed'[Len(executed')])]_forkVars

\* the source was waiting for a timer where it was cut
CutInWait(id) ==
  \E row \in timers : row.id = id /\ row.timer_id \in theirs

\* A fork parks only with a timers row of its own or for an event alone, except in a
\* sleep or wait that the fork point cut in two: that row is the source's, the
\* insert is ignored (INSERT OR IGNORE) and nothing will wake the fork.
ForkParkIsComplete ==
  \A d \in Driver : pc[d] = "park" =>
    \/ Awaited(d).kind = "wait" /\ Awaited(d).after = 0
    \/ CutInWait(CallId(d))
    \/ \E row \in timers : row.id = CallId(d) /\ row.timer_id \notin theirs
=============================================================================
