----------------------------- MODULE BlobStore -----------------------------
(***************************************************************************)
(* The data directory: the runs with their events, the content-addressed   *)
(* blobs that large values are spilled to, and the three processes that    *)
(* work on them without a common lock.  The worker appends, forks and      *)
(* finishes runs; `satay runs delete` deletes one; `satay gc --apply`      *)
(* marks and sweeps.  An event is what this module tells apart of it: the  *)
(* blob it references and, for RunForked, the lineage it records.          *)
(***************************************************************************)
EXTENDS Integers, Sequences, FiniteSets, FiniteSetsExt

CONSTANTS
  Run,         \* run ids
  Blob,        \* contents larger than the spill threshold
  NoBlob,      \* an event whose values are all inline
  NoRun,       \* an event that is not RunForked; a writer at rest
  Content,     \* what the events that a workflow appends hold, a blob or NoBlob
  Grace,       \* grace period of the sweep
  MaxEvents,   \* bound: events the workflow appends to a run, the copied ones aside
  MaxPasses,   \* bound: passes of collect_garbage
  MaxTime      \* bound: ticks of the clock

ASSUME BoundsAreNatural == {Grace, MaxEvents, MaxPasses, MaxTime} \subseteq Nat
ASSUME NamesAreApart == NoBlob \notin Blob /\ NoRun \notin Run /\ Content \subseteq Blob \cup {NoBlob}

VARIABLES
  events,   \* events rows, per run
  state,    \* what the runs row says: absent, open, terminal; deleted
  files,    \* the .blob files on disk, with their mtime
  writer,   \* the append or the fork the worker is in the middle of
  gc,       \* the pass of collect_garbage
  now,      \* wall clock
  written,  \* history: the events ever appended to each run
  reused    \* history: blobs put again while their file was an orphan

local == <<events, state, files, writer, gc, now, written, reused>>

Event == [blob : Blob \cup {NoBlob}, source : Run \cup {NoRun}, point : Nat]
Plain(b) == [blob |-> b, source |-> NoRun, point |-> 0]

Rest == [at |-> "idle", run |-> NoRun, event |-> Plain(NoBlob), left |-> <<>>]
GcOff == [at |-> "off", passes |-> 0, started |-> 0, referenced |-> {}, todo |-> {}]

LocalInit ==
  /\ events = [r \in Run |-> <<>>] /\ written = events
  /\ state = [r \in Run |-> "absent"]
  /\ files = <<>> /\ writer = Rest /\ gc = GcOff /\ now = 0 /\ reused = {}

BlobsIn(s) == {s[i].blob : i \in DOMAIN s} \ {NoBlob}
Referenced == UNION {BlobsIn(events[r]) : r \in Run}

-----------------------------------------------------------------------------
(* The worker process                                                       *)

\* BlobStore.put: write and rename, or nothing when the content is there
PutBlob(b) ==
  files' = IF b \in DOMAIN files \cup {NoBlob} THEN files
           ELSE [c \in DOMAIN files \cup {b} |-> IF c = b THEN now ELSE files[c]]

\* append, up to the INSERT: the write lock is taken, the values are spilled
BeginAppend(r, e, left) ==
  /\ PutBlob(e.blob)
  /\ reused' = IF e.blob \in DOMAIN files \ Referenced THEN reused \cup {e.blob} ELSE reused
  /\ writer' = [at |-> "insert", run |-> r, event |-> e, left |-> left]
  /\ UNCHANGED <<events, state, gc, now, written>>

CreateRun(r) ==
  /\ writer.at = "idle" /\ state[r] = "absent"
  /\ state' = [state EXCEPT ![r] = "open"]
  /\ UNCHANGED <<events, files, writer, gc, now, written, reused>>

\* seqs of the RunForked records, copied ones included
ForkSeqs(s) == {n \in DOMAIN s : s[n].source # NoRun}

\* how many events the run has of its own, not copied
OwnEvents(s) == IF ForkSeqs(s) = {} THEN Len(s) ELSE Len(s) - Max(ForkSeqs(s))

\* the engine commits an event of the run it drives
CommitEvent(r, b) ==
  /\ writer.at = "idle" /\ state[r] = "open" /\ OwnEvents(events[r]) < MaxEvents
  /\ BeginAppend(r, Plain(b), <<>>)

\* INSERT and COMMIT
Insert ==
  /\ writer.at = "insert"
  /\ events' = [events EXCEPT ![writer.run] = Append(@, writer.event)]
  /\ written' = [written EXCEPT ![writer.run] = Append(@, writer.event)]
  /\ writer' = [writer EXCEPT !.at = IF writer.left = <<>> THEN "idle" ELSE "seed"]
  /\ UNCHANGED <<state, files, gc, now, reused>>

\* set_status, once the run's last event is a terminal one
Finish(r) ==
  /\ writer.at = "idle" /\ state[r] = "open" /\ events[r] # <<>>
  /\ state' = [state EXCEPT ![r] = "terminal"]
  /\ UNCHANGED <<events, files, writer, gc, now, written, reused>>

\* MUTANT of Prefix: the fork point itself is left out
PrefixBefore(s, k) == SubSeq(s, 1, k - 1)

\* the source events up to and including the fork point
Prefix(s, k) == SubSeq(s, 1, k)

\* BlobStore.has, and what get needs to find
OnDisk(b) == b \in DOMAIN files

\* rehydrate_encoded of every event: read_events raises for one that is gone
Rehydrates(s) == \A b \in BlobsIn(s) : OnDisk(b)

\* create_fork reads the source, its spilled values included, and creates the
\* run; then it appends one copied event after the other, and RunForked
BeginFork(source, r, k) ==
  /\ writer.at = "idle" /\ state[source] = "terminal" /\ state[r] = "absent"
  /\ k \in DOMAIN events[source] /\ Rehydrates(events[source])
  /\ state' = [state EXCEPT ![r] = "open"]
  /\ writer' = [Rest EXCEPT !.at = "seed", !.run = r, !.left =
       Append(Prefix(events[source], k), [Plain(NoBlob) EXCEPT !.source = source, !.point = k])]
  /\ UNCHANGED <<events, files, gc, now, written, reused>>

SeedEvent ==
  /\ writer.at = "seed"
  /\ BeginAppend(writer.run, Head(writer.left), Tail(writer.left))

\* the worker dies: the transaction is rolled back, a spilled blob stays, and so
\* does a run that is half seeded
WorkerCrash ==
  /\ writer.at # "idle" /\ writer' = Rest
  /\ UNCHANGED <<events, state, files, gc, now, written, reused>>

-----------------------------------------------------------------------------
(* The other processes                                                      *)

\* SQLiteStore.delete_run: the run's rows, and never a blob
DeleteRun(r) ==
  /\ state[r] = "terminal" /\ writer.at # "insert"
  /\ state' = [state EXCEPT ![r] = "deleted"]
  /\ events' = [events EXCEPT ![r] = <<>>]
  /\ UNCHANGED <<files, writer, gc, now, written, reused>>

GcStart ==
  /\ gc.at = "off" /\ gc.passes < MaxPasses
  /\ gc' = [GcOff EXCEPT !.at = "started", !.started = now, !.passes = gc.passes + 1]
  /\ UNCHANGED <<events, state, files, writer, now, written, reused>>

\* referenced_blob_ids
GcMark ==
  /\ gc.at = "started"
  /\ gc' = [gc EXCEPT !.at = "marked", !.referenced = Referenced]
  /\ UNCHANGED <<events, state, files, writer, now, written, reused>>

GcList ==
  /\ gc.at = "marked"
  /\ gc' = [gc EXCEPT !.at = "sweep", !.todo = DOMAIN files]
  /\ UNCHANGED <<events, state, files, writer, now, written, reused>>

\* MUTANT of Cutoff: the grace period ends at the sweep of each file
CutoffAtSweep == now - Grace

\* the grace period ends where the mark phase started
Cutoff == gc.started - Grace

Kept(b) == b \in gc.referenced \/ files[b] >= Cutoff

GcSweep(b) ==
  /\ gc.at = "sweep" /\ b \in gc.todo
  /\ gc' = [gc EXCEPT !.todo = @ \ {b}]
  /\ files' = IF Kept(b) THEN files ELSE [c \in DOMAIN files \ {b} |-> files[c]]
  /\ UNCHANGED <<events, state, writer, now, written, reused>>

GcEnd ==
  /\ gc.at = "sweep" /\ gc.todo = {}
  /\ gc' = [GcOff EXCEPT !.passes = gc.passes]
  /\ UNCHANGED <<events, state, files, writer, now, written, reused>>

\* an append takes less than a tick, that is, than the grace period
Tick ==
  /\ now < MaxTime /\ writer.at # "insert"
  /\ now' = now + 1
  /\ UNCHANGED <<events, state, files, writer, gc, written, reused>>

LocalNext ==
  \/ \E r \in Run : CreateRun(r) \/ Finish(r) \/ DeleteRun(r)
  \/ \E r \in Run, b \in Content : CommitEvent(r, b)
  \/ \E s, r \in Run : \E k \in DOMAIN events[s] : BeginFork(s, r, k)
  \/ Insert \/ SeedEvent \/ WorkerCrash
  \/ GcStart \/ GcMark \/ GcList \/ GcEnd \/ \E b \in Blob : GcSweep(b)
  \/ Tick

LocalSpec == LocalInit /\ [][LocalNext]_local

-----------------------------------------------------------------------------
(* Correctness                                                              *)

\* A blob that a remaining run names is on disk, whatever was deleted, swept,
\* forked or cut off by a crash meanwhile (ADR-0037); the one exception is a blob
\* whose file lay around as an orphan when it was spilled again.
ReferencedIsKept == Referenced \subseteq DOMAIN files \cup reused

\* Every lineage in a journal, an ancestor's that was copied included, follows
\* exactly its source's events up to the fork point, though the source may have
\* been deleted during the copy (ADR-0004).
ForkIsPrefix ==
  \A r \in Run : \A i \in DOMAIN written[r] :
    LET e == written[r][i] IN
    e.source # NoRun =>
      /\ i = e.point + 1
      /\ SubSeq(written[r], 1, e.point) = SubSeq(written[e.source], 1, e.point)

(* A claim of the repository that the code does not keep                    *)

\* "a blob spilled during or shortly before this sweep started is kept regardless
\* of whether the mark phase happened to see the run that wrote it" (blobs/gc.py)
SpilledIsKept == Referenced \subseteq DOMAIN files
=============================================================================
