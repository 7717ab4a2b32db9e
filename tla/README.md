# A TLA+ verification of the Satay runtime

Satay (`src/src/satay`) is a durable-execution runtime for Python. A workflow is
an `async` function; its task calls, sleeps and event waits are *durable calls*
whose outcomes are appended to a journal. After a crash, or when a parked run is
woken, the workflow is run again from the top and every recorded outcome is
reused. Runs live in one SQLite file, driven by the asyncio tasks of one worker
process; large values are spilled to blob files. Beside the worker, command-line
processes delete runs and collect garbage, and a shipper copies journals to an
ingest plane.

This directory holds the TLA+ modules that model the runtime, the TLC
configurations that check them and the theorems TLAPS proves about them.

Paths below are relative to `src/src/satay` unless they start with `src/`.

## 1. The system

### Components, their state and their operations

| component | code | state | operations |
|---|---|---|---|
| journal store | `journal/store.py`, `events.py` | tables `events`, `runs`, `timers`, `event_inbox` | append, create_run, set_status, add_timer (insert or ignore), due_timers, set_timer_status, match and consume inbox rows, delete_run |
| replay engine | `replay/engine.py`, `identity.py` | per drive: the facts loaded from the journal, ordinal counters, schedule position | drive, durable_call, durable_sleep, durable_wait_for_event, durable_map / gather / child |
| executor | `executor/` | per call: attempt number, failures | execute: attempts, retries, backoff, timeout |
| run controller | `api/runner.py`, `api/run_handle.py` | none of its own | start, result (create, resume, wake), cancel, await_unpark |
| poll loop | `timers/` | the tick | apply commands, deliver events, fire timers, re-drive |
| control commands | `control/commands.py`, `control/api.py` | a queue in memory, drained by the poll loop | start, cancel, send event, fork: accepted by a request, applied in a tick |
| fork | `api/fork.py` | a new run with a copied journal prefix | fork |
| blobs | `blobs/` | files named by their content, references from payloads | put, rehydrate, collect_garbage (mark, sweep) |
| shipper | `ingest/` | the highest acknowledged `seq` per run | ship_run, backpressure, blob upload |
| data directory lock | `devstack/lock.py` | an exclusive `flock` | acquire, release |
| dev stack | `devstack/orchestrator.py`, `control/app.py` | lock, store, poll loop and server of a process | start, stop in reverse |
| views | `control/views.py`, `api/inspection.py` | none: functions of a journal | runs, tree, timeline, calls, task details, map status |
| HTTP, CLI, studio | `control/server.py`, `cli/`, `src/studio` | wiring | requests, printing |
| pure code | `journal/codec.py`, `journal/wire.py`, `redaction.py`, `valuediff.py`, `versioning/` | none | encode, project and parse a shipment, redact, diff, version check |
| libraries on the API | `agent.py`, `eval.py` | none | agent_loop; compare_runs, gate |

### How they interact

`RunController.result()` creates or resumes a run and drives it in the caller's
asyncio task. The poll loop, another task of the same process, drives parked
runs when an event or a timer comes due. Both go through `ReplayEngine.drive`,
which loads the journal once and then appends to it. `cancel` appends to the
journal of a run that another task may be driving. Nothing tells one task about
another: the shared state is the SQLite file. The members of a map or a gather
are asyncio tasks of one drive and share what it loaded. `satay runs delete` and
`satay gc` are processes of their own; SQLite serialises their transactions, but
nothing serialises a sweep of blob files with an append. `ship_run` reads a
journal once and then talks to the plane request by request.

### What is hard

* **A crash between any two commits.** No transaction spans two store
  operations. Every action of the model is at most one commit, so the model can
  crash wherever the process can.
* **Interleaving at suspension points.** The store's operations never really
  suspend (synchronous SQLite under an uncontended lock), so a sequence of store
  operations is atomic with respect to the other tasks, though not to a crash.
  A task suspends in a task body, in a backoff sleep, in `await_unpark` and
  between two ticks. The variable `turn` carries exactly this.
* **Stale state.** A drive works on the journal it loaded at its start.
* **Deployments.** The process may come back with other workflow code.
* **Ordering.** Events, timeouts and cancellations race each other.
* **Partial failure.** One member of a fan-out fails or parks while its siblings
  are in task bodies; a request to the plane fails after the plane acted on it.
* **Processes without a common lock.** The sweep of the garbage collection is
  protected by a grace period, not by a lock; deletion takes none either.
* **Accepted now, applied later.** A command is answered 202 and applied a tick
  later, by a loop that one bad command or one slow run can hold up or end.
* **Runs in runs.** A parent drives its child inside its own drive, while the poll
  loop wakes whichever run is parked and knows nothing of parents.
* **Values that change their shape.** A payload is encoded, perhaps masked, copied
  into a fork (decoded and encoded again), replayed into an annotated type, shown
  and compared. Each step may lose what the next one needs.
* **Readers.** Several views tell the same journal in different words.

The hazards are listed line by line in `PROJECT.json`, each with the properties
that would catch it going wrong.

## 2. The modules

| module | what it is |
|---|---|
| `Journal` | the journal of one run as a sequence of events, and the facts a drive reads back from a prefix of it |
| `Versioning` | what a run is stamped with, the policies of a resume |
| `ReplayEngine` | one run with sequential workflows: store rows, drivers, workflow code, environment; the engine, executor and run controller |
| `Agent` | extends `ReplayEngine`: `agent_loop` as one of its workflows |
| `TimerEventWorker` | extends `ReplayEngine` with the poll loop as one more driver, and with the callers that wait in `await_unpark`; implements `ReplayEngine` |
| `FanOut` | one run whose workflow makes maps and gathers: the members as asyncio tasks of a drive, fail-fast and collecting |
| `ChildRun` | a workflow that starts a child workflow and awaits it: two full runs, a stack of drives per driver, the poll loop |
| `ForkedRun` | extends `ReplayEngine`: a run is cut at a fork point and its prefix copied event by event; the fork becomes the run that is driven, and may be forked again |
| `Views` | the read models: pure functions of a journal |
| `FanOutViews` | `Views` over the journals of `FanOut` |
| `Payloads` | values and what happens to them: codec, typed decoding, redaction, structural diff |
| `ReadModel` | composes `ForkedRun`, `Views` and `Payloads`: what readers and a replay are told of a run and its fork, in every state of them |
| `Evaluation` | extends `ReadModel`: comparison of a candidate with its baseline, and the gate |
| `DevStack` | processes over one data directory: the lock, start-up and stop |
| `ControlPlane` | extends `DevStack` with requests, the command queue, the tick that applies it, the memo of the store, and `satay runs delete` |
| `BlobStore` | the data directory with several runs: appends, forks, deletion, blob files, mark and sweep |
| `Wire` | extends `BlobStore`: the shipment of a tail, its parse, retry hints and backoff |
| `Shipper` | extends `Wire` with calls of `ship_run` and the plane; implements `JournalCopy` |
| `JournalCopy` | abstract: a journal that grows and an acknowledged copy that is a growing prefix of it |
| `MC...` | the instances for TLC |
| `JournalProofs`, `ReplayEngineProofs`, `ForkProofs`, `WorkerProofs`, `FanOutProofs`, `ControlProofs`, `ShipperProofs`, `ChildProofs` | theorems and proofs |

`Journal` is shared by the modules of one run. `ReplayEngine`, `FanOut` and
`ChildRun` model the same drive at three places where it is hard: the first all
commits around sequential calls, parks, cancellation and deployment, the second
what happens when calls of one drive interleave, the third what happens when one
run is driven inside another. `BlobStore` abstracts a run's events to the
blob they reference; what the engine appends is there a free choice. In
`ControlPlane` a drive is what the loop sees of it: it reads, is suspended in a
body, and ends with an outcome or a park.

The actions and the lines they translate are in the `map` of `PROJECT.json`.

### ReplayEngine, Versioning, Agent

`journal`, `status`, `stamp`, `timers`, `inbox` are the rows of the run
(`events`, `runs.status`, `runs.code_version`, `timers`, `event_inbox`). An event
keeps its type, the identity it belongs to, a number (attempt or deadline) and a
value. The id of a timer is the position of its `TimerCreated`, which is unique
as the code's `uuid4` is. `outs` and `calls` are what the workflow coroutine has
observed so far in this drive; since workflow code is deterministic, the
coroutine's whole state is a function of them, and `Workflow[code][outs]` is
its next durable call. `loaded` is how much of the journal the drive loaded: the
dictionaries that `_load_journal` fills are functions of that prefix. `ordinals`
are the `IdentityResolver` counters, `attempt` and `failures` the executor's
locals. `executed` is a history variable: the bodies that ran.

| `pc` | where the code is |
|---|---|
| `create` | between `create_run` and the append of `WorkflowCreated` |
| `drive` | `drive` is about to read the journal |
| `replay` | the workflow is at its next durable call |
| `attempt`, `body`, `returned`, `backoff` | in the executor |
| `timer`, `await`, `waiting`, `park` | between the commits of a park |
| `receive` | the inbox row is consumed, the event is not recorded |
| `settle` | a terminal event is appended, `runs.status` is not set |

The poll loop is present as an environment that may do at any time what the code
lets some tick do: `FireTimer`, `SettleTimer` and `Redrive`.

A deployed version has an `Origin`: the commit, the dev stamp and the source that
`stamp_code_version` chooses among. Two versions may share a stamp, which is what
a dirty working tree looks like to the strict policy. `Agent` defines
`agent_loop` as the function from observed outcomes to the next call: a fold of
the model's answers and of the results of the tools they ask for.

### TimerEventWorker

A tick is `Deliver`, `Scan`, a `FireNext` and `SettleNext`, a `DiscardTimer` or a
`SettleDuplicate` per due timer in the order of `due_timers`, then `Fired` and
`Wake`. While it drives the run, the worker takes the engine's own steps. With
`OtherRuns` the tick also drives other runs of the store and therefore suspends
between delivery and firing; without it the loop holds the event loop from phase
to phase (`MidTick`).

### FanOut

A version's `Plan` is the sequence of its fan-outs. A member is a task call told
apart by its ordinal, a map item told apart by its key, or a sleep; a round is
`failfast`, `collect`, or `nested` (a fail-fast map as the member of a collecting
gather, whose failure the run survives). `frame[d]` holds what drive `d` loaded
and keeps up to date (`scheduled`, `failed`), its counters, the members of the
current fan-out and the outcomes of earlier ones. `issued` is `self._call_index`: the
positions its calls have taken in the nondeterminism check (`TakesPosition`: calls with
a key take none). `turn` is the member that holds
the event loop. A map starts no further item once one was refused (`Aborted`). A drive is in `fan` while it waits for its members, in `drain`
after the first failure was noticed, in `settle` between its terminal event and
the status. `RefuseEffect` is the effect-safety refusal.

### ChildRun

Both runs have a row, a journal and timers. `stack[d]` is what driver `d` (the
caller or the poll loop) is in the middle of: the drive of the parent, and on top
of it the drive of the child that `start_child` or the handle's `result()` began.
`setting` says which calls the parent makes and whether a poll loop runs beside
the caller; `turn` is who holds the event loop. `handed` and `overlap` are history
variables: the outcomes the parent's code was handed, and the runs that two
drivers were at.

### ForkedRun, Views, Payloads, ReadModel, Evaluation

`BeginFork` cuts the run that has ended: it becomes `source`, `point` is
`fork_point_seq`, and the actions of `create_fork` copy the prefix event by event,
then append `RunForked`. From there the engine of `ReplayEngine` drives the copy.
A second fork is cut from the first, so that copied `RunForked` and twice copied
payloads occur. `theirs` are the timer ids whose rows are the ancestors'. A timer id
stands for a uuid and is the position of its event, so the rows of the source wait in
`sourceRows` until the event that names them is copied: if a crash cuts the copy off, a
timer of the fork's own may come at that position and is another timer.

The views are operators on the journal; `ReadModel` and `FanOutViews` evaluate
them in every state of a run, half-seeded forks and cut-off drives included.
Payloads do not influence control, so they are not part of the state: any output in
the journal stands for every member of `Specimen`, and what encoding, redaction, the
copy into a fork and decoding make of each specimen is computed once as a constant
function (`Payloads`), by recursive operators that follow the code.
`Evaluation` adds to the specimens what an attempt reports as usage.

### DevStack and ControlPlane

`part[p]` is the last part a process has started or is still to stop, `loop[p]`
whether its poll loop lives. `queue` and `batch` are the commands accepted and
the ones drained; `memo` is the store's cache of decoded events; `life` numbers
the rows that were created under one run id, since a client may choose the id of
a deleted run again. Numbers of commands are in `applied` or `lost` once they
are; `gone` are the runs that were deleted while a process had the store open.

### BlobStore, Wire and Shipper

`events[r]` are the rows of a run, each with the blob it references; `files` maps
a blob on disk to its mtime. An append is two steps, because the file is written
inside the transaction and before its commit: `BeginAppend` (write lock, spill)
and `Insert`. A crash in between rolls the row back and keeps the file. A fork
reads its source once and appends copy after copy, then its `RunForked`. A pass of
`collect_garbage` is `GcStart` (its own clock reading), `GcMark`, `GcList`, one
`GcSweep` per file and `GcEnd`, with everything else running in between.
`written` is a history variable: what was ever appended, deleted runs included.
`reused` is another: blobs spilled again while their file was an orphan.

A call of `ship_run` is the run's row, `read` (journal), `ack`, per blob `head` and
`put`, then `send` of what `Project` makes of the row and the tail. Each request
can be refused (`Backpressure`, with the hint of `Retry-After` or the backoff),
fail with the plane having done all, some or nothing of it (`RequestFails`), or be
answered unreadably. Calls overlap and repeat. The plane is outside the repository:
it is modelled as the shipper's documentation of the protocol has it, storing under
`seq`, ignoring what it has, acknowledging the highest contiguous `seq`, never
deleting.

## 3. What TLC checks

| run | expectation | what it shows |
|---|---|---|
| `engine_single` | pass | one driver through failures, retries, parks, cancellation, an agent loop, a crash at any commit and a deployment |
| `engine_events` | violation | a crash after the inbox row is consumed loses the event |
| `engine_cancel` | violation | a run that was cancelled while driven completes |
| `worker_crash` | pass | with the poll loop, other runs and crashes a timer fires once and never early; the loop refines `ReplayEngine` |
| `worker_live` | pass | parked runs go on; an event beats its timeout; caller and loop do not record a task twice |
| `worker_lost` | violation | after a crash between `TimerFired` and the re-drive nobody wakes the run |
| `fanout` | pass | maps and gathers through crashes, re-drives and a deployment, and what readers are told of them |
| `child` | pass | a child is started once, resumed, awaited by whoever drives its parent, cancelled, crashed |
| `read_model` | pass | forks of forks, the views, payloads, diffs and evaluations of them |
| `control` | pass | two processes take turns at a data directory while requests, deletions and crashes happen |
| `shipper` | pass | appends, forks, deletion, garbage collection and shipping side by side; implements `JournalCopy` |
| `blob_gc` | violation | a re-spilled orphan is swept |

### Properties

*ReplayEngine.* `TaskRecordedOnce` and `ParksAreRecorded` say that resumes
complete what a crash cut off and repeat nothing, and that a run only parks with
everything on disk that will wake it, at the deadline the journal recorded.
`DriveOutcomeIsFirst` and `StatusNeverLeads` relate the journal to the status
column it outranks. `ReplayFollowsJournal` says that the n-th result a drive sees is
the journal's n-th completion, of the same call and with the same value, even after
other code is deployed and even if the strict policy cannot see that it is other code.
`AttemptsAreCounted` and `NoReexecution` are about retries and replay. *Agent.* `AgentAnswers`: the completed calls of a run the
loop returns from are one transcript, the model's turns, each followed by the tools it
asked for, ending in a final answer or in the spent budget, whatever crashes, resumes
and changes of tools came between.

*TimerEventWorker.* `FiresOnceInTime`, `NothingTwice` and `EventWins` are about the
poll loop's idempotence and ordering, `ParkEnds` about progress.
`ImplementsRun` is the refinement of `ReplayEngine`; the mapping frees `turn` while
the loop goes through due timers, since no driver of the run holds the event loop
then.

*FanOut.* `VerdictsAreDurable` is the verdict of a call: one, final, on disk before
the workflow acts on it, and reached within the retries plus one failure per drive
that ends without a verdict (such drives exist: a park earlier in the argument
order is raised over a failure). `NoFalseDivergence` says that the positional check
never refuses the code that wrote the journal. `ParksWhole` says that no member is
abandoned in a body when the run parks. `DriveEnds` is progress through the
semaphore and the drain. `ReadersSeeVerdicts` says that tree, task details and map
status tell of the calls what the workflow was told.

*ChildRun.* `OneChild` and `ResumesNotRestarts` say that a child survives its
parent's crash as one run that goes on where it was. `ResultIsChilds` says that
every drive of the parent is handed the child's one outcome, and readers see the
same. `ParkedEnds` says that a parked child goes on without its parent and a
parked parent is woken.

*ReadModel.* `ViewsAreTrue` relates list, tree, timeline, calls and details to each
other and to what a replay would reuse. `ForkReadsAsCut` says that a fork compares
equal to its source up to the fork point, different behind it only, and names its
own origin. `ReplayParity`: a replay is handed what the task returned, or fails
loudly, also after any number of forks. `DiffIsHonest`: outputs that differ are
reported different, redacted or truncated. `ForkParkIsComplete` and
`PrefixIsReused` are about the drive of a fork. `EvalIsHonest`: every attempt is
billed, and a gate that passes was right to.

*ControlPlane.* `SingleWriter`: one process has the store open. `ReadsAreJournal`:
the memo of decoded events is never stale but for a run deleted behind its back.
`ForkOfTerminal`: the source of a fork had ended when the request was validated, and
has ended when the command is applied, unless it was deleted in between: a run started
again under its id may be open then. `AcceptedIsApplied`: a command is applied unless its process or
its loop dies.

*BlobStore and Shipper.* `ReferencedIsKept`: what a remaining run names is on disk.
`ForkIsPrefix`: a lineage follows exactly its source's prefix. `ShipmentsAreTrue`:
what is sent reads back as the journal has it, its header included, and blobs are at
the plane before the events that name them. `ReportIsTrue`: a call that succeeds
brought the plane up to what it read; the only runs that cannot be shipped are
deleted ones. `ShipEnds` gives a measure of the requests and refusals left that every
step of a call decreases, so a call ends whatever the plane does; it needs no
fairness. `KeepsPromise` refines `JournalCopy`, with the contiguous part of the
plane's events as the copy.

### Bounds

* `engine_single`: four versions. Two share a commit and differ in their third
  call, so that the strict check passes and the positional one has to notice; two
  are an agent with and without its tool. `MaxCalls = 4`, two steps of the agent,
  two output values (they tell results apart, and whether the model asks for a
  tool), one crash, two resumes, one event, a clock that passes one deadline.
* `worker_*`: two calls, one of them a park; the third version waits twice for
  one topic. `MaxTime = 2` passes two deadlines.
* `fanout`: five versions with one round wider than its concurrency, a mix of sleep
  and task, a nested map, two gathers in swapped order of which one declares an
  unsafe effect, and a map whose items effect safety refuses, one at a time. Three drives: one that is cut off, one that resumes it, one that
  finds the outcome.
* `child`: two ids for children (a second one would be a second child), three
  parents (the child first, behind a sleep, and with a task between start and
  result), a child of task, sleep, task, two values, one cancelled child, one crash,
  one resume.
* `read_model`: two same-named calls around a sleep; a fork and a fork of it. `Cuts`
  has the places where each is cut, in a run without mishaps: before its first task, in
  it, in the sleep and behind it; the fork behind its own or a copied record of lineage
  and behind a copied result. Crashes and failures shift what is at these places. Eleven specimens: one for
  each thing that codec, redactor and diff tell apart. Two metrics.
* `control`: two processes, of which one is a script, two runs, three requests, two
  boots. Three requests are a start, the fork of its run and one behind them.
* `shipper`: two runs, so that a fork and its source share a blob while one of them
  is deleted and swept; runs are interchangeable and symmetric. A run has one event
  of its own, and a fork one more behind its `RunForked`, which makes a tail without
  the record of the lineage. One pass of the garbage collection, one refusal before
  the cap, one call in flight that may be repeated any number of times. `Grace` is
  zero, a tick being the unit: a file is protected for the tick in which the mark
  started, and an append takes less than a tick. That is the code's own assumption on
  its grace period of five minutes. `blob_gc` has `Grace = 1`.

`MaxCrashes = 1` throughout: every property about crashes needs one crash at the
wrong commit. `CHECK_DEADLOCK FALSE` because the bounded environment stops: a
finished run has nothing left to do.

### Fairness

`ReplayEngine`, `ForkedRun` and `BlobStore` are checked without fairness. `WorkerSpec`
assumes weak fairness of the tick and of the clock (`run()` loops with
`clock.sleep`), and strong fairness of each driver's engine steps: asyncio resumes
every ready task, and a ready task can be disabled again and again by others that
hold the event loop. `FanOut` assumes weak fairness of a drive's steps. `ChildSpec`
assumes weak fairness of drives, of the tick, of a caller that wakes from
`await_unpark`, and of time as far as some timer needs it. `ControlSpec` assumes weak
fairness of each process's tick. Task bodies are assumed to return. Callers,
requests, events and crashes have no fairness. The liveness of parks is checked
without crashes in `worker_live`; with one crash `worker_lost` is the counterexample,
and `ParkedEnds` excepts exactly the wake that a crash lost. `DriveEnds` and
`AcceptedIsApplied` are checked with crashes, which end a drive or lose a command
too.

### Violations

Each checks one sentence of a doc or a comment, quoted under `findings`: a lost
event, a cancelled run that completes, a run whose timer fired and that nobody
wakes, and a blob deleted under its event.

### Divergences seen while modelling

These are not carried as runs. The model has the code's behaviour, and a property
that it would break states the exception.

* *Waits and timers.* The identity of a wait leaves out the event's type
  (`engine.py:502`), so code that waits for another type is handed the event of the
  first (`src/docs/SLICE-V3.md:45`). The timer of a gather's sleep may fire while a
  sibling is in a body; the loop then drives a run that is being driven
  (`timers/__init__.py:220`, ADR-0006). A collecting gather stores `WorkflowParked`
  of a sleep as the member's error (`engine.py:714`). Two maps over common keys share
  identities (`engine.py:754`). `runs delete` leaves timers rows behind
  (`store.py:476`).
* *Forks.* `add_timer` ignores a `timer_id` that exists (`store.py:540`): a fork cut
  between `TimerCreated` and `TimerFired` has no timer row of its own and parks for
  good. A fork that a crash left half seeded has no or a wrong lineage, also in a
  shipment. `create_fork` does not look at the source's status again.
* *Retries.* A workflow that catches the error of a task and then parks runs the task
  again in every later drive, since only a collecting fan-out records a `TaskFailed`
  (ADR-0027 says so of fail-fast calls): its failures have no bound. `AttemptsAreCounted`
  is about workflows that let the error escape; those of the runs do.
* *Refused calls.* A call takes its position in the nondeterminism check before effect
  safety may refuse it (`engine.py:299`), and a refused call is never recorded. If its
  siblings in a gather are, those behind it move up by one, and every later drive by
  the same code raises `NondeterminismError`, which says that "the workflow changed
  between runs" (`nondeterminism.py:37`); `src/docsite/docs/guarantees.md:241` says that
  changing one policy has no effect on the other. `NoFalseDivergence` is about workflows
  in which no refused call is ahead of another of its gather. A run that effect safety
  refuses in a drive after a park leaves the members beside the refused one cut off;
  `ParksWhole` excepts such workflows.
* *Children.* A crash between `create_run` and `WorkflowCreated` of a child leaves it
  without its input and its link to the parent. A parent that is driven in a tick is
  handed `PARKED` by `result()`. A parent that works between `start_child` and
  `result()` may drive a waiting child that the loop is in the middle of driving.
  The drive of an interrupted child does not check its version (`engine.py:170-173`
  says that it does).
* *Control.* `satay runs delete` and `satay.run_app` (without the control API) take no
  lock; after a delete the memo of a live process is stale, although
  `store.py:350-358` says that a deletion evicts it, and a fork queued behind it is applied to what now bears the id,
  ended or not. Keyed
  starts of two such processes may both find no run and create two (`runner.py:88`,
  no uniqueness constraint). A start or a fork
  is driven inside the tick, so a cancel behind it waits for longer than one poll
  interval (`commands.py:52`). After a failed start the loop is dead and the server
  keeps answering 202. In a script, `stop()` after a dead loop leaks the lock.
* *Versions.* A dirty tree has the stamp of its commit, and the commit is that of the
  process's directory. Re-drives by the loop and of children check no version.
* *Views.* Of a failed run, `task_detail` calls an unfinished call running where the
  tree calls it failed. Cancelling between the terminal event and the status leaves
  `cancelled` beside an output. The interruption mark of the timeline is also set by a
  second `result()` of a live run and copied into forks.
* *Values.* An `enum | str` union is ambiguous to the decoder; equal masks below the
  depth cap compare equal although `valuediff.py:24-26` rules that out; the redaction
  label of a shipment is the store's present mode, not the one its events were
  recorded under. The gate of an evaluation ignores statuses: a candidate that failed
  reads as one that returned `None`.
* *Backoff.* `backoff_ceiling` overflows at the 1025th failure; `BackoffIsDefined`
  assumes fewer.

## 4. What TLAPS proves

The theorems about the engine hold for every set of drivers, tasks and topics, every
workflow, every version set, policy and bound, under the named assumptions of
`ReplayEngine` (naturals, flags, workflows that are code, distinct names).

* `TypesAreKept`: `Spec => []TypeOK`, for any number of drivers. `TypeOK` is not
  inductive: `Hit` looks into the loaded prefix, a completion's value must be an
  outcome, an identity must be made from a task name. `TypeInv` adds `EventsOK`
  (what each event type holds) and `DriversOK` (a loaded prefix lies in the
  journal; the outcomes observed are as many as the calls; what each `pc`
  implies about the awaited call).
* `DriveOutcomeIsFirstHolds`, `StatusNeverLeadsHolds`: with one driver. The
  invariant is `OutcomeInv`: a drive past its load works on a journal with no
  terminal event, a driver that settles finds one last terminal event, and a run
  that does not exist has no events and no timers.
* `TaskRecordedOnceHolds`, `NoReexecutionHolds`: with one driver. The invariant is
  `CallsInv`: the facts appended since the load belong to calls behind the
  drive's ordinals (or to the current call), so a miss in the loaded prefix is a
  miss in the whole journal. This is the argument for why loading once is sound
  for a single driver; for two it is not, as the gathered sleep of section 3 shows.
  `PollLoopKeeps` covers the timers that fire in between: they append only
  `TimerFired`, which is no fact of a task call.
* `ParksAreRecordedHolds`: with one driver, and versions of the code that each wait for
  events of one type (`OneTopicEach`: the identity of a wait leaves the type out,
  `engine.py:502`, so waits for two types share identities). `ParksInv` is `CallsInv` for
  the events of a park: what was appended of them since the load belongs to calls behind
  the drive (`FreshPark`), which lie below its counters (`CalledOK`). `PlacesInv` says
  what is on disk at each place of a park, timers row included (`PlaceOK`, `TimersOK`).
* `AttemptsAreCountedHolds`: with one driver, and workflows that let the error of a task
  escape (`ErrorsEscape`; section 3 says what others do). `AttemptsInv` says that the
  attempts of a call and the locals of the executor count the same thing;
  `MaxAttemptCounts` is the lemma that the highest attempt number of a call is the number
  of its attempts, over a journal that grows (`Tally`). `BudgetInv` tells the failure
  that ends a run from the ones that a crash kept from ending it.
* `ReplayFollowsJournalHolds`: with one driver, under the strict policy, for workflows
  that let the error of a task escape, whatever code replaces them. All three are
  needed: a workflow that catches the error of its first task and completes a second one
  has, after a crash, the first completed behind the second. `FollowInv` says of the journal
  that calls of a task are scheduled in the order of their ordinals and that a call
  completes after the calls scheduled before it (`JournalFollows`), and of a drive that
  its calls are numbered without gaps and that each is placed: what was scheduled before
  it are earlier calls of this drive (`Follows`). The positional check compares only task
  names; `FirstUncalled` is the lemma that it finds the identity: the first scheduled
  call the drive has not made has as many before it as the drive has calls
  (`SameNumber`, a bijection), so its name is checked, and then its ordinal can only be
  the counter's.
* `PrefixIsReusedHolds` and `ForkParkIsCompleteHolds`: for any number of drivers, forks of
  forks and bounds. `ForkInv` adds to `TypeInv` and `PlacesInv` what a fork takes over:
  the source is a journal whose rows are those of its timers (`SourceOK`); while a driver
  copies nobody else is at the run and what it has copied is in order (`CopyOK`); the
  engine never appends `RunForked`, so a journal with it behind the fork point begins
  with the prefix (`SeedOK`, `StaysSeeded`) and every drive of it has loaded all of that
  (`DriveOK`). What a driver executes is no completion of what it loaded, and it keeps to
  that load: this needs no single driver, unlike `NoReexecution`.
* `FiresOnceInTimeHolds` and `ImplementsRunHolds`: for the poll loop and any number of
  drivers beside it. `LoopInv` has a part for each reason: while the loop goes through
  due timers no driver moves (`PhaseOK`, `OnlyTheClock`); what is in hand is due and
  still pending (`DueOK`); a `TimerCreated` has one row, with its deadline
  (`TimersOK`, `RowsAreUnique`), of the kind of its call (`KindsOK`); and between the two
  commits of a fire the timer has fired and its wait got no event (`SettleOK`), which
  makes the second commit a `SettleTimer` of `ReplayEngine`. The refinement is proved
  action by action (`RunReadsJournal` to `RunPollLoop`), by expanding both instances of
  the engine; TLC checks it in `worker_crash` too.
* `NothingTwiceHolds`: for one caller beside the poll loop (`OneCaller`) in a process that
  lives (`NoCrashes`: a process that comes back knows no caller that waits), any workflow
  and whatever else a tick drives. `BesideInv` says why there is one drive at a time
  (`Alone`). Until the run first parks or ends its caller makes the first drive of it, in
  which the loop finds no event to deliver, no timer and nothing to wake: that drive parks
  on what it creates without a suspension in between, and it has loaded nothing that was
  scheduled and could be refused (`FirstDrive`). From then on the caller awaits the run,
  or the loop is dead, or the journal has ended (`ThenAwaits`). So no timer fires into a
  journal that a drive has loaded (`NoneFired`, `FiresAlone`), and the argument of
  `TaskRecordedOnceHolds` goes through for whichever of the two drives.
* `EventWinsHolds`: for the same caller and loop, a tick that drives no other run
  (`OneRun`: in the body of another run an event may come after the delivery and lose to a
  timeout), code that waits for events of one type (`OneTopicEach`) and lets the errors of
  tasks escape (`ErrorsEscape`). A tick re-drives a run that an event awaits; the claim is
  that this drive leaves no event for any unresolved wait, though it may never come to
  that wait. `WinsInv` says that it does come there, which is the determinism of replay:
  the outcomes of a drive are those the journal ended its calls with (`Walked`), a call
  ends one way (`EndsOnce`, from `NothingTwice`), and a wait in the journal comes after a
  history that every drive is on the path of (`WaitsAfter`, `SamePath`). A drive that
  parks is at a call the journal has not ended, with no event for it (`ParksOn`). If it is
  a wait, every unresolved wait is for its event type; if it is a sleep, every wait in
  the journal is behind it and resolved (`ParkDelivers`). From there to the timers the
  tick keeps the event loop (`LoopRests`, `OthersHoldBack`), and no event comes in between
  (`AllDelivered`). TLC checked `WinsInv` with eight workflows of up to three calls before
  it was proved; the instance `worker_live` meets all five hypotheses.
* `VerdictsAreDurableHolds`: for every set of tasks and keys, every plan, bound and
  deployment between drives, under three hypotheses, each of which excludes a divergence
  of section 3: one task at a time drives the run (`OneDriver`: the poll loop may drive it
  again while a sibling of a gathered sleep is in a body, and both complete the call), no
  two maps of a workflow call a task under the same key (`KeysApart`: they would be one
  call, `engine.py:754`), and gathers that collect have no sleeps among their members
  (`CollectTasks`: a park would be their outcome, `engine.py:714`). The invariant has
  two parts. `RecordedInv`, which needs no single driver (`OutcomesAreRecordedHolds`),
  says of every member that is over what its outcome rests on. `DurableInv` says that
  what was appended since the load is about identities the drive has given out
  (`NewsAreBegun`), that the next one it gives out is none of them (`IdIsFresh`, from the
  ordinals, the keys of a round, and `KeysApart` across rounds), hence that a call under
  way has no verdict and its member knows the number of its failures (`LiveOK`), in
  whatever order the members move. The budget is carried through the places of a drive:
  one more failure is allowed from the moment a drive is counted until it loads, and
  from then on for every call that is not recorded as spent.
* `NoFalseDivergenceHolds`: for every plan, with one driver, and no refused call ahead of
  another of its gather (`RefusedAreLast`; section 3 says what happens otherwise). The
  journal has each call without a key scheduled once and in the order of the workflow
  (`TasksAreScheduled`, `InOrder`), whatever order the members of a round move in, as
  `gather` starts them in theirs. `OrderInv` adds of a drive that what it passed is
  counted (`Passed`: its counters are the positions behind it) and scheduled but for a
  refused call (`PassedOK`), and that a round that is started is started whole. The
  calls ahead of a position in the workflow are then as many as the
  scheduled ones ahead of it in the journal (`NextInLine`), so the check compares a call
  with itself (`NoneDiverges`). It speaks of journals that one version wrote; `mixed`
  remembers that another one did. `ResultsAreValues` keeps a recorded result apart from
  what stands for an error or a park.
* `ParksWholeHolds`: with one driver, `KeysApart`, `RefusedAreLast`, and a
  workflow that sleeps anywhere having no call that is refused (`SleepersAreSafe`). `WholeInv` says that as long as
  nothing crashed the code is the same, and every task call in the journal has its
  verdict, has spent its budget, or has a member at work (`UnderWay`). A drive lets go of
  members only when they are over. The way out that cuts members off, a refusal, is
  closed: nothing diverges (`OrderInv`), and a run that parks was not refused (`SlotsOK`).
* `OneWriter`: `ControlSpec => []SingleWriter`, for any processes, scripts among
  them, runs and bounds. `SingleWriter` says nothing of a process whose store is
  closed but whose lock is held; `HolderIsUp` does: whoever is up at all holds the
  lock. `ControlImplementsStack` maps every step of the control plane to a step of
  `DevStack` or a stutter.
* `ReadsAreJournalHolds` and `ForkOfTerminalHolds`: for any processes, runs, commands and
  bounds. `ControlInv` says that a memo is a first part of its journal (`MemoLeads`),
  empty when the store is closed (`ClosedIsIdle`); that a run being driven is not ended
  by anyone else (`DriveIsOpen`); and of every fork in a queue or a batch that its source
  has ended (`ForksReady`) and that its new id is used by nobody else (`NewIds`,
  `RowsHaveLives`). The first form of `ForkOfTerminal` did not hold of deleted
  sources; the failed proof showed it, and the property now says so.
* `ForkIsPrefixHolds` and `ReferencedIsKeptHolds`: for any runs, blobs, grace period
  and bounds; first for `LocalSpec` (`ForkIsPrefixLocally`, `ReferencedIsKeptLocally`),
  then for `Spec`, since nothing that ships a run changes it (`ShippingIsApart`).
  `ForkIsPrefix` is not inductive: the copy is made event by event, and the source
  may be deleted under it. `LocalInv` says it of what the writer has yet to append
  (`Planned`), and that the source of a lineage has ended, so its journal stays
  (`Settled`, `Follows`). `ReferencedIsKept` needs what the pass has seen: `SweepInv`
  says that every live blob, the one of the open transaction included, is on disk,
  and, once a pass has marked, that the mark found it or its file is no older than
  the pass. It rests on the one timing assumption of the model, that a transaction
  takes less than a tick.
* `ShipmentsAreTrueHolds`, `ReportIsTrueHolds` and `KeepsPromiseHolds`: for any number
  of calls of `ship_run`. `ShipInv` follows a call: what it read is a first part of the
  journal, all of it if the row it read before says that the run ended, and the blobs
  of the tail are at the plane, still to do, or the one in hand. `StoredOK` says that
  what the plane has is part of the journal; `ReportInv` that what was acknowledged
  stays stored. `KeepsPromiseHolds` is the refinement of `JournalCopy`: a step appends
  one event to one journal (`PromiseGrow`), lengthens what is served of one run
  (`PromiseAcknowledge`), or changes neither. `HighestIsContiguous` is the lemma on
  finite sets behind the acknowledged seq.
* `ShipEndsHolds`: for finitely many blobs. `CountsOK` bounds the refusals of a call and
  its blobs; a step then takes a request off what is left (`CallsCountDown`) or counts a
  refusal, and one request outweighs all refusals (`LessToDo`). The measure stays a
  natural number (`StepsAreCounted`), and no hint of the plane makes a wait without end.
* `OneChildHolds` and `ResumesNotRestartsHolds`: for any workflows of parent and child,
  ids, cancellations and bounds, with the caller and the poll loop both driving. A
  handle comes from a child that was started (`ResultsAreOfChildren`) and a child starts
  no children (`KidsAreChildless`, the bound of the model). `ChildInv` speaks of every
  drive on the two stacks: only a drive of the parent has another inside it (`Nested`),
  what it loaded says that the run goes on (`LoadedIsOpen`), and what the journal got
  since comes from its own earlier calls (`NewsIsOwn`), which is why a miss in the loaded
  prefix is a miss in the journal. That last part needs that nobody else is at the run
  (`Alone`), so it is said of runs outside `overlap`; what does not need it, that no row,
  timer or wake-up is of a child the parent's journal has not named (`KidsOK`,
  `KidsAreNamed`), is said of all. The step lemmas are about a stack that is replaced,
  popped or pushed (`AdvanceKeepsInv`, `ReturnKeepsInv`, `EnterKeepsInv`); each action is
  one of them.
* `ResultIsChildsHolds`: for parents with one call of `start_child` whose code returns
  what `result()` gave it (`OneChildCall`, `ReturnsResult`), and outputs that are not
  the model's word for a failure. `HandInv` adds to `ChildInv` what a hand-over relies
  on: a status is that of an event in the journal (`StatusOK`), and nothing comes
  between the event a run ends with and that status, as the driver keeps the event loop
  (`SettleOK`); a parent that comes back from its child finds it parked or ended
  (`ReturnedOK`); a run that has ended is not driven past its entry, and its code
  returns what it was handed (`SoundDrives`, `EventsTold`). What was handed over is then
  what the named child ended with (`HandedOK`), the child is one by `OneChild`, and its
  outcome is one by `ResumesNotRestarts`. `HandInv` holds in the instance `child`, whose
  three parents all meet the hypotheses.

The assumption `OneDriver` is stated in each theorem that needs it. It is what a
caller that awaits its park gives: `NothingTwiceHolds` proves it of such a caller and the
poll loop, as two drivers of which one at a time is past its load.

**Only model-checked**: the liveness properties and `AcceptedIsApplied` (fairness and
ENABLED are beyond the prover). `Payloads`, `ReadModel` and `Evaluation` use
RECURSIVE operators and stay with TLC for that reason. `AgentAnswers` and
`ReadersSeeVerdicts` are about what folds over the journal compute, which would take
induction over data.

## 5. What is not modelled

* Keyed starts: within one process the look-up of the key and the insertion of the
  run are not separated by a suspension; across processes see section 3.
* Waits and children inside a fan-out; a child of a child; input overrides of a fork.
* Message keys (a topic is an event type; a key would only split it), the print of a
  single scalar, the schema of the wire format, logging.
* HTTP parsing and origin checks, argument parsing of the CLI, loading of the
  application's module, decorators and the registry, the studio, the demo helpers,
  examples, documentation tools and test support.

`PROJECT.json` lists each with its reason.

## 6. Plan

Every safety property and action property of the runs that the provers can reach is
proved; section 4 says what stays with TLC. Of the model: waits inside a fan-out, and
keyed starts. Of the proofs: `EventWins` through crashes. With crashes TLC finds it to hold
of each workflow of `worker_live` as long as the same code comes back. If other code
does, the timeout of a wait that the new code does not come to fires although an event
is there; nobody waits for either then.
