------------------------------ MODULE Shipper ------------------------------
(***************************************************************************)
(* ship_run: a producer ships a run of BlobStore to an ingest plane.  It   *)
(* reads the journal once, asks what the plane has, uploads the blobs the  *)
(* tail references and sends the tail.  Each request may be refused (429), *)
(* fail before or after the plane acted on it, and other calls of ship_run *)
(* and the processes of BlobStore run in between.                          *)
(*                                                                         *)
(* The plane is external: it stores events under their seq, acknowledges   *)
(* the highest contiguous one, and keeps what it stored.                   *)
(***************************************************************************)
EXTENDS Wire

CONSTANTS
  Caller,      \* concurrent calls of ship_run
  MaxRetries   \* max_backpressure_retries

\* 2.0 ** 1024 is an OverflowError
ASSUME BackoffIsDefined == MaxRetries \in 0..1024

VARIABLES
  stored,   \* the plane's events: per run, a function of the stored seqs
  blobs,    \* the plane's blobs
  ship      \* where each call of ship_run is

plane == <<stored, blobs>>
shipping == <<plane, ship>>
vars == <<local, shipping>>

NotShipping == [at |-> "idle", run |-> NoRun, status |-> "absent", read |-> <<>>, ack |-> 0,
                todo |-> {}, blob |-> NoBlob, failures |-> 0]

Init ==
  /\ LocalInit
  /\ stored = [r \in Run |-> <<>>] /\ blobs = {}
  /\ ship = [c \in Caller |-> NotShipping]

-----------------------------------------------------------------------------
(* The plane                                                                *)

\* the highest contiguous seq it has stored
Contiguous(r) == Max({n \in 0..Cardinality(DOMAIN stored[r]) : 1..n \subseteq DOMAIN stored[r]})

\* it keeps what it has under a seq
Store(shipment, seqs) ==
  stored' = [stored EXCEPT ![shipment.run.run_id] =
    [n \in DOMAIN @ \cup seqs |-> IF n \in DOMAIN @ THEN @[n] ELSE shipment.events[n]]]

-----------------------------------------------------------------------------
(* ship_run                                                                 *)

At(c, at) == ship[c].at = at
Go(c, f) == ship' = [ship EXCEPT ![c] = f]
On(c, at) == [ship[c] EXCEPT !.at = at, !.failures = 0]
Proceeds(c, at) == Go(c, On(c, at))

\* the call returns, or raises
Returns(c) == Go(c, [NotShipping EXCEPT !.at = "done"])
RaisesMissing(c) == Go(c, [NotShipping EXCEPT !.at = "missing"])
RaisesError(c) == Go(c, NotShipping)

Requests == {"ack", "head", "put", "send"}
Calling == {"read", "blobs"} \cup Requests

\* get_run: an unknown run is refused
BeginShip(c, r) ==
  /\ ~(ship[c].at \in Calling) /\ state[r] \in {"open", "terminal"}
  /\ Go(c, [NotShipping EXCEPT !.at = "read", !.run = r, !.status = state[r]])
  /\ UNCHANGED <<local, plane>>

\* MUTANT of ReadEvents: the event of a transaction that is not committed is read too
ReadEventsDirty(c) ==
  /\ At(c, "read")
  /\ Go(c, [ship[c] EXCEPT !.at = "ack",
            !.read = IF writer.at = "insert" /\ writer.run = ship[c].run
                     THEN Append(events[ship[c].run], writer.event) ELSE events[ship[c].run]])
  /\ UNCHANGED <<local, plane>>

\* read_raw_events: nothing, if the run was deleted since
ReadEvents(c) ==
  /\ At(c, "read")
  /\ Go(c, [ship[c] EXCEPT !.at = "ack", !.read = RawEvents(ship[c].run)])
  /\ UNCHANGED <<local, plane>>

TailOf(c) == TailSeqs(ship[c].read, ship[c].ack)

\* current_ack answers
LearnAck(c) ==
  /\ At(c, "ack")
  /\ LET ack == Contiguous(ship[c].run)
         tail == TailSeqs(ship[c].read, ack)
     IN Go(c, [On(c, "blobs") EXCEPT
                 !.ack = ack, !.todo = BlobIdsIn(ship[c].read, tail)])
  /\ UNCHANGED <<local, plane>>

NextBlob(c) ==
  /\ At(c, "blobs")
  /\ \E b \in ship[c].todo :
       Go(c, [On(c, "head") EXCEPT !.blob = b, !.todo = @ \ {b}])
  /\ UNCHANGED <<local, plane>>

\* the HEAD of the blob channel
HavePlane(b) == b \in blobs

\* blob_present answers yes: nothing to upload
BlobPresent(c) ==
  /\ At(c, "head") /\ HavePlane(ship[c].blob)
  /\ Go(c, [On(c, "blobs") EXCEPT !.blob = NoBlob])
  /\ UNCHANGED <<local, plane>>

\* ... no, and the bytes are read from the local store: gone, MissingBlobError
BlobAbsent(c) ==
  /\ At(c, "head") /\ ~HavePlane(ship[c].blob)
  /\ IF OnDisk(ship[c].blob) THEN Proceeds(c, "put") ELSE RaisesMissing(c)
  /\ UNCHANGED <<local, plane>>

PutBlobAtPlane(c) ==
  /\ At(c, "put")
  /\ blobs' = blobs \cup {ship[c].blob}
  /\ Go(c, [On(c, "blobs") EXCEPT !.blob = NoBlob])
  /\ UNCHANGED <<local, stored>>

\* the blobs are there; without a tail there is nothing to send
BlobsDone(c) ==
  /\ At(c, "blobs") /\ ship[c].todo = {}
  /\ IF TailOf(c) = {} THEN Returns(c) ELSE Proceeds(c, "send")
  /\ UNCHANGED <<local, plane>>

\* the shipment, of the row and the events as they were read
Shipment(c) == Project(ship[c].run, ship[c].status, ship[c].read, ship[c].ack)

\* the plane stores the tail and acknowledges it
Send(c) ==
  /\ At(c, "send")
  /\ Store(Shipment(c), TailOf(c))
  /\ Returns(c)
  /\ UNCHANGED <<local, blobs>>

\* the request fails, or its answer never comes: the plane may have done all of
\* it, some of it or nothing
RequestFails(c) ==
  /\ ship[c].at \in Requests
  /\ \/ UNCHANGED plane
     \/ /\ At(c, "put") /\ blobs' = blobs \cup {ship[c].blob}
        /\ UNCHANGED stored
     \/ /\ At(c, "send") /\ UNCHANGED blobs
        /\ \E seqs \in SUBSET TailOf(c) : Store(Shipment(c), seqs)
  /\ RaisesError(c)
  /\ UNCHANGED local

\* the answer is a 200 without a valid ack_seq, PlaneResponseError: the tail is stored
AnswerUnreadable(c) ==
  /\ \/ At(c, "ack") /\ UNCHANGED plane
     \/ At(c, "send") /\ Store(Shipment(c), TailOf(c)) /\ UNCHANGED blobs
  /\ RaisesError(c)
  /\ UNCHANGED local

\* MUTANT of Backpressure: the attempts are not counted
BackpressureForever(c) ==
  /\ ship[c].at \in Requests
  /\ Go(c, [ship[c] EXCEPT !.failures = 1 - @])
  /\ UNCHANGED <<local, plane>>

\* a 429: wait and try again, up to the cap
Backpressure(c) ==
  /\ ship[c].at \in Requests
  /\ IF ship[c].failures + 1 > MaxRetries THEN RaisesError(c)
     ELSE \E delay \in {Delay(hint, ship[c].failures + 1) : hint \in Hints} :
            Go(c, IF WakesUp(delay) THEN [ship[c] EXCEPT !.failures = @ + 1]
                  ELSE [ship[c] EXCEPT !.at = "asleep"])
  /\ UNCHANGED <<local, plane>>

ShipStep(c) ==
  \/ ReadEvents(c) \/ LearnAck(c) \/ NextBlob(c) \/ BlobPresent(c) \/ BlobAbsent(c)
  \/ PutBlobAtPlane(c) \/ BlobsDone(c) \/ Send(c)
  \/ RequestFails(c) \/ AnswerUnreadable(c)
  \/ Backpressure(c)

Next ==
  \/ LocalNext /\ UNCHANGED shipping
  \/ \E c \in Caller : ShipStep(c) \/ \E r \in Run : BeginShip(c, r)

Spec == Init /\ [][Next]_vars

-----------------------------------------------------------------------------
(* Correctness                                                              *)

\* The plane can resolve what it serves: a blob is there before any event that
\* names it, though requests fail half-way and calls overlap (ADR-0045).
PlaneResolves == \A r \in Run : \A n \in DOMAIN stored[r] : stored[r][n].blob \in blobs \cup {NoBlob}

\* What is about to be sent reads back as what the journal holds behind the seq that
\* was acknowledged.  Its header was read before the events: it calls a run ended only
\* if no event followed those, and it names the origin of a seeded fork even if the
\* tail does not contain the record of it (wire.py).
ShipmentIsTrue(c) ==
  LET copy == Parse(Shipment(c))
      journal == written[ship[c].run]
  IN  /\ copy # ShipmentFormatError /\ copy.run_id = ship[c].run
      /\ \A n \in DOMAIN copy.events : n > ship[c].ack /\ copy.events[n] = journal[n]
      /\ copy.status = "terminal" => Len(journal) = Len(ship[c].read)
      /\ ForkSeqs(journal) \subseteq DOMAIN ship[c].read => copy.lineage = LineageOf(journal)

ShipmentsAreTrue ==
  /\ PlaneResolves
  /\ \A c \in Caller : At(c, "send") => ShipmentIsTrue(c)

Ended(c, at) == ship[c].at \in Calling /\ ship'[c].at = at

\* A call that succeeds has brought the plane up to the journal it read, from
\* whatever gaps earlier calls left.
ShippedIsStored(c) ==
  \A r \in Run : Ended(c, "done") /\ ship[c].run = r => Contiguous(r)' >= Len(ship[c].read)

\* A blob is only missing for a run that was deleted under the call, or if its
\* file was an orphan when it was spilled again.
MissingIsDeleted(c) ==
  Ended(c, "missing") => state[ship[c].run] = "deleted" \/ ship[c].blob \in reused

\* What a call reports is so: a success is all that it read, a missing blob is gone.
ReportIsTrue == [][\A c \in Caller : ShippedIsStored(c) /\ MissingIsDeleted(c)]_vars

\* A call of ship_run ends, however often the plane refuses and whatever it says to
\* wait: each of its steps leaves fewer requests to make, or fewer refusals to wait
\* out, and no wait is without end.
RequestsLeft(f) ==
  CASE f.at = "read" -> 3 * Cardinality(Blob) + 4
    [] f.at = "ack" -> 3 * Cardinality(Blob) + 3
    [] f.at = "head" -> 3 * Cardinality(f.todo) + 4
    [] f.at = "put" -> 3 * Cardinality(f.todo) + 3
    [] f.at = "blobs" -> 3 * Cardinality(f.todo) + 2
    [] f.at = "send" -> 1
    [] OTHER -> 0
StepsLeft(f) == RequestsLeft(f) * (MaxRetries + 1) - f.failures
ShipEnds ==
  [][\A c \in Caller : ship'[c] # ship[c] /\ ship[c].at \in Calling =>
       StepsLeft(ship'[c]) \in 0..(StepsLeft(ship[c]) - 1) /\ ship'[c].at # "asleep"]_vars

\* What the plane acknowledges is a prefix of the run's journal and only grows.
Promise == INSTANCE JournalCopy WITH
  journal <- written, copy <- [r \in Run |-> [n \in 1..Contiguous(r) |-> stored[r][n]]]
KeepsPromise == Promise!Spec
=============================================================================
