-------------------------------- MODULE Wire --------------------------------
(***************************************************************************)
(* What crosses the ingest wire: journal/wire.py and the answers of        *)
(* ingest/http.py.  A shipment is a header and the events behind the       *)
(* acknowledged seq, each under its seq.  Types and payloads are opaque to *)
(* whoever carries them, and a spilled value stays a reference.            *)
(***************************************************************************)
EXTENDS BlobStore

\* read_raw_events: the rows as they are, neither memoised nor rehydrated
RawEvents(r) == events[r]

NoLineage == [source |-> NoRun, point |-> 0]

\* lineage_of: the record with the greatest seq is the run's own
LineageOf(s) ==
  IF ForkSeqs(s) = {} THEN NoLineage
  ELSE LET own == s[Max(ForkSeqs(s))] IN [source |-> own.source, point |-> own.point]

\* _blob_ids_in: what the events under these seqs reference
BlobIdsIn(s, seqs) == {s[n].blob : n \in seqs} \ {NoBlob}

\* MUTANT of TailSeqs: an off-by-one at the acknowledged seq
TailSeqsPastNext(s, ack) == {n \in DOMAIN s : n > ack + 1}

TailSeqs(s, ack) == {n \in DOMAIN s : n > ack}

\* MUTANT of Project: the header says what the run's row says when it is sent
ProjectLate(r, st, s, since) ==
  [run    |-> [run_id |-> r, status |-> state[r], lineage |-> LineageOf(s)],
   events |-> [n \in TailSeqs(s, since) |-> s[n]]]

\* project_run: the lineage is that of all events, sent or not
Project(r, st, s, since) ==
  [run    |-> [run_id |-> r, status |-> st, lineage |-> LineageOf(s)],
   events |-> [n \in TailSeqs(s, since) |-> s[n]]]

ShipmentFormatError == [run_id |-> NoRun]

\* parse_shipment: a served copy read back, its events those of the header's run
Parse(shipment) ==
  IF shipment.run.status \notin {"open", "terminal"} THEN ShipmentFormatError
  ELSE [run_id  |-> shipment.run.run_id, status |-> shipment.run.status,
        lineage |-> shipment.run.lineage, events |-> shipment.events]

-----------------------------------------------------------------------------
(* The wait after a 429                                                     *)

\* what a plane may say in Retry-After
Hints == {"absent", "date", "inf", "nan", "negative", "seconds"}

\* _parse_retry_after: a finite number of seconds
RetryAfter(hint) == IF hint = "seconds" THEN hint ELSE "none"

BackoffCap == 60

\* doubled from one second at every failure, up to the cap
backoff_ceiling(failure) == IF failure > 6 THEN BackoffCap ELSE 2 ^ (failure - 1)

\* full jitter below the ceiling
backoff_delay(failure) == [upTo |-> backoff_ceiling(failure)]

\* the delay before the next attempt: the hint, else the backoff
Delay(hint, failure) ==
  IF RetryAfter(hint) # "none" THEN [after |-> RetryAfter(hint)]
  ELSE backoff_delay(failure)

\* sleep(inf) does not end
WakesUp(delay) == delay # [after |-> "inf"]
=============================================================================
