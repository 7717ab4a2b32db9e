------------------------------ MODULE ReadModel ------------------------------
(***************************************************************************)
(* A run, its forks and what readers are told of them: ForkedRun drives,   *)
(* Views reads, Payloads says what the outputs are.  Reads take no part in *)
(* the run: a view is evaluated in every state, also in those between two  *)
(* commits and after a crash.                                              *)
(*                                                                         *)
(* The engine never looks into an output, so an output of the journal is a *)
(* name, and the properties quantify over the payloads it may stand for.   *)
(***************************************************************************)
EXTENDS ForkedRun, Views, Payloads

CONSTANTS
  Specimen,   \* names of payloads an output may be
  Payload,    \* each as the task returned it
  Returns,    \* the return annotation of that task
  Patterns,   \* the redactor's patterns
  Redacting   \* write-time redaction is on

\* SQLiteStore._encode_payload: encode, then mask
Recording(x) == IF Redacting THEN Redact(Patterns, Encode(x)) ELSE Encode(x)

\* what the journal holds of an output that was copied into n forks
Stored ==
  [s \in Specimen |->
     LET copy[n \in 0..MaxForks] ==
           IF n = 0 THEN Recording(Payload[s]) ELSE Recording(Decode(copy[n - 1]))
     IN  copy]

\* what a reader is shown, and what the workflow is handed on a replay
Shown == [s \in Specimen |-> [n \in 0..MaxForks |-> Plain(Decode(Stored[s][n]))]]

Replayed ==
  [s \in Specimen |-> [n \in 0..MaxForks |-> Rehydrate(Decode(Stored[s][n]), Returns[s])]]

Diff == [s, r \in Specimen |-> [n \in 0..MaxForks |-> DiffValues(Shown[s][n], Shown[r][0])]]

\* does a copy of some payload differ from the payload?
CopyDiffers == \E s \in Specimen : Diff[s, s][1].changed

\* two recorded outputs, one of the fork and one of its source
Differ(v, w) == v # w \/ CopyDiffers

\* _row_diff of an aligned row
RowDiff(a, b) == Differ(a.output, b.output) \/ a.attempts # b.attempts

\* compare: the row of a call of either run
Row(j, st, k, su, id) ==
  IF id \notin CallsOf(j) \cap CallsOf(k) THEN [aligned |-> FALSE, changed |-> TRUE]
  ELSE [aligned |-> TRUE, changed |-> RowDiff(CallView(j, st, id), CallView(k, su, id))]

\* compare and diff: a row for every call of either run
Compare(j, st, k, su) ==
  [id \in CallsOf(j) \cup CallsOf(k) |-> Row(j, st, k, su, id)]

\* RunDiff.changed
Changed(rows) == {id \in DOMAIN rows : rows[id].changed}

-----------------------------------------------------------------------------
(* Correctness                                                              *)

\* tree, compare and inspect say of every call what task_detail says, up to the one
\* difference in the code: of a failed run they call every unfinished call failed.
StatusesAgree ==
  \A id \in CallsOf(journal) :
    LET shown == TaskStatus(Scan(journal, id), status = "failed")
        detail == TaskDetail(journal, id).status
    IN  \/ shown = detail
        \/ status = "failed" /\ shown = "failed" /\ detail = "running"

\* A call reads as completed exactly when a replay of the journal would reuse its
\* result, also when a crash made an exhausted call try once more and succeed.
CompletedIsReusable ==
  \A node \in Range(Tree(journal, status)) :
    node.status = "completed" <=> Recorded(journal, Len(journal), "TaskCompleted", node.id)

\* The run-list and the timeline of the run
RunSummary == Summary(journal, status, stamp, CodeVersion(code))
RunTimeline == Timeline(journal, status, stamp, CodeVersion(code))

\* A run that nothing interrupted reads so: no drive but one that finds a run cut off
\* marks it as recovered.
RecoveriesAreReal == RunTimeline.interrupted => crashes > 0 \/ lineage > 0

\* What readers are told of a run and its calls is what the other views and a replay say.
ViewsAreTrue == StatusesAgree /\ CompletedIsReusable /\ RecoveriesAreReal

\* A seeded fork compares equal to its source in every call completed before the
\* fork point, whatever the outputs are and whatever the fork did since (ADR-0034).
PrefixComparesEqual(rows) ==
  \A id \in DOMAIN rows :
    Recorded(source, point, "TaskCompleted", id) => rows[id] = [aligned |-> TRUE, changed |-> FALSE]

\* Where it is said to differ, one of the two did something behind the fork point.
DiffersBehindPoint(rows) ==
  Changed(rows) \subseteq CallsOf(SubSeq(journal, point + 1, Len(journal)))
                            \cup CallsOf(SubSeq(source, point + 1, Len(source)))

\* It names the run it was cut from, also when it was cut from a fork whose own
\* record is in the prefix (ADR-0004).
LineageIsOwn ==
  RunSummary.forked_from = ToString(lineage - 1) /\ RunTimeline.forked_from = ToString(lineage - 1)

\* A fork reads as what it is: equal to its source up to the fork point and different
\* behind it only, its lineage its own.
ForkReadsAsCut ==
  Seeded => /\ LineageIsOwn
            /\ LET rows == Compare(journal, status, source, RecordedTerminalStatus(source))
               IN  PrefixComparesEqual(rows) /\ DiffersBehindPoint(rows)

\* what the task returned, with the fields masked that write-time redaction masks
RECURSIVE Censored(_)
Censored(x) ==
  CASE x.k \in {"dict", "dataclass"} ->
         [x EXCEPT !.map = [n \in DOMAIN x.map |->
            IF Matches(Patterns, n) THEN Masked ELSE Censored(x.map[n])]]
    [] x.k \in {"list", "tuple"} ->
         [x EXCEPT !.items = [i \in DOMAIN x.items |-> Censored(x.items[i])]]
    [] OTHER -> x

Returned(s) == IF Redacting THEN Censored(Payload[s]) ELSE Payload[s]

\* some payload, copied n times, comes back as something else
ReplayAlters(n) ==
  \E s \in Specimen : \/ Replayed[s][n] # Replayed[s][0]
                      \/ Replayed[s][n] \notin {Returned(s), Fail}

Altering == {n \in 0..MaxForks : ReplayAlters(n)}

\* Replay hands the workflow what the task returned, but for what was masked, or
\* fails loudly (codec.py); a fork, whose journal holds the value decoded and
\* encoded again, is handed the same.
ReplayParity ==
  (\E i \in DOMAIN journal : journal[i].type = "TaskCompleted") =>
    \A n \in 0..lineage : n \notin Altering

\* no mask lies deeper than the diff looks
RECURSIVE MasksAbove(_, _)
MasksAbove(x, depth) ==
  CASE x = Masked -> depth >= 0
    [] x # Masked /\ x.k = "dict" -> \A n \in DOMAIN x.map : MasksAbove(x.map[n], depth - 1)
    [] x # Masked /\ x.k = "list" -> \A i \in DOMAIN x.items : MasksAbove(x.items[i], depth - 1)
    [] OTHER -> TRUE

\* what a reader without redaction would be shown
Bare == [s \in Specimen |-> Plain(Decode(Encode(Payload[s])))]

\* some pair of different payloads, one of them copied n times, is reported equal
DiffHides(n) ==
  \E s, r \in Specimen :
    LET d == Diff[s, r][n]
    IN  /\ Bare[s] # Bare[r] /\ MasksAbove(Shown[s][n], MaxDepth)
        /\ ~d.changed /\ ~d.redacted /\ ~d.truncated

Hiding == {n \in 0..MaxForks : DiffHides(n)}

\* Outputs of a fork and its source that differ are never reported the same in
\* silence: the diff names a path, or says that a mask or a cap keeps it from
\* knowing (valuediff.py), unless a mask lies below the depth at which it stops.
DiffIsHonest ==
  (\E id \in CallsOf(journal) : /\ Recorded(journal, Len(journal), "TaskCompleted", id)
                                /\ Recorded(source, Len(source), "TaskCompleted", id)) =>
    \A n \in 0..lineage : n \notin Hiding
=============================================================================
