----------------------------- MODULE Evaluation -----------------------------
(***************************************************************************)
(* Replay-based evaluation: eval.py and `satay eval`.  A recorded run is   *)
(* forked and driven (replay_eval), or two runs that exist are taken       *)
(* (compare_runs); a report says where their outputs differ and what the   *)
(* candidate cost more, and a gate turns it into a verdict.  It only       *)
(* composes fork, inspect and diff, so its state is theirs: the baseline   *)
(* is `source`, the candidate the fork.                                    *)
(***************************************************************************)
EXTENDS ReadModel

CONSTANTS
  Metric,    \* keys of the usage that tasks report
  Reports    \* the keys an attempt reports one unit of, by how it ended

ASSUME ReportsByEnding == Reports \in [{"TaskCompleted", "TaskAttemptFailed"} -> SUBSET Metric]

\* what a run is worth to a reader who asks for its output: a failed, cancelled or
\* unfinished run has the output of a run that returned None
Outputs(inspection) == IF inspection.outcome = "output" THEN Specimen ELSE {"none"}

\* inspect redacts what it returns
Read == [s \in Specimen |-> [n \in 0..MaxForks |-> Redact(Patterns, Decode(Stored[s][n]))]]

\* the diff of two outputs, each copied into that many forks
OutputDiff ==
  [s, r \in Specimen |-> [n, m \in 0..MaxForks |-> DiffValues(Read[s][n], Read[r][m])]]

\* _usage_totals: the keys some attempt reported, each with its sum
UsageTotals(usage) ==
  LET reporting(key) == {i \in DOMAIN usage : key \in Reports[usage[i].type]}
  IN  [key \in {k \in Metric : reporting(k) # {}} |-> Cardinality(reporting(key))]

Total(usage, key) == IF key \in DOMAIN usage THEN usage[key] ELSE 0

\* _usage_delta: a key of one side only counts as zero on the other
UsageDelta(baseline, candidate) ==
  [key \in DOMAIN baseline \cup DOMAIN candidate |-> Total(candidate, key) - Total(baseline, key)]

\* _report, of two inspections and the diff of their outputs
Report(baseline, candidate, output) ==
  [output |-> output,
   usage_delta |-> UsageDelta(UsageTotals(baseline.usage), UsageTotals(candidate.usage))]

\* compare_runs: two runs read back; here the source and the fork
Baseline == Inspect(source, RecordedTerminalStatus(source))
Candidate == Inspect(journal, status)
CompareRuns(output) == Report(Baseline, Candidate, output)

\* MUTANT of OutputReasons: a masked output is taken for an unchanged one
OutputReasonsLenient(output, expect) ==
  IF \/ expect = "unchanged" /\ output.changed
     \/ expect = "changed" /\ ~output.changed
  THEN {"output"} ELSE {}

\* gate, output: equality must be established
OutputReasons(output, expect) ==
  IF \/ expect = "unchanged" /\ (output.changed \/ output.redacted)
     \/ expect = "changed" /\ ~output.changed
  THEN {"output"} ELSE {}

\* _cost_reasons: the gated keys that rose above the cap
CostReasons(delta, cap) == {key \in DOMAIN delta \cap cap.keys : delta[key] > cap.max}

\* gate: the reasons to fail a report, none to pass it
Gate(report, expect, cap) ==
  OutputReasons(report.output, expect) \cup CostReasons(report.usage_delta, cap)

\* a cap on every key, a cap on one (--cost-key), and none
Caps == [keys : {Metric, {}} \cup {{key} : key \in Metric}, max : 0..1]

-----------------------------------------------------------------------------
(* Correctness                                                              *)

\* attempts of which the journal has the start and not the end
Unended(j) ==
  Cardinality({i \in DOMAIN j : j[i].type = "TaskAttemptStarted"}) - Len(ModelUsage(j))

\* A retried call pays for every answer it threw away (KAN-479): the only attempts
\* missing from the bill are the one in flight, one per crash, and one for each fork
\* whose prefix ends inside an attempt.
BillIsWhole ==
  LET inFlight == Cardinality({d \in Driver : pc[d] \in {"body", "returned"}})
  IN  Unended(journal) <= crashes + lineage + inFlight

\* the attempts a run ended behind the fork point, which are what the fork re-ran
EndedBehindPoint(j) == ModelUsage(SubSeq(j, point + 1, Len(j)))

\* replay_eval compares once the handle's result() returned; the fork may be parked
Compared == Seeded /\ AllIdle

\* the two payloads would be the same to a reader without redaction, or a mask lies
\* below the depth at which the diff stops
MayPass(s, r, n, m) ==
  \/ Bare[s] = Bare[r]
  \/ ~MasksAbove(Read[s][n], MaxDepth) \/ ~MasksAbove(Read[r][m], MaxDepth)

\* a report of two runs that cost the same
OutputReport(s, r, n, m) == [output |-> OutputDiff[s, r][n, m], usage_delta |-> <<>>]

NoCap == [keys |-> {}, max |-> 0]

\* pairs of outputs on which some gate misleads: "unchanged" passes for outputs that
\* differ, or "changed" for outputs that are the same
Misjudged ==
  {p \in Specimen \X Specimen : \E n, m \in 0..MaxForks :
     LET report == OutputReport(p[1], p[2], n, m)
     IN  \/ Gate(report, "unchanged", NoCap) = {} /\ ~MayPass(p[1], p[2], n, m)
         \/ Gate(report, "changed", NoCap) = {} /\ Bare[p[1]] = Bare[p[2]]}

\* A gate that passes was right: the outputs are unchanged, or changed, as expected,
\* and what the candidate re-ran behind the fork point raised no gated key above what
\* the baseline spent there by more than the cap, whatever prefix they share and
\* whatever was retried.  (A run without an output reads as one that returned None.)
GateIsHonest ==
  Compared =>
    LET report == CompareRuns(NoDiff)
        spent(j) == UsageTotals(EndedBehindPoint(j))
    IN  /\ (Outputs(Baseline) \X Outputs(Candidate)) \cap Misjudged = {}
        /\ \A cap \in Caps : Gate(report, "any", cap) = {} =>
             \A key \in cap.keys :
               Total(spent(journal), key) <= Total(spent(source), key) + cap.max

\* Evaluation bills every attempt that ended and passes no candidate it should not.
EvalIsHonest == BillIsWhole /\ GateIsHonest
=============================================================================
