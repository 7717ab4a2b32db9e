--------------------------- MODULE MCReplayEngine ---------------------------
(* Small instances of ReplayEngine for TLC: the workflows it deploys.       *)
EXTENDS Agent

CONSTANTS d1, d2, free

call(t) == [kind |-> "task", name |-> t, after |-> 0]
sleep(n) == [kind |-> "sleep", name |-> "sleep", after |-> n]
wait(t, n) == [kind |-> "wait", name |-> t, after |-> n]
end(k) == [kind |-> k, name |-> "none", after |-> 0]

\* the workflow that makes these calls in order; an error escapes it
Linear(steps) ==
  [h \in Histories |->
     IF \E i \in DOMAIN h : h[i] = "error" THEN end("raise")
     ELSE IF Len(h) < Len(steps) THEN steps[Len(h) + 1] ELSE end("return")]

MCRetries == [t \in Task |-> IF t = "charge" THEN 1 ELSE 0]

\* two calls of one task, then a park; and what may replace that workflow
Program ==
  [twice |-> <<call("charge"), call("charge"), wait("approval", 1)>>,
   other |-> <<call("charge"), call("ship"), sleep(1)>>,
   short |-> <<call("charge"), wait("approval", 0)>>,
   charge |-> <<call("charge")>>,
   approve |-> <<wait("approval", 0)>>]

\* an agent, and the same agent deployed without its tool
MCToolCalls == [v \in Value |-> IF v = "y" THEN <<"search">> ELSE <<>>]
MCTools == [agent |-> {"search"}, bare |-> {}]

\* of the first two the second is a dirty tree of the first's commit; the agents have none
MCOrigin ==
  [v \in Version |-> [commit |-> IF v \in DOMAIN MCTools THEN None ELSE "c1", source |-> v,
                      dev |-> IF v = "bare" THEN "bare" ELSE None]]

MCWorkflow ==
  [v \in Version |-> IF v \in DOMAIN MCTools THEN agent_loop(MCTools[v]) ELSE Linear(Program[v])]
=============================================================================
