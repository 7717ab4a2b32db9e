------------------------- MODULE MCTimerEventWorker -------------------------
(* Small instances of TimerEventWorker for TLC: the workflows it drives.     *)
EXTENDS TimerEventWorker

CONSTANTS d1, w, free

call(t) == [kind |-> "task", name |-> t, after |-> 0]
sleep(n) == [kind |-> "sleep", name |-> "sleep", after |-> n]
wait(t, n) == [kind |-> "wait", name |-> t, after |-> n]
end(k) == [kind |-> k, name |-> "none", after |-> 0]

\* the workflow that makes these calls in order; an error escapes it
Linear(steps) ==
  [h \in Histories |->
     IF \E i \in DOMAIN h : h[i] = "error" THEN end("raise")
     ELSE IF Len(h) < Len(steps) THEN steps[Len(h) + 1] ELSE end("return")]

MCRetries == [t \in Task |-> 0]

Program ==
  [nap |-> <<call("charge"), sleep(1)>>,
   ship |-> <<call("ship"), sleep(1)>>,
   doze |-> <<sleep(1), call("charge")>>,
   guard |-> <<wait("approval", 1), call("charge")>>,
   inbox |-> <<wait("approval", 0), call("charge")>>,
   pair |-> <<wait("approval", 1), wait("approval", 1)>>]

MCOrigin == [v \in Version |-> [commit |-> None, dev |-> None, source |-> v]]

MCWorkflow == [v \in Version |-> Linear(Program[v])]
=============================================================================
