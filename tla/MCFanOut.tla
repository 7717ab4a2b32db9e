------------------------------ MODULE MCFanOut ------------------------------
(* Small instances of FanOut for TLC: the fan-outs of its workflows.        *)
EXTENDS FanOutViews

CONSTANTS k1, k2, nokey, d1, free

item(t, k) == [name |-> t, key |-> k]
call(t) == [name |-> t, key |-> nokey]
nap == call("sleep")
fan(m, calls, n) == [mode |-> m, calls |-> calls, width |-> n]

MCRetries == [t \in Task |-> IF t = "charge" THEN 1 ELSE 0]

Program ==
  [draft |-> <<fan("collect", <<item("draft", k1), item("draft", k2)>>, 1),
               fan("failfast", <<nap, call("charge")>>, 2)>>,
   inner |-> <<fan("nested", <<item("draft", k1), item("draft", k2)>>, 2)>>,
   pair  |-> <<fan("failfast", <<call("charge"), call("ship")>>, 2)>>,
   swap  |-> <<fan("collect", <<call("ship"), call("charge")>>, 2)>>,
   bulk  |-> <<fan("collect", <<item("charge", k1), item("charge", k2)>>, 1)>>]

\* some versions declare `charge` an unguarded side effect
MCUnsafe == [v \in Version |-> IF v \in {"swap", "bulk"} THEN {"charge"} ELSE {}]

MCPlan == [v \in Version |-> Program[v]]
=============================================================================
