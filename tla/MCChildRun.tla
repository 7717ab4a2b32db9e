------------------------------ MODULE MCChildRun ------------------------------
(* Small instances of ChildRun for TLC: the workflows.                       *)
EXTENDS ChildRun

CONSTANTS r, k1, k2

MCRootCalls ==
  {<<"child", "result", "return">>, <<"sleep", "child", "result", "return">>,
   <<"child", "task", "result", "return">>}
MCKidCalls == <<"task", "sleep", "task", "return">>
=============================================================================
