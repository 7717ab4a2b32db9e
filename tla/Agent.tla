------------------------------- MODULE Agent -------------------------------
(***************************************************************************)
(* agent_loop: the reason-act-observe loop, as the workflow code of a run  *)
(* of ReplayEngine.  It has no state of its own: where it is in its turn   *)
(* is a function of the outcomes its model and its tools have returned, so *)
(* a resume finds it again by replaying them.                              *)
(***************************************************************************)
EXTENDS ReplayEngine, SequencesExt

CONSTANTS
  Model,      \* the task that answers for the model
  ToolCalls,  \* of each answer of the model, the tools it asks for, in order
  Tools,      \* the tools of each version that runs an agent
  MaxSteps    \* max_steps

ASSUME MaxStepsIsPositive == MaxSteps \in Nat \ {0}
ASSUME ModelIsTask == Model \in Task

Agents == DOMAIN Tools

IsFinal(step) == ToolCalls[step] = <<>>

\* where the loop is: model turns taken, the tools still to call, whether to go on
Started == [steps |-> 0, asked |-> <<>>, more |-> TRUE]

\* MUTANT of Advance: the budget ends the loop before the last turn's tools ran
AdvanceDropping(loop, result) ==
  IF loop.asked # <<>> THEN [loop EXCEPT !.asked = Tail(@)]
  ELSE IF ~loop.more THEN loop
  ELSE LET steps == loop.steps + 1
       IN [steps |-> steps, more |-> steps < MaxSteps /\ ~IsFinal(result),
           asked |-> IF steps = MaxSteps THEN <<>> ELSE ToolCalls[result]]

\* a tool's result, or else a turn of the model
Advance(loop, result) ==
  IF loop.asked # <<>> THEN [loop EXCEPT !.asked = Tail(@)]
  ELSE IF ~loop.more THEN loop
  ELSE [steps |-> loop.steps + 1, asked |-> ToolCalls[result],
        more |-> loop.steps + 1 < MaxSteps /\ ~IsFinal(result)]

Loop(results) == FoldLeft(Advance, Started, results)

Calls(t) == [kind |-> "task", name |-> t, after |-> 0]
Ends(how) == [kind |-> how, name |-> "none", after |-> 0]

\* a failed task escapes, and so does UnknownToolError of a tool that is not among
\* `tools`; else the tools of this turn, then the next turn
agent_loop(tools) ==
  [h \in Histories |->
     IF \E i \in DOMAIN h : h[i] \notin Value THEN Ends("raise")
     ELSE IF Loop(h).asked # <<>>
     THEN IF Head(Loop(h).asked) \in tools THEN Calls(Head(Loop(h).asked)) ELSE Ends("raise")
     ELSE IF Loop(h).more THEN Calls(Model) ELSE Ends("return")]

-----------------------------------------------------------------------------
(* Correctness                                                              *)

\* A transcript: the model's turns, each followed by what it asked for, in order;
\* the last turn, and no other, is final or exhausts the budget.
IsTranscript(t) ==
  \E turns \in SUBSET DOMAIN t :
    LET next(i) == Min({k \in turns : k > i} \cup {Len(t) + 1})
    IN /\ Cardinality(turns) \in 1..MaxSteps /\ 1 \in turns
       /\ \A i \in turns :
            /\ t[i].name = Model
            /\ [k \in 1..(next(i) - i - 1) |-> t[i + k].name] = ToolCalls[t[i].val]
            /\ IsFinal(t[i].val) => i = Max(turns)
       /\ IsFinal(t[Max(turns)].val) \/ Cardinality(turns) = MaxSteps

\* What an agent answers with is what the journal holds: whatever crashes, resumes
\* and changes of its tools came between, the completed calls of a run that the loop
\* returns from are one transcript, within the budget (agent.py).
AgentAnswers ==
  \A d \in Driver : pc[d] = "replay" /\ code \in Agents /\ Awaited(d).kind = "return" =>
    LET done == EventsOf(journal, Len(journal), "TaskCompleted")
    IN IsTranscript([i \in DOMAIN done |-> [name |-> done[i].id.name, val |-> done[i].val]])
=============================================================================
