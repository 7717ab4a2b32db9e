---------------------------- MODULE FanOutViews ----------------------------
(* What readers are told of a fan-out of FanOut, whose run may survive the  *)
(* failure of a call, and in which several calls are under way at once.     *)
EXTENDS FanOut

V == INSTANCE Views

\* the items of one map: the calls scheduled with its map_group
ItemsOf(t) == {id \in V!CallsOf(journal) : id.name = t /\ id.ord \in Key}

StatusOfCall(id) == V!TaskStatus(V!Scan(journal, id), status = "failed")

StatusOfMap(t) == V!MapStatus({StatusOfCall(id) : id \in ItemsOf(t)})

-----------------------------------------------------------------------------
(* Correctness                                                              *)

\* A reader needs no TaskFailed to tell a call that failed for good: the spent
\* budget of its last attempt says so (views.py), wherever a crash fell.  A
\* TaskCompleted says the opposite, and task_detail agrees with the tree.
CallsReadAsJudged ==
  \A id \in V!CallsOf(journal) :
    LET shown == StatusOfCall(id)
        detail == V!TaskDetail(journal, id).status
    IN  /\ shown = "completed" <=> Recorded(journal, Len(journal), "TaskCompleted", id)
        /\ Recorded(journal, Len(journal), "TaskFailed", id) => shown = "failed"
        /\ \/ shown = detail
           \/ status = "failed" /\ shown = "failed" /\ detail = "running"

\* A map whose items the workflow was handed reads as it went: failed as soon as one
\* of them was an error, completed when all of them were values.
MapsReadAsHanded ==
  \A d \in Driver : \A r \in DOMAIN frame[d].seen : \A t \in Task :
    LET handed == {o \in {frame[d].seen[r][i] : i \in DOMAIN frame[d].seen[r]} :
                     o.id \in ItemsOf(t)}
    IN  /\ (\E o \in handed : o.slot = "error") => StatusOfMap(t) = "failed"
        /\ (/\ handed # {} /\ {o.id : o \in handed} = ItemsOf(t)
            /\ \A o \in handed : o.slot \in Value) => StatusOfMap(t) = "completed"

\* Readers are told of a fan-out what its workflow was told.
ReadersSeeVerdicts == CallsReadAsJudged /\ MapsReadAsHanded
=============================================================================
