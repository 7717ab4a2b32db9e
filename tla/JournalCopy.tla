---------------------------- MODULE JournalCopy ----------------------------
(***************************************************************************)
(* What shipping promises (ADR-0044, ADR-0045): a run's journal grows, and *)
(* the part of it that the plane has acknowledged is a prefix that grows,  *)
(* whatever is lost, sent twice or refused on the way.                     *)
(***************************************************************************)
EXTENDS Naturals, Sequences

CONSTANTS Run

VARIABLES
  journal,   \* the events ever appended to each run
  copy       \* the copy of them that a reader of the plane is served

Init ==
  /\ journal = [r \in Run |-> <<>>]
  /\ copy = [r \in Run |-> <<>>]

Grow(r) ==
  /\ journal'[r] # <<>>
  /\ journal' = [journal EXCEPT ![r] = Append(@, journal'[r][Len(journal'[r])])]
  /\ UNCHANGED copy

Acknowledge(r) ==
  /\ \E n \in Len(copy[r]) .. Len(journal[r]) :
       copy' = [copy EXCEPT ![r] = SubSeq(journal[r], 1, n)]
  /\ UNCHANGED journal

Next == \E r \in Run : Grow(r) \/ Acknowledge(r)

Spec == Init /\ [][Next]_<<journal, copy>>
=============================================================================
