--------------------------- MODULE JournalProofs ---------------------------
(* Facts about the readers of a journal.                                    *)
EXTENDS Journal, FiniteSetTheorems, TLAPS

\* A finite set of natural numbers that is not empty has a greatest member, the
\* one Max chooses: what every reader that keeps the last entry relies on.
LEMMA MaxOfFiniteSet ==
  ASSUME NEW S \in SUBSET Nat, IsFiniteSet(S), S # {}
  PROVE  Max(S) \in S /\ \A y \in S : y <= Max(S)
<1> DEFINE above(x) == {y \in S : y > x}
           T == {above(x) : x \in S}
<1>1. IsWellFoundedOn(StrictSubsetOrdering(S), SUBSET S)
  BY FS_StrictSubsetOrderingWellFounded, FS_FiniteSubsetsOfFinite
<1>2. T \subseteq SUBSET S /\ T # {}
  OBVIOUS
<1>3. PICK A \in T : \A B \in T : <<B, A>> \notin StrictSubsetOrdering(S)
  <2> HIDE DEF T
  <2> QED BY <1>1, <1>2, WFMin
<1>4. PICK m \in S : A = above(m)
  OBVIOUS
<1>5. \A y \in S : m >= y
  <2> SUFFICES ASSUME NEW y \in S, ~(m >= y) PROVE FALSE
    OBVIOUS
  <2>1. y > m
    OBVIOUS
  <2>2. \A z \in S : z > y => z > m
    BY <2>1
  <2>3. y \in above(m) /\ y \notin above(y)
    BY <2>1
  <2>4. above(y) \subseteq above(m) /\ above(y) # above(m)
    BY <2>2, <2>3
  <2>5. <<above(y), A>> \in StrictSubsetOrdering(S)
    BY <2>4, <1>4 DEF StrictSubsetOrdering
  <2> QED BY <2>5, <1>3
<1>6. \E x \in S : \A y \in S : x >= y
  BY <1>5
<1> QED BY <1>6 DEF Max

\* The positions a reader selects from a prefix are finitely many.
LEMMA FinitePositions ==
  ASSUME NEW n \in Nat, NEW K \in SUBSET (1..n)
  PROVE  IsFiniteSet(K)
<1>1. IsFiniteSet(1..n)
  BY FS_Interval
<1> QED BY <1>1, FS_Subset

\* two sets carry the same marks, each once
SameMarks(A, B, f, g) ==
  /\ \A a \in A : \E b \in B : f[a] = g[b]
  /\ \A b \in B : \E a \in A : f[a] = g[b]
  /\ \A a, c \in A : f[a] = f[c] => a = c
  /\ \A b, c \in B : g[b] = g[c] => b = c

\* Such sets are equally large.
LEMMA EquallyMany ==
  ASSUME NEW A, IsFiniteSet(A), NEW B, IsFiniteSet(B), NEW f, NEW g, SameMarks(A, B, f, g)
  PROVE  Cardinality(A) = Cardinality(B)
<1> DEFINE h == [a \in A |-> CHOOSE b \in B : f[a] = g[b]]
<1>1. \A a \in A : h[a] \in B /\ f[a] = g[h[a]]
  BY DEF SameMarks
<1>3. h \in [A -> B]
  BY <1>1
<1> HIDE DEF h
<1>4. h \in Injection(A, B)
  BY <1>1, <1>3 DEF Injection, IsInjective, SameMarks
<1>5. h \in Surjection(A, B)
  <2>1. ASSUME NEW b \in B PROVE \E a \in A : h[a] = b
    <3>1. PICK a \in A : f[a] = g[b]
      BY DEF SameMarks
    <3>2. h[a] \in B /\ g[h[a]] = g[b]
      BY <1>1, <3>1
    <3> QED BY <3>2 DEF SameMarks
  <2> QED BY <1>3, <2>1 DEF Surjection
<1> QED BY <1>4, <1>5, FS_Injection

\* Positions that carry the same marks are equally many.
LEMMA SameNumber ==
  ASSUME NEW n \in Nat, NEW A \in SUBSET (1..n), NEW m \in Nat, NEW B \in SUBSET (1..m),
         NEW f, NEW g, SameMarks(A, B, f, g)
  PROVE  Cardinality(A) = Cardinality(B)
<1>1. IsFiniteSet(A) /\ IsFiniteSet(B)
  BY FinitePositions
<1> QED BY <1>1, EquallyMany

\* The last entry a drive keeps of an identity is an entry of the prefix it
\* loaded, of that type and identity.
LEMMA LatestIsRecorded ==
  ASSUME NEW j, NEW n \in Nat, NEW type, NEW id, Recorded(j, n, type, id)
  PROVE  /\ LatestIndex(j, n, type, id) \in 1..n
         /\ j[LatestIndex(j, n, type, id)].type = type
         /\ j[LatestIndex(j, n, type, id)].id = id
<1> DEFINE S == {i \in 1..n : j[i].type = type /\ j[i].id = id}
<1>1. S \in SUBSET Nat /\ S # {}
  BY DEF Recorded
<1>2. IsFiniteSet(S)
  BY FinitePositions
<1>3. Max(S) \in S
  <2> HIDE DEF S
  <2> QED BY <1>1, <1>2, MaxOfFiniteSet
<1> QED BY <1>3 DEF LatestIndex

\* The status read back from a journal that ended is the one its last terminal
\* event recorded.
LEMMA LastTerminal ==
  ASSUME NEW j, DOMAIN j = 1..Len(j), Len(j) \in Nat, TerminalIndices(j) # {}
  PROVE  /\ RecordedTerminalStatus(j) \in TerminalStatus
         /\ \E i \in TerminalIndices(j) :
              /\ \A k \in TerminalIndices(j) : k <= i
              /\ RecordedTerminalStatus(j) = StatusOf(j[i].type)
<1>1. TerminalIndices(j) \in SUBSET Nat
  BY DEF TerminalIndices
<1>2. IsFiniteSet(TerminalIndices(j))
  BY FinitePositions DEF TerminalIndices
<1> DEFINE m == Max(TerminalIndices(j))
<1>3. m \in TerminalIndices(j) /\ \A k \in TerminalIndices(j) : k <= m
  BY <1>1, <1>2, MaxOfFiniteSet
<1>4. j[m].type \in TerminalType
  BY <1>3 DEF TerminalIndices
<1> HIDE DEF m
<1>5. StatusOf(j[m].type) \in TerminalStatus
  BY <1>4 DEF StatusOf, TerminalType, TerminalStatus
<1> QED BY <1>3, <1>5 DEF RecordedTerminalStatus, m

\* the attempts of a call that a prefix records
Attempts(j, n, id) ==
  {k \in 1..n : /\ j[k].id = id
                /\ j[k].type \in {"TaskAttemptStarted", "TaskAttemptFailed"}}

\* how many events of a type a prefix records of a call
Places(j, n, type, id) == {i \in 1..n : j[i].type = type /\ j[i].id = id}
Tally(j, n, type, id) == Cardinality(Places(j, n, type, id))

\* Attempt numbers continue from the greatest number recorded of the call so far.
LEMMA MaxAttemptFacts ==
  ASSUME NEW j, NEW n \in Nat, NEW id, \A i \in 1..n : j[i].n \in Nat
  PROVE  /\ MaxAttempt(j, n, id) \in Nat
         /\ \A i \in Attempts(j, n, id) : j[i].n <= MaxAttempt(j, n, id)
         /\ \/ MaxAttempt(j, n, id) = 0
            \/ \E i \in Attempts(j, n, id) : j[i].n = MaxAttempt(j, n, id)
<1> DEFINE K == Attempts(j, n, id)
           N == {j[i].n : i \in K}
           f == [i \in K |-> j[i].n]
<1>0. K \in SUBSET (1..n)
  BY DEF Attempts
<1>1. IsFiniteSet(K)
  <2> HIDE DEF K
  <2> QED BY <1>0, FinitePositions
<1>2. f \in Surjection(K, N)
  BY DEF Surjection
<1>3. IsFiniteSet(N)
  <2> HIDE DEF K, N, f
  <2> QED BY <1>1, <1>2, FS_Surjection
<1>4. N \in SUBSET Nat
  BY <1>0
<1>5. IsFiniteSet({0} \cup N) /\ {0} \cup N \in SUBSET Nat
  <2> HIDE DEF N
  <2>1. IsFiniteSet(N \cup {0})
    BY <1>3, FS_AddElement
  <2> QED BY <2>1, <1>4
<1>6. Max({0} \cup N) \in {0} \cup N /\ \A y \in {0} \cup N : y <= Max({0} \cup N)
  <2> HIDE DEF N
  <2> QED BY <1>5, MaxOfFiniteSet
<1>7. MaxAttempt(j, n, id) = Max({0} \cup N)
  BY DEF MaxAttempt, Attempts
<1> QED BY <1>5, <1>6, <1>7

LEMMA FailuresAreCounted ==
  ASSUME NEW j, NEW n \in Nat, NEW id
  PROVE  Failures(j, n, id) \in Nat
<1> DEFINE K == {i \in 1..n : j[i].type = "TaskAttemptFailed" /\ j[i].id = id}
<1>1. IsFiniteSet(K)
  BY FinitePositions
<1> QED BY <1>1, FS_CardinalityType DEF Failures

LEMMA TallyIsNat ==
  ASSUME NEW j, NEW n \in Nat, NEW type, NEW id
  PROVE  IsFiniteSet(Places(j, n, type, id)) /\ Tally(j, n, type, id) \in Nat
<1>1. Places(j, n, type, id) \in SUBSET (1..n)
  BY DEF Places
<1>2. IsFiniteSet(Places(j, n, type, id))
  BY <1>1, FinitePositions
<1> QED BY <1>2, FS_CardinalityType DEF Tally

\* the first m events of k are the first n of j, and one more
OneMore(j, n, k, m) == n \in Nat /\ m = n + 1 /\ \A i \in 1..n : k[i] = j[i]

\* An event behind a prefix counts if it is one of those that are counted.
LEMMA TallyGrows ==
  ASSUME NEW j, NEW n, NEW k, NEW m, OneMore(j, n, k, m), NEW type, NEW id
  PROVE  /\ Tally(j, n, type, id) \in Nat /\ Tally(k, m, type, id) \in Nat
         /\ k[m].type = type /\ k[m].id = id => Tally(k, m, type, id) = Tally(j, n, type, id) + 1
         /\ k[m].type # type \/ k[m].id # id => Tally(k, m, type, id) = Tally(j, n, type, id)
<1> DEFINE A == Places(j, n, type, id)
           B == Places(k, m, type, id)
<1>z. n \in Nat /\ m = n + 1 /\ \A i \in 1..n : k[i] = j[i]
  BY DEF OneMore
<1>0. IsFiniteSet(A) /\ Tally(j, n, type, id) \in Nat /\ Tally(k, m, type, id) \in Nat
  BY <1>z, TallyIsNat
<1>1. IsFiniteSet(A) /\ m \notin A
  BY <1>z, <1>0 DEF Places
<1>2. CASE k[m].type = type /\ k[m].id = id
  <2>1. B = A \cup {m}
    BY <1>z, <1>2 DEF Places
  <2>2. Cardinality(B) = Cardinality(A) + 1
    <3> HIDE DEF A, B
    <3> QED BY <1>1, <2>1, FS_AddElement
  <2> QED BY <1>0, <1>2, <2>2 DEF Tally
<1>3. CASE ~(k[m].type = type /\ k[m].id = id)
  <2>1. B = A
    BY <1>z, <1>3 DEF Places
  <2> QED BY <1>0, <1>3, <2>1 DEF Tally
<1> QED BY <1>2, <1>3

LEMMA TallyStays ==
  ASSUME NEW j, NEW k, NEW n, \A i \in 1..n : k[i] = j[i], NEW type, NEW id
  PROVE  Tally(k, n, type, id) = Tally(j, n, type, id)
<1>1. Places(k, n, type, id) = Places(j, n, type, id)
  BY DEF Places
<1> QED BY <1>1 DEF Tally

\* An event is one more than those before it, and the last is the one that completes
\* the count.
LEMMA TallyBefore ==
  ASSUME NEW j, NEW n \in Nat, NEW type, NEW id, NEW i \in Places(j, n, type, id)
  PROVE  /\ Tally(j, i - 1, type, id) + 1 <= Tally(j, n, type, id)
         /\ (\A k \in Places(j, n, type, id) : k <= i) =>
              Tally(j, i - 1, type, id) + 1 = Tally(j, n, type, id)
<1> DEFINE A == Places(j, i - 1, type, id)
           B == Places(j, n, type, id)
<1>0. i \in 1..n /\ i - 1 \in Nat
  BY DEF Places
<1>a. IsFiniteSet(A) /\ IsFiniteSet(B)
  BY <1>0, TallyIsNat
<1>b. i \notin A /\ A \cup {i} \in SUBSET B
  BY <1>0 DEF Places
<1>1. /\ IsFiniteSet(A) /\ IsFiniteSet(B) /\ i \notin A /\ A \cup {i} \in SUBSET B
      /\ Cardinality(A) \in Nat /\ Cardinality(B) \in Nat
  BY <1>a, <1>b, FS_CardinalityType
<1>2. Cardinality(A \cup {i}) = Cardinality(A) + 1
  <2> HIDE DEF A, B
  <2> QED BY <1>1, FS_AddElement
<1>3. Cardinality(A \cup {i}) <= Cardinality(B)
  <2> HIDE DEF A, B
  <2> QED BY <1>1, FS_Subset
<1>4. (\A k \in B : k <= i) => A \cup {i} = B
  BY <1>0 DEF Places
<1> QED BY <1>2, <1>3, <1>4 DEF Tally

\* Where attempts ascend, the greatest number recorded is how many were started.
LEMMA MaxAttemptCounts ==
  ASSUME NEW j, NEW n \in Nat, NEW id, NEW m \in 0..n,
         \A i \in 1..n : j[i].n \in Nat,
         \A i \in Places(j, n, "TaskAttemptStarted", id) :
           j[i].n = 1 + Tally(j, i - 1, "TaskAttemptStarted", id),
         \A i \in Places(j, n, "TaskAttemptFailed", id) :
           j[i].n <= Tally(j, n, "TaskAttemptStarted", id),
         Attempts(j, n, id) \subseteq 1..m
  PROVE  MaxAttempt(j, m, id) = Tally(j, n, "TaskAttemptStarted", id)
<1> DEFINE S == Places(j, n, "TaskAttemptStarted", id)
           c == Tally(j, n, "TaskAttemptStarted", id)
           a == MaxAttempt(j, m, id)
<1>a. S \in SUBSET Nat
  BY DEF Places
<1>0. m \in Nat /\ c \in Nat /\ IsFiniteSet(S) /\ S \in SUBSET Nat
  BY <1>a, TallyIsNat
<1>1. Attempts(j, m, id) = S \cup Places(j, n, "TaskAttemptFailed", id)
  BY DEF Attempts, Places
<1>2. \A i \in S : j[i].n <= c
  <2> SUFFICES ASSUME NEW i \in S PROVE j[i].n <= c
    OBVIOUS
  <2>1. Tally(j, i - 1, "TaskAttemptStarted", id) + 1 <= c
    BY TallyBefore
  <2>2. i - 1 \in Nat
    BY DEF Places
  <2>3. Tally(j, i - 1, "TaskAttemptStarted", id) \in Nat
    BY <2>2, TallyIsNat
  <2> QED BY <1>0, <2>1, <2>3
<1>3. /\ a \in Nat /\ \A i \in Attempts(j, m, id) : j[i].n <= a
      /\ a = 0 \/ \E i \in Attempts(j, m, id) : j[i].n = a
  BY <1>0, MaxAttemptFacts
<1>4. a <= c
  BY <1>0, <1>1, <1>2, <1>3
<1>5. c <= a
  <2>1. CASE S = {}
    BY <1>0, <1>3, <2>1, FS_EmptySet DEF Tally
  <2>2. CASE S # {}
    <3>1. PICK i \in S : \A k \in S : k <= i
      <4> HIDE DEF S
      <4> QED BY <1>0, <2>2, MaxOfFiniteSet
    <3>2. j[i].n = 1 + Tally(j, i - 1, "TaskAttemptStarted", id)
      OBVIOUS
    <3>3. Tally(j, i - 1, "TaskAttemptStarted", id) + 1 = c
      BY <3>1, TallyBefore
    <3>4. i - 1 \in Nat
      BY DEF Places
    <3>5. Tally(j, i - 1, "TaskAttemptStarted", id) \in Nat
      BY <3>4, TallyIsNat
    <3> QED BY <1>1, <1>3, <3>2, <3>3, <3>5
  <2> QED BY <2>1, <2>2
<1> QED BY <1>0, <1>3, <1>4, <1>5
=============================================================================
