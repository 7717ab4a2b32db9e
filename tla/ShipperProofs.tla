----------------------------- MODULE ShipperProofs -----------------------------
(***************************************************************************)
(* Theorems about a data directory and what is shipped from it.  Of        *)
(* BlobStore, for any runs, blobs and bounds: a fork is a prefix of its    *)
(* source, and no sweep takes a blob that a run references.  Of Shipper,   *)
(* for any callers too: what is shipped is what the journal holds, the     *)
(* plane can resolve it, and every call ends.                              *)
(***************************************************************************)
EXTENDS Shipper, FiniteSetTheorems, WellFoundedInduction, TLAPS

-----------------------------------------------------------------------------
(* The journals of a data directory                                         *)

Events == Seq(Event)
Settled == {"terminal", "deleted"}

\* Of the first n events of s every lineage record follows exactly the events of a
\* source that will get no more.
Follows(s, n, w, st) ==
  \A i \in 1..n : s[i].source # NoRun =>
    /\ s[i].source \in Run /\ st[s[i].source] \in Settled
    /\ s[i].point \in Nat /\ i = s[i].point + 1 /\ s[i].point <= Len(w[s[i].source])
    /\ \A k \in 1..s[i].point : s[k] = w[s[i].source][k]

\* what the writer's run will hold when the writer is done with it
Planned ==
  LET done == written[writer.run]
      at == IF writer.at = "insert" THEN 1 ELSE 0
  IN  [i \in Nat |-> IF i <= Len(done) THEN done[i]
                     ELSE IF i = Len(done) + at THEN writer.event
                     ELSE writer.left[i - Len(done) - at]]
PlannedLength ==
  Len(written[writer.run]) + (IF writer.at = "insert" THEN 1 ELSE 0) + Len(writer.left)

Writers == [at : {"idle", "seed", "insert"}, run : Run \cup {NoRun}, event : Event, left : Events]

JournalsOK ==
  /\ events \in [Run -> Events] /\ written \in [Run -> Events]
  /\ state \in [Run -> {"absent", "open"} \cup Settled]
  /\ \A r \in Run : /\ state[r] = "absent" => written[r] = <<>>
                    /\ events[r] = IF state[r] = "deleted" THEN <<>> ELSE written[r]

\* The writer only works on an open run, and a fork is seeded to its end.
WriterOK ==
  /\ writer \in Writers
  /\ writer.at # "idle" => writer.run \in Run /\ state[writer.run] = "open"
  /\ writer.at = "seed" => writer.left # <<>>

LineagesOK ==
  /\ \A r \in Run : Follows(written[r], Len(written[r]), written, state)
  /\ writer.at # "idle" => Follows(Planned, PlannedLength, written, state)

LocalInv == JournalsOK /\ WriterOK /\ LineagesOK

\* A shorter sequence with the same events keeps its lineages.
LEMMA PrefixFollows ==
  ASSUME NEW s, NEW t, NEW n \in Nat, NEW m \in Nat, n <= m, NEW w, NEW st,
         \A i \in 1..n : s[i] = t[i], Follows(t, m, w, st)
  PROVE  Follows(s, n, w, st)
BY DEF Follows

\* Lineages stay as long as their sources do.
LEMMA SettledFollows ==
  ASSUME NEW s, NEW n \in Nat, NEW w, NEW st, NEW w2, NEW st2, Follows(s, n, w, st),
         \A r \in Run : st[r] \in Settled => st2[r] \in Settled /\ w2[r] = w[r]
  PROVE  Follows(s, n, w2, st2)
BY DEF Follows

\* One more event that is no lineage record changes nothing.
LEMMA PlainFollows ==
  ASSUME NEW s, NEW t, NEW n \in Nat, NEW w, NEW st,
         \A i \in 1..n : t[i] = s[i], t[n + 1].source = NoRun, Follows(s, n, w, st)
  PROVE  Follows(t, n + 1, w, st)
<1>. SUFFICES ASSUME NEW i \in 1..(n + 1), t[i].source # NoRun
              PROVE  /\ t[i].source \in Run /\ st[t[i].source] \in Settled
                     /\ t[i].point \in Nat /\ i = t[i].point + 1
                     /\ t[i].point <= Len(w[t[i].source])
                     /\ \A k \in 1..t[i].point : t[k] = w[t[i].source][k]
  BY DEF Follows
<1>1. i \in 1..n /\ t[i] = s[i]
  OBVIOUS
<1>. QED BY <1>1 DEF Follows

LEMMA PlannedLengthIsNat ==
  ASSUME JournalsOK, WriterOK, writer.at # "idle" PROVE PlannedLength \in Nat
BY DEF JournalsOK, WriterOK, Writers, PlannedLength, Events

LEMMA LocalInvInit == LocalInit => LocalInv
<1>. SUFFICES ASSUME LocalInit PROVE LocalInv
  OBVIOUS
<1>1. JournalsOK
  BY DEF LocalInit, JournalsOK, Events, Settled
<1>2. WriterOK
  <2>1. Plain(NoBlob) \in Event
    BY DEF Plain, Event
  <2>. QED BY <2>1 DEF LocalInit, WriterOK, Writers, Rest, Events
<1>3. LineagesOK
  BY DEF LocalInit, LineagesOK, Follows, Rest
<1>. QED BY <1>1, <1>2, <1>3 DEF LocalInv

\* Blobs, sweeps, files and time are no part of it.
LEMMA UnmovedKeeps ==
  ASSUME LocalInv, UNCHANGED <<events, state, writer, written>> PROVE LocalInv'
<1>1. JournalsOK'
  BY DEF LocalInv, JournalsOK
<1>2. WriterOK'
  BY DEF LocalInv, WriterOK
<1>3. Planned' = Planned /\ PlannedLength' = PlannedLength
  BY DEF Planned, PlannedLength
<1>4. LineagesOK'
  BY <1>3 DEF LocalInv, LineagesOK
<1>. QED BY <1>1, <1>2, <1>4 DEF LocalInv

\* The status of a run without events, or of one that is done, can change.
LEMMA StateKeeps ==
  ASSUME LocalInv, UNCHANGED written, JournalsOK', WriterOK',
         \A r \in Run : state[r] \in Settled => state'[r] \in Settled,
         writer'.at # "idle" => UNCHANGED writer
  PROVE  LocalInv'
<1>1. ASSUME NEW r \in Run PROVE Follows(written[r], Len(written[r]), written, state')
  <2>1. Len(written[r]) \in Nat
    BY DEF LocalInv, JournalsOK, Events
  <2>2. Follows(written[r], Len(written[r]), written, state)
    BY DEF LocalInv, LineagesOK
  <2>. QED BY <2>1, <2>2, SettledFollows
<1>2. ASSUME writer'.at # "idle" PROVE Follows(Planned, PlannedLength, written, state)'
  <2>1. Planned' = Planned /\ PlannedLength' = PlannedLength
    BY <1>2 DEF Planned, PlannedLength
  <2>2. PlannedLength \in Nat
    BY <1>2, PlannedLengthIsNat DEF LocalInv
  <2>3. Follows(Planned, PlannedLength, written, state)
    BY <1>2 DEF LocalInv, LineagesOK
  <2>4. Follows(Planned, PlannedLength, written, state')
    BY <2>2, <2>3, SettledFollows
  <2>. QED BY <2>1, <2>4
<1>3. LineagesOK'
  BY <1>1, <1>2 DEF LineagesOK
<1>. QED BY <1>3 DEF LocalInv

LEMMA CreateRunKeeps == ASSUME LocalInv, NEW r \in Run, CreateRun(r) PROVE LocalInv'
<1>1. JournalsOK'
  BY DEF LocalInv, JournalsOK, CreateRun, Settled
<1>2. WriterOK'
  BY DEF LocalInv, WriterOK, CreateRun
<1>3. \A q \in Run : state[q] \in Settled => state'[q] \in Settled
  BY DEF LocalInv, JournalsOK, CreateRun, Settled
<1>. QED BY <1>1, <1>2, <1>3, StateKeeps DEF CreateRun

LEMMA FinishKeeps == ASSUME LocalInv, NEW r \in Run, Finish(r) PROVE LocalInv'
<1>1. JournalsOK'
  BY DEF LocalInv, JournalsOK, Finish, Settled
<1>2. WriterOK'
  BY DEF LocalInv, WriterOK, Finish
<1>3. \A q \in Run : state[q] \in Settled => state'[q] \in Settled
  BY DEF LocalInv, JournalsOK, Finish, Settled
<1>. QED BY <1>1, <1>2, <1>3, StateKeeps DEF Finish

\* A run that was deleted had ended: what follows it is kept in the forks' own copies.
LEMMA DeleteRunKeeps == ASSUME LocalInv, NEW r \in Run, DeleteRun(r) PROVE LocalInv'
<1>1. JournalsOK'
  BY DEF LocalInv, JournalsOK, DeleteRun, Settled, Events
<1>2. WriterOK'
  BY DEF LocalInv, WriterOK, DeleteRun
<1>3. \A q \in Run : state[q] \in Settled => state'[q] \in Settled
  BY DEF LocalInv, JournalsOK, DeleteRun, Settled
<1>. QED BY <1>1, <1>2, <1>3, StateKeeps DEF DeleteRun

LEMMA WorkerCrashKeeps == ASSUME LocalInv, WorkerCrash PROVE LocalInv'
<1>1. JournalsOK'
  BY DEF LocalInv, JournalsOK, WorkerCrash
<1>2. WriterOK'
  <2>1. Plain(NoBlob) \in Event
    BY DEF Plain, Event
  <2>. QED BY <2>1 DEF LocalInv, WriterOK, WorkerCrash, Writers, Rest, Events
<1>3. writer'.at = "idle"
  BY DEF WorkerCrash, Rest
<1>. QED BY <1>1, <1>2, <1>3, StateKeeps DEF WorkerCrash

\* The writer takes up work: it is enough that what it plans has true lineages.
LEMMA PlanKeeps ==
  ASSUME LocalInv, UNCHANGED <<events, state, written>>, WriterOK',
         Follows(Planned', PlannedLength', written, state)
  PROVE  LocalInv'
<1>1. JournalsOK'
  BY DEF LocalInv, JournalsOK
<1>2. LineagesOK'
  BY DEF LocalInv, LineagesOK
<1>. QED BY <1>1, <1>2 DEF LocalInv

LEMMA CommitEventKeeps ==
  ASSUME LocalInv, NEW r \in Run, NEW b \in Content, CommitEvent(r, b) PROVE LocalInv'
<1>. DEFINE e == Plain(b)
<1>1. e \in Event /\ e.source = NoRun
  BY NamesAreApart DEF Plain, Event
<1>. HIDE DEF e
<1>2. writer' = [at |-> "insert", run |-> r, event |-> e, left |-> <<>>]
  BY DEF CommitEvent, BeginAppend, e
<1>3. UNCHANGED <<events, state, written>> /\ state[r] = "open"
  BY DEF CommitEvent, BeginAppend
<1>4. WriterOK'
  BY <1>1, <1>2, <1>3 DEF WriterOK, Writers, Events
<1>5. Len(written[r]) \in Nat /\ Follows(written[r], Len(written[r]), written, state)
  BY DEF LocalInv, JournalsOK, LineagesOK, Events
<1>6. PlannedLength' = Len(written[r]) + 1
  BY <1>2, <1>3, <1>5 DEF PlannedLength
<1>7. /\ \A i \in 1..Len(written[r]) : Planned'[i] = written[r][i]
      /\ Planned'[Len(written[r]) + 1] = e
  BY <1>2, <1>3, <1>5 DEF Planned
<1>8. Follows(Planned', PlannedLength', written, state)
  BY <1>1, <1>5, <1>6, <1>7, PlainFollows
<1>. QED BY <1>3, <1>4, <1>8, PlanKeeps

LEMMA SeedEventKeeps == ASSUME LocalInv, SeedEvent PROVE LocalInv'
<1>. DEFINE l == writer.left
            w == written[writer.run]
            rest == Tail(l)
<1>1. /\ writer \in Writers /\ l \in Events /\ l # <<>> /\ writer.at = "seed"
      /\ writer.run \in Run /\ state[writer.run] = "open" /\ w \in Events
  BY DEF LocalInv, WriterOK, JournalsOK, SeedEvent, Writers
<1>2. writer' = [at |-> "insert", run |-> writer.run, event |-> Head(l), left |-> rest]
  BY DEF SeedEvent, BeginAppend
<1>3. UNCHANGED <<events, state, written>>
  BY DEF SeedEvent, BeginAppend
<1>4. /\ Head(l) \in Event /\ Head(l) = l[1] /\ rest \in Events
      /\ Len(l) \in Nat \ {0} /\ Len(rest) = Len(l) - 1 /\ Len(w) \in Nat
      /\ \A i \in 1..Len(rest) : rest[i] = l[i + 1]
  BY <1>1 DEF Events
<1>5. /\ writer.left = l /\ written[writer.run] = w /\ written'[writer'.run] = w
      /\ writer'.left = rest /\ writer'.event = Head(l) /\ writer'.at = "insert"
  BY <1>2, <1>3
<1>6. WriterOK'
  BY <1>1, <1>2, <1>3, <1>4 DEF WriterOK, Writers
<1>. HIDE DEF l, w, rest
<1>7. PlannedLength' = Len(w) + Len(l) /\ PlannedLength = Len(w) + Len(l)
  <2>1. PlannedLength' = Len(w) + 1 + Len(rest)
    BY <1>5 DEF PlannedLength
  <2>2. PlannedLength = Len(w) + 0 + Len(l)
    BY <1>1, <1>5 DEF PlannedLength
  <2>. QED BY <1>4, <2>1, <2>2
<1>8. ASSUME NEW i \in 1..(Len(w) + Len(l)) PROVE Planned'[i] = Planned[i]
  <2>1. Planned'[i] = IF i <= Len(w) THEN w[i] ELSE IF i = Len(w) + 1 THEN Head(l)
                      ELSE rest[i - Len(w) - 1]
    BY <1>4, <1>5 DEF Planned
  <2>2. Planned[i] = IF i <= Len(w) THEN w[i] ELSE l[i - Len(w)]
    BY <1>1, <1>4, <1>5 DEF Planned
  <2>3. i > Len(w) + 1 => rest[i - Len(w) - 1] = l[i - Len(w)]
    BY <1>4
  <2>. QED BY <1>4, <2>1, <2>2, <2>3
<1>9. Follows(Planned, Len(w) + Len(l), written, state)
  BY <1>1, <1>7 DEF LocalInv, LineagesOK
<1>10. Len(w) + Len(l) \in Nat
  BY <1>4
<1>11. Follows(Planned', Len(w) + Len(l), written, state)
  BY <1>8, <1>9, <1>10, PrefixFollows
<1>. QED BY <1>3, <1>6, <1>7, <1>11, PlanKeeps

\* The event joins its run, which is open and so nobody's source.
LEMMA InsertKeeps == ASSUME LocalInv, Insert PROVE LocalInv'
<1>. DEFINE r == writer.run
            w == written[r]
            e == writer.event
            l == writer.left
            a == Append(w, e)
<1>1. /\ writer \in Writers /\ writer.at = "insert" /\ r \in Run /\ state[r] = "open"
      /\ w \in Events /\ e \in Event /\ l \in Events /\ events[r] = w
  BY DEF LocalInv, WriterOK, JournalsOK, Insert, Writers, Settled
<1>2. /\ a \in Events /\ Len(w) \in Nat /\ Len(a) = Len(w) + 1 /\ Len(l) \in Nat
      /\ a[Len(w) + 1] = e /\ \A i \in 1..Len(w) : a[i] = w[i]
  BY <1>1 DEF Events
<1>3. /\ written' = [written EXCEPT ![r] = a] /\ events' = [events EXCEPT ![r] = a]
      /\ writer' = [writer EXCEPT !.at = IF l = <<>> THEN "idle" ELSE "seed"]
      /\ UNCHANGED state
  BY <1>1 DEF Insert
<1>4. written \in [Run -> Events] /\ events \in [Run -> Events]
  BY DEF LocalInv, JournalsOK
<1>5. writer'.run = r /\ writer'.left = l /\ writer'.at = (IF l = <<>> THEN "idle" ELSE "seed")
  BY <1>1, <1>3 DEF Writers
<1>6. WriterOK'
  <2>1. writer' \in Writers
    BY <1>1, <1>3 DEF Writers
  <2>. QED BY <1>1, <1>3, <1>5, <2>1 DEF WriterOK
<1>7. writer.run = r /\ writer.left = l /\ writer.event = e /\ written[r] = w
  OBVIOUS
<1>8. written'[r] = a /\ \A q \in Run : q # r => written'[q] = written[q]
  BY <1>1, <1>3, <1>4
<1>. HIDE DEF r, w, e, l, a
<1>9. JournalsOK'
  BY <1>1, <1>2, <1>3, <1>4 DEF LocalInv, JournalsOK, Settled
<1>10. \A q \in Run : state[q] \in Settled => state[q] \in Settled /\ written'[q] = written[q]
  BY <1>1, <1>8 DEF Settled
<1>11. PlannedLength = Len(w) + 1 + Len(l) /\ Follows(Planned, PlannedLength, written, state)
  BY <1>1, <1>7 DEF PlannedLength, LocalInv, LineagesOK
<1>12. \A i \in Nat : Planned[i] = IF i <= Len(w) THEN w[i] ELSE IF i = Len(w) + 1 THEN e
                                   ELSE l[i - Len(w) - 1]
  BY <1>1, <1>7 DEF Planned
<1>13. PlannedLength \in Nat /\ Len(a) <= PlannedLength
  BY <1>2, <1>11
<1>14. Follows(Planned, PlannedLength, written', state)
  BY <1>10, <1>11, <1>13, SettledFollows
<1>15. ASSUME NEW q \in Run PROVE Follows(written'[q], Len(written'[q]), written', state)
  <2>1. CASE q = r
    <3>1. \A i \in 1..Len(a) : a[i] = Planned[i]
      BY <1>2, <1>12
    <3>2. Len(a) \in Nat
      BY <1>2
    <3>3. Follows(a, Len(a), written', state)
      BY <1>13, <1>14, <3>1, <3>2, PrefixFollows
    <3>. QED BY <1>8, <2>1, <3>3
  <2>2. CASE q # r
    <3>1. Len(written[q]) \in Nat /\ Follows(written[q], Len(written[q]), written, state)
      BY DEF LocalInv, JournalsOK, LineagesOK, Events
    <3>2. Follows(written[q], Len(written[q]), written', state)
      BY <1>10, <3>1, SettledFollows
    <3>. QED BY <1>8, <2>2, <3>2
  <2>. QED BY <2>1, <2>2
<1>16. ASSUME writer'.at # "idle" PROVE Follows(Planned', PlannedLength', written', state)
  <2>1. l # <<>> /\ writer'.at = "seed"
    BY <1>5, <1>16
  <2>2. PlannedLength' = Len(a) + 0 + Len(l)
    BY <1>5, <1>8, <2>1 DEF PlannedLength
  <2>3. PlannedLength' = PlannedLength
    BY <1>2, <1>11, <2>2
  <2>4. \A i \in Nat : Planned'[i] = IF i <= Len(a) THEN a[i] ELSE l[i - Len(a)]
    BY <1>2, <1>5, <1>8, <2>1 DEF Planned
  <2>5. \A i \in 1..PlannedLength : Planned'[i] = Planned[i]
    BY <1>2, <1>12, <1>13, <2>4
  <2>6. Follows(Planned', PlannedLength, written', state)
    BY <1>13, <1>14, <2>5, PrefixFollows
  <2>. QED BY <2>3, <2>6
<1>17. LineagesOK'
  BY <1>3, <1>15, <1>16 DEF LineagesOK
<1>. QED BY <1>6, <1>9, <1>17 DEF LocalInv

\* A fork plans the prefix of a run that has ended, and the record of it.
LEMMA BeginForkKeeps ==
  ASSUME LocalInv, NEW s \in Run, NEW r \in Run, NEW k \in DOMAIN events[s], BeginFork(s, r, k)
  PROVE  LocalInv'
<1>. DEFINE w == written[s]
            f == [Plain(NoBlob) EXCEPT !.source = s, !.point = k]
            l == Append(SubSeq(w, 1, k), f)
<1>1. /\ writer.at = "idle" /\ state[s] = "terminal" /\ state[r] = "absent" /\ s # r
      /\ events[s] = w /\ w \in Events /\ written[r] = <<>>
  BY DEF LocalInv, JournalsOK, BeginFork, Settled
<1>2. k \in Nat /\ k <= Len(w) /\ k >= 1 /\ Len(w) \in Nat
  BY <1>1 DEF Events
<1>3. f \in Event /\ f.source = s /\ f.point = k
  BY <1>2 DEF Plain, Event
<1>4. /\ state' = [state EXCEPT ![r] = "open"] /\ UNCHANGED <<events, written>>
      /\ writer' = [Rest EXCEPT !.at = "seed", !.run = r, !.left = l]
  BY <1>1 DEF BeginFork, Prefix
<1>. HIDE DEF f
<1>5. /\ SubSeq(w, 1, k) \in Events /\ Len(SubSeq(w, 1, k)) = k
      /\ \A i \in 1..k : SubSeq(w, 1, k)[i] = w[i]
  BY <1>1, <1>2 DEF Events
<1>6. /\ l \in Events /\ l # <<>> /\ Len(l) = k + 1 /\ l[k + 1] = f
      /\ \A i \in 1..k : l[i] = w[i]
  BY <1>2, <1>3, <1>5 DEF Events
<1>7. writer'.at = "seed" /\ writer'.run = r /\ writer'.left = l
  BY <1>4 DEF Rest
<1>. HIDE DEF l
<1>8. WriterOK'
  <2>1. Plain(NoBlob) \in Event
    BY DEF Plain, Event
  <2>2. writer' \in Writers
    BY <1>4, <1>6, <2>1 DEF Rest, Writers
  <2>3. state'[r] = "open"
    BY <1>1, <1>4 DEF LocalInv, JournalsOK
  <2>. QED BY <1>6, <1>7, <2>2, <2>3 DEF WriterOK
<1>9. JournalsOK'
  BY <1>1, <1>4 DEF LocalInv, JournalsOK, Settled
<1>10. \A q \in Run : state[q] \in Settled => state'[q] \in Settled /\ written[q] = written[q]
  BY <1>1, <1>4 DEF LocalInv, JournalsOK, Settled
<1>11. state'[s] \in Settled
  BY <1>1, <1>4 DEF LocalInv, JournalsOK, Settled
<1>12. ASSUME NEW q \in Run PROVE Follows(written[q], Len(written[q]), written, state')
  <2>1. Len(written[q]) \in Nat /\ Follows(written[q], Len(written[q]), written, state)
    BY DEF LocalInv, JournalsOK, LineagesOK, Events
  <2>. QED BY <1>10, <2>1, SettledFollows
<1>13. Len(written'[r]) = 0
  BY <1>1, <1>4
<1>14. PlannedLength' = k + 1
  <2>1. PlannedLength' = 0 + 0 + Len(l)
    BY <1>7, <1>13 DEF PlannedLength
  <2>. QED BY <1>2, <1>6, <2>1
<1>15. \A i \in 1..(k + 1) : Planned'[i] = l[i]
  BY <1>2, <1>7, <1>13 DEF Planned
<1>16. Follows(l, k, written, state')
  BY <1>2, <1>6, <1>12, PrefixFollows
<1>17. Follows(l, k + 1, written, state')
  <2>. SUFFICES ASSUME NEW i \in 1..(k + 1), l[i].source # NoRun
                PROVE  /\ l[i].source \in Run /\ state'[l[i].source] \in Settled
                       /\ l[i].point \in Nat /\ i = l[i].point + 1
                       /\ l[i].point <= Len(written[l[i].source])
                       /\ \A j \in 1..l[i].point : l[j] = written[l[i].source][j]
    BY DEF Follows
  <2>1. CASE i \in 1..k
    BY <1>16, <2>1 DEF Follows
  <2>2. CASE i = k + 1
    BY <1>2, <1>3, <1>6, <1>11, <2>2
  <2>. QED BY <1>2, <2>1, <2>2
<1>18. Follows(Planned', k + 1, written, state')
  BY <1>2, <1>15, <1>17, PrefixFollows
<1>19. LineagesOK'
  BY <1>4, <1>12, <1>14, <1>18 DEF LineagesOK
<1>. QED BY <1>8, <1>9, <1>19 DEF LocalInv

LEMMA LocalStep == LocalInv /\ [LocalNext]_local => LocalInv'
<1>. SUFFICES ASSUME LocalInv, [LocalNext]_local PROVE LocalInv'
  OBVIOUS
<1>1. CASE UNCHANGED local
  BY <1>1, UnmovedKeeps DEF local
<1>2. CASE GcStart \/ GcMark \/ GcList \/ GcEnd \/ (\E b \in Blob : GcSweep(b)) \/ Tick
  <2>1. UNCHANGED <<events, state, writer, written>>
    BY <1>2 DEF GcStart, GcMark, GcList, GcEnd, GcSweep, Tick
  <2>. QED BY <2>1, UnmovedKeeps
<1>3. CASE \E r \in Run : CreateRun(r) \/ Finish(r) \/ DeleteRun(r)
  BY <1>3, CreateRunKeeps, FinishKeeps, DeleteRunKeeps
<1>4. CASE \E r \in Run, b \in Content : CommitEvent(r, b)
  BY <1>4, CommitEventKeeps
<1>5. CASE \E s, r \in Run : \E k \in DOMAIN events[s] : BeginFork(s, r, k)
  BY <1>5, BeginForkKeeps
<1>6. CASE Insert \/ SeedEvent \/ WorkerCrash
  BY <1>6, InsertKeeps, SeedEventKeeps, WorkerCrashKeeps
<1>. QED BY <1>1, <1>2, <1>3, <1>4, <1>5, <1>6 DEF LocalNext

LEMMA ForksArePrefixes == LocalInv => ForkIsPrefix
<1>. SUFFICES ASSUME LocalInv, NEW r \in Run, NEW i \in DOMAIN written[r],
                     written[r][i].source # NoRun
              PROVE  /\ i = written[r][i].point + 1
                     /\ SubSeq(written[r], 1, written[r][i].point)
                          = SubSeq(written[written[r][i].source], 1, written[r][i].point)
  BY DEF ForkIsPrefix
<1>. DEFINE w == written[r]
            n == w[i].point
            v == written[w[i].source]
<1>1. w \in Events /\ i \in 1..Len(w) /\ Follows(w, Len(w), written, state)
  BY DEF LocalInv, JournalsOK, LineagesOK, Events
<1>2. /\ w[i].source \in Run /\ n \in Nat /\ i = n + 1 /\ n <= Len(v)
      /\ \A k \in 1..n : w[k] = v[k]
  BY <1>1 DEF Follows
<1>3. v \in Events
  BY <1>2 DEF LocalInv, JournalsOK
<1>. HIDE DEF w, n, v
<1>4. n <= Len(w) /\ Len(w) \in Nat /\ Len(v) \in Nat
  BY <1>1, <1>2, <1>3 DEF Events
<1>5. SubSeq(w, 1, n) = SubSeq(v, 1, n)
  BY <1>1, <1>2, <1>3, <1>4 DEF Events
<1>. QED BY <1>2, <1>5 DEF w, n, v

\* Every lineage follows exactly its source's events up to the fork point, whatever is
\* forked again, deleted, swept or cut off by a crash meanwhile (ADR-0004).
THEOREM ForkIsPrefixLocally == LocalSpec => []ForkIsPrefix
<1>1. LocalSpec => []LocalInv
  BY LocalInvInit, LocalStep, PTL DEF LocalSpec
<1>. QED BY <1>1, ForksArePrefixes, PTL

-----------------------------------------------------------------------------
(* The sweeps                                                               *)

\* the blob of the event whose transaction is open
InHand == IF writer.at = "insert" THEN {writer.event.blob} ELSE {}

\* what no sweep may take
Live == (Referenced \cup InHand) \ (reused \cup {NoBlob})

\* a pass has its five fields, and no file is of the future
GcOK ==
  /\ gc = [at |-> gc.at, passes |-> gc.passes, started |-> gc.started,
           referenced |-> gc.referenced, todo |-> gc.todo]
  /\ now \in Nat /\ gc.started \in Nat /\ gc.started <= now
  /\ \A b \in DOMAIN files : files[b] \in Nat

\* What is live is on disk, and a pass that has marked will find it referenced or new.
\* A blob that only the open transaction names is as new as can be: the transaction
\* takes less than a tick.
LiveIsKept ==
  /\ Live \subseteq DOMAIN files
  /\ \A b \in InHand \ (Referenced \cup reused \cup {NoBlob}) : files[b] = now
  /\ gc.at \in {"marked", "sweep"} =>
       \A b \in Live : b \in gc.referenced \/ files[b] >= gc.started

SweepInv == GcOK /\ LiveIsKept

LEMMA SweepInvInit == LocalInit => SweepInv
BY DEF LocalInit, SweepInv, GcOK, LiveIsKept, Live, InHand, Referenced, BlobsIn, GcOff, Rest

\* Less is live than before, and no transaction is open.
LEMMA LessIsLive ==
  ASSUME SweepInv, UNCHANGED <<files, gc, now>>, Live' \subseteq Live, InHand' = {} PROVE SweepInv'
BY DEF SweepInv, GcOK, LiveIsKept

\* The journals and the transaction are as they were.
LEMMA LiveIsSame ==
  ASSUME UNCHANGED <<events, writer, reused>>
  PROVE  Live' = Live /\ InHand' = InHand /\ Referenced' = Referenced
BY DEF Live, InHand, Referenced, BlobsIn

\* A blob is spilled: it is new, or some run references it, or it was an orphan.
LEMMA BeginAppendSweeps ==
  ASSUME SweepInv, writer.at # "insert", NEW r, NEW e, NEW left, BeginAppend(r, e, left)
  PROVE  SweepInv'
<1>. DEFINE b == e.blob
<1>1. UNCHANGED <<events, gc, now>> /\ Referenced' = Referenced /\ InHand = {} /\ InHand' = {b}
  BY DEF BeginAppend, Referenced, BlobsIn, InHand
<1>2. reused \subseteq reused' /\ (b \in DOMAIN files \ Referenced => b \in reused')
  BY DEF BeginAppend
<1>3. Live' \subseteq Live \cup ({b} \ (reused' \cup {NoBlob}))
  BY <1>1, <1>2 DEF Live
<1>4. CASE b \in DOMAIN files \cup {NoBlob}
  <2>1. UNCHANGED files
    BY <1>4 DEF BeginAppend, PutBlob
  <2>2. b \in reused' \cup {NoBlob} \/ b \in Referenced
    BY <1>2, <1>4
  <2>3. Live' \subseteq Live
    BY <1>1, <1>2, <1>3, <2>2 DEF Live
  <2>. QED BY <1>1, <2>1, <2>2, <2>3 DEF SweepInv, GcOK, LiveIsKept
<1>5. CASE b \notin DOMAIN files \cup {NoBlob}
  <2>1. files' = [c \in DOMAIN files \cup {b} |-> IF c = b THEN now ELSE files[c]]
    BY <1>5 DEF BeginAppend, PutBlob
  <2>. HIDE DEF b
  <2>2. GcOK'
    BY <1>1, <2>1 DEF SweepInv, GcOK
  <2>3. ASSUME NEW c \in Live'
        PROVE  /\ c \in DOMAIN files'
               /\ gc.at \in {"marked", "sweep"} => c \in gc.referenced \/ files'[c] >= gc.started
    BY <1>3, <2>1, <2>3 DEF SweepInv, GcOK, LiveIsKept
  <2>. QED BY <1>1, <2>1, <2>2, <2>3 DEF SweepInv, LiveIsKept
<1>. QED BY <1>4, <1>5

\* What was in hand is referenced.
LEMMA InsertSweeps == ASSUME LocalInv, SweepInv, Insert PROVE SweepInv'
<1>1. /\ UNCHANGED <<files, gc, now, reused>> /\ InHand' = {}
      /\ events' = [events EXCEPT ![writer.run] = Append(@, writer.event)]
      /\ InHand = {writer.event.blob}
  BY DEF Insert, InHand, LocalInv, WriterOK, Writers
<1>2. ASSUME NEW r \in Run PROVE BlobsIn(events'[r]) \subseteq BlobsIn(events[r]) \cup InHand
  <2>1. events[r] \in Events /\ writer.run \in Run
    BY DEF LocalInv, JournalsOK, WriterOK, Insert
  <2>2. CASE r # writer.run
    BY <1>1, <2>1, <2>2 DEF LocalInv, JournalsOK
  <2>3. CASE r = writer.run
    <3>1. events'[r] = Append(events[r], writer.event)
      BY <1>1, <2>1, <2>3 DEF LocalInv, JournalsOK
    <3>2. ASSUME NEW i \in DOMAIN events'[r]
          PROVE  events'[r][i].blob = writer.event.blob
                 \/ (i \in DOMAIN events[r] /\ events'[r][i] = events[r][i])
      BY <2>1, <3>1 DEF Events
    <3>. QED BY <1>1, <3>2 DEF BlobsIn
  <2>. QED BY <2>2, <2>3
<1>3. Referenced' \subseteq Referenced \cup InHand
  BY <1>2 DEF Referenced
<1>4. Live' \subseteq Live
  BY <1>1, <1>3 DEF Live
<1>. QED BY <1>1, <1>4, LessIsLive

LEMMA DeleteRunSweeps == ASSUME LocalInv, SweepInv, NEW r \in Run, DeleteRun(r) PROVE SweepInv'
<1>1. UNCHANGED <<files, gc, now, reused, writer>> /\ InHand' = {} /\ InHand = {}
  BY DEF DeleteRun, InHand
<1>2. ASSUME NEW q \in Run PROVE BlobsIn(events'[q]) \subseteq BlobsIn(events[q])
  BY DEF DeleteRun, BlobsIn, LocalInv, JournalsOK
<1>3. Referenced' \subseteq Referenced
  BY <1>2 DEF Referenced
<1>4. Live' \subseteq Live
  BY <1>1, <1>3 DEF Live
<1>. QED BY <1>1, <1>4, LessIsLive

\* Whoever creates, ends or forks a run, or dies, leaves the blobs alone.
LEMMA OthersSweep ==
  ASSUME SweepInv,
         \/ \E r \in Run : CreateRun(r) \/ Finish(r)
         \/ \E s, r \in Run : \E k \in DOMAIN events[s] : BeginFork(s, r, k)
         \/ WorkerCrash
  PROVE  SweepInv'
<1>1. UNCHANGED <<events, files, gc, now, reused>> /\ writer'.at # "insert"
  <2>1. CASE \E r \in Run : CreateRun(r) \/ Finish(r)
    BY <2>1 DEF CreateRun, Finish
  <2>2. CASE \E s, r \in Run : \E k \in DOMAIN events[s] : BeginFork(s, r, k)
    <3>1. PICK s \in Run, r \in Run : \E k \in DOMAIN events[s] : BeginFork(s, r, k)
      BY <2>2
    <3>. QED BY <3>1 DEF BeginFork, Rest
  <2>3. CASE WorkerCrash
    BY <2>3 DEF WorkerCrash, Rest
  <2>. QED BY <2>1, <2>2, <2>3
<1>2. Live' \subseteq Live
  BY <1>1 DEF Live, InHand, Referenced, BlobsIn
<1>. QED BY <1>1, <1>2, LessIsLive DEF InHand

\* The mark finds what is referenced, and what it does not find is new.
LEMMA MarkSweeps == ASSUME SweepInv, GcStart \/ GcMark \/ GcList \/ GcEnd PROVE SweepInv'
<1>1. /\ UNCHANGED <<files, now>> /\ Live' = Live /\ InHand' = InHand /\ Referenced' = Referenced
      /\ UNCHANGED reused
  BY LiveIsSame DEF GcStart, GcMark, GcList, GcEnd
<1>2. CASE GcStart \/ GcEnd
  <2>1. PICK at, n, p : /\ gc' = [at |-> at, passes |-> p, started |-> n,
                                   referenced |-> {}, todo |-> {}]
                         /\ at \in {"started", "off"} /\ n \in {0, now}
    BY <1>2 DEF GcStart, GcEnd, GcOff
  <2>2. gc'.at \notin {"marked", "sweep"} /\ GcOK'
    BY <1>1, <2>1 DEF SweepInv, GcOK
  <2>. QED BY <1>1, <2>2 DEF SweepInv, LiveIsKept
<1>3. CASE GcMark
  <2>1. gc' = [gc EXCEPT !.at = "marked", !.referenced = Referenced]
    BY <1>3 DEF GcMark
  <2>2. /\ gc'.started = gc.started /\ gc'.referenced = Referenced /\ GcOK'
    BY <1>1, <2>1 DEF SweepInv, GcOK
  <2>3. ASSUME NEW b \in Live PROVE b \in Referenced \/ files[b] >= gc.started
    BY <2>3 DEF Live, SweepInv, LiveIsKept, GcOK
  <2>. QED BY <1>1, <2>2, <2>3 DEF SweepInv, LiveIsKept
<1>4. CASE GcList
  <2>1. gc' = [gc EXCEPT !.at = "sweep", !.todo = DOMAIN files] /\ gc.at = "marked"
    BY <1>4 DEF GcList
  <2>2. gc'.started = gc.started /\ gc'.referenced = gc.referenced /\ GcOK'
    BY <1>1, <2>1 DEF SweepInv, GcOK
  <2>. QED BY <1>1, <2>1, <2>2 DEF SweepInv, LiveIsKept
<1>. QED BY <1>2, <1>3, <1>4

\* What is live is kept: the cutoff is no later than the mark.
LEMMA GcSweepSweeps == ASSUME SweepInv, NEW b \in Blob, GcSweep(b) PROVE SweepInv'
<1>1. /\ UNCHANGED now /\ Live' = Live /\ InHand' = InHand /\ Referenced' = Referenced
      /\ UNCHANGED reused /\ gc' = [gc EXCEPT !.todo = @ \ {b}] /\ gc.at = "sweep"
      /\ files' = IF Kept(b) THEN files ELSE [c \in DOMAIN files \ {b} |-> files[c]]
  BY LiveIsSame DEF GcSweep
<1>2. gc'.at = "sweep" /\ gc'.started = gc.started /\ gc'.referenced = gc.referenced
  BY <1>1 DEF SweepInv, GcOK
<1>3. b \in Live => Kept(b)
  <2>1. Grace \in Nat
    BY BoundsAreNatural
  <2>. QED BY <1>1, <2>1 DEF Kept, Cutoff, SweepInv, GcOK, LiveIsKept
<1>4. ASSUME NEW c \in DOMAIN files, c # b \/ Kept(b) PROVE c \in DOMAIN files' /\ files'[c] = files[c]
  BY <1>1, <1>4
<1>5. GcOK'
  <2>1. gc' = [at |-> gc'.at, passes |-> gc'.passes, started |-> gc'.started,
               referenced |-> gc'.referenced, todo |-> gc'.todo]
    BY <1>1 DEF SweepInv, GcOK
  <2>2. \A c \in DOMAIN files' : files'[c] \in Nat
    BY <1>1 DEF SweepInv, GcOK
  <2>. QED BY <1>1, <1>2, <2>1, <2>2 DEF SweepInv, GcOK
<1>6. \A c \in Live : c \in DOMAIN files' /\ files'[c] = files[c]
  BY <1>3, <1>4 DEF SweepInv, LiveIsKept
<1>7. ASSUME NEW c \in InHand \ (Referenced \cup reused \cup {NoBlob}) PROVE files'[c] = now
  BY <1>6, <1>7 DEF Live, SweepInv, LiveIsKept
<1>. QED BY <1>1, <1>2, <1>5, <1>6, <1>7 DEF SweepInv, LiveIsKept

LEMMA TickSweeps == ASSUME SweepInv, Tick PROVE SweepInv'
<1>1. /\ UNCHANGED <<files, gc>> /\ Live' = Live /\ InHand' = {} /\ now' = now + 1
  BY LiveIsSame DEF Tick, InHand
<1>. QED BY <1>1 DEF SweepInv, GcOK, LiveIsKept

LEMMA SweepStep == LocalInv /\ SweepInv /\ [LocalNext]_local => SweepInv'
<1>. SUFFICES ASSUME LocalInv, SweepInv, [LocalNext]_local PROVE SweepInv'
  OBVIOUS
<1>1. CASE UNCHANGED local
  BY <1>1, LiveIsSame DEF local, SweepInv, GcOK, LiveIsKept
<1>2. CASE \/ \E r \in Run : CreateRun(r) \/ Finish(r)
           \/ \E s, r \in Run : \E k \in DOMAIN events[s] : BeginFork(s, r, k)
           \/ WorkerCrash
  BY <1>2, OthersSweep
<1>3. CASE (\E r \in Run, b \in Content : CommitEvent(r, b)) \/ SeedEvent
  BY <1>3, BeginAppendSweeps DEF CommitEvent, SeedEvent
<1>4. CASE Insert \/ \E r \in Run : DeleteRun(r)
  BY <1>4, InsertSweeps, DeleteRunSweeps
<1>5. CASE GcStart \/ GcMark \/ GcList \/ GcEnd \/ (\E b \in Blob : GcSweep(b)) \/ Tick
  BY <1>5, MarkSweeps, GcSweepSweeps, TickSweeps
<1>. QED BY <1>1, <1>2, <1>3, <1>4, <1>5 DEF LocalNext

\* A blob that a remaining run references is on disk, orphans that were spilled again
\* aside, whatever is deleted, forked, cut off by a crash and swept at the same time
\* (ADR-0037).
THEOREM ReferencedIsKeptLocally == LocalSpec => []ReferencedIsKept
<1>1. LocalInit => LocalInv /\ SweepInv
  BY LocalInvInit, SweepInvInit
<1>2. LocalInv /\ SweepInv /\ [LocalNext]_local => (LocalInv /\ SweepInv)'
  BY LocalStep, SweepStep
<1>3. SweepInv => ReferencedIsKept
  BY DEF SweepInv, LiveIsKept, Live, ReferencedIsKept, Referenced, BlobsIn
<1>. QED BY <1>1, <1>2, <1>3, PTL DEF LocalSpec

-----------------------------------------------------------------------------
(* The journals, while runs are shipped                                     *)

\* Nothing that ships a run changes it.
LEMMA ShippingIsApart == [Next]_vars => [LocalNext]_local
<1>. SUFFICES ASSUME [Next]_vars PROVE [LocalNext]_local
  OBVIOUS
<1>1. CASE UNCHANGED vars
  BY <1>1 DEF vars
<1>2. ASSUME NEW c \in Caller, ShipStep(c) PROVE UNCHANGED local
  BY <1>2 DEF ShipStep, ReadEvents, LearnAck, NextBlob, BlobPresent, BlobAbsent,
     PutBlobAtPlane, BlobsDone, Send, RequestFails, AnswerUnreadable, Backpressure
<1>3. ASSUME NEW c \in Caller, NEW r \in Run, BeginShip(c, r) PROVE UNCHANGED local
  BY <1>3 DEF BeginShip
<1>. QED BY <1>1, <1>2, <1>3 DEF Next

\* So it is also while runs are shipped.
THEOREM ForkIsPrefixHolds == Spec => []ForkIsPrefix
<1>1. Init => LocalInit
  BY DEF Init
<1>2. Spec => LocalSpec
  BY <1>1, ShippingIsApart, PTL DEF Spec, LocalSpec
<1>. QED BY <1>2, ForkIsPrefixLocally, PTL

\* Nor does shipping a run cost it a blob.
THEOREM ReferencedIsKeptHolds == Spec => []ReferencedIsKept
<1>1. Init => LocalInit
  BY DEF Init
<1>2. Spec => LocalSpec
  BY <1>1, ShippingIsApart, PTL DEF Spec, LocalSpec
<1>. QED BY <1>2, ReferencedIsKeptLocally, PTL

-----------------------------------------------------------------------------
(* The calls of ship_run                                                    *)

\* a call has its eight fields, whatever they hold
IsCall(f) ==
  f = [at |-> f.at, run |-> f.run, status |-> f.status, read |-> f.read, ack |-> f.ack,
       todo |-> f.todo, blob |-> f.blob, failures |-> f.failures]

\* what the tail it is to send references
TailBlobs(f) == BlobIdsIn(f.read, TailSeqs(f.read, f.ack))

\* The run it ships exists, and has ended if the row it read says so.
RowOK(f) ==
  /\ f.run \in Run /\ f.status \in {"open", "terminal"}
  /\ state[f.run] # "absent" /\ (f.status = "terminal" => state[f.run] \in Settled)

\* It read the journal as it was: of a run that had ended all of it, if anything.
ReadOK(f) ==
  /\ f.read \in Events /\ Len(f.read) <= Len(written[f.run])
  /\ \A i \in 1..Len(f.read) : f.read[i] = written[f.run][i]
  /\ f.status = "terminal" /\ f.read # <<>> => Len(f.read) = Len(written[f.run])

\* It sends once the plane has every blob of the tail.
BlobsOK(f) ==
  /\ f.at = "blobs" => TailBlobs(f) \subseteq blobs \cup f.todo
  /\ f.at \in {"head", "put"} => TailBlobs(f) \subseteq blobs \cup f.todo \cup {f.blob}
  /\ f.at = "send" => TailBlobs(f) \subseteq blobs /\ TailSeqs(f.read, f.ack) # {}

CallOK(f) ==
  /\ IsCall(f)
  /\ f.at \in Calling => RowOK(f)
  /\ f.at \in Requests \cup {"blobs"} => ReadOK(f)
  /\ BlobsOK(f)

ShipInv ==
  /\ LocalInv
  /\ DOMAIN stored = Run /\ PlaneResolves
  /\ ship = [c \in Caller |-> ship[c]] /\ \A c \in Caller : CallOK(ship[c])

\* A call that is not under way needs nothing.
LEMMA NotCallingIsOK ==
  ASSUME NEW f, IsCall(f), f.at \notin Calling PROVE CallOK(f) /\ CallOK(f)'
BY DEF CallOK, BlobsOK, IsCall, Calling, Requests

LEMMA ShipInvInit == Init => ShipInv
<1>. SUFFICES ASSUME Init PROVE ShipInv
  OBVIOUS
<1>1. LocalInv
  BY LocalInvInit DEF Init
<1>2. DOMAIN stored = Run /\ PlaneResolves
  BY DEF Init, PlaneResolves
<1>3. IsCall(NotShipping) /\ NotShipping.at \notin Calling
  BY DEF IsCall, NotShipping, Calling, Requests
<1>4. CallOK(NotShipping)
  BY <1>3, NotCallingIsOK
<1>5. ship = [c \in Caller |-> ship[c]] /\ \A c \in Caller : CallOK(ship[c])
  BY <1>4 DEF Init
<1>. QED BY <1>1, <1>2, <1>5 DEF ShipInv

\* The journals only grow, and those of runs that have ended do not.
LEMMA LocalGrows ==
  ASSUME LocalInv, [LocalNext]_local, NEW r \in Run
  PROVE  /\ state[r] # "absent" => state'[r] # "absent"
         /\ state[r] \in Settled => state'[r] \in Settled /\ written'[r] = written[r]
         /\ Len(written[r]) <= Len(written'[r])
         /\ \A i \in 1..Len(written[r]) : written'[r][i] = written[r][i]
<1>1. written[r] \in Events /\ Len(written[r]) \in Nat
  BY DEF LocalInv, JournalsOK, Events
<1>2. state \in [Run -> {"absent", "open"} \cup Settled]
  BY DEF LocalInv, JournalsOK
<1>3. CASE Insert
  <2>1. written' = [written EXCEPT ![writer.run] = Append(@, writer.event)] /\ UNCHANGED state
    BY <1>3 DEF Insert
  <2>2. writer.run \in Run /\ state[writer.run] = "open" /\ writer.event \in Event
    BY <1>3 DEF Insert, LocalInv, WriterOK, Writers
  <2>3. CASE writer.run = r
    <3>1. written'[r] = Append(written[r], writer.event)
      BY <2>1, <2>3 DEF LocalInv, JournalsOK
    <3>. QED BY <1>1, <2>1, <2>2, <2>3, <3>1 DEF Events, Settled
  <2>4. CASE writer.run # r
    BY <1>1, <2>1, <2>4
  <2>. QED BY <2>3, <2>4
<1>4. CASE UNCHANGED <<state, written>>
  BY <1>1, <1>4
<1>5. CASE \E q \in Run : CreateRun(q) \/ Finish(q) \/ DeleteRun(q)
  BY <1>1, <1>2, <1>5 DEF CreateRun, Finish, DeleteRun, Settled
<1>6. CASE \E s, q \in Run : \E k \in DOMAIN events[s] : BeginFork(s, q, k)
  BY <1>1, <1>2, <1>6 DEF BeginFork, Settled
<1>7. UNCHANGED <<state, written>> \/ Insert \/ (\E q \in Run : CreateRun(q) \/ Finish(q) \/ DeleteRun(q))
      \/ (\E s, q \in Run : \E k \in DOMAIN events[s] : BeginFork(s, q, k))
  BY DEF LocalNext, local, CommitEvent, BeginAppend, SeedEvent, WorkerCrash, GcStart, GcMark,
     GcList, GcEnd, GcSweep, Tick
<1>. QED BY <1>3, <1>4, <1>5, <1>6, <1>7

\* A call stays as it should be while the journals and the plane's blobs grow.
LEMMA CallSurvives ==
  ASSUME LocalInv, [LocalNext]_local, blobs \subseteq blobs', NEW f, CallOK(f)
  PROVE  CallOK(f)'
<1>1. ASSUME f.at \in Calling PROVE RowOK(f)'
  <2>1. RowOK(f)
    BY <1>1 DEF CallOK
  <2>2. f.run \in Run
    BY <2>1 DEF RowOK
  <2>3. /\ state[f.run] # "absent" => state'[f.run] # "absent"
        /\ state[f.run] \in Settled => state'[f.run] \in Settled
    BY <2>2, LocalGrows
  <2>. QED BY <2>1, <2>3 DEF RowOK
<1>2. ASSUME f.at \in Requests \cup {"blobs"} PROVE ReadOK(f)'
  <2>1. RowOK(f) /\ ReadOK(f)
    BY <1>2 DEF CallOK, Calling
  <2>2. f.run \in Run /\ (f.status = "terminal" => state[f.run] \in Settled)
    BY <2>1 DEF RowOK
  <2>3. /\ state[f.run] \in Settled => written'[f.run] = written[f.run]
        /\ Len(written[f.run]) <= Len(written'[f.run])
        /\ \A i \in 1..Len(written[f.run]) : written'[f.run][i] = written[f.run][i]
    BY <2>2, LocalGrows
  <2>4. written[f.run] \in Events /\ written'[f.run] \in Events
    BY <2>2, LocalStep DEF LocalInv, JournalsOK
  <2>5. Len(f.read) \in Nat /\ Len(written[f.run]) \in Nat /\ Len(written'[f.run]) \in Nat
    BY <2>1, <2>4 DEF ReadOK, Events
  <2>. QED BY <2>1, <2>2, <2>3, <2>5 DEF ReadOK
<1>3. BlobsOK(f)'
  <2>1. TailBlobs(f)' = TailBlobs(f) /\ TailSeqs(f.read, f.ack)' = TailSeqs(f.read, f.ack)
    BY DEF TailBlobs, BlobIdsIn, TailSeqs
  <2>. QED BY <2>1 DEF CallOK, BlobsOK
<1>4. IsCall(f)'
  BY DEF CallOK, IsCall
<1>. QED BY <1>1, <1>2, <1>3, <1>4 DEF CallOK, Calling, Requests

\* The journals move, and no call does.
LEMMA LocalStepShips == ASSUME ShipInv, [LocalNext]_local, UNCHANGED shipping PROVE ShipInv'
<1>1. LocalInv'
  BY LocalStep DEF ShipInv
<1>2. ASSUME NEW c \in Caller, NEW g, g = ship[c] PROVE CallOK(g)'
  BY <1>2, CallSurvives DEF ShipInv, shipping, plane
<1>3. \A c \in Caller : CallOK(ship[c])'
  BY <1>2 DEF shipping
<1>4. PlaneResolves'
  BY DEF ShipInv, PlaneResolves, shipping, plane
<1>. QED BY <1>1, <1>3, <1>4 DEF ShipInv, shipping, plane

\* One call moves, and nothing of the others.
LEMMA OneCallMoves ==
  ASSUME ShipInv, UNCHANGED local, blobs \subseteq blobs', DOMAIN stored' = Run, PlaneResolves',
         NEW c \in Caller, NEW f, CallOK(f)', Go(c, f)
  PROVE  ShipInv'
<1>1. LocalInv' /\ [LocalNext]_local
  BY LocalStep DEF ShipInv
<1>2. ship' = [d \in Caller |-> IF d = c THEN f ELSE ship[d]]
  BY DEF ShipInv, Go
<1>3. ASSUME NEW d \in Caller, NEW g, g = ship'[d] PROVE CallOK(g)'
  <2>1. CASE d = c
    BY <1>2, <1>3, <2>1
  <2>2. CASE d # c
    <3>1. CallOK(g)
      BY <1>2, <1>3, <2>2 DEF ShipInv
    <3>. QED BY <1>1, <3>1, CallSurvives DEF ShipInv
  <2>. QED BY <2>1, <2>2
<1>4. \A d \in Caller : CallOK(ship[d])'
  BY <1>3
<1>. QED BY <1>1, <1>2, <1>4 DEF ShipInv

\* A call moves to where it is as it should be, and the plane stays.
LEMMA CallGoesOn ==
  ASSUME ShipInv, UNCHANGED <<local, plane>>, NEW c \in Caller, NEW f, CallOK(f), Go(c, f)
  PROVE  ShipInv'
<1>1. CallOK(f)'
  BY CallSurvives DEF ShipInv, plane
<1>2. DOMAIN stored' = Run /\ PlaneResolves'
  BY DEF ShipInv, PlaneResolves, plane
<1>. QED BY <1>1, <1>2, OneCallMoves DEF plane

\* A call ends, and the plane is left as it can be.
LEMMA CallEnds ==
  ASSUME ShipInv, UNCHANGED local, blobs \subseteq blobs', DOMAIN stored' = Run, PlaneResolves',
         NEW c \in Caller, NEW at, at \notin Calling, Go(c, [NotShipping EXCEPT !.at = at])
  PROVE  ShipInv'
<1>1. PICK f : f = [NotShipping EXCEPT !.at = at]
  OBVIOUS
<1>2. IsCall(f) /\ f.at = at
  BY <1>1 DEF IsCall, NotShipping
<1>3. CallOK(f)'
  BY <1>2, NotCallingIsOK
<1>. QED BY <1>1, <1>3, OneCallMoves

\* However much of the tail the plane stores, it has the blobs of it.
LEMMA StoreResolves ==
  ASSUME ShipInv, NEW c \in Caller, At(c, "send"), NEW seqs \in SUBSET TailOf(c),
         Store(Shipment(c), seqs), UNCHANGED blobs
  PROVE  DOMAIN stored' = Run /\ PlaneResolves'
<1>1. PICK g : g = ship[c]
  OBVIOUS
<1>2. /\ g.at = "send" /\ g.run \in Run /\ TailBlobs(g) \subseteq blobs
  BY <1>1 DEF ShipInv, CallOK, RowOK, BlobsOK, At, Calling, Requests
<1>3. stored' = [stored EXCEPT ![g.run] =
        [n \in DOMAIN @ \cup seqs |-> IF n \in DOMAIN @ THEN @[n] ELSE Shipment(c).events[n]]]
  <2>1. Shipment(c).run.run_id = g.run
    BY <1>1 DEF Shipment, Project
  <2>. QED BY <2>1 DEF Store
<1>4. ASSUME NEW n \in seqs PROVE Shipment(c).events[n] = g.read[n] /\ g.read[n].blob \in blobs \cup {NoBlob}
  <2>1. n \in TailSeqs(g.read, g.ack)
    BY <1>1, <1>4 DEF TailOf
  <2>2. Shipment(c).events[n] = g.read[n]
    BY <1>1, <2>1 DEF Shipment, Project
  <2>. QED BY <1>2, <2>1, <2>2 DEF TailBlobs, BlobIdsIn
<1>5. DOMAIN stored' = Run
  BY <1>3 DEF ShipInv
<1>6. ASSUME NEW r \in Run, NEW n \in DOMAIN stored'[r] PROVE stored'[r][n].blob \in blobs \cup {NoBlob}
  <2>1. \A m \in DOMAIN stored[r] : stored[r][m].blob \in blobs \cup {NoBlob}
    BY DEF ShipInv, PlaneResolves
  <2>2. CASE r # g.run
    BY <1>3, <1>6, <2>1, <2>2 DEF ShipInv
  <2>3. CASE r = g.run
    <3>1. stored'[r] = [m \in DOMAIN stored[r] \cup seqs |->
                          IF m \in DOMAIN stored[r] THEN stored[r][m] ELSE Shipment(c).events[m]]
      BY <1>3, <2>3 DEF ShipInv
    <3>. QED BY <1>4, <1>6, <2>1, <3>1
  <2>. QED BY <2>2, <2>3
<1>. QED BY <1>5, <1>6 DEF PlaneResolves

\* ship_run is asked for a run that exists.
LEMMA BeginShipKeeps ==
  ASSUME ShipInv, NEW c \in Caller, NEW r \in Run, BeginShip(c, r) PROVE ShipInv'
<1>1. PICK f : f = [NotShipping EXCEPT !.at = "read", !.run = r, !.status = state[r]]
  OBVIOUS
<1>2. f.at = "read" /\ f.run = r /\ f.status = state[r] /\ IsCall(f)
  BY <1>1 DEF IsCall, NotShipping
<1>3. RowOK(f)
  BY <1>2 DEF RowOK, BeginShip, Settled
<1>4. CallOK(f)
  BY <1>2, <1>3 DEF CallOK, BlobsOK, Requests
<1>. QED BY <1>1, <1>4, CallGoesOn DEF BeginShip

\* It reads the journal, or nothing if it was deleted.
LEMMA ReadEventsKeeps ==
  ASSUME ShipInv, NEW c \in Caller, ReadEvents(c) PROVE ShipInv'
<1>1. PICK g : g = ship[c]
  OBVIOUS
<1>2. g.at = "read" /\ CallOK(g) /\ IsCall(g) /\ RowOK(g) /\ g.run \in Run
  BY <1>1 DEF ShipInv, ReadEvents, At, CallOK, RowOK, Calling
<1>3. PICK f : f = [g EXCEPT !.at = "ack", !.read = events[g.run]]
  OBVIOUS
<1>4. f.at = "ack" /\ f.run = g.run /\ f.status = g.status /\ f.read = events[g.run] /\ IsCall(f)
  BY <1>2, <1>3 DEF IsCall
<1>5. RowOK(f)
  BY <1>2, <1>4 DEF RowOK
<1>6. /\ events[g.run] \in Events /\ written[g.run] \in Events
      /\ events[g.run] = IF state[g.run] = "deleted" THEN <<>> ELSE written[g.run]
  BY <1>2 DEF ShipInv, LocalInv, JournalsOK
<1>7. ReadOK(f)
  BY <1>4, <1>6 DEF ReadOK, Events
<1>8. CallOK(f)
  BY <1>4, <1>5, <1>7 DEF CallOK, BlobsOK
<1>. QED BY <1>1, <1>3, <1>8, CallGoesOn DEF ReadEvents, RawEvents

\* What it has to upload is what the tail references.
LEMMA LearnAckKeeps ==
  ASSUME ShipInv, NEW c \in Caller, LearnAck(c) PROVE ShipInv'
<1>1. PICK g : g = ship[c]
  OBVIOUS
<1>2. CallOK(g) /\ IsCall(g) /\ RowOK(g) /\ ReadOK(g)
  BY <1>1 DEF ShipInv, LearnAck, At, CallOK, Calling, Requests
<1>3. PICK ack : ack = Contiguous(g.run)
  OBVIOUS
<1>4. PICK f : f = [[g EXCEPT !.at = "blobs", !.failures = 0] EXCEPT
                      !.ack = ack, !.todo = BlobIdsIn(g.read, TailSeqs(g.read, ack))]
  OBVIOUS
<1>5. /\ f.at = "blobs" /\ f.run = g.run /\ f.status = g.status /\ f.read = g.read
      /\ f.todo = TailBlobs(f) /\ IsCall(f)
  BY <1>2, <1>4 DEF IsCall, TailBlobs
<1>6. CallOK(f)
  BY <1>2, <1>5 DEF CallOK, RowOK, ReadOK, BlobsOK
<1>7. Go(c, f)
  BY <1>1, <1>3, <1>4 DEF LearnAck, On
<1>. QED BY <1>6, <1>7, CallGoesOn DEF LearnAck

\* One blob after the other is asked for.
LEMMA NextBlobKeeps ==
  ASSUME ShipInv, NEW c \in Caller, NextBlob(c) PROVE ShipInv'
<1>1. PICK g : g = ship[c]
  OBVIOUS
<1>2. g.at = "blobs" /\ IsCall(g) /\ RowOK(g) /\ ReadOK(g) /\ BlobsOK(g)
  BY <1>1 DEF ShipInv, NextBlob, At, CallOK, Calling, Requests
<1>3. PICK b \in g.todo : Go(c, [On(c, "head") EXCEPT !.blob = b, !.todo = @ \ {b}])
  BY <1>1 DEF NextBlob
<1>4. PICK f : f = [[g EXCEPT !.at = "head", !.failures = 0] EXCEPT !.blob = b, !.todo = @ \ {b}]
  OBVIOUS
<1>5. /\ f.at = "head" /\ f.run = g.run /\ f.status = g.status /\ f.read = g.read /\ f.ack = g.ack
      /\ f.todo = g.todo \ {b} /\ f.blob = b /\ IsCall(f)
  BY <1>2, <1>4 DEF IsCall
<1>6. TailBlobs(f) = TailBlobs(g)
  BY <1>5 DEF TailBlobs
<1>7. CallOK(f)
  BY <1>2, <1>3, <1>5, <1>6 DEF CallOK, RowOK, ReadOK, BlobsOK
<1>8. Go(c, f)
  BY <1>1, <1>3, <1>4 DEF On
<1>. QED BY <1>7, <1>8, CallGoesOn DEF NextBlob

\* A blob that is there is done with, and so is one that was uploaded.
LEMMA BlobDoneKeeps ==
  ASSUME ShipInv, NEW c \in Caller, ship[c].at \in {"head", "put"}, UNCHANGED <<local, stored>>,
         blobs \subseteq blobs', ship[c].blob \in blobs', PlaneResolves',
         Go(c, [On(c, "blobs") EXCEPT !.blob = NoBlob])
  PROVE  ShipInv'
<1>1. PICK g : g = ship[c]
  OBVIOUS
<1>2. /\ g.at \in {"head", "put"} /\ IsCall(g) /\ RowOK(g) /\ ReadOK(g) /\ BlobsOK(g) /\ CallOK(g)
      /\ TailBlobs(g) \subseteq blobs \cup g.todo \cup {g.blob}
  BY <1>1 DEF ShipInv, CallOK, BlobsOK, Calling, Requests
<1>3. PICK f : f = [[g EXCEPT !.at = "blobs", !.failures = 0] EXCEPT !.blob = NoBlob]
  OBVIOUS
<1>4. /\ f.at = "blobs" /\ f.run = g.run /\ f.status = g.status /\ f.read = g.read /\ f.ack = g.ack
      /\ f.todo = g.todo /\ IsCall(f)
  BY <1>2, <1>3 DEF IsCall
<1>5. TailBlobs(f)' = TailBlobs(g) /\ TailBlobs(g) \subseteq blobs' \cup f.todo
  BY <1>1, <1>2, <1>4 DEF TailBlobs, BlobIdsIn, TailSeqs
<1>6. RowOK(f)' /\ ReadOK(f)'
  BY <1>2, <1>4 DEF local, RowOK, ReadOK
<1>7. CallOK(f)'
  BY <1>4, <1>5, <1>6 DEF CallOK, BlobsOK, IsCall
<1>8. Go(c, f)
  BY <1>1, <1>3 DEF On
<1>9. DOMAIN stored' = Run
  BY DEF ShipInv
<1>. QED BY <1>7, <1>8, <1>9, OneCallMoves

LEMMA PlaneResolvesMore ==
  ASSUME ShipInv, UNCHANGED stored, blobs \subseteq blobs' PROVE DOMAIN stored' = Run /\ PlaneResolves'
BY DEF ShipInv, PlaneResolves

\* A call that stays with what it read, or waits, needs no more blobs.
LEMMA SameCallIsOK ==
  ASSUME NEW g, NEW f, CallOK(g), IsCall(f), g.at \in Requests \cup {"blobs"},
         f.run = g.run, f.status = g.status, f.read = g.read, f.ack = g.ack,
         f.todo = g.todo, f.blob = g.blob,
         \/ f.at = g.at
         \/ f.at = "put" /\ g.at = "head"
         \/ f.at = "send" /\ g.at = "blobs" /\ g.todo = {} /\ TailSeqs(g.read, g.ack) # {}
  PROVE  CallOK(f)
<1>1. RowOK(g) /\ ReadOK(g) /\ BlobsOK(g)
  BY DEF CallOK, Calling
<1>2. RowOK(f) /\ ReadOK(f)
  BY <1>1 DEF RowOK, ReadOK
<1>3. TailBlobs(f) = TailBlobs(g)
  BY DEF TailBlobs
<1>4. BlobsOK(f)
  BY <1>1, <1>3 DEF BlobsOK, Requests
<1>. QED BY <1>2, <1>4 DEF CallOK

LEMMA BlobAbsentKeeps ==
  ASSUME ShipInv, NEW c \in Caller, BlobAbsent(c) PROVE ShipInv'
<1>1. CASE RaisesMissing(c)
  BY <1>1, PlaneResolvesMore, CallEnds DEF BlobAbsent, RaisesMissing, plane, Calling, Requests
<1>2. CASE Proceeds(c, "put")
  <2>1. PICK g : g = ship[c]
    OBVIOUS
  <2>2. CallOK(g) /\ IsCall(g) /\ g.at = "head"
    BY <2>1 DEF ShipInv, CallOK, BlobAbsent, At
  <2>3. PICK f : f = [g EXCEPT !.at = "put", !.failures = 0]
    OBVIOUS
  <2>4. CallOK(f)
    <3>1. IsCall(f) /\ f.at = "put" /\ f.run = g.run /\ f.status = g.status /\ f.read = g.read
          /\ f.ack = g.ack /\ f.todo = g.todo /\ f.blob = g.blob
      BY <2>2, <2>3 DEF IsCall
    <3>. QED BY <2>2, <3>1, SameCallIsOK DEF Requests
  <2>. QED BY <1>2, <2>1, <2>3, <2>4, CallGoesOn DEF BlobAbsent, Proceeds, On
<1>. QED BY <1>1, <1>2 DEF BlobAbsent

LEMMA BlobsDoneKeeps ==
  ASSUME ShipInv, NEW c \in Caller, BlobsDone(c) PROVE ShipInv'
<1>1. CASE Returns(c)
  BY <1>1, PlaneResolvesMore, CallEnds DEF BlobsDone, Returns, plane, Calling, Requests
<1>2. CASE TailOf(c) # {} /\ Proceeds(c, "send")
  <2>1. PICK g : g = ship[c]
    OBVIOUS
  <2>2. /\ CallOK(g) /\ IsCall(g) /\ g.at = "blobs" /\ g.todo = {}
        /\ TailSeqs(g.read, g.ack) # {}
    BY <1>2, <2>1 DEF ShipInv, CallOK, BlobsDone, At, TailOf
  <2>3. PICK f : f = [g EXCEPT !.at = "send", !.failures = 0]
    OBVIOUS
  <2>4. CallOK(f)
    <3>1. IsCall(f) /\ f.at = "send" /\ f.run = g.run /\ f.status = g.status /\ f.read = g.read
          /\ f.ack = g.ack /\ f.todo = g.todo /\ f.blob = g.blob
      BY <2>2, <2>3 DEF IsCall
    <3>. QED BY <2>2, <3>1, SameCallIsOK
  <2>. QED BY <1>2, <2>1, <2>3, <2>4, CallGoesOn DEF BlobsDone, Proceeds, On
<1>. QED BY <1>1, <1>2 DEF BlobsDone

\* After a refusal it waits, for ever or not, or gives up.
LEMMA BackpressureKeeps ==
  ASSUME ShipInv, NEW c \in Caller, Backpressure(c) PROVE ShipInv'
<1>1. CASE RaisesError(c)
  <2>1. CallOK(NotShipping)
    BY NotCallingIsOK DEF IsCall, NotShipping, Calling, Requests
  <2>. QED BY <1>1, <2>1, CallGoesOn DEF Backpressure, RaisesError
<1>2. PICK g : g = ship[c]
  OBVIOUS
<1>3. CallOK(g) /\ IsCall(g) /\ g.at \in Requests
  BY <1>2 DEF ShipInv, CallOK, Backpressure
<1>4. CASE Go(c, [ship[c] EXCEPT !.failures = @ + 1])
  <2>1. PICK f : f = [g EXCEPT !.failures = @ + 1]
    OBVIOUS
  <2>2. IsCall(f) /\ f.at = g.at /\ f.run = g.run /\ f.status = g.status /\ f.read = g.read
        /\ f.ack = g.ack /\ f.todo = g.todo /\ f.blob = g.blob
    BY <1>3, <2>1 DEF IsCall
  <2>3. CallOK(f)
    BY <1>3, <2>2, SameCallIsOK
  <2>. QED BY <1>2, <1>4, <2>1, <2>3, CallGoesOn DEF Backpressure
<1>5. CASE Go(c, [ship[c] EXCEPT !.at = "asleep"])
  <2>1. PICK f : f = [g EXCEPT !.at = "asleep"]
    OBVIOUS
  <2>2. IsCall(f) /\ f.at = "asleep"
    BY <1>3, <2>1 DEF IsCall
  <2>3. CallOK(f)
    BY <2>2, NotCallingIsOK DEF Calling, Requests
  <2>. QED BY <1>2, <1>5, <2>1, <2>3, CallGoesOn DEF Backpressure
<1>. QED BY <1>1, <1>4, <1>5 DEF Backpressure

LEMMA SendKeeps ==
  ASSUME ShipInv, NEW c \in Caller, Send(c) PROVE ShipInv'
<1>1. DOMAIN stored' = Run /\ PlaneResolves'
  BY StoreResolves DEF Send
<1>. QED BY <1>1, CallEnds DEF Send, Returns, Calling, Requests

\* A request that fails is one that the plane may have acted on.
LEMMA RequestFailsKeeps ==
  ASSUME ShipInv, NEW c \in Caller, RequestFails(c) \/ AnswerUnreadable(c) PROVE ShipInv'
<1>1. UNCHANGED local /\ Go(c, NotShipping)
  BY DEF RequestFails, AnswerUnreadable, RaisesError
<1>2. blobs \subseteq blobs' /\ DOMAIN stored' = Run /\ PlaneResolves'
  <2>1. CASE UNCHANGED stored /\ blobs \subseteq blobs'
    BY <2>1, PlaneResolvesMore
  <2>2. CASE At(c, "send") /\ UNCHANGED blobs /\ \E seqs \in SUBSET TailOf(c) : Store(Shipment(c), seqs)
    BY <2>2, StoreResolves
  <2>3. CASE At(c, "send") /\ UNCHANGED blobs /\ Store(Shipment(c), TailOf(c))
    BY <2>3, StoreResolves
  <2>. QED BY <2>1, <2>2, <2>3 DEF RequestFails, AnswerUnreadable, plane
<1>3. CallOK(NotShipping)'
  <2>1. PICK f : f = NotShipping
    OBVIOUS
  <2>2. IsCall(f) /\ f.at \notin Calling
    BY <2>1 DEF IsCall, NotShipping, Calling, Requests
  <2>3. CallOK(f)'
    BY <2>2, NotCallingIsOK
  <2>. QED BY <2>1, <2>3 DEF NotShipping
<1>. QED BY <1>1, <1>2, <1>3, OneCallMoves

LEMMA ShipStepKeeps ==
  ASSUME ShipInv, NEW c \in Caller, ShipStep(c) PROVE ShipInv'
<1>1. CASE BlobPresent(c)
  <2>1. UNCHANGED stored /\ blobs \subseteq blobs' /\ UNCHANGED local
        /\ ship[c].at \in {"head", "put"} /\ ship[c].blob \in blobs'
    BY <1>1 DEF BlobPresent, HavePlane, At, plane
  <2>. QED BY <1>1, <2>1, PlaneResolvesMore, BlobDoneKeeps DEF BlobPresent
<1>2. CASE PutBlobAtPlane(c)
  <2>1. UNCHANGED stored /\ blobs \subseteq blobs' /\ UNCHANGED local
        /\ ship[c].at \in {"head", "put"} /\ ship[c].blob \in blobs'
    BY <1>2 DEF PutBlobAtPlane, At
  <2>. QED BY <1>2, <2>1, PlaneResolvesMore, BlobDoneKeeps DEF PutBlobAtPlane
<1>3. CASE RequestFails(c) \/ AnswerUnreadable(c)
  BY <1>3, RequestFailsKeeps
<1>4. CASE ReadEvents(c) \/ LearnAck(c) \/ NextBlob(c) \/ BlobAbsent(c) \/ BlobsDone(c) \/ Send(c)
           \/ Backpressure(c)
  BY <1>4, ReadEventsKeeps, LearnAckKeeps, NextBlobKeeps, BlobAbsentKeeps, BlobsDoneKeeps,
     SendKeeps, BackpressureKeeps
<1>. QED BY <1>1, <1>2, <1>3, <1>4 DEF ShipStep

LEMMA ShipInvStep == ShipInv /\ [Next]_vars => ShipInv'
<1>. SUFFICES ASSUME ShipInv, [Next]_vars PROVE ShipInv'
  OBVIOUS
<1>1. CASE UNCHANGED vars
  BY <1>1, LocalStepShips DEF vars
<1>2. CASE LocalNext /\ UNCHANGED shipping
  BY <1>2, LocalStepShips
<1>3. CASE \E c \in Caller : ShipStep(c) \/ \E r \in Run : BeginShip(c, r)
  BY <1>3, ShipStepKeeps, BeginShipKeeps
<1>. QED BY <1>1, <1>2, <1>3 DEF Next

-----------------------------------------------------------------------------
(* What is sent is true                                                     *)

\* A set of numbers up to n that has a member has a greatest one.
LEMMA MaxIsMember ==
  ASSUME NEW n \in Nat, NEW S \in SUBSET (0..n), S # {}
  PROVE  Max(S) \in S /\ \A x \in S : x <= Max(S)
<1>. DEFINE T == {n - x : x \in S}
<1>1. T \subseteq Nat
  OBVIOUS
<1>2. PICK x0 \in S : TRUE
  OBVIOUS
<1>3. n - x0 \in T
  OBVIOUS
<1>4. T # {}
  BY <1>3
<1>. HIDE DEF T
<1>5. \E m \in T : \A y \in T : ~(<<y, m>> \in OpToRel(<, Nat))
  BY <1>1, <1>4, NatLessThanWellFounded, WFMin
<1>6. PICK m \in T : \A y \in T : ~(y < m)
  BY <1>1, <1>5 DEF OpToRel
<1>7. PICK x \in S : m = n - x
  BY <1>6 DEF T
<1>8. \A y \in S : n - y \in T
  BY DEF T
<1>9. \A y \in S : x >= y
  BY <1>6, <1>7, <1>8
<1>. QED BY <1>7, <1>9 DEF Max

\* A journal and a first part of it with all its lineage records are of one fork.
LEMMA LineageIsOfAll ==
  ASSUME NEW s \in Events, NEW w \in Events, Len(s) <= Len(w),
         \A i \in 1..Len(s) : s[i] = w[i], ForkSeqs(w) \subseteq DOMAIN s
  PROVE  LineageOf(s) = LineageOf(w)
<1>1. DOMAIN s = 1..Len(s) /\ DOMAIN w = 1..Len(w) /\ Len(s) \in Nat /\ Len(w) \in Nat
  BY DEF Events
<1>2. ForkSeqs(s) = ForkSeqs(w)
  BY <1>1 DEF ForkSeqs
<1>3. CASE ForkSeqs(w) = {}
  BY <1>2, <1>3 DEF LineageOf
<1>4. CASE ForkSeqs(w) # {}
  <2>1. Max(ForkSeqs(w)) \in ForkSeqs(w)
    <3>1. ForkSeqs(w) \in SUBSET (0..Len(w))
      BY <1>1 DEF ForkSeqs
    <3>. QED BY <1>1, <1>4, <3>1, MaxIsMember
  <2>2. s[Max(ForkSeqs(w))] = w[Max(ForkSeqs(w))]
    BY <1>1, <2>1
  <2>. QED BY <1>2, <1>4, <2>2 DEF LineageOf
<1>. QED BY <1>3, <1>4

LEMMA TrueShipments == ShipInv => ShipmentsAreTrue
<1>. SUFFICES ASSUME ShipInv, NEW c \in Caller, At(c, "send") PROVE ShipmentIsTrue(c)
  BY DEF ShipmentsAreTrue, ShipInv
<1>1. PICK g : g = ship[c]
  OBVIOUS
<1>. DEFINE w == written[g.run]
<1>2. RowOK(g) /\ ReadOK(g) /\ TailSeqs(g.read, g.ack) # {}
  BY <1>1 DEF ShipInv, CallOK, BlobsOK, At, Calling, Requests
<1>3. /\ g.run \in Run /\ g.status \in {"open", "terminal"}
      /\ g.read \in Events /\ w \in Events /\ Len(g.read) <= Len(w)
      /\ \A i \in 1..Len(g.read) : g.read[i] = w[i]
  BY <1>2 DEF RowOK, ReadOK, ShipInv, LocalInv, JournalsOK
<1>4. PICK e : e = [n \in TailSeqs(g.read, g.ack) |-> g.read[n]]
  OBVIOUS
<1>5. PICK copy : copy = [run_id |-> g.run, status |-> g.status,
                          lineage |-> LineageOf(g.read), events |-> e]
  OBVIOUS
<1>6. Parse(Shipment(c)) = copy
  BY <1>1, <1>3, <1>4, <1>5 DEF Parse, Shipment, Project
<1>7. copy # ShipmentFormatError /\ copy.run_id = g.run
  BY <1>3, <1>5, NamesAreApart DEF ShipmentFormatError
<1>8. \A n \in DOMAIN e : n > g.ack /\ e[n] = w[n]
  BY <1>3, <1>4 DEF TailSeqs, Events
<1>9. g.status = "terminal" => Len(w) = Len(g.read)
  <2>1. g.read # <<>>
    BY <1>2 DEF TailSeqs
  <2>. QED BY <1>2, <2>1 DEF ReadOK
<1>10. ForkSeqs(w) \subseteq DOMAIN g.read => LineageOf(g.read) = LineageOf(w)
  BY <1>3, LineageIsOfAll
<1>. HIDE DEF w
<1>11. /\ copy # ShipmentFormatError /\ copy.run_id = g.run
       /\ \A n \in DOMAIN copy.events : n > g.ack /\ copy.events[n] = w[n]
       /\ copy.status = "terminal" => Len(w) = Len(g.read)
       /\ ForkSeqs(w) \subseteq DOMAIN g.read => copy.lineage = LineageOf(w)
  BY <1>5, <1>7, <1>8, <1>9, <1>10
<1>. QED BY <1>1, <1>6, <1>11 DEF ShipmentIsTrue, w

\* The plane has a blob before any event that names it, and what is about to be sent
\* reads back as what the journal holds, header and lineage included, though requests
\* fail half-way, calls overlap, and runs go on, end, fork and are deleted under them
\* (ADR-0045, wire.py).
THEOREM ShipmentsAreTrueHolds == Spec => []ShipmentsAreTrue
<1>1. Spec => []ShipInv
  BY ShipInvInit, ShipInvStep, PTL DEF Spec
<1>. QED BY <1>1, TrueShipments, PTL

-----------------------------------------------------------------------------
(* The promise of shipping                                                  *)

\* What the plane stored is part of the journal.
StoredOK ==
  \A r \in Run : /\ DOMAIN stored[r] \subseteq 1..Len(written[r])
                 /\ \A n \in DOMAIN stored[r] : stored[r][n] = written[r][n]

Copy == [r \in Run |-> [n \in 1..Contiguous(r) |-> stored[r][n]]]

HighestIn(D) == Max({n \in 0..Cardinality(D) : 1..n \subseteq D})

LEMMA HighestIsContiguous ==
  ASSUME NEW m \in Nat, NEW D \in SUBSET (1..m)
  PROVE  /\ HighestIn(D) \in 0..m /\ 1..HighestIn(D) \subseteq D
         /\ \A n \in Nat : 1..n \subseteq D => n <= HighestIn(D)
<1>. DEFINE S == {n \in 0..Cardinality(D) : 1..n \subseteq D}
<1>1. IsFiniteSet(D) /\ Cardinality(D) \in Nat
  <2>1. IsFiniteSet(1..m)
    BY FS_Interval
  <2>. QED BY <2>1, FS_Subset, FS_CardinalityType
<1>2. 0 \in S /\ S \subseteq 0..Cardinality(D)
  BY <1>1
<1>3. S # {}
  BY <1>2
<1>4. HighestIn(D) = Max(S)
  BY DEF HighestIn
<1>5. HighestIn(D) \in S /\ \A n \in S : n <= HighestIn(D)
  <2>. HIDE DEF S
  <2>. QED BY <1>1, <1>2, <1>3, <1>4, MaxIsMember
<1>6. ASSUME NEW n \in Nat, 1..n \subseteq D PROVE n \in S
  <2>1. Cardinality(1..n) = n
    BY FS_Interval
  <2>2. Cardinality(1..n) <= Cardinality(D)
    BY <1>1, <1>6, FS_Subset
  <2>. QED BY <1>1, <1>6, <2>1, <2>2
<1>7. HighestIn(D) \in Nat /\ 1..HighestIn(D) \subseteq D
  BY <1>1, <1>5
<1>8. HighestIn(D) <= m
  <2>1. HighestIn(D) = 0 \/ HighestIn(D) \in 1..HighestIn(D)
    BY <1>7
  <2>. QED BY <1>7, <2>1
<1>. QED BY <1>5, <1>6, <1>7, <1>8

\* What is contiguous of a part of a journal is a first part of it.
LEMMA ServedIsPrefix ==
  ASSUME NEW w \in Events, NEW s, DOMAIN s \subseteq 1..Len(w), \A n \in DOMAIN s : s[n] = w[n],
         NEW k, k = HighestIn(DOMAIN s)
  PROVE  /\ k \in 0..Len(w) /\ 1..k \subseteq DOMAIN s
         /\ [n \in 1..k |-> s[n]] = SubSeq(w, 1, k) /\ Len(SubSeq(w, 1, k)) = k
<1>1. Len(w) \in Nat
  BY DEF Events
<1>2. k \in 0..Len(w) /\ 1..k \subseteq DOMAIN s
  BY <1>1, HighestIsContiguous
<1>3. SubSeq(w, 1, k) = [n \in 1..k |-> w[n]] /\ Len(SubSeq(w, 1, k)) = k
  BY <1>1, <1>2 DEF Events
<1>. QED BY <1>2, <1>3

\* The plane stores a part of a tail while the journals stand still, or nothing.
LEMMA HowThePlaneChanges ==
  ASSUME [Next]_vars
  PROVE  \/ UNCHANGED stored
         \/ UNCHANGED local /\ \E c \in Caller : At(c, "send") /\
              \E seqs \in SUBSET TailOf(c) : Store(Shipment(c), seqs)
<1>1. CASE UNCHANGED vars
  BY <1>1 DEF vars, shipping, plane
<1>2. CASE LocalNext /\ UNCHANGED shipping
  BY <1>2 DEF shipping, plane
<1>3. ASSUME NEW c \in Caller, RequestFails(c) \/ AnswerUnreadable(c) \/ Send(c)
      PROVE  \/ UNCHANGED stored
             \/ UNCHANGED local /\ At(c, "send") /\ \E seqs \in SUBSET TailOf(c) : Store(Shipment(c), seqs)
  BY <1>3 DEF RequestFails, AnswerUnreadable, Send, plane
<1>4. ASSUME NEW c \in Caller, NEW r \in Run, BeginShip(c, r) PROVE UNCHANGED stored
  BY <1>4 DEF BeginShip, plane
<1>5. ASSUME NEW c \in Caller,
             \/ ReadEvents(c) \/ LearnAck(c) \/ NextBlob(c) \/ BlobPresent(c) \/ BlobAbsent(c)
             \/ PutBlobAtPlane(c) \/ BlobsDone(c) \/ Backpressure(c)
      PROVE  UNCHANGED stored
  BY <1>5 DEF ReadEvents, LearnAck, NextBlob, BlobPresent, BlobAbsent, PutBlobAtPlane, BlobsDone,
     Backpressure, plane
<1>. QED BY <1>1, <1>2, <1>3, <1>4, <1>5 DEF Next, ShipStep

\* It stores what the journal holds, and keeps what it has.
LEMMA StoreIsTrue ==
  ASSUME ShipInv, StoredOK, UNCHANGED local, NEW c \in Caller, At(c, "send"),
         NEW seqs \in SUBSET TailOf(c), Store(Shipment(c), seqs)
  PROVE  StoredOK' /\ \E r \in Run : /\ \A q \in Run \ {r} : stored'[q] = stored[q]
                                     /\ DOMAIN stored[r] \subseteq DOMAIN stored'[r]
<1>1. PICK g : g = ship[c]
  OBVIOUS
<1>2. g.at = "send" /\ RowOK(g) /\ ReadOK(g) /\ g.run \in Run
  BY <1>1 DEF ShipInv, CallOK, RowOK, At, Calling, Requests
<1>3. Shipment(c).run.run_id = g.run
  BY <1>1 DEF Shipment, Project
<1>4. stored' = [stored EXCEPT ![g.run] =
        [n \in DOMAIN @ \cup seqs |-> IF n \in DOMAIN @ THEN @[n] ELSE Shipment(c).events[n]]]
  BY <1>3 DEF Store
<1>5. ASSUME NEW n \in seqs
      PROVE  n \in 1..Len(written[g.run]) /\ Shipment(c).events[n] = written[g.run][n]
  <2>1. n \in TailSeqs(g.read, g.ack) /\ TailOf(c) = TailSeqs(g.read, g.ack)
    BY <1>1, <1>5 DEF TailOf
  <2>2. Shipment(c).events[n] = g.read[n]
    BY <1>1, <2>1 DEF Shipment, Project
  <2>3. written[g.run] \in Events
    BY <1>2 DEF ShipInv, LocalInv, JournalsOK
  <2>. QED BY <1>2, <2>1, <2>2, <2>3 DEF TailSeqs, ReadOK, Events
<1>6. /\ \A q \in Run \ {g.run} : stored'[q] = stored[q]
      /\ stored'[g.run] = [n \in DOMAIN stored[g.run] \cup seqs |->
           IF n \in DOMAIN stored[g.run] THEN stored[g.run][n] ELSE Shipment(c).events[n]]
  BY <1>2, <1>4 DEF ShipInv
<1>7. UNCHANGED written
  BY DEF local
<1>8. ASSUME NEW r \in Run
      PROVE  /\ DOMAIN stored'[r] \subseteq 1..Len(written[r])
             /\ \A n \in DOMAIN stored'[r] : stored'[r][n] = written[r][n]
  <2>1. /\ DOMAIN stored[r] \subseteq 1..Len(written[r])
        /\ \A n \in DOMAIN stored[r] : stored[r][n] = written[r][n]
    BY DEF StoredOK
  <2>2. CASE r # g.run
    BY <1>6, <2>1, <2>2
  <2>3. CASE r = g.run
    BY <1>5, <1>6, <2>1, <2>3
  <2>. QED BY <2>2, <2>3
<1>. QED BY <1>2, <1>6, <1>7, <1>8 DEF StoredOK

LEMMA StoredStep == ShipInv /\ StoredOK /\ [Next]_vars => StoredOK'
<1>. SUFFICES ASSUME ShipInv, StoredOK, [Next]_vars PROVE StoredOK'
  OBVIOUS
<1>1. CASE UNCHANGED stored
  <2>1. ASSUME NEW r \in Run
        PROVE  /\ Len(written[r]) \in Nat /\ Len(written'[r]) \in Nat
               /\ Len(written[r]) <= Len(written'[r])
               /\ \A i \in 1..Len(written[r]) : written'[r][i] = written[r][i]
    <3>1. written[r] \in Events /\ written'[r] \in Events
      BY ShippingIsApart, LocalStep DEF ShipInv, LocalInv, JournalsOK
    <3>. QED BY <3>1, ShippingIsApart, LocalGrows DEF ShipInv, Events
  <2>. QED BY <1>1, <2>1 DEF StoredOK
<1>2. CASE UNCHANGED local /\ \E c \in Caller : At(c, "send") /\
             \E seqs \in SUBSET TailOf(c) : Store(Shipment(c), seqs)
  BY <1>2, StoreIsTrue
<1>. QED BY <1>1, <1>2, HowThePlaneChanges

LEMMA PromiseInit == Init => Promise!Init
<1>. SUFFICES ASSUME Init PROVE Promise!Init
  OBVIOUS
<1>1. written = [r \in Run |-> <<>>] /\ stored = [r \in Run |-> <<>>]
  BY DEF Init, LocalInit
<1>2. ASSUME NEW r \in Run PROVE Contiguous(r) = 0
  <2>1. Contiguous(r) = HighestIn(DOMAIN stored[r])
    BY DEF Contiguous, HighestIn
  <2>2. DOMAIN stored[r] \subseteq 1..0
    BY <1>1
  <2>. QED BY <2>1, <2>2, HighestIsContiguous
<1>3. Copy = [r \in Run |-> <<>>]
  BY <1>2 DEF Copy
<1>. QED BY <1>1, <1>3 DEF Promise!Init, Copy

\* A journal grows by one event.
LEMMA PromiseGrow ==
  ASSUME ShipInv, [Next]_vars, UNCHANGED stored
  PROVE  [\E r \in Run : Promise!Grow(r)]_<<written, Copy>>
<1>1. Copy' = Copy
  BY DEF Copy, Contiguous
<1>2. UNCHANGED written \/ Insert
  BY ShippingIsApart DEF LocalNext, local, CreateRun, Finish, DeleteRun, CommitEvent, BeginAppend,
     BeginFork, SeedEvent, WorkerCrash, GcStart, GcMark, GcList, GcEnd, GcSweep, Tick
<1>3. ASSUME Insert PROVE writer.run \in Run /\ Promise!Grow(writer.run)
  <2>1. /\ written' = [written EXCEPT ![writer.run] = Append(@, writer.event)]
        /\ writer.run \in Run
    BY <1>3 DEF Insert, ShipInv, LocalInv, WriterOK
  <2>2. written[writer.run] \in Events /\ written \in [Run -> Events] /\ writer.event \in Event
    BY <2>1 DEF ShipInv, LocalInv, JournalsOK, WriterOK, Writers
  <2>3. PICK w, e, r : w = written[writer.run] /\ e = writer.event /\ r = writer.run
    OBVIOUS
  <2>4. /\ Append(w, e) # <<>> /\ Append(w, e)[Len(Append(w, e))] = e
    <3>1. w \in Seq(Event) /\ e \in Event
      BY <2>2, <2>3 DEF Events
    <3>2. Len(Append(w, e)) = Len(w) + 1 /\ Len(w) \in Nat
      BY <3>1
    <3>3. Append(w, e)[Len(w) + 1] = e
      BY <3>1
    <3>. QED BY <3>2, <3>3
  <2>5. written'[r] = Append(w, e)
    BY <2>1, <2>2, <2>3
  <2>6. written' = [written EXCEPT ![r] = Append(@, written'[r][Len(written'[r])])]
    BY <2>1, <2>3, <2>4, <2>5
  <2>. QED BY <1>1, <2>1, <2>3, <2>4, <2>5, <2>6 DEF Promise!Grow, Copy
<1>. QED BY <1>1, <1>2, <1>3

\* What is served of one run grows.
LEMMA PromiseAcknowledge ==
  ASSUME ShipInv, StoredOK, StoredOK', UNCHANGED written,
         NEW r \in Run, \A q \in Run \ {r} : stored'[q] = stored[q],
         DOMAIN stored[r] \subseteq DOMAIN stored'[r]
  PROVE  Promise!Acknowledge(r)
<1>1. PICK w, s, t : w = written[r] /\ s = stored[r] /\ t = stored'[r]
  OBVIOUS
<1>2. PICK k, l : k = HighestIn(DOMAIN s) /\ l = HighestIn(DOMAIN t)
  OBVIOUS
<1>3. /\ w \in Events /\ DOMAIN s \subseteq DOMAIN t
      /\ DOMAIN s \subseteq 1..Len(w) /\ \A n \in DOMAIN s : s[n] = w[n]
      /\ DOMAIN t \subseteq 1..Len(w) /\ \A n \in DOMAIN t : t[n] = w[n]
  BY <1>1 DEF ShipInv, LocalInv, JournalsOK, StoredOK
<1>4. /\ k \in 0..Len(w) /\ 1..k \subseteq DOMAIN s
      /\ [n \in 1..k |-> s[n]] = SubSeq(w, 1, k) /\ Len(SubSeq(w, 1, k)) = k
  BY <1>2, <1>3, ServedIsPrefix
<1>5. l \in 0..Len(w) /\ [n \in 1..l |-> t[n]] = SubSeq(w, 1, l)
  BY <1>2, <1>3, ServedIsPrefix
<1>6. k <= l
  <2>1. Len(w) \in Nat
    BY <1>3 DEF Events
  <2>2. DOMAIN t \in SUBSET (1..Len(w)) /\ k \in Nat /\ 1..k \subseteq DOMAIN t
    BY <1>3, <1>4, <2>1
  <2>. QED BY <1>2, <2>1, <2>2, HighestIsContiguous
<1>7. Copy[r] = SubSeq(w, 1, k)
  BY <1>1, <1>2, <1>4 DEF Copy, Contiguous, HighestIn
<1>8. Copy'[r] = SubSeq(w, 1, l)
  BY <1>1, <1>2, <1>5 DEF Copy, Contiguous, HighestIn
<1>9. \A q \in Run \ {r} : Copy'[q] = Copy[q]
  BY DEF Copy, Contiguous
<1>10. Copy' = [Copy EXCEPT ![r] = SubSeq(w, 1, l)]
  BY <1>8, <1>9 DEF Copy
<1>11. l \in Len(Copy[r])..Len(written[r])
  <2>1. Len(w) \in Nat
    BY <1>3 DEF Events
  <2>. QED BY <1>1, <1>4, <1>5, <1>6, <1>7, <2>1
<1>12. \E n \in Len(Copy[r])..Len(written[r]) : Copy' = [Copy EXCEPT ![r] = SubSeq(written[r], 1, n)]
  BY <1>1, <1>10, <1>11
<1>. QED BY <1>12 DEF Promise!Acknowledge, Copy

\* Every step of Shipper is a step of JournalCopy or none.
LEMMA PromiseStep ==
  ShipInv /\ StoredOK /\ StoredOK' /\ [Next]_vars => [Promise!Next]_<<written, Copy>>
<1>. SUFFICES ASSUME ShipInv, StoredOK, StoredOK', [Next]_vars
              PROVE  [Promise!Next]_<<written, Copy>>
  OBVIOUS
<1>1. CASE UNCHANGED stored
  BY <1>1, PromiseGrow DEF Promise!Next
<1>2. CASE UNCHANGED local /\ \E c \in Caller : At(c, "send") /\
             \E seqs \in SUBSET TailOf(c) : Store(Shipment(c), seqs)
  <2>1. UNCHANGED written
    BY <1>2 DEF local
  <2>. QED BY <1>2, <2>1, StoreIsTrue, PromiseAcknowledge DEF Promise!Next
<1>. QED BY <1>1, <1>2, HowThePlaneChanges

\* What the plane acknowledges of a run is a prefix of its journal and only grows,
\* whatever is lost, sent twice or refused on the way, and whoever else ships it
\* (ADR-0044, ADR-0045).
THEOREM KeepsPromiseHolds == Spec => KeepsPromise
<1>1. Init => ShipInv /\ StoredOK
  BY ShipInvInit DEF Init, StoredOK
<1>2. Spec => [](ShipInv /\ StoredOK)
  BY <1>1, ShipInvStep, StoredStep, PTL DEF Spec
<1>3. Spec => Promise!Init /\ [][Promise!Next]_<<written, Copy>>
  BY <1>2, PromiseInit, PromiseStep, PTL DEF Spec
<1>. QED BY <1>3, PTL DEF KeepsPromise, Promise!Spec, Copy

-----------------------------------------------------------------------------
(* What a call reports                                                      *)

Late == {"blobs", "head", "put", "send"}

\* What was acknowledged stays stored, and what is asked for is what the call read.
CallReport(f) ==
  /\ f.at \in Late => f.ack \in Nat /\ 1..f.ack \subseteq DOMAIN stored[f.run]
  /\ f.at \in Late \ {"send"} => f.todo \subseteq BlobsIn(f.read)
  /\ f.at \in {"head", "put"} => f.blob \in BlobsIn(f.read)

ReportInv == \A c \in Caller : CallReport(ship[c])

\* The plane keeps what it has.
LEMMA StoredGrows ==
  ASSUME ShipInv, StoredOK, [Next]_vars, NEW r \in Run
  PROVE  DOMAIN stored[r] \subseteq DOMAIN stored'[r]
<1>1. CASE UNCHANGED stored
  BY <1>1
<1>2. CASE UNCHANGED local /\ \E c \in Caller : At(c, "send") /\
             \E seqs \in SUBSET TailOf(c) : Store(Shipment(c), seqs)
  BY <1>2, StoreIsTrue
<1>. QED BY <1>1, <1>2, HowThePlaneChanges

\* A call only moves itself.
LEMMA WhoMoves ==
  ASSUME ShipInv, [Next]_vars, NEW c \in Caller, ship'[c] # ship[c]
  PROVE  ShipStep(c) \/ \E r \in Run : BeginShip(c, r)
<1>1. ASSUME NEW d \in Caller, ShipStep(d) \/ \E r \in Run : BeginShip(d, r) PROVE \E h : Go(d, h)
  BY <1>1 DEF ShipStep, BeginShip, ReadEvents, LearnAck, NextBlob, BlobPresent, BlobAbsent,
     PutBlobAtPlane, BlobsDone, Send, RequestFails, AnswerUnreadable, Backpressure,
     Returns, RaisesMissing, RaisesError, Proceeds
<1>2. ASSUME NEW d \in Caller, NEW h, Go(d, h) PROVE d = c
  BY <1>2 DEF Go
<1>3. ~(UNCHANGED vars) /\ ~(UNCHANGED shipping)
  BY DEF vars, shipping
<1>. QED BY <1>1, <1>2, <1>3 DEF Next

\* Where a call can get late in its course, and from where.
LEMMA HowACallMoves ==
  ASSUME ShipInv, NEW c \in Caller, ShipStep(c), NEW g, g = ship[c], NEW f, f = ship'[c]
  PROVE  \/ f.at \notin Late
         \/ /\ g.at = "ack" /\ f.at = "blobs" /\ f.run = g.run /\ f.read = g.read
            /\ f.ack = Contiguous(g.run) /\ f.todo = BlobIdsIn(g.read, TailSeqs(g.read, f.ack))
         \/ /\ g.at \in Late /\ f.run = g.run /\ f.read = g.read /\ f.ack = g.ack
            /\ \/ f.at = "send"
               \/ f.at = "blobs" /\ g.at # "send" /\ f.todo = g.todo
               \/ f.at = "head" /\ g.at = "blobs" /\ f.blob \in g.todo /\ f.todo \subseteq g.todo
               \/ f.at \in {"head", "put"} /\ g.at \in {"head", "put"} /\ f.blob = g.blob /\ f.todo = g.todo
<1>1. IsCall(g)
  BY DEF ShipInv, CallOK
<1>2. ASSUME NEW h, Go(c, h) PROVE f = h
  BY <1>2 DEF Go, ShipInv
<1>3. CASE ReadEvents(c)
  <2>1. f = [g EXCEPT !.at = "ack", !.read = events[g.run]]
    BY <1>2, <1>3 DEF ReadEvents, RawEvents
  <2>. QED BY <1>1, <2>1 DEF IsCall, Late
<1>4. CASE LearnAck(c)
  <2>1. PICK ack : ack = Contiguous(g.run)
    OBVIOUS
  <2>2. g.at = "ack" /\ f = [[g EXCEPT !.at = "blobs", !.failures = 0] EXCEPT
                               !.ack = ack, !.todo = BlobIdsIn(g.read, TailSeqs(g.read, ack))]
    BY <1>2, <1>4, <2>1 DEF LearnAck, On, At
  <2>. QED BY <1>1, <2>1, <2>2 DEF IsCall
<1>5. CASE NextBlob(c)
  <2>1. PICK b \in g.todo : Go(c, [On(c, "head") EXCEPT !.blob = b, !.todo = @ \ {b}])
    BY <1>5 DEF NextBlob
  <2>2. g.at = "blobs" /\ f = [[g EXCEPT !.at = "head", !.failures = 0] EXCEPT !.blob = b, !.todo = @ \ {b}]
    BY <1>2, <1>5, <2>1 DEF NextBlob, At, On
  <2>. QED BY <1>1, <2>1, <2>2 DEF IsCall, Late
<1>6. CASE BlobPresent(c) \/ PutBlobAtPlane(c)
  <2>1. /\ g.at \in {"head", "put"}
        /\ f = [[g EXCEPT !.at = "blobs", !.failures = 0] EXCEPT !.blob = NoBlob]
    BY <1>2, <1>6 DEF BlobPresent, PutBlobAtPlane, At, On
  <2>. QED BY <1>1, <2>1 DEF IsCall, Late
<1>7. CASE BlobAbsent(c) \/ BlobsDone(c)
  <2>1. \/ g.at = "head" /\ f = [g EXCEPT !.at = "put", !.failures = 0]
        \/ g.at = "blobs" /\ f = [g EXCEPT !.at = "send", !.failures = 0]
        \/ \E at \in {"missing", "done"} : f = [NotShipping EXCEPT !.at = at]
    BY <1>2, <1>7 DEF BlobAbsent, BlobsDone, At, On, Proceeds, RaisesMissing, Returns
  <2>. QED BY <1>1, <2>1 DEF IsCall, Late, NotShipping
<1>8. CASE Send(c) \/ RequestFails(c) \/ AnswerUnreadable(c)
  <2>1. f = [NotShipping EXCEPT !.at = "done"] \/ f = NotShipping
    BY <1>2, <1>8 DEF Send, RequestFails, AnswerUnreadable, Returns, RaisesError
  <2>. QED BY <2>1 DEF Late, NotShipping
<1>9. CASE Backpressure(c)
  <2>1. \/ f = NotShipping
        \/ f = [g EXCEPT !.failures = @ + 1]
        \/ f = [g EXCEPT !.at = "asleep"]
    BY <1>2, <1>9 DEF Backpressure, RaisesError
  <2>2. g.at \in Requests
    BY <1>9 DEF Backpressure
  <2>. QED BY <1>1, <2>1, <2>2 DEF IsCall, Late, NotShipping, Requests
<1>. QED BY <1>3, <1>4, <1>5, <1>6, <1>7, <1>8, <1>9 DEF ShipStep

\* What is contiguous is stored.
LEMMA ContiguousIsStored ==
  ASSUME ShipInv, StoredOK, NEW r \in Run
  PROVE  /\ Contiguous(r) \in Nat /\ 1..Contiguous(r) \subseteq DOMAIN stored[r]
         /\ \A n \in Nat : 1..n \subseteq DOMAIN stored[r] => n <= Contiguous(r)
<1>1. written[r] \in Events /\ Len(written[r]) \in Nat
  BY DEF ShipInv, LocalInv, JournalsOK, Events
<1>2. DOMAIN stored[r] \in SUBSET (1..Len(written[r]))
  BY DEF StoredOK
<1>3. Contiguous(r) = HighestIn(DOMAIN stored[r])
  BY DEF Contiguous, HighestIn
<1>. QED BY <1>1, <1>2, <1>3, HighestIsContiguous

LEMMA ReportStep ==
  ASSUME ShipInv, StoredOK, ReportInv, [Next]_vars PROVE ReportInv'
<1>. SUFFICES ASSUME NEW c \in Caller, NEW g, g = ship[c], NEW f, f = ship'[c] PROVE CallReport(f)'
  BY DEF ReportInv
<1>1. CallReport(g) /\ CallOK(g)
  BY DEF ReportInv, ShipInv
<1>2. ASSUME g.at \in Late \cup {"ack"} PROVE g.run \in Run /\ g.read \in Events
  BY <1>1, <1>2 DEF CallOK, RowOK, ReadOK, Late, Calling, Requests
<1>3. CASE f = g
  <2>1. ASSUME f.at \in Late PROVE DOMAIN stored[f.run] \subseteq DOMAIN stored'[f.run]
    BY <1>2, <1>3, <2>1, StoredGrows
  <2>. QED BY <1>1, <1>3, <2>1 DEF CallReport, Late, BlobsIn
<1>4. CASE f.at \notin Late
  BY <1>4 DEF CallReport, Late
<1>5. CASE f # g /\ f.at \in Late
  <2>1. \/ ShipStep(c) \/ \E r \in Run : BeginShip(c, r)
    BY <1>5, WhoMoves
  <2>2. ASSUME NEW r \in Run, BeginShip(c, r) PROVE f.at \notin Late
    BY <2>2 DEF BeginShip, Go, ShipInv, Late, NotShipping
  <2>3. ShipStep(c)
    BY <1>5, <2>1, <2>2
  <2>4. CASE /\ g.at = "ack" /\ f.at = "blobs" /\ f.run = g.run /\ f.read = g.read
             /\ f.ack = Contiguous(g.run) /\ f.todo = BlobIdsIn(g.read, TailSeqs(g.read, f.ack))
    <3>1. f.ack \in Nat /\ 1..f.ack \subseteq DOMAIN stored'[f.run]
      BY <1>2, <2>4, ContiguousIsStored, StoredGrows
    <3>2. f.todo \subseteq BlobsIn(f.read)
      BY <2>4 DEF BlobIdsIn, TailSeqs, BlobsIn
    <3>. QED BY <2>4, <3>1, <3>2 DEF CallReport, BlobsIn
  <2>5. CASE /\ g.at \in Late /\ f.run = g.run /\ f.read = g.read /\ f.ack = g.ack
             /\ \/ f.at = "send"
                \/ f.at = "blobs" /\ g.at # "send" /\ f.todo = g.todo
                \/ f.at = "head" /\ g.at = "blobs" /\ f.blob \in g.todo /\ f.todo \subseteq g.todo
                \/ f.at \in {"head", "put"} /\ g.at \in {"head", "put"} /\ f.blob = g.blob /\ f.todo = g.todo
    <3>1. f.ack \in Nat /\ 1..f.ack \subseteq DOMAIN stored'[f.run]
      BY <1>1, <1>2, <2>5, StoredGrows DEF CallReport
    <3>2. /\ f.at \in Late \ {"send"} => f.todo \subseteq BlobsIn(f.read)
          /\ f.at \in {"head", "put"} => f.blob \in BlobsIn(f.read)
      BY <1>1, <2>5 DEF CallReport, Late
    <3>. QED BY <3>1, <3>2 DEF CallReport, BlobsIn
  <2>. QED BY <1>5, <2>3, <2>4, <2>5, HowACallMoves
<1>. QED BY <1>3, <1>4, <1>5

\* A call ends well when it has nothing left to send, or has sent it.
LEMMA DoneIsStored ==
  ASSUME ShipInv, StoredOK, ReportInv, ShipInv', StoredOK', NEW c \in Caller, NEW g, g = ship[c],
         g.run \in Run, g.at \in Calling,
         \/ BlobsDone(c) /\ TailOf(c) = {}
         \/ Send(c)
  PROVE  1..Len(g.read) \subseteq DOMAIN stored'[g.run] /\ Len(g.read) \in Nat
<1>1. /\ g.read \in Events /\ g.ack \in Nat /\ 1..g.ack \subseteq DOMAIN stored[g.run]
  BY DEF BlobsDone, Send, At, ReportInv, CallReport, Late, ShipInv, CallOK, ReadOK, Requests
<1>2. Len(g.read) \in Nat /\ DOMAIN g.read = 1..Len(g.read)
  BY <1>1 DEF Events
<1>3. TailOf(c) = {n \in 1..Len(g.read) : n > g.ack}
  BY <1>2 DEF TailOf, TailSeqs
<1>4. 1..Len(g.read) \subseteq DOMAIN stored[g.run] \cup TailOf(c)
  BY <1>1, <1>2, <1>3
<1>5. CASE BlobsDone(c) /\ TailOf(c) = {}
  BY <1>2, <1>4, <1>5 DEF BlobsDone, plane
<1>6. CASE Send(c)
  <2>1. Shipment(c).run.run_id = g.run
    BY DEF Shipment, Project
  <2>2. stored' = [stored EXCEPT ![g.run] =
          [n \in DOMAIN @ \cup TailOf(c) |-> IF n \in DOMAIN @ THEN @[n] ELSE Shipment(c).events[n]]]
    BY <1>6, <2>1 DEF Send, Store
  <2>3. DOMAIN stored'[g.run] = DOMAIN stored[g.run] \cup TailOf(c)
    BY <2>2 DEF ShipInv
  <2>. QED BY <1>2, <1>4, <2>3
<1>. QED BY <1>5, <1>6

\* How a call can end that does not raise because of a request.
LEMMA WhoEnds ==
  ASSUME ShipInv, [Next]_vars, NEW c \in Caller, NEW g, g = ship[c], NEW f, f = ship'[c],
         g.at \in Calling, f.at \in {"done", "missing"}
  PROVE  \/ f.at = "done" /\ ((BlobsDone(c) /\ TailOf(c) = {}) \/ Send(c))
         \/ f.at = "missing" /\ BlobAbsent(c) /\ ~OnDisk(g.blob)
<1>1. IsCall(g) /\ f # g
  BY DEF ShipInv, CallOK, Calling, Requests
<1>2. ASSUME NEW h, Go(c, h) PROVE f = h
  BY <1>2 DEF Go, ShipInv
<1>3. ASSUME NEW r \in Run, BeginShip(c, r) PROVE FALSE
  BY <1>3 DEF BeginShip
<1>4. ShipStep(c)
  BY <1>1, <1>3, WhoMoves
<1>5. CASE BlobsDone(c)
  <2>1. IF TailOf(c) = {} THEN f = [NotShipping EXCEPT !.at = "done"]
        ELSE f = [g EXCEPT !.at = "send", !.failures = 0]
    BY <1>2, <1>5 DEF BlobsDone, Returns, Proceeds, On
  <2>. QED BY <1>1, <1>5, <2>1 DEF IsCall, NotShipping
<1>6. CASE BlobAbsent(c)
  <2>1. IF OnDisk(g.blob) THEN f = [g EXCEPT !.at = "put", !.failures = 0]
        ELSE f = [NotShipping EXCEPT !.at = "missing"]
    BY <1>2, <1>6 DEF BlobAbsent, RaisesMissing, Proceeds, On
  <2>. QED BY <1>1, <1>6, <2>1 DEF IsCall, NotShipping
<1>7. CASE Send(c)
  <2>1. f = [NotShipping EXCEPT !.at = "done"]
    BY <1>2, <1>7 DEF Send, Returns
  <2>. QED BY <1>7, <2>1 DEF NotShipping
<1>8. CASE RequestFails(c) \/ AnswerUnreadable(c)
  <2>1. f = NotShipping
    BY <1>2, <1>8 DEF RequestFails, AnswerUnreadable, RaisesError
  <2>. QED BY <2>1 DEF NotShipping
<1>9. CASE Backpressure(c)
  <2>1. \/ f = NotShipping
        \/ f = [g EXCEPT !.failures = @ + 1]
        \/ f = [g EXCEPT !.at = "asleep"]
    BY <1>2, <1>9 DEF Backpressure, RaisesError
  <2>. QED BY <1>1, <2>1 DEF IsCall, NotShipping, Calling, Requests
<1>10. CASE ReadEvents(c) \/ LearnAck(c) \/ NextBlob(c) \/ BlobPresent(c) \/ PutBlobAtPlane(c)
  <2>1. CASE ReadEvents(c)
    <3>1. f = [g EXCEPT !.at = "ack", !.read = events[g.run]]
      BY <1>2, <2>1 DEF ReadEvents, RawEvents
    <3>. QED BY <1>1, <3>1 DEF IsCall
  <2>2. CASE LearnAck(c) \/ NextBlob(c) \/ BlobPresent(c) \/ PutBlobAtPlane(c)
    <3>1. f.at \in Late
      <4>1. \/ \E a, t : f = [[g EXCEPT !.at = "blobs", !.failures = 0] EXCEPT !.ack = a, !.todo = t]
            \/ \E b : f = [[g EXCEPT !.at = "head", !.failures = 0] EXCEPT !.blob = b, !.todo = @ \ {b}]
            \/ f = [[g EXCEPT !.at = "blobs", !.failures = 0] EXCEPT !.blob = NoBlob]
        BY <1>2, <2>2 DEF LearnAck, NextBlob, BlobPresent, PutBlobAtPlane, On
      <4>. QED BY <1>1, <4>1 DEF IsCall, Late
    <3>. QED BY <3>1 DEF Late
  <2>. QED BY <1>10, <2>1, <2>2
<1>. QED BY <1>4, <1>5, <1>6, <1>7, <1>8, <1>9, <1>10 DEF ShipStep

LEMMA TrueReports ==
  ASSUME ShipInv, StoredOK, ReportInv, ReferencedIsKept, ShipInv', StoredOK', [Next]_vars,
         NEW c \in Caller
  PROVE  ShippedIsStored(c) /\ MissingIsDeleted(c)
<1>1. PICK g, f : g = ship[c] /\ f = ship'[c]
  OBVIOUS
<1>2. ASSUME g.at \in Calling PROVE g.run \in Run
  BY <1>1, <1>2 DEF ShipInv, CallOK, RowOK
<1>3. ASSUME g.at \in Calling, f.at = "done" PROVE Contiguous(g.run)' >= Len(g.read)
  <2>1. 1..Len(g.read) \subseteq DOMAIN stored'[g.run] /\ Len(g.read) \in Nat
    BY <1>1, <1>2, <1>3, WhoEnds, DoneIsStored
  <2>2. Len(written'[g.run]) \in Nat /\ DOMAIN stored'[g.run] \in SUBSET (1..Len(written'[g.run]))
    <3>1. written'[g.run] \in Events
      BY <1>2, <1>3 DEF ShipInv, LocalInv, JournalsOK
    <3>. QED BY <1>2, <1>3, <3>1 DEF StoredOK, Events
  <2>3. Contiguous(g.run)' = HighestIn(DOMAIN stored'[g.run])
    BY DEF Contiguous, HighestIn
  <2>. QED BY <2>1, <2>2, <2>3, HighestIsContiguous
<1>4. ASSUME g.at \in Calling, f.at = "missing" PROVE state[g.run] = "deleted" \/ g.blob \in reused
  <2>1. g.at = "head" /\ g.blob \notin DOMAIN files
    BY <1>1, <1>4, WhoEnds DEF BlobAbsent, At, OnDisk
  <2>2. /\ g.blob \in BlobsIn(g.read) /\ g.read \in Events /\ Len(g.read) <= Len(written[g.run])
        /\ \A i \in 1..Len(g.read) : g.read[i] = written[g.run][i]
    BY <1>1, <2>1 DEF ReportInv, CallReport, ShipInv, CallOK, ReadOK, Requests
  <2>3. /\ written[g.run] \in Events
        /\ state[g.run] # "deleted" => events[g.run] = written[g.run]
    BY <1>2, <1>4 DEF ShipInv, LocalInv, JournalsOK
  <2>4. ASSUME state[g.run] # "deleted" PROVE g.blob \in BlobsIn(events[g.run])
    BY <2>2, <2>3, <2>4 DEF BlobsIn, Events
  <2>. QED BY <1>2, <1>4, <2>1, <2>4 DEF ReferencedIsKept, Referenced
<1>. QED BY <1>1, <1>3, <1>4 DEF ShippedIsStored, MissingIsDeleted, Ended

\* What a call reports is so: when it succeeds the plane is up to the journal it read,
\* from whatever gaps earlier calls left, and a blob it misses is gone with its run or
\* was an orphan that a sweep took.
THEOREM ReportIsTrueHolds == Spec => ReportIsTrue
<1>1. Init => ShipInv /\ StoredOK /\ ReportInv
  BY ShipInvInit DEF Init, StoredOK, ReportInv, CallReport, NotShipping, Late
<1>2. Spec => [](ShipInv /\ StoredOK /\ ReportInv)
  BY <1>1, ShipInvStep, StoredStep, ReportStep, PTL DEF Spec
<1>3. ShipInv /\ StoredOK /\ ReportInv /\ ReferencedIsKept /\ (ShipInv /\ StoredOK)' /\ [Next]_vars
        => [\A c \in Caller : ShippedIsStored(c) /\ MissingIsDeleted(c)]_vars
  BY TrueReports
<1>. QED BY <1>2, <1>3, ReferencedIsKeptHolds, PTL DEF Spec, ReportIsTrue


-----------------------------------------------------------------------------
(* A call ends                                                              *)

\* It waits for what was refused as often as it may, and uploads known blobs.
CallCounts(f) ==
  /\ f.failures \in 0..MaxRetries /\ (f.at \notin Requests => f.failures = 0)
  /\ f.at \in {"blobs", "head", "put"} => f.todo \in SUBSET Blob

CountsOK == \A c \in Caller : CallCounts(ship[c])

\* One request fewer outweighs all refusals.
LEMMA LessToDo ==
  ASSUME NEW m \in Nat, NEW r \in Nat, NEW s \in Nat, s < r, NEW f \in 0..m, NEW g \in Nat
  PROVE  s * (m + 1) - g \in Int /\ s * (m + 1) - g < r * (m + 1) - f
<1>1. PICK k \in Nat : r = s + 1 + k
  <2>1. r - s - 1 \in Nat /\ r = s + 1 + (r - s - 1)
    OBVIOUS
  <2>. QED BY <2>1
<1>2. r * (m + 1) = s * (m + 1) + (m + 1) + k * (m + 1) /\ k * (m + 1) \in Nat /\ s * (m + 1) \in Nat
  BY <1>1
<1>. QED BY <1>2

\* What is left of a call is a number of steps.
LEMMA StepsAreCounted ==
  ASSUME IsFiniteSet(Blob), NEW f, CallCounts(f), RequestsLeft(f) \in Nat
  PROVE  StepsLeft(f) \in Nat
<1>1. MaxRetries \in Nat /\ f.failures \in 0..MaxRetries
  BY BackoffIsDefined DEF CallCounts
<1>2. CASE RequestsLeft(f) = 0
  <2>1. f.failures = 0
    <3>1. f.at \notin Requests
      BY <1>2, FS_CardinalityType, FS_Subset DEF RequestsLeft, Requests, CallCounts
    <3>. QED BY <3>1 DEF CallCounts
  <2>. QED BY <1>1, <1>2, <2>1 DEF StepsLeft
<1>3. CASE RequestsLeft(f) > 0
  <2>. QED BY <1>1, <1>3, LessToDo DEF StepsLeft
<1>. QED BY <1>2, <1>3

\* A step of a call takes a request off it, or is a refusal it waits out.
LEMMA CallsCountDown ==
  ASSUME IsFiniteSet(Blob), ShipInv, CountsOK, NEW c \in Caller, ShipStep(c),
         NEW g, g = ship[c], NEW f, f = ship'[c]
  PROVE  /\ CallCounts(f) /\ f.at # "asleep"
         /\ RequestsLeft(f) \in Nat /\ RequestsLeft(g) \in Nat
         /\ \/ RequestsLeft(f) < RequestsLeft(g)
            \/ RequestsLeft(f) = RequestsLeft(g) /\ f.failures = g.failures + 1
<1>1. IsCall(g) /\ CallCounts(g) /\ MaxRetries \in Nat
  BY BackoffIsDefined DEF ShipInv, CallOK, CountsOK
<1>2. ASSUME NEW h, Go(c, h) PROVE f = h
  BY <1>2 DEF Go, ShipInv
<1>3. \A S \in SUBSET Blob : /\ IsFiniteSet(S) /\ Cardinality(S) \in Nat
                             /\ Cardinality(S) <= Cardinality(Blob)
  BY FS_Subset, FS_CardinalityType
<1>4. Cardinality(Blob) \in Nat /\ Cardinality({}) = 0
  BY <1>3, FS_EmptySet
<1>5. ASSUME f = NotShipping \/ \E at \in {"missing", "done"} : f = [NotShipping EXCEPT !.at = at],
             g.at \in Calling
      PROVE  /\ CallCounts(f) /\ f.at # "asleep"
             /\ RequestsLeft(f) = 0 /\ RequestsLeft(g) \in Nat /\ RequestsLeft(g) > 0
  <2>1. f.at \in {"idle", "missing", "done"} /\ f.failures = 0
    BY <1>5 DEF NotShipping
  <2>2. RequestsLeft(g) \in Nat /\ RequestsLeft(g) > 0
    BY <1>1, <1>3, <1>4, <1>5 DEF RequestsLeft, CallCounts, Calling, Requests
  <2>. QED BY <1>1, <2>1, <2>2 DEF CallCounts, RequestsLeft
<1>6. CASE ReadEvents(c)
  <2>1. g.at = "read" /\ f = [g EXCEPT !.at = "ack", !.read = events[g.run]]
    BY <1>2, <1>6 DEF ReadEvents, RawEvents, At
  <2>2. f.at = "ack" /\ f.failures = g.failures
    BY <1>1, <2>1 DEF IsCall
  <2>. QED BY <1>1, <1>4, <2>1, <2>2 DEF CallCounts, RequestsLeft, Requests
<1>7. CASE LearnAck(c)
  <2>1. PICK ack, todo : todo = BlobIdsIn(g.read, TailSeqs(g.read, ack)) /\
          g.at = "ack" /\ f = [[g EXCEPT !.at = "blobs", !.failures = 0] EXCEPT !.ack = ack, !.todo = todo]
    BY <1>2, <1>7 DEF LearnAck, On, At
  <2>2. g.read \in Seq(Event)
    BY <2>1 DEF ShipInv, CallOK, ReadOK, Requests, Events
  <2>3. todo \in SUBSET Blob
    <3>1. \A n \in DOMAIN g.read : g.read[n] \in Event
      BY <2>2
    <3>2. \A e \in Event : e.blob \in Blob \cup {NoBlob}
      BY DEF Event
    <3>. QED BY <2>1, <3>1, <3>2 DEF BlobIdsIn, TailSeqs
  <2>4. f.at = "blobs" /\ f.failures = 0 /\ f.todo = todo
    BY <1>1, <2>1 DEF IsCall
  <2>. QED BY <1>1, <1>3, <1>4, <2>1, <2>3, <2>4 DEF CallCounts, RequestsLeft
<1>8. CASE NextBlob(c)
  <2>1. PICK b \in g.todo : Go(c, [On(c, "head") EXCEPT !.blob = b, !.todo = @ \ {b}])
    BY <1>8 DEF NextBlob
  <2>2. g.at = "blobs" /\ f = [[g EXCEPT !.at = "head", !.failures = 0] EXCEPT !.blob = b, !.todo = @ \ {b}]
    BY <1>2, <1>8, <2>1 DEF NextBlob, At, On
  <2>3. f.at = "head" /\ f.failures = 0 /\ f.todo = g.todo \ {b} /\ g.todo \in SUBSET Blob
    BY <1>1, <2>2 DEF IsCall, CallCounts
  <2>4. Cardinality(f.todo) = Cardinality(g.todo) - 1
    BY <1>3, <2>1, <2>3, FS_RemoveElement
  <2>. QED BY <1>1, <1>3, <2>2, <2>3, <2>4 DEF CallCounts, RequestsLeft
<1>9. CASE BlobPresent(c) \/ PutBlobAtPlane(c)
  <2>1. /\ g.at \in {"head", "put"}
        /\ f = [[g EXCEPT !.at = "blobs", !.failures = 0] EXCEPT !.blob = NoBlob]
    BY <1>2, <1>9 DEF BlobPresent, PutBlobAtPlane, At, On
  <2>2. f.at = "blobs" /\ f.failures = 0 /\ f.todo = g.todo
    BY <1>1, <2>1 DEF IsCall
  <2>. QED BY <1>1, <1>3, <2>1, <2>2 DEF CallCounts, RequestsLeft
<1>10. CASE BlobAbsent(c) \/ BlobsDone(c)
  <2>1. \/ g.at = "head" /\ f = [g EXCEPT !.at = "put", !.failures = 0]
        \/ g.at = "blobs" /\ g.todo = {} /\ f = [g EXCEPT !.at = "send", !.failures = 0]
        \/ /\ g.at \in Calling
           /\ \E at \in {"missing", "done"} : f = [NotShipping EXCEPT !.at = at]
    BY <1>2, <1>10
    DEF BlobAbsent, BlobsDone, At, On, Proceeds, RaisesMissing, Returns, Calling, Requests
  <2>2. CASE g.at = "head" /\ f = [g EXCEPT !.at = "put", !.failures = 0]
    <3>1. f.at = "put" /\ f.failures = 0 /\ f.todo = g.todo
      BY <1>1, <2>2 DEF IsCall
    <3>. QED BY <1>1, <1>3, <2>2, <3>1 DEF CallCounts, RequestsLeft
  <2>3. CASE g.at = "blobs" /\ g.todo = {} /\ f = [g EXCEPT !.at = "send", !.failures = 0]
    <3>1. f.at = "send" /\ f.failures = 0
      BY <1>1, <2>3 DEF IsCall
    <3>. QED BY <1>1, <1>4, <2>3, <3>1 DEF CallCounts, RequestsLeft
  <2>. QED BY <1>5, <2>1, <2>2, <2>3
<1>11. CASE Send(c) \/ RequestFails(c) \/ AnswerUnreadable(c)
  <2>1. g.at \in Calling /\ (f = NotShipping \/ f = [NotShipping EXCEPT !.at = "done"])
    BY <1>2, <1>11 DEF Send, RequestFails, AnswerUnreadable, At, Returns, RaisesError, Calling, Requests
  <2>. QED BY <1>5, <2>1
<1>12. CASE Backpressure(c)
  <2>1. \A hint \in Hints : \A n : WakesUp(Delay(hint, n))
    BY DEF Hints, WakesUp, Delay, RetryAfter, backoff_delay
  <2>2. /\ g.at \in Requests
        /\ \/ f = NotShipping
           \/ g.failures + 1 <= MaxRetries /\ f = [g EXCEPT !.failures = @ + 1]
    BY <1>1, <1>2, <1>12, <2>1 DEF Backpressure, RaisesError, CallCounts
  <2>3. CASE g.failures + 1 <= MaxRetries /\ f = [g EXCEPT !.failures = @ + 1]
    <3>1. f.at = g.at /\ f.failures = g.failures + 1 /\ f.todo = g.todo
      BY <1>1, <2>3 DEF IsCall
    <3>2. RequestsLeft(f) = RequestsLeft(g)
      BY <3>1 DEF RequestsLeft
    <3>3. RequestsLeft(g) \in Nat
      BY <1>1, <1>3, <1>4, <2>2 DEF CallCounts, RequestsLeft, Requests
    <3>4. CallCounts(f) /\ f.at # "asleep"
      BY <1>1, <2>2, <2>3, <3>1 DEF CallCounts, Requests
    <3>. QED BY <3>1, <3>2, <3>3, <3>4
  <2>. QED BY <1>5, <2>2, <2>3 DEF Calling
<1>. QED BY <1>5, <1>6, <1>7, <1>8, <1>9, <1>10, <1>11, <1>12 DEF ShipStep

LEMMA CountsStep ==
  ASSUME IsFiniteSet(Blob), ShipInv, CountsOK, [Next]_vars PROVE CountsOK'
<1>. SUFFICES ASSUME NEW c \in Caller, ship'[c] # ship[c] PROVE CallCounts(ship'[c])
  BY DEF CountsOK, CallCounts
<1>1. CASE ShipStep(c)
  BY <1>1, CallsCountDown
<1>2. ASSUME NEW r \in Run, BeginShip(c, r) PROVE CallCounts(ship'[c])
  <2>1. ship'[c] = [NotShipping EXCEPT !.at = "read", !.run = r, !.status = state[r]]
    BY <1>2 DEF BeginShip, Go, ShipInv
  <2>. QED BY <2>1, BackoffIsDefined DEF CallCounts, NotShipping
<1>. QED BY <1>1, <1>2, WhoMoves

\* A call of ship_run ends: there are only so many blobs to upload, refusals count, and
\* no Retry-After makes it wait without end.
THEOREM ShipEndsHolds == ASSUME IsFiniteSet(Blob) PROVE Spec => ShipEnds
<1>1. Init => ShipInv /\ CountsOK
  BY ShipInvInit, BackoffIsDefined DEF Init, CountsOK, CallCounts, NotShipping
<1>2. Spec => [](ShipInv /\ CountsOK)
  <2>1. ShipInv /\ CountsOK /\ [Next]_vars => ShipInv' /\ CountsOK'
    BY ShipInvStep, CountsStep
  <2>. QED BY <1>1, <2>1, PTL DEF Spec
<1>3. ASSUME ShipInv, CountsOK, [Next]_vars, NEW c \in Caller,
             ship'[c] # ship[c], ship[c].at \in Calling
      PROVE  StepsLeft(ship'[c]) \in 0..(StepsLeft(ship[c]) - 1) /\ ship'[c].at # "asleep"
  <2>1. PICK g, f : g = ship[c] /\ f = ship'[c]
    OBVIOUS
  <2>2. ShipStep(c)
    BY <1>3, WhoMoves DEF BeginShip
  <2>3. /\ CallCounts(f) /\ CallCounts(g) /\ f.at # "asleep"
        /\ RequestsLeft(f) \in Nat /\ RequestsLeft(g) \in Nat
        /\ \/ RequestsLeft(f) < RequestsLeft(g)
           \/ RequestsLeft(f) = RequestsLeft(g) /\ f.failures = g.failures + 1
    BY <1>3, <2>1, <2>2, CallsCountDown DEF CountsOK
  <2>4. MaxRetries \in Nat /\ g.failures \in 0..MaxRetries /\ f.failures \in Nat
    BY <2>3, BackoffIsDefined DEF CallCounts
  <2>5. CASE RequestsLeft(f) < RequestsLeft(g)
    <3>1. StepsLeft(f) \in Nat /\ StepsLeft(g) \in Nat
      BY <2>3, StepsAreCounted
    <3>2. StepsLeft(f) < StepsLeft(g)
      BY <2>3, <2>4, <2>5, LessToDo DEF StepsLeft
    <3>. QED BY <2>1, <2>3, <3>1, <3>2
  <2>6. CASE RequestsLeft(f) = RequestsLeft(g) /\ f.failures = g.failures + 1
    <3>1. PICK n \in Nat : n = RequestsLeft(g) * (MaxRetries + 1)
      BY <2>3, <2>4
    <3>2. StepsLeft(f) = n - f.failures /\ StepsLeft(g) = n - g.failures
      BY <2>6, <3>1 DEF StepsLeft
    <3>3. StepsLeft(f) \in Nat /\ StepsLeft(g) \in Nat
      BY <2>3, StepsAreCounted
    <3>. QED BY <2>1, <2>3, <2>4, <2>6, <3>1, <3>2, <3>3
  <2>. QED BY <2>1, <2>3, <2>5, <2>6
<1>4. ShipInv /\ CountsOK /\ [Next]_vars =>
        [\A c \in Caller : ship'[c] # ship[c] /\ ship[c].at \in Calling =>
           StepsLeft(ship'[c]) \in 0..(StepsLeft(ship[c]) - 1) /\ ship'[c].at # "asleep"]_vars
  BY <1>3
<1>. QED BY <1>2, <1>4, PTL DEF Spec, ShipEnds
=============================================================================
