--------------------------- MODULE FanOutProofs ---------------------------
(* What is recorded of the calls of a fan-out: theorems and proofs.          *)
EXTENDS FanOut, JournalProofs, WellFoundedInduction

-----------------------------------------------------------------------------
(* Types                                                                     *)

At == {"new", "attempt", "body", "backoff", "spent", "waiting", "done"}
Slot == Value \cup {"none", "error", "parked", "woke", "diverged", "unsafe", "retry", "last", "sleep"}
Identity == [name : Name, ord : Nat \cup Key] \cup {NoId}

TaskEvent == {"TaskScheduled", "TaskAttemptStarted", "TaskAttemptFailed", "TaskCompleted", "TaskFailed"}
SleepEvent == {"TimerCreated", "TimerFired", "WorkflowWaiting"}
Verdict == {"TaskCompleted", "TaskFailed"}

Fact == [type : EventType, id : Identity, n : Nat, val : Slot]
MemberType == [at : At, id : Identity, attempt : Nat, failures : Nat, slot : Slot]
OutcomeType == [id : Identity, slot : Slot]
FrameType == [loaded : Nat, scheduled : SUBSET Identity, failed : SUBSET Identity,
              ordinals : [Name -> Nat], issued : Nat, seen : Seq(Seq(OutcomeType)),
              members : Seq(MemberType)]

\* events of tasks belong to tasks, those of sleeps to sleeps
FactOK(e) ==
  /\ e.type \in TaskEvent => e.id.name \in Task
  /\ e.type \notin TaskEvent => e.id.name \notin Task
  /\ e.type \in {"TimerCreated", "TimerFired"} => e.id.name = "sleep"

\* where a drive is among its fan-outs
InRound(d) == Len(frame[d].seen) + 1 \in DOMAIN Plan[code]

\* a member that has begun has the identity of its call
MemberOK(d, i) ==
  /\ InRound(d) /\ i \in DOMAIN CurrentRound(d).calls
  /\ LET m == Member(d, i)  c == CallOf(d, i) IN
     m.at # "new" =>
       /\ m.id.name = c.name
       /\ c.key # NoKey => m.id.ord = c.key
       /\ c.key = NoKey => m.id.ord \in Nat /\ m.id.ord < frame[d].ordinals[c.name]
       /\ m.at = "waiting" => c.name = "sleep"
       /\ m.at \in {"attempt", "body", "backoff", "spent"} => c.name \in Task
  /\ Member(d, i).at # "done" => Member(d, i).slot = "none"

FrameOK(d) ==
  /\ frame[d].loaded <= Len(journal)
  /\ frame[d].failed \subseteq IdsOf("TaskFailed")
  /\ \A i \in Members(d) : MemberOK(d, i)
  /\ pc[d] = "drain" => Has(d, Raised)

FanTypes ==
  /\ journal \in Seq(Fact) /\ \A k \in 1..Len(journal) : FactOK(journal[k])
  /\ code \in Version /\ drives \in Nat
  /\ pc \in [Driver -> {"idle", "drive", "fan", "drain", "settle"}]
  /\ frame \in [Driver -> FrameType]
  /\ \A d \in Driver : FrameOK(d)

-----------------------------------------------------------------------------
(* The steps of a member                                                     *)

\* Member i of drive d moves, and nothing else of any drive.
MemberMoves(d, i) ==
  /\ UNCHANGED <<pc, code, drives>>
  /\ frame' \in [Driver -> FrameType]
  /\ \A e \in Driver \ {d} : frame'[e] = frame[e]
  /\ frame'[d].loaded = frame[d].loaded /\ frame'[d].seen = frame[d].seen
  /\ DOMAIN frame'[d].members = Members(d)
  /\ \A k \in Members(d) \ {i} : frame'[d].members[k] = Member(d, k)

Records(type, id) ==
  \E e \in Fact : e.type = type /\ e.id = id /\ journal' = Append(journal, e)

\* the calls without a key behind this one
Issued(d, i) == IF TakesPosition(CallOf(d, i)) THEN frame[d].issued + 1 ELSE frame[d].issued

\* A member begins: it takes its identity, and has its outcome or is on its way to it.
Begins(d, i) ==
  LET m == frame'[d].members[i]  id == CallId(d, i) IN
  /\ MayBegin(d, i) /\ m.id = id
  /\ \A n \in Name :
       frame'[d].ordinals[n] = IF n = CallOf(d, i).name /\ CallOf(d, i).key = NoKey
                               THEN frame[d].ordinals[n] + 1 ELSE frame[d].ordinals[n]
  /\ frame'[d].failed = frame[d].failed /\ frame'[d].issued = Issued(d, i)
  /\ m.at # "done" => m.slot \in {"none", Member(d, i).slot}
  /\ \/ m.at = "done" /\ UNCHANGED journal /\ frame'[d].scheduled = frame[d].scheduled
     \/ /\ m.at = "attempt" /\ Misses(d, i) /\ m.failures = PriorFailures(d, id)
        /\ frame'[d].scheduled = frame[d].scheduled \cup {id}
        /\ \/ UNCHANGED journal /\ id \in frame[d].scheduled
           \/ Records("TaskScheduled", id) /\ id \notin frame[d].scheduled
     \/ /\ m.at = "waiting" /\ CallOf(d, i).name = "sleep"
        /\ frame'[d].scheduled = frame[d].scheduled
        /\ UNCHANGED journal \/ Records("TimerCreated", id)

\* It goes on under its identity.
GoesOn(d, i) ==
  LET m == frame'[d].members[i]  id == Member(d, i).id  at == Member(d, i).at IN
  /\ m.id = id /\ frame'[d].ordinals = frame[d].ordinals
  /\ frame'[d].issued = frame[d].issued /\ frame'[d].scheduled = frame[d].scheduled
  /\ m.at # "done" => m.slot = Member(d, i).slot
  /\ \/ /\ at = "attempt" /\ m.at = "body" /\ m.failures = Member(d, i).failures
        /\ Records("TaskAttemptStarted", id) /\ frame'[d].failed = frame[d].failed
     \/ /\ at = "body" /\ m.at = "done"
        /\ Records("TaskCompleted", id) /\ frame'[d].failed = frame[d].failed
     \/ /\ at = "body" /\ Records("TaskAttemptFailed", id) /\ frame'[d].failed = frame[d].failed
        /\ \/ RetriesLeft(d, i) /\ m.at = "backoff" /\ m.failures = Member(d, i).failures + 1
           \/ ~RetriesLeft(d, i) /\ m.at \in {"spent", "done"}
     \/ /\ at = "backoff" /\ m.at = "attempt" /\ m.failures = Member(d, i).failures
        /\ UNCHANGED journal /\ frame'[d].failed = frame[d].failed
     \/ /\ at = "spent" /\ m.at = "done"
        /\ Records("TaskFailed", id) /\ frame'[d].failed = frame[d].failed \cup {id}
     \/ /\ at = "waiting" /\ m.at = "done" /\ frame'[d].failed = frame[d].failed
        /\ UNCHANGED journal \/ Records("WorkflowWaiting", id)

\* The call of a member is one of its round.
LEMMA CallsAreTyped ==
  ASSUME FanTypes, NEW d \in Driver, NEW i \in Members(d)
  PROVE  /\ CurrentRound(d) \in Round /\ IsRound(CurrentRound(d)) /\ i \in 1..Len(CurrentRound(d).calls)
         /\ CallOf(d, i) \in Call /\ CallOf(d, i).name \in Name
         /\ CallOf(d, i).key \in Key \cup {NoKey}
         /\ CallId(d, i) \in [name : Name, ord : Nat \cup Key]
         /\ CallId(d, i).name = CallOf(d, i).name
<1>1. /\ InRound(d) /\ i \in DOMAIN CurrentRound(d).calls /\ code \in Version
      /\ frame[d].ordinals \in [Name -> Nat]
  BY DEF FanTypes, FrameOK, MemberOK, FrameType
<1>2. IsRound(CurrentRound(d))
  BY <1>1, PlansAreRounds DEF InRound, CurrentRound
<1>3. CurrentRound(d) \in Round /\ CurrentRound(d).calls \in Seq(Call)
  BY <1>2 DEF IsRound, Round
<1>4. i \in 1..Len(CurrentRound(d).calls) /\ CallOf(d, i) \in Call
  BY <1>1, <1>3 DEF CallOf
<1>5. /\ CallOf(d, i).name \in Name /\ CallOf(d, i).key \in Key \cup {NoKey}
  BY <1>4 DEF Call, Name
<1>6. CallId(d, i) \in [name : Name, ord : Nat \cup Key]
  BY <1>1, <1>5 DEF CallId
<1> QED BY <1>2, <1>3, <1>4, <1>5, <1>6 DEF CallId

LEMMA MembersAreTyped ==
  ASSUME FanTypes, NEW d \in Driver, NEW i \in Members(d)
  PROVE  Member(d, i) \in MemberType /\ frame[d] \in FrameType
  BY DEF FanTypes, FrameType, Members, Member

\* Become and Enter replace a member.
LEMMA BecomeMoves ==
  ASSUME FanTypes, NEW d \in Driver, NEW i \in Members(d), UNCHANGED <<pc, code, drives>>,
         NEW m \in MemberType, Become(d, i, m)
  PROVE  /\ MemberMoves(d, i) /\ frame'[d].members[i] = m /\ frame'[d].ordinals = frame[d].ordinals
         /\ frame'[d].failed = frame[d].failed
         /\ frame'[d].issued = frame[d].issued /\ frame'[d].scheduled = frame[d].scheduled
<1>1. frame \in [Driver -> FrameType] /\ frame[d] \in FrameType
  BY DEF FanTypes
<1>2. frame[d].members \in Seq(MemberType) /\ i \in DOMAIN frame[d].members
  BY <1>1 DEF FrameType, Members
<1> DEFINE ms == [frame[d].members EXCEPT ![i] = m]
           f == [frame[d] EXCEPT !.members = ms]
<1>3. /\ ms \in Seq(MemberType) /\ ms[i] = m /\ DOMAIN ms = Members(d)
      /\ \A k \in Members(d) \ {i} : ms[k] = Member(d, k)
  BY <1>2 DEF Members, Member
<1>4. frame' = [frame EXCEPT ![d] = f]
  BY <1>1 DEF Become
<1> HIDE DEF ms
<1>5. /\ f \in FrameType /\ f.loaded = frame[d].loaded /\ f.seen = frame[d].seen /\ f.members = ms
      /\ f.ordinals = frame[d].ordinals /\ f.failed = frame[d].failed
      /\ f.issued = frame[d].issued /\ f.scheduled = frame[d].scheduled
  BY <1>1, <1>3 DEF FrameType
<1> HIDE DEF f
<1>6. frame'[d] = f /\ frame' \in [Driver -> FrameType] /\ \A e \in Driver \ {d} : frame'[e] = frame[e]
  BY <1>1, <1>4, <1>5
<1> QED BY <1>3, <1>5, <1>6 DEF MemberMoves

\* the counters behind a call
Counted(d, i) ==
  [frame[d].ordinals EXCEPT ![CallOf(d, i).name] = IF CallOf(d, i).key = NoKey THEN @ + 1 ELSE @]

LEMMA CountersAreTyped ==
  ASSUME FanTypes, NEW d \in Driver, NEW i \in Members(d)
  PROVE  /\ Counted(d, i) \in [Name -> Nat]
         /\ \A n \in Name :
              Counted(d, i)[n] = IF n = CallOf(d, i).name /\ CallOf(d, i).key = NoKey
                                 THEN frame[d].ordinals[n] + 1 ELSE frame[d].ordinals[n]
<1>1. frame[d].ordinals \in [Name -> Nat]
  BY MembersAreTyped DEF FrameType
<1>2. CallOf(d, i).name \in Name
  BY CallsAreTyped
<1> QED BY <1>1, <1>2 DEF Counted

LEMMA EnterMoves ==
  ASSUME FanTypes, NEW d \in Driver, NEW i \in Members(d), UNCHANGED <<pc, code, drives>>,
         NEW m \in MemberType, Enter(d, i, m)
  PROVE  /\ MemberMoves(d, i) /\ frame'[d].members[i] = [m EXCEPT !.id = CallId(d, i)]
         /\ frame'[d].ordinals = Counted(d, i) /\ frame'[d].failed = frame[d].failed
         /\ frame'[d].issued = Issued(d, i) /\ frame'[d].scheduled = frame[d].scheduled
<1>1. frame \in [Driver -> FrameType] /\ frame[d] \in FrameType
  BY DEF FanTypes
<1>2. frame[d].members \in Seq(MemberType) /\ i \in DOMAIN frame[d].members
  BY <1>1 DEF FrameType, Members
<1> DEFINE n == [m EXCEPT !.id = CallId(d, i)]
           ms == [frame[d].members EXCEPT ![i] = n]
           f == [frame[d] EXCEPT !.members = ms, !.ordinals = Counted(d, i), !.issued = Issued(d, i)]
<1>3. n \in MemberType
  BY CallsAreTyped DEF MemberType, Identity
<1> HIDE DEF n
<1>4. /\ ms \in Seq(MemberType) /\ ms[i] = n /\ DOMAIN ms = Members(d)
      /\ \A k \in Members(d) \ {i} : ms[k] = Member(d, k)
  BY <1>2, <1>3 DEF Members, Member
<1>5. frame' = [frame EXCEPT ![d] = f]
  BY <1>1 DEF Enter, Counted, Issued, FrameType, n
<1>6. Counted(d, i) \in [Name -> Nat] /\ Issued(d, i) \in Nat
  BY <1>1, CountersAreTyped DEF Issued, FrameType
<1> HIDE DEF ms
<1>7. /\ f \in FrameType /\ f.loaded = frame[d].loaded /\ f.seen = frame[d].seen /\ f.members = ms
      /\ f.ordinals = Counted(d, i) /\ f.failed = frame[d].failed
      /\ f.issued = Issued(d, i) /\ f.scheduled = frame[d].scheduled
  BY <1>1, <1>4, <1>6 DEF FrameType
<1> HIDE DEF f
<1>8. frame'[d] = f /\ frame' \in [Driver -> FrameType] /\ \A e \in Driver \ {d} : frame'[e] = frame[e]
  BY <1>1, <1>5, <1>7
<1> QED BY <1>4, <1>7, <1>8 DEF MemberMoves, n

\* What a drive reads back of a call is in the journal.
LEMMA LoadedIsThere ==
  ASSUME FanTypes, NEW d \in Driver, NEW type, NEW id, Loaded(d, type, id)
  PROVE  /\ LatestIndex(journal, frame[d].loaded, type, id) \in 1..Len(journal)
         /\ journal[LatestIndex(journal, frame[d].loaded, type, id)].type = type
         /\ journal[LatestIndex(journal, frame[d].loaded, type, id)].id = id
         /\ journal[LatestIndex(journal, frame[d].loaded, type, id)] \in Fact
<1>1. frame[d].loaded \in Nat /\ frame[d].loaded <= Len(journal) /\ journal \in Seq(Fact)
  BY DEF FanTypes, FrameOK, FrameType
<1>2. /\ LatestIndex(journal, frame[d].loaded, type, id) \in 1..frame[d].loaded
      /\ journal[LatestIndex(journal, frame[d].loaded, type, id)].type = type
      /\ journal[LatestIndex(journal, frame[d].loaded, type, id)].id = id
  BY <1>1, LatestIsRecorded DEF Loaded
<1> HIDE DEF LatestIndex
<1> QED BY <1>1, <1>2

LEMMA EntriesAreFacts ==
  ASSUME NEW type \in EventType, NEW id \in Identity, NEW n \in Nat, NEW val \in Slot,
         Commit(type, id, n, val)
  PROVE  Records(type, id)
<1>1. Entry(type, id, n, val) \in Fact
  BY DEF Entry, Fact
<1> QED BY <1>1 DEF Commit, Records, Entry

\* Prior failures and attempt numbers are numbers.
LEMMA CountsAreTyped ==
  ASSUME FanTypes, NEW d \in Driver, NEW id
  PROVE  PriorFailures(d, id) \in Nat /\ MaxAttempt(journal, frame[d].loaded, id) \in Nat
<1>1. frame[d].loaded \in Nat /\ frame[d].loaded <= Len(journal) /\ journal \in Seq(Fact)
  BY DEF FanTypes, FrameOK, FrameType
<1>2. \A k \in 1..Len(journal) : journal[k] \in Fact
  BY <1>1
<1>3. \A k \in 1..frame[d].loaded : journal[k].n \in Nat
  BY <1>1, <1>2 DEF Fact
<1> QED BY <1>1, <1>3, FailuresAreCounted, MaxAttemptFacts DEF PriorFailures

LEMMA QuickBegins ==
  ASSUME FanTypes, NEW d \in Driver, NEW i \in Members(d), NEW slot \in Slot, MayBegin(d, i),
         Enter(d, i, Done(d, i, slot)), UNCHANGED <<journal, rest>>
  PROVE  MemberMoves(d, i) /\ Begins(d, i) /\ frame'[d].members[i].slot = slot
<1>1. Done(d, i, slot) \in MemberType /\ Done(d, i, slot).at = "done" /\ Done(d, i, slot).slot = slot
  BY MembersAreTyped DEF Done, MemberType, At
<1>2. UNCHANGED <<pc, code, drives, journal>>
  BY DEF rest
<1>3. /\ MemberMoves(d, i) /\ frame'[d].members[i] = [Done(d, i, slot) EXCEPT !.id = CallId(d, i)]
      /\ frame'[d].ordinals = Counted(d, i) /\ frame'[d].failed = frame[d].failed
      /\ frame'[d].issued = Issued(d, i) /\ frame'[d].scheduled = frame[d].scheduled
  BY <1>1, <1>2, EnterMoves
<1>4. /\ frame'[d].members[i].id = CallId(d, i) /\ frame'[d].members[i].at = "done"
      /\ frame'[d].members[i].slot = slot
  BY <1>1, <1>3 DEF MemberType
<1> QED BY <1>2, <1>3, <1>4, CountersAreTyped DEF Begins

LEMMA ScheduleBegins ==
  ASSUME FanTypes, NEW d \in Driver, NEW i \in Members(d), Schedule(d, i)
  PROVE  MemberMoves(d, i) /\ Begins(d, i) /\ frame'[d].members[i].slot = "none"
<1> DEFINE id == CallId(d, i)
           m == [at |-> "attempt", id |-> id, slot |-> "none",
                 attempt |-> MaxAttempt(journal, frame[d].loaded, id) + 1,
                 failures |-> PriorFailures(d, id)]
           ms == [frame[d].members EXCEPT ![i] = m]
           f == [frame[d] EXCEPT !.members = ms, !.ordinals = Counted(d, i),
                                 !.issued = Issued(d, i), !.scheduled = @ \cup {id}]
<1>0. /\ frame \in [Driver -> FrameType] /\ frame[d] \in FrameType
      /\ id \in Identity /\ id.name = CallOf(d, i).name /\ UNCHANGED <<pc, code, drives>>
  BY CallsAreTyped DEF FanTypes, Schedule, rest, Identity
<1>1. m \in MemberType /\ m.at = "attempt" /\ m.id = id /\ m.slot = "none" /\ m.failures = PriorFailures(d, id)
  BY <1>0, CountsAreTyped DEF MemberType, At, Slot
<1>2. frame' = [frame EXCEPT ![d] = f]
  BY <1>0 DEF Schedule, Counted, Issued, FrameType
<1> HIDE DEF m
<1>3. /\ ms \in Seq(MemberType) /\ ms[i] = m /\ DOMAIN ms = Members(d)
      /\ \A k \in Members(d) \ {i} : ms[k] = Member(d, k)
  BY <1>0, <1>1 DEF FrameType, Members, Member
<1>4. Counted(d, i) \in [Name -> Nat] /\ Issued(d, i) \in Nat
  BY <1>0, CountersAreTyped DEF Issued, FrameType
<1> HIDE DEF ms
<1>5. /\ f \in FrameType /\ f.loaded = frame[d].loaded /\ f.seen = frame[d].seen /\ f.members = ms
      /\ f.ordinals = Counted(d, i) /\ f.failed = frame[d].failed
      /\ f.issued = Issued(d, i) /\ f.scheduled = frame[d].scheduled \cup {id}
  BY <1>0, <1>3, <1>4 DEF FrameType
<1> HIDE DEF f
<1>6. frame'[d] = f /\ frame' \in [Driver -> FrameType] /\ \A e \in Driver \ {d} : frame'[e] = frame[e]
  BY <1>0, <1>2, <1>5
<1>7. MemberMoves(d, i)
  BY <1>0, <1>3, <1>5, <1>6 DEF MemberMoves
<1>8. \/ UNCHANGED journal /\ id \in frame[d].scheduled
      \/ Records("TaskScheduled", id) /\ id \notin frame[d].scheduled
  BY <1>0, EntriesAreFacts DEF Schedule, EventType, Slot
<1>9. Misses(d, i) /\ MayBegin(d, i)
  BY DEF Schedule, Misses, CallBegins
<1> QED BY <1>1, <1>3, <1>5, <1>6, <1>7, <1>8, <1>9, CountersAreTyped DEF Begins

LEMMA CreateTimerBegins ==
  ASSUME FanTypes, NEW d \in Driver, NEW i \in Members(d), CreateTimer(d, i)
  PROVE  MemberMoves(d, i) /\ Begins(d, i)
<1> DEFINE m == [Member(d, i) EXCEPT !.at = "waiting"]
<1>1. m \in MemberType /\ m.at = "waiting" /\ m.slot = Member(d, i).slot
  BY MembersAreTyped DEF MemberType, At
<1>2. UNCHANGED <<pc, code, drives>> /\ Enter(d, i, m) /\ MayBegin(d, i) /\ CallOf(d, i).name = "sleep"
  BY DEF CreateTimer, rest
<1> HIDE DEF m
<1>3. /\ MemberMoves(d, i) /\ frame'[d].members[i] = [m EXCEPT !.id = CallId(d, i)]
      /\ frame'[d].ordinals = Counted(d, i) /\ frame'[d].failed = frame[d].failed
      /\ frame'[d].issued = Issued(d, i) /\ frame'[d].scheduled = frame[d].scheduled
  BY <1>1, <1>2, EnterMoves
<1>4. /\ frame'[d].members[i].id = CallId(d, i) /\ frame'[d].members[i].at = "waiting"
      /\ frame'[d].members[i].slot = Member(d, i).slot
  BY <1>1, <1>3 DEF MemberType
<1>5. CallId(d, i) \in Identity
  BY CallsAreTyped DEF Identity
<1>6. UNCHANGED journal \/ Records("TimerCreated", CallId(d, i))
  BY <1>5, EntriesAreFacts DEF CreateTimer, EventType, Slot
<1> QED BY <1>2, <1>3, <1>4, <1>6, CountersAreTyped DEF Begins

\* The steps with which a member begins.
BeginStep(d, i) ==
  \/ Refuse(d, i) \/ ReuseResult(d, i) \/ ReuseFailure(d, i) \/ RefuseEffect(d, i)
  \/ Schedule(d, i) \/ SleepOver(d, i) \/ CreateTimer(d, i)

LEMMA BeginStepBegins ==
  ASSUME FanTypes, NEW d \in Driver, NEW i \in Members(d), BeginStep(d, i)
  PROVE  MemberMoves(d, i) /\ Begins(d, i)
<1>1. ASSUME NEW slot \in Slot, MayBegin(d, i),
             Enter(d, i, Done(d, i, slot)), UNCHANGED <<journal, rest>>
      PROVE  MemberMoves(d, i) /\ Begins(d, i)
  BY <1>1, QuickBegins
<1>2. CASE Refuse(d, i)
  BY <1>1, <1>2 DEF Refuse, Slot
<1>3. ASSUME ReuseResult(d, i) PROVE MemberMoves(d, i) /\ Begins(d, i)
  <2> DEFINE e == journal[LatestIndex(journal, frame[d].loaded, "TaskCompleted", CallId(d, i))]
  <2>1. Loaded(d, "TaskCompleted", CallId(d, i)) /\ MayBegin(d, i)
    BY <1>3 DEF ReuseResult, CallBegins
  <2>2. e.val \in Slot
    BY <2>1, LoadedIsThere DEF Fact
  <2>3. Enter(d, i, Done(d, i, e.val)) /\ UNCHANGED <<journal, rest>>
    BY <1>3 DEF ReuseResult
  <2> HIDE DEF e
  <2> QED BY <1>1, <2>1, <2>2, <2>3
<1>4. CASE ReuseFailure(d, i)
  BY <1>1, <1>4 DEF ReuseFailure, CallBegins, Slot
<1>5. CASE RefuseEffect(d, i)
  BY <1>1, <1>5 DEF RefuseEffect, Misses, CallBegins, Slot
<1>6. CASE SleepOver(d, i)
  BY <1>1, <1>6 DEF SleepOver, Slot
<1> QED BY <1>2, <1>3, <1>4, <1>5, <1>6, ScheduleBegins, CreateTimerBegins DEF BeginStep

\* A member goes on to m, and records an event of its call.
LEMMA MemberGoesOn ==
  ASSUME FanTypes, NEW d \in Driver, NEW i \in Members(d), NEW m \in MemberType,
         m.id = Member(d, i).id, Become(d, i, m), UNCHANGED rest
  PROVE  /\ MemberMoves(d, i) /\ frame'[d].members[i] = m
         /\ frame'[d].members[i].id = Member(d, i).id
         /\ frame'[d].ordinals = frame[d].ordinals /\ frame'[d].failed = frame[d].failed
         /\ frame'[d].issued = frame[d].issued /\ frame'[d].scheduled = frame[d].scheduled
  BY BecomeMoves DEF rest

LEMMA RecordFailureGoesOn ==
  ASSUME FanTypes, NEW d \in Driver, NEW i \in Members(d), RecordFailure(d, i)
  PROVE  MemberMoves(d, i) /\ GoesOn(d, i) /\ frame'[d].members[i].slot = "error"
<1> DEFINE id == Member(d, i).id
           m == Done(d, i, "error")
           ms == [frame[d].members EXCEPT ![i] = m]
           f == [frame[d] EXCEPT !.members = ms, !.failed = @ \cup {id}]
<1>0. /\ frame \in [Driver -> FrameType] /\ frame[d] \in FrameType /\ Member(d, i) \in MemberType
      /\ id \in Identity /\ UNCHANGED <<pc, code, drives>> /\ Member(d, i).at = "spent"
  BY MembersAreTyped DEF FanTypes, MemberType, RecordFailure, rest, Holds
<1>1. m \in MemberType /\ m.at = "done" /\ m.id = id /\ m.slot = "error"
  BY <1>0 DEF MemberType, At, Slot, Done
<1>2. frame' = [frame EXCEPT ![d] = f]
  BY <1>0 DEF RecordFailure, FrameType
<1> HIDE DEF m
<1>3. /\ ms \in Seq(MemberType) /\ ms[i] = m /\ DOMAIN ms = Members(d)
      /\ \A k \in Members(d) \ {i} : ms[k] = Member(d, k)
  BY <1>0, <1>1 DEF FrameType, Members, Member
<1> HIDE DEF ms
<1>4. /\ f \in FrameType /\ f.loaded = frame[d].loaded /\ f.seen = frame[d].seen /\ f.members = ms
      /\ f.ordinals = frame[d].ordinals /\ f.failed = frame[d].failed \cup {id}
      /\ f.issued = frame[d].issued /\ f.scheduled = frame[d].scheduled
  BY <1>0, <1>3 DEF FrameType
<1> HIDE DEF f
<1>5. frame'[d] = f /\ frame' \in [Driver -> FrameType] /\ \A e \in Driver \ {d} : frame'[e] = frame[e]
  BY <1>0, <1>2, <1>4
<1>6. MemberMoves(d, i)
  BY <1>0, <1>3, <1>4, <1>5 DEF MemberMoves
<1>7. Records("TaskFailed", id)
  BY <1>0, EntriesAreFacts DEF RecordFailure, EventType, Slot
<1> QED BY <1>0, <1>1, <1>3, <1>4, <1>5, <1>6, <1>7 DEF GoesOn

\* The steps with which it goes on.
GoOnStep(d, i) ==
  \/ StartAttempt(d, i) \/ Complete(d, i) \/ FailAttempt(d, i) \/ Backoff(d, i)
  \/ RecordFailure(d, i) \/ RecordWaiting(d, i)

LEMMA GoOnStepGoesOn ==
  ASSUME FanTypes, NEW d \in Driver, NEW i \in Members(d), GoOnStep(d, i)
  PROVE  MemberMoves(d, i) /\ GoesOn(d, i)
<1> DEFINE mb == Member(d, i)
           id == Member(d, i).id
<1>0. mb \in MemberType /\ id \in Identity /\ mb.attempt \in Nat /\ mb.failures \in Nat
  BY MembersAreTyped DEF MemberType
<1>1. ASSUME StartAttempt(d, i) PROVE MemberMoves(d, i) /\ GoesOn(d, i)
  <2> DEFINE m == [mb EXCEPT !.at = "body"]
  <2>1. /\ m \in MemberType /\ m.id = id /\ m.at = "body" /\ m.failures = mb.failures /\ m.slot = mb.slot
        /\ Become(d, i, m) /\ UNCHANGED rest /\ mb.at = "attempt"
    BY <1>0, <1>1 DEF StartAttempt, MemberType, At, Holds
  <2>2. Records("TaskAttemptStarted", id)
    BY <1>0, <1>1, EntriesAreFacts DEF StartAttempt, EventType, Slot
  <2> HIDE DEF m
  <2>3. MemberMoves(d, i) /\ frame'[d].members[i] = m
        /\ frame'[d].ordinals = frame[d].ordinals /\ frame'[d].failed = frame[d].failed
        /\ frame'[d].issued = frame[d].issued /\ frame'[d].scheduled = frame[d].scheduled
    BY <2>1, MemberGoesOn
  <2> QED BY <2>1, <2>2, <2>3 DEF GoesOn
<1>2. ASSUME Complete(d, i) PROVE MemberMoves(d, i) /\ GoesOn(d, i)
  <2>1. PICK v \in Value : /\ Commit("TaskCompleted", id, 0, v)
                           /\ Become(d, i, Done(d, i, v))
    BY <1>2 DEF Complete
  <2> DEFINE m == Done(d, i, v)
  <2>2. /\ m \in MemberType /\ m.id = id /\ m.at = "done"
        /\ Become(d, i, m) /\ UNCHANGED rest /\ mb.at = "body"
    BY <1>0, <1>2, <2>1 DEF Complete, MemberType, At, Holds, Done, Slot
  <2>3. Records("TaskCompleted", id)
    BY <1>0, <2>1, EntriesAreFacts DEF EventType, Slot
  <2> HIDE DEF m
  <2>4. MemberMoves(d, i) /\ frame'[d].members[i] = m
        /\ frame'[d].ordinals = frame[d].ordinals /\ frame'[d].failed = frame[d].failed
        /\ frame'[d].issued = frame[d].issued /\ frame'[d].scheduled = frame[d].scheduled
    BY <2>2, MemberGoesOn
  <2> QED BY <2>2, <2>3, <2>4 DEF GoesOn
<1>3. ASSUME FailAttempt(d, i) PROVE MemberMoves(d, i) /\ GoesOn(d, i)
  <2> DEFINE val == IF RetriesLeft(d, i) THEN "retry" ELSE "last"
  <2>1. val \in Slot /\ Commit("TaskAttemptFailed", id, mb.attempt, val) /\ mb.at = "body" /\ UNCHANGED rest
    BY <1>3 DEF FailAttempt, Slot, Holds
  <2>2. Records("TaskAttemptFailed", id)
    <3> HIDE DEF val
    <3> QED BY <1>0, <2>1, EntriesAreFacts DEF EventType
  <2>3. CASE RetriesLeft(d, i)
    <3>0. PICK m : Become(d, i, m) /\ m = [mb EXCEPT !.at = "backoff", !.failures = @ + 1]
      BY <1>3, <2>3 DEF FailAttempt
    <3>1. /\ m \in MemberType /\ m.id = id /\ m.at = "backoff" /\ m.failures = mb.failures + 1 /\ m.slot = mb.slot
      <4>1. PICK r : r = mb
        OBVIOUS
      <4>2. PICK n : n = mb.failures + 1
        OBVIOUS
      <4>3. m = [r EXCEPT !.at = "backoff", !.failures = n]
        BY <3>0, <4>1, <4>2
      <4>4. r \in MemberType /\ n \in Nat /\ r.id = id /\ r.slot = mb.slot
        BY <1>0, <4>1, <4>2
      <4>5. m \in MemberType /\ m.id = r.id /\ m.at = "backoff" /\ m.failures = n /\ m.slot = r.slot
        BY <4>3, <4>4 DEF MemberType, At
      <4> QED BY <4>1, <4>2, <4>4, <4>5
    <3>2. MemberMoves(d, i) /\ frame'[d].members[i] = m
          /\ frame'[d].ordinals = frame[d].ordinals /\ frame'[d].failed = frame[d].failed
          /\ frame'[d].issued = frame[d].issued /\ frame'[d].scheduled = frame[d].scheduled
      BY <2>1, <3>0, <3>1, MemberGoesOn
    <3> QED BY <2>1, <2>2, <2>3, <3>1, <3>2 DEF GoesOn
  <2>4. CASE ~RetriesLeft(d, i)
    <3>1. PICK m : /\ Become(d, i, m)
                   /\ m = [mb EXCEPT !.at = "spent"] \/ m = Done(d, i, "error")
      BY <1>3, <2>4 DEF FailAttempt
    <3>2. m \in MemberType /\ m.id = id /\ m.at \in {"spent", "done"} /\ (m.at # "done" => m.slot = mb.slot)
      BY <1>0, <3>1 DEF MemberType, At, Slot, Done
    <3>3. MemberMoves(d, i) /\ frame'[d].members[i] = m
          /\ frame'[d].ordinals = frame[d].ordinals /\ frame'[d].failed = frame[d].failed
          /\ frame'[d].issued = frame[d].issued /\ frame'[d].scheduled = frame[d].scheduled
      BY <2>1, <3>1, <3>2, MemberGoesOn
    <3> QED BY <2>1, <2>2, <2>4, <3>2, <3>3 DEF GoesOn
  <2> QED BY <2>3, <2>4
<1>4. ASSUME Backoff(d, i) PROVE MemberMoves(d, i) /\ GoesOn(d, i)
  <2>1. PICK m : Become(d, i, m) /\ m = [mb EXCEPT !.at = "attempt", !.attempt = @ + 1]
    BY <1>4 DEF Backoff
  <2>2. m \in MemberType /\ m.id = id /\ m.at = "attempt" /\ m.failures = mb.failures /\ m.slot = mb.slot
    <3>1. PICK r : r = mb
      OBVIOUS
    <3>2. PICK n : n = mb.attempt + 1
      OBVIOUS
    <3>3. m = [r EXCEPT !.at = "attempt", !.attempt = n]
      BY <2>1, <3>1, <3>2
    <3>4. r \in MemberType /\ n \in Nat /\ r.id = id /\ r.slot = mb.slot
      BY <1>0, <3>1, <3>2
    <3>5. m \in MemberType /\ m.id = r.id /\ m.at = "attempt" /\ m.failures = r.failures /\ m.slot = r.slot
      BY <3>3, <3>4 DEF MemberType, At
    <3> QED BY <3>1, <3>2, <3>4, <3>5
  <2>a. UNCHANGED rest /\ mb.at = "backoff" /\ UNCHANGED journal
    BY <1>4 DEF Backoff, Holds
  <2>3. MemberMoves(d, i) /\ frame'[d].members[i] = m
        /\ frame'[d].ordinals = frame[d].ordinals /\ frame'[d].failed = frame[d].failed
        /\ frame'[d].issued = frame[d].issued /\ frame'[d].scheduled = frame[d].scheduled
    BY <2>1, <2>2, <2>a, MemberGoesOn
  <2> QED BY <2>2, <2>a, <2>3 DEF GoesOn
<1>5. ASSUME RecordWaiting(d, i) PROVE MemberMoves(d, i) /\ GoesOn(d, i)
  <2> DEFINE m == Done(d, i, "parked")
  <2>1. /\ m \in MemberType /\ m.id = id /\ m.at = "done"
        /\ Become(d, i, m) /\ UNCHANGED rest /\ mb.at = "waiting"
    BY <1>0, <1>5 DEF RecordWaiting, MemberType, At, Holds, Done, Slot
  <2>2. UNCHANGED journal \/ Records("WorkflowWaiting", id)
    BY <1>0, <1>5, EntriesAreFacts DEF RecordWaiting, EventType, Slot
  <2> HIDE DEF m
  <2>3. MemberMoves(d, i) /\ frame'[d].members[i] = m
        /\ frame'[d].ordinals = frame[d].ordinals /\ frame'[d].failed = frame[d].failed
        /\ frame'[d].issued = frame[d].issued /\ frame'[d].scheduled = frame[d].scheduled
    BY <2>1, MemberGoesOn
  <2> QED BY <2>1, <2>2, <2>3 DEF GoesOn
<1> QED BY <1>1, <1>2, <1>3, <1>4, <1>5, RecordFailureGoesOn DEF GoOnStep

-----------------------------------------------------------------------------
(* Every variable keeps its type                                             *)

Grows == UNCHANGED journal \/ \E e \in Fact : FactOK(e) /\ journal' = Append(journal, e)

LEMMA GrowthIsTyped ==
  ASSUME FanTypes, Grows
  PROVE  /\ journal' \in Seq(Fact) /\ Len(journal) \in Nat /\ Len(journal') \in Nat
         /\ Len(journal) <= Len(journal')
         /\ \A k \in 1..Len(journal) : journal'[k] = journal[k]
         /\ \A k \in 1..Len(journal') : FactOK(journal'[k])
         /\ \A k \in 1..Len(journal') : k \notin 1..Len(journal) => k = Len(journal) + 1 /\ Len(journal') = k
         /\ \A type : IdsOf(type) \subseteq IdsOf(type)'
<1>0. journal \in Seq(Fact) /\ Len(journal) \in Nat /\ \A k \in 1..Len(journal) : FactOK(journal[k])
  BY DEF FanTypes
<1>1. CASE UNCHANGED journal
  BY <1>0, <1>1 DEF IdsOf
<1>2. ASSUME NEW e \in Fact, FactOK(e), journal' = Append(journal, e)
      PROVE  /\ journal' \in Seq(Fact) /\ Len(journal') = Len(journal) + 1
             /\ \A k \in 1..Len(journal) : journal'[k] = journal[k]
             /\ \A k \in 1..Len(journal') : FactOK(journal'[k])
             /\ \A type : IdsOf(type) \subseteq IdsOf(type)'
  <2>1. /\ journal' \in Seq(Fact) /\ Len(journal') = Len(journal) + 1
        /\ \A k \in 1..Len(journal) : journal'[k] = journal[k]
        /\ journal'[Len(journal) + 1] = e
    BY <1>0, <1>2
  <2>2. \A k \in 1..Len(journal') : FactOK(journal'[k])
    <3> SUFFICES ASSUME NEW k \in 1..Len(journal') PROVE FactOK(journal'[k])
      OBVIOUS
    <3>1. CASE k \in 1..Len(journal)
      BY <1>0, <2>1, <3>1
    <3>2. CASE k \notin 1..Len(journal)
      <4>1. k = Len(journal) + 1
        BY <1>0, <2>1, <3>2
      <4> QED BY <1>2, <2>1, <4>1
    <3> QED BY <3>1, <3>2
  <2>3. \A type : IdsOf(type) \subseteq IdsOf(type)'
    BY <1>0, <2>1 DEF IdsOf
  <2> QED BY <2>1, <2>2, <2>3
<1> QED BY <1>0, <1>1, <1>2 DEF Grows

LEMMA OneMoreGrows ==
  ASSUME NEW type, NEW id, Records(type, id), type \in TaskEvent <=> id.name \in Task,
         type \in {"TimerCreated", "TimerFired"} => id.name = "sleep"
  PROVE  Grows
  BY DEF Records, Grows, FactOK

LEMMA MemberStepGrows ==
  ASSUME FanTypes, NEW d \in Driver, NEW i \in Members(d), Begins(d, i) \/ GoesOn(d, i)
  PROVE  Grows
<1>0. MemberOK(d, i)
  BY DEF FanTypes, FrameOK
<1>1. "sleep" \notin Task /\ CallId(d, i).name = CallOf(d, i).name /\ CallOf(d, i).name \in Name
  BY NamesAreApart, CallsAreTyped
<1>2. CASE Begins(d, i)
  <2>1. CASE UNCHANGED journal
    BY <2>1 DEF Grows
  <2>2. CASE Records("TaskScheduled", CallId(d, i)) /\ Misses(d, i)
    <3>1. CallId(d, i).name \in Task
      BY <1>1, <2>2 DEF Misses, CallBegins, Name
    <3> QED BY <2>2, <3>1, OneMoreGrows DEF TaskEvent
  <2>3. CASE Records("TimerCreated", CallId(d, i)) /\ CallOf(d, i).name = "sleep"
    BY <1>1, <2>3, OneMoreGrows DEF TaskEvent
  <2> QED BY <1>2, <2>1, <2>2, <2>3 DEF Begins
<1>3. CASE GoesOn(d, i)
  <2> DEFINE id == Member(d, i).id
  <2>1. CASE UNCHANGED journal
    BY <2>1 DEF Grows
  <2>2. CASE Records("TaskAttemptStarted", id) /\ Member(d, i).at = "attempt"
    BY <1>0, <2>2, OneMoreGrows DEF MemberOK, TaskEvent
  <2>3. CASE Records("TaskCompleted", id) /\ Member(d, i).at = "body"
    BY <1>0, <2>3, OneMoreGrows DEF MemberOK, TaskEvent
  <2>4. CASE Records("TaskAttemptFailed", id) /\ Member(d, i).at = "body"
    BY <1>0, <2>4, OneMoreGrows DEF MemberOK, TaskEvent
  <2>5. CASE Records("TaskFailed", id) /\ Member(d, i).at = "spent"
    BY <1>0, <2>5, OneMoreGrows DEF MemberOK, TaskEvent
  <2>6. CASE Records("WorkflowWaiting", id) /\ Member(d, i).at = "waiting"
    BY <1>0, <1>1, <2>6, OneMoreGrows DEF MemberOK, TaskEvent
  <2> QED BY <1>3, <2>1, <2>2, <2>3, <2>4, <2>5, <2>6 DEF GoesOn
<1> QED BY <1>2, <1>3

LEMMA MemberStepKeepsMembers ==
  ASSUME FanTypes, NEW d \in Driver, NEW i \in Members(d), MemberMoves(d, i),
         Begins(d, i) \/ GoesOn(d, i), NEW k \in Members(d)
  PROVE  MemberOK(d, k)'
<1>0. MemberOK(d, i) /\ MemberOK(d, k)
  BY DEF FanTypes, FrameOK
<1>1. /\ code' = code /\ frame'[d].seen = frame[d].seen
      /\ k # i => frame'[d].members[k] = frame[d].members[k]
      /\ frame[d].ordinals \in [Name -> Nat]
  BY MembersAreTyped DEF MemberMoves, Member, FrameType
<1>2. InRound(d)' /\ CurrentRound(d)' = CurrentRound(d) /\ CallOf(d, k)' = CallOf(d, k)
  BY <1>0, <1>1 DEF InRound, CurrentRound, CallOf, MemberOK
<1>3. \A n \in Name : frame'[d].ordinals[n] \in Nat /\ frame'[d].ordinals[n] >= frame[d].ordinals[n]
  BY <1>1 DEF Begins, GoesOn
<1>4. CallOf(d, k).name \in Name /\ CallOf(d, k).key \in Key \cup {NoKey}
  BY CallsAreTyped
<1>5. CASE k # i
  <2>1. Member(d, k)' = Member(d, k)
    BY <1>1, <1>5 DEF Member
  <2> QED BY <1>0, <1>1, <1>2, <1>3, <1>4, <2>1 DEF MemberOK
<1>6. CASE k = i /\ Begins(d, i)
  <2>1. /\ CallId(d, i).name = CallOf(d, i).name
        /\ CallOf(d, i).key # NoKey => CallId(d, i).ord = CallOf(d, i).key
        /\ CallOf(d, i).key = NoKey => CallId(d, i).ord = frame[d].ordinals[CallOf(d, i).name]
    BY DEF CallId
  <2>2. Member(d, i)'.id = CallId(d, i)
    BY <1>6 DEF Begins, Member
  <2>3. CallOf(d, i).key = NoKey =>
          frame'[d].ordinals[CallOf(d, i).name] = frame[d].ordinals[CallOf(d, i).name] + 1
    BY <1>4, <1>6 DEF Begins
  <2>4. /\ Member(d, i)'.at = "waiting" => CallOf(d, i).name = "sleep"
        /\ Member(d, i)'.at \in {"attempt", "body", "backoff", "spent"} => CallOf(d, i).name \in Task
    BY <1>4, <1>6 DEF Begins, Member, Misses, CallBegins, Name
  <2>5. /\ Member(d, i)'.id.name = CallOf(d, i).name
        /\ CallOf(d, i).key # NoKey => Member(d, i)'.id.ord = CallOf(d, i).key
        /\ CallOf(d, i).key = NoKey =>
             /\ Member(d, i)'.id.ord \in Nat
             /\ Member(d, i)'.id.ord < frame'[d].ordinals[CallOf(d, i).name]
    <3>1. frame[d].ordinals[CallOf(d, i).name] \in Nat
      BY <1>1, <1>4, <1>6
    <3>2. /\ Member(d, i)'.id.name = CallOf(d, i).name
          /\ CallOf(d, i).key # NoKey => Member(d, i)'.id.ord = CallOf(d, i).key
      BY <2>1, <2>2
    <3>3. ASSUME CallOf(d, i).key = NoKey
          PROVE  /\ Member(d, i)'.id.ord \in Nat
                 /\ Member(d, i)'.id.ord < frame'[d].ordinals[CallOf(d, i).name]
      BY <2>1, <2>2, <2>3, <3>1, <3>3
    <3> QED BY <3>2, <3>3
  <2>6. /\ Member(d, k)'.id.name = CallOf(d, k).name
        /\ CallOf(d, k).key # NoKey => Member(d, k)'.id.ord = CallOf(d, k).key
        /\ CallOf(d, k).key = NoKey =>
             /\ Member(d, k)'.id.ord \in Nat
             /\ Member(d, k)'.id.ord < frame'[d].ordinals[CallOf(d, k).name]
        /\ Member(d, k)'.at = "waiting" => CallOf(d, k).name = "sleep"
        /\ Member(d, k)'.at \in {"attempt", "body", "backoff", "spent"} => CallOf(d, k).name \in Task
    BY <1>6, <2>4, <2>5 DEF Member, CallOf
  <2>7. k \in DOMAIN CurrentRound(d).calls /\ (Member(d, k)'.at # "done" => Member(d, k)'.slot = "none")
    BY <1>0, <1>6 DEF MemberOK, Begins, Member, MayBegin
  <2> QED BY <1>2, <2>6, <2>7 DEF MemberOK
<1>7. CASE k = i /\ GoesOn(d, i)
  <2>1. /\ Member(d, k)'.id = Member(d, k).id /\ frame'[d].ordinals = frame[d].ordinals
        /\ Member(d, k).at # "new" /\ Member(d, k)'.at # "waiting"
        /\ Member(d, k)'.at \in {"attempt", "body", "backoff", "spent"} =>
             Member(d, k).at \in {"attempt", "body", "backoff", "spent"}
        /\ Member(d, k).at # "done" /\ (Member(d, k)'.at # "done" => Member(d, k)'.slot = Member(d, k).slot)
    BY <1>7 DEF GoesOn, Member
  <2> QED BY <1>0, <1>2, <2>1 DEF MemberOK
<1> QED BY <1>5, <1>6, <1>7

LEMMA CallStepKinds ==
  ASSUME NEW d \in Driver, NEW i \in Members(d), CallStep(d, i)
  PROVE  BeginStep(d, i) \/ GoOnStep(d, i)
  BY DEF CallStep, BeginStep, GoOnStep

\* A member's step, for whatever it is.
LEMMA CallStepMoves ==
  ASSUME FanTypes, NEW d \in Driver, NEW i \in Members(d), CallStep(d, i)
  PROVE  MemberMoves(d, i) /\ (Begins(d, i) \/ GoesOn(d, i)) /\ Grows
<1>1. MemberMoves(d, i) /\ (Begins(d, i) \/ GoesOn(d, i))
  BY CallStepKinds, BeginStepBegins, GoOnStepGoesOn
<1> QED BY <1>1, MemberStepGrows

\* One drive's frame changes, or none, and the journal grows.
FrameMoves(d) ==
  /\ code' = code /\ Grows /\ frame' \in [Driver -> FrameType]
  /\ \A e \in Driver \ {d} : frame'[e] = frame[e] /\ pc'[e] = pc[e]

LEMMA OthersKeepTypes ==
  ASSUME FanTypes, NEW d \in Driver, FrameMoves(d), FrameOK(d)', drives' \in Nat,
         pc' \in [Driver -> {"idle", "drive", "fan", "drain", "settle"}]
  PROVE  FanTypes'
<1>1. ASSUME NEW e \in Driver PROVE FrameOK(e)'
  <2>1. CASE e = d
    BY <2>1
  <2>2. CASE e # d
    <3>1. frame'[e] = frame[e] /\ code' = code /\ pc'[e] = pc[e] /\ FrameOK(e)
      BY <2>2 DEF FrameMoves, FanTypes
    <3>2. frame[e].loaded \in Nat
      BY DEF FanTypes, FrameType
    <3>3. frame'[e].loaded <= Len(journal')
      BY <3>1, <3>2, GrowthIsTyped DEF FrameMoves, FrameOK
    <3>4. frame'[e].failed \subseteq IdsOf("TaskFailed")'
      BY <3>1, GrowthIsTyped DEF FrameMoves, FrameOK
    <3>5. ASSUME NEW k \in Members(e) PROVE MemberOK(e, k)'
      <4>1. MemberOK(e, k)
        BY <3>1 DEF FrameOK
      <4>2. Member(e, k)' = Member(e, k) /\ CallOf(e, k)' = CallOf(e, k)
            /\ CurrentRound(e)' = CurrentRound(e) /\ InRound(e)' = InRound(e)
        BY <3>1 DEF Member, CallOf, CurrentRound, InRound
      <4> QED BY <3>1, <4>1, <4>2 DEF MemberOK
    <3>6. (pc[e] = "drain" => Has(e, Raised))'
      BY <3>1 DEF FrameOK, Has, Members, Member
    <3>7. Members(e)' = Members(e)
      BY <3>1 DEF Members
    <3> QED BY <3>3, <3>4, <3>5, <3>6, <3>7 DEF FrameOK
  <2> QED BY <2>1, <2>2
<1>2. /\ journal' \in Seq(Fact) /\ \A k \in 1..Len(journal') : FactOK(journal'[k])
  BY GrowthIsTyped DEF FrameMoves
<1>3. code' \in Version /\ frame' \in [Driver -> FrameType]
  BY DEF FanTypes, FrameMoves
<1> QED BY <1>1, <1>2, <1>3 DEF FanTypes, FactOK

LEMMA CallStepTypes ==
  ASSUME FanTypes, NEW d \in Driver, NEW i \in Members(d), CallStep(d, i)
  PROVE  FanTypes'
<1>1. MemberMoves(d, i) /\ (Begins(d, i) \/ GoesOn(d, i)) /\ Grows
  BY CallStepMoves
<1>2. FrameMoves(d) /\ drives' \in Nat /\ pc' \in [Driver -> {"idle", "drive", "fan", "drain", "settle"}]
  BY <1>1 DEF MemberMoves, FrameMoves, FanTypes
<1>3. FrameOK(d)
  BY DEF FanTypes
<1>4. frame'[d].loaded <= Len(journal')
  <2>1. frame[d].loaded \in Nat
    BY DEF FanTypes, FrameType
  <2> QED BY <1>1, <1>3, <2>1, GrowthIsTyped DEF MemberMoves, FrameOK
<1>5. frame'[d].failed \subseteq IdsOf("TaskFailed")'
  <2>1. CASE frame'[d].failed = frame[d].failed
    BY <1>1, <1>3, <2>1, GrowthIsTyped DEF FrameOK
  <2>2. ASSUME frame'[d].failed # frame[d].failed
        PROVE  Records("TaskFailed", Member(d, i).id) /\ frame'[d].failed = frame[d].failed \cup {Member(d, i).id}
    BY <1>1, <2>2 DEF Begins, GoesOn
  <2>3. ASSUME Records("TaskFailed", Member(d, i).id)
        PROVE  Member(d, i).id \in IdsOf("TaskFailed")'
    <3>1. PICK e \in Fact : e.type = "TaskFailed" /\ e.id = Member(d, i).id /\ journal' = Append(journal, e)
      BY <2>3 DEF Records
    <3>2. /\ Len(journal) + 1 \in DOMAIN journal' /\ journal'[Len(journal) + 1] = e
      BY <3>1 DEF FanTypes
    <3> QED BY <3>1, <3>2 DEF IdsOf
  <2> QED BY <1>1, <1>3, <2>1, <2>2, <2>3, GrowthIsTyped DEF FrameOK
<1>6. \A k \in Members(d)' : MemberOK(d, k)'
  BY <1>1, MemberStepKeepsMembers DEF MemberMoves, Members
<1>7. (pc[d] = "drain" => Has(d, Raised))'
  <2>1. SUFFICES ASSUME pc'[d] = "drain" PROVE Has(d, Raised)'
    OBVIOUS
  <2>2. PICK j \in Members(d) : Member(d, j).slot \in Raised
    BY <1>1, <1>3, <2>1 DEF MemberMoves, FrameOK, Has
  <2>3. Member(d, j).at = "done"
    BY <1>3, <2>2 DEF FrameOK, MemberOK, Raised
  <2>4. Member(d, i).at # "done"
    BY <1>1 DEF Begins, GoesOn, MayBegin
  <2>5. frame'[d].members[j] = Member(d, j) /\ j \in DOMAIN frame'[d].members
    BY <1>1, <2>3, <2>4 DEF MemberMoves
  <2> QED BY <2>2, <2>5 DEF Has, Members, Member, Raised
<1> QED BY <1>2, <1>4, <1>5, <1>6, <1>7, OthersKeepTypes DEF FrameOK

\* A new fan-out has members that have not begun, one for each of its calls.
LEMMA SpawnIsTyped ==
  ASSUME code \in Version, NEW f \in FrameType
  PROVE  /\ Spawn(f) \in FrameType
         /\ Spawn(f).loaded = f.loaded /\ Spawn(f).failed = f.failed /\ Spawn(f).seen = f.seen
         /\ Spawn(f).ordinals = f.ordinals
         /\ Spawn(f).issued = f.issued /\ Spawn(f).scheduled = f.scheduled
         /\ Len(f.seen) + 1 \in DOMAIN Plan[code] =>
              DOMAIN Spawn(f).members = DOMAIN Plan[code][Len(f.seen) + 1].calls
         /\ \A k \in DOMAIN Spawn(f).members :
              /\ Spawn(f).members[k] = NewMember /\ Len(f.seen) + 1 \in DOMAIN Plan[code]
              /\ k \in DOMAIN Plan[code][Len(f.seen) + 1].calls
<1> DEFINE n == Len(f.seen) + 1
           ms == IF n > Len(Plan[code]) THEN <<>>
                 ELSE [i \in DOMAIN Plan[code][n].calls |-> NewMember]
<1>1. n \in Nat \ {0} /\ f.seen \in Seq(Seq(OutcomeType))
  BY DEF FrameType
<1>2. Plan[code] \in Seq(Round)
  BY PlansAreRounds
<1>3. NewMember \in MemberType /\ NewMember.at = "new"
  BY DEF NewMember, MemberType, At, Slot, Identity
<1>4. CASE n > Len(Plan[code])
  <2>1. ms = <<>> /\ ms \in Seq(MemberType) /\ DOMAIN ms = {}
    BY <1>4
  <2>2. Spawn(f) = [f EXCEPT !.members = ms]
    BY DEF Spawn
  <2>3. n \notin DOMAIN Plan[code]
    BY <1>2, <1>4
  <2> HIDE DEF ms
  <2> QED BY <2>1, <2>2, <2>3 DEF FrameType
<1>5. CASE ~(n > Len(Plan[code]))
  <2>1. n \in DOMAIN Plan[code] /\ Plan[code][n] \in Round
    BY <1>1, <1>2, <1>5
  <2>2. Plan[code][n].calls \in Seq(Call)
    BY <2>1 DEF Round
  <2> DEFINE c == Plan[code][n].calls
  <2>3. ms = [i \in DOMAIN c |-> NewMember]
    BY <1>5
  <2>4. ms \in Seq(MemberType) /\ DOMAIN ms = DOMAIN c /\ \A k \in DOMAIN c : ms[k] = NewMember
    <3>1. c \in Seq(Call)
      BY <2>2
    <3>2. DOMAIN c = 1..Len(c) /\ Len(c) \in Nat
      BY <3>1
    <3> HIDE DEF c, ms
    <3>3. ms \in [1..Len(c) -> MemberType]
      BY <1>3, <2>3, <3>2
    <3> QED BY <2>3, <3>2, <3>3
  <2>5. Spawn(f) = [f EXCEPT !.members = ms]
    BY DEF Spawn
  <2> HIDE DEF ms, c
  <2>6. /\ Spawn(f) \in FrameType
         /\ Spawn(f).loaded = f.loaded /\ Spawn(f).failed = f.failed /\ Spawn(f).seen = f.seen
         /\ Spawn(f).ordinals = f.ordinals /\ Spawn(f).members = ms
         /\ Spawn(f).issued = f.issued /\ Spawn(f).scheduled = f.scheduled
    BY <2>4, <2>5 DEF FrameType
  <2> QED BY <2>1, <2>4, <2>6 DEF c
<1> QED BY <1>4, <1>5

\* What a fan-out returns is typed, and so is the frame behind it.
LEMMA RejoinFrame ==
  ASSUME FanTypes, NEW d \in Driver, NEW o \in Seq(OutcomeType), Rejoin(d, o)
  PROVE  /\ frame'[d] \in FrameType /\ frame' = [frame EXCEPT ![d] = frame'[d]]
         /\ frame'[d].loaded = frame[d].loaded /\ frame'[d].failed = frame[d].failed
         /\ frame'[d].ordinals = frame[d].ordinals
         /\ frame'[d].issued = frame[d].issued /\ frame'[d].scheduled = frame[d].scheduled
         /\ frame'[d].seen = Append(frame[d].seen, o)
         /\ Len(frame'[d].seen) + 1 \in DOMAIN Plan[code] =>
              DOMAIN frame'[d].members = DOMAIN Plan[code][Len(frame'[d].seen) + 1].calls
         /\ \A k \in DOMAIN frame'[d].members :
              /\ frame'[d].members[k] = NewMember /\ Len(frame'[d].seen) + 1 \in DOMAIN Plan[code]
              /\ k \in DOMAIN Plan[code][Len(frame'[d].seen) + 1].calls
<1>1. frame \in [Driver -> FrameType] /\ frame[d] \in FrameType /\ code \in Version
  BY DEF FanTypes
<1> DEFINE f == [frame[d] EXCEPT !.seen = Append(@, o)]
<1>2. f \in FrameType /\ f.seen = Append(frame[d].seen, o) /\ f.loaded = frame[d].loaded
      /\ f.failed = frame[d].failed /\ f.ordinals = frame[d].ordinals
      /\ f.issued = frame[d].issued /\ f.scheduled = frame[d].scheduled
  <2>1. frame[d].seen \in Seq(Seq(OutcomeType))
    BY <1>1 DEF FrameType
  <2>2. Append(frame[d].seen, o) \in Seq(Seq(OutcomeType))
    BY <2>1
  <2> QED BY <1>1, <2>2 DEF FrameType
<1>3. frame' = [frame EXCEPT ![d] = Spawn(f)]
  BY DEF Rejoin
<1> HIDE DEF f
<1>4. frame'[d] = Spawn(f)
  BY <1>1, <1>3
<1> QED BY <1>1, <1>2, <1>3, <1>4, SpawnIsTyped

LEMMA OutcomesAreTyped ==
  ASSUME FanTypes, NEW d \in Driver
  PROVE  /\ \A k \in Members(d) : Outcome(d, k) \in OutcomeType
         /\ [k \in Members(d) |-> Outcome(d, k)] \in Seq(OutcomeType)
<1>1. frame[d].members \in Seq(MemberType)
  BY DEF FanTypes, FrameType
<1>2. \A k \in Members(d) : Outcome(d, k) \in OutcomeType
  BY MembersAreTyped DEF Outcome, OutcomeType, MemberType
<1>3. Members(d) = 1..Len(frame[d].members) /\ Len(frame[d].members) \in Nat
  BY <1>1 DEF Members
<1>4. [k \in Members(d) |-> Outcome(d, k)] \in [1..Len(frame[d].members) -> OutcomeType]
  BY <1>2, <1>3
<1> QED BY <1>2, <1>3, <1>4

\* the least of some numbers is one of them
LEMMA LeastIsMember ==
  ASSUME NEW S \in SUBSET Nat, S # {}
  PROVE  Min(S) \in S /\ \A y \in S : Min(S) <= y
<1>1. IsWellFoundedOn(OpToRel(<, Nat), Nat)
  BY NatLessThanWellFounded
<1>2. PICK x \in S : \A y \in S : <<y, x>> \notin OpToRel(<, Nat)
  BY <1>1, WFMin
<1>3. \A y \in S : ~(y < x)
  BY <1>2 DEF OpToRel
<1>4. \E m \in S : \A y \in S : m <= y
  BY <1>3
<1> QED BY <1>4 DEF Min

LEMMA FirstRaisedIsMember ==
  ASSUME FanTypes, NEW d \in Driver, Has(d, Raised)
  PROVE  FirstRaised(d) \in Members(d) /\ Member(d, FirstRaised(d)).slot \in Raised
<1> DEFINE S == {i \in Members(d) : Member(d, i).slot \in Raised}
<1>1. Members(d) \subseteq Nat
  BY DEF FanTypes, FrameType, Members
<1>2. S \in SUBSET Nat /\ S # {}
  BY <1>1 DEF Has
<1>3. Min(S) \in S
  <2> HIDE DEF S
  <2> QED BY <1>2, LeastIsMember
<1> QED BY <1>3 DEF FirstRaised

\* A drive that ends, or has not loaded, holds nothing.
LEMMA NoFrameIsTyped == NoFrame \in FrameType /\ NoFrame.loaded = 0 /\ NoFrame.failed = {} /\ NoFrame.members = <<>>
                        /\ NoFrame.seen = <<>> /\ NoFrame.ordinals = [m \in Name |-> 0]
                        /\ NoFrame.issued = 0
<1>1. <<>> \in Seq(MemberType) /\ <<>> \in Seq(Seq(OutcomeType)) /\ [m \in Name |-> 0] \in [Name -> Nat]
  OBVIOUS
<1> QED BY <1>1 DEF NoFrame, FrameType

Pcs == {"idle", "drive", "fan", "drain", "settle"}

LEMMA FrameKept ==
  ASSUME FanTypes, NEW d \in Driver, UNCHANGED <<code, frame>>, drives' \in Nat, Grows,
         NEW p \in Pcs, pc' = [pc EXCEPT ![d] = p], p = "drain" => Has(d, Raised)
  PROVE  FanTypes'
<1>1. pc' \in [Driver -> Pcs] /\ pc'[d] = p /\ \A e \in Driver \ {d} : pc'[e] = pc[e]
  BY DEF FanTypes, Pcs
<1>2. FrameMoves(d)
  BY <1>1 DEF FrameMoves, FanTypes
<1>3. FrameOK(d) /\ frame[d].loaded \in Nat
  BY DEF FanTypes, FrameType
<1>4. frame'[d].loaded <= Len(journal') /\ frame'[d].failed \subseteq IdsOf("TaskFailed")'
  BY <1>3, GrowthIsTyped DEF FrameOK
<1>5. \A k \in Members(d)' : MemberOK(d, k)'
  BY <1>3 DEF FrameOK, Members, MemberOK, Member, CallOf, CurrentRound, InRound
<1>6. (pc[d] = "drain" => Has(d, Raised))'
  BY <1>1 DEF Has, Members, Member
<1> QED BY <1>1, <1>2, <1>4, <1>5, <1>6, OthersKeepTypes DEF FrameOK, Pcs

LEMMA FrameReplaced ==
  ASSUME FanTypes, NEW d \in Driver, UNCHANGED <<code>>, drives' \in Nat, Grows,
         NEW p \in Pcs \ {"drain"}, pc' = [pc EXCEPT ![d] = p],
         frame' = [frame EXCEPT ![d] = frame'[d]], frame'[d] \in FrameType,
         frame'[d].loaded <= Len(journal'), frame'[d].failed \subseteq IdsOf("TaskFailed"),
         \A k \in DOMAIN frame'[d].members :
              /\ frame'[d].members[k] = NewMember /\ Len(frame'[d].seen) + 1 \in DOMAIN Plan[code]
              /\ k \in DOMAIN Plan[code][Len(frame'[d].seen) + 1].calls
  PROVE  FanTypes'
<1>0. PICK f \in FrameType : f = frame'[d]
  OBVIOUS
<1>1. pc' \in [Driver -> Pcs] /\ pc'[d] = p /\ \A e \in Driver \ {d} : pc'[e] = pc[e]
  BY DEF FanTypes, Pcs
<1>2. frame \in [Driver -> FrameType]
  BY DEF FanTypes
<1>3. frame' = [frame EXCEPT ![d] = f]
  BY <1>0
<1>4. frame' \in [Driver -> FrameType] /\ \A e \in Driver \ {d} : frame'[e] = frame[e]
  BY <1>2, <1>3
<1>5. FrameMoves(d)
  BY <1>1, <1>4 DEF FrameMoves
<1>6. \A k \in Members(d)' : MemberOK(d, k)'
  <2> SUFFICES ASSUME NEW k \in Members(d)' PROVE MemberOK(d, k)'
    OBVIOUS
  <2>1. Member(d, k)' = NewMember /\ InRound(d)' /\ (k \in DOMAIN CurrentRound(d).calls)'
    BY DEF Members, Member, InRound, CurrentRound
  <2>2. Member(d, k)'.at = "new" /\ Member(d, k)'.slot = "none"
    BY <2>1 DEF NewMember
  <2> QED BY <2>1, <2>2 DEF MemberOK
<1>7. frame'[d].failed \subseteq IdsOf("TaskFailed")'
  BY GrowthIsTyped
<1> QED BY <1>1, <1>5, <1>6, <1>7, OthersKeepTypes DEF FrameOK, Pcs

LEMMA ReleaseTypes ==
  ASSUME FanTypes, NEW d \in Driver, UNCHANGED <<code, drives, journal>>, Release(d)
  PROVE  FanTypes'
<1>1. /\ pc' = [pc EXCEPT ![d] = "idle"] /\ frame' = [frame EXCEPT ![d] = NoFrame]
      /\ frame \in [Driver -> FrameType] /\ drives \in Nat /\ Len(journal) \in Nat
  BY DEF Release, FanTypes
<1>2. frame'[d] = NoFrame
  BY <1>1
<1>3. frame' = [frame EXCEPT ![d] = frame'[d]] /\ DOMAIN frame'[d].members = {}
  BY <1>1, <1>2, NoFrameIsTyped
<1>4. frame'[d] \in FrameType /\ frame'[d].loaded <= Len(journal') /\ frame'[d].failed \subseteq IdsOf("TaskFailed")
  BY <1>1, <1>2, NoFrameIsTyped
<1> QED BY <1>1, <1>3, <1>4, FrameReplaced DEF Pcs, Grows

LEMMA RejoinTypes ==
  ASSUME FanTypes, NEW d \in Driver, NEW o \in Seq(OutcomeType), Rejoin(d, o)
  PROVE  FanTypes'
<1>1. FrameOK(d) /\ drives \in Nat
  BY DEF FanTypes
<1>2. UNCHANGED <<code, drives, journal>> /\ pc' = [pc EXCEPT ![d] = "fan"]
  BY DEF Rejoin
<1>3. frame'[d].loaded <= Len(journal') /\ frame'[d].failed \subseteq IdsOf("TaskFailed")
  BY <1>1, <1>2, RejoinFrame DEF FrameOK
<1> QED BY <1>1, <1>2, <1>3, RejoinFrame, FrameReplaced DEF Pcs, Grows

LEMMA LoadFrame ==
  ASSUME FanTypes, NEW d \in Driver, DriveLoad(d)
  PROVE  /\ frame'[d] \in FrameType /\ frame' = [frame EXCEPT ![d] = frame'[d]]
         /\ frame'[d].loaded = Len(journal) /\ frame'[d].failed = IdsOf("TaskFailed")
         /\ frame'[d].seen = <<>> /\ frame'[d].scheduled = IdsOf("TaskScheduled")
         /\ frame'[d].issued = 0 /\ frame'[d].ordinals = [m \in Name |-> 0]
         /\ 1 \in DOMAIN Plan[code] => DOMAIN frame'[d].members = DOMAIN Plan[code][1].calls
         /\ \A k \in DOMAIN frame'[d].members :
              /\ frame'[d].members[k] = NewMember /\ Len(frame'[d].seen) + 1 \in DOMAIN Plan[code]
              /\ k \in DOMAIN Plan[code][Len(frame'[d].seen) + 1].calls
<1>1. frame \in [Driver -> FrameType] /\ code \in Version /\ journal \in Seq(Fact)
  BY DEF FanTypes
<1> DEFINE f == [NoFrame EXCEPT !.loaded = Len(journal), !.scheduled = IdsOf("TaskScheduled"),
                                !.failed = IdsOf("TaskFailed")]
<1>2. \A type : IdsOf(type) \in SUBSET Identity
  <2>1. \A k \in DOMAIN journal : journal[k] \in Fact
    BY <1>1
  <2> QED BY <2>1 DEF IdsOf, Fact
<1>3. Len(journal) \in Nat
  BY <1>1
<1>4. /\ f \in FrameType /\ f.seen = <<>> /\ f.loaded = Len(journal) /\ f.failed = IdsOf("TaskFailed")
      /\ f.scheduled = IdsOf("TaskScheduled") /\ f.issued = 0 /\ f.ordinals = [m \in Name |-> 0]
  BY <1>2, <1>3, NoFrameIsTyped DEF FrameType
<1>5. frame' = [frame EXCEPT ![d] = Spawn(f)]
  BY DEF DriveLoad
<1> HIDE DEF f
<1>6. frame'[d] = Spawn(f)
  BY <1>1, <1>5
<1>7. Len(f.seen) + 1 = 1
  BY <1>4
<1> QED BY <1>1, <1>4, <1>5, <1>6, <1>7, SpawnIsTyped

LEMMA LoadTypes ==
  ASSUME FanTypes, NEW d \in Driver, DriveLoad(d)
  PROVE  FanTypes'
<1>1. UNCHANGED <<code, drives, journal>> /\ pc' = [pc EXCEPT ![d] = "fan"] /\ drives \in Nat /\ Len(journal) \in Nat
  BY DEF DriveLoad, FanTypes
<1>2. frame'[d].loaded <= Len(journal') /\ frame'[d].failed \subseteq IdsOf("TaskFailed")
  BY <1>1, LoadFrame
<1> QED BY <1>1, <1>2, LoadFrame, FrameReplaced DEF Pcs, Grows

LEMMA RunEventGrows ==
  ASSUME NEW type \in {"WorkflowCompleted", "WorkflowFailed"}, Commit(type, NoId, 0, "none")
  PROVE  Grows
<1>1. NoId \in Identity /\ NoId.name \notin Task
  BY NamesAreApart DEF Identity
<1>2. Records(type, NoId)
  BY <1>1, EntriesAreFacts DEF EventType, Slot
<1> QED BY <1>1, <1>2, OneMoreGrows DEF TaskEvent

LEMMA DriveStepTypes ==
  ASSUME FanTypes, NEW d \in Driver, DriveStep(d) \/ Redrive(d)
  PROVE  FanTypes'
<1>0. drives \in Nat /\ FrameOK(d)
  BY DEF FanTypes
<1>1. ASSUME NEW i \in Members(d), CallStep(d, i) PROVE FanTypes'
  BY <1>1, CallStepTypes
<1>2. CASE ReturnAll(d)
  BY <1>2, RejoinTypes, OutcomesAreTyped DEF ReturnAll
<1>3. CASE RaiseInside(d)
  <2>1. Has(d, Raised)
    BY <1>0, <1>3 DEF RaiseInside, Raises, Fans, FrameOK
  <2>2. Outcome(d, FirstRaised(d)) \in OutcomeType
    BY <2>1, FirstRaisedIsMember, OutcomesAreTyped
  <2>3. <<Outcome(d, FirstRaised(d))>> \in Seq(OutcomeType)
    BY <2>2
  <2> QED BY <1>3, <2>3, RejoinTypes DEF RaiseInside
<1>4. CASE Abort(d) \/ RaisePark(d) \/ DriveTerminal(d) \/ SettleStatus(d)
  BY <1>4, ReleaseTypes DEF Abort, RaisePark, DriveTerminal, SettleStatus
<1>5. CASE Notice(d)
  <2>1. /\ UNCHANGED <<code, frame, drives, journal>> /\ pc' = [pc EXCEPT ![d] = "drain"] /\ Has(d, Raised)
    BY <1>5 DEF Notice
  <2> QED BY <1>0, <2>1, FrameKept DEF Grows, Pcs
<1>6. CASE RaiseFailure(d)
  <2>1. UNCHANGED <<code, frame, drives>> /\ pc' = [pc EXCEPT ![d] = "settle"] /\ Grows
    BY <1>6, RunEventGrows DEF RaiseFailure
  <2> QED BY <1>0, <2>1, FrameKept DEF Pcs
<1>7. CASE Return(d)
  <2>1. UNCHANGED <<code, frame, drives>> /\ pc' = [pc EXCEPT ![d] = "settle"] /\ Grows
    BY <1>7, RunEventGrows DEF Return
  <2> QED BY <1>0, <2>1, FrameKept DEF Pcs
<1>8. CASE Redrive(d)
  <2>1. /\ UNCHANGED <<code, frame, journal>> /\ pc' = [pc EXCEPT ![d] = "drive"] /\ drives' \in Nat
    BY <1>0, <1>8 DEF Redrive
  <2> QED BY <1>0, <2>1, FrameKept DEF Grows, Pcs
<1> QED BY <1>1, <1>2, <1>3, <1>4, <1>5, <1>6, <1>7, <1>8, LoadTypes DEF DriveStep

LEMMA FireTimerGrows ==
  ASSUME FanTypes, NEW id \in IdsOf("TimerCreated"), FireTimer(id)
  PROVE  Grows /\ id.name = "sleep" /\ UNCHANGED <<code, frame, drives, pc>>
<1>1. PICK k \in 1..Len(journal) : journal[k].type = "TimerCreated" /\ journal[k].id = id
  BY DEF FanTypes, IdsOf
<1>2. id.name = "sleep" /\ id \in Identity
  <2>1. journal[k] \in Fact /\ FactOK(journal[k])
    BY <1>1 DEF FanTypes
  <2> QED BY <1>1, <2>1 DEF FactOK, Fact
<1>3. Records("TimerFired", id)
  BY <1>2, EntriesAreFacts DEF FireTimer, EventType, Slot
<1>4. id.name \notin Task
  BY <1>2, NamesAreApart
<1> QED BY <1>2, <1>3, <1>4, OneMoreGrows DEF TaskEvent, FireTimer

LEMMA NothingMovesTypes ==
  ASSUME FanTypes, Grows, UNCHANGED <<code, frame, drives, pc>>
  PROVE  FanTypes'
<1>1. CASE Driver = {}
  BY <1>1, GrowthIsTyped DEF FanTypes, FactOK
<1>2. ASSUME NEW d \in Driver PROVE FanTypes'
  <2>1. drives \in Nat /\ pc[d] \in Pcs /\ pc' = [pc EXCEPT ![d] = pc[d]]
        /\ (pc[d] = "drain" => Has(d, Raised))
    BY DEF FanTypes, FrameOK, Pcs
  <2> QED BY <2>1, FrameKept
<1> QED BY <1>1, <1>2

LEMMA CrashTypes ==
  ASSUME FanTypes, Crash
  PROVE  FanTypes'
<1>1. /\ frame' = [d \in Driver |-> NoFrame] /\ pc' = [d \in Driver |-> "idle"]
      /\ code' \in Version /\ UNCHANGED <<journal, drives>>
  BY DEF Crash
<1>2. frame' \in [Driver -> FrameType] /\ \A d \in Driver : frame'[d] = NoFrame /\ pc'[d] = "idle"
  BY <1>1, NoFrameIsTyped
<1>3. ASSUME NEW d \in Driver PROVE FrameOK(d)'
  <2>1. frame'[d].loaded = 0 /\ frame'[d].failed = {} /\ Members(d)' = {}
    BY <1>2, NoFrameIsTyped DEF Members
  <2>2. Len(journal') \in Nat
    BY <1>1 DEF FanTypes
  <2> QED BY <1>2, <2>1, <2>2 DEF FrameOK
<1>4. journal' \in Seq(Fact) /\ drives' \in Nat /\ \A k \in 1..Len(journal') : FactOK(journal'[k])
  BY <1>1 DEF FanTypes
<1> QED BY <1>1, <1>2, <1>3, <1>4 DEF FanTypes, FactOK

LEMMA InitTypes == Init => FanTypes
<1> SUFFICES ASSUME Init PROVE FanTypes
  OBVIOUS
<1>1. /\ frame = [d \in Driver |-> NoFrame] /\ pc = [d \in Driver |-> "idle"]
      /\ code \in Version /\ journal = <<>> /\ drives = 0
  BY DEF Init
<1>2. frame \in [Driver -> FrameType] /\ \A d \in Driver : frame[d] = NoFrame /\ pc[d] = "idle"
  BY <1>1, NoFrameIsTyped
<1>3. ASSUME NEW d \in Driver PROVE FrameOK(d)
  <2>1. frame[d].loaded = 0 /\ frame[d].failed = {} /\ Members(d) = {}
    BY <1>2, NoFrameIsTyped DEF Members
  <2> QED BY <1>1, <1>2, <2>1 DEF FrameOK
<1> QED BY <1>1, <1>2, <1>3 DEF FanTypes

\* Every step keeps the types.
LEMMA NextTypes == FanTypes /\ [Next]_vars => FanTypes'
<1> SUFFICES ASSUME FanTypes, [Next]_vars PROVE FanTypes'
  OBVIOUS
<1>1. CASE UNCHANGED vars
  BY <1>1, NothingMovesTypes DEF vars, Grows
<1>2. ASSUME NEW id \in IdsOf("TimerCreated"), FireTimer(id) PROVE FanTypes'
  BY <1>2, FireTimerGrows, NothingMovesTypes
<1> QED BY <1>1, <1>2, DriveStepTypes, CrashTypes DEF Next

-----------------------------------------------------------------------------
(* Outcomes are recorded                                                     *)

\* a sleep that is a member of a collecting gather parks into the gather's result
\* (engine.py:714); the gathers of this theorem collect tasks
CollectTasks ==
  \A v \in Version : \A r \in DOMAIN Plan[v] : Plan[v][r].mode = "collect" =>
    \A i \in DOMAIN Plan[v][r].calls : Plan[v][r].calls[i].name # "sleep"

\* an event that a replay finds the outcome in
Explains(e, o) ==
  /\ e.id = o.id
  /\ \/ e.type = "TaskCompleted" /\ e.val = o.slot
     \/ e.type = "TaskFailed" /\ o.slot = "error"
     \/ e.type = "TimerFired" /\ o.slot = "woke"

Explained(o) == \E k \in DOMAIN journal : Explains(journal[k], o)

\* what a member that is over has ended with
SettledOK(d, i) ==
  LET o == Outcome(d, i) IN
  Member(d, i).at = "done" =>
    \/ Explained(o)
    \/ o.slot \in Propagating
    \/ o.slot = "error" /\ ~Recording(d)
    \/ o.slot = "parked" /\ CallOf(d, i).name = "sleep"

\* what the workflow has been told is explained
ToldOK(d) ==
  \A r \in DOMAIN frame[d].seen : \A i \in DOMAIN frame[d].seen[r] : Explained(frame[d].seen[r][i])

RecordedInv == \A d \in Driver : ToldOK(d) /\ \A i \in Members(d) : SettledOK(d, i)

LEMMA RecordedMeansExplained == OutcomesAreRecorded <=> \A d \in Driver : ToldOK(d)
  BY DEF OutcomesAreRecorded, ToldOK, Explained, Explains

LEMMA ExplainedStays ==
  ASSUME FanTypes, Grows, NEW o, Explained(o)
  PROVE  Explained(o)'
<1>1. PICK k \in DOMAIN journal : Explains(journal[k], o)
  BY DEF Explained
<1>2. k \in 1..Len(journal) /\ journal \in Seq(Fact)
  BY DEF FanTypes
<1>3. k \in DOMAIN journal' /\ journal'[k] = journal[k]
  BY <1>2, GrowthIsTyped
<1> QED BY <1>1, <1>3 DEF Explained

LEMMA NewlyExplained ==
  ASSUME FanTypes, NEW e \in Fact, journal' = Append(journal, e), NEW o, Explains(e, o)
  PROVE  Explained(o)'
<1>1. Len(journal) + 1 \in DOMAIN journal' /\ journal'[Len(journal) + 1] = e
  BY DEF FanTypes
<1> QED BY <1>1 DEF Explained

\* A member that begins and is over at once reuses what is recorded, or refuses.
LEMMA BegunIsSettled ==
  ASSUME FanTypes, NEW d \in Driver, NEW i \in Members(d), BeginStep(d, i)
  PROVE  LET m == frame'[d].members[i]
             o == [id |-> m.id, slot |-> m.slot]
         IN m.at = "done" => o.slot \in Propagating \/ (Explained(o) /\ UNCHANGED journal)
<1> DEFINE m == frame'[d].members[i]
           id == CallId(d, i)
<1>1. ASSUME NEW slot \in Slot, MayBegin(d, i), Enter(d, i, Done(d, i, slot)), UNCHANGED <<journal, rest>>
      PROVE  m.slot = slot /\ m.id = id
  BY <1>1, QuickBegins DEF Begins
<1>2. CASE Refuse(d, i)
  BY <1>1, <1>2 DEF Refuse, Slot, Propagating
<1>3. ASSUME ReuseResult(d, i) PROVE Explained([id |-> m.id, slot |-> m.slot]) /\ UNCHANGED journal
  <2> DEFINE k == LatestIndex(journal, frame[d].loaded, "TaskCompleted", id)
             e == journal[k]
  <2>1. Loaded(d, "TaskCompleted", id) /\ MayBegin(d, i)
    BY <1>3 DEF ReuseResult, CallBegins
  <2>2. e.val \in Slot /\ k \in DOMAIN journal /\ e.type = "TaskCompleted" /\ e.id = id
    BY <2>1, LoadedIsThere DEF Fact, FanTypes
  <2>3. Enter(d, i, Done(d, i, e.val)) /\ UNCHANGED <<journal, rest>>
    BY <1>3 DEF ReuseResult
  <2> HIDE DEF e
  <2>4. m.slot = e.val /\ m.id = id
    BY <1>1, <2>1, <2>2, <2>3
  <2> QED BY <2>2, <2>3, <2>4 DEF Explained, Explains, e
<1>4. ASSUME ReuseFailure(d, i) PROVE Explained([id |-> m.id, slot |-> m.slot]) /\ UNCHANGED journal
  <2>1. id \in frame[d].failed /\ UNCHANGED journal /\ m.slot = "error" /\ m.id = id
    BY <1>1, <1>4 DEF ReuseFailure, CallBegins, Slot, KnownFailure
  <2>2. id \in IdsOf("TaskFailed")
    BY <2>1 DEF FanTypes, FrameOK
  <2> QED BY <2>1, <2>2 DEF IdsOf, Explained, Explains
<1>5. CASE RefuseEffect(d, i)
  BY <1>1, <1>5 DEF RefuseEffect, Misses, CallBegins, Slot, Propagating
<1>6. ASSUME SleepOver(d, i) PROVE Explained([id |-> m.id, slot |-> m.slot]) /\ UNCHANGED journal
  <2>1. Loaded(d, "TimerFired", id) /\ UNCHANGED journal /\ m.slot = "woke" /\ m.id = id
    BY <1>1, <1>6 DEF SleepOver, Slot
  <2>2. PICK k \in DOMAIN journal : journal[k].type = "TimerFired" /\ journal[k].id = id
    BY <2>1, LoadedIsThere DEF FanTypes
  <2> QED BY <2>1, <2>2 DEF Explained, Explains
<1>7. ASSUME Schedule(d, i) \/ CreateTimer(d, i) PROVE m.at # "done"
  <2>1. CASE Schedule(d, i)
    <3>1. m = [at |-> "attempt", id |-> id, slot |-> "none",
                 attempt |-> MaxAttempt(journal, frame[d].loaded, id) + 1,
                 failures |-> PriorFailures(d, id)]
      BY <2>1 DEF Schedule, FanTypes, FrameType, Members
    <3> QED BY <3>1
  <2>2. CASE CreateTimer(d, i)
    <3>1. m = [[Member(d, i) EXCEPT !.at = "waiting"] EXCEPT !.id = id]
      BY <2>2 DEF CreateTimer, Enter, FanTypes, FrameType, Members
    <3> QED BY <3>1, MembersAreTyped DEF MemberType
  <2> QED BY <1>7, <2>1, <2>2
<1> QED BY <1>2, <1>3, <1>4, <1>5, <1>6, <1>7 DEF BeginStep

\* A member that goes on and is over has recorded its outcome, or its failure ends the
\* run, or it parks.
LEMMA GoneOnIsSettled ==
  ASSUME FanTypes, NEW d \in Driver, NEW i \in Members(d), GoOnStep(d, i)
  PROVE  LET m == frame'[d].members[i]
             o == [id |-> m.id, slot |-> m.slot]
         IN m.at = "done" =>
              \/ \E e \in Fact : journal' = Append(journal, e) /\ Explains(e, o)
              \/ o.slot = "error" /\ ~Recording(d)
              \/ o.slot = "parked" /\ Member(d, i).at = "waiting"
<1> DEFINE m == frame'[d].members[i]
           mb == Member(d, i)
<1>0. mb \in MemberType /\ mb.id \in Identity
  BY MembersAreTyped DEF MemberType
<1>1. ASSUME NEW n, n \in MemberType, n.id = mb.id, Become(d, i, n), UNCHANGED rest
      PROVE  m = n
  BY <1>1, MemberGoesOn
<1>2. ASSUME NEW slot \in Slot
      PROVE  Done(d, i, slot) \in MemberType /\ Done(d, i, slot).id = mb.id /\ Done(d, i, slot).slot = slot
  BY <1>0 DEF Done, MemberType, At
<1>3. ASSUME NEW v \in Value, Commit("TaskCompleted", mb.id, 0, v), Become(d, i, Done(d, i, v)), UNCHANGED rest
      PROVE  \E e \in Fact : journal' = Append(journal, e) /\ Explains(e, [id |-> m.id, slot |-> m.slot])
  <2>1. m.id = mb.id /\ m.slot = v
    BY <1>1, <1>2, <1>3 DEF Slot
  <2> DEFINE e == Entry("TaskCompleted", mb.id, 0, v)
  <2>2. e \in Fact /\ e.type = "TaskCompleted" /\ e.id = mb.id /\ e.val = v
    BY <1>0 DEF Entry, Fact, EventType, Slot
  <2>3. journal' = Append(journal, e)
    BY <1>3 DEF Commit
  <2> HIDE DEF e
  <2> QED BY <2>1, <2>2, <2>3 DEF Explains
<1>4. ASSUME FailAttempt(d, i), m.at = "done" PROVE m.slot = "error" /\ ~Recording(d)
  <2>1. CASE RetriesLeft(d, i)
    <3>1. m = [mb EXCEPT !.at = "backoff", !.failures = @ + 1]
      BY <1>4, <2>1 DEF FailAttempt, Become, FanTypes, FrameType, Members
    <3> QED BY <1>0, <1>4, <3>1 DEF MemberType
  <2>2. CASE ~RetriesLeft(d, i) /\ Recording(d)
    <3>1. PICK n : n = [mb EXCEPT !.at = "spent"] /\ Become(d, i, n)
      BY <1>4, <2>2 DEF FailAttempt
    <3>2. n \in MemberType /\ n.id = mb.id /\ n.at = "spent" /\ UNCHANGED rest
      BY <1>0, <1>4, <3>1 DEF MemberType, At, FailAttempt
    <3> QED BY <1>1, <1>4, <3>1, <3>2
  <2>3. CASE ~RetriesLeft(d, i) /\ ~Recording(d)
    <3>1. Become(d, i, Done(d, i, "error")) /\ UNCHANGED rest
      BY <1>4, <2>3 DEF FailAttempt
    <3> QED BY <1>1, <1>2, <2>3, <3>1 DEF Slot
  <2> QED BY <2>1, <2>2, <2>3
<1>5. ASSUME RecordFailure(d, i)
      PROVE  \E e \in Fact : journal' = Append(journal, e) /\ Explains(e, [id |-> m.id, slot |-> m.slot])
  <2>1. m.id = mb.id /\ m.slot = "error"
    BY <1>5, RecordFailureGoesOn DEF GoesOn
  <2> DEFINE e == Entry("TaskFailed", mb.id, 0, "none")
  <2>2. e \in Fact /\ e.type = "TaskFailed" /\ e.id = mb.id
    BY <1>0 DEF Entry, Fact, EventType, Slot
  <2>3. journal' = Append(journal, e)
    BY <1>5 DEF RecordFailure, Commit
  <2> HIDE DEF e
  <2> QED BY <2>1, <2>2, <2>3 DEF Explains
<1>6. ASSUME RecordWaiting(d, i) PROVE m.slot = "parked" /\ mb.at = "waiting"
  <2>1. Become(d, i, Done(d, i, "parked")) /\ UNCHANGED rest /\ mb.at = "waiting"
    BY <1>6 DEF RecordWaiting, Holds
  <2> QED BY <1>1, <1>2, <2>1 DEF Slot
<1>7. ASSUME StartAttempt(d, i) \/ Backoff(d, i) PROVE m.at # "done"
  <2>1. GoesOn(d, i) /\ mb.at \in {"attempt", "backoff"}
    BY <1>7, GoOnStepGoesOn DEF GoOnStep, StartAttempt, Backoff, Holds
  <2> QED BY <2>1 DEF GoesOn
<1>8. CASE Complete(d, i)
  BY <1>3, <1>8 DEF Complete
<1> QED BY <1>4, <1>5, <1>6, <1>7, <1>8 DEF GoOnStep

\* What the other members have ended with stays, and so does what the workflow was told.
LEMMA SettledStays ==
  ASSUME FanTypes, Grows, NEW d \in Driver, code' = code, frame'[d].seen = frame[d].seen,
         NEW i \in Members(d), frame'[d].members[i] = frame[d].members[i], SettledOK(d, i)
  PROVE  SettledOK(d, i)'
<1>1. PICK o : o = Outcome(d, i)
  OBVIOUS
<1>2. Member(d, i)' = Member(d, i) /\ Outcome(d, i)' = o
  BY <1>1 DEF Member, Outcome
<1>3. Recording(d)' = Recording(d) /\ CallOf(d, i)' = CallOf(d, i)
  BY DEF Recording, CallOf, CurrentRound
<1>4. Explained(o) => Explained(o)'
  BY ExplainedStays
<1> QED BY <1>1, <1>2, <1>3, <1>4 DEF SettledOK

LEMMA CallStepSettles ==
  ASSUME FanTypes, NEW d \in Driver, NEW i \in Members(d), CallStep(d, i), NEW k \in Members(d), SettledOK(d, k)
  PROVE  SettledOK(d, k)'
<1>1. MemberMoves(d, i) /\ Grows
  BY CallStepMoves
<1>2. CASE k # i
  BY <1>1, <1>2, SettledStays DEF MemberMoves, Member
<1>3. ASSUME k = i, Member(d, i)'.at = "done" PROVE SettledOK(d, i)'
  <2>1. PICK o : o = [id |-> frame'[d].members[i].id, slot |-> frame'[d].members[i].slot]
    OBVIOUS
  <2>2. Outcome(d, i)' = o /\ frame'[d].members[i].at = "done"
    BY <1>3, <2>1 DEF Outcome, Member
  <2>3. Recording(d)' = Recording(d) /\ CallOf(d, i)' = CallOf(d, i)
    BY <1>1 DEF Recording, CallOf, CurrentRound, MemberMoves
  <2>4. CASE BeginStep(d, i)
    <3>1. o.slot \in Propagating \/ (Explained(o) /\ UNCHANGED journal)
      BY <2>1, <2>2, <2>4, BegunIsSettled
    <3>2. o.slot \in Propagating \/ Explained(o)'
      BY <1>1, <3>1, ExplainedStays
    <3> QED BY <2>2, <3>2 DEF SettledOK, Propagating
  <2>5. CASE GoOnStep(d, i)
    <3>1. \/ \E e \in Fact : journal' = Append(journal, e) /\ Explains(e, o)
          \/ o.slot = "error" /\ ~Recording(d)
          \/ o.slot = "parked" /\ Member(d, i).at = "waiting"
      BY <2>1, <2>2, <2>5, GoneOnIsSettled
    <3>2. (\E e \in Fact : journal' = Append(journal, e) /\ Explains(e, o)) => Explained(o)'
      BY NewlyExplained
    <3>3. Member(d, i).at = "waiting" => CallOf(d, i).name = "sleep"
      BY DEF FanTypes, FrameOK, MemberOK
    <3> QED BY <2>2, <2>3, <3>1, <3>2, <3>3 DEF SettledOK
  <2> QED BY <2>4, <2>5, CallStepKinds
<1>4. CASE k = i /\ Member(d, i)'.at # "done"
  BY <1>4 DEF SettledOK, Member
<1>5. k = i => (SettledOK(d, i)' => SettledOK(d, k)')
  OBVIOUS
<1> QED BY <1>2, <1>3, <1>4, <1>5

\* What the workflow was told stays explained.
LEMMA ToldStays ==
  ASSUME FanTypes, Grows, NEW d \in Driver, frame'[d].seen = frame[d].seen, ToldOK(d)
  PROVE  ToldOK(d)'
<1> SUFFICES ASSUME NEW r \in DOMAIN frame[d].seen, NEW i \in DOMAIN frame[d].seen[r]
             PROVE  Explained(frame[d].seen[r][i])'
  BY DEF ToldOK
<1>1. PICK o : o = frame[d].seen[r][i]
  OBVIOUS
<1>2. Explained(o)'
  BY <1>1, ExplainedStays DEF ToldOK
<1> QED BY <1>1, <1>2

\* A step of drive d leaves the others' outcomes as they are.
LEMMA OthersKeepRecorded ==
  ASSUME FanTypes, RecordedInv, NEW d \in Driver, FrameMoves(d),
         ToldOK(d)', \A i \in Members(d)' : SettledOK(d, i)'
  PROVE  RecordedInv'
<1> SUFFICES ASSUME NEW e \in Driver PROVE ToldOK(e)' /\ \A i \in Members(e)' : SettledOK(e, i)'
  BY DEF RecordedInv
<1>1. CASE e = d
  BY <1>1
<1>2. CASE e # d
  <2>1. frame'[e] = frame[e] /\ code' = code /\ Grows /\ ToldOK(e) /\ Members(e)' = Members(e)
    BY <1>2 DEF FrameMoves, RecordedInv, Members
  <2>2. ToldOK(e)'
    BY <2>1, ToldStays
  <2>3. ASSUME NEW i \in Members(e) PROVE SettledOK(e, i)'
    <3>1. SettledOK(e, i)
      BY DEF RecordedInv
    <3> QED BY <2>1, <3>1, SettledStays
  <2> QED BY <2>1, <2>2, <2>3
<1> QED BY <1>1, <1>2

LEMMA CallStepRecorded ==
  ASSUME FanTypes, RecordedInv, NEW d \in Driver, NEW i \in Members(d), CallStep(d, i)
  PROVE  RecordedInv'
<1>1. MemberMoves(d, i) /\ Grows
  BY CallStepMoves
<1>2. FrameMoves(d)
  BY <1>1 DEF MemberMoves, FrameMoves
<1>3. ToldOK(d)'
  BY <1>1, ToldStays DEF MemberMoves, RecordedInv
<1>4. \A k \in Members(d)' : SettledOK(d, k)'
  BY <1>1, CallStepSettles DEF MemberMoves, RecordedInv, Members
<1> QED BY <1>2, <1>3, <1>4, OthersKeepRecorded

\* A drive whose members are new, or that has none, has nothing to explain but what
\* its workflow was told.
LEMMA NewMembersRecorded ==
  ASSUME FanTypes, RecordedInv, NEW d \in Driver, UNCHANGED code, Grows,
         frame' = [frame EXCEPT ![d] = frame'[d]], frame'[d] \in FrameType,
         NEW p, pc' = [pc EXCEPT ![d] = p], ToldOK(d)',
         \A k \in DOMAIN frame'[d].members : frame'[d].members[k] = NewMember
  PROVE  RecordedInv'
<1>1. PICK f \in FrameType : f = frame'[d]
  OBVIOUS
<1>2. frame' = [frame EXCEPT ![d] = f] /\ frame \in [Driver -> FrameType] /\ pc \in [Driver -> Pcs]
  BY <1>1 DEF FanTypes, Pcs
<1>3. FrameMoves(d)
  BY <1>2 DEF FrameMoves
<1>4. \A i \in Members(d)' : SettledOK(d, i)'
  <2> SUFFICES ASSUME NEW i \in Members(d)' PROVE SettledOK(d, i)'
    OBVIOUS
  <2>1. Member(d, i)'.at = "new"
    BY DEF Members, Member, NewMember
  <2> QED BY <2>1 DEF SettledOK
<1> QED BY <1>3, <1>4, OthersKeepRecorded

\* A fan-out that returns outcomes all of which are explained.
LEMMA RejoinRecorded ==
  ASSUME FanTypes, RecordedInv, NEW d \in Driver, NEW o \in Seq(OutcomeType), Rejoin(d, o),
         \A i \in DOMAIN o : Explained(o[i])
  PROVE  RecordedInv'
<1>1. /\ UNCHANGED <<code, journal>> /\ pc' = [pc EXCEPT ![d] = "fan"] /\ Grows
  BY DEF Rejoin, Grows
<1>2. ToldOK(d)'
  <2> SUFFICES ASSUME NEW r \in DOMAIN frame'[d].seen, NEW i \in DOMAIN frame'[d].seen[r]
               PROVE  Explained(frame[d].seen[r][i])'
    BY DEF ToldOK
  <2>1. frame'[d].seen = Append(frame[d].seen, o) /\ frame[d].seen \in Seq(Seq(OutcomeType))
    BY RejoinFrame DEF FanTypes, FrameType
  <2>2. PICK x : x = frame'[d].seen[r][i]
    OBVIOUS
  <2>3. Explained(x)
    <3>1. CASE r \in DOMAIN frame[d].seen
      <4>1. frame'[d].seen[r] = frame[d].seen[r]
        BY <2>1, <3>1
      <4> QED BY <2>2, <3>1, <4>1 DEF RecordedInv, ToldOK
    <3>2. CASE r \notin DOMAIN frame[d].seen
      <4>1. frame'[d].seen[r] = o
        BY <2>1, <3>2
      <4> QED BY <2>2, <4>1
    <3> QED BY <3>1, <3>2
  <2>4. Explained(x)'
    BY <1>1, <2>3, ExplainedStays
  <2> QED BY <2>2, <2>4
<1> QED BY <1>1, <1>2, RejoinFrame, NewMembersRecorded

\* What is returned of a fan-out, and what is raised inside one, is explained: its
\* errors were recorded, for the run survives them.
LEMMA ReturnedIsExplained ==
  ASSUME CollectTasks, FanTypes, RecordedInv, NEW d \in Driver, ReturnAll(d), NEW i \in Members(d)
  PROVE  Explained(Outcome(d, i))
<1>1. SettledOK(d, i) /\ Member(d, i).at = "done" /\ Outcome(d, i).slot = Member(d, i).slot
  BY DEF RecordedInv, ReturnAll, Over, Outcome
<1>2. Member(d, i).slot \notin Propagating
  BY DEF ReturnAll, Has
<1>3. MemberOK(d, i) /\ code \in Version
  BY DEF FanTypes, FrameOK
<1>4. CASE CurrentRound(d).mode = "collect"
  <2>1. Recording(d)
    BY <1>4 DEF Recording
  <2>2. CallOf(d, i).name # "sleep"
    BY <1>3, <1>4 DEF MemberOK, InRound, CurrentRound, CallOf, CollectTasks
  <2> QED BY <1>1, <1>2, <2>1, <2>2 DEF SettledOK
<1>5. CASE ~Has(d, Raised)
  <2>1. Member(d, i).slot \notin {"error", "parked"}
    BY <1>5 DEF Has, Raised
  <2> QED BY <1>1, <1>2, <2>1 DEF SettledOK
<1> QED BY <1>4, <1>5 DEF ReturnAll

LEMMA RaisedIsExplained ==
  ASSUME FanTypes, RecordedInv, NEW d \in Driver, RaiseInside(d)
  PROVE  FirstRaised(d) \in Members(d) /\ Explained(Outcome(d, FirstRaised(d)))
<1>1. Has(d, Raised)
  BY DEF RaiseInside, Raises, Fans, FrameOK, FanTypes
<1>2. PICK i \in Members(d) : i = FirstRaised(d)
  BY <1>1, FirstRaisedIsMember
<1>3. SettledOK(d, i) /\ Member(d, i).at = "done" /\ Member(d, i).slot = "error" /\ Outcome(d, i).slot = "error"
  BY <1>2 DEF RecordedInv, RaiseInside, Raises, Drained, Over, Outcome
<1>4. Recording(d)
  BY DEF RaiseInside, Recording
<1> QED BY <1>2, <1>3, <1>4 DEF SettledOK, Propagating

LEMMA DriveStepRecorded ==
  ASSUME CollectTasks, FanTypes, RecordedInv, NEW d \in Driver, DriveStep(d) \/ Redrive(d)
  PROVE  RecordedInv'
<1>0. ToldOK(d) /\ \A i \in Members(d) : SettledOK(d, i)
  BY DEF RecordedInv
<1>1. ASSUME NEW i \in Members(d), CallStep(d, i) PROVE RecordedInv'
  BY <1>1, CallStepRecorded
<1>2. CASE ReturnAll(d)
  <2> DEFINE o == [i \in Members(d) |-> Outcome(d, i)]
  <2>1. o \in Seq(OutcomeType) /\ Rejoin(d, o)
    BY <1>2, OutcomesAreTyped DEF ReturnAll
  <2>2. \A i \in DOMAIN o : Explained(o[i])
    BY <1>2, ReturnedIsExplained
  <2> HIDE DEF o
  <2> QED BY <2>1, <2>2, RejoinRecorded
<1>3. CASE RaiseInside(d)
  <2> DEFINE x == Outcome(d, FirstRaised(d))
             o == <<x>>
  <2>1. FirstRaised(d) \in Members(d) /\ Explained(x)
    BY <1>3, RaisedIsExplained
  <2>2. x \in OutcomeType
    BY <2>1, OutcomesAreTyped
  <2>3. o \in Seq(OutcomeType) /\ Rejoin(d, o) /\ \A i \in DOMAIN o : o[i] = x
    BY <1>3, <2>2 DEF RaiseInside
  <2> HIDE DEF o, x
  <2> QED BY <2>1, <2>3, RejoinRecorded
<1>4. CASE Abort(d) \/ RaisePark(d) \/ DriveTerminal(d) \/ SettleStatus(d)
  <2>1. /\ UNCHANGED <<code, journal>> /\ pc' = [pc EXCEPT ![d] = "idle"]
        /\ frame' = [frame EXCEPT ![d] = NoFrame] /\ frame \in [Driver -> FrameType]
    BY <1>4 DEF Abort, RaisePark, DriveTerminal, SettleStatus, Release, FanTypes
  <2>2. frame'[d] = NoFrame
    BY <2>1
  <2>3. /\ frame' = [frame EXCEPT ![d] = frame'[d]] /\ frame'[d] \in FrameType
        /\ DOMAIN frame'[d].members = {} /\ DOMAIN frame'[d].seen = {}
    BY <2>1, <2>2, NoFrameIsTyped
  <2>4. ToldOK(d)'
    BY <2>3 DEF ToldOK
  <2> QED BY <2>1, <2>3, <2>4, NewMembersRecorded DEF Grows
<1>5. CASE Notice(d) \/ RaiseFailure(d) \/ Return(d) \/ Redrive(d)
  <2>1. UNCHANGED <<code, frame>> /\ Grows
    BY <1>5, RunEventGrows DEF Notice, RaiseFailure, Return, Redrive, Grows
  <2>2. \A e \in Driver \ {d} : pc'[e] = pc[e]
    BY <1>5 DEF Notice, RaiseFailure, Return, Redrive, FanTypes
  <2>3. FrameMoves(d)
    BY <2>1, <2>2 DEF FrameMoves, FanTypes
  <2>4. ToldOK(d)'
    BY <1>0, <2>1, ToldStays
  <2>5. \A i \in Members(d)' : SettledOK(d, i)'
    BY <1>0, <2>1, SettledStays DEF Members
  <2> QED BY <2>3, <2>4, <2>5, OthersKeepRecorded
<1>6. CASE DriveLoad(d)
  <2>1. UNCHANGED <<code, journal>> /\ pc' = [pc EXCEPT ![d] = "fan"] /\ Grows
    BY <1>6 DEF DriveLoad, Grows
  <2>2. DOMAIN frame'[d].seen = {}
    BY <1>6, LoadFrame
  <2>3. ToldOK(d)'
    BY <2>2 DEF ToldOK
  <2> QED BY <1>6, <2>1, <2>3, LoadFrame, NewMembersRecorded
<1> QED BY <1>1, <1>2, <1>3, <1>4, <1>5, <1>6 DEF DriveStep

LEMMA StillRecorded ==
  ASSUME FanTypes, RecordedInv, Grows, UNCHANGED <<code, frame>>
  PROVE  RecordedInv'
<1> SUFFICES ASSUME NEW e \in Driver PROVE ToldOK(e)' /\ \A i \in Members(e)' : SettledOK(e, i)'
  BY DEF RecordedInv
<1>1. ToldOK(e) /\ Members(e)' = Members(e) /\ \A i \in Members(e) : SettledOK(e, i)
  BY DEF RecordedInv, Members
<1> QED BY <1>1, ToldStays, SettledStays

LEMMA NextRecorded ==
  ASSUME CollectTasks, FanTypes, RecordedInv, [Next]_vars
  PROVE  RecordedInv'
<1>1. CASE UNCHANGED vars
  BY <1>1, StillRecorded DEF vars, Grows
<1>2. ASSUME NEW id \in IdsOf("TimerCreated"), FireTimer(id) PROVE RecordedInv'
  BY <1>2, FireTimerGrows, StillRecorded
<1>3. CASE Crash
  <2>1. \A d \in Driver : DOMAIN frame'[d].seen = {} /\ DOMAIN frame'[d].members = {}
    BY <1>3, NoFrameIsTyped DEF Crash
  <2> QED BY <2>1 DEF RecordedInv, ToldOK, Members
<1> QED BY <1>1, <1>2, <1>3, DriveStepRecorded DEF Next

LEMMA InitRecorded == Init => RecordedInv
<1> SUFFICES ASSUME Init PROVE RecordedInv
  OBVIOUS
<1>1. \A d \in Driver : DOMAIN frame[d].seen = {} /\ DOMAIN frame[d].members = {}
  BY NoFrameIsTyped DEF Init
<1> QED BY <1>1 DEF RecordedInv, ToldOK, Members

\* Every outcome the workflow was handed is in the journal under its own identity,
\* whatever the drives that share the run, the fan-outs, and where crashes fall.
THEOREM OutcomesAreRecordedHolds == ASSUME CollectTasks PROVE Spec => []OutcomesAreRecorded
<1>1. Init => FanTypes /\ RecordedInv
  BY InitTypes, InitRecorded
<1>2. FanTypes /\ RecordedInv /\ [Next]_vars => (FanTypes /\ RecordedInv)'
  BY NextTypes, NextRecorded
<1>3. RecordedInv => OutcomesAreRecorded
  BY RecordedMeansExplained DEF RecordedInv
<1> QED BY <1>1, <1>2, <1>3, PTL DEF Spec

-----------------------------------------------------------------------------
(* Verdicts end a call, and its budget holds                                 *)

\* the run is driven by one task at a time
OneDriver == \A d, e \in Driver : d = e

\* no two maps of a workflow call the same task under the same key: they would be
\* one call (engine.py:754)
KeysApart ==
  \A v \in Version : \A r, s \in DOMAIN Plan[v] :
    \A i \in DOMAIN Plan[v][r].calls, k \in DOMAIN Plan[v][s].calls :
      Plan[v][r].calls[i] = Plan[v][s].calls[k] /\ Plan[v][r].calls[i].key # NoKey => r = s

TaskId == [name : Task, ord : Nat \cup Key]
Live == {"attempt", "body", "backoff", "spent"}

Spent(id) == Failures(journal, Len(journal), id)
NothingJudged(id) == \A k \in 1..Len(journal) : journal[k].id = id => journal[k].type \notin Verdict

\* the identities this drive has given out
Begun(d, id) ==
  \/ id.ord \in Nat /\ id.ord < frame[d].ordinals[id.name]
  \/ \E r \in 1..Len(frame[d].seen) : \E i \in DOMAIN Plan[code][r].calls :
       /\ Plan[code][r].calls[i].key # NoKey
       /\ id.name = Plan[code][r].calls[i].name /\ id.ord = Plan[code][r].calls[i].key
  \/ \E k \in Members(d) : Member(d, k).at # "new" /\ Member(d, k).id = id

\* a call under way has no verdict, and its member knows how often it failed
LiveOK(d, i) ==
  LET m == Member(d, i) IN
  /\ m.at \in Live => NothingJudged(m.id)
  /\ m.at \in Live \ {"spent"} =>
       m.failures = Spent(m.id) /\ Spent(m.id) + 1 <= Retries[m.id.name] + drives

KnowsFailures(d) ==
  \A k \in 1..frame[d].loaded : journal[k].type = "TaskFailed" => journal[k].id \in frame[d].failed
LoadedWithin(d) == \A id \in TaskId : PriorFailures(d, id) + 1 <= Retries[id.name] + drives
\* what was recorded since the drive loaded is its own doing
NewsAreBegun(d) ==
  \A k \in 1..Len(journal) : k > frame[d].loaded /\ journal[k].id.name \in Task => Begun(d, journal[k].id)
MembersAreApart(d) ==
  \A i, k \in Members(d) :
    Member(d, i).at # "new" /\ Member(d, k).at # "new" /\ Member(d, i).id = Member(d, k).id => i = k

FanOK(d) ==
  /\ KnowsFailures(d) /\ LoadedWithin(d) /\ NewsAreBegun(d) /\ MembersAreApart(d)
  /\ \A i \in Members(d) : LiveOK(d, i)

DriveOK(d) ==
  /\ pc[d] # "idle" => drives >= 1
  /\ pc[d] = "drive" => \A id \in TaskId : Spent(id) + 1 <= Retries[id.name] + drives
  /\ pc[d] \in {"fan", "drain"} => FanOK(d)

BudgetOK == \A id \in TaskId : Spent(id) <= Retries[id.name] + drives

DurableInv == VerdictIsLast /\ BudgetOK /\ \A d \in Driver : DriveOK(d)

\* What one more event changes.
LEMMA SpentGrows ==
  ASSUME FanTypes, NEW e \in Fact, journal' = Append(journal, e), NEW x
  PROVE  Spent(x) \in Nat /\ Spent(x)' = IF e.type = "TaskAttemptFailed" /\ e.id = x THEN Spent(x) + 1 ELSE Spent(x)
<1>1. PICK j \in Seq(Fact) : j = journal
  BY DEF FanTypes
<1>2. PICK h : h = Append(j, e)
  OBVIOUS
<1>3. PICK n \in Nat : n = Len(j)
  OBVIOUS
<1>4. Len(h) = n + 1 /\ h[n + 1] = e /\ \A k \in 1..n : h[k] = j[k]
  BY <1>2, <1>3
<1>5. OneMore(j, n, h, n + 1)
  BY <1>4 DEF OneMore
<1>6. /\ Tally(j, n, "TaskAttemptFailed", x) \in Nat
      /\ Tally(h, n + 1, "TaskAttemptFailed", x) =
           IF e.type = "TaskAttemptFailed" /\ e.id = x THEN Tally(j, n, "TaskAttemptFailed", x) + 1
           ELSE Tally(j, n, "TaskAttemptFailed", x)
  BY <1>4, <1>5, TallyGrows
<1>7. Spent(x) = Tally(j, n, "TaskAttemptFailed", x)
  BY <1>1, <1>3 DEF Spent, Failures, Tally, Places
<1>8. Spent(x)' = Tally(h, n + 1, "TaskAttemptFailed", x)
  <2>1. journal' = h /\ Len(journal') = n + 1
    BY <1>1, <1>2, <1>4
  <2> QED BY <2>1 DEF Spent, Failures, Tally, Places
<1> QED BY <1>6, <1>7, <1>8

LEMMA JudgedGrows ==
  ASSUME FanTypes, NEW e \in Fact, journal' = Append(journal, e)
  PROVE  /\ \A x : NothingJudged(x) /\ (e.id = x => e.type \notin Verdict) => NothingJudged(x)'
         /\ VerdictIsLast /\ NothingJudged(e.id) => VerdictIsLast'
<1>1. /\ journal \in Seq(Fact) /\ DOMAIN journal = 1..Len(journal) /\ Len(journal) \in Nat
  BY DEF FanTypes
<1>2. /\ DOMAIN journal' = 1..(Len(journal) + 1) /\ Len(journal') = Len(journal) + 1
      /\ journal'[Len(journal) + 1] = e /\ \A k \in 1..Len(journal) : journal'[k] = journal[k]
  BY <1>1
<1>3. \A k \in 1..Len(journal') : k \in 1..Len(journal) \/ k = Len(journal) + 1
  BY <1>1, <1>2
<1>4. ASSUME NEW x, NothingJudged(x), e.id = x => e.type \notin Verdict PROVE NothingJudged(x)'
  BY <1>2, <1>3, <1>4 DEF NothingJudged
<1>5. ASSUME VerdictIsLast, NothingJudged(e.id) PROVE VerdictIsLast'
  <2> SUFFICES ASSUME NEW i \in 1..Len(journal'), NEW k \in 1..Len(journal'),
                      journal'[i].type \in {"TaskCompleted", "TaskFailed"}, i < k
               PROVE  journal'[k].id # journal'[i].id
    BY <1>1, <1>2 DEF VerdictIsLast
  <2>1. i \in 1..Len(journal)
    BY <1>1, <1>2, <1>3
  <2>2. CASE k \in 1..Len(journal)
    BY <1>1, <1>2, <1>5, <2>1, <2>2 DEF VerdictIsLast
  <2>3. CASE k = Len(journal) + 1
    BY <1>2, <1>5, <2>1, <2>3 DEF NothingJudged, Verdict
  <2> QED BY <1>3, <2>2, <2>3
<1> QED BY <1>4, <1>5

\* What a drive loaded does not change under it.
LEMMA PrefixStays ==
  ASSUME FanTypes, Grows, NEW d \in Driver, frame'[d].loaded = frame[d].loaded
  PROVE  /\ \A x : PriorFailures(d, x)' = PriorFailures(d, x)
         /\ frame[d].loaded \in Nat /\ \A k \in 1..frame[d].loaded : k \in 1..Len(journal) /\ journal'[k] = journal[k]
<1>1. frame[d].loaded \in Nat /\ frame[d].loaded <= Len(journal) /\ Len(journal) \in Nat
  BY DEF FanTypes, FrameOK, FrameType
<1>2. \A k \in 1..frame[d].loaded : k \in 1..Len(journal) /\ journal'[k] = journal[k]
  BY <1>1, GrowthIsTyped
<1>3. ASSUME NEW x PROVE PriorFailures(d, x)' = PriorFailures(d, x)
  BY <1>2 DEF PriorFailures, Failures
<1> QED BY <1>1, <1>2, <1>3

LEMMA SameCalls ==
  ASSUME NEW b \in Call, NEW c \in Call, b.name = c.name, b.key = c.key
  PROVE  b = c
  BY DEF Call

\* A call that begins takes an identity this drive has not given out.
LEMMA IdIsFresh ==
  ASSUME KeysApart, FanTypes, NEW d \in Driver, NEW i \in Members(d), Member(d, i).at = "new"
  PROVE  ~Begun(d, CallId(d, i))
<1> DEFINE c == CallOf(d, i)
           id == CallId(d, i)
<1>0. MemberOK(d, i) /\ \A k \in Members(d) : MemberOK(d, k)
  BY DEF FanTypes, FrameOK
<1>1. /\ id.name = c.name /\ c.name \in Name /\ c.key \in Key \cup {NoKey} /\ c \in Call
      /\ id.ord = IF c.key = NoKey THEN frame[d].ordinals[c.name] ELSE c.key
  BY CallsAreTyped DEF CallId
<1>2. frame[d].ordinals[c.name] \in Nat
  BY <1>1, MembersAreTyped DEF FrameType
<1>3. \A k \in Key \cup {NoKey} : k \notin Nat
  BY NamesAreApart
<1>4. ~(id.ord \in Nat /\ id.ord < frame[d].ordinals[id.name])
  <2>1. CASE c.key = NoKey
    BY <1>1, <1>2, <2>1
  <2>2. CASE c.key # NoKey
    BY <1>1, <1>3, <2>2
  <2> QED BY <2>1, <2>2
<1>5. ASSUME NEW r \in 1..Len(frame[d].seen), NEW k \in DOMAIN Plan[code][r].calls,
             Plan[code][r].calls[k].key # NoKey,
             id.name = Plan[code][r].calls[k].name, id.ord = Plan[code][r].calls[k].key
      PROVE  FALSE
  <2>1. code \in Version /\ Len(frame[d].seen) + 1 \in DOMAIN Plan[code] /\ Plan[code] \in Seq(Round)
        /\ Len(frame[d].seen) \in Nat /\ i \in DOMAIN CurrentRound(d).calls
    BY <1>0, PlansAreRounds DEF FanTypes, FrameType, MemberOK, InRound
  <2>2. r \in DOMAIN Plan[code] /\ Plan[code][r] \in Round
    BY <2>1
  <2>3. Plan[code][r].calls[k] \in Call
    BY <2>2 DEF Round
  <2>4. Plan[code][r].calls[k].key \in Key
    BY <1>5, <2>3 DEF Call
  <2>5. c.key # NoKey
    BY <1>1, <1>2, <1>3, <1>5, <2>4
  <2>6. c = Plan[code][r].calls[k]
    <3> HIDE DEF c
    <3> QED BY <1>1, <1>5, <2>3, <2>5, SameCalls
  <2>7. c = Plan[code][Len(frame[d].seen) + 1].calls[i] /\ i \in DOMAIN Plan[code][Len(frame[d].seen) + 1].calls
    BY <2>1 DEF CallOf, CurrentRound
  <2>8. r = Len(frame[d].seen) + 1
    <3> HIDE DEF c
    <3> QED BY <1>5, <2>1, <2>2, <2>6, <2>7 DEF KeysApart
  <2> QED BY <2>1, <2>8
<1>6. ASSUME NEW k \in Members(d), Member(d, k).at # "new", Member(d, k).id = id
      PROVE  FALSE
  <2> DEFINE b == CallOf(d, k)
  <2>1. /\ id.name = b.name
        /\ b.key # NoKey => id.ord = b.key
        /\ b.key = NoKey => id.ord \in Nat /\ id.ord < frame[d].ordinals[b.name]
    BY <1>0, <1>6 DEF MemberOK
  <2>2. b.key \in Key \cup {NoKey} /\ b \in Call
    BY CallsAreTyped
  <2>3. b.key # NoKey
    BY <1>4, <2>1
  <2>4. c.key # NoKey
    BY <1>1, <1>2, <1>3, <2>1, <2>2, <2>3
  <2>5. c = b
    <3> HIDE DEF b, c
    <3> QED BY <1>1, <2>1, <2>2, <2>3, <2>4, SameCalls
  <2>6. i \in DOMAIN CurrentRound(d).calls /\ k \in DOMAIN CurrentRound(d).calls /\ IsRound(CurrentRound(d))
    BY <1>0, CallsAreTyped DEF MemberOK
  <2>7. i = k
    BY <2>3, <2>5, <2>6 DEF IsRound, CallOf
  <2> QED BY <1>6, <2>7
<1> QED BY <1>4, <1>5, <1>6 DEF Begun

\* A sleep has no verdict.
LEMMA SleepsAreNotJudged ==
  ASSUME FanTypes, NEW id, id.name \notin Task
  PROVE  NothingJudged(id)
<1>1. \A k \in 1..Len(journal) : FactOK(journal[k])
  BY DEF FanTypes
<1> QED BY <1>1 DEF NothingJudged, FactOK, Verdict, TaskEvent

\* A call that begins and misses has no verdict, and the drive knows all its failures.
LEMMA MissesAreOpen ==
  ASSUME KeysApart, FanTypes, NEW d \in Driver, NEW i \in Members(d), FanOK(d), Misses(d, i)
  PROVE  /\ CallId(d, i) \in TaskId /\ NothingJudged(CallId(d, i))
         /\ Spent(CallId(d, i)) = PriorFailures(d, CallId(d, i))
<1>0. PICK id : id = CallId(d, i)
  OBVIOUS
<1>1. id \in TaskId
  <2>1. id \in [name : Name, ord : Nat \cup Key] /\ id.name = CallOf(d, i).name
    BY <1>0, CallsAreTyped
  <2> QED BY <2>1 DEF Misses, CallBegins, Name, TaskId
<1>2. /\ ~Begun(d, id) /\ ~Loaded(d, "TaskCompleted", id) /\ id \notin frame[d].failed
  BY <1>0, IdIsFresh DEF Misses, CallBegins, MayBegin, KnownFailure
<1>3. frame[d].loaded \in Nat /\ frame[d].loaded <= Len(journal) /\ Len(journal) \in Nat
  BY DEF FanTypes, FrameOK, FrameType
<1>4. id.name \in Task
  BY <1>1 DEF TaskId
<1>5. ASSUME NEW k \in 1..Len(journal), journal[k].id = id
      PROVE  k \in 1..frame[d].loaded
  <2>1. ~(k > frame[d].loaded)
    BY <1>2, <1>4, <1>5 DEF FanOK, NewsAreBegun
  <2> QED BY <1>3, <2>1
<1>6. NothingJudged(id)
  <2> SUFFICES ASSUME NEW k \in 1..Len(journal), journal[k].id = id PROVE journal[k].type \notin Verdict
    BY DEF NothingJudged
  <2>1. k \in 1..frame[d].loaded
    BY <1>5
  <2>2. journal[k].type # "TaskCompleted"
    BY <1>2, <2>1 DEF Loaded, Recorded
  <2>3. journal[k].type # "TaskFailed"
    BY <1>2, <2>1 DEF FanOK, KnowsFailures
  <2> QED BY <2>2, <2>3 DEF Verdict
<1>7. Spent(id) = PriorFailures(d, id)
  <2>1. {k \in 1..Len(journal) : journal[k].type = "TaskAttemptFailed" /\ journal[k].id = id} =
        {k \in 1..frame[d].loaded : journal[k].type = "TaskAttemptFailed" /\ journal[k].id = id}
    BY <1>3, <1>5
  <2> QED BY <2>1 DEF Spent, PriorFailures, Failures
<1> QED BY <1>0, <1>1, <1>6, <1>7

\* An identity a drive has given out stays given out.
LEMMA BegunStays ==
  ASSUME FanTypes, NEW d \in Driver, NEW i \in Members(d), MemberMoves(d, i),
         Begins(d, i) \/ GoesOn(d, i), NEW x, x.name \in Name, Begun(d, x)
  PROVE  Begun(d, x)'
<1>0. /\ code' = code /\ frame'[d].seen = frame[d].seen /\ Members(d)' = Members(d)
      /\ \A k \in Members(d) \ {i} : Member(d, k)' = Member(d, k)
  BY DEF MemberMoves, Members, Member
<1>1. CASE x.ord \in Nat /\ x.ord < frame[d].ordinals[x.name]
  <2>1. frame[d].ordinals[x.name] \in Nat /\ frame'[d].ordinals[x.name] \in Nat
    BY MembersAreTyped DEF FrameType, MemberMoves
  <2>2. frame'[d].ordinals[x.name] >= frame[d].ordinals[x.name]
    BY <2>1 DEF Begins, GoesOn
  <2>3. x.ord < frame'[d].ordinals[x.name]
    BY <1>1, <2>1, <2>2
  <2> QED BY <1>1, <2>3 DEF Begun
<1>2. ASSUME NEW k \in Members(d), Member(d, k).at # "new", Member(d, k).id = x PROVE Begun(d, x)'
  <2>1. CASE k # i
    BY <1>0, <1>2, <2>1 DEF Begun
  <2>2. CASE k = i
    <3>1. GoesOn(d, i)
      BY <1>2, <2>2 DEF Begins, MayBegin
    <3>2. Member(d, i)'.id = x /\ Member(d, i)'.at # "new"
      BY <1>2, <2>2, <3>1 DEF GoesOn, Member
    <3> QED BY <1>0, <3>2 DEF Begun
  <2> QED BY <2>1, <2>2
<1>3. ASSUME NEW r \in 1..Len(frame[d].seen), NEW k \in DOMAIN Plan[code][r].calls,
             Plan[code][r].calls[k].key # NoKey,
             x.name = Plan[code][r].calls[k].name, x.ord = Plan[code][r].calls[k].key
      PROVE  Begun(d, x)'
  BY <1>0, <1>3 DEF Begun
<1> QED BY <1>1, <1>2, <1>3 DEF Begun

\* The member that moves has begun, under an identity no other member has.
LEMMA MoverIsApart ==
  ASSUME KeysApart, FanTypes, NEW d \in Driver, NEW i \in Members(d), MemberMoves(d, i),
         Begins(d, i) \/ GoesOn(d, i), FanOK(d)
  PROVE  /\ frame'[d].members[i].at # "new"
         /\ \A k \in Members(d) \ {i} :
              Member(d, k).at # "new" => Member(d, k).id # frame'[d].members[i].id
<1>1. CASE Begins(d, i)
  <2>1. frame'[d].members[i].at # "new" /\ frame'[d].members[i].id = CallId(d, i) /\ Member(d, i).at = "new"
    BY <1>1 DEF Begins, MayBegin
  <2>2. ~Begun(d, CallId(d, i))
    BY <2>1, IdIsFresh
  <2> QED BY <2>1, <2>2 DEF Begun
<1>2. CASE GoesOn(d, i)
  <2>1. frame'[d].members[i].at # "new" /\ frame'[d].members[i].id = Member(d, i).id /\ Member(d, i).at # "new"
    BY <1>2 DEF GoesOn
  <2> QED BY <2>1 DEF FanOK, MembersAreApart
<1> QED BY <1>1, <1>2

\* What a member records is about a call that has no verdict, and within its budget.
LEMMA StepRecords ==
  ASSUME KeysApart, FanTypes, NEW d \in Driver, NEW i \in Members(d), FanOK(d),
         Begins(d, i) \/ GoesOn(d, i)
  PROVE  \/ UNCHANGED journal
         \/ \E e \in Fact :
              /\ journal' = Append(journal, e) /\ e.id = frame'[d].members[i].id
              /\ NothingJudged(e.id)
              /\ e.type = "TaskAttemptFailed" => Spent(e.id) + 1 <= Retries[e.id.name] + drives
<1> DEFINE id == frame'[d].members[i].id
           Good == \E e \in Fact :
              /\ journal' = Append(journal, e) /\ e.id = frame'[d].members[i].id
              /\ NothingJudged(e.id)
              /\ e.type = "TaskAttemptFailed" => Spent(e.id) + 1 <= Retries[e.id.name] + drives
<1> SUFFICES UNCHANGED journal \/ Good
  OBVIOUS
<1>0. MemberOK(d, i) /\ LiveOK(d, i) /\ "sleep" \notin Task
  BY NamesAreApart DEF FanTypes, FrameOK, FanOK
<1>1. ASSUME NEW type, NEW x, x = id, Records(type, x), NothingJudged(x),
             type = "TaskAttemptFailed" => Spent(x) + 1 <= Retries[x.name] + drives
      PROVE  Good
  BY <1>1 DEF Records
<1> HIDE DEF Good
<1>2. CASE Begins(d, i)
  <2>1. id = CallId(d, i) /\ CallId(d, i).name = CallOf(d, i).name
    BY <1>2, CallsAreTyped DEF Begins
  <2>2. CASE Records("TaskScheduled", CallId(d, i)) /\ Misses(d, i)
    <3>1. NothingJudged(CallId(d, i))
      BY <2>2, MissesAreOpen
    <3> QED BY <1>1, <2>1, <2>2, <3>1
  <2>3. CASE Records("TimerCreated", CallId(d, i)) /\ CallOf(d, i).name = "sleep"
    <3>1. NothingJudged(CallId(d, i))
      BY <1>0, <2>1, <2>3, SleepsAreNotJudged
    <3> QED BY <1>1, <2>1, <2>3, <3>1
  <2> QED BY <1>2, <2>2, <2>3 DEF Begins
<1>3. CASE GoesOn(d, i)
  <2> DEFINE x == Member(d, i).id
  <2>1. id = x
    BY <1>3 DEF GoesOn
  <2>2. ASSUME Member(d, i).at \in Live PROVE NothingJudged(x)
    BY <1>0, <2>2 DEF LiveOK
  <2>3. ASSUME Member(d, i).at = "body" PROVE Spent(x) + 1 <= Retries[x.name] + drives
    BY <1>0, <2>3 DEF LiveOK, Live
  <2>4. ASSUME Member(d, i).at = "waiting" PROVE NothingJudged(x)
    BY <1>0, <2>4, SleepsAreNotJudged DEF MemberOK
  <2>5. CASE Records("TaskAttemptStarted", x) /\ Member(d, i).at = "attempt"
    BY <1>1, <2>1, <2>2, <2>5 DEF Live
  <2>6. CASE Records("TaskCompleted", x) /\ Member(d, i).at = "body"
    BY <1>1, <2>1, <2>2, <2>6 DEF Live
  <2>7. CASE Records("TaskAttemptFailed", x) /\ Member(d, i).at = "body"
    BY <1>1, <2>1, <2>2, <2>3, <2>7 DEF Live
  <2>8. CASE Records("TaskFailed", x) /\ Member(d, i).at = "spent"
    BY <1>1, <2>1, <2>2, <2>8 DEF Live
  <2>9. CASE Records("WorkflowWaiting", x) /\ Member(d, i).at = "waiting"
    BY <1>1, <2>1, <2>4, <2>9
  <2> QED BY <1>3, <2>5, <2>6, <2>7, <2>8, <2>9 DEF GoesOn
<1> QED BY <1>2, <1>3

\* A call that neither moves nor is recorded of keeps what is known of it.
LEMMA LiveStays ==
  ASSUME FanTypes, NEW d \in Driver, NEW k \in Members(d), LiveOK(d, k),
         Member(d, k)' = Member(d, k), drives' = drives,
         \/ UNCHANGED journal
         \/ \E e \in Fact : journal' = Append(journal, e) /\ e.id # Member(d, k).id
  PROVE  LiveOK(d, k)'
<1>1. PICK m : m = Member(d, k)
  OBVIOUS
<1>2. Member(d, k)' = m
  BY <1>1
<1>3. NothingJudged(m.id) => NothingJudged(m.id)'
  BY <1>1, JudgedGrows DEF NothingJudged
<1>4. Spent(m.id)' = Spent(m.id)
  <2>1. CASE UNCHANGED journal
    BY <2>1 DEF Spent, Failures
  <2>2. CASE \E e \in Fact : journal' = Append(journal, e) /\ e.id # m.id
    BY <2>2, SpentGrows
  <2> QED BY <1>1, <2>1, <2>2
<1> QED BY <1>1, <1>2, <1>3, <1>4 DEF LiveOK

LEMMA BeginnerIsLive ==
  ASSUME KeysApart, FanTypes, NEW d \in Driver, NEW i \in Members(d), FanOK(d),
         MemberMoves(d, i), Begins(d, i)
  PROVE  LiveOK(d, i)'
<1>1. PICK m : m = frame'[d].members[i]
  OBVIOUS
<1>2. Member(d, i)' = m /\ drives' = drives
  BY <1>1 DEF Member, MemberMoves
<1>3. CASE m.at # "attempt"
  <2>1. m.at \notin Live
    BY <1>1, <1>3 DEF Begins, Live
  <2> QED BY <1>2, <2>1 DEF LiveOK
<1>4. CASE m.at = "attempt"
  <2>1. PICK id : id = CallId(d, i)
    OBVIOUS
  <2>2. /\ Misses(d, i) /\ m.id = id /\ m.failures = PriorFailures(d, id)
        /\ UNCHANGED journal \/ Records("TaskScheduled", id)
    BY <1>1, <1>4, <2>1 DEF Begins
  <2>3. id \in TaskId /\ NothingJudged(id) /\ Spent(id) = PriorFailures(d, id)
    BY <2>1, <2>2, MissesAreOpen
  <2>4. Spent(id) + 1 <= Retries[id.name] + drives
    BY <2>3 DEF FanOK, LoadedWithin
  <2>5. NothingJudged(id)' /\ Spent(id)' = Spent(id)
    <3>1. CASE UNCHANGED journal
      BY <2>3, <3>1 DEF NothingJudged, Spent, Failures
    <3>2. CASE Records("TaskScheduled", id)
      <4>1. PICK e \in Fact : e.type = "TaskScheduled" /\ journal' = Append(journal, e)
        BY <3>2 DEF Records
      <4>2. NothingJudged(id)'
        BY <2>3, <4>1, JudgedGrows DEF Verdict
      <4>3. Spent(id)' = Spent(id)
        BY <4>1, SpentGrows
      <4> QED BY <4>2, <4>3
    <3> QED BY <2>2, <3>1, <3>2
  <2> QED BY <1>2, <2>2, <2>3, <2>4, <2>5 DEF LiveOK
<1> QED BY <1>3, <1>4

LEMMA GoerIsLive ==
  ASSUME FanTypes, NEW d \in Driver, NEW i \in Members(d), FanOK(d), drives >= 1,
         MemberMoves(d, i), GoesOn(d, i)
  PROVE  LiveOK(d, i)'
<1>1. PICK m : m = frame'[d].members[i]
  OBVIOUS
<1>2. Member(d, i)' = m /\ drives' = drives
  BY <1>1 DEF Member, MemberMoves
<1>3. PICK id : id = Member(d, i).id
  OBVIOUS
<1>4. m.id = id /\ LiveOK(d, i)
  BY <1>1, <1>3 DEF GoesOn, FanOK
<1>5. ASSUME NEW type, Records(type, id), type \notin Verdict, NothingJudged(id)
      PROVE  NothingJudged(id)' /\ Spent(id) \in Nat
             /\ Spent(id)' = IF type = "TaskAttemptFailed" THEN Spent(id) + 1 ELSE Spent(id)
  <2>1. PICK e \in Fact : e.type = type /\ e.id = id /\ journal' = Append(journal, e)
    BY <1>5 DEF Records
  <2>2. NothingJudged(id)'
    BY <1>5, <2>1, JudgedGrows
  <2>3. Spent(id) \in Nat /\ Spent(id)' = IF type = "TaskAttemptFailed" THEN Spent(id) + 1 ELSE Spent(id)
    BY <2>1, SpentGrows
  <2> QED BY <2>2, <2>3
<1>6. CASE m.at = "done"
  BY <1>2, <1>6 DEF LiveOK, Live
<1>7. ASSUME Member(d, i).at = "attempt", m.at = "body" PROVE LiveOK(d, i)'
  <2>1. Records("TaskAttemptStarted", id) /\ m.failures = Member(d, i).failures
    BY <1>1, <1>3, <1>7 DEF GoesOn
  <2>2. NothingJudged(id) /\ m.failures = Spent(id) /\ Spent(id) + 1 <= Retries[id.name] + drives
    BY <1>3, <1>4, <1>7, <2>1 DEF LiveOK, Live
  <2>3. NothingJudged(id)' /\ Spent(id)' = Spent(id)
    BY <1>5, <2>1, <2>2 DEF Verdict
  <2> QED BY <1>2, <1>4, <2>2, <2>3 DEF LiveOK
<1>8. ASSUME Member(d, i).at = "body", m.at \in {"backoff", "spent"} PROVE LiveOK(d, i)'
  <2>1. NothingJudged(id) /\ Member(d, i).failures = Spent(id)
    BY <1>3, <1>4, <1>8 DEF LiveOK, Live
  <2>2. Records("TaskAttemptFailed", id)
    BY <1>1, <1>3, <1>8 DEF GoesOn
  <2>3. NothingJudged(id)' /\ Spent(id) \in Nat /\ Spent(id)' = Spent(id) + 1
    BY <1>5, <2>1, <2>2 DEF Verdict
  <2>4. CASE m.at = "spent"
    BY <1>2, <1>4, <2>3, <2>4 DEF LiveOK
  <2>5. ASSUME m.at = "backoff" PROVE m.failures = Spent(id)' /\ Spent(id)' + 1 <= Retries[id.name] + drives
    <3>1. RetriesLeft(d, i) /\ m.failures = Member(d, i).failures + 1
      BY <1>1, <1>8, <2>5 DEF GoesOn
    <3>2. Spent(id) + 1 <= Retries[id.name]
      BY <1>3, <2>1, <3>1 DEF RetriesLeft
    <3>3. Retries[id.name] \in Nat /\ drives \in Nat
      <4>1. Member(d, i).id.name = CallOf(d, i).name /\ CallOf(d, i).name \in Task
        BY <1>8 DEF FanTypes, FrameOK, MemberOK
      <4> QED BY <1>3, <4>1, RetriesAreNatural DEF FanTypes
    <3>4. m.failures = Spent(id)'
      BY <2>1, <2>3, <3>1
    <3>5. PICK s \in Nat : s = Spent(id)
      BY <2>3
    <3>6. s + 1 + 1 <= Retries[id.name] + drives
      BY <3>2, <3>3, <3>5
    <3> QED BY <2>3, <3>4, <3>5, <3>6
  <2> QED BY <1>2, <1>4, <1>8, <2>3, <2>4, <2>5 DEF LiveOK
<1>9. ASSUME Member(d, i).at = "backoff", m.at = "attempt" PROVE LiveOK(d, i)'
  <2>1. UNCHANGED journal /\ m.failures = Member(d, i).failures
    BY <1>1, <1>9 DEF GoesOn
  <2>2. NothingJudged(id) /\ m.failures = Spent(id) /\ Spent(id) + 1 <= Retries[id.name] + drives
    BY <1>3, <1>4, <1>9, <2>1 DEF LiveOK, Live
  <2>3. NothingJudged(id)' /\ Spent(id)' = Spent(id)
    BY <2>1, <2>2 DEF NothingJudged, Spent, Failures
  <2> QED BY <1>2, <1>4, <2>2, <2>3 DEF LiveOK
<1> QED BY <1>1, <1>6, <1>7, <1>8, <1>9 DEF GoesOn

\* What a drive knows of its calls stays true as they move.
LEMMA MemberKeepsFanOK ==
  ASSUME KeysApart, FanTypes, NEW d \in Driver, NEW i \in Members(d), FanOK(d), drives >= 1, Grows,
         MemberMoves(d, i), Begins(d, i) \/ GoesOn(d, i)
  PROVE  FanOK(d)'
<1>0. /\ frame'[d].loaded = frame[d].loaded /\ Members(d)' = Members(d) /\ drives' = drives
      /\ \A k \in Members(d) \ {i} : Member(d, k)' = Member(d, k)
  BY DEF MemberMoves, Members, Member
<1>1. KnowsFailures(d)'
  <2>1. frame[d].failed \subseteq frame'[d].failed
    BY DEF Begins, GoesOn
  <2> QED BY <1>0, <2>1, PrefixStays DEF FanOK, KnowsFailures
<1>2. LoadedWithin(d)'
  BY <1>0, PrefixStays DEF FanOK, LoadedWithin
<1>3. NewsAreBegun(d)'
  <2> SUFFICES ASSUME NEW k \in 1..Len(journal'), k > frame[d].loaded, journal'[k].id.name \in Task
               PROVE  Begun(d, journal[k].id)'
    BY <1>0 DEF NewsAreBegun
  <2>1. PICK x : x = journal'[k].id
    OBVIOUS
  <2>2. CASE k \in 1..Len(journal)
    <3>1. journal'[k] = journal[k] /\ x.name \in Name
      BY <2>1, <2>2, GrowthIsTyped DEF Name
    <3>2. Begun(d, x)
      BY <2>1, <2>2, <3>1 DEF FanOK, NewsAreBegun
    <3>3. Begun(d, x)'
      BY <3>1, <3>2, BegunStays
    <3> QED BY <2>1, <3>3
  <2>3. CASE k \notin 1..Len(journal)
    <3>1. k = Len(journal) + 1 /\ Len(journal') = k /\ Len(journal) \in Nat
      BY <2>3, GrowthIsTyped
    <3>2. PICK e \in Fact : journal' = Append(journal, e) /\ e.id = frame'[d].members[i].id
      BY <3>1, StepRecords
    <3>3. journal'[k] = e
      BY <3>1, <3>2 DEF FanTypes
    <3>4. Member(d, i)'.id = x /\ Member(d, i)'.at # "new" /\ i \in Members(d)'
      BY <1>0, <2>1, <3>2, <3>3, MoverIsApart DEF Member
    <3>5. Begun(d, x)'
      BY <3>4 DEF Begun
    <3> QED BY <2>1, <3>5
  <2> QED BY <2>2, <2>3
<1>4. MembersAreApart(d)'
  <2> SUFFICES ASSUME NEW k \in Members(d), NEW n \in Members(d), Member(d, k)'.at # "new",
                      Member(d, n)'.at # "new", Member(d, k)'.id = Member(d, n)'.id, k # n
               PROVE  FALSE
    BY <1>0 DEF MembersAreApart
  <2>1. CASE k # i /\ n # i
    BY <1>0, <2>1 DEF FanOK, MembersAreApart
  <2>2. CASE k = i
    BY <1>0, <2>2, MoverIsApart DEF Member
  <2>3. CASE n = i
    BY <1>0, <2>3, MoverIsApart DEF Member
  <2> QED BY <2>1, <2>2, <2>3
<1>5. ASSUME NEW k \in Members(d), k # i PROVE LiveOK(d, k)'
  <2>1. LiveOK(d, k)
    BY DEF FanOK
  <2>2. CASE Member(d, k).at = "new"
    BY <1>0, <1>5, <2>2 DEF LiveOK, Live
  <2>3. CASE Member(d, k).at # "new"
    <3>1. Member(d, k).id # frame'[d].members[i].id
      BY <1>5, <2>3, MoverIsApart
    <3>2. \/ UNCHANGED journal
          \/ \E e \in Fact : journal' = Append(journal, e) /\ e.id # Member(d, k).id
      BY <3>1, StepRecords
    <3> QED BY <1>0, <1>5, <2>1, <3>2, LiveStays
  <2> QED BY <2>2, <2>3
<1>6. LiveOK(d, i)'
  BY BeginnerIsLive, GoerIsLive
<1>7. \A k \in Members(d)' : LiveOK(d, k)'
  BY <1>0, <1>5, <1>6
<1> QED BY <1>1, <1>2, <1>3, <1>4, <1>7 DEF FanOK

\* Nothing, or an event that is not of a task, is recorded.
Quiet ==
  \/ UNCHANGED journal
  \/ \E e \in Fact : journal' = Append(journal, e) /\ e.id.name \notin Task

LEMMA QuietKeeps ==
  ASSUME FanTypes, VerdictIsLast, Quiet
  PROVE  VerdictIsLast' /\ \A id \in TaskId : Spent(id) \in Nat /\ Spent(id)' = Spent(id)
<1>1. CASE UNCHANGED journal
  <2>1. VerdictIsLast' /\ \A id : Spent(id)' = Spent(id)
    BY <1>1 DEF VerdictIsLast, Spent, Failures
  <2>2. \A id : Spent(id) \in Nat
    BY FailuresAreCounted DEF Spent, FanTypes
  <2> QED BY <2>1, <2>2
<1>2. ASSUME NEW e \in Fact, journal' = Append(journal, e), e.id.name \notin Task
      PROVE  VerdictIsLast' /\ \A id \in TaskId : Spent(id) \in Nat /\ Spent(id)' = Spent(id)
  <2>1. VerdictIsLast'
    BY <1>2, SleepsAreNotJudged, JudgedGrows
  <2>2. ASSUME NEW id \in TaskId PROVE Spent(id) \in Nat /\ Spent(id)' = Spent(id)
    <3>1. e.id # id
      BY <1>2 DEF TaskId
    <3> QED BY <1>2, <3>1, SpentGrows
  <2> QED BY <2>1, <2>2
<1> QED BY <1>1, <1>2 DEF Quiet

LEMMA QuietKeepsFanOK ==
  ASSUME FanTypes, NEW d \in Driver, FanOK(d), Grows, Quiet, frame'[d] = frame[d], UNCHANGED <<code, drives>>
  PROVE  FanOK(d)'
<1>0. Members(d)' = Members(d) /\ \A k \in Members(d) : Member(d, k)' = Member(d, k)
  BY DEF Members, Member
<1>1. KnowsFailures(d)'
  BY PrefixStays DEF FanOK, KnowsFailures
<1>2. LoadedWithin(d)'
  BY PrefixStays DEF FanOK, LoadedWithin
<1>3. NewsAreBegun(d)'
  <2> SUFFICES ASSUME NEW k \in 1..Len(journal'), k > frame[d].loaded, journal'[k].id.name \in Task
               PROVE  Begun(d, journal[k].id)'
    BY DEF NewsAreBegun
  <2>1. PICK x : x = journal'[k].id
    OBVIOUS
  <2>2. k \in 1..Len(journal)
    <3> SUFFICES ASSUME k \notin 1..Len(journal) PROVE FALSE
      OBVIOUS
    <3>1. k = Len(journal) + 1 /\ Len(journal') = k /\ Len(journal) \in Nat
      BY GrowthIsTyped
    <3>2. PICK e \in Fact : journal' = Append(journal, e) /\ e.id.name \notin Task
      BY <3>1 DEF Quiet
    <3>3. journal'[k] = e
      BY <3>1, <3>2 DEF FanTypes
    <3> QED BY <3>2, <3>3
  <2>3. journal'[k] = journal[k]
    BY <2>2, GrowthIsTyped
  <2>4. Begun(d, x)
    BY <2>1, <2>2, <2>3 DEF FanOK, NewsAreBegun
  <2>5. Begun(d, x)'
    BY <1>0, <2>4 DEF Begun
  <2> QED BY <2>1, <2>5
<1>4. MembersAreApart(d)'
  BY <1>0 DEF FanOK, MembersAreApart
<1>5. ASSUME NEW k \in Members(d) PROVE LiveOK(d, k)'
  <2>1. CASE Member(d, k).at \in Live
    <3>1. Member(d, k).id.name \in Task
      BY <2>1 DEF FanTypes, FrameOK, MemberOK, Live
    <3>2. \/ UNCHANGED journal
          \/ \E e \in Fact : journal' = Append(journal, e) /\ e.id # Member(d, k).id
      BY <3>1 DEF Quiet
    <3>3. LiveOK(d, k) /\ drives' = drives
      BY DEF FanOK
    <3> QED BY <1>0, <3>2, <3>3, LiveStays
  <2>2. CASE Member(d, k).at \notin Live
    BY <1>0, <2>2 DEF LiveOK
  <2> QED BY <2>1, <2>2
<1> QED BY <1>0, <1>1, <1>2, <1>3, <1>4, <1>5 DEF FanOK

\* The members of the fan-out that is over count among those the drive has begun.
LEMMA RejoinKeepsFanOK ==
  ASSUME FanTypes, NEW d \in Driver, FanOK(d), Over(d), NEW o \in Seq(OutcomeType), Rejoin(d, o)
  PROVE  FanOK(d)'
<1>0. UNCHANGED <<journal, code, drives>> /\ Grows
  BY DEF Rejoin, Grows
<1>1. /\ frame'[d].loaded = frame[d].loaded /\ frame'[d].failed = frame[d].failed
      /\ frame'[d].ordinals = frame[d].ordinals /\ frame'[d].seen = Append(frame[d].seen, o)
      /\ \A k \in Members(d)' : Member(d, k)'.at = "new"
  BY RejoinFrame DEF Members, Member, NewMember
<1>2. KnowsFailures(d)' /\ LoadedWithin(d)'
  BY <1>0, <1>1, PrefixStays DEF FanOK, KnowsFailures, LoadedWithin
<1>3. MembersAreApart(d)' /\ \A k \in Members(d)' : LiveOK(d, k)'
  BY <1>1 DEF MembersAreApart, LiveOK, Live
<1>4. frame[d].seen \in Seq(Seq(OutcomeType)) /\ Len(frame[d].seen) \in Nat
  BY DEF FanTypes, FrameType
<1>5. Len(frame'[d].seen) = Len(frame[d].seen) + 1
  BY <1>1, <1>4
<1>6. ASSUME NEW x, Begun(d, x) PROVE Begun(d, x)'
  <2>1. CASE x.ord \in Nat /\ x.ord < frame[d].ordinals[x.name]
    BY <1>1, <2>1 DEF Begun
  <2>2. ASSUME NEW r \in 1..Len(frame[d].seen), NEW k \in DOMAIN Plan[code][r].calls,
               Plan[code][r].calls[k].key # NoKey,
               x.name = Plan[code][r].calls[k].name, x.ord = Plan[code][r].calls[k].key
        PROVE  Begun(d, x)'
    <3>1. r \in 1..Len(frame'[d].seen)
      BY <1>4, <1>5
    <3> QED BY <1>0, <2>2, <3>1 DEF Begun
  <2>3. ASSUME NEW k \in Members(d), Member(d, k).at # "new", Member(d, k).id = x
        PROVE  Begun(d, x)'
    <3>1. MemberOK(d, k)
      BY DEF FanTypes, FrameOK
    <3>2. CASE CallOf(d, k).key = NoKey
      <4>1. x.ord \in Nat /\ x.ord < frame[d].ordinals[x.name]
        BY <2>3, <3>1, <3>2 DEF MemberOK
      <4> QED BY <1>1, <4>1 DEF Begun
    <3>3. CASE CallOf(d, k).key # NoKey
      <4>1. x.name = CallOf(d, k).name /\ x.ord = CallOf(d, k).key /\ k \in DOMAIN CurrentRound(d).calls
        BY <2>3, <3>1, <3>3 DEF MemberOK
      <4>2. PICK r : r = Len(frame[d].seen) + 1
        OBVIOUS
      <4>3. r \in 1..Len(frame'[d].seen)
        BY <1>4, <1>5, <4>2
      <4>4. /\ k \in DOMAIN Plan[code][r].calls /\ Plan[code][r].calls[k].key # NoKey
            /\ x.name = Plan[code][r].calls[k].name /\ x.ord = Plan[code][r].calls[k].key
        BY <3>3, <4>1, <4>2 DEF CallOf, CurrentRound
      <4> QED BY <1>0, <4>3, <4>4 DEF Begun
    <3> QED BY <3>2, <3>3
  <2> QED BY <1>6, <2>1, <2>2, <2>3 DEF Begun
<1>7. NewsAreBegun(d)'
  <2> SUFFICES ASSUME NEW k \in 1..Len(journal), k > frame[d].loaded, journal[k].id.name \in Task
               PROVE  Begun(d, journal[k].id)'
    BY <1>0, <1>1 DEF NewsAreBegun
  <2>1. PICK x : x = journal[k].id
    OBVIOUS
  <2>2. Begun(d, x)'
    BY <1>6, <2>1 DEF FanOK, NewsAreBegun
  <2> QED BY <1>0, <2>1, <2>2
<1> QED BY <1>2, <1>3, <1>7 DEF FanOK

\* A drive that loads knows all there is.
LEMMA LoadMakesFanOK ==
  ASSUME FanTypes, NEW d \in Driver, DriveLoad(d),
         \A id \in TaskId : Spent(id) + 1 <= Retries[id.name] + drives
  PROVE  FanOK(d)'
<1>0. UNCHANGED <<journal, code, drives>> /\ Len(journal) \in Nat
  BY DEF DriveLoad, FanTypes
<1>1. /\ frame'[d].loaded = Len(journal) /\ frame'[d].failed = IdsOf("TaskFailed")
      /\ \A k \in Members(d)' : Member(d, k)'.at = "new"
  BY LoadFrame DEF Members, Member, NewMember
<1>2. DOMAIN journal = 1..Len(journal)
  BY DEF FanTypes
<1>3. KnowsFailures(d)'
  BY <1>0, <1>1, <1>2 DEF KnowsFailures, IdsOf
<1>4. LoadedWithin(d)'
  BY <1>0, <1>1 DEF LoadedWithin, PriorFailures, Spent
<1>5. NewsAreBegun(d)'
  BY <1>0, <1>1 DEF NewsAreBegun
<1>6. MembersAreApart(d)' /\ \A k \in Members(d)' : LiveOK(d, k)'
  BY <1>1 DEF MembersAreApart, LiveOK, Live
<1> QED BY <1>3, <1>4, <1>5, <1>6 DEF FanOK

LEMMA CallStepDurable ==
  ASSUME KeysApart, OneDriver, FanTypes, DurableInv, NEW d \in Driver, NEW i \in Members(d), CallStep(d, i)
  PROVE  DurableInv'
<1>1. MemberMoves(d, i) /\ (Begins(d, i) \/ GoesOn(d, i)) /\ Grows
  BY CallStepMoves
<1>2. pc[d] \in {"fan", "drain"}
  BY CallStepKinds DEF BeginStep, GoOnStep, Refuse, ReuseResult, ReuseFailure, RefuseEffect, Schedule,
     SleepOver, CreateTimer, Misses, CallBegins, MayBegin, StartAttempt, Complete, FailAttempt, Backoff,
     RecordFailure, RecordWaiting, Holds
<1>3. FanOK(d) /\ drives >= 1 /\ pc'[d] = pc[d] /\ drives' = drives
  BY <1>1, <1>2 DEF DurableInv, DriveOK, MemberMoves
<1>4. FanOK(d)'
  BY <1>1, <1>3, MemberKeepsFanOK
<1>5. \A e \in Driver : DriveOK(e)'
  <2>1. DriveOK(d)'
    BY <1>2, <1>3, <1>4 DEF DriveOK
  <2> QED BY <2>1 DEF OneDriver
<1>6. CASE UNCHANGED journal
  BY <1>3, <1>5, <1>6 DEF DurableInv, VerdictIsLast, BudgetOK, Spent, Failures
<1>7. ASSUME NEW e \in Fact, journal' = Append(journal, e), NothingJudged(e.id),
             e.type = "TaskAttemptFailed" => Spent(e.id) + 1 <= Retries[e.id.name] + drives
      PROVE  VerdictIsLast' /\ BudgetOK'
  <2>1. VerdictIsLast'
    BY <1>7, JudgedGrows DEF DurableInv
  <2>2. \A id \in TaskId : Spent(id)' <= Retries[id.name] + drives
    BY <1>7, SpentGrows DEF DurableInv, BudgetOK
  <2> QED BY <1>3, <2>1, <2>2 DEF BudgetOK
<1> QED BY <1>1, <1>3, <1>5, <1>6, <1>7, StepRecords DEF DurableInv

\* A step in which nothing is recorded of a task, and no drive is added.
LEMMA QuietDurable ==
  ASSUME FanTypes, DurableInv, Quiet, drives' = drives, \A d \in Driver : DriveOK(d)'
  PROVE  DurableInv'
<1>1. VerdictIsLast' /\ \A id \in TaskId : Spent(id)' = Spent(id)
  BY QuietKeeps DEF DurableInv
<1> QED BY <1>1 DEF DurableInv, BudgetOK

LEMMA RunEventsAreQuiet ==
  ASSUME NEW type \in {"WorkflowCompleted", "WorkflowFailed"}, Commit(type, NoId, 0, "none")
  PROVE  Quiet
<1>1. NoId \in Identity /\ NoId.name \notin Task
  BY NamesAreApart DEF Identity
<1>2. Records(type, NoId)
  BY <1>1, EntriesAreFacts DEF EventType, Slot
<1> QED BY <1>1, <1>2 DEF Quiet, Records

LEMMA DriveStepDurable ==
  ASSUME KeysApart, OneDriver, FanTypes, DurableInv, NEW d \in Driver, DriveStep(d) \/ Redrive(d)
  PROVE  DurableInv'
<1>0. DriveOK(d) /\ pc \in [Driver -> Pcs] /\ drives \in Nat
  BY DEF DurableInv, FanTypes, Pcs
<1>1. ASSUME NEW i \in Members(d), CallStep(d, i) PROVE DurableInv'
  BY <1>1, CallStepDurable
<1>2. ASSUME Quiet, drives' = drives, DriveOK(d)' PROVE DurableInv'
  <2>1. \A e \in Driver : DriveOK(e)'
    BY <1>2 DEF OneDriver
  <2> QED BY <1>2, <2>1, QuietDurable
<1>3. ASSUME Over(d), pc[d] \in {"fan", "drain"}, NEW o \in Seq(OutcomeType), Rejoin(d, o) PROVE DurableInv'
  <2>1. UNCHANGED <<journal, drives>> /\ pc'[d] = "fan"
    BY <1>0, <1>3 DEF Rejoin
  <2>2. FanOK(d)'
    BY <1>0, <1>3, RejoinKeepsFanOK DEF DriveOK
  <2>3. DriveOK(d)'
    BY <1>0, <1>3, <2>1, <2>2 DEF DriveOK
  <2> QED BY <1>2, <2>1, <2>3 DEF Quiet
<1>4. CASE ReturnAll(d)
  BY <1>3, <1>4, OutcomesAreTyped DEF ReturnAll, Fans
<1>5. CASE RaiseInside(d)
  <2>1. FirstRaised(d) \in Members(d)
    BY <1>5, FirstRaisedIsMember DEF RaiseInside, Raises, Fans, FanTypes, FrameOK
  <2>2. PICK x \in OutcomeType : x = Outcome(d, FirstRaised(d))
    BY <2>1, OutcomesAreTyped
  <2>3. <<x>> \in Seq(OutcomeType)
    OBVIOUS
  <2>4. Over(d) /\ pc[d] = "drain" /\ Rejoin(d, <<x>>)
    BY <1>5, <2>2 DEF RaiseInside, Raises, Drained, Fans
  <2> QED BY <1>3, <2>3, <2>4
<1>6. CASE Abort(d) \/ RaisePark(d) \/ DriveTerminal(d) \/ SettleStatus(d)
  <2>1. UNCHANGED <<journal, drives>> /\ pc'[d] = "idle"
    BY <1>0, <1>6 DEF Abort, RaisePark, DriveTerminal, SettleStatus, Release
  <2>2. DriveOK(d)'
    BY <2>1 DEF DriveOK
  <2> QED BY <1>2, <2>1, <2>2 DEF Quiet
<1>7. CASE RaiseFailure(d) \/ Return(d)
  <2>1. Quiet /\ drives' = drives /\ pc'[d] = "settle" /\ pc[d] # "idle"
    BY <1>0, <1>7, RunEventsAreQuiet DEF RaiseFailure, Return, Raises, Fans
  <2>2. DriveOK(d)'
    BY <1>0, <2>1 DEF DriveOK
  <2> QED BY <1>2, <2>1, <2>2
<1>8. CASE Notice(d)
  <2>1. UNCHANGED <<journal, drives, code, frame>> /\ pc'[d] = "drain" /\ pc[d] = "fan"
    BY <1>0, <1>8 DEF Notice, Fans
  <2>2. FanOK(d)'
    BY <1>0, <2>1, QuietKeepsFanOK DEF DriveOK, Quiet, Grows
  <2>3. DriveOK(d)'
    BY <1>0, <2>1, <2>2 DEF DriveOK
  <2> QED BY <1>2, <2>1, <2>3 DEF Quiet
<1>9. CASE DriveLoad(d)
  <2>1. UNCHANGED <<journal, drives>> /\ pc'[d] = "fan" /\ pc[d] = "drive"
    BY <1>0, <1>9 DEF DriveLoad
  <2>2. FanOK(d)'
    BY <1>0, <1>9, <2>1, LoadMakesFanOK DEF DriveOK
  <2>3. DriveOK(d)'
    BY <1>0, <2>1, <2>2 DEF DriveOK
  <2> QED BY <1>2, <2>1, <2>3 DEF Quiet
<1>10. CASE Redrive(d)
  <2>1. UNCHANGED journal /\ drives' = drives + 1 /\ pc'[d] = "drive"
    BY <1>0, <1>10 DEF Redrive
  <2>2. /\ VerdictIsLast'
        /\ \A id \in TaskId : Spent(id) \in Nat /\ Spent(id)' = Spent(id) /\ Spent(id) <= Retries[id.name] + drives
    BY <2>1, QuietKeeps DEF Quiet, DurableInv, BudgetOK
  <2>3. \A id \in TaskId : Retries[id.name] \in Nat
    BY RetriesAreNatural DEF TaskId
  <2>4. \A id \in TaskId : Spent(id)' + 1 <= Retries[id.name] + drives'
    BY <1>0, <2>1, <2>2, <2>3
  <2>5. BudgetOK'
    BY <1>0, <2>1, <2>2, <2>3 DEF BudgetOK
  <2>6. DriveOK(d)'
    BY <1>0, <2>1, <2>4 DEF DriveOK
  <2> QED BY <2>2, <2>5, <2>6 DEF DurableInv, OneDriver
<1> QED BY <1>1, <1>4, <1>5, <1>6, <1>7, <1>8, <1>9, <1>10 DEF DriveStep

\* A timer fires, or nothing happens.
LEMMA StillDurable ==
  ASSUME FanTypes, DurableInv, Grows, Quiet, UNCHANGED <<pc, code, drives, frame>>
  PROVE  DurableInv'
<1>1. ASSUME NEW d \in Driver PROVE DriveOK(d)'
  <2>1. DriveOK(d)
    BY DEF DurableInv
  <2>2. pc[d] \in {"fan", "drain"} => FanOK(d)'
    BY <2>1, QuietKeepsFanOK DEF DriveOK
  <2>3. \A id \in TaskId : Spent(id)' = Spent(id)
    BY QuietKeeps DEF DurableInv
  <2> QED BY <2>1, <2>2, <2>3 DEF DriveOK
<1> QED BY <1>1, QuietDurable

LEMMA FireTimerIsQuiet ==
  ASSUME FanTypes, NEW id \in IdsOf("TimerCreated"), FireTimer(id)
  PROVE  Quiet
<1>1. id.name = "sleep"
  BY FireTimerGrows
<1>2. id \in Identity
  <2>1. \A k \in DOMAIN journal : journal[k] \in Fact
    BY DEF FanTypes
  <2> QED BY <2>1 DEF IdsOf, Fact
<1>3. Records("TimerFired", id)
  BY <1>2, EntriesAreFacts DEF FireTimer, EventType, Slot
<1>4. \E e \in Fact : journal' = Append(journal, e) /\ e.id = id
  BY <1>3 DEF Records
<1> QED BY <1>1, <1>4, NamesAreApart DEF Quiet

LEMMA NextDurable ==
  ASSUME KeysApart, OneDriver, FanTypes, DurableInv, [Next]_vars
  PROVE  DurableInv'
<1>1. CASE UNCHANGED vars
  BY <1>1, StillDurable DEF vars, Grows, Quiet
<1>2. ASSUME NEW id \in IdsOf("TimerCreated"), FireTimer(id) PROVE DurableInv'
  <2>1. Grows /\ id.name = "sleep" /\ UNCHANGED <<pc, code, drives, frame>>
    BY <1>2, FireTimerGrows
  <2>2. Quiet
    BY <1>2, FireTimerIsQuiet
  <2> QED BY <2>1, <2>2, StillDurable
<1>3. CASE Crash
  <2>1. UNCHANGED <<journal, drives>> /\ \A d \in Driver : pc'[d] = "idle"
    BY <1>3 DEF Crash
  <2>2. \A d \in Driver : DriveOK(d)'
    BY <2>1 DEF DriveOK
  <2> QED BY <2>1, <2>2, QuietDurable DEF Quiet
<1> QED BY <1>1, <1>2, <1>3, DriveStepDurable DEF Next

LEMMA InitDurable == Init => DurableInv
<1> SUFFICES ASSUME Init PROVE DurableInv
  OBVIOUS
<1>1. journal = <<>> /\ drives = 0 /\ \A d \in Driver : pc[d] = "idle"
  BY DEF Init
<1>2. VerdictIsLast
  BY <1>1 DEF VerdictIsLast
<1>3. BudgetOK
  <2> SUFFICES ASSUME NEW id \in TaskId PROVE Spent(id) <= Retries[id.name] + drives
    BY DEF BudgetOK
  <2>1. {k \in 1..Len(journal) : journal[k].type = "TaskAttemptFailed" /\ journal[k].id = id} = {}
    BY <1>1
  <2>2. Spent(id) = 0
    BY <2>1, FS_EmptySet DEF Spent, Failures
  <2>3. Retries[id.name] \in Nat
    BY RetriesAreNatural DEF TaskId
  <2> QED BY <1>1, <2>2, <2>3
<1> QED BY <1>1, <1>2, <1>3 DEF DurableInv, DriveOK

LEMMA BudgetMeansBudget == FanTypes /\ BudgetOK => BudgetHolds
<1> SUFFICES ASSUME FanTypes, BudgetOK, NEW id \in TaskIds
             PROVE  Failures(journal, Len(journal), id) <= Retries[id.name] + drives
  BY DEF BudgetHolds
<1>1. id \in Identity /\ id.name \in Task
  <2>1. \A k \in DOMAIN journal : journal[k] \in Fact
    BY DEF FanTypes
  <2> QED BY <2>1 DEF TaskIds, Fact
<1>2. id \in TaskId
  BY <1>1, NamesAreApart DEF Identity, TaskId
<1> QED BY <1>2 DEF BudgetOK, Spent

\* When one task at a time drives the run, no two of its maps share a key, and its
\* gathers collect tasks: a verdict ends its call for good, no call fails more often
\* than its retries allow for the drives there were, and the workflow is handed
\* nothing that is not recorded; whatever the fan-outs, the interleaving of their
\* members, the crashes and the code deployed between them.
THEOREM VerdictsAreDurableHolds ==
  ASSUME OneDriver, KeysApart, CollectTasks
  PROVE  Spec => []VerdictsAreDurable
<1>1. Init => FanTypes /\ RecordedInv /\ DurableInv
  BY InitTypes, InitRecorded, InitDurable
<1>2. FanTypes /\ RecordedInv /\ DurableInv /\ [Next]_vars => (FanTypes /\ RecordedInv /\ DurableInv)'
  BY NextTypes, NextRecorded, NextDurable
<1>3. FanTypes /\ RecordedInv /\ DurableInv => VerdictsAreDurable
  BY RecordedMeansExplained, BudgetMeansBudget DEF RecordedInv, DurableInv, VerdictsAreDurable
<1> QED BY <1>1, <1>2, <1>3, PTL DEF Spec

-----------------------------------------------------------------------------
(* A replay issues the calls in the order in which they were scheduled       *)

\* no call behind one that effect safety refuses takes a position in its fan-out
RefusedAreLast ==
  \A v \in Version : \A r \in DOMAIN Plan[v] : \A i, k \in DOMAIN Plan[v][r].calls :
    LET calls == Plan[v][r].calls IN
    TakesPosition(calls[i]) /\ calls[i].name \in Unsafe[v] /\ TakesPosition(calls[k]) => k <= i

\* the calls of the workflow that take a position: the fan-out, and the argument
Positions(v) ==
  UNION {{<<r, i>> : i \in {k \in DOMAIN Plan[v][r].calls : TakesPosition(Plan[v][r].calls[k])}} :
         r \in DOMAIN Plan[v]}
Before(p, q) == p[1] < q[1] \/ (p[1] = q[1] /\ p[2] < q[2])
Ahead(v, q) == {p \in Positions(v) : Before(p, q)}

TaskOf(v, q) == Plan[v][q[1]].calls[q[2]].name
OfTask(v, Q, t) == {q \in Q : TaskOf(v, q) = t}
\* the identity the resolver gives the call at q
IdAt(v, q) == [name |-> TaskOf(v, q), ord |-> Cardinality(OfTask(v, Ahead(v, q), TaskOf(v, q)))]

\* what is scheduled is scheduled once, in the order of the workflow
InOrder(j, v) ==
  /\ \A k \in ScheduleOrder(j, Len(j)) : \E q \in Positions(v) : j[k].id = IdAt(v, q)
  /\ \A k \in ScheduleOrder(j, Len(j)) : \A p, q \in Positions(v) :
       j[k].id = IdAt(v, q) /\ Before(p, q) =>
         \E l \in ScheduleOrder(j, Len(j)) : l < k /\ j[l].id = IdAt(v, p)
  /\ \A k, l \in ScheduleOrder(j, Len(j)) : j[k].id = j[l].id => k = l

\* a task is scheduled before anything else is recorded of it
TasksAreScheduled ==
  \A k \in 1..Len(journal) : journal[k].id.name \in Task => journal[k].id \in IdsOf("TaskScheduled")

\* the places of the calls a drive has issued
Passed(d) ==
  {q \in Positions(code) :
     \/ q[1] <= Len(frame[d].seen)
     \/ q[1] = Len(frame[d].seen) + 1 /\ q[2] \in Members(d) /\ Member(d, q[2]).at # "new"}

\* the calls a drive has issued are scheduled, but for one that was refused
PassedOK(d) ==
  \A q \in Passed(d) :
    \/ IdAt(code, q) \in IdsOf("TaskScheduled")
    \/ /\ q[1] = Len(frame[d].seen) + 1 /\ Member(d, q[2]).slot = "unsafe"
       /\ TaskOf(code, q) \in Unsafe[code]

RoundIsWhole(d) == InRound(d) => Members(d) = DOMAIN CurrentRound(d).calls

\* nothing without a key is left to begin, or was refused, once the others settle
DrainIsWhole(d) ==
  pc[d] = "drain" => \A i \in Members(d) :
    CallOf(d, i).key = NoKey => Member(d, i).at # "new" /\ Member(d, i).slot \notin Propagating

ReplayOK(d) ==
  /\ frame[d].scheduled = IdsOf("TaskScheduled")
  /\ frame[d].issued = Cardinality(Passed(d))
  /\ \A t \in Task : frame[d].ordinals[t] = Cardinality(OfTask(code, Passed(d), t))
  /\ PassedOK(d) /\ RoundIsWhole(d) /\ DrainIsWhole(d)
  /\ \A i \in Members(d) : Member(d, i).at # "new" => \A k \in 1..(i - 1) : Member(d, k).at # "new"
  /\ \A i \in Members(d) : Member(d, i).at \in {"attempt", "body", "backoff", "spent"} =>
       Member(d, i).id \in IdsOf("TaskScheduled")

OrderInv ==
  ~mixed => /\ InOrder(journal, code) /\ TasksAreScheduled
            /\ \A d \in Driver : ~Has(d, {"diverged"})
            /\ \A d \in Driver : pc[d] \in {"fan", "drain"} => ReplayOK(d)

LEMMA PositionFacts ==
  ASSUME NEW v \in Version
  PROVE  /\ \A q \in Positions(v) :
              /\ q = <<q[1], q[2]>> /\ q[1] \in DOMAIN Plan[v] /\ q[1] \in Nat
              /\ q[2] \in DOMAIN Plan[v][q[1]].calls /\ q[2] \in Nat
              /\ TakesPosition(Plan[v][q[1]].calls[q[2]])
              /\ TaskOf(v, q) \in Task
         /\ \A r \in DOMAIN Plan[v] : \A i \in DOMAIN Plan[v][r].calls :
              TakesPosition(Plan[v][r].calls[i]) => <<r, i>> \in Positions(v)
<1>0. Plan[v] \in Seq(Round)
  BY PlansAreRounds
<1>1. \A r \in DOMAIN Plan[v] : r \in Nat /\ Plan[v][r] \in Round
  BY <1>0
<1>2. \A r \in DOMAIN Plan[v] : Plan[v][r].calls \in Seq(Call)
  BY <1>1 DEF Round
<1>3. \A r \in DOMAIN Plan[v] : \A i \in DOMAIN Plan[v][r].calls : i \in Nat /\ Plan[v][r].calls[i] \in Call
  BY <1>2
<1>4. ASSUME NEW q \in Positions(v)
      PROVE  /\ q = <<q[1], q[2]>> /\ q[1] \in DOMAIN Plan[v] /\ q[2] \in DOMAIN Plan[v][q[1]].calls
             /\ TakesPosition(Plan[v][q[1]].calls[q[2]])
  <2>1. PICK r \in DOMAIN Plan[v] : \E i \in DOMAIN Plan[v][r].calls :
          TakesPosition(Plan[v][r].calls[i]) /\ q = <<r, i>>
    BY DEF Positions
  <2> QED BY <2>1
<1>5. ASSUME NEW q \in Positions(v) PROVE TaskOf(v, q) \in Task
  BY <1>3, <1>4 DEF TaskOf, TakesPosition, Call
<1>6. \A r \in DOMAIN Plan[v] : \A i \in DOMAIN Plan[v][r].calls :
              TakesPosition(Plan[v][r].calls[i]) => <<r, i>> \in Positions(v)
  BY DEF Positions
<1> QED BY <1>1, <1>3, <1>4, <1>5, <1>6

LEMMA PositionsAreFinite ==
  ASSUME NEW v \in Version
  PROVE  IsFiniteSet(Positions(v))
<1> DEFINE row(r) == {<<r, i>> : i \in {k \in DOMAIN Plan[v][r].calls : TakesPosition(Plan[v][r].calls[k])}}
           rows == {row(r) : r \in DOMAIN Plan[v]}
<1>0. Plan[v] \in Seq(Round)
  BY PlansAreRounds
<1>1. IsFiniteSet(DOMAIN Plan[v]) /\ \A r \in DOMAIN Plan[v] : Plan[v][r].calls \in Seq(Call)
  <2>1. Len(Plan[v]) \in Nat /\ DOMAIN Plan[v] = 1..Len(Plan[v]) /\ 1 \in Int /\ Len(Plan[v]) \in Int
    BY <1>0
  <2>2. IsFiniteSet(DOMAIN Plan[v])
    BY <2>1, FS_Interval
  <2>3. \A r \in DOMAIN Plan[v] : Plan[v][r] \in Round
    BY <1>0
  <2> QED BY <2>2, <2>3 DEF Round
<1>2. ASSUME NEW r \in DOMAIN Plan[v] PROVE IsFiniteSet(row(r))
  <2> DEFINE K == {k \in DOMAIN Plan[v][r].calls : TakesPosition(Plan[v][r].calls[k])}
             f == [k \in K |-> <<r, k>>]
  <2>1. /\ DOMAIN Plan[v][r].calls = 1..Len(Plan[v][r].calls) /\ Len(Plan[v][r].calls) \in Nat
    BY <1>1
  <2>2. IsFiniteSet(K)
    BY <2>1, FinitePositions
  <2>3. f \in Surjection(K, row(r))
    BY DEF Surjection
  <2> HIDE DEF f, K, row
  <2> QED BY <2>2, <2>3, FS_Surjection
<1>3. IsFiniteSet(rows)
  <2> DEFINE f == [r \in DOMAIN Plan[v] |-> row(r)]
  <2>1. f \in Surjection(DOMAIN Plan[v], rows)
    <3> HIDE DEF row
    <3> QED BY DEF Surjection
  <2> HIDE DEF f, rows
  <2> QED BY <1>1, <2>1, FS_Surjection
<1>4. \A x \in rows : IsFiniteSet(x)
  BY <1>2
<1>5. Positions(v) = UNION rows
  BY DEF Positions
<1> HIDE DEF rows, row
<1> QED BY <1>3, <1>4, <1>5, FS_UNION

\* The calls of the workflow come one after the other.
LEMMA BeforeIsTotal ==
  ASSUME NEW v \in Version, NEW p \in Positions(v), NEW q \in Positions(v)
  PROVE  /\ Before(p, q) \/ Before(q, p) \/ p = q
         /\ ~(Before(p, q) /\ Before(q, p)) /\ ~Before(p, p)
         /\ \A o \in Positions(v) : Before(o, p) /\ Before(p, q) => Before(o, q)
<1>1. /\ p = <<p[1], p[2]>> /\ p[1] \in Nat /\ p[2] \in Nat
      /\ q = <<q[1], q[2]>> /\ q[1] \in Nat /\ q[2] \in Nat
      /\ \A o \in Positions(v) : o[1] \in Nat /\ o[2] \in Nat
  BY PositionFacts
<1> QED BY <1>1 DEF Before

\* Of two calls the later has more calls ahead of it.
LEMMA MoreAhead ==
  ASSUME NEW v \in Version, NEW p \in Positions(v), NEW q \in Positions(v), Before(p, q)
  PROVE  /\ Cardinality(Ahead(v, p)) \in Nat /\ Cardinality(Ahead(v, q)) \in Nat
         /\ Cardinality(Ahead(v, p)) < Cardinality(Ahead(v, q))
         /\ TaskOf(v, p) = TaskOf(v, q) =>
              Cardinality(OfTask(v, Ahead(v, p), TaskOf(v, p))) < Cardinality(OfTask(v, Ahead(v, q), TaskOf(v, q)))
<1> DEFINE t == TaskOf(v, p)
<1>1. IsFiniteSet(Positions(v))
  BY PositionsAreFinite
<1>2. Ahead(v, p) \subseteq Ahead(v, q) /\ p \in Ahead(v, q) /\ p \notin Ahead(v, p)
  BY BeforeIsTotal DEF Ahead
<1>3. Ahead(v, q) \subseteq Positions(v)
  BY DEF Ahead
<1>4. IsFiniteSet(Ahead(v, p)) /\ IsFiniteSet(Ahead(v, q))
  BY <1>1, <1>2, <1>3, FS_Subset
<1>5. ASSUME NEW A, NEW B, IsFiniteSet(B), A \subseteq B, p \in B, p \notin A
      PROVE  Cardinality(A) \in Nat /\ Cardinality(B) \in Nat /\ Cardinality(A) < Cardinality(B)
  <2>1. IsFiniteSet(A) /\ Cardinality(A) <= Cardinality(B) /\ (Cardinality(A) = Cardinality(B) => A = B)
    BY <1>5, FS_Subset
  <2>2. Cardinality(A) # Cardinality(B)
    BY <1>5, <2>1
  <2> QED BY <1>5, <2>1, <2>2, FS_CardinalityType
<1>6. Cardinality(Ahead(v, p)) \in Nat /\ Cardinality(Ahead(v, q)) \in Nat /\ Cardinality(Ahead(v, p)) < Cardinality(Ahead(v, q))
  BY <1>2, <1>4, <1>5
<1>7. ASSUME TaskOf(v, p) = TaskOf(v, q)
      PROVE  Cardinality(OfTask(v, Ahead(v, p), t)) < Cardinality(OfTask(v, Ahead(v, q), t))
  <2>1. /\ OfTask(v, Ahead(v, p), t) \subseteq OfTask(v, Ahead(v, q), t)
        /\ p \in OfTask(v, Ahead(v, q), t) /\ p \notin OfTask(v, Ahead(v, p), t)
        /\ OfTask(v, Ahead(v, q), t) \subseteq Ahead(v, q)
    BY <1>2 DEF OfTask
  <2>2. IsFiniteSet(OfTask(v, Ahead(v, q), t))
    BY <1>4, <2>1, FS_Subset
  <2> QED BY <1>5, <2>1, <2>2
<1> QED BY <1>6, <1>7

\* No two calls have the same identity, or the same number of calls ahead of them.
LEMMA PositionsAreApart ==
  ASSUME NEW v \in Version, NEW p \in Positions(v), NEW q \in Positions(v),
         IdAt(v, p) = IdAt(v, q) \/ Cardinality(Ahead(v, p)) = Cardinality(Ahead(v, q))
  PROVE  p = q
<1>1. ASSUME NEW x \in Positions(v), NEW y \in Positions(v), Before(x, y)
      PROVE  IdAt(v, x) # IdAt(v, y) /\ Cardinality(Ahead(v, x)) # Cardinality(Ahead(v, y))
  <2>1. Cardinality(Ahead(v, x)) # Cardinality(Ahead(v, y))
    BY <1>1, MoreAhead
  <2>2. ASSUME IdAt(v, x) = IdAt(v, y) PROVE FALSE
    <3>1. /\ TaskOf(v, x) = TaskOf(v, y)
          /\ Cardinality(OfTask(v, Ahead(v, x), TaskOf(v, x))) = Cardinality(OfTask(v, Ahead(v, y), TaskOf(v, y)))
      BY <2>2 DEF IdAt
    <3>2. IsFiniteSet(OfTask(v, Ahead(v, x), TaskOf(v, x)))
      <4>1. OfTask(v, Ahead(v, x), TaskOf(v, x)) \subseteq Positions(v)
        BY DEF OfTask, Ahead
      <4> QED BY <4>1, PositionsAreFinite, FS_Subset
    <3>3. Cardinality(OfTask(v, Ahead(v, x), TaskOf(v, x))) \in Nat
      BY <3>2, FS_CardinalityType
    <3> QED BY <1>1, <3>1, <3>3, MoreAhead
  <2> QED BY <2>1, <2>2
<1> QED BY <1>1, BeforeIsTotal


\* The identity of a call is an ordinal: it is in the order of the schedules.
LEMMA OrdinalsAreNumbers ==
  ASSUME NEW v \in Version, NEW q \in Positions(v)
  PROVE  /\ IdAt(v, q).name = TaskOf(v, q) /\ IdAt(v, q).ord \in Nat /\ IdAt(v, q).ord \notin Key
         /\ IsFiniteSet(Ahead(v, q)) /\ Ahead(v, q) \subseteq Positions(v)
<1>1. /\ OfTask(v, Ahead(v, q), TaskOf(v, q)) \subseteq Positions(v)
      /\ Ahead(v, q) \subseteq Positions(v)
  BY DEF OfTask, Ahead
<1>2. IsFiniteSet(OfTask(v, Ahead(v, q), TaskOf(v, q))) /\ IsFiniteSet(Ahead(v, q))
  BY <1>1, PositionsAreFinite, FS_Subset
<1>3. Cardinality(OfTask(v, Ahead(v, q), TaskOf(v, q))) \in Nat
  BY <1>2, FS_CardinalityType
<1> QED BY <1>1, <1>2, <1>3, NamesAreApart DEF IdAt

\* A schedule in the order of the workflow has as many schedules ahead of it as its call
\* has calls.
LEMMA PlaceInOrder ==
  ASSUME NEW v \in Version, NEW j, Len(j) \in Nat, InOrder(j, v),
         NEW k \in ScheduleOrder(j, Len(j)), NEW q \in Positions(v), j[k].id = IdAt(v, q)
  PROVE  Cardinality(ScheduleOrder(j, k - 1)) = Cardinality(Ahead(v, q))
<1> DEFINE A == ScheduleOrder(j, k - 1)
           B == Ahead(v, q)
           f == [l \in Nat |-> j[l].id]
           g == [p \in Positions(v) |-> IdAt(v, p)]
<1>1. k \in Nat /\ k \in 1..Len(j) /\ k - 1 \in Nat /\ A \subseteq 1..(k - 1) /\ A \subseteq Nat
  BY DEF ScheduleOrder
<1>2. A = {l \in ScheduleOrder(j, Len(j)) : l < k}
  BY <1>1 DEF ScheduleOrder
<1>3. IsFiniteSet(A) /\ IsFiniteSet(B) /\ B \subseteq Positions(v)
  BY <1>1, FinitePositions, OrdinalsAreNumbers
<1>4. \A a \in A : f[a] = j[a].id
  BY <1>1
<1>5. \A b \in B : g[b] = IdAt(v, b)
  BY <1>3
<1>6. ASSUME NEW a \in A PROVE \E b \in B : f[a] = g[b]
  <2>1. a \in ScheduleOrder(j, Len(j)) /\ a < k /\ a \in Nat
    BY <1>1, <1>2
  <2>2. PICK p \in Positions(v) : j[a].id = IdAt(v, p)
    BY <2>1 DEF InOrder
  <2>3. p # q
    BY <1>1, <2>1, <2>2 DEF InOrder
  <2>4. ~Before(q, p)
    <3> SUFFICES ASSUME Before(q, p) PROVE FALSE
      OBVIOUS
    <3>1. PICK l \in ScheduleOrder(j, Len(j)) : l < a /\ j[l].id = IdAt(v, q)
      BY <2>1, <2>2 DEF InOrder
    <3>2. l = k
      BY <3>1 DEF InOrder
    <3> QED BY <1>1, <2>1, <3>1, <3>2
  <2>5. p \in B
    BY <2>3, <2>4, BeforeIsTotal DEF Ahead
  <2> HIDE DEF A, B, f, g
  <2> QED BY <1>4, <1>5, <2>2, <2>5
<1>7. ASSUME NEW b \in B PROVE \E a \in A : f[a] = g[b]
  <2>1. b \in Positions(v) /\ Before(b, q)
    BY DEF Ahead
  <2>2. PICK l \in ScheduleOrder(j, Len(j)) : l < k /\ j[l].id = IdAt(v, b)
    BY <2>1 DEF InOrder
  <2>3. l \in A
    BY <1>2, <2>2
  <2> HIDE DEF A, B, f, g
  <2> QED BY <1>4, <1>5, <2>2, <2>3
<1>8. \A a, c \in A : f[a] = f[c] => a = c
  <2>1. \A a, c \in A : j[a].id = j[c].id => a = c
    BY <1>2 DEF InOrder
  <2> HIDE DEF A, f
  <2> QED BY <1>4, <2>1
<1>9. \A b, c \in B : g[b] = g[c] => b = c
  <2> HIDE DEF B, g
  <2> QED BY <1>3, <1>5, PositionsAreApart
<1>10. SameMarks(A, B, f, g)
  <2> HIDE DEF A, B, f, g
  <2> QED BY <1>6, <1>7, <1>8, <1>9 DEF SameMarks
<1> HIDE DEF A, B, f, g
<1>11. Cardinality(A) = Cardinality(B)
  BY <1>3, <1>10, EquallyMany
<1> QED BY <1>11 DEF A, B

\* One more schedule, of the next call, keeps the order; other events do not touch it.
LEMMA OrderGrows ==
  ASSUME NEW v \in Version, NEW j, Len(j) \in Nat, InOrder(j, v),
         NEW h, Len(h) = Len(j) + 1, \A k \in 1..Len(j) : h[k] = j[k],
         h[Len(h)].type = "TaskScheduled" /\ h[Len(h)].id.ord \notin Key =>
           \E q \in Positions(v) :
             /\ h[Len(h)].id = IdAt(v, q)
             /\ \A p \in Ahead(v, q) : \E l \in ScheduleOrder(j, Len(j)) : j[l].id = IdAt(v, p)
             /\ \A l \in ScheduleOrder(j, Len(j)) : j[l].id # IdAt(v, q)
  PROVE  InOrder(h, v)
<1> DEFINE n == Len(h)
           S == ScheduleOrder(j, Len(j))
           T == ScheduleOrder(h, n)
<1>1. S \subseteq T /\ S \subseteq 1..Len(j) /\ T \subseteq S \cup {n} /\ n \in Nat /\ n \notin S
  BY DEF ScheduleOrder
<1>2. \A k \in S : h[k].id = j[k].id /\ k \in Nat /\ k < n
  BY <1>1
<1>3. n \in T => h[n].type = "TaskScheduled" /\ h[n].id.ord \notin Key
  BY DEF ScheduleOrder
<1>4. \A k \in T : k \in S \/ k = n
  BY <1>1
<1>5. /\ \A k \in S : \E q \in Positions(v) : j[k].id = IdAt(v, q)
      /\ \A k \in S : \A p, q \in Positions(v) :
           j[k].id = IdAt(v, q) /\ Before(p, q) => \E l \in S : l < k /\ j[l].id = IdAt(v, p)
      /\ \A k, l \in S : j[k].id = j[l].id => k = l
  BY DEF InOrder
<1> HIDE DEF S, T, n
<1>6. ASSUME n \in T
      PROVE  \E q \in Positions(v) :
               /\ h[n].id = IdAt(v, q)
               /\ \A p \in Ahead(v, q) : \E l \in S : j[l].id = IdAt(v, p)
               /\ \A l \in S : j[l].id # IdAt(v, q)
  BY <1>3, <1>6 DEF n, S
<1>7. ASSUME NEW k \in T PROVE \E q \in Positions(v) : h[k].id = IdAt(v, q)
  BY <1>2, <1>4, <1>5, <1>6
<1>8. ASSUME NEW k \in T, NEW p \in Positions(v), NEW q \in Positions(v), h[k].id = IdAt(v, q), Before(p, q)
      PROVE  \E l \in T : l < k /\ h[l].id = IdAt(v, p)
  <2>1. CASE k \in S
    <3>1. PICK l \in S : l < k /\ j[l].id = IdAt(v, p)
      BY <1>2, <1>5, <1>8, <2>1
    <3> QED BY <1>1, <1>2, <3>1
  <2>2. CASE k = n
    <3>1. PICK o \in Positions(v) : /\ h[n].id = IdAt(v, o)
                                    /\ \A x \in Ahead(v, o) : \E l \in S : j[l].id = IdAt(v, x)
      BY <1>6, <2>2
    <3>2. o = q
      BY <1>8, <2>2, <3>1, PositionsAreApart
    <3>3. p \in Ahead(v, o)
      BY <1>8, <3>2 DEF Ahead
    <3>4. PICK l \in S : j[l].id = IdAt(v, p)
      BY <3>1, <3>3
    <3> QED BY <1>1, <1>2, <2>2, <3>4
  <2> QED BY <1>4, <2>1, <2>2
<1>9. ASSUME NEW k \in T, NEW l \in T, h[k].id = h[l].id PROVE k = l
  BY <1>2, <1>4, <1>5, <1>6, <1>9
<1> QED BY <1>7, <1>8, <1>9 DEF InOrder, T, n


\* The call a drive is about to issue is the one behind all those it has issued, and
\* takes the identity of its place.
LEMMA NextInLine ==
  ASSUME FanTypes, NEW d \in Driver, NEW i \in Members(d), MayBegin(d, i), ReplayOK(d),
         TakesPosition(CallOf(d, i)), NEW q, q = <<Len(frame[d].seen) + 1, i>>
  PROVE  /\ q \in Positions(code) /\ TaskOf(code, q) = CallOf(d, i).name /\ q[1] = Len(frame[d].seen) + 1 /\ q[2] = i
         /\ Passed(d) = Ahead(code, q) /\ CallId(d, i) = IdAt(code, q)
         /\ frame[d].issued = Cardinality(Ahead(code, q))
<1> DEFINE n == Len(frame[d].seen) + 1
<1>1. /\ code \in Version /\ Len(frame[d].seen) \in Nat /\ n \in Nat /\ MemberOK(d, i)
      /\ Members(d) = DOMAIN CurrentRound(d).calls /\ i \in DOMAIN CurrentRound(d).calls
  <2>1. frame[d] \in FrameType /\ MemberOK(d, i) /\ code \in Version
    BY DEF FanTypes, FrameOK
  <2> QED BY <2>1 DEF FrameType, MemberOK, ReplayOK, RoundIsWhole
<1>2. n \in DOMAIN Plan[code] /\ CurrentRound(d) = Plan[code][n]
  BY <1>1 DEF MemberOK, InRound, CurrentRound
<1>3. q[1] = n /\ q[2] = i /\ q \in Positions(code) /\ TaskOf(code, q) = CallOf(d, i).name
  BY <1>1, <1>2, PositionFacts DEF CallOf, TaskOf
<1>4. i \in Nat /\ CallOf(d, i).name \in Task /\ CallOf(d, i).key = NoKey
  BY <1>3, <1>1, PositionFacts DEF TakesPosition
<1>5. /\ Member(d, i).at = "new"
      /\ \A k \in Members(d) : k < i /\ k \in Nat /\ k >= 1 => Member(d, k).at # "new"
      /\ \A k \in Members(d) : Member(d, k).at # "new" => \A l \in 1..(k - 1) : Member(d, l).at # "new"
  BY <1>4 DEF MayBegin, ReplayOK
<1>6. \A k \in Members(d) : k \in Nat /\ k >= 1
  BY DEF Members, FanTypes, FrameType
<1>7. ASSUME NEW p \in Positions(code) PROVE p \in Passed(d) <=> Before(p, q)
  <2>1. p[1] \in Nat /\ p[2] \in Nat /\ p[2] \in DOMAIN Plan[code][p[1]].calls
    BY <1>1, PositionFacts
  <2>2. CASE p[1] = n
    <3>1. p[2] \in Members(d)
      BY <1>1, <1>2, <2>1, <2>2
    <3>2. p \in Passed(d) <=> Member(d, p[2]).at # "new"
      BY <1>1, <2>1, <2>2, <3>1 DEF Passed
    <3>3. Member(d, p[2]).at # "new" <=> p[2] < i
      <4>1. ASSUME i < p[2], Member(d, p[2]).at # "new" PROVE FALSE
        <5>1. i \in 1..(p[2] - 1)
          BY <1>4, <1>6, <2>1, <4>1
        <5> QED BY <1>5, <3>1, <4>1, <5>1
      <4>2. p[2] < i => Member(d, p[2]).at # "new"
        BY <1>5, <1>6, <3>1
      <4>3. p[2] = i => Member(d, p[2]).at = "new"
        BY <1>5
      <4> QED BY <1>4, <2>1, <4>1, <4>2, <4>3
    <3> QED BY <1>1, <1>3, <2>1, <2>2, <3>2, <3>3 DEF Before
  <2>3. CASE p[1] # n
    BY <1>1, <1>3, <2>1, <2>3 DEF Passed, Before
  <2> QED BY <2>2, <2>3
<1>8. Passed(d) = Ahead(code, q)
  BY <1>7 DEF Passed, Ahead
<1>9. frame[d].ordinals[CallOf(d, i).name] = Cardinality(OfTask(code, Ahead(code, q), CallOf(d, i).name))
  BY <1>4, <1>8 DEF ReplayOK
<1>10. CallId(d, i) = IdAt(code, q)
  BY <1>3, <1>4, <1>9 DEF CallId, IdAt
<1> QED BY <1>3, <1>8, <1>10 DEF ReplayOK

\* So it does not diverge from what is recorded at its position.
LEMMA NoneDiverges ==
  ASSUME FanTypes, NEW d \in Driver, NEW i \in Members(d), MayBegin(d, i), ReplayOK(d), InOrder(journal, code)
  PROVE  ~Diverges(d, i)
<1> SUFFICES ASSUME Diverges(d, i) PROVE FALSE
  OBVIOUS
<1>1. PICK k \in ScheduleOrder(journal, frame[d].loaded) :
        /\ Cardinality(ScheduleOrder(journal, k - 1)) = frame[d].issued
        /\ journal[k].id.name # CallOf(d, i).name
  BY DEF Diverges
<1>2. PICK q : q = <<Len(frame[d].seen) + 1, i>>
  OBVIOUS
<1>3. /\ q \in Positions(code) /\ TaskOf(code, q) = CallOf(d, i).name
      /\ frame[d].issued = Cardinality(Ahead(code, q))
  BY <1>2, NextInLine DEF Diverges
<1>4. frame[d].loaded \in Nat /\ frame[d].loaded <= Len(journal) /\ Len(journal) \in Nat /\ code \in Version
  BY DEF FanTypes, FrameOK, FrameType
<1>5. k \in ScheduleOrder(journal, Len(journal))
  BY <1>4 DEF ScheduleOrder
<1>6. PICK p \in Positions(code) : journal[k].id = IdAt(code, p)
  BY <1>5 DEF InOrder
<1>7. Cardinality(ScheduleOrder(journal, k - 1)) = Cardinality(Ahead(code, p))
  BY <1>4, <1>5, <1>6, PlaceInOrder
<1>8. p = q
  BY <1>1, <1>3, <1>4, <1>7, PositionsAreApart
<1>9. journal[k].id.name = TaskOf(code, q)
  BY <1>4, <1>6, <1>8, OrdinalsAreNumbers
<1> QED BY <1>1, <1>3, <1>9

\* The calls ahead of one that may be scheduled are scheduled.
LEMMA AheadAreScheduled ==
  ASSUME RefusedAreLast, FanTypes, NEW d \in Driver, NEW i \in Members(d), MayBegin(d, i), ReplayOK(d),
         TakesPosition(CallOf(d, i)), NEW q, q = <<Len(frame[d].seen) + 1, i>>,
         NEW p \in Ahead(code, q)
  PROVE  \E l \in ScheduleOrder(journal, Len(journal)) : journal[l].id = IdAt(code, p)
<1>1. /\ q \in Positions(code) /\ q[1] = Len(frame[d].seen) + 1 /\ q[2] = i /\ Passed(d) = Ahead(code, q)
      /\ code \in Version
  BY NextInLine DEF FanTypes
<1>2. p \in Positions(code) /\ Before(p, q) /\ p \in Passed(d)
  BY <1>1 DEF Ahead
<1>3. IdAt(code, p) \in IdsOf("TaskScheduled")
  <2> SUFFICES ASSUME p[1] = Len(frame[d].seen) + 1, TaskOf(code, p) \in Unsafe[code] PROVE FALSE
    BY <1>2 DEF ReplayOK, PassedOK
  <2>1. /\ p[1] = q[1] /\ p[1] \in DOMAIN Plan[code] /\ p[1] \in Nat /\ p[2] \in Nat /\ q[2] \in Nat
        /\ p[2] \in DOMAIN Plan[code][p[1]].calls /\ TakesPosition(Plan[code][p[1]].calls[p[2]])
        /\ q[2] \in DOMAIN Plan[code][p[1]].calls /\ TakesPosition(Plan[code][p[1]].calls[q[2]])
    BY <1>1, <1>2, PositionFacts
  <2>2. p[2] < q[2]
    BY <1>2, <2>1 DEF Before
  <2>3. Plan[code][p[1]].calls[p[2]].name \in Unsafe[code]
    BY DEF TaskOf
  <2>4. q[2] <= p[2]
    BY <1>1, <2>1, <2>3 DEF RefusedAreLast
  <2> QED BY <2>1, <2>2, <2>4
<1>4. PICK l \in 1..Len(journal) : journal[l].type = "TaskScheduled" /\ journal[l].id = IdAt(code, p)
  BY <1>3 DEF IdsOf, FanTypes
<1>5. journal[l].id.ord \notin Key
  BY <1>1, <1>2, <1>4, OrdinalsAreNumbers
<1> QED BY <1>4, <1>5 DEF ScheduleOrder


\* a recorded result is a result
ResultsAreValues == \A k \in 1..Len(journal) : journal[k].type = "TaskCompleted" => journal[k].val \in Value

\* Only Complete records a result, and what it records is one.
LEMMA StepResults ==
  ASSUME FanTypes, NEW d \in Driver, NEW i \in Members(d), CallStep(d, i)
  PROVE  \/ UNCHANGED journal
         \/ \E e \in Fact : journal' = Append(journal, e) /\ (e.type = "TaskCompleted" => e.val \in Value)
<1> DEFINE Good == \E e \in Fact : journal' = Append(journal, e) /\ (e.type = "TaskCompleted" => e.val \in Value)
<1> SUFFICES UNCHANGED journal \/ Good
  OBVIOUS
<1>1. ASSUME NEW type, NEW id, Records(type, id), type # "TaskCompleted" PROVE Good
  BY <1>1 DEF Records
<1>2. ASSUME Complete(d, i) PROVE Good
  <2>1. PICK v \in Value : Commit("TaskCompleted", Member(d, i).id, 0, v)
    BY <1>2 DEF Complete
  <2> DEFINE e == Entry("TaskCompleted", Member(d, i).id, 0, v)
  <2>2. e \in Fact /\ e.val = v
    BY MembersAreTyped DEF Entry, Fact, EventType, Slot, MemberType
  <2>3. journal' = Append(journal, e)
    BY <2>1 DEF Commit
  <2> HIDE DEF e
  <2> QED BY <2>2, <2>3
<1>3. ASSUME FailAttempt(d, i) PROVE Good
  <2>1. PICK val \in {"retry", "last"} : Commit("TaskAttemptFailed", Member(d, i).id, Member(d, i).attempt, val)
    BY <1>3 DEF FailAttempt
  <2>2. Member(d, i).id \in Identity /\ Member(d, i).attempt \in Nat
    BY MembersAreTyped DEF MemberType
  <2>3. Records("TaskAttemptFailed", Member(d, i).id)
    BY <2>1, <2>2, EntriesAreFacts DEF EventType, Slot
  <2> HIDE DEF Good
  <2> QED BY <1>1, <2>3
<1> HIDE DEF Good
<1>4. CASE BeginStep(d, i)
  <2>1. Begins(d, i)
    BY <1>4, BeginStepBegins
  <2> QED BY <1>1, <2>1 DEF Begins
<1>5. CASE StartAttempt(d, i) \/ Backoff(d, i) \/ RecordFailure(d, i) \/ RecordWaiting(d, i)
  <2>1. GoesOn(d, i) /\ Member(d, i).at # "body"
    BY <1>5, GoOnStepGoesOn DEF GoOnStep, StartAttempt, Backoff, RecordFailure, RecordWaiting, Holds
  <2> QED BY <1>1, <2>1 DEF GoesOn
<1> QED BY <1>2, <1>3, <1>4, <1>5, CallStepKinds DEF GoOnStep

LEMMA ResultsGrow ==
  ASSUME FanTypes, ResultsAreValues, NEW e \in Fact, journal' = Append(journal, e),
         e.type = "TaskCompleted" => e.val \in Value
  PROVE  ResultsAreValues'
<1>1. /\ journal \in Seq(Fact) /\ Len(journal) \in Nat /\ Len(journal') = Len(journal) + 1
      /\ journal'[Len(journal) + 1] = e /\ \A k \in 1..Len(journal) : journal'[k] = journal[k]
  BY DEF FanTypes
<1>2. \A k \in 1..Len(journal') : k \in 1..Len(journal) \/ k = Len(journal) + 1
  BY <1>1
<1> QED BY <1>1, <1>2 DEF ResultsAreValues

\* Where the run's own events and the timers' are recorded, no task's is.
LEMMA QuietResults ==
  ASSUME FanTypes, ResultsAreValues, Quiet, Grows
  PROVE  ResultsAreValues'
<1>1. CASE UNCHANGED journal
  BY <1>1 DEF ResultsAreValues
<1>2. ASSUME NEW e \in Fact, journal' = Append(journal, e), e.id.name \notin Task PROVE ResultsAreValues'
  <2>1. FactOK(e)
    <3>1. journal'[Len(journal) + 1] = e /\ Len(journal) + 1 \in 1..Len(journal')
      BY <1>2 DEF FanTypes
    <3> QED BY <3>1, GrowthIsTyped
  <2> QED BY <1>2, <2>1, ResultsGrow DEF FactOK, TaskEvent
<1> QED BY <1>1, <1>2 DEF Quiet

\* A member that goes on is not refused.
LEMMA GoneOnIsNotRefused ==
  ASSUME FanTypes, ResultsAreValues, NEW d \in Driver, NEW i \in Members(d), GoOnStep(d, i)
  PROVE  /\ frame'[d].members[i].slot \notin Propagating
         /\ frame'[d].members[i].slot = "parked" => CallOf(d, i).name = "sleep"
<1> DEFINE m == frame'[d].members[i]
<1>0. MemberOK(d, i) /\ CallStep(d, i)
  BY DEF FanTypes, FrameOK, GoOnStep, CallStep
<1>1. CASE m.at # "done"
  <2>1. m.slot = Member(d, i).slot /\ Member(d, i).at # "done"
    BY <1>1, GoOnStepGoesOn DEF GoesOn
  <2> QED BY <1>0, <2>1 DEF MemberOK, Propagating
<1>2. CASE m.at = "done"
  <2>1. PICK o : o = [id |-> m.id, slot |-> m.slot]
    OBVIOUS
  <2>2. o.slot = m.slot
    BY <2>1
  <2>3. ASSUME NEW e \in Fact, journal' = Append(journal, e), Explains(e, o)
        PROVE  o.slot \notin Propagating /\ o.slot # "parked"
    <3>1. ResultsAreValues'
      <4>1. PICK x \in Fact : journal' = Append(journal, x) /\ (x.type = "TaskCompleted" => x.val \in Value)
        <5>1. journal' # journal
          BY <2>3 DEF FanTypes
        <5> QED BY <1>0, <5>1, StepResults
      <4> QED BY <4>1, ResultsGrow
    <3>2. journal'[Len(journal) + 1] = e /\ Len(journal) + 1 \in 1..Len(journal')
      BY <2>3 DEF FanTypes
    <3>3. e.type = "TaskCompleted" => e.val \in Value
      BY <3>1, <3>2 DEF ResultsAreValues
    <3> QED BY <2>3, <3>3, ResultsAreResults DEF Explains, Propagating
  <2>4. \/ \E e \in Fact : journal' = Append(journal, e) /\ Explains(e, o)
        \/ o.slot = "error"
        \/ o.slot = "parked" /\ Member(d, i).at = "waiting"
    BY <1>2, <2>1, <2>2, GoneOnIsSettled
  <2>5. Member(d, i).at = "waiting" => CallOf(d, i).name = "sleep"
    BY <1>0 DEF MemberOK
  <2> QED BY <2>2, <2>3, <2>4, <2>5 DEF Propagating
<1> QED BY <1>1, <1>2

\* A member that begins and does not diverge is of a scheduled call, or refused.
LEMMA BegunIsScheduled ==
  ASSUME FanTypes, ResultsAreValues, TasksAreScheduled, NEW d \in Driver, NEW i \in Members(d),
         frame[d].scheduled = IdsOf("TaskScheduled"), BeginStep(d, i), ~Refuse(d, i)
  PROVE  LET m == frame'[d].members[i]  id == CallId(d, i) IN
         /\ m.slot # "diverged" /\ m.slot # "parked"
         /\ m.slot = "unsafe" => CallOf(d, i).name \in Unsafe[code]
         /\ CallOf(d, i).name \in Task => \/ id \in IdsOf("TaskScheduled")'
                                          \/ m.slot = "unsafe" /\ CallOf(d, i).name \in Unsafe[code]
<1> DEFINE m == frame'[d].members[i]
           id == CallId(d, i)
<1>0. id.name = CallOf(d, i).name /\ DOMAIN journal = 1..Len(journal)
  BY CallsAreTyped DEF FanTypes
<1>1. ASSUME NEW slot \in Slot, MayBegin(d, i), Enter(d, i, Done(d, i, slot)), UNCHANGED <<journal, rest>>
      PROVE  m.slot = slot /\ UNCHANGED journal
  BY <1>1, QuickBegins
<1>2. ASSUME NEW k \in 1..Len(journal), journal[k].id = id, CallOf(d, i).name \in Task, UNCHANGED journal
      PROVE  id \in IdsOf("TaskScheduled")'
  <2>1. id \in IdsOf("TaskScheduled")
    BY <1>0, <1>2 DEF TasksAreScheduled
  <2> QED BY <1>2, <2>1 DEF IdsOf
<1>3. ASSUME ReuseResult(d, i) PROVE m.slot \in Value /\ UNCHANGED journal /\ \E k \in 1..Len(journal) : journal[k].id = id
  <2> DEFINE k == LatestIndex(journal, frame[d].loaded, "TaskCompleted", id)
             e == journal[k]
  <2>1. Loaded(d, "TaskCompleted", id) /\ MayBegin(d, i)
    BY <1>3 DEF ReuseResult, CallBegins
  <2>2. e.val \in Slot /\ k \in 1..Len(journal) /\ e.type = "TaskCompleted" /\ e.id = id
    BY <2>1, LoadedIsThere DEF Fact
  <2>3. Enter(d, i, Done(d, i, e.val)) /\ UNCHANGED <<journal, rest>>
    BY <1>3 DEF ReuseResult
  <2> HIDE DEF k
  <2>4. e.val \in Value
    BY <2>2 DEF ResultsAreValues
  <2>5. m.slot = e.val /\ UNCHANGED journal
    <3> HIDE DEF e
    <3> QED BY <1>1, <2>1, <2>2, <2>3
  <2> QED BY <2>2, <2>4, <2>5
<1>4. ASSUME ReuseFailure(d, i) PROVE m.slot = "error" /\ UNCHANGED journal /\ \E k \in 1..Len(journal) : journal[k].id = id
  <2>1. id \in frame[d].failed /\ UNCHANGED journal /\ m.slot = "error"
    BY <1>1, <1>4 DEF ReuseFailure, CallBegins, Slot, KnownFailure
  <2>2. id \in IdsOf("TaskFailed")
    BY <2>1 DEF FanTypes, FrameOK
  <2> QED BY <1>0, <2>1, <2>2 DEF IdsOf
<1>5. ASSUME RefuseEffect(d, i) PROVE m.slot = "unsafe" /\ CallOf(d, i).name \in Unsafe[code]
  BY <1>1, <1>5 DEF RefuseEffect, Misses, CallBegins, Slot
<1>6. ASSUME SleepOver(d, i) PROVE m.slot = "woke" /\ CallOf(d, i).name \notin Task
  BY <1>1, <1>6, NamesAreApart DEF SleepOver, Slot
<1>7. ASSUME Schedule(d, i) PROVE m.slot = "none" /\ id \in IdsOf("TaskScheduled")'
  <2>1. m.slot = "none" /\ Begins(d, i)
    BY <1>7, ScheduleBegins
  <2>2. (id \in frame[d].scheduled /\ UNCHANGED journal) \/ Records("TaskScheduled", id)
    <3>1. id \in Identity
      BY CallsAreTyped DEF Identity
    <3> QED BY <1>7, <3>1, EntriesAreFacts DEF Schedule, EventType, Slot
  <2>3. CASE id \in frame[d].scheduled /\ UNCHANGED journal
    BY <2>1, <2>3 DEF IdsOf
  <2>4. CASE Records("TaskScheduled", id)
    <3>1. PICK e \in Fact : e.type = "TaskScheduled" /\ e.id = id /\ journal' = Append(journal, e)
      BY <2>4 DEF Records
    <3>2. Len(journal) + 1 \in DOMAIN journal' /\ journal'[Len(journal) + 1] = e
      BY <3>1 DEF FanTypes
    <3> QED BY <2>1, <3>1, <3>2 DEF IdsOf
  <2> QED BY <2>2, <2>3, <2>4
<1>8. ASSUME CreateTimer(d, i) PROVE m.slot = "none" /\ CallOf(d, i).name \notin Task
  <2>1. Begins(d, i) /\ CallOf(d, i).name = "sleep" /\ Member(d, i).at = "new" /\ MemberOK(d, i)
    BY <1>8, CreateTimerBegins DEF CreateTimer, MayBegin, FanTypes, FrameOK
  <2>2. m = [[Member(d, i) EXCEPT !.at = "waiting"] EXCEPT !.id = id]
    BY <1>8 DEF CreateTimer, Enter, FanTypes, FrameType, Members
  <2>3. m.slot = Member(d, i).slot
    BY <2>2, MembersAreTyped DEF MemberType
  <2> QED BY <2>1, <2>3, NamesAreApart DEF MemberOK
<1>9. \A x \in Value : x # "diverged" /\ x # "unsafe" /\ x # "parked"
  BY ResultsAreResults
<1> QED BY <1>2, <1>3, <1>4, <1>5, <1>6, <1>7, <1>8, <1>9 DEF BeginStep


\* One more call issued is one more of its task.
LEMMA OneMorePassed ==
  ASSUME NEW v \in Version, NEW P \in SUBSET Positions(v), NEW q \in Positions(v), q \notin P
  PROVE  /\ Cardinality(P \cup {q}) = Cardinality(P) + 1
         /\ \A t : Cardinality(OfTask(v, P \cup {q}, t)) =
                     IF t = TaskOf(v, q) THEN Cardinality(OfTask(v, P, t)) + 1 ELSE Cardinality(OfTask(v, P, t))
<1>1. IsFiniteSet(P)
  BY PositionsAreFinite, FS_Subset
<1>2. Cardinality(P \cup {q}) = Cardinality(P) + 1
  BY <1>1, FS_AddElement
<1>3. ASSUME NEW t
      PROVE  Cardinality(OfTask(v, P \cup {q}, t)) =
               IF t = TaskOf(v, q) THEN Cardinality(OfTask(v, P, t)) + 1 ELSE Cardinality(OfTask(v, P, t))
  <2>1. OfTask(v, P, t) \subseteq P /\ q \notin OfTask(v, P, t)
    BY DEF OfTask
  <2>2. IsFiniteSet(OfTask(v, P, t))
    BY <1>1, <2>1, FS_Subset
  <2>3. CASE t = TaskOf(v, q)
    <3>1. OfTask(v, P \cup {q}, t) = OfTask(v, P, t) \cup {q}
      BY <2>3 DEF OfTask
    <3> QED BY <2>1, <2>2, <2>3, <3>1, FS_AddElement
  <2>4. CASE t # TaskOf(v, q)
    <3>1. OfTask(v, P \cup {q}, t) = OfTask(v, P, t)
      BY <2>4 DEF OfTask
    <3> QED BY <2>4, <3>1
  <2> QED BY <2>3, <2>4
<1> QED BY <1>2, <1>3

\* What one more event says of the identities recorded.
LEMMA IdsGrow ==
  ASSUME FanTypes, NEW e \in Fact, journal' = Append(journal, e), NEW t
  PROVE  IdsOf(t)' = IF t = e.type THEN IdsOf(t) \cup {e.id} ELSE IdsOf(t)
<1>1. /\ DOMAIN journal = 1..Len(journal) /\ Len(journal) \in Nat
      /\ DOMAIN journal' = 1..(Len(journal) + 1)
      /\ journal'[Len(journal) + 1] = e /\ \A k \in 1..Len(journal) : journal'[k] = journal[k]
  BY DEF FanTypes
<1>2. \A k \in DOMAIN journal' : k \in DOMAIN journal \/ k = Len(journal) + 1
  BY <1>1
<1> QED BY <1>1, <1>2 DEF IdsOf

\* What a member records is another event than a schedule, or the schedule of the call
\* it begins.
LEMMA StepSchedules ==
  ASSUME FanTypes, NEW d \in Driver, NEW i \in Members(d), ReplayOK(d), Begins(d, i) \/ GoesOn(d, i)
  PROVE  \/ UNCHANGED journal /\ frame'[d].scheduled = frame[d].scheduled
         \/ \E e \in Fact :
              /\ journal' = Append(journal, e) /\ frame'[d].scheduled = frame[d].scheduled
              /\ e.type # "TaskScheduled" /\ (e.id.name \in Task => e.id \in IdsOf("TaskScheduled"))
         \/ \E e \in Fact :
              /\ journal' = Append(journal, e) /\ e.type = "TaskScheduled" /\ e.id = CallId(d, i)
              /\ MayBegin(d, i) /\ CallOf(d, i).name \in Task
              /\ frame'[d].scheduled = frame[d].scheduled \cup {CallId(d, i)}
              /\ CallId(d, i) \notin IdsOf("TaskScheduled")
<1>0. MemberOK(d, i) /\ "sleep" \notin Task
  BY NamesAreApart DEF FanTypes, FrameOK
<1>1. CASE Begins(d, i)
  <2>1. CallId(d, i).name = CallOf(d, i).name /\ CallOf(d, i).name \in Name
    BY CallsAreTyped
  <2>2. CASE Records("TaskScheduled", CallId(d, i)) /\ Misses(d, i) /\ CallId(d, i) \notin frame[d].scheduled
             /\ frame'[d].scheduled = frame[d].scheduled \cup {CallId(d, i)}
    <3>1. CallOf(d, i).name \in Task /\ MayBegin(d, i)
      BY <2>1, <2>2 DEF Misses, CallBegins, Name
    <3> QED BY <2>2, <3>1 DEF Records, ReplayOK
  <2>3. CASE Records("TimerCreated", CallId(d, i)) /\ CallOf(d, i).name = "sleep"
             /\ frame'[d].scheduled = frame[d].scheduled
    BY <1>0, <2>1, <2>3 DEF Records
  <2>4. CASE UNCHANGED journal /\ frame'[d].scheduled = frame[d].scheduled \cup {CallId(d, i)}
             /\ CallId(d, i) \in frame[d].scheduled
    BY <2>4
  <2>5. CASE UNCHANGED journal /\ frame'[d].scheduled = frame[d].scheduled
    BY <2>5
  <2> QED BY <1>1, <2>2, <2>3, <2>4, <2>5 DEF Begins
<1>2. CASE GoesOn(d, i)
  <2> DEFINE id == Member(d, i).id
  <2>1. frame'[d].scheduled = frame[d].scheduled
    BY <1>2 DEF GoesOn
  <2>2. Member(d, i).at \in {"attempt", "body", "backoff", "spent"} => id \in IdsOf("TaskScheduled")
    BY DEF ReplayOK
  <2>3. Member(d, i).at = "waiting" => id.name \notin Task
    BY <1>0 DEF MemberOK
  <2>4. UNCHANGED journal \/ \E type \in EventType \ {"TaskScheduled"} :
          Records(type, id) /\ (id.name \in Task => id \in IdsOf("TaskScheduled"))
    BY <1>2, <2>2, <2>3 DEF GoesOn, EventType
  <2> QED BY <2>1, <2>4 DEF Records
<1> QED BY <1>1, <1>2

LEMMA StepKeepsOrder ==
  ASSUME RefusedAreLast, FanTypes, NEW d \in Driver, NEW i \in Members(d), ReplayOK(d),
         InOrder(journal, code), TasksAreScheduled, Begins(d, i) \/ GoesOn(d, i)
  PROVE  InOrder(journal', code) /\ TasksAreScheduled' /\ frame'[d].scheduled = IdsOf("TaskScheduled")'
<1>0. code \in Version /\ Len(journal) \in Nat /\ journal \in Seq(Fact) /\ frame[d].scheduled = IdsOf("TaskScheduled")
  BY DEF FanTypes, ReplayOK
<1>1. CASE UNCHANGED journal /\ frame'[d].scheduled = frame[d].scheduled
  BY <1>0, <1>1 DEF TasksAreScheduled, IdsOf
<1>2. ASSUME NEW e \in Fact, journal' = Append(journal, e),
             e.id.name \in Task => e.id \in IdsOf("TaskScheduled")'
      PROVE  TasksAreScheduled'
  <2>1. \A k \in 1..Len(journal') : (k \in 1..Len(journal) /\ journal'[k] = journal[k]) \/ journal'[k] = e
    BY <1>0, <1>2
  <2>2. IdsOf("TaskScheduled") \subseteq IdsOf("TaskScheduled")'
    BY <1>2, IdsGrow
  <2> QED BY <1>2, <2>1, <2>2 DEF TasksAreScheduled
<1>3. PICK h : h = journal'
  OBVIOUS
<1>4. ASSUME NEW e \in Fact, journal' = Append(journal, e), e.type # "TaskScheduled",
             frame'[d].scheduled = frame[d].scheduled,
             e.id.name \in Task => e.id \in IdsOf("TaskScheduled")
      PROVE  InOrder(h, code) /\ TasksAreScheduled' /\ frame'[d].scheduled = IdsOf("TaskScheduled")'
  <2>1. IdsOf("TaskScheduled")' = IdsOf("TaskScheduled")
    BY <1>4, IdsGrow
  <2>2. Len(h) = Len(journal) + 1 /\ h[Len(h)] = e /\ \A k \in 1..Len(journal) : h[k] = journal[k]
    BY <1>0, <1>3, <1>4
  <2>3. InOrder(h, code)
    BY <1>0, <1>4, <2>2, OrderGrows
  <2> QED BY <1>0, <1>2, <1>4, <2>1, <2>3
<1>5. ASSUME NEW e \in Fact, journal' = Append(journal, e), e.type = "TaskScheduled", e.id = CallId(d, i),
             MayBegin(d, i), CallOf(d, i).name \in Task,
             frame'[d].scheduled = frame[d].scheduled \cup {CallId(d, i)},
             CallId(d, i) \notin IdsOf("TaskScheduled")
      PROVE  InOrder(h, code) /\ TasksAreScheduled' /\ frame'[d].scheduled = IdsOf("TaskScheduled")'
  <2>1. IdsOf("TaskScheduled")' = IdsOf("TaskScheduled") \cup {e.id}
    BY <1>5, IdsGrow
  <2>2. Len(h) = Len(journal) + 1 /\ h[Len(h)] = e /\ \A k \in 1..Len(journal) : h[k] = journal[k]
    BY <1>0, <1>3, <1>5
  <2>3. \A l \in ScheduleOrder(journal, Len(journal)) : journal[l].id \in IdsOf("TaskScheduled")
    BY <1>0 DEF ScheduleOrder, IdsOf
  <2>4. ASSUME e.id.ord \in Key PROVE InOrder(h, code)
    BY <1>0, <2>2, <2>4, OrderGrows
  <2>5. ASSUME e.id.ord \notin Key PROVE InOrder(h, code)
    <3>1. CallOf(d, i).key = NoKey
      BY <1>5, <2>5, CallsAreTyped DEF CallId
    <3>2. TakesPosition(CallOf(d, i))
      BY <1>5, <3>1, NamesAreApart DEF TakesPosition
    <3>3. PICK q : q = <<Len(frame[d].seen) + 1, i>>
      OBVIOUS
    <3>4. q \in Positions(code) /\ e.id = IdAt(code, q)
      BY <1>5, <3>2, <3>3, NextInLine
    <3>5. \A p \in Ahead(code, q) : \E l \in ScheduleOrder(journal, Len(journal)) : journal[l].id = IdAt(code, p)
      BY <1>5, <3>2, <3>3, AheadAreScheduled
    <3>6. \A l \in ScheduleOrder(journal, Len(journal)) : journal[l].id # IdAt(code, q)
      BY <1>5, <2>3, <3>4
    <3> QED BY <1>0, <2>2, <3>4, <3>5, <3>6, OrderGrows
  <2>6. TasksAreScheduled'
    BY <1>2, <1>5, <2>1
  <2> QED BY <1>0, <1>5, <2>1, <2>4, <2>5, <2>6
<1> QED BY <1>1, <1>3, <1>4, <1>5, StepSchedules


\* The calls a drive has issued, after a member's step.
LEMMA StepPasses ==
  ASSUME FanTypes, NEW d \in Driver, NEW i \in Members(d), ReplayOK(d), MemberMoves(d, i),
         Begins(d, i) \/ GoesOn(d, i), NEW q, q = <<Len(frame[d].seen) + 1, i>>
  PROVE  /\ Begins(d, i) /\ TakesPosition(CallOf(d, i)) =>
              q \in Positions(code) /\ q \notin Passed(d) /\ Passed(d)' = Passed(d) \cup {q}
         /\ ~(Begins(d, i) /\ TakesPosition(CallOf(d, i))) => Passed(d)' = Passed(d)
<1> DEFINE n == Len(frame[d].seen) + 1
<1>1. /\ code \in Version /\ code' = code /\ Len(frame[d].seen) \in Nat /\ MemberOK(d, i)
      /\ frame'[d].seen = frame[d].seen /\ Members(d)' = Members(d) /\ i \in DOMAIN CurrentRound(d).calls
      /\ \A k \in Members(d) \ {i} : Member(d, k)' = Member(d, k)
  <2>1. frame[d] \in FrameType /\ MemberOK(d, i) /\ code \in Version
    BY DEF FanTypes, FrameOK
  <2> QED BY <2>1 DEF FrameType, MemberOK, MemberMoves, Members, Member
<1>2. n \in DOMAIN Plan[code] /\ CurrentRound(d) = Plan[code][n]
  BY <1>1 DEF MemberOK, InRound, CurrentRound
<1>3. TakesPosition(CallOf(d, i)) => q \in Positions(code)
  BY <1>1, <1>2, PositionFacts DEF CallOf
<1>4. q \in Positions(code) => TakesPosition(CallOf(d, i))
  BY <1>1, <1>2, PositionFacts DEF CallOf
<1>5. Member(d, i)'.at # "new" /\ (Begins(d, i) => Member(d, i).at = "new") /\ (GoesOn(d, i) => Member(d, i).at # "new")
  BY DEF Begins, GoesOn, MayBegin, Member
<1>6. ASSUME NEW p \in Positions(code)
      PROVE  /\ p # q => (p \in Passed(d)' <=> p \in Passed(d))
             /\ p = q => p \in Passed(d)' /\ (p \in Passed(d) <=> GoesOn(d, i))
  <2>1. p = <<p[1], p[2]>> /\ p[1] \in Nat /\ p[2] \in Nat
    BY <1>1, PositionFacts
  <2>2. p \in Passed(d) <=> \/ p[1] <= Len(frame[d].seen)
                            \/ p[1] = n /\ p[2] \in Members(d) /\ Member(d, p[2]).at # "new"
    BY DEF Passed
  <2>3. p \in Passed(d)' <=> \/ p[1] <= Len(frame[d].seen)
                             \/ p[1] = n /\ p[2] \in Members(d) /\ Member(d, p[2])'.at # "new"
    BY <1>1 DEF Passed
  <2>4. ASSUME p # q PROVE p \in Passed(d)' <=> p \in Passed(d)
    <3>1. p[1] # n \/ p[2] # i
      BY <2>1, <2>4
    <3>2. p[1] = n /\ p[2] \in Members(d) => Member(d, p[2])' = Member(d, p[2])
      BY <1>1, <3>1
    <3> QED BY <2>2, <2>3, <3>2
  <2>5. ASSUME p = q PROVE p \in Passed(d)' /\ (p \in Passed(d) <=> GoesOn(d, i))
    <3>1. p[1] = n /\ p[2] = i /\ ~(n <= Len(frame[d].seen))
      BY <1>1, <2>5
    <3> QED BY <1>5, <2>2, <2>3, <3>1
  <2> QED BY <2>4, <2>5
<1>7. Passed(d) \subseteq Positions(code) /\ Passed(d)' \subseteq Positions(code)
  BY <1>1 DEF Passed
<1>8. ASSUME Begins(d, i), TakesPosition(CallOf(d, i))
      PROVE  q \in Positions(code) /\ q \notin Passed(d) /\ Passed(d)' = Passed(d) \cup {q}
  BY <1>3, <1>5, <1>6, <1>7, <1>8
<1>9. ASSUME ~(Begins(d, i) /\ TakesPosition(CallOf(d, i))) PROVE Passed(d)' = Passed(d)
  <2>1. q \in Positions(code) => GoesOn(d, i)
    BY <1>4, <1>9
  <2> QED BY <1>6, <1>7, <2>1
<1> QED BY <1>8, <1>9

LEMMA StepCounts ==
  ASSUME FanTypes, NEW d \in Driver, NEW i \in Members(d), ReplayOK(d), MemberMoves(d, i),
         Begins(d, i) \/ GoesOn(d, i)
  PROVE  /\ frame'[d].issued = Cardinality(Passed(d)')
         /\ \A t \in Task : frame'[d].ordinals[t] = Cardinality(OfTask(code, Passed(d)', t))
<1>1. PICK q : q = <<Len(frame[d].seen) + 1, i>>
  OBVIOUS
<1>2. /\ frame[d].issued = Cardinality(Passed(d))
      /\ \A t \in Task : frame[d].ordinals[t] = Cardinality(OfTask(code, Passed(d), t))
      /\ code \in Version /\ "sleep" \notin Task /\ Passed(d) \subseteq Positions(code)
  BY NamesAreApart DEF ReplayOK, FanTypes, Passed
<1>3. CASE Begins(d, i) /\ TakesPosition(CallOf(d, i))
  <2>1. q \in Positions(code) /\ q \notin Passed(d) /\ Passed(d)' = Passed(d) \cup {q}
    BY <1>1, <1>3, StepPasses
  <2>2. TaskOf(code, q) = CallOf(d, i).name /\ CallOf(d, i).key = NoKey
    BY <1>1, <1>3, NextInLine DEF Begins, TakesPosition
  <2>3. frame'[d].issued = frame[d].issued + 1
    BY <1>3 DEF Begins, Issued
  <2>4. \A t \in Task : frame'[d].ordinals[t] =
          IF t = TaskOf(code, q) THEN frame[d].ordinals[t] + 1 ELSE frame[d].ordinals[t]
    BY <1>3, <2>2 DEF Begins, Name
  <2> QED BY <1>2, <2>1, <2>3, <2>4, OneMorePassed
<1>4. CASE ~(Begins(d, i) /\ TakesPosition(CallOf(d, i)))
  <2>1. Passed(d)' = Passed(d)
    BY <1>1, <1>4, StepPasses
  <2>2. frame'[d].issued = frame[d].issued
    BY <1>4 DEF Begins, GoesOn, Issued
  <2>3. \A t \in Task : frame'[d].ordinals[t] = frame[d].ordinals[t]
    <3>1. CASE GoesOn(d, i)
      BY <3>1 DEF GoesOn
    <3>2. CASE Begins(d, i)
      <4>1. CallOf(d, i).name = "sleep" \/ CallOf(d, i).key # NoKey
        BY <1>4, <3>2 DEF TakesPosition
      <4> QED BY <1>2, <3>2, <4>1 DEF Begins, Name
    <3> QED BY <3>1, <3>2
  <2> QED BY <1>2, <2>1, <2>2, <2>3
<1> QED BY <1>3, <1>4

\* The calls a drive has issued are scheduled, after a member's step too.
LEMMA StepKeepsPassed ==
  ASSUME FanTypes, ResultsAreValues, TasksAreScheduled, InOrder(journal, code),
         NEW d \in Driver, NEW i \in Members(d), ReplayOK(d), CallStep(d, i)
  PROVE  PassedOK(d)' /\ frame'[d].members[i].slot # "diverged"
<1>1. MemberMoves(d, i) /\ (Begins(d, i) \/ GoesOn(d, i)) /\ Grows
  BY CallStepMoves
<1>2. PICK q : q = <<Len(frame[d].seen) + 1, i>>
  OBVIOUS
<1>3. /\ code \in Version /\ code' = code /\ frame'[d].seen = frame[d].seen /\ Members(d)' = Members(d)
      /\ \A k \in Members(d) \ {i} : Member(d, k)' = Member(d, k)
      /\ Member(d, i)' = frame'[d].members[i]
  BY <1>1 DEF FanTypes, MemberMoves, Members, Member
<1>4. IdsOf("TaskScheduled") \subseteq IdsOf("TaskScheduled")'
  BY <1>1, GrowthIsTyped
<1>5. Member(d, i).at # "done" /\ Member(d, i).slot = "none"
  <2>1. Member(d, i).at # "done"
    BY <1>1 DEF Begins, GoesOn, MayBegin
  <2> QED BY <2>1 DEF FanTypes, FrameOK, MemberOK
<1>6. ~Refuse(d, i)
  BY NoneDiverges DEF Refuse
<1>7. ASSUME NEW p \in Passed(d)
      PROVE  \/ IdAt(code, p) \in IdsOf("TaskScheduled")'
             \/ /\ p[1] = Len(frame[d].seen) + 1 /\ Member(d, p[2])'.slot = "unsafe"
                /\ TaskOf(code, p) \in Unsafe[code]
  <2>1. CASE IdAt(code, p) \in IdsOf("TaskScheduled")
    BY <1>4, <2>1
  <2>2. CASE /\ p[1] = Len(frame[d].seen) + 1 /\ Member(d, p[2]).slot = "unsafe"
             /\ TaskOf(code, p) \in Unsafe[code]
    <3>1. p[2] \in Members(d)
      <4>1. p[1] \in Nat /\ Len(frame[d].seen) \in Nat
        <5>1. frame[d] \in FrameType /\ p \in Positions(code)
          BY DEF FanTypes, Passed
        <5> QED BY <1>3, <5>1, PositionFacts DEF FrameType
      <4>2. ~(p[1] <= Len(frame[d].seen))
        BY <2>2, <4>1
      <4> QED BY <4>2 DEF Passed
    <3>2. p[2] # i
      BY <1>5, <2>2
    <3> QED BY <1>3, <2>2, <3>1, <3>2
  <2> QED BY <2>1, <2>2 DEF ReplayOK, PassedOK
<1>8. ASSUME Begins(d, i), TakesPosition(CallOf(d, i))
      PROVE  \/ IdAt(code, q) \in IdsOf("TaskScheduled")'
             \/ /\ q[1] = Len(frame[d].seen) + 1 /\ Member(d, q[2])'.slot = "unsafe"
                /\ TaskOf(code, q) \in Unsafe[code]
  <2>1. /\ q \in Positions(code) /\ TaskOf(code, q) = CallOf(d, i).name /\ CallId(d, i) = IdAt(code, q)
        /\ q[1] = Len(frame[d].seen) + 1 /\ q[2] = i
    BY <1>2, <1>8, NextInLine DEF Begins
  <2>2. TaskOf(code, q) \in Task
    BY <1>3, <2>1, PositionFacts
  <2>3. BeginStep(d, i)
    <3>1. Member(d, i).at = "new"
      BY <1>8 DEF Begins, MayBegin
    <3>2. GoOnStep(d, i) => GoesOn(d, i)
      BY GoOnStepGoesOn
    <3> QED BY <3>1, <3>2, CallStepKinds DEF GoesOn
  <2>4. \/ CallId(d, i) \in IdsOf("TaskScheduled")'
        \/ frame'[d].members[i].slot = "unsafe" /\ CallOf(d, i).name \in Unsafe[code]
    BY <1>6, <2>1, <2>2, <2>3, BegunIsScheduled DEF ReplayOK
  <2> QED BY <1>3, <2>1, <2>4
<1>9. \A p \in Passed(d)' : p \in Passed(d) \/ (p = q /\ Begins(d, i) /\ TakesPosition(CallOf(d, i)))
  BY <1>1, <1>2, StepPasses
<1>10. PassedOK(d)'
  <2> SUFFICES ASSUME NEW p \in Passed(d)'
               PROVE  \/ IdAt(code, p) \in IdsOf("TaskScheduled")'
                      \/ /\ p[1] = Len(frame[d].seen) + 1 /\ Member(d, p[2])'.slot = "unsafe"
                         /\ TaskOf(code, p) \in Unsafe[code]
    BY <1>3 DEF PassedOK
  <2> QED BY <1>7, <1>8, <1>9
<1>11. frame'[d].members[i].slot # "diverged"
  <2>1. CASE BeginStep(d, i)
    BY <1>6, <2>1, BegunIsScheduled DEF ReplayOK
  <2>2. CASE GoOnStep(d, i)
    BY <2>2, GoneOnIsNotRefused DEF Propagating
  <2> QED BY <2>1, <2>2, CallStepKinds
<1> QED BY <1>10, <1>11


\* A member's step keeps the drive in step with the journal.
LEMMA StepKeepsReplay ==
  ASSUME RefusedAreLast, FanTypes, ResultsAreValues, TasksAreScheduled, InOrder(journal, code),
         NEW d \in Driver, NEW i \in Members(d), ReplayOK(d), CallStep(d, i)
  PROVE  ReplayOK(d)'
<1>1. MemberMoves(d, i) /\ (Begins(d, i) \/ GoesOn(d, i)) /\ Grows
  BY CallStepMoves
<1>2. /\ code' = code /\ pc' = pc /\ frame'[d].seen = frame[d].seen /\ Members(d)' = Members(d)
      /\ \A k \in Members(d) \ {i} : Member(d, k)' = Member(d, k)
      /\ Member(d, i)' = frame'[d].members[i]
  BY <1>1 DEF MemberMoves, Members, Member
<1>3. /\ InRound(d)' = InRound(d) /\ CurrentRound(d)' = CurrentRound(d)
      /\ \A k \in Members(d) : CallOf(d, k)' = CallOf(d, k)
  BY <1>2 DEF InRound, CurrentRound, CallOf
<1>4. IdsOf("TaskScheduled") \subseteq IdsOf("TaskScheduled")' /\ frame'[d].scheduled = IdsOf("TaskScheduled")'
  BY <1>1, GrowthIsTyped, StepKeepsOrder
<1>5. Member(d, i)'.at # "new"
  BY <1>1, <1>2 DEF Begins, GoesOn
<1>6. /\ frame'[d].issued = Cardinality(Passed(d)')
      /\ \A t \in Task : frame'[d].ordinals[t] = Cardinality(OfTask(code', Passed(d)', t))
  BY <1>1, <1>2, StepCounts
<1>7. PassedOK(d)'
  BY StepKeepsPassed
<1>8. RoundIsWhole(d)'
  BY <1>2, <1>3 DEF ReplayOK, RoundIsWhole
<1>9. DrainIsWhole(d)'
  <2> SUFFICES ASSUME pc[d] = "drain", NEW k \in Members(d), CallOf(d, k).key = NoKey
               PROVE  Member(d, k)'.at # "new" /\ Member(d, k)'.slot \notin Propagating
    BY <1>2, <1>3 DEF DrainIsWhole, Propagating
  <2>1. Member(d, k).at # "new" /\ Member(d, k).slot \notin Propagating
    BY DEF ReplayOK, DrainIsWhole
  <2>2. CASE k # i
    BY <1>2, <2>1, <2>2
  <2>3. CASE k = i
    <3>1. ~Begins(d, i)
      BY <2>1, <2>3 DEF Begins, MayBegin
    <3>2. GoOnStep(d, i)
      BY <3>1, CallStepKinds, BeginStepBegins
    <3> QED BY <1>2, <1>5, <2>3, <3>2, GoneOnIsNotRefused
  <2> QED BY <2>2, <2>3
<1>10. ASSUME NEW k \in Members(d), Member(d, k)'.at # "new", NEW l \in 1..(k - 1)
       PROVE  Member(d, l)'.at # "new"
  <2>1. k \in Nat /\ l \in Members(d)
    BY DEF Members, FanTypes, FrameType
  <2>2. Member(d, l).at # "new" => Member(d, l)'.at # "new"
    BY <1>2, <1>5, <2>1
  <2>3. CASE Member(d, k).at # "new"
    BY <2>2, <2>3 DEF ReplayOK
  <2>4. CASE Member(d, k).at = "new"
    <3>1. k = i
      BY <1>2, <1>10, <2>4
    <3>2. Begins(d, i)
      BY <1>1, <2>4, <3>1 DEF GoesOn
    <3> QED BY <2>2, <3>1, <3>2 DEF Begins, MayBegin
  <2> QED BY <2>3, <2>4
<1>11. ASSUME NEW k \in Members(d), Member(d, k)'.at \in {"attempt", "body", "backoff", "spent"}
       PROVE  Member(d, k)'.id \in IdsOf("TaskScheduled")'
  <2>1. Member(d, k).at \in {"attempt", "body", "backoff", "spent"} => Member(d, k).id \in IdsOf("TaskScheduled")
    BY DEF ReplayOK
  <2>2. CASE k # i
    BY <1>2, <1>4, <1>11, <2>1, <2>2
  <2>3. CASE k = i /\ GoesOn(d, i)
    <3>1. Member(d, i)'.id = Member(d, i).id
      BY <1>2, <2>3 DEF GoesOn
    <3>2. Member(d, i).at \in {"attempt", "body", "backoff", "spent"}
      BY <1>2, <1>11, <2>3 DEF GoesOn
    <3> QED BY <1>4, <2>1, <2>3, <3>1, <3>2
  <2>4. CASE k = i /\ Begins(d, i)
    <3>1. Member(d, i)'.id = CallId(d, i) /\ frame'[d].scheduled = frame[d].scheduled \cup {CallId(d, i)}
      BY <1>2, <1>11, <2>4 DEF Begins
    <3> QED BY <1>4, <2>4, <3>1
  <2> QED BY <1>1, <2>2, <2>3, <2>4
<1> QED BY <1>2, <1>4, <1>6, <1>7, <1>8, <1>9, <1>10, <1>11 DEF ReplayOK

LEMMA CallStepInOrder ==
  ASSUME RefusedAreLast, OneDriver, FanTypes, ResultsAreValues, OrderInv, NEW d \in Driver, NEW i \in Members(d),
         CallStep(d, i)
  PROVE  OrderInv'
<1> SUFFICES ASSUME ~mixed'
             PROVE  (/\ InOrder(journal, code) /\ TasksAreScheduled
                     /\ \A e \in Driver : ~Has(e, {"diverged"})
                     /\ \A e \in Driver : pc[e] \in {"fan", "drain"} => ReplayOK(e))'
  BY DEF OrderInv
<1>1. MemberMoves(d, i) /\ (Begins(d, i) \/ GoesOn(d, i))
  BY CallStepMoves
<1>2. pc[d] \in {"fan", "drain"} /\ mixed' = mixed
  BY CallStepKinds DEF BeginStep, GoOnStep, Refuse, ReuseResult, ReuseFailure, RefuseEffect, Schedule,
     SleepOver, CreateTimer, Misses, CallBegins, MayBegin, StartAttempt, Complete, FailAttempt, Backoff,
     RecordFailure, RecordWaiting, Holds, rest
<1>3. InOrder(journal, code) /\ TasksAreScheduled /\ ~Has(d, {"diverged"}) /\ ReplayOK(d)
  BY <1>2 DEF OrderInv
<1>4. InOrder(journal', code') /\ TasksAreScheduled' /\ ReplayOK(d)'
  BY <1>1, <1>3, StepKeepsOrder, StepKeepsReplay DEF MemberMoves
<1>5. ~Has(d, {"diverged"})'
  <2>1. /\ Members(d)' = Members(d) /\ \A k \in Members(d) \ {i} : Member(d, k)' = Member(d, k)
        /\ Member(d, i)' = frame'[d].members[i]
    BY <1>1 DEF MemberMoves, Members, Member
  <2>2. Member(d, i)'.slot # "diverged"
    BY <1>3, <2>1, StepKeepsPassed
  <2> QED BY <1>3, <2>1, <2>2 DEF Has
<1> QED BY <1>4, <1>5 DEF OneDriver


\* What is recorded of the run and of its timers leaves the order of the schedules alone.
LEMMA QuietKeepsOrder ==
  ASSUME FanTypes, Grows, Quiet, InOrder(journal, code), TasksAreScheduled
  PROVE  InOrder(journal', code) /\ TasksAreScheduled' /\ IdsOf("TaskScheduled")' = IdsOf("TaskScheduled")
<1>0. code \in Version /\ Len(journal) \in Nat /\ journal \in Seq(Fact)
  BY DEF FanTypes
<1>1. CASE UNCHANGED journal
  BY <1>1 DEF TasksAreScheduled, IdsOf
<1>2. ASSUME NEW e \in Fact, journal' = Append(journal, e), e.id.name \notin Task
      PROVE  InOrder(journal', code) /\ TasksAreScheduled' /\ IdsOf("TaskScheduled")' = IdsOf("TaskScheduled")
  <2>1. PICK h : h = journal'
    OBVIOUS
  <2>2. Len(h) = Len(journal) + 1 /\ h[Len(h)] = e /\ \A k \in 1..Len(journal) : h[k] = journal[k]
    BY <1>0, <1>2, <2>1
  <2>3. e.type # "TaskScheduled"
    <3>1. FactOK(e)
      BY <1>0, <2>1, <2>2, GrowthIsTyped
    <3> QED BY <1>2, <3>1 DEF FactOK, TaskEvent
  <2>4. InOrder(h, code)
    BY <1>0, <2>2, <2>3, OrderGrows
  <2>5. IdsOf("TaskScheduled")' = IdsOf("TaskScheduled")
    BY <1>2, <2>3, IdsGrow
  <2>6. \A k \in 1..Len(h) : (k \in 1..Len(journal) /\ h[k] = journal[k]) \/ h[k] = e
    BY <1>0, <2>2
  <2>7. TasksAreScheduled'
    BY <1>2, <2>1, <2>5, <2>6 DEF TasksAreScheduled
  <2> QED BY <2>1, <2>4, <2>5, <2>7
<1> QED BY <1>1, <1>2 DEF Quiet

\* A drive whose frame stays as it is, and with it the calls that are scheduled.
LEMMA StillReplay ==
  ASSUME FanTypes, NEW d \in Driver, ReplayOK(d), UNCHANGED code, frame'[d] = frame[d],
         IdsOf("TaskScheduled")' = IdsOf("TaskScheduled"), DrainIsWhole(d)'
  PROVE  ReplayOK(d)'
<1>1. /\ Members(d)' = Members(d) /\ InRound(d)' = InRound(d) /\ CurrentRound(d)' = CurrentRound(d)
      /\ \A k : Member(d, k)' = Member(d, k)
  BY DEF Members, Member, InRound, CurrentRound
<1>2. Passed(d)' = Passed(d)
  BY <1>1 DEF Passed
<1>3. RoundIsWhole(d)'
  BY <1>1 DEF ReplayOK, RoundIsWhole
<1>4. PassedOK(d)'
  <2> SUFFICES ASSUME NEW q \in Passed(d)
               PROVE  \/ IdAt(code, q) \in IdsOf("TaskScheduled")'
                      \/ /\ q[1] = Len(frame[d].seen) + 1 /\ Member(d, q[2])'.slot = "unsafe"
                         /\ TaskOf(code, q) \in Unsafe[code]
    BY <1>2 DEF PassedOK
  <2> QED BY <1>1 DEF ReplayOK, PassedOK
<1>5. frame'[d].scheduled = IdsOf("TaskScheduled")' /\ frame'[d].issued = Cardinality(Passed(d)')
  BY <1>2 DEF ReplayOK
<1>6. \A t \in Task : frame'[d].ordinals[t] = Cardinality(OfTask(code', Passed(d)', t))
  BY <1>2 DEF ReplayOK
<1>7. \A i \in Members(d)' : Member(d, i)'.at # "new" => \A k \in 1..(i - 1) : Member(d, k)'.at # "new"
  BY <1>1 DEF ReplayOK
<1>8. \A i \in Members(d)' : Member(d, i)'.at \in {"attempt", "body", "backoff", "spent"} =>
        Member(d, i)'.id \in IdsOf("TaskScheduled")'
  BY <1>1 DEF ReplayOK
<1> QED BY <1>3, <1>4, <1>5, <1>6, <1>7, <1>8 DEF ReplayOK

\* A fan-out that is over has issued all its calls, and none of them was refused.
LEMMA RejoinKeepsReplay ==
  ASSUME FanTypes, NEW d \in Driver, ReplayOK(d), Over(d), Members(d) # {},
         \A i \in Members(d) : CallOf(d, i).key = NoKey => Member(d, i).slot \notin Propagating,
         NEW o \in Seq(OutcomeType), Rejoin(d, o)
  PROVE  ReplayOK(d)' /\ ~Has(d, {"diverged"})'
<1>0. /\ UNCHANGED <<journal, code>> /\ code \in Version /\ pc'[d] = "fan"
      /\ frame[d].seen \in Seq(Seq(OutcomeType)) /\ Len(frame[d].seen) \in Nat
  BY DEF Rejoin, FanTypes, FrameType
<1>1. /\ frame'[d].scheduled = frame[d].scheduled /\ frame'[d].issued = frame[d].issued
      /\ frame'[d].ordinals = frame[d].ordinals /\ frame'[d].seen = Append(frame[d].seen, o)
      /\ \A k \in Members(d)' : Member(d, k)'.at = "new" /\ Member(d, k)'.slot = "none"
  BY RejoinFrame DEF Members, Member, NewMember
<1>2. Len(frame'[d].seen) = Len(frame[d].seen) + 1
  BY <1>0, <1>1
<1>3. RoundIsWhole(d)'
  BY <1>0, RejoinFrame DEF RoundIsWhole, InRound, CurrentRound, Members
<1>4. IdsOf("TaskScheduled")' = IdsOf("TaskScheduled")
  BY <1>0 DEF IdsOf
<1>5. Members(d) = DOMAIN CurrentRound(d).calls
  <2>1. InRound(d)
    BY DEF FanTypes, FrameOK, MemberOK
  <2> QED BY <2>1 DEF ReplayOK, RoundIsWhole
<1>6. ASSUME NEW q \in Positions(code)
      PROVE  /\ q \in Passed(d)' <=> q \in Passed(d)
             /\ q \in Passed(d) => IdAt(code, q) \in IdsOf("TaskScheduled")
  <2>1. q[1] \in Nat /\ q[2] \in DOMAIN Plan[code][q[1]].calls /\ TakesPosition(Plan[code][q[1]].calls[q[2]])
    BY <1>0, PositionFacts
  <2>2. ASSUME q[1] = Len(frame[d].seen) + 1
        PROVE  q[2] \in Members(d) /\ Member(d, q[2]).at = "done" /\ Member(d, q[2]).slot \notin Propagating
    <3>1. q[2] \in Members(d) /\ CallOf(d, q[2]) = Plan[code][q[1]].calls[q[2]]
      BY <1>5, <2>1, <2>2 DEF CurrentRound, CallOf
    <3> QED BY <2>1, <3>1 DEF Over, TakesPosition
  <2>3. q \in Passed(d) <=> q[1] <= Len(frame[d].seen) + 1
    BY <1>0, <2>1, <2>2 DEF Passed
  <2>4. q \in Passed(d)' <=> q[1] <= Len(frame'[d].seen)
    BY <1>0, <1>1 DEF Passed
  <2>5. q \in Passed(d) => IdAt(code, q) \in IdsOf("TaskScheduled")
    BY <2>2 DEF ReplayOK, PassedOK, Propagating
  <2> QED BY <1>2, <2>3, <2>4, <2>5
<1>7. Passed(d)' = Passed(d)
  <2>1. Passed(d) \subseteq Positions(code) /\ Passed(d)' \subseteq Positions(code)
    BY <1>0 DEF Passed
  <2> QED BY <1>6, <2>1
<1>8. PassedOK(d)'
  <2>1. \A q \in Passed(d) : IdAt(code, q) \in IdsOf("TaskScheduled")
    BY <1>6 DEF Passed
  <2> QED BY <1>0, <1>4, <1>7, <2>1 DEF PassedOK
<1>9. DrainIsWhole(d)'
  BY <1>0 DEF DrainIsWhole
<1>10. ReplayOK(d)'
  BY <1>0, <1>1, <1>3, <1>4, <1>7, <1>8, <1>9 DEF ReplayOK
<1>11. ~Has(d, {"diverged"})'
  BY <1>1 DEF Has
<1> QED BY <1>10, <1>11

\* A drive that loads has issued nothing yet.
LEMMA LoadMakesReplay ==
  ASSUME FanTypes, NEW d \in Driver, DriveLoad(d)
  PROVE  ReplayOK(d)' /\ ~Has(d, {"diverged"})'
<1>0. UNCHANGED <<journal, code>> /\ code \in Version /\ pc'[d] = "fan"
  BY DEF DriveLoad, FanTypes
<1>1. /\ frame'[d].scheduled = IdsOf("TaskScheduled") /\ frame'[d].issued = 0
      /\ frame'[d].ordinals = [m \in Name |-> 0] /\ frame'[d].seen = <<>>
      /\ \A k \in Members(d)' : Member(d, k)'.at = "new" /\ Member(d, k)'.slot = "none"
  BY LoadFrame DEF Members, Member, NewMember
<1>2. Len(frame'[d].seen) = 0
  BY <1>1
<1>3. RoundIsWhole(d)'
  BY <1>0, <1>2, LoadFrame DEF RoundIsWhole, InRound, CurrentRound, Members
<1>4. IdsOf("TaskScheduled")' = IdsOf("TaskScheduled")
  BY <1>0 DEF IdsOf
<1>5. Passed(d)' = {}
  <2> SUFFICES ASSUME NEW q \in Passed(d)' PROVE FALSE
    OBVIOUS
  <2>1. q \in Positions(code)
    BY <1>0 DEF Passed
  <2>2. q[1] \in Nat /\ q[1] \in DOMAIN Plan[code] /\ Plan[code] \in Seq(Round)
    BY <1>0, <2>1, PositionFacts, PlansAreRounds
  <2>3. q[1] >= 1
    BY <2>2
  <2> QED BY <1>1, <1>2, <2>2, <2>3 DEF Passed
<1>6. Cardinality(Passed(d)') = 0 /\ \A t : Cardinality(OfTask(code', Passed(d)', t)) = 0
  <2>1. \A t : OfTask(code', Passed(d)', t) = {}
    BY <1>5 DEF OfTask
  <2> QED BY <1>5, <2>1, FS_EmptySet
<1>7. PassedOK(d)' /\ DrainIsWhole(d)'
  BY <1>0, <1>5 DEF PassedOK, DrainIsWhole
<1>8. \A t \in Task : frame'[d].ordinals[t] = 0
  BY <1>1 DEF Name
<1>9. ReplayOK(d)'
  BY <1>1, <1>3, <1>4, <1>6, <1>7, <1>8 DEF ReplayOK
<1>10. ~Has(d, {"diverged"})'
  BY <1>1 DEF Has
<1> QED BY <1>9, <1>10

\* When a failure is noticed, the calls without a key have begun: they are members of a
\* gather, and nothing holds those up.
LEMMA NoticeMakesDrain ==
  ASSUME FanTypes, NEW d \in Driver, ReplayOK(d), Notice(d)
  PROVE  DrainIsWhole(d)'
<1>0. UNCHANGED <<frame, code>> /\ Fans(d, "fan") /\ ~Has(d, Propagating)
  BY DEF Notice
<1> SUFFICES ASSUME NEW i \in Members(d), CallOf(d, i).key = NoKey
             PROVE  Member(d, i).at # "new" /\ Member(d, i).slot \notin Propagating
  BY <1>0 DEF DrainIsWhole, Members, Member, CallOf, CurrentRound, Propagating
<1>1. Member(d, i).slot \notin Propagating
  BY <1>0 DEF Has
<1>2. /\ IsRound(CurrentRound(d)) /\ Members(d) = DOMAIN CurrentRound(d).calls
      /\ CurrentRound(d).calls \in Seq(Call) /\ CurrentRound(d).width \in Nat
  <2>1. InRound(d) /\ IsRound(CurrentRound(d))
    BY CallsAreTyped DEF FanTypes, FrameOK, MemberOK
  <2> QED BY <2>1 DEF ReplayOK, RoundIsWhole, IsRound, Round
<1>3. /\ Members(d) = 1..Len(CurrentRound(d).calls) /\ Len(CurrentRound(d).calls) \in Nat
      /\ \A k \in Members(d) : CallOf(d, k).key = NoKey
      /\ Len(CurrentRound(d).calls) <= CurrentRound(d).width
  BY <1>2 DEF IsRound, CallOf
<1>4. ASSUME Member(d, i).at = "new" PROVE FALSE
  <2> DEFINE S == {k \in Members(d) : Member(d, k).at = "new"}
  <2>1. S \in SUBSET Nat /\ S # {}
    BY <1>3, <1>4
  <2>2. PICK m \in S : \A k \in S : m <= k
    <3> HIDE DEF S
    <3> QED BY <2>1, LeastIsMember
  <2>3. m \in Members(d) /\ Member(d, m).at = "new" /\ \A k \in 1..(m - 1) : Member(d, k).at # "new"
    <3>1. \A k \in 1..(m - 1) : k \in Members(d) /\ k < m
      BY <1>3, <2>2
    <3> QED BY <1>3, <2>2, <3>1
  <2>4. Cardinality(InFlight(d)) < CurrentRound(d).width
    <3>1. IsFiniteSet(Members(d)) /\ Cardinality(Members(d)) = Len(CurrentRound(d).calls)
      <4>1. 1 \in Int /\ Len(CurrentRound(d).calls) \in Int
        BY <1>3
      <4>2. Cardinality(1..Len(CurrentRound(d).calls)) = Len(CurrentRound(d).calls)
        BY <1>3, <4>1, FS_Interval
      <4> QED BY <1>3, <4>1, <4>2, FS_Interval
    <3>2. InFlight(d) \subseteq Members(d) /\ m \notin InFlight(d)
      BY <2>3 DEF InFlight
    <3>3. IsFiniteSet(InFlight(d)) /\ Cardinality(InFlight(d)) <= Cardinality(Members(d))
          /\ (Cardinality(InFlight(d)) = Cardinality(Members(d)) => InFlight(d) = Members(d))
      BY <3>1, <3>2, FS_Subset
    <3>4. Cardinality(InFlight(d)) # Cardinality(Members(d)) /\ Cardinality(InFlight(d)) \in Nat
      BY <2>3, <3>2, <3>3, FS_CardinalityType
    <3> QED BY <1>2, <1>3, <3>1, <3>3, <3>4
  <2>5. ~Aborted(d, m)
    BY <1>3, <2>3 DEF Aborted
  <2> QED BY <1>0, <2>3, <2>4, <2>5 DEF Fans, MayBegin
<1> QED BY <1>1, <1>4

LEMMA DriveStepKeepsCode ==
  ASSUME NEW d \in Driver, DriveStep(d) \/ Redrive(d)
  PROVE  UNCHANGED <<code, mixed, crashes>>
<1>1. ASSUME NEW i \in Members(d), CallStep(d, i) PROVE UNCHANGED <<code, mixed, crashes>>
  BY <1>1 DEF CallStep, Refuse, ReuseResult, ReuseFailure, RefuseEffect, Schedule, StartAttempt, Complete,
     FailAttempt, Backoff, RecordFailure, SleepOver, CreateTimer, RecordWaiting, rest
<1> QED BY <1>1 DEF DriveStep, ReturnAll, Abort, Notice, RaiseInside, RaiseFailure, RaisePark, DriveTerminal,
           DriveLoad, Return, SettleStatus, Redrive, Rejoin

LEMMA DriveStepInOrder ==
  ASSUME RefusedAreLast, OneDriver, FanTypes, ResultsAreValues, OrderInv, NEW d \in Driver,
         DriveStep(d) \/ Redrive(d)
  PROVE  OrderInv'
<1>0. pc \in [Driver -> Pcs] /\ mixed' = mixed /\ UNCHANGED code
  BY DriveStepKeepsCode DEF FanTypes, Pcs
<1>1. ASSUME NEW i \in Members(d), CallStep(d, i) PROVE OrderInv'
  BY <1>1, CallStepInOrder
<1>2. ASSUME ~mixed PROVE InOrder(journal, code) /\ TasksAreScheduled /\ ~Has(d, {"diverged"})
                          /\ (pc[d] \in {"fan", "drain"} => ReplayOK(d))
  BY <1>2 DEF OrderInv
<1>3. ASSUME Quiet, Grows, ~mixed => ~Has(d, {"diverged"})' /\ (pc'[d] \in {"fan", "drain"} => ReplayOK(d)')
      PROVE  OrderInv'
  <2> SUFFICES ASSUME ~mixed'
               PROVE  (/\ InOrder(journal, code) /\ TasksAreScheduled
                       /\ \A e \in Driver : ~Has(e, {"diverged"})
                       /\ \A e \in Driver : pc[e] \in {"fan", "drain"} => ReplayOK(e))'
    BY DEF OrderInv
  <2>1. InOrder(journal', code') /\ TasksAreScheduled'
    BY <1>0, <1>2, <1>3, QuietKeepsOrder
  <2>2. ~Has(d, {"diverged"})' /\ (pc'[d] \in {"fan", "drain"} => ReplayOK(d)')
    BY <1>0, <1>3
  <2> QED BY <2>1, <2>2 DEF OneDriver
<1>4. ASSUME Over(d), Members(d) # {}, pc[d] \in {"fan", "drain"}, NEW o \in Seq(OutcomeType), Rejoin(d, o),
             ~mixed => \A i \in Members(d) : CallOf(d, i).key = NoKey => Member(d, i).slot \notin Propagating
      PROVE  OrderInv'
  <2>1. UNCHANGED journal
    BY <1>4 DEF Rejoin
  <2>2. ~mixed => ReplayOK(d)' /\ ~Has(d, {"diverged"})'
    BY <1>2, <1>4, RejoinKeepsReplay
  <2> QED BY <1>3, <2>1, <2>2 DEF Quiet, Grows
<1>5. CASE ReturnAll(d)
  <2>1. \A i \in Members(d) : Member(d, i).slot \notin Propagating
    BY <1>5 DEF ReturnAll, Has
  <2> QED BY <1>4, <1>5, <2>1, OutcomesAreTyped DEF ReturnAll, Fans
<1>6. CASE RaiseInside(d)
  <2>1. FirstRaised(d) \in Members(d)
    BY <1>6, FirstRaisedIsMember DEF RaiseInside, Raises, Fans, FanTypes, FrameOK
  <2>2. PICK x \in OutcomeType : x = Outcome(d, FirstRaised(d))
    BY <2>1, OutcomesAreTyped
  <2>3. <<x>> \in Seq(OutcomeType)
    OBVIOUS
  <2>4. Over(d) /\ pc[d] = "drain" /\ Members(d) # {} /\ Rejoin(d, <<x>>)
    BY <1>6, <2>2 DEF RaiseInside, Raises, Drained, Fans
  <2>5. ~mixed => DrainIsWhole(d)
    BY <1>2, <2>4 DEF ReplayOK
  <2>6. ~mixed => \A i \in Members(d) : CallOf(d, i).key = NoKey => Member(d, i).slot \notin Propagating
    BY <2>4, <2>5 DEF DrainIsWhole
  <2> QED BY <1>4, <2>3, <2>4, <2>6
<1>7. CASE Abort(d) \/ RaisePark(d) \/ DriveTerminal(d) \/ SettleStatus(d)
  <2>1. UNCHANGED journal /\ Release(d)
    BY <1>7 DEF Abort, RaisePark, DriveTerminal, SettleStatus
  <2>2. pc'[d] = "idle" /\ frame'[d] = NoFrame
    BY <1>0, <2>1 DEF Release, FanTypes
  <2>3. ~Has(d, {"diverged"})'
    BY <2>2, NoFrameIsTyped DEF Has, Members
  <2> QED BY <1>3, <2>1, <2>2, <2>3 DEF Quiet, Grows
<1>8. CASE RaiseFailure(d) \/ Return(d)
  <2>1. Quiet /\ Grows /\ UNCHANGED frame /\ pc'[d] = "settle"
    BY <1>0, <1>8, RunEventsAreQuiet, RunEventGrows DEF RaiseFailure, Return, Raises, Fans
  <2>2. ~mixed => ~Has(d, {"diverged"})'
    BY <1>2, <2>1 DEF Has, Members, Member
  <2> QED BY <1>3, <2>1, <2>2
<1>9. CASE Notice(d)
  <2>1. UNCHANGED <<journal, frame>> /\ pc[d] = "fan"
    BY <1>9 DEF Notice, Fans
  <2>2. IdsOf("TaskScheduled")' = IdsOf("TaskScheduled")
    BY <2>1 DEF IdsOf
  <2>3. ~mixed => ReplayOK(d)'
    <3> SUFFICES ASSUME ~mixed PROVE ReplayOK(d)'
      OBVIOUS
    <3>1. ReplayOK(d)
      BY <1>2, <2>1
    <3> QED BY <1>0, <1>9, <2>1, <2>2, <3>1, NoticeMakesDrain, StillReplay
  <2>4. ~mixed => ~Has(d, {"diverged"})'
    BY <1>2, <2>1 DEF Has, Members, Member
  <2> QED BY <1>3, <2>1, <2>3, <2>4 DEF Quiet, Grows
<1>10. CASE DriveLoad(d)
  <2>1. UNCHANGED journal
    BY <1>10 DEF DriveLoad
  <2> QED BY <1>3, <1>10, <2>1, LoadMakesReplay DEF Quiet, Grows
<1>11. CASE Redrive(d)
  <2>1. UNCHANGED <<journal, frame>> /\ pc'[d] = "drive"
    BY <1>0, <1>11 DEF Redrive
  <2>2. ~mixed => ~Has(d, {"diverged"})'
    BY <1>2, <2>1 DEF Has, Members, Member
  <2> QED BY <1>3, <2>1, <2>2 DEF Quiet, Grows
<1> QED BY <1>1, <1>5, <1>6, <1>7, <1>8, <1>9, <1>10, <1>11 DEF DriveStep

\* A timer fires, or nothing happens.
LEMMA StillInOrder ==
  ASSUME FanTypes, OrderInv, Grows, Quiet, UNCHANGED <<pc, code, mixed, frame>>
  PROVE  OrderInv'
<1> SUFFICES ASSUME ~mixed'
             PROVE  (/\ InOrder(journal, code) /\ TasksAreScheduled
                     /\ \A d \in Driver : ~Has(d, {"diverged"})
                     /\ \A d \in Driver : pc[d] \in {"fan", "drain"} => ReplayOK(d))'
  BY DEF OrderInv
<1>1. InOrder(journal, code) /\ TasksAreScheduled /\ \A d \in Driver : ~Has(d, {"diverged"})
  BY DEF OrderInv
<1>2. InOrder(journal', code') /\ TasksAreScheduled' /\ IdsOf("TaskScheduled")' = IdsOf("TaskScheduled")
  BY <1>1, QuietKeepsOrder
<1>3. ASSUME NEW d \in Driver PROVE ~Has(d, {"diverged"})'
  BY <1>1 DEF Has, Members, Member
<1>4. ASSUME NEW d \in Driver, pc[d] \in {"fan", "drain"} PROVE ReplayOK(d)'
  <2>1. ReplayOK(d) /\ DrainIsWhole(d)
    BY <1>4 DEF OrderInv, ReplayOK
  <2>2. DrainIsWhole(d)'
    BY <2>1 DEF DrainIsWhole, Members, Member, CallOf, CurrentRound
  <2> QED BY <1>2, <2>1, <2>2, StillReplay
<1> QED BY <1>2, <1>3, <1>4

LEMMA NextInOrder ==
  ASSUME RefusedAreLast, OneDriver, FanTypes, ResultsAreValues, OrderInv, [Next]_vars
  PROVE  (ResultsAreValues /\ OrderInv)'
<1>1. ASSUME Quiet, Grows PROVE ResultsAreValues'
  BY <1>1, QuietResults
<1>2. CASE UNCHANGED vars
  <2>1. Quiet /\ Grows /\ UNCHANGED <<pc, code, mixed, frame>>
    BY <1>2 DEF vars, Quiet, Grows
  <2> QED BY <1>1, <2>1, StillInOrder
<1>3. ASSUME NEW id \in IdsOf("TimerCreated"), FireTimer(id) PROVE (ResultsAreValues /\ OrderInv)'
  <2>1. Quiet /\ Grows /\ UNCHANGED <<pc, code, mixed, frame>>
    BY <1>3, FireTimerGrows, FireTimerIsQuiet DEF FireTimer
  <2> QED BY <1>1, <2>1, StillInOrder
<1>4. CASE Crash
  <2>1. UNCHANGED journal /\ \A d \in Driver : pc'[d] = "idle" /\ frame'[d] = NoFrame
    BY <1>4 DEF Crash
  <2>2. ~mixed' => ~mixed /\ code' = code
    BY <1>4 DEF Crash
  <2>3. \A d \in Driver : ~Has(d, {"diverged"})'
    BY <2>1, NoFrameIsTyped DEF Has, Members
  <2>4. TasksAreScheduled => TasksAreScheduled'
    BY <2>1 DEF TasksAreScheduled, IdsOf
  <2>5. ~mixed' => InOrder(journal', code')
    BY <2>1, <2>2 DEF OrderInv
  <2>6. OrderInv'
    BY <2>1, <2>2, <2>3, <2>4, <2>5 DEF OrderInv
  <2> QED BY <1>1, <2>1, <2>6 DEF Quiet, Grows
<1>5. ASSUME NEW d \in Driver, DriveStep(d) \/ Redrive(d) PROVE (ResultsAreValues /\ OrderInv)'
  <2>1. OrderInv'
    BY <1>5, DriveStepInOrder
  <2>2. CASE \E i \in Members(d) : CallStep(d, i)
    <3>1. ResultsAreValues'
      BY <2>2, StepResults, ResultsGrow DEF ResultsAreValues
    <3> QED BY <2>1, <3>1
  <2>3. CASE RaiseFailure(d) \/ Return(d)
    <3>1. Quiet /\ Grows
      BY <2>3, RunEventsAreQuiet, RunEventGrows DEF RaiseFailure, Return
    <3> QED BY <1>1, <2>1, <3>1
  <2>4. CASE UNCHANGED journal
    BY <1>1, <2>1, <2>4 DEF Quiet, Grows
  <2> QED BY <1>5, <2>2, <2>3, <2>4 DEF DriveStep, ReturnAll, Abort, Notice, RaiseInside, RaisePark,
             DriveTerminal, DriveLoad, SettleStatus, Redrive, Rejoin
<1> QED BY <1>2, <1>3, <1>4, <1>5 DEF Next

LEMMA InitInOrder == Init => ResultsAreValues /\ OrderInv
<1> SUFFICES ASSUME Init PROVE ResultsAreValues /\ OrderInv
  OBVIOUS
<1>1. /\ journal = <<>> /\ Len(journal) = 0 /\ 1..0 = {}
      /\ \A d \in Driver : pc[d] = "idle" /\ frame[d] = NoFrame
  BY DEF Init
<1>2. \A d \in Driver : ~Has(d, {"diverged"})
  BY <1>1, NoFrameIsTyped DEF Has, Members
<1>3. ScheduleOrder(journal, Len(journal)) = {}
  BY <1>1 DEF ScheduleOrder
<1>4. InOrder(journal, code)
  BY <1>3 DEF InOrder
<1>5. TasksAreScheduled /\ ResultsAreValues
  BY <1>1 DEF TasksAreScheduled, ResultsAreValues
<1> QED BY <1>1, <1>2, <1>4, <1>5 DEF OrderInv

\* When one task at a time drives the run, and effect safety refuses no call ahead of
\* another of its gather: no replay by the code that recorded the journal is called
\* nondeterministic, whatever the fan-outs, the interleaving of their members, and the
\* points at which the drives before it were cut off (_check_position, engine.py:612).
THEOREM NoFalseDivergenceHolds ==
  ASSUME OneDriver, RefusedAreLast
  PROVE  Spec => []NoFalseDivergence
<1>1. Init => FanTypes /\ ResultsAreValues /\ OrderInv
  BY InitTypes, InitInOrder
<1>2. FanTypes /\ ResultsAreValues /\ OrderInv /\ [Next]_vars => (FanTypes /\ ResultsAreValues /\ OrderInv)'
  BY NextTypes, NextInOrder
<1>3. OrderInv => NoFalseDivergence
  BY DEF OrderInv, NoFalseDivergence
<1> QED BY <1>1, <1>2, <1>3, PTL DEF Spec


-----------------------------------------------------------------------------
(* A run parks as a whole                                                    *)

\* a workflow that sleeps has no call that effect safety refuses
SleepersAreSafe ==
  \A v \in Version : \A r, s \in DOMAIN Plan[v] :
    \A i \in DOMAIN Plan[v][r].calls, k \in DOMAIN Plan[v][s].calls :
      Plan[v][r].calls[i].name = "sleep" => Plan[v][s].calls[k].name \notin Unsafe[v]

Sleeps(v) == \E r \in DOMAIN Plan[v] : \E i \in DOMAIN Plan[v][r].calls : Plan[v][r].calls[i].name = "sleep"

\* a call that needs no more attempt, or has a member at work
Settled(id) ==
  \/ \E k \in 1..Len(journal) : journal[k].id = id /\ journal[k].type \in Verdict
  \/ Spent(id) > Retries[id.name]
UnderWay(id) ==
  \E d \in Driver : pc[d] \in {"fan", "drain"} /\ \E k \in Members(d) : Member(d, k).at \in Live /\ Member(d, k).id = id

Whole ==
  \A k \in 1..Len(journal) : journal[k].id.name \in Task => Settled(journal[k].id) \/ UnderWay(journal[k].id)

SlotsOK(d) ==
  \A k \in Members(d) :
    /\ Member(d, k).slot = "unsafe" => CallOf(d, k).name \in Unsafe[code]
    /\ Member(d, k).slot = "parked" => CallOf(d, k).name = "sleep"

WholeInv ==
  /\ crashes \in Nat /\ \A d \in Driver : pc[d] = "settle" => TerminalIndices(journal) # {}
  /\ crashes = 0 =>
       /\ ~mixed /\ \A d \in Driver : pc[d] \in {"fan", "drain"} => SlotsOK(d)
       /\ Sleeps(code) => Whole
       /\ ~Sleeps(code) => status # "waiting"

\* What is settled stays so.
LEMMA StaysSettled ==
  ASSUME FanTypes, Grows, NEW x, Settled(x), x.name \in Task
  PROVE  Settled(x)'
<1>1. CASE UNCHANGED journal
  BY <1>1 DEF Settled, Spent, Failures
<1>2. ASSUME NEW e \in Fact, journal' = Append(journal, e) PROVE Settled(x)'
  <2>1. CASE \E k \in 1..Len(journal) : journal[k].id = x /\ journal[k].type \in Verdict
    <3>1. \A k \in 1..Len(journal) : k \in 1..Len(journal') /\ journal'[k] = journal[k]
      BY GrowthIsTyped
    <3> QED BY <2>1, <3>1 DEF Settled
  <2>2. CASE Spent(x) > Retries[x.name]
    <3>1. Spent(x) \in Nat /\ Spent(x)' = IF e.type = "TaskAttemptFailed" /\ e.id = x THEN Spent(x) + 1 ELSE Spent(x)
      BY <1>2, SpentGrows
    <3>2. Retries[x.name] \in Nat
      BY RetriesAreNatural
    <3>3. Spent(x)' > Retries[x.name]
      BY <2>2, <3>1, <3>2
    <3> QED BY <3>3 DEF Settled
  <2> QED BY <2>1, <2>2 DEF Settled
<1> QED BY <1>1, <1>2 DEF Grows

\* Where nothing is under way, or what is stays so, a quiet step leaves the run whole.
LEMMA QuietIsWhole ==
  ASSUME FanTypes, Whole, Quiet, Grows,
         \A x : UnderWay(x) => UnderWay(x)'
  PROVE  Whole'
<1> SUFFICES ASSUME NEW k \in 1..Len(journal'), NEW x, x = journal'[k].id, x.name \in Task
             PROVE  Settled(x)' \/ UnderWay(x)'
  BY DEF Whole
<1>1. k \in 1..Len(journal) /\ journal'[k] = journal[k]
  <2>1. CASE UNCHANGED journal
    BY <2>1
  <2>2. ASSUME NEW e \in Fact, journal' = Append(journal, e), e.id.name \notin Task
        PROVE  k \in 1..Len(journal) /\ journal'[k] = journal[k]
    <3>1. journal'[Len(journal) + 1] = e
      BY <2>2 DEF FanTypes
    <3> QED BY <2>2, <3>1, GrowthIsTyped
  <2> QED BY <2>1, <2>2 DEF Quiet
<1>2. Settled(x) \/ UnderWay(x)
  BY <1>1 DEF Whole
<1> QED BY <1>2, StaysSettled

\* A member that had begun, or records an event, is still at work or settles its call.
LEMMA MoverIsWhole ==
  ASSUME FanTypes, NEW d \in Driver, NEW i \in Members(d), FanOK(d),
         MemberMoves(d, i), Begins(d, i) \/ GoesOn(d, i),
         ~UNCHANGED journal \/ Member(d, i).at \in Live,
         NEW id, id = frame'[d].members[i].id, id.name \in Task
  PROVE  frame'[d].members[i].at \in Live \/ Settled(id)'
<1> DEFINE m == frame'[d].members[i]
<1>0. MemberOK(d, i) /\ LiveOK(d, i) /\ "sleep" \notin Task
  BY NamesAreApart DEF FanTypes, FrameOK, FanOK
<1>1. CASE Begins(d, i)
  <2>1. Member(d, i).at = "new" /\ m.id = CallId(d, i) /\ CallId(d, i).name = CallOf(d, i).name
    BY <1>1, CallsAreTyped DEF Begins, MayBegin
  <2> QED BY <1>0, <1>1, <2>1 DEF Begins, Live
<1>2. CASE GoesOn(d, i)
  <2>1. id = Member(d, i).id
    BY <1>2 DEF GoesOn
  <2>2. Member(d, i).at \in {"attempt", "body", "backoff", "spent", "waiting"}
    BY <1>2 DEF GoesOn
  <2>3. ASSUME NEW type \in Verdict, Records(type, id) PROVE Settled(id)'
    <3>1. PICK e \in Fact : e.type = type /\ e.id = id /\ journal' = Append(journal, e)
      BY <2>3 DEF Records
    <3>2. Len(journal) + 1 \in 1..Len(journal') /\ journal'[Len(journal) + 1] = e
      BY <3>1 DEF FanTypes
    <3> QED BY <3>1, <3>2 DEF Settled
  <2>4. ASSUME Member(d, i).at = "body", Records("TaskAttemptFailed", id), ~RetriesLeft(d, i) PROVE Settled(id)'
    <3>1. PICK e \in Fact : e.type = "TaskAttemptFailed" /\ e.id = id /\ journal' = Append(journal, e)
      BY <2>4 DEF Records
    <3>2. Spent(id) \in Nat /\ Spent(id)' = Spent(id) + 1
      BY <3>1, SpentGrows
    <3>3. Member(d, i).failures = Spent(id)
      BY <1>0, <2>1, <2>4 DEF LiveOK, Live
    <3>4. Retries[id.name] \in Nat /\ ~(Spent(id) + 1 <= Retries[id.name])
      BY <2>1, <2>4, <3>3, RetriesAreNatural DEF RetriesLeft
    <3>5. Spent(id)' > Retries[id.name]
      BY <3>2, <3>4
    <3> QED BY <3>5 DEF Settled
  <2>5. Member(d, i).at # "waiting"
    BY <1>0, <2>1 DEF MemberOK
  <2>6. Records("TaskCompleted", id) \/ Records("TaskFailed", id) => Settled(id)'
    BY <2>3 DEF Verdict
  <2>7. Member(d, i).at \in {"attempt", "backoff"} => m.at \in Live
    BY <1>2 DEF GoesOn, Live
  <2>8. Member(d, i).at = "spent" => Records("TaskFailed", id)
    BY <1>2, <2>1 DEF GoesOn
  <2>9. Member(d, i).at = "body" =>
          \/ Records("TaskCompleted", id)
          \/ Records("TaskAttemptFailed", id) /\ (m.at \in Live \/ ~RetriesLeft(d, i))
    BY <1>2, <2>1 DEF GoesOn, Live
  <2> QED BY <2>2, <2>4, <2>5, <2>6, <2>7, <2>8, <2>9
<1> QED BY <1>1, <1>2

\* A member's step leaves the run whole.
LEMMA StepIsWhole ==
  ASSUME OneDriver, FanTypes, NEW d \in Driver, NEW i \in Members(d), FanOK(d),
         pc[d] \in {"fan", "drain"}, Whole, CallStep(d, i)
  PROVE  Whole'
<1>1. MemberMoves(d, i) /\ (Begins(d, i) \/ GoesOn(d, i)) /\ Grows
  BY CallStepMoves
<1>2. /\ pc'[d] = pc[d] /\ Members(d)' = Members(d) /\ Member(d, i)' = frame'[d].members[i]
      /\ \A k \in Members(d) \ {i} : Member(d, k)' = Member(d, k)
  BY <1>1 DEF MemberMoves, Members, Member
<1>3. PICK id : id = frame'[d].members[i].id
  OBVIOUS
<1>4. ASSUME ~UNCHANGED journal \/ Member(d, i).at \in Live, id.name \in Task
      PROVE  Settled(id)' \/ UnderWay(id)'
  <2>1. frame'[d].members[i].at \in Live \/ Settled(id)'
    BY <1>1, <1>3, <1>4, MoverIsWhole
  <2>2. frame'[d].members[i].at \in Live => UnderWay(id)'
    BY <1>2, <1>3 DEF UnderWay
  <2> QED BY <2>1, <2>2
<1>5. ASSUME NEW y, y.name \in Task, UnderWay(y) PROVE Settled(y)' \/ UnderWay(y)'
  <2>1. PICK k \in Members(d) : Member(d, k).at \in Live /\ Member(d, k).id = y
    BY <1>5 DEF UnderWay, OneDriver
  <2>2. CASE k # i
    BY <1>2, <2>1, <2>2 DEF UnderWay
  <2>3. CASE k = i
    <3>1. Member(d, i).at # "new"
      BY <2>1, <2>3 DEF Live
    <3>2. id = y
      BY <1>1, <1>3, <2>1, <2>3, <3>1 DEF GoesOn, Begins, MayBegin
    <3> QED BY <1>4, <1>5, <2>1, <2>3, <3>2
  <2> QED BY <2>2, <2>3
<1> SUFFICES ASSUME NEW k \in 1..Len(journal'), NEW x, x = journal'[k].id, x.name \in Task
             PROVE  Settled(x)' \/ UnderWay(x)'
  BY DEF Whole
<1>6. CASE k \in 1..Len(journal)
  <2>1. journal'[k] = journal[k]
    BY <1>1, <1>6, GrowthIsTyped
  <2>2. Settled(x) \/ UnderWay(x)
    BY <1>6, <2>1 DEF Whole
  <2> QED BY <1>1, <1>5, <2>2, StaysSettled
<1>7. CASE k \notin 1..Len(journal)
  <2>1. k = Len(journal) + 1 /\ Len(journal') = k /\ Len(journal) \in Nat
    BY <1>1, <1>7, GrowthIsTyped
  <2>2. PICK e \in Fact : journal' = Append(journal, e) /\ e.id = id
    <3>1. ~UNCHANGED journal
      BY <2>1
    <3> QED BY <1>1, <1>3, <3>1 DEF Begins, GoesOn, Records
  <2>3. journal'[k].id = id
    BY <2>1, <2>2 DEF FanTypes
  <2> QED BY <1>4, <2>1, <2>3
<1> QED BY <1>6, <1>7


\* While the code is the same, a member is refused for its effect or parked as it sleeps.
LEMMA StepSlots ==
  ASSUME FanTypes, ResultsAreValues, TasksAreScheduled, InOrder(journal, code),
         NEW d \in Driver, NEW i \in Members(d), ReplayOK(d), SlotsOK(d), CallStep(d, i)
  PROVE  SlotsOK(d)'
<1>1. MemberMoves(d, i)
  BY CallStepMoves
<1>2. /\ Members(d)' = Members(d) /\ Member(d, i)' = frame'[d].members[i] /\ code' = code
      /\ \A k \in Members(d) \ {i} : Member(d, k)' = Member(d, k)
      /\ \A k : CallOf(d, k)' = CallOf(d, k)
  BY <1>1 DEF MemberMoves, Members, Member, CallOf, CurrentRound
<1>3. ~Refuse(d, i)
  BY NoneDiverges DEF Refuse
<1>4. /\ frame'[d].members[i].slot = "unsafe" => CallOf(d, i).name \in Unsafe[code]
      /\ frame'[d].members[i].slot = "parked" => CallOf(d, i).name = "sleep"
  <2>1. CASE BeginStep(d, i)
    BY <1>3, <2>1, BegunIsScheduled DEF ReplayOK
  <2>2. CASE GoOnStep(d, i)
    BY <2>2, GoneOnIsNotRefused DEF Propagating
  <2> QED BY <2>1, <2>2, CallStepKinds
<1>5. ASSUME NEW k \in Members(d)
      PROVE  /\ Member(d, k)'.slot = "unsafe" => CallOf(d, k).name \in Unsafe[code]
             /\ Member(d, k)'.slot = "parked" => CallOf(d, k).name = "sleep"
  BY <1>2, <1>4 DEF SlotsOK
<1> QED BY <1>2, <1>5 DEF SlotsOK

LEMMA NewSlots ==
  ASSUME NEW d \in Driver, \A k \in Members(d)' : Member(d, k)'.slot = "none"
  PROVE  SlotsOK(d)'
  BY DEF SlotsOK

\* The calls of the members are calls of the workflow.
LEMMA SleepersAreNotRefused ==
  ASSUME SleepersAreSafe, FanTypes, NEW d \in Driver, SlotsOK(d)
  PROVE  /\ Has(d, {"parked"}) => Sleeps(code)
         /\ Sleeps(code) => ~Has(d, {"unsafe"})
<1>1. ASSUME NEW i \in Members(d)
      PROVE  \E r \in DOMAIN Plan[code] : i \in DOMAIN Plan[code][r].calls /\ CallOf(d, i) = Plan[code][r].calls[i]
  BY DEF FanTypes, FrameOK, MemberOK, InRound, CurrentRound, CallOf
<1>2. ASSUME NEW i \in Members(d), Member(d, i).slot = "parked" PROVE Sleeps(code)
  BY <1>1, <1>2 DEF SlotsOK, Sleeps
<1>3. ASSUME Sleeps(code), NEW i \in Members(d), Member(d, i).slot = "unsafe" PROVE FALSE
  <2>1. CallOf(d, i).name \in Unsafe[code] /\ code \in Version
    BY <1>3 DEF SlotsOK, FanTypes
  <2> QED BY <1>1, <1>3, <2>1 DEF Sleeps, SleepersAreSafe
<1> QED BY <1>2, <1>3 DEF Has

\* A drive none of whose members is at work leaves every call settled.
LEMMA NothingUnderWay ==
  ASSUME OneDriver, NEW d \in Driver, pc[d] \in {"fan", "drain"} => Over(d)
  PROVE  \A x : ~UnderWay(x)
  BY DEF OneDriver, UnderWay, Over, Live

\* The run has an outcome once a drive settles it, and keeps it.
LEMMA OutcomeStays ==
  ASSUME FanTypes, Grows, TerminalIndices(journal) # {}
  PROVE  TerminalIndices(journal)' # {}
<1>1. PICK k \in TerminalIndices(journal) : TRUE
  OBVIOUS
<1>2. k \in 1..Len(journal) /\ DOMAIN journal' = 1..Len(journal') /\ journal'[k] = journal[k]
      /\ k \in 1..Len(journal')
  <2>1. k \in 1..Len(journal)
    BY <1>1 DEF TerminalIndices, FanTypes
  <2> QED BY <2>1, GrowthIsTyped
<1> QED BY <1>1, <1>2 DEF TerminalIndices

LEMMA OutcomeIsRecorded ==
  ASSUME FanTypes, NEW type \in {"WorkflowCompleted", "WorkflowFailed"}, Commit(type, NoId, 0, "none")
  PROVE  TerminalIndices(journal)' # {}
<1> DEFINE e == Entry(type, NoId, 0, "none")
<1>1. e.type = type /\ journal' = Append(journal, e)
  BY DEF Entry, Commit
<1> HIDE DEF e
<1>2. Len(journal) + 1 \in DOMAIN journal' /\ journal'[Len(journal) + 1] = e
  <2>1. Grows
    BY RunEventGrows
  <2> QED BY <1>1, <2>1, GrowthIsTyped DEF FanTypes
<1> QED BY <1>1, <1>2 DEF TerminalIndices, TerminalType

LEMMA OutcomeIsNoWait ==
  ASSUME FanTypes, TerminalIndices(journal) # {}
  PROVE  RecordedTerminalStatus(journal) # "waiting"
<1>1. DOMAIN journal = 1..Len(journal) /\ Len(journal) \in Nat
  BY DEF FanTypes
<1>2. RecordedTerminalStatus(journal) \in TerminalStatus
  BY <1>1, LastTerminal
<1> QED BY <1>2 DEF TerminalStatus


LEMMA DriveStepWhole ==
  ASSUME SleepersAreSafe, OneDriver, FanTypes, ResultsAreValues, OrderInv, DurableInv, WholeInv,
         NEW d \in Driver, DriveStep(d) \/ Redrive(d)
  PROVE  WholeInv'
<1>0. pc \in [Driver -> Pcs] /\ UNCHANGED <<code, mixed, crashes>> /\ crashes \in Nat
  BY DriveStepKeepsCode DEF FanTypes, Pcs, WholeInv
<1>1. ASSUME pc'[d] = "settle" => TerminalIndices(journal)' # {},
             crashes = 0 => /\ pc'[d] \in {"fan", "drain"} => SlotsOK(d)'
                            /\ Sleeps(code) => Whole'
                            /\ ~Sleeps(code) => status' # "waiting"
      PROVE  WholeInv'
  <2>1. \A e \in Driver : pc'[e] = "settle" => TerminalIndices(journal)' # {}
    BY <1>1 DEF OneDriver
  <2>2. crashes = 0 => \A e \in Driver : pc'[e] \in {"fan", "drain"} => SlotsOK(e)'
    BY <1>1 DEF OneDriver
  <2>3. Sleeps(code)' <=> Sleeps(code)
    BY <1>0
  <2> QED BY <1>0, <1>1, <2>1, <2>2, <2>3 DEF WholeInv
<1>2. ASSUME crashes = 0
      PROVE  /\ ~mixed /\ ~Has(d, {"diverged"}) /\ InOrder(journal, code) /\ TasksAreScheduled
             /\ pc[d] \in {"fan", "drain"} => SlotsOK(d) /\ ReplayOK(d) /\ FanOK(d)
             /\ Sleeps(code) => Whole
             /\ ~Sleeps(code) => status # "waiting"
  BY <1>2 DEF WholeInv, OrderInv, DurableInv, DriveOK
<1>3. ASSUME Quiet, Grows, pc[d] \in {"fan", "drain"} => Over(d), crashes = 0, Sleeps(code) PROVE Whole'
  <2>1. \A x : UnderWay(x) => UnderWay(x)'
    BY <1>3, NothingUnderWay
  <2> QED BY <1>2, <1>3, <2>1, QuietIsWhole
<1>4. ASSUME NEW i \in Members(d), CallStep(d, i) PROVE WholeInv'
  <2>1. pc[d] \in {"fan", "drain"} /\ UNCHANGED <<pc, status>>
    BY <1>4, CallStepKinds DEF BeginStep, GoOnStep, Refuse, ReuseResult, ReuseFailure, RefuseEffect, Schedule,
       SleepOver, CreateTimer, Misses, CallBegins, MayBegin, StartAttempt, Complete, FailAttempt, Backoff,
       RecordFailure, RecordWaiting, Holds, rest
  <2>2. crashes = 0 => SlotsOK(d)'
    BY <1>2, <1>4, <2>1, StepSlots
  <2>3. crashes = 0 /\ Sleeps(code) => Whole'
    BY <1>2, <1>4, <2>1, StepIsWhole
  <2> QED BY <1>1, <1>2, <2>1, <2>2, <2>3
<1>5. ASSUME Over(d), NEW o \in Seq(OutcomeType), Rejoin(d, o) PROVE WholeInv'
  <2>1. UNCHANGED <<journal, status>> /\ pc'[d] = "fan"
    BY <1>0, <1>5 DEF Rejoin
  <2>2. \A k \in Members(d)' : Member(d, k)'.slot = "none"
    BY <1>5, RejoinFrame DEF Members, Member, NewMember
  <2>3. SlotsOK(d)'
    BY <2>2, NewSlots
  <2> QED BY <1>1, <1>2, <1>3, <1>5, <2>1, <2>3 DEF Quiet, Grows
<1>6. CASE ReturnAll(d)
  BY <1>5, <1>6, OutcomesAreTyped DEF ReturnAll
<1>7. CASE RaiseInside(d)
  <2>1. FirstRaised(d) \in Members(d)
    BY <1>7, FirstRaisedIsMember DEF RaiseInside, Raises, Fans, FanTypes, FrameOK
  <2>2. PICK x \in OutcomeType : x = Outcome(d, FirstRaised(d))
    BY <2>1, OutcomesAreTyped
  <2>3. <<x>> \in Seq(OutcomeType)
    OBVIOUS
  <2>4. Over(d) /\ Rejoin(d, <<x>>)
    BY <1>7, <2>2 DEF RaiseInside, Raises, Drained
  <2> QED BY <1>5, <2>3, <2>4
\* a run that parks is refused nothing, so that no call is cut off
<1>8. CASE Abort(d)
  <2>1. UNCHANGED <<journal, status>> /\ pc'[d] = "idle" /\ pc[d] = "fan" /\ Has(d, Propagating)
    BY <1>0, <1>8 DEF Abort, Release, Fans
  <2>2. crashes = 0 => ~Sleeps(code)
    <3>1. Has(d, {"diverged"}) \/ Has(d, {"unsafe"})
      BY <2>1 DEF Has, Propagating
    <3> QED BY <1>2, <2>1, <3>1, SleepersAreNotRefused
  <2> QED BY <1>1, <1>2, <2>1, <2>2
<1>9. CASE RaisePark(d)
  <2>1. UNCHANGED journal /\ pc'[d] = "idle" /\ pc[d] = "drain" /\ Over(d)
        /\ Member(d, FirstRaised(d)).slot = "parked"
    BY <1>0, <1>9 DEF RaisePark, Release, Raises, Fans, Drained
  <2>2. FirstRaised(d) \in Members(d)
    BY <2>1, FirstRaisedIsMember DEF FanTypes, FrameOK
  <2>3. crashes = 0 => Sleeps(code)
    BY <1>2, <2>1, <2>2, SleepersAreNotRefused DEF Has
  <2> QED BY <1>1, <1>3, <2>1, <2>3 DEF Quiet, Grows
<1>10. CASE DriveTerminal(d) \/ SettleStatus(d)
  <2>1. /\ UNCHANGED journal /\ pc'[d] = "idle" /\ pc[d] \in {"drive", "settle"}
        /\ TerminalIndices(journal) # {} /\ status' = RecordedTerminalStatus(journal)
    BY <1>0, <1>10 DEF DriveTerminal, SettleStatus, Release, WholeInv
  <2>2. status' # "waiting"
    BY <2>1, OutcomeIsNoWait
  <2> QED BY <1>1, <1>3, <2>1, <2>2 DEF Quiet, Grows
<1>11. CASE RaiseFailure(d) \/ Return(d)
  <2>1. /\ Quiet /\ Grows /\ UNCHANGED status /\ pc'[d] = "settle" /\ TerminalIndices(journal)' # {}
    BY <1>0, <1>11, RunEventsAreQuiet, RunEventGrows, OutcomeIsRecorded DEF RaiseFailure, Return
  <2>2. Over(d)
    BY <1>11 DEF RaiseFailure, Raises, Drained, Return, Over
  <2> QED BY <1>1, <1>2, <1>3, <2>1, <2>2
<1>12. CASE Notice(d)
  <2>1. UNCHANGED <<journal, status, frame>> /\ pc[d] = "fan" /\ pc'[d] = "drain"
    BY <1>0, <1>12 DEF Notice, Fans
  <2>2. crashes = 0 => SlotsOK(d)'
    BY <1>0, <1>2, <2>1 DEF SlotsOK, Members, Member, CallOf, CurrentRound
  <2>3. \A x : UnderWay(x) => UnderWay(x)'
    BY <2>1 DEF OneDriver, UnderWay, Members, Member
  <2>4. crashes = 0 /\ Sleeps(code) => Whole'
    BY <1>2, <2>1, <2>3, QuietIsWhole DEF Quiet, Grows
  <2> QED BY <1>1, <1>2, <2>1, <2>2, <2>4
<1>13. CASE DriveLoad(d)
  <2>1. UNCHANGED <<journal, status>> /\ pc[d] = "drive" /\ pc'[d] = "fan"
    BY <1>0, <1>13 DEF DriveLoad
  <2>2. \A k \in Members(d)' : Member(d, k)'.slot = "none"
    BY <1>13, LoadFrame DEF Members, Member, NewMember
  <2>3. SlotsOK(d)'
    BY <2>2, NewSlots
  <2> QED BY <1>1, <1>2, <1>3, <2>1, <2>3 DEF Quiet, Grows
<1>14. CASE Redrive(d)
  <2>1. UNCHANGED <<journal, status>> /\ pc[d] = "idle" /\ pc'[d] = "drive"
    BY <1>0, <1>14 DEF Redrive
  <2> QED BY <1>1, <1>2, <1>3, <2>1 DEF Quiet, Grows
<1> QED BY <1>4, <1>6, <1>7, <1>8, <1>9, <1>10, <1>11, <1>12, <1>13, <1>14 DEF DriveStep

LEMMA StillWhole ==
  ASSUME FanTypes, WholeInv, Grows, Quiet, UNCHANGED <<pc, code, mixed, crashes, status, frame>>
  PROVE  WholeInv'
<1>1. TerminalIndices(journal) # {} => TerminalIndices(journal)' # {}
  BY OutcomeStays
<1>2. \A d \in Driver : SlotsOK(d) => SlotsOK(d)'
  BY DEF SlotsOK, Members, Member, CallOf, CurrentRound
<1>3. \A x : UnderWay(x) => UnderWay(x)'
  BY DEF UnderWay, Members, Member
<1>4. Whole => Whole'
  BY <1>3, QuietIsWhole
<1> QED BY <1>1, <1>2, <1>4 DEF WholeInv

LEMMA NextWhole ==
  ASSUME SleepersAreSafe, OneDriver, FanTypes, ResultsAreValues, OrderInv, DurableInv, WholeInv, [Next]_vars
  PROVE  WholeInv'
<1>1. CASE UNCHANGED vars
  BY <1>1, StillWhole DEF vars, Quiet, Grows
<1>2. ASSUME NEW id \in IdsOf("TimerCreated"), FireTimer(id) PROVE WholeInv'
  <2>1. Quiet /\ Grows /\ UNCHANGED <<pc, code, mixed, crashes, status, frame>>
    BY <1>2, FireTimerGrows, FireTimerIsQuiet DEF FireTimer
  <2> QED BY <2>1, StillWhole
<1>3. CASE Crash
  <2>1. crashes' \in Nat /\ crashes' # 0 /\ \A d \in Driver : pc'[d] = "idle"
    BY <1>3 DEF Crash, WholeInv
  <2> QED BY <2>1 DEF WholeInv
<1>4. ASSUME NEW d \in Driver, DriveStep(d) \/ Redrive(d) PROVE WholeInv'
  BY <1>4, DriveStepWhole
<1> QED BY <1>1, <1>2, <1>3, <1>4 DEF Next

LEMMA InitWhole == Init => WholeInv
<1> SUFFICES ASSUME Init PROVE WholeInv
  OBVIOUS
<1>1. /\ Len(journal) = 0 /\ crashes = 0 /\ mixed = FALSE /\ status = "running"
      /\ \A d \in Driver : pc[d] = "idle"
  BY DEF Init
<1>2. Whole
  BY <1>1 DEF Whole
<1> QED BY <1>1, <1>2 DEF WholeInv

LEMMA WholeMeansParksWhole == FanTypes /\ WholeInv => ParksWhole
<1> SUFFICES ASSUME FanTypes, WholeInv, status = "waiting", Driving = {}, crashes = 0, NEW id \in TaskIds
             PROVE  \/ \E i \in DOMAIN journal : /\ journal[i].id = id
                                                 /\ journal[i].type \in {"TaskCompleted", "TaskFailed"}
                    \/ Failures(journal, Len(journal), id) > Retries[id.name]
  BY DEF ParksWhole
<1>1. Whole
  BY DEF WholeInv
<1>2. ~UnderWay(id)
  BY DEF UnderWay, Driving
<1>3. DOMAIN journal = 1..Len(journal)
  BY DEF FanTypes
<1>4. PICK k \in 1..Len(journal) : journal[k].id = id /\ id.name \in Task
  BY <1>3 DEF TaskIds
<1>5. Settled(id)
  BY <1>1, <1>2, <1>4 DEF Whole
<1> QED BY <1>3, <1>5 DEF Settled, Spent, Verdict

\* When one task at a time drives the run, no two of its maps share a key, and a workflow
\* that sleeps has no call that effect safety refuses: where nothing crashed, a run that
\* was released to wait has no call in flight, for every one is judged or has failed as
\* often as it may (_settle_composite, engine.py:684; the drain before the park).
THEOREM ParksWholeHolds ==
  ASSUME OneDriver, KeysApart, RefusedAreLast, SleepersAreSafe
  PROVE  Spec => []ParksWhole
<1> DEFINE Inv == FanTypes /\ ResultsAreValues /\ OrderInv /\ DurableInv /\ WholeInv
<1>1. Init => Inv
  BY InitTypes, InitInOrder, InitDurable, InitWhole
<1>2. Inv /\ [Next]_vars => Inv'
  BY NextTypes, NextInOrder, NextDurable, NextWhole
<1>3. Inv => ParksWhole
  BY WholeMeansParksWhole
<1> QED BY <1>1, <1>2, <1>3, PTL DEF Spec
=============================================================================
