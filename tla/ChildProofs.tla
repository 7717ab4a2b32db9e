------------------------------ MODULE ChildProofs ------------------------------
(***************************************************************************)
(* Theorems about ChildRun: for any workflows, ids and bounds, one call of *)
(* start_child has one child, a child resumes and does not start over,     *)
(* whoever drives it, and what a parent is handed is its child's one       *)
(* outcome.                                                                *)
(***************************************************************************)
EXTENDS ChildRun, FiniteSetTheorems, WellFoundedInduction, TLAPS

-----------------------------------------------------------------------------
(* The invariant.  Its parts are operators of the state they speak of (w:   *)
(* the calls of the root, J: the journals, O: the runs that two drivers     *)
(* were at), so that a fact about them is one about the next state too.     *)

EventName ==
  {"WorkflowCreated", "WorkflowResumed", "WorkflowWaiting", "TaskScheduled", "TaskCompleted",
   "TimerCreated", "TimerFired", "ChildWorkflowScheduled"} \cup TerminalEvent

Pc == {"unpark", "wait", "enter", "created", "load", "run", "body", "timer", "park", "parked",
       "fail", "named", "started", "await", "poll", "cancel", "settle"}

\* what an event or a drive may hold
Known == Value \cup Run \cup Nat \cup {"none", "woke", "handle", "parked", "error"}

EventType ==
  {e \in [type : EventName, call : Nat, val : Known] : e.type = "ChildWorkflowScheduled" => e.val \in Kid}

FrameType == [run : Run, pc : Pc, at : Nat, loaded : Nat, child : Run, last : Known]

\* a timer of a run
IsTimer(t) ==
  /\ t = [run |-> t.run, call |-> t.call, at |-> t.at, status |-> t.status]
  /\ t.run \in Run /\ t.call \in Nat

ChildTypes ==
  /\ journal \in [Run -> Seq(EventType)]
  /\ status = [q \in Run |-> status[q]]
  /\ \A t \in timers : IsTimer(t)
  /\ now \in Nat
  /\ setting \in [calls : RootCalls, background : BOOLEAN]
  /\ stack \in [Driver -> Seq(FrameType)]
  /\ tick = [phase |-> tick.phase, due |-> tick.due, woken |-> tick.woken]
  /\ \A t \in tick.due : IsTimer(t)
  /\ \A q \in tick.woken : q \in Run

Flow(w, q) == IF q = Root THEN w ELSE KidCalls

\* the journal of the root names k as the child of one of its calls
NamedIn(w, J, k) ==
  \E i \in 1..Len(J[Root]) : /\ J[Root][i].type = "ChildWorkflowScheduled"
                             /\ J[Root][i].val = k /\ J[Root][i].call \in DOMAIN w

\* the pcs of a drive that waits for another to end, and of one that has its journal
Outside == {"unpark", "wait"}
Loaded == {"run", "body", "timer", "park", "parked", "fail", "named", "started", "await", "poll"}

\* a drive is where its call takes it
Fits(w, f) ==
  LET op == Flow(w, f.run)[f.at] IN
  /\ f.at \in DOMAIN Flow(w, f.run)
  /\ f.pc = "body" => op = "task"
  /\ f.pc \in {"timer", "park", "parked"} => op = "sleep"
  /\ f.pc \in {"named", "started"} => op = "child"
  /\ f.pc \in {"await", "poll"} => op = "result"

\* it has been given its child
HasChild(w, f) ==
  f.pc \in {"named", "started"} \/ \E i \in 1..(f.at - 1) : Flow(w, f.run)[i] = "child"

\* only children the root has named are driven
KidsAreNamed(w, J, f) ==
  /\ f.run \in Kid => NamedIn(w, J, f.run)
  /\ HasChild(w, f) => f.child \in Kid /\ NamedIn(w, J, f.child)

\* what it has loaded says that the run goes on, and a body runs for want of a result
LoadedIsOpen(J, f) ==
  f.pc \in Loaded =>
    /\ f.loaded <= Len(J[f.run])
    /\ \A k \in 1..f.loaded : J[f.run][k].type \notin OutcomeEvent
    /\ f.pc = "body" =>
         \A k \in 1..f.loaded : ~(J[f.run][k].type = "TaskCompleted" /\ J[f.run][k].call = f.at)

\* what the journal got since comes from this drive: it is about calls behind it
NewsIsOwn(J, O, f) ==
  f.pc \in Loaded /\ f.run \notin O =>
    \A k \in 1..Len(J[f.run]) : k > f.loaded =>
      /\ J[f.run][k].type = "ChildWorkflowScheduled" =>
           J[f.run][k].call < f.at \/ (J[f.run][k].call = f.at /\ f.pc # "run")
      /\ J[f.run][k].type = "TaskCompleted" => J[f.run][k].call < f.at
      /\ J[f.run][k].type \notin OutcomeEvent

FrameOK(w, J, O, f) ==
  Fits(w, f) /\ KidsAreNamed(w, J, f) /\ LoadedIsOpen(J, f) /\ NewsIsOwn(J, O, f)

\* only a drive of the root has another inside it
Nested(s) ==
  \A i, k \in 1..Len(s) : i < k =>
    /\ s[i].run = Root
    /\ s[i].pc = "unpark" \/ (s[i].pc \in {"started", "await"} /\ s[k].run \in Kid)

\* a run is driven once at a time
Alone(S, q) ==
  \A d, e \in Driver : \A i \in 1..Len(S[d]), k \in 1..Len(S[e]) :
    /\ S[d][i].run = q /\ S[d][i].pc \notin Outside
    /\ S[e][k].run = q /\ S[e][k].pc \notin Outside
    => d = e /\ i = k

\* what is recorded of a call is recorded once
OnceIn(j) ==
  \A i, k \in 1..Len(j) :
    \/ /\ j[i].type \in {"TaskCompleted", "ChildWorkflowScheduled"}
       /\ j[k].type = j[i].type /\ j[k].call = j[i].call
    \/ j[i].type \in OutcomeEvent /\ j[k].type \in OutcomeEvent
    => i = k

DrivesOK ==
  \A d \in Driver :
    /\ Nested(stack[d])
    /\ \A i \in 1..Len(stack[d]) : FrameOK(setting.calls, journal, overlap, stack[d][i])

RunsOK == \A q \in Run : q \notin overlap => Alone(stack, q) /\ OnceIn(journal[q])

\* no run is there, has a timer or is woken that the root has not named
KidsOK ==
  \A k \in Kid :
    \/ status[k] # "none" \/ (\E t \in timers \cup tick.due : t.run = k) \/ k \in tick.woken
    => NamedIn(setting.calls, journal, k)

ChildInv == ChildTypes /\ DrivesOK /\ RunsOK /\ KidsOK

-----------------------------------------------------------------------------
(* Facts about the parts                                                    *)

Extends(j, k) == Len(j) <= Len(k) /\ \A i \in 1..Len(j) : k[i] = j[i]

\* what k has beyond j is of no drive's calls
News == {"TaskCompleted", "ChildWorkflowScheduled"} \cup OutcomeEvent
Quietly(j, k) == \A i \in 1..Len(k) : i > Len(j) => k[i].type \notin News

Journals == [Run -> Seq(EventType)]
Grown(J, K) == \A q \in Run : Extends(J[q], K[q])

\* the journal with one more event
LEMMA AppendedExtends ==
  ASSUME NEW j \in Seq(EventType), NEW e \in EventType
  PROVE  /\ Append(j, e) \in Seq(EventType) /\ Extends(j, Append(j, e))
         /\ Len(Append(j, e)) = Len(j) + 1 /\ Append(j, e)[Len(j) + 1] = e
         /\ e.type \notin News => Quietly(j, Append(j, e))
BY DEF Extends, Quietly

\* The workflows of the runs.
LEMMA FlowsEnd ==
  ASSUME NEW w \in RootCalls, NEW q \in Run
  PROVE  /\ Flow(w, q) \in Seq(Op) /\ Len(Flow(w, q)) > 0
         /\ Flow(w, q)[Len(Flow(w, q))] = "return"
BY CallsEnd DEF Flow

LEMMA OnlyTheRootHasChildren ==
  ASSUME NEW w \in RootCalls, NEW q \in Run, NEW i \in DOMAIN Flow(w, q),
         Flow(w, q)[i] \in {"child", "result"}
  PROVE  q = Root /\ Flow(w, q) = w
BY KidsAreChildless DEF Flow

\* A child that is named stays so.
LEMMA NamesStay ==
  ASSUME NEW w, NEW J \in Journals, NEW K \in Journals, Grown(J, K), NEW k, NamedIn(w, J, k)
  PROVE  NamedIn(w, K, k)
<1>1. Root \in Run /\ J[Root] \in Seq(EventType) /\ K[Root] \in Seq(EventType)
  BY DEF Run, Journals
<1>2. /\ Len(J[Root]) \in Nat /\ Len(K[Root]) \in Nat /\ Len(J[Root]) <= Len(K[Root])
      /\ \A i \in 1..Len(J[Root]) : K[Root][i] = J[Root][i]
  BY <1>1 DEF Grown, Extends
<1>3. PICK i \in 1..Len(J[Root]) :
        /\ J[Root][i].type = "ChildWorkflowScheduled"
        /\ J[Root][i].val = k /\ J[Root][i].call \in DOMAIN w
  BY DEF NamedIn
<1>4. i \in 1..Len(K[Root])
  BY <1>2
<1> QED BY <1>2, <1>3, <1>4 DEF NamedIn

LEMMA OnceStays ==
  ASSUME NEW j \in Seq(EventType), NEW k \in Seq(EventType), Extends(j, k), Quietly(j, k), OnceIn(j)
  PROVE  OnceIn(k)
<1>1. Len(j) \in Nat /\ Len(k) \in Nat /\ Len(j) <= Len(k)
  BY DEF Extends
<1>2. \A i \in 1..Len(k) : k[i].type \in News => i \in 1..Len(j) /\ k[i] = j[i]
  BY <1>1 DEF Quietly, Extends
<1>3. SUFFICES ASSUME NEW i \in 1..Len(k), NEW n \in 1..Len(k),
                      \/ /\ k[i].type \in {"TaskCompleted", "ChildWorkflowScheduled"}
                         /\ k[n].type = k[i].type /\ k[n].call = k[i].call
                      \/ k[i].type \in OutcomeEvent /\ k[n].type \in OutcomeEvent
               PROVE  i = n
  BY DEF OnceIn
<1>4. k[i].type \in News /\ k[n].type \in News
  BY <1>3 DEF News
<1>5. i \in 1..Len(j) /\ n \in 1..Len(j) /\ k[i] = j[i] /\ k[n] = j[n]
  BY <1>2, <1>4
<1> QED BY <1>3, <1>5 DEF OnceIn

\* A drive is not disturbed by what others record, unless it is news of its run.
LEMMA FrameStays ==
  ASSUME NEW w \in RootCalls, NEW J \in Journals, NEW K \in Journals, Grown(J, K),
         NEW O, NEW P, O \subseteq P, NEW f \in FrameType, FrameOK(w, J, O, f),
         Quietly(J[f.run], K[f.run]) \/ f.run \in P \/ f.pc \notin Loaded
  PROVE  FrameOK(w, K, P, f)
<1>1. f.run \in Run /\ f.loaded \in Nat /\ f.at \in Nat
  BY DEF FrameType
<1>2. /\ J[f.run] \in Seq(EventType) /\ K[f.run] \in Seq(EventType)
      /\ Extends(J[f.run], K[f.run])
  BY <1>1 DEF Journals, Grown
<1> DEFINE j == J[f.run]  k == K[f.run]
<1>3. /\ Len(j) \in Nat /\ Len(k) \in Nat /\ Len(j) <= Len(k)
      /\ \A i \in 1..Len(j) : k[i] = j[i]
  BY <1>2 DEF Extends
<1>4. Fits(w, f)
  BY DEF FrameOK
<1>5. KidsAreNamed(w, K, f)
  BY NamesStay DEF FrameOK, KidsAreNamed
<1>6. LoadedIsOpen(K, f)
  <2>1. LoadedIsOpen(J, f)
    BY DEF FrameOK
  <2> QED BY <2>1, <1>1, <1>3 DEF LoadedIsOpen
<1>7. NewsIsOwn(K, P, f)
  <2>1. SUFFICES ASSUME f.pc \in Loaded, f.run \notin P, NEW i \in 1..Len(k), i > f.loaded
                 PROVE  /\ k[i].type = "ChildWorkflowScheduled" =>
                             k[i].call < f.at \/ (k[i].call = f.at /\ f.pc # "run")
                        /\ k[i].type = "TaskCompleted" => k[i].call < f.at
                        /\ k[i].type \notin OutcomeEvent
    BY DEF NewsIsOwn
  <2>2. Quietly(j, k) /\ f.run \notin O
    BY <2>1
  <2>3. CASE i > Len(j)
    <3>1. k[i].type \notin News
      BY <2>2, <2>3 DEF Quietly
    <3> QED BY <3>1 DEF News
  <2>4. ASSUME ~(i > Len(j)) PROVE i \in 1..Len(j) /\ k[i] = j[i]
    BY <2>4, <1>3
  <2>5. NewsIsOwn(J, O, f)
    BY DEF FrameOK
  <2> QED BY <2>1, <2>2, <2>3, <2>4, <2>5 DEF NewsIsOwn
<1> QED BY <1>4, <1>5, <1>6, <1>7 DEF FrameOK

\* A drive begins.
LEMMA FrameBegins ==
  ASSUME NEW w \in RootCalls, NEW J, NEW O, NEW q \in Run, q \in Kid => NamedIn(w, J, q),
         NEW pc \in {"enter", "cancel", "load", "unpark"}
  PROVE  Frame(q, pc) \in FrameType /\ Frame(q, pc).run = q /\ Frame(q, pc).pc = pc
         /\ FrameOK(w, J, O, Frame(q, pc))
<1> DEFINE f == Frame(q, pc)
<1>1. f \in FrameType /\ f.run = q /\ f.pc = pc /\ f.at = 1 /\ f.child = q
  <2>1. pc \in Pc /\ "none" \in Known
    BY DEF Known, Pc
  <2> QED BY <2>1 DEF Frame, FrameType
<1> HIDE DEF f
<1>2. Fits(w, f)
  BY <1>1, FlowsEnd DEF Fits
<1>3. ~HasChild(w, f)
  BY <1>1 DEF HasChild
<1>4. pc \notin Loaded
  BY DEF Loaded
<1>5. FrameOK(w, J, O, f)
  BY <1>1, <1>2, <1>3, <1>4 DEF FrameOK, KidsAreNamed, LoadedIsOpen, NewsIsOwn
<1> QED BY <1>1, <1>5 DEF f

\* It goes from one pc to the next.
LEMMA FrameGoes ==
  ASSUME NEW w \in RootCalls, NEW J \in Journals, NEW O,
         NEW f \in FrameType, FrameOK(w, J, O, f),
         NEW p \in Pc, NEW g \in FrameType, g = [f EXCEPT !.pc = p], Fits(w, g),
         p \notin {"run", "body"}, p \in Loaded => f.pc \in Loaded,
         p \in {"named", "started"} => f.pc \in {"named", "started"}
  PROVE  FrameOK(w, J, O, g)
<1>1. g.run = f.run /\ g.at = f.at /\ g.loaded = f.loaded /\ g.child = f.child /\ g.pc = p
  BY DEF FrameType
<1>2. KidsAreNamed(w, J, g)
  BY <1>1 DEF FrameOK, KidsAreNamed, HasChild
<1>3. LoadedIsOpen(J, g)
  BY <1>1 DEF FrameOK, LoadedIsOpen
<1>4. NewsIsOwn(J, O, g)
  BY <1>1 DEF FrameOK, NewsIsOwn
<1> QED BY <1>2, <1>3, <1>4 DEF FrameOK

\* Its code goes on to the next call.
LEMMA FrameGoesOn ==
  ASSUME NEW w \in RootCalls, NEW J \in Journals, NEW O,
         NEW f \in FrameType, FrameOK(w, J, O, f), f.pc \in Loaded, NEW v \in Known,
         Flow(w, f.run)[f.at] \in {"task", "sleep", "result"} \/ f.pc = "started",
         NEW g \in FrameType, g = [f EXCEPT !.pc = "run", !.at = f.at + 1, !.last = v]
  PROVE  FrameOK(w, J, O, g)
<1>1. /\ g.run = f.run /\ g.at = f.at + 1 /\ g.loaded = f.loaded /\ g.child = f.child /\ g.pc = "run"
      /\ f.at \in Nat /\ f.run \in Run /\ f.loaded \in Nat
  BY DEF FrameType
<1>2. Fits(w, f)
  BY DEF FrameOK
<1> DEFINE s == Flow(w, f.run)
<1>3. s \in Seq(Op) /\ Len(s) > 0 /\ s[Len(s)] = "return" /\ f.at \in DOMAIN s
  BY <1>1, <1>2, FlowsEnd DEF Fits
<1>4. s[f.at] # "return"
  BY <1>2 DEF Fits
<1>5. f.at + 1 \in DOMAIN s
  BY <1>1, <1>3, <1>4
<1>6. Fits(w, g)
  BY <1>1, <1>5 DEF Fits
<1>7. HasChild(w, g) => HasChild(w, f)
  <2>1. ASSUME NEW i \in 1..f.at, s[i] = "child" PROVE HasChild(w, f)
    <3>1. CASE i = f.at
      BY <2>1, <3>1 DEF HasChild
    <3>2. CASE i # f.at
      BY <2>1, <3>2, <1>1 DEF HasChild
    <3> QED BY <3>1, <3>2
  <2> QED BY <2>1, <1>1 DEF HasChild
<1>8. KidsAreNamed(w, J, g)
  BY <1>1, <1>7 DEF FrameOK, KidsAreNamed
<1>9. LoadedIsOpen(J, g)
  BY <1>1 DEF FrameOK, LoadedIsOpen
<1>10. NewsIsOwn(J, O, g)
  <2>1. NewsIsOwn(J, O, f)
    BY DEF FrameOK
  <2>2. SUFFICES ASSUME f.run \notin O, NEW k \in 1..Len(J[f.run]), k > f.loaded
                 PROVE  /\ J[f.run][k].type = "ChildWorkflowScheduled" => J[f.run][k].call < f.at + 1
                        /\ J[f.run][k].type = "TaskCompleted" => J[f.run][k].call < f.at + 1
                        /\ J[f.run][k].type \notin OutcomeEvent
    BY <1>1 DEF NewsIsOwn
  <2>3. J[f.run] \in Seq(EventType)
    BY <1>1 DEF Journals
  <2>4. J[f.run][k].call \in Nat
    BY <2>2, <2>3 DEF EventType
  <2> QED BY <2>1, <2>2, <2>4, <1>1 DEF NewsIsOwn
<1> QED BY <1>6, <1>8, <1>9, <1>10 DEF FrameOK

-----------------------------------------------------------------------------
(* The stacks of the drivers                                                *)

Stacks == [Driver -> Seq(FrameType)]

\* driver d holds s from now on, the others what they held
Holds(S, T, d, s) == s \in Seq(FrameType) /\ T[d] = s /\ \A e \in Driver \ {d} : T[e] = S[e]

LastIn(s) == s[Len(s)]

\* s with another innermost drive, without it, and with one more inside it
Replaced(s, t, g) ==
  /\ Len(s) > 0 /\ Len(t) = Len(s) /\ t[Len(s)] = g
  /\ \A i \in 1..(Len(s) - 1) : t[i] = s[i]
Popped(s, t) == Len(s) > 0 /\ Len(t) = Len(s) - 1 /\ \A i \in 1..Len(t) : t[i] = s[i]
Pushed(s, t, g, h) ==
  /\ Len(s) > 0 /\ Len(t) = Len(s) + 1 /\ t[Len(s)] = g /\ t[Len(s) + 1] = h
  /\ \A i \in 1..(Len(s) - 1) : t[i] = s[i]

LEMMA TopIsTyped ==
  ASSUME ChildTypes, DrivesOK, NEW d \in Driver, stack[d] # <<>>
  PROVE  /\ stack[d] \in Seq(FrameType) /\ Len(stack[d]) \in Nat /\ Len(stack[d]) > 0
         /\ Top(d) = LastIn(stack[d]) /\ Top(d) \in FrameType
         /\ FrameOK(setting.calls, journal, overlap, Top(d))
<1>1. stack[d] \in Seq(FrameType) /\ Len(stack[d]) \in Nat /\ Len(stack[d]) > 0
  BY DEF ChildTypes
<1>2. Len(stack[d]) \in 1..Len(stack[d])
  BY <1>1
<1>3. Top(d) = LastIn(stack[d]) /\ Top(d) \in FrameType
  BY <1>1, <1>2 DEF Top, LastIn
<1>4. FrameOK(setting.calls, journal, overlap, Top(d))
  BY <1>2 DEF DrivesOK, Top
<1> QED BY <1>1, <1>3, <1>4

LEMMA StackIsReplaced ==
  ASSUME ChildTypes, NEW d \in Driver, stack[d] # <<>>, NEW g \in FrameType,
         stack' = [stack EXCEPT ![d][Len(stack[d])] = g]
  PROVE  stack' \in Stacks /\ Holds(stack, stack', d, stack'[d]) /\ Replaced(stack[d], stack'[d], g)
<1>1. stack \in Stacks /\ stack[d] \in Seq(FrameType) /\ Len(stack[d]) > 0 /\ Len(stack[d]) \in Nat
  BY DEF ChildTypes, Stacks
<1> DEFINE t == [stack[d] EXCEPT ![Len(stack[d])] = g]
<1>2. t \in Seq(FrameType) /\ Replaced(stack[d], t, g)
  BY <1>1 DEF Replaced
<1>3. stack' = [stack EXCEPT ![d] = t]
  BY <1>1 DEF Stacks
<1> HIDE DEF t
<1> QED BY <1>1, <1>2, <1>3 DEF Holds, Stacks

LEMMA StackIsPopped ==
  ASSUME ChildTypes, NEW d \in Driver, stack[d] # <<>>, Return(d)
  PROVE  stack' \in Stacks /\ Holds(stack, stack', d, stack'[d]) /\ Popped(stack[d], stack'[d])
<1>1. stack \in Stacks /\ stack[d] \in Seq(FrameType) /\ Len(stack[d]) > 0 /\ Len(stack[d]) \in Nat
  BY DEF ChildTypes, Stacks
<1> DEFINE t == SubSeq(stack[d], 1, Len(stack[d]) - 1)
<1>2. t \in Seq(FrameType) /\ Popped(stack[d], t)
  BY <1>1 DEF Popped
<1>3. stack' = [stack EXCEPT ![d] = t]
  BY <1>1 DEF Stacks, Return
<1> HIDE DEF t
<1> QED BY <1>1, <1>2, <1>3 DEF Holds, Stacks

LEMMA StackIsPushed ==
  ASSUME ChildTypes, NEW d \in Driver, stack[d] # <<>>, NEW g \in FrameType, NEW h \in FrameType,
         stack' = [stack EXCEPT ![d] = Append(SubSeq(@, 1, Len(@) - 1), g) \o <<h>>]
  PROVE  stack' \in Stacks /\ Holds(stack, stack', d, stack'[d]) /\ Pushed(stack[d], stack'[d], g, h)
<1>1. stack \in Stacks /\ stack[d] \in Seq(FrameType) /\ Len(stack[d]) > 0 /\ Len(stack[d]) \in Nat
  BY DEF ChildTypes, Stacks
<1> DEFINE n == Len(stack[d])
           s == SubSeq(stack[d], 1, n - 1)
           u == Append(s, g)
           t == u \o <<h>>
<1>2. s \in Seq(FrameType) /\ Len(s) = n - 1 /\ \A i \in 1..(n - 1) : s[i] = stack[d][i]
  BY <1>1
<1> HIDE DEF s
<1>3. /\ u \in Seq(FrameType) /\ Len(u) = n /\ u[n] = g
      /\ \A i \in 1..(n - 1) : u[i] = stack[d][i]
  BY <1>1, <1>2
<1> HIDE DEF u
<1>4. /\ t \in Seq(FrameType) /\ Len(t) = n + 1 /\ t[n] = g /\ t[n + 1] = h
      /\ \A i \in 1..(n - 1) : t[i] = stack[d][i]
  BY <1>1, <1>3
<1>5. stack' = [stack EXCEPT ![d] = t]
  BY <1>1 DEF Stacks, t, u, s
<1> HIDE DEF t
<1> QED BY <1>1, <1>4, <1>5 DEF Holds, Stacks, Pushed

LEMMA StackIsSet ==
  ASSUME ChildTypes, NEW d \in Driver, NEW s \in Seq(FrameType), stack' = [stack EXCEPT ![d] = s]
  PROVE  stack' \in Stacks /\ Holds(stack, stack', d, s)
BY DEF ChildTypes, Stacks, Holds

\* A run that is driven by no more than before is driven once at a time, as before.
LEMMA AloneStays ==
  ASSUME NEW S, NEW T, NEW q, Alone(S, q),
         \A d \in Driver : \A i \in 1..Len(T[d]) :
           T[d][i].run = q /\ T[d][i].pc \notin Outside =>
             i \in 1..Len(S[d]) /\ S[d][i].run = q /\ S[d][i].pc \notin Outside
  PROVE  Alone(T, q)
BY DEF Alone

-----------------------------------------------------------------------------
(* What a step may do                                                       *)

\* The store and the poll loop change for run r alone.
Effect(r) ==
  /\ setting' = setting /\ now' \in Nat /\ overlap \subseteq overlap'
  /\ journal' \in Journals /\ Grown(journal, journal')
  /\ \A q \in Run \ {r} : journal'[q] = journal[q]
  /\ status' = [q \in Run |-> status'[q]] /\ \A q \in Run \ {r} : status'[q] = status[q]
  /\ tick' = [phase |-> tick'.phase, due |-> tick'.due, woken |-> tick'.woken]
  /\ \A t \in timers' \cup tick'.due :
       IsTimer(t) /\ (t.run = r \/ \E u \in timers \cup tick.due : u.run = t.run)
  /\ \A q \in tick'.woken : q \in Run /\ (q = r \/ q \in tick.woken)

IsNamed(r) == r \in Run /\ (r \in Kid => NamedIn(setting.calls, journal, r))

LEMMA EffectsAreTyped ==
  ASSUME ChildTypes, NEW r, Effect(r), stack' \in Stacks
  PROVE  ChildTypes'
BY DEF ChildTypes, Effect, Journals, Stacks

LEMMA KidsStayNamed ==
  ASSUME ChildTypes, KidsOK, NEW r, IsNamed(r), Effect(r)
  PROVE  KidsOK'
<1>1. /\ setting.calls \in RootCalls /\ journal \in Journals /\ journal' \in Journals
      /\ Grown(journal, journal') /\ setting'.calls = setting.calls
  BY DEF ChildTypes, Effect, Journals
<1>2. SUFFICES ASSUME NEW k \in Kid,
                      \/ status'[k] # "none" \/ (\E t \in timers' \cup tick'.due : t.run = k)
                      \/ k \in tick'.woken
               PROVE  NamedIn(setting.calls, journal', k)
  BY <1>1 DEF KidsOK
<1>3. k \in Run
  BY DEF Run
<1>4. k = r \/ status[k] # "none" \/ (\E t \in timers \cup tick.due : t.run = k) \/ k \in tick.woken
  BY <1>2, <1>3 DEF Effect
<1>5. NamedIn(setting.calls, journal, k)
  BY <1>4 DEF KidsOK, IsNamed
<1> QED BY <1>1, <1>5, NamesStay

\* The journal of r got nothing that a drive's calls are about, or what its only drive,
\* the innermost one of d, recorded once.
Recording(d, r) ==
  \/ Quietly(journal[r], journal'[r])
  \/ /\ stack[d] # <<>> /\ Top(d).run = r /\ Top(d).pc \notin Outside
     /\ r \notin overlap => OnceIn(journal'[r])

LEMMA RecordedOnce ==
  ASSUME ChildTypes, RunsOK, NEW d \in Driver, NEW r \in Run, Effect(r), Recording(d, r)
  PROVE  \A q \in Run : q \notin overlap' => OnceIn(journal'[q])
<1>1. SUFFICES ASSUME NEW q \in Run, q \notin overlap' PROVE OnceIn(journal'[q])
  OBVIOUS
<1>2. q \notin overlap /\ OnceIn(journal[q])
  BY <1>1 DEF RunsOK, Effect
<1>3. CASE q # r
  BY <1>2, <1>3 DEF Effect
<1>4. ASSUME q = r, Quietly(journal[r], journal'[r]) PROVE OnceIn(journal'[q])
  <2>1. journal[r] \in Seq(EventType) /\ journal'[r] \in Seq(EventType) /\ Extends(journal[r], journal'[r])
    BY DEF ChildTypes, Effect, Journals, Grown
  <2> QED BY <2>1, <1>2, <1>4, OnceStays
<1> QED BY <1>2, <1>3, <1>4 DEF Recording

\* No drive but the one that records something is disturbed by it.
LEMMA OthersStay ==
  ASSUME ChildTypes, DrivesOK, RunsOK, NEW d \in Driver, NEW r \in Run, Effect(r), Recording(d, r),
         NEW e \in Driver, NEW i \in 1..Len(stack[e]),
         e # d \/ i # Len(stack[d]) \/ Quietly(journal[r], journal'[r])
  PROVE  FrameOK(setting.calls, journal', overlap', stack[e][i])
<1>1. /\ setting.calls \in RootCalls /\ journal \in Journals /\ journal' \in Journals
      /\ Grown(journal, journal') /\ \A q \in Run \ {r} : journal'[q] = journal[q]
      /\ overlap \subseteq overlap' /\ stack \in Stacks
  BY DEF ChildTypes, Effect, Journals, Stacks
<1>2. PICK f : f = stack[e][i]
  OBVIOUS
<1>3. f \in FrameType /\ FrameOK(setting.calls, journal, overlap, f) /\ f.run \in Run
  <2>1. stack[e] \in Seq(FrameType)
    BY <1>1 DEF Stacks
  <2>2. f \in FrameType
    BY <2>1, <1>2
  <2> QED BY <2>2, <1>2 DEF FrameType, DrivesOK
<1>4. ASSUME ~Quietly(journal[r], journal'[r]), f.run = r, r \notin overlap'
      PROVE  f.pc \notin Loaded
  <2>1. Alone(stack, r) /\ stack[d] \in Seq(FrameType) /\ stack[d] # <<>>
    BY <1>1, <1>4 DEF Stacks, RunsOK, Recording
  <2>2. Len(stack[d]) \in 1..Len(stack[d])
    BY <2>1
  <2>3. stack[d][Len(stack[d])].run = r /\ stack[d][Len(stack[d])].pc \notin Outside
    BY <1>4 DEF Recording, Top
  <2>4. f.pc \in Outside
    BY <1>2, <1>4, <2>1, <2>2, <2>3 DEF Alone
  <2> QED BY <2>4 DEF Outside, Loaded
<1>5. ASSUME f.run # r PROVE Quietly(journal[f.run], journal'[f.run])
  <2>1. journal'[f.run] = journal[f.run] /\ journal[f.run] \in Seq(EventType)
    BY <1>1, <1>3, <1>5 DEF Journals
  <2> QED BY <2>1 DEF Quietly
<1>6. Quietly(journal[f.run], journal'[f.run]) \/ f.run \in overlap' \/ f.pc \notin Loaded
  BY <1>4, <1>5
<1> QED BY <1>1, <1>2, <1>3, <1>6, FrameStays

\* The innermost drive of d goes on.
LEMMA AdvanceKeepsInv ==
  ASSUME ChildInv, NEW d \in Driver, stack[d] # <<>>, Effect(Top(d).run), Recording(d, Top(d).run),
         NEW g \in FrameType, stack' = [stack EXCEPT ![d][Len(stack[d])] = g],
         g.run = Top(d).run, g.pc \notin Outside => Top(d).pc \notin Outside,
         FrameOK(setting.calls, journal', overlap', g)
  PROVE  ChildInv'
<1> USE DEF ChildInv
<1>0. PICK r : r = Top(d).run
  OBVIOUS
<1>1. /\ stack[d] \in Seq(FrameType) /\ Len(stack[d]) \in Nat /\ Len(stack[d]) > 0
      /\ Top(d) = LastIn(stack[d]) /\ Top(d) \in FrameType
      /\ FrameOK(setting.calls, journal, overlap, Top(d))
  BY TopIsTyped
<1>2. r \in Run /\ IsNamed(r) /\ Effect(r) /\ Recording(d, r)
  BY <1>0, <1>1 DEF IsNamed, FrameOK, KidsAreNamed, FrameType
<1>3. stack' \in Stacks /\ Holds(stack, stack', d, stack'[d]) /\ Replaced(stack[d], stack'[d], g)
  BY StackIsReplaced
<1>4. setting'.calls = setting.calls /\ overlap \subseteq overlap'
  BY <1>2 DEF Effect
<1>5. ChildTypes' /\ KidsOK'
  BY <1>2, <1>3, EffectsAreTyped, KidsStayNamed
<1>6. \A e \in Driver : \A i \in 1..Len(stack'[e]) :
        \/ e = d /\ i = Len(stack[d]) /\ stack'[e][i] = g
        \/ i \in 1..Len(stack[e]) /\ stack'[e][i] = stack[e][i] /\ (e # d \/ i # Len(stack[d]))
  BY <1>1, <1>3 DEF Holds, Replaced
<1>7. ASSUME NEW e \in Driver, NEW i \in 1..Len(stack'[e])
      PROVE  FrameOK(setting.calls, journal', overlap', stack'[e][i])
  BY <1>2, <1>6, OthersStay
<1>8. ASSUME NEW e \in Driver PROVE Nested(stack'[e])
  <2>1. Nested(stack[e]) /\ Nested(stack[d])
    BY DEF DrivesOK
  <2>2. CASE e # d
    BY <2>1, <2>2, <1>3 DEF Holds
  <2>3. CASE e = d
    <3>1. \A i, k \in 1..Len(stack'[d]) : i < k =>
            /\ i \in 1..Len(stack[d]) /\ k \in 1..Len(stack[d])
            /\ stack'[d][i] = stack[d][i] /\ stack'[d][k].run = stack[d][k].run
      BY <1>1, <1>3 DEF Replaced, LastIn
    <3> QED BY <2>1, <2>3, <3>1 DEF Nested
  <2> QED BY <2>2, <2>3
<1>9. DrivesOK'
  BY <1>4, <1>7, <1>8 DEF DrivesOK
<1>10. ASSUME NEW q \in Run, q \notin overlap' PROVE Alone(stack', q)
  <2>1. Alone(stack, q)
    BY <1>4, <1>10 DEF RunsOK
  <2>2. Len(stack[d]) \in 1..Len(stack[d])
    BY <1>1
  <2>3. \A e \in Driver : \A i \in 1..Len(stack'[e]) :
          stack'[e][i].run = q /\ stack'[e][i].pc \notin Outside =>
            i \in 1..Len(stack[e]) /\ stack[e][i].run = q /\ stack[e][i].pc \notin Outside
    BY <1>1, <1>6, <2>2 DEF LastIn
  <2> QED BY <2>1, <2>3 DEF Alone
<1>11. RunsOK'
  BY <1>2, <1>10, RecordedOnce DEF RunsOK
<1> QED BY <1>5, <1>9, <1>11

\* It returns.
LEMMA ReturnKeepsInv ==
  ASSUME ChildInv, NEW d \in Driver, stack[d] # <<>>, Effect(Top(d).run), journal' = journal, Return(d)
  PROVE  ChildInv'
<1> USE DEF ChildInv
<1>0. PICK r : r = Top(d).run
  OBVIOUS
<1>1. /\ stack[d] \in Seq(FrameType) /\ Len(stack[d]) \in Nat /\ Len(stack[d]) > 0
      /\ Top(d) = LastIn(stack[d]) /\ Top(d) \in FrameType
      /\ FrameOK(setting.calls, journal, overlap, Top(d))
  BY TopIsTyped
<1>2. r \in Run /\ IsNamed(r) /\ Effect(r)
  BY <1>0, <1>1 DEF IsNamed, FrameOK, KidsAreNamed, FrameType
<1>3. Quietly(journal[r], journal'[r]) /\ Recording(d, r)
  <2>1. journal[r] \in Seq(EventType)
    BY <1>2 DEF ChildTypes
  <2> QED BY <2>1 DEF Quietly, Recording
<1>4. stack' \in Stacks /\ Holds(stack, stack', d, stack'[d]) /\ Popped(stack[d], stack'[d])
  BY StackIsPopped
<1>5. setting'.calls = setting.calls /\ overlap \subseteq overlap'
  BY <1>2 DEF Effect
<1>6. ChildTypes' /\ KidsOK'
  BY <1>2, <1>4, EffectsAreTyped, KidsStayNamed
<1>7. \A e \in Driver : \A i \in 1..Len(stack'[e]) :
        i \in 1..Len(stack[e]) /\ stack'[e][i] = stack[e][i]
  BY <1>1, <1>4 DEF Holds, Popped
<1>8. ASSUME NEW e \in Driver, NEW i \in 1..Len(stack'[e])
      PROVE  FrameOK(setting.calls, journal', overlap', stack'[e][i])
  BY <1>2, <1>3, <1>7, OthersStay
<1>9. ASSUME NEW e \in Driver PROVE Nested(stack'[e])
  BY <1>7 DEF DrivesOK, Nested
<1>10. DrivesOK'
  BY <1>5, <1>8, <1>9 DEF DrivesOK
<1>11. ASSUME NEW q \in Run, q \notin overlap' PROVE Alone(stack', q)
  BY <1>5, <1>7, <1>11, AloneStays DEF RunsOK
<1>12. RunsOK'
  BY <1>2, <1>3, <1>11, RecordedOnce DEF RunsOK
<1> QED BY <1>6, <1>10, <1>12

\* It starts another inside it.
LEMMA EnterKeepsInv ==
  ASSUME ChildInv, NEW d \in Driver, stack[d] # <<>>, Top(d).run = Root, Top(d).pc \notin Outside,
         NEW c \in Kid, NamedIn(setting.calls, journal, c), Effect(Root), journal' = journal,
         NEW p \in {"started", "await"}, FrameOK(setting.calls, journal, overlap', [Top(d) EXCEPT !.pc = p]),
         Enter(d, c, "enter", p)
  PROVE  ChildInv'
<1> USE DEF ChildInv
<1> DEFINE n == Len(stack[d])
<1>0. PICK g : g = [Top(d) EXCEPT !.pc = p]
  OBVIOUS
<1>1. /\ stack[d] \in Seq(FrameType) /\ n \in Nat /\ n > 0 /\ n \in 1..n
      /\ Top(d) = stack[d][n] /\ Top(d) \in FrameType
  BY TopIsTyped DEF LastIn
<1>2. g \in FrameType /\ g.run = Root /\ g.pc = p /\ FrameOK(setting.calls, journal, overlap', g)
  <2>1. p \in Pc
    BY DEF Pc
  <2> QED BY <1>0, <1>1, <2>1 DEF FrameType
<1>3. Root \in Run /\ c \in Run /\ c # Root /\ IsNamed(Root) /\ setting.calls \in RootCalls
  BY RootIsNoKid DEF Run, IsNamed, ChildTypes
<1>4. PICK h : h = Frame(c, "enter")
  OBVIOUS
<1>5. h \in FrameType /\ h.run = c /\ h.pc = "enter" /\ FrameOK(setting.calls, journal, overlap', h)
  BY <1>3, <1>4, FrameBegins
<1>6. stack' \in Stacks /\ Holds(stack, stack', d, stack'[d]) /\ Pushed(stack[d], stack'[d], g, h)
  BY <1>0, <1>2, <1>4, <1>5, StackIsPushed DEF Enter
<1>7. Quietly(journal[Root], journal'[Root]) /\ Recording(d, Root)
  <2>1. journal[Root] \in Seq(EventType)
    BY <1>3 DEF ChildTypes
  <2> QED BY <2>1 DEF Quietly, Recording
<1>8. setting'.calls = setting.calls /\ overlap \subseteq overlap'
  BY DEF Effect
<1>9. ChildTypes' /\ KidsOK'
  BY <1>3, <1>6, EffectsAreTyped, KidsStayNamed
<1>10. \A e \in Driver : \A i \in 1..Len(stack'[e]) :
         \/ e = d /\ i = n + 1 /\ stack'[e][i] = h
         \/ e = d /\ i = n /\ stack'[e][i] = g
         \/ i \in 1..Len(stack[e]) /\ stack'[e][i] = stack[e][i] /\ (e # d \/ i < n)
  BY <1>1, <1>6 DEF Holds, Pushed
<1>11. ASSUME NEW e \in Driver, NEW i \in 1..Len(stack'[e])
       PROVE  FrameOK(setting.calls, journal', overlap', stack'[e][i])
  BY <1>2, <1>3, <1>5, <1>7, <1>10, OthersStay
<1>12. \A i \in 1..(n - 1) : stack[d][i].run = Root /\ stack[d][i].pc = "unpark"
  <2>1. Nested(stack[d])
    BY DEF DrivesOK
  <2>2. SUFFICES ASSUME NEW i \in 1..(n - 1) PROVE stack[d][i].run = Root /\ stack[d][i].pc = "unpark"
    OBVIOUS
  <2>3. i \in 1..n /\ i < n /\ stack[d][n].run \notin Kid
    BY <1>1, RootIsNoKid
  <2> QED BY <2>1, <2>3, <1>1 DEF Nested
<1>13. ASSUME NEW e \in Driver PROVE Nested(stack'[e])
  <2>1. CASE e # d
    BY <2>1, <1>6 DEF Holds, DrivesOK
  <2>2. Nested(stack'[d])
    <3>1. SUFFICES ASSUME NEW i \in 1..Len(stack'[d]), NEW k \in 1..Len(stack'[d]), i < k
                   PROVE  /\ stack'[d][i].run = Root
                          /\ \/ stack'[d][i].pc = "unpark"
                             \/ stack'[d][i].pc \in {"started", "await"} /\ stack'[d][k].run \in Kid
      BY DEF Nested
    <3>2. Len(stack'[d]) = n + 1
      BY <1>6 DEF Pushed
    <3>3. CASE i = n
      BY <3>1, <3>2, <3>3, <1>1, <1>2, <1>5, <1>6 DEF Pushed
    <3>4. CASE i < n
      BY <3>1, <3>2, <3>4, <1>1, <1>6, <1>12 DEF Pushed
    <3> QED BY <3>1, <3>2, <3>3, <3>4, <1>1
  <2> QED BY <2>1, <2>2
<1>14. DrivesOK'
  BY <1>8, <1>11, <1>13 DEF DrivesOK
<1>15. ASSUME NEW q \in Run, q \notin overlap' PROVE Alone(stack', q)
  <2>1. Alone(stack, q)
    BY <1>8, <1>15 DEF RunsOK
  <2>2. CASE q # c
    <3>1. \A e \in Driver : \A i \in 1..Len(stack'[e]) :
            stack'[e][i].run = q /\ stack'[e][i].pc \notin Outside =>
              i \in 1..Len(stack[e]) /\ stack[e][i].run = q /\ stack[e][i].pc \notin Outside
      BY <1>1, <1>2, <1>5, <1>10, <2>2
    <3> QED BY <2>1, <3>1 DEF Alone
  <2>3. CASE q = c
    <3>1. AtWork(c) \ {d} = {}
      BY <1>15, <2>3 DEF Enter, Meet
    <3>2. ASSUME NEW e \in Driver, NEW i \in 1..Len(stack'[e]),
                 stack'[e][i].run = c, stack'[e][i].pc \notin Outside
          PROVE  e = d /\ i = n + 1
      <4>1. CASE e # d
        <5>1. i \in 1..Len(stack[e]) /\ stack[e][i] = stack'[e][i] /\ stack[e] \in Seq(FrameType)
          BY <4>1, <1>10 DEF ChildTypes
        <5>2. i \in DOMAIN stack[e]
          BY <5>1
        <5>3. e \in AtWork(c)
          BY <5>1, <5>2, <3>2 DEF AtWork, Outside
        <5> QED BY <5>3, <3>1, <4>1
      <4>2. CASE e = d
        BY <4>2, <3>2, <1>2, <1>3, <1>10, <1>12
      <4> QED BY <4>1, <4>2
    <3> QED BY <2>3, <3>2 DEF Alone
  <2> QED BY <2>2, <2>3
<1>16. RunsOK'
  BY <1>3, <1>7, <1>15, RecordedOnce DEF RunsOK
<1> QED BY <1>9, <1>14, <1>16

\* A driver that drives nothing begins.
LEMMA BeginKeepsInv ==
  ASSUME ChildInv, NEW d \in Driver, stack[d] = <<>>, NEW r, IsNamed(r), Effect(r), journal' = journal,
         NEW s \in Seq(FrameType), Begin(d, r, s), Nested(s),
         \A i \in 1..Len(s) : /\ s[i].run = r /\ FrameOK(setting.calls, journal, overlap', s[i])
                              /\ s[i].pc \notin Outside => i = Len(s)
  PROVE  ChildInv'
<1> USE DEF ChildInv
<1>1. r \in Run /\ stack' \in Stacks /\ Holds(stack, stack', d, s)
  BY StackIsSet DEF Begin, IsNamed
<1>2. Quietly(journal[r], journal'[r]) /\ Recording(d, r)
  <2>1. journal[r] \in Seq(EventType)
    BY <1>1 DEF ChildTypes
  <2> QED BY <2>1 DEF Quietly, Recording
<1>3. setting'.calls = setting.calls /\ overlap \subseteq overlap'
  BY DEF Effect
<1>4. ChildTypes' /\ KidsOK'
  BY <1>1, EffectsAreTyped, KidsStayNamed
<1>5. \A e \in Driver : e # d => stack'[e] = stack[e]
  BY <1>1 DEF Holds
<1>6. stack'[d] = s
  BY <1>1 DEF Holds
<1>7. ASSUME NEW e \in Driver, NEW i \in 1..Len(stack'[e])
      PROVE  FrameOK(setting.calls, journal', overlap', stack'[e][i])
  BY <1>1, <1>2, <1>5, <1>6, OthersStay
<1>8. DrivesOK'
  BY <1>3, <1>5, <1>6, <1>7 DEF DrivesOK
<1>9. ASSUME NEW q \in Run, q \notin overlap' PROVE Alone(stack', q)
  <2>1. Alone(stack, q)
    BY <1>3, <1>9 DEF RunsOK
  <2>2. CASE q # r
    <3>1. \A e \in Driver : \A i \in 1..Len(stack'[e]) :
            stack'[e][i].run = q => e # d /\ stack'[e] = stack[e]
      BY <1>5, <1>6, <2>2
    <3> QED BY <2>1, <3>1 DEF Alone
  <2>3. CASE q = r
    <3>1. AtWork(r) \ {d} = {}
      BY <1>9, <2>3 DEF Begin, Meet
    <3>2. ASSUME NEW e \in Driver, NEW i \in 1..Len(stack'[e]),
                 stack'[e][i].run = r, stack'[e][i].pc \notin Outside
          PROVE  e = d /\ i = Len(s)
      <4>1. CASE e # d
        <5>1. stack'[e] = stack[e] /\ stack[e] \in Seq(FrameType)
          BY <4>1, <1>5 DEF ChildTypes
        <5>2. i \in DOMAIN stack[e]
          BY <5>1
        <5>3. e \in AtWork(r)
          BY <5>1, <5>2, <3>2 DEF AtWork, Outside
        <5> QED BY <5>3, <3>1, <4>1
      <4>2. CASE e = d
        BY <4>2, <3>2, <1>6
      <4> QED BY <4>1, <4>2
    <3> QED BY <2>3, <3>2 DEF Alone
  <2> QED BY <2>2, <2>3
<1>10. RunsOK'
  BY <1>1, <1>2, <1>9, RecordedOnce DEF RunsOK
<1> QED BY <1>4, <1>8, <1>10

\* Nobody drives anything new.
LEMMA FewerKeepsInv ==
  ASSUME ChildInv, NEW r, IsNamed(r), Effect(r), Quietly(journal[r], journal'[r]),
         stack' \in Stacks, \A e \in Driver : stack'[e] \in {stack[e], <<>>}
  PROVE  ChildInv'
<1> USE DEF ChildInv
<1>1. r \in Run /\ setting'.calls = setting.calls /\ overlap \subseteq overlap'
  BY DEF IsNamed, Effect
<1>2. "loop" \in Driver /\ Recording("loop", r)
  BY DEF Driver, Recording
<1>3. ChildTypes' /\ KidsOK'
  BY EffectsAreTyped, KidsStayNamed
<1>4. \A e \in Driver : \A i \in 1..Len(stack'[e]) : stack'[e] = stack[e] /\ i \in 1..Len(stack[e])
  <2>1. Len(<<>>) = 0
    OBVIOUS
  <2> QED BY <2>1
<1>5. ASSUME NEW e \in Driver, NEW i \in 1..Len(stack'[e])
      PROVE  FrameOK(setting.calls, journal', overlap', stack'[e][i])
  <2>1. stack'[e] = stack[e] /\ i \in 1..Len(stack[e])
    BY <1>4
  <2>2. FrameOK(setting.calls, journal', overlap', stack[e][i])
    BY <1>1, <1>2, <2>1, OthersStay
  <2> QED BY <2>1, <2>2
<1>6. ASSUME NEW e \in Driver PROVE Nested(stack'[e])
  BY <1>4 DEF DrivesOK, Nested
<1>7. DrivesOK'
  BY <1>1, <1>5, <1>6 DEF DrivesOK
<1>8. ASSUME NEW q \in Run, q \notin overlap' PROVE Alone(stack', q)
  BY <1>1, <1>4, <1>8 DEF RunsOK, Alone
<1>9. RunsOK'
  BY <1>1, <1>2, <1>8, RecordedOnce DEF RunsOK
<1> QED BY <1>3, <1>7, <1>9

-----------------------------------------------------------------------------
(* The steps of a drive                                                     *)

\* The innermost drive of d, and where its call is.
LEMMA Innermost ==
  ASSUME ChildInv, NEW d \in Driver, stack[d] # <<>>
  PROVE  /\ Top(d) \in FrameType /\ Top(d).run \in Run /\ IsNamed(Top(d).run)
         /\ Top(d).at \in DOMAIN Flow(setting.calls, Top(d).run)
         /\ Top(d).at \in Nat /\ Top(d).loaded \in Nat
         /\ Call(d) = Flow(setting.calls, Top(d).run)[Top(d).at]
         /\ FrameOK(setting.calls, journal, overlap, Top(d))
         /\ setting.calls \in RootCalls /\ journal \in Journals
         /\ Quietly(journal[Top(d).run], journal[Top(d).run])
         /\ Extends(journal[Top(d).run], journal[Top(d).run])
<1>1. Top(d) \in FrameType /\ FrameOK(setting.calls, journal, overlap, Top(d))
  BY TopIsTyped DEF ChildInv
<1>2. Top(d).run \in Run /\ Top(d).at \in Nat /\ Top(d).loaded \in Nat
  BY <1>1 DEF FrameType
<1>3. setting.calls \in RootCalls /\ journal \in Journals
  BY DEF ChildInv, ChildTypes, Journals
<1>4. journal[Top(d).run] \in Seq(EventType)
  BY <1>2, <1>3 DEF Journals
<1> QED BY <1>1, <1>2, <1>3, <1>4 DEF IsNamed, FrameOK, KidsAreNamed, Fits, Call, Calls, Flow, Quietly, Extends

LEMMA NothingElse ==
  ASSUME ChildInv, NEW r \in Run, UNCHANGED <<store, now, setting, tick>>, overlap \subseteq overlap'
  PROVE  Effect(r) /\ Quietly(journal[r], journal'[r])
<1>1. journal \in Journals
  BY DEF ChildInv, ChildTypes, Journals
<1>2. \A q \in Run : journal[q] \in Seq(EventType)
  BY <1>1 DEF Journals
<1>3. /\ journal' = journal /\ status' = status /\ timers' = timers /\ now' = now
      /\ setting' = setting /\ tick' = tick
  BY DEF store
<1>4. Grown(journal, journal') /\ Quietly(journal[r], journal'[r])
  BY <1>2, <1>3 DEF Grown, Extends, Quietly
<1> QED BY <1>1, <1>3, <1>4 DEF Effect, ChildInv, ChildTypes

LEMMA StatusAlone ==
  ASSUME ChildInv, NEW r \in Run, NEW s, SetStatus(r, s),
         UNCHANGED <<journal, timers, now, setting, tick, overlap>>
  PROVE  Effect(r) /\ Quietly(journal[r], journal'[r])
<1>1. journal \in Journals
  BY DEF ChildInv, ChildTypes, Journals
<1>2. \A q \in Run : journal[q] \in Seq(EventType)
  BY <1>1 DEF Journals
<1>3. Grown(journal, journal') /\ Quietly(journal[r], journal'[r])
  BY <1>2 DEF Grown, Extends, Quietly
<1>4. status' = [q \in Run |-> status'[q]] /\ \A q \in Run \ {r} : status'[q] = status[q]
  BY DEF ChildInv, ChildTypes, SetStatus
<1> QED BY <1>1, <1>3, <1>4 DEF Effect, ChildInv, ChildTypes

Event(type, call, val) == [type |-> type, call |-> call, val |-> val]

\* A commit, and what else becomes of the poll loop's work in its step.
LEMMA CommitAlone ==
  ASSUME ChildInv, NEW r \in Run, NEW type \in EventName, NEW call \in Nat, NEW val \in Known,
         type = "ChildWorkflowScheduled" => val \in Kid,
         Commit(r, type, call, val), UNCHANGED <<status, timers, now, setting, overlap>>,
         tick' = [phase |-> tick'.phase, due |-> tick'.due, woken |-> tick'.woken],
         tick'.due \subseteq tick.due, tick'.woken \subseteq tick.woken \cup {r}
  PROVE  /\ Effect(r)
         /\ type \notin News => Quietly(journal[r], journal'[r])
         /\ journal'[r] = Append(journal[r], Event(type, call, val))
         /\ Event(type, call, val) \in EventType
<1>1. journal \in Journals /\ journal[r] \in Seq(EventType)
  BY DEF ChildInv, ChildTypes, Journals
<1>2. PICK e : e = Event(type, call, val)
  OBVIOUS
<1>3. e \in EventType /\ e.type = type
  BY <1>2 DEF EventType, Event
<1>4. /\ Append(journal[r], e) \in Seq(EventType) /\ Extends(journal[r], Append(journal[r], e))
      /\ type \notin News => Quietly(journal[r], Append(journal[r], e))
  BY <1>1, <1>3, AppendedExtends
<1>5. journal' = [journal EXCEPT ![r] = Append(journal[r], e)]
  BY <1>2 DEF Commit, Event
<1>6. journal' \in Journals /\ journal'[r] = Append(journal[r], e) /\ \A q \in Run \ {r} : journal'[q] = journal[q]
  BY <1>1, <1>4, <1>5 DEF Journals
<1>7. Grown(journal, journal')
  <2>1. SUFFICES ASSUME NEW q \in Run PROVE Extends(journal[q], journal'[q])
    BY DEF Grown
  <2>2. CASE q = r
    BY <2>2, <1>4, <1>6
  <2>3. CASE q # r
    <3>1. journal'[q] = journal[q] /\ journal[q] \in Seq(EventType)
      BY <2>3, <1>1, <1>6 DEF Journals
    <3> QED BY <3>1 DEF Extends
  <2> QED BY <2>2, <2>3
<1>8. Effect(r)
  <2>1. /\ setting' = setting /\ now' \in Nat /\ overlap \subseteq overlap'
        /\ status' = [q \in Run |-> status'[q]] /\ \A q \in Run \ {r} : status'[q] = status[q]
    BY DEF ChildInv, ChildTypes
  <2>2. \A t \in timers' \cup tick'.due : t \in timers \cup tick.due /\ IsTimer(t)
    BY DEF ChildInv, ChildTypes
  <2>3. \A q \in tick'.woken : q \in Run /\ (q = r \/ q \in tick.woken)
    BY DEF ChildInv, ChildTypes
  <2> QED BY <2>1, <2>2, <2>3, <1>6, <1>7 DEF Effect
<1> QED BY <1>2, <1>3, <1>4, <1>6, <1>8

\* The drive goes from one pc to the next, and its run gets nothing its calls are about.
LEMMA GoesKeepsInv ==
  ASSUME ChildInv, NEW d \in Driver, stack[d] # <<>>, Top(d).pc \notin Outside,
         Effect(Top(d).run), Quietly(journal[Top(d).run], journal'[Top(d).run]),
         NEW p \in Pc, p \notin {"run", "body"}, p \in Loaded => Top(d).pc \in Loaded,
         p \in {"named", "started"} => Top(d).pc \in {"named", "started"},
         p \in {"timer", "park", "parked"} => Call(d) = "sleep",
         p \in {"named", "started"} => Call(d) = "child",
         p \in {"await", "poll"} => Call(d) = "result",
         stack' = [stack EXCEPT ![d][Len(stack[d])] = [Top(d) EXCEPT !.pc = p]]
  PROVE  ChildInv'
<1>0. PICK f : f = Top(d)
  OBVIOUS
<1>1. PICK g : g = [f EXCEPT !.pc = p]
  OBVIOUS
<1>2. f \in FrameType /\ f.run \in Run /\ f.at \in DOMAIN Flow(setting.calls, f.run)
      /\ Call(d) = Flow(setting.calls, f.run)[f.at] /\ setting.calls \in RootCalls
  BY <1>0, Innermost
<1>3. Recording(d, f.run)
  BY <1>0 DEF Recording
<1>4. stack[d] \in Seq(FrameType) /\ Len(stack[d]) \in 1..Len(stack[d]) /\ f = stack[d][Len(stack[d])]
  BY <1>0, TopIsTyped DEF ChildInv, Top
<1>5. FrameOK(setting.calls, journal', overlap', f)
  BY <1>0, <1>2, <1>3, <1>4, OthersStay DEF ChildInv
<1>6. g \in FrameType /\ g.run = f.run /\ g.at = f.at /\ g.pc = p
  BY <1>1, <1>2 DEF FrameType
<1>7. Fits(setting.calls, g)
  BY <1>0, <1>2, <1>6 DEF Fits
<1>8. journal' \in Journals
  BY DEF Effect
<1>9. FrameOK(setting.calls, journal', overlap', g)
  BY <1>0, <1>1, <1>2, <1>5, <1>6, <1>7, <1>8, FrameGoes
<1> QED BY <1>0, <1>1, <1>3, <1>6, <1>9, AdvanceKeepsInv

\* Its code goes on.
LEMMA GoesOnKeepsInv ==
  ASSUME ChildInv, NEW d \in Driver, stack[d] # <<>>, Top(d).pc \in Loaded,
         UNCHANGED <<store, now, setting, tick, overlap>>, NEW v \in Known, Observe(d, v),
         Call(d) \in {"task", "sleep", "result"} \/ Top(d).pc = "started"
  PROVE  ChildInv'
<1>0. PICK f : f = Top(d)
  OBVIOUS
<1>1. PICK g : g = [f EXCEPT !.pc = "run", !.at = f.at + 1, !.last = v]
  OBVIOUS
<1>2. /\ f \in FrameType /\ f.run \in Run /\ f.at \in Nat /\ FrameOK(setting.calls, journal, overlap, f)
      /\ Call(d) = Flow(setting.calls, f.run)[f.at] /\ setting.calls \in RootCalls /\ journal \in Journals
  BY <1>0, Innermost
<1>3. Effect(f.run) /\ Quietly(journal[f.run], journal'[f.run]) /\ Recording(d, f.run)
  BY <1>2, NothingElse DEF Recording
<1>4. g \in FrameType /\ g.run = f.run /\ g.pc = "run"
  <2>1. "run" \in Pc /\ f.at + 1 \in Nat
    BY <1>2 DEF Pc
  <2> QED BY <2>1, <1>1, <1>2 DEF FrameType
<1>5. FrameOK(setting.calls, journal, overlap, g)
  BY <1>0, <1>1, <1>2, <1>4, FrameGoesOn
<1>6. journal' = journal /\ overlap' = overlap
  BY DEF store
<1>7. stack' = [stack EXCEPT ![d][Len(stack[d])] = g]
  BY <1>0, <1>1, <1>2 DEF Observe, Step
<1>8. g.pc \notin Outside => f.pc \notin Outside
  BY <1>0 DEF Outside, Loaded
<1> QED BY <1>0, <1>3, <1>4, <1>5, <1>6, <1>7, <1>8, AdvanceKeepsInv

LEMMA QuietCommit ==
  ASSUME ChildInv, NEW r \in Run, NEW type \in EventName \ News, NEW call \in Nat, NEW val \in Known,
         Commit(r, type, call, val), UNCHANGED <<status, timers, now, setting, tick, overlap>>
  PROVE  Effect(r) /\ Quietly(journal[r], journal'[r])
<1>1. type \in EventName /\ type \notin News /\ type # "ChildWorkflowScheduled"
  BY DEF News
<1>2. tick' = [phase |-> tick'.phase, due |-> tick'.due, woken |-> tick'.woken]
  BY DEF ChildInv, ChildTypes
<1>3. tick'.due \subseteq tick.due /\ tick'.woken \subseteq tick.woken \cup {r}
  OBVIOUS
<1>4. UNCHANGED <<status, timers, now, setting, overlap>>
  OBVIOUS
<1> QED BY <1>1, <1>2, <1>3, <1>4, CommitAlone

\* GoTo a place where the journal is not loaded, or the code has failed.
LEMMA GoToKeepsInv ==
  ASSUME ChildInv, NEW d \in Driver, stack[d] # <<>>, Top(d).pc \notin Outside,
         Effect(Top(d).run), Quietly(journal[Top(d).run], journal'[Top(d).run]),
         NEW p \in {"created", "load", "settle", "fail"}, p = "fail" => Top(d).pc \in Loaded,
         GoTo(d, p)
  PROVE  ChildInv'
<1>1. stack' = [stack EXCEPT ![d][Len(stack[d])] = [Top(d) EXCEPT !.pc = p]]
  BY DEF GoTo, Step
<1>2. p \in Pc /\ p \notin {"run", "body"}
  BY DEF Pc
<1>3. p \in Loaded => Top(d).pc \in Loaded
  BY DEF Loaded
<1>4. p \notin {"named", "started"}
  OBVIOUS
<1>5. p \notin {"timer", "park", "parked"}
  OBVIOUS
<1>6. p \notin {"await", "poll"}
  OBVIOUS
<1> QED BY <1>1, <1>2, <1>3, <1>4, <1>5, <1>6, GoesKeepsInv

\* A run is created, resumed, woken, or left alone.
LEMMA EnteringKeepsInv ==
  ASSUME ChildInv, NEW d \in Driver,
         \/ CreateRow(d) \/ CommitCreated(d) \/ EnterTerminal(d) \/ EnterParked(d)
         \/ EnterResumed(d) \/ Reconcile(d) \/ ParkRun(d) \/ SettleStatus(d)
  PROVE  ChildInv'
<1>1. stack[d] # <<>>
  BY DEF CreateRow, CommitCreated, EnterTerminal, EnterParked, EnterResumed, Reconcile, ParkRun,
         SettleStatus, Unbegun, At
<1>2. Top(d).run \in Run
  BY <1>1, Innermost
<1>3. CASE CreateRow(d)
  <2>1. Effect(Top(d).run) /\ Quietly(journal[Top(d).run], journal'[Top(d).run])
    BY <1>2, <1>3, StatusAlone DEF CreateRow, history
  <2>2. Top(d).pc \notin Outside
    BY <1>3 DEF Outside, CreateRow, Unbegun, At
  <2> QED BY <1>1, <1>3, <2>1, <2>2, GoToKeepsInv DEF CreateRow
<1>4. CASE CommitCreated(d)
  <2>1. "WorkflowCreated" \in EventName \ News /\ "none" \in Known /\ 0 \in Nat
    BY DEF EventName, News, OutcomeEvent, Known
  <2>2. Effect(Top(d).run) /\ Quietly(journal[Top(d).run], journal'[Top(d).run])
    BY <1>2, <1>4, <2>1, QuietCommit DEF CommitCreated, history
  <2>3. Top(d).pc \notin Outside
    BY <1>4 DEF Outside, CommitCreated, At
  <2> QED BY <1>1, <1>4, <2>2, <2>3, GoToKeepsInv DEF CommitCreated
<1>5. CASE EnterTerminal(d)
  <2>1. Effect(Top(d).run) /\ journal' = journal
    BY <1>2, <1>5, NothingElse DEF EnterTerminal, history, store
  <2> QED BY <1>1, <1>5, <2>1, ReturnKeepsInv DEF EnterTerminal
<1>6. CASE EnterParked(d)
  <2>1. Effect(Top(d).run) /\ Quietly(journal[Top(d).run], journal'[Top(d).run])
    BY <1>2, <1>6, NothingElse DEF EnterParked, history
  <2>2. Top(d).pc \notin Outside
    BY <1>6 DEF Outside, EnterParked, At
  <2> QED BY <1>1, <1>6, <2>1, <2>2, GoToKeepsInv DEF EnterParked
<1>7. CASE EnterResumed(d)
  <2>1. "WorkflowResumed" \in EventName \ News /\ "none" \in Known /\ 0 \in Nat
    BY DEF EventName, News, OutcomeEvent, Known
  <2>2. Effect(Top(d).run) /\ Quietly(journal[Top(d).run], journal'[Top(d).run])
    BY <1>2, <1>7, <2>1, QuietCommit DEF EnterResumed, history
  <2>3. Top(d).pc \notin Outside
    BY <1>7 DEF Outside, EnterResumed, At
  <2> QED BY <1>1, <1>7, <2>2, <2>3, GoToKeepsInv DEF EnterResumed
<1>8. CASE Reconcile(d)
  <2>1. Effect(Top(d).run) /\ journal' = journal
    BY <1>2, <1>8, StatusAlone DEF Reconcile, history
  <2> QED BY <1>1, <1>8, <2>1, ReturnKeepsInv DEF Reconcile
<1>9. CASE ParkRun(d)
  <2>1. Effect(Top(d).run) /\ journal' = journal
    BY <1>2, <1>9, StatusAlone DEF ParkRun, history
  <2> QED BY <1>1, <1>9, <2>1, ReturnKeepsInv DEF ParkRun
<1>10. CASE SettleStatus(d)
  <2>1. Effect(Top(d).run) /\ journal' = journal
    BY <1>2, <1>10, StatusAlone DEF SettleStatus, history
  <2> QED BY <1>1, <1>10, <2>1, ReturnKeepsInv DEF SettleStatus
<1> QED BY <1>3, <1>4, <1>5, <1>6, <1>7, <1>8, <1>9, <1>10

\* A journal without a terminal event is loaded whole.
LEMMA LoadingKeepsInv ==
  ASSUME ChildInv, NEW d \in Driver, LoadJournal(d)
  PROVE  ChildInv'
<1>0. PICK f : f = Top(d)
  OBVIOUS
<1> DEFINE j == journal[f.run]
<1>1. PICK g : g = [f EXCEPT !.pc = "run", !.loaded = Len(j)]
  OBVIOUS
<1>2. stack[d] # <<>> /\ f.pc = "load"
  BY <1>0 DEF LoadJournal, At
<1>3. /\ f \in FrameType /\ f.run \in Run /\ FrameOK(setting.calls, journal, overlap, f)
      /\ setting.calls \in RootCalls /\ journal \in Journals
  BY <1>0, <1>2, Innermost
<1>4. j \in Seq(EventType) /\ Len(j) \in Nat
  BY <1>3 DEF Journals
<1>5. Effect(f.run) /\ Quietly(journal[f.run], journal'[f.run]) /\ Recording(d, f.run)
  BY <1>3, NothingElse DEF Recording, LoadJournal, history
<1>6. g \in FrameType /\ g.run = f.run /\ g.pc = "run" /\ g.loaded = Len(j) /\ g.at = f.at /\ g.child = f.child
  <2>1. "run" \in Pc
    BY DEF Pc
  <2> QED BY <2>1, <1>1, <1>3, <1>4 DEF FrameType
<1>7. Fits(setting.calls, g) /\ KidsAreNamed(setting.calls, journal, g)
  BY <1>3, <1>6 DEF FrameOK, Fits, KidsAreNamed, HasChild
<1>8. \A k \in 1..Len(j) : j[k].type \notin OutcomeEvent
  <2>1. \A k \in DOMAIN j : j[k].type \notin TerminalEvent
    BY <1>0 DEF LoadJournal, Ended
  <2> QED BY <2>1, <1>4 DEF TerminalEvent, OutcomeEvent
<1>9. LoadedIsOpen(journal, g) /\ NewsIsOwn(journal, overlap, g)
  BY <1>4, <1>6, <1>8 DEF LoadedIsOpen, NewsIsOwn
<1>10. journal' = journal /\ overlap' = overlap
  BY DEF LoadJournal, store, history
<1>11. FrameOK(setting.calls, journal', overlap', g)
  BY <1>7, <1>9, <1>10 DEF FrameOK
<1>12. stack' = [stack EXCEPT ![d][Len(stack[d])] = g]
  BY <1>0, <1>1 DEF LoadJournal, Step
<1>13. g.pc \notin Outside => f.pc \notin Outside
  BY <1>2 DEF Outside
<1> QED BY <1>0, <1>2, <1>5, <1>6, <1>11, <1>12, <1>13, AdvanceKeepsInv

\* What is recorded of a call can be read.
LEMMA HitIsRecorded ==
  ASSUME ChildInv, NEW d \in Driver, stack[d] # <<>>, Top(d).pc \in Loaded, NEW type, Hit(d, type)
  PROVE  \E i \in 1..Len(journal[Top(d).run]) :
           /\ journal[Top(d).run][i].type = type /\ journal[Top(d).run][i].call = Top(d).at
           /\ journal[Top(d).run][i] \in EventType
           /\ Recorded(Top(d).run, type, Top(d).at) = journal[Top(d).run][i].val
<1>1. PICK f : f = Top(d)
  OBVIOUS
<1>2. f.run \in Run /\ f.loaded \in Nat /\ FrameOK(setting.calls, journal, overlap, f)
  BY <1>1, Innermost
<1> DEFINE j == journal[f.run]
           S == {j[i] : i \in DOMAIN j}
<1>3. j \in Seq(EventType) /\ Len(j) \in Nat
  BY <1>2 DEF ChildInv, ChildTypes
<1>4. f.loaded <= Len(j)
  BY <1>1, <1>2 DEF FrameOK, LoadedIsOpen
<1>5. \E i \in 1..Len(j) : j[i].type = type /\ j[i].call = f.at
  BY <1>1, <1>2, <1>3, <1>4 DEF Hit
<1>6. \E e \in S : e.type = type /\ e.call = f.at
  BY <1>3, <1>5
<1>7. PICK e : e = (CHOOSE x \in S : x.type = type /\ x.call = f.at)
  OBVIOUS
<1>8. e \in S /\ e.type = type /\ e.call = f.at
  BY <1>6, <1>7
<1>9. Recorded(f.run, type, f.at) = e.val
  BY <1>7 DEF Recorded
<1> QED BY <1>1, <1>3, <1>8, <1>9

\* A call that is in the journal is handed over from it.
LEMMA HitsKeepInv ==
  ASSUME ChildInv, NEW d \in Driver, TaskHit(d) \/ SleepHit(d)
  PROVE  ChildInv'
<1>1. stack[d] # <<>> /\ Top(d).pc \in Loaded /\ Call(d) \in {"task", "sleep"}
  BY DEF TaskHit, SleepHit, Awaits, At, Loaded
<1>2. UNCHANGED <<store, now, setting, tick, overlap>>
  BY DEF TaskHit, SleepHit, history
<1>3. CASE TaskHit(d)
  <2>1. PICK v : v = Recorded(Top(d).run, "TaskCompleted", Top(d).at)
    OBVIOUS
  <2>2. v \in Known
    BY <1>1, <1>3, <2>1, HitIsRecorded DEF TaskHit, EventType
  <2>3. Observe(d, v)
    BY <1>3, <2>1 DEF TaskHit
  <2> QED BY <1>1, <1>2, <2>2, <2>3, GoesOnKeepsInv
<1>4. CASE SleepHit(d)
  <2>1. "woke" \in Known /\ Observe(d, "woke")
    BY <1>4 DEF SleepHit, Known
  <2> QED BY <1>1, <1>2, <2>1, GoesOnKeepsInv
<1> QED BY <1>3, <1>4

\* A body runs for want of a result.
LEMMA ScheduleKeepsInv ==
  ASSUME ChildInv, NEW d \in Driver, ScheduleTask(d)
  PROVE  ChildInv'
<1>0. PICK f : f = Top(d)
  OBVIOUS
<1>1. PICK g : g = [f EXCEPT !.pc = "body"]
  OBVIOUS
<1>2. stack[d] # <<>> /\ f.pc = "run" /\ Call(d) = "task" /\ ~Hit(d, "TaskCompleted")
  BY <1>0 DEF ScheduleTask, Awaits, At
<1>3. /\ f \in FrameType /\ f.run \in Run /\ f.at \in Nat /\ FrameOK(setting.calls, journal, overlap, f)
      /\ setting.calls \in RootCalls /\ journal \in Journals /\ f.loaded \in Nat
      /\ f.at \in DOMAIN Flow(setting.calls, f.run) /\ Call(d) = Flow(setting.calls, f.run)[f.at]
  BY <1>0, <1>2, Innermost
<1>4. Effect(f.run) /\ Quietly(journal[f.run], journal'[f.run])
  <2>1. "TaskScheduled" \in EventName \ News /\ "none" \in Known
    BY DEF EventName, News, OutcomeEvent, Known
  <2>2. UNCHANGED <<status, timers, now, setting, tick, overlap>>
    BY DEF ScheduleTask, history
  <2>3. CASE UNCHANGED journal
    BY <1>3, <2>2, <2>3, NothingElse DEF store
  <2>4. ASSUME ~UNCHANGED journal PROVE Commit(f.run, "TaskScheduled", f.at, "none")
    BY <1>0, <2>4 DEF ScheduleTask
  <2> QED BY <1>3, <2>1, <2>2, <2>3, <2>4, QuietCommit
<1>5. Recording(d, f.run)
  BY <1>4 DEF Recording
<1>6. g \in FrameType /\ g.run = f.run /\ g.pc = "body" /\ g.loaded = f.loaded /\ g.at = f.at /\ g.child = f.child
  <2>1. "body" \in Pc
    BY DEF Pc
  <2> QED BY <2>1, <1>1, <1>3 DEF FrameType
<1>7. Fits(setting.calls, g) /\ KidsAreNamed(setting.calls, journal, g)
  BY <1>2, <1>3, <1>6 DEF FrameOK, Fits, KidsAreNamed, HasChild
<1>8. "run" \in Loaded /\ "body" \in Loaded
  BY DEF Loaded
<1>9. LoadedIsOpen(journal, g)
  <2>1. \A k \in 1..f.loaded : ~(journal[f.run][k].type = "TaskCompleted" /\ journal[f.run][k].call = f.at)
    BY <1>0, <1>2 DEF Hit
  <2> QED BY <2>1, <1>2, <1>3, <1>6, <1>8 DEF FrameOK, LoadedIsOpen
<1>10. NewsIsOwn(journal, overlap, g)
  BY <1>2, <1>3, <1>6, <1>8 DEF FrameOK, NewsIsOwn
<1>11. FrameOK(setting.calls, journal, overlap, g)
  BY <1>7, <1>9, <1>10 DEF FrameOK
<1>12. FrameOK(setting.calls, journal', overlap', g)
  <2>1. journal' \in Journals /\ Grown(journal, journal') /\ overlap \subseteq overlap'
    BY <1>4 DEF Effect
  <2> QED BY <2>1, <1>3, <1>4, <1>6, <1>11, FrameStays
<1>13. stack' = [stack EXCEPT ![d][Len(stack[d])] = g]
  BY <1>0, <1>1 DEF ScheduleTask, Suspend
<1>14. g.pc \notin Outside => f.pc \notin Outside
  BY <1>2 DEF Outside
<1> QED BY <1>0, <1>2, <1>4, <1>5, <1>6, <1>12, <1>13, <1>14, AdvanceKeepsInv

\* A sleep: its event, its row, its park.
LEMMA SleepsKeepInv ==
  ASSUME ChildInv, NEW d \in Driver, CreateTimer(d) \/ EnsureTimerRow(d) \/ CommitWaiting(d)
  PROVE  ChildInv'
<1>1. stack[d] # <<>> /\ Top(d).pc \in {"run", "timer", "park"}
  BY DEF CreateTimer, EnsureTimerRow, CommitWaiting, Awaits, At
<1>2. Top(d).pc \in Loaded /\ Top(d).pc \notin Outside
  BY <1>1 DEF Loaded, Outside
<1>3. /\ Top(d).run \in Run /\ Top(d).at \in Nat /\ Fits(setting.calls, Top(d))
      /\ Call(d) = Flow(setting.calls, Top(d).run)[Top(d).at]
  BY <1>1, Innermost DEF FrameOK
<1>4. Call(d) = "sleep"
  BY <1>3 DEF Fits, CreateTimer, EnsureTimerRow, CommitWaiting, Awaits, At
<1>5. Effect(Top(d).run) /\ Quietly(journal[Top(d).run], journal'[Top(d).run])
  <2>0. {"TimerCreated", "WorkflowWaiting"} \subseteq EventName \ News /\ "none" \in Known /\ now + 1 \in Known
    BY DEF EventName, News, OutcomeEvent, Known, ChildInv, ChildTypes
  <2>1. ASSUME UNCHANGED <<store, now, setting, tick, overlap>>
        PROVE  Effect(Top(d).run) /\ Quietly(journal[Top(d).run], journal'[Top(d).run])
    BY <1>3, <2>1, NothingElse
  <2>2. CASE CreateTimer(d)
    <3>1. UNCHANGED <<status, timers, now, setting, tick, overlap>>
      BY <2>2 DEF CreateTimer, history
    <3>2. UNCHANGED journal \/ Commit(Top(d).run, "TimerCreated", Top(d).at, now + 1)
      BY <2>2 DEF CreateTimer
    <3> QED BY <1>3, <2>0, <2>1, <3>1, <3>2, QuietCommit DEF store
  <2>3. CASE CommitWaiting(d)
    <3>1. UNCHANGED <<status, timers, now, setting, tick, overlap>>
      BY <2>3 DEF CommitWaiting, history
    <3>2. UNCHANGED journal \/ Commit(Top(d).run, "WorkflowWaiting", Top(d).at, "none")
      BY <2>3 DEF CommitWaiting
    <3> QED BY <1>3, <2>0, <2>1, <3>1, <3>2, QuietCommit DEF store
  <2>4. CASE EnsureTimerRow(d)
    <3> DEFINE row == Row(Top(d).run, Top(d).at, Recorded(Top(d).run, "TimerCreated", Top(d).at))
    <3>1. /\ UNCHANGED <<journal, status, now, setting, tick, overlap>>
          /\ timers' \subseteq timers \cup {row}
      BY <2>4 DEF EnsureTimerRow, history
    <3>2. IsTimer(row) /\ row.run = Top(d).run
      BY <1>3 DEF IsTimer, Row
    <3> HIDE DEF row
    <3>3. \A t \in timers' \cup tick'.due :
            IsTimer(t) /\ (t.run = Top(d).run \/ \E u \in timers \cup tick.due : u.run = t.run)
      BY <3>1, <3>2 DEF ChildInv, ChildTypes
    <3>4. Grown(journal, journal') /\ Quietly(journal[Top(d).run], journal'[Top(d).run])
      <4>1. \A q \in Run : journal[q] \in Seq(EventType)
        BY DEF ChildInv, ChildTypes
      <4> QED BY <1>3, <3>1, <4>1 DEF Grown, Extends, Quietly
    <3> QED BY <3>1, <3>3, <3>4 DEF Effect, ChildInv, ChildTypes, Journals
  <2> QED BY <2>2, <2>3, <2>4
<1>6. PICK p \in {"timer", "park", "parked"} : GoTo(d, p)
  BY DEF CreateTimer, EnsureTimerRow, CommitWaiting
<1>7. stack' = [stack EXCEPT ![d][Len(stack[d])] = [Top(d) EXCEPT !.pc = p]]
  BY <1>6 DEF GoTo, Step
<1>8. p \in Pc /\ p \notin {"run", "body"}
  BY <1>6 DEF Pc
<1>9. p \notin {"named", "started"}
  BY <1>6
<1>10. p \notin {"await", "poll"}
  BY <1>6
<1> QED BY <1>1, <1>2, <1>4, <1>5, <1>7, <1>8, <1>9, <1>10, GoesKeepsInv

\* What a call had not recorded is recorded once.
LEMMA OnceMore ==
  ASSUME NEW j \in Seq(EventType), OnceIn(j), NEW e \in EventType,
         e.type \in {"TaskCompleted", "ChildWorkflowScheduled"} =>
           \A k \in 1..Len(j) : ~(j[k].type = e.type /\ j[k].call = e.call),
         e.type \in OutcomeEvent => \A k \in 1..Len(j) : j[k].type \notin OutcomeEvent
  PROVE  OnceIn(Append(j, e))
<1> DEFINE l == Append(j, e)
<1>1. /\ Len(j) \in Nat /\ Len(l) = Len(j) + 1 /\ l[Len(j) + 1] = e
      /\ \A i \in 1..Len(j) : l[i] = j[i]
  OBVIOUS
<1> HIDE DEF l
<1>2. \A i \in 1..Len(l) : (i \in 1..Len(j) /\ l[i] = j[i]) \/ (i = Len(j) + 1 /\ l[i] = e)
  BY <1>1
<1>3. {"TaskCompleted", "ChildWorkflowScheduled"} \cap OutcomeEvent = {}
  BY DEF OutcomeEvent
<1>4. OnceIn(l)
  BY <1>2, <1>3 DEF OnceIn
<1> QED BY <1>4 DEF l

\* A drive and what it records itself.
LEMMA FrameTakes ==
  ASSUME NEW w \in RootCalls, NEW J \in Journals, NEW K \in Journals, Grown(J, K), NEW O,
         NEW g \in FrameType, Fits(w, g), KidsAreNamed(w, K, g), LoadedIsOpen(J, g), NewsIsOwn(J, O, g),
         NEW e \in EventType, K[g.run] = Append(J[g.run], e),
         g.pc \in Loaded =>
           /\ e.type = "ChildWorkflowScheduled" => e.call = g.at /\ g.pc # "run"
           /\ e.type = "TaskCompleted" => e.call < g.at
           /\ e.type \notin OutcomeEvent
  PROVE  FrameOK(w, K, O, g)
<1> DEFINE j == J[g.run]  k == K[g.run]
<1>1. g.run \in Run /\ g.loaded \in Nat /\ g.at \in Nat
  BY DEF FrameType
<1>2. j \in Seq(EventType)
  BY <1>1 DEF Journals
<1>3. /\ Len(j) \in Nat /\ Len(k) = Len(j) + 1 /\ k[Len(j) + 1] = e
      /\ \A i \in 1..Len(j) : k[i] = j[i]
  BY <1>2
<1>4. LoadedIsOpen(K, g)
  BY <1>1, <1>3 DEF LoadedIsOpen
<1>5. NewsIsOwn(K, O, g)
  <2>1. \A i \in 1..Len(k) : (i \in 1..Len(j) /\ k[i] = j[i]) \/ k[i] = e
    BY <1>3
  <2> QED BY <2>1 DEF NewsIsOwn
<1> QED BY <1>4, <1>5 DEF FrameOK

\* What nothing says in what a drive has loaded, and its news say of earlier calls only,
\* is not in the journal.
LEMMA NotRecordedYet ==
  ASSUME NEW w, NEW J \in Journals, NEW O, NEW f \in FrameType, FrameOK(w, J, O, f),
         f.pc \in Loaded, f.run \notin O
  PROVE  /\ \A k \in 1..Len(J[f.run]) : J[f.run][k].type \notin OutcomeEvent
         /\ f.pc = "body" =>
              \A k \in 1..Len(J[f.run]) :
                ~(J[f.run][k].type = "TaskCompleted" /\ J[f.run][k].call = f.at)
         /\ f.pc = "run" =>
              \A k \in 1..Len(J[f.run]) :
                J[f.run][k].type = "ChildWorkflowScheduled" /\ J[f.run][k].call = f.at => k \in 1..f.loaded
<1> DEFINE j == J[f.run]
<1>1. f.run \in Run /\ f.loaded \in Nat /\ f.at \in Nat
  BY DEF FrameType
<1>2. j \in Seq(EventType) /\ Len(j) \in Nat
  BY <1>1 DEF Journals
<1>3. LoadedIsOpen(J, f) /\ NewsIsOwn(J, O, f)
  BY DEF FrameOK
<1>4. \A k \in 1..Len(j) : k \in 1..f.loaded \/ k > f.loaded
  BY <1>1, <1>2
<1>5. \A k \in 1..Len(j) : j[k].call \in Nat
  BY <1>2 DEF EventType
<1>6. \A k \in 1..Len(j) : j[k].type \notin OutcomeEvent
  BY <1>3, <1>4 DEF LoadedIsOpen, NewsIsOwn
<1>7. ASSUME f.pc = "body", NEW k \in 1..Len(j), j[k].type = "TaskCompleted" PROVE j[k].call # f.at
  <2>1. CASE k \in 1..f.loaded
    BY <2>1, <1>3, <1>7 DEF LoadedIsOpen
  <2>2. CASE k > f.loaded
    BY <2>2, <1>1, <1>3, <1>5, <1>7 DEF NewsIsOwn
  <2> QED BY <1>4, <2>1, <2>2
<1>8. ASSUME f.pc = "run", NEW k \in 1..Len(j), j[k].type = "ChildWorkflowScheduled", j[k].call = f.at
      PROVE  k \in 1..f.loaded
  <2>1. k > f.loaded => j[k].call < f.at
    BY <1>3, <1>8 DEF NewsIsOwn
  <2> QED BY <1>1, <1>4, <1>8, <2>1
<1> QED BY <1>6, <1>7, <1>8

\* A body returns.
LEMMA ReturningKeepsInv ==
  ASSUME ChildInv, NEW d \in Driver, TaskReturns(d)
  PROVE  ChildInv'
<1>0. PICK f : f = Top(d)
  OBVIOUS
<1>1. stack[d] # <<>> /\ f.pc = "body"
  BY <1>0 DEF TaskReturns, At
<1>2. PICK v \in Value : Commit(f.run, "TaskCompleted", f.at, v) /\ Observe(d, v)
  BY <1>0 DEF TaskReturns
<1>3. /\ f \in FrameType /\ f.run \in Run /\ f.at \in Nat /\ FrameOK(setting.calls, journal, overlap, f)
      /\ setting.calls \in RootCalls /\ journal \in Journals
      /\ Call(d) = Flow(setting.calls, f.run)[f.at]
  BY <1>0, <1>1, Innermost
<1>4. PICK g : g = [f EXCEPT !.pc = "run", !.at = f.at + 1, !.last = v]
  OBVIOUS
<1>5. PICK e : e = Event("TaskCompleted", f.at, v)
  OBVIOUS
<1>6. v \in Known /\ "TaskCompleted" \in EventName /\ "run" \in Pc /\ "body" \in Loaded
  BY DEF Known, EventName, Pc, Loaded
<1>7. UNCHANGED <<status, timers, now, setting, tick, overlap>>
  BY DEF TaskReturns, history
<1>8. Effect(f.run) /\ journal'[f.run] = Append(journal[f.run], e) /\ e \in EventType
  <2>1. tick' = [phase |-> tick'.phase, due |-> tick'.due, woken |-> tick'.woken]
    BY <1>7 DEF ChildInv, ChildTypes
  <2>2. tick'.due \subseteq tick.due /\ tick'.woken \subseteq tick.woken \cup {f.run}
    BY <1>7
  <2> QED BY <1>2, <1>3, <1>5, <1>6, <1>7, <2>1, <2>2, CommitAlone
<1>9. e.type = "TaskCompleted" /\ e.call = f.at
  BY <1>5 DEF Event
<1>10. g \in FrameType /\ g.run = f.run /\ g.pc = "run" /\ g.at = f.at + 1
  <2>1. f.at + 1 \in Nat
    BY <1>3
  <2> QED BY <2>1, <1>3, <1>4, <1>6 DEF FrameType
<1>11. Call(d) = "task"
  BY <1>1, <1>3 DEF FrameOK, Fits
<1>12. FrameOK(setting.calls, journal, overlap, g)
  BY <1>1, <1>3, <1>4, <1>6, <1>10, <1>11, FrameGoesOn
<1>13. journal' \in Journals /\ Grown(journal, journal')
  BY <1>8 DEF Effect
<1>14. FrameOK(setting.calls, journal', overlap, g)
  <2>1. KidsAreNamed(setting.calls, journal', g)
    BY <1>3, <1>12, <1>13, NamesStay DEF FrameOK, KidsAreNamed
  <2>2. e.type \notin OutcomeEvent /\ e.call < g.at /\ e.type # "ChildWorkflowScheduled"
    BY <1>3, <1>9, <1>10 DEF OutcomeEvent
  <2> QED BY <1>3, <1>8, <1>10, <1>12, <1>13, <2>1, <2>2, FrameTakes DEF FrameOK
<1>15. Recording(d, f.run)
  <2>1. ASSUME f.run \notin overlap PROVE OnceIn(journal'[f.run])
    <3>1. OnceIn(journal[f.run]) /\ journal[f.run] \in Seq(EventType)
      BY <1>3, <2>1 DEF ChildInv, RunsOK, Journals
    <3>2. \A k \in 1..Len(journal[f.run]) :
            ~(journal[f.run][k].type = "TaskCompleted" /\ journal[f.run][k].call = f.at)
      BY <1>1, <1>3, <1>6, <2>1, NotRecordedYet
    <3>3. e.type \notin OutcomeEvent
      BY <1>9 DEF OutcomeEvent
    <3> QED BY <1>8, <1>9, <3>1, <3>2, <3>3, OnceMore
  <2> QED BY <1>0, <1>1, <2>1 DEF Recording, Outside
<1>16. stack' = [stack EXCEPT ![d][Len(stack[d])] = g]
  BY <1>0, <1>2, <1>3, <1>4 DEF Observe, Step
<1>17. g.pc \notin Outside => f.pc \notin Outside
  BY <1>1 DEF Outside
<1> QED BY <1>0, <1>1, <1>7, <1>8, <1>10, <1>14, <1>15, <1>16, <1>17, AdvanceKeepsInv

\* The workflow returns or raises.
LEMMA OutcomeKeepsInv ==
  ASSUME ChildInv, NEW d \in Driver, CommitOutcome(d)
  PROVE  ChildInv'
<1>0. PICK f : f = Top(d)
  OBVIOUS
<1>1. stack[d] # <<>> /\ f.pc \in {"run", "fail"}
  BY <1>0 DEF CommitOutcome, Awaits, At
<1>2. /\ f \in FrameType /\ f.run \in Run /\ FrameOK(setting.calls, journal, overlap, f)
      /\ setting.calls \in RootCalls /\ journal \in Journals
  BY <1>0, <1>1, Innermost
<1>3. f.pc \in Loaded /\ f.pc \notin Outside
  BY <1>1 DEF Loaded, Outside
<1>4. PICK type \in OutcomeEvent, v \in Known : Commit(f.run, type, 0, v)
  <2>1. f.last \in Known /\ "error" \in Known
    BY <1>2 DEF FrameType, Known
  <2> QED BY <1>0, <2>1 DEF CommitOutcome, OutcomeEvent
<1>5. PICK e : e = Event(type, 0, v)
  OBVIOUS
<1>6. PICK g : g = [f EXCEPT !.pc = "settle"]
  OBVIOUS
<1>7. UNCHANGED <<status, timers, now, setting, tick, overlap>>
  BY DEF CommitOutcome, history
<1>8. Effect(f.run) /\ journal'[f.run] = Append(journal[f.run], e) /\ e \in EventType
  <2>1. tick' = [phase |-> tick'.phase, due |-> tick'.due, woken |-> tick'.woken]
    BY <1>7 DEF ChildInv, ChildTypes
  <2>2. tick'.due \subseteq tick.due /\ tick'.woken \subseteq tick.woken \cup {f.run}
    BY <1>7
  <2>3. type \in EventName /\ type # "ChildWorkflowScheduled" /\ 0 \in Nat
    BY <1>4 DEF OutcomeEvent, EventName, TerminalEvent
  <2> QED BY <1>2, <1>4, <1>5, <1>7, <2>1, <2>2, <2>3, CommitAlone
<1>9. e.type = type
  BY <1>5 DEF Event
<1>10. g \in FrameType /\ g.run = f.run /\ g.pc = "settle" /\ g.at = f.at
  <2>1. "settle" \in Pc
    BY DEF Pc
  <2> QED BY <2>1, <1>2, <1>6 DEF FrameType
<1>11. "settle" \notin Loaded /\ "settle" \in Pc
  BY DEF Loaded, Pc
<1>12. FrameOK(setting.calls, journal, overlap, g)
  <2>1. Fits(setting.calls, g)
    BY <1>2, <1>10 DEF FrameOK, Fits
  <2> QED BY <1>2, <1>6, <1>10, <1>11, <2>1, FrameGoes
<1>13. journal' \in Journals /\ Grown(journal, journal') /\ overlap \subseteq overlap'
  BY <1>8 DEF Effect
<1>14. FrameOK(setting.calls, journal', overlap', g)
  BY <1>2, <1>10, <1>11, <1>12, <1>13, FrameStays
<1>15. Recording(d, f.run)
  <2>1. ASSUME f.run \notin overlap PROVE OnceIn(journal'[f.run])
    <3>1. OnceIn(journal[f.run]) /\ journal[f.run] \in Seq(EventType)
      BY <1>2, <2>1 DEF ChildInv, RunsOK, Journals
    <3>2. \A k \in 1..Len(journal[f.run]) : journal[f.run][k].type \notin OutcomeEvent
      BY <1>2, <1>3, <2>1, NotRecordedYet
    <3>3. e.type \notin {"TaskCompleted", "ChildWorkflowScheduled"}
      BY <1>4, <1>9 DEF OutcomeEvent
    <3> QED BY <1>8, <3>1, <3>2, <3>3, OnceMore
  <2> QED BY <1>0, <1>1, <1>3, <2>1 DEF Recording
<1>16. stack' = [stack EXCEPT ![d][Len(stack[d])] = g]
  BY <1>0, <1>6 DEF CommitOutcome, GoTo, Step
<1> QED BY <1>0, <1>1, <1>3, <1>8, <1>10, <1>14, <1>15, <1>16, AdvanceKeepsInv

-----------------------------------------------------------------------------
(* The steps of a parent                                                    *)

\* The recorded child of a call, or a new one.
LEMMA StartingKeepsInv ==
  ASSUME ChildInv, NEW d \in Driver, StartChild(d)
  PROVE  ChildInv'
<1>0. PICK f : f = Top(d)
  OBVIOUS
<1>1. stack[d] # <<>> /\ f.pc = "run" /\ Call(d) = "child"
  BY <1>0 DEF StartChild, Awaits, At
<1>2. /\ f \in FrameType /\ f.run \in Run /\ f.at \in Nat /\ FrameOK(setting.calls, journal, overlap, f)
      /\ setting.calls \in RootCalls /\ journal \in Journals
      /\ f.at \in DOMAIN Flow(setting.calls, f.run) /\ Call(d) = Flow(setting.calls, f.run)[f.at]
  BY <1>0, <1>1, Innermost
<1>3. f.run = Root /\ f.at \in DOMAIN setting.calls
  BY <1>1, <1>2, OnlyTheRootHasChildren
<1>4. UNCHANGED <<status, timers, now, setting, tick, overlap>>
  BY DEF StartChild, history
<1>5. "run" \in Loaded /\ "named" \in Loaded /\ "named" \in Pc /\ "run" \notin Outside
  BY DEF Loaded, Pc, Outside
<1>6. ASSUME NEW k \in Kid, NEW g, g = [f EXCEPT !.pc = "named", !.child = k]
      PROVE  /\ g \in FrameType /\ g.run = f.run /\ g.at = f.at /\ g.pc = "named" /\ g.child = k
             /\ Fits(setting.calls, g) /\ LoadedIsOpen(journal, g) /\ NewsIsOwn(journal, overlap, g)
  <2>1. /\ g \in FrameType /\ g.run = f.run /\ g.at = f.at /\ g.pc = "named" /\ g.child = k
        /\ g.loaded = f.loaded
    BY <1>2, <1>5, <1>6 DEF FrameType, Run
  <2>2. Fits(setting.calls, g)
    BY <1>1, <1>2, <2>1 DEF FrameOK, Fits
  <2>3. LoadedIsOpen(journal, g)
    BY <1>1, <1>2, <1>5, <2>1 DEF FrameOK, LoadedIsOpen
  <2>4. NewsIsOwn(journal, overlap, g)
    BY <1>1, <1>2, <1>5, <2>1 DEF FrameOK, NewsIsOwn
  <2> QED BY <2>1, <2>2, <2>3, <2>4
<1>7. ASSUME Hit(d, "ChildWorkflowScheduled"), UNCHANGED journal,
             Step(d, [Top(d) EXCEPT !.pc = "named",
                       !.child = Recorded(Top(d).run, "ChildWorkflowScheduled", Top(d).at)])
      PROVE  ChildInv'
  <2>1. PICK k : k = Recorded(Top(d).run, "ChildWorkflowScheduled", Top(d).at)
    OBVIOUS
  <2>2. PICK g : g = [f EXCEPT !.pc = "named", !.child = k]
    OBVIOUS
  <2>3. PICK i \in 1..Len(journal[Root]) :
          /\ journal[Root][i].type = "ChildWorkflowScheduled" /\ journal[Root][i].call = f.at
          /\ journal[Root][i] \in EventType /\ k = journal[Root][i].val
    BY <1>0, <1>1, <1>3, <1>5, <1>7, <2>1, HitIsRecorded
  <2>4. k \in Kid /\ NamedIn(setting.calls, journal, k)
    BY <1>3, <2>3 DEF EventType, NamedIn
  <2>5. /\ g \in FrameType /\ g.run = f.run /\ g.pc = "named" /\ g.child = k
        /\ Fits(setting.calls, g) /\ LoadedIsOpen(journal, g) /\ NewsIsOwn(journal, overlap, g)
    BY <1>6, <2>2, <2>4
  <2>6. FrameOK(setting.calls, journal, overlap, g)
    BY <1>3, <2>4, <2>5, RootIsNoKid DEF FrameOK, KidsAreNamed
  <2>7. UNCHANGED <<store, now, setting, tick>> /\ overlap' = overlap /\ journal' = journal
    BY <1>4, <1>7 DEF store
  <2>8. Effect(f.run) /\ Recording(d, f.run)
    BY <1>2, <2>7, NothingElse DEF Recording
  <2>9. stack' = [stack EXCEPT ![d][Len(stack[d])] = g]
    BY <1>0, <1>7, <2>1, <2>2 DEF Step
  <2> QED BY <1>0, <1>1, <1>5, <2>5, <2>6, <2>7, <2>8, <2>9, AdvanceKeepsInv
<1>8. ASSUME ~Hit(d, "ChildWorkflowScheduled"), NEW k \in Kid,
             Commit(Top(d).run, "ChildWorkflowScheduled", Top(d).at, k),
             Step(d, [Top(d) EXCEPT !.pc = "named", !.child = k])
      PROVE  ChildInv'
  <2>1. PICK g : g = [f EXCEPT !.pc = "named", !.child = k]
    OBVIOUS
  <2>2. PICK e : e = Event("ChildWorkflowScheduled", f.at, k)
    OBVIOUS
  <2>3. /\ g \in FrameType /\ g.run = f.run /\ g.at = f.at /\ g.pc = "named" /\ g.child = k
        /\ Fits(setting.calls, g) /\ LoadedIsOpen(journal, g) /\ NewsIsOwn(journal, overlap, g)
    BY <1>6, <2>1
  <2>4. Effect(f.run) /\ journal'[f.run] = Append(journal[f.run], e) /\ e \in EventType
    <3>1. tick' = [phase |-> tick'.phase, due |-> tick'.due, woken |-> tick'.woken]
      BY <1>4 DEF ChildInv, ChildTypes
    <3>2. tick'.due \subseteq tick.due /\ tick'.woken \subseteq tick.woken \cup {f.run}
      BY <1>4
    <3>3. "ChildWorkflowScheduled" \in EventName /\ k \in Known
      BY DEF EventName, Known, Run
    <3>4. Commit(f.run, "ChildWorkflowScheduled", f.at, k)
      BY <1>0, <1>8
    <3> QED BY <1>2, <1>4, <2>2, <3>1, <3>2, <3>3, <3>4, CommitAlone
  <2>5. e.type = "ChildWorkflowScheduled" /\ e.call = f.at /\ e.val = k
    BY <2>2 DEF Event
  <2>6. journal' \in Journals /\ Grown(journal, journal') /\ overlap' = overlap
    BY <1>4, <2>4 DEF Effect
  <2>7. journal[Root] \in Seq(EventType) /\ journal'[Root] = Append(journal[Root], e)
    BY <1>2, <1>3, <2>4 DEF Journals
  <2>8. NamedIn(setting.calls, journal', k)
    <3>1. Len(journal'[Root]) \in 1..Len(journal'[Root]) /\ journal'[Root][Len(journal'[Root])] = e
      BY <2>7
    <3> QED BY <3>1, <1>3, <2>5 DEF NamedIn
  <2>9. KidsAreNamed(setting.calls, journal', g)
    BY <1>3, <2>3, <2>8, RootIsNoKid DEF KidsAreNamed
  <2>10. e.type # "TaskCompleted" /\ e.type \notin OutcomeEvent /\ g.pc # "run"
    BY <2>3, <2>5 DEF OutcomeEvent
  <2>11. FrameOK(setting.calls, journal', overlap, g)
    BY <1>2, <2>3, <2>4, <2>5, <2>6, <2>9, <2>10, FrameTakes
  <2>12. Recording(d, f.run)
    <3>1. ASSUME f.run \notin overlap PROVE OnceIn(journal'[f.run])
      <4>1. OnceIn(journal[f.run]) /\ journal[f.run] \in Seq(EventType)
        BY <1>2, <3>1 DEF ChildInv, RunsOK, Journals
      <4>2. \A i \in 1..Len(journal[f.run]) :
              ~(journal[f.run][i].type = "ChildWorkflowScheduled" /\ journal[f.run][i].call = f.at)
        <5>1. \A i \in 1..Len(journal[f.run]) :
                journal[f.run][i].type = "ChildWorkflowScheduled" /\ journal[f.run][i].call = f.at
                => i \in 1..f.loaded
          BY <1>1, <1>2, <1>5, <3>1, NotRecordedYet
        <5> QED BY <5>1, <1>0, <1>8 DEF Hit
      <4> QED BY <2>4, <2>5, <2>10, <4>1, <4>2, OnceMore
    <3> QED BY <1>0, <1>1, <1>5, <3>1 DEF Recording
  <2>13. stack' = [stack EXCEPT ![d][Len(stack[d])] = g]
    BY <1>0, <1>8, <2>1 DEF Step
  <2> QED BY <1>0, <1>1, <1>5, <2>3, <2>4, <2>6, <2>11, <2>12, <2>13, AdvanceKeepsInv
<1> QED BY <1>7, <1>8 DEF StartChild

\* The child is driven inside its parent's drive.
LEMMA DrivingAChildKeepsInv ==
  ASSUME ChildInv, NEW d \in Driver, DriveChild(d) \/ AwaitResult(d)
  PROVE  ChildInv'
<1>0. PICK f : f = Top(d)
  OBVIOUS
<1>1. PICK p : p = IF f.pc = "named" THEN "started" ELSE "await"
  OBVIOUS
<1>2. stack[d] # <<>> /\ f.pc \in {"named", "run"}
  BY <1>0 DEF DriveChild, AwaitResult, Awaits, At
<1>3. /\ f.pc = "run" => Call(d) = "result"
      /\ Enter(d, f.child, "enter", p)
  BY <1>0, <1>1 DEF DriveChild, AwaitResult, Awaits, At
<1>4. /\ f \in FrameType /\ f.run \in Run /\ f.at \in Nat /\ FrameOK(setting.calls, journal, overlap, f)
      /\ setting.calls \in RootCalls /\ journal \in Journals
      /\ f.at \in DOMAIN Flow(setting.calls, f.run) /\ Call(d) = Flow(setting.calls, f.run)[f.at]
  BY <1>0, <1>2, Innermost
<1>5. /\ f.pc = "named" => Call(d) = "child"
      /\ f.pc \in Loaded /\ f.pc \notin Outside
  BY <1>2, <1>4 DEF FrameOK, Fits, Loaded, Outside
<1>6. f.run = Root /\ Flow(setting.calls, f.run) = setting.calls
  BY <1>2, <1>3, <1>4, <1>5, OnlyTheRootHasChildren
<1>7. HasChild(setting.calls, f)
  <2>1. CASE f.pc = "named"
    BY <2>1 DEF HasChild
  <2>2. CASE f.pc = "run"
    BY <2>2, <1>3, <1>4, <1>6, ResultsAreOfChildren DEF HasChild
  <2> QED BY <1>2, <2>1, <2>2
<1>8. f.child \in Kid /\ NamedIn(setting.calls, journal, f.child)
  BY <1>4, <1>7 DEF FrameOK, KidsAreNamed
<1>9. PICK g : g = [f EXCEPT !.pc = p]
  OBVIOUS
<1>10. p \in {"started", "await"} /\ p \in Pc /\ p \notin {"run", "body"}
  BY <1>1 DEF Pc
<1>11. g \in FrameType /\ g.run = f.run /\ g.at = f.at /\ g.pc = p
  BY <1>4, <1>9, <1>10 DEF FrameType
<1>12. Fits(setting.calls, g)
  BY <1>1, <1>2, <1>3, <1>4, <1>5, <1>11 DEF Fits
<1>13. p = "started" => f.pc = "named"
  BY <1>1
<1>14. FrameOK(setting.calls, journal, overlap, g)
  BY <1>4, <1>5, <1>9, <1>10, <1>11, <1>12, <1>13, FrameGoes
<1>15. UNCHANGED <<store, now, setting, tick>> /\ overlap \subseteq overlap' /\ journal' = journal
  BY <1>3 DEF DriveChild, AwaitResult, store, Enter, Meet
<1>16. Effect(Root) /\ Quietly(journal[f.run], journal[f.run])
  BY <1>0, <1>2, <1>4, <1>6, <1>15, NothingElse, Innermost
<1>17. Grown(journal, journal)
  <2>1. \A q \in Run : journal[q] \in Seq(EventType)
    BY <1>4 DEF Journals
  <2> QED BY <2>1 DEF Grown, Extends
<1>18. FrameOK(setting.calls, journal, overlap', g)
  BY <1>4, <1>11, <1>14, <1>15, <1>16, <1>17, FrameStays
<1> QED BY <1>0, <1>2, <1>3, <1>5, <1>6, <1>8, <1>9, <1>10, <1>15, <1>16, <1>18, EnterKeepsInv

\* the greatest of some indices
LEMMA GreatestIndex ==
  ASSUME NEW n \in Nat, NEW S \in SUBSET (1..n), S # {}
  PROVE  \E i \in S : \A k \in S : k <= i
<1> DEFINE T == {n - i : i \in S}
<1>0. IsWellFoundedOn(OpToRel(<, Nat), Nat)
  BY NatLessThanWellFounded
<1>1. T \subseteq Nat /\ T # {}
  <2>1. \A i \in S : n - i \in Nat
    OBVIOUS
  <2> QED BY <2>1
<1>2. PICK x \in T : \A y \in T : <<y, x>> \notin OpToRel(<, Nat)
  BY <1>0, <1>1, WFMin
<1>3. \A y \in T : ~(y < x)
  BY <1>1, <1>2 DEF OpToRel
<1>4. PICK i \in S : x = n - i
  BY <1>2
<1>5. ASSUME NEW k \in S PROVE k <= i
  <2>1. n - k \in T /\ ~(n - k < n - i)
    BY <1>3, <1>4
  <2>2. i \in 1..n /\ k \in 1..n
    OBVIOUS
  <2> QED BY <2>1, <2>2
<1> QED BY <1>5

LEMMA LastIsThere ==
  ASSUME ChildInv, NEW r \in Run, NEW type, Count(r, type) > 0, NEW types, type \in types
  PROVE  LastOf(r, types) \in EventType
<1> DEFINE j == journal[r]
           ends == {i \in DOMAIN j : j[i].type \in types}
           S == {i \in DOMAIN j : j[i].type = type}
<1>1. j \in Seq(EventType) /\ Len(j) \in Nat /\ DOMAIN j = 1..Len(j)
  BY DEF ChildInv, ChildTypes
<1>2. S # {}
  BY FS_EmptySet DEF Count
<1>3. ends \in SUBSET (1..Len(j)) /\ ends # {}
  BY <1>1, <1>2
<1>4. PICK i : i = (CHOOSE n \in ends : \A k \in ends : k <= n)
  OBVIOUS
<1>5. i \in ends
  BY <1>1, <1>3, <1>4, GreatestIndex
<1>6. LastOf(r, types) = j[i]
  BY <1>4 DEF LastOf
<1> QED BY <1>1, <1>5, <1>6

\* The exception of a task, or of a child, escapes; the child's outcome is handed over.
LEMMA OutcomesKeepInv ==
  ASSUME ChildInv, NEW d \in Driver,
         TaskRaises(d) \/ ChildStarted(d) \/ HandParked(d) \/ PollChild(d) \/ HandOutcome(d)
  PROVE  ChildInv'
<1>1. stack[d] # <<>> /\ Top(d).pc \in {"body", "started", "await", "poll"}
  BY DEF TaskRaises, ChildStarted, HandParked, PollChild, HandOutcome, At
<1>2. Top(d).pc \in Loaded /\ Top(d).pc \notin Outside
  BY <1>1 DEF Loaded, Outside
<1>3. UNCHANGED <<store, now, setting, tick, overlap>>
  BY DEF TaskRaises, ChildStarted, HandParked, PollChild, HandOutcome, history
<1>4. /\ Top(d).run \in Run /\ Top(d).child \in Run /\ Fits(setting.calls, Top(d))
      /\ Call(d) = Flow(setting.calls, Top(d).run)[Top(d).at]
  BY <1>1, Innermost DEF FrameOK, FrameType
<1>5. Top(d).pc \in {"await", "poll"} => Call(d) = "result"
  BY <1>4 DEF Fits
<1>6. Effect(Top(d).run) /\ Quietly(journal[Top(d).run], journal'[Top(d).run])
  BY <1>3, <1>4, NothingElse
<1>7. ASSUME GoTo(d, "fail") PROVE ChildInv'
  BY <1>1, <1>2, <1>6, <1>7, GoToKeepsInv
<1>8. CASE TaskRaises(d)
  BY <1>7, <1>8 DEF TaskRaises
<1>9. CASE ChildStarted(d)
  <2>1. Top(d).pc = "started" /\ "handle" \in Known
    BY <1>9 DEF ChildStarted, At, Known
  <2>2. GoTo(d, "fail") \/ Observe(d, "handle")
    BY <1>9 DEF ChildStarted, RaiseChildFailure
  <2> QED BY <1>1, <1>2, <1>3, <1>7, <2>1, <2>2, GoesOnKeepsInv
<1>10. CASE HandParked(d)
  <2>1. Top(d).pc = "await" /\ "parked" \in Known /\ Observe(d, "parked")
    BY <1>10 DEF HandParked, HandOver, At, Known
  <2> QED BY <1>1, <1>2, <1>3, <1>5, <2>1, GoesOnKeepsInv
<1>11. CASE PollChild(d)
  <2>1. Top(d).pc = "await" /\ Call(d) = "result"
    BY <1>5, <1>11 DEF PollChild, At
  <2>2. /\ "poll" \in Pc /\ "poll" \notin {"run", "body"} /\ "poll" \in Loaded
        /\ "poll" \notin {"named", "started"} /\ "poll" \notin {"timer", "park", "parked"}
    BY DEF Pc, Loaded
  <2>3. stack' = [stack EXCEPT ![d][Len(stack[d])] = [Top(d) EXCEPT !.pc = "poll"]]
    BY <1>11 DEF PollChild, Suspend
  <2> QED BY <1>1, <1>2, <1>6, <2>1, <2>2, <2>3, GoesKeepsInv
<1>12. CASE HandOutcome(d)
  <2>1. PICK v : v = LastOf(Top(d).child, OutcomeEvent).val
    OBVIOUS
  <2>2. Top(d).pc \in {"await", "poll"}
    BY <1>12 DEF HandOutcome, At
  <2>3. GoTo(d, "fail") \/ (Count(Top(d).child, "WorkflowCompleted") > 0 /\ Observe(d, v))
    BY <1>12, <2>1 DEF HandOutcome, HandOver
  <2>4. ASSUME Count(Top(d).child, "WorkflowCompleted") > 0 PROVE v \in Known
    <3>1. "WorkflowCompleted" \in OutcomeEvent
      BY DEF OutcomeEvent
    <3>2. LastOf(Top(d).child, OutcomeEvent) \in EventType
      BY <1>4, <2>4, <3>1, LastIsThere
    <3> QED BY <2>1, <3>2 DEF EventType
  <2> QED BY <1>1, <1>2, <1>3, <1>5, <1>7, <2>2, <2>3, <2>4, GoesOnKeepsInv
<1> QED BY <1>8, <1>9, <1>10, <1>11, <1>12

\* Every step of a drive keeps the invariant.
LEMMA DriveKeepsInv ==
  ASSUME ChildInv, NEW d \in Driver, Drive(d)
  PROVE  ChildInv'
BY EnteringKeepsInv, LoadingKeepsInv, HitsKeepInv, ScheduleKeepsInv, SleepsKeepInv, ReturningKeepsInv,
   OutcomeKeepsInv, StartingKeepsInv, DrivingAChildKeepsInv, OutcomesKeepInv DEF Drive

-----------------------------------------------------------------------------
(* The caller, the poll loop and the process                                *)

LEMMA CallerKeepsInv ==
  ASSUME ChildInv, Start \/ AwaitUnpark \/ Unparked
  PROVE  ChildInv'
<1>1. "caller" \in Driver /\ Root \in Run /\ IsNamed(Root) /\ Root \notin Kid
  BY RootIsNoKid DEF Driver, Run, IsNamed
<1>2. /\ setting.calls \in RootCalls /\ stack \in Stacks
      /\ "unpark" \in Pc /\ "wait" \in Pc /\ "wait" \in Outside /\ "wait" \notin Loaded
  BY DEF ChildInv, ChildTypes, Stacks, Pc, Outside, Loaded
<1>3. UNCHANGED <<store, now, setting, tick>> /\ overlap \subseteq overlap' /\ journal' = journal
  BY DEF Start, AwaitUnpark, Unparked, history, store, Begin, Meet
<1>4. \A r \in Run : Effect(r) /\ Quietly(journal[r], journal'[r])
  BY <1>3, NothingElse
<1>5. CASE Start
  <2>1. PICK f, g : f = Frame(Root, "unpark") /\ g = Frame(Root, "enter")
    OBVIOUS
  <2>2. /\ f \in FrameType /\ f.run = Root /\ f.pc = "unpark"
        /\ FrameOK(setting.calls, journal, overlap', f)
    BY <1>1, <1>2, <2>1, FrameBegins
  <2>3. /\ g \in FrameType /\ g.run = Root /\ g.pc = "enter"
        /\ FrameOK(setting.calls, journal, overlap', g)
    BY <1>1, <1>2, <2>1, FrameBegins
  <2>4. PICK s : s = <<f, g>>
    OBVIOUS
  <2>5. s \in Seq(FrameType) /\ Len(s) = 2 /\ s[1] = f /\ s[2] = g
    BY <2>2, <2>3, <2>4
  <2>6. Nested(s)
    BY <2>2, <2>5 DEF Nested
  <2>7. \A i \in 1..Len(s) : /\ s[i].run = Root /\ FrameOK(setting.calls, journal, overlap', s[i])
                             /\ s[i].pc \notin Outside => i = Len(s)
    <3>1. \A i \in 1..Len(s) : i = 1 \/ i = 2
      BY <2>5
    <3> QED BY <3>1, <2>2, <2>3, <2>5 DEF Outside
  <2>8. Begin("caller", Root, s) /\ stack["caller"] = <<>>
    BY <1>5, <2>1, <2>4 DEF Start, Idle
  <2> QED BY <1>1, <1>3, <1>4, <2>5, <2>6, <2>7, <2>8, BeginKeepsInv
<1>6. ASSUME stack' = [stack EXCEPT !["caller"] = <<>>] PROVE ChildInv'
  <2>0. <<>> \in Seq(FrameType)
    OBVIOUS
  <2>1. stack' \in Stacks /\ \A e \in Driver : stack'[e] \in {stack[e], <<>>}
    BY <1>2, <1>6, <2>0 DEF Stacks
  <2> QED BY <1>1, <1>4, <2>1, FewerKeepsInv
<1>7. CASE AwaitUnpark
  <2>1. SUFFICES ASSUME stack' # [stack EXCEPT !["caller"] = <<>>] PROVE ChildInv'
    BY <1>6
  <2>2. /\ stack' = [stack EXCEPT !["caller"][Len(stack["caller"])] = [Top("caller") EXCEPT !.pc = "wait"]]
        /\ stack["caller"] # <<>>
    BY <1>7, <2>1 DEF AwaitUnpark, Suspend, At
  <2>3. PICK f : f = Top("caller")
    OBVIOUS
  <2>4. /\ f \in FrameType /\ f.run \in Run /\ FrameOK(setting.calls, journal, overlap, f)
        /\ journal \in Journals
    BY <1>1, <2>2, <2>3, Innermost
  <2>5. PICK g : g = [f EXCEPT !.pc = "wait"]
    OBVIOUS
  <2>6. g \in FrameType /\ g.run = f.run /\ g.pc = "wait" /\ g.at = f.at
    BY <1>2, <2>4, <2>5 DEF FrameType
  <2>7. Fits(setting.calls, g)
    BY <2>4, <2>6 DEF FrameOK, Fits
  <2>8. FrameOK(setting.calls, journal, overlap, g)
    BY <1>2, <2>4, <2>5, <2>6, <2>7, FrameGoes
  <2>9. journal' = journal /\ overlap' = overlap
    BY <1>3, <1>7 DEF AwaitUnpark, history
  <2>10. Effect(f.run) /\ Recording("caller", f.run)
    BY <1>4, <2>4 DEF Recording
  <2> QED BY <1>1, <1>2, <2>2, <2>3, <2>5, <2>6, <2>8, <2>9, <2>10, AdvanceKeepsInv
<1>8. CASE Unparked
  BY <1>6, <1>8 DEF Unparked
<1> QED BY <1>5, <1>7, <1>8

\* What happens to a timer is the matter of its run.
LEMMA TimersKeepInv ==
  ASSUME ChildInv, NEW t \in timers, FireTimer(t) \/ SettleTimer(t)
  PROVE  ChildInv'
<1>1. PICK r : r = t.run
  OBVIOUS
<1>2. IsTimer(t) /\ IsNamed(r) /\ r \in Run
  BY <1>1 DEF ChildInv, ChildTypes, KidsOK, IsNamed, IsTimer
<1>3. UNCHANGED <<status, now, setting, overlap, stack>>
  BY DEF FireTimer, SettleTimer, history
<1>4. stack' \in Stacks /\ \A e \in Driver : stack'[e] \in {stack[e], <<>>}
  BY <1>3 DEF ChildInv, ChildTypes, Stacks
<1>5. /\ tick' = [phase |-> tick'.phase, due |-> tick'.due, woken |-> tick'.woken]
      /\ tick'.due \subseteq tick.due /\ tick'.woken \subseteq tick.woken \cup {r}
  BY <1>1 DEF FireTimer, SettleTimer, ChildInv, ChildTypes
<1>6. ASSUME Settle(t), UNCHANGED journal PROVE Effect(r) /\ Quietly(journal[r], journal'[r])
  <2>1. PICK u : u = [t EXCEPT !.status = "fired"]
    OBVIOUS
  <2>2. IsTimer(u) /\ u.run = r
    BY <1>1, <1>2, <2>1 DEF IsTimer
  <2>3. timers' = (timers \ {t}) \cup {u}
    BY <1>6, <2>1 DEF Settle
  <2>4. \A x \in timers' \cup tick'.due :
          IsTimer(x) /\ (x.run = r \/ \E y \in timers \cup tick.due : y.run = x.run)
    BY <1>5, <2>2, <2>3 DEF ChildInv, ChildTypes
  <2>5. Grown(journal, journal') /\ Quietly(journal[r], journal'[r])
    <3>1. \A q \in Run : journal[q] \in Seq(EventType)
      BY DEF ChildInv, ChildTypes
    <3> QED BY <1>2, <1>6, <3>1 DEF Grown, Extends, Quietly
  <2>6. \A q \in tick'.woken : q \in Run /\ (q = r \/ q \in tick.woken)
    BY <1>2, <1>5 DEF ChildInv, ChildTypes
  <2> QED BY <1>3, <1>5, <1>6, <2>4, <2>5, <2>6 DEF Effect, ChildInv, ChildTypes, Journals
<1>7. ASSUME Commit(t.run, "TimerFired", t.call, "none"), UNCHANGED timers
      PROVE  Effect(r) /\ Quietly(journal[r], journal'[r])
  <2>1. /\ "TimerFired" \in EventName /\ "TimerFired" \notin News /\ "none" \in Known
        /\ "TimerFired" # "ChildWorkflowScheduled" /\ t.call \in Nat
    BY <1>2 DEF EventName, News, OutcomeEvent, Known, IsTimer
  <2>2. Commit(r, "TimerFired", t.call, "none") /\ UNCHANGED <<status, timers, now, setting, overlap>>
    BY <1>1, <1>3, <1>7
  <2> QED BY <1>2, <1>5, <2>1, <2>2, CommitAlone
<1>8. Effect(r) /\ Quietly(journal[r], journal'[r])
  BY <1>6, <1>7 DEF FireTimer, SettleTimer
<1> QED BY <1>2, <1>4, <1>8, FewerKeepsInv

\* Reading the due timers, ending a tick, the time and a crash touch no run.
LEMMA NoRunsMatter ==
  ASSUME ChildInv, ReadDue \/ EndTick \/ PassTime \/ Crash
  PROVE  ChildInv'
<1>1. Root \in Run /\ IsNamed(Root)
  BY RootIsNoKid DEF Run, IsNamed
<1>2. UNCHANGED <<store, setting, overlap>> /\ UNCHANGED <<journal, status, timers>>
  BY DEF ReadDue, EndTick, PassTime, Crash, history, store
<1>3. stack' \in Stacks /\ \A e \in Driver : stack'[e] \in {stack[e], <<>>}
  <2>1. stack \in Stacks /\ <<>> \in Seq(FrameType)
    BY DEF ChildInv, ChildTypes, Stacks
  <2>2. stack' = stack \/ stack' = [d \in Driver |-> <<>>]
    BY DEF ReadDue, EndTick, PassTime, Crash
  <2> QED BY <2>1, <2>2 DEF Stacks
<1>4. now' \in Nat
  BY DEF ReadDue, EndTick, PassTime, Crash, ChildInv, ChildTypes
<1>5. /\ tick' = [phase |-> tick'.phase, due |-> tick'.due, woken |-> tick'.woken]
      /\ tick'.due \subseteq timers \cup tick.due /\ tick'.woken \subseteq tick.woken
  <2>1. CASE ReadDue
    BY <2>1 DEF ReadDue
  <2>2. CASE EndTick \/ Crash
    BY <2>2 DEF EndTick, Crash, Asleep
  <2>3. CASE PassTime
    BY <2>3 DEF PassTime, ChildInv, ChildTypes
  <2> QED BY <2>1, <2>2, <2>3
<1>6. Grown(journal, journal') /\ Quietly(journal[Root], journal'[Root])
  <2>1. \A q \in Run : journal[q] \in Seq(EventType)
    BY DEF ChildInv, ChildTypes
  <2> QED BY <1>1, <1>2, <2>1 DEF Grown, Extends, Quietly
<1>7. Effect(Root)
  <2>1. \A x \in timers' \cup tick'.due : x \in timers \cup tick.due /\ IsTimer(x)
    BY <1>2, <1>5 DEF ChildInv, ChildTypes
  <2>2. \A q \in tick'.woken : q \in Run /\ q \in tick.woken
    BY <1>5 DEF ChildInv, ChildTypes
  <2> QED BY <1>2, <1>4, <1>5, <1>6, <2>1, <2>2 DEF Effect, ChildInv, ChildTypes, Journals
<1> QED BY <1>1, <1>3, <1>6, <1>7, FewerKeepsInv

\* A drive of the poll loop is of a run that is named.
LEMMA LoopBegins ==
  ASSUME ChildInv, NEW r, IsNamed(r), Effect(r), journal' = journal, stack["loop"] = <<>>,
         NEW pc \in {"cancel", "load"}, Begin("loop", r, <<Frame(r, pc)>>)
  PROVE  ChildInv'
<1>1. "loop" \in Driver /\ r \in Run /\ setting.calls \in RootCalls /\ pc \notin Outside
  BY DEF Driver, IsNamed, ChildInv, ChildTypes, Outside
<1>2. PICK f : f = Frame(r, pc)
  OBVIOUS
<1>3. f \in FrameType /\ f.run = r /\ FrameOK(setting.calls, journal, overlap', f)
  BY <1>1, <1>2, FrameBegins DEF IsNamed
<1>4. PICK s : s = <<f>>
  OBVIOUS
<1>5. s \in Seq(FrameType) /\ Len(s) = 1 /\ s[1] = f
  BY <1>3, <1>4
<1>6. Nested(s)
  BY <1>5 DEF Nested
<1>7. \A i \in 1..Len(s) : /\ s[i].run = r /\ FrameOK(setting.calls, journal, overlap', s[i])
                           /\ s[i].pc \notin Outside => i = Len(s)
  <2>1. \A i \in 1..Len(s) : i = 1
    BY <1>5
  <2> QED BY <2>1, <1>3, <1>5
<1> QED BY <1>1, <1>2, <1>4, <1>5, <1>6, <1>7, BeginKeepsInv

LEMMA WakingKeepsInv ==
  ASSUME ChildInv, NEW r \in Run, WakeRun(r)
  PROVE  ChildInv'
<1>1. IsNamed(r) /\ stack["loop"] = <<>>
  BY DEF WakeRun, ChildInv, KidsOK, IsNamed, Ticking
<1>2. /\ UNCHANGED <<store, now, setting>> /\ overlap \subseteq overlap'
      /\ UNCHANGED <<journal, status, timers>>
  BY DEF WakeRun, Begin, Meet, store
<1>3. /\ tick' = [phase |-> tick'.phase, due |-> tick'.due, woken |-> tick'.woken]
      /\ tick'.due = tick.due /\ tick'.woken \subseteq tick.woken
  BY DEF WakeRun, ChildInv, ChildTypes
<1>4. Grown(journal, journal') /\ Quietly(journal[r], journal'[r])
  <2>1. \A q \in Run : journal[q] \in Seq(EventType)
    BY DEF ChildInv, ChildTypes
  <2> QED BY <1>2, <2>1 DEF Grown, Extends, Quietly
<1>5. Effect(r)
  <2>1. \A x \in timers' \cup tick'.due : x \in timers \cup tick.due /\ IsTimer(x)
    BY <1>2, <1>3 DEF ChildInv, ChildTypes
  <2>2. \A q \in tick'.woken : q \in Run /\ q \in tick.woken
    BY <1>3 DEF ChildInv, ChildTypes
  <2> QED BY <1>2, <1>3, <1>4, <2>1, <2>2 DEF Effect, ChildInv, ChildTypes, Journals
<1>6. CASE UNCHANGED <<stack, turn, overlap>>
  <2>1. stack' \in Stacks /\ \A e \in Driver : stack'[e] \in {stack[e], <<>>}
    BY <1>6 DEF ChildInv, ChildTypes, Stacks
  <2> QED BY <1>1, <1>4, <1>5, <2>1, FewerKeepsInv
<1>7. CASE Begin("loop", r, <<Frame(r, "load")>>)
  BY <1>1, <1>2, <1>5, <1>7, LoopBegins
<1> QED BY <1>6, <1>7 DEF WakeRun

\* The poll loop drives nothing while it sleeps.
LoopIsIdle == tick.phase = "asleep" => stack["loop"] = <<>>

LEMMA CancellingKeepsInv ==
  ASSUME ChildInv, LoopIsIdle, NEW r \in Run, Cancel(r)
  PROVE  ChildInv'
<1>1. IsNamed(r) /\ stack["loop"] = <<>>
  BY DEF Cancel, ChildInv, KidsOK, IsNamed, LoopIsIdle
<1>2. /\ UNCHANGED <<store, now, setting>> /\ overlap \subseteq overlap'
      /\ UNCHANGED <<journal, status, timers>>
  BY DEF Cancel, Begin, Meet, store
<1>3. tick' = [phase |-> "fire", due |-> {}, woken |-> {}]
  BY DEF Cancel, Asleep
<1>4. Grown(journal, journal')
  <2>1. \A q \in Run : journal[q] \in Seq(EventType)
    BY DEF ChildInv, ChildTypes
  <2> QED BY <1>2, <2>1 DEF Grown, Extends
<1>5. Effect(r)
  <2>1. tick'.due = {} /\ tick'.woken = {} /\ tick'.phase = "fire"
    BY <1>3
  <2>2. \A x \in timers' \cup tick'.due : x \in timers \cup tick.due /\ IsTimer(x)
    BY <1>2, <2>1 DEF ChildInv, ChildTypes
  <2> QED BY <1>2, <1>3, <1>4, <2>1, <2>2 DEF Effect, ChildInv, ChildTypes, Journals
<1> QED BY <1>1, <1>2, <1>5, LoopBegins DEF Cancel

\* A cancellation is no outcome.
LEMMA CancelledKeepsInv ==
  ASSUME ChildInv, CommitCancelled
  PROVE  ChildInv'
<1>1. "loop" \in Driver /\ stack["loop"] # <<>> /\ Top("loop").pc = "cancel"
  BY DEF Driver, CommitCancelled, At
<1>2. Top("loop").run \in Run /\ Top("loop").pc \notin Outside
  BY <1>1, Innermost DEF Outside
<1>3. "WorkflowCancelled" \in EventName \ News /\ "none" \in Known /\ 0 \in Nat
  BY DEF EventName, TerminalEvent, News, OutcomeEvent, Known
<1>4. UNCHANGED <<status, timers, now, setting, tick, overlap>>
  BY DEF CommitCancelled, history
<1>5. Effect(Top("loop").run) /\ Quietly(journal[Top("loop").run], journal'[Top("loop").run])
  BY <1>2, <1>3, <1>4, QuietCommit DEF CommitCancelled
<1> QED BY <1>1, <1>2, <1>5, GoToKeepsInv DEF CommitCancelled

-----------------------------------------------------------------------------
(* Theorems                                                                 *)

LEMMA LoopStaysIdle ==
  ASSUME ChildTypes, LoopIsIdle, [ChildNext]_vars
  PROVE  LoopIsIdle'
<1>1. DOMAIN stack = Driver /\ "loop" \in Driver /\ "caller" \in Driver
  BY DEF ChildTypes, Driver
<1>2. ASSUME NEW d \in Driver, Drive(d) PROVE LoopIsIdle'
  <2>1. tick' = tick /\ stack[d] # <<>>
    BY <1>2 DEF Drive, CreateRow, Unbegun, CommitCreated, EnterTerminal, EnterParked, EnterResumed,
       Reconcile, LoadJournal, TaskHit, ScheduleTask, TaskReturns, TaskRaises, SleepHit, CreateTimer,
       EnsureTimerRow, CommitWaiting, ParkRun, CommitOutcome, SettleStatus, StartChild, DriveChild,
       ChildStarted, AwaitResult, HandParked, PollChild, HandOutcome, Awaits, At
  <2>2. \A e \in Driver \ {d} : stack'[e] = stack[e]
    BY <1>1, <1>2 DEF Drive, CreateRow, CommitCreated, EnterTerminal, EnterParked, EnterResumed,
       Reconcile, LoadJournal, TaskHit, ScheduleTask, TaskReturns, TaskRaises, SleepHit, CreateTimer,
       EnsureTimerRow, CommitWaiting, ParkRun, CommitOutcome, SettleStatus, StartChild, DriveChild,
       ChildStarted, AwaitResult, HandParked, PollChild, HandOutcome, RaiseChildFailure, HandOver,
       GoTo, Step, Suspend, Observe, Return, Enter
  <2> QED BY <1>1, <2>1, <2>2 DEF LoopIsIdle
<1>3. CASE Start \/ AwaitUnpark \/ Unparked
  <2>1. tick' = tick /\ stack'["loop"] = stack["loop"]
    BY <1>1, <1>3 DEF Start, Begin, AwaitUnpark, Suspend, Unparked
  <2> QED BY <2>1 DEF LoopIsIdle
<1>4. CASE CommitCancelled
  <2>1. tick' = tick /\ stack["loop"] # <<>>
    BY <1>4 DEF CommitCancelled, At
  <2> QED BY <2>1 DEF LoopIsIdle
<1>5. ASSUME NEW r \in Run, Cancel(r) PROVE LoopIsIdle'
  BY <1>5 DEF Cancel, Asleep, LoopIsIdle
<1>6. CASE ReadDue
  BY <1>6 DEF ReadDue, LoopIsIdle
<1>7. CASE EndTick
  BY <1>7 DEF EndTick, Ticking, LoopIsIdle
<1>8. ASSUME NEW t \in timers, FireTimer(t) \/ SettleTimer(t) PROVE LoopIsIdle'
  <2>1. stack' = stack /\ stack["loop"] = <<>>
    BY <1>8 DEF FireTimer, SettleTimer, Ticking
  <2> QED BY <2>1 DEF LoopIsIdle
<1>9. ASSUME NEW r \in Run, WakeRun(r) PROVE LoopIsIdle'
  <2>1. tick'.phase = tick.phase /\ tick.phase = "fire"
    BY <1>9 DEF WakeRun, Ticking, ChildTypes
  <2> QED BY <2>1 DEF LoopIsIdle
<1>10. CASE PassTime \/ Crash
  BY <1>1, <1>10 DEF PassTime, Crash, LoopIsIdle
<1>11. CASE UNCHANGED vars
  BY <1>11 DEF vars, LoopIsIdle
<1> QED BY <1>2, <1>3, <1>4, <1>5, <1>6, <1>7, <1>8, <1>9, <1>10, <1>11 DEF ChildNext, Tick

LEMMA StartsOK == ChildInit => ChildInv /\ LoopIsIdle
<1> SUFFICES ASSUME ChildInit PROVE ChildInv /\ LoopIsIdle
  OBVIOUS
<1>1. <<>> \in Seq(EventType) /\ <<>> \in Seq(FrameType)
  OBVIOUS
<1>2. ChildTypes
  BY <1>1 DEF ChildInit, ChildTypes, Asleep
<1>3. \A d \in Driver : stack[d] = <<>> /\ Len(stack[d]) = 0
  BY DEF ChildInit
<1>4. \A q \in Run : journal[q] = <<>> /\ Len(journal[q]) = 0
  BY DEF ChildInit
<1>5. DrivesOK
  BY <1>3 DEF DrivesOK, Nested
<1>6. RunsOK
  BY <1>3, <1>4 DEF RunsOK, Alone, OnceIn
<1>7. KidsOK
  BY DEF ChildInit, KidsOK, Asleep, Run
<1>8. LoopIsIdle
  BY <1>3 DEF LoopIsIdle, Driver
<1> QED BY <1>2, <1>5, <1>6, <1>7, <1>8 DEF ChildInv

LEMMA StepsKeepInv ==
  ASSUME ChildInv, LoopIsIdle, [ChildNext]_vars
  PROVE  ChildInv'
<1>1. CASE UNCHANGED vars
  <2>1. Root \in Run /\ UNCHANGED <<store, now, setting, tick>> /\ overlap' = overlap /\ stack' = stack
    BY <1>1 DEF vars, history, Run
  <2>2. Effect(Root) /\ Quietly(journal[Root], journal'[Root])
    BY <2>1, NothingElse
  <2>3. IsNamed(Root) /\ stack' \in Stacks /\ \A e \in Driver : stack'[e] \in {stack[e], <<>>}
    BY <2>1, RootIsNoKid DEF IsNamed, Stacks, ChildInv, ChildTypes
  <2> QED BY <2>2, <2>3, FewerKeepsInv
<1> QED
  BY <1>1, DriveKeepsInv, CallerKeepsInv, CancelledKeepsInv, CancellingKeepsInv, TimersKeepInv,
     WakingKeepsInv, NoRunsMatter DEF ChildNext, Tick

\* The state of ChildRun stays what the invariant says of it.
THEOREM ChildInvHolds == ChildSpec => [](ChildInv /\ LoopIsIdle)
<1>1. ChildInv /\ LoopIsIdle /\ [ChildNext]_vars => ChildInv' /\ LoopIsIdle'
  BY StepsKeepInv, LoopStaysIdle DEF ChildInv
<1> QED BY <1>1, StartsOK, PTL DEF ChildSpec

LEMMA AtMostOne ==
  ASSUME NEW S, \A x, y \in S : x = y
  PROVE  IsFiniteSet(S) /\ Cardinality(S) \in {0, 1} /\ (Cardinality(S) = 0 <=> S = {})
<1>1. CASE S = {}
  BY <1>1, FS_EmptySet
<1>2. ASSUME NEW x \in S PROVE S = {x}
  OBVIOUS
<1>3. CASE S # {}
  <2>1. PICK x : S = {x}
    BY <1>2, <1>3
  <2>2. IsFiniteSet(S) /\ Cardinality(S) = 1
    BY <2>1, FS_Singleton
  <2> QED BY <1>3, <2>2
<1> QED BY <1>1, <1>3

\* One call of start_child has one child, however often the parent is driven, and no row
\* of a child is there that the parent's journal does not name.
THEOREM OneChildHolds == ChildSpec => []OneChild
<1>1. ChildInv => OneChild
  <2> SUFFICES ASSUME ChildInv PROVE OneChild
    OBVIOUS
  <2>1. Root \in Run /\ journal[Root] \in Seq(EventType)
    BY DEF Run, ChildInv, ChildTypes
  <2>2. ASSUME Root \notin overlap, NEW call \in DOMAIN setting.calls PROVE Cardinality(Named(call)) <= 1
    <3>1. OnceIn(journal[Root])
      BY <2>1, <2>2 DEF ChildInv, RunsOK
    <3>2. \A x, y \in Named(call) : x = y
      BY <2>1, <3>1 DEF Named, OnceIn
    <3> QED BY <3>2, AtMostOne
  <2>3. ASSUME NEW k \in Kid, status[k] # "none"
        PROVE  \E call \in DOMAIN setting.calls : k \in Named(call)
    <3>1. NamedIn(setting.calls, journal, k)
      BY <2>3 DEF ChildInv, KidsOK
    <3> QED BY <2>1, <3>1 DEF NamedIn, Named
  <2> QED BY <2>2, <2>3 DEF OneChild
<1> QED BY <1>1, ChildInvHolds, PTL

\* A child that was interrupted resumes and does not start over, and one that has ended
\* is reused, whoever drives it.
THEOREM ResumesNotRestartsHolds == ChildSpec => []ResumesNotRestarts
<1>1. ChildInv => ResumesNotRestarts
  <2> SUFFICES ASSUME ChildInv, NEW q \in Run, q \notin overlap PROVE Once(q)
    BY DEF ResumesNotRestarts
  <2> DEFINE j == journal[q]
             At1(type) == {i \in DOMAIN j : j[i].type = type}
  <2>1. j \in Seq(EventType) /\ DOMAIN j = 1..Len(j) /\ OnceIn(j)
    BY DEF ChildInv, ChildTypes, RunsOK
  <2>2. ASSUME NEW call \in DOMAIN Calls(q)
        PROVE  Cardinality({i \in DOMAIN j : j[i].type = "TaskCompleted" /\ j[i].call = call}) <= 1
    <3>1. \A x, y \in {i \in DOMAIN j : j[i].type = "TaskCompleted" /\ j[i].call = call} : x = y
      BY <2>1 DEF OnceIn
    <3> QED BY <3>1, AtMostOne
  <2>3. \A x, y \in At1("WorkflowCompleted") \cup At1("WorkflowFailed") : x = y
    BY <2>1 DEF OnceIn, OutcomeEvent
  <2>4. At1("WorkflowCompleted") = {} \/ At1("WorkflowFailed") = {}
    BY <2>3
  <2>5. /\ Cardinality(At1("WorkflowCompleted")) \in {0, 1}
        /\ Cardinality(At1("WorkflowCompleted")) = 0 <=> At1("WorkflowCompleted") = {}
    BY <2>3, AtMostOne
  <2>6. /\ Cardinality(At1("WorkflowFailed")) \in {0, 1}
        /\ Cardinality(At1("WorkflowFailed")) = 0 <=> At1("WorkflowFailed") = {}
    BY <2>3, AtMostOne
  <2>7. Count(q, "WorkflowCompleted") + Count(q, "WorkflowFailed") <= 1
    BY <2>4, <2>5, <2>6 DEF Count
  <2> QED BY <2>2, <2>7 DEF Once
<1> QED BY <1>1, ChildInvHolds, PTL

-----------------------------------------------------------------------------
(* What the parent is handed                                                *)

\* A parent with one child, that returns what it was handed of it.
OneChildCall ==
  \A w \in RootCalls : \A i, k \in DOMAIN w : w[i] = "child" /\ w[k] = "child" => i = k
ReturnsResult ==
  \A w \in RootCalls : \A i \in DOMAIN w :
    w[i] = "return" => i - 1 \in DOMAIN w /\ w[i - 1] = "result"

\* the pcs of a drive that is past its entry
Running == Pc \ (Outside \cup {"enter"})

\* a status is that of an event
EndsAs(j, s) == \E i \in 1..Len(j) : j[i].type \in TerminalEvent /\ StatusOf(j[i].type) = s
StatusOK == \A q \in Run : status[q] \in Terminal => EndsAs(journal[q], status[q])

\* nothing comes between the event a run ends with and its status
LastEnds(j) == Len(j) > 0 /\ j[Len(j)].type \in TerminalEvent
SettleOK ==
  \A d \in Driver : stack[d] # <<>> /\ LastIn(stack[d]).pc = "settle" =>
    turn = d /\ LastEnds(journal[LastIn(stack[d]).run])

\* a parent drives its own child, and finds it parked or ended
InChild(f) == f.pc \in {"started", "await"}
Back == Terminal \cup {"waiting"}
Waits(s, st) ==
  /\ \A i, k \in 1..Len(s) : k = i + 1 /\ InChild(s[i]) => s[k].run = s[i].child
  /\ Len(s) > 0 /\ InChild(LastIn(s)) => st[LastIn(s).child] \in Back
ReturnedOK == \A d \in Driver : Waits(stack[d], status)

\* a run that has ended is not driven past its entry, and its code returns what it was handed
Sound(w, st, O, H, f) ==
  /\ f.run \notin O /\ f.pc \in Running => st[f.run] \notin Terminal
  /\ f.last # "error"
  /\ f.run = Root /\ f.at \in DOMAIN w /\ w[f.at] = "return" => f.last \in H
SoundDrives ==
  \A d \in Driver : \A i \in 1..Len(stack[d]) :
    Sound(setting.calls, status, overlap, handed, stack[d][i])

\* no output is taken for a failure, and children belong to calls that start one
Told(w, H, q, e) ==
  /\ e.type \in {"TaskCompleted", "WorkflowCompleted"} => e.val # "error"
  /\ q = Root /\ e.type = "WorkflowCompleted" => e.val \in H
  /\ q = Root /\ e.type = "ChildWorkflowScheduled" => e.call \in DOMAIN w /\ w[e.call] = "child"
EventsTold ==
  \A q \in Run : \A i \in 1..Len(journal[q]) : Told(setting.calls, handed, q, journal[q][i])

\* a run with this journal and status ended with v
Gave(j, s, v) ==
  /\ s \in Terminal
  /\ v = "error" => \A i \in 1..Len(j) : j[i].type # "WorkflowCompleted"
  /\ v # "error" => \E i \in 1..Len(j) : j[i].type = "WorkflowCompleted" /\ j[i].val = v

\* what was handed over is what the named child ended with
HandedOK ==
  Root \notin overlap /\ overlap \cap Kid = {} =>
    \A v \in handed \ {"parked"} :
      \E k \in Kid : NamedIn(setting.calls, journal, k) /\ Gave(journal[k], status[k], v)

HandInv == StatusOK /\ SettleOK /\ ReturnedOK /\ SoundDrives /\ EventsTold /\ HandedOK

\* The root's journal names one child.
LEMMA OnlyChild ==
  ASSUME ChildInv, OneChildCall, EventsTold, Root \notin overlap,
         NEW k, NamedIn(setting.calls, journal, k), NEW l, NamedIn(setting.calls, journal, l)
  PROVE  k = l
<1> DEFINE j == journal[Root]
<1>1. setting.calls \in RootCalls /\ OnceIn(j) /\ Root \in Run
  BY DEF ChildInv, ChildTypes, RunsOK, Run
<1>2. PICK m \in 1..Len(j) : j[m].type = "ChildWorkflowScheduled" /\ j[m].val = k
  BY DEF NamedIn
<1>3. PICK n \in 1..Len(j) : j[n].type = "ChildWorkflowScheduled" /\ j[n].val = l
  BY DEF NamedIn
<1>4. j[m].call = j[n].call
  BY <1>1, <1>2, <1>3 DEF OneChildCall, EventsTold, Told
<1>5. m = n
  BY <1>1, <1>2, <1>3, <1>4 DEF OnceIn
<1> QED BY <1>2, <1>3, <1>5

\* What a run ended with stays so while it ends nothing more.
LEMMA GaveStays ==
  ASSUME NEW j \in Seq(EventType), NEW k \in Seq(EventType), Extends(j, k), NEW s, NEW t \in Terminal,
         NEW v, Gave(j, s, v), \A i \in 1..Len(k) : i > Len(j) => k[i].type # "WorkflowCompleted"
  PROVE  Gave(k, t, v)
<1>1. Len(j) \in Nat /\ Len(k) \in Nat /\ Len(j) <= Len(k) /\ \A i \in 1..Len(j) : k[i] = j[i]
  BY DEF Extends
<1>2. \A i \in 1..Len(k) : (i \in 1..Len(j) /\ k[i] = j[i]) \/ k[i].type # "WorkflowCompleted"
  BY <1>1
<1>3. \A i \in 1..Len(j) : i \in 1..Len(k) /\ k[i] = j[i]
  BY <1>1
<1> QED BY <1>2, <1>3 DEF Gave

LEMMA EndsAsStays ==
  ASSUME NEW j \in Seq(EventType), NEW k \in Seq(EventType), Extends(j, k), NEW s, EndsAs(j, s)
  PROVE  EndsAs(k, s)
<1>1. \A i \in 1..Len(j) : i \in 1..Len(k) /\ k[i] = j[i]
  BY DEF Extends
<1> QED BY <1>1 DEF EndsAs

LEMMA EndsAreTerminal ==
  ASSUME NEW type \in TerminalEvent
  PROVE  StatusOf(type) \in Terminal
BY DEF TerminalEvent, StatusOf, Terminal

\* The journal of run r gets at most an event, and completes no run that has ended.
Commits(r) ==
  \/ journal' = journal
  \/ \E e : /\ journal' = [journal EXCEPT ![r] = Append(journal[r], e)]
            /\ Told(setting.calls, handed', r, e)
            /\ e.type = "WorkflowCompleted" => status[r] \notin Terminal \/ r \in overlap

\* Its status follows its journal.
Settles(r) ==
  \A q \in Run :
    \/ status'[q] = status[q]
    \/ q = r /\ status'[q] \in Terminal /\ EndsAs(journal'[q], status'[q])
    \/ q = r /\ status[q] = "none" /\ status'[q] = "running"
    \/ q = r /\ status'[q] = "waiting" /\ (status[q] \notin Terminal \/ q \in overlap)

\* What is handed over is the outcome of the child.
HandsOver ==
  /\ handed \subseteq handed'
  /\ Root \notin overlap /\ overlap \cap Kid = {} =>
       \A v \in handed' \ {"parked"} : v \notin handed =>
         \E k \in Kid : NamedIn(setting.calls, journal, k) /\ Gave(journal[k], status[k], v)

LEMMA StoreKeepsHands ==
  ASSUME ChildInv, ChildInv', HandInv, NEW r \in Run, Commits(r), Settles(r), HandsOver,
         setting' = setting, overlap \subseteq overlap'
  PROVE  /\ StatusOK' /\ EventsTold' /\ HandedOK' /\ Grown(journal, journal')
         /\ \A q \in Run : status[q] \in Back => status'[q] \in Back
<1> USE DEF HandInv
<1>1. journal \in Journals /\ journal' \in Journals /\ setting.calls \in RootCalls
  BY DEF ChildInv, ChildTypes, Journals
<1>2. ASSUME NEW q \in Run
      PROVE  /\ journal[q] \in Seq(EventType) /\ journal'[q] \in Seq(EventType)
             /\ Extends(journal[q], journal'[q])
             /\ \A i \in 1..Len(journal'[q]) :
                  \/ i \in 1..Len(journal[q]) /\ journal'[q][i] = journal[q][i]
                  \/ /\ i > Len(journal[q])
                     /\ Told(setting.calls, handed', q, journal'[q][i])
                     /\ journal'[q][i].type = "WorkflowCompleted" => status[q] \notin Terminal \/ q \in overlap
  <2>1. journal[q] \in Seq(EventType) /\ journal'[q] \in Seq(EventType)
    BY <1>1 DEF Journals
  <2>2. CASE journal'[q] = journal[q]
    BY <2>1, <2>2 DEF Extends
  <2>3. CASE journal'[q] # journal[q]
    <3>1. PICK e : /\ journal' = [journal EXCEPT ![r] = Append(journal[r], e)]
                   /\ Told(setting.calls, handed', r, e)
                   /\ e.type = "WorkflowCompleted" => status[r] \notin Terminal \/ r \in overlap
      BY <2>3 DEF Commits
    <3>2. q = r /\ journal'[q] = Append(journal[q], e)
      BY <1>1, <2>3, <3>1 DEF Journals
    <3>3. /\ Len(journal'[q]) = Len(journal[q]) + 1 /\ journal'[q][Len(journal[q]) + 1] = e
          /\ \A i \in 1..Len(journal[q]) : journal'[q][i] = journal[q][i]
      BY <2>1, <3>2
    <3>4. Extends(journal[q], journal'[q])
      BY <2>1, <3>3 DEF Extends
    <3>5. \A i \in 1..Len(journal'[q]) : i \in 1..Len(journal[q]) \/ (i = Len(journal[q]) + 1 /\ i > Len(journal[q]))
      BY <2>1, <3>3
    <3> QED BY <2>1, <3>1, <3>2, <3>3, <3>4, <3>5
  <2> QED BY <2>2, <2>3
<1>3. Grown(journal, journal')
  BY <1>2 DEF Grown
<1>4. ASSUME NEW q \in Run, status[q] \in Back PROVE status'[q] \in Back
  BY <1>4 DEF Settles, Back, Terminal
<1>5. StatusOK'
  <2>1. SUFFICES ASSUME NEW q \in Run, status'[q] \in Terminal PROVE EndsAs(journal'[q], status'[q])
    BY DEF StatusOK
  <2>2. CASE status'[q] = status[q]
    <3>1. EndsAs(journal[q], status[q])
      BY <2>1, <2>2 DEF StatusOK
    <3> QED BY <1>2, <2>2, <3>1, EndsAsStays
  <2>3. CASE status'[q] # status[q]
    BY <2>1, <2>3 DEF Settles, Terminal
  <2> QED BY <2>2, <2>3
<1>6. EventsTold'
  <2>1. SUFFICES ASSUME NEW q \in Run, NEW i \in 1..Len(journal'[q])
                 PROVE  Told(setting.calls, handed', q, journal'[q][i])
    BY DEF EventsTold
  <2>2. ASSUME i \in 1..Len(journal[q]), journal'[q][i] = journal[q][i]
        PROVE  Told(setting.calls, handed', q, journal'[q][i])
    BY <2>2 DEF EventsTold, Told, HandsOver
  <2> QED BY <1>2, <2>2
<1>7. HandedOK'
  <2>1. SUFFICES ASSUME Root \notin overlap', overlap' \cap Kid = {}, NEW v \in handed' \ {"parked"}
                 PROVE  \E k \in Kid : NamedIn(setting.calls, journal', k) /\ Gave(journal'[k], status'[k], v)
    BY DEF HandedOK
  <2>2. Root \notin overlap /\ overlap \cap Kid = {}
    BY <2>1
  <2>3. PICK k \in Kid : NamedIn(setting.calls, journal, k) /\ Gave(journal[k], status[k], v)
    BY <2>1, <2>2 DEF HandedOK, HandsOver
  <2>4. k \in Run /\ k \notin overlap /\ status[k] \in Terminal
    BY <2>2, <2>3 DEF Run, Gave
  <2>5. status'[k] \in Terminal
    BY <2>4 DEF Settles, Terminal
  <2>6. \A i \in 1..Len(journal'[k]) : i > Len(journal[k]) => journal'[k][i].type # "WorkflowCompleted"
    <3>1. Len(journal[k]) \in Nat
      BY <1>2, <2>4
    <3>2. \A i \in 1..Len(journal[k]) : ~(i > Len(journal[k]))
      BY <3>1
    <3> QED BY <1>2, <2>4, <3>2
  <2>7. Gave(journal'[k], status'[k], v)
    BY <1>2, <2>3, <2>4, <2>5, <2>6, GaveStays
  <2>8. NamedIn(setting.calls, journal', k)
    BY <1>1, <1>3, <2>3, NamesStay
  <2> QED BY <2>7, <2>8
<1> QED BY <1>3, <1>4, <1>5, <1>6, <1>7

\* A drive that is not the one whose run is settled.
LEMMA OthersSound ==
  ASSUME ChildInv, HandInv, NEW d \in Driver, NEW r \in Run, Settles(r), handed \subseteq handed',
         overlap \subseteq overlap', NEW e \in Driver, NEW i \in 1..Len(stack[e]),
         \/ status'[r] = status[r]
         \/ /\ stack[d] # <<>> /\ Top(d).run = r /\ Top(d).pc \notin Outside
            /\ e # d \/ i # Len(stack[d])
  PROVE  Sound(setting.calls, status', overlap', handed', stack[e][i])
<1>1. PICK f : f = stack[e][i]
  OBVIOUS
<1>2. f \in FrameType /\ f.run \in Run
  <2>1. stack[e] \in Seq(FrameType)
    BY DEF ChildInv, ChildTypes
  <2>2. f \in FrameType
    BY <2>1, <1>1
  <2> QED BY <2>2 DEF FrameType
<1>3. Sound(setting.calls, status, overlap, handed, f)
  BY <1>1 DEF HandInv, SoundDrives
<1>4. ASSUME f.run \notin overlap', f.pc \in Running PROVE status'[f.run] \notin Terminal
  <2>1. status[f.run] \notin Terminal /\ f.run \notin overlap
    BY <1>3, <1>4 DEF Sound
  <2>2. SUFFICES ASSUME f.run = r, status'[r] # status[r] PROVE FALSE
    BY <1>2, <2>1 DEF Settles
  <2>3. Alone(stack, r) /\ stack[d] \in Seq(FrameType)
    BY <1>2, <2>1, <2>2 DEF ChildInv, RunsOK, ChildTypes
  <2>4. Len(stack[d]) \in 1..Len(stack[d]) /\ Top(d) = stack[d][Len(stack[d])]
    BY <2>2, <2>3 DEF Top
  <2>5. f.pc \notin Outside
    BY <1>4 DEF Running
  <2> QED BY <1>1, <2>2, <2>3, <2>4, <2>5 DEF Alone
<1>5. Sound(setting.calls, status', overlap', handed', f)
  BY <1>3, <1>4 DEF Sound
<1> QED BY <1>1, <1>5

\* The innermost drive of d goes on.
LEMMA AdvanceKeepsHands ==
  ASSUME ChildInv, ChildInv', HandInv, NEW d \in Driver, stack[d] # <<>>, turn \in {"free", d},
         NEW r, r = Top(d).run, Commits(r), Settles(r), HandsOver, setting' = setting,
         overlap \subseteq overlap', status'[r] = status[r] \/ Top(d).pc \notin Outside,
         NEW g \in FrameType, stack' = [stack EXCEPT ![d][Len(stack[d])] = g], g.run = r, ~InChild(g),
         Sound(setting.calls, status', overlap', handed', g),
         g.pc = "settle" => turn' = d /\ LastEnds(journal'[r])
  PROVE  HandInv'
<1>1. /\ stack[d] \in Seq(FrameType) /\ Len(stack[d]) \in Nat /\ Len(stack[d]) > 0
      /\ Top(d) = LastIn(stack[d]) /\ Top(d) \in FrameType
  BY TopIsTyped DEF ChildInv
<1>2. r \in Run /\ handed \subseteq handed'
  BY <1>1 DEF FrameType, HandsOver
<1>3. /\ StatusOK' /\ EventsTold' /\ HandedOK'
      /\ \A q \in Run : status[q] \in Back => status'[q] \in Back
  BY <1>2, StoreKeepsHands
<1>4. stack' \in Stacks /\ Holds(stack, stack', d, stack'[d]) /\ Replaced(stack[d], stack'[d], g)
  BY StackIsReplaced DEF ChildInv
<1>5. \A e \in Driver : \A i \in 1..Len(stack'[e]) :
        \/ e = d /\ i = Len(stack[d]) /\ stack'[e][i] = g
        \/ i \in 1..Len(stack[e]) /\ stack'[e][i] = stack[e][i] /\ (e # d \/ i # Len(stack[d]))
  BY <1>1, <1>4 DEF Holds, Replaced
<1>6. LastIn(stack'[d]) = g /\ Len(stack'[d]) = Len(stack[d])
  BY <1>4 DEF LastIn, Replaced
<1>7. SoundDrives'
  <2>1. ASSUME NEW e \in Driver, NEW i \in 1..Len(stack[e]), e # d \/ i # Len(stack[d])
        PROVE  Sound(setting.calls, status', overlap', handed', stack[e][i])
    BY <1>2, <2>1, OthersSound
  <2> QED BY <1>5, <2>1 DEF SoundDrives
<1>8. SettleOK'
  <2>1. SUFFICES ASSUME NEW e \in Driver, stack'[e] # <<>>, LastIn(stack'[e]).pc = "settle"
                 PROVE  turn' = e /\ LastEnds(journal'[LastIn(stack'[e]).run])
    BY DEF SettleOK
  <2>2. CASE e = d
    BY <2>1, <2>2, <1>6
  <2>3. CASE e # d
    <3>1. stack'[e] = stack[e]
      BY <2>3, <1>4 DEF Holds
    <3>2. turn = e /\ e # "free"
      BY <2>1, <3>1 DEF HandInv, SettleOK, Driver
    <3> QED BY <2>3, <3>2
  <2> QED BY <2>2, <2>3
<1>9. ASSUME NEW e \in Driver PROVE Waits(stack'[e], status')
  <2>1. Waits(stack[e], status)
    BY DEF HandInv, ReturnedOK
  <2>2. CASE e = d
    <3>1. \A i \in 1..Len(stack'[d]) :
            /\ i \in 1..Len(stack[d]) /\ stack'[d][i].run = stack[d][i].run
            /\ i < Len(stack[d]) => stack'[d][i] = stack[d][i]
      BY <1>1, <1>4 DEF Replaced, LastIn
    <3>2. ASSUME NEW i \in 1..Len(stack'[d]), NEW k \in 1..Len(stack'[d]), k = i + 1, InChild(stack'[d][i])
          PROVE  stack'[d][k].run = stack'[d][i].child
      <4>1. i < Len(stack[d])
        BY <1>1, <1>6, <3>2
      <4>2. /\ stack'[d][i] = stack[d][i] /\ i \in 1..Len(stack[d]) /\ k \in 1..Len(stack[d])
            /\ stack'[d][k].run = stack[d][k].run
        BY <3>1, <4>1
      <4> QED BY <2>1, <2>2, <3>2, <4>2 DEF Waits
    <3> QED BY <2>2, <3>2, <1>6 DEF Waits
  <2>3. CASE e # d
    <3>1. stack'[e] = stack[e] /\ stack[e] \in Seq(FrameType)
      BY <2>3, <1>4 DEF Holds, ChildInv, ChildTypes
    <3>2. Len(stack[e]) > 0 => LastIn(stack[e]) \in FrameType
      BY <3>1 DEF LastIn
    <3>3. Len(stack[e]) > 0 => LastIn(stack[e]).child \in Run
      BY <3>2 DEF FrameType
    <3> QED BY <1>3, <2>1, <3>1, <3>3 DEF Waits
  <2> QED BY <2>2, <2>3
<1>10. ReturnedOK'
  BY <1>9 DEF ReturnedOK
<1> QED BY <1>3, <1>7, <1>8, <1>10 DEF HandInv

\* It returns, and its parent finds it parked or ended.
LEMMA ReturnKeepsHands ==
  ASSUME ChildInv, ChildInv', HandInv, NEW d \in Driver, stack[d] # <<>>, turn \in {"free", d},
         NEW r, r = Top(d).run, Top(d).pc \notin Outside, Settles(r), status'[r] \in Back, Return(d),
         UNCHANGED <<journal, setting, handed, overlap>>
  PROVE  HandInv'
<1>1. /\ stack[d] \in Seq(FrameType) /\ Len(stack[d]) \in Nat /\ Len(stack[d]) > 0
      /\ Top(d) = LastIn(stack[d]) /\ Top(d) \in FrameType
  BY TopIsTyped DEF ChildInv
<1>2. r \in Run /\ Commits(r) /\ HandsOver /\ handed \subseteq handed' /\ overlap \subseteq overlap'
  BY <1>1 DEF FrameType, HandsOver, Commits
<1>3. /\ StatusOK' /\ EventsTold' /\ HandedOK'
      /\ \A q \in Run : status[q] \in Back => status'[q] \in Back
  BY <1>2, StoreKeepsHands
<1>4. stack' \in Stacks /\ Holds(stack, stack', d, stack'[d]) /\ Popped(stack[d], stack'[d])
  BY StackIsPopped DEF ChildInv
<1>5. \A e \in Driver : \A i \in 1..Len(stack'[e]) :
        i \in 1..Len(stack[e]) /\ stack'[e][i] = stack[e][i] /\ (e # d \/ i # Len(stack[d]))
  BY <1>1, <1>4 DEF Holds, Popped
<1>6. SoundDrives'
  <2>1. ASSUME NEW e \in Driver, NEW i \in 1..Len(stack[e]), e # d \/ i # Len(stack[d])
        PROVE  Sound(setting.calls, status', overlap', handed', stack[e][i])
    BY <1>2, <2>1, OthersSound
  <2> QED BY <1>5, <2>1 DEF SoundDrives
<1>7. ASSUME Len(stack'[d]) > 0
      PROVE  /\ LastIn(stack'[d]).pc # "settle"
             /\ InChild(LastIn(stack'[d])) => LastIn(stack'[d]).child = r
  <2> DEFINE n == Len(stack[d])
  <2>1. /\ Len(stack'[d]) = n - 1 /\ n - 1 \in 1..n /\ n \in 1..n /\ n = (n - 1) + 1
        /\ LastIn(stack'[d]) = stack[d][n - 1] /\ stack[d][n].run = r
    BY <1>1, <1>4, <1>7 DEF Popped, LastIn
  <2>2. n - 1 < n /\ Nested(stack[d]) /\ Waits(stack[d], status)
    BY <1>1 DEF ChildInv, DrivesOK, HandInv, ReturnedOK
  <2>3. stack[d][n - 1].pc \in {"unpark", "started", "await"}
    BY <2>1, <2>2 DEF Nested
  <2>4. InChild(stack[d][n - 1]) => stack[d][n].run = stack[d][n - 1].child
    BY <2>1, <2>2 DEF Waits
  <2> QED BY <2>1, <2>3, <2>4
<1>8. SettleOK'
  <2>1. SUFFICES ASSUME NEW e \in Driver, stack'[e] # <<>>, LastIn(stack'[e]).pc = "settle"
                 PROVE  FALSE
    BY DEF SettleOK
  <2>2. CASE e = d
    <3>1. Len(stack'[d]) > 0
      BY <2>1, <2>2, <1>4 DEF Stacks
    <3> QED BY <2>1, <2>2, <3>1, <1>7
  <2>3. CASE e # d
    <3>1. stack'[e] = stack[e]
      BY <2>3, <1>4 DEF Holds
    <3>2. turn = e /\ e # "free"
      BY <2>1, <3>1 DEF HandInv, SettleOK, Driver
    <3> QED BY <2>3, <3>2
  <2> QED BY <2>2, <2>3
<1>9. ASSUME NEW e \in Driver PROVE Waits(stack'[e], status')
  <2>1. Waits(stack[e], status)
    BY DEF HandInv, ReturnedOK
  <2>2. CASE e = d
    BY <2>1, <2>2, <1>5, <1>7 DEF Waits
  <2>3. CASE e # d
    <3>1. stack'[e] = stack[e] /\ stack[e] \in Seq(FrameType)
      BY <2>3, <1>4 DEF Holds, ChildInv, ChildTypes
    <3>2. Len(stack[e]) > 0 => LastIn(stack[e]) \in FrameType
      BY <3>1 DEF LastIn
    <3>3. Len(stack[e]) > 0 => LastIn(stack[e]).child \in Run
      BY <3>2 DEF FrameType
    <3> QED BY <1>3, <2>1, <3>1, <3>3 DEF Waits
  <2> QED BY <2>2, <2>3
<1>10. ReturnedOK'
  BY <1>9 DEF ReturnedOK
<1> QED BY <1>3, <1>6, <1>8, <1>10 DEF HandInv

\* The store stays as it is.
LEMMA NothingHanded ==
  ASSUME ChildInv, NEW r \in Run, UNCHANGED <<journal, status, setting, handed>>
  PROVE  Commits(r) /\ Settles(r) /\ HandsOver
BY DEF Commits, Settles, HandsOver

\* It starts another inside it, its child.
LEMMA EnterKeepsHands ==
  ASSUME ChildInv, ChildInv', HandInv, NEW d \in Driver, stack[d] # <<>>, turn \in {"free", d},
         UNCHANGED <<journal, status, setting, handed>>, overlap \subseteq overlap',
         Top(d).pc \in Running, Top(d).child \in Kid, NEW p \in {"started", "await"},
         Enter(d, Top(d).child, "enter", p)
  PROVE  HandInv'
<1> DEFINE n == Len(stack[d])
<1>0. PICK f, g, h : f = Top(d) /\ g = [f EXCEPT !.pc = p] /\ h = Frame(f.child, "enter")
  OBVIOUS
<1>1. /\ stack[d] \in Seq(FrameType) /\ n \in Nat /\ n > 0 /\ n \in 1..n
      /\ f = LastIn(stack[d]) /\ f = stack[d][n] /\ f \in FrameType
  BY <1>0, TopIsTyped DEF ChildInv, LastIn
<1>2. p \in Pc /\ "enter" \in Pc /\ "none" \in Known /\ f.child \in Run /\ Root # f.child
  BY <1>0, RootIsNoKid DEF Pc, Known, Run
<1>3. /\ g \in FrameType /\ g.run = f.run /\ g.at = f.at /\ g.last = f.last /\ g.pc = p /\ g.child = f.child
      /\ f.run \in Run
  BY <1>0, <1>1, <1>2 DEF FrameType
<1>4. h \in FrameType /\ h.run = f.child /\ h.pc = "enter" /\ h.last = "none"
  BY <1>0, <1>2 DEF Frame, FrameType
<1>5. stack' \in Stacks /\ Holds(stack, stack', d, stack'[d]) /\ Pushed(stack[d], stack'[d], g, h)
  BY <1>0, <1>3, <1>4, StackIsPushed DEF Enter, ChildInv
<1>6. Commits(f.run) /\ Settles(f.run) /\ HandsOver /\ handed \subseteq handed'
  BY <1>3, NothingHanded
<1>7. StatusOK' /\ EventsTold' /\ HandedOK'
  BY <1>3, <1>6, StoreKeepsHands
<1>8. \A e \in Driver : \A i \in 1..Len(stack'[e]) :
        \/ e = d /\ i = n + 1 /\ stack'[e][i] = h
        \/ e = d /\ i = n /\ stack'[e][i] = g
        \/ i \in 1..Len(stack[e]) /\ stack'[e][i] = stack[e][i]
  BY <1>1, <1>5 DEF Holds, Pushed
<1>9. SoundDrives'
  <2>1. ASSUME NEW e \in Driver, NEW i \in 1..Len(stack[e])
        PROVE  Sound(setting.calls, status', overlap', handed', stack[e][i])
    BY <1>3, <1>6, <2>1, OthersSound
  <2>2. Sound(setting.calls, status', overlap', handed', g)
    <3>1. Sound(setting.calls, status', overlap', handed', f)
      BY <1>1, <2>1
    <3> QED BY <1>0, <1>3, <3>1 DEF Sound
  <2>3. Sound(setting.calls, status', overlap', handed', h)
    BY <1>2, <1>4 DEF Sound, Running
  <2> QED BY <1>8, <2>1, <2>2, <2>3 DEF SoundDrives
<1>10. LastIn(stack'[d]) = h
  BY <1>5 DEF Pushed, LastIn
<1>11. SettleOK'
  <2>1. SUFFICES ASSUME NEW e \in Driver, stack'[e] # <<>>, LastIn(stack'[e]).pc = "settle"
                 PROVE  FALSE
    BY DEF SettleOK
  <2>2. e # d
    BY <2>1, <1>4, <1>10
  <2>3. stack'[e] = stack[e]
    BY <2>2, <1>5 DEF Holds
  <2>4. turn = e /\ e # "free"
    BY <2>1, <2>3 DEF HandInv, SettleOK, Driver
  <2> QED BY <2>2, <2>4
<1>12. ASSUME NEW e \in Driver PROVE Waits(stack'[e], status')
  <2>1. Waits(stack[e], status)
    BY DEF HandInv, ReturnedOK
  <2>2. CASE e = d
    <3>1. /\ Len(stack'[d]) = n + 1 /\ stack'[d][n] = g /\ stack'[d][n + 1] = h
          /\ \A i \in 1..(n - 1) : stack'[d][i] = stack[d][i]
      BY <1>5 DEF Pushed
    <3>2. ASSUME NEW i \in 1..Len(stack'[d]), NEW k \in 1..Len(stack'[d]), k = i + 1, InChild(stack'[d][i])
          PROVE  stack'[d][k].run = stack'[d][i].child
      <4>1. CASE i = n
        BY <3>1, <3>2, <4>1, <1>3, <1>4
      <4>2. CASE i # n
        <5>1. i \in 1..(n - 1) /\ i \in 1..n /\ k \in 1..n /\ stack'[d][k].run = stack[d][k].run
          BY <1>1, <1>3, <3>1, <3>2, <4>2
        <5> QED BY <2>1, <2>2, <3>1, <3>2, <5>1 DEF Waits
      <4> QED BY <4>1, <4>2
    <3>3. ~InChild(LastIn(stack'[d]))
      BY <1>4, <1>10 DEF InChild
    <3> QED BY <2>2, <3>2, <3>3 DEF Waits
  <2>3. CASE e # d
    <3>1. stack'[e] = stack[e] /\ status' = status
      BY <2>3, <1>5 DEF Holds
    <3> QED BY <2>1, <3>1
  <2> QED BY <2>2, <2>3
<1>13. ReturnedOK'
  BY <1>12 DEF ReturnedOK
<1> QED BY <1>7, <1>9, <1>11, <1>13 DEF HandInv

\* A driver that drives nothing begins.
LEMMA BeginKeepsHands ==
  ASSUME ChildInv, ChildInv', HandInv, NEW d \in Driver, turn \in {"free", d},
         UNCHANGED <<journal, status, setting, handed>>, overlap \subseteq overlap',
         NEW s \in Seq(FrameType), stack' = [stack EXCEPT ![d] = s],
         \A i \in 1..Len(s) : /\ ~InChild(s[i]) /\ s[i].pc # "settle"
                              /\ Sound(setting.calls, status, overlap', handed, s[i])
  PROVE  HandInv'
<1>1. Root \in Run /\ stack' \in Stacks /\ Holds(stack, stack', d, s)
  BY StackIsSet DEF ChildInv, Run
<1>2. Commits(Root) /\ Settles(Root) /\ HandsOver /\ handed \subseteq handed'
  BY <1>1, NothingHanded
<1>3. StatusOK' /\ EventsTold' /\ HandedOK'
  BY <1>1, <1>2, StoreKeepsHands
<1>4. stack'[d] = s /\ \A e \in Driver \ {d} : stack'[e] = stack[e]
  BY <1>1 DEF Holds
<1>5. SoundDrives'
  <2>1. ASSUME NEW e \in Driver, NEW i \in 1..Len(stack[e])
        PROVE  Sound(setting.calls, status', overlap', handed', stack[e][i])
    BY <1>1, <1>2, <2>1, OthersSound
  <2> QED BY <1>4, <2>1 DEF SoundDrives
<1>6. Len(s) > 0 => Len(s) \in 1..Len(s)
  OBVIOUS
<1>7. SettleOK'
  <2>1. SUFFICES ASSUME NEW e \in Driver, stack'[e] # <<>>, LastIn(stack'[e]).pc = "settle"
                 PROVE  FALSE
    BY DEF SettleOK
  <2>2. e # d
    <3>1. s # <<>> => Len(s) > 0
      OBVIOUS
    <3> QED BY <1>4, <1>6, <2>1, <3>1 DEF LastIn
  <2>3. turn = e /\ e # "free"
    BY <1>4, <2>1, <2>2 DEF HandInv, SettleOK, Driver
  <2> QED BY <2>2, <2>3
<1>8. ASSUME NEW e \in Driver PROVE Waits(stack'[e], status')
  <2>1. CASE e = d
    BY <2>1, <1>4, <1>6 DEF Waits, LastIn
  <2>2. CASE e # d
    BY <2>2, <1>4 DEF HandInv, ReturnedOK
  <2> QED BY <2>1, <2>2
<1>9. ReturnedOK'
  BY <1>8 DEF ReturnedOK
<1> QED BY <1>3, <1>5, <1>7, <1>9 DEF HandInv

\* Nobody drives anything new, and whoever holds the event loop drives nothing.
LEMMA FewerKeepsHands ==
  ASSUME ChildInv, ChildInv', HandInv, NEW r \in Run, Commits(r),
         UNCHANGED <<status, setting, handed>>, overlap \subseteq overlap',
         \A e \in Driver : stack'[e] \in {stack[e], <<>>} /\ (stack'[e] # <<>> => turn # e)
  PROVE  HandInv'
<1>1. Settles(r) /\ HandsOver /\ handed \subseteq handed' /\ "loop" \in Driver
  BY DEF Settles, HandsOver, Driver
<1>2. StatusOK' /\ EventsTold' /\ HandedOK'
  BY <1>1, StoreKeepsHands
<1>3. \A e \in Driver : stack'[e] = stack[e] \/ (stack'[e] = <<>> /\ Len(stack'[e]) = 0)
  OBVIOUS
<1>4. SoundDrives'
  <2>1. ASSUME NEW e \in Driver, NEW i \in 1..Len(stack[e])
        PROVE  Sound(setting.calls, status', overlap', handed', stack[e][i])
    BY <1>1, <2>1, OthersSound
  <2> QED BY <1>3, <2>1 DEF SoundDrives
<1>5. SettleOK'
  BY <1>3 DEF HandInv, SettleOK
<1>6. ReturnedOK'
  <2>1. ASSUME NEW e \in Driver PROVE Waits(stack'[e], status')
    BY <1>3 DEF HandInv, ReturnedOK, Waits
  <2> QED BY <2>1 DEF ReturnedOK
<1> QED BY <1>2, <1>4, <1>5, <1>6 DEF HandInv

-----------------------------------------------------------------------------
(* The steps of a drive and what is handed over                             *)

LEMMA CommitsAnEvent ==
  ASSUME NEW r, NEW type, NEW call, NEW val, Commit(r, type, call, val)
  PROVE  \E e : /\ e.type = type /\ e.call = call /\ e.val = val
               /\ journal' = [journal EXCEPT ![r] = Append(journal[r], e)]
<1>1. PICK e : e = Event(type, call, val)
  OBVIOUS
<1>2. /\ e.type = type /\ e.call = call /\ e.val = val
      /\ journal' = [journal EXCEPT ![r] = Append(journal[r], e)]
  BY <1>1 DEF Event, Commit
<1> QED BY <1>2

LEMMA PlainCommit ==
  ASSUME NEW r, NEW type, NEW call, NEW val, Commit(r, type, call, val),
         type \notin {"TaskCompleted", "WorkflowCompleted", "ChildWorkflowScheduled"}
  PROVE  Commits(r)
<1>1. PICK e : e.type = type /\ journal' = [journal EXCEPT ![r] = Append(journal[r], e)]
  BY CommitsAnEvent
<1>2. Told(setting.calls, handed', r, e)
  BY <1>1 DEF Told
<1> QED BY <1>1, <1>2 DEF Commits

\* A place of the code it has reached, and the drive of a run that has not ended.
LEMMA GoesKeepsHands ==
  ASSUME ChildInv, ChildInv', HandInv, NEW d \in Driver, stack[d] # <<>>, turn \in {"free", d},
         NEW r, r = Top(d).run, Commits(r), Settles(r), HandsOver, setting' = setting, overlap' = overlap,
         status'[r] = status[r] \/ Top(d).pc \notin Outside,
         NEW g \in FrameType, stack' = [stack EXCEPT ![d][Len(stack[d])] = g],
         g.run = r, g.at = Top(d).at, g.last = Top(d).last, ~InChild(g),
         g.pc \in Running => status'[r] \notin Terminal \/ (Top(d).pc \in Running /\ status'[r] = status[r]),
         g.pc = "settle" => turn' = d /\ LastEnds(journal'[r])
  PROVE  HandInv'
<1>1. PICK f : f = Top(d)
  OBVIOUS
<1>2. Sound(setting.calls, status, overlap, handed, f)
  <2>1. stack[d] \in Seq(FrameType) /\ Len(stack[d]) \in 1..Len(stack[d]) /\ f = stack[d][Len(stack[d])]
    BY <1>1, TopIsTyped DEF ChildInv, Top
  <2> QED BY <2>1 DEF HandInv, SoundDrives
<1>3. Sound(setting.calls, status', overlap', handed', g)
  BY <1>1, <1>2 DEF Sound, HandsOver
<1> QED BY <1>3, AdvanceKeepsHands

LEMMA GoToKeepsHands ==
  ASSUME ChildInv, ChildInv', HandInv, NEW d \in Driver, NEW from, At(d, from), from \in Running,
         Commits(Top(d).run), UNCHANGED <<status, setting, overlap>>, HandsOver,
         NEW p \in Pc \ {"started", "await"},
         stack' = [stack EXCEPT ![d][Len(stack[d])] = [Top(d) EXCEPT !.pc = p]],
         p = "settle" => turn' = d /\ LastEnds(journal'[Top(d).run])
  PROVE  HandInv'
<1>1. PICK f, g : f = Top(d) /\ g = [f EXCEPT !.pc = p]
  OBVIOUS
<1>2. f \in FrameType /\ f.pc = from /\ stack[d] # <<>> /\ turn \in {"free", d}
  BY <1>1, TopIsTyped DEF At, ChildInv
<1>3. g \in FrameType /\ g.run = f.run /\ g.at = f.at /\ g.last = f.last /\ g.pc = p
  BY <1>1, <1>2 DEF FrameType
<1>4. ~InChild(g)
  BY <1>3 DEF InChild
<1>5. Settles(f.run)
  BY DEF Settles
<1> QED BY <1>1, <1>2, <1>3, <1>4, <1>5, GoesKeepsHands

\* A run is created, resumed or woken.
LEMMA EnteringKeepsHands ==
  ASSUME ChildInv, ChildInv', HandInv, NEW d \in Driver,
         CreateRow(d) \/ CommitCreated(d) \/ EnterParked(d) \/ EnterResumed(d) \/ LoadJournal(d)
  PROVE  HandInv'
<1>0. PICK f : f = Top(d)
  OBVIOUS
<1>1. stack[d] # <<>> /\ turn \in {"free", d} /\ f.pc \in {"enter", "created", "load"}
  BY <1>0 DEF CreateRow, CommitCreated, EnterParked, EnterResumed, LoadJournal, Unbegun, At
<1>2. f \in FrameType /\ f.run \in Run /\ f.pc \notin Outside /\ journal \in Journals
  BY <1>0, <1>1, Innermost DEF Outside
<1>3. setting' = setting /\ overlap' = overlap /\ handed' = handed /\ HandsOver
  BY DEF CreateRow, CommitCreated, EnterParked, EnterResumed, LoadJournal, history, HandsOver
<1>4. Commits(f.run)
  <2>1. ASSUME ~UNCHANGED journal
        PROVE  \E type \in {"WorkflowCreated", "WorkflowResumed"} : Commit(f.run, type, 0, "none")
    BY <1>0, <2>1 DEF CreateRow, CommitCreated, EnterParked, EnterResumed, LoadJournal, store
  <2> QED BY <2>1, PlainCommit DEF Commits
<1>5. /\ Settles(f.run)
      /\ f.pc = "enter" => status'[f.run] \notin Terminal
      /\ f.pc # "enter" => status'[f.run] = status[f.run]
  <2>1. CASE CreateRow(d)
    <3>1. status[f.run] = "none" /\ status' = [status EXCEPT ![f.run] = "running"] /\ f.pc = "enter"
      BY <1>0, <2>1 DEF CreateRow, Unbegun, SetStatus, At
    <3>2. status'[f.run] = "running" /\ \A q \in Run \ {f.run} : status'[q] = status[q]
      BY <1>2, <3>1 DEF ChildInv, ChildTypes
    <3> QED BY <3>1, <3>2 DEF Settles, Terminal
  <2>2. CASE ~CreateRow(d)
    <3>1. status' = status /\ (f.pc = "enter" => status[f.run] \in {"waiting", "running"})
      BY <1>0, <2>2 DEF CommitCreated, EnterParked, EnterResumed, LoadJournal, At, store
    <3> QED BY <3>1 DEF Settles, Terminal
  <2> QED BY <2>1, <2>2
<1>6. PICK g : /\ stack' = [stack EXCEPT ![d][Len(stack[d])] = g]
               /\ \/ \E p \in {"created", "load"} : g = [f EXCEPT !.pc = p]
                  \/ g = [f EXCEPT !.pc = "run", !.loaded = Len(journal[f.run])]
  BY <1>0 DEF CreateRow, CommitCreated, EnterParked, EnterResumed, LoadJournal, GoTo, Step
<1>7. /\ g \in FrameType /\ g.run = f.run /\ g.at = f.at /\ g.last = f.last
      /\ g.pc \in {"created", "load", "run"}
  <2>1. {"created", "load", "run"} \subseteq Pc
    BY DEF Pc
  <2>2. Len(journal[f.run]) \in Nat
    BY <1>2 DEF Journals
  <2> QED BY <1>2, <1>6, <2>1, <2>2 DEF FrameType
<1>8. ~InChild(g) /\ g.pc # "settle"
  BY <1>7 DEF InChild
<1>9. f.pc # "enter" => f.pc \in Running
  BY <1>1 DEF Running, Pc, Outside
<1> QED BY <1>0, <1>1, <1>2, <1>3, <1>4, <1>5, <1>6, <1>7, <1>8, <1>9, GoesKeepsHands

\* the last event of some types
LEMMA LastOfIsThere ==
  ASSUME ChildInv, NEW r \in Run, NEW types, NEW i \in 1..Len(journal[r]), journal[r][i].type \in types
  PROVE  \E n \in 1..Len(journal[r]) :
           journal[r][n].type \in types /\ LastOf(r, types) = journal[r][n]
<1> DEFINE j == journal[r]
           ends == {n \in DOMAIN j : j[n].type \in types}
<1>1. j \in Seq(EventType) /\ Len(j) \in Nat /\ DOMAIN j = 1..Len(j)
  BY DEF ChildInv, ChildTypes
<1>2. ends \in SUBSET (1..Len(j)) /\ ends # {}
  BY <1>1
<1>3. PICK n : n = (CHOOSE m \in ends : \A k \in ends : k <= m)
  OBVIOUS
<1>4. n \in ends
  BY <1>1, <1>2, <1>3, GreatestIndex
<1>5. LastOf(r, types) = j[n]
  BY <1>3 DEF LastOf
<1> QED BY <1>1, <1>4, <1>5

\* A drive ends, and its status is that of an event, or a park's.
LEMMA EndingKeepsHands ==
  ASSUME ChildInv, ChildInv', HandInv, NEW d \in Driver,
         EnterTerminal(d) \/ Reconcile(d) \/ ParkRun(d) \/ SettleStatus(d)
  PROVE  HandInv'
<1>0. PICK f : f = Top(d)
  OBVIOUS
<1>1. /\ stack[d] # <<>> /\ turn \in {"free", d} /\ f.pc \in {"enter", "load", "parked", "settle"}
      /\ Return(d) /\ UNCHANGED <<journal, setting, handed, overlap>>
  BY <1>0 DEF EnterTerminal, Reconcile, ParkRun, SettleStatus, At, history, store
<1>2. f \in FrameType /\ f.run \in Run /\ f.pc \notin Outside /\ journal \in Journals
  BY <1>0, <1>1, Innermost DEF Outside
<1>3. f = LastIn(stack[d]) /\ Sound(setting.calls, status, overlap, handed, f)
  <2>1. Len(stack[d]) \in 1..Len(stack[d]) /\ f = stack[d][Len(stack[d])] /\ f = LastIn(stack[d])
    BY <1>0, <1>1, TopIsTyped DEF ChildInv, Top
  <2> QED BY <2>1 DEF HandInv, SoundDrives
<1>4. ASSUME NEW s, SetStatus(f.run, s)
      PROVE  status'[f.run] = s /\ \A q \in Run \ {f.run} : status'[q] = status[q]
  BY <1>2, <1>4 DEF SetStatus, ChildInv, ChildTypes
<1>5. ASSUME NEW i \in 1..Len(journal[f.run]), journal[f.run][i].type \in TerminalEvent,
             SetStatus(f.run, StatusOf(journal[f.run][i].type))
      PROVE  Settles(f.run) /\ status'[f.run] \in Back
  <2>1. status'[f.run] \in Terminal
    BY <1>4, <1>5, EndsAreTerminal
  <2>2. EndsAs(journal'[f.run], status'[f.run])
    BY <1>1, <1>4, <1>5 DEF EndsAs
  <2> QED BY <1>4, <1>5, <2>1, <2>2 DEF Settles, Back
<1>6. Settles(f.run) /\ status'[f.run] \in Back
  <2>1. CASE EnterTerminal(d)
    <3>1. status' = status /\ status[f.run] \in Terminal
      BY <1>0, <2>1 DEF EnterTerminal, store
    <3> QED BY <3>1 DEF Settles, Back
  <2>2. CASE Reconcile(d)
    <3>1. /\ SetStatus(f.run, StatusOf(LastOf(f.run, TerminalEvent).type))
          /\ \E i \in DOMAIN journal[f.run] : journal[f.run][i].type \in TerminalEvent
      BY <1>0, <2>2 DEF Reconcile, Ended
    <3>2. DOMAIN journal[f.run] = 1..Len(journal[f.run])
      BY <1>2 DEF Journals
    <3>3. PICK n \in 1..Len(journal[f.run]) :
            journal[f.run][n].type \in TerminalEvent /\ LastOf(f.run, TerminalEvent) = journal[f.run][n]
      BY <1>2, <3>1, <3>2, LastOfIsThere
    <3> QED BY <1>5, <3>1, <3>3
  <2>3. CASE ParkRun(d)
    <3>1. SetStatus(f.run, "waiting") /\ f.pc = "parked"
      BY <1>0, <2>3 DEF ParkRun, At
    <3>2. status[f.run] \notin Terminal \/ f.run \in overlap
      BY <1>3, <3>1 DEF Sound, Running, Pc, Outside
    <3>3. status'[f.run] = "waiting" /\ \A q \in Run \ {f.run} : status'[q] = status[q]
      BY <1>4, <3>1
    <3> QED BY <3>2, <3>3 DEF Settles, Back
  <2>4. CASE SettleStatus(d)
    <3>1. SetStatus(f.run, StatusOf(journal[f.run][Len(journal[f.run])].type)) /\ f.pc = "settle"
      BY <1>0, <2>4 DEF SettleStatus, At
    <3>2. LastEnds(journal[f.run])
      BY <1>1, <1>3, <3>1 DEF HandInv, SettleOK
    <3>3. Len(journal[f.run]) \in 1..Len(journal[f.run])
      BY <1>2, <3>2 DEF LastEnds, Journals
    <3> QED BY <1>5, <3>1, <3>2, <3>3 DEF LastEnds
  <2> QED BY <1>1, <2>1, <2>2, <2>3, <2>4
<1> QED BY <1>0, <1>1, <1>2, <1>6, ReturnKeepsHands

\* The code is handed v and goes on; what it returns, if that is next, is what it was
\* handed of the child.
LEMMA ObservesKeepsHands ==
  ASSUME ReturnsResult, ChildInv, ChildInv', HandInv, NEW d \in Driver, NEW from, At(d, from),
         from \in Loaded, Commits(Top(d).run), UNCHANGED <<status, setting, overlap>>, HandsOver,
         NEW v \in Known, v # "error", Observe(d, v),
         Top(d).run = Root /\ Call(d) = "result" => v \in handed'
  PROVE  HandInv'
<1>1. PICK f, g : f = Top(d) /\ g = [f EXCEPT !.pc = "run", !.at = f.at + 1, !.last = v]
  OBVIOUS
<1>2. /\ f \in FrameType /\ f.run \in Run /\ f.at \in Nat /\ f.pc = from
      /\ stack[d] # <<>> /\ turn \in {"free", d}
      /\ Call(d) = Flow(setting.calls, f.run)[f.at] /\ setting.calls \in RootCalls
  BY <1>1, Innermost DEF At
<1>3. g \in FrameType /\ g.run = f.run /\ g.at = f.at + 1 /\ g.last = v /\ g.pc = "run"
  <2>1. "run" \in Pc /\ f.at + 1 \in Nat
    BY <1>2 DEF Pc
  <2> QED BY <2>1, <1>1, <1>2 DEF FrameType
<1>4. Sound(setting.calls, status, overlap, handed, f)
  <2>1. Len(stack[d]) \in 1..Len(stack[d]) /\ f = stack[d][Len(stack[d])]
    BY <1>1, <1>2, TopIsTyped DEF ChildInv, Top
  <2> QED BY <2>1 DEF HandInv, SoundDrives
<1>5. Sound(setting.calls, status', overlap', handed', g)
  <2>1. ASSUME f.run = Root, g.at \in DOMAIN setting.calls, setting.calls[g.at] = "return"
        PROVE  v \in handed'
    <3>1. setting.calls[g.at - 1] = "result" /\ g.at - 1 = f.at
      BY <1>2, <1>3, <2>1 DEF ReturnsResult
    <3> QED BY <1>1, <1>2, <2>1, <3>1 DEF Flow
  <2>2. f.pc \in Running
    BY <1>2 DEF Running, Loaded, Pc, Outside
  <2> QED BY <1>3, <1>4, <2>1, <2>2 DEF Sound
<1>6. ~InChild(g) /\ g.pc # "settle" /\ Settles(f.run)
  BY <1>3 DEF InChild, Settles
<1>7. stack' = [stack EXCEPT ![d][Len(stack[d])] = g]
  BY <1>1, <1>2 DEF Observe, Step
<1> QED BY <1>1, <1>2, <1>3, <1>5, <1>6, <1>7, AdvanceKeepsHands

\* A task or a sleep.
LEMMA CallsKeepHands ==
  ASSUME ReturnsResult, "error" \notin Value, ChildInv, ChildInv', HandInv, NEW d \in Driver,
         \/ TaskHit(d) \/ ScheduleTask(d) \/ TaskReturns(d) \/ TaskRaises(d) \/ SleepHit(d)
         \/ CreateTimer(d) \/ EnsureTimerRow(d) \/ CommitWaiting(d)
  PROVE  HandInv'
<1>1. /\ stack[d] # <<>> /\ Top(d).pc \in {"run", "body", "timer", "park"} /\ At(d, Top(d).pc)
      /\ UNCHANGED <<status, setting, overlap>> /\ HandsOver
  BY DEF TaskHit, ScheduleTask, TaskReturns, TaskRaises, SleepHit, CreateTimer, EnsureTimerRow,
         CommitWaiting, Awaits, At, history, store, HandsOver
<1>2. /\ Top(d).run \in Run /\ Top(d).pc \in Loaded /\ Top(d).pc \in Running
      /\ Call(d) = Flow(setting.calls, Top(d).run)[Top(d).at] /\ Fits(setting.calls, Top(d))
  BY <1>1, Innermost DEF FrameOK, Loaded, Running, Pc, Outside
<1>3. CASE TaskHit(d)
  <2>1. PICK i \in 1..Len(journal[Top(d).run]) :
          /\ journal[Top(d).run][i].type = "TaskCompleted" /\ journal[Top(d).run][i] \in EventType
          /\ Recorded(Top(d).run, "TaskCompleted", Top(d).at) = journal[Top(d).run][i].val
    BY <1>1, <1>2, <1>3, HitIsRecorded DEF TaskHit
  <2>2. PICK v : v = journal[Top(d).run][i].val
    OBVIOUS
  <2>3. v \in Known /\ v # "error"
    BY <1>2, <2>1, <2>2 DEF EventType, HandInv, EventsTold, Told
  <2>4. Observe(d, v) /\ Commits(Top(d).run) /\ Call(d) = "task"
    BY <1>3, <2>1, <2>2 DEF TaskHit, Awaits, Commits, store
  <2> QED BY <1>1, <1>2, <2>3, <2>4, ObservesKeepsHands
<1>4. CASE TaskReturns(d)
  <2>1. PICK v \in Value : Commit(Top(d).run, "TaskCompleted", Top(d).at, v) /\ Observe(d, v)
    BY <1>4 DEF TaskReturns
  <2>2. PICK e : /\ e.type = "TaskCompleted" /\ e.val = v
                 /\ journal' = [journal EXCEPT ![Top(d).run] = Append(journal[Top(d).run], e)]
    BY <2>1, CommitsAnEvent
  <2>3. v # "error" /\ v \in Known
    BY DEF Known
  <2>4. Told(setting.calls, handed', Top(d).run, e)
    BY <2>2, <2>3 DEF Told
  <2>5. Commits(Top(d).run)
    BY <2>2, <2>4 DEF Commits
  <2>6. Call(d) = "task"
    BY <1>2, <1>4 DEF Fits, TaskReturns, At
  <2> QED BY <1>1, <1>2, <2>1, <2>3, <2>5, <2>6, ObservesKeepsHands
<1>5. CASE SleepHit(d)
  <2>1. "woke" \in Known /\ Observe(d, "woke") /\ Commits(Top(d).run) /\ Call(d) = "sleep"
    BY <1>5 DEF SleepHit, Awaits, Commits, store, Known
  <2> QED BY <1>1, <1>2, <2>1, ObservesKeepsHands
<1>6. ASSUME ScheduleTask(d) \/ TaskRaises(d) \/ CreateTimer(d) \/ EnsureTimerRow(d) \/ CommitWaiting(d)
      PROVE  HandInv'
  <2>1. \/ journal' = journal
        \/ \E type \in {"TaskScheduled", "TimerCreated", "WorkflowWaiting"} : \E val :
             Commit(Top(d).run, type, Top(d).at, val)
    BY <1>6 DEF ScheduleTask, TaskRaises, CreateTimer, EnsureTimerRow, CommitWaiting, store
  <2>2. Commits(Top(d).run)
    BY <2>1, PlainCommit DEF Commits
  <2>3. PICK p \in {"body", "fail", "timer", "park", "parked"} :
          stack' = [stack EXCEPT ![d][Len(stack[d])] = [Top(d) EXCEPT !.pc = p]]
    BY <1>6 DEF ScheduleTask, TaskRaises, CreateTimer, EnsureTimerRow, CommitWaiting, GoTo, Step, Suspend
  <2>4. p \in Pc \ {"started", "await"} /\ p # "settle"
    BY <2>3 DEF Pc
  <2> QED BY <1>1, <1>2, <2>2, <2>3, <2>4, GoToKeepsHands
<1> QED BY <1>3, <1>4, <1>5, <1>6

\* The workflow returns or raises, or is cancelled: its status comes next.
LEMMA OutcomeKeepsHands ==
  ASSUME ChildInv, ChildInv', HandInv, NEW d \in Driver, CommitOutcome(d) \/ (d = "loop" /\ CommitCancelled)
  PROVE  HandInv'
<1>0. PICK f : f = Top(d)
  OBVIOUS
<1>1. /\ stack[d] # <<>> /\ f.pc \in {"run", "fail", "cancel"} /\ At(d, f.pc)
      /\ UNCHANGED <<status, setting, overlap>> /\ HandsOver
  BY <1>0 DEF CommitOutcome, CommitCancelled, Awaits, At, history, HandsOver
<1>2. /\ f.run \in Run /\ f.pc \in Running /\ journal \in Journals
      /\ f.at \in DOMAIN Flow(setting.calls, f.run) /\ Call(d) = Flow(setting.calls, f.run)[f.at]
  BY <1>0, <1>1, Innermost DEF Running, Pc, Outside
<1>3. Sound(setting.calls, status, overlap, handed, f)
  <2>1. Len(stack[d]) \in 1..Len(stack[d]) /\ f = stack[d][Len(stack[d])]
    BY <1>0, <1>1, TopIsTyped DEF ChildInv, Top
  <2> QED BY <2>1 DEF HandInv, SoundDrives
<1>4. PICK e : /\ e.type \in TerminalEvent
               /\ journal' = [journal EXCEPT ![f.run] = Append(journal[f.run], e)]
               /\ e.type = "WorkflowCompleted" => e.val = f.last /\ Call(d) = "return"
  <2>1. CASE CommitOutcome(d) /\ Call(d) = "return" /\ Commit(f.run, "WorkflowCompleted", 0, f.last)
    BY <2>1, CommitsAnEvent DEF TerminalEvent
  <2>2. CASE Commit(f.run, "WorkflowFailed", 0, "error")
    BY <2>2, CommitsAnEvent DEF TerminalEvent
  <2>3. CASE Commit(f.run, "WorkflowCancelled", 0, "none")
    BY <2>3, CommitsAnEvent DEF TerminalEvent
  <2> QED BY <1>0, <2>1, <2>2, <2>3 DEF CommitOutcome, CommitCancelled, Awaits
<1>5. e.type \notin {"TaskCompleted", "ChildWorkflowScheduled"}
  BY <1>4 DEF TerminalEvent
<1>6. e.type = "WorkflowCompleted" /\ f.run = Root => e.val \in handed'
  BY <1>1, <1>2, <1>3, <1>4 DEF Sound, Flow, HandsOver
<1>7. Told(setting.calls, handed', f.run, e)
  BY <1>3, <1>4, <1>5, <1>6 DEF Told, Sound
<1>8. Commits(f.run)
  BY <1>2, <1>3, <1>4, <1>7 DEF Commits, Sound
<1>9. LastEnds(journal'[f.run])
  <2>1. journal[f.run] \in Seq(EventType) /\ journal'[f.run] = Append(journal[f.run], e)
    BY <1>2, <1>4 DEF Journals
  <2>2. Len(journal'[f.run]) = Len(journal[f.run]) + 1 /\ Len(journal[f.run]) \in Nat
        /\ journal'[f.run][Len(journal[f.run]) + 1] = e
    BY <2>1
  <2> QED BY <1>4, <2>2 DEF LastEnds
<1>10. /\ stack' = [stack EXCEPT ![d][Len(stack[d])] = [f EXCEPT !.pc = "settle"]]
       /\ turn' = d
  BY <1>0 DEF CommitOutcome, CommitCancelled, GoTo, Step
<1>11. "settle" \in Pc \ {"started", "await"}
  BY DEF Pc
<1> QED BY <1>0, <1>1, <1>2, <1>8, <1>9, <1>10, <1>11, GoToKeepsHands

\* A drive that is at its child has been given it.
LEMMA ChildIsNamed ==
  ASSUME ChildInv, NEW d \in Driver, stack[d] # <<>>,
         \/ Top(d).pc \in {"named", "started", "await", "poll"}
         \/ Top(d).pc = "run" /\ Call(d) = "result"
  PROVE  /\ Top(d).run = Root /\ Top(d).child \in Kid
         /\ NamedIn(setting.calls, journal, Top(d).child)
         /\ Top(d).pc \in {"await", "poll"} => Call(d) = "result"
<1>1. PICK f : f = Top(d)
  OBVIOUS
<1>2. /\ f.run \in Run /\ FrameOK(setting.calls, journal, overlap, f)
      /\ setting.calls \in RootCalls /\ f.at \in DOMAIN Flow(setting.calls, f.run)
      /\ Call(d) = Flow(setting.calls, f.run)[f.at]
  BY <1>1, Innermost
<1>3. /\ f.pc \in {"named", "started"} => Call(d) = "child"
      /\ f.pc \in {"await", "poll"} => Call(d) = "result"
  BY <1>2 DEF FrameOK, Fits
<1>4. f.run = Root /\ Flow(setting.calls, f.run) = setting.calls
  BY <1>1, <1>2, <1>3, OnlyTheRootHasChildren
<1>5. HasChild(setting.calls, f)
  BY <1>1, <1>2, <1>3, <1>4, ResultsAreOfChildren DEF HasChild
<1> QED BY <1>1, <1>2, <1>3, <1>4, <1>5 DEF FrameOK, KidsAreNamed

\* A child is named, driven, and found failed or not.
LEMMA ParentKeepsHands ==
  ASSUME ReturnsResult, ChildInv, ChildInv', HandInv, NEW d \in Driver,
         \/ StartChild(d) \/ DriveChild(d) \/ ChildStarted(d)
         \/ AwaitResult(d) \/ PollChild(d)
  PROVE  HandInv'
<1>1. /\ stack[d] # <<>> /\ Top(d).pc \in {"run", "named", "started", "await"} /\ At(d, Top(d).pc)
      /\ UNCHANGED <<status, setting>> /\ HandsOver /\ handed' = handed
  BY DEF StartChild, DriveChild, ChildStarted, AwaitResult, PollChild, Awaits, At, history, store, HandsOver
<1>2. /\ Top(d) \in FrameType /\ Top(d).run \in Run /\ Top(d).pc \in Loaded /\ Top(d).pc \in Running
      /\ Top(d).at \in DOMAIN Flow(setting.calls, Top(d).run) /\ journal \in Journals
      /\ Call(d) = Flow(setting.calls, Top(d).run)[Top(d).at] /\ setting.calls \in RootCalls
  BY <1>1, Innermost DEF FrameOK, Loaded, Running, Pc, Outside
<1>3. CASE StartChild(d)
  <2>1. Top(d).run = Root /\ Call(d) = "child" /\ Flow(setting.calls, Top(d).run) = setting.calls
    BY <1>2, <1>3, OnlyTheRootHasChildren DEF StartChild, Awaits
  <2>2. PICK g : /\ \E k : g = [Top(d) EXCEPT !.pc = "named", !.child = k]
                 /\ stack' = [stack EXCEPT ![d][Len(stack[d])] = g]
    BY <1>3 DEF StartChild, Step
  <2>3. /\ g.run = Top(d).run /\ g.at = Top(d).at /\ g.last = Top(d).last /\ g.pc = "named"
        /\ ~InChild(g)
    BY <1>2, <2>2 DEF FrameType, InChild
  <2>4. g \in FrameType
    <3>1. /\ stack[d] \in Seq(FrameType) /\ Len(stack[d]) \in 1..Len(stack[d])
          /\ stack \in Stacks
      BY <1>1, TopIsTyped DEF ChildInv, ChildTypes, Stacks
    <3>2. stack'[d] \in Seq(FrameType)
      BY DEF ChildInv, ChildTypes
    <3>3. stack'[d] = [stack[d] EXCEPT ![Len(stack[d])] = g]
      BY <2>2, <3>1 DEF Stacks
    <3>4. Len(stack'[d]) = Len(stack[d]) /\ stack'[d][Len(stack[d])] = g
      BY <3>1, <3>3
    <3> QED BY <3>1, <3>2, <3>4
  <2>5. Commits(Top(d).run)
    <3>1. ASSUME NEW k, Commit(Top(d).run, "ChildWorkflowScheduled", Top(d).at, k)
          PROVE  Commits(Top(d).run)
      <4>1. PICK e : /\ e.type = "ChildWorkflowScheduled" /\ e.call = Top(d).at
                     /\ journal' = [journal EXCEPT ![Top(d).run] = Append(journal[Top(d).run], e)]
        BY <3>1, CommitsAnEvent
      <4>2. Told(setting.calls, handed', Top(d).run, e)
        BY <1>2, <2>1, <4>1 DEF Told
      <4> QED BY <4>1, <4>2 DEF Commits
    <3> QED BY <1>3, <3>1 DEF StartChild, Commits
  <2>6. overlap' = overlap /\ Settles(Top(d).run)
    BY <1>1, <1>3 DEF StartChild, history, Settles
  <2> QED BY <1>1, <1>2, <2>2, <2>3, <2>4, <2>5, <2>6, GoesKeepsHands DEF At
<1>4. CASE DriveChild(d) \/ AwaitResult(d)
  <2>1. PICK p \in {"started", "await"} : Enter(d, Top(d).child, "enter", p)
    BY <1>4 DEF DriveChild, AwaitResult
  <2>2. Top(d).child \in Kid
    BY <1>1, <1>4, ChildIsNamed DEF DriveChild, AwaitResult, Awaits, At
  <2>3. overlap \subseteq overlap' /\ journal' = journal
    BY <1>4, <2>1 DEF Enter, Meet, DriveChild, AwaitResult, store
  <2> QED BY <1>1, <1>2, <2>1, <2>2, <2>3, EnterKeepsHands DEF At
<1>5. ASSUME ChildStarted(d) \/ PollChild(d)
      PROVE  UNCHANGED <<status, setting, overlap>> /\ Commits(Top(d).run)
  BY <1>1, <1>5 DEF ChildStarted, PollChild, history, store, Commits
<1>6. CASE ChildStarted(d)
  <2>1. "handle" \in Known /\ "fail" \in Pc \ {"started", "await"} /\ Top(d).pc = "started"
    BY <1>6 DEF Known, Pc, ChildStarted, At
  <2>2. Call(d) = "child"
    BY <1>1, <2>1, Innermost DEF FrameOK, Fits
  <2>3. CASE Observe(d, "handle")
    BY <1>1, <1>2, <1>5, <1>6, <2>1, <2>2, <2>3, ObservesKeepsHands
  <2>4. CASE GoTo(d, "fail")
    BY <1>1, <1>2, <1>5, <1>6, <2>1, <2>4, GoToKeepsHands DEF GoTo, Step
  <2> QED BY <1>6, <2>3, <2>4 DEF ChildStarted, RaiseChildFailure
<1>7. CASE PollChild(d)
  <2>1. "poll" \in Pc \ {"started", "await"}
    BY DEF Pc
  <2>2. stack' = [stack EXCEPT ![d][Len(stack[d])] = [Top(d) EXCEPT !.pc = "poll"]]
    BY <1>7 DEF PollChild, Suspend
  <2> QED BY <1>1, <1>2, <1>5, <1>7, <2>1, <2>2, GoToKeepsHands
<1> QED BY <1>3, <1>4, <1>6, <1>7

LEMMA CountsEvents ==
  ASSUME ChildInv, NEW r \in Run, NEW type
  PROVE  Count(r, type) > 0 <=> \E i \in 1..Len(journal[r]) : journal[r][i].type = type
<1> DEFINE j == journal[r]
           S == {i \in DOMAIN j : j[i].type = type}
<1>1. j \in Seq(EventType) /\ Len(j) \in Nat /\ DOMAIN j = 1..Len(j)
  BY DEF ChildInv, ChildTypes
<1>2. IsFiniteSet(S)
  <2>1. IsFiniteSet(1..Len(j)) /\ S \subseteq 1..Len(j)
    BY <1>1, FS_Interval
  <2> QED BY <2>1, FS_Subset
<1>3. Cardinality(S) \in Nat /\ (Cardinality(S) = 0 <=> S = {})
  BY <1>2, FS_CardinalityType, FS_EmptySet
<1>4. Count(r, type) = Cardinality(S)
  BY DEF Count
<1> QED BY <1>1, <1>3, <1>4

\* One drive at a time ends a run once.
LEMMA OnlyOutcome ==
  ASSUME ChildInv, NEW r \in Run, r \notin overlap,
         NEW i \in 1..Len(journal[r]), journal[r][i].type \in OutcomeEvent
  PROVE  LastOf(r, OutcomeEvent) = journal[r][i]
<1>1. PICK n \in 1..Len(journal[r]) :
        journal[r][n].type \in OutcomeEvent /\ LastOf(r, OutcomeEvent) = journal[r][n]
  BY LastOfIsThere
<1>2. n = i
  BY <1>1 DEF ChildInv, RunsOK, OnceIn
<1> QED BY <1>1, <1>2

\* The outcome of the child is handed over, or that it is parked.
LEMMA HandingKeepsHands ==
  ASSUME ReturnsResult, ChildInv, ChildInv', HandInv, NEW d \in Driver, HandParked(d) \/ HandOutcome(d)
  PROVE  HandInv'
<1>1. PICK c : c = Top(d).child
  OBVIOUS
<1>2. /\ stack[d] # <<>> /\ Top(d).pc \in {"await", "poll"} /\ At(d, Top(d).pc)
      /\ UNCHANGED <<journal, status, setting, overlap>>
  BY DEF HandParked, HandOutcome, At, store
<1>3. /\ c \in Kid /\ c \in Run /\ NamedIn(setting.calls, journal, c) /\ Call(d) = "result"
      /\ Top(d).pc \in Loaded /\ Top(d).pc \in Running /\ Commits(Top(d).run)
  BY <1>1, <1>2, ChildIsNamed DEF Run, Loaded, Running, Pc, Outside, Commits
<1>4. CASE HandParked(d)
  <2>1. HandsOver /\ "parked" \in Known /\ "parked" \in handed' /\ Observe(d, "parked")
    BY <1>4 DEF HandParked, HandOver, HandsOver, Known
  <2> QED BY <1>2, <1>3, <2>1, ObservesKeepsHands
<1>5. CASE HandOutcome(d)
  <2>1. status[c] \in Terminal
    <3>1. CASE Top(d).pc = "await"
      <4>1. status[c] # "waiting"
        BY <1>1, <1>5, <3>1 DEF HandOutcome, At, Terminal
      <4>2. Top(d) = LastIn(stack[d]) /\ Len(stack[d]) > 0
        BY <1>2, TopIsTyped DEF ChildInv
      <4>3. status[c] \in Back
        BY <1>1, <3>1, <4>2 DEF HandInv, ReturnedOK, Waits, InChild
      <4> QED BY <4>1, <4>3 DEF Back
    <3>2. CASE Top(d).pc = "poll"
      BY <1>1, <1>5, <3>2 DEF HandOutcome, At
    <3> QED BY <1>2, <3>1, <3>2
  <2>2. ASSUME NEW v, handed' = handed \cup {v}, Root \notin overlap /\ overlap \cap Kid = {} => Gave(journal[c], status[c], v)
        PROVE  HandsOver
    BY <1>3, <2>2 DEF HandsOver
  <2>3. CASE Count(c, "WorkflowCompleted") > 0 /\ LastOf(c, OutcomeEvent).type = "WorkflowCompleted"
    <3>1. PICK v : v = LastOf(c, OutcomeEvent).val
      OBVIOUS
    <3>2. PICK i \in 1..Len(journal[c]) : journal[c][i].type = "WorkflowCompleted"
      BY <1>3, <2>3, CountsEvents
    <3>3. PICK n \in 1..Len(journal[c]) :
            journal[c][n].type = "WorkflowCompleted" /\ journal[c][n].val = v
      BY <1>3, <2>3, <3>1, <3>2, LastOfIsThere DEF OutcomeEvent
    <3>4. v # "error" /\ v \in Known
      <4>1. journal[c][n] \in EventType
        BY <1>3 DEF ChildInv, ChildTypes
      <4> QED BY <1>3, <3>3, <4>1 DEF EventType, HandInv, EventsTold, Told
    <3>5. Gave(journal[c], status[c], v)
      BY <2>1, <3>3, <3>4 DEF Gave
    <3>6. Observe(d, v) /\ handed' = handed \cup {v}
      BY <1>1, <1>5, <2>3, <3>1 DEF HandOutcome, HandOver
    <3>7. HandsOver /\ v \in handed'
      BY <2>2, <3>5, <3>6
    <3> QED BY <1>2, <1>3, <3>4, <3>6, <3>7, ObservesKeepsHands
  <2>4. CASE ~(Count(c, "WorkflowCompleted") > 0 /\ LastOf(c, OutcomeEvent).type = "WorkflowCompleted")
    <3>1. GoTo(d, "fail") /\ handed' = handed \cup {"error"}
      BY <1>1, <1>5, <2>4 DEF HandOutcome
    <3>2. ASSUME overlap \cap Kid = {} PROVE Gave(journal[c], status[c], "error")
      <4>1. ASSUME NEW i \in 1..Len(journal[c]), journal[c][i].type = "WorkflowCompleted" PROVE FALSE
        <5>1. Count(c, "WorkflowCompleted") > 0 /\ c \notin overlap
          BY <1>3, <3>2, <4>1, CountsEvents
        <5>2. LastOf(c, OutcomeEvent) = journal[c][i]
          BY <1>3, <4>1, <5>1, OnlyOutcome DEF OutcomeEvent
        <5> QED BY <2>4, <4>1, <5>1, <5>2
      <4> QED BY <2>1, <4>1 DEF Gave
    <3>3. HandsOver
      BY <2>2, <3>1, <3>2
    <3>4. "fail" \in Pc \ {"started", "await"}
      BY DEF Pc
    <3> QED BY <1>2, <1>3, <3>1, <3>3, <3>4, GoToKeepsHands DEF GoTo, Step
  <2> QED BY <2>3, <2>4
<1> QED BY <1>4, <1>5

-----------------------------------------------------------------------------
(* The caller, the poll loop and the process, and what is handed over       *)

\* A drive begins, at its entry or, with a run that has not ended, past it.
LEMMA FrameBeginsSound ==
  ASSUME ReturnsResult, NEW w \in RootCalls, NEW st, NEW O, NEW H, NEW q \in Run,
         NEW pc \in {"unpark", "enter", "cancel", "load"}, pc \in {"cancel", "load"} => st[q] \notin Terminal
  PROVE  /\ Frame(q, pc) \in FrameType /\ ~InChild(Frame(q, pc)) /\ Frame(q, pc).pc # "settle"
         /\ Sound(w, st, O, H, Frame(q, pc))
<1>1. PICK f : f = Frame(q, pc)
  OBVIOUS
<1>2. f \in FrameType /\ f.run = q /\ f.pc = pc /\ f.at = 1 /\ f.last = "none"
  <2>1. pc \in Pc /\ "none" \in Known
    BY DEF Known, Pc
  <2> QED BY <2>1, <1>1 DEF Frame, FrameType
<1>3. w \in Seq(Op)
  BY CallsEnd
<1>4. ~(f.at \in DOMAIN w /\ w[f.at] = "return")
  BY <1>2, <1>3 DEF ReturnsResult
<1>5. Sound(w, st, O, H, f)
  BY <1>2, <1>4 DEF Sound, Running, Outside
<1> QED BY <1>1, <1>2, <1>5 DEF InChild

LEMMA CallerKeepsHands ==
  ASSUME ReturnsResult, ChildInv, ChildInv', HandInv, Start \/ AwaitUnpark \/ Unparked
  PROVE  HandInv'
<1>1. /\ "caller" \in Driver /\ "caller" # "free" /\ Driver = {"caller", "loop"} /\ Root \in Run
      /\ setting.calls \in RootCalls /\ stack \in Stacks
      /\ UNCHANGED <<journal, status, setting, handed>> /\ overlap \subseteq overlap'
  BY DEF Driver, Run, ChildInv, ChildTypes, Stacks, Start, AwaitUnpark, Unparked, history, store, Begin, Meet
<1>2. Commits(Root) /\ HandsOver
  BY <1>1, NothingHanded
<1>3. CASE Start
  <2>1. PICK f, g : f = Frame(Root, "unpark") /\ g = Frame(Root, "enter")
    OBVIOUS
  <2>2. /\ f \in FrameType /\ ~InChild(f) /\ f.pc # "settle"
        /\ Sound(setting.calls, status, overlap', handed, f)
    BY <1>1, <2>1, FrameBeginsSound
  <2>3. /\ g \in FrameType /\ ~InChild(g) /\ g.pc # "settle"
        /\ Sound(setting.calls, status, overlap', handed, g)
    BY <1>1, <2>1, FrameBeginsSound
  <2>4. PICK s : s = <<f, g>>
    OBVIOUS
  <2>5. s \in Seq(FrameType) /\ Len(s) = 2 /\ s[1] = f /\ s[2] = g
    BY <2>2, <2>3, <2>4
  <2>6. \A i \in 1..Len(s) : s[i] = f \/ s[i] = g
    BY <2>5
  <2>7. stack' = [stack EXCEPT !["caller"] = s] /\ turn = "free"
    BY <1>3, <2>1, <2>4 DEF Start, Idle, Begin
  <2> QED BY <1>1, <2>2, <2>3, <2>5, <2>6, <2>7, BeginKeepsHands
<1>4. ASSUME stack' = [stack EXCEPT !["caller"] = <<>>], turn # "loop" PROVE HandInv'
  <2>1. stack'["caller"] = <<>> /\ stack'["loop"] = stack["loop"]
    BY <1>1, <1>4 DEF Stacks
  <2> QED BY <1>1, <1>2, <1>4, <2>1, FewerKeepsHands
<1>5. CASE AwaitUnpark
  <2>1. stack["caller"] # <<>> /\ turn \in {"free", "caller"} /\ Top("caller").pc = "unpark"
    BY <1>5 DEF AwaitUnpark, At
  <2>2. SUFFICES ASSUME stack' # [stack EXCEPT !["caller"] = <<>>] PROVE HandInv'
    BY <1>4, <2>1
  <2>3. PICK f, g : f = Top("caller") /\ g = [f EXCEPT !.pc = "wait"]
    OBVIOUS
  <2>4. stack' = [stack EXCEPT !["caller"][Len(stack["caller"])] = g]
    BY <1>5, <2>2, <2>3 DEF AwaitUnpark, Suspend
  <2>5. f \in FrameType /\ "wait" \in Pc /\ "wait" \notin Running
    BY <1>1, <2>1, <2>3, Innermost DEF Pc, Running, Outside
  <2>6. g \in FrameType /\ g.run = f.run /\ g.at = f.at /\ g.last = f.last /\ g.pc = "wait"
    BY <2>3, <2>5 DEF FrameType
  <2>7. ~InChild(g) /\ overlap' = overlap
    BY <1>5, <2>6 DEF InChild, AwaitUnpark, history
  <2>8. Commits(f.run) /\ Settles(f.run)
    BY <1>1 DEF Commits, Settles
  <2> QED BY <1>1, <1>2, <2>1, <2>3, <2>4, <2>5, <2>6, <2>7, <2>8, GoesKeepsHands
<1>6. CASE Unparked
  BY <1>4, <1>6 DEF Unparked, At
<1> QED BY <1>3, <1>5, <1>6

\* A run is driven by the poll loop if it has not ended.
LEMMA LoopBeginsHands ==
  ASSUME ReturnsResult, ChildInv, ChildInv', HandInv, NEW r \in Run, status[r] \notin Terminal,
         turn \in {"free", "loop"}, UNCHANGED <<journal, status, setting, handed>>,
         NEW pc \in {"cancel", "load"}, Begin("loop", r, <<Frame(r, pc)>>)
  PROVE  HandInv'
<1>1. PICK f : f = Frame(r, pc)
  OBVIOUS
<1>2. setting.calls \in RootCalls /\ "loop" \in Driver /\ overlap \subseteq overlap'
  BY DEF ChildInv, ChildTypes, Driver, Begin, Meet
<1>3. /\ f \in FrameType /\ ~InChild(f) /\ f.pc # "settle"
      /\ Sound(setting.calls, status, overlap', handed, f)
  BY <1>1, <1>2, FrameBeginsSound
<1>4. PICK s : s = <<f>>
  OBVIOUS
<1>5. s \in Seq(FrameType) /\ \A i \in 1..Len(s) : s[i] = f
  BY <1>3, <1>4
<1>6. stack' = [stack EXCEPT !["loop"] = s]
  BY <1>1, <1>4 DEF Begin
<1> QED BY <1>2, <1>3, <1>5, <1>6, BeginKeepsHands

\* What else the poll loop and the process do touches no drive that is on its way.
LEMMA OthersKeepHands ==
  ASSUME ReturnsResult, ChildInv, ChildInv', HandInv,
         \/ ReadDue \/ EndTick \/ PassTime \/ Crash \/ UNCHANGED vars
         \/ \E t \in timers : FireTimer(t) \/ SettleTimer(t)
         \/ \E r \in Run : WakeRun(r) \/ Cancel(r)
  PROVE  HandInv'
<1>1. /\ Driver = {"caller", "loop"} /\ Root \in Run
      /\ UNCHANGED <<status, setting, handed>> /\ overlap \subseteq overlap'
  BY DEF Driver, Run, ReadDue, EndTick, PassTime, Crash, vars, FireTimer, SettleTimer, WakeRun, Cancel,
         Begin, Meet, history, store
<1>2. ASSUME stack' = stack, turn = "free" \/ (turn = "loop" /\ stack["loop"] = <<>>),
             NEW r \in Run, Commits(r)
      PROVE  HandInv'
  BY <1>1, <1>2, FewerKeepsHands
<1>3. ASSUME UNCHANGED journal PROVE Commits(Root)
  BY <1>3 DEF Commits
<1>4. CASE ReadDue \/ EndTick \/ PassTime
  BY <1>1, <1>2, <1>3, <1>4 DEF ReadDue, EndTick, PassTime, Ticking, store
<1>5. CASE Crash
  <2>1. \A e \in Driver : stack'[e] = <<>>
    BY <1>5 DEF Crash
  <2> QED BY <1>1, <1>3, <1>5, <2>1, FewerKeepsHands DEF Crash, store
<1>6. ASSUME NEW t \in timers, FireTimer(t) \/ SettleTimer(t) PROVE HandInv'
  <2>1. t.run \in Run
    BY DEF ChildInv, ChildTypes, IsTimer
  <2>2. UNCHANGED journal \/ Commit(t.run, "TimerFired", t.call, "none")
    BY <1>6 DEF FireTimer, SettleTimer
  <2>3. Commits(t.run)
    BY <2>2, PlainCommit DEF Commits
  <2>4. stack' = stack /\ turn = "loop" /\ stack["loop"] = <<>>
    BY <1>6 DEF FireTimer, SettleTimer, Ticking
  <2> QED BY <1>2, <2>1, <2>3, <2>4
<1>7. ASSUME NEW r \in Run, WakeRun(r) \/ Cancel(r) PROVE HandInv'
  <2>1. UNCHANGED journal /\ turn \in {"free", "loop"}
    BY <1>7 DEF WakeRun, Cancel, Ticking, store
  <2>2. CASE UNCHANGED stack /\ WakeRun(r)
    BY <1>2, <1>3, <1>1, <2>2, <2>1 DEF WakeRun, Ticking
  <2>3. ASSUME NEW pc \in {"cancel", "load"}, status[r] \notin Terminal, Begin("loop", r, <<Frame(r, pc)>>)
        PROVE  HandInv'
    BY <1>1, <2>1, <2>3, LoopBeginsHands
  <2> QED BY <1>7, <2>2, <2>3 DEF WakeRun, Cancel
<1>8. CASE UNCHANGED vars
  <2>1. UNCHANGED <<journal, status, setting, handed, overlap, stack, turn>>
    BY <1>8 DEF vars, store, history
  <2> QED BY <2>1 DEF HandInv, StatusOK, SettleOK, ReturnedOK, SoundDrives, EventsTold, HandedOK, NamedIn
<1> QED BY <1>4, <1>5, <1>6, <1>7, <1>8

LEMMA StepsKeepHands ==
  ASSUME ReturnsResult, "error" \notin Value, ChildInv, ChildInv', HandInv, [ChildNext]_vars
  PROVE  HandInv'
<1>1. ASSUME NEW d \in Driver, Drive(d) PROVE HandInv'
  BY <1>1, EnteringKeepsHands, EndingKeepsHands, CallsKeepHands, OutcomeKeepsHands, ParentKeepsHands,
     HandingKeepsHands DEF Drive
<1>2. CASE CommitCancelled
  BY <1>2, OutcomeKeepsHands DEF Driver
<1> QED BY <1>1, <1>2, CallerKeepsHands, OthersKeepHands DEF ChildNext, Tick

LEMMA HandsStartOK == ChildInit => HandInv
<1> SUFFICES ASSUME ChildInit PROVE HandInv
  OBVIOUS
<1>1. \A d \in Driver : stack[d] = <<>> /\ Len(stack[d]) = 0
  BY DEF ChildInit
<1>2. \A q \in Run : Len(journal[q]) = 0 /\ status[q] = "none"
  BY DEF ChildInit
<1>3. StatusOK /\ EventsTold
  BY <1>2 DEF StatusOK, EventsTold, Terminal
<1>4. SettleOK /\ ReturnedOK /\ SoundDrives
  BY <1>1 DEF SettleOK, ReturnedOK, SoundDrives, Waits
<1>5. HandedOK
  BY DEF ChildInit, HandedOK
<1> QED BY <1>3, <1>4, <1>5 DEF HandInv

\* The outcomes of one run, read from its journal.
LEMMA GaveIsShown ==
  ASSUME ChildInv, StatusOK, NEW k \in Kid, k \notin overlap, NEW v, Gave(journal[k], status[k], v)
  PROVE  /\ v = "error" => ChildOutput(k) = "none" /\ ChildStatus(k) \in {"failed", "cancelled"}
         /\ v # "error" =>
              /\ ChildOutput(k) = v /\ ChildStatus(k) \in {"completed", "cancelled"}
              /\ Count(k, "WorkflowCompleted") > 0 /\ LastOf(k, OutcomeEvent).val = v
<1>1. k \in Run /\ status[k] \in Terminal /\ OnceIn(journal[k])
  BY DEF Run, Gave, ChildInv, RunsOK
<1>2. ChildStatus(k) = status[k]
  BY <1>1 DEF ChildStatus, Terminal
<1>3. PICK m \in 1..Len(journal[k]) :
        journal[k][m].type \in TerminalEvent /\ StatusOf(journal[k][m].type) = status[k]
  BY <1>1 DEF StatusOK, EndsAs
<1>4. /\ status[k] = "completed" => journal[k][m].type = "WorkflowCompleted"
      /\ status[k] = "failed" => journal[k][m].type = "WorkflowFailed"
  BY <1>3 DEF StatusOf, TerminalEvent
<1>5. CASE v = "error"
  <2>1. \A i \in 1..Len(journal[k]) : journal[k][i].type # "WorkflowCompleted"
    BY <1>5 DEF Gave
  <2>2. ~(Count(k, "WorkflowCompleted") > 0)
    BY <1>1, <2>1, CountsEvents
  <2> QED BY <1>1, <1>2, <1>4, <1>5, <2>1, <2>2 DEF ChildOutput, Terminal
<1>6. CASE v # "error"
  <2>1. PICK i \in 1..Len(journal[k]) : journal[k][i].type = "WorkflowCompleted" /\ journal[k][i].val = v
    BY <1>6 DEF Gave
  <2>2. Count(k, "WorkflowCompleted") > 0
    BY <1>1, <2>1, CountsEvents
  <2>3. LastOf(k, OutcomeEvent) = journal[k][i]
    BY <1>1, <2>1, OnlyOutcome DEF OutcomeEvent
  <2>4. status[k] # "failed"
    BY <1>1, <1>4, <2>1 DEF OnceIn, OutcomeEvent
  <2> QED BY <1>1, <1>2, <1>6, <2>1, <2>2, <2>3, <2>4 DEF ChildOutput, Terminal
<1> QED BY <1>5, <1>6

\* Every drive of the parent is handed the same outcome of the child, readers are told the
\* same, and a parent does not complete over a child that failed: for parents with one
\* child, that return what they were handed of it, and outputs that are no failure.
THEOREM ResultIsChildsHolds ==
  ASSUME OneChildCall, ReturnsResult, "error" \notin Value PROVE ChildSpec => []ResultIsChilds
<1>1. ChildInv /\ HandInv => ResultIsChilds
  <2> SUFFICES ASSUME ChildInv, HandInv, Root \notin overlap, overlap \cap Kid = {}
               PROVE  /\ \A call \in DOMAIN setting.calls : \A k \in Named(call) : ShownAsHanded(k)
                      /\ Cardinality(handed \ {"parked"}) <= 1
                      /\ status[Root] = "completed" /\ "parked" \notin handed =>
                           \A call \in DOMAIN setting.calls : \A k \in Named(call) :
                             /\ Count(k, "WorkflowCompleted") > 0
                             /\ LastOf(Root, OutcomeEvent).val = LastOf(k, OutcomeEvent).val
    BY DEF ResultIsChilds
  <2>1. Root \in Run /\ journal[Root] \in Seq(EventType) /\ OnceIn(journal[Root])
    BY DEF Run, ChildInv, ChildTypes, RunsOK
  <2>2. ASSUME NEW call \in DOMAIN setting.calls, NEW k \in Named(call)
        PROVE  k \in Kid /\ NamedIn(setting.calls, journal, k)
    BY <2>1, <2>2 DEF Named, NamedIn, EventType
  <2>3. ASSUME NEW v \in handed \ {"parked"}, NEW k \in Kid, NamedIn(setting.calls, journal, k)
        PROVE  Gave(journal[k], status[k], v)
    <3>1. PICK l \in Kid : NamedIn(setting.calls, journal, l) /\ Gave(journal[l], status[l], v)
      BY DEF HandInv, HandedOK
    <3>2. l = k
      BY <2>3, <3>1, OnlyChild DEF HandInv
    <3> QED BY <3>1, <3>2
  <2>4. ASSUME NEW call \in DOMAIN setting.calls, NEW k \in Named(call) PROVE ShownAsHanded(k)
    <3>1. k \in Kid /\ NamedIn(setting.calls, journal, k) /\ k \notin overlap /\ StatusOK
      BY <2>2, <2>4 DEF HandInv
    <3> QED BY <2>3, <3>1, GaveIsShown DEF ShownAsHanded
  <2>5. Cardinality(handed \ {"parked"}) <= 1
    <3>1. SUFFICES ASSUME NEW v \in handed \ {"parked"}, NEW u \in handed \ {"parked"} PROVE v = u
      BY AtMostOne
    <3>2. PICK k \in Kid : NamedIn(setting.calls, journal, k)
      BY DEF HandInv, HandedOK
    <3>3. Gave(journal[k], status[k], v) /\ Gave(journal[k], status[k], u)
      BY <2>3, <3>2
    <3>4. k \notin overlap /\ StatusOK /\ "none" # "error"
      BY DEF HandInv
    <3> QED BY <3>3, <3>4, GaveIsShown DEF Gave
  <2>6. ASSUME status[Root] = "completed", "parked" \notin handed,
               NEW call \in DOMAIN setting.calls, NEW k \in Named(call)
        PROVE  /\ Count(k, "WorkflowCompleted") > 0
               /\ LastOf(Root, OutcomeEvent).val = LastOf(k, OutcomeEvent).val
    <3>1. PICK i \in 1..Len(journal[Root]) : journal[Root][i].type = "WorkflowCompleted"
      BY <2>1, <2>6 DEF HandInv, StatusOK, EndsAs, StatusOf, TerminalEvent, Terminal
    <3>2. LastOf(Root, OutcomeEvent) = journal[Root][i]
      BY <2>1, <3>1, OnlyOutcome DEF OutcomeEvent
    <3>3. journal[Root][i].val \in handed \ {"parked"} /\ journal[Root][i].val # "error"
      BY <2>1, <2>6, <3>1 DEF HandInv, EventsTold, Told
    <3>4. k \in Kid /\ NamedIn(setting.calls, journal, k) /\ k \notin overlap /\ StatusOK
      BY <2>2, <2>6 DEF HandInv
    <3> QED BY <2>3, <3>2, <3>3, <3>4, GaveIsShown
  <2> QED BY <2>4, <2>5, <2>6
<1>2. ChildInv /\ ChildInv' /\ HandInv /\ [ChildNext]_vars => HandInv'
  BY StepsKeepHands
<1> QED BY <1>1, <1>2, HandsStartOK, ChildInvHolds, PTL DEF ChildSpec
=============================================================================
