----------------------------- MODULE MCReadModel -----------------------------
(* A small instance of ReadModel for TLC: workflows, and the outputs of their *)
(* tasks, one for each thing the codec, the redactor and the diff tell apart. *)
EXTENDS Evaluation

CONSTANTS d1, free

call(t) == [kind |-> "task", name |-> t, after |-> 0]
sleep(n) == [kind |-> "sleep", name |-> "sleep", after |-> n]
end(k) == [kind |-> k, name |-> "none", after |-> 0]

\* the workflow that makes these calls in order; an error escapes it
Linear(steps) ==
  [h \in Histories |->
     IF \E i \in DOMAIN h : h[i] = "error" THEN end("raise")
     ELSE IF Len(h) < Len(steps) THEN steps[Len(h) + 1] ELSE end("return")]

\* of a run without mishaps: before its first task, in it, in the sleep and behind it;
\* of a fork: behind its own or its source's first record, and behind a copied result
MCCuts == <<{1, 3, 5, 7}, {2, 4}>>

MCRetries == [t \in Task |-> 0]

Program == [twice |-> <<call("draft"), sleep(0), call("draft")>>]

MCOrigin == [v \in Version |-> [commit |-> None, dev |-> None, source |-> v]]

MCWorkflow == [v \in Version |-> Linear(Program[v])]

Author == [name |-> Type("str"), mood |-> EnumOf("Mood"), access_token |-> Type("str")]
MCFields == [Reviewer |-> Author, Author |-> Author]
MCMembers == [Mood |-> {Str("calm"), Str("grim")}]
MCStrEnums == {}
MCWords ==
  [name |-> <<"name">>, mood |-> <<"mood">>, inner |-> <<"inner">>,
   access_token |-> <<"access", "token">>, input_tokens |-> <<"input", "tokens">>,
   type |-> <<"type">>, fields |-> <<"fields">>, v |-> <<"v">>]
     @@ ("$satay" :> <<"satay">>)
MCPatterns == {<<"token">>, <<"api", "key">>}

Calm == Enum("Mood", Str("calm"))
Grim == Enum("Mood", Str("grim"))
Login(token) == Object("Author", [name |-> Str("ann"), mood |-> Calm, access_token |-> Str(token)])
Inner(x) == Dict([inner |-> x])

\* a failed attempt reports the tokens it was billed, a successful one its price too
MCReports == [TaskCompleted |-> {"tokens", "usd"}, TaskAttemptFailed |-> {"tokens"}]

MCPayload ==
  [login |-> Login("a"),
   other |-> Login("b"),
   moods |-> List(<<Calm, Grim, Calm, Null>>),
   grims |-> List(<<Grim, Calm, Grim, Null>>),
   mood  |-> Calm,
   used  |-> Dict([input_tokens |-> Leaf("int", 1)]),
   flat  |-> Inner(Leaf("int", 1)),
   deep  |-> Inner(Inner(Inner(Leaf("int", 1)))),
   hid   |-> Inner(Inner(Inner(Dict([access_token |-> Str("a")])))),
   pair  |-> Tuple(<<Leaf("datetime", 1), Null>>),
   none  |-> Null]

MCReturns ==
  [login |-> Union(<<Class("Reviewer"), Class("Author"), NoneType>>),
   other |-> Union(<<Class("Reviewer"), Class("Author"), NoneType>>),
   moods |-> ListAnn(EnumOf("Mood")),
   grims |-> ListAnn(EnumOf("Mood")),
   mood  |-> Union(<<EnumOf("Mood"), Type("str")>>),
   used  |-> DictAnn(Type("int")),
   flat  |-> DictAnn(Untyped),
   deep  |-> Untyped,
   hid   |-> Untyped,
   pair  |-> TupleAnn(<<Type("datetime"), Union(<<Class("Author"), NoneType>>)>>),
   none  |-> Class("Author")]
=============================================================================
