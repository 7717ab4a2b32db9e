------------------------------ MODULE Payloads ------------------------------
(***************************************************************************)
(* What happens to a value between a task's return statement and whoever   *)
(* reads it back: the codec, the redactor and the structural diff.         *)
(*                                                                         *)
(* A value is a record whose k is its Python kind.  JSON knows null, bool, *)
(* int, str, list and dict; every other kind is recorded as a tagged dict  *)
(* and comes back as a datetime, as an enum's bare value, or as `tagged`,  *)
(* the TaggedDict that remembers the class it was recorded from.  A kind   *)
(* `fail` stands for the EncodeError, DecodeError or constructor error     *)
(* raised instead of a value.  A Pydantic model is handled as a dataclass. *)
(***************************************************************************)
EXTENDS Naturals, Sequences, FiniteSets, TLC, SequencesExt

CONSTANTS
  Fields,      \* the annotation of each field of each dataclass
  Members,     \* the values of each enum
  StrEnums,    \* the enums whose members are themselves strings
  Words,       \* the words each field name is made of
  MaxDepth,    \* MAX_DEPTH of the diff
  MaxPaths     \* MAX_PATHS of the diff

ASSUME CapsArePositive == MaxDepth \in Nat \ {0} /\ MaxPaths \in Nat \ {0}

Null == [k |-> "null"]
Fail == [k |-> "fail"]
Leaf(kind, v) == [k |-> kind, v |-> v]
Str(v) == Leaf("str", v)
List(s) == [k |-> "list", items |-> s]
Tuple(s) == [k |-> "tuple", items |-> s]
Dict(f) == [k |-> "dict", map |-> f]
Enum(t, v) == [k |-> "enum", t |-> t, v |-> v]
Object(t, f) == [k |-> "dataclass", t |-> t, map |-> f]
TaggedDict(t, f) == [k |-> "tagged", t |-> t, map |-> f]

\* a container of results: an error in one of them is the error of the whole
ListOf(s) == IF Fail \in Range(s) THEN Fail ELSE List(s)
TupleOfAll(s) == IF Fail \in Range(s) THEN Fail ELSE Tuple(s)
DictOf(f) == IF Fail \in Range(f) THEN Fail ELSE Dict(f)

-----------------------------------------------------------------------------
(* journal/codec.py: encode and decode                                      *)

Tag(kind, body) == Dict(("$satay" :> Str(kind)) @@ body)

\* a decoded object written back keeps its tag (a fork copies payloads this way)
EncodeTagged(t, fields) == Tag("dataclass", "type" :> t @@ "fields" :> Dict(fields))

RECURSIVE Encode(_)
Encode(x) ==
  LET fields == [n \in DOMAIN x.map |-> Encode(x.map[n])] IN
  CASE x.k = "datetime" -> Tag("datetime", "v" :> Str(x.v))
    [] x.k = "enum" ->
         IF x.t \in StrEnums THEN x.v ELSE Tag("enum", "type" :> Str(x.t) @@ "v" :> x.v)
    [] x.k \in {"list", "tuple"} -> ListOf([i \in DOMAIN x.items |-> Encode(x.items[i])])
    [] x.k = "tagged" -> EncodeTagged(x.t, fields)
    [] x.k = "dataclass" -> EncodeTagged(Str(x.t), fields)
    [] x.k = "dict" -> DictOf(fields)
    [] OTHER -> x

RECURSIVE Decode(_)
Decode(j) ==
  CASE j.k = "list" -> ListOf([i \in DOMAIN j.items |-> Decode(j.items[i])])
    [] j.k \in {"dict", "tagged"} ->
         IF "$satay" \notin DOMAIN j.map THEN DictOf([n \in DOMAIN j.map |-> Decode(j.map[n])])
         ELSE CASE j.map["$satay"] = Str("datetime") -> Leaf("datetime", j.map["v"].v)
                [] j.map["$satay"] = Str("enum") -> Decode(j.map["v"])
                [] j.map["$satay"] = Str("dataclass") /\ j.map["fields"].k = "dict" ->
                     LET f == j.map["fields"].map
                     IN  TaggedDict(j.map["type"], [n \in DOMAIN f |-> Decode(f[n])])
                [] OTHER -> Fail
    [] OTHER -> j

-----------------------------------------------------------------------------
(* journal/codec.py: rehydrate, driven by the task's return annotation      *)

Untyped == [a |-> "any"]
Type(t) == [a |-> "type", t |-> t]        \* int, str, bool, datetime
EnumOf(t) == [a |-> "enum", t |-> t]
Class(t) == [a |-> "class", t |-> t]
ListAnn(arg) == [a |-> "list", arg |-> arg]
TupleAnn(args) == [a |-> "tuple", args |-> args]
DictAnn(arg) == [a |-> "dict", arg |-> arg]
Union(arms) == [a |-> "union", arms |-> arms]
NoneType == [a |-> "none"]

RECURSIVE NeedsRehydration(_)
NeedsRehydration(ann) ==
  CASE ann.a \in {"enum", "class"} -> TRUE
    [] ann.a \in {"list", "dict"} -> NeedsRehydration(ann.arg)
    [] ann.a = "tuple" -> \E i \in DOMAIN ann.args : NeedsRehydration(ann.args[i])
    [] ann.a = "union" -> \E i \in DOMAIN ann.arms : NeedsRehydration(ann.arms[i])
    [] OTHER -> FALSE

\* could this arm be the type of the decoded value, by its shape?
ArmAccepts(d, arm) ==
  CASE d.k = "tagged" -> arm.a = "class"
    [] arm.a = "enum" -> d \in Members[arm.t]
    [] d.k = "list" -> arm.a \in {"list", "tuple"}
    [] d.k = "dict" -> arm.a \in {"dict", "class"}
    [] OTHER -> arm = Type(d.k)

\* MUTANT of SelectArm: an ambiguous value takes the first arm that accepts it
SelectFirstArm(d, arms) ==
  LET accepting == SelectSeq(arms, LAMBDA arm : ArmAccepts(d, arm))
  IN  IF accepting = <<>> THEN Fail ELSE accepting[1]

\* the recorded class decides; without it the shape must leave exactly one arm
SelectArm(d, arms) ==
  LET named == SelectSeq(arms, LAMBDA arm : /\ d.k = "tagged" /\ arm.a = "class"
                                            /\ d.t = Str(arm.t))
      accepting == SelectSeq(arms, LAMBDA arm : ArmAccepts(d, arm))
  IN  IF named # <<>> THEN named[1]
      ELSE IF Len(accepting) = 1 THEN accepting[1] ELSE Fail

\* the data does not have the shape of the annotation
Mismatch(d, ann) == IF NeedsRehydration(ann) THEN Fail ELSE Decode(d)

RECURSIVE Rehydrate(_, _)
Rehydrate(d, ann) ==
  LET mapped == d.k \in {"dict", "tagged"}
      arms == SelectSeq(ann.arms, LAMBDA arm : arm # NoneType)
      arm == SelectArm(d, arms)
      known == DOMAIN Fields[ann.t]
  IN
  CASE d = Null -> Null
    [] d # Null /\ ann.a \in {"any", "type", "none"} -> Decode(d)
    [] d # Null /\ ann.a = "enum" ->
         IF Decode(d) \in Members[ann.t] THEN Enum(ann.t, Decode(d)) ELSE Fail
    [] d # Null /\ ann.a = "class" ->
         IF ~mapped \/ ~(known \subseteq DOMAIN d.map) THEN Fail
         ELSE LET f == [n \in known |-> Rehydrate(d.map[n], Fields[ann.t][n])]
              IN  IF Fail \in Range(f) THEN Fail ELSE Object(ann.t, f)
    [] d # Null /\ ann.a = "list" ->
         IF d.k = "list" THEN ListOf([i \in DOMAIN d.items |-> Rehydrate(d.items[i], ann.arg)])
         ELSE Mismatch(d, ann)
    [] d # Null /\ ann.a = "tuple" ->
         IF d.k # "list" THEN Mismatch(d, ann)
         ELSE IF Len(d.items) = Len(ann.args)
           THEN TupleOfAll([i \in DOMAIN d.items |-> Rehydrate(d.items[i], ann.args[i])])
           ELSE IF NeedsRehydration(ann) THEN Fail ELSE Tuple(Decode(d).items)
    [] d # Null /\ ann.a = "dict" ->
         IF mapped THEN DictOf([n \in DOMAIN d.map |-> Rehydrate(d.map[n], ann.arg)])
         ELSE Mismatch(d, ann)
    [] d # Null /\ ann.a = "union" ->
         IF \A i \in DOMAIN arms : ~NeedsRehydration(arms[i]) THEN Decode(d)
         ELSE IF Len(arms) = 1 THEN Rehydrate(d, arms[1])
         ELSE IF arm = Fail THEN Fail ELSE Rehydrate(d, arm)

-----------------------------------------------------------------------------
(* redaction.py, with a set of patterns, each a sequence of words           *)

Masked == Str("***REDACTED***")

\* a pattern matches a contiguous run of whole words of the name
Matches(patterns, name) ==
  \E p \in patterns : \E i \in 1..(Len(Words[name]) + 1 - Len(p)) :
    p # <<>> /\ SubSeq(Words[name], i, i + Len(p) - 1) = p

\* Redactor.redact: a matching key masks the whole value under it
RECURSIVE Redact(_, _)
Redact(patterns, x) ==
  CASE x.k \in {"dict", "tagged"} ->
         Dict([n \in DOMAIN x.map |->
                 IF Matches(patterns, n) THEN Masked ELSE Redact(patterns, x.map[n])])
    [] x.k \in {"list", "tuple"} ->
         List([i \in DOMAIN x.items |-> Redact(patterns, x.items[i])])
    [] OTHER -> x

-----------------------------------------------------------------------------
(* valuediff.py: where two decoded values differ                            *)

\* Python's ==, to which a TaggedDict is the dict of its fields
RECURSIVE Plain(_)
Plain(x) ==
  CASE x.k \in {"dict", "tagged"} -> Dict([n \in DOMAIN x.map |-> Plain(x.map[n])])
    [] x.k = "list" -> List([i \in DOMAIN x.items |-> Plain(x.items[i])])
    [] OTHER -> x

Equal(a, b) == Plain(a) = Plain(b)

NoDiff == [paths |-> <<>>, redacted |-> FALSE, truncated |-> FALSE]

AddPath(path, out) ==
  IF Len(out.paths) >= MaxPaths THEN [out EXCEPT !.truncated = TRUE]
  ELSE [out EXCEPT !.paths = Append(@, path)]

\* MUTANT of WalkMasked: two masked values are taken for equal
WalkMaskedSame(a, b, path, out) == IF a # b THEN AddPath(path, out) ELSE out

\* MUTANT of WalkMasked: two masked values are reported as different
WalkMaskedChanged(a, b, path, out) == AddPath(path, out)

\* two masks say nothing about what they hide
WalkMasked(a, b, path, out) ==
  IF a # b THEN AddPath(path, out) ELSE [out EXCEPT !.redacted = TRUE]

RECURSIVE Walk(_, _, _, _, _)
Walk(a, b, path, depth, out) ==
  LET mappings == a.k \in {"dict", "tagged"} /\ b.k \in {"dict", "tagged"}
      Key(o, n) == IF n \in DOMAIN a.map \cap DOMAIN b.map
                   THEN Walk(a.map[n], b.map[n], Append(path, n), depth + 1, o)
                   ELSE AddPath(Append(path, n), o)
      Item(o, i) == Walk(a.items[i], b.items[i], Append(path, ToString(i)), depth + 1, o)
      Leaves == IF Equal(a, b) THEN out ELSE AddPath(path, out)
  IN
  IF out.truncated /\ Len(out.paths) >= MaxPaths THEN out
  ELSE IF Masked \in {a, b} THEN WalkMasked(a, b, path, out)
  ELSE IF depth >= MaxDepth
    THEN IF Equal(a, b) THEN out ELSE AddPath(path, [out EXCEPT !.truncated = TRUE])
  ELSE IF mappings
    THEN FoldLeft(Key, FoldLeft(Key, out, SetToSeq(DOMAIN a.map)),
                  SetToSeq(DOMAIN b.map \ DOMAIN a.map))
  ELSE IF a.k = "list" /\ b.k = "list" /\ Len(a.items) = Len(b.items)
    THEN FoldLeft(Item, out, [i \in DOMAIN a.items |-> i])
  ELSE Leaves

DiffValues(a, b) ==
  LET out == Walk(a, b, <<>>, 0, NoDiff)
  IN  [changed |-> out.paths # <<>>, redacted |-> out.redacted,
       truncated |-> out.truncated, paths |-> out.paths]
=============================================================================
