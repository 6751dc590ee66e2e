------------------------------ MODULE Payloads ------------------------------
(***************************************************************************)
(* The payload classes of the namespaces: what their constructors accept,  *)
(* what to_dict() makes of an object and what from_dict() reads.           *)
(*                                                                         *)
(* A class is a function from its fields to their kinds.  A value is       *)
(* written as the Python literal it stands for: 'a' is any text, and the   *)
(* listed name where a field has a list of them, "intkeys" a dictionary    *)
(* with the keys 2 and 10, "strkeys" the one with "2" and "10", "obj" an   *)
(* object of another payload class and "{obj}" its dictionary.             *)
(***************************************************************************)
EXTENDS Integers, Sequences, FiniteSets

CONSTANT Numeral       \* the literals of 1, 2, 3, ... as far as they are needed

None == "None"
Raised == "raised"     \* in place of a value: the conversion raised

\* What RedactionPolicy leaves in place of a value, per sensitivity, and of an
\* item or a nested value.
Marker == [medium |-> "'#medium'", pii |-> "'#pii'"]
Markers == {"'#medium'", "'#pii'"}

Texts == {"''", "'a'", "'b'", "'1'", "'None'", "'?'"} \cup Markers
Flags == {"True", "False"}

Numerals == {Numeral[i] : i \in DOMAIN Numeral}
Wholes == {"-1", "0"} \cup Flags \cup Numerals
Finite == Wholes \cup {"0.5", "1.5"}
Numbers == Finite \cup {"nan", "inf"}

\* Twice the number, an integer.
Twice == [v \in Finite |->
  CASE v = "-1" -> -2 [] v \in {"0", "False"} -> 0 [] v = "0.5" -> 1 [] v = "True" -> 2
    [] v = "1.5" -> 3 [] OTHER -> 2 * (CHOOSE i \in DOMAIN Numeral : Numeral[i] = v)]

\* Every comparison with nan is false: "value < 0" does not refuse it.
Negative == {"-1"}
WithinOne == {v \in Finite : Twice[v] \in 0 .. 2}

Lists == {"[]", "['a']", "['b']", "['a','b']", "['#']", "characters", "[1]"}
TextLists == Lists \ {"[1]"}
Items == [l \in Lists |->
  CASE l = "[]" -> {} [] l = "['a']" -> {"'a'"} [] l = "['b']" -> {"'b'"}
    [] l = "['a','b']" -> {"'a'", "'b'"} [] l = "['#']" -> {"'#'"}
    [] l = "characters" -> {"'['"} [] l = "[1]" -> {"1"}]

Dicts == {"{}", "{'a':1}", "{'a':'a'}", "{'a':'#'}", "intkeys", "strkeys"}
Parts == {"obj", "obj#", "{obj}", "{obj#}"}
PartLists == {"[obj]", "[obj#]", "[{obj}]", "[{obj#}]"}
Plain == Texts \cup Numbers \cup Lists \cup Dicts \cup {None}
Values == Plain \cup Parts \cup PartLists

ASSUME NumeralAssumption ==
  /\ Numeral \in Seq(STRING) /\ Len(Numeral) >= 2
  /\ Numeral[1] = "1" /\ Numeral[2] = "2"
  /\ \A i, j \in DOMAIN Numeral : Numeral[i] = Numeral[j] => i = j
  /\ Numerals \cap ({"-1", "0", "0.5", "1.5", "nan", "inf", None, Raised} \cup Flags \cup Texts
                      \cup Lists \cup Dicts \cup Parts \cup PartLists) = {}

\* Python's ==
Same(v, w) == v = w \/ ({v, w} \subseteq Finite /\ Twice[v] = Twice[w])

----------------------------------------------------------------------------
\* How from_dict() reads a value.

Raw == [v \in Values |-> v]

StrOf == [v \in Values |->
  IF v \in Texts THEN v ELSE IF v = None THEN "'None'" ELSE IF v = "1" THEN "'1'" ELSE "'?'"]

Truncated == [v \in {"0.5", "1.5", "'1'"} \cup Flags |-> IF v \in {"0.5", "False"} THEN "0" ELSE "1"]

IntOf == [v \in Values |->
  IF v \in DOMAIN Truncated THEN Truncated[v] ELSE IF v \in Finite THEN v ELSE Raised]

FloatOf == [v \in Values |->
  IF v \in Flags \cup {"'1'"} THEN Truncated[v] ELSE IF v \in Numbers THEN v ELSE Raised]

BoolOf == [v \in Values |->
  IF v \in {"False", "0", "''", "[]", "{}", None} THEN "False" ELSE "True"]

\* list() of a text is the list of its characters: a list that was redacted as
\* a whole reads as one.
ListOf == [v \in Texts \cup Lists |->
  IF v \in Lists THEN v ELSE IF v = "''" THEN "[]" ELSE "characters"]

DictOf == [v \in Texts \cup Dicts |->
  IF v \in Dicts THEN v ELSE IF v = "''" THEN "{}" ELSE Raised]

\* from_dict() of the class of a nested object; "numbers" are the classes whose
\* first field is a number, which a marker is not.
PartOf == [v \in Values |->
  CASE v = "{obj}" -> "obj" [] v = "{obj#}" -> "obj#"
    [] v = "[{obj}]" -> "[obj]" [] v = "[{obj#}]" -> "[obj#]"
    [] v \in {"[]", None} -> v [] OTHER -> Raised]
NumbersOf == [PartOf EXCEPT !["{obj#}"] = Raised]

OrNone(reads) == [v \in DOMAIN reads \cup {None} |-> IF v = None THEN None ELSE reads[v]]

----------------------------------------------------------------------------
\* The kinds of fields: what the constructor takes, how from_dict() reads, the
\* constructor's default, and what from_dict() takes for a missing key.

Kind(takes, reads, default, absent) ==
  [takes |-> takes, reads |-> reads, default |-> default, absent |-> absent]
Required(takes, reads) == Kind(takes, reads, Raised, Raised)
Default(takes, reads, value) == Kind(takes, reads, value, value)
Optional(takes, reads) == Kind(takes \cup {None}, reads, None, None)

Name == Required(Texts \ {"''"}, StrOf)
Choice == Required({"'a'"}, StrOf)
Count == Required(Wholes \ Negative, IntOf)
Positive == Required(Wholes \ {"-1", "0", "False"}, IntOf)
Amount == Required(Numbers \ Negative, FloatOf)
Number == Required(Numbers, FloatOf)
NamedList == Required(TextLists \ {"[]"}, ListOf)
NameOr == Default(Texts \ {"''"}, StrOf, "'a'")
ChoiceOr == Default({"'a'"}, StrOf, "'a'")
FromOne == Default(Positive.takes, IntOf, "1")
\* Fields no constructor looks at take what JSON can hold.
Unchecked == Optional(Plain, Raw)
MaybeText == Optional(Texts, Raw)
MaybeRatio == Optional(WithinOne, Raw)
MaybeNumber == Optional(Numbers, Raw)
MaybeAmount == Optional(Numbers \ Negative, Raw)
MaybeCount == Optional(Count.takes, OrNone(IntOf))
Ratio == Required(WithinOne, FloatOf)
DictField == Required(Dicts, DictOf)
FlagOr(value) == Default(Flags, BoolOf, value)
MaybeList == Optional(TextLists, OrNone(ListOf))
MaybeDict == Optional(Dicts, OrNone(DictOf))
Metrics == Optional({"{}", "{'a':1}", "strkeys"}, OrNone(DictOf))

\* The action of the guard payloads is not checked, but read as a text.
Action == Default(Plain, StrOf, "'a'")

\* Objects in other objects, and lists of them.  model and token_usage are read
\* "if data.get(...)", tool_calls if not None.
Issues == Kind({"[]", "[obj]", "[obj#]"}, PartOf, Raised, "[]")
MaybeModel == Optional({"obj", "obj#"}, PartOf)
MaybeUsage == Optional({"obj"}, NumbersOf)
MaybeCalls == Optional({"[]", "[obj]", "[obj#]"}, PartOf)
=============================================================================
