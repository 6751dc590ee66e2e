----------------------------- MODULE EventProofs -----------------------------
(* Proofs about one event: the id the generator gives it, for every set of   *)
(* threads, every width of the random part and every behaviour of the clock; *)
(* and its life from the payload object to its readers, for every set of     *)
(* objects that applications build and every bound on max_retries.           *)
EXTENDS Lifecycle, ULIDGenerator, TLAPS

\* The pair a call commits is greater than the one committed last.
LEMMA CommitGrows ==
  ASSUME TypeOK, NEW t \in Thread,
         \/ NewMillisecond(t) \/ SameMillisecond(t)
         \/ ClockBehind(t) \/ SpinEnds(t)
  PROVE  \E ms \in Nat, rand \in Rand :
           /\ Commit(t, ms, rand)
           /\ Less(<<last_ms, last_rand>>, <<ms, rand>>)
<1> USE DEF TypeOK, Less
<1>1. CASE NewMillisecond(t)
  BY <1>1 DEF NewMillisecond
<1>2. CASE SameMillisecond(t)
  <2>1. last_rand + 1 \in Rand
    BY <1>2, GeneratorAssumption DEF SameMillisecond, Rand
  <2> QED BY <1>2, <2>1, GeneratorAssumption DEF SameMillisecond, Rand
<1>3. CASE ClockBehind(t)
  <2>1. last_rand + 1 \in Rand
    BY <1>3, GeneratorAssumption DEF ClockBehind, Rand
  <2> QED BY <1>3, <2>1, GeneratorAssumption DEF ClockBehind, Rand
<1>4. CASE SpinEnds(t)
  BY <1>4 DEF SpinEnds
<1> QED BY <1>1, <1>2, <1>3, <1>4

Commits(t) == \/ NewMillisecond(t) \/ SameMillisecond(t)
              \/ ClockBehind(t) \/ SpinEnds(t)

\* The type invariant of the generator holds in every reachable state.
THEOREM TypeCorrect == Spec => []TypeOK
<1>1. Init => TypeOK
  BY GeneratorAssumption DEF Init, TypeOK, Places, Pair, Rand
<1>2. TypeOK /\ [Next]_vars => TypeOK'
  <2> SUFFICES ASSUME TypeOK, [Next]_vars PROVE TypeOK'
    OBVIOUS
  <2> USE DEF TypeOK, Places
  <2>1. CASE Tick
    BY <2>1 DEF Tick, state
  <2>2. CASE SetBack
    BY <2>2 DEF SetBack, state
  <2>3. ASSUME NEW t \in Thread, Call(t) PROVE TypeOK'
    BY <2>3 DEF Call, Goto, env, state
  <2>4. ASSUME NEW t \in Thread, Acquire(t) PROVE TypeOK'
    BY <2>4 DEF Acquire, Goto, env, state
  <2>5. ASSUME NEW t \in Thread, Commits(t) PROVE TypeOK'
    <3>1. PICK ms \in Nat, rand \in Rand : Commit(t, ms, rand)
      BY <2>5, CommitGrows DEF Commits
    <3>2. <<ms, rand>> \in Pair
      BY <3>1 DEF Pair, Rand
    <3> QED BY <3>1, <3>2 DEF Commit, Goto, env
  <2>6. ASSUME NEW t \in Thread, Overflow(t) PROVE TypeOK'
    BY <2>6 DEF Overflow, Goto, env, state
  <2>7. ASSUME NEW t \in Thread, ClockBehindRaises(t) PROVE TypeOK'
    BY <2>7 DEF ClockBehindRaises, Goto, env, state
  <2>8. ASSUME NEW t \in Thread, Encode(t) PROVE TypeOK'
    BY <2>8 DEF Encode, Goto, env, state
  <2>9. ASSUME NEW t \in Thread, EncodeRaises(t) PROVE TypeOK'
    BY <2>9 DEF EncodeRaises, Goto, env, state
  <2>10. CASE UNCHANGED vars
    BY <2>10 DEF vars
  <2> QED BY <2>1, <2>2, <2>3, <2>4, <2>5, <2>6, <2>7, <2>8, <2>9, <2>10
          DEF Next, Run, Commits
<1> QED BY <1>1, <1>2, PTL DEF Spec

-----------------------------------------------------------------------------
(***************************************************************************)
(* The inductive invariant: the pair committed last is an upper bound of   *)
(* every id handed out and every pair about to be encoded.  A new pair     *)
(* exceeds the bound, so it differs from all of them and is greater than   *)
(* every id that had been returned when the call began.                    *)
(***************************************************************************)
AtMost(a, b) == a = b \/ Less(a, b)

Last == <<last_ms, last_rand>>

Bounded ==
  /\ \A id \in returned : AtMost(id, Last)
  /\ \A t \in Thread : pc[t] = "encode" => AtMost(pair[t], Last)

Remembered == \A t \in Thread : before[t] \subseteq returned

Inv == TypeOK /\ Bounded /\ Remembered /\ IdsUnique /\ RealTimeOrder

LEMMA LessTransitive ==
  ASSUME NEW a \in Pair, NEW b \in Pair, NEW c \in Pair, AtMost(a, b), Less(b, c)
  PROVE  Less(a, c) /\ a # c
BY DEF Pair, AtMost, Less

\* A thread commits a pair: the step that the whole invariant turns on.
LEMMA CommitStep ==
  ASSUME Inv, TypeOK', NEW t \in Thread, Commits(t)
  PROVE  Inv'
<1>1. PICK ms \in Nat, rand \in Rand :
        Commit(t, ms, rand) /\ Less(Last, <<ms, rand>>)
  BY CommitGrows DEF Inv, Commits, Last
<1> DEFINE new == <<ms, rand>>
<1>2. /\ TypeOK /\ Last \in Pair /\ new \in Pair /\ Less(Last, new)
      /\ Last' = new /\ returned' = returned /\ before' = before
      /\ pc' = [pc EXCEPT ![t] = "encode"]
      /\ pair' = [pair EXCEPT ![t] = new]
  BY <1>1 DEF Inv, TypeOK, Commit, Goto, Last, Pair, Rand
<1> HIDE DEF new
<1>3. /\ pc'[t] = "encode" /\ pair'[t] = new
      /\ \A u \in Thread : u # t => pc'[u] = pc[u] /\ pair'[u] = pair[u]
  BY <1>2 DEF TypeOK
<1>4. \A id \in returned : Less(id, new) /\ id # new
  BY <1>2, LessTransitive DEF Inv, Bounded, TypeOK
<1>5. \A u \in Thread : u # t /\ pc[u] = "encode" =>
        Less(pair[u], new) /\ pair[u] # new
  BY <1>2, LessTransitive DEF Inv, Bounded, TypeOK
<1>6. Bounded'
  BY <1>2, <1>3, <1>4, <1>5 DEF Bounded, AtMost
<1>7. Remembered'
  BY <1>2 DEF Inv, Remembered
<1>8. IdsUnique'
  BY <1>2, <1>3, <1>4, <1>5 DEF Inv, IdsUnique
<1>9. RealTimeOrder'
  BY <1>2, <1>3, <1>4 DEF Inv, RealTimeOrder, Remembered
<1> QED BY <1>6, <1>7, <1>8, <1>9 DEF Inv

\* The inductive invariant holds.
LEMMA Invariance == Spec => []Inv
<1>1. Init => Inv
  <2> SUFFICES ASSUME Init PROVE Inv
    OBVIOUS
  <2>1. TypeOK
    BY GeneratorAssumption DEF Init, TypeOK, Places, Pair, Rand
  <2> QED BY <2>1 DEF Init, Inv, Bounded, Remembered, IdsUnique, RealTimeOrder
<1>2. Inv /\ TypeOK' /\ [Next]_vars => Inv'
  <2> SUFFICES ASSUME Inv, TypeOK', [Next]_vars PROVE Inv'
    OBVIOUS
  <2> USE DEF Inv, Bounded, Remembered, IdsUnique, RealTimeOrder, Last, TypeOK
  <2>1. CASE Tick \/ SetBack
    BY <2>1 DEF Tick, SetBack, state
  <2>2. ASSUME NEW t \in Thread, Call(t) PROVE Inv'
    BY <2>2 DEF Call, Goto, env, state
  <2>3. ASSUME NEW t \in Thread, Acquire(t) PROVE Inv'
    BY <2>3 DEF Acquire, Goto, env, state
  <2>4. ASSUME NEW t \in Thread, Commits(t) PROVE Inv'
    BY <2>4, CommitStep
  <2>5. ASSUME NEW t \in Thread, Overflow(t) PROVE Inv'
    BY <2>5 DEF Overflow, Goto, env, state
  <2>6. ASSUME NEW t \in Thread, ClockBehindRaises(t) PROVE Inv'
    BY <2>6 DEF ClockBehindRaises, Goto, env, state
  <2>7. ASSUME NEW t \in Thread, Encode(t) PROVE Inv'
    BY <2>7 DEF Encode, Goto, env, state
  <2>8. ASSUME NEW t \in Thread, EncodeRaises(t) PROVE Inv'
    BY <2>8 DEF EncodeRaises, Goto, env, state
  <2>9. CASE UNCHANGED vars
    BY <2>9 DEF vars
  <2> QED BY <2>1, <2>2, <2>3, <2>4, <2>5, <2>6, <2>7, <2>8, <2>9
          DEF Next, Run, Commits
<1> QED BY <1>1, <1>2, TypeCorrect, PTL DEF Spec

\* No two calls get the same id.
THEOREM UniqueIds == Spec => []IdsUnique
<1>1. Inv => IdsUnique
  BY DEF Inv
<1> QED BY <1>1, Invariance, PTL

\* An id is greater than every id returned before its call began.
THEOREM OrderedIds == Spec => []RealTimeOrder
<1>1. Inv => RealTimeOrder
  BY DEF Inv
<1> QED BY <1>1, Invariance, PTL

-----------------------------------------------------------------------------
(***************************************************************************)
(* Refinement of MonotonicIds.  `pair` must be Nil exactly while a thread  *)
(* holds no pair, which is the invariant of the step.                      *)
(***************************************************************************)
CallMap == [t \in Thread |->
              CASE pc[t] = "idle"   -> "idle"
                [] pc[t] = "encode" -> "taken"
                [] OTHER            -> "pending"]

HeldInv == \A t \in Thread : pc[t] # "encode" => pair[t] = Nil

\* A thread that encodes nothing holds no pair.
LEMMA HeldInvariant == Spec => []HeldInv
<1>1. Init => HeldInv
  BY DEF Init, HeldInv
<1>2. TypeOK /\ HeldInv /\ [Next]_vars => HeldInv'
  <2> SUFFICES ASSUME TypeOK, HeldInv, [Next]_vars PROVE HeldInv'
    OBVIOUS
  <2> USE DEF HeldInv, TypeOK
  <2>1. CASE Tick \/ SetBack \/ UNCHANGED vars
    BY <2>1 DEF Tick, SetBack, vars
  <2>2. ASSUME NEW t \in Thread,
               Call(t) \/ Acquire(t) \/ Overflow(t) \/ ClockBehindRaises(t)
        PROVE  HeldInv'
    BY <2>2 DEF Call, Acquire, Overflow, ClockBehindRaises, Goto
  <2>3. ASSUME NEW t \in Thread, Commits(t) PROVE HeldInv'
    <3>1. PICK ms \in Nat, rand \in Rand : Commit(t, ms, rand)
      BY <2>3, CommitGrows DEF Commits
    <3> QED BY <3>1 DEF Commit, Goto
  <2>4. ASSUME NEW t \in Thread, Encode(t) \/ EncodeRaises(t) PROVE HeldInv'
    BY <2>4 DEF Encode, EncodeRaises, Goto
  <2> QED BY <2>1, <2>2, <2>3, <2>4 DEF Next, Run, Commits
<1> QED BY <1>1, <1>2, TypeCorrect, PTL DEF Spec

\* Every step of the generator is one of MonotonicIds, or none.
LEMMA StepRefines ==
  ASSUME TypeOK, TypeOK', HeldInv, [Next]_vars
  PROVE  [Ids!Next]_(Ids!vars)
<1> DEFINE cm == CallMap
<1>1. /\ Ids!vars = <<Last, CallMap, pair>>
      /\ Ids!vars' = <<Last', CallMap', pair'>>
  BY DEF Ids!vars, Last, CallMap
<1>2. /\ Last \in Ids!Pair /\ Last' \in Ids!Pair
      /\ \A a, b : Ids!Less(a, b) <=> Less(a, b)
  BY DEF Last, Ids!Pair, TypeOK, Rand, Ids!Less, Less
<1>3. CASE Tick \/ SetBack \/ UNCHANGED vars
  <2>1. pc' = pc /\ pair' = pair /\ last_ms' = last_ms /\ last_rand' = last_rand
    BY <1>3 DEF Tick, SetBack, vars, state
  <2> QED BY <1>1, <2>1 DEF Last, CallMap
<1>4. ASSUME NEW t \in Thread, Call(t) PROVE Ids!Next
  <2>1. pc[t] = "idle" /\ pc' = [pc EXCEPT ![t] = "wait"] /\ pair' = pair
        /\ last_ms' = last_ms /\ last_rand' = last_rand
    BY <1>4 DEF Call, Goto, state
  <2>2. CallMap[t] = "idle" /\ CallMap' = [CallMap EXCEPT ![t] = "pending"]
    BY <2>1 DEF CallMap, TypeOK, Places
  <2>3. Ids!Invoke(t)
    BY <2>1, <2>2 DEF Ids!Invoke, CallMap
  <2> QED BY <2>3 DEF Ids!Next
<1>5. ASSUME NEW t \in Thread, Acquire(t) \/ Overflow(t)
      PROVE  UNCHANGED Ids!vars
  <2>1. /\ pc[t] \in {"wait", "locked"}
        /\ \E q \in {"locked", "spin"} : pc' = [pc EXCEPT ![t] = q]
        /\ pair' = pair /\ last_ms' = last_ms /\ last_rand' = last_rand
    BY <1>5 DEF Acquire, Overflow, Goto, state
  <2>2. CallMap' = CallMap
    BY <2>1 DEF CallMap, TypeOK, Places
  <2> QED BY <1>1, <2>1, <2>2 DEF Last
<1>6. ASSUME NEW t \in Thread, Commits(t) PROVE Ids!Next
  <2>1. PICK ms \in Nat, rand \in Rand :
          Commit(t, ms, rand) /\ Less(Last, <<ms, rand>>)
    BY <1>6, CommitGrows DEF Commits, Last
  <2>2. pc[t] \in {"locked", "spin"}
    BY <1>6 DEF Commits, NewMillisecond, SameMillisecond, ClockBehind, SpinEnds
  <2>3. /\ Last' = <<ms, rand>> /\ pair' = [pair EXCEPT ![t] = Last']
        /\ pc' = [pc EXCEPT ![t] = "encode"]
    BY <2>1 DEF Commit, Goto, Last
  <2>4. CallMap[t] = "pending" /\ CallMap' = [CallMap EXCEPT ![t] = "taken"]
    BY <2>2, <2>3 DEF CallMap, TypeOK, Places
  <2>5. Ids!Take(t)
    BY <1>2, <2>1, <2>3, <2>4 DEF Ids!Take, CallMap, Last
  <2> QED BY <2>5 DEF Ids!Next
<1>7. ASSUME NEW t \in Thread,
             ClockBehindRaises(t) \/ Encode(t) \/ EncodeRaises(t)
      PROVE  Ids!Next
  <2>1. /\ pc[t] \in {"locked", "encode"} /\ pc' = [pc EXCEPT ![t] = "idle"]
        /\ last_ms' = last_ms /\ last_rand' = last_rand
    BY <1>7 DEF ClockBehindRaises, Encode, EncodeRaises, Goto, state
  <2>2. CallMap[t] # "idle" /\ CallMap' = [CallMap EXCEPT ![t] = "idle"]
    BY <2>1 DEF CallMap, TypeOK, Places
  <2>3. pair' = [pair EXCEPT ![t] = Nil]
    BY <1>7 DEF ClockBehindRaises, Encode, EncodeRaises, HeldInv, TypeOK
  <2>4. Ids!End(t)
    BY <2>1, <2>2, <2>3 DEF Ids!End, CallMap
  <2> QED BY <2>4 DEF Ids!Next
<1> QED BY <1>3, <1>4, <1>5, <1>6, <1>7 DEF Next, Run, Commits

\* The generator implements the monotonic generator of MonotonicIds.
THEOREM Refinement == Spec => ImplementsMonotonicIds
<1>1. Init => Ids!Init
  BY DEF Init, Ids!Init
<1>2. TypeOK /\ TypeOK' /\ HeldInv /\ [Next]_vars => [Ids!Next]_(Ids!vars)
  BY StepRefines
<1> QED BY <1>1, <1>2, TypeCorrect, HeldInvariant, PTL
        DEF Spec, ImplementsMonotonicIds, Ids!Spec
-----------------------------------------------------------------------------
(***************************************************************************)
(* What one field does: a value that a constructor accepts, made a         *)
(* dictionary's, perhaps reread from JSON, and read by from_dict().        *)
(***************************************************************************)
\* The kinds of fields, but for the action of the guard payloads.
Kinds == {Name, Choice, Count, Positive, Amount, Number, NamedList, NameOr, ChoiceOr, FromOne,
          Unchecked, MaybeText, MaybeRatio, MaybeNumber, MaybeAmount, MaybeCount, Ratio, DictField,
          FlagOr("True"), FlagOr("False"), MaybeList, MaybeDict, Metrics, Issues, MaybeModel,
          MaybeUsage, MaybeCalls}

\* What redaction may leave of a value.
Marks(v) ==
  Markers \cup (IF v \in Lists \ {"[]"} THEN {"['#']"} ELSE {})
    \cup (IF v \in {"{'a':1}", "{'a':'a'}"} THEN {"{'a':'#'}"} ELSE {})
    \cup (IF v = "{obj}" THEN {"{obj#}"} ELSE {})
    \cup (IF v = "[{obj}]" THEN {"[{obj#}]"} ELSE {})

\* A value that was accepted is accepted again when it comes back, and is the
\* same; and what comes back of a redacted one is veiled or refused.
Returns(k, v) ==
  \A w \in {Dictionary(v), Reread(Dictionary(v))} :
    k.reads[w] \in k.takes /\ (Same(k.reads[w], v) \/ v = "intkeys")

Hides(k, v) ==
  \A m \in Marks(Dictionary(v)) : k.reads[m] \in Veiled("") \/ k.reads[m] \notin k.takes

Fair(k) ==
  /\ k.takes \subseteq Values
  /\ k.default = None => None \in k.takes /\ k.absent = None
  /\ \A v \in k.takes : (k.default = None /\ v = None) \/ (Returns(k, v) /\ Hides(k, v))

\* A literal of a number is none of the other values.
LEMMA Apart ==
  Numerals \cap ({"-1", "0", "0.5", "1.5", "nan", "inf", None, Raised} \cup Flags \cup Texts
                      \cup Lists \cup Dicts \cup Parts \cup PartLists) = {}
BY NumeralAssumption

\* What redaction may leave of any value.
LEMMA MarksFacts ==
  ASSUME NEW v PROVE Marks(v) \subseteq Markers \cup {"['#']", "{'a':'#'}", "{obj#}", "[{obj#}]"}
BY DEF Marks

\* A value that is no list, no dictionary and no object goes as it is.
LEMMA SimpleFacts ==
  ASSUME NEW v, v \in Texts \cup Numbers \cup {None}
  PROVE  Dictionary(v) = v /\ Reread(Dictionary(v)) = v /\ Marks(Dictionary(v)) = Markers
<1>1. v \notin Lists \cup Dicts \cup Parts \cup PartLists
  <2>1. CASE v \in Numerals
    BY <2>1, Apart
  <2>2. CASE v \notin Numerals
    BY <2>2 DEF Texts, Markers, Numbers, Finite, Wholes, Flags, None, Lists, Dicts, Parts, PartLists
  <2> QED BY <2>1, <2>2
<1>2. Dictionary(v) = v /\ Reread(v) = v
  BY <1>1 DEF Dictionary, Reread, Parts, PartLists, Dicts
<1>3. Marks(v) = Markers
  BY <1>1 DEF Marks, Lists, Dicts, Parts, PartLists
<1> QED BY <1>2, <1>3

\* str() of a text is the text.
LEMMA StrBack ==
  /\ \A v \in Texts : StrOf[v] = v
  /\ \A v \in Values : StrOf[v] \in Texts
BY DEF StrOf, Values, Plain, Texts, None

\* The numbers behind the literals.
LEMMA TwiceFacts ==
  /\ \A i \in DOMAIN Numeral : Numeral[i] \in Finite /\ Twice[Numeral[i]] = 2 * i
  /\ \A v \in Finite : Twice[v] \in Int
  /\ Twice["-1"] = -2 /\ Twice["0"] = 0 /\ Twice["False"] = 0 /\ Twice["0.5"] = 1
  /\ Twice["1"] = 2 /\ Twice["True"] = 2 /\ Twice["1.5"] = 3
<1> DEFINE Odd == {"-1", "0", "False", "0.5", "True", "1.5"}
<1>1. ASSUME NEW i \in DOMAIN Numeral
      PROVE  Numeral[i] \in Finite /\ Twice[Numeral[i]] = 2 * i /\ i \in Nat
  <2>1. Numeral[i] \in Numerals /\ Numeral[i] \in Finite
    BY DEF Numerals, Finite, Wholes
  <2>2. Numeral[i] \notin Odd
    BY <2>1, Apart DEF Flags
  <2>3. Twice[Numeral[i]] = 2 * (CHOOSE j \in DOMAIN Numeral : Numeral[j] = Numeral[i])
    BY <2>1, <2>2 DEF Twice
  <2>4. (CHOOSE j \in DOMAIN Numeral : Numeral[j] = Numeral[i]) = i
    BY NumeralAssumption
  <2>5. i \in Nat
    BY NumeralAssumption
  <2> QED BY <2>1, <2>3, <2>4, <2>5
<1>2. /\ Twice["-1"] = -2 /\ Twice["0"] = 0 /\ Twice["False"] = 0 /\ Twice["0.5"] = 1
      /\ Twice["True"] = 2 /\ Twice["1.5"] = 3
  BY DEF Twice, Finite, Wholes, Flags
<1>3. 1 \in DOMAIN Numeral /\ Numeral[1] = "1"
  BY NumeralAssumption
<1>4. Twice["1"] = 2
  BY <1>1, <1>3
<1>5. \A v \in Finite : v \in Odd \/ \E i \in DOMAIN Numeral : v = Numeral[i]
  BY DEF Finite, Wholes, Flags, Numerals
<1>6. \A v \in Finite : Twice[v] \in Int
  <2> TAKE v \in Finite
  <2>1. CASE v \in Odd
    BY <2>1, <1>2
  <2>2. CASE \E i \in DOMAIN Numeral : v = Numeral[i]
    BY <2>2, <1>1
  <2> QED BY <1>5, <2>1, <2>2
<1> QED BY <1>1, <1>2, <1>4, <1>6

\* int() of a whole number is the same number; a marker is none.
LEMMA IntBack ==
  /\ \A v \in Wholes : \/ IntOf[v] = v
                       \/ v = "True" /\ IntOf[v] = "1"
                       \/ v = "False" /\ IntOf[v] = "0"
  /\ \A v \in Wholes : IntOf[v] \in Wholes /\ Same(IntOf[v], v)
  /\ \A m \in Markers : IntOf[m] = Raised
<1>1. \A v \in Wholes : v \in Values /\ v \in Finite
  BY DEF Values, Plain, Numbers, Finite
<1>2. \A v \in Wholes : v \in DOMAIN Truncated => v \in Flags
  <2> TAKE v \in Wholes
  <2>1. CASE v \in Numerals
    BY <2>1, Apart DEF Truncated, Texts
  <2>2. CASE v \notin Numerals
    BY <2>2 DEF Wholes, Truncated
  <2> QED BY <2>1, <2>2
<1>3. Truncated["True"] = "1" /\ Truncated["False"] = "0" /\ Flags \subseteq DOMAIN Truncated
  BY DEF Truncated, Flags
<1>4. \A v \in Wholes : IF v \in Flags THEN IntOf[v] = Truncated[v] ELSE IntOf[v] = v
  BY <1>1, <1>2, <1>3 DEF IntOf
<1>5. \A v \in Wholes : \/ IntOf[v] = v
                        \/ v = "True" /\ IntOf[v] = "1"
                        \/ v = "False" /\ IntOf[v] = "0"
  BY <1>3, <1>4 DEF Flags
<1>6. "1" \in Numerals /\ {"0", "1", "True", "False"} \subseteq Wholes
  <2>1. 1 \in DOMAIN Numeral /\ Numeral[1] = "1"
    BY NumeralAssumption
  <2> QED BY <2>1 DEF Numerals, Wholes, Flags
<1>7. \A v \in Wholes : IntOf[v] \in Wholes /\ Same(IntOf[v], v)
  BY <1>1, <1>5, <1>6, TwiceFacts DEF Same
<1>8. \A m \in Markers : m \in Values /\ m \notin DOMAIN Truncated /\ m \notin Finite
  BY Apart DEF Markers, Values, Plain, Texts, Truncated, Flags, Finite, Wholes
<1>9. \A m \in Markers : IntOf[m] = Raised
  BY <1>8 DEF IntOf
<1> QED BY <1>5, <1>7, <1>9

\* float() of a number is the same number; a marker is none.
LEMMA FloatBack ==
  /\ \A v \in Numbers : \/ FloatOf[v] = v
                        \/ v = "True" /\ FloatOf[v] = "1"
                        \/ v = "False" /\ FloatOf[v] = "0"
  /\ \A v \in Numbers : FloatOf[v] \in Numbers /\ Same(FloatOf[v], v)
  /\ \A m \in Markers : FloatOf[m] = Raised
<1>1. \A v \in Numbers : v \in Values /\ v # "'1'"
  <2>1. "'1'" \notin Numbers
    BY Apart DEF Texts, Numbers, Finite, Wholes, Flags
  <2> QED BY <2>1 DEF Values, Plain
<1>2. Truncated["True"] = "1" /\ Truncated["False"] = "0"
  BY DEF Truncated, Flags
<1>3. \A v \in Numbers : IF v \in Flags THEN FloatOf[v] = Truncated[v] ELSE FloatOf[v] = v
  BY <1>1 DEF FloatOf
<1>4. \A v \in Numbers : \/ FloatOf[v] = v
                         \/ v = "True" /\ FloatOf[v] = "1"
                         \/ v = "False" /\ FloatOf[v] = "0"
  BY <1>2, <1>3 DEF Flags
<1>5. {"0", "1", "True", "False"} \subseteq Finite
  <2>1. 1 \in DOMAIN Numeral /\ Numeral[1] = "1"
    BY NumeralAssumption
  <2> QED BY <2>1 DEF Numerals, Finite, Wholes, Flags
<1>6. \A v \in Numbers : FloatOf[v] \in Numbers /\ Same(FloatOf[v], v)
  BY <1>4, <1>5, TwiceFacts DEF Same, Numbers
<1>7. \A m \in Markers : m \in Values /\ m \notin Flags \cup {"'1'"} /\ m \notin Numbers
  BY Apart DEF Markers, Values, Plain, Texts, Flags, Numbers, Finite, Wholes
<1>8. \A m \in Markers : FloatOf[m] = Raised
  BY <1>7 DEF FloatOf
<1> QED BY <1>4, <1>6, <1>8

\* What raised is no value.
LEMMA RaisedFacts == Raised \notin Values /\ "'?'" \notin Numbers
BY Apart DEF Raised, Values, Plain, Texts, Markers, Numbers, Finite, Wholes, Flags, Lists, Dicts,
             None, Parts, PartLists

\* Texts, whole numbers, numbers and flags, as far as a kind takes them.
LEMMA FairTexts ==
  ASSUME NEW k, k.takes \subseteq Texts, k.reads = StrOf, k.default # None
  PROVE  Fair(k)
<1>1. \A v \in k.takes : Returns(k, v)
  BY SimpleFacts, StrBack DEF Returns, Same
<1>2. \A v \in k.takes : Hides(k, v)
  <2>1. Markers \subseteq Texts
    BY DEF Texts
  <2> QED BY <2>1, SimpleFacts, StrBack DEF Hides, Veiled
<1> QED BY <1>1, <1>2 DEF Fair, Values, Plain

LEMMA FairWholes ==
  ASSUME NEW k, k.takes \subseteq Wholes, k.reads = IntOf, k.default # None,
         \A v \in k.takes : IntOf[v] \in k.takes
  PROVE  Fair(k)
<1>1. Wholes \subseteq Numbers /\ Numbers \subseteq Values
  BY DEF Numbers, Finite, Values, Plain
<1>2. \A v \in k.takes : Returns(k, v)
  BY <1>1, SimpleFacts, IntBack DEF Returns
<1>3. \A v \in k.takes : Hides(k, v)
  <2> TAKE v \in k.takes
  <2>1. Marks(Dictionary(v)) = Markers
    BY <1>1, SimpleFacts
  <2>2. Raised \notin k.takes
    BY <1>1, RaisedFacts
  <2> QED BY <2>1, <2>2, IntBack DEF Hides
<1> QED BY <1>1, <1>2, <1>3 DEF Fair

LEMMA FairNumbers ==
  ASSUME NEW k, k.takes \subseteq Numbers, k.reads = FloatOf, k.default # None,
         \A v \in k.takes : FloatOf[v] \in k.takes
  PROVE  Fair(k)
<1>1. Numbers \subseteq Values
  BY DEF Values, Plain
<1>2. \A v \in k.takes : Returns(k, v)
  BY SimpleFacts, FloatBack DEF Returns
<1>3. \A v \in k.takes : Hides(k, v)
  <2> TAKE v \in k.takes
  <2>1. Marks(Dictionary(v)) = Markers
    BY <1>1, SimpleFacts
  <2>2. Raised \notin k.takes
    BY <1>1, RaisedFacts
  <2> QED BY <2>1, <2>2, FloatBack DEF Hides
<1> QED BY <1>1, <1>2, <1>3 DEF Fair

\* What a plain value comes back as, unread.
LEMMA PlainBack ==
  ASSUME NEW v \in Plain
  PROVE  /\ Dictionary(v) = v
         /\ Reread(v) = IF v = "intkeys" THEN "strkeys" ELSE v
         /\ Marks(v) \subseteq Markers \cup {"['#']", "{'a':'#'}"}
         /\ v \in Lists => Marks(v) \subseteq Markers \cup {"['#']"}
         /\ v \in Dicts => Marks(v) \subseteq Markers \cup {"{'a':'#'}"}
<1>1. v \notin Parts \cup PartLists
  <2>1. CASE v \in Numerals
    BY <2>1, Apart
  <2>2. CASE v \notin Numerals
    BY <2>2 DEF Plain, Texts, Markers, Numbers, Finite, Wholes, Flags, None, Lists, Dicts, Parts,
                PartLists
  <2> QED BY <2>1, <2>2
<1> QED BY <1>1 DEF Dictionary, Reread, Marks, Parts, PartLists, Lists, Dicts

\* Fields that are not converted.
LEMMA FairRaw ==
  ASSUME NEW k, k.takes \subseteq Plain, k.reads = Raw, k.default = None, k.absent = None,
         None \in k.takes, "intkeys" \in k.takes => "strkeys" \in k.takes
  PROVE  Fair(k)
<1>1. \A v \in Values : Raw[v] = v
  BY DEF Raw
<1>2. \A v \in k.takes : Returns(k, v)
  <2> TAKE v \in k.takes
  <2>1. Dictionary(v) = v /\ Reread(Dictionary(v)) = IF v = "intkeys" THEN "strkeys" ELSE v
    BY PlainBack
  <2>2. v \in k.takes /\ Reread(Dictionary(v)) \in k.takes
    BY <2>1
  <2>3. v \in Values /\ Reread(Dictionary(v)) \in Values
    BY <2>2 DEF Values
  <2> QED BY <1>1, <2>1, <2>2, <2>3 DEF Returns, Same
<1>3. \A v \in k.takes : Hides(k, v)
  <2>1. Markers \cup {"['#']", "{'a':'#'}"} \subseteq Values
    BY DEF Values, Plain, Texts, Lists, Dicts
  <2> TAKE v \in k.takes
  <2>2. Marks(Dictionary(v)) \subseteq Markers \cup {"['#']", "{'a':'#'}"}
    BY PlainBack
  <2>3. \A m \in Markers \cup {"['#']", "{'a':'#'}"} : Raw[m] \in Veiled("")
    BY <1>1, <2>1 DEF Veiled
  <2> QED BY <2>2, <2>3 DEF Hides
<1> QED BY <1>2, <1>3 DEF Fair, Values

\* list() of a list is the list, that of a marker the list of its characters.
LEMMA ListBack ==
  /\ \A v \in Lists : ListOf[v] = v
  /\ \A m \in Markers : ListOf[m] = "characters"
BY DEF ListOf, Lists, Texts, Markers

\* Lists of texts, with or without a default.
LEMMA FairLists ==
  ASSUME NEW k, k.takes \ {None} \subseteq Lists,
         k.default = None => None \in k.takes /\ k.absent = None,
         k.default # None => None \notin k.takes,
         k.reads = ListOf \/ k.reads = OrNone(ListOf)
  PROVE  Fair(k)
<1>1. \A v \in Texts \cup Lists : v # None
  BY DEF Texts, Markers, Lists, None
<1>2. \A v \in Texts \cup Lists : k.reads[v] = ListOf[v]
  BY <1>1 DEF OrNone, ListOf
<1>3. \A v \in Lists : v \in Plain /\ v # "intkeys"
  BY DEF Lists, Plain
<1>4. \A v \in k.takes \ {None} : Returns(k, v)
  <2> TAKE v \in k.takes \ {None}
  <2>1. v \in Lists /\ v \in Plain /\ v # "intkeys"
    BY <1>3
  <2>2. Dictionary(v) = v /\ Reread(Dictionary(v)) = v
    BY <2>1, PlainBack
  <2>3. k.reads[v] = v
    BY <1>2, <2>1, ListBack
  <2> QED BY <2>2, <2>3 DEF Returns, Same
<1>5. \A v \in k.takes \ {None} : Hides(k, v)
  <2>1. Markers \subseteq Texts /\ "['#']" \in Lists
    BY DEF Texts, Lists
  <2> TAKE v \in k.takes \ {None}
  <2>2. Marks(Dictionary(v)) \subseteq Markers \cup {"['#']"}
    <3>1. v \in Plain /\ v \in Lists
      BY <1>3
    <3> QED BY <3>1, PlainBack
  <2>3. \A m \in Markers \cup {"['#']"} : k.reads[m] \in Veiled("")
    BY <1>2, <2>1, ListBack DEF Veiled
  <2> QED BY <2>2, <2>3 DEF Hides
<1>6. k.takes \subseteq Values
  BY DEF Values, Plain
<1> QED BY <1>4, <1>5, <1>6 DEF Fair

\* dict() of a dictionary is the dictionary; a marker is none.
LEMMA DictBack ==
  /\ \A v \in Dicts : DictOf[v] = v
  /\ \A m \in Markers : DictOf[m] = Raised
BY DEF DictOf, Dicts, Texts, Markers

\* Dictionaries, with or without a default.
LEMMA FairDicts ==
  ASSUME NEW k, k.takes \ {None} \subseteq Dicts,
         k.default = None => None \in k.takes /\ k.absent = None,
         k.default # None => None \notin k.takes,
         "intkeys" \in k.takes => "strkeys" \in k.takes,
         k.reads = DictOf \/ k.reads = OrNone(DictOf)
  PROVE  Fair(k)
<1>1. \A v \in Texts \cup Dicts : v # None
  BY DEF Texts, Markers, Dicts, None
<1>2. \A v \in Texts \cup Dicts : k.reads[v] = DictOf[v]
  BY <1>1 DEF OrNone, DictOf
<1>3. \A v \in Dicts : v \in Plain
  BY DEF Plain
<1>4. \A v \in k.takes \ {None} : Returns(k, v)
  <2> TAKE v \in k.takes \ {None}
  <2>1. v \in Dicts /\ v \in Plain /\ "strkeys" \in Dicts
    BY <1>3 DEF Dicts
  <2>2. Dictionary(v) = v /\ Reread(Dictionary(v)) = IF v = "intkeys" THEN "strkeys" ELSE v
    BY <2>1, PlainBack
  <2>3. k.reads[v] = v /\ k.reads["strkeys"] = "strkeys"
    BY <1>2, <2>1, DictBack
  <2> QED BY <2>2, <2>3 DEF Returns, Same
<1>5. k.takes \subseteq Values
  BY DEF Values, Plain
<1>6. \A v \in k.takes \ {None} : Hides(k, v)
  <2>1. Markers \subseteq Texts /\ "{'a':'#'}" \in Dicts
    BY DEF Texts, Dicts
  <2> TAKE v \in k.takes \ {None}
  <2>2. Marks(Dictionary(v)) \subseteq Markers \cup {"{'a':'#'}"}
    <3>1. v \in Plain /\ v \in Dicts
      BY <1>3
    <3> QED BY <3>1, PlainBack
  <2>3. \A m \in Markers : k.reads[m] \notin k.takes
    BY <1>2, <1>5, <2>1, DictBack, RaisedFacts
  <2>4. k.reads["{'a':'#'}"] \in Veiled("")
    BY <1>2, <2>1, DictBack DEF Veiled
  <2> QED BY <2>2, <2>3, <2>4 DEF Hides
<1> QED BY <1>4, <1>5, <1>6 DEF Fair

\* What comes back of nested objects.
LEMMA PartBack ==
  /\ \A v \in Parts \cup PartLists : v \in Values /\ v \notin Numbers
  /\ PartOf["{obj}"] = "obj" /\ PartOf["{obj#}"] = "obj#"
  /\ PartOf["[{obj}]"] = "[obj]" /\ PartOf["[{obj#}]"] = "[obj#]" /\ PartOf["[]"] = "[]"
  /\ \A m \in Markers \cup {"['#']"} : PartOf[m] = Raised
BY Apart DEF PartOf, Parts, PartLists, Values, Plain, Texts, Markers, Lists, Numbers, Finite, Wholes,
             Flags, None

\* A count that may be None.
LEMMA FairMaybeCount == Fair(MaybeCount)
<1>1. /\ MaybeCount.takes = (Wholes \ Negative) \cup {None} /\ MaybeCount.reads = OrNone(IntOf)
      /\ MaybeCount.default = None /\ MaybeCount.absent = None
  BY DEF MaybeCount, Optional, Count, Required, Kind
<1>2. Wholes \subseteq Numbers /\ Numbers \subseteq Values /\ None \in Values
  BY DEF Numbers, Finite, Values, Plain
<1>3. None \notin Wholes \cup Markers
  BY Apart DEF None, Wholes, Flags, Markers
<1>4. \A v \in Wholes \cup Markers : OrNone(IntOf)[v] = IntOf[v]
  <2>1. Wholes \cup Markers \subseteq DOMAIN IntOf
    BY <1>2 DEF IntOf, Values, Plain, Texts
  <2> QED BY <1>3, <2>1 DEF OrNone
<1>5. ASSUME NEW v \in Wholes \ Negative PROVE Returns(MaybeCount, v) /\ Hides(MaybeCount, v)
  <2>1. Dictionary(v) = v /\ Reread(Dictionary(v)) = v /\ Marks(Dictionary(v)) = Markers
    BY <1>2, SimpleFacts
  <2>2. IntOf[v] \in Wholes \ Negative /\ Same(IntOf[v], v)
    BY IntBack DEF Negative
  <2>3. Returns(MaybeCount, v)
    BY <1>1, <1>4, <2>1, <2>2 DEF Returns
  <2>4. Hides(MaybeCount, v)
    <3>1. Raised \notin MaybeCount.takes
      BY <1>1, <1>2, RaisedFacts
    <3>2. \A m \in Markers : MaybeCount.reads[m] = Raised
      BY <1>1, <1>4, IntBack
    <3> QED BY <2>1, <3>1, <3>2 DEF Hides
  <2> QED BY <2>3, <2>4
<1> QED BY <1>1, <1>2, <1>5 DEF Fair

\* Flags: bool() of a marker is true.
LEMMA FairFlag == ASSUME NEW value, value \in Flags PROVE Fair(FlagOr(value))
<1>1. /\ FlagOr(value).takes = Flags /\ FlagOr(value).reads = BoolOf
      /\ FlagOr(value).default # None
  BY DEF FlagOr, Default, Kind, Flags, None
<1>2. Flags \subseteq Numbers /\ Flags \subseteq Values
  BY DEF Numbers, Finite, Wholes, Values, Plain
<1>3. \A v \in Flags : BoolOf[v] = v
  BY <1>2 DEF BoolOf, Flags, None
<1>4. \A m \in Markers : BoolOf[m] = "True"
  BY DEF BoolOf, Markers, None, Values, Plain, Texts
<1>5. ASSUME NEW v \in Flags PROVE Returns(FlagOr(value), v) /\ Hides(FlagOr(value), v)
  <2>1. Dictionary(v) = v /\ Reread(Dictionary(v)) = v /\ Marks(Dictionary(v)) = Markers
    BY <1>2, SimpleFacts
  <2>2. Returns(FlagOr(value), v)
    BY <1>1, <1>3, <2>1 DEF Returns, Same
  <2>3. \A m \in Markers : BoolOf[m] \in Veiled("")
    BY <1>4 DEF Veiled
  <2>4. Hides(FlagOr(value), v)
    BY <1>1, <2>1, <2>3 DEF Hides
  <2> QED BY <2>2, <2>4
<1> QED BY <1>1, <1>2, <1>5 DEF Fair

\* Objects in objects.
LEMMA FairPart ==
  ASSUME NEW k, k.takes \ {None} \subseteq {"obj", "obj#", "[]", "[obj]", "[obj#]"},
         k.default = None => None \in k.takes /\ k.absent = None,
         k.default # None => None \notin k.takes,
         \/ k.reads = PartOf
         \/ k.reads = NumbersOf /\ "obj#" \notin k.takes
  PROVE  Fair(k)
<1>1. k.takes \subseteq Values /\ Raised \notin k.takes
  <2>1. k.takes \subseteq Values
    BY DEF Values, Plain, Parts, PartLists, Lists
  <2> QED BY <2>1, RaisedFacts
<1>2. \A v \in Values \ {"{obj#}"} : k.reads[v] = PartOf[v]
  BY DEF NumbersOf, PartOf
<1>3. k.reads["{obj}"] = "obj" /\ k.reads["[]"] = "[]"
  BY <1>2, PartBack DEF Parts, Values, Plain, Lists
<1>4. k.reads["[{obj}]"] = "[obj]" /\ k.reads["[{obj#}]"] = "[obj#]"
  BY <1>2, PartBack DEF PartLists, Values
<1>5. k.reads["{obj#}"] = "obj#" \/ (k.reads["{obj#}"] = Raised /\ "obj#" \notin k.takes)
  BY PartBack DEF NumbersOf, PartOf, Values, Parts
<1>6. \A m \in Markers : k.reads[m] = Raised
  <2>1. Markers \subseteq Values \ {"{obj#}"}
    BY DEF Markers, Values, Plain, Texts
  <2> QED BY <1>2, <2>1, PartBack
<1>7. ASSUME NEW v \in k.takes \ {None} PROVE Returns(k, v) /\ Hides(k, v)
  <2>1. v \in {"obj", "obj#", "[]", "[obj]", "[obj#]"}
    OBVIOUS
  <2>2. /\ v = "obj" => Dictionary(v) = "{obj}"
        /\ v = "obj#" => Dictionary(v) = "{obj#}"
        /\ v = "[]" => Dictionary(v) = "[]"
        /\ v = "[obj]" => Dictionary(v) = "[{obj}]"
        /\ v = "[obj#]" => Dictionary(v) = "[{obj#}]"
    BY DEF Dictionary
  <2>3. Reread(Dictionary(v)) = Dictionary(v)
    BY <2>1, <2>2 DEF Reread
  <2>4. k.reads[Dictionary(v)] = v
    BY <2>1, <2>2, <1>3, <1>4, <1>5
  <2>5. Returns(k, v)
    BY <2>3, <2>4 DEF Returns, Same
  <2>6. Marks(Dictionary(v)) \subseteq
          Markers \cup (IF v = "obj" THEN {"{obj#}"} ELSE {})
                  \cup (IF v = "[obj]" THEN {"[{obj#}]"} ELSE {})
    BY <2>1, <2>2 DEF Marks, Lists
  <2>7. k.reads["{obj#}"] \in Veiled("") \/ k.reads["{obj#}"] \notin k.takes
    BY <1>1, <1>5 DEF Veiled
  <2>8. k.reads["[{obj#}]"] \in Veiled("")
    BY <1>4 DEF Veiled
  <2>9. Hides(k, v)
    BY <1>1, <1>6, <2>6, <2>7, <2>8 DEF Hides
  <2> QED BY <2>5, <2>9
<1> QED BY <1>1, <1>7 DEF Fair

\* For each of the 27 kinds of fields the classes use, every value the
\* constructor accepts is accepted and the same when it comes back, and what
\* redaction leaves of it is veiled or refused (namespaces/: __post_init__,
\* to_dict and from_dict).
THEOREM FairKinds == \A k \in Kinds : Fair(k)
<1>1. Fair(Name) /\ Fair(Choice) /\ Fair(NameOr) /\ Fair(ChoiceOr)
  <2>1. Texts \ {"''"} \subseteq Texts /\ {"'a'"} \subseteq Texts
    BY DEF Texts
  <2>2. /\ Name.takes \subseteq Texts /\ Name.reads = StrOf /\ Name.default # None
        /\ Choice.takes \subseteq Texts /\ Choice.reads = StrOf /\ Choice.default # None
        /\ NameOr.takes \subseteq Texts /\ NameOr.reads = StrOf /\ NameOr.default # None
        /\ ChoiceOr.takes \subseteq Texts /\ ChoiceOr.reads = StrOf /\ ChoiceOr.default # None
    BY <2>1 DEF Name, Choice, NameOr, ChoiceOr, Required, Default, Kind, Raised, None
  <2> QED BY <2>2, FairTexts
<1>2. Fair(Count) /\ Fair(Positive) /\ Fair(FromOne)
  <2>1. /\ Count.takes = Wholes \ Negative /\ Count.reads = IntOf /\ Count.default # None
        /\ Positive.takes = Wholes \ {"-1", "0", "False"} /\ Positive.reads = IntOf
        /\ Positive.default # None
        /\ FromOne.takes = Wholes \ {"-1", "0", "False"} /\ FromOne.reads = IntOf
        /\ FromOne.default # None
    BY DEF Count, Positive, FromOne, Required, Default, Kind, Raised, None
  <2>2. \A v \in Wholes \ Negative : IntOf[v] \in Wholes \ Negative
    BY IntBack DEF Negative
  <2>3. \A v \in Wholes \ {"-1", "0", "False"} : IntOf[v] \in Wholes \ {"-1", "0", "False"}
    BY IntBack
  <2> QED BY <2>1, <2>2, <2>3, FairWholes
<1>3. Fair(Amount) /\ Fair(Number) /\ Fair(Ratio)
  <2>1. /\ Amount.takes = Numbers \ Negative /\ Amount.reads = FloatOf /\ Amount.default # None
        /\ Number.takes = Numbers /\ Number.reads = FloatOf /\ Number.default # None
        /\ Ratio.takes = WithinOne /\ Ratio.reads = FloatOf /\ Ratio.default # None
    BY DEF Amount, Number, Ratio, Required, Kind, Raised, None
  <2>2. \A v \in Numbers \ Negative : FloatOf[v] \in Numbers \ Negative
    BY FloatBack DEF Negative
  <2>3. \A v \in WithinOne : FloatOf[v] \in WithinOne /\ v \in Numbers
    <3>1. \A v \in WithinOne : v \in Numbers /\ v \in Finite
      BY DEF WithinOne, Numbers
    <3>2. {"0", "1"} \subseteq Finite
      <4>1. 1 \in DOMAIN Numeral /\ Numeral[1] = "1"
        BY NumeralAssumption
      <4> QED BY <4>1 DEF Numerals, Finite, Wholes
    <3>3. {"0", "1"} \subseteq WithinOne
      BY <3>2, TwiceFacts DEF WithinOne
    <3> QED BY <3>1, <3>3, FloatBack
  <2>4. Fair(Amount)
    BY <2>1, <2>2, FairNumbers
  <2>5. Fair(Number)
    BY <2>1, FloatBack, FairNumbers
  <2>6. Fair(Ratio)
    BY <2>1, <2>3, FairNumbers
  <2> QED BY <2>4, <2>5, <2>6
<1>4. /\ Fair(Unchecked) /\ Fair(MaybeText) /\ Fair(MaybeRatio) /\ Fair(MaybeNumber)
      /\ Fair(MaybeAmount)
  <2>1. /\ Unchecked.takes = Plain \cup {None} /\ MaybeText.takes = Texts \cup {None}
        /\ MaybeRatio.takes = WithinOne \cup {None} /\ MaybeNumber.takes = Numbers \cup {None}
        /\ MaybeAmount.takes = (Numbers \ Negative) \cup {None}
    BY DEF Unchecked, MaybeText, MaybeRatio, MaybeNumber, MaybeAmount, Optional, Kind
  <2>2. \A k \in {Unchecked, MaybeText, MaybeRatio, MaybeNumber, MaybeAmount} :
          k.reads = Raw /\ k.default = None /\ k.absent = None
    BY DEF Unchecked, MaybeText, MaybeRatio, MaybeNumber, MaybeAmount, Optional, Kind
  <2>3. "strkeys" \in Plain /\ "intkeys" \notin Texts \cup Numbers \cup {None}
    BY Apart DEF Plain, Dicts, Texts, Markers, Numbers, Finite, Wholes, Flags, None
  <2>4. WithinOne \subseteq Numbers /\ Numbers \subseteq Plain /\ Texts \subseteq Plain /\ None \in Plain
    BY DEF WithinOne, Numbers, Plain
  <2>5. \A k \in {Unchecked, MaybeText, MaybeRatio, MaybeNumber, MaybeAmount} :
          k.takes \subseteq Plain /\ None \in k.takes /\ ("intkeys" \in k.takes => "strkeys" \in k.takes)
    BY <2>1, <2>3, <2>4
  <2> QED BY <2>2, <2>5, FairRaw
<1>5. Fair(NamedList) /\ Fair(MaybeList)
  <2>1. /\ NamedList.takes = TextLists \ {"[]"} /\ NamedList.reads = ListOf /\ NamedList.default = Raised
        /\ MaybeList.takes = TextLists \cup {None} /\ MaybeList.reads = OrNone(ListOf)
        /\ MaybeList.default = None /\ MaybeList.absent = None
    BY DEF NamedList, MaybeList, Required, Optional, Kind
  <2>2. Raised # None /\ None \notin Lists
    BY DEF Raised, None, Lists
  <2>3. /\ NamedList.takes \ {None} \subseteq Lists /\ NamedList.default # None
        /\ None \notin NamedList.takes
    BY <2>1, <2>2 DEF TextLists
  <2>4. MaybeList.takes \ {None} \subseteq Lists /\ None \in MaybeList.takes
    BY <2>1 DEF TextLists
  <2>5. Fair(NamedList)
    BY <2>1, <2>3, FairLists
  <2>6. Fair(MaybeList)
    BY <2>1, <2>4, FairLists
  <2> QED BY <2>5, <2>6
<1>6. Fair(DictField) /\ Fair(MaybeDict) /\ Fair(Metrics)
  <2>1. /\ DictField.takes = Dicts /\ DictField.reads = DictOf /\ DictField.default = Raised
        /\ MaybeDict.takes = Dicts \cup {None} /\ MaybeDict.reads = OrNone(DictOf)
        /\ MaybeDict.default = None /\ MaybeDict.absent = None
        /\ Metrics.takes = {"{}", "{'a':1}", "strkeys"} \cup {None}
        /\ Metrics.reads = OrNone(DictOf)
        /\ Metrics.default = None /\ Metrics.absent = None
    BY DEF DictField, MaybeDict, Metrics, Required, Optional, Kind
  <2>2. Raised # None /\ None \notin Dicts /\ "strkeys" \in Dicts
    BY DEF Raised, None, Dicts
  <2>3. {"{}", "{'a':1}", "strkeys"} \subseteq Dicts
    BY DEF Dicts
  <2>4. Fair(DictField)
    BY <2>1, <2>2, FairDicts
  <2>5. Fair(MaybeDict)
    BY <2>1, <2>2, FairDicts
  <2>6. Fair(Metrics)
    <3>1. Metrics.takes \ {None} \subseteq Dicts /\ "strkeys" \in Metrics.takes /\ None \in Metrics.takes
      BY <2>1, <2>3
    <3> QED BY <2>1, <3>1, FairDicts
  <2> QED BY <2>4, <2>5, <2>6
<1>7. Fair(Issues) /\ Fair(MaybeModel) /\ Fair(MaybeUsage) /\ Fair(MaybeCalls)
  <2>1. /\ Issues.takes = {"[]", "[obj]", "[obj#]"} /\ Issues.reads = PartOf /\ Issues.default = Raised
        /\ MaybeModel.takes = {"obj", "obj#"} \cup {None} /\ MaybeModel.reads = PartOf
        /\ MaybeModel.default = None /\ MaybeModel.absent = None
        /\ MaybeUsage.takes = {"obj"} \cup {None} /\ MaybeUsage.reads = NumbersOf
        /\ MaybeUsage.default = None /\ MaybeUsage.absent = None
        /\ MaybeCalls.takes = {"[]", "[obj]", "[obj#]"} \cup {None} /\ MaybeCalls.reads = PartOf
        /\ MaybeCalls.default = None /\ MaybeCalls.absent = None
    BY DEF Issues, MaybeModel, MaybeUsage, MaybeCalls, Optional, Kind
  <2>2. Raised # None /\ None \notin {"obj", "obj#", "[]", "[obj]", "[obj#]"}
    BY DEF Raised, None
  <2>3. Fair(Issues)
    BY <2>1, <2>2, FairPart
  <2>4. Fair(MaybeModel)
    BY <2>1, FairPart
  <2>5. Fair(MaybeUsage)
    <3>1. "obj#" \notin MaybeUsage.takes
      BY <2>1 DEF None
    <3> QED BY <2>1, <3>1, FairPart
  <2>6. Fair(MaybeCalls)
    BY <2>1, FairPart
  <2> QED BY <2>3, <2>4, <2>5, <2>6
<1>8. Fair(FlagOr("True")) /\ Fair(FlagOr("False"))
  BY FairFlag DEF Flags
<1> QED BY <1>1, <1>2, <1>3, <1>4, <1>5, <1>6, <1>7, <1>8, FairMaybeCount DEF Kinds

\* The definitions in Classes.
ClassSet ==
  {CacheHitPayload, CacheMissPayload, CacheEvictedPayload, CostRecordedPayload,
   BudgetThresholdPayload, DiffComparisonPayload, DiffReportPayload, EvalScenarioPayload,
   EvalRegressionPayload, ValidationPassedPayload, FenceValidationFailedPayload,
   RetryTriggeredPayload, GuardBlockedPayload, GuardFlaggedPayload, InspectIssueSummary,
   InspectReportPayload, PromptSavedPayload, PromptPromotedPayload, PromptApprovedPayload,
   PromptRolledBackPayload, PromptRejectedPayload, PromptRenderedPayload, PIIDetectedPayload,
   PIIRedactedPayload, ScanCompletedPayload, TemplateRenderedPayload, VariableMissingPayload,
   TemplateValidationFailedPayload, TokenUsage, ModelInfo, ToolCall, SpanCompletedPayload}

Kinded(p) == \A f \in DOMAIN p : p[f] \in Kinds \/ (f = "action" /\ p[f] = Action)

\* Every field of every class is of one of the kinds, or the action.
LEMMA KindedClasses == \A p \in ClassSet : Kinded(p)
<1>1. Kinded(CacheHitPayload)
  BY DEF Kinded, CacheHitPayload, Kinds
<1>2. Kinded(CacheMissPayload)
  BY DEF Kinded, CacheMissPayload, Kinds
<1>3. Kinded(CacheEvictedPayload)
  BY DEF Kinded, CacheEvictedPayload, Kinds
<1>4. Kinded(CostRecordedPayload)
  BY DEF Kinded, CostRecordedPayload, Kinds
<1>5. Kinded(BudgetThresholdPayload)
  BY DEF Kinded, BudgetThresholdPayload, Kinds
<1>6. Kinded(DiffComparisonPayload)
  BY DEF Kinded, DiffComparisonPayload, Kinds
<1>7. Kinded(DiffReportPayload)
  BY DEF Kinded, DiffReportPayload, Kinds
<1>8. Kinded(EvalScenarioPayload)
  BY DEF Kinded, EvalScenarioPayload, Kinds
<1>9. Kinded(EvalRegressionPayload)
  BY DEF Kinded, EvalRegressionPayload, Kinds
<1>10. Kinded(ValidationPassedPayload)
  BY DEF Kinded, ValidationPassedPayload, Kinds
<1>11. Kinded(FenceValidationFailedPayload)
  BY DEF Kinded, FenceValidationFailedPayload, Kinds
<1>12. Kinded(RetryTriggeredPayload)
  BY DEF Kinded, RetryTriggeredPayload, Kinds
<1>13. Kinded(GuardBlockedPayload)
  BY DEF Kinded, GuardBlockedPayload, Kinds
<1>14. Kinded(GuardFlaggedPayload)
  BY DEF Kinded, GuardFlaggedPayload, Kinds
<1>15. Kinded(InspectIssueSummary)
  BY DEF Kinded, InspectIssueSummary, Kinds
<1>16. Kinded(InspectReportPayload)
  BY DEF Kinded, InspectReportPayload, Kinds
<1>17. Kinded(PromptSavedPayload)
  BY DEF Kinded, PromptSavedPayload, Kinds
<1>18. Kinded(PromptPromotedPayload)
  BY DEF Kinded, PromptPromotedPayload, Kinds
<1>19. Kinded(PromptApprovedPayload)
  BY DEF Kinded, PromptApprovedPayload, Kinds
<1>20. Kinded(PromptRolledBackPayload)
  BY DEF Kinded, PromptRolledBackPayload, Kinds
<1>21. Kinded(PromptRejectedPayload)
  BY DEF Kinded, PromptRejectedPayload, Kinds
<1>22. Kinded(PromptRenderedPayload)
  BY DEF Kinded, PromptRenderedPayload, Kinds
<1>23. Kinded(PIIDetectedPayload)
  BY DEF Kinded, PIIDetectedPayload, Kinds
<1>24. Kinded(PIIRedactedPayload)
  BY DEF Kinded, PIIRedactedPayload, Kinds
<1>25. Kinded(ScanCompletedPayload)
  BY DEF Kinded, ScanCompletedPayload, Kinds
<1>26. Kinded(TemplateRenderedPayload)
  BY DEF Kinded, TemplateRenderedPayload, Kinds
<1>27. Kinded(VariableMissingPayload)
  BY DEF Kinded, VariableMissingPayload, Kinds
<1>28. Kinded(TemplateValidationFailedPayload)
  BY DEF Kinded, TemplateValidationFailedPayload, Kinds
<1>29. Kinded(TokenUsage)
  BY DEF Kinded, TokenUsage, Kinds
<1>30. Kinded(ModelInfo)
  BY DEF Kinded, ModelInfo, Kinds
<1>31. Kinded(ToolCall)
  BY DEF Kinded, ToolCall, Kinds
<1>32. Kinded(SpanCompletedPayload)
  BY DEF Kinded, SpanCompletedPayload, Kinds
<1> QED BY <1>1, <1>2, <1>3, <1>4, <1>5, <1>6, <1>7, <1>8, <1>9, <1>10, <1>11, <1>12, <1>13, <1>14,
         <1>15, <1>16, <1>17, <1>18, <1>19, <1>20, <1>21, <1>22, <1>23, <1>24, <1>25, <1>26,
         <1>27, <1>28, <1>29, <1>30, <1>31, <1>32
        DEF ClassSet

\* There are no other classes.
LEMMA ClassFacts == \A c \in Class : Classes[c] \in ClassSet
BY DEF Class, Classes, ClassSet

\* The two together.
LEMMA FieldFacts ==
  \A c \in Class : \A f \in Fields(c) :
    Classes[c][f] \in Kinds \/ (f = "action" /\ Classes[c][f] = Action)
BY KindedClasses, ClassFacts DEF Kinded, Fields

\* The one field whose numbers the exporters read.
LEMMA UsageFacts ==
  \A c \in Class : "token_usage" \in Fields(c) => Classes[c]["token_usage"] = MaybeUsage
<1>1. \A p \in ClassSet : "token_usage" \in DOMAIN p => p = SpanCompletedPayload
  BY DEF ClassSet, CacheHitPayload, CacheMissPayload, CacheEvictedPayload, CostRecordedPayload,
         BudgetThresholdPayload, DiffComparisonPayload, DiffReportPayload, EvalScenarioPayload,
         EvalRegressionPayload, ValidationPassedPayload, FenceValidationFailedPayload,
         RetryTriggeredPayload, GuardBlockedPayload, GuardFlaggedPayload, InspectIssueSummary,
         InspectReportPayload, PromptSavedPayload, PromptPromotedPayload, PromptApprovedPayload,
         PromptRolledBackPayload, PromptRejectedPayload, PromptRenderedPayload,
         PIIDetectedPayload, PIIRedactedPayload, ScanCompletedPayload, TemplateRenderedPayload,
         VariableMissingPayload, TemplateValidationFailedPayload, TokenUsage, ModelInfo,
         ToolCall, SpanCompletedPayload
<1>2. SpanCompletedPayload["token_usage"] = MaybeUsage
  BY DEF SpanCompletedPayload
<1> QED BY <1>1, <1>2, ClassFacts DEF Fields

-----------------------------------------------------------------------------
(***************************************************************************)
(* The loop of FencePolicy, whose calls, retries and result must agree in  *)
(* every state, not only when it returns.                                  *)
(***************************************************************************)
\* The i-th retry event.
Retried(i) == [class |-> "RetryTriggered",
               object |-> [validator_id |-> "'a'", attempt |-> Numeral[i + 1],
                           max_attempts |-> Numeral[fence.max], previous_error |-> "'a'",
                           strategy |-> "'a'"]]

\* The inductive invariant of the loop: the retry events are numbered from 2 on,
\* there is one for every attempt but the first, and the result is the last one.
Looping ==
  /\ fence = [status |-> fence.status, max |-> fence.max, calls |-> fence.calls,
              result |-> fence.result, retries |-> fence.retries]
  /\ fence.max \in 1 .. (MaxRetries + 1) /\ fence.calls \in Nat
  /\ fence.status \in {"idle", "running", "done", "raised"}
  /\ fence.retries = [i \in 1 .. Len(fence.retries) |-> fence.retries[i]]
  /\ Len(fence.retries) \in Nat
  /\ \A i \in 1 .. Len(fence.retries) : fence.retries[i] = Retried(i)
  /\ fence.status = "idle" => fence.calls = 0 /\ Len(fence.retries) = 0
  /\ fence.status = "running" => fence.calls < fence.max /\ Len(fence.retries) = fence.calls
  /\ fence.status = "done" =>
       /\ fence.calls <= fence.max /\ Len(fence.retries) + 1 = fence.calls
       /\ \/ fence.result.class = "ValidationPassed"
          \/ fence.result.object.retryable = "False"
          \/ fence.calls = fence.max
  /\ fence.status \in {"running", "done"} /\ fence.calls > 0 =>
       \E verdict \in Verdict : fence.result = Renumbered(verdict, fence.calls)

\* A verdict that validate() passed on, with its number.
LEMMA VerdictFacts ==
  ASSUME NEW verdict \in Verdict, NEW n
  PROVE  /\ Renumbered(verdict, n).class = verdict.class
         /\ Renumbered(verdict, n).object.attempt = Numeral[n]
         /\ verdict.class \in {"ValidationPassed", "FenceValidationFailed"}
         /\ verdict.object.validator_id = "'a'"
         /\ verdict.class = "FenceValidationFailed" =>
              /\ verdict.object.retryable \in Flags
              /\ Renumbered(verdict, n).object.retryable = verdict.object.retryable
<1>1. CASE verdict.class = "ValidationPassed"
  BY <1>1 DEF Verdict, Renumbered
<1>2. CASE verdict.class = "FenceValidationFailed"
  BY <1>2 DEF Verdict, Renumbered
<1> QED BY <1>1, <1>2 DEF Verdict

\* No call was made yet.
LEMMA LoopingInit == LifeInit => Looping
BY PoliciesAssumption DEF LifeInit, FenceInit, Idle, Looping

\* Steps that do not touch the loop.
LEMMA LoopingSame == ASSUME Looping, UNCHANGED fence PROVE Looping'
BY DEF Looping, Retried

\* retry_sequence() is called.
LEMMA LoopingStart ==
  ASSUME Looping, NEW n \in 0 .. MaxRetries, RetrySequence(n) PROVE Looping'
<1>1. fence' = [status |-> "running", max |-> n + 1, calls |-> fence.calls,
                result |-> fence.result, retries |-> fence.retries]
  BY DEF RetrySequence, Looping
<1>2. fence.calls = 0 /\ Len(fence.retries) = 0
  BY DEF RetrySequence, Looping
<1>3. /\ fence'.status = "running" /\ fence'.max = n + 1 /\ fence'.calls = 0
      /\ fence'.result = fence.result /\ fence'.retries = fence.retries
  BY <1>1, <1>2
<1>4. n + 1 \in 1 .. (MaxRetries + 1)
  BY PoliciesAssumption
<1>5. fence' = [status |-> fence'.status, max |-> fence'.max, calls |-> fence'.calls,
                result |-> fence'.result, retries |-> fence'.retries]
  BY <1>1, <1>2, <1>3
<1>6. fence.retries = [i \in 1 .. Len(fence.retries) |-> fence.retries[i]] /\ 0 < n + 1
  BY DEF Looping
<1>7. /\ fence'.max \in 1 .. (MaxRetries + 1) /\ fence'.calls \in Nat /\ fence'.calls < fence'.max
      /\ Len(fence'.retries) = 0 /\ ~(fence'.calls > 0)
  BY <1>2, <1>3, <1>4
<1>8. fence'.retries = [i \in 1 .. Len(fence'.retries) |-> fence'.retries[i]]
  BY <1>3, <1>6
<1>9. \A i \in 1 .. Len(fence'.retries) : FALSE
  BY <1>7
<1> QED BY <1>3, <1>5, <1>7, <1>8, <1>9 DEF Looping

\* One run of the loop's body.
LEMMA LoopingAttempt ==
  ASSUME Looping, NEW verdict \in Verdict, Attempt(verdict) PROVE Looping'
<1> DEFINE attempt == fence.calls + 1
           again == Again(verdict, attempt)
           result == Renumbered(verdict, attempt)
           retries == IF again THEN Append(fence.retries, Retry(verdict, attempt)) ELSE fence.retries
           n == Len(fence.retries)
<1>1. /\ fence.status = "running" /\ fence.calls < fence.max /\ n = fence.calls
      /\ fence.max \in 1 .. (MaxRetries + 1) /\ fence.calls \in Nat
      /\ fence.retries = [i \in 1 .. n |-> fence.retries[i]]
      /\ \A i \in 1 .. n : fence.retries[i] = Retried(i)
      /\ fence = [status |-> fence.status, max |-> fence.max, calls |-> fence.calls,
                  result |-> fence.result, retries |-> fence.retries]
  BY DEF Attempt, Looping
<1>2. fence' = [status |-> IF again THEN "running" ELSE "done", max |-> fence.max,
                calls |-> attempt, result |-> result, retries |-> retries]
  BY <1>1 DEF Attempt
<1>3. /\ attempt \in Nat /\ attempt <= fence.max
      /\ again => attempt < fence.max
      /\ ~again => \/ verdict.class = "ValidationPassed"
                   \/ verdict.class = "FenceValidationFailed" /\ verdict.object.retryable = "False"
                   \/ attempt = fence.max
  BY <1>1, VerdictFacts, PoliciesAssumption DEF Again, Flags
<1>4. ~again => \/ result.class = "ValidationPassed"
                \/ result.object.retryable = "False"
                \/ attempt = fence.max
  BY <1>3, VerdictFacts
<1>5. Retry(verdict, attempt) = Retried(attempt)
  BY VerdictFacts DEF Retry, Retried
<1>6. /\ retries = [i \in 1 .. Len(retries) |-> retries[i]]
      /\ Len(retries) = IF again THEN attempt ELSE fence.calls
      /\ \A i \in 1 .. Len(retries) : retries[i] = Retried(i)
  <2>1. CASE ~again
    BY <1>1, <2>1
  <2>2. CASE again
    <3>1. fence.retries \in Seq({fence.retries[i] : i \in 1 .. n})
      BY <1>1
    <3>2. retries = Append(fence.retries, Retried(attempt))
      BY <2>2, <1>5
    <3>3. Len(retries) = n + 1 /\ \A i \in 1 .. n : retries[i] = fence.retries[i]
      BY <3>1, <3>2
    <3>4. retries[n + 1] = Retried(attempt)
      BY <3>1, <3>2
    <3>5. retries = [i \in 1 .. Len(retries) |-> retries[i]]
      BY <3>1, <3>2
    <3> QED BY <1>1, <2>2, <3>3, <3>4, <3>5
  <2> QED BY <2>1, <2>2
<1> HIDE DEF attempt, again, result, retries, n
<1>7. /\ fence'.status = (IF again THEN "running" ELSE "done") /\ fence'.max = fence.max
      /\ fence'.calls = attempt /\ fence'.result = result /\ fence'.retries = retries
  BY <1>2
<1>8. \A i : Retried(i)' = Retried(i)
  BY <1>7 DEF Retried
<1>9. fence' = [status |-> fence'.status, max |-> fence'.max, calls |-> fence'.calls,
                result |-> fence'.result, retries |-> fence'.retries]
  BY <1>2, <1>7
<1>10. attempt = fence.calls + 1 /\ fence.calls \in Nat /\ Len(retries) \in Nat
  BY <1>1, <1>6 DEF attempt
<1>11. result = Renumbered(verdict, attempt)
  BY DEF result
<1> QED BY <1>1, <1>3, <1>4, <1>6, <1>7, <1>8, <1>9, <1>10, <1>11 DEF Looping

\* output_fn or the validator raises.
LEMMA LoopingRaises == ASSUME Looping, AttemptRaises PROVE Looping'
<1>1. fence' = [status |-> "raised", max |-> fence.max, calls |-> fence.calls + 1,
                result |-> Nothing, retries |-> <<>>]
  BY DEF AttemptRaises, Looping
<1>2. /\ fence'.status = "raised" /\ fence'.max = fence.max /\ fence'.calls = fence.calls + 1
      /\ fence'.result = Nothing /\ fence'.retries = <<>>
  BY <1>1
<1> QED BY <1>1, <1>2 DEF Looping

\* Every step keeps the loop's invariant.
LEMMA LoopingNext == ASSUME Looping, [LifeNext]_lifeVars PROVE Looping'
<1>1. CASE Fence
  BY <1>1, LoopingStart, LoopingAttempt, LoopingRaises DEF Fence
<1>2. CASE UNCHANGED fence
  BY <1>2, LoopingSame
<1>3. CASE LifeNext /\ ~Fence
  <2>1. UNCHANGED fence
    BY <1>3 DEF LifeNext, Build, Policy, TakeFrom, Handle, EmitAny, Emit, Redact, Sign, Json, Model,
                Keep
  <2> QED BY <2>1, LoopingSame
<1> QED BY <1>1, <1>2, <1>3 DEF lifeVars


\* A retry event that is announced can be built.
LEMMA RetryConstructs ==
  ASSUME Looping, NEW i \in Nat, 0 < i, i < fence.max
  PROVE  Constructs("RetryTriggered", Retried(i).object)
<1> DEFINE o == Retried(i).object
           P == RetryTriggeredPayload
<1>1. /\ o.validator_id = "'a'" /\ o.attempt = Numeral[i + 1] /\ o.max_attempts = Numeral[fence.max]
      /\ o.previous_error = "'a'" /\ o.strategy = "'a'"
  BY DEF Retried
<1>2. fence.max \in Nat /\ i + 1 \in DOMAIN Numeral /\ fence.max \in DOMAIN Numeral
  BY NumeralAssumption, PoliciesAssumption DEF Looping
<1>3. /\ "'a'" \in Name.takes /\ "'a'" \in Unchecked.takes /\ "'a'" \in ChoiceOr.takes
      /\ \A j \in DOMAIN Numeral : Numeral[j] \in Positive.takes
  <2>1. /\ Name.takes = Texts \ {"''"} /\ Unchecked.takes = Plain \cup {None} /\ ChoiceOr.takes = {"'a'"}
        /\ Positive.takes = Wholes \ {"-1", "0", "False"}
    BY DEF Name, Unchecked, ChoiceOr, Positive, Required, Optional, Default, Kind
  <2>2. \A j \in DOMAIN Numeral : Numeral[j] \in Numerals
    BY DEF Numerals
  <2> QED BY <2>1, <2>2, Apart DEF Plain, Texts, Wholes, Flags
<1>4. Classes["RetryTriggered"] = P
  BY DEF Classes
<1>5. \A f \in Fields("RetryTriggered") : o[f] \in Classes["RetryTriggered"][f].takes
  BY <1>1, <1>2, <1>3, <1>4 DEF Fields, RetryTriggeredPayload
<1>6. Coherent("RetryTriggered", o)
  <2>1. Twice[o.attempt] = 2 * (i + 1) /\ Twice[o.max_attempts] = 2 * fence.max
    BY <1>1, <1>2, TwiceFacts
  <2>2. Twice[o.attempt] <= Twice[o.max_attempts]
    BY <1>2, <2>1
  <2> HIDE DEF o
  <2> QED BY <2>2 DEF Coherent
<1> QED BY <1>5, <1>6 DEF Constructs

\* The loop's invariant is what the property says, and more.
LEMMA LoopingAddsUp == Looping => RetriesAddUp
<1> SUFFICES ASSUME Looping, fence.status \in {"running", "done"}, fence.calls > 0
             PROVE  RetriesAddUp
  BY DEF RetriesAddUp
<1> DEFINE pending == IF fence.status = "running" THEN 1 ELSE 0
           n == Len(fence.retries)
<1>1. PICK verdict \in Verdict : fence.result = Renumbered(verdict, fence.calls)
  BY DEF Looping
<1>2. fence.result.object.attempt = Numeral[fence.calls]
  BY <1>1, VerdictFacts
<1>3. /\ n \in Nat /\ fence.calls \in Nat /\ fence.max \in Nat /\ n + 1 = fence.calls + pending
      /\ n < fence.max
  BY PoliciesAssumption DEF Looping
<1>4. ASSUME NEW i \in DOMAIN fence.retries
      PROVE  /\ fence.retries[i].object.attempt = Numeral[i + 1]
             /\ Constructs(fence.retries[i].class, fence.retries[i].object)
  <2>1. i \in 1 .. n /\ fence.retries[i] = Retried(i)
    BY DEF Looping
  <2>2. Retried(i).class = "RetryTriggered" /\ Retried(i).object.attempt = Numeral[i + 1]
    BY DEF Retried
  <2>3. i \in Nat /\ 0 < i /\ i < fence.max
    BY <1>3, <2>1
  <2> QED BY <2>1, <2>2, <2>3, RetryConstructs
<1>5. fence.status = "done" => \/ fence.result.class = "ValidationPassed"
                               \/ fence.result.object.retryable = "False"
                               \/ fence.calls = fence.max
  BY DEF Looping
<1> QED BY <1>2, <1>3, <1>4, <1>5 DEF RetriesAddUp

\* retry_sequence() announces exactly the attempts that follow, with their
\* numbers, for every bound on max_retries, whatever the validator answers and
\* wherever it raises (namespaces/fence.py: retry_sequence, validate).
THEOREM RetriesAddUpHolds == LifeSpec => []RetriesAddUp
<1>1. LifeSpec => []Looping
  BY LoopingInit, LoopingNext, PTL DEF LifeSpec
<1> QED BY <1>1, LoopingAddsUp, PTL

-----------------------------------------------------------------------------
(***************************************************************************)
(* What is hidden and what is signed.  Each needs more than itself: a      *)
(* field can only be shown once it is no longer wrapped, and a signature   *)
(* can only be given then, so nothing is left to redact.                   *)
(***************************************************************************)
\* What redaction leaves, of any value.
Replaced == {"['#']", "{'a':'#'}", "{obj#}", "[{obj#}]"} \cup Markers

\* Every field the application wrapped is wrapped yet, or was replaced.
Hidden ==
  /\ made = Nothing => secrets = {}
  /\ event # Nothing =>
       \A f \in secrets \cap DOMAIN event.payload :
         f \in DOMAIN event.wraps \/ event.payload[f] \in Replaced

\* After sign() nothing is wrapped, and the payload is the signed one but for
\* the keys that JSON turned into texts.
Sealed ==
  event # Nothing /\ event.seal # Nothing =>
    /\ event.wraps = NoWraps
    /\ event.payload = [f \in DOMAIN event.payload |-> event.payload[f]]
    /\ event.seal = [payload |-> event.seal.payload, count |-> event.count]
    /\ event.seal.payload = [f \in DOMAIN event.payload |-> event.seal.payload[f]]
    /\ \A f \in DOMAIN event.payload :
         event.payload[f] = event.seal.payload[f] \/ event.seal.payload[f] = "intkeys"

\* What the event is, as far as the two need it.
Formed ==
  event # Nothing =>
    /\ event = [payload |-> event.payload, wraps |-> event.wraps, count |-> event.count,
                env |-> event.env, seal |-> event.seal]
    /\ event.payload = [f \in DOMAIN event.payload |-> event.payload[f]]
    /\ event.wraps = [f \in DOMAIN event.wraps |-> event.wraps[f]]
    /\ \A f \in DOMAIN event.wraps : event.wraps[f] \in Wrap

LifeInv == Hidden /\ Sealed /\ Formed

\* Steps that build a payload leave the event alone.
LEMMA BuildingLife ==
  ASSUME LifeInv, UNCHANGED <<event, secrets>>, made' = Nothing => made = Nothing
  PROVE  LifeInv'
BY DEF LifeInv, Hidden, Sealed, Formed, Replaced

LEMMA NewEventLife ==
  ASSUME LifeInv, NEW payload, NEW wraps, NEW envelope,
         payload = [f \in DOMAIN payload |-> payload[f]],
         wraps = [f \in DOMAIN wraps |-> wraps[f]],
         made' = Nothing => DOMAIN wraps = {},
         \A f \in DOMAIN wraps : wraps[f] \in Wrap,
         event' = Event(payload, wraps, envelope), secrets' = DOMAIN wraps
  PROVE  LifeInv'
<1>1. /\ event'.payload = payload /\ event'.wraps = wraps /\ event'.count = 0 /\ event'.env = envelope
      /\ event'.seal = Nothing
      /\ event' = [payload |-> payload, wraps |-> wraps, count |-> 0, env |-> envelope, seal |-> Nothing]
  BY DEF Event
<1>2. Hidden'
  BY <1>1 DEF Hidden
<1>3. Sealed'
  BY <1>1 DEF Sealed
<1>4. Formed'
  BY <1>1 DEF Formed
<1> QED BY <1>2, <1>3, <1>4 DEF LifeInv

\* RedactionPolicy.apply()
LEMMA RedactLife ==
  ASSUME LifeInv, NEW min, Redact(min) PROVE LifeInv'
<1> DEFINE due == Due(event, min)
           kept == StillWrapped(event, due, min)
           payload == [f \in DOMAIN event.payload |->
                         IF f \in due THEN WithMarker(event, f) ELSE event.payload[f]]
           wraps == [f \in kept |-> event.wraps[f]]
           count == Stamp(event, due)
<1>1. /\ event # Nothing /\ UNCHANGED <<made, secrets>>
      /\ event' = [event EXCEPT !.payload = payload, !.wraps = wraps, !.count = count]
  BY DEF Redact, Keep, Apply
<1>2. due \subseteq DOMAIN event.wraps /\ kept = DOMAIN event.wraps \ due
  BY DEF Due, StillWrapped
<1>3. \A f : WithMarker(event, f) \in Replaced \/ f \notin due
  <2> SUFFICES ASSUME NEW f \in due PROVE WithMarker(event, f) \in Replaced
    OBVIOUS
  <2>1. event.wraps[f].sens \in {"medium", "pii"}
    BY <1>1, <1>2 DEF LifeInv, Formed, Wrap, Sensitivity
  <2>2. Marker[event.wraps[f].sens] \in Replaced
    <3>1. Marker["medium"] = "'#medium'" /\ Marker["pii"] = "'#pii'"
      BY DEF Marker
    <3> QED BY <2>1, <3>1 DEF Markers, Replaced
  <2>3. \A v \in DOMAIN Marked : Marked[v] \in Replaced
    BY DEF Marked, Replaced
  <2> QED BY <2>2, <2>3 DEF WithMarker, Replaced
<1>4. due = {} => count = event.count
  BY DEF Stamp
<1> HIDE DEF due, kept, payload, wraps, count
<1>5. event = [payload |-> event.payload, wraps |-> event.wraps, count |-> event.count,
               env |-> event.env, seal |-> event.seal]
  BY <1>1 DEF LifeInv, Formed
<1>6. event' = [payload |-> payload, wraps |-> wraps, count |-> count,
                env |-> event.env, seal |-> event.seal]
  BY <1>1, <1>5
<1>7. /\ event'.payload = payload /\ event'.wraps = wraps /\ event'.seal = event.seal
      /\ event'.count = count /\ event'.env = event.env
  BY <1>6
<1>8. /\ DOMAIN payload = DOMAIN event.payload /\ DOMAIN wraps = kept
      /\ \A f \in DOMAIN payload :
           payload[f] = IF f \in due THEN WithMarker(event, f) ELSE event.payload[f]
      /\ \A f \in kept : wraps[f] = event.wraps[f]
      /\ payload = [f \in DOMAIN payload |-> payload[f]]
      /\ wraps = [f \in DOMAIN wraps |-> wraps[f]]
  BY DEF payload, wraps
<1>9. Formed'
  <2>1. \A f \in DOMAIN wraps : wraps[f] \in Wrap
    BY <1>1, <1>2, <1>8 DEF LifeInv, Formed
  <2> QED BY <1>6, <1>7, <1>8, <2>1 DEF Formed
<1>10. Hidden'
  <2>1. ASSUME NEW f \in secrets, f \in DOMAIN payload
        PROVE  f \in DOMAIN wraps \/ payload[f] \in Replaced
    <3>1. f \in DOMAIN event.wraps \/ event.payload[f] \in Replaced
      BY <1>1, <1>8, <2>1 DEF LifeInv, Hidden
    <3> QED BY <1>2, <1>3, <1>8, <2>1, <3>1
  <2> QED BY <1>1, <1>7, <2>1 DEF LifeInv, Hidden, Replaced
<1>11. Sealed'
  <2> SUFFICES ASSUME event.seal # Nothing PROVE Sealed'
    BY <1>7 DEF Sealed
  <2>1. /\ event.wraps = NoWraps
        /\ event.seal = [payload |-> event.seal.payload, count |-> event.count]
        /\ event.seal.payload = [f \in DOMAIN event.payload |-> event.seal.payload[f]]
        /\ \A f \in DOMAIN event.payload :
             event.payload[f] = event.seal.payload[f] \/ event.seal.payload[f] = "intkeys"
    BY <1>1 DEF LifeInv, Sealed
  <2>2. due = {} /\ kept = {}
    BY <1>2, <2>1 DEF NoWraps
  <2>3. wraps = NoWraps
    BY <2>2 DEF wraps, NoWraps
  <2>4. payload = event.payload
    <3>1. event.payload = [f \in DOMAIN event.payload |-> event.payload[f]]
      BY <1>1 DEF LifeInv, Formed
    <3>2. \A f \in DOMAIN payload : payload[f] = event.payload[f]
      BY <1>8, <2>2
    <3> QED BY <1>8, <3>1, <3>2
  <2> QED BY <1>1, <1>4, <1>7, <1>8, <2>1, <2>2, <2>3, <2>4 DEF Sealed
<1> QED BY <1>9, <1>10, <1>11 DEF LifeInv

\* sign()
LEMMA SignLife ==
  ASSUME LifeInv, Sign PROVE LifeInv'
<1>1. /\ event # Nothing /\ UNCHANGED <<made, secrets>> /\ event.wraps = NoWraps
      /\ event' = [event EXCEPT !.seal = [payload |-> event.payload, count |-> event.count]]
  BY DEF Sign, Keep, Seal, Content, Serialisable
<1>2. /\ event = [payload |-> event.payload, wraps |-> event.wraps, count |-> event.count,
                  env |-> event.env, seal |-> event.seal]
      /\ event.payload = [f \in DOMAIN event.payload |-> event.payload[f]]
      /\ event.wraps = [f \in DOMAIN event.wraps |-> event.wraps[f]]
      /\ \A f \in DOMAIN event.wraps : event.wraps[f] \in Wrap
  BY <1>1 DEF LifeInv, Formed
<1>3. event' = [payload |-> event.payload, wraps |-> event.wraps, count |-> event.count,
                env |-> event.env, seal |-> [payload |-> event.payload, count |-> event.count]]
  BY <1>1, <1>2
<1>4. /\ event'.payload = event.payload /\ event'.wraps = event.wraps
      /\ event'.count = event.count /\ event'.env = event.env
      /\ event'.seal = [payload |-> event.payload, count |-> event.count]
  BY <1>3
<1>5. event'.seal.payload = event.payload
  BY <1>4
<1>6. Hidden'
  BY <1>1, <1>4 DEF LifeInv, Hidden, Replaced
<1>7. Sealed'
  BY <1>1, <1>2, <1>4, <1>5 DEF Sealed
<1>8. Formed'
  BY <1>2, <1>3, <1>4 DEF Formed
<1> QED BY <1>6, <1>7, <1>8 DEF LifeInv

\* to_json() and from_json()
LEMMA JsonLife ==
  ASSUME LifeInv, Json PROVE LifeInv'
<1> DEFINE payload == [f \in DOMAIN event.payload |-> Reread(event.payload[f])]
<1>1. /\ event # Nothing /\ UNCHANGED <<made, secrets>> /\ event.wraps = NoWraps
      /\ event' = [event EXCEPT !.payload = payload]
  BY DEF Json, Keep, ThroughJson, Serialisable
<1>2. /\ event = [payload |-> event.payload, wraps |-> event.wraps, count |-> event.count,
                  env |-> event.env, seal |-> event.seal]
      /\ event.wraps = [f \in DOMAIN event.wraps |-> event.wraps[f]]
      /\ \A f \in DOMAIN event.wraps : event.wraps[f] \in Wrap
  BY <1>1 DEF LifeInv, Formed
<1>3. /\ DOMAIN payload = DOMAIN event.payload
      /\ payload = [f \in DOMAIN payload |-> payload[f]]
      /\ \A f \in DOMAIN payload : payload[f] = event.payload[f] \/ event.payload[f] = "intkeys"
  BY DEF Reread
<1> HIDE DEF payload
<1>4. event' = [payload |-> payload, wraps |-> event.wraps, count |-> event.count,
                env |-> event.env, seal |-> event.seal]
  BY <1>1, <1>2
<1>5. /\ event'.payload = payload /\ event'.wraps = event.wraps
      /\ event'.count = event.count /\ event'.env = event.env /\ event'.seal = event.seal
  BY <1>4
<1>6. Hidden'
  <2>1. "intkeys" \notin Replaced
    BY DEF Replaced, Markers
  <2>2. ASSUME NEW f \in secrets, f \in DOMAIN payload
        PROVE  f \in DOMAIN event.wraps \/ payload[f] \in Replaced
    BY <1>1, <1>3, <2>1, <2>2 DEF LifeInv, Hidden
  <2> QED BY <1>1, <1>5, <2>2 DEF LifeInv, Hidden, Replaced
<1>7. Sealed'
  BY <1>1, <1>3, <1>5 DEF LifeInv, Sealed
<1>8. Formed'
  BY <1>2, <1>3, <1>4, <1>5 DEF Formed
<1> QED BY <1>6, <1>7, <1>8 DEF LifeInv

\* EventModel.from_event(e).to_event()
LEMMA ModelLife ==
  ASSUME LifeInv, Model PROVE LifeInv'
<1>1. /\ event # Nothing /\ UNCHANGED <<made, secrets>>
      /\ event' = [Event(event.payload, event.wraps, event.env) EXCEPT
                     !.count = event.count, !.seal = event.seal]
  BY DEF Model, Keep, ThroughModel
<1>2. event = [payload |-> event.payload, wraps |-> event.wraps, count |-> event.count,
               env |-> event.env, seal |-> event.seal]
  BY <1>1 DEF LifeInv, Formed
<1>3. event' = [payload |-> event.payload, wraps |-> event.wraps, count |-> event.count,
                env |-> event.env, seal |-> event.seal]
  BY <1>1 DEF Event
<1>4. event' = event
  BY <1>2, <1>3
<1> QED BY <1>1, <1>4, BuildingLife

\* Every value is wrapped where it can be, with a sensitivity that there is.
LEMMA WrappingsFacts ==
  ASSUME NEW payload, NEW wraps \in Wrappings(payload)
  PROVE  /\ wraps = [f \in DOMAIN wraps |-> wraps[f]] /\ DOMAIN wraps \subseteq DOMAIN payload
         /\ \A f \in DOMAIN wraps :
              wraps[f] \in Wrap /\ wraps[f].place \in Wrappable(payload[f])
<1>1. CASE wraps \in OneWrapped(payload)
  <2>1. PICK f \in DOMAIN payload :
          wraps \in [{f} -> {w \in Wrap : w.place \in Wrappable(payload[f])}]
    BY <1>1 DEF OneWrapped
  <2>2. \A x \in DOMAIN wraps : wraps[x] \in Wrap /\ wraps[x].place \in Wrappable(payload[x])
    BY <2>1
  <2> QED BY <2>1, <2>2
<1>2. CASE wraps \in TwoWrapped(payload)
  <2>1. PICK two \in {fs \in SUBSET DOMAIN payload : Cardinality(fs) = 2} :
          wraps \in [two -> [sens : DOMAIN Sensitivity, place : {"field"}]]
    BY <1>2 DEF TwoWrapped
  <2>2. \A x \in DOMAIN wraps : wraps[x] \in [sens : DOMAIN Sensitivity, place : {"field"}]
    BY <2>1
  <2>3. \A x \in DOMAIN wraps : wraps[x] \in Wrap /\ wraps[x].place \in Wrappable(payload[x])
    BY <2>2 DEF Wrap, Place, Wrappable
  <2> QED BY <2>1, <2>3
<1> QED BY <1>1, <1>2 DEF Wrappings

\* The application makes an event of the payload.
LEMMA EmitLife ==
  ASSUME LifeInv, EmitAny PROVE LifeInv'
<1>1. PICK drop, wraps, envelope :
        /\ Emit(drop, wraps, envelope) /\ made # Nothing
        /\ wraps = [f \in DOMAIN wraps |-> wraps[f]]
        /\ \A f \in DOMAIN wraps : wraps[f] \in Wrap
  <2> DEFINE Bare == \E drop, envelope : Emit(drop, NoWraps, envelope)
             Secret == \E wraps \in Wrappings(ToDict(made.class, made.object)) :
                          Emit({}, wraps, GoodEnvelope)
  <2>1. made # Nothing /\ (Bare \/ Secret)
    BY DEF EmitAny
  <2>2. DOMAIN NoWraps = {} /\ NoWraps = [f \in DOMAIN NoWraps |-> NoWraps[f]]
    BY DEF NoWraps
  <2>3. CASE Bare
    BY <2>1, <2>2, <2>3
  <2>4. CASE Secret
    BY <2>1, <2>4, WrappingsFacts
  <2> QED BY <2>1, <2>3, <2>4
<1> DEFINE sent == ToDict(made.class, made.object)
           payload == [f \in DOMAIN sent \ drop |-> sent[f]]
<1>2. event' = Event(payload, wraps, envelope) /\ secrets' = DOMAIN wraps /\ made' # Nothing
  BY <1>1 DEF Emit
<1>3. payload = [f \in DOMAIN payload |-> payload[f]]
  OBVIOUS
<1> HIDE DEF payload
<1> QED BY <1>1, <1>2, <1>3, NewEventLife

\* The LlamaIndex handler makes an event of its own payload.
LEMMA HandleLife ==
  ASSUME LifeInv, NEW payload \in HandlerPayloads, Handle(payload) PROVE LifeInv'
<1> DEFINE envelope == [GoodEnvelope EXCEPT !.source = "bare", !.trace = "none"]
<1>1. /\ made = Nothing /\ UNCHANGED secrets
      /\ event' = Event(payload, NoWraps, envelope)
  BY DEF Handle
<1>2. secrets' = {} /\ DOMAIN NoWraps = {}
  BY <1>1 DEF LifeInv, Hidden, NoWraps
<1>3. payload = [f \in DOMAIN payload |-> payload[f]]
  BY DEF HandlerPayloads
<1> HIDE DEF envelope
<1>4. /\ NoWraps = [f \in DOMAIN NoWraps |-> NoWraps[f]]
      /\ \A f \in DOMAIN NoWraps : NoWraps[f] \in Wrap
  BY DEF NoWraps
<1> QED BY <1>1, <1>2, <1>3, <1>4, NewEventLife

\* Nothing was built yet.
LEMMA InitLife == ASSUME LifeInit PROVE LifeInv
BY DEF LifeInit, LifeInv, Hidden, Sealed, Formed

\* The invariant of what is hidden and signed holds.
LEMMA LifeInvariance == LifeSpec => []LifeInv
<1>1. ASSUME LifeInv, LifeNext PROVE LifeInv'
  <2>1. ASSUME NEW b, Build(b) PROVE LifeInv'
    BY <1>1, <2>1, BuildingLife DEF Build
  <2>2. CASE Policy \/ Fence
    BY <1>1, <2>2, BuildingLife DEF Policy, TakeFrom, Fence
  <2> QED BY <1>1, <2>1, <2>2, HandleLife, EmitLife, RedactLife, SignLife, JsonLife, ModelLife
          DEF LifeNext
<1>2. ASSUME LifeInv, UNCHANGED lifeVars PROVE LifeInv'
  BY <1>2, BuildingLife DEF lifeVars
<1> QED BY <1>1, <1>2, InitLife, PTL DEF LifeSpec

\* An exporter shows a field that is not wrapped, a placeholder or nothing.
LEMMA ShownFacts ==
  ASSUME NEW e, NEW x \in Exporters, NEW f \in DOMAIN e.payload
  PROVE  \/ Shown(x, e, f) \in {"nothing", "placeholder"}
         \/ f \notin DOMAIN e.wraps /\ Shown(x, e, f) = e.payload[f]
<1>1. CASE x = "json"
  BY <1>1 DEF Shown, ExportRaises, Serialisable, NoWraps
<1>2. CASE x = "otlp"
  BY <1>2 DEF Shown, ExportRaises, OtlpWrites
<1>3. CASE x = "datadog"
  BY <1>3 DEF Shown, ExportRaises, DatadogWrites
<1>4. CASE x = "otel"
  BY <1>4 DEF Shown, ExportRaises, OtelWrites
<1> QED BY <1>1, <1>2, <1>3, <1>4 DEF Exporters

\* Whatever is redacted, signed, reread and exported, in any order, no exporter
\* writes a value that the application wrapped (redact.py: _redact_value;
\* event.py: to_json; export/: to_otlp_span, to_dd_span, export of the bridge).
THEOREM NothingLeaksHolds == LifeSpec => []NothingLeaks
<1>1. LifeInv => NothingLeaks
  <2> SUFFICES ASSUME LifeInv, event # Nothing, NEW x \in Exporters,
                      NEW f \in secrets, f \in DOMAIN event.payload
               PROVE  Shown(x, event, f) \in {"nothing", "placeholder"} \cup Replaced
    BY DEF NothingLeaks, Replaced
  <2> QED BY ShownFacts DEF LifeInv, Hidden
<1> QED BY <1>1, LifeInvariance, PTL

\* A signature outlasts redaction, JSON and the model, but for a dictionary
\* whose keys are numbers (signing.py: sign, verify; redact.py: apply).
THEOREM SignatureLastsHolds == LifeSpec => []SignatureLasts
<1>1. LifeInv => SignatureLasts
  <2> SUFFICES ASSUME LifeInv, event # Nothing, event.seal # Nothing,
                      \A f \in DOMAIN event.payload : event.seal.payload[f] # "intkeys"
               PROVE  Verifies(event)
    BY DEF SignatureLasts
  <2>1. /\ event.payload = [f \in DOMAIN event.payload |-> event.payload[f]]
        /\ event.seal = [payload |-> event.seal.payload, count |-> event.count]
        /\ event.seal.payload = [f \in DOMAIN event.payload |-> event.seal.payload[f]]
        /\ \A f \in DOMAIN event.payload : event.payload[f] = event.seal.payload[f]
    BY DEF LifeInv, Sealed
  <2>2. event.payload = event.seal.payload
    BY <2>1
  <2> QED BY <2>1, <2>2 DEF Verifies, Content
<1> QED BY <1>1, LifeInvariance, PTL

-----------------------------------------------------------------------------
(***************************************************************************)
(* Where the fields of an event come from: the invariant that relates      *)
(* the payload, whatever happened to it, to the object that was built.     *)
(***************************************************************************)
\* An object that was built.
Built(b) ==
  /\ b.class \in Class
  /\ b = [class |-> b.class, object |-> b.object]
  /\ b.object = [f \in Fields(b.class) |-> b.object[f]]
  /\ Constructs(b.class, b.object)

Handled(b) == b.class = "handler" /\ b.object \in HandlerPayloads

\* What is sent for field f.
Value(f) == Dictionary(made.object[f])

\* Where each field of the payload came from, in an event made of an object.
Drawn(e) ==
  /\ dropped \subseteq Fields(made.class)
  /\ DOMAIN e.payload = Given(made.class, made.object) \ dropped
  /\ secrets \subseteq DOMAIN e.payload
  /\ DOMAIN e.wraps \subseteq secrets
  /\ \A f \in DOMAIN e.payload \ secrets : e.payload[f] \in {Value(f), Reread(Value(f))}
  /\ \A f \in DOMAIN e.wraps : e.payload[f] = Value(f) /\ e.wraps[f].place \in Wrappable(Value(f))
  /\ \A f \in secrets \ DOMAIN e.wraps : e.payload[f] \in Marks(Value(f))

\* The object was accepted by its constructor, and the event is made of it.
Origin ==
  /\ made # Nothing => Built(made) \/ Handled(made)
  /\ event # Nothing =>
       /\ made # Nothing
       /\ made.class = "handler" =>
            secrets = {} /\ dropped = {} /\ event.wraps = NoWraps /\ event.payload = made.object
       /\ made.class # "handler" => Drawn(event)
  /\ made = Nothing => secrets = {} /\ dropped = {}

\* What a constructor takes is a value, and None where None is left out.
LEMMA TakesFacts ==
  ASSUME NEW c \in Class, NEW f \in Fields(c)
  PROVE  /\ Classes[c][f].takes \subseteq Values
         /\ Classes[c][f].default = None => None \in Classes[c][f].takes /\ Classes[c][f].absent = None
<1>1. CASE Classes[c][f] \in Kinds
  BY <1>1, FairKinds DEF Fair
<1>2. CASE Classes[c][f] = Action
  <2>1. Action.takes = Plain /\ Action.default = "'a'"
    BY DEF Action, Default, Kind
  <2> QED BY <1>2, <2>1 DEF Values, None
<1> QED BY <1>1, <1>2, FieldFacts

\* An object that was built is one of its class.
LEMMA BuiltFacts ==
  ASSUME NEW b, Built(b)
  PROVE  b \in ObjectsOf(b.class) /\ b # Nothing /\ b.class # "handler"
<1>1. b.class \in Class /\ b = [class |-> b.class, object |-> b.object]
  BY DEF Built
<1>2. \A f \in Fields(b.class) : b.object[f] \in Values
  BY <1>1, TakesFacts DEF Built, Constructs
<1>3. b.object \in [Fields(b.class) -> Values]
  BY <1>2 DEF Built
<1>4. b \in ObjectsOf(b.class)
  BY <1>1, <1>3 DEF ObjectsOf
<1>5. "handler" \notin Class
  BY DEF Class, Classes
<1> QED BY <1>1, <1>4, <1>5, LifecycleAssumption

\* The application's objects.
LEMMA TriedBuilt == ASSUME NEW b \in Tried, Constructs(b.class, b.object) PROVE Built(b)
<1>1. PICK c \in Class : b \in ObjectsOf(c)
  BY LifecycleAssumption
<1>2. b.class = c /\ b = [class |-> b.class, object |-> b.object] /\ b.object \in [Fields(c) -> Values]
  BY <1>1 DEF ObjectsOf
<1> QED BY <1>1, <1>2 DEF Built

\* The fields of the payloads that the policies make.
LEMMA PolicyFields ==
  /\ {"ValidationPassed", "FenceValidationFailed", "RetryTriggered", "GuardBlocked", "GuardFlagged",
      "VariableMissing", "TemplateValidationFailed", "TemplateRendered"} \subseteq Class
  /\ Fields("ValidationPassed") = {"validator_id", "format_type", "attempt", "duration_ms"}
  /\ Fields("FenceValidationFailed") =
       {"validator_id", "format_type", "errors", "attempt", "retryable"}
  /\ Fields("RetryTriggered") =
       {"validator_id", "attempt", "max_attempts", "previous_error", "strategy"}
  /\ Fields("VariableMissing") = {"template_id", "missing_variables", "required_variables"}
  /\ Fields("TemplateValidationFailed") = {"template_id", "validation_errors", "validator"}
  /\ Fields("TemplateRendered") =
       {"template_id", "template_version", "variable_count", "render_duration_ms", "output_length"}
<1>1. /\ Classes["ValidationPassed"] = ValidationPassedPayload
      /\ Classes["FenceValidationFailed"] = FenceValidationFailedPayload
      /\ Classes["RetryTriggered"] = RetryTriggeredPayload
      /\ Classes["VariableMissing"] = VariableMissingPayload
      /\ Classes["TemplateValidationFailed"] = TemplateValidationFailedPayload
      /\ Classes["TemplateRendered"] = TemplateRenderedPayload
  BY DEF Classes
<1>2. {"ValidationPassed", "FenceValidationFailed", "RetryTriggered", "GuardBlocked", "GuardFlagged",
       "VariableMissing", "TemplateValidationFailed", "TemplateRendered"} \subseteq Class
  BY DEF Class, Classes
<1> QED BY <1>1, <1>2 DEF Fields, ValidationPassedPayload, FenceValidationFailedPayload,
           RetryTriggeredPayload, VariableMissingPayload, TemplateValidationFailedPayload,
           TemplateRenderedPayload

\* The result of validate().
LEMMA VerdictBuilt ==
  ASSUME NEW verdict \in Verdict, NEW n,
         NEW r, r = Renumbered(verdict, n), Constructs(r.class, r.object)
  PROVE  Built(r)
<1>1. CASE verdict.class = "ValidationPassed"
  <2>1. verdict \in [class : {"ValidationPassed"},
                     object : [validator_id : {"'a'"}, format_type : {"'a'"}, attempt : Numerals,
                               duration_ms : {None}]]
    BY <1>1 DEF Verdict
  <2>2. r = [class |-> "ValidationPassed",
             object |-> [validator_id |-> "'a'", format_type |-> "'a'", attempt |-> Numeral[n],
                         duration_ms |-> None]]
    BY <2>1 DEF Renumbered
  <2>3. r.class = "ValidationPassed"
        /\ r.object = [validator_id |-> "'a'", format_type |-> "'a'", attempt |-> Numeral[n],
                       duration_ms |-> None]
    BY <2>2
  <2>4. DOMAIN r.object = Fields("ValidationPassed")
    BY <2>3, PolicyFields
  <2> QED BY <2>2, <2>3, <2>4, PolicyFields DEF Built
<1>2. CASE verdict.class = "FenceValidationFailed"
  <2>1. verdict \in [class : {"FenceValidationFailed"},
                     object : [validator_id : {"'a'"}, format_type : {"'a'"}, errors : {"['a']"},
                               attempt : Numerals, retryable : Flags]]
    BY <1>2 DEF Verdict
  <2>2. r = [class |-> "FenceValidationFailed",
             object |-> [validator_id |-> "'a'", format_type |-> "'a'", errors |-> "['a']",
                         attempt |-> Numeral[n], retryable |-> verdict.object.retryable]]
    BY <2>1 DEF Renumbered
  <2>3. r.class = "FenceValidationFailed"
        /\ r.object = [validator_id |-> "'a'", format_type |-> "'a'", errors |-> "['a']",
                       attempt |-> Numeral[n], retryable |-> verdict.object.retryable]
    BY <2>2
  <2>4. DOMAIN r.object = Fields("FenceValidationFailed")
    BY <2>3, PolicyFields
  <2> QED BY <2>2, <2>3, <2>4, PolicyFields DEF Built
<1> QED BY <1>1, <1>2 DEF Verdict

\* What retry_sequence() returns.
LEMMA ReturnedBuilt ==
  ASSUME Looping, NEW r \in Returned, Constructs(r.class, r.object) PROVE Built(r)
<1>1. fence.status = "done" /\ fence.calls > 0
  BY DEF Returned, Looping
<1>2. CASE r = fence.result
  BY <1>1, <1>2, VerdictBuilt DEF Looping
<1>3. CASE r # fence.result
  <2>1. PICK i \in DOMAIN fence.retries : r = fence.retries[i]
    BY <1>1, <1>3 DEF Returned
  <2>2. r = Retried(i)
    BY <2>1 DEF Looping
  <2>3. /\ r = [class |-> r.class, object |-> r.object] /\ r.class = "RetryTriggered"
        /\ r.object = [f \in DOMAIN r.object |-> r.object[f]]
        /\ DOMAIN r.object = {"validator_id", "attempt", "max_attempts", "previous_error", "strategy"}
    BY <2>2 DEF Retried
  <2> QED BY <2>3, PolicyFields DEF Built
<1> QED BY <1>2, <1>3

\* What GuardPolicy makes.
LEMMA GuardBuilt ==
  ASSUME NEW r \in GuardMakes, Constructs(r.class, r.object) PROVE Built(r)
<1>1. PICK class, hash, subject, listed :
        class \in {"GuardBlocked", "GuardFlagged"} /\ r = Unconfigured(class, hash, subject, listed)
  BY DEF GuardMakes
<1>2. /\ r.class = class /\ r = [class |-> r.class, object |-> r.object]
      /\ r.object = [f \in Fields(class) |->
                       IF f = hash THEN subject ELSE IF f = listed THEN "['a']" ELSE "'a'"]
  BY <1>1 DEF Unconfigured
<1> QED BY <1>1, <1>2, PolicyFields DEF Built

\* What TemplatePolicy makes.
LEMMA TemplateBuilt ==
  ASSUME NEW r \in TemplateMakes, Constructs(r.class, r.object) PROVE Built(r)
<1>1. PICK required : r \in TemplateWith(required)
  BY DEF TemplateMakes
<1>2. \/ \E provided : r \in ValidateVariables(required, provided)
      \/ \E error : r \in ValidateOutput(required, error)
  BY <1>1 DEF TemplateWith
<1>3. ASSUME NEW provided, r \in ValidateVariables(required, provided) PROVE Built(r)
  <2>1. r = [class |-> "VariableMissing",
             object |-> [template_id |-> "'a'",
                         missing_variables |-> ListWith(Items[required] \ provided),
                         required_variables |-> required]]
    BY <1>3 DEF ValidateVariables
  <2>2. /\ r = [class |-> r.class, object |-> r.object] /\ r.class = "VariableMissing"
        /\ r.object = [f \in DOMAIN r.object |-> r.object[f]]
        /\ DOMAIN r.object = {"template_id", "missing_variables", "required_variables"}
    BY <2>1
  <2> QED BY <2>2, PolicyFields DEF Built
<1>4. ASSUME NEW error, r \in ValidateOutput(required, error), error # "''" PROVE Built(r)
  <2>1. r = [class |-> "TemplateValidationFailed",
             object |-> [template_id |-> "'a'", validation_errors |-> "['a']", validator |-> "'a'"]]
    BY <1>4 DEF ValidateOutput
  <2>2. /\ r = [class |-> r.class, object |-> r.object] /\ r.class = "TemplateValidationFailed"
        /\ r.object = [f \in DOMAIN r.object |-> r.object[f]]
        /\ DOMAIN r.object = {"template_id", "validation_errors", "validator"}
    BY <2>1
  <2> QED BY <2>2, PolicyFields DEF Built
<1>5. ASSUME NEW error, r \in ValidateOutput(required, error), error = "''" PROVE Built(r)
  <2>1. r = [class |-> "TemplateRendered",
             object |-> [template_id |-> "'a'", template_version |-> "'a'",
                         variable_count |-> Written(Cardinality(Items[required])),
                         render_duration_ms |-> None, output_length |-> "1"]]
    BY <1>5 DEF ValidateOutput
  <2>2. /\ r = [class |-> r.class, object |-> r.object] /\ r.class = "TemplateRendered"
        /\ r.object = [f \in DOMAIN r.object |-> r.object[f]]
        /\ DOMAIN r.object = {"template_id", "template_version", "variable_count",
                              "render_duration_ms", "output_length"}
    BY <2>1
  <2> QED BY <2>2, PolicyFields DEF Built
<1> QED BY <1>3, <1>4, <1>5, <1>2

-----------------------------------------------------------------------------
(***************************************************************************)
(* Every step keeps where the fields come from.  Redacting needs the       *)
(* sensitivities and the places that Formed has, rereading that JSON       *)
(* changes a value at most once.                                           *)
(***************************************************************************)
\* A payload was built; there is no event yet.
LEMMA OriginMade ==
  ASSUME Origin, made = Nothing, NEW b, Built(b), made' = b, UNCHANGED <<event, secrets, dropped>>
  PROVE  Origin'
<1>1. event = Nothing /\ event' = Nothing
  BY DEF Origin
<1>2. Built(made')
  OBVIOUS
<1>3. Built(made)'
  BY <1>2 DEF Built
<1>4. made' # Nothing
  BY BuiltFacts
<1> QED BY <1>1, <1>3, <1>4 DEF Origin

\* Steps that leave the object and its event alone.
LEMMA OriginSame == ASSUME Origin, UNCHANGED <<made, event, secrets, dropped>> PROVE Origin'
BY DEF Origin, Built, Handled, Drawn, Value

\* A policy's payload is taken.
LEMMA OriginPolicy == ASSUME Looping, Origin, Policy PROVE Origin'
<1>1. PICK r \in Returned \cup GuardMakes \cup TemplateMakes :
        Constructs(r.class, r.object) /\ made' = r
  BY DEF Policy, TakeFrom
<1>2. Built(r)
  BY <1>1, ReturnedBuilt, GuardBuilt, TemplateBuilt
<1>3. made = Nothing /\ UNCHANGED <<event, secrets, dropped>>
  BY DEF Policy, TakeFrom
<1> QED BY <1>1, <1>2, <1>3, OriginMade

\* The LlamaIndex handler makes an event.
LEMMA OriginHandle ==
  ASSUME Origin, NEW payload \in HandlerPayloads, Handle(payload) PROVE Origin'
<1> DEFINE b == [class |-> "handler", object |-> payload]
<1>1. /\ made = Nothing /\ made' = b /\ secrets' = secrets /\ dropped' = dropped
      /\ event'.payload = payload /\ event'.wraps = NoWraps
  BY DEF Handle, Event
<1>2. secrets' = {} /\ dropped' = {}
  BY <1>1 DEF Origin
<1>3. b \in [class : {"handler"}, object : HandlerPayloads]
  OBVIOUS
<1>4. b # Nothing /\ b.class = "handler" /\ b.object = payload
  BY <1>3, LifecycleAssumption
<1> HIDE DEF b
<1>5. Handled(made)' /\ made'.class = "handler" /\ made'.object = payload /\ made' # Nothing
  BY <1>1, <1>4 DEF Handled
<1> QED BY <1>1, <1>2, <1>5 DEF Origin

\* The application makes an event, with wrappers or without some fields.
LEMMA OriginEmit == ASSUME Origin, EmitAny PROVE Origin'
<1> DEFINE c == made.class
           sent == ToDict(c, made.object)
<1>1. /\ made # Nothing /\ event = Nothing /\ c \in Class /\ Built(made)
      /\ UNCHANGED made
  <2>1. "handler" \notin Class
    BY DEF Class, Classes
  <2>2. made # Nothing /\ event = Nothing /\ made.class \in Class /\ UNCHANGED made
    BY DEF EmitAny, Emit
  <2> QED BY <2>1, <2>2 DEF Origin, Handled
<1>2. DOMAIN sent = Given(c, made.object) /\ \A f \in DOMAIN sent : sent[f] = Value(f)
  BY DEF ToDict, Value
<1>3. Given(c, made.object) \subseteq Fields(c)
  BY DEF Given
<1>4. PICK drop, wraps, envelope :
        /\ Emit(drop, wraps, envelope) /\ drop \subseteq Fields(c)
        /\ DOMAIN wraps \subseteq DOMAIN sent \ drop
        /\ \A f \in DOMAIN wraps : wraps[f].place \in Wrappable(sent[f])
  <2> DEFINE Bare == \E drop \in SUBSET Fields(c) : \E envelope : Emit(drop, NoWraps, envelope)
             Secret == \E wraps \in Wrappings(sent) : Emit({}, wraps, GoodEnvelope)
  <2>1. Bare \/ Secret
    BY DEF EmitAny
  <2>2. DOMAIN NoWraps = {}
    BY DEF NoWraps
  <2>3. CASE Bare
    BY <2>2, <2>3
  <2>4. CASE Secret
    <3>1. PICK wraps \in Wrappings(sent) : Emit({}, wraps, GoodEnvelope)
      BY <2>4
    <3>2. /\ DOMAIN wraps \subseteq DOMAIN sent
          /\ \A f \in DOMAIN wraps : wraps[f].place \in Wrappable(sent[f])
      BY WrappingsFacts
    <3> QED BY <3>1, <3>2
  <2> QED BY <2>1, <2>3, <2>4
<1> DEFINE payload == [f \in DOMAIN sent \ drop |-> sent[f]]
<1>5. /\ event'.payload = payload /\ event'.wraps = wraps
      /\ secrets' = DOMAIN wraps /\ dropped' = drop
  BY <1>4 DEF Emit, Event
<1>6. DOMAIN payload = DOMAIN sent \ drop /\ \A f \in DOMAIN payload : payload[f] = sent[f]
  OBVIOUS
<1>7. \A f : Value(f)' = Value(f)
  BY <1>1 DEF Value
<1>8. Built(made)' /\ made' # Nothing /\ c' = c
  BY <1>1 DEF Built
<1>9. c # "handler"
  BY <1>1, BuiltFacts
<1> HIDE DEF payload, sent, c
<1>10. Drawn(event)'
  <2>1. made'.class = c /\ made'.object = made.object
    BY <1>1 DEF c
  <2> QED BY <1>2, <1>3, <1>4, <1>5, <1>6, <1>7, <2>1 DEF Drawn
<1> QED BY <1>8, <1>9, <1>10 DEF Origin, c

\* What redaction leaves of a value that is due.
LEMMA WithMarkerFacts ==
  ASSUME NEW e, NEW min, NEW f \in Due(e, min), e.wraps[f] \in Wrap,
         e.wraps[f].place \in Wrappable(e.payload[f])
  PROVE  WithMarker(e, f) \in Marks(e.payload[f])
<1>1. e.wraps[f].sens \in {"medium", "pii"} /\ e.wraps[f].place \in {"field", "item"}
  BY DEF Due, Wrap, Sensitivity
<1>2. CASE e.wraps[f].place = "field"
  <2>1. Marker["medium"] = "'#medium'" /\ Marker["pii"] = "'#pii'"
    BY DEF Marker
  <2> QED BY <1>1, <1>2, <2>1 DEF WithMarker, Marks, Markers
<1>3. CASE e.wraps[f].place = "item"
  <2> DEFINE v == e.payload[f]
  <2>1. v \in Lists \ {"[]"} \/ v \in {"{'a':1}", "{'a':'a'}", "{obj}", "[{obj}]"}
    BY <1>3 DEF Wrappable
  <2>2. WithMarker(e, f) = IF v \in DOMAIN Marked THEN Marked[v] ELSE "['#']"
    BY <1>3 DEF WithMarker
  <2>3. /\ DOMAIN Marked = {"{'a':1}", "{'a':'a'}", "{obj}", "[{obj}]"}
        /\ Marked["{obj}"] = "{obj#}" /\ Marked["[{obj}]"] = "[{obj#}]"
        /\ Marked["{'a':1}"] = "{'a':'#'}" /\ Marked["{'a':'a'}"] = "{'a':'#'}"
    BY DEF Marked
  <2> HIDE DEF v
  <2>4. WithMarker(e, f) \in Marks(v)
    <3>1. CASE v \in DOMAIN Marked
      BY <2>2, <2>3, <3>1 DEF Marks
    <3>2. CASE v \notin DOMAIN Marked
      BY <2>1, <2>2, <2>3, <3>2 DEF Marks
    <3> QED BY <3>1, <3>2
  <2> QED BY <2>4 DEF v
<1> QED BY <1>1, <1>2, <1>3

\* RedactionPolicy.apply()
LEMMA OriginRedact ==
  ASSUME LifeInv, Origin, NEW min, Redact(min) PROVE Origin'
<1> DEFINE due == Due(event, min)
           payload == [f \in DOMAIN event.payload |->
                         IF f \in due THEN WithMarker(event, f) ELSE event.payload[f]]
           wraps == [f \in StillWrapped(event, due, min) |-> event.wraps[f]]
           count == Stamp(event, due)
<1>1. /\ event # Nothing /\ UNCHANGED <<made, secrets, dropped>>
      /\ event' = [event EXCEPT !.payload = payload, !.wraps = wraps, !.count = count]
  BY DEF Redact, Keep, Apply
<1>2. /\ event = [payload |-> event.payload, wraps |-> event.wraps, count |-> event.count,
                  env |-> event.env, seal |-> event.seal]
      /\ event.payload = [f \in DOMAIN event.payload |-> event.payload[f]]
      /\ \A f \in DOMAIN event.wraps : event.wraps[f] \in Wrap
  BY <1>1 DEF LifeInv, Formed
<1>3. due \subseteq DOMAIN event.wraps
  BY DEF Due
<1>4. /\ DOMAIN payload = DOMAIN event.payload /\ DOMAIN wraps = DOMAIN event.wraps \ due
      /\ \A f \in DOMAIN payload :
           payload[f] = IF f \in due THEN WithMarker(event, f) ELSE event.payload[f]
      /\ \A f \in DOMAIN wraps : wraps[f] = event.wraps[f]
  BY DEF StillWrapped
<1>5. event.wraps = NoWraps => payload = event.payload /\ wraps = NoWraps
  <2> SUFFICES ASSUME event.wraps = NoWraps PROVE payload = event.payload /\ wraps = NoWraps
    OBVIOUS
  <2>1. due = {} /\ StillWrapped(event, due, min) = {}
    BY <1>3 DEF NoWraps, StillWrapped
  <2> QED BY <1>2, <2>1 DEF NoWraps
<1>6. \A f \in due : Drawn(event) => WithMarker(event, f) \in Marks(Value(f))
  <2> TAKE f \in due
  <2> HAVE Drawn(event)
  <2>1. event.payload[f] = Value(f) /\ event.wraps[f].place \in Wrappable(Value(f))
    BY <1>3 DEF Drawn
  <2> QED BY <1>2, <1>3, <2>1, WithMarkerFacts
<1> HIDE DEF due, payload, wraps, count
<1>7. event'.payload = payload /\ event'.wraps = wraps
  BY <1>1, <1>2
<1>8. \A f : Value(f)' = Value(f)
  BY <1>1 DEF Value
<1>9. ASSUME Drawn(event) PROVE Drawn(event)'
  BY <1>1, <1>3, <1>4, <1>6, <1>7, <1>8, <1>9 DEF Drawn
<1>10. (Built(made) \/ Handled(made)) => (Built(made) \/ Handled(made))'
  BY <1>1 DEF Built, Handled
<1> QED BY <1>1, <1>5, <1>7, <1>9, <1>10 DEF Origin

\* What was read from JSON once stays as it is.
LEMMA RereadFacts ==
  /\ \A v : Reread(Reread(v)) = Reread(v)
  /\ \A v : \A m \in Marks(v) : Reread(m) = m
  /\ \A o \in HandlerPayloads : [f \in DOMAIN o |-> Reread(o[f])] = o
<1>1. \A v : \A m \in Marks(v) : Reread(m) = m
  BY MarksFacts DEF Reread, Markers
<1>2. ASSUME NEW o \in HandlerPayloads PROVE [f \in DOMAIN o |-> Reread(o[f])] = o
  <2>1. \A f \in DOMAIN o : o[f] \in {"'a'", "1", "2", None}
    BY DEF HandlerPayloads
  <2>2. \A f \in DOMAIN o : Reread(o[f]) = o[f]
    BY <2>1 DEF Reread, None
  <2>3. o = [f \in DOMAIN o |-> o[f]]
    BY DEF HandlerPayloads
  <2> QED BY <2>2, <2>3
<1> QED BY <1>1, <1>2 DEF Reread

\* to_json() and from_json()
LEMMA OriginJson == ASSUME LifeInv, Origin, Json PROVE Origin'
<1> DEFINE payload == [f \in DOMAIN event.payload |-> Reread(event.payload[f])]
<1>1. /\ event # Nothing /\ UNCHANGED <<made, secrets, dropped>> /\ event.wraps = NoWraps
      /\ event' = [event EXCEPT !.payload = payload]
  BY DEF Json, Keep, ThroughJson, Serialisable
<1>2. event = [payload |-> event.payload, wraps |-> event.wraps, count |-> event.count,
               env |-> event.env, seal |-> event.seal]
  BY <1>1 DEF LifeInv, Formed
<1>3. event'.payload = payload /\ event'.wraps = event.wraps
  BY <1>1, <1>2
<1>4. ASSUME made.class = "handler" PROVE payload = made.object
  <2>1. event.payload = made.object /\ made.object \in HandlerPayloads
    BY <1>1, <1>4, BuiltFacts DEF Origin, Handled
  <2> QED BY <2>1, RereadFacts
<1>5. /\ DOMAIN payload = DOMAIN event.payload
      /\ \A f \in DOMAIN payload : payload[f] = Reread(event.payload[f])
  OBVIOUS
<1> HIDE DEF payload
<1>6. \A f : Value(f)' = Value(f)
  BY <1>1 DEF Value
<1>7. ASSUME Drawn(event) PROVE Drawn(event)'
  <2>1. DOMAIN event.wraps = {}
    BY <1>1 DEF NoWraps
  <2>2. \A f \in secrets : payload[f] \in Marks(Value(f))
    BY <1>5, <1>7, <2>1, RereadFacts DEF Drawn
  <2>3. \A f \in DOMAIN payload \ secrets : payload[f] \in {Value(f), Reread(Value(f))}
    BY <1>5, <1>7, RereadFacts DEF Drawn
  <2> QED BY <1>1, <1>3, <1>5, <1>6, <1>7, <2>1, <2>2, <2>3 DEF Drawn
<1>8. (Built(made) \/ Handled(made)) => (Built(made) \/ Handled(made))'
  BY <1>1 DEF Built, Handled
<1> QED BY <1>1, <1>3, <1>4, <1>7, <1>8 DEF Origin

\* sign() and the model keep payload and wrappers.
LEMMA OriginKept == ASSUME LifeInv, Origin, Sign \/ Model PROVE Origin'
<1>1. event # Nothing /\ UNCHANGED <<made, secrets, dropped>>
  BY DEF Sign, Model, Keep
<1>2. event = [payload |-> event.payload, wraps |-> event.wraps, count |-> event.count,
               env |-> event.env, seal |-> event.seal]
  BY <1>1 DEF LifeInv, Formed
<1>3. event'.payload = event.payload /\ event'.wraps = event.wraps
  BY <1>2 DEF Sign, Model, Seal, ThroughModel, Event
<1>4. Drawn(event) => Drawn(event)'
  BY <1>1, <1>3 DEF Drawn, Value
<1>5. (Built(made) \/ Handled(made)) => (Built(made) \/ Handled(made))'
  BY <1>1 DEF Built, Handled
<1> QED BY <1>1, <1>3, <1>4, <1>5 DEF Origin

\* The invariant of where the fields come from holds.
LEMMA OriginInvariance == LifeSpec => [](LifeInv /\ Origin)
<1>1. ASSUME LifeInit PROVE Origin
  BY <1>1 DEF LifeInit, Origin
<1>2. ASSUME Looping, LifeInv, Origin, [LifeNext]_lifeVars PROVE Origin'
  <2>1. ASSUME NEW b \in Tried, Build(b) PROVE Origin'
    <3>1. made = Nothing /\ Built(b) /\ made' = b /\ UNCHANGED <<event, secrets, dropped>>
      BY <2>1, TriedBuilt DEF Build
    <3> QED BY <1>2, <3>1, OriginMade
  <2>2. CASE Fence \/ UNCHANGED lifeVars
    BY <1>2, <2>2, OriginSame DEF Fence, lifeVars
  <2> QED BY <1>2, <2>1, <2>2, OriginPolicy, OriginHandle, OriginEmit, OriginRedact, OriginJson,
             OriginKept DEF LifeNext
<1>3. LifeSpec => []Looping
  BY LoopingInit, LoopingNext, PTL DEF LifeSpec
<1> QED BY <1>1, <1>2, <1>3, LifeInvariance, PTL DEF LifeSpec

-----------------------------------------------------------------------------
(***************************************************************************)
(* The gates: what lets an event out.  A field that was not wrapped still  *)
(* is what the constructor accepted, so only what it accepts can be odd.   *)
(***************************************************************************)
\* A field that is no secret came from one of the object, as it was or reread.
LEMMA OpenFields ==
  ASSUME Origin, event # Nothing, NEW f \in DOMAIN event.payload, f \notin secrets
  PROVE  /\ f \in DOMAIN made.object
         /\ \/ Handled(made) /\ event.payload[f] = made.object[f]
            \/ /\ Built(made) /\ f \in Fields(made.class)
               /\ event.payload[f] \in {Value(f), Reread(Value(f))}
<1>1. CASE made.class = "handler"
  BY <1>1, BuiltFacts DEF Origin
<1>2. CASE made.class # "handler"
  <2>1. Built(made) /\ Drawn(event)
    BY <1>2 DEF Origin, Handled
  <2>2. f \in Fields(made.class) /\ DOMAIN made.object = Fields(made.class)
    <3>1. made.object = [g \in Fields(made.class) |-> made.object[g]]
      BY <2>1 DEF Built
    <3> QED BY <2>1, <3>1 DEF Drawn, Given
  <2> QED BY <2>1, <2>2 DEF Drawn
<1> QED BY <1>1, <1>2

\* A duration that is sent as a finite number was one, and the other way round.
LEMMA DurationStays ==
  ASSUME Origin, event # Nothing, "duration_ms" \in DOMAIN event.payload,
         event.payload["duration_ms"] \notin Finite
  PROVE  OddDuration
<1> SUFFICES ASSUME "duration_ms" \notin secrets PROVE OddDuration
  BY DEF OddDuration
<1> DEFINE v == made.object["duration_ms"]
<1>1. "duration_ms" \in DOMAIN made.object
  BY OpenFields
<1>2. event.payload["duration_ms"] \in {v, Dictionary(v), Reread(Dictionary(v))}
  BY OpenFields DEF Value
<1>3. ASSUME v \in Finite PROVE FALSE
  <2>1. Dictionary(v) = v /\ Reread(v) = v
    <3>1. v \in Plain
      BY <1>3 DEF Plain, Numbers
    <3>2. v # "intkeys"
      BY <1>3, Apart DEF Finite, Wholes, Flags, Dicts
    <3> QED BY <3>1, <3>2, PlainBack
  <2> QED BY <1>2, <1>3, <2>1
<1> QED BY <1>1, <1>3 DEF OddDuration

\* Token counts that were not wrapped are numbers.
LEMMA TokensStay ==
  ASSUME Origin, event # Nothing, NoTokens(event), event.wraps = NoWraps
  PROVE  "token_usage" \in secrets
<1>1. "token_usage" \in DOMAIN event.payload /\ event.payload["token_usage"] = "{obj#}"
  BY DEF NoTokens, NoWraps
<1> SUFFICES ASSUME "token_usage" \notin secrets PROVE FALSE
  OBVIOUS
<1>2. "token_usage" \in DOMAIN made.object
  BY <1>1, OpenFields
<1>3. CASE Handled(made)
  BY <1>2, <1>3 DEF Handled, HandlerPayloads
<1>4. CASE ~Handled(made)
  <2>1. /\ Built(made) /\ "token_usage" \in Fields(made.class)
        /\ event.payload["token_usage"] \in {Value("token_usage"), Reread(Value("token_usage"))}
    BY <1>1, <1>4, OpenFields
  <2>2. made.object["token_usage"] \in MaybeUsage.takes
    BY <2>1, UsageFacts DEF Built, Constructs
  <2>3. made.object["token_usage"] \in {"obj", None}
    BY <2>2 DEF MaybeUsage, Optional, Kind
  <2>4. Value("token_usage") \in {"{obj}", None}
    BY <2>3 DEF Value, Dictionary, None
  <2>5. Reread(Value("token_usage")) \in {"{obj}", None}
    BY <2>4 DEF Reread, None
  <2> QED BY <1>1, <2>1, <2>4, <2>5 DEF None
<1> QED BY <1>3, <1>4

\* assert_redacted() speaks for JSON, the signature, the other checks and the
\* exporters, with the exceptions GatesHold lists, whatever was built, wrapped,
\* redacted and sent before (redact.py: assert_redacted; event.py: validate;
\* validate.py; models.py; export/: to_otlp_span, to_dd_span).
THEOREM GatesHoldHolds == LifeSpec => []GatesHold
<1>1. LifeInv /\ Origin => GatesHold
  <2> SUFFICES ASSUME LifeInv, Origin, event # Nothing PROVE GatesHold
    BY DEF GatesHold
  <2>1. ~AssertRedacted(event) => ~Serialisable(event)
    BY DEF AssertRedacted, Reached, Serialisable, NoWraps
  <2>2. AssertRedacted(event) =>
          Serialisable(event) \/ \E f \in DOMAIN event.wraps : event.wraps[f].place = "set"
    <3>1. event.wraps = [f \in DOMAIN event.wraps |-> event.wraps[f]]
      BY DEF LifeInv, Formed
    <3>2. DOMAIN event.wraps = {} => event.wraps = NoWraps
      BY <3>1 DEF NoWraps
    <3> QED BY <3>2 DEF AssertRedacted, Reached, Serialisable
  <2>3. ASSUME Validates(event), Serialisable(event), NEW x \in Exporters, ExportRaises(x, event)
        PROVE  OddDuration \/ "token_usage" \in secrets
    <3>1. /\ event.wraps = NoWraps /\ DOMAIN event.wraps = {} /\ ~NoTime(event)
          /\ event.env.trace # "bad"
      BY <2>3 DEF Serialisable, NoWraps, Validates, NoTime
    <3>2. "inf" \notin Finite
      BY Apart DEF Finite, Wholes, Flags
    <3>3. CASE x = "otlp"
      <4>1. OtlpRaises(event)
        BY <2>3, <3>3 DEF ExportRaises
      <4> QED BY <3>1, <3>2, <4>1, TokensStay, DurationStays DEF OtlpRaises
    <3>4. CASE x = "datadog"
      <4>1. DatadogRaises(event)
        BY <2>3, <3>4 DEF ExportRaises
      <4> QED BY <3>1, <4>1, DurationStays DEF DatadogRaises
    <3>5. CASE x = "otel"
      <4>1. OtelRaises(event)
        BY <2>3, <3>5 DEF ExportRaises
      <4> QED BY <3>1, <4>1, TokensStay DEF OtelRaises
    <3>6. x # "json"
      BY <2>3 DEF ExportRaises
    <3> QED BY <3>3, <3>4, <3>5, <3>6 DEF Exporters
  <2>4. ASSUME Validates(event)
        PROVE  /\ ModelAccepts(event) \/ event.env.org = "blank"
               /\ StdlibAccepts(event) \/ event.env.type = "xdots" \/ event.env.id = "lower"
               /\ Compatible(event) \/ event.env.type \in {"reserved", "xshort"}
    BY <2>4 DEF Validates, ModelAccepts, StdlibAccepts, Compatible
  <2> QED BY <2>1, <2>2, <2>3, <2>4 DEF GatesHold
<1> QED BY <1>1, OriginInvariance, PTL

-----------------------------------------------------------------------------
(***************************************************************************)
(* The readers.  What a field reads as follows from where it came from and *)
(* from its kind; the checks between fields hold again because the fields  *)
(* they compare read as the same values.                                   *)
(***************************************************************************)
\* What from_dict() reads for each field.
ReadBack(c, d) ==
  [f \in Fields(c) |->
     IF f \in DOMAIN d THEN Classes[c][f].reads[d[f]] ELSE Classes[c][f].absent]

\* The field is read as it was in the object.
Kept(c, o, f) == Same(ReadBack(c, event.payload)[f], o[f]) \/ f = "action" \/ o[f] = "intkeys"

\* The action of the guard payloads is read as a text.
LEMMA ActionFacts ==
  /\ Action.takes = Plain /\ Action.reads = StrOf /\ Action.default = "'a'"
  /\ \A v \in Plain : \A w \in {Dictionary(v), Reread(Dictionary(v))} : StrOf[w] \in Plain
  /\ \A v : \A m \in Marks(v) : StrOf[m] \in Markers \cup {"'?'"}
<1>1. Action.takes = Plain /\ Action.reads = StrOf /\ Action.default = "'a'"
  BY DEF Action, Default, Kind
<1>2. ASSUME NEW v \in Plain, NEW w \in {Dictionary(v), Reread(Dictionary(v))}
      PROVE  StrOf[w] \in Plain
  <2>1. w = v \/ w = "strkeys"
    BY PlainBack
  <2>2. w \in Values
    BY <2>1 DEF Values, Plain, Dicts
  <2> QED BY <2>2, StrBack DEF Plain
<1>3. ASSUME NEW v, NEW m \in Marks(v) PROVE StrOf[m] \in Markers \cup {"'?'"}
  <2>1. CASE m \in Markers
    BY <2>1, StrBack DEF Texts
  <2>2. CASE m \in {"['#']", "{'a':'#'}", "{obj#}", "[{obj#}]"}
    <3>1. m \in Values /\ m \notin Texts /\ m # None /\ m # "1"
      <4>1. "1" \in Numerals
        BY NumeralAssumption DEF Numerals
      <4> QED BY <2>2, <4>1 DEF Values, Plain, Lists, Dicts, Parts, PartLists, Texts, Markers, None
    <3> QED BY <3>1 DEF StrOf
  <2> QED BY <2>1, <2>2, MarksFacts
<1> QED BY <1>1, <1>2, <1>3

\* The three things that may have become of a field.
LEMMA OpenBack ==
  ASSUME Origin, event # Nothing, made.class # "handler",
         NEW f \in Fields(made.class), f \notin dropped, f \notin secrets
  PROVE  /\ ReadBack(made.class, event.payload)[f] \in Classes[made.class][f].takes
         /\ Kept(made.class, made.object, f)
<1> DEFINE c == made.class
           v == made.object[f]
           k == Classes[c][f]
           back == ReadBack(c, event.payload)[f]
<1>1. Built(made) /\ Drawn(event)
  BY DEF Origin, Handled
<1>2. c \in Class /\ v \in k.takes
  BY <1>1 DEF Built, Constructs
<1>3. CASE f \notin DOMAIN event.payload
  <2>1. k.default = None /\ v = None
    BY <1>1, <1>3 DEF Drawn, Given
  <2>2. k.absent = None /\ None \in k.takes
    BY <1>2, <2>1, TakesFacts
  <2>3. back = None
    BY <1>3, <2>2 DEF ReadBack
  <2> QED BY <2>1, <2>2, <2>3 DEF Kept, Same
<1>4. CASE f \in DOMAIN event.payload
  <2> DEFINE w == event.payload[f]
  <2>1. back = k.reads[w]
    BY <1>4 DEF ReadBack
  <2>2. w \in {Dictionary(v), Reread(Dictionary(v))}
    BY <1>1, <1>4 DEF Drawn, Value
  <2>3. ~(k.default = None /\ v = None)
    BY <1>1, <1>4 DEF Drawn, Given
  <2>4. CASE k \in Kinds
    <3>1. Returns(k, v)
      BY <1>2, <2>3, <2>4, FairKinds DEF Fair
    <3> QED BY <2>1, <2>2, <3>1 DEF Returns, Kept
  <2>5. CASE f = "action" /\ k = Action
    BY <1>2, <2>1, <2>2, <2>5, ActionFacts DEF Kept
  <2> QED BY <1>2, <2>4, <2>5, FieldFacts
<1> QED BY <1>3, <1>4

\* A field that was redacted reads as veiled, or is refused.
LEMMA SecretBack ==
  ASSUME Origin, event # Nothing, made.class # "handler", event.wraps = NoWraps, NEW f \in secrets
  PROVE  /\ f \in Fields(made.class) /\ f \notin dropped
         /\ \/ ReadBack(made.class, event.payload)[f] \in Veiled(f)
            \/ ReadBack(made.class, event.payload)[f] \notin Classes[made.class][f].takes
<1> DEFINE c == made.class
           v == made.object[f]
           k == Classes[c][f]
           back == ReadBack(c, event.payload)[f]
<1>1. Built(made) /\ Drawn(event)
  BY DEF Origin, Handled
<1>2. f \in DOMAIN event.payload /\ event.payload[f] \in Marks(Dictionary(v))
  BY <1>1 DEF Drawn, Value, NoWraps
<1>3. f \in Fields(c) /\ f \notin dropped /\ ~(k.default = None /\ v = None)
  BY <1>1, <1>2 DEF Drawn, Given
<1>4. c \in Class /\ v \in k.takes
  BY <1>1, <1>3 DEF Built, Constructs
<1>5. back = k.reads[event.payload[f]]
  BY <1>2, <1>3 DEF ReadBack
<1>6. CASE k \in Kinds
  <2>1. Hides(k, v)
    BY <1>3, <1>4, <1>6, FairKinds DEF Fair
  <2>2. Veiled("") \subseteq Veiled(f)
    BY DEF Veiled
  <2> QED BY <1>2, <1>3, <1>5, <2>1, <2>2 DEF Hides
<1>7. CASE f = "action" /\ k = Action
  <2>1. back \in Markers \cup {"'?'"}
    BY <1>2, <1>5, <1>7, ActionFacts
  <2>2. back \in Veiled(f)
    BY <1>7, <2>1 DEF Veiled
  <2> QED BY <1>3, <2>2
<1> QED BY <1>3, <1>4, <1>6, <1>7, FieldFacts

\* Values that are the same pass the same comparisons.
LEMMA SameFacts ==
  ASSUME NEW v, NEW w, Same(w, v)
  PROVE  /\ v \in Wholes => Twice[w] = Twice[v]
         /\ v \in Texts \cup Lists => w = v
<1>1. \A x \in Texts \cup Lists : x \notin Finite
  <2> TAKE x \in Texts \cup Lists
  <2>1. x \notin Numerals
    BY Apart
  <2>2. x \notin {"-1", "0", "0.5", "1.5"} \cup Flags
    BY DEF Texts, Markers, Lists, Flags
  <2> QED BY <2>1, <2>2 DEF Finite, Wholes
<1> QED BY <1>1 DEF Same

\* The kinds of the fields that are compared.
LEMMA ComparedFields ==
  /\ \A f \in {"prompt_tokens", "completion_tokens", "total_tokens"} :
       f \in Fields("TokenUsage") /\ Classes["TokenUsage"][f].takes \subseteq Wholes
  /\ \A f \in {"attempt", "max_attempts"} :
       f \in Fields("RetryTriggered") /\ Classes["RetryTriggered"][f].takes \subseteq Wholes
  /\ \A f \in {"from_environment", "to_environment"} :
       f \in Fields("PromptPromoted") /\ Classes["PromptPromoted"][f].takes \subseteq Texts
  /\ \A f \in {"from_version", "to_version"} :
       f \in Fields("PromptRolledBack") /\ Classes["PromptRolledBack"][f].takes \subseteq Texts
  /\ \A f \in {"scanned_fields", "pii_detected_count", "pii_redacted_count"} :
       f \in Fields("ScanCompleted") /\ Classes["ScanCompleted"][f].takes \subseteq Wholes
  /\ \A f \in {"missing_variables", "required_variables"} :
       f \in Fields("VariableMissing") /\ Classes["VariableMissing"][f].takes \subseteq Lists
<1>1. /\ Classes["TokenUsage"] = TokenUsage /\ Classes["RetryTriggered"] = RetryTriggeredPayload
      /\ Classes["PromptPromoted"] = PromptPromotedPayload
      /\ Classes["PromptRolledBack"] = PromptRolledBackPayload
      /\ Classes["ScanCompleted"] = ScanCompletedPayload
      /\ Classes["VariableMissing"] = VariableMissingPayload
  BY DEF Classes
<1>2. /\ Count.takes \subseteq Wholes /\ Positive.takes \subseteq Wholes
      /\ Name.takes \subseteq Texts /\ NamedList.takes \subseteq Lists
  BY DEF Count, Positive, Name, NamedList, Required, Kind, TextLists
<1>3. \A f \in {"prompt_tokens", "completion_tokens", "total_tokens"} :
        f \in DOMAIN TokenUsage /\ TokenUsage[f] = Count
  BY DEF TokenUsage
<1>4. \A f \in {"attempt", "max_attempts"} :
        f \in DOMAIN RetryTriggeredPayload /\ RetryTriggeredPayload[f] = Positive
  BY DEF RetryTriggeredPayload
<1>5. \A f \in {"from_environment", "to_environment"} :
        f \in DOMAIN PromptPromotedPayload /\ PromptPromotedPayload[f] = Name
  BY DEF PromptPromotedPayload
<1>6. \A f \in {"from_version", "to_version"} :
        f \in DOMAIN PromptRolledBackPayload /\ PromptRolledBackPayload[f] = Name
  BY DEF PromptRolledBackPayload
<1>7. \A f \in {"scanned_fields", "pii_detected_count", "pii_redacted_count"} :
        f \in DOMAIN ScanCompletedPayload /\ ScanCompletedPayload[f] = Count
  BY DEF ScanCompletedPayload
<1>8. \A f \in {"missing_variables", "required_variables"} :
        f \in DOMAIN VariableMissingPayload /\ VariableMissingPayload[f] = NamedList
  BY DEF VariableMissingPayload
<1> QED BY <1>1, <1>2, <1>3, <1>4, <1>5, <1>6, <1>7, <1>8 DEF Fields

\* An object that reads back field by field is coherent again.
LEMMA CoherentBack ==
  ASSUME NEW c \in Class, NEW o, NEW r, Constructs(c, o),
         \A f \in Fields(c) : Same(r[f], o[f]) \/ f = "action" \/ o[f] = "intkeys"
  PROVE  Coherent(c, r)
<1>1. Coherent(c, o) /\ \A f \in Fields(c) : o[f] \in Classes[c][f].takes
  BY DEF Constructs
<1>2. "intkeys" \notin Wholes \cup Texts \cup Lists
  BY Apart DEF Wholes, Flags, Texts, Markers, Lists, Dicts
<1>3. ASSUME NEW f \in Fields(c), f # "action",
             \/ Classes[c][f].takes \subseteq Wholes
             \/ Classes[c][f].takes \subseteq Texts \cup Lists
      PROVE  Twice[r[f]] = Twice[o[f]] \/ r[f] = o[f]
  BY <1>1, <1>2, <1>3, SameFacts
<1>4. ASSUME NEW f \in Fields(c), f # "action", Classes[c][f].takes \subseteq Wholes
      PROVE  Twice[r[f]] = Twice[o[f]]
  BY <1>3, <1>4
<1>5. ASSUME NEW f \in Fields(c), f # "action",
             Classes[c][f].takes \subseteq Texts \/ Classes[c][f].takes \subseteq Lists
      PROVE  r[f] = o[f]
  BY <1>1, <1>2, <1>5, SameFacts
<1>6. CASE c = "TokenUsage"
  <2>1. /\ Twice[r.total_tokens] = Twice[o.total_tokens]
        /\ Twice[r.prompt_tokens] = Twice[o.prompt_tokens]
        /\ Twice[r.completion_tokens] = Twice[o.completion_tokens]
    BY <1>4, <1>6, ComparedFields
  <2> QED BY <1>1, <1>6, <2>1 DEF Coherent
<1>7. CASE c = "RetryTriggered"
  <2>1. Twice[r.attempt] = Twice[o.attempt] /\ Twice[r.max_attempts] = Twice[o.max_attempts]
    BY <1>4, <1>7, ComparedFields
  <2> QED BY <1>1, <1>7, <2>1 DEF Coherent
<1>8. CASE c = "PromptPromoted"
  <2>1. r.from_environment = o.from_environment /\ r.to_environment = o.to_environment
    BY <1>5, <1>8, ComparedFields
  <2> QED BY <1>1, <1>8, <2>1 DEF Coherent
<1>9. CASE c = "PromptRolledBack"
  <2>1. r.from_version = o.from_version /\ r.to_version = o.to_version
    BY <1>5, <1>9, ComparedFields
  <2> QED BY <1>1, <1>9, <2>1 DEF Coherent
<1>10. CASE c = "ScanCompleted"
  <2>1. /\ Twice[r.scanned_fields] = Twice[o.scanned_fields]
        /\ Twice[r.pii_detected_count] = Twice[o.pii_detected_count]
        /\ Twice[r.pii_redacted_count] = Twice[o.pii_redacted_count]
    BY <1>4, <1>10, ComparedFields
  <2> QED BY <1>1, <1>10, <2>1 DEF Coherent
<1>11. CASE c = "VariableMissing"
  <2>1. r.missing_variables = o.missing_variables /\ r.required_variables = o.required_variables
    BY <1>5, <1>11, ComparedFields
  <2> QED BY <1>1, <1>11, <2>1 DEF Coherent
<1>12. CASE c \notin {"TokenUsage", "RetryTriggered", "PromptPromoted", "PromptRolledBack",
                      "ScanCompleted", "VariableMissing"}
  BY <1>12 DEF Coherent
<1> QED BY <1>6, <1>7, <1>8, <1>9, <1>10, <1>11, <1>12

\* No class is without fields.
LEMMA SomeField == \A c \in Class : Fields(c) # {}
<1>1. \A p \in ClassSet : DOMAIN p # {}
  BY DEF ClassSet, CacheHitPayload, CacheMissPayload, CacheEvictedPayload, CostRecordedPayload,
         BudgetThresholdPayload, DiffComparisonPayload, DiffReportPayload, EvalScenarioPayload,
         EvalRegressionPayload, ValidationPassedPayload, FenceValidationFailedPayload,
         RetryTriggeredPayload, GuardBlockedPayload, GuardFlaggedPayload, InspectIssueSummary,
         InspectReportPayload, PromptSavedPayload, PromptPromotedPayload, PromptApprovedPayload,
         PromptRolledBackPayload, PromptRejectedPayload, PromptRenderedPayload,
         PIIDetectedPayload, PIIRedactedPayload, ScanCompletedPayload, TemplateRenderedPayload,
         VariableMissingPayload, TemplateValidationFailedPayload, TokenUsage, ModelInfo,
         ToolCall, SpanCompletedPayload
<1> QED BY <1>1, ClassFacts DEF Fields

\* A reader with from_dict() gets the object that was built, for every class and
\* every value, however often the event was redacted, signed and sent; what was
\* redacted reads as veiled, what was not sent as its default, and only these
\* make reading raise (namespaces/: from_dict and to_dict of the 32 classes).
THEOREM CopiesAgreeHolds == LifeSpec => []CopiesAgree
<1>1. LifeInv /\ Origin => CopiesAgree
  <2> SUFFICES ASSUME LifeInv, Origin, event # Nothing, made.class # "handler", Serialisable(event)
               PROVE  CopiesAgree
    BY DEF CopiesAgree
  <2> DEFINE c == made.class
             copy == FromDict(c, event.payload)
             r == ReadBack(c, event.payload)
  <2>1. Built(made) /\ Drawn(event) /\ event.wraps = NoWraps
    BY DEF Origin, Handled, Serialisable
  <2>2. c \in Class /\ Constructs(c, made.object)
    BY <2>1 DEF Built
  <2>3. copy = IF Constructs(c, r) THEN r ELSE Failed
    BY DEF FromDict, ReadBack
  <2>4. CASE Constructs(c, r)
    <3>1. copy = r /\ copy # Failed
      <4>1. DOMAIN r = Fields(c) /\ DOMAIN Failed = {}
        BY DEF ReadBack, Failed
      <4> QED BY <2>2, <2>3, <2>4, <4>1, SomeField
    <3>2. ASSUME NEW f \in Fields(c), f \in dropped PROVE r[f] = Classes[c][f].absent
      BY <2>1, <3>2 DEF ReadBack, Drawn
    <3>3. ASSUME NEW f \in Fields(c), f \in secrets PROVE f \notin dropped /\ r[f] \in Veiled(f)
      BY <2>1, <2>4, <3>3, SecretBack DEF Constructs
    <3>4. ASSUME NEW f \in Fields(c), f \notin dropped, f \notin secrets
          PROVE  Same(r[f], made.object[f]) \/ f = "action" \/ made.object[f] = "intkeys"
      BY <3>4, OpenBack DEF Kept
    <3> HIDE DEF r, copy, c
    <3>5. \A f \in Fields(c) :
            CASE f \in dropped -> r[f] = Classes[c][f].absent
              [] f \in secrets -> r[f] \in Veiled(f)
              [] OTHER -> Same(r[f], made.object[f]) \/ f = "action" \/ made.object[f] = "intkeys"
      BY <3>2, <3>3, <3>4
    <3> QED BY <3>1, <3>5 DEF CopiesAgree, c, copy
  <2>5. CASE ~Constructs(c, r)
    <3>1. copy = Failed
      BY <2>3, <2>5
    <3>2. ASSUME secrets \cup dropped = {} PROVE FALSE
      <4>1. \A f \in Fields(c) : r[f] \in Classes[c][f].takes /\ Kept(c, made.object, f)
        BY <3>2, OpenBack
      <4>2. Coherent(c, r)
        BY <2>2, <4>1, CoherentBack DEF Kept
      <4> QED BY <2>5, <4>1, <4>2 DEF Constructs
    <3> QED BY <3>1, <3>2 DEF CopiesAgree
  <2> QED BY <2>4, <2>5
<1> QED BY <1>1, OriginInvariance, PTL
=============================================================================
