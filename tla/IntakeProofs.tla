---------------------------- MODULE IntakeProofs ----------------------------
(* Proofs about the way of an event from a callback to an EventStream, for  *)
(* every number of threads, runs and calls, every transport, and every      *)
(* interleaving of callbacks, export tasks and readers.                     *)
EXTENDS Intake, TLAPS

Run == [id : Id, kind : Quiet \cup Reported, open : BOOLEAN]

Frame(n) == [op : {"none", "start", "end"}, run : 0..n, since : 0..n]

Made(n) == [what : {"started", "completed", "error"}, run : 1..n, since : 0..n]

Place == {"idle", "reading", "returned", "raised", "cancelled", "crashed"}

CallState(n) == [at : Place, got : Seq(1..n), pos : 0..n, saved : BOOLEAN]

(***************************************************************************)
(* The inductive invariant.  Pairing says whose start time is in the       *)
(* dictionary while a run is open; Stored that an event is in one place    *)
(* only; Turns that the calls of a consumer group do not overlap; and      *)
(* Sound, of a call, how what it collected relates to its position and to  *)
(* what is gone for later calls.                                           *)
(***************************************************************************)
Pairing ==
  /\ \A t \in Thread : frame[t].op # "none" =>
       family = "llamaindex" /\ frame[t].run \in DOMAIN runs
  /\ \A t \in Thread : frame[t].op = "start" => frame[t].run \in Open
  /\ \A t \in Thread : frame[t].op = "end" /\ frame[t].run \notin crossed =>
       frame[t].since = frame[t].run
  /\ family = "llamaindex" =>
       /\ \A r \in Open : r \notin crossed => starts[runs[r].id] = r
       /\ \A q, r \in Open : q # r /\ runs[q].id = runs[r].id => q \in crossed
  /\ DurationsPair

Stored ==
  /\ \A i \in DOMAIN log : EventAt(i) => log[i].event \in DOMAIN made \ tasks
  /\ \A i, j \in DOMAIN log :
       EventAt(i) /\ EventAt(j) /\ log[i].event = log[j].event => i = j
  /\ ~Kafka => \A i \in DOMAIN log : log[i].type \in {"event", "stop"}

Turns ==
  \A c, d \in Call : d < c /\ call[c].at # "idle" =>
    call[d].at # "idle" /\ (Kafka => call[d].at # "reading")

\* h is what is gone for later calls.
Sound(s, h) ==
  /\ s.at = "idle" => s.got = <<>>
  /\ s.at \in {"idle", "reading"} => s.saved
  /\ \A k \in DOMAIN s.got : EventAt(s.got[k])
  /\ \A j, k \in DOMAIN s.got : j < k => s.got[j] < s.got[k]
  /\ ~Kafka => \A k \in DOMAIN s.got : s.got[k] <= h
  /\ Kafka =>
       /\ \A k \in DOMAIN s.got : s.got[k] <= s.pos
       /\ \A i \in DOMAIN log :
            (EventAt(i) /\ s.got # <<>> /\ i > s.got[1] /\ i <= s.pos) =>
              \E k \in DOMAIN s.got : s.got[k] = i
       /\ Len(s.got) <= setup.max \/ Len(s.got) <= 1
       /\ s.at = "reading" => Len(s.got) < setup.max \/ s.got = <<>>
  /\ transport = "group" =>
       /\ s.at = "reading" => /\ h <= s.pos
                              /\ \A i \in (h + 1)..s.pos : EventAt(i) =>
                                   \E k \in DOMAIN s.got : s.got[k] = i
       /\ s.at # "reading" /\ s.saved => \A k \in DOMAIN s.got : s.got[k] <= h

Sources ==
  /\ \A c \in Call : Sound(call[c], head)
  /\ transport = "anonymous" => head = 0
  /\ family = setup.family

IInv ==
  /\ TypeOK /\ Pairing
  /\ Stored /\ Turns /\ Sources /\ NothingSkipped /\ ReadOnce

-----------------------------------------------------------------------------
(* The types of the callbacks, with the bounds spelt out.                  *)
Typed ==
  /\ family \in {"langchain", "llamaindex"}
  /\ runs \in Seq(Run)
  /\ starts \in [Id -> 0..Len(runs)]
  /\ frame \in [Thread -> Frame(Len(runs))]
  /\ made \in Seq(Made(Len(runs)))
  /\ events \in Seq(1..Len(made))
  /\ tasks \subseteq 1..Len(made)
  /\ loop \in BOOLEAN
  /\ keyError \subseteq 1..Len(runs) /\ crossed \subseteq 1..Len(runs)
  /\ mishaps \in 0..MaxMishaps

LEMMA TypedForm == CallbacksTypeOK <=> Typed
<1>1. \A S : \A s \in Seq(S) : DOMAIN s = 1..Len(s) /\ Len(s) \in Nat
  OBVIOUS
<1>2. ASSUME runs \in Seq(Run) PROVE CallbacksTypeOK <=> Typed
  <2>1. DOMAIN runs = 1..Len(runs)
    BY <1>1, <1>2
  <2>2. ASSUME made \in Seq(Made(Len(runs))) PROVE DOMAIN made = 1..Len(made)
    BY <1>1, <2>2
  <2> QED BY <1>2, <2>1, <2>2 DEF CallbacksTypeOK, Typed, Run, Frame, Made
<1> QED BY <1>2 DEF CallbacksTypeOK, Typed, Run

LEMMA TypesGrow ==
  ASSUME NEW m \in Nat, NEW n \in Nat, m <= n
  PROVE  /\ Frame(m) \subseteq Frame(n) /\ Made(m) \subseteq Made(n)
         /\ Seq(Made(m)) \subseteq Seq(Made(n)) /\ Seq(1..m) \subseteq Seq(1..n)
         /\ CallState(m) \subseteq CallState(n)
<1>1. 1..m \subseteq 1..n /\ 0..m \subseteq 0..n
  OBVIOUS
<1>2. \A S, T : S \subseteq T => Seq(S) \subseteq Seq(T)
  OBVIOUS
<1>3. Frame(m) \subseteq Frame(n) /\ Made(m) \subseteq Made(n)
  BY <1>1 DEF Frame, Made
<1>4. Seq(1..m) \subseteq Seq(1..n)
  BY <1>1, <1>2
<1> HIDE DEF Frame
<1>5. CallState(m) \subseteq CallState(n)
  BY <1>1, <1>4 DEF CallState
<1> QED BY <1>2, <1>3, <1>4, <1>5

LEMMA RunFacts ==
  ASSUME runs \in Seq(Run)
  PROVE  /\ Len(runs) \in Nat /\ DOMAIN runs = 1..Len(runs) /\ Open \subseteq 1..Len(runs)
         /\ \A r \in 1..Len(runs) :
              runs[r].id \in Id /\ runs[r].kind \in Quiet \cup Reported /\ runs[r].open \in BOOLEAN
<1>1. \A r \in 1..Len(runs) : runs[r] \in Run
  OBVIOUS
<1> QED BY <1>1 DEF Run, Open

\* _make_event() adds one event, whose number no task and no queue holds yet.
LEMMA MakeEventFacts ==
  ASSUME NEW m \in Nat, NEW n \in Nat, m <= n, made \in Seq(Made(m)),
         events \in Seq(1..Len(made)), tasks \subseteq 1..Len(made),
         NEW t, NEW what \in {"started", "completed", "error"}, NEW r \in 1..n,
         NEW since \in 0..n, MakeEvent(t, what, r, since)
  PROVE  /\ made' \in Seq(Made(n)) /\ Len(made) \in Nat /\ Len(made') = Len(made) + 1
         /\ \A i \in 1..Len(made) : made'[i] = made[i]
         /\ made'[Len(made) + 1].run = r /\ made'[Len(made) + 1].since = since
         /\ events' \in Seq(1..Len(made'))
         /\ tasks' \in {tasks, tasks \cup {Len(made) + 1}}
         /\ tasks' \subseteq 1..Len(made')
<1> DEFINE new == [what |-> what, run |-> r, since |-> since]
<1>1. /\ made' = Append(made, new)
      /\ events' = Append(events, Len(made) + 1)
      /\ tasks' \in {tasks, tasks \cup {Len(made) + 1}}
  BY DEF MakeEvent
<1>2. new \in Made(n) /\ new.run = r /\ new.since = since
  BY DEF Made
<1>3. made \in Seq(Made(n)) /\ Len(made) \in Nat
  BY TypesGrow
<1> HIDE DEF new
<1>4. /\ made' \in Seq(Made(n)) /\ Len(made') = Len(made) + 1
      /\ \A i \in 1..Len(made) : made'[i] = made[i]
      /\ made'[Len(made) + 1] = new
  BY <1>1, <1>2, <1>3
<1>5. events \in Seq(1..(Len(made) + 1))
  BY <1>3, TypesGrow
<1>6. events' \in Seq(1..(Len(made) + 1))
  BY <1>1, <1>3, <1>5
<1> QED BY <1>1, <1>2, <1>3, <1>4, <1>6

\* What a callback does to its own variables is all that has to be looked at.
LEMMA CallbackKeeps ==
  ASSUME IInv, UNCHANGED <<family, loop, setup, log, head, call>>, Typed', Pairing',
         DOMAIN made \subseteq DOMAIN made', tasks' \cap DOMAIN made \subseteq tasks
  PROVE  IInv'
<1>1. Stored'
  BY DEF IInv, Stored, EventAt, Kafka, transport
<1>2. Turns' /\ NothingSkipped' /\ ReadOnce'
  BY DEF IInv, Turns, NothingSkipped, ReadOnce, EventAt, Got, Kafka, transport
<1>3. Sources'
  BY DEF IInv, Sources, Sound, EventAt, Kafka, transport
<1>4. TypeOK'
  <2>1. CallbacksTypeOK'
    BY TypedForm, PTL
  <2> QED BY <2>1 DEF IInv, TypeOK
<1> QED BY <1>1, <1>2, <1>3, <1>4 DEF IInv

-----------------------------------------------------------------------------
(* Runs that start and end.                                                *)

LEMMA NewRunFacts ==
  ASSUME runs \in Seq(Run), NEW id \in Id, NEW kind \in Quiet \cup Reported, NewRun(id, kind)
  PROVE  /\ runs' \in Seq(Run) /\ Len(runs') = Len(runs) + 1 /\ Len(runs) \in Nat
         /\ \A q \in 1..Len(runs) : runs'[q] = runs[q]
         /\ runs'[Len(runs) + 1].id = id
         /\ Open' = Open \cup {Len(runs) + 1}
<1> DEFINE new == [id |-> id, kind |-> kind, open |-> TRUE]
<1>1. runs' = Append(runs, new)
  BY DEF NewRun
<1>2. new \in Run /\ new.id = id /\ new.open = TRUE
  BY DEF Run
<1> HIDE DEF new
<1>3. /\ runs' \in Seq(Run) /\ Len(runs') = Len(runs) + 1 /\ Len(runs) \in Nat
      /\ \A q \in 1..Len(runs) : runs'[q] = runs[q]
      /\ runs'[Len(runs) + 1] = new
  BY <1>1, <1>2
<1>4. DOMAIN runs' = 1..Len(runs') /\ DOMAIN runs = 1..Len(runs)
  BY <1>3
<1>5. Open' = Open \cup {Len(runs) + 1}
  BY <1>2, <1>3, <1>4 DEF Open
<1> QED BY <1>2, <1>3, <1>5

LEMMA EndRunFacts ==
  ASSUME runs \in Seq(Run), NEW r \in Open, runs' = [runs EXCEPT ![r].open = FALSE]
  PROVE  /\ runs' \in Seq(Run) /\ Len(runs') = Len(runs) /\ Len(runs) \in Nat
         /\ r \in 1..Len(runs) /\ DOMAIN runs' = DOMAIN runs
         /\ \A q \in 1..Len(runs) : runs'[q].id = runs[q].id
         /\ Open' = Open \ {r}
<1>1. r \in 1..Len(runs) /\ DOMAIN runs = 1..Len(runs) /\ Len(runs) \in Nat
  BY RunFacts
<1> DEFINE ended == [runs[r] EXCEPT !.open = FALSE]
<1>2. runs[r] \in Run
  BY <1>1
<1>3. ended \in Run /\ ended.id = runs[r].id /\ ended.open = FALSE
  BY <1>2 DEF Run
<1>4. runs' = [runs EXCEPT ![r] = ended]
  OBVIOUS
<1> HIDE DEF ended
<1>5. /\ runs' \in Seq(Run) /\ Len(runs') = Len(runs) /\ DOMAIN runs' = DOMAIN runs
      /\ runs'[r] = ended /\ \A q \in 1..Len(runs) : q # r => runs'[q] = runs[q]
  <2>1. runs \in [1..Len(runs) -> Run]
    OBVIOUS
  <2>2. /\ runs' \in [1..Len(runs) -> Run]
        /\ runs'[r] = ended /\ \A q \in 1..Len(runs) : q # r => runs'[q] = runs[q]
    BY <1>1, <1>3, <1>4, <2>1
  <2> QED BY <1>1, <2>2
<1>6. Open' = Open \ {r}
  BY <1>1, <1>3, <1>5 DEF Open
<1> QED BY <1>1, <1>3, <1>5, <1>6

LEMMA LangchainStartInv ==
  ASSUME IInv, NEW t \in Thread, LangchainStart(t), UNCHANGED <<setup, log, head, call>>
  PROVE  IInv'
<1>1. PICK id \in Id, kind \in Reported : NewRun(id, kind)
  BY DEF LangchainStart
<1>2. /\ family = "langchain" /\ MakeEvent(t, "started", Len(runs) + 1, 0)
      /\ UNCHANGED <<family, starts, frame, keyError, crossed, mishaps, loop>>
  BY DEF LangchainStart
<1>3. Typed /\ Pairing
  BY TypedForm DEF IInv, TypeOK
<1> DEFINE n == Len(runs) + 1
<1>4. /\ runs' \in Seq(Run) /\ Len(runs') = n /\ Len(runs) \in Nat
      /\ n \in Nat /\ Len(runs) <= n /\ n \in 1..n /\ 0 \in 0..n
  BY <1>1, <1>3, NewRunFacts DEF Typed
<1>5. /\ made' \in Seq(Made(n)) /\ Len(made) \in Nat /\ Len(made') = Len(made) + 1
      /\ events' \in Seq(1..Len(made'))
      /\ tasks' \in {tasks, tasks \cup {Len(made) + 1}}
      /\ tasks' \subseteq 1..Len(made')
  BY <1>2, <1>3, <1>4, MakeEventFacts DEF Typed
<1>6. DOMAIN made = 1..Len(made) /\ DOMAIN made' = 1..Len(made')
  BY <1>3, <1>5 DEF Typed
<1>7. Typed'
  <2>1. starts' \in [Id -> 0..n] /\ keyError \subseteq 1..n /\ crossed \subseteq 1..n
    BY <1>2, <1>3, <1>4 DEF Typed
  <2>2. frame' \in [Thread -> Frame(n)]
    BY <1>2, <1>3, <1>4, TypesGrow DEF Typed
  <2> HIDE DEF n
  <2> QED BY <1>2, <1>3, <1>4, <1>5, <2>1, <2>2 DEF Typed
<1>8. Pairing'
  <2>1. \A u \in Thread : frame[u].op = "none"
    <3>1. \A u \in Thread : frame[u].op \in {"none", "start", "end"}
      BY <1>3 DEF Typed, Frame
    <3> QED BY <1>2, <1>3, <3>1 DEF Pairing
  <2> QED BY <1>2, <1>3, <2>1 DEF Pairing, DurationsPair
<1> HIDE DEF n
<1> QED BY <1>2, <1>5, <1>6, <1>7, <1>8, CallbackKeeps

LEMMA LangchainEndInv ==
  ASSUME IInv, NEW t \in Thread, NEW r \in Open, LangchainEnd(t, r),
         UNCHANGED <<setup, log, head, call>>
  PROVE  IInv'
<1>1. PICK what \in {"completed", "error"} : MakeEvent(t, what, r, 0)
  BY DEF LangchainEnd
<1>2. /\ family = "langchain" /\ runs' = [runs EXCEPT ![r].open = FALSE]
      /\ UNCHANGED <<family, starts, frame, keyError, crossed, mishaps, loop>>
  BY DEF LangchainEnd
<1>3. Typed /\ Pairing
  BY TypedForm DEF IInv, TypeOK
<1> DEFINE n == Len(runs)
<1>4. /\ runs' \in Seq(Run) /\ Len(runs') = n /\ n \in Nat /\ r \in 1..n
      /\ 0 \in 0..n /\ n <= n
  <2>1. runs \in Seq(Run)
    BY <1>3 DEF Typed
  <2>2. runs' \in Seq(Run) /\ Len(runs') = Len(runs) /\ Len(runs) \in Nat /\ r \in 1..Len(runs)
    BY <1>2, <2>1, EndRunFacts
  <2> QED BY <2>2
<1>5. /\ made' \in Seq(Made(n)) /\ Len(made) \in Nat /\ Len(made') = Len(made) + 1
      /\ events' \in Seq(1..Len(made'))
      /\ tasks' \in {tasks, tasks \cup {Len(made) + 1}}
      /\ tasks' \subseteq 1..Len(made')
  <2>1. what \in {"started", "completed", "error"}
    OBVIOUS
  <2>2. made \in Seq(Made(n)) /\ events \in Seq(1..Len(made)) /\ tasks \subseteq 1..Len(made)
    BY <1>3 DEF Typed
  <2> HIDE DEF n
  <2> QED BY <1>1, <1>4, <2>1, <2>2, MakeEventFacts
<1>6. DOMAIN made = 1..Len(made) /\ DOMAIN made' = 1..Len(made')
  BY <1>3, <1>5 DEF Typed
<1>7. Typed'
  BY <1>2, <1>3, <1>4, <1>5 DEF Typed
<1>8. Pairing'
  <2>1. \A u \in Thread : frame[u].op = "none"
    <3>1. \A u \in Thread : frame[u].op \in {"none", "start", "end"}
      BY <1>3 DEF Typed, Frame
    <3> QED BY <1>2, <1>3, <3>1 DEF Pairing
  <2> QED BY <1>2, <1>3, <2>1 DEF Pairing, DurationsPair
<1> HIDE DEF n
<1> QED BY <1>2, <1>5, <1>6, <1>7, <1>8, CallbackKeeps

\* self._starts[event_id] = ..: the runs that share the id are crossed.
LEMMA EventStartInv ==
  ASSUME IInv, NEW t \in Thread, EventStart(t), UNCHANGED <<setup, log, head, call>>
  PROVE  IInv'
<1> DEFINE n == Len(runs) + 1
<1>1. PICK id \in Id, kind \in Quiet \cup Reported :
        LET sharing == {q \in Open : runs[q].id = id}
        IN  /\ NewRun(id, kind)
            /\ starts' = [starts EXCEPT ![id] = n]
            /\ frame' = [frame EXCEPT ![t] = [op |-> "start", run |-> n, since |-> 0]]
            /\ crossed' = crossed \cup sharing \cup (IF sharing = {} THEN {} ELSE {n})
  BY DEF EventStart
<1> DEFINE sharing == {q \in Open : runs[q].id = id}
           new == [op |-> "start", run |-> n, since |-> 0]
<1>2. /\ family = "llamaindex" /\ frame[t] = Idle
      /\ UNCHANGED <<family, made, events, tasks, keyError, mishaps, loop>>
  BY DEF EventStart, NoEvent
<1>3. Typed /\ Pairing
  BY TypedForm DEF IInv, TypeOK
<1>4. /\ runs' \in Seq(Run) /\ Len(runs') = n /\ Len(runs) \in Nat
      /\ \A q \in 1..Len(runs) : runs'[q] = runs[q]
      /\ runs'[n].id = id /\ Open' = Open \cup {n}
  <2>1. runs \in Seq(Run) /\ NewRun(id, kind)
    BY <1>1, <1>3 DEF Typed
  <2> QED BY <2>1, NewRunFacts
<1>5. /\ n \in Nat /\ Len(runs) <= n /\ n \in 1..n /\ n \in 0..n /\ n \notin 1..Len(runs)
      /\ 1..Len(runs) \subseteq 1..n /\ 0..Len(runs) \subseteq 0..n
      /\ Open \subseteq 1..Len(runs)
      /\ DOMAIN runs = 1..Len(runs) /\ DOMAIN runs' = 1..n
  BY <1>3, <1>4, RunFacts DEF Typed
<1>6. new \in Frame(n) /\ new.op = "start" /\ new.run = n
  BY <1>5 DEF Frame
<1>7. /\ crossed' = crossed \cup sharing \cup (IF sharing = {} THEN {} ELSE {n})
      /\ frame' = [frame EXCEPT ![t] = new] /\ starts' = [starts EXCEPT ![id] = n]
  BY <1>1
<1>8. crossed \subseteq crossed' /\ sharing \subseteq crossed' /\ (sharing # {} => n \in crossed')
  BY <1>7
<1>9. /\ frame'[t] = new /\ \A u \in Thread : u # t => frame'[u] = frame[u]
      /\ starts'[id] = n /\ \A x \in Id : x # id => starts'[x] = starts[x]
  BY <1>3, <1>7 DEF Typed
<1>10. sharing \subseteq Open /\ \A q \in Open : q \in sharing <=> runs[q].id = id
  OBVIOUS
<1> HIDE DEF n, sharing, new
<1>11. Typed'
  <2>1. starts' \in [Id -> 0..n] /\ keyError' \subseteq 1..n /\ crossed' \subseteq 1..n
    BY <1>2, <1>3, <1>5, <1>7, <1>10 DEF Typed
  <2>2. frame' \in [Thread -> Frame(n)]
    BY <1>3, <1>4, <1>5, <1>6, <1>7, TypesGrow DEF Typed
  <2>3. made' \in Seq(Made(n))
    BY <1>2, <1>3, <1>4, <1>5, TypesGrow DEF Typed
  <2> QED BY <1>2, <1>3, <1>4, <2>1, <2>2, <2>3 DEF Typed
<1>12. Pairing'
  <2>1. ASSUME NEW u \in Thread, frame'[u].op # "none" PROVE frame'[u].run \in DOMAIN runs'
    BY <1>3, <1>5, <1>6, <1>9, <2>1 DEF Pairing
  <2>2. ASSUME NEW u \in Thread, frame'[u].op = "start" PROVE frame'[u].run \in Open'
    BY <1>3, <1>4, <1>6, <1>9, <2>2 DEF Pairing
  <2>3. ASSUME NEW u \in Thread, frame'[u].op = "end", frame'[u].run \notin crossed'
        PROVE  frame'[u].since = frame'[u].run
    BY <1>3, <1>6, <1>8, <1>9, <2>3 DEF Pairing
  <2>4. ASSUME NEW r \in Open', r \notin crossed' PROVE starts'[runs'[r].id] = r
    <3>1. CASE r = n
      BY <1>4, <1>9, <3>1
    <3>2. CASE r # n
      <4>1. r \in Open /\ r \in 1..Len(runs) /\ runs'[r] = runs[r]
        BY <1>4, <1>5, <2>4, <3>2
      <4>2. runs[r].id # id /\ r \notin crossed
        BY <1>8, <1>10, <2>4, <4>1
      <4>3. runs[r].id \in Id
        BY <1>3, <4>1, RunFacts DEF Typed
      <4> QED BY <1>2, <1>3, <1>9, <4>1, <4>2, <4>3 DEF Pairing
    <3> QED BY <3>1, <3>2
  <2>5. ASSUME NEW q \in Open', NEW r \in Open', q # r, runs'[q].id = runs'[r].id
        PROVE  q \in crossed'
    <3>1. CASE q = n
      <4>1. r \in Open /\ runs[r].id = id
        BY <1>4, <1>5, <2>5, <3>1
      <4> QED BY <1>8, <1>10, <3>1, <4>1
    <3>2. CASE r = n
      <4>1. q \in Open /\ runs[q].id = id
        BY <1>4, <1>5, <2>5, <3>2
      <4> QED BY <1>8, <1>10, <4>1
    <3>3. CASE q # n /\ r # n
      <4>1. q \in Open /\ r \in Open /\ runs[q].id = runs[r].id
        BY <1>4, <1>5, <2>5, <3>3
      <4> QED BY <1>2, <1>3, <1>8, <2>5, <4>1 DEF Pairing
    <3> QED BY <3>1, <3>2, <3>3
  <2>6. DurationsPair'
    BY <1>2, <1>3, <1>8 DEF Pairing, DurationsPair
  <2> QED BY <1>2, <2>1, <2>2, <2>3, <2>4, <2>5, <2>6 DEF Pairing
<1> QED BY <1>2, <1>11, <1>12, CallbackKeeps

\* The frame of a thread that returns to the framework.
LEMMA FrameLeft ==
  ASSUME Typed, NEW t \in Thread, frame' = [frame EXCEPT ![t] = Idle]
  PROVE  /\ frame' \in [Thread -> Frame(Len(runs))]
         /\ \A u \in Thread : frame'[u].op # "none" => u # t /\ frame'[u] = frame[u]
<1>1. Len(runs) \in Nat
  BY DEF Typed
<1>2. Idle \in Frame(Len(runs)) /\ Idle.op = "none"
  BY <1>1 DEF Idle, Frame
<1> QED BY <1>2 DEF Typed

\* KeyError is raised only where another run took the entry away.
LEMMA EventStartEmitsInv ==
  ASSUME IInv, NEW t \in Thread, EventStartEmits(t), UNCHANGED <<setup, log, head, call>>
  PROVE  IInv'
<1> DEFINE r == frame[t].run
           since == starts[runs[r].id]
           n == Len(runs)
<1>1. /\ frame[t].op = "start" /\ frame' = [frame EXCEPT ![t] = Idle]
      /\ \/ NoEvent /\ UNCHANGED keyError
         \/ MakeEvent(t, "started", r, since) /\ UNCHANGED keyError
         \/ since = 0 /\ keyError' = keyError \cup {r} /\ NoEvent
      /\ UNCHANGED <<family, runs, starts, crossed, mishaps, loop>>
  BY DEF EventStartEmits
<1>2. Typed /\ Pairing
  BY TypedForm DEF IInv, TypeOK
<1>3. /\ n \in Nat /\ n <= n /\ r \in Open /\ r \in 1..n /\ runs[r].id \in Id
      /\ DOMAIN runs = 1..n
  <2>1. r \in Open
    BY <1>1, <1>2 DEF Pairing
  <2>2. /\ n \in Nat /\ DOMAIN runs = 1..n /\ Open \subseteq 1..n
        /\ \A q \in 1..n : runs[q].id \in Id
    BY <1>2, RunFacts DEF Typed
  <2> HIDE DEF r, n
  <2>3. r \in 1..n /\ n <= n
    BY <2>1, <2>2
  <2> QED BY <2>1, <2>2, <2>3
<1>4. since \in 0..n /\ family = "llamaindex" /\ (r \notin crossed => since = r)
  BY <1>1, <1>2, <1>3 DEF Typed, Pairing
<1> HIDE DEF r, since
<1>5. /\ frame' \in [Thread -> Frame(n)]
      /\ \A u \in Thread : frame'[u].op # "none" => u # t /\ frame'[u] = frame[u]
  BY <1>1, <1>2, FrameLeft
<1>6. CASE MakeEvent(t, "started", r, since) /\ UNCHANGED keyError
  <2>1. made \in Seq(Made(n)) /\ events \in Seq(1..Len(made)) /\ tasks \subseteq 1..Len(made)
    BY <1>2 DEF Typed
  <2> HIDE DEF n
  <2>2. /\ made' \in Seq(Made(n)) /\ Len(made) \in Nat /\ Len(made') = Len(made) + 1
        /\ \A i \in 1..Len(made) : made'[i] = made[i]
        /\ made'[Len(made) + 1].run = r /\ made'[Len(made) + 1].since = since
        /\ events' \in Seq(1..Len(made'))
        /\ tasks' \in {tasks, tasks \cup {Len(made) + 1}}
        /\ tasks' \subseteq 1..Len(made')
    BY <1>3, <1>4, <1>6, <2>1, MakeEventFacts
  <2>3. DOMAIN made = 1..Len(made) /\ DOMAIN made' = 1..(Len(made) + 1)
    BY <2>1, <2>2
  <2>4. Typed'
    BY <1>1, <1>2, <1>5, <1>6, <2>2 DEF Typed, n
  <2>5. DurationsPair'
    BY <1>1, <1>2, <1>4, <1>6, <2>2, <2>3 DEF Pairing, DurationsPair
  <2>6. Pairing'
    BY <1>1, <1>2, <1>5, <2>5 DEF Pairing, Open
  <2> QED BY <1>1, <2>2, <2>3, <2>4, <2>6, CallbackKeeps
<1>7. CASE NoEvent /\ keyError' \subseteq keyError \cup {r} /\ (since = 0 \/ UNCHANGED keyError)
  <2>1. UNCHANGED <<made, events, tasks>> /\ keyError' \subseteq 1..n
    BY <1>2, <1>3, <1>7 DEF NoEvent, Typed
  <2>2. Typed'
    BY <1>1, <1>2, <1>5, <2>1 DEF Typed
  <2>3. DurationsPair'
    BY <1>1, <1>2, <1>3, <1>4, <1>7, <2>1 DEF Pairing, DurationsPair
  <2>4. Pairing'
    BY <1>1, <1>2, <1>5, <2>3 DEF Pairing, Open
  <2> QED BY <1>1, <2>1, <2>2, <2>4, CallbackKeeps
<1> QED BY <1>1, <1>6, <1>7

\* pop(): no other open run that is not crossed has the entry.
LEMMA EventEndInv ==
  ASSUME IInv, NEW t \in Thread, NEW r \in Open, EventEnd(t, r),
         UNCHANGED <<setup, log, head, call>>
  PROVE  IInv'
<1> DEFINE n == Len(runs)
           new == [op |-> "end", run |-> r, since |-> StartOf(r)]
<1>1. /\ family = "llamaindex" /\ \A u \in Thread : frame[u].run # r
      /\ runs' = [runs EXCEPT ![r].open = FALSE]
      /\ starts' = [starts EXCEPT ![runs[r].id] = 0]
      /\ frame' = [frame EXCEPT ![t] = new]
      /\ UNCHANGED <<family, made, events, tasks, keyError, crossed, mishaps, loop>>
  BY DEF EventEnd, NoEvent, Popped
<1>2. Typed /\ Pairing
  BY TypedForm DEF IInv, TypeOK
<1>3. runs \in Seq(Run)
  BY <1>2 DEF Typed
<1>4. /\ runs' \in Seq(Run) /\ Len(runs') = n /\ n \in Nat /\ r \in 1..n
      /\ DOMAIN runs' = DOMAIN runs /\ DOMAIN runs = 1..n
      /\ \A q \in 1..n : runs'[q].id = runs[q].id
      /\ Open' = Open \ {r} /\ Open \subseteq 1..n /\ \A q \in 1..n : runs[q].id \in Id
  BY <1>1, <1>3, EndRunFacts, RunFacts
<1>5. StartOf(r) \in 0..n /\ (r \notin crossed => StartOf(r) = r)
  BY <1>1, <1>2, <1>4 DEF StartOf, Typed, Pairing
<1>6. new \in Frame(n) /\ new.op = "end" /\ new.run = r /\ new.since = StartOf(r)
  BY <1>4, <1>5 DEF Frame
<1> HIDE DEF n, new
<1>7. /\ frame'[t] = new /\ \A u \in Thread : u # t => frame'[u] = frame[u]
      /\ frame' \in [Thread -> Frame(n)]
      /\ starts' \in [Id -> 0..n]
      /\ \A x \in Id : x # runs[r].id => starts'[x] = starts[x]
  BY <1>1, <1>2, <1>4, <1>6 DEF Typed, n
<1>8. Typed'
  BY <1>1, <1>2, <1>4, <1>7 DEF Typed, n
<1>9. Pairing'
  <2>1. ASSUME NEW u \in Thread, frame'[u].op # "none"
        PROVE  /\ frame'[u].run \in DOMAIN runs'
               /\ frame'[u].op = "start" => frame'[u].run \in Open'
               /\ frame'[u].op = "end" /\ frame'[u].run \notin crossed =>
                    frame'[u].since = frame'[u].run
    <3>1. CASE u = t
      BY <1>4, <1>5, <1>6, <1>7, <3>1
    <3>2. CASE u # t
      BY <1>1, <1>2, <1>4, <1>7, <2>1, <3>2 DEF Pairing
    <3> QED BY <3>1, <3>2
  <2>2. ASSUME NEW q \in Open', q \notin crossed PROVE starts'[runs'[q].id] = q
    <3>1. q \in Open /\ q # r /\ runs'[q].id = runs[q].id /\ runs[q].id \in Id
      BY <1>4
    <3>2. runs[q].id # runs[r].id /\ starts[runs[q].id] = q
      BY <1>1, <1>2, <2>2, <3>1 DEF Pairing
    <3> QED BY <1>7, <3>1, <3>2
  <2>3. \A p, q \in Open' : p # q /\ runs'[p].id = runs'[q].id => p \in crossed
    BY <1>1, <1>2, <1>4 DEF Pairing
  <2>4. DurationsPair'
    BY <1>1, <1>2, <1>4 DEF Pairing, DurationsPair
  <2> QED BY <1>1, <2>1, <2>2, <2>3, <2>4 DEF Pairing
<1> QED BY <1>1, <1>8, <1>9, CallbackKeeps

LEMMA EventEndEmitsInv ==
  ASSUME IInv, NEW t \in Thread, EventEndEmits(t), UNCHANGED <<setup, log, head, call>>
  PROVE  IInv'
<1> DEFINE r == frame[t].run
           since == frame[t].since
           n == Len(runs)
<1>1. /\ frame[t].op = "end" /\ frame' = [frame EXCEPT ![t] = Idle]
      /\ MakeEvent(t, "completed", r, since) \/ NoEvent
      /\ UNCHANGED <<family, runs, starts, keyError, crossed, mishaps, loop>>
  BY DEF EventEndEmits
<1>2. Typed /\ Pairing
  BY TypedForm DEF IInv, TypeOK
<1>3. n \in Nat /\ DOMAIN runs = 1..n
  BY <1>2, RunFacts DEF Typed
<1>4. r \in 1..n /\ since \in 0..n /\ (r \notin crossed => since = r)
  BY <1>1, <1>2, <1>3 DEF Typed, Frame, Pairing
<1> HIDE DEF r, since
<1>5. /\ frame' \in [Thread -> Frame(n)]
      /\ \A u \in Thread : frame'[u].op # "none" => u # t /\ frame'[u] = frame[u]
  BY <1>1, <1>2, FrameLeft
<1>6. CASE MakeEvent(t, "completed", r, since)
  <2>1. made \in Seq(Made(n)) /\ events \in Seq(1..Len(made)) /\ tasks \subseteq 1..Len(made)
    BY <1>2 DEF Typed
  <2> HIDE DEF n
  <2>2. n <= n
    BY <1>3
  <2>3. /\ made' \in Seq(Made(n)) /\ Len(made) \in Nat /\ Len(made') = Len(made) + 1
        /\ \A i \in 1..Len(made) : made'[i] = made[i]
        /\ made'[Len(made) + 1].run = r /\ made'[Len(made) + 1].since = since
        /\ events' \in Seq(1..Len(made'))
        /\ tasks' \in {tasks, tasks \cup {Len(made) + 1}}
        /\ tasks' \subseteq 1..Len(made')
    BY <1>3, <1>4, <1>6, <2>1, <2>2, MakeEventFacts
  <2>4. DOMAIN made = 1..Len(made) /\ DOMAIN made' = 1..(Len(made) + 1)
    BY <2>1, <2>3
  <2>5. Typed'
    BY <1>1, <1>2, <1>5, <2>3 DEF Typed, n
  <2>6. DurationsPair'
    <3>1. ASSUME NEW i \in DOMAIN made', family = "llamaindex", made'[i].run \notin crossed
          PROVE  made'[i].since = made'[i].run
      <4>1. CASE i = Len(made) + 1
        BY <1>4, <2>3, <3>1, <4>1
      <4>2. CASE i # Len(made) + 1
        <5>1. i \in DOMAIN made /\ made'[i] = made[i]
          BY <2>3, <2>4, <4>2
        <5> QED BY <1>2, <3>1, <5>1 DEF Pairing, DurationsPair
      <4> QED BY <4>1, <4>2
    <3> QED BY <1>1, <1>2, <3>1 DEF Pairing, DurationsPair
  <2>7. Pairing'
    BY <1>1, <1>2, <1>5, <2>6 DEF Pairing, Open
  <2> QED BY <1>1, <2>3, <2>4, <2>5, <2>7, CallbackKeeps
<1>7. CASE NoEvent
  <2>1. UNCHANGED <<made, events, tasks>>
    BY <1>7 DEF NoEvent
  <2>2. Typed'
    BY <1>1, <1>2, <1>5, <2>1 DEF Typed
  <2>3. Pairing'
    BY <1>1, <1>2, <1>5, <2>1 DEF Pairing, DurationsPair, Open
  <2> QED BY <1>1, <2>1, <2>2, <2>3, CallbackKeeps
<1> QED BY <1>1, <1>6, <1>7

LEMMA ClearEventsInv ==
  ASSUME IInv, NEW t \in Thread, ClearEvents(t), UNCHANGED <<setup, log, head, call>>
  PROVE  IInv'
<1>1. /\ mishaps < MaxMishaps /\ mishaps' = mishaps + 1 /\ events' = <<>>
      /\ \/ /\ starts' = [id \in Id |-> 0]
            /\ crossed' = crossed \cup Open
         \/ family # "llamaindex" /\ UNCHANGED <<starts, crossed>>
      /\ UNCHANGED <<family, runs, frame, made, keyError, tasks, loop>>
  BY DEF ClearEvents, Mishap
<1>2. Typed /\ Pairing
  BY TypedForm DEF IInv, TypeOK
<1>3. Len(runs) \in Nat /\ Open \subseteq 1..Len(runs) /\ Open' = Open
  BY <1>1, <1>2, RunFacts DEF Typed, Open
<1>4. Typed'
  <2>1. mishaps' \in 0..MaxMishaps
    BY <1>1, <1>2, CallbacksAssumption DEF Typed
  <2>2. starts' \in [Id -> 0..Len(runs)]
    <3>1. starts \in [Id -> 0..Len(runs)] /\ 0 \in 0..Len(runs)
      BY <1>2, <1>3 DEF Typed
    <3> QED BY <1>1, <3>1
  <2>4. crossed' \subseteq 1..Len(runs)
    BY <1>1, <1>2, <1>3 DEF Typed
  <2>3. events' \in Seq(1..Len(made'))
    BY <1>1
  <2> QED BY <1>1, <1>2, <2>1, <2>2, <2>3, <2>4 DEF Typed
<1>5. Pairing'
  <2>1. crossed \subseteq crossed' /\ (family = "llamaindex" => Open \subseteq crossed')
    BY <1>1
  <2>2. DurationsPair'
    BY <1>1, <1>2, <2>1 DEF Pairing, DurationsPair
  <2> QED BY <1>1, <1>2, <1>3, <2>1, <2>2 DEF Pairing
<1> QED BY <1>1, <1>4, <1>5, CallbackKeeps

LEMMA CallbackInv ==
  ASSUME IInv, Callbacks PROVE IInv'
<1>1. Callback /\ UNCHANGED <<setup, log, head, call>>
  BY DEF Callbacks
<1>2. PICK t \in Thread :
        \/ LangchainStart(t) \/ EventStart(t) \/ EventStartEmits(t) \/ EventEndEmits(t)
        \/ ClearEvents(t) \/ \E r \in Open : LangchainEnd(t, r) \/ EventEnd(t, r)
  BY <1>1 DEF Callback
<1> QED BY <1>1, <1>2, LangchainStartInv, LangchainEndInv, EventStartInv, EventStartEmitsInv,
           EventEndInv, EventEndEmitsInv, ClearEventsInv

-----------------------------------------------------------------------------
(* The log and the calls that read it.                                     *)

LEMMA LogFacts ==
  ASSUME TypeOK
  PROVE  /\ Typed
         /\ log \in Seq(Item) /\ Len(log) \in Nat /\ DOMAIN log = 1..Len(log)
         /\ \A i \in 1..Len(log) : log[i] \in Item
         /\ head \in 0..Len(log) /\ setup \in Setup
         /\ call \in [Call -> CallState(Len(log))]
<1>1. Typed
  BY TypedForm DEF TypeOK
<1>2. log \in Seq(Item) /\ Len(log) \in Nat /\ DOMAIN log = 1..Len(log)
  BY DEF TypeOK
<1> QED BY <1>1, <1>2 DEF TypeOK, CallState, Place

LogTyped ==
  /\ Typed /\ log \in Seq(Item) /\ head \in 0..Len(log) /\ setup \in Setup
  /\ call \in [Call -> CallState(Len(log))]

LEMMA LogForm == LogTyped => TypeOK
<1>1. log \in Seq(Item) => DOMAIN log = 1..Len(log)
  OBVIOUS
<1> QED BY <1>1, TypedForm DEF LogTyped, TypeOK, CallState, Place

LEMMA SetupFacts ==
  ASSUME TypeOK
  PROVE  /\ transport \in {"queue", "async", "group", "anonymous"}
         /\ setup.max \in Nat /\ setup.skip \in BOOLEAN
BY IntakeAssumption DEF TypeOK, transport

LEMMA StateFacts ==
  ASSUME NEW n \in Nat, NEW s \in CallState(n)
  PROVE  /\ s.at \in Place /\ s.got \in Seq(1..n) /\ s.pos \in 0..n /\ s.saved \in BOOLEAN
         /\ Len(s.got) \in Nat /\ DOMAIN s.got = 1..Len(s.got)
         /\ \A k \in DOMAIN s.got : s.got[k] \in 1..n
<1>1. s.at \in Place /\ s.got \in Seq(1..n) /\ s.pos \in 0..n /\ s.saved \in BOOLEAN
  BY DEF CallState
<1> QED BY <1>1

LEMMA ItemFacts ==
  ASSUME NEW item \in Item
  PROVE  item.type \in {"event", "stop", "malformed", "garbled"} /\ item.event \in Nat
BY DEF Item

\* An item is put, an event by the task that held it.
LEMMA PutInv ==
  ASSUME IInv, NEW type \in {"event", "stop", "malformed", "garbled"}, NEW n \in Nat,
         PutItem(type, n), tasks' \subseteq tasks,
         type = "event" => n \in tasks \ tasks',
         ~Kafka => type \in {"event", "stop"}
  PROVE  IInv'
<1> DEFINE item == [type |-> type, event |-> n]
<1> PICK m \in Nat : m = Len(log)
  BY LogFacts DEF IInv
<1>1. /\ log' = Append(log, item)
      /\ UNCHANGED <<family, runs, starts, frame, made, events, keyError, crossed,
                     mishaps, loop, setup, head, call>>
  BY DEF PutItem, handlerVars
<1>2. item \in Item /\ item.type = type /\ item.event = n
  BY DEF Item
<1>3. /\ Typed /\ log \in Seq(Item) /\ m \in Nat /\ DOMAIN log = 1..m
      /\ head \in 0..m /\ setup \in Setup /\ call \in [Call -> CallState(m)]
  BY LogFacts DEF IInv
<1>4. Pairing /\ Stored /\ Turns /\ Sources /\ NothingSkipped /\ ReadOnce
  BY DEF IInv
<1> HIDE DEF item
<1>5. /\ log' \in Seq(Item) /\ Len(log') = m + 1 /\ DOMAIN log' = 1..(m + 1)
      /\ log'[m + 1] = item /\ \A i \in 1..m : log'[i] = log[i]
  BY <1>1, <1>2, <1>3
<1>6. /\ \A i \in 1..m : EventAt(i)' <=> EventAt(i)
      /\ EventAt(m + 1)' <=> type = "event"
      /\ transport' = transport /\ (Kafka' <=> Kafka)
  <2>1. transport' = transport
    BY <1>1 DEF transport
  <2> QED BY <1>1, <1>2, <1>5, <2>1 DEF EventAt, Kafka
<1>7. Typed'
  BY <1>1, <1>3 DEF Typed
<1>8. TypeOK'
  <2>1. call' \in [Call -> CallState(m + 1)] /\ head' \in 0..(m + 1)
    BY <1>1, <1>3, TypesGrow
  <2>2. Len(log)' = m + 1
    BY <1>5
  <2>3. LogTyped'
    BY <1>1, <1>3, <1>5, <1>7, <2>1, <2>2 DEF LogTyped
  <2> QED BY <2>3, LogForm, PTL
<1>9. Pairing'
  BY <1>1, <1>4 DEF Pairing, DurationsPair, Open
<1>10. Stored'
  <2>1. tasks \subseteq DOMAIN made
    BY <1>3 DEF Typed
  <2>2. ASSUME NEW i \in DOMAIN log', EventAt(i)'
        PROVE  /\ log'[i].event \in DOMAIN made \ tasks'
               /\ i = m + 1 => log'[i].event \in tasks
               /\ i # m + 1 => i \in 1..m /\ log'[i] = log[i] /\ EventAt(i)
                               /\ log'[i].event \notin tasks
    <3>1. CASE i = m + 1
      BY <1>2, <1>5, <1>6, <2>1, <2>2, <3>1
    <3>2. CASE i # m + 1
      BY <1>3, <1>4, <1>5, <1>6, <2>2, <3>2 DEF Stored
    <3> QED BY <3>1, <3>2
  <2>3. \A i, j \in DOMAIN log' :
          EventAt(i)' /\ EventAt(j)' /\ log'[i].event = log'[j].event => i = j
    BY <1>3, <1>4, <2>2 DEF Stored
  <2>4. ~Kafka' => \A i \in DOMAIN log' : log'[i].type \in {"event", "stop"}
    BY <1>2, <1>3, <1>4, <1>5, <1>6 DEF Stored
  <2> QED BY <1>1, <2>2, <2>3, <2>4 DEF Stored, EventAt
<1>11. Turns'
  BY <1>1, <1>4, <1>6 DEF Turns
<1>12. NothingSkipped' /\ ReadOnce'
  <2>1. \A i \in 1..head : i \in 1..m
    BY <1>3
  <2>2. \A c \in Call : Got(c)' = Got(c)
    BY <1>1 DEF Got
  <2>3. \A i \in 1..head' : EventAt(i)' => \E c \in Call : i \in Got(c)'
    BY <1>1, <1>4, <1>6, <2>1, <2>2 DEF NothingSkipped
  <2>4. ReadOnce'
    BY <1>1, <1>4, <1>6, <2>2 DEF ReadOnce
  <2> QED BY <2>3, <2>4 DEF NothingSkipped
<1>13. ASSUME NEW c \in Call PROVE Sound(call[c], head)'
  <2>1. /\ Sound(call[c], head)
        /\ call[c].pos \in 0..m /\ Len(call[c].got) \in Nat
        /\ \A k \in DOMAIN call[c].got : call[c].got[k] \in 1..m
    <3>1. Sound(call[c], head) /\ call[c] \in CallState(m)
      BY <1>3, <1>4 DEF Sources
    <3> QED BY <1>3, <3>1, StateFacts
  <2>2. \A i \in 1..(m + 1) : i <= call[c].pos => i \in 1..m
    BY <1>3, <2>1
  <2>3. \A i \in (head + 1)..call[c].pos : i \in 1..m
    BY <1>3, <2>1
  <2>4. \A k \in DOMAIN call[c].got : log'[call[c].got[k]].type = "event"
    BY <1>5, <2>1 DEF Sound, EventAt
  <2>5. Kafka => \A i \in DOMAIN log' :
          (EventAt(i)' /\ call[c].got # <<>> /\ i > call[c].got[1] /\ i <= call[c].pos) =>
            \E k \in DOMAIN call[c].got : call[c].got[k] = i
    BY <1>3, <1>5, <1>6, <2>1, <2>2 DEF Sound
  <2>6. transport = "group" /\ call[c].at = "reading" =>
          \A i \in (head + 1)..call[c].pos : EventAt(i)' =>
             \E k \in DOMAIN call[c].got : call[c].got[k] = i
    BY <1>6, <2>1, <2>3 DEF Sound
  <2> QED BY <1>1, <1>6, <2>1, <2>4, <2>5, <2>6 DEF Sound, EventAt
<1>14. Sources'
  BY <1>1, <1>4, <1>6, <1>13 DEF Sources
<1> QED BY <1>8, <1>9, <1>10, <1>11, <1>12, <1>14 DEF IInv

\* Steps that move calls, and end tasks, but put nothing.
LEMMA CallsMove ==
  ASSUME IInv, UNCHANGED <<handlerVars, setup, log>>,
         mishaps' \in 0..MaxMishaps, loop' \in BOOLEAN, tasks' \subseteq tasks,
         head' \in 0..Len(log), call' \in [Call -> CallState(Len(log))],
         transport = "anonymous" => head' = 0,
         \A c \in Call : Sound(call'[c], head'),
         Turns', NothingSkipped', ReadOnce'
  PROVE  IInv'
<1>1. UNCHANGED <<family, runs, starts, frame, made, events, keyError, crossed>>
  BY DEF handlerVars
<1>2. Typed /\ log \in Seq(Item) /\ setup \in Setup
  BY LogFacts DEF IInv
<1>3. TypeOK'
  <2>1. LogTyped'
    BY <1>1, <1>2 DEF LogTyped, Typed
  <2> QED BY <2>1, LogForm, PTL
<1>4. Pairing'
  BY <1>1 DEF IInv, Pairing, DurationsPair, Open
<1>5. Stored'
  BY <1>1 DEF IInv, Stored, EventAt, Kafka, transport
<1>6. Sources'
  BY <1>1 DEF IInv, Sources, Sound, EventAt, Kafka, transport
<1> QED BY <1>3, <1>4, <1>5, <1>6 DEF IInv

LEMMA MishapFacts ==
  ASSUME IInv PROVE mishaps \in 0..MaxMishaps /\ (Mishap => mishaps' \in 0..MaxMishaps)
BY LogFacts, CallbacksAssumption DEF IInv, Typed, Mishap

LEMMA ExportInv ==
  ASSUME IInv, NEW n \in tasks, ExportDone(n) \/ ExportFails(n) PROVE IInv'
<1>1. Typed
  BY LogFacts DEF IInv
<1>2. CASE ExportDone(n)
  <2>1. n \in Nat /\ tasks' = tasks \ {n} /\ PutItem("event", n)
    BY <1>1, <1>2 DEF ExportDone, Typed
  <2> QED BY <2>1, PutInv
<1>3. CASE ExportFails(n)
  <2>1. tasks' = tasks \ {n} /\ UNCHANGED <<handlerVars, loop, setup, log, head, call>>
        /\ mishaps' \in 0..MaxMishaps
    BY <1>3, MishapFacts DEF ExportFails
  <2>2. Typed'
    BY <1>1, <2>1 DEF Typed, handlerVars
  <2>3. Pairing'
    BY <2>1 DEF IInv, Pairing, DurationsPair, Open, handlerVars
  <2> QED BY <2>1, <2>2, <2>3, CallbackKeeps DEF handlerVars
<1> QED BY <1>2, <1>3

LEMMA PutStopInv ==
  ASSUME IInv, PutStop \/ \E type \in {"malformed", "garbled"} : PutOther(type) PROVE IInv'
<1>1. CASE PutStop
  <2>1. PutItem("stop", 0) /\ tasks' = tasks
    BY <1>1 DEF PutStop
  <2> QED BY <2>1, PutInv
<1>2. ASSUME NEW type \in {"malformed", "garbled"}, PutOther(type) PROVE IInv'
  <2>1. Kafka /\ PutItem(type, 0) /\ tasks' = tasks
    BY <1>2 DEF PutOther
  <2> QED BY <2>1, PutInv
<1> QED BY <1>1, <1>2

\* asyncio.run() cancels the readers on its loop: they keep what they got.
LEMMA LoopEndsInv ==
  ASSUME IInv, LoopEnds PROVE IInv'
<1>1. /\ mishaps' \in 0..MaxMishaps /\ loop' = FALSE /\ tasks' = {}
      /\ UNCHANGED <<handlerVars, setup, log, head>>
      /\ call' = [c \in Call |->
           IF transport = "async" /\ call[c].at = "reading"
             THEN [call[c] EXCEPT !.at = "cancelled"] ELSE call[c]]
  BY MishapFacts DEF LoopEnds
<1>2. /\ head \in 0..Len(log) /\ Len(log) \in Nat /\ call \in [Call -> CallState(Len(log))]
      /\ Turns /\ Sources /\ NothingSkipped /\ ReadOnce
  BY LogFacts DEF IInv
<1>3. ASSUME NEW c \in Call
      PROVE  /\ call'[c] \in CallState(Len(log))
             /\ call'[c].got = call[c].got
             /\ call'[c].pos = call[c].pos /\ call'[c].saved = call[c].saved
             /\ \/ call'[c].at = call[c].at
                \/ transport = "async" /\ call[c].at = "reading" /\ call'[c].at = "cancelled"
  <2>1. CASE transport = "async" /\ call[c].at = "reading"
    <3>1. call'[c] = [call[c] EXCEPT !.at = "cancelled"] /\ call[c] \in CallState(Len(log))
      BY <1>1, <1>2, <2>1
    <3> QED BY <2>1, <3>1 DEF CallState, Place
  <2>2. CASE ~(transport = "async" /\ call[c].at = "reading")
    <3>1. call'[c] = call[c]
      BY <1>1, <2>2
    <3>2. call[c] \in CallState(Len(log))
      BY <1>2
    <3> QED BY <3>1, <3>2
  <2> QED BY <2>1, <2>2
<1>4. call' \in [Call -> CallState(Len(log))]
  <2>1. call' = [c \in Call |-> call'[c]]
    BY <1>1
  <2> QED BY <1>3, <2>1
<1>5. transport = "async" => ~Kafka /\ transport # "group"
  BY DEF Kafka
<1>6. ASSUME NEW c \in Call PROVE Sound(call'[c], head')
  BY <1>1, <1>2, <1>3, <1>5 DEF Sources, Sound
<1>7. Turns'
  BY <1>1, <1>2, <1>3, <1>5 DEF Turns, Kafka, transport
<1>8. NothingSkipped' /\ ReadOnce'
  <2>1. \A c \in Call : Got(c)' = Got(c)
    BY <1>3 DEF Got
  <2>2. NothingSkipped'
    BY <1>1, <1>2, <2>1 DEF NothingSkipped, EventAt
  <2>3. ReadOnce'
    BY <1>1, <1>2, <1>3, <2>1 DEF ReadOnce, transport
  <2> QED BY <2>2, <2>3
<1>9. transport = "anonymous" => head' = 0
  BY <1>1, <1>2 DEF Sources
<1> QED BY <1>1, <1>2, <1>4, <1>6, <1>7, <1>8, <1>9, CallsMove

LEMMA BeginInv ==
  ASSUME IInv, NEW c \in Call, Begin(c) PROVE IInv'
<1> DEFINE s == [at |-> "reading", got |-> <<>>,
                 pos |-> IF transport = "anonymous" THEN 0 ELSE head, saved |-> TRUE]
<1>1. /\ call[c].at = "idle"
      /\ \A d \in Call : d < c => IF Kafka THEN call[d].at \notin {"idle", "reading"}
                                           ELSE call[d].at # "idle"
      /\ call' = [call EXCEPT ![c] = s]
      /\ UNCHANGED <<head, mishaps, handlerVars, tasks, loop, setup, log>>
  BY DEF Begin, Become, Quietly
<1>2. /\ head \in 0..Len(log) /\ Len(log) \in Nat /\ call \in [Call -> CallState(Len(log))]
      /\ Turns /\ Sources /\ NothingSkipped /\ ReadOnce
      /\ loop \in BOOLEAN /\ mishaps \in 0..MaxMishaps
  BY LogFacts DEF IInv, Typed
<1>3. /\ s.at = "reading" /\ s.got = <<>> /\ s.saved = TRUE
      /\ s.pos = IF transport = "anonymous" THEN 0 ELSE head
  OBVIOUS
<1>4. s \in CallState(Len(log))
  <2>1. s.pos \in 0..Len(log) /\ <<>> \in Seq(1..Len(log)) /\ "reading" \in Place
    BY <1>2, <1>3 DEF Place
  <2> QED BY <2>1 DEF CallState
<1> HIDE DEF s
<1>5. /\ call'[c] = s /\ \A d \in Call : d # c => call'[d] = call[d]
      /\ call' \in [Call -> CallState(Len(log))]
  BY <1>1, <1>2, <1>4
<1>6. Sound(s, head)
  BY <1>2, <1>3, SetupFacts DEF IInv, Sound
<1>7. \A d \in Call : Sound(call'[d], head')
  BY <1>1, <1>2, <1>5, <1>6 DEF Sources
<1>8. Turns'
  <2>1. \A d, e \in Call : d < e => e \in Nat /\ d \in Nat
    BY IntakeAssumption
  <2>2. ASSUME NEW e \in Call, NEW d \in Call, d < e, call'[e].at # "idle"
        PROVE  call'[d].at # "idle" /\ (Kafka => call'[d].at # "reading")
    <3>1. CASE e = c
      BY <1>1, <1>5, <2>1, <2>2, <3>1
    <3>2. CASE e # c
      <4>1. call[e].at # "idle" /\ call[d].at # "idle" /\ (Kafka => call[d].at # "reading")
        BY <1>2, <1>5, <2>2, <3>2 DEF Turns
      <4> QED BY <1>1, <1>5, <4>1
    <3> QED BY <3>1, <3>2
  <2> QED BY <1>1, <2>2 DEF Turns, Kafka, transport
<1>9. NothingSkipped' /\ ReadOnce'
  <2>1. call[c].got = <<>>
    BY <1>1, <1>2 DEF Sources, Sound
  <2>2. \A d \in Call : Got(d)' = Got(d)
    BY <1>3, <1>5, <2>1 DEF Got
  <2>3. NothingSkipped'
    BY <1>1, <1>2, <2>2 DEF NothingSkipped, EventAt
  <2>4. Got(c) = {}
    BY <2>1 DEF Got
  <2>5. ReadOnce'
    BY <1>1, <1>2, <1>5, <2>2, <2>4 DEF ReadOnce, transport
  <2> QED BY <2>3, <2>5
<1>10. transport = "anonymous" => head' = 0
  BY <1>1, <1>2 DEF Sources
<1> QED BY <1>1, <1>2, <1>5, <1>7, <1>8, <1>9, <1>10, CallsMove

-----------------------------------------------------------------------------
(* One call of a reader goes on.                                           *)

\* s is the next state of a call that is reading, h what is gone after it.
Advance(c, s, h) ==
  /\ \A k \in DOMAIN call[c].got : \E j \in DOMAIN s.got : s.got[j] = call[c].got[k]
  /\ \A k \in DOMAIN s.got : s.got[k] \in Got(c) \/ s.got[k] > head
  /\ \A i \in (head + 1)..h : EventAt(i) => \E k \in DOMAIN s.got : s.got[k] = i

\* A call that was reading is in the state s now, and no other variable has
\* changed but what is gone.
ReadStep(c) ==
  /\ call[c].at = "reading"
  /\ UNCHANGED <<handlerVars, tasks, loop, setup, log>>
  /\ head' \in head..Len(log)
  /\ \E s \in CallState(Len(log)) : /\ call' = [call EXCEPT ![c] = s] /\ s.at # "idle"
                                   /\ Advance(c, s, head')

LEMMA CallStep ==
  ASSUME IInv, NEW c \in Call, call[c].at = "reading",
         NEW s \in CallState(Len(log)), s.at # "idle", call' = [call EXCEPT ![c] = s],
         UNCHANGED <<handlerVars, tasks, loop, setup, log>>, mishaps' \in 0..MaxMishaps,
         head' \in head..Len(log), transport = "anonymous" => head' = 0,
         Sound(s, head'), Advance(c, s, head')
  PROVE  IInv' /\ ReadStep(c)
<1>1. /\ head \in 0..Len(log) /\ Len(log) \in Nat /\ call \in [Call -> CallState(Len(log))]
      /\ Turns /\ Sources /\ NothingSkipped /\ ReadOnce /\ loop \in BOOLEAN
  BY LogFacts DEF IInv, Typed
<1>2. /\ call'[c] = s /\ \A d \in Call : d # c => call'[d] = call[d]
      /\ call' \in [Call -> CallState(Len(log))]
  BY <1>1
<1>3. /\ Got(c) \subseteq Got(c)'
      /\ \A i \in Got(c)' : i \in Got(c) \/ i > head
      /\ \A d \in Call : d # c => Got(d)' = Got(d)
      /\ \A i \in (head + 1)..head' : EventAt(i) => i \in Got(c)'
  BY <1>2 DEF Got, Advance
<1>4. \A d, e \in Call : d \in Nat /\ e \in Nat /\ (d = e \/ d < e \/ e < d)
  BY IntakeAssumption
<1>5. \A d \in Call : d # c /\ Kafka => call[d].at # "reading"
  BY <1>1, <1>4 DEF Turns
<1>6. ASSUME NEW d \in Call PROVE Sound(call'[d], head')
  <2>1. CASE d = c
    BY <1>2, <2>1
  <2>2. CASE d # c
    <3>1. Sound(call[d], head) /\ call[d] \in CallState(Len(log))
      BY <1>1 DEF Sources
    <3>2. \A k \in DOMAIN call[d].got : call[d].got[k] \in Nat
      BY <1>1, <3>1, StateFacts
    <3>3. head \in Nat /\ head' \in Nat /\ head <= head'
      BY <1>1
    <3>4. \A k \in DOMAIN call[d].got : call[d].got[k] <= head => call[d].got[k] <= head'
      BY <3>2, <3>3
    <3>5. transport = "group" => Kafka
      BY DEF Kafka
    <3> QED BY <1>2, <1>5, <2>2, <3>1, <3>4, <3>5 DEF Sound
  <2> QED BY <2>1, <2>2
<1>7. Turns'
  <2>1. ASSUME NEW e \in Call, NEW d \in Call, d < e, call'[e].at # "idle"
        PROVE  call'[d].at # "idle" /\ (Kafka => call'[d].at # "reading")
    <3>1. call[e].at # "idle"
      BY <1>2, <2>1
    <3>2. call[d].at # "idle" /\ (Kafka => call[d].at # "reading")
      BY <1>1, <2>1, <3>1 DEF Turns
    <3> QED BY <1>2, <3>2
  <2> QED BY <2>1 DEF Turns, Kafka, transport
<1>8. NothingSkipped'
  <2>1. ASSUME NEW i \in 1..head', EventAt(i) PROVE \E d \in Call : i \in Got(d)'
    <3>1. CASE i <= head
      <4>1. PICK d \in Call : i \in Got(d)
        BY <1>1, <2>1, <3>1 DEF NothingSkipped
      <4> QED BY <1>3, <4>1
    <3>2. CASE i > head
      BY <1>1, <1>3, <2>1, <3>2
    <3> QED BY <1>1, <3>1, <3>2
  <2> QED BY <2>1 DEF NothingSkipped, EventAt
<1>9. ReadOnce'
  <2>1. ASSUME NEW d \in Call, d # c, Got(c)' \cap Got(d) # {}
        PROVE  \/ transport = "anonymous"
               \/ transport = "group" /\ ~(s.saved /\ call[d].saved)
    <3>1. PICK i \in Got(d) : i \in Got(c)'
      BY <2>1
    <3>2. CASE i \in Got(c)
      <4>1. call[c].saved
        BY <1>1 DEF Sources, Sound
      <4> QED BY <1>1, <2>1, <3>1, <3>2, <4>1 DEF ReadOnce
    <3>3. CASE i > head
      <4>1. PICK k \in DOMAIN call[d].got : i = call[d].got[k]
        BY <3>1 DEF Got
      <4>2. i \in Nat /\ ~(i <= head)
        BY <1>1, <3>3, <4>1, StateFacts
      <4>3. ~Kafka => i <= head
        BY <1>1, <4>1 DEF Sources, Sound
      <4>4. transport = "group" /\ call[d].saved => i <= head
        BY <1>1, <1>5, <2>1, <4>1 DEF Sources, Sound, Kafka
      <4> QED BY <4>2, <4>3, <4>4 DEF Kafka
    <3> QED BY <1>3, <3>1, <3>2, <3>3
  <2>2. \A d, e \in Call : (d # e /\ Got(d)' \cap Got(e)' # {}) =>
          \/ transport = "anonymous"
          \/ transport = "group" /\ ~(call'[d].saved /\ call'[e].saved)
    <3> SUFFICES ASSUME NEW d \in Call, NEW e \in Call, d # e, Got(d)' \cap Got(e)' # {}
                 PROVE  \/ transport = "anonymous"
                        \/ transport = "group" /\ ~(call'[d].saved /\ call'[e].saved)
      OBVIOUS
    <3>1. CASE d = c
      BY <1>2, <1>3, <2>1, <3>1
    <3>2. CASE e = c
      BY <1>2, <1>3, <2>1, <3>2
    <3>3. CASE d # c /\ e # c
      BY <1>1, <1>2, <1>3, <3>3 DEF ReadOnce
    <3> QED BY <3>1, <3>2, <3>3
  <2> QED BY <2>2 DEF ReadOnce, transport
<1>10. head' \in 0..Len(log)
  BY <1>1
<1>11. IInv'
  BY <1>1, <1>2, <1>6, <1>7, <1>8, <1>9, <1>10, CallsMove
<1>12. ReadStep(c)
  BY DEF ReadStep
<1> QED BY <1>11, <1>12

LEMMA ReadingFacts ==
  ASSUME IInv, NEW c \in Call, call[c].at = "reading"
  PROVE  /\ call[c] \in CallState(Len(log)) /\ Sound(call[c], head) /\ call[c].saved
         /\ call[c].got \in Seq(1..Len(log)) /\ call[c].pos \in 0..Len(log)
         /\ Len(call[c].got) \in Nat /\ DOMAIN call[c].got = 1..Len(call[c].got)
         /\ \A k \in DOMAIN call[c].got : call[c].got[k] \in 1..Len(log)
         /\ Len(log) \in Nat /\ head \in 0..Len(log) /\ mishaps \in 0..MaxMishaps
         /\ transport = "anonymous" => head = 0
<1>1. /\ call[c] \in CallState(Len(log)) /\ Sound(call[c], head)
      /\ transport = "anonymous" => head = 0
      /\ Len(log) \in Nat /\ head \in 0..Len(log) /\ mishaps \in 0..MaxMishaps
  BY LogFacts, MishapFacts DEF IInv, Sources
<1> QED BY <1>1, StateFacts DEF Sound

\* A call that collects nothing in this step.
LEMMA SameGot ==
  ASSUME NEW c \in Call, NEW s, s.got = call[c].got, NEW h, h = head, head \in Nat
  PROVE  Advance(c, s, h)
BY DEF Advance, Got

LEMMA QuietEndInv ==
  ASSUME IInv, NEW c \in Call, QueueEmpty(c) \/ Cancel(c) \/ Crash(c) PROVE IInv' /\ ReadStep(c)
<1>1. /\ call[c].at = "reading" /\ head' = head /\ mishaps' \in 0..MaxMishaps
      /\ UNCHANGED <<handlerVars, tasks, loop, setup, log>>
      /\ transport \in {"queue", "async", "group", "anonymous"}
  BY MishapFacts DEF QueueEmpty, Cancel, Crash, Reading, Quietly
<1>2. /\ call[c] \in CallState(Len(log)) /\ Sound(call[c], head)
      /\ Len(log) \in Nat /\ head \in 0..Len(log) /\ head \in head..Len(log)
      /\ transport = "anonymous" => head = 0
  BY <1>1, ReadingFacts
<1>3. ASSUME NEW s \in CallState(Len(log)), s.at \in {"returned", "cancelled", "crashed"},
             s.got = call[c].got, s.pos = call[c].pos, ~Kafka \/ ~s.saved,
             call' = [call EXCEPT ![c] = s]
      PROVE  IInv' /\ ReadStep(c)
  <2>1. Sound(s, head')
    BY <1>1, <1>2, <1>3 DEF Sound, Kafka
  <2>2. Advance(c, s, head')
    BY <1>1, <1>2, <1>3, SameGot
  <2> QED BY <1>1, <1>2, <1>3, <2>1, <2>2, CallStep
<1>4. CASE QueueEmpty(c) \/ Cancel(c)
  <2>1. PICK at \in {"returned", "cancelled"} : call' = [call EXCEPT ![c] = [call[c] EXCEPT !.at = at]]
    BY <1>4 DEF QueueEmpty, Cancel, Become
  <2>2. ~Kafka
    BY <1>4 DEF QueueEmpty, Cancel, Reading, Kafka
  <2> DEFINE s == [call[c] EXCEPT !.at = at]
  <2>3. /\ s \in CallState(Len(log)) /\ s.at = at
        /\ s.got = call[c].got /\ s.pos = call[c].pos
    BY <1>2 DEF CallState, Place
  <2> HIDE DEF s
  <2> QED BY <1>3, <2>1, <2>2, <2>3 DEF s
<1>5. CASE Crash(c)
  <2> DEFINE s == [call[c] EXCEPT !.at = "crashed", !.saved = FALSE]
  <2>1. /\ s \in CallState(Len(log)) /\ s.at = "crashed" /\ ~s.saved
        /\ s.got = call[c].got /\ s.pos = call[c].pos
    BY <1>2 DEF CallState, Place
  <2>2. call' = [call EXCEPT ![c] = s]
    BY <1>5 DEF Crash, Become
  <2> HIDE DEF s
  <2> QED BY <1>3, <2>1, <2>2
<1> QED BY <1>4, <1>5 DEF QueueEmpty, Cancel, Crash

\* One item off the queue.
LEMMA TakeItemInv ==
  ASSUME IInv, NEW c \in Call, TakeItem(c) PROVE IInv' /\ ReadStep(c)
<1>1. /\ call[c].at = "reading" /\ head' = head + 1 /\ head < Len(log) /\ mishaps' = mishaps
      /\ UNCHANGED <<handlerVars, tasks, loop, setup, log>>
      /\ transport \in {"queue", "async"}
      /\ call' = [call EXCEPT ![c] =
                    IF log[head + 1].type = "stop" THEN [call[c] EXCEPT !.at = "returned"]
                    ELSE [call[c] EXCEPT !.got = Append(call[c].got, head + 1)]]
  BY DEF TakeItem, Reading, Quietly, Become, Ends
<1>2. /\ call[c] \in CallState(Len(log)) /\ Sound(call[c], head)
      /\ call[c].got \in Seq(1..Len(log)) /\ Len(call[c].got) \in Nat
      /\ DOMAIN call[c].got = 1..Len(call[c].got)
      /\ \A k \in DOMAIN call[c].got : call[c].got[k] \in 1..Len(log)
      /\ Len(log) \in Nat /\ head \in 0..Len(log) /\ mishaps \in 0..MaxMishaps
  BY <1>1, ReadingFacts
<1>3. ~Kafka /\ transport # "group" /\ transport # "anonymous"
  BY <1>1 DEF Kafka
<1>4. log[head + 1].type \in {"event", "stop"}
  <2>1. head + 1 \in DOMAIN log
    BY <1>1, <1>2, LogFacts DEF IInv
  <2> QED BY <1>3, <2>1 DEF IInv, Stored
<1>5. /\ head' \in head..Len(log)
      /\ \A k \in DOMAIN call[c].got : call[c].got[k] <= head /\ call[c].got[k] <= head'
      /\ \A i \in (head + 1)..head' : i = head + 1
  BY <1>1, <1>2, <1>3 DEF Sound
<1>6. CASE log[head + 1].type = "stop"
  <2> DEFINE s == [call[c] EXCEPT !.at = "returned"]
  <2>1. s \in CallState(Len(log)) /\ s.at = "returned" /\ s.got = call[c].got
    BY <1>2 DEF CallState, Place
  <2>2. call' = [call EXCEPT ![c] = s]
    BY <1>1, <1>6
  <2> HIDE DEF s
  <2>3. Sound(s, head')
    BY <1>2, <1>3, <1>5, <2>1 DEF Sound
  <2>4. Advance(c, s, head')
    BY <1>5, <1>6, <2>1 DEF Advance, Got, EventAt
  <2> QED BY <1>1, <1>2, <1>3, <1>5, <2>1, <2>2, <2>3, <2>4, CallStep
<1>7. CASE log[head + 1].type = "event"
  <2> DEFINE got == Append(call[c].got, head + 1)
             s == [call[c] EXCEPT !.got = got]
             n == Len(call[c].got)
  <2>1. /\ got \in Seq(1..Len(log)) /\ DOMAIN got = 1..(n + 1) /\ got[n + 1] = head + 1
        /\ \A k \in 1..n : got[k] = call[c].got[k]
    BY <1>1, <1>2
  <2>2. call' = [call EXCEPT ![c] = s]
    BY <1>1, <1>7
  <2> HIDE DEF got
  <2>3. s \in CallState(Len(log)) /\ s.at = "reading" /\ s.got = got /\ s.saved = call[c].saved
    BY <1>1, <1>2, <2>1 DEF CallState
  <2> HIDE DEF s, n
  <2>4. /\ n \in Nat /\ DOMAIN call[c].got = 1..n
        /\ \A k \in 1..(n + 1) : k \in 1..n \/ k = n + 1
    BY <1>2 DEF n
  <2>5. \A k \in DOMAIN got : EventAt(got[k]) /\ got[k] <= head'
    <3> SUFFICES ASSUME NEW k \in 1..(n + 1) PROVE EventAt(got[k]) /\ got[k] <= head'
      BY <2>1
    <3>1. CASE k \in 1..n
      BY <1>2, <1>5, <2>1, <2>4, <3>1 DEF Sound
    <3>2. CASE k = n + 1
      BY <1>1, <1>2, <1>7, <2>1, <3>2 DEF EventAt
    <3> QED BY <2>4, <3>1, <3>2
  <2>6. \A j, k \in DOMAIN got : j < k => got[j] < got[k]
    <3> SUFFICES ASSUME NEW j \in 1..(n + 1), NEW k \in 1..(n + 1), j < k PROVE got[j] < got[k]
      BY <2>1
    <3>1. j \in 1..n
      BY <2>4
    <3>2. CASE k \in 1..n
      BY <1>2, <2>1, <2>4, <3>1, <3>2 DEF Sound
    <3>3. CASE k = n + 1
      <4>1. got[j] \in 1..Len(log) /\ got[j] <= head
        BY <1>2, <1>5, <2>1, <2>4, <3>1
      <4> QED BY <1>2, <2>1, <3>3, <4>1
    <3> QED BY <2>4, <3>2, <3>3
  <2>7. Sound(s, head')
    <3>1. s.saved /\ s.at = "reading"
      BY <1>1, <2>3, ReadingFacts
    <3> QED BY <1>3, <2>3, <2>5, <2>6, <3>1 DEF Sound
  <2>8. Advance(c, s, head')
    <3>1. \A k \in DOMAIN got : got[k] \in Got(c) \/ got[k] > head
      <4> SUFFICES ASSUME NEW k \in 1..(n + 1) PROVE got[k] \in Got(c) \/ got[k] > head
        BY <2>1
      <4>1. CASE k \in 1..n
        BY <2>1, <2>4, <4>1 DEF Got
      <4>2. CASE k = n + 1
        BY <1>2, <2>1, <4>2
      <4> QED BY <2>4, <4>1, <4>2
    <3>2. \A k \in DOMAIN call[c].got : \E j \in DOMAIN got : got[j] = call[c].got[k]
      BY <2>1, <2>4
    <3>3. n + 1 \in DOMAIN got
      BY <2>1, <2>4
    <3> QED BY <1>5, <2>1, <2>3, <3>1, <3>2, <3>3 DEF Advance
  <2> QED BY <1>1, <1>2, <1>3, <1>5, <2>2, <2>3, <2>7, <2>8, CallStep
<1> QED BY <1>4, <1>6, <1>7

-----------------------------------------------------------------------------
(* from_kafka().                                                           *)

\* What a call has collected fits its position.
Tracks(s) ==
  /\ \A k \in DOMAIN s.got : EventAt(s.got[k]) /\ s.got[k] <= s.pos
  /\ \A j, k \in DOMAIN s.got : j < k => s.got[j] < s.got[k]
  /\ \A i \in DOMAIN log :
       (EventAt(i) /\ s.got # <<>> /\ i > s.got[1] /\ i <= s.pos) =>
         \E k \in DOMAIN s.got : s.got[k] = i
  /\ Len(s.got) <= setup.max \/ Len(s.got) <= 1
  /\ transport = "group" =>
       /\ head <= s.pos
       /\ \A i \in (head + 1)..s.pos : EventAt(i) => \E k \in DOMAIN s.got : s.got[k] = i

\* close() commits the position, or cannot.
LEMMA LeaveInv ==
  ASSUME IInv, NEW c \in Call, call[c].at = "reading", Kafka,
         NEW s \in CallState(Len(log)), s.at \in {"returned", "raised"},
         Tracks(s), Advance(c, s, head), Leave(c, s),
         UNCHANGED <<handlerVars, tasks, loop, setup, log>>
  PROVE  IInv' /\ ReadStep(c)
<1>1. /\ Len(log) \in Nat /\ head \in 0..Len(log) /\ mishaps \in 0..MaxMishaps
      /\ transport = "anonymous" => head = 0
      /\ s.pos \in 0..Len(log)
  BY ReadingFacts, StateFacts
<1>2. transport = "anonymous" => transport # "group"
  OBVIOUS
<1>3. CASE /\ call' = [call EXCEPT ![c] = s]
           /\ head' = IF transport = "group" THEN s.pos ELSE head
           /\ UNCHANGED mishaps
  <2>1. head' \in head..Len(log) /\ (transport = "anonymous" => head' = 0)
        /\ (transport = "group" => head' = s.pos) /\ (transport # "group" => head' = head)
    BY <1>1, <1>3 DEF Tracks
  <2>2. Sound(s, head')
    BY <2>1 DEF Tracks, Sound
  <2>3. Advance(c, s, head')
    <3>1. \A i \in (head + 1)..head' : EventAt(i) => \E k \in DOMAIN s.got : s.got[k] = i
      BY <1>1, <2>1 DEF Tracks
    <3> QED BY <3>1 DEF Advance
  <2> QED BY <1>1, <1>3, <2>1, <2>2, <2>3, CallStep
<1>4. CASE /\ transport = "group" /\ Mishap
           /\ call' = [call EXCEPT ![c] = [s EXCEPT !.saved = FALSE]]
           /\ UNCHANGED head
  <2> DEFINE u == [s EXCEPT !.saved = FALSE]
  <2>1. /\ u \in CallState(Len(log)) /\ u.at = s.at /\ u.got = s.got /\ u.pos = s.pos
        /\ ~u.saved
    BY DEF CallState
  <2>2. call' = [call EXCEPT ![c] = u]
    BY <1>4
  <2> HIDE DEF u
  <2>3. Sound(u, head')
    BY <1>4, <2>1 DEF Tracks, Sound
  <2>4. Advance(c, u, head')
    BY <1>4, <2>1 DEF Advance
  <2>5. mishaps' \in 0..MaxMishaps /\ head' \in head..Len(log)
    BY <1>1, <1>4, MishapFacts
  <2> QED BY <1>1, <1>4, <2>1, <2>2, <2>3, <2>4, <2>5, CallStep
<1> QED BY <1>3, <1>4 DEF Leave, Become

\* While it reads, a call tracks the log.
LEMMA SoundTracks ==
  ASSUME IInv, NEW c \in Call, call[c].at = "reading", Kafka, NEW s, s.got = call[c].got,
         s.pos = call[c].pos
  PROVE  Tracks(s)
BY ReadingFacts DEF Sound, Tracks

\* The call leaves without another message.
LEMMA LeaveEmptyInv ==
  ASSUME IInv, NEW c \in Call, PollTimesOut(c) \/ PollChokes(c) PROVE IInv' /\ ReadStep(c)
<1>1. PICK at \in {"returned", "raised"} : Leave(c, [call[c] EXCEPT !.at = at])
  BY DEF PollTimesOut, PollChokes
<1>2. /\ call[c].at = "reading" /\ Kafka
      /\ UNCHANGED <<handlerVars, tasks, loop, setup, log>>
  BY DEF PollTimesOut, PollChokes, Reading, Kafka, Quietly
<1> DEFINE s == [call[c] EXCEPT !.at = at]
<1>3. call[c] \in CallState(Len(log)) /\ head \in Nat
  BY <1>2, ReadingFacts
<1>4. s \in CallState(Len(log)) /\ s.at = at /\ s.got = call[c].got /\ s.pos = call[c].pos
  BY <1>3 DEF CallState, Place
<1> HIDE DEF s
<1>5. Tracks(s) /\ Advance(c, s, head)
  BY <1>2, <1>3, <1>4, SoundTracks, SameGot
<1> QED BY <1>1, <1>2, <1>4, <1>5, LeaveInv DEF s

\* The message at the next position was read.
LEMMA NextTracks ==
  ASSUME IInv, NEW c \in Call, call[c].at = "reading", Kafka, call[c].pos < Len(log),
         NEW s, s.pos = call[c].pos + 1,
         \/ ~EventAt(call[c].pos + 1) /\ s.got = call[c].got
         \/ EventAt(call[c].pos + 1) /\ s.got = Append(call[c].got, call[c].pos + 1)
  PROVE  Tracks(s) /\ Advance(c, s, head)
<1> DEFINE old == call[c].got
           p == call[c].pos + 1
           n == Len(old)
<1>1. /\ Sound(call[c], head) /\ old \in Seq(1..Len(log)) /\ call[c].pos \in 0..Len(log)
      /\ n \in Nat /\ DOMAIN old = 1..n /\ \A k \in DOMAIN old : old[k] \in 1..Len(log)
      /\ Len(log) \in Nat /\ head \in 0..Len(log) /\ DOMAIN log = 1..Len(log)
      /\ transport = "anonymous" => head = 0
      /\ setup.max \in Nat
  BY ReadingFacts, LogFacts, SetupFacts DEF IInv
<1>2. /\ \A k \in DOMAIN old : EventAt(old[k]) /\ old[k] <= call[c].pos /\ old[k] < p
      /\ \A j, k \in DOMAIN old : j < k => old[j] < old[k]
      /\ \A i \in DOMAIN log : (EventAt(i) /\ old # <<>> /\ i > old[1] /\ i <= call[c].pos) =>
           \E k \in DOMAIN old : old[k] = i
      /\ n < setup.max \/ n = 0
      /\ transport = "group" =>
           /\ head <= call[c].pos
           /\ \A i \in (head + 1)..call[c].pos : EventAt(i) => \E k \in DOMAIN old : old[k] = i
  BY <1>1 DEF Sound
<1>3. /\ p \in 1..Len(log) /\ head < p
      /\ \A i \in 1..Len(log) : i <= p => (i <= call[c].pos \/ i = p)
      /\ \A i \in (head + 1)..p : i \in (head + 1)..call[c].pos \/ i = p
  <2>1. head <= call[c].pos
    BY <1>1, <1>2 DEF Kafka
  <2>2. p \in 1..Len(log) /\ head < p
    BY <1>1, <2>1
  <2>3. ASSUME NEW i \in Nat, i <= p PROVE i <= call[c].pos \/ i = p
    BY <1>1, <2>3
  <2>4. ASSUME NEW i \in (head + 1)..p, i # p PROVE i \in (head + 1)..call[c].pos
    <3>1. \A a, b \in Nat : \A x \in (a + 1)..(b + 1) : x # b + 1 => x \in (a + 1)..b
      OBVIOUS
    <3>2. head \in Nat /\ call[c].pos \in Nat
      BY <1>1
    <3> QED BY <2>4, <3>1, <3>2
  <2> HIDE DEF p
  <2> QED BY <1>1, <2>2, <2>3, <2>4
<1>4. s.pos = p
  OBVIOUS
<1> HIDE DEF p
<1>5. CASE ~EventAt(p) /\ s.got = old
  <2> HIDE DEF old
  <2>1. \A k \in DOMAIN old : EventAt(old[k]) /\ old[k] <= p
    BY <1>1, <1>2, <1>3
  <2>2. Len(old) <= setup.max \/ Len(old) <= 1
    BY <1>1, <1>2
  <2>3. \A i \in DOMAIN log : (EventAt(i) /\ old # <<>> /\ i > old[1] /\ i <= p) =>
          \E k \in DOMAIN old : old[k] = i
    BY <1>1, <1>2, <1>3, <1>5
  <2>4. transport = "group" =>
          head <= p /\ \A i \in (head + 1)..p : EventAt(i) => \E k \in DOMAIN old : old[k] = i
    <3> SUFFICES ASSUME transport = "group", NEW i \in (head + 1)..p, EventAt(i)
                 PROVE  \E k \in DOMAIN old : old[k] = i
      BY <1>1, <1>3
    <3>1. i \in (head + 1)..call[c].pos
      BY <1>3, <1>5
    <3> QED BY <1>2, <3>1
  <2>5. Tracks(s)
    BY <1>2, <1>4, <1>5, <2>1, <2>2, <2>3, <2>4 DEF Tracks
  <2>6. Advance(c, s, head)
    BY <1>1, <1>5, SameGot DEF old
  <2> QED BY <2>5, <2>6
<1>6. CASE EventAt(p) /\ s.got = Append(old, p)
  <2> DEFINE got == Append(old, p)
  <2>1. /\ got \in Seq(1..Len(log)) /\ DOMAIN got = 1..(n + 1) /\ Len(got) = n + 1
        /\ got[n + 1] = p /\ \A k \in 1..n : got[k] = old[k]
    BY <1>1, <1>3
  <2>2. s.got = got
    BY <1>6
  <2>3. Got(c) = {old[k] : k \in DOMAIN old}
    BY DEF Got
  <2>4. Advance(c, s, head) <=>
          /\ \A k \in DOMAIN old : \E j \in DOMAIN s.got : s.got[j] = old[k]
          /\ \A k \in DOMAIN s.got : s.got[k] \in Got(c) \/ s.got[k] > head
          /\ \A i \in (head + 1)..head : EventAt(i) => \E k \in DOMAIN s.got : s.got[k] = i
    BY DEF Advance
  <2> HIDE DEF got, n, old
  <2>5. /\ DOMAIN old = 1..n /\ n \in Nat /\ n + 1 \in 1..(n + 1) /\ 1..n \subseteq 1..(n + 1)
        /\ \A k \in 1..(n + 1) : k \in 1..n \/ k = n + 1
    BY <1>1
  <2>6. \A k \in DOMAIN got : EventAt(got[k]) /\ got[k] <= p
    <3> SUFFICES ASSUME NEW k \in 1..(n + 1) PROVE EventAt(got[k]) /\ got[k] <= p
      BY <2>1
    <3>1. CASE k \in 1..n
      <4>1. got[k] = old[k] /\ EventAt(old[k]) /\ old[k] < p
        BY <1>2, <2>1, <2>5, <3>1
      <4>2. old[k] \in Nat /\ p \in Nat
        BY <1>1, <1>3, <2>5, <3>1
      <4> QED BY <4>1, <4>2
    <3>2. CASE k = n + 1
      BY <1>3, <1>6, <2>1, <3>2
    <3> QED BY <2>5, <3>1, <3>2
  <2>7. \A j, k \in DOMAIN got : j < k => got[j] < got[k]
    <3> SUFFICES ASSUME NEW j \in 1..(n + 1), NEW k \in 1..(n + 1), j < k PROVE got[j] < got[k]
      BY <2>1
    <3>1. j \in 1..n
      BY <2>5
    <3>2. CASE k \in 1..n
      BY <1>2, <2>1, <2>5, <3>1, <3>2
    <3>3. CASE k = n + 1
      BY <1>2, <2>1, <2>5, <3>1, <3>3
    <3> QED BY <2>5, <3>2, <3>3
  <2>8. \A i \in DOMAIN log : (EventAt(i) /\ i > got[1] /\ i <= p) =>
          \E k \in DOMAIN got : got[k] = i
    <3> SUFFICES ASSUME NEW i \in 1..Len(log), EventAt(i), i > got[1], i <= p
                 PROVE  \E k \in 1..(n + 1) : got[k] = i
      BY <1>1, <2>1
    <3>1. CASE i = p
      BY <2>1, <2>5, <3>1
    <3>2. CASE i # p
      <4>1. i <= call[c].pos
        BY <1>3, <3>2
      <4>2. CASE n = 0
        BY <1>3, <2>1, <3>2, <4>2
      <4>3. CASE n # 0
        <5>1. 1 \in 1..n /\ got[1] = old[1] /\ old # <<>>
          BY <1>1, <2>1, <2>5, <4>3
        <5>2. PICK k \in DOMAIN old : old[k] = i
          BY <1>1, <1>2, <4>1, <5>1
        <5> QED BY <2>1, <2>5, <5>2
      <4> QED BY <4>2, <4>3
    <3> QED BY <3>1, <3>2
  <2>9. Len(got) <= setup.max \/ Len(got) <= 1
    BY <1>1, <1>2, <2>1, <2>5
  <2>10. transport = "group" =>
           head <= p /\ \A i \in (head + 1)..p : EventAt(i) => \E k \in DOMAIN got : got[k] = i
    <3> SUFFICES ASSUME transport = "group", NEW i \in (head + 1)..p, EventAt(i)
                 PROVE  \E k \in DOMAIN got : got[k] = i
      BY <1>1, <1>3
    <3>1. CASE i = p
      BY <2>1, <2>5, <3>1
    <3>2. CASE i # p
      <4>1. PICK k \in DOMAIN old : old[k] = i
        BY <1>2, <1>3, <3>2
      <4> QED BY <2>1, <2>5, <4>1
    <3> QED BY <3>1, <3>2
  <2>11. Tracks(s)
    BY <1>4, <2>2, <2>6, <2>7, <2>8, <2>9, <2>10 DEF Tracks
  <2>12. \A k \in DOMAIN got : got[k] \in Got(c) \/ got[k] > head
    <3> SUFFICES ASSUME NEW k \in 1..(n + 1) PROVE got[k] \in Got(c) \/ got[k] > head
      BY <2>1
    <3>1. CASE k \in 1..n
      BY <2>1, <2>3, <2>5, <3>1
    <3>2. CASE k = n + 1
      BY <1>1, <1>3, <2>1, <3>2
    <3> QED BY <2>5, <3>1, <3>2
  <2>13. \A k \in DOMAIN old : \E j \in DOMAIN got : got[j] = old[k]
    BY <2>1, <2>5
  <2>14. (head + 1)..head = {}
    BY <1>1
  <2> QED BY <2>2, <2>4, <2>11, <2>12, <2>13, <2>14
<1> QED BY <1>5, <1>6 DEF p

LEMMA PollInv ==
  ASSUME IInv, NEW c \in Call, Poll(c) PROVE IInv' /\ ReadStep(c)
<1> DEFINE next == [call[c] EXCEPT !.pos = @ + 1]
           more == [next EXCEPT !.got = Append(@, next.pos)]
           item == log[next.pos]
<1>1. /\ call[c].at = "reading" /\ Kafka /\ call[c].pos < Len(log)
      /\ UNCHANGED <<handlerVars, tasks, loop, setup, log>>
      /\ \/ item.type = "stop" /\ Leave(c, [next EXCEPT !.at = "returned"])
         \/ item.type = "event" /\ Leave(c, [more EXCEPT !.at = "returned"])
         \/ item.type = "event" /\ ~Full(more) /\ Stay(c, more)
         \/ item.type = "malformed" /\ Stay(c, next)
         \/ item.type = "malformed" /\ Leave(c, [next EXCEPT !.at = "raised"])
  BY DEF Poll, Reading, Kafka, Quietly
<1>2. /\ call[c] \in CallState(Len(log)) /\ call[c].saved /\ Len(log) \in Nat
      /\ call[c].pos \in 0..Len(log) /\ call[c].got \in Seq(1..Len(log))
      /\ head \in 0..Len(log) /\ mishaps \in 0..MaxMishaps
      /\ transport = "anonymous" => head = 0
  BY <1>1, ReadingFacts
<1>3. /\ next \in CallState(Len(log)) /\ next.pos = call[c].pos + 1
      /\ next.got = call[c].got /\ next.at = "reading" /\ next.saved
  <2>1. call[c].pos + 1 \in 0..Len(log)
    BY <1>1, <1>2
  <2> QED BY <1>1, <1>2, <2>1 DEF CallState
<1>4. Append(call[c].got, call[c].pos + 1) \in Seq(1..Len(log))
  BY <1>1, <1>2
<1> HIDE DEF next
<1>5. /\ more \in CallState(Len(log)) /\ more.pos = call[c].pos + 1
      /\ more.got = Append(call[c].got, call[c].pos + 1)
      /\ more.at = "reading" /\ more.saved
  BY <1>3, <1>4 DEF CallState
<1> HIDE DEF more
<1>6. ASSUME NEW s \in CallState(Len(log)), NEW at \in {"returned", "raised"}
      PROVE  LET u == [s EXCEPT !.at = at]
             IN  /\ u \in CallState(Len(log)) /\ u.at = at /\ u.got = s.got /\ u.pos = s.pos
  BY DEF CallState, Place
\* The call ends in the state s but for its place.
<1>7. ASSUME NEW s \in CallState(Len(log)), NEW at \in {"returned", "raised"},
             s.pos = call[c].pos + 1,
             \/ ~EventAt(call[c].pos + 1) /\ s.got = call[c].got
             \/ EventAt(call[c].pos + 1) /\ s.got = Append(call[c].got, call[c].pos + 1),
             Leave(c, [s EXCEPT !.at = at])
      PROVE  IInv' /\ ReadStep(c)
  <2> DEFINE u == [s EXCEPT !.at = at]
  <2>1. u \in CallState(Len(log)) /\ u.at = at /\ u.got = s.got /\ u.pos = s.pos
    BY <1>6
  <2> HIDE DEF u
  <2>2. Tracks(u) /\ Advance(c, u, head)
    BY <1>1, <1>7, <2>1, NextTracks
  <2>3. Leave(c, u)
    BY <1>7 DEF u
  <2> QED BY <1>1, <2>1, <2>2, <2>3, LeaveInv
\* The call goes on in the state s.
<1>8. ASSUME NEW s \in CallState(Len(log)), s.at = "reading", s.saved,
             s.pos = call[c].pos + 1,
             \/ ~EventAt(call[c].pos + 1) /\ s.got = call[c].got
             \/ EventAt(call[c].pos + 1) /\ s.got = Append(call[c].got, call[c].pos + 1),
             Len(s.got) < setup.max \/ s.got = <<>>, Stay(c, s)
      PROVE  IInv' /\ ReadStep(c)
  <2>1. Tracks(s) /\ Advance(c, s, head)
    BY <1>1, <1>8, NextTracks
  <2>2. Sound(s, head)
    BY <1>1, <1>8, <2>1 DEF Tracks, Sound
  <2>3. call' = [call EXCEPT ![c] = s] /\ head' = head /\ mishaps' = mishaps
    BY <1>8 DEF Stay, Become
  <2>4. head \in head..Len(log)
    BY <1>2
  <2> QED BY <1>1, <1>2, <1>8, <2>1, <2>2, <2>3, <2>4, CallStep
<1>9. item = log[call[c].pos + 1] /\ (EventAt(call[c].pos + 1) <=> item.type = "event")
  BY <1>3 DEF EventAt
<1> HIDE DEF item
<1>10. CASE item.type # "event" /\ \E at \in {"returned", "raised"} : Leave(c, [next EXCEPT !.at = at])
  BY <1>3, <1>7, <1>9, <1>10
<1>11. CASE item.type = "event" /\ Leave(c, [more EXCEPT !.at = "returned"])
  BY <1>5, <1>7, <1>9, <1>11
<1>12. CASE item.type # "event" /\ Stay(c, next)
  <2>1. Len(call[c].got) < setup.max \/ call[c].got = <<>>
    BY <1>1, ReadingFacts DEF Sound
  <2> QED BY <1>3, <1>8, <1>9, <1>12, <2>1
<1>13. CASE item.type = "event" /\ ~Full(more) /\ Stay(c, more)
  <2>1. Len(more.got) < setup.max
    <3>1. setup.max \in Nat /\ Len(more.got) \in Nat
      BY <1>4, <1>5, SetupFacts DEF IInv
    <3> QED BY <1>13, <3>1 DEF Full
  <2> QED BY <1>5, <1>8, <1>9, <1>13, <2>1
<1> QED BY <1>1, <1>10, <1>11, <1>12, <1>13

\* The position is committed while the call goes on.
LEMMA AutoCommitInv ==
  ASSUME IInv, NEW c \in Call, AutoCommit(c) PROVE IInv' /\ ReadStep(c)
<1>1. /\ call[c].at = "reading" /\ transport = "group" /\ head < call[c].pos
      /\ head' = call[c].pos /\ UNCHANGED <<call, mishaps>>
      /\ UNCHANGED <<handlerVars, tasks, loop, setup, log>>
  BY DEF AutoCommit, Reading, Quietly
<1>2. /\ call[c] \in CallState(Len(log)) /\ Sound(call[c], head)
      /\ call[c].pos \in 0..Len(log) /\ Len(log) \in Nat /\ head \in 0..Len(log)
      /\ mishaps \in 0..MaxMishaps
  BY <1>1, ReadingFacts
<1> DEFINE s == call[c]
<1>3. /\ call' = [call EXCEPT ![c] = s] /\ head' \in head..Len(log)
      /\ \A i \in (head' + 1)..s.pos : FALSE
  <2>1. call' = [call EXCEPT ![c] = s]
    BY <1>1, LogFacts DEF IInv
  <2>2. head' \in head..Len(log)
    BY <1>1, <1>2
  <2>3. \A i \in (head' + 1)..s.pos : FALSE
    BY <1>1, <1>2
  <2> QED BY <2>1, <2>2, <2>3
<1>4. Sound(s, head') /\ Advance(c, s, head')
  <2>1. head' <= s.pos
    BY <1>1, <1>2
  <2>2. Sound(s, head')
    BY <1>1, <1>2, <1>3, <2>1 DEF Sound, Kafka
  <2>3. Advance(c, s, head')
    BY <1>1, <1>2 DEF Sound, Advance, Got
  <2> QED BY <2>2, <2>3
<1> HIDE DEF s
<1>5. s \in CallState(Len(log)) /\ s.at # "idle"
  BY <1>1, <1>2 DEF s
<1> QED BY <1>1, <1>2, <1>3, <1>4, <1>5, CallStep

-----------------------------------------------------------------------------
LEMMA InitInv == Init => IInv
<1> SUFFICES ASSUME Init PROVE IInv
  OBVIOUS
<1>1. /\ runs = <<>> /\ made = <<>> /\ events = <<>> /\ tasks = {} /\ keyError = {}
      /\ crossed = {} /\ log = <<>> /\ head = 0 /\ Len(runs) = 0 /\ Len(made) = 0 /\ Len(log) = 0
      /\ starts = [id \in Id |-> 0] /\ frame = [t \in Thread |-> Idle] /\ loop = TRUE
      /\ mishaps = 0 /\ family \in {"langchain", "llamaindex"}
      /\ setup \in Setup /\ family = setup.family /\ call = [c \in Call |-> Fresh]
  BY DEF Init, CallbacksInit
<1>2. Idle \in Frame(0) /\ Idle.op = "none"
  BY DEF Idle, Frame
<1>3. /\ Fresh \in CallState(0) /\ Fresh.at = "idle" /\ Fresh.got = <<>>
      /\ Fresh.saved = TRUE /\ Fresh.pos = 0
  <2>1. <<>> \in Seq(1..0)
    OBVIOUS
  <2> QED BY <2>1 DEF Fresh, CallState, Place
<1>4. Typed
  BY <1>1, <1>2, CallbacksAssumption DEF Typed
<1>5. TypeOK
  BY <1>1, <1>3, <1>4, LogForm DEF LogTyped
<1>6. Pairing
  BY <1>1, <1>2 DEF Pairing, DurationsPair, Open
<1>7. Stored
  BY <1>1 DEF Stored
<1>8. Turns /\ Sources
  <2>1. Sound(Fresh, 0)
    BY <1>3, <1>5, SetupFacts DEF Sound
  <2> QED BY <1>1, <1>3, <2>1 DEF Turns, Sources
<1>9. NothingSkipped /\ ReadOnce
  BY <1>1, <1>3 DEF NothingSkipped, ReadOnce, Got
<1> QED BY <1>5, <1>6, <1>7, <1>8, <1>9 DEF IInv

LEMMA StutterInv ==
  ASSUME IInv, UNCHANGED vars PROVE IInv'
<1>1. UNCHANGED <<family, runs, starts, frame, made, events, keyError, crossed, mishaps, tasks,
                  loop, setup, log, head, call>>
  BY DEF vars, handlerVars
<1>2. Typed
  BY LogFacts DEF IInv
<1>3. Typed'
  BY <1>1, <1>2 DEF Typed
<1>4. Pairing'
  BY <1>1 DEF IInv, Pairing, DurationsPair, Open
<1> QED BY <1>1, <1>3, <1>4, CallbackKeeps

LEMMA Invariance == Spec => []IInv
<1>1. IInv /\ [Next]_vars => IInv'
  <2> SUFFICES ASSUME IInv, [Next]_vars PROVE IInv'
    OBVIOUS
  <2>1. ASSUME NEW c \in Call, Begin(c) \/ Reader(c) \/ Cancel(c) \/ AutoCommit(c) \/ Crash(c)
        PROVE  IInv'
    BY <2>1, BeginInv, TakeItemInv, QuietEndInv, PollInv, LeaveEmptyInv, AutoCommitInv DEF Reader
  <2> QED BY <2>1, CallbackInv, ExportInv, LoopEndsInv, PutStopInv, StutterInv DEF Next
<1> QED BY <1>1, InitInv, PTL DEF Spec

\* The type invariant of callbacks, tasks, transport and readers.
THEOREM TypeCorrect == Spec => []TypeOK
<1>1. IInv => TypeOK
  BY DEF IInv
<1> QED BY <1>1, Invariance, PTL

\* A duration reported for a run is measured from the start of that run, and
\* on_event_start() finds the start it stored, unless the run shared its id
\* with another or clear_events() came between (llamaindex.py:135-186, 188-239).
THEOREM DurationsPairHolds == Spec => []DurationsPair
<1>1. IInv => DurationsPair
  BY DEF IInv, Pairing
<1> QED BY <1>1, Invariance, PTL

\* No reader skips an event, two calls share one only where no offset was
\* saved, and a call of from_kafka() collects without gaps, in order and up to
\* its limit (stream.py: from_queue, from_async_queue, from_kafka).
THEOREM AccountedHolds == Spec => []Accounted
<1>1. IInv => InOrderWithoutGaps
  BY DEF IInv, Sources, Sound, InOrderWithoutGaps, Got
<1>2. IInv => Accounted
  BY <1>1 DEF IInv, Accounted
<1> QED BY <1>2, Invariance, PTL

-----------------------------------------------------------------------------
(* Handover.  An event has a home in the log once it was put; it is        *)
(* dropped when it is gone for later calls and no call that still reads    *)
(* has it.                                                                 *)

Homed(e) == \E i \in DOMAIN log : EventAt(i) /\ log[i].event = e

Dropped(e) ==
  \E i \in DOMAIN log : EventAt(i) /\ i <= head /\ ~InReading(i) /\ log[i].event = e

Returned(e) ==
  \E c \in Call : call[c].at = "returned" /\ \E i \in Got(c) : log[i].event = e

Members ==
  \A e : /\ e \in Delivered <=> Returned(e)
         /\ e \in Lost <=> \/ e \in DOMAIN made /\ e \notin tasks /\ ~Homed(e)
                           \/ Dropped(e) /\ ~Returned(e)

LEMMA MembersHold == Members
<1>1. \A e : e \in Delivered <=> Returned(e)
  BY DEF Delivered, Returned
<1>2. \A e : e \in {log[i].event : i \in {i \in DOMAIN log : EventAt(i)}} <=> Homed(e)
  BY DEF Homed
<1>3. \A e : e \in {log[i].event : i \in
                      {j \in {i \in DOMAIN log : EventAt(i)} : j <= head /\ ~InReading(j)}}
               <=> Dropped(e)
  BY DEF Dropped
<1> QED BY <1>1, <1>2, <1>3 DEF Members, Lost

\* A lost event is not delivered, and there are none but those that were made.
Parted == /\ Delivered \subseteq 1..Len(made) /\ Lost \subseteq 1..Len(made)
          /\ Delivered \cap Lost = {}

LEMMA GotFacts ==
  ASSUME IInv, NEW c \in Call
  PROVE  \A i \in Got(c) : i \in DOMAIN log /\ EventAt(i)
<1>1. call[c] \in CallState(Len(log)) /\ DOMAIN log = 1..Len(log) /\ Len(log) \in Nat
  BY LogFacts DEF IInv
<1>2. \A k \in DOMAIN call[c].got : call[c].got[k] \in 1..Len(log)
  BY <1>1, StateFacts
<1> QED BY <1>1, <1>2 DEF IInv, Sources, Sound, Got

LEMMA PartedHolds == IInv => Parted
<1> SUFFICES ASSUME IInv PROVE Parted
  OBVIOUS
<1>1. \A e : Returned(e) => Homed(e)
  BY GotFacts DEF Returned, Homed
<1>2. \A e : Dropped(e) => Homed(e)
  BY DEF Dropped, Homed
<1>3. \A e : Homed(e) => e \in DOMAIN made
  BY DEF Homed, IInv, Stored
<1>4. DOMAIN made = 1..Len(made)
  BY LogFacts DEF IInv, Typed
<1> QED BY <1>1, <1>2, <1>3, <1>4, MembersHold DEF Members, Parted

\* What a step has to do to delivered and lost to be one of Handover.
Moves ==
  \/ Len(made') = Len(made) /\ Delivered' = Delivered /\ Lost \subseteq Lost'
  \/ Len(made') = Len(made) /\ Delivered \subseteq Delivered' /\ Lost' = Lost
  \/ /\ Len(made') = Len(made) + 1 /\ Delivered' = Delivered
     /\ Lost' \in {Lost, Lost \cup {Len(made) + 1}}

LEMMA MovesImplement ==
  ASSUME IInv, IInv', Moves PROVE Handed!Next
<1>1. Parted'
  BY PartedHolds, PTL
<1>2. CASE Len(made') = Len(made) /\ Delivered' = Delivered /\ Lost \subseteq Lost'
  <2> DEFINE S == Lost' \ Lost
  <2>1. S \subseteq (1..Len(made)) \ (Delivered \cup Lost) /\ Lost' = Lost \cup S
    BY <1>1, <1>2 DEF Parted
  <2> HIDE DEF S
  <2> QED BY <1>2, <2>1 DEF Handed!Next, Handed!Lose, Handed!Waiting
<1>3. CASE Len(made') = Len(made) /\ Delivered \subseteq Delivered' /\ Lost' = Lost
  <2> DEFINE S == Delivered' \ Delivered
  <2>1. S \subseteq (1..Len(made)) \ (Delivered \cup Lost) /\ Delivered' = Delivered \cup S
    BY <1>1, <1>3 DEF Parted
  <2> HIDE DEF S
  <2> QED BY <1>3, <2>1 DEF Handed!Next, Handed!Deliver, Handed!Waiting
<1>4. CASE /\ Len(made') = Len(made) + 1 /\ Delivered' = Delivered
           /\ Lost' \in {Lost, Lost \cup {Len(made) + 1}}
  BY <1>4 DEF Handed!Next, Handed!Make
<1> QED BY <1>2, <1>3, <1>4 DEF Moves

LEMMA MembersNext == Members /\ Members'
BY MembersHold, PTL

\* A callback makes one event or none; the event is lost if no task exports it.
LEMMA CallbackMoves ==
  ASSUME IInv, Callbacks PROVE Moves
<1>1. /\ UNCHANGED <<log, head, call>>
      /\ \/ UNCHANGED <<made, tasks>>
         \/ \E t, what, r, since : MakeEvent(t, what, r, since)
  BY DEF Callbacks, Callback, LangchainStart, LangchainEnd, EventStart, EventStartEmits,
         EventEnd, EventEndEmits, ClearEvents, NoEvent
<1>2. \A e : (Returned(e)' <=> Returned(e)) /\ (Dropped(e)' <=> Dropped(e)) /\ (Homed(e)' <=> Homed(e))
  BY <1>1 DEF Returned, Dropped, Homed, EventAt, InReading, Got
<1>3. Delivered' = Delivered
  BY <1>2, MembersNext DEF Members
<1>4. CASE UNCHANGED <<made, tasks>>
  <2>1. Lost' = Lost
    BY <1>2, <1>4, MembersNext DEF Members
  <2> QED BY <1>3, <1>4, <2>1 DEF Moves
<1>5. CASE \E t, what, r, since : MakeEvent(t, what, r, since)
  <2> DEFINE n == Len(made) + 1
  <2>1. /\ Len(made') = n /\ DOMAIN made' = DOMAIN made \cup {n} /\ n \notin DOMAIN made
        /\ tasks' \in {tasks, tasks \cup {n}} /\ tasks \subseteq DOMAIN made
    <3>1. made \in Seq(Made(Len(runs))) /\ tasks \subseteq 1..Len(made)
      BY LogFacts DEF IInv, Typed
    <3>2. PICK x : made' = Append(made, x)
      BY <1>5 DEF MakeEvent
    <3>3. Len(made') = n /\ DOMAIN made = 1..Len(made) /\ DOMAIN made' = 1..n /\ Len(made) \in Nat
      BY <3>1, <3>2
    <3> QED BY <1>5, <3>1, <3>3 DEF MakeEvent
  <2>2. ~Homed(n)
    BY <2>1 DEF Homed, IInv, Stored
  <2> HIDE DEF n
  <2>3. ~Dropped(n)
    BY <2>2 DEF Homed, Dropped
  <2>4. n \notin Lost /\ (n \in Lost' <=> n \notin tasks')
    BY <1>2, <2>1, <2>2, <2>3, MembersNext DEF Members
  <2>5. \A e : e # n => (e \in Lost' <=> e \in Lost)
    BY <1>2, <2>1, MembersNext DEF Members
  <2>6. Lost' \in {Lost, Lost \cup {n}}
    BY <2>4, <2>5
  <2> QED BY <1>3, <2>1, <2>6 DEF Moves, n
<1> QED BY <1>1, <1>4, <1>5

\* An item that is put is neither gone nor read yet.
LEMMA PutMoves ==
  ASSUME IInv, NEW type \in {"event", "stop", "malformed", "garbled"}, NEW n,
         PutItem(type, n),
         \/ type # "event" /\ tasks' = tasks
         \/ type = "event" /\ n \in tasks /\ tasks' = tasks \ {n}
  PROVE  Moves
<1> PICK m \in Nat : m = Len(log)
  BY LogFacts DEF IInv
<1>1. UNCHANGED <<made, head, call>> /\ log' = Append(log, [type |-> type, event |-> n])
  BY DEF PutItem, handlerVars
<1>2. log \in Seq(Item) /\ head \in 0..m /\ DOMAIN log = 1..m
  BY LogFacts DEF IInv
<1>3. /\ DOMAIN log' = 1..(m + 1) /\ \A i \in 1..m : log'[i] = log[i]
      /\ log'[m + 1].type = type /\ log'[m + 1].event = n
  BY <1>1, <1>2
<1>4. \A i \in 1..(m + 1) : i \in 1..m \/ i = m + 1
  OBVIOUS
<1>5. /\ \A i \in 1..m : EventAt(i)' <=> EventAt(i)
      /\ EventAt(m + 1)' <=> type = "event"
      /\ 1..m \subseteq 1..(m + 1) /\ m + 1 \in 1..(m + 1)
  BY <1>3 DEF EventAt
<1>6. \A e : Homed(e)' <=> Homed(e) \/ (type = "event" /\ e = n)
  BY <1>2, <1>3, <1>4, <1>5 DEF Homed
<1>7. \A c \in Call : Got(c)' = Got(c) /\ Got(c) \subseteq 1..m
  BY <1>1, <1>2, GotFacts DEF Got
<1>8. \A i : InReading(i)' <=> InReading(i)
  BY <1>1, <1>7 DEF InReading
<1>9. \A e : Returned(e)' <=> Returned(e)
  BY <1>1, <1>3, <1>7 DEF Returned
<1>10. \A e : Dropped(e)' <=> Dropped(e)
  <2>1. ~(m + 1 <= head)
    BY <1>2
  <2> QED BY <1>1, <1>2, <1>3, <1>4, <1>5, <1>8, <2>1 DEF Dropped
<1>11. type = "event" => ~Homed(n)
  BY DEF Homed, IInv, Stored
<1>12. Delivered' = Delivered
  BY <1>9, MembersNext DEF Members
<1>13. \A e : Dropped(e) => Homed(e)
  BY DEF Dropped, Homed
<1>14. Lost' = Lost
  BY <1>1, <1>6, <1>9, <1>10, <1>11, <1>13, MembersNext DEF Members
<1> QED BY <1>1, <1>12, <1>14 DEF Moves

LEMMA ExportMoves ==
  ASSUME IInv, NEW n \in tasks, ExportDone(n) \/ ExportFails(n) PROVE Moves
<1>1. CASE ExportDone(n)
  BY <1>1, PutMoves DEF ExportDone
<1>2. CASE ExportFails(n)
  <2>1. tasks' = tasks \ {n} /\ UNCHANGED <<made, log, head, call>>
    BY <1>2 DEF ExportFails, handlerVars
  <2>2. \A e : (Returned(e)' <=> Returned(e)) /\ (Dropped(e)' <=> Dropped(e)) /\ (Homed(e)' <=> Homed(e))
    BY <2>1 DEF Returned, Dropped, Homed, EventAt, InReading, Got
  <2>3. Delivered' = Delivered /\ Lost \subseteq Lost'
    BY <2>1, <2>2, MembersNext DEF Members
  <2> QED BY <2>1, <2>3 DEF Moves
<1> QED BY <1>1, <1>2

LEMMA PutStopMoves ==
  ASSUME IInv, PutStop \/ \E type \in {"malformed", "garbled"} : PutOther(type) PROVE Moves
<1>1. CASE PutStop
  <2>1. PutItem("stop", 0) /\ tasks' = tasks
    BY <1>1 DEF PutStop
  <2> QED BY <2>1, PutMoves
<1>2. ASSUME NEW type \in {"malformed", "garbled"}, PutOther(type) PROVE Moves
  <2>1. PutItem(type, 0) /\ tasks' = tasks
    BY <1>2 DEF PutOther
  <2> QED BY <2>1, PutMoves
<1> QED BY <1>1, <1>2

\* The tasks that asyncio.run() cancels had events that are lost now, and so
\* had the readers.
LEMMA LoopEndsMoves ==
  ASSUME IInv, LoopEnds PROVE Moves
<1>1. /\ tasks' = {} /\ UNCHANGED <<made, log, head>>
      /\ call' = [c \in Call |->
           IF transport = "async" /\ call[c].at = "reading"
             THEN [call[c] EXCEPT !.at = "cancelled"] ELSE call[c]]
  BY DEF LoopEnds, handlerVars
<1>2. call \in [Call -> CallState(Len(log))]
  BY LogFacts DEF IInv
<1>3. ASSUME NEW c \in Call
      PROVE  /\ call'[c].got = call[c].got
             /\ call'[c].at = "returned" <=> call[c].at = "returned"
             /\ call'[c].at = "reading" => call[c].at = "reading"
  <2>1. call[c] \in CallState(Len(log))
    BY <1>2
  <2> QED BY <1>1, <2>1 DEF CallState
<1>4. \A e : Returned(e)' <=> Returned(e)
  BY <1>1, <1>3 DEF Returned, Got
<1>5. \A i : InReading(i)' => InReading(i)
  BY <1>3 DEF InReading, Got
<1>6. \A e : (Homed(e)' <=> Homed(e)) /\ (Dropped(e) => Dropped(e)')
  BY <1>1, <1>5 DEF Homed, Dropped, EventAt
<1>7. Delivered' = Delivered /\ Lost \subseteq Lost'
  BY <1>1, <1>4, <1>6, MembersNext DEF Members
<1> QED BY <1>1, <1>7 DEF Moves

LEMMA BeginMoves ==
  ASSUME IInv, NEW c \in Call, Begin(c) PROVE Moves
<1> DEFINE s == [at |-> "reading", got |-> <<>>,
                 pos |-> IF transport = "anonymous" THEN 0 ELSE head, saved |-> TRUE]
<1>1. s.at = "reading" /\ s.got = <<>> /\ call' = [call EXCEPT ![c] = s]
  BY DEF Begin, Become
<1> HIDE DEF s
<1>2. call[c].at = "idle" /\ UNCHANGED <<made, tasks, log, head>>
  BY DEF Begin, Quietly, handlerVars
<1>3. call'[c] = s /\ \A d \in Call : d # c => call'[d] = call[d]
  BY <1>1, LogFacts DEF IInv
<1>4. Got(c) = {} /\ Got(c)' = {} /\ \A d \in Call : Got(d)' = Got(d)
  <2>1. call[c].got = <<>>
    BY <1>2 DEF IInv, Sources, Sound
  <2> QED BY <1>1, <1>3, <2>1 DEF Got
<1>5. \A e : Returned(e)' <=> Returned(e)
  BY <1>2, <1>3, <1>4 DEF Returned
<1>6. \A i : InReading(i)' <=> InReading(i)
  BY <1>3, <1>4 DEF InReading
<1>7. \A e : (Homed(e)' <=> Homed(e)) /\ (Dropped(e)' <=> Dropped(e))
  BY <1>2, <1>6 DEF Homed, Dropped, EventAt
<1>8. Delivered' = Delivered /\ Lost' = Lost
  BY <1>2, <1>5, <1>7, MembersNext DEF Members
<1> QED BY <1>2, <1>8 DEF Moves

AllEvents == \A c \in Call : \A i \in Got(c) : EventAt(i)

LEMMA AllEventsHold == IInv => AllEvents
BY GotFacts DEF AllEvents

\* A call that returns delivers what it collected; one that goes on takes up
\* what leaves the queue, and one that ends otherwise lets it be lost.
LEMMA ReadMoves ==
  ASSUME IInv, NEW c \in Call, ReadStep(c), IInv' PROVE Moves
<1>1. /\ call[c].at = "reading" /\ UNCHANGED <<made, tasks, log>>
      /\ head' \in head..Len(log)
  BY DEF ReadStep, handlerVars
<1>2. PICK s \in CallState(Len(log)) : call' = [call EXCEPT ![c] = s] /\ Advance(c, s, head')
  BY DEF ReadStep
<1>3. /\ call \in [Call -> CallState(Len(log))] /\ head \in Nat /\ head' \in Nat /\ head <= head'
      /\ DOMAIN log = 1..Len(log) /\ Len(log) \in Nat
  BY <1>1, LogFacts DEF IInv
<1>4. /\ call'[c] = s /\ \A d \in Call : d # c => call'[d] = call[d]
      /\ \A d \in Call : d # c => Got(d)' = Got(d)
  <2>1. call'[c] = s /\ \A d \in Call : d # c => call'[d] = call[d]
    BY <1>2, <1>3
  <2> QED BY <2>1 DEF Got
<1>5. /\ Got(c) \subseteq Got(c)'
      /\ \A i \in Got(c)' : i \in Got(c) \/ i > head
      /\ \A i \in (head + 1)..head' : EventAt(i) => i \in Got(c)'
  BY <1>2, <1>4 DEF Got, Advance
<1>6. \A i \in DOMAIN log : i <= head => ~(i > head)
  BY <1>3
<1>7. \A i \in DOMAIN log : i <= head => i <= head'
  BY <1>3
<1>8. \A e : Homed(e)' <=> Homed(e)
  BY <1>1 DEF Homed, EventAt
<1>9. \A i \in DOMAIN log : i <= head /\ InReading(i)' => InReading(i)
  BY <1>1, <1>4, <1>5, <1>6 DEF InReading
<1>10. \A e : Dropped(e) => Dropped(e)'
  BY <1>1, <1>7, <1>9 DEF Dropped, EventAt
<1>11. AllEvents'
  BY AllEventsHold, PTL
<1>12. CASE s.at # "returned"
  <2>1. \A e : Returned(e)' <=> Returned(e)
    BY <1>1, <1>4, <1>12 DEF Returned
  <2>2. Delivered' = Delivered /\ Lost \subseteq Lost'
    BY <1>1, <1>8, <1>10, <2>1, MembersNext DEF Members
  <2> QED BY <1>1, <2>2 DEF Moves
<1>13. CASE s.at = "returned"
  <2>1. \A e : Returned(e) => Returned(e)'
    BY <1>1, <1>4 DEF Returned
  <2>2. \A e, i : i \in Got(c)' /\ log[i].event = e => Returned(e)'
    BY <1>1, <1>4, <1>13 DEF Returned
  <2>3. ASSUME NEW e, Dropped(e), ~Returned(e) PROVE ~Returned(e)'
    <3> SUFFICES ASSUME Returned(e)' PROVE FALSE
      OBVIOUS
    <3>1. PICK i \in DOMAIN log : EventAt(i) /\ i <= head /\ ~InReading(i) /\ log[i].event = e
      BY <2>3 DEF Dropped
    <3>2. PICK d \in Call : call'[d].at = "returned" /\ \E j \in Got(d)' : log[j].event = e
      BY <1>1 DEF Returned
    <3>3. d = c
      BY <1>4, <2>3, <3>2 DEF Returned
    <3>4. PICK j \in Got(c)' : log[j].event = e
      BY <3>2, <3>3
    <3>5. PICK k \in DOMAIN s.got : j = s.got[k]
      BY <1>4, <3>4 DEF Got
    <3>6. j \in DOMAIN log
      BY <1>3, <3>5, StateFacts
    <3>7. CASE j \in Got(c)
      <4>1. EventAt(j)
        BY <3>7, GotFacts
      <4>2. i = j
        BY <3>1, <3>4, <3>6, <4>1 DEF IInv, Stored
      <4> QED BY <1>1, <3>1, <3>7, <4>2 DEF InReading
    <3>8. CASE j > head
      <4>1. EventAt(j)
        BY <1>1, <1>11, <3>4 DEF AllEvents, EventAt
      <4>2. i = j
        BY <3>1, <3>4, <3>6, <4>1 DEF IInv, Stored
      <4> QED BY <1>6, <3>1, <3>8, <4>2
    <3> QED BY <1>5, <3>4, <3>7, <3>8
  <2>4. ASSUME NEW e, Dropped(e)', ~Returned(e)' PROVE Dropped(e)
    <3>1. PICK i \in DOMAIN log : EventAt(i) /\ i <= head' /\ ~InReading(i)' /\ log[i].event = e
      BY <1>1, <2>4 DEF Dropped, EventAt
    <3>2. i \notin Got(c)'
      BY <2>2, <2>4, <3>1
    <3>3. i <= head
      <4>1. i \notin (head + 1)..head'
        BY <1>5, <3>1, <3>2
      <4> QED BY <1>3, <3>1, <4>1
    <3>4. ~InReading(i)
      BY <1>4, <1>5, <3>1, <3>2 DEF InReading
    <3> QED BY <3>1, <3>3, <3>4 DEF Dropped
  <2>5. Delivered \subseteq Delivered'
    BY <2>1, MembersNext DEF Members
  <2>6. Lost' = Lost
    <3>1. \A e : Dropped(e) /\ ~Returned(e) <=> Dropped(e)' /\ ~Returned(e)'
      BY <1>10, <2>1, <2>3, <2>4
    <3> QED BY <1>1, <1>8, <3>1, MembersNext DEF Members
  <2> QED BY <1>1, <2>5, <2>6 DEF Moves
<1> QED BY <1>12, <1>13

LEMMA StutterMoves ==
  ASSUME UNCHANGED vars PROVE UNCHANGED Handed!vars
<1>1. UNCHANGED <<made, tasks, log, head, call>>
  BY DEF vars, handlerVars
<1>2. \A e : (Returned(e)' <=> Returned(e)) /\ (Dropped(e)' <=> Dropped(e)) /\ (Homed(e)' <=> Homed(e))
  BY <1>1 DEF Returned, Dropped, Homed, EventAt, InReading, Got
<1>3. Delivered' = Delivered /\ Lost' = Lost
  BY <1>1, <1>2, MembersNext DEF Members
<1> QED BY <1>1, <1>3 DEF Handed!vars

LEMMA InitMoves == Init => Handed!Init
<1> SUFFICES ASSUME Init PROVE Handed!Init
  OBVIOUS
<1>1. made = <<>> /\ log = <<>> /\ call = [c \in Call |-> Fresh]
  BY DEF Init, CallbacksInit
<1>2. DOMAIN made = {} /\ DOMAIN log = {} /\ Len(made) = 0
  BY <1>1
<1>3. \A e : ~Returned(e) /\ ~Dropped(e)
  BY <1>1, <1>2 DEF Returned, Dropped, Fresh
<1> QED BY <1>2, <1>3, MembersHold DEF Members, Handed!Init

\* Callbacks, tasks, transport and readers implement Handover: an event that a
\* call returned is never taken back, one that was lost (its task not created,
\* failed or cancelled, or read by a call that came to nothing) never turns up
\* (_make_event() of the handlers; stream.py: from_queue,
\* from_async_queue, from_kafka).
THEOREM HandoverImplemented == Spec => ImplementsHandover
<1>1. ASSUME IInv, IInv', Next PROVE Handed!Next
  <2>1. ASSUME NEW c \in Call, Begin(c) \/ Reader(c) \/ Cancel(c) \/ AutoCommit(c) \/ Crash(c)
        PROVE  Moves
    BY <1>1, <2>1, BeginMoves, ReadMoves, TakeItemInv, QuietEndInv, PollInv, LeaveEmptyInv,
       AutoCommitInv DEF Reader
  <2>2. Moves
    BY <1>1, <2>1, CallbackMoves, ExportMoves, LoopEndsMoves, PutStopMoves DEF Next
  <2> QED BY <1>1, <2>2, MovesImplement
<1>2. IInv /\ IInv' /\ [Next]_vars => [Handed!Next]_(Handed!vars)
  BY <1>1, StutterMoves
<1> QED BY <1>2, InitMoves, Invariance, PTL DEF Spec, ImplementsHandover, Handed!Spec
=============================================================================
