-------------------------- MODULE JsonlLogProofs ---------------------------
(* Proofs about a JSONL audit file, for every set of events, every batch    *)
(* and every number of calls and faults.                                    *)
EXTENDS JsonlLog, FiniteSetTheorems, SequenceTheorems, TLAPS

-----------------------------------------------------------------------------
(* Texts: sequences of fragments and newlines.                             *)

LEMMA FragmentFacts ==
  /\ Newline \in Fragment /\ \A e \in Event : <<e, 1>> \in Fragment /\ <<e, 2>> \in Fragment
  /\ \A e \in Event : <<e, 1>> # Newline /\ <<e, 2>> # Newline
  /\ \A d, e \in Event : <<d, 1>> # <<e, 2>>
  /\ \A d, e \in Event : (<<d, 1>> = <<e, 1>> => d = e) /\ (<<d, 2>> = <<e, 2>> => d = e)
  /\ \A f \in Fragment : f = Newline \/ \E e \in Event : f = <<e, 1>> \/ f = <<e, 2>>
BY LogAssumption DEF Fragment

\* Fragment k of what is written to the file for es.
LEMMA WrittenFacts ==
  ASSUME NEW es \in Seq(Event)
  PROVE  /\ Written(es) \in Seq(Fragment) /\ Len(Written(es)) = 3 * Len(es)
         /\ \A k \in 1..(3 * Len(es)) :
              LET e == es[(k + 2) \div 3]
              IN  /\ (k + 2) \div 3 \in 1..Len(es) /\ e \in Event
                  /\ \/ /\ Written(es)[k] = <<e, 1>> /\ k < 3 * Len(es)
                        /\ Written(es)[k + 1] = <<e, 2>>
                     \/ /\ Written(es)[k] = <<e, 2>> /\ k < 3 * Len(es) /\ k > 1
                        /\ Written(es)[k + 1] = Newline /\ Written(es)[k - 1] = <<e, 1>>
                     \/ Written(es)[k] = Newline
         /\ \A j \in 1..Len(es) :
              /\ 3 * j \in 1..(3 * Len(es)) /\ 3 * j - 2 \in 1..(3 * Len(es))
              /\ Written(es)[3 * j - 2] = <<es[j], 1>> /\ Written(es)[3 * j - 1] = <<es[j], 2>>
              /\ Written(es)[3 * j] = Newline
<1> DEFINE n == Len(es)
<1>1. n \in Nat /\ 3 * n \in Nat /\ \A j \in 1..n : es[j] \in Event
  OBVIOUS
<1>2. ASSUME NEW k \in 1..(3 * n)
      PROVE  /\ (k + 2) \div 3 \in 1..n
             /\ \/ (k + 2) % 3 = 0 /\ k + 1 \in 1..(3 * n)
                   /\ (k + 3) \div 3 = (k + 2) \div 3 /\ (k + 3) % 3 = 1
                \/ (k + 2) % 3 = 1 /\ k + 1 \in 1..(3 * n) /\ k - 1 \in 1..(3 * n)
                   /\ (k + 3) \div 3 = (k + 2) \div 3 /\ (k + 3) % 3 = 2
                   /\ (k + 1) \div 3 = (k + 2) \div 3 /\ (k + 1) % 3 = 0
                \/ (k + 2) % 3 = 2
  BY <1>1
<1>3. /\ Written(es) = [k \in 1..(3 * n) |-> Line(es[(k + 2) \div 3])[((k + 2) % 3) + 1]]
      /\ \A e : Line(e)[1] = <<e, 1>> /\ Line(e)[2] = <<e, 2>> /\ Line(e)[3] = Newline
  BY DEF Written, Line
<1> HIDE DEF n
\* The text of fragment k, by what k leaves when divided by three.
<1>4. ASSUME NEW k \in 1..(3 * n)
      PROVE  LET e == es[(k + 2) \div 3]
             IN  /\ (k + 2) % 3 = 0 => Written(es)[k] = <<e, 1>>
                 /\ (k + 2) % 3 = 1 => Written(es)[k] = <<e, 2>>
                 /\ (k + 2) % 3 = 2 => Written(es)[k] = Newline
  BY <1>3
<1>5. /\ \A k \in 1..(3 * n) : Written(es)[k] \in Fragment
      /\ DOMAIN Written(es) = 1..(3 * n)
  <2>1. \A k \in 1..(3 * n) : Written(es)[k] \in Fragment
    <3> SUFFICES ASSUME NEW k \in 1..(3 * n) PROVE Written(es)[k] \in Fragment
      OBVIOUS
    <3> DEFINE e == es[(k + 2) \div 3]
    <3>1. (k + 2) % 3 = 0 \/ (k + 2) % 3 = 1 \/ (k + 2) % 3 = 2
      BY <1>2
    <3>2. e \in Event
      BY <1>1, <1>2
    <3>3. Written(es)[k] \in {<<e, 1>>, <<e, 2>>, Newline}
      BY <1>4, <3>1
    <3> HIDE DEF e
    <3> QED BY <3>2, <3>3, FragmentFacts
  <2> QED BY <1>3, <2>1
<1>6. Written(es) \in Seq(Fragment) /\ Len(Written(es)) = 3 * n
  <2>1. Written(es) \in [1..(3 * n) -> Fragment]
    BY <1>3, <1>5
  <2> QED BY <1>1, <2>1
<1>7. ASSUME NEW k \in 1..(3 * n)
      PROVE  LET e == es[(k + 2) \div 3]
             IN  /\ (k + 2) \div 3 \in 1..n /\ e \in Event
                 /\ \/ /\ Written(es)[k] = <<e, 1>> /\ k < 3 * n
                       /\ Written(es)[k + 1] = <<e, 2>>
                    \/ /\ Written(es)[k] = <<e, 2>> /\ k < 3 * n /\ k > 1
                       /\ Written(es)[k + 1] = Newline /\ Written(es)[k - 1] = <<e, 1>>
                    \/ Written(es)[k] = Newline
  <2> DEFINE e == es[(k + 2) \div 3]
  <2>1. (k + 2) \div 3 \in 1..n /\ e \in Event
    BY <1>1, <1>2
  <2>2. CASE (k + 2) % 3 = 0
    <3>1. /\ k + 1 \in 1..(3 * n) /\ (k + 1) + 2 = k + 3
          /\ (k + 3) \div 3 = (k + 2) \div 3 /\ (k + 3) % 3 = 1 /\ k < 3 * n
      BY <1>1, <1>2, <2>2
    <3>2. Written(es)[k] = <<e, 1>>
      BY <1>4, <2>2
    <3>3. Written(es)[k + 1] = <<es[(k + 3) \div 3], 2>>
      BY <1>4, <3>1
    <3> QED BY <2>1, <3>1, <3>2, <3>3
  <2>3. CASE (k + 2) % 3 = 1
    <3>1. /\ k + 1 \in 1..(3 * n) /\ (k + 1) + 2 = k + 3 /\ (k + 3) % 3 = 2
          /\ k - 1 \in 1..(3 * n) /\ (k - 1) + 2 = k + 1 /\ (k + 1) % 3 = 0
          /\ (k + 1) \div 3 = (k + 2) \div 3 /\ k < 3 * n /\ k > 1
      BY <1>1, <1>2, <2>3
    <3>2. Written(es)[k] = <<e, 2>>
      BY <1>4, <2>3
    <3>3. Written(es)[k + 1] = Newline
      BY <1>4, <3>1
    <3>4. Written(es)[k - 1] = <<es[(k + 1) \div 3], 1>>
      BY <1>4, <3>1
    <3> QED BY <2>1, <3>1, <3>2, <3>3, <3>4
  <2>4. CASE (k + 2) % 3 = 2
    BY <1>4, <2>1, <2>4
  <2> QED BY <1>2, <2>2, <2>3, <2>4
<1>8. ASSUME NEW j \in 1..n
      PROVE  /\ 3 * j \in 1..(3 * n) /\ 3 * j - 1 \in 1..(3 * n) /\ 3 * j - 2 \in 1..(3 * n)
             /\ ((3 * j - 2) + 2) \div 3 = j /\ ((3 * j - 2) + 2) % 3 = 0
             /\ ((3 * j - 1) + 2) \div 3 = j /\ ((3 * j - 1) + 2) % 3 = 1
             /\ (3 * j + 2) \div 3 = j /\ (3 * j + 2) % 3 = 2
  BY <1>1
<1>9. \A j \in 1..n :
        /\ 3 * j \in 1..(3 * n) /\ 3 * j - 2 \in 1..(3 * n)
        /\ Written(es)[3 * j - 2] = <<es[j], 1>> /\ Written(es)[3 * j - 1] = <<es[j], 2>>
        /\ Written(es)[3 * j] = Newline
  BY <1>4, <1>8
<1> QED BY <1>6, <1>7, <1>9 DEF n

\* A fragment is cut off when the text does not go on as its line does.
Cut(t, p) ==
  \E e \in Event : \/ t[p] = <<e, 1>> /\ ~(p < Len(t) /\ t[p + 1] = <<e, 2>>)
                   \/ t[p] = <<e, 2>> /\ ~(p < Len(t) /\ t[p + 1] = Newline)

Cuts(t) == {p \in 1..Len(t) : Cut(t, p)}

\* The second half of a text comes after the first.
Ordered(t) ==
  \A p \in 1..Len(t) : \A e \in Event : t[p] = <<e, 2>> => p > 1 /\ t[p - 1] = <<e, 1>>

LineAt(t, e, p) ==
  /\ p \in 1..Len(t) /\ p + 2 <= Len(t)
  /\ t[p] = <<e, 1>> /\ t[p + 1] = <<e, 2>> /\ t[p + 2] = Newline

HasLine(t, e) == \E p \in Nat : LineAt(t, e, p)

\* The text s is how the text t begins.
Begins(s, t) == Len(s) <= Len(t) /\ \A k \in 1..Len(s) : s[k] = t[k]

LEMMA WrittenText ==
  ASSUME NEW es \in Seq(Event)
  PROVE  /\ Cuts(Written(es)) = {} /\ Ordered(Written(es))
         /\ \A k \in DOMAIN es : HasLine(Written(es), es[k])
<1> DEFINE w == Written(es)
<1>1. w \in Seq(Fragment) /\ Len(w) = 3 * Len(es) /\ Len(es) \in Nat
  BY WrittenFacts
<1>2. ASSUME NEW p \in 1..Len(w)
      PROVE  \E d \in Event :
               \/ w[p] = <<d, 1>> /\ p < Len(w) /\ w[p + 1] = <<d, 2>>
               \/ w[p] = <<d, 2>> /\ p < Len(w) /\ p > 1 /\ w[p + 1] = Newline /\ w[p - 1] = <<d, 1>>
               \/ w[p] = Newline
  <2> DEFINE d == es[(p + 2) \div 3]
  <2>1. /\ d \in Event
        /\ \/ w[p] = <<d, 1>> /\ p < 3 * Len(es) /\ w[p + 1] = <<d, 2>>
           \/ /\ w[p] = <<d, 2>> /\ p < 3 * Len(es) /\ p > 1
              /\ w[p + 1] = Newline /\ w[p - 1] = <<d, 1>>
           \/ w[p] = Newline
    BY <1>1, WrittenFacts
  <2> HIDE DEF w, d
  <2> QED BY <1>1, <2>1
<1>3. \A j \in 1..Len(es) : LineAt(w, es[j], 3 * j - 2) /\ 3 * j - 2 \in Nat
  <2> SUFFICES ASSUME NEW j \in 1..Len(es) PROVE LineAt(w, es[j], 3 * j - 2) /\ 3 * j - 2 \in Nat
    OBVIOUS
  <2>1. /\ 3 * j \in 1..(3 * Len(es)) /\ 3 * j - 2 \in 1..(3 * Len(es))
        /\ w[3 * j - 2] = <<es[j], 1>> /\ w[3 * j - 1] = <<es[j], 2>>
        /\ w[3 * j] = Newline
    BY WrittenFacts
  <2> HIDE DEF w
  <2>2. (3 * j - 2) + 1 = 3 * j - 1 /\ (3 * j - 2) + 2 = 3 * j
    BY <1>1
  <2> QED BY <1>1, <2>1, <2>2 DEF LineAt
<1> HIDE DEF w
<1>4. \A p \in 1..Len(w) : ~Cut(w, p)
  <2> SUFFICES ASSUME NEW p \in 1..Len(w), NEW e \in Event
               PROVE  ~(\/ w[p] = <<e, 1>> /\ ~(p < Len(w) /\ w[p + 1] = <<e, 2>>)
                        \/ w[p] = <<e, 2>> /\ ~(p < Len(w) /\ w[p + 1] = Newline))
    BY DEF Cut
  <2>1. PICK d \in Event :
          \/ w[p] = <<d, 1>> /\ p < Len(w) /\ w[p + 1] = <<d, 2>>
          \/ w[p] = <<d, 2>> /\ p < Len(w) /\ p > 1 /\ w[p + 1] = Newline /\ w[p - 1] = <<d, 1>>
          \/ w[p] = Newline
    BY <1>2
  <2>2. w[p] = <<e, 1>> => w[p] # Newline /\ w[p] # <<d, 2>> /\ (w[p] = <<d, 1>> => d = e)
    BY FragmentFacts
  <2>3. w[p] = <<e, 2>> => w[p] # Newline /\ w[p] # <<d, 1>> /\ (w[p] = <<d, 2>> => d = e)
    BY FragmentFacts
  <2> QED BY <2>1, <2>2, <2>3
<1>5. Ordered(w)
  <2> SUFFICES ASSUME NEW p \in 1..Len(w), NEW e \in Event, w[p] = <<e, 2>>
               PROVE  p > 1 /\ w[p - 1] = <<e, 1>>
    BY DEF Ordered
  <2>1. PICK d \in Event :
          \/ w[p] = <<d, 1>> /\ p < Len(w) /\ w[p + 1] = <<d, 2>>
          \/ w[p] = <<d, 2>> /\ p < Len(w) /\ p > 1 /\ w[p + 1] = Newline /\ w[p - 1] = <<d, 1>>
          \/ w[p] = Newline
    BY <1>2
  <2>2. w[p] # Newline /\ w[p] # <<d, 1>> /\ (w[p] = <<d, 2>> => d = e)
    BY FragmentFacts
  <2> QED BY <2>1, <2>2
<1>6. DOMAIN es = 1..Len(es)
  OBVIOUS
<1> QED BY <1>3, <1>4, <1>5, <1>6 DEF Cuts, HasLine, w

\* Appending whole lines cuts nothing off that was not before.
LEMMA JoinText ==
  ASSUME NEW a \in Seq(Fragment), NEW b \in Seq(Fragment), Ordered(a), Ordered(b), Cuts(b) = {}
  PROVE  /\ a \o b \in Seq(Fragment) /\ Ordered(a \o b)
         /\ Cuts(a \o b) \subseteq Cuts(a) /\ Begins(a, a \o b)
         /\ \A e : HasLine(b, e) => HasLine(a \o b, e)
<1> DEFINE t == a \o b
           m == Len(a)
           n == Len(b)
<1>1. /\ t \in Seq(Fragment) /\ Len(t) = m + n /\ m \in Nat /\ n \in Nat
      /\ \A p \in 1..m : t[p] = a[p]
      /\ \A p \in 1..n : t[m + p] = b[p]
  OBVIOUS
<1>2. \A p \in 1..(m + n) : p \in 1..m \/ \E q \in 1..n : p = m + q
  <2> SUFFICES ASSUME NEW p \in 1..(m + n), p \notin 1..m PROVE \E q \in 1..n : p = m + q
    OBVIOUS
  <2>1. p - m \in 1..n /\ p = m + (p - m)
    BY <1>1
  <2> QED BY <2>1
<1> HIDE DEF t
<1>3. Begins(a, t)
  BY <1>1 DEF Begins
<1>4. \A e : HasLine(b, e) => HasLine(t, e)
  <2> SUFFICES ASSUME NEW e, NEW p \in Nat, LineAt(b, e, p) PROVE HasLine(t, e)
    BY DEF HasLine
  <2>1. /\ p \in 1..n /\ p + 1 \in 1..n /\ p + 2 \in 1..n
        /\ (m + p) + 1 = m + (p + 1) /\ (m + p) + 2 = m + (p + 2)
        /\ m + p \in 1..(m + n) /\ (m + p) + 2 <= m + n /\ m + p \in Nat
    BY <1>1 DEF LineAt
  <2>2. t[m + p] = b[p] /\ t[(m + p) + 1] = b[p + 1] /\ t[(m + p) + 2] = b[p + 2]
    BY <1>1, <2>1
  <2>3. b[p] = <<e, 1>> /\ b[p + 1] = <<e, 2>> /\ b[p + 2] = Newline
    BY DEF LineAt
  <2>4. m + p \in 1..Len(t) /\ (m + p) + 2 <= Len(t)
    BY <1>1, <2>1
  <2>5. LineAt(t, e, m + p)
    BY <2>2, <2>3, <2>4 DEF LineAt
  <2> QED BY <2>1, <2>5 DEF HasLine
<1>5. Ordered(t)
  <2> SUFFICES ASSUME NEW p \in 1..(m + n), NEW e \in Event, t[p] = <<e, 2>>
               PROVE  p > 1 /\ t[p - 1] = <<e, 1>>
    BY <1>1 DEF Ordered
  <2>1. CASE p \in 1..m
    <3>1. a[p] = <<e, 2>>
      BY <1>1, <2>1
    <3>2. p > 1 /\ a[p - 1] = <<e, 1>>
      BY <2>1, <3>1 DEF Ordered
    <3>3. p - 1 \in 1..m
      BY <1>1, <2>1, <3>2
    <3>4. t[p - 1] = a[p - 1]
      BY <1>1, <3>3
    <3> QED BY <3>2, <3>4
  <2>2. ASSUME NEW q \in 1..n, p = m + q PROVE p > 1 /\ t[p - 1] = <<e, 1>>
    <3>1. b[q] = <<e, 2>>
      BY <1>1, <2>2
    <3>2. q > 1 /\ b[q - 1] = <<e, 1>>
      BY <3>1 DEF Ordered
    <3>3. q - 1 \in 1..n /\ p - 1 = m + (q - 1) /\ p > 1
      BY <1>1, <2>2, <3>2
    <3>4. t[p - 1] = b[q - 1]
      BY <1>1, <3>3
    <3> QED BY <3>2, <3>3, <3>4
  <2> QED BY <1>2, <2>1, <2>2
<1>6. ASSUME NEW p \in Cuts(t) PROVE p \in Cuts(a)
  <2>1. p \in 1..(m + n)
    BY <1>1, <1>6 DEF Cuts
  <2>2. PICK e \in Event : \/ t[p] = <<e, 1>> /\ ~(p < m + n /\ t[p + 1] = <<e, 2>>)
                           \/ t[p] = <<e, 2>> /\ ~(p < m + n /\ t[p + 1] = Newline)
    BY <1>1, <1>6 DEF Cuts, Cut
  <2>3. CASE p \in 1..m
    <3>1. t[p] = a[p] /\ (p < m => p + 1 \in 1..m /\ p < m + n /\ t[p + 1] = a[p + 1])
      BY <1>1, <2>3
    <3>2. Cut(a, p)
      BY <2>2, <3>1 DEF Cut
    <3> QED BY <2>3, <3>2 DEF Cuts
  <2>4. ASSUME NEW q \in 1..n, p = m + q PROVE FALSE
    <3>1. t[p] = b[q] /\ (q < n => q + 1 \in 1..n /\ p < m + n /\ t[p + 1] = b[q + 1])
      <4>1. q < n => q + 1 \in 1..n /\ p < m + n /\ p + 1 = m + (q + 1)
        BY <1>1, <2>4
      <4> QED BY <1>1, <2>4, <4>1
    <3>2. Cut(b, q)
      BY <2>2, <3>1 DEF Cut
    <3> QED BY <3>2 DEF Cuts
  <2> QED BY <1>2, <2>1, <2>3, <2>4
<1> QED BY <1>1, <1>3, <1>4, <1>5, <1>6 DEF t

\* What is lost at the end cuts off one fragment at most.
LEMMA StartText ==
  ASSUME NEW s \in Seq(Fragment), NEW t \in Seq(Fragment), Begins(s, t), Ordered(t)
  PROVE  /\ Ordered(s) /\ Cuts(s) \subseteq Cuts(t) \cup {Len(s)}
         /\ \A e : HasLine(s, e) => HasLine(t, e)
<1>1. /\ Len(s) \in Nat /\ Len(t) \in Nat /\ Len(s) <= Len(t)
      /\ \A k \in 1..Len(s) : k \in 1..Len(t) /\ s[k] = t[k]
  BY DEF Begins
<1>2. Ordered(s)
  <2> SUFFICES ASSUME NEW p \in 1..Len(s), NEW e \in Event, s[p] = <<e, 2>>
               PROVE  p > 1 /\ s[p - 1] = <<e, 1>>
    BY DEF Ordered
  <2>1. p > 1 /\ t[p - 1] = <<e, 1>>
    BY <1>1 DEF Ordered
  <2>2. p - 1 \in 1..Len(s)
    BY <1>1, <2>1
  <2> QED BY <1>1, <2>1, <2>2
<1>3. ASSUME NEW p \in Cuts(s), p # Len(s) PROVE p \in Cuts(t)
  <2>1. p \in 1..Len(s) /\ p + 1 \in 1..Len(s) /\ p < Len(s) /\ p < Len(t)
    BY <1>1, <1>3 DEF Cuts
  <2>2. Cut(t, p)
    BY <1>1, <1>3, <2>1 DEF Cuts, Cut
  <2> QED BY <1>1, <2>1, <2>2 DEF Cuts
<1>4. \A e : HasLine(s, e) => HasLine(t, e)
  <2> SUFFICES ASSUME NEW e, NEW p \in Nat, LineAt(s, e, p) PROVE LineAt(t, e, p)
    BY DEF HasLine
  <2>1. p \in 1..Len(s) /\ p + 1 \in 1..Len(s) /\ p + 2 \in 1..Len(s) /\ p + 2 <= Len(t)
    BY <1>1 DEF LineAt
  <2> QED BY <1>1, <2>1 DEF LineAt
<1> QED BY <1>2, <1>3, <1>4

LEMMA CutsCount ==
  ASSUME NEW s \in Seq(Fragment), NEW t \in Seq(Fragment), NEW n
  PROVE  /\ IsFiniteSet(Cuts(s)) /\ Cardinality(Cuts(s)) \in Nat
         /\ Cuts(s) \subseteq Cuts(t) => Cardinality(Cuts(s)) <= Cardinality(Cuts(t))
         /\ Cuts(s) \subseteq Cuts(t) \cup {n} => Cardinality(Cuts(s)) <= Cardinality(Cuts(t)) + 1
<1>1. ASSUME NEW u \in Seq(Fragment) PROVE IsFiniteSet(Cuts(u)) /\ Cardinality(Cuts(u)) \in Nat
  <2>1. IsFiniteSet(1..Len(u)) /\ Cuts(u) \subseteq 1..Len(u)
    <3>1. Len(u) \in Int
      OBVIOUS
    <3> QED BY <3>1, FS_Interval DEF Cuts
  <2>2. IsFiniteSet(Cuts(u))
    BY <2>1, FS_Subset
  <2> QED BY <2>2, FS_CardinalityType
<1>2. IsFiniteSet(Cuts(s)) /\ Cardinality(Cuts(s)) \in Nat /\ IsFiniteSet(Cuts(t)) /\ Cardinality(Cuts(t)) \in Nat
  BY <1>1
<1>3. /\ IsFiniteSet(Cuts(t) \cup {n})
      /\ Cardinality(Cuts(t) \cup {n}) <= Cardinality(Cuts(t)) + 1
  <2>1. IsFiniteSet(Cuts(t) \cup {n})
    BY <1>2, FS_AddElement
  <2>2. Cardinality(Cuts(t) \cup {n}) =
          IF n \in Cuts(t) THEN Cardinality(Cuts(t)) ELSE Cardinality(Cuts(t)) + 1
    BY <1>2, FS_AddElement
  <2> QED BY <1>2, <2>1, <2>2
<1>4. Cuts(s) \subseteq Cuts(t) => Cardinality(Cuts(s)) <= Cardinality(Cuts(t))
  BY <1>2, FS_Subset
<1>5. Cuts(s) \subseteq Cuts(t) \cup {n} => Cardinality(Cuts(s)) <= Cardinality(Cuts(t) \cup {n})
  BY <1>3, FS_Subset
<1>6. Cuts(s) \subseteq Cuts(t) \cup {n} => Cardinality(Cuts(s)) <= Cardinality(Cuts(t)) + 1
  <2>1. IsFiniteSet(Cuts(t) \cup {n}) => Cardinality(Cuts(t) \cup {n}) \in Nat
    BY FS_CardinalityType
  <2> QED BY <1>2, <1>3, <1>5, <2>1
<1> QED BY <1>2, <1>4, <1>6

\* The first n fragments of a text.
LEMMA TakeFacts ==
  ASSUME NEW a \in Seq(Fragment), NEW b \in Seq(Fragment), NEW n \in 0..Len(b)
  PROVE  /\ SubSeq(b, 1, n) \in Seq(Fragment) /\ a \o SubSeq(b, 1, n) \in Seq(Fragment)
         /\ Begins(a \o SubSeq(b, 1, n), a \o b) /\ Begins(a, a \o b)
         /\ Begins(a, a \o SubSeq(b, 1, n))
<1>1. /\ SubSeq(b, 1, n) \in Seq(Fragment) /\ Len(SubSeq(b, 1, n)) = n
      /\ \A k \in 1..n : SubSeq(b, 1, n)[k] = b[k]
      /\ n \in Nat /\ n <= Len(b)
  OBVIOUS
<1> DEFINE c == SubSeq(b, 1, n)
<1> HIDE DEF c
<1>2. /\ c \in Seq(Fragment) /\ Len(c) = n /\ \A k \in 1..n : c[k] = b[k]
  BY <1>1 DEF c
<1>3. /\ a \o c \in Seq(Fragment) /\ Len(a \o c) = Len(a) + n /\ Len(a) \in Nat
      /\ \A k \in 1..(Len(a) + n) : (a \o c)[k] = IF k <= Len(a) THEN a[k] ELSE c[k - Len(a)]
  <2>1. /\ a \o c \in Seq(Fragment) /\ Len(a \o c) = Len(a) + Len(c)
        /\ \A k \in 1..(Len(a) + Len(c)) :
             (a \o c)[k] = IF k <= Len(a) THEN a[k] ELSE c[k - Len(a)]
    BY <1>2, ConcatProperties
  <2>2. Len(a) \in Nat
    OBVIOUS
  <2> QED BY <1>2, <2>1, <2>2
<1>4. /\ Len(a \o b) = Len(a) + Len(b) /\ Len(b) \in Nat
      /\ \A k \in 1..(Len(a) + Len(b)) : (a \o b)[k] = IF k <= Len(a) THEN a[k] ELSE b[k - Len(a)]
  BY ConcatProperties
<1>5. Begins(a \o c, a \o b)
  <2>1. ASSUME NEW k \in 1..(Len(a) + n) PROVE (a \o c)[k] = (a \o b)[k]
    <3>1. k \in 1..(Len(a) + Len(b)) /\ (~(k <= Len(a)) => k - Len(a) \in 1..n)
      BY <1>1, <1>3, <1>4
    <3> QED BY <1>2, <1>3, <1>4, <3>1
  <2>2. Len(a \o c) <= Len(a \o b)
    BY <1>1, <1>3, <1>4
  <2> QED BY <1>3, <2>1, <2>2 DEF Begins
<1>6. Begins(a, a \o b) /\ Begins(a, a \o c)
  BY <1>1, <1>3, <1>4 DEF Begins
<1> QED BY <1>2, <1>3, <1>5, <1>6 DEF c

LEMMA JoinFacts ==
  /\ \A a, b, c \in Seq(Fragment) : (a \o b) \o c = a \o (b \o c)
  /\ \A a, b \in Seq(Fragment) : a \o b \in Seq(Fragment)
  /\ \A a \in Seq(Fragment) : a \o <<>> = a
<1>1. ASSUME NEW a \in Seq(Fragment), NEW b \in Seq(Fragment), NEW c \in Seq(Fragment)
      PROVE  (a \o b) \o c = a \o (b \o c)
  BY ConcatAssociative
<1> QED BY <1>1, ConcatProperties, ConcatEmptySeq

-----------------------------------------------------------------------------
(***************************************************************************)
(* The inductive invariant.  What counts is the text that the file would   *)
(* have if the buffer were written out: only a fault cuts a fragment off   *)
(* in it, and every event that was exported has its line in it, in the     *)
(* part that is on the disk if it was flushed, unless a failing write of   *)
(* another call found it in the buffer.                                    *)
(***************************************************************************)
Text == disk \o buffer

Handles ==
  /\ file = "stale" => closed
  /\ closed => file # "open"
  /\ file # "open" => accepted = {}

Scarred == Ordered(Text) /\ Cardinality(Cuts(Text)) <= faults

Kept ==
  /\ \A e \in durable \ exposed : HasLine(disk, e)
  /\ \A e \in accepted \ exposed : HasLine(Text, e)

IInv == TypeOK /\ Handles /\ Scarred /\ Kept

\* A step that ends in a text with no more cuts than there were faults.
LEMMA TextStep ==
  ASSUME NEW t \in Seq(Fragment), Text' = t, Ordered(t), Cardinality(Cuts(t)) <= faults',
         TypeOK', Handles', \A e \in durable' \ exposed' : HasLine(disk', e),
         \A e \in accepted' \ exposed' : HasLine(t, e)
  PROVE  IInv'
BY DEF IInv, Scarred, Kept

LEMMA TextFacts ==
  ASSUME IInv
  PROVE  /\ disk \in Seq(Fragment) /\ buffer \in Seq(Fragment) /\ Text \in Seq(Fragment)
         /\ Ordered(Text) /\ Cardinality(Cuts(Text)) <= faults
         /\ Cardinality(Cuts(Text)) \in Nat /\ faults \in 0..MaxFaults
         /\ Len(disk) \in Nat /\ Len(buffer) \in Nat
<1>1. disk \in Seq(Fragment) /\ buffer \in Seq(Fragment) /\ faults \in 0..MaxFaults
  BY DEF IInv, TypeOK
<1>2. Text \in Seq(Fragment)
  BY <1>1, ConcatProperties DEF Text
<1> QED BY <1>1, <1>2, CutsCount DEF IInv, Scarred

\* What is buffered and what is on the disk once a call has its handle.
LEMMA OpenFacts ==
  ASSUME IInv, EnsureOpen
  PROVE  /\ ~closed /\ file' = "open"
         /\ disk' \in Seq(Fragment) /\ durable' \subseteq Event /\ durable' \subseteq durable
         /\ disk' \o buffer \in Seq(Fragment)
         /\ Ordered(disk' \o buffer) /\ Cardinality(Cuts(disk' \o buffer)) <= faults
         /\ \A e \in durable' \ exposed : HasLine(disk', e)
         /\ \A e \in accepted \ exposed : HasLine(disk' \o buffer, e)
<1>1. ~closed /\ file' = "open" /\ TypeOK /\ Handles
  BY DEF EnsureOpen, IInv
<1>2. CASE file = "none" /\ mode = "w"
  <2>1. disk' = <<>> /\ durable' = {} /\ buffer = <<>> /\ accepted = {}
    BY <1>1, <1>2 DEF EnsureOpen, TypeOK, Handles
  <2>2. disk' \o buffer = <<>> /\ Len(<<>>) = 0 /\ <<>> \in Seq(Fragment)
    BY <2>1
  <2>3. Ordered(<<>>) /\ Cuts(<<>>) = {}
    BY DEF Ordered, Cuts
  <2>4. Cardinality({}) <= faults
    BY TextFacts, FS_EmptySet
  <2> QED BY <1>1, <2>1, <2>2, <2>3, <2>4
<1>3. CASE ~(file = "none" /\ mode = "w")
  <2>1. disk' = disk /\ durable' = durable
    BY <1>3 DEF EnsureOpen
  <2> QED BY <1>1, <2>1, TextFacts DEF IInv, TypeOK, Kept, Text
<1> QED BY <1>2, <1>3

LEMMA BatchFacts ==
  ASSUME NEW es \in Batch PROVE es \in Seq(Event)
<1>1. PICK n \in 1..MaxBatch : es \in [1..n -> Event]
  BY DEF Batch
<1>2. n \in Nat
  BY <1>1, LogAssumption
<1> QED BY <1>1, <1>2

\* export() and export_batch(), which write whole lines.
LEMMA WriteAllInv ==
  ASSUME IInv, NEW es \in Seq(Event), WriteAll(es) PROVE IInv'
<1>1. PICK n \in 0..Len(es) :
        /\ buffer' = buffer \o Written(SubSeq(es, 1, n))
        /\ IF n = Len(es)
           THEN /\ accepted' = accepted \cup {es[k] : k \in DOMAIN es}
                /\ exposed' = exposed \ {es[k] : k \in DOMAIN es}
           ELSE UNCHANGED <<accepted, exposed>>
  BY DEF WriteAll
<1>2. /\ EnsureOpen /\ calls < MaxCalls /\ calls' = calls + 1
      /\ \A k \in DOMAIN es : es[k] \notin accepted \cup durable
      /\ UNCHANGED <<mode, closed, faults>>
  BY DEF WriteAll
<1> DEFINE part == SubSeq(es, 1, n)
           w == Written(part)
           base == disk' \o buffer
<1>3. part \in Seq(Event) /\ (n = Len(es) => part = es)
  OBVIOUS
<1> HIDE DEF part
<1>4. /\ w \in Seq(Fragment) /\ Cuts(w) = {} /\ Ordered(w)
      /\ \A k \in DOMAIN part : HasLine(w, part[k])
  BY <1>3, WrittenFacts, WrittenText
<1> HIDE DEF w
<1>5. /\ ~closed /\ file' = "open" /\ disk' \in Seq(Fragment) /\ buffer \in Seq(Fragment)
      /\ durable' \subseteq Event /\ durable' \subseteq durable /\ base \in Seq(Fragment)
      /\ Ordered(base) /\ Cardinality(Cuts(base)) <= faults
      /\ \A e \in durable' \ exposed : HasLine(disk', e)
      /\ \A e \in accepted \ exposed : HasLine(base, e)
  BY <1>2, OpenFacts, TextFacts
<1>6. buffer' = buffer \o w /\ buffer' \in Seq(Fragment) /\ Text' = base \o w
  <2>1. buffer' = buffer \o w
    BY <1>1 DEF part, w
  <2>2. buffer' \in Seq(Fragment)
    BY <1>4, <1>5, <2>1, ConcatProperties
  <2>3. disk' \o (buffer \o w) = (disk' \o buffer) \o w
    <3>1. w \in Seq(Fragment)
      BY <1>4
    <3>2. disk' \in Seq(Fragment) /\ buffer \in Seq(Fragment)
      BY <1>5
    <3> QED BY <3>1, <3>2, JoinFacts
  <2> QED BY <1>5, <2>1, <2>2, <2>3 DEF Text
<1> HIDE DEF base
<1>7. /\ base \o w \in Seq(Fragment) /\ Ordered(base \o w)
      /\ Cuts(base \o w) \subseteq Cuts(base) /\ Begins(base, base \o w)
      /\ \A e : HasLine(w, e) => HasLine(base \o w, e)
  BY <1>4, <1>5, JoinText
<1>8. \A e : HasLine(base, e) => HasLine(base \o w, e)
  BY <1>5, <1>7, StartText
<1>9. Cardinality(Cuts(base \o w)) <= faults'
  <2>1. /\ Cardinality(Cuts(base \o w)) <= Cardinality(Cuts(base))
        /\ Cardinality(Cuts(base \o w)) \in Nat /\ Cardinality(Cuts(base)) \in Nat
    BY <1>5, <1>7, CutsCount
  <2> QED BY <1>2, <1>5, <2>1, TextFacts
<1>10. /\ accepted' \subseteq Event /\ exposed' \subseteq Event
       /\ \A e \in accepted' \ exposed' : HasLine(base \o w, e)
  <2>1. (\A k \in DOMAIN es : es[k] \in Event) /\ accepted \subseteq Event /\ exposed \subseteq Event
    BY DEF IInv, TypeOK
  <2>2. \A e \in accepted \ exposed : HasLine(base \o w, e)
    BY <1>5, <1>8
  <2>3. CASE n = Len(es)
    <3>1. \A k \in DOMAIN es : HasLine(base \o w, es[k])
      BY <1>3, <1>4, <1>7, <2>3
    <3>2. /\ accepted' = accepted \cup {es[k] : k \in DOMAIN es}
          /\ exposed' = exposed \ {es[k] : k \in DOMAIN es}
      BY <1>1, <2>3
    <3> QED BY <2>1, <2>2, <3>1, <3>2
  <2>4. CASE n # Len(es)
    BY <1>1, <2>1, <2>2, <2>4
  <2> QED BY <2>3, <2>4
<1>11. TypeOK' /\ Handles'
  <2>1. calls' \in 0..MaxCalls
    BY <1>2, LogAssumption DEF IInv, TypeOK
  <2> QED BY <1>2, <1>5, <1>6, <1>10, <2>1 DEF IInv, TypeOK, Handles
<1>12. \A e \in durable' \ exposed' : HasLine(disk', e)
  BY <1>1, <1>2, <1>5
<1> QED BY <1>5, <1>6, <1>7, <1>9, <1>10, <1>11, <1>12, TextStep

\* A write that fails keeps a prefix of the text: one more cut at most.
LEMMA ExportFailsInv ==
  ASSUME IInv, NEW es \in Seq(Event), ExportFails(es) PROVE IInv'
<1> DEFINE w == Written(es)
           whole == buffer \o w
           base == disk' \o buffer
<1>1. PICK n \in 0..(Len(whole) - 1) : buffer' = SubSeq(whole, 1, n)
  BY DEF ExportFails
<1>2. /\ EnsureOpen /\ calls < MaxCalls /\ calls' = calls + 1
      /\ faults < MaxFaults /\ faults' = faults + 1
      /\ exposed' = exposed \cup accepted /\ UNCHANGED <<mode, closed, accepted>>
  BY DEF ExportFails
<1>3. w \in Seq(Fragment) /\ Cuts(w) = {} /\ Ordered(w)
  BY WrittenFacts, WrittenText
<1> HIDE DEF w
<1>4. /\ ~closed /\ file' = "open" /\ disk' \in Seq(Fragment) /\ buffer \in Seq(Fragment)
      /\ durable' \subseteq Event /\ base \in Seq(Fragment)
      /\ Ordered(base) /\ Cardinality(Cuts(base)) <= faults
      /\ \A e \in durable' \ exposed : HasLine(disk', e)
  BY <1>2, OpenFacts, TextFacts
<1>5. whole \in Seq(Fragment) /\ disk' \o whole = base \o w
  <2>1. w \in Seq(Fragment)
    BY <1>3
  <2>2. disk' \in Seq(Fragment) /\ buffer \in Seq(Fragment)
    BY <1>4
  <2> QED BY <2>1, <2>2, JoinFacts
<1>6. n \in 0..Len(whole)
  <2>1. Len(whole) \in Nat
    BY <1>5
  <2> QED BY <2>1
<1> HIDE DEF whole, base
<1>7. /\ buffer' \in Seq(Fragment) /\ Text' \in Seq(Fragment) /\ Begins(Text', base \o w)
  <2>1. /\ SubSeq(whole, 1, n) \in Seq(Fragment) /\ disk' \o SubSeq(whole, 1, n) \in Seq(Fragment)
        /\ Begins(disk' \o SubSeq(whole, 1, n), disk' \o whole)
    BY <1>4, <1>5, <1>6, TakeFacts
  <2> QED BY <1>1, <1>5, <2>1 DEF Text
<1>8. /\ base \o w \in Seq(Fragment) /\ Ordered(base \o w) /\ Cuts(base \o w) \subseteq Cuts(base)
  BY <1>3, <1>4, JoinText
<1>9. PICK t \in Seq(Fragment) : t = Text'
  BY <1>7
<1>10. Ordered(t) /\ Cuts(t) \subseteq Cuts(base \o w) \cup {Len(t)}
  BY <1>7, <1>8, <1>9, StartText
<1>11. Cardinality(Cuts(t)) <= faults'
  <2>1. /\ Cardinality(Cuts(base \o w)) <= Cardinality(Cuts(base))
        /\ Cardinality(Cuts(base \o w)) \in Nat /\ Cardinality(Cuts(base)) \in Nat
    BY <1>4, <1>8, CutsCount
  <2>2. Cardinality(Cuts(t)) <= Cardinality(Cuts(base \o w)) + 1 /\ Cardinality(Cuts(t)) \in Nat
    BY <1>8, <1>10, CutsCount
  <2> QED BY <1>2, <1>4, <2>1, <2>2, TextFacts
<1>12. TypeOK' /\ Handles'
  <2>1. calls' \in 0..MaxCalls /\ faults' \in 0..MaxFaults
    BY <1>2, LogAssumption DEF IInv, TypeOK
  <2> QED BY <1>2, <1>4, <1>7, <2>1 DEF IInv, TypeOK, Handles
<1>13. /\ \A e \in durable' \ exposed' : HasLine(disk', e)
       /\ accepted' \ exposed' = {}
  BY <1>2, <1>4
<1> QED BY <1>9, <1>10, <1>11, <1>12, <1>13, TextStep

\* A text is its first fragments and the rest.
LEMMA SplitText ==
  ASSUME NEW b \in Seq(Fragment), NEW n \in 0..Len(b)
  PROVE  /\ SubSeq(b, 1, n) \o SubSeq(b, n + 1, Len(b)) = b
         /\ SubSeq(b, 1, n) \in Seq(Fragment) /\ SubSeq(b, n + 1, Len(b)) \in Seq(Fragment)
<1>1. Len(b) \in Nat /\ n \in 1 - 1..Len(b) /\ 1 \in 1..(Len(b) + 1) /\ Len(b) \in n..Len(b)
  OBVIOUS
<1>2. SubSeq(b, 1, n) \o SubSeq(b, n + 1, Len(b)) = SubSeq(b, 1, Len(b))
  BY <1>1, ConcatAdjacentSubSeq
<1>3. SubSeq(b, 1, Len(b)) = b
  BY SubSeqFull
<1>4. SubSeq(b, 1, n) \in Seq(Fragment) /\ SubSeq(b, n + 1, Len(b)) \in Seq(Fragment)
  OBVIOUS
<1> QED BY <1>2, <1>3, <1>4

\* What is on the disk stays there when more is written after it.
LEMMA LinesStay ==
  ASSUME NEW a \in Seq(Fragment), NEW b \in Seq(Fragment), Ordered(a \o b)
  PROVE  \A e : HasLine(a, e) => HasLine(a \o b, e)
<1>1. Len(b) \in Nat /\ 0 \in 0..Len(b) /\ a \o b \in Seq(Fragment)
  BY JoinFacts
<1> QED BY <1>1, TakeFacts, StartText

LEMMA SpillInv ==
  ASSUME IInv, NEW n \in 1..Len(buffer), Spill(n) PROVE IInv'
<1> DEFINE head == SubSeq(buffer, 1, n)
           rest == SubSeq(buffer, n + 1, Len(buffer))
<1>1. /\ disk' = disk \o head /\ buffer' = rest
      /\ UNCHANGED <<mode, file, closed, accepted, durable, exposed, calls, faults>>
  BY DEF Spill
<1>2. disk \in Seq(Fragment) /\ buffer \in Seq(Fragment) /\ Len(buffer) \in Nat
  BY TextFacts
<1>3. head \in Seq(Fragment) /\ rest \in Seq(Fragment) /\ head \o rest = buffer
  <2>1. n \in 0..Len(buffer)
    BY <1>2
  <2> QED BY <1>2, <2>1, SplitText
<1>4. buffer # <<>>
  BY <1>2
<1> HIDE DEF head, rest
<1>5. disk \o head \in Seq(Fragment) /\ (disk \o head) \o rest = Text
  <2>1. (disk \o head) \o rest = disk \o (head \o rest)
    <3>1. disk \in Seq(Fragment)
      BY <1>2
    <3>2. head \in Seq(Fragment) /\ rest \in Seq(Fragment)
      BY <1>3
    <3> QED BY <3>1, <3>2, JoinFacts
  <2> QED BY <1>2, <1>3, <2>1, JoinFacts DEF Text
<1>6. Text' = Text
  BY <1>1, <1>5 DEF Text
<1>7. Text \in Seq(Fragment) /\ Ordered(Text) /\ Cardinality(Cuts(Text)) <= faults
  BY TextFacts
<1>8. \A e : HasLine(disk, e) => HasLine(disk \o head, e)
  <2>1. /\ \A e : HasLine(disk, e) => HasLine(Text, e)
    BY <1>2, <1>7, LinesStay DEF Text
  <2>2. Ordered(disk \o head)
    <3>1. Begins(disk \o head, (disk \o head) \o rest)
      <4>1. Len(rest) \in Nat /\ 0 \in 0..Len(rest)
        BY <1>3
      <4> QED BY <1>3, <1>5, <4>1, TakeFacts
    <3> QED BY <1>5, <1>7, <3>1, StartText
  <2> QED BY <1>2, <1>3, <2>2, LinesStay
<1>9. TypeOK' /\ Handles'
  BY <1>1, <1>3, <1>4, <1>5 DEF IInv, TypeOK, Handles
<1>10. \A e \in durable' \ exposed' : HasLine(disk', e)
  BY <1>1, <1>8 DEF IInv, Kept
<1>11. \A e \in accepted' \ exposed' : HasLine(Text, e)
  BY <1>1 DEF IInv, Kept
<1>12. PICK t \in Seq(Fragment) : t = Text
  BY <1>7
<1> QED BY <1>1, <1>6, <1>7, <1>9, <1>10, <1>11, <1>12, TextStep

\* flush() and close() leave the text on the disk.
LEMMA WriteOutFacts ==
  ASSUME IInv, WriteOut
  PROVE  /\ disk' = Text /\ buffer' = <<>> /\ Text' = Text /\ Text \in Seq(Fragment)
         /\ accepted' = {} /\ durable' = durable \cup accepted
         /\ \A e \in durable' \ exposed : HasLine(Text, e)
<1>1. disk' = Text /\ buffer' = <<>> /\ accepted' = {} /\ durable' = durable \cup accepted
  BY DEF WriteOut, Text
<1>2. /\ disk \in Seq(Fragment) /\ buffer \in Seq(Fragment)
      /\ Text \in Seq(Fragment) /\ Ordered(Text)
  BY TextFacts
<1>3. Text' = Text
  <2>1. \A t \in Seq(Fragment) : t \o <<>> = t
    BY JoinFacts
  <2>2. Text' = disk' \o buffer'
    BY DEF Text
  <2> QED BY <1>1, <1>2, <2>1, <2>2
<1>4. \A e : HasLine(disk, e) => HasLine(Text, e)
  BY <1>2, LinesStay DEF Text
<1> QED BY <1>1, <1>2, <1>3, <1>4 DEF IInv, Kept

LEMMA FlushCloseInv ==
  ASSUME IInv, Flush \/ Close PROVE IInv'
<1>1. WriteOut /\ UNCHANGED <<mode, exposed, calls, faults>>
  BY DEF Flush, Close
<1>2. /\ disk' = Text /\ buffer' = <<>> /\ Text' = Text /\ Text \in Seq(Fragment)
      /\ accepted' = {} /\ durable' = durable \cup accepted
      /\ \A e \in durable' \ exposed' : HasLine(disk', e)
  BY <1>1, WriteOutFacts
<1>3. TypeOK' /\ Handles'
  <2>1. <<>> \in Seq(Fragment)
    OBVIOUS
  <2>2. CASE Flush
    BY <1>1, <1>2, <2>1, <2>2 DEF IInv, TypeOK, Handles, Flush
  <2>3. CASE Close
    BY <1>1, <1>2, <2>1, <2>3 DEF IInv, TypeOK, Handles, Close
  <2> QED BY <2>2, <2>3
<1>4. Ordered(Text) /\ Cardinality(Cuts(Text)) <= faults'
  BY <1>1, TextFacts
<1>5. PICK t \in Seq(Fragment) : t = Text
  BY <1>2
<1> QED BY <1>2, <1>3, <1>4, <1>5, TextStep

\* Some of the buffer is written, some of it is kept and the end may be lost.
LEMMA FlushFailsInv ==
  ASSUME IInv, FlushFails PROVE IInv'
<1>0. PICK n \in 0..Len(buffer) :
        \E m \in 0..n : /\ disk' = disk \o SubSeq(buffer, 1, m)
                        /\ buffer' = SubSeq(buffer, m + 1, n)
  BY DEF FlushFails
<1>1. PICK m \in 0..n :
        /\ disk' = disk \o SubSeq(buffer, 1, m)
        /\ buffer' = SubSeq(buffer, m + 1, n)
  BY <1>0
<1>2. /\ file = "open" /\ faults < MaxFaults /\ faults' = faults + 1
      /\ exposed' = exposed \cup accepted
      /\ UNCHANGED <<mode, file, closed, accepted, durable, calls>>
  BY DEF FlushFails
<1>3. /\ disk \in Seq(Fragment) /\ buffer \in Seq(Fragment) /\ Text \in Seq(Fragment)
      /\ Ordered(Text) /\ Cardinality(Cuts(Text)) <= faults
      /\ Cardinality(Cuts(Text)) \in Nat /\ faults \in 0..MaxFaults /\ Len(buffer) \in Nat
  BY TextFacts
<1> DEFINE kept == SubSeq(buffer, 1, n)
           head == SubSeq(buffer, 1, m)
           rest == SubSeq(buffer, m + 1, n)
\* What is kept is what is written and what stays in the buffer.
<1>4. kept \in Seq(Fragment) /\ Begins(disk \o kept, Text)
  BY <1>3, TakeFacts DEF Text
<1>5. /\ head \in Seq(Fragment) /\ rest \in Seq(Fragment) /\ head \o rest = kept
      /\ disk \o head \in Seq(Fragment)
  <2>1. /\ n \in Nat /\ m \in Nat /\ m \in 1 - 1..n /\ n \in m..Len(buffer)
        /\ 1 \in 1..(Len(buffer) + 1) /\ m \in 0..Len(buffer)
    BY <1>3
  <2>2. head \o rest = kept
    BY <1>3, <2>1, ConcatAdjacentSubSeq
  <2>3. head \in Seq(Fragment) /\ disk \o head \in Seq(Fragment)
    BY <1>3, <2>1, TakeFacts
  <2>4. rest \in Seq(Fragment)
    BY <1>3, <2>1
  <2> QED BY <2>2, <2>3, <2>4
<1>6. disk' = disk \o head /\ buffer' = rest
  BY <1>1
<1> HIDE DEF kept, head, rest
<1>7. PICK t \in Seq(Fragment) : t = disk \o kept
  BY <1>3, <1>4, JoinFacts
<1>8. Text' = t /\ t = (disk \o head) \o rest
  <2>1. (disk \o head) \o rest = disk \o (head \o rest)
    <3>1. disk \in Seq(Fragment)
      BY <1>3
    <3>2. head \in Seq(Fragment) /\ rest \in Seq(Fragment)
      BY <1>5
    <3> QED BY <3>1, <3>2, JoinFacts
  <2>2. Text' = disk' \o buffer'
    BY DEF Text
  <2> QED BY <1>5, <1>6, <1>7, <2>1, <2>2
<1>9. Ordered(t) /\ Cuts(t) \subseteq Cuts(Text) \cup {Len(t)}
  BY <1>3, <1>4, <1>7, StartText
<1>10. Cardinality(Cuts(t)) <= faults'
  <2>1. Cardinality(Cuts(t)) <= Cardinality(Cuts(Text)) + 1 /\ Cardinality(Cuts(t)) \in Nat
    BY <1>3, <1>9, CutsCount
  <2> QED BY <1>2, <1>3, <2>1
<1>11. \A e : HasLine(disk, e) => HasLine(disk', e)
  <2>1. Ordered(disk \o head)
    <3>1. Begins(disk \o head, (disk \o head) \o rest)
      <4>1. Len(rest) \in Nat /\ 0 \in 0..Len(rest)
        BY <1>5
      <4> QED BY <1>5, <4>1, TakeFacts
    <3> QED BY <1>5, <1>8, <1>9, <3>1, StartText
  <2> QED BY <1>3, <1>5, <1>6, <2>1, LinesStay
<1>12. TypeOK' /\ Handles'
  <2>1. faults' \in 0..MaxFaults
    BY <1>2, <1>3, LogAssumption
  <2> QED BY <1>2, <1>5, <1>6, <2>1 DEF IInv, TypeOK, Handles
<1>13. /\ \A e \in durable' \ exposed' : HasLine(disk', e)
       /\ accepted' \ exposed' = {}
  BY <1>2, <1>11 DEF IInv, Kept
<1> QED BY <1>8, <1>9, <1>10, <1>12, <1>13, TextStep

LEMMA CloseFailsInv ==
  ASSUME IInv, CloseFails PROVE IInv'
<1>1. PICK n \in 0..Len(buffer) : disk' = disk \o SubSeq(buffer, 1, n)
  BY DEF CloseFails
<1>2. /\ closed' = TRUE /\ file' = "stale" /\ buffer' = <<>> /\ accepted' = {}
      /\ faults < MaxFaults /\ faults' = faults + 1 /\ UNCHANGED <<mode, durable, exposed, calls>>
  BY DEF CloseFails
<1>3. /\ disk \in Seq(Fragment) /\ buffer \in Seq(Fragment) /\ Text \in Seq(Fragment)
      /\ Ordered(Text) /\ Cardinality(Cuts(Text)) <= faults
      /\ Cardinality(Cuts(Text)) \in Nat /\ faults \in 0..MaxFaults
  BY TextFacts
<1>4. disk' \in Seq(Fragment) /\ Begins(disk', Text)
  BY <1>1, <1>3, TakeFacts DEF Text
<1>5. PICK t \in Seq(Fragment) : t = disk'
  BY <1>4
<1>6. Text' = t
  <2>1. Text' = disk' \o buffer'
    BY DEF Text
  <2>2. t \o <<>> = t
    BY <1>5, JoinFacts
  <2> QED BY <1>2, <1>5, <2>1, <2>2
<1>7. Ordered(t) /\ Cuts(t) \subseteq Cuts(Text) \cup {Len(t)}
  BY <1>3, <1>4, <1>5, StartText
<1>8. Cardinality(Cuts(t)) <= faults'
  <2>1. Cardinality(Cuts(t)) <= Cardinality(Cuts(Text)) + 1 /\ Cardinality(Cuts(t)) \in Nat
    BY <1>3, <1>7, CutsCount
  <2> QED BY <1>2, <1>3, <2>1
<1>9. \A e \in durable' \ exposed' : HasLine(disk', e)
  <2>1. \A e : HasLine(disk, e) => HasLine(t, e)
    <3>1. Begins(disk, disk \o SubSeq(buffer, 1, n))
      BY <1>3, TakeFacts
    <3> QED BY <1>1, <1>3, <1>5, <1>7, <3>1, StartText
  <2> QED BY <1>2, <1>5, <2>1 DEF IInv, Kept
<1>10. TypeOK' /\ Handles'
  <2>1. <<>> \in Seq(Fragment) /\ faults' \in 0..MaxFaults
    BY <1>2, <1>3, LogAssumption
  <2> QED BY <1>2, <1>4, <2>1 DEF IInv, TypeOK, Handles
<1> QED BY <1>2, <1>6, <1>7, <1>8, <1>9, <1>10, TextStep

\* What was buffered is gone, and with it the end of the text.
LEMMA CrashInv ==
  ASSUME IInv, Crash PROVE IInv'
<1>1. /\ closed' = TRUE /\ file' = "none" /\ buffer' = <<>> /\ accepted' = {}
      /\ faults < MaxFaults /\ faults' = faults + 1 /\ UNCHANGED <<disk, mode, durable, exposed, calls>>
  BY DEF Crash
<1>2. /\ disk \in Seq(Fragment) /\ buffer \in Seq(Fragment) /\ Text \in Seq(Fragment)
      /\ Ordered(Text) /\ Cardinality(Cuts(Text)) <= faults
      /\ Cardinality(Cuts(Text)) \in Nat /\ faults \in 0..MaxFaults
      /\ Len(buffer) \in Nat
  BY TextFacts
<1>3. Begins(disk, Text)
  <2>1. 0 \in 0..Len(buffer)
    BY <1>2
  <2> QED BY <1>2, <2>1, TakeFacts DEF Text
<1>4. Text' = disk
  <2>1. Text' = disk' \o buffer'
    BY DEF Text
  <2>2. disk \o <<>> = disk
    BY <1>2, JoinFacts
  <2> QED BY <1>1, <2>1, <2>2
<1>5. Ordered(disk) /\ Cuts(disk) \subseteq Cuts(Text) \cup {Len(disk)}
  BY <1>2, <1>3, StartText
<1>6. Cardinality(Cuts(disk)) <= faults'
  <2>1. Cardinality(Cuts(disk)) <= Cardinality(Cuts(Text)) + 1 /\ Cardinality(Cuts(disk)) \in Nat
    BY <1>2, <1>5, CutsCount
  <2> QED BY <1>1, <1>2, <2>1
<1>7. TypeOK' /\ Handles'
  <2>1. <<>> \in Seq(Fragment) /\ faults' \in 0..MaxFaults
    BY <1>1, <1>2, LogAssumption
  <2> QED BY <1>1, <2>1 DEF IInv, TypeOK, Handles
<1>8. \A e \in durable' \ exposed' : HasLine(disk', e)
  BY <1>1 DEF IInv, Kept
<1>9. PICK t \in Seq(Fragment) : t = disk
  BY <1>2
<1> QED BY <1>1, <1>4, <1>5, <1>6, <1>7, <1>8, <1>9, TextStep

\* A new exporter, and a step that changes nothing.
LEMMA SameTextInv ==
  ASSUME IInv, Construct \/ UNCHANGED vars PROVE IInv'
<1>1. UNCHANGED <<disk, buffer, accepted, durable, exposed, calls, faults>>
  BY DEF Construct, vars
<1>2. Text' = Text
  BY <1>1 DEF Text
<1>3. TypeOK' /\ Handles'
  <2>1. CASE Construct
    BY <1>1, <2>1 DEF IInv, TypeOK, Handles, Construct
  <2>2. CASE UNCHANGED vars
    BY <2>2 DEF IInv, TypeOK, Handles, vars
  <2> QED BY <2>1, <2>2
<1>4. Text \in Seq(Fragment) /\ Ordered(Text) /\ Cardinality(Cuts(Text)) <= faults'
  BY <1>1, TextFacts
<1>5. PICK t \in Seq(Fragment) : t = Text
  BY <1>4
<1> QED BY <1>1, <1>2, <1>3, <1>4, <1>5, TextStep DEF IInv, Kept

LEMMA InitInv == Init => IInv
<1> SUFFICES ASSUME Init PROVE IInv
  OBVIOUS
<1>1. /\ disk = <<>> /\ buffer = <<>> /\ accepted = {} /\ durable = {} /\ exposed = {}
      /\ calls = 0 /\ faults = 0 /\ mode \in Mode /\ file = "none" /\ closed = FALSE
  BY DEF Init
<1>2. Text = <<>> /\ <<>> \in Seq(Fragment)
  BY <1>1 DEF Text
<1>3. Ordered(<<>>) /\ Cuts(<<>>) = {}
  <2>1. Len(<<>>) = 0
    OBVIOUS
  <2> QED BY <2>1 DEF Ordered, Cuts
<1>4. Cardinality({}) = 0
  BY FS_EmptySet
<1>5. TypeOK /\ Handles
  <2>1. 0 \in 0..MaxCalls /\ 0 \in 0..MaxFaults
    BY LogAssumption
  <2>2. disk \in Seq(Fragment) /\ buffer \in Seq(Fragment)
    BY <1>1, <1>2
  <2>3. TypeOK
    BY <1>1, <2>1, <2>2 DEF TypeOK
  <2> QED BY <1>1, <2>3 DEF Handles
<1>6. Scarred /\ Kept
  <2>1. Ordered(Text) /\ Cuts(Text) = {}
    BY <1>2, <1>3
  <2>2. Cardinality(Cuts(Text)) <= faults
    BY <1>1, <1>4, <2>1
  <2>3. Scarred
    BY <2>1, <2>2 DEF Scarred
  <2> QED BY <1>1, <2>3 DEF Kept
<1> QED BY <1>5, <1>6 DEF IInv

LEMMA Invariance == Spec => []IInv
<1>1. IInv /\ [Next]_vars => IInv'
  <2> SUFFICES ASSUME IInv, [Next]_vars PROVE IInv'
    OBVIOUS
  <2>1. ASSUME NEW e \in Event, Export(e) PROVE IInv'
    <3>1. <<e>> \in Seq(Event)
      OBVIOUS
    <3> QED BY <2>1, <3>1, WriteAllInv DEF Export
  <2>2. ASSUME NEW es \in Batch, ExportBatch(es) \/ ExportFails(es) PROVE IInv'
    <3>1. es \in Seq(Event)
      BY BatchFacts
    <3> QED BY <2>2, <3>1, WriteAllInv, ExportFailsInv DEF ExportBatch
  <2>3. ASSUME NEW n \in 1..Len(buffer), Spill(n) PROVE IInv'
    BY <2>3, SpillInv
  <2>4. CASE Flush \/ Close
    BY <2>4, FlushCloseInv
  <2>5. CASE FlushFails \/ CloseFails
    BY <2>5, FlushFailsInv, CloseFailsInv
  <2>6. CASE Crash
    BY <2>6, CrashInv
  <2>7. CASE Construct \/ UNCHANGED vars
    BY <2>7, SameTextInv
  <2> QED BY <2>1, <2>2, <2>3, <2>4, <2>5, <2>6, <2>7 DEF Next
<1> QED BY <1>1, InitInv, PTL DEF Spec

\* The state, through every call, failing write and crash (jsonl.py:98-186),
\* has its type, and a handle that is closed or was never opened has nothing
\* in its buffer.
THEOREM TypeCorrect == Spec => []TypeOK
<1>1. IInv => TypeOK
  BY DEF IInv
<1> QED BY <1>1, Invariance, PTL

-----------------------------------------------------------------------------
(* What the readers make of a text with few cuts.                          *)

\* A set every member of which is given by a member of S is no larger than S.
LEMMA Mapped ==
  ASSUME NEW S, IsFiniteSet(S), NEW T, NEW g,
         \A t \in T : \E s \in S : g[s] = t
  PROVE  /\ Cardinality(T) <= Cardinality(S)
         /\ Cardinality(T) \in Nat /\ Cardinality(S) \in Nat
<1> DEFINE R == {s \in S : g[s] \in T}
           f == [s \in R |-> g[s]]
<1>1. IsFiniteSet(R) /\ Cardinality(R) <= Cardinality(S)
  BY FS_Subset
<1>2. f \in Surjection(R, T)
  BY DEF Surjection
<1> HIDE DEF R, f
<1>3. IsFiniteSet(T) /\ Cardinality(T) <= Cardinality(R)
  BY <1>1, <1>2, FS_Surjection
<1>4. Cardinality(T) \in Nat /\ Cardinality(R) \in Nat /\ Cardinality(S) \in Nat
  BY <1>1, <1>3, FS_CardinalityType
<1> QED BY <1>1, <1>3, <1>4

LEMMA DiskFacts ==
  ASSUME IInv
  PROVE  /\ Begins(disk, Text) /\ Ordered(disk)
         /\ Cuts(disk) \subseteq Cuts(Text) \cup {Len(disk)}
         /\ \A p \in 1..Len(disk) : disk[p] \in Fragment
<1>1. /\ disk \in Seq(Fragment) /\ buffer \in Seq(Fragment) /\ Text \in Seq(Fragment)
      /\ Ordered(Text) /\ Len(buffer) \in Nat
  BY TextFacts
<1>2. Begins(disk, Text)
  <2>1. 0 \in 0..Len(buffer)
    BY <1>1
  <2> QED BY <1>1, <2>1, TakeFacts DEF Text
<1>3. Ordered(disk) /\ Cuts(disk) \subseteq Cuts(Text) \cup {Len(disk)}
  BY <1>1, <1>2, StartText
<1>4. \A p \in 1..Len(disk) : disk[p] \in Fragment
  BY <1>1
<1> QED BY <1>2, <1>3, <1>4

\* A line that is on the disk and is not read is glued to a cut fragment.
LEMMA GluedLine ==
  ASSUME IInv, NEW e \in Event, NEW p, LineAt(disk, e, p), p \notin Whole
  PROVE  p - 1 \in Cuts(Text) /\ disk[(p - 1) + 1][1] = e
<1>1. /\ p \in 1..Len(disk) /\ p + 2 <= Len(disk) /\ Len(disk) \in Nat
      /\ disk[p] = <<e, 1>> /\ disk[p + 1] = <<e, 2>> /\ disk[p + 2] = Newline
  BY TextFacts DEF LineAt
<1>2. <<e, 1>> # Newline /\ <<e, 1>>[1] = e /\ <<e, 1>>[2] = 1
  BY FragmentFacts
<1>3. p > 1 /\ disk[p - 1] # Newline
  <2>1. p \in DOMAIN disk
    BY <1>1, TextFacts
  <2>2. ~WholeAt(p)
    BY <2>1 DEF Whole
  <2>3. disk[p + 1] = <<disk[p][1], 2>> /\ disk[p] # Newline /\ disk[p][2] = 1 /\ p + 1 <= Len(disk)
    BY <1>1, <1>2
  <2> QED BY <1>1, <2>2, <2>3 DEF WholeAt
<1>4. p - 1 \in 1..Len(disk) /\ (p - 1) + 1 = p
  BY <1>1, <1>3
<1>5. PICK d \in Event : disk[p - 1] = <<d, 1>> \/ disk[p - 1] = <<d, 2>>
  BY <1>3, <1>4, DiskFacts, FragmentFacts
<1>6. disk[p] # <<d, 2>> /\ disk[p] # Newline
  BY <1>1, <1>2, FragmentFacts
<1>7. /\ p - 1 \in 1..Len(Text) /\ Text[p - 1] = disk[p - 1] /\ Text[(p - 1) + 1] = disk[p]
  BY <1>1, <1>4, DiskFacts, TextFacts DEF Begins
<1>8. Cut(Text, p - 1)
  BY <1>5, <1>6, <1>7 DEF Cut
<1> QED BY <1>1, <1>2, <1>4, <1>7, <1>8 DEF Cuts

\* What was exported and flushed is read back, up to one event for each crash
\* or failing write, and but for what was in the buffer when another call's
\* write failed (jsonl.py:121-124, stream.py from_file): the invariant says
\* that only a fault cuts off a fragment of the text, and that the line of every
\* other durable event is in the file.
THEOREM LossIsBoundedHolds == Spec => []LossIsBounded
<1>1. IInv => LossIsBounded
  <2> SUFFICES ASSUME IInv, ~FromFile(TRUE).raised
               PROVE  Cardinality((durable \ exposed)
                                    \ {disk[i][1] : i \in FromFile(TRUE).lines}) <= faults
    BY DEF LossIsBounded
  <2>1. FromFile(TRUE).lines = Whole
    BY DEF FromFile
  <2> DEFINE lost == (durable \ exposed) \ {disk[i][1] : i \in Whole}
             g == [q \in Cuts(Text) |-> disk[q + 1][1]]
  <2>2. ASSUME NEW e \in lost PROVE \E q \in Cuts(Text) : g[q] = e
    <3>1. e \in Event /\ HasLine(disk, e)
      BY DEF IInv, TypeOK, Kept
    <3>2. PICK p \in Nat : LineAt(disk, e, p)
      BY <3>1 DEF HasLine
    <3>3. p \notin Whole
      <4>1. disk[p] = <<e, 1>> /\ <<e, 1>>[1] = e
        BY <3>2 DEF LineAt
      <4> QED BY <4>1
    <3>4. p - 1 \in Cuts(Text) /\ disk[(p - 1) + 1][1] = e
      BY <3>1, <3>2, <3>3, GluedLine
    <3> QED BY <3>4
  <2> HIDE DEF lost, g
  <2>3. IsFiniteSet(Cuts(Text)) /\ Cardinality(Cuts(Text)) <= faults /\ faults \in Nat
    BY TextFacts, CutsCount, LogAssumption
  <2>4. /\ Cardinality(lost) <= Cardinality(Cuts(Text))
        /\ Cardinality(lost) \in Nat /\ Cardinality(Cuts(Text)) \in Nat
    BY <2>2, <2>3, Mapped
  <2>5. (durable \ exposed) \ {disk[i][1] : i \in FromFile(TRUE).lines} = lost
    BY <2>1 DEF lost
  <2>6. Cardinality(lost) <= faults
    BY <2>3, <2>4
  <2> QED BY <2>5, <2>6
<1> QED BY <1>1, Invariance, PTL

\* A malformed line has a cut at its first fragment or at its second.
LEMMA MalformedIsCut ==
  ASSUME IInv, NEW i \in Malformed
  PROVE  i \in Nat /\ disk[i] # Newline /\ (i \in Cuts(disk) \/ i + 1 \in Cuts(disk))
<1>1. /\ i \in 1..Len(disk) /\ Len(disk) \in Nat /\ disk[i] # Newline
      /\ (i > 1 => disk[i - 1] = Newline) /\ ~WholeAt(i)
  BY TextFacts DEF Malformed
<1>2. PICK e \in Event : disk[i] = <<e, 1>> \/ disk[i] = <<e, 2>>
  BY <1>1, DiskFacts, FragmentFacts
<1>3. disk[i] = <<e, 1>>
  <2> SUFFICES ASSUME disk[i] = <<e, 2>> PROVE FALSE
    BY <1>2
  <2>1. i > 1 /\ disk[i - 1] = <<e, 1>>
    BY <1>1, DiskFacts DEF Ordered
  <2> QED BY <1>1, <2>1, FragmentFacts
<1>4. CASE ~(i < Len(disk) /\ disk[i + 1] = <<e, 2>>)
  <2>1. Cut(disk, i)
    BY <1>3, <1>4 DEF Cut
  <2> QED BY <1>1, <2>1 DEF Cuts
<1>5. CASE i < Len(disk) /\ disk[i + 1] = <<e, 2>>
  <2>1. disk[i][1] = e /\ disk[i][2] = 1 /\ i + 1 <= Len(disk) /\ (i + 1) + 1 = i + 2
    BY <1>1, <1>3, <1>5
  <2>2. i + 2 <= Len(disk) /\ disk[i + 2] # Newline
    BY <1>1, <1>5, <2>1 DEF WholeAt
  <2>3. Cut(disk, i + 1)
    BY <1>5, <2>1, <2>2 DEF Cut
  <2>4. i + 1 \in 1..Len(disk)
    BY <1>1, <1>5
  <2> QED BY <1>1, <2>3, <2>4 DEF Cuts
<1> QED BY <1>4, <1>5

\* No more than one line for each crash or failing write is malformed, and the
\* one that is being written (stream.py:115-150 skips no more of them).
THEOREM MalformedIsBoundedHolds == Spec => []MalformedIsBounded
<1>1. IInv => MalformedIsBounded
  <2> SUFFICES ASSUME IInv PROVE MalformedIsBounded
    OBVIOUS
  <2>1. /\ disk \in Seq(Fragment) /\ Text \in Seq(Fragment) /\ faults \in Nat
        /\ Cardinality(Cuts(Text)) <= faults /\ Cardinality(Cuts(Text)) \in Nat
    BY TextFacts, LogAssumption
  <2>2. Cardinality(Cuts(disk)) <= faults + (IF buffer = <<>> THEN 0 ELSE 1)
    <3>1. CASE buffer = <<>>
      <4>1. disk \o <<>> = disk
        BY <2>1, JoinFacts
      <4>2. Text = disk
        BY <3>1, <4>1 DEF Text
      <4> QED BY <2>1, <3>1, <4>2
    <3>2. CASE buffer # <<>>
      <4>1. Cuts(disk) \subseteq Cuts(Text) \cup {Len(disk)}
        BY DiskFacts
      <4>2. /\ Cardinality(Cuts(disk)) <= Cardinality(Cuts(Text)) + 1
            /\ Cardinality(Cuts(disk)) \in Nat
        BY <2>1, <4>1, CutsCount
      <4> QED BY <2>1, <3>2, <4>2
    <3> QED BY <3>1, <3>2
  <2> DEFINE g == [k \in Cuts(disk) |-> IF k \in Malformed THEN k ELSE k - 1]
  <2>3. ASSUME NEW i \in Malformed PROVE \E k \in Cuts(disk) : g[k] = i
    <3>1. i \in Nat /\ disk[i] # Newline /\ (i \in Cuts(disk) \/ i + 1 \in Cuts(disk))
      BY MalformedIsCut
    <3>2. i + 1 \notin Malformed
      <4> SUFFICES ASSUME i + 1 \in Malformed PROVE FALSE
        OBVIOUS
      <4>1. i + 1 > 1 => disk[(i + 1) - 1] = Newline
        BY DEF Malformed
      <4>2. i >= 1 /\ (i + 1) - 1 = i
        BY <3>1, TextFacts DEF Malformed
      <4> QED BY <3>1, <4>1, <4>2
    <3>3. CASE i \in Cuts(disk)
      BY <3>3
    <3>4. CASE i + 1 \in Cuts(disk)
      BY <3>1, <3>2, <3>4
    <3> QED BY <3>1, <3>3, <3>4
  <2> HIDE DEF g
  <2>4. IsFiniteSet(Cuts(disk))
    BY <2>1, CutsCount
  <2>5. /\ Cardinality(Malformed) <= Cardinality(Cuts(disk))
        /\ Cardinality(Malformed) \in Nat /\ Cardinality(Cuts(disk)) \in Nat
    BY <2>3, <2>4, Mapped
  <2> QED BY <2>1, <2>2, <2>5 DEF MalformedIsBounded
<1> QED BY <1>1, Invariance, PTL
=============================================================================
