--------------------------- MODULE ULIDGenerator ---------------------------
(***************************************************************************)
(* ulid._ULIDGenerator: the module-level generator that every Event of the *)
(* process draws its id from, called by several threads over a clock that  *)
(* may stand still or be set back.                                         *)
(*                                                                         *)
(* _next_ms_rand() runs under the lock; encoding the pair it returns runs  *)
(* after the lock is released.  An id is the pair <<ms, rand>>: it is      *)
(* written with fixed width, most significant digit first, so ids compare  *)
(* as strings the way the pairs compare.                                   *)
(***************************************************************************)
EXTENDS Naturals, FiniteSets

CONSTANTS
  Thread,
  Nil,          \* nobody holds the lock, no pair yet
  MaxRand,       \* _rand_max, 2^80 - 1 in the code
  MaxTimestamp,  \* _MAX_TIMESTAMP, 2^48 - 1 in the code
  MaxClock,      \* bound: the clock moves on by itself up to here
  MaxSetbacks,   \* bound: how often the clock is set back
  MaxCalls       \* bound: calls made in all

ASSUME GeneratorAssumption ==
  /\ Nil \notin Thread
  /\ MaxRand \in Nat /\ MaxTimestamp \in Nat
  /\ MaxClock \in Nat \ {0} /\ MaxSetbacks \in Nat /\ MaxCalls \in Nat

VARIABLES
  clock,      \* what _now_ms() returns; positive: 1970 is past
  setbacks,   \* times the clock was set back
  lock,       \* _lock: its holder or Nil
  last_ms,    \* _last_ms
  last_rand,  \* _last_rand
  pc,         \* pc[t]: where t is in generate()
  pair,       \* pair[t]: what _next_ms_rand() returned to t
  calls,      \* calls made so far
  returned,   \* history: the ids handed out
  before      \* history: before[t] is what had been returned when t called

state  == <<last_ms, last_rand>>
env    == <<clock, setbacks>>
vars   == <<clock, setbacks, lock, last_ms, last_rand, pc, pair, calls,
            returned, before>>

Rand == 0..MaxRand
Pair == Nat \X Nat
Less(a, b) == a[1] < b[1] \/ (a[1] = b[1] /\ a[2] < b[2])

Init ==
  /\ clock = 1
  /\ setbacks = 0
  /\ lock = Nil
  /\ last_ms = 0
  /\ last_rand = 0
  /\ pc = [t \in Thread |-> "idle"]
  /\ pair = [t \in Thread |-> Nil]
  /\ calls = 0
  /\ returned = {}
  /\ before = [t \in Thread |-> {}]

-----------------------------------------------------------------------------
(* The wall clock. *)

\* The clock moves on: by itself up to MaxClock, and past that only as far as
\* a thread that waits for the next millisecond needs.
Tick ==
  /\ clock < MaxClock \/ (clock <= last_ms /\ \E t \in Thread : pc[t] = "spin")
  /\ clock' = clock + 1
  /\ UNCHANGED <<setbacks, lock, state, pc, pair, calls, returned, before>>

\* The clock is set back (time.time() is not monotonic).
SetBack ==
  /\ setbacks < MaxSetbacks
  /\ clock' \in 1..(clock - 1)
  /\ setbacks' = setbacks + 1
  /\ UNCHANGED <<lock, state, pc, pair, calls, returned, before>>

-----------------------------------------------------------------------------
(* generate(), step by step. *)

Goto(t, place) == pc' = [pc EXCEPT ![t] = place]

Call(t) ==
  /\ pc[t] = "idle" /\ calls < MaxCalls
  /\ calls' = calls + 1
  /\ Goto(t, "wait")
  /\ before' = [before EXCEPT ![t] = returned]
  /\ UNCHANGED <<env, lock, state, pair, returned>>

Acquire(t) ==
  /\ pc[t] = "wait" /\ lock = Nil
  /\ lock' = t
  /\ Goto(t, "locked")
  /\ UNCHANGED <<env, state, pair, calls, returned, before>>

\* _next_ms_rand() returns <<ms, rand>>, having stored them, and the with
\* block releases the lock.
Commit(t, ms, rand) ==
  /\ last_ms' = ms
  /\ last_rand' = rand
  /\ pair' = [pair EXCEPT ![t] = <<ms, rand>>]
  /\ lock' = Nil
  /\ Goto(t, "encode")
  /\ UNCHANGED <<env, calls, returned, before>>

\* Mutant of NewMillisecond: the same millisecond counts as a new one.
NewMillisecondAgain(t) ==
  /\ pc[t] = "locked" /\ clock >= last_ms
  /\ \E rand \in Rand : Commit(t, clock, rand)

NewMillisecond(t) ==
  /\ pc[t] = "locked" /\ clock > last_ms
  /\ \E rand \in Rand : Commit(t, clock, rand)

\* Mutant of SameMillisecond: the random part is not incremented.
SameMillisecondStuck(t) ==
  /\ pc[t] = "locked" /\ clock = last_ms
  /\ last_rand + 1 <= MaxRand
  /\ Commit(t, clock, last_rand)

\* Mutant of SameMillisecond: the overflow check is off by one.
SameMillisecondOverflows(t) ==
  /\ pc[t] = "locked" /\ clock = last_ms
  /\ last_rand <= MaxRand
  /\ Commit(t, clock, last_rand + 1)

SameMillisecond(t) ==
  /\ pc[t] = "locked" /\ clock = last_ms
  /\ last_rand + 1 <= MaxRand
  /\ Commit(t, clock, last_rand + 1)

\* The random part is used up: wait for the clock, holding the lock.
Overflow(t) ==
  /\ pc[t] = "locked" /\ clock = last_ms
  /\ last_rand + 1 > MaxRand
  /\ Goto(t, "spin")
  /\ UNCHANGED <<env, lock, state, pair, calls, returned, before>>

SpinEnds(t) ==
  /\ pc[t] = "spin" /\ clock > last_ms
  /\ \E rand \in Rand : Commit(t, clock, rand)

\* Mutant of ClockBehind: the clock is trusted after it was set back.
ClockBehindTrusted(t) ==
  /\ pc[t] = "locked" /\ clock < last_ms
  /\ last_rand + 1 <= MaxRand
  /\ Commit(t, clock, last_rand + 1)

ClockBehind(t) ==
  /\ pc[t] = "locked" /\ clock < last_ms
  /\ last_rand + 1 <= MaxRand
  /\ Commit(t, last_ms, last_rand + 1)

\* Mutant of ClockBehindRaises: the error leaves the lock held.
ClockBehindRaisesLocked(t) ==
  /\ pc[t] = "locked" /\ clock < last_ms
  /\ last_rand + 1 > MaxRand
  /\ Goto(t, "idle")
  /\ UNCHANGED <<env, lock, state, pair, calls, returned, before>>

\* ULIDError, with the state as it was.
ClockBehindRaises(t) ==
  /\ pc[t] = "locked" /\ clock < last_ms
  /\ last_rand + 1 > MaxRand
  /\ lock' = Nil
  /\ Goto(t, "idle")
  /\ UNCHANGED <<env, state, pair, calls, returned, before>>

\* _encode_ulid(), after the lock was released.
Encode(t) ==
  /\ pc[t] = "encode" /\ pair[t][1] <= MaxTimestamp
  /\ returned' = returned \cup {pair[t]}
  /\ pair' = [pair EXCEPT ![t] = Nil]
  /\ Goto(t, "idle")
  /\ UNCHANGED <<env, lock, state, calls, before>>

\* ULIDError after the pair was stored: the state stays past MaxTimestamp.
EncodeRaises(t) ==
  /\ pc[t] = "encode" /\ pair[t][1] > MaxTimestamp
  /\ pair' = [pair EXCEPT ![t] = Nil]
  /\ Goto(t, "idle")
  /\ UNCHANGED <<env, lock, state, calls, returned, before>>

Run(t) ==
  \/ Acquire(t)
  \/ NewMillisecond(t) \/ SameMillisecond(t) \/ ClockBehind(t)
  \/ Overflow(t) \/ SpinEnds(t)
  \/ ClockBehindRaises(t)
  \/ Encode(t) \/ EncodeRaises(t)

Next == Tick \/ SetBack \/ \E t \in Thread : Call(t) \/ Run(t)

\* A thread that is in generate() is scheduled, and the clock moves on.
Fairness == WF_vars(Tick) /\ \A t \in Thread : WF_vars(Run(t))

Spec == Init /\ [][Next]_vars /\ Fairness

-----------------------------------------------------------------------------
Places == {"idle", "wait", "locked", "spin", "encode"}

TypeOK ==
  /\ clock \in Nat /\ setbacks \in Nat /\ calls \in Nat
  /\ lock \in Thread \cup {Nil}
  /\ last_ms \in Nat /\ last_rand \in Rand
  /\ pc \in [Thread -> Places]
  /\ pair \in [Thread -> Pair \cup {Nil}]
  /\ returned \subseteq Pair
  /\ before \in [Thread -> SUBSET Pair]
  /\ \A t \in Thread : pc[t] = "encode" => pair[t] \in Pair

\* No two calls get the same id, whatever the clock does between them, even
\* when one is stopped between the lock and the encoding (ulid.py:102-103).
IdsUnique ==
  \A t \in Thread : pc[t] = "encode" =>
    /\ pair[t] \notin returned
    /\ \A u \in Thread \ {t} : pc[u] = "encode" => pair[u] # pair[t]

\* An id is greater than every id that had been returned, to any thread, when
\* its call began: ids sort by creation (ulid.py:221-222), across threads,
\* overflow of the random part and a clock that was set back.
RealTimeOrder ==
  \A t \in Thread : pc[t] = "encode" =>
    \A id \in before[t] : Less(id, pair[t])

\* Every call ends, with an id or an error: a thread that spins with the lock
\* held lets the others wait, not starve (ulid.py:123-128).
EveryCallEnds == \A t \in Thread : pc[t] # "idle" ~> pc[t] = "idle"

\* The generator implements MonotonicIds: a call takes its id when it commits
\* the pair under the lock, not when it encodes it.
Ids == INSTANCE MonotonicIds WITH
         last <- <<last_ms, last_rand>>,
         call <- [t \in Thread |->
                    CASE pc[t] = "idle"   -> "idle"
                      [] pc[t] = "encode" -> "taken"
                      [] OTHER            -> "pending"],
         held <- pair

ImplementsMonotonicIds == Ids!Spec
=============================================================================
