---------------------------- MODULE MonotonicIds ----------------------------
(***************************************************************************)
(* What a monotonic identifier generator promises its callers: a call      *)
(* takes, at one moment between its invocation and its return, an          *)
(* identifier greater than every identifier taken before.  An identifier   *)
(* is a pair <<ms, rand>>, ordered like the string it is written as.       *)
(***************************************************************************)
EXTENDS Naturals

CONSTANTS Thread, Nil

VARIABLES
  last,   \* the greatest identifier taken so far
  call,   \* call[t]: "idle", "pending", or "taken" when t holds an identifier
  held    \* held[t]: the identifier t has taken, or Nil

vars == <<last, call, held>>

Pair == Nat \X Nat

Less(a, b) == a[1] < b[1] \/ (a[1] = b[1] /\ a[2] < b[2])

Init ==
  /\ last = <<0, 0>>
  /\ call = [t \in Thread |-> "idle"]
  /\ held = [t \in Thread |-> Nil]

Invoke(t) ==
  /\ call[t] = "idle"
  /\ call' = [call EXCEPT ![t] = "pending"]
  /\ UNCHANGED <<last, held>>

Take(t) ==
  /\ call[t] = "pending"
  /\ last' \in Pair /\ Less(last, last')
  /\ call' = [call EXCEPT ![t] = "taken"]
  /\ held' = [held EXCEPT ![t] = last']

\* The call returns its identifier, or raises with or without having taken one.
End(t) ==
  /\ call[t] # "idle"
  /\ call' = [call EXCEPT ![t] = "idle"]
  /\ held' = [held EXCEPT ![t] = Nil]
  /\ UNCHANGED last

Next == \E t \in Thread : Invoke(t) \/ Take(t) \/ End(t)

Spec == Init /\ [][Next]_vars
=============================================================================
