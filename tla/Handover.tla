------------------------------ MODULE Handover ------------------------------
(***************************************************************************)
(* What an instrumented application may expect of the events it makes: one *)
(* that was handed to a reader stays handed over, and one that was lost    *)
(* never turns up later.                                                   *)
(***************************************************************************)
EXTENDS Naturals

VARIABLES
  made,       \* how many events there are; they are 1 .. made
  delivered,  \* those in a stream that a call returned
  lost        \* those no call will ever return

vars == <<made, delivered, lost>>

Waiting == (1 .. made) \ (delivered \cup lost)

Init == made = 0 /\ delivered = {} /\ lost = {}

\* An event waits for a reader, or is never exported at all.
Make ==
  /\ made' = made + 1
  /\ lost' \in {lost, lost \cup {made + 1}}
  /\ UNCHANGED delivered

Deliver ==
  /\ \E S \in SUBSET Waiting : delivered' = delivered \cup S
  /\ UNCHANGED <<made, lost>>

Lose ==
  /\ \E S \in SUBSET Waiting : lost' = lost \cup S
  /\ UNCHANGED <<made, delivered>>

Next == Make \/ Deliver \/ Lose

Spec == Init /\ [][Next]_vars
=============================================================================
