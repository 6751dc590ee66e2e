------------------------------- MODULE Courier -------------------------------
(***************************************************************************)
(* What an exporter promises the code that awaits it, whatever the network *)
(* does.  A call owes some parts.  A part arrives at most `tries` times,   *)
(* perhaps after the call has ended; a call that ends without an error has *)
(* seen every part arrive.  An error promises nothing about what arrived.  *)
(***************************************************************************)
EXTENDS Naturals

CONSTANTS Call, Part, MaxTries

VARIABLES
  tries,   \* how often the exporter sends a part
  status,  \* status[n]: "idle", "pending", "delivered" or "failed"
  owed,    \* owed[n]: the parts of call n
  copies   \* copies[n][p]: how often part p of call n has arrived

vars == <<tries, status, owed, copies>>

Init ==
  /\ tries \in 1 .. MaxTries
  /\ status = [n \in Call |-> "idle"]
  /\ owed = [n \in Call |-> {}]
  /\ copies = [n \in Call |-> [p \in Part |-> 0]]

\* A call that owes nothing is over at once.
Take(n, parts) ==
  /\ status[n] = "idle"
  /\ status' = [status EXCEPT ![n] = IF parts = {} THEN "delivered" ELSE "pending"]
  /\ owed' = [owed EXCEPT ![n] = parts]
  /\ UNCHANGED <<tries, copies>>

Arrive(n, p) ==
  /\ p \in owed[n]
  /\ copies[n][p] < tries
  /\ copies' = [copies EXCEPT ![n][p] = @ + 1]
  /\ UNCHANGED <<tries, status, owed>>

Deliver(n) ==
  /\ status[n] = "pending"
  /\ \A p \in owed[n] : copies[n][p] > 0
  /\ status' = [status EXCEPT ![n] = "delivered"]
  /\ UNCHANGED <<tries, owed, copies>>

Fail(n) ==
  /\ status[n] = "pending"
  /\ status' = [status EXCEPT ![n] = "failed"]
  /\ UNCHANGED <<tries, owed, copies>>

Next ==
  \E n \in Call :
    \/ \E parts \in SUBSET Part : Take(n, parts)
    \/ \E p \in Part : Arrive(n, p)
    \/ Deliver(n)
    \/ Fail(n)

Spec == Init /\ [][Next]_vars
=============================================================================
