--------------------------- MODULE MCVerifyChain ---------------------------
(***************************************************************************)
(* An audit stream of four events: a key rotation, an event, the same event *)
(* again and another; and storage that may lose, repeat, reorder or damage  *)
(* its records.                                                            *)
(***************************************************************************)
EXTENDS VerifyChain, TLC

CONSTANTS r1, e1, e2, k1, k2, k3, p, q, datetime, garbled

MCId == {r1, e1, e2}

MCHonest == << Sign(r1, p, None, k1), Sign(e1, p, r1, k2),
               Sign(e1, p, e1, k2),   Sign(e2, p, e1, k2) >>

\* Damage that one record can come back with.
Altered  == [MCHonest[2] EXCEPT !.payload = q]
Relinked == [MCHonest[4] EXCEPT !.prev_id = r1]
Unsigned == [MCHonest[1] EXCEPT !.checksum = None, !.signature = None]
Foreign  == Sign(e1, q, r1, k3)
Live     == [MCHonest[2] EXCEPT !.payload = datetime]
Garbled  == [MCHonest[4] EXCEPT !.signature = garbled]

MCRecord == {MCHonest[n] : n \in 1..4}
              \cup {Altered, Relinked, Unsigned, Foreign, Live, Garbled}

MCKeyMap == {EmptyMap, [x \in {r1} |-> k2], [x \in {r1} |-> "blank"]}
=============================================================================
