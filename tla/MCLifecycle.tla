---------------------------- MODULE MCLifecycle -----------------------------
(* The instance of Lifecycle that TLC checks: objects that are typical but *)
(* for one field, where every value is tried.                              *)
EXTENDS Lifecycle

MCNumeral == <<"1", "2", "3">>

Preferred(takes) ==
  IF "'a'" \in takes THEN "'a'" ELSE IF "1" \in takes THEN "1"
  ELSE IF "['a']" \in takes THEN "['a']" ELSE IF "{'a':1}" \in takes THEN "{'a':1}"
  ELSE IF "obj" \in takes THEN "obj" ELSE IF "[obj]" \in takes THEN "[obj]" ELSE "True"

Typical(c) ==
  [f \in Fields(c) |-> IF f = "total_tokens" THEN "2"
                       ELSE IF f \in {"to_environment", "to_version"} THEN "'b'"
                       ELSE Preferred(Classes[c][f].takes)]

MCVaried == {[class |-> c, object |-> Typical(c)] : c \in Class}

MCTried ==
  MCVaried \cup UNION {{[class |-> c, object |-> [Typical(c) EXCEPT ![f] = v]] :
                          f \in Fields(c), v \in Values} : c \in Class}
=============================================================================
