--------------------------- MODULE AdmissionControl ---------------------------
(***************************************************************************)
(* The promise of the connection table to the rest of the node: a set of   *)
(* members that never exceeds a limit.  A member joins only while there is *)
(* room and stays a member until it leaves of its own accord.              *)
(***************************************************************************)
EXTENDS Integers, FiniteSets

CONSTANTS
  Member,   \* whoever may join
  Limit     \* the largest number of members

VARIABLE members

Join(m) ==
  /\ m \notin members
  /\ Cardinality(members) < Limit
  /\ members' = members \cup {m}

Leave(m) ==
  /\ m \in members
  /\ members' = members \ {m}

Init == members = {}

Next == \E m \in Member : Join(m) \/ Leave(m)

Spec == Init /\ [][Next]_members
==============================================================================
