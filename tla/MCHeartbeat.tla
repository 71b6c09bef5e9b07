----------------------------- MODULE MCHeartbeat -----------------------------
(***************************************************************************)
(* Module HeartbeatTimer for TLC: one seed and one inbound slot.           *)
(***************************************************************************)
EXTENDS HeartbeatTimer

CONSTANTS s1, i1, a, b

OneSeedAddr == [c \in {s1} |-> a]
==============================================================================
