-------------------------------- MODULE MCNode --------------------------------
(***************************************************************************)
(* Module Node for TLC: the addresses the seeds resolve to.                *)
(***************************************************************************)
EXTENDS Node, TLC

CONSTANTS s1, s2, i1, i2, i3, a, b, d

\* Two seeds that resolve to one address.
SameSeedAddr == [c \in {s1, s2} |-> a]

\* One seed.
OneSeedAddr == [c \in {s1} |-> a]

\* No seed at all, the default configuration.
NoSeedAddr == [c \in {} |-> a]

\* Inbound slots are interchangeable.
InboundSymmetry == Permutations(Inbound)
==============================================================================
