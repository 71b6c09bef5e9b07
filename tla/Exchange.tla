------------------------------- MODULE Exchange -------------------------------
(***************************************************************************)
(* What a connection promises: two parties, each with the log of what it   *)
(* has said besides heartbeats.  An honest party opens with a handshake    *)
(* and then only answers, each frame once, in order and up to the first    *)
(* one it refuses.  A party that has left is silent for good.              *)
(***************************************************************************)
EXTENDS Protocol

CONSTANT Honest   \* the parties that follow the protocol

VARIABLES
  log,    \* what each party has said
  over    \* has it left?

Party == {"a", "b"}
Partner(p) == IF p = "a" THEN "b" ELSE "a"

Init ==
  /\ log = [p \in Party |-> <<>>]
  /\ over \in [Party -> BOOLEAN]

\* A party says a frame, leaves, or does both at once.
Turn(p) ==
  /\ ~over[p]
  /\ \E words \in {<<>>} \cup {<<f>> : f \in Frame} :
       /\ p \in Honest => Proper(log[p] \o words, log[Partner(p)])
       /\ log' = [log EXCEPT ![p] = @ \o words]
  /\ over' \in {over, [over EXCEPT ![p] = TRUE]}

Spec == Init /\ [][\E p \in Party : Turn(p)]_<<log, over>>
==============================================================================
