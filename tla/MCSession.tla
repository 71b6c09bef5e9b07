------------------------------- MODULE MCSession -------------------------------
(***************************************************************************)
(* Module Session for TLC: the frames of a peer that does not run the code *)
(***************************************************************************)
EXTENDS Session

\* One frame of each kind: messages that are answered, that are accepted
\* without an answer, a handshake of another version and bytes that do not
\* parse.
SomeFrames ==
  {Helo, Heartbeat, as_bytes([type |-> "Ping", message |-> "ping"]),
   as_bytes([HandshakeStart EXCEPT !.version = "other"]), [bytes |-> [type |-> "garbage"]]}
==============================================================================
