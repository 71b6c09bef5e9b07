------------------------------- MODULE Protocol -------------------------------
(***************************************************************************)
(* The messages peers exchange, their bytes and the answer to each         *)
(* (node/protocol/src).  A string field is one of the values the code      *)
(* compares it with or one that stands for all the others.                 *)
(***************************************************************************)
EXTENDS SequencesExt

\* enum Message.  The sender and the time of a heartbeat are never read.
Message ==
  [type : {"Handshake"}, message : {"helo", "oleh", "other"},
   version : {"0.1.0", "other"}]
  \cup [type : {"Ping"}, message : {"ping", "pong", "other"}]
  \cup [type : {"Heartbeat"}]

\* What goes over the wire: the flexbuffers encoding of a message, or bytes
\* that no message encodes to.
Frame == [bytes : Message] \cup [bytes : [type : {"garbage"}]]

\* Message::as_bytes: serializing never fails.
as_bytes(m) == [bytes |-> m]

\* Message::from_bytes: the set of messages the bytes encode, empty when
\* deserializing fails.
from_bytes(b) == {m \in Message : as_bytes(m) = b}

\* HandshakeMessage::start and HeartbeatMessage::start
HandshakeStart == [type |-> "Handshake", message |-> "helo", version |-> "0.1.0"]
HeartbeatStart == [type |-> "Heartbeat"]

\* Mutant of HandshakeResponse: only the first message of a handshake is valid.
HandshakeResponseStrict(m) ==
  IF m.version = "0.1.0" /\ m.message = "helo"
  THEN [ok |-> TRUE, option |-> <<[m EXCEPT !.message = "oleh"]>>]
  ELSE [ok |-> FALSE, option |-> <<>>]

\* Mutant of HandshakeResponse: no message of a handshake is answered.
HandshakeResponseSilent(m) ==
  [ok |-> m.version = "0.1.0" /\ m.message \in {"helo", "oleh"}, option |-> <<>>]

\* HandshakeMessage::response_for_received: a message with another text or
\* another version is an error.  A response is a Result whose Option is a
\* sequence of at most one message.
HandshakeResponse(m) ==
  CASE m.version = "0.1.0" /\ m.message = "helo" ->
         [ok |-> TRUE, option |-> <<[m EXCEPT !.message = "oleh"]>>]
    [] m.version = "0.1.0" /\ m.message = "oleh" -> [ok |-> TRUE, option |-> <<>>]
    [] OTHER -> [ok |-> FALSE, option |-> <<>>]

\* PingMessage::response_for_received: any text but "ping" goes unanswered.
PingResponse(m) ==
  [ok     |-> TRUE,
   option |-> IF m.message = "ping" THEN <<[m EXCEPT !.message = "pong"]>> ELSE <<>>]

\* HeartbeatMessage::response_for_received
HeartbeatResponse(m) == [ok |-> TRUE, option |-> <<>>]

\* Message::response_for_received
response_for_received(m) ==
  CASE m.type = "Handshake" -> HandshakeResponse(m)
    [] m.type = "Ping"      -> PingResponse(m)
    [] m.type = "Heartbeat" -> HeartbeatResponse(m)

\* The error paths of handle_received: the bytes do not parse, or the message
\* has no valid answer.
Refused(b) == \A m \in from_bytes(b) : ~response_for_received(m).ok

\* The frames, none or one, that handle_received sends for bytes it accepts.
Answer(b) ==
  LET m == CHOOSE x \in from_bytes(b) : TRUE
      option == response_for_received(m).option
  IN  [i \in DOMAIN option |-> as_bytes(option[i])]

\* The properties look at all that has been said on a connection, which the
\* code never sees.

\* The frames among those heard that call for an answer: none from the first
\* refused one on.
Questions(heard) ==
  {j \in DOMAIN heard : (\A i \in 1..j : ~Refused(heard[i])) /\ Answer(heard[j]) # <<>>}

\* How many of them are among the first n frames.
Asked(heard, n) == Cardinality({j \in Questions(heard) : j <= n})

\* The log of a peer that has heard some frames is a handshake and then answers
\* to the first of the questions, one each and in their order.
Proper(log, heard) ==
  \A n \in DOMAIN log :
    \/ n = 1 /\ log[n] = as_bytes(HandshakeStart)
    \/ \E j \in Questions(heard) :
         Asked(heard, j) = n - 1 /\ Answer(heard[j]) = <<log[n]>>
==============================================================================
