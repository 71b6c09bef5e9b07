----------------------------- MODULE SessionProofs -----------------------------
(***************************************************************************)
(* Theorems about module Session, for buffers of every size and every set  *)
(* of frames that a peer which does not run the code may send.             *)
(***************************************************************************)
EXTENDS Session, FiniteSetTheorems, SequenceTheorems, TLAPS

\* The answer to a handshake.
Oleh == as_bytes([HandshakeStart EXCEPT !.message = "oleh"])

------------------------------------------------------------------------------
\* The messages (node/protocol/src).

\* Bytes that a message encodes to decode to that message, and no others do.
LEMMA Decoding ==
  /\ \A m \in Message : from_bytes(as_bytes(m)) = {m}
  /\ \A f \in Frame : Refused(f) \/ \E m \in Message : f = as_bytes(m)
<1>1. \A m \in Message : from_bytes(as_bytes(m)) = {m}
  BY DEF from_bytes, as_bytes
<1>2. ASSUME NEW f \in Frame, ~Refused(f)
      PROVE  \E m \in Message : f = as_bytes(m)
  BY <1>2 DEF Refused, from_bytes
<1> QED BY <1>1, <1>2

\* The answer to the bytes of a message is the bytes of its response.
LEMMA Encoded ==
  ASSUME NEW m \in Message
  PROVE  /\ as_bytes(m) \in Frame
         /\ Refused(as_bytes(m)) <=> ~response_for_received(m).ok
         /\ Answer(as_bytes(m)) =
              [i \in DOMAIN response_for_received(m).option |->
                 as_bytes(response_for_received(m).option[i])]
<1>1. from_bytes(as_bytes(m)) = {m}
  BY Decoding
<1>2. as_bytes(m) \in Frame
  BY DEF Frame, as_bytes
<1>3. (CHOOSE x \in from_bytes(as_bytes(m)) : TRUE) = m
  BY <1>1
<1> QED BY <1>1, <1>2, <1>3 DEF Refused, Answer

\* A message is answered with at most one frame, which is no heartbeat
\* (response_for_received).
LEMMA AnswerType ==
  ASSUME NEW f \in Frame, ~Refused(f)
  PROVE  Answer(f) \in Slot /\ Answer(f) # <<Heartbeat>>
<1>1. PICK m \in Message : f = as_bytes(m)
  BY Decoding
<1> DEFINE r == response_for_received(m).option
<1>2. r = <<>> \/ \E g \in Message : r = <<g>> /\ g.type # "Heartbeat"
  <2>1. CASE m.type = "Handshake"
    <3>1. m \in [type : {"Handshake"}, message : {"helo", "oleh", "other"},
                 version : {"0.1.0", "other"}]
      BY <2>1 DEF Message
    <3>2. [m EXCEPT !.message = "oleh"] \in Message
          /\ [m EXCEPT !.message = "oleh"].type = "Handshake"
      BY <3>1 DEF Message
    <3> QED BY <2>1, <3>2 DEF response_for_received, HandshakeResponse
  <2>2. CASE m.type = "Ping"
    <3>1. m \in [type : {"Ping"}, message : {"ping", "pong", "other"}]
      BY <2>2 DEF Message
    <3>2. [m EXCEPT !.message = "pong"] \in Message
          /\ [m EXCEPT !.message = "pong"].type = "Ping"
      BY <3>1 DEF Message
    <3> QED BY <2>2, <3>2 DEF response_for_received, PingResponse
  <2>3. CASE m.type = "Heartbeat"
    BY <2>3 DEF response_for_received, HeartbeatResponse
  <2> QED BY <2>1, <2>2, <2>3 DEF Message
<1>3. Answer(f) = [i \in DOMAIN r |-> as_bytes(r[i])]
  BY <1>1, Encoded
<1>4. CASE r = <<>>
  <2>1. Answer(f) = <<>>
    BY <1>3, <1>4
  <2> QED BY <2>1 DEF Slot
<1>5. CASE r # <<>>
  <2>1. PICK g \in Message : r = <<g>> /\ g.type # "Heartbeat"
    BY <1>2, <1>5
  <2>2. Answer(f) = <<as_bytes(g)>>
    BY <1>3, <2>1
  <2>3. as_bytes(g) \in Frame
    BY Encoded
  <2>4. as_bytes(g) # Heartbeat
    BY <2>1 DEF as_bytes, Heartbeat, HeartbeatStart
  <2> QED BY <2>2, <2>3, <2>4 DEF Slot
<1> QED BY <1>4, <1>5

\* What the three messages of two nodes are answered with.
LEMMA NodeMessages ==
  /\ Helo \in Frame /\ Oleh \in Frame /\ Heartbeat \in Frame
  /\ Helo # Heartbeat /\ Oleh # Heartbeat /\ Helo # Oleh
  /\ ~Refused(Helo) /\ ~Refused(Oleh) /\ ~Refused(Heartbeat)
  /\ Answer(Helo) = <<Oleh>> /\ Answer(Oleh) = <<>> /\ Answer(Heartbeat) = <<>>
<1> DEFINE oleh == [HandshakeStart EXCEPT !.message = "oleh"]
<1>1. /\ HandshakeStart \in Message /\ oleh \in Message /\ HeartbeatStart \in Message
  BY DEF HandshakeStart, HeartbeatStart, Message
<1>2. /\ response_for_received(HandshakeStart) = [ok |-> TRUE, option |-> <<oleh>>]
      /\ response_for_received(oleh) = [ok |-> TRUE, option |-> <<>>]
  BY DEF HandshakeStart, response_for_received, HandshakeResponse
<1>3. response_for_received(HeartbeatStart) = [ok |-> TRUE, option |-> <<>>]
  BY DEF HeartbeatStart, response_for_received, HeartbeatResponse
<1>4. Helo # Heartbeat /\ Oleh # Heartbeat /\ Helo # Oleh
  BY DEF Helo, Oleh, Heartbeat, as_bytes, HandshakeStart, HeartbeatStart
<1>5. Answer(Helo) = <<Oleh>>
  BY <1>1, <1>2, Encoded DEF Helo, Oleh
<1> QED BY <1>1, <1>2, <1>3, <1>4, <1>5, Encoded DEF Helo, Oleh, Heartbeat

------------------------------------------------------------------------------
\* Types.

\* There are two ends.
LEMMA Ends == \A e \in End : Other(e) \in End /\ Other(e) # e /\ Other(Other(e)) = e
BY DEF End, Other

\* A slot is a sequence of at most one frame.
LEMMA SlotFacts ==
  ASSUME NEW w \in Slot
  PROVE  /\ w \in Seq(Frame)
         /\ w # <<>> => Len(w) = 1
<1>1. CASE w = <<>>
  BY <1>1
<1>2. ASSUME NEW f \in Frame, w = <<f>>
      PROVE  w \in Seq(Frame) /\ Len(w) = 1
  BY <1>2
<1> QED BY <1>1, <1>2 DEF Slot

\* Putting a slot that there is room for into the socket.
LEMMA PutFacts ==
  ASSUME TypeOK, NEW e \in End, NEW w \in Slot, Put(e, w), w = <<>> \/ Writable(e)
  PROVE  /\ net' \in [End -> Seq(Frame)]
         /\ \A d \in End : Len(net'[d]) <= SocketCapacity
         /\ said' \in [End -> Seq(Frame)]
<1> DEFINE o == Other(e)
<1>1. o \in End
  BY Ends
<1>2. w \in Seq(Frame)
  BY SlotFacts
<1>3. net[o] \o w \in Seq(Frame) /\ said[e] \o w \in Seq(Frame)
  BY <1>1, <1>2 DEF TypeOK
<1>4. said' \in [End -> Seq(Frame)]
  BY <1>3 DEF Put, TypeOK
<1>5. net' \in [End -> Seq(Frame)]
  BY <1>1, <1>3 DEF Put, TypeOK
<1>6. phase[o] # "closed" => Len(net[o] \o w) <= SocketCapacity
  <2>1. CASE w = <<>>
    BY <2>1, <1>1 DEF TypeOK
  <2>2. CASE w # <<>>
    <3>1. Len(w) = 1 /\ Len(net[o] \o w) = Len(net[o]) + Len(w)
      BY <2>2, <1>1, <1>2, SlotFacts DEF TypeOK
    <3> QED BY <2>2, <3>1, <1>1, SessionAssumption DEF TypeOK, Writable
  <2> QED BY <2>1, <2>2
<1>7. \A d \in End : Len(net'[d]) <= SocketCapacity
  BY <1>1, <1>6 DEF Put, TypeOK
<1> QED BY <1>4, <1>5, <1>7

\* The end of the select (start).
LEMMA StopType ==
  ASSUME TypeOK, NEW e \in End,
         \E why \in {"peer_closed", "flood", "bad_message", "send_failed"} : Stop(e, why),
         UNCHANGED <<broken, writing, beats, said>>,
         net' \in [End -> Seq(Frame)],
         \A d \in End : Len(net'[d]) <= SocketCapacity
  PROVE  TypeOK'
<1> USE SessionAssumption DEF TypeOK, Stop
<1>1. <<>> \in Seq(Frame) /\ Len(<<>>) = 0
  OBVIOUS
<1>2. /\ channel' \in [End -> Seq(Frame)]
      /\ \A d \in End : Len(channel'[d]) <= MaxPending
  BY <1>1
<1>3. phase' \in [End -> {"greeting", "serving", "closing", "closed"}]
  OBVIOUS
<1>4. backlog' \in [End -> 0..(MaxSendToAll + 1)] /\ muted' \in [End -> BOOLEAN]
  OBVIOUS
<1>5. cause' \in [End -> {"none", "peer_closed", "flood", "bad_message", "send_failed"}]
  OBVIOUS
<1> QED BY <1>2, <1>3, <1>4, <1>5

\* A frame that is read (start_read_loop).
LEMMA HeadTail ==
  ASSUME NEW s \in Seq(Frame), s # <<>>
  PROVE  /\ Head(s) \in Frame /\ Tail(s) \in Seq(Frame)
         /\ Len(s) \in Nat \ {0} /\ Len(Tail(s)) = Len(s) - 1
OBVIOUS

\* A step of the code of an end keeps the types.
LEMMA CodeType ==
  ASSUME TypeOK, NEW e \in End, CodeStep(e)
  PROVE  TypeOK'
<1> USE SessionAssumption
<1>1. CASE Greet(e)
  <2>1. <<Helo>> \in Slot
    BY NodeMessages DEF Slot
  <2>2. /\ net' \in [End -> Seq(Frame)]
        /\ \A d \in End : Len(net'[d]) <= SocketCapacity
        /\ said' \in [End -> Seq(Frame)]
    <3>1. CASE Writable(e) /\ Put(e, <<Helo>>)
      BY <2>1, <3>1, PutFacts
    <3>2. CASE UNCHANGED <<net, said>>
      BY <3>2 DEF TypeOK
    <3> QED BY <1>1, <3>1, <3>2 DEF Greet
  <2> QED BY <1>1, <2>2 DEF Greet, TypeOK
<1>2. CASE ReadFrame(e)
  <2>1. /\ Head(net[e]) \in Frame /\ Tail(net[e]) \in Seq(Frame)
        /\ Len(Tail(net[e])) <= SocketCapacity
    BY <1>2, HeadTail DEF ReadFrame, TypeOK
  <2>2. /\ Append(channel[e], Head(net[e])) \in Seq(Frame)
        /\ Len(Append(channel[e], Head(net[e]))) <= MaxPending
    BY <1>2, <2>1 DEF ReadFrame, Full, TypeOK
  <2> QED BY <1>2, <2>1, <2>2 DEF ReadFrame, TypeOK
<1>3. CASE ReadFlood(e)
  <2>1. /\ Tail(net[e]) \in Seq(Frame)
        /\ Len(Tail(net[e])) <= SocketCapacity
    BY <1>3, HeadTail DEF ReadFlood, TypeOK
  <2>2. /\ net' \in [End -> Seq(Frame)]
        /\ \A d \in End : Len(net'[d]) <= SocketCapacity
    BY <1>3, <2>1 DEF ReadFlood, TypeOK
  <2> QED BY <1>3, <2>2, StopType DEF ReadFlood
<1>4. CASE ReadEnd(e)
  BY <1>4, StopType DEF ReadEnd, TypeOK
<1>5. CASE HandleMessage(e)
  <2>1. /\ Head(channel[e]) \in Frame /\ Tail(channel[e]) \in Seq(Frame)
        /\ Len(Tail(channel[e])) <= MaxPending
    BY <1>5, HeadTail DEF HandleMessage, TypeOK
  <2>2. Answer(Head(channel[e])) \in Slot
    BY <1>5, <2>1, AnswerType DEF HandleMessage
  <2>3. Caught(backlog[e]) \in 0..(MaxSendToAll + 1)
    BY DEF Caught, TypeOK
  <2> QED BY <1>5, <2>1, <2>2, <2>3 DEF HandleMessage, TypeOK
<1>6. CASE RefuseMessage(e)
  BY <1>6, StopType DEF RefuseMessage, TypeOK
<1>7. CASE Forward(e)
  <2>1. <<Heartbeat>> \in Slot
    BY NodeMessages DEF Slot
  <2>2. backlog' \in [End -> 0..(MaxSendToAll + 1)]
    BY <1>7 DEF Forward, TypeOK
  <2>3. writing' \in [End -> Slot]
    BY <1>7, <2>1 DEF Forward, TypeOK
  <2> QED BY <1>7, <2>2, <2>3 DEF Forward, TypeOK
<1>8. CASE ObserveLag(e)
  BY <1>8 DEF ObserveLag, Caught, TypeOK
<1>9. CASE Flush(e)
  <2>1. writing[e] \in Slot /\ <<>> \in Slot
    BY DEF TypeOK, Slot
  <2>2. /\ net' \in [End -> Seq(Frame)]
        /\ \A d \in End : Len(net'[d]) <= SocketCapacity
        /\ said' \in [End -> Seq(Frame)]
    BY <1>9, <2>1, PutFacts DEF Flush
  <2> QED BY <1>9, <2>1, <2>2 DEF Flush, TypeOK
<1>10. CASE FlushFailed(e)
  BY <1>10, StopType DEF FlushFailed, TypeOK
<1>11. CASE CloseWriter(e)
  <2>1. writing[e] \in Slot /\ <<>> \in Slot
    BY DEF TypeOK, Slot
  <2>2. /\ net' \in [End -> Seq(Frame)]
        /\ \A d \in End : Len(net'[d]) <= SocketCapacity
        /\ said' \in [End -> Seq(Frame)]
    <3>1. CASE Closable(e) /\ Put(e, writing[e])
      BY <2>1, <3>1, PutFacts DEF Closable
    <3>2. CASE UNCHANGED <<net, said>>
      BY <3>2 DEF TypeOK
    <3> QED BY <1>11, <3>1, <3>2 DEF CloseWriter
  <2> QED BY <1>11, <2>1, <2>2 DEF CloseWriter, TypeOK
<1>12. CASE Beat(e)
  <2>1. backlog' \in [End -> 0..(MaxSendToAll + 1)]
    BY <1>12 DEF Beat, TypeOK
  <2>2. beats' \in [End -> 0..MaxBeats]
    BY <1>12 DEF Beat, TypeOK
  <2> QED BY <1>12, <2>1, <2>2 DEF Beat, TypeOK
<1> QED BY <1>1, <1>2, <1>3, <1>4, <1>5, <1>6, <1>7, <1>8, <1>9, <1>10, <1>11, <1>12
        DEF CodeStep, ReadStep, HandlerStep, ReceiveStep, FlushStep

\* A peer that does not run the code keeps the types, whatever it sends.
LEMMA PeerType ==
  ASSUME TypeOK, NEW e \in End, PeerStep(e)
  PROVE  TypeOK'
<1>1. CASE PeerSend(e)
  <2>1. PICK f \in PeerFrames : Put(e, <<f>>)
    BY <1>1 DEF PeerSend
  <2>2. <<f>> \in Slot
    BY SessionAssumption DEF Slot
  <2>3. /\ net' \in [End -> Seq(Frame)]
        /\ \A d \in End : Len(net'[d]) <= SocketCapacity
        /\ said' \in [End -> Seq(Frame)]
    BY <1>1, <2>1, <2>2, PutFacts DEF PeerSend
  <2> QED BY <1>1, <2>3 DEF PeerSend, TypeOK
<1>2. CASE PeerRead(e)
  <2>1. Tail(net[e]) \in Seq(Frame) /\ Len(Tail(net[e])) <= SocketCapacity
    BY <1>2, HeadTail, SessionAssumption DEF PeerRead, TypeOK
  <2> QED BY <1>2, <2>1 DEF PeerRead, TypeOK
<1>3. CASE PeerClose(e)
  BY <1>3 DEF PeerClose, TypeOK
<1> QED BY <1>1, <1>2, <1>3 DEF PeerStep

\* The types hold at the start ...
LEMMA SessionInitial == Init => TypeOK
<1>1. <<>> \in Seq(Frame) /\ Len(<<>>) = 0 /\ <<>> \in Slot
  BY DEF Slot
<1> SUFFICES ASSUME Init PROVE TypeOK
  OBVIOUS
<1>2. phase \in [End -> {"greeting", "serving", "closing", "closed"}]
  BY DEF Init
<1>3. /\ net \in [End -> Seq(Frame)] /\ channel \in [End -> Seq(Frame)]
      /\ said \in [End -> Seq(Frame)]
      /\ \A e \in End : Len(net[e]) <= SocketCapacity /\ Len(channel[e]) <= MaxPending
  BY <1>1, SessionAssumption DEF Init
<1>4. /\ backlog \in [End -> 0..(MaxSendToAll + 1)] /\ beats \in [End -> 0..MaxBeats]
      /\ muted \in [End -> BOOLEAN]
  BY SessionAssumption DEF Init
<1>5. /\ cause \in [End -> {"none", "peer_closed", "flood", "bad_message", "send_failed"}]
      /\ writing \in [End -> Slot] /\ broken \in BOOLEAN
  BY <1>1 DEF Init
<1> QED BY <1>2, <1>3, <1>4, <1>5 DEF TypeOK

\* ... and every step keeps them.
LEMMA SessionStep == TypeOK /\ [Next]_vars => TypeOK'
<1> SUFFICES ASSUME TypeOK, [Next]_vars PROVE TypeOK'
  OBVIOUS
<1>1. CASE Reset
  BY <1>1 DEF Reset, TypeOK
<1>2. CASE UNCHANGED vars
  BY <1>2 DEF vars, TypeOK
<1> QED BY <1>1, <1>2, CodeType, PeerType, SessionAssumption DEF Next

\* The sockets and the channel never hold more than they have room for, and
\* what travels is frames.
THEOREM SessionTypeCorrect == Spec => []TypeOK
BY SessionInitial, SessionStep, PTL DEF Spec

------------------------------------------------------------------------------
\* Answers in order.  The invariant follows each frame from the log of its
\* sender through the socket and the channel to the log of the receiver.

\* The frames of a queue, heartbeats aside, are the frames of a log after its
\* first m: g[i] is how many frames of the log come before the i-th of the
\* queue.
Follows(q, s, g) ==
  /\ g \in [1..(Len(q) + 1) -> 0..Len(s)]
  /\ g[Len(q) + 1] = Len(s)
  /\ \A i \in 1..Len(q) :
       IF q[i] = Heartbeat THEN g[i + 1] = g[i]
                           ELSE g[i + 1] = g[i] + 1 /\ q[i] = s[g[i] + 1]

Tracks(q, s, m) == \E g : Follows(q, s, g) /\ g[1] = m

\* A log answers exactly the first m frames of another.
Replied(words, s, m) ==
  /\ m \in 0..Len(s)
  /\ \A i \in 1..m : ~Refused(s[i])
  /\ Len(words) = 1 + Asked(s, m)
  /\ Proper(words, s)

\* All that was sent to an end and that its handler has not taken.
Inflow(e) == channel[e] \o net[e]

\* What an end has said, the frame in its writer included.
Words(e) == IF writing[e] = <<Heartbeat>> THEN said[e] ELSE said[e] \o writing[e]

GreetingInv(e) ==
  /\ said[e] = <<>> /\ writing[e] = <<>> /\ channel[e] = <<>>
  /\ Tracks(Inflow(e), said[Other(e)], 0)

ServingInv(e) ==
  \E m \in Nat : /\ Tracks(Inflow(e), said[Other(e)], m)
                 /\ Replied(Words(e), said[Other(e)], m)

EndInv(e) ==
  /\ Proper(said[e], said[Other(e)])
  /\ ~broken /\ phase[e] = "greeting" => GreetingInv(e)
  /\ ~broken /\ phase[e] = "serving" => ServingInv(e)
  /\ ~broken /\ phase[e] = "closing" => Proper(Words(e), said[Other(e)])

OrderInv == TypeOK /\ \A e \in Honest : EndInv(e)

\* A frame joins the queue and, if it is no heartbeat, the log.
LEMMA TracksAppend ==
  ASSUME NEW q \in Seq(Frame), NEW s \in Seq(Frame), NEW m \in Nat, Tracks(q, s, m),
         NEW f \in Frame
  PROVE  Tracks(Append(q, f), IF f = Heartbeat THEN s ELSE Append(s, f), m)
<1> DEFINE t == IF f = Heartbeat THEN s ELSE Append(s, f)
           r == Append(q, f)
<1>1. PICK g : Follows(q, s, g) /\ g[1] = m
  BY DEF Tracks
<1> DEFINE h == [i \in 1..(Len(r) + 1) |-> IF i = Len(q) + 2 THEN Len(t) ELSE g[i]]
<1>2. /\ Len(q) \in Nat /\ Len(s) \in Nat /\ Len(r) = Len(q) + 1
      /\ \A i \in 1..Len(q) : r[i] = q[i]
      /\ r[Len(q) + 1] = f
  OBVIOUS
<1>3. /\ Len(t) = IF f = Heartbeat THEN Len(s) ELSE Len(s) + 1
      /\ \A i \in 1..Len(s) : t[i] = s[i]
      /\ f # Heartbeat => t[Len(s) + 1] = f
  OBVIOUS
<1> HIDE DEF t, r
<1>4. /\ g \in [1..(Len(q) + 1) -> 0..Len(s)] /\ g[Len(q) + 1] = Len(s)
  BY <1>1 DEF Follows
<1>5. h \in [1..(Len(r) + 1) -> 0..Len(t)] /\ h[Len(r) + 1] = Len(t)
  BY <1>2, <1>3, <1>4
<1>6. ASSUME NEW i \in 1..Len(r)
      PROVE  IF r[i] = Heartbeat THEN h[i + 1] = h[i]
             ELSE h[i + 1] = h[i] + 1 /\ r[i] = t[h[i] + 1]
  <2>1. CASE i = Len(q) + 1
    BY <2>1, <1>2, <1>3, <1>4
  <2>2. CASE i # Len(q) + 1
    <3>1. i \in 1..Len(q) /\ h[i] = g[i] /\ h[i + 1] = g[i + 1] /\ r[i] = q[i]
      BY <2>2, <1>2
    <3>2. g[i] \in 0..Len(s) /\ g[i + 1] \in 0..Len(s)
      <4>1. i \in 1..(Len(q) + 1) /\ i + 1 \in 1..(Len(q) + 1)
        BY <3>1, <1>2
      <4> QED BY <4>1, <1>4
    <3>3. IF q[i] = Heartbeat THEN g[i + 1] = g[i]
          ELSE g[i + 1] = g[i] + 1 /\ q[i] = s[g[i] + 1]
      BY <3>1, <1>1 DEF Follows
    <3> HIDE DEF h
    <3> QED BY <3>1, <3>2, <3>3, <1>2, <1>3
  <2> QED BY <2>1, <2>2
<1>7. h[1] = m
  BY <1>1, <1>2
<1>8. Follows(r, t, h)
  BY <1>5, <1>6 DEF Follows
<1>9. Tracks(r, t, m)
  <2> HIDE DEF h
  <2> QED BY <1>7, <1>8 DEF Tracks
<1> QED BY <1>9 DEF t, r

\* The first frame leaves the queue.
LEMMA TracksTail ==
  ASSUME NEW q \in Seq(Frame), NEW s \in Seq(Frame), NEW m \in Nat, Tracks(q, s, m),
         q # <<>>
  PROVE  IF Head(q) = Heartbeat THEN Tracks(Tail(q), s, m)
         ELSE m + 1 \in 1..Len(s) /\ Head(q) = s[m + 1] /\ Tracks(Tail(q), s, m + 1)
<1> DEFINE r == Tail(q)
<1>1. PICK g : Follows(q, s, g) /\ g[1] = m
  BY DEF Tracks
<1>2. /\ Len(q) \in Nat \ {0} /\ Len(s) \in Nat /\ Len(r) = Len(q) - 1
      /\ \A i \in 1..Len(r) : r[i] = q[i + 1]
      /\ Head(q) = q[1]
  OBVIOUS
<1> DEFINE h == [i \in 1..(Len(r) + 1) |-> g[i + 1]]
<1> HIDE DEF r
<1>3. /\ g \in [1..(Len(q) + 1) -> 0..Len(s)] /\ g[Len(q) + 1] = Len(s)
      /\ \A i \in 1..Len(q) :
           IF q[i] = Heartbeat THEN g[i + 1] = g[i]
                               ELSE g[i + 1] = g[i] + 1 /\ q[i] = s[g[i] + 1]
  BY <1>1 DEF Follows
<1>4. h \in [1..(Len(r) + 1) -> 0..Len(s)] /\ h[Len(r) + 1] = Len(s)
  BY <1>2, <1>3
<1>5. ASSUME NEW i \in 1..Len(r)
      PROVE  IF r[i] = Heartbeat THEN h[i + 1] = h[i]
             ELSE h[i + 1] = h[i] + 1 /\ r[i] = s[h[i] + 1]
  <2>1. i + 1 \in 1..Len(q) /\ r[i] = q[i + 1] /\ h[i] = g[i + 1] /\ h[i + 1] = g[(i + 1) + 1]
    BY <1>2
  <2> HIDE DEF h
  <2> QED BY <2>1, <1>3
<1>6. h[1] = g[2]
  BY <1>2
<1>7. IF Head(q) = Heartbeat THEN g[2] = m ELSE g[2] = m + 1 /\ Head(q) = s[m + 1]
  BY <1>1, <1>2, <1>3
<1>8. g[2] \in 0..Len(s)
  BY <1>2, <1>3
<1> HIDE DEF h
<1>9. Follows(r, s, h)
  BY <1>4, <1>5 DEF Follows
<1>10. Tracks(r, s, g[2])
  BY <1>6, <1>9 DEF Tracks
<1> QED BY <1>2, <1>7, <1>8, <1>10 DEF r

\* The questions among the first frames of a log.
LEMMA AskedFacts ==
  ASSUME NEW s \in Seq(Frame), NEW m \in 0..Len(s)
  PROVE  /\ Asked(s, m) \in Nat
         /\ m = 0 => Asked(s, m) = 0
         /\ m < Len(s) => Asked(s, m + 1) =
              IF m + 1 \in Questions(s) THEN Asked(s, m) + 1 ELSE Asked(s, m)
<1> DEFINE Upto(n) == {j \in Questions(s) : j <= n}
<1>1. Len(s) \in Nat /\ Questions(s) \subseteq 1..Len(s)
  BY DEF Questions
<1>2. IsFiniteSet(1..Len(s))
  BY <1>1, FS_Interval
<1>3. \A n \in Nat : IsFiniteSet(Upto(n))
  BY <1>1, <1>2, FS_Subset
<1>4. \A n \in Nat : Asked(s, n) = Cardinality(Upto(n)) /\ Asked(s, n) \in Nat
  BY <1>3, FS_CardinalityType DEF Asked
<1>5. m = 0 => Upto(m) = {}
  BY <1>1
<1>6. m + 1 \in Questions(s) => Upto(m + 1) = Upto(m) \cup {m + 1} /\ m + 1 \notin Upto(m)
  BY <1>1
<1>7. m + 1 \notin Questions(s) => Upto(m + 1) = Upto(m)
  BY <1>1
<1>8. m \in Nat /\ m + 1 \in Nat
  OBVIOUS
<1> HIDE DEF Upto
<1>9. m = 0 => Asked(s, m) = 0
  BY <1>4, <1>5, <1>8, FS_EmptySet
<1>10. m + 1 \in Questions(s) => Asked(s, m + 1) = Asked(s, m) + 1
  BY <1>3, <1>4, <1>6, <1>8, FS_AddElement
<1> QED BY <1>4, <1>7, <1>8, <1>9, <1>10

\* What was asked stays asked when the log grows.
LEMMA AskedGrows ==
  ASSUME NEW s \in Seq(Frame), NEW f \in Frame, NEW m \in 0..Len(s)
  PROVE  /\ Questions(s) \subseteq Questions(Append(s, f))
         /\ Asked(Append(s, f), m) = Asked(s, m)
<1> DEFINE t == Append(s, f)
<1>1. /\ Len(s) \in Nat /\ DOMAIN s = 1..Len(s) /\ DOMAIN t = 1..(Len(s) + 1)
      /\ \A i \in 1..Len(s) : t[i] = s[i]
  OBVIOUS
<1> HIDE DEF t
<1>2. \A j \in 1..Len(s) : j \in Questions(s) <=> j \in Questions(t)
  <2> SUFFICES ASSUME NEW j \in 1..Len(s)
               PROVE  j \in Questions(s) <=> j \in Questions(t)
    OBVIOUS
  <2>1. \A i \in 1..j : t[i] = s[i]
    BY <1>1
  <2>2. t[j] = s[j] /\ j \in DOMAIN s /\ j \in DOMAIN t
    BY <1>1
  <2> QED BY <2>1, <2>2 DEF Questions
<1>3. Questions(s) \subseteq 1..Len(s) /\ Questions(t) \subseteq 1..(Len(s) + 1)
  BY <1>1 DEF Questions
<1>4. {j \in Questions(t) : j <= m} = {j \in Questions(s) : j <= m}
  BY <1>1, <1>2, <1>3
<1> QED BY <1>2, <1>3, <1>4 DEF t, Asked

\* Answers stay proper when more is heard.
LEMMA ProperGrows ==
  ASSUME NEW log, NEW s \in Seq(Frame), NEW f \in Frame, Proper(log, s)
  PROVE  Proper(log, Append(s, f))
<1> SUFFICES ASSUME NEW n \in DOMAIN log, NEW j \in Questions(s),
                    Asked(s, j) = n - 1, Answer(s[j]) = <<log[n]>>
             PROVE  \E i \in Questions(Append(s, f)) :
                      /\ Asked(Append(s, f), i) = n - 1
                      /\ Answer(Append(s, f)[i]) = <<log[n]>>
  BY DEF Proper
<1>1. j \in 1..Len(s) /\ j \in 0..Len(s)
  BY DEF Questions
<1>2. Append(s, f)[j] = s[j]
  BY <1>1
<1>3. j \in Questions(Append(s, f)) /\ Asked(Append(s, f), j) = Asked(s, j)
  BY <1>1, AskedGrows
<1> QED BY <1>2, <1>3

\* An end that has answered m frames has still answered m when another arrives.
LEMMA RepliedGrows ==
  ASSUME NEW log, NEW s \in Seq(Frame), NEW f \in Frame, NEW m, Replied(log, s, m)
  PROVE  Replied(log, Append(s, f), m)
<1>1. m \in 0..Len(s) /\ m \in 0..Len(Append(s, f))
  BY DEF Replied
<1>2. \A i \in 1..m : Append(s, f)[i] = s[i]
  BY <1>1
<1> QED BY <1>1, <1>2, AskedGrows, ProperGrows DEF Replied

\* An end that has answered m frames and answers the next one (handle_received).
LEMMA RepliedAnswer ==
  ASSUME NEW log \in Seq(Frame), NEW s \in Seq(Frame), NEW m \in Nat, Replied(log, s, m),
         m + 1 \in 1..Len(s), ~Refused(s[m + 1])
  PROVE  Replied(log \o Answer(s[m + 1]), s, m + 1)
<1> DEFINE w == Answer(s[m + 1])
<1>1. /\ m \in 0..Len(s) /\ \A i \in 1..m : ~Refused(s[i])
      /\ Len(log) = 1 + Asked(s, m) /\ Proper(log, s)
  BY DEF Replied
<1>2. \A i \in 1..(m + 1) : ~Refused(s[i])
  BY <1>1
<1>3. s[m + 1] \in Frame
  OBVIOUS
<1>4. w \in Slot
  BY <1>3, AnswerType
<1>5. m + 1 \in Questions(s) <=> w # <<>>
  BY <1>2 DEF Questions
<1> HIDE DEF w
<1>6. /\ Asked(s, m) \in Nat
      /\ Asked(s, m + 1) = IF w # <<>> THEN Asked(s, m) + 1 ELSE Asked(s, m)
  BY <1>1, <1>5, AskedFacts
<1>7. CASE w = <<>>
  <2>1. log \o w = log
    BY <1>7
  <2> QED BY <2>1, <1>1, <1>2, <1>6, <1>7 DEF Replied, w
<1>8. CASE w # <<>>
  <2>1. PICK f \in Frame : w = <<f>>
    BY <1>4, <1>8 DEF Slot
  <2>2. /\ Len(log \o w) = Len(log) + 1
        /\ DOMAIN (log \o w) = 1..(Len(log) + 1)
        /\ \A n \in 1..Len(log) : (log \o w)[n] = log[n]
        /\ (log \o w)[Len(log) + 1] = f
        /\ DOMAIN log = 1..Len(log) /\ Len(log) \in Nat
    BY <2>1
  <2>3. ASSUME NEW n \in DOMAIN (log \o w)
        PROVE  \/ n = 1 /\ (log \o w)[n] = as_bytes(HandshakeStart)
               \/ \E j \in Questions(s) :
                    Asked(s, j) = n - 1 /\ Answer(s[j]) = <<(log \o w)[n]>>
    <3>1. CASE n = Len(log) + 1
      <4>1. m + 1 \in Questions(s) /\ Asked(s, m + 1) = n - 1
        BY <3>1, <1>1, <1>5, <1>6, <1>8
      <4>2. Answer(s[m + 1]) = <<(log \o w)[n]>>
        BY <3>1, <2>1, <2>2 DEF w
      <4> QED BY <4>1, <4>2
    <3>2. CASE n # Len(log) + 1
      <4>1. n \in DOMAIN log /\ (log \o w)[n] = log[n]
        BY <3>2, <2>2
      <4> QED BY <4>1, <1>1 DEF Proper
    <3> QED BY <3>1, <3>2
  <2>4. Proper(log \o w, s)
    BY <2>3 DEF Proper
  <2> QED BY <2>2, <2>4, <1>1, <1>2, <1>6, <1>8 DEF Replied, w
<1> QED BY <1>7, <1>8

\* A frame that the read loop moves from the socket to the channel, and one that
\* the handler takes.
LEMMA QueueFacts ==
  ASSUME NEW c \in Seq(Frame), NEW n \in Seq(Frame)
  PROVE  /\ c \o n \in Seq(Frame)
         /\ n # <<>> => Append(c, Head(n)) \o Tail(n) = c \o n
         /\ c # <<>> => /\ c \o n # <<>> /\ Head(c \o n) = Head(c)
                        /\ Tail(c \o n) = Tail(c) \o n
<1>1. c \o n \in Seq(Frame)
  OBVIOUS
<1>2. n # <<>> => Append(c, Head(n)) \o Tail(n) = c \o n
  OBVIOUS
<1>3. c # <<>> => c \o n # <<>> /\ Head(c \o n) = Head(c)
  OBVIOUS
<1>4. c # <<>> => Tail(c \o n) = Tail(c) \o n
  OBVIOUS
<1> QED BY <1>1, <1>2, <1>3, <1>4

\* A frame that joins the socket joins the whole queue.
LEMMA QueueAppend ==
  ASSUME NEW c \in Seq(Frame), NEW n \in Seq(Frame), NEW f \in Frame
  PROVE  c \o (n \o <<f>>) = Append(c \o n, f)
OBVIOUS

\* What putting a slot into the socket of e does to each end.
LEMMA PutEffect ==
  ASSUME TypeOK, NEW e \in End, NEW w \in Slot, Put(e, w)
  PROVE  /\ said'[e] = (IF w = <<Heartbeat>> THEN said[e] ELSE said[e] \o w)
         /\ said'[Other(e)] = said[Other(e)]
         /\ net'[e] = net[e]
         /\ phase[Other(e)] # "closed" => net'[Other(e)] = net[Other(e)] \o w
BY Ends DEF Put, TypeOK

\* A step that neither says anything nor touches an end.
LEMMA Bystander ==
  ASSUME NEW d \in End, EndInv(d), broken => broken', said' = said,
         phase'[d] = phase[d], net'[d] = net[d], channel'[d] = channel[d],
         writing'[d] = writing[d]
  PROVE  EndInv(d)'
BY DEF EndInv, GreetingInv, ServingInv, Inflow, Words

\* An end to which a frame is sent.
LEMMA SpokenTo ==
  ASSUME TypeOK, NEW e \in End, NEW w \in Slot, Put(e, w), EndInv(Other(e)),
         UNCHANGED broken, phase'[Other(e)] = phase[Other(e)],
         channel'[Other(e)] = channel[Other(e)], writing'[Other(e)] = writing[Other(e)]
  PROVE  EndInv(Other(e))'
<1> DEFINE d == Other(e)
<1>1. d \in End /\ Other(d) = e
  BY Ends
<1>2. /\ said'[d] = said[d]
      /\ said'[e] = (IF w = <<Heartbeat>> THEN said[e] ELSE said[e] \o w)
      /\ phase[d] # "closed" => net'[d] = net[d] \o w
  BY PutEffect
<1>3. /\ said[e] \in Seq(Frame) /\ said[d] \in Seq(Frame) /\ net[d] \in Seq(Frame)
      /\ channel[d] \in Seq(Frame) /\ Inflow(d) \in Seq(Frame)
  BY <1>1 DEF TypeOK, Inflow
<1>4. Words(d)' = Words(d)
  BY <1>2 DEF Words
<1>5. CASE w = <<>>
  <2>1. said'[e] = said[e] /\ (phase[d] # "closed" => net'[d] = net[d])
    BY <1>2, <1>3, <1>5
  <2> QED BY <2>1, <1>1, <1>2, <1>4 DEF EndInv, GreetingInv, ServingInv, Inflow
<1>6. CASE w # <<>>
  <2>1. PICK f \in Frame : w = <<f>>
    BY <1>6 DEF Slot
  <2> DEFINE t == IF f = Heartbeat THEN said[e] ELSE Append(said[e], f)
  <2>2. said'[e] = t
    <3>1. f # Heartbeat => w # <<Heartbeat>> /\ said[e] \o w = Append(said[e], f)
      BY <2>1, <1>3
    <3> QED BY <2>1, <3>1, <1>2
  <2>3. \A log : Proper(log, said[e]) => Proper(log, t)
    BY <1>3, ProperGrows
  <2>4. \A log, m : Replied(log, said[e], m) => Replied(log, t, m)
    BY <1>3, RepliedGrows
  <2>5. phase[d] # "closed" => Inflow(d)' = Append(Inflow(d), f)
    <3>1. channel[d] \o (net[d] \o <<f>>) = Append(channel[d] \o net[d], f)
      <4> HIDE DEF d
      <4> QED BY <1>3, QueueAppend
    <3> QED BY <2>1, <3>1, <1>2 DEF Inflow
  <2>6. \A m \in Nat : phase[d] # "closed" /\ Tracks(Inflow(d), said[e], m)
                         => Tracks(Inflow(d)', t, m)
    BY <2>5, <1>3, TracksAppend
  <2> HIDE DEF t
  <2>7. Proper(said[d], t)
    BY <2>3, <1>1 DEF EndInv
  <2>8. ~broken /\ phase[d] = "greeting" => GreetingInv(d)'
    BY <2>2, <2>6, <1>1, <1>2 DEF EndInv, GreetingInv
  <2>9. ~broken /\ phase[d] = "serving" => ServingInv(d)'
    BY <2>2, <2>4, <2>6, <1>1, <1>2, <1>4 DEF EndInv, ServingInv
  <2>10. ~broken /\ phase[d] = "closing" => Proper(Words(d), t)
    BY <2>3, <1>1 DEF EndInv
  <2> QED BY <2>2, <2>7, <2>8, <2>9, <2>10, <1>1, <1>2, <1>4 DEF EndInv
<1> QED BY <1>5, <1>6

\* An end whose select ends keeps its log and its writer (start).
LEMMA Stopped ==
  ASSUME TypeOK, NEW e \in End, EndInv(e), phase[e] = "serving", NEW why, Stop(e, why),
         UNCHANGED <<broken, writing, said>>
  PROVE  EndInv(e)'
<1>1. phase'[e] = "closing"
  BY DEF Stop, TypeOK
<1>2. ~broken => Proper(Words(e), said[Other(e)])
  BY DEF EndInv, ServingInv, Replied
<1>3. Words(e)' = Words(e)
  BY DEF Words
<1> QED BY <1>1, <1>2, <1>3 DEF EndInv

\* The handshake is sent (start).
LEMMA Greeted ==
  ASSUME TypeOK, NEW e \in End, EndInv(e), Greet(e)
  PROVE  EndInv(e)'
<1> DEFINE o == Other(e)
<1>1. o \in End /\ o # e /\ said[o] \in Seq(Frame)
  BY Ends DEF TypeOK
<1>2. phase'[e] = "serving" /\ phase[e] = "greeting"
  BY DEF Greet, TypeOK
<1>3. CASE broken
  BY <1>2, <1>3 DEF Greet, EndInv
<1>4. CASE ~broken
  <2>1. GreetingInv(e) /\ Put(e, <<Helo>>) /\ ~broken'
    BY <1>2, <1>4 DEF Greet, EndInv
  <2>2. <<Helo>> \in Slot /\ <<Helo>> # <<Heartbeat>>
    BY NodeMessages DEF Slot
  <2>3. said'[e] = said[e] \o <<Helo>> /\ said'[o] = said[o] /\ net'[e] = net[e]
    BY <2>1, <2>2, PutEffect
  <2>4. said'[e] = <<Helo>>
    BY <2>1, <2>3, <2>2 DEF GreetingInv
  <2>5. Words(e)' = <<Helo>>
    <3>1. writing'[e] = <<>>
      BY <2>1 DEF Greet, GreetingInv
    <3> QED BY <2>4, <3>1, <2>2 DEF Words
  <2>6. Inflow(e)' = Inflow(e)
    BY <2>3 DEF Inflow, Greet
  <2>7. Replied(<<Helo>>, said[o], 0)
    <3>1. 0 \in 0..Len(said[o])
      BY <1>1
    <3>2. Asked(said[o], 0) = 0
      BY <1>1, <3>1, AskedFacts
    <3>3. Proper(<<Helo>>, said[o])
      BY DEF Proper, Helo
    <3> QED BY <3>1, <3>2, <3>3 DEF Replied
  <2>8. ServingInv(e)'
    BY <2>1, <2>3, <2>5, <2>6, <2>7 DEF GreetingInv, ServingInv
  <2>9. Proper(said[e], said[o])'
    BY <2>3, <2>4, <2>7 DEF Replied
  <2> QED BY <1>2, <2>8, <2>9 DEF EndInv
<1> QED BY <1>3, <1>4

\* The handler takes a message and answers it (handle_received).
LEMMA Handled ==
  ASSUME TypeOK, NEW e \in End, EndInv(e), HandleMessage(e)
  PROVE  EndInv(e)'
<1> DEFINE o == Other(e)
           f == Head(channel[e])
<1>1. /\ o \in End /\ said[o] \in Seq(Frame) /\ said[e] \in Seq(Frame)
      /\ channel[e] \in Seq(Frame) /\ net[e] \in Seq(Frame)
  BY Ends DEF TypeOK
<1>2. /\ phase'[e] = "serving" /\ phase[e] = "serving" /\ said' = said
      /\ writing[e] = <<>> /\ broken' = broken /\ channel[e] # <<>> /\ ~Refused(f)
      /\ writing'[e] = Answer(f) /\ channel'[e] = Tail(channel[e]) /\ net'[e] = net[e]
  BY DEF HandleMessage, Selecting, TypeOK
<1>3. CASE broken
  BY <1>2, <1>3 DEF EndInv
<1>4. CASE ~broken
  <2>1. PICK m \in Nat : /\ Tracks(Inflow(e), said[o], m)
                         /\ Replied(Words(e), said[o], m)
    BY <1>2, <1>4 DEF EndInv, ServingInv
  <2>2. /\ Inflow(e) \in Seq(Frame) /\ Inflow(e) # <<>> /\ Head(Inflow(e)) = f
        /\ Inflow(e)' = Tail(Inflow(e))
    <3>1. /\ channel[e] \o net[e] \in Seq(Frame) /\ channel[e] \o net[e] # <<>>
          /\ Head(channel[e] \o net[e]) = f
          /\ Tail(channel[e] \o net[e]) = Tail(channel[e]) \o net[e]
      BY <1>1, <1>2, QueueFacts
    <3> QED BY <1>2, <3>1 DEF Inflow
  <2>3. f \in Frame
    BY <1>1, <1>2, HeadTail
  <2>4. Answer(f) \in Slot /\ Answer(f) # <<Heartbeat>>
    BY <1>2, <2>3, AnswerType
  <2>5. Words(e) = said[e] /\ Words(e)' = said[e] \o Answer(f)
    <3>1. said[e] \o <<>> = said[e] /\ <<>> # <<Heartbeat>>
      BY <1>1
    <3> QED BY <1>2, <2>4, <3>1 DEF Words
  <2>6. CASE f = Heartbeat
    <3>1. Words(e)' = Words(e)
      <4>1. Answer(f) = <<>> /\ said[e] \o <<>> = said[e]
        BY <1>1, <2>6, NodeMessages
      <4> QED BY <2>5, <4>1
    <3>2. Tracks(Inflow(e)', said[o], m)
      BY <1>1, <2>1, <2>2, <2>6, TracksTail
    <3>3. ServingInv(e)'
      BY <1>2, <2>1, <3>1, <3>2 DEF ServingInv
    <3> QED BY <1>2, <3>3 DEF EndInv
  <2>7. CASE f # Heartbeat
    <3>1. m + 1 \in 1..Len(said[o]) /\ f = said[o][m + 1] /\ Tracks(Inflow(e)', said[o], m + 1)
      BY <1>1, <2>1, <2>2, <2>7, TracksTail
    <3>2. Replied(Words(e)', said[o], m + 1)
      BY <1>1, <1>2, <2>1, <2>5, <3>1, RepliedAnswer
    <3>3. ServingInv(e)'
      BY <1>2, <3>1, <3>2 DEF ServingInv
    <3> QED BY <1>2, <3>3 DEF EndInv
  <2> QED BY <2>6, <2>7
<1> QED BY <1>3, <1>4

\* A step of the code of an end keeps the invariant of that end.
LEMMA OwnStep ==
  ASSUME TypeOK, NEW e \in End, EndInv(e), CodeStep(e)
  PROVE  EndInv(e)'
<1> DEFINE o == Other(e)
<1>0. /\ o \in End /\ o # e /\ said[e] \in Seq(Frame) /\ writing[e] \in Slot
      /\ channel[e] \in Seq(Frame) /\ net[e] \in Seq(Frame)
  BY Ends DEF TypeOK
<1>2. CASE ReadFrame(e)
  <2>1. Inflow(e)' = Inflow(e)
    BY <1>0, <1>2, QueueFacts DEF ReadFrame, Inflow, TypeOK
  <2>2. Words(e)' = Words(e)
    BY <1>2 DEF ReadFrame, Words
  <2> QED BY <1>2, <2>1, <2>2 DEF ReadFrame, EndInv, ServingInv
<1>3. CASE ReadFlood(e)
  BY <1>3, Stopped DEF ReadFlood
<1>4. CASE ReadEnd(e)
  BY <1>4, Stopped DEF ReadEnd
<1>6. CASE RefuseMessage(e)
  BY <1>6, Stopped DEF RefuseMessage, Selecting
<1>7. CASE Forward(e)
  <2>1. Words(e)' = Words(e)
    BY <1>0, <1>7 DEF Forward, Selecting, Words, TypeOK
  <2> QED BY <1>7, <2>1 DEF Forward, Selecting, EndInv, ServingInv, Inflow
<1>8. CASE ObserveLag(e)
  BY <1>8, Bystander DEF ObserveLag
<1>9. CASE Flush(e)
  <2>1. /\ said'[e] = Words(e) /\ said'[o] = said[o] /\ net'[e] = net[e]
    BY <1>0, <1>9, PutEffect DEF Flush, Words
  <2>2. writing'[e] = <<>> /\ said'[e] \in Seq(Frame)
    BY <1>0, <1>9, <2>1, SlotFacts DEF Flush, TypeOK, Words
  <2>3. Words(e)' = Words(e)
    BY <2>1, <2>2 DEF Words
  <2>4. Inflow(e)' = Inflow(e)
    BY <1>9, <2>1 DEF Flush, Inflow
  <2>5. ServingInv(e)
    BY <1>9 DEF Flush, EndInv
  <2>6. ServingInv(e)' /\ Proper(said[e], said[o])'
    BY <2>1, <2>3, <2>4, <2>5 DEF ServingInv, Replied
  <2> QED BY <1>9, <2>6 DEF Flush, EndInv
<1>10. CASE FlushFailed(e)
  BY <1>10, Stopped DEF FlushFailed
<1>11. CASE CloseWriter(e)
  <2>1. phase'[e] = "closed"
    BY <1>11 DEF CloseWriter, TypeOK
  <2>2. Proper(said[e], said[o])'
    <3>1. CASE UNCHANGED said
      BY <3>1 DEF EndInv
    <3>2. CASE ~broken /\ Put(e, writing[e])
      <4>1. /\ said'[e] = Words(e) /\ said'[o] = said[o]
        BY <1>0, <3>2, PutEffect DEF Words
      <4> QED BY <1>11, <3>2, <4>1 DEF CloseWriter, EndInv
    <3> QED BY <1>11, <3>1, <3>2 DEF CloseWriter
  <2> QED BY <2>1, <2>2 DEF EndInv
<1>12. CASE Beat(e)
  BY <1>12, Bystander DEF Beat
<1> QED BY <1>2, <1>3, <1>4, <1>6, <1>7, <1>8, <1>9, <1>10, <1>11, <1>12, Greeted, Handled
        DEF CodeStep, ReadStep, HandlerStep, ReceiveStep, FlushStep

\* A step of an end, whether it runs the code or not, keeps the invariant of the
\* other one.
LEMMA OtherStep ==
  ASSUME TypeOK, NEW e \in End, EndInv(Other(e)), CodeStep(e) \/ PeerStep(e)
  PROVE  EndInv(Other(e))'
<1> DEFINE o == Other(e)
<1>0. o \in End /\ o # e /\ writing[e] \in Slot
  BY Ends DEF TypeOK
<1>1. /\ UNCHANGED broken
      /\ phase'[o] = phase[o] /\ channel'[o] = channel[o] /\ writing'[o] = writing[o]
  BY <1>0 DEF CodeStep, ReadStep, HandlerStep, ReceiveStep, FlushStep, PeerStep,
     Greet, ReadFrame, ReadFlood, ReadEnd, HandleMessage, RefuseMessage, Forward,
     ObserveLag, Flush, FlushFailed, CloseWriter, Beat, PeerSend, PeerRead, PeerClose,
     Stop, TypeOK
<1>2. \/ \E w \in Slot : Put(e, w)
      \/ said' = said /\ net'[o] = net[o]
  <2>1. CASE PeerSend(e)
    BY <2>1, SessionAssumption DEF PeerSend, Slot
  <2>2. CASE Greet(e)
    BY <2>2, NodeMessages DEF Greet, Slot
  <2>3. CASE Flush(e) \/ CloseWriter(e)
    BY <1>0, <2>3 DEF Flush, CloseWriter
  <2>4. CASE ReadFrame(e) \/ ReadFlood(e) \/ ReadEnd(e) \/ HandleMessage(e) \/ RefuseMessage(e)
    BY <1>0, <2>4 DEF ReadFrame, ReadFlood, ReadEnd, HandleMessage, RefuseMessage, TypeOK
  <2>5. CASE Forward(e) \/ ObserveLag(e) \/ FlushFailed(e) \/ Beat(e)
    BY <2>5 DEF Forward, ObserveLag, FlushFailed, Beat
  <2>6. CASE PeerRead(e) \/ PeerClose(e)
    BY <1>0, <2>6 DEF PeerRead, PeerClose, TypeOK
  <2> QED BY <2>1, <2>2, <2>3, <2>4, <2>5, <2>6
          DEF CodeStep, ReadStep, HandlerStep, ReceiveStep, FlushStep, PeerStep
<1> QED BY <1>0, <1>1, <1>2, SpokenTo, Bystander

\* What an end says answers what it was sent, in every state.
THEOREM OrderInvariant == Spec => []OrderInv
<1>1. Init => OrderInv
  <2> SUFFICES ASSUME Init PROVE OrderInv
    OBVIOUS
  <2>1. TypeOK
    BY SessionInitial
  <2> SUFFICES ASSUME NEW e \in Honest PROVE EndInv(e)
    BY <2>1 DEF OrderInv
  <2>2. e \in End /\ Other(e) \in End
    BY SessionAssumption, Ends
  <2>3. /\ said[e] = <<>> /\ said[Other(e)] = <<>> /\ net[e] = <<>> /\ channel[e] = <<>>
        /\ writing[e] = <<>> /\ phase[e] \in {"greeting", "closed"}
    BY <2>2 DEF Init
  <2>4. Proper(<<>>, <<>>)
    BY DEF Proper
  <2>5. Tracks(<<>>, <<>>, 0)
    <3>1. Follows(<<>>, <<>>, [i \in 1..1 |-> 0])
      BY DEF Follows
    <3> QED BY <3>1 DEF Tracks
  <2>6. Inflow(e) = <<>>
    BY <2>3 DEF Inflow
  <2> QED BY <2>3, <2>4, <2>5, <2>6 DEF EndInv, GreetingInv
<1>2. OrderInv /\ [Next]_vars => OrderInv'
  <2> SUFFICES ASSUME OrderInv, [Next]_vars PROVE OrderInv'
    OBVIOUS
  <2>1. TypeOK /\ TypeOK'
    BY SessionStep DEF OrderInv
  <2> SUFFICES ASSUME NEW d \in Honest PROVE EndInv(d)'
    BY <2>1 DEF OrderInv
  <2>2. d \in End /\ EndInv(d)
    BY SessionAssumption DEF OrderInv
  <2>3. CASE Reset \/ UNCHANGED vars
    BY <2>2, <2>3, Bystander DEF Reset, vars
  <2>4. ASSUME NEW e \in Honest, CodeStep(e)
        PROVE  EndInv(d)'
    <3>1. e \in End /\ (d = e \/ d = Other(e))
      BY <2>2, SessionAssumption DEF End, Other
    <3> QED BY <2>1, <2>2, <2>4, <3>1, OwnStep, OtherStep
  <2>5. ASSUME NEW e \in End \ Honest, PeerStep(e)
        PROVE  EndInv(d)'
    <3>1. d = Other(e)
      BY <2>2 DEF End, Other
    <3> QED BY <2>1, <2>2, <2>5, <3>1, OtherStep
  <2> QED BY <2>3, <2>4, <2>5 DEF Next
<1> QED BY <1>1, <1>2, PTL DEF Spec

\* Whatever the peer sends and however reading, handling and heartbeats
\* interleave, an end that runs the code says its handshake and then answers, in
\* order, each once and none after a refused frame.
THEOREM AnswersAreInOrder == Spec => []AnswersInOrder
<1>1. OrderInv => AnswersInOrder
  BY DEF OrderInv, EndInv, AnswersInOrder
<1> QED BY <1>1, OrderInvariant, PTL

------------------------------------------------------------------------------
\* The connection is an exchange.

\* The messages of the exchange are those of the session.
LEMMA SameProtocol ==
  /\ Conversation!Frame = Frame
  /\ Conversation!Party = End /\ \A e : Conversation!Partner(e) = Other(e)
  /\ \A log, heard : Conversation!Proper(log, heard) = Proper(log, heard)
<1>1. Conversation!Message = Message
  BY DEF Conversation!Message, Message
<1>2. Conversation!HandshakeStart = HandshakeStart
      /\ \A m : Conversation!as_bytes(m) = as_bytes(m)
  BY DEF Conversation!HandshakeStart, HandshakeStart, Conversation!as_bytes, as_bytes
<1>3. \A b : Conversation!from_bytes(b) = from_bytes(b)
  BY <1>1, <1>2 DEF Conversation!from_bytes, from_bytes
<1>4. \A m : Conversation!response_for_received(m) = response_for_received(m)
  BY DEF Conversation!response_for_received, response_for_received,
     Conversation!HandshakeResponse, HandshakeResponse, Conversation!PingResponse,
     PingResponse, Conversation!HeartbeatResponse, HeartbeatResponse
<1>5. \A b : Conversation!Refused(b) = Refused(b)
  BY <1>3, <1>4 DEF Conversation!Refused, Refused
<1>6. \A b : Conversation!Answer(b) = Answer(b)
  <2> SUFFICES ASSUME NEW b PROVE Conversation!Answer(b) = Answer(b)
    OBVIOUS
  <2> DEFINE m == CHOOSE x \in from_bytes(b) : TRUE
             option == response_for_received(m).option
  <2>1. Answer(b) = [i \in DOMAIN option |-> as_bytes(option[i])]
    BY DEF Answer
  <2>2. (CHOOSE x \in Conversation!from_bytes(b) : TRUE) = m
    BY <1>3
  <2>3. Conversation!Answer(b) = [i \in DOMAIN option |-> Conversation!as_bytes(option[i])]
    <3>1. Conversation!response_for_received(m).option = option
      BY <1>4
    <3> DEFINE c == CHOOSE x \in Conversation!from_bytes(b) : TRUE
               theirs == Conversation!response_for_received(c).option
    <3>2. Conversation!Answer(b) = [i \in DOMAIN theirs |-> Conversation!as_bytes(theirs[i])]
      BY DEF Conversation!Answer
    <3>3. c = m
      BY <2>2
    <3> HIDE DEF m, c
    <3>4. theirs = option
      BY <3>1, <3>3
    <3> HIDE DEF theirs, option
    <3> QED BY <3>2, <3>4
  <2> HIDE DEF option
  <2> QED BY <2>1, <2>3, <1>2
<1>7. \A heard : Conversation!Questions(heard) = Questions(heard)
  BY <1>5, <1>6 DEF Conversation!Questions, Questions
<1>8. \A heard, n : Conversation!Asked(heard, n) = Asked(heard, n)
  <2>1. \A S : Conversation!Cardinality(S) = Cardinality(S)
    BY Zenon DEF Conversation!Cardinality, Cardinality
  <2> QED BY <2>1, <1>7 DEF Conversation!Asked, Asked
<1>9. \A log, heard : Conversation!Proper(log, heard) = Proper(log, heard)
  BY <1>2, <1>6, <1>7, <1>8 DEF Conversation!Proper, Proper
<1>10. Conversation!Frame = Frame
  BY <1>1 DEF Conversation!Frame, Frame
<1> QED BY <1>9, <1>10 DEF Conversation!Party, End, Conversation!Partner, Other

\* A step of an end that has not closed adds at most one frame to its log and
\* changes no other phase than its own.
LEMMA OneSpeaks ==
  ASSUME TypeOK, NEW e \in End, CodeStep(e) \/ PeerStep(e)
  PROVE  /\ phase[e] # "closed"
         /\ \E w \in Slot : said' = [said EXCEPT ![e] = said[e] \o w]
         /\ \A d \in End : d # e => phase'[d] = phase[d]
<1>1. phase[e] # "closed"
  BY DEF CodeStep, ReadStep, HandlerStep, ReceiveStep, FlushStep, PeerStep,
     Greet, ReadFrame, ReadFlood, ReadEnd, HandleMessage, RefuseMessage, Forward,
     ObserveLag, Flush, FlushFailed, CloseWriter, Beat, PeerSend, PeerRead, PeerClose,
     Selecting
<1>2. \A d \in End : d # e => phase'[d] = phase[d]
  BY DEF CodeStep, ReadStep, HandlerStep, ReceiveStep, FlushStep, PeerStep,
     Greet, ReadFrame, ReadFlood, ReadEnd, HandleMessage, RefuseMessage, Forward,
     ObserveLag, Flush, FlushFailed, CloseWriter, Beat, PeerSend, PeerRead, PeerClose,
     Stop, TypeOK
<1>3. (\E w \in Slot : Put(e, w)) \/ said' = said
  <2>1. CASE PeerSend(e)
    BY <2>1, SessionAssumption DEF PeerSend, Slot
  <2>2. CASE Greet(e)
    BY <2>2, NodeMessages DEF Greet, Slot
  <2>3. CASE Flush(e) \/ CloseWriter(e)
    BY <2>3 DEF Flush, CloseWriter, TypeOK
  <2> QED BY <2>1, <2>2, <2>3 DEF CodeStep, ReadStep, HandlerStep, ReceiveStep, FlushStep,
             PeerStep, ReadFrame, ReadFlood, ReadEnd, HandleMessage, RefuseMessage,
             Forward, ObserveLag, FlushFailed, Beat, PeerRead, PeerClose
<1>4. said' = said => said' = [said EXCEPT ![e] = said[e] \o <<>>]
  <2>1. said[e] \o <<>> = said[e]
    BY DEF TypeOK
  <2> QED BY <2>1 DEF TypeOK
<1>5. <<>> \in Slot
  BY DEF Slot
<1>6. \E w \in Slot : said' = [said EXCEPT ![e] = said[e] \o w]
  BY <1>3, <1>4, <1>5 DEF Put
<1> QED BY <1>1, <1>2, <1>6

\* A step of an end is a turn of that party.
LEMMA StepIsTurn ==
  ASSUME TypeOK, AnswersInOrder', NEW e \in End, CodeStep(e) \/ PeerStep(e),
         phase' \in [End -> {"greeting", "serving", "closing", "closed"}]
  PROVE  Conversation!Turn(e)
<1>1. /\ phase[e] # "closed" /\ \A d \in End : d # e => phase'[d] = phase[d]
  BY OneSpeaks
<1>2. PICK w \in Slot : said' = [said EXCEPT ![e] = said[e] \o w]
  BY OneSpeaks
<1>3. Other(e) \in End /\ Other(e) # e
  BY Ends
<1>4. said'[e] = said[e] \o w /\ said'[Other(e)] = said[Other(e)]
  BY <1>2, <1>3 DEF TypeOK
<1>5. e \in Honest => Proper(said[e] \o w, said[Other(e)])
  BY <1>4 DEF AnswersInOrder
<1>6. w \in {<<>>} \cup {<<f>> : f \in Conversation!Frame}
  BY SameProtocol DEF Slot
<1>7. Left' \in {Left, [Left EXCEPT ![e] = TRUE]}
  <2>1. CASE phase'[e] = "closed"
    <3>1. Left' = [Left EXCEPT ![e] = TRUE]
      BY <2>1, <1>1 DEF Left
    <3> QED BY <3>1
  <2>2. CASE phase'[e] # "closed"
    <3>1. Left' = Left
      BY <2>2, <1>1 DEF Left
    <3> QED BY <3>1
  <2> QED BY <2>1, <2>2
<1>8. ~Left[e]
  BY <1>1 DEF Left
<1> QED BY <1>2, <1>5, <1>6, <1>7, <1>8, SameProtocol DEF Conversation!Turn

\* However the code reads, queues, flushes and closes, the connection implements
\* the exchange of module Exchange.
THEOREM SessionIsExchange == Spec => ExchangeRefined
<1>1. Init => Conversation!Init
  BY SameProtocol DEF Init, Conversation!Init, Left
<1>2. TypeOK /\ TypeOK' /\ AnswersInOrder' /\ [Next]_vars
        => [\E p \in Conversation!Party : Conversation!Turn(p)]_<<said, Left>>
  <2> SUFFICES ASSUME TypeOK, TypeOK', AnswersInOrder', [Next]_vars
               PROVE  [\E p \in Conversation!Party : Conversation!Turn(p)]_<<said, Left>>
    OBVIOUS
  <2>1. CASE Reset \/ UNCHANGED vars
    BY <2>1 DEF Reset, vars, Left
  <2>2. ASSUME NEW e \in End, CodeStep(e) \/ PeerStep(e)
        PROVE  \E p \in Conversation!Party : Conversation!Turn(p)
    <3>1. phase' \in [End -> {"greeting", "serving", "closing", "closed"}]
      BY DEF TypeOK
    <3> QED BY <2>2, <3>1, StepIsTurn, SameProtocol
  <2> QED BY <2>1, <2>2, SessionAssumption DEF Next
<1> QED BY <1>1, <1>2, SessionTypeCorrect, AnswersAreInOrder, PTL
        DEF Spec, ExchangeRefined, Conversation!Spec

------------------------------------------------------------------------------
\* Two ends that run the code.

\* All that two nodes say to each other.
NodeFrame == {Helo, Oleh, Heartbeat}
NodeSlot == {<<>>} \cup {<<f>> : f \in NodeFrame}

\* Whatever is on its way between two nodes is one of their three messages.
PairInv ==
  Honest = End =>
    \A e \in End : /\ net[e] \in Seq(NodeFrame) /\ channel[e] \in Seq(NodeFrame)
                   /\ writing[e] \in NodeSlot /\ said[e] \in Seq(NodeFrame)
                   /\ cause[e] # "bad_message"

\* None of them is refused, and each is answered with one of them or not at all.
LEMMA NodeSlotFacts ==
  /\ <<>> \in NodeSlot /\ <<Helo>> \in NodeSlot /\ <<Heartbeat>> \in NodeSlot
  /\ NodeSlot \subseteq Slot /\ NodeSlot \subseteq Seq(NodeFrame)
  /\ \A f \in NodeFrame : ~Refused(f) /\ Answer(f) \in NodeSlot
<1>1. /\ <<>> \in NodeSlot /\ <<Helo>> \in NodeSlot /\ <<Oleh>> \in NodeSlot
      /\ <<Heartbeat>> \in NodeSlot
  BY DEF NodeSlot, NodeFrame
<1>2. NodeSlot \subseteq Slot
  BY NodeMessages DEF NodeSlot, NodeFrame, Slot
<1>3. ASSUME NEW w \in NodeSlot PROVE w \in Seq(NodeFrame)
  <2>1. CASE w = <<>>
    BY <2>1
  <2>2. ASSUME NEW f \in NodeFrame, w = <<f>> PROVE w \in Seq(NodeFrame)
    BY <2>2
  <2> QED BY <2>1, <2>2 DEF NodeSlot
<1>4. \A f \in NodeFrame : ~Refused(f) /\ Answer(f) \in NodeSlot
  BY <1>1, NodeMessages DEF NodeFrame
<1> QED BY <1>1, <1>2, <1>3, <1>4

\* One of their messages goes into a socket.
LEMMA NodePut ==
  ASSUME TypeOK, NEW e \in End, NEW w \in NodeSlot, Put(e, w),
         \A d \in End : net[d] \in Seq(NodeFrame) /\ said[d] \in Seq(NodeFrame)
  PROVE  \A d \in End : net'[d] \in Seq(NodeFrame) /\ said'[d] \in Seq(NodeFrame)
<1>1. Other(e) \in End /\ Other(e) # e
  BY Ends
<1>2. w \in Seq(NodeFrame)
  BY NodeSlotFacts
<1>3. net[Other(e)] \o w \in Seq(NodeFrame) /\ said[e] \o w \in Seq(NodeFrame)
  BY <1>1, <1>2
<1> QED BY <1>1, <1>3 DEF Put, TypeOK

\* A message of a node that is read or handled.
LEMMA NodeHeadTail ==
  ASSUME NEW s \in Seq(NodeFrame), s # <<>>
  PROVE  Head(s) \in NodeFrame /\ Tail(s) \in Seq(NodeFrame)
OBVIOUS

\* A step of one of two nodes keeps the invariant.
LEMMA PairStep ==
  ASSUME TypeOK, PairInv, Honest = End, NEW e \in End, CodeStep(e)
  PROVE  PairInv'
<1>0. \A d \in End : /\ net[d] \in Seq(NodeFrame) /\ channel[d] \in Seq(NodeFrame)
                     /\ writing[d] \in NodeSlot /\ said[d] \in Seq(NodeFrame)
                     /\ cause[d] # "bad_message"
  BY DEF PairInv
<1>1. CASE Greet(e)
  <2>1. \A d \in End : net'[d] \in Seq(NodeFrame) /\ said'[d] \in Seq(NodeFrame)
    <3>1. CASE Put(e, <<Helo>>)
      BY <1>0, <3>1, NodePut, NodeSlotFacts
    <3>2. CASE UNCHANGED <<net, said>>
      BY <1>0, <3>2
    <3> QED BY <1>1, <3>1, <3>2 DEF Greet
  <2> QED BY <1>0, <1>1, <2>1 DEF Greet, PairInv
<1>2. CASE ReadFrame(e)
  <2>1. Head(net[e]) \in NodeFrame /\ Tail(net[e]) \in Seq(NodeFrame)
    BY <1>0, <1>2, NodeHeadTail DEF ReadFrame
  <2>2. Append(channel[e], Head(net[e])) \in Seq(NodeFrame)
    BY <1>0, <2>1
  <2> QED BY <1>0, <1>2, <2>1, <2>2 DEF ReadFrame, PairInv, TypeOK
<1>3. CASE ReadFlood(e)
  <2>1. Tail(net[e]) \in Seq(NodeFrame) /\ <<>> \in Seq(NodeFrame)
    BY <1>0, <1>3, NodeHeadTail DEF ReadFlood
  <2> QED BY <1>0, <1>3, <2>1 DEF ReadFlood, Stop, PairInv, TypeOK
<1>4. CASE ReadEnd(e) \/ FlushFailed(e)
  <2>1. <<>> \in Seq(NodeFrame)
    OBVIOUS
  <2> QED BY <1>0, <1>4, <2>1 DEF ReadEnd, FlushFailed, Stop, PairInv, TypeOK
<1>5. CASE HandleMessage(e)
  <2>1. Head(channel[e]) \in NodeFrame /\ Tail(channel[e]) \in Seq(NodeFrame)
    BY <1>0, <1>5, NodeHeadTail DEF HandleMessage
  <2>2. Answer(Head(channel[e])) \in NodeSlot
    BY <2>1, NodeSlotFacts
  <2> QED BY <1>0, <1>5, <2>1, <2>2 DEF HandleMessage, PairInv, TypeOK
<1>6. CASE RefuseMessage(e)
  <2>1. Head(channel[e]) \in NodeFrame
    BY <1>0, <1>6, NodeHeadTail DEF RefuseMessage
  <2> QED BY <1>6, <2>1, NodeSlotFacts DEF RefuseMessage
<1>7. CASE Forward(e)
  BY <1>0, <1>7, NodeSlotFacts DEF Forward, PairInv, TypeOK
<1>8. CASE ObserveLag(e) \/ Beat(e)
  BY <1>0, <1>8 DEF ObserveLag, Beat, PairInv
<1>9. CASE Flush(e)
  <2>1. \A d \in End : net'[d] \in Seq(NodeFrame) /\ said'[d] \in Seq(NodeFrame)
    BY <1>0, <1>9, NodePut DEF Flush
  <2> QED BY <1>0, <1>9, <2>1, NodeSlotFacts DEF Flush, PairInv, TypeOK
<1>10. CASE CloseWriter(e)
  <2>1. \A d \in End : net'[d] \in Seq(NodeFrame) /\ said'[d] \in Seq(NodeFrame)
    <3>1. CASE Put(e, writing[e])
      BY <1>0, <3>1, NodePut
    <3>2. CASE UNCHANGED <<net, said>>
      BY <1>0, <3>2
    <3> QED BY <1>10, <3>1, <3>2 DEF CloseWriter
  <2> QED BY <1>0, <1>10, <2>1, NodeSlotFacts DEF CloseWriter, PairInv, TypeOK
<1> QED BY <1>1, <1>2, <1>3, <1>4, <1>5, <1>6, <1>7, <1>8, <1>9, <1>10
        DEF CodeStep, ReadStep, HandlerStep, ReceiveStep, FlushStep

\* Two ends that run the code only ever exchange their three messages.
THEOREM PairInvariant == Spec => []PairInv
<1>1. Init => PairInv
  <2> SUFFICES ASSUME Init PROVE PairInv
    OBVIOUS
  <2>1. <<>> \in Seq(NodeFrame) /\ <<>> \in NodeSlot
    BY NodeSlotFacts
  <2> QED BY <2>1 DEF Init, PairInv
<1>2. TypeOK /\ PairInv /\ [Next]_vars => PairInv'
  <2> SUFFICES ASSUME TypeOK, PairInv, Honest = End, [Next]_vars
               PROVE  PairInv'
    BY DEF PairInv
  <2>1. CASE Reset \/ UNCHANGED vars
    BY <2>1 DEF Reset, vars, PairInv
  <2> QED BY <2>1, PairStep DEF Next
<1> QED BY <1>1, <1>2, SessionTypeCorrect, PTL DEF Spec

\* Two ends that run the code never refuse each other's messages.
THEOREM NodesAgree == Spec => []HonestNeverRefused
<1>1. PairInv => HonestNeverRefused
  BY DEF PairInv, HonestNeverRefused
<1> QED BY <1>1, PairInvariant, PTL

------------------------------------------------------------------------------
\* Flooding.

\* A node says its handshake and at most one answer to another node: the only
\* question among their messages is the handshake.
LEMMA TwoWords ==
  ASSUME TypeOK, AnswersInOrder, PairInv, Honest = End, NEW e \in End
  PROVE  Len(said[e]) <= 2
<1>1. \A d \in End : said[d] \in Seq(Frame) /\ Proper(said[d], said[Other(d)])
  BY DEF TypeOK, AnswersInOrder
<1>2. \A d \in End : \A n \in 1..Len(said[d]) : said[d][n] \in NodeFrame
  BY DEF PairInv
<1>3. ASSUME NEW d \in End PROVE Questions(said[d]) \subseteq {1}
  <2> SUFFICES ASSUME NEW n \in Questions(said[d]), n # 1 PROVE FALSE
    OBVIOUS
  <2>1. n \in 1..Len(said[d]) /\ n \in DOMAIN said[d] /\ Answer(said[d][n]) # <<>>
    BY <1>1 DEF Questions
  <2>2. PICK j \in Questions(said[Other(d)]) : Answer(said[Other(d)][j]) = <<said[d][n]>>
    BY <1>1, <2>1 DEF Proper
  <2>3. Other(d) \in End /\ j \in 1..Len(said[Other(d)])
    BY <1>1, Ends DEF Questions
  <2>4. said[Other(d)][j] \in NodeFrame /\ said[d][n] \in NodeFrame
    BY <1>2, <2>1, <2>3
  <2>5. said[d][n] = Oleh
    BY <2>2, <2>4, NodeMessages DEF NodeFrame
  <2> QED BY <2>1, <2>5, NodeMessages
<1>4. SUFFICES ASSUME Len(said[e]) > 2 PROVE FALSE
  BY <1>1
<1> DEFINE h == said[Other(e)]
<1>5. Other(e) \in End /\ h \in Seq(Frame)
  BY <1>1, Ends
<1>6. 3 \in DOMAIN said[e]
  BY <1>1, <1>4
<1>7. PICK j \in Questions(h) : Asked(h, j) = 2
  BY <1>1, <1>6 DEF Proper
<1>8. {i \in Questions(h) : i <= j} \subseteq {1} /\ j = 1
  BY <1>3, <1>5
<1>9. Asked(h, j) <= 1
  <2>1. IsFiniteSet({1}) /\ Cardinality({1}) = 1
    BY FS_Singleton
  <2> QED BY <2>1, <1>8, FS_Subset DEF Asked
<1> QED BY <1>7, <1>9

\* The frames on their way from an end that runs the code, and the heartbeats
\* that its handler still has to send, are no more than it said and its node
\* broadcast.
Beating(w) == IF w = <<Heartbeat>> THEN 1 ELSE 0
Pending(e) == Len(channel[Other(e)]) + Len(net[Other(e)]) + Beating(writing[e]) + backlog[e]

FlowBound(e) == beats[e] < MaxBeats => Pending(e) <= beats[e] + Len(said[e])
FlowInv == \A e \in Honest : FlowBound(e)

\* A frame leaves the writer or joins the log when it joins the socket.
LEMMA Balance ==
  ASSUME NEW a \in Nat, NEW b \in Nat, NEW c \in Nat, NEW d \in Nat, NEW h \in Nat,
         NEW k \in Nat, a <= b + k, d + h = c + k
  PROVE  a + c <= b + d + h
OBVIOUS

\* A frame goes into the socket.
LEMMA FlowPut ==
  ASSUME TypeOK, NEW e \in End, NEW w \in Slot, Put(e, w)
  PROVE  Len(net'[Other(e)]) + Len(said[e]) <=
           Len(net[Other(e)]) + Len(said'[e]) + Beating(w)
<1> DEFINE o == Other(e)
<1>1. /\ o \in End /\ o # e /\ net[o] \in Seq(Frame) /\ said[e] \in Seq(Frame)
      /\ w \in Seq(Frame)
  BY Ends, SlotFacts DEF TypeOK
<1>2. /\ Len(net[o] \o w) = Len(net[o]) + Len(w)
      /\ Len(said[e] \o w) = Len(said[e]) + Len(w)
      /\ Len(net[o]) \in Nat /\ Len(said[e]) \in Nat /\ Len(w) \in Nat
  BY <1>1
<1>3. w = <<Heartbeat>> => Len(w) = 1
  OBVIOUS
<1>4. net'[o] = net[o] \/ net'[o] = net[o] \o w
  BY <1>1 DEF Put, TypeOK
<1>5. said'[e] = IF w = <<Heartbeat>> THEN said[e] ELSE said[e] \o w
  BY PutEffect
<1>6. Len(net'[o]) <= Len(net[o]) + Len(w)
  BY <1>2, <1>4
<1>7. Len(said'[e]) + Beating(w) = Len(said[e]) + Len(w)
  <2>1. CASE w = <<Heartbeat>>
    BY <2>1, <1>2, <1>5 DEF Beating
  <2>2. CASE w # <<Heartbeat>>
    <3>1. Beating(w) = 0 /\ Len(said'[e]) = Len(said[e]) + Len(w)
      BY <2>2, <1>2, <1>5 DEF Beating
    <3> QED BY <3>1, <1>2
  <2> QED BY <2>1, <2>2
<1>8. /\ Len(net[o]) \in Nat /\ Len(said[e]) \in Nat /\ Len(w) \in Nat
      /\ Len(net'[o]) \in Nat /\ Len(said'[e]) \in Nat /\ Beating(w) \in Nat
  BY <1>2, <1>4, <1>5 DEF Beating
<1> HIDE DEF o
<1> QED BY <1>6, <1>7, <1>8, Balance DEF o

\* What enters the count of an end leaves it again or is accounted for.
LEMMA Carry ==
  ASSUME NEW c \in Nat, NEW n \in Nat, NEW b \in Nat, NEW k \in Nat, NEW s \in Nat,
         NEW x \in Nat, NEW c2 \in Nat, NEW n2 \in Nat, NEW b2 \in Nat, NEW k2 \in Nat,
         NEW s2 \in Nat, NEW x2 \in Nat,
         c + n + b + k <= x + s,
         c2 + n2 + b2 + k2 + s + x <= c + n + b + k + s2 + x2
  PROVE  c2 + n2 + b2 + k2 <= x2 + s2
OBVIOUS

\* What is counted are numbers.
LEMMA Counts ==
  ASSUME TypeOK, NEW e \in End
  PROVE  /\ Len(channel[Other(e)]) \in Nat /\ Len(net[Other(e)]) \in Nat
         /\ Beating(writing[e]) \in Nat /\ backlog[e] \in Nat /\ Len(said[e]) \in Nat
         /\ beats[e] \in Nat
<1>1. Other(e) \in End
  BY Ends
<1> QED BY <1>1, SessionAssumption DEF TypeOK, Beating

\* A step of the code of an end keeps its own bound: what it puts on the wire it
\* says or took from its writer, and what it takes from the ring was broadcast.
LEMMA FlowOwn ==
  ASSUME TypeOK, TypeOK', NEW e \in End, FlowBound(e), CodeStep(e)
  PROVE  FlowBound(e)'
<1> DEFINE o == Other(e)
           c == Len(channel[o])
           n == Len(net[o])
           b == Beating(writing[e])
           k == backlog[e]
           s == Len(said[e])
           x == beats[e]
           c1 == Len(channel'[o])
           n1 == Len(net'[o])
           b1 == Beating(writing'[e])
           k1 == backlog'[e]
           s1 == Len(said'[e])
           x1 == beats'[e]
<1>0. o \in End /\ o # e /\ writing[e] \in Slot /\ Beating(<<>>) = 0
      /\ Beating(<<Heartbeat>>) = 1 /\ Beating(<<Helo>>) = 0
  BY Ends, NodeMessages DEF TypeOK, Beating
<1>1. /\ MaxBeats \in Nat
      /\ c \in Nat /\ n \in Nat /\ b \in Nat /\ k \in Nat /\ s \in Nat /\ x \in Nat
      /\ c1 \in Nat /\ n1 \in Nat /\ b1 \in Nat /\ k1 \in Nat /\ s1 \in Nat /\ x1 \in Nat
  <2>1. c1 \in Nat /\ n1 \in Nat /\ b1 \in Nat /\ k1 \in Nat /\ s1 \in Nat /\ x1 \in Nat
    <3>1. b1 \in Nat
      BY DEF Beating
    <3>2. channel'[o] \in Seq(Frame) /\ net'[o] \in Seq(Frame) /\ said'[e] \in Seq(Frame)
      BY <1>0 DEF TypeOK
    <3>3. c1 \in Nat /\ n1 \in Nat /\ s1 \in Nat
      BY <3>2
    <3>4. k1 \in Nat /\ x1 \in Nat
      BY SessionAssumption DEF TypeOK
    <3> QED BY <3>1, <3>3, <3>4
  <2> QED BY <2>1, Counts, SessionAssumption
<1>2. /\ x1 < MaxBeats => x < MaxBeats
      /\ x1 < MaxBeats => c1 + n1 + b1 + k1 + s + x <= c + n + b + k + s1 + x1
  <2>1. CASE Greet(e)
    <3>1. c1 = c /\ b1 = b /\ k1 = k /\ x1 = x
      BY <2>1 DEF Greet
    <3>2. n1 + s <= n + s1
      <4>1. CASE Put(e, <<Helo>>)
        <5>1. <<Helo>> \in Slot
          BY NodeMessages DEF Slot
        <5>2. n1 + s <= n + s1 + Beating(<<Helo>>)
          BY <4>1, <5>1, FlowPut
        <5> HIDE DEF n, s, n1, s1
        <5> QED BY <5>2, <1>0, <1>1
      <4>2. CASE UNCHANGED <<net, said>>
        BY <4>2, <1>1
      <4> QED BY <2>1, <4>1, <4>2 DEF Greet
    <3> HIDE DEF c, n, b, k, s, x, c1, n1, b1, k1, s1, x1
    <3> QED BY <3>1, <3>2, <1>1
  <2>2. CASE ReadFrame(e)
    <3>1. c1 = c /\ n1 = n /\ b1 = b /\ k1 = k /\ x1 = x /\ s1 = s
      BY <2>2, <1>0 DEF ReadFrame, TypeOK
    <3> HIDE DEF c, n, b, k, s, x, c1, n1, b1, k1, s1, x1
    <3> QED BY <3>1, <1>1
  <2>3. CASE ReadFlood(e) \/ ReadEnd(e) \/ RefuseMessage(e) \/ FlushFailed(e)
    <3>1. c1 = c /\ n1 = n /\ b1 = b /\ k1 = 0 /\ x1 = x /\ s1 = s
      BY <2>3, <1>0 DEF ReadFlood, ReadEnd, RefuseMessage, FlushFailed, Stop, TypeOK
    <3> HIDE DEF c, n, b, k, s, x, c1, n1, b1, k1, s1, x1
    <3> QED BY <3>1, <1>1
  <2>4. CASE HandleMessage(e)
    <3>1. c1 = c /\ n1 = n /\ x1 = x /\ s1 = s
      BY <2>4, <1>0 DEF HandleMessage, TypeOK
    <3>2. b1 = 0
      <4>1. Head(channel[e]) \in Frame /\ ~Refused(Head(channel[e]))
        BY <2>4, HeadTail DEF HandleMessage, TypeOK
      <4>2. writing'[e] # <<Heartbeat>>
        BY <2>4, <4>1, AnswerType DEF HandleMessage, TypeOK
      <4> QED BY <4>2 DEF Beating
    <3>3. k1 <= k
      BY <2>4 DEF HandleMessage, Caught, TypeOK
    <3> HIDE DEF c, n, b, k, s, x, c1, n1, b1, k1, s1, x1
    <3> QED BY <3>1, <3>2, <3>3, <1>1
  <2>5. CASE Forward(e)
    <3>1. c1 = c /\ n1 = n /\ x1 = x /\ s1 = s
      BY <2>5 DEF Forward
    <3>2. b = 0 /\ b1 = 1
      BY <2>5, <1>0 DEF Forward, Selecting, TypeOK
    <3>3. k1 = k - 1
      BY <2>5 DEF Forward, TypeOK
    <3> HIDE DEF c, n, b, k, s, x, c1, n1, b1, k1, s1, x1
    <3> QED BY <3>1, <3>2, <3>3, <1>1
  <2>6. CASE ObserveLag(e)
    <3>1. c1 = c /\ n1 = n /\ b1 = b /\ x1 = x /\ s1 = s
      BY <2>6 DEF ObserveLag
    <3>2. k1 <= k
      BY <2>6 DEF ObserveLag, Caught, TypeOK
    <3> HIDE DEF c, n, b, k, s, x, c1, n1, b1, k1, s1, x1
    <3> QED BY <3>1, <3>2, <1>1
  <2>7. CASE Flush(e) \/ CloseWriter(e)
    <3>1. c1 = c /\ k1 = k /\ x1 = x
      BY <2>7 DEF Flush, CloseWriter
    <3>2. b1 = 0
      BY <2>7, <1>0 DEF Flush, CloseWriter, TypeOK
    <3>3. n1 + s <= n + s1 + b
      <4>1. CASE Put(e, writing[e])
        BY <4>1, <1>0, FlowPut
      <4>2. CASE UNCHANGED <<net, said>>
        <5>1. n1 = n /\ s1 = s
          BY <4>2
        <5> HIDE DEF n, s, b, n1, s1
        <5> QED BY <5>1, <1>1
      <4> QED BY <2>7, <4>1, <4>2 DEF Flush, CloseWriter
    <3> HIDE DEF c, n, b, k, s, x, c1, n1, b1, k1, s1, x1
    <3> QED BY <3>1, <3>2, <3>3, <1>1
  <2>8. CASE Beat(e)
    <3>1. c1 = c /\ n1 = n /\ b1 = b /\ s1 = s
      BY <2>8 DEF Beat
    <3>2. k1 <= k + 1
      BY <2>8 DEF Beat, TypeOK
    <3>3. x1 < MaxBeats => x1 = x + 1
      BY <2>8 DEF Beat, TypeOK
    <3> HIDE DEF c, n, b, k, s, x, c1, n1, b1, k1, s1, x1
    <3> QED BY <3>1, <3>2, <3>3, <1>1
  <2> QED BY <2>1, <2>2, <2>3, <2>4, <2>5, <2>6, <2>7, <2>8
          DEF CodeStep, ReadStep, HandlerStep, ReceiveStep, FlushStep
<1>3. x < MaxBeats => c + n + b + k <= x + s
  BY DEF FlowBound, Pending
<1>4. x1 < MaxBeats => c1 + n1 + b1 + k1 <= x1 + s1
  <2> HIDE DEF c, n, b, k, s, x, c1, n1, b1, k1, s1, x1
  <2> QED BY <1>1, <1>2, <1>3, Carry
<1> QED BY <1>4 DEF FlowBound, Pending

\* A step of the other end only takes frames away.
LEMMA FlowOther ==
  ASSUME TypeOK, TypeOK', NEW e \in End, FlowBound(e),
         CodeStep(Other(e)) \/ PeerStep(Other(e))
  PROVE  FlowBound(e)'
<1> DEFINE o == Other(e)
           c == Len(channel[o])
           n == Len(net[o])
           c1 == Len(channel'[o])
           n1 == Len(net'[o])
<1>0. o \in End /\ o # e /\ Other(o) = e
  BY Ends
<1>1. /\ writing'[e] = writing[e] /\ backlog'[e] = backlog[e] /\ beats'[e] = beats[e]
  BY <1>0 DEF CodeStep, ReadStep, HandlerStep, ReceiveStep, FlushStep, PeerStep,
     Greet, ReadFrame, ReadFlood, ReadEnd, HandleMessage, RefuseMessage, Forward,
     ObserveLag, Flush, FlushFailed, CloseWriter, Beat, PeerSend, PeerRead, PeerClose,
     Stop, TypeOK
<1>2. said'[e] = said[e]
  BY <1>0, OneSpeaks DEF TypeOK
<1>3. c1 \in Nat /\ n1 \in Nat /\ c \in Nat /\ n \in Nat
  <2>1. /\ channel'[o] \in Seq(Frame) /\ net'[o] \in Seq(Frame)
        /\ channel[o] \in Seq(Frame) /\ net[o] \in Seq(Frame)
    BY <1>0 DEF TypeOK
  <2> QED BY <2>1
<1>4. c1 + n1 <= c + n
  <2>1. CASE ReadFrame(o)
    <3>1. c1 = c + 1 /\ n1 = n - 1
      BY <2>1, <1>0, HeadTail DEF ReadFrame, TypeOK
    <3> HIDE DEF c, n, c1, n1
    <3> QED BY <3>1, <1>3
  <2>2. CASE ReadFlood(o) \/ PeerRead(o)
    <3>1. n1 = n - 1 /\ (c1 = 0 \/ c1 = c)
      <4>1. net'[o] = Tail(net[o]) /\ net[o] \in Seq(Frame) /\ net[o] # <<>>
        BY <2>2, <1>0 DEF ReadFlood, PeerRead, TypeOK
      <4>2. channel'[o] = <<>> \/ channel'[o] = channel[o]
        BY <2>2, <1>0 DEF ReadFlood, Stop, PeerRead, TypeOK
      <4> QED BY <4>1, <4>2, HeadTail
    <3> HIDE DEF c, n, c1, n1
    <3> QED BY <3>1, <1>3
  <2>3. CASE ReadEnd(o) \/ RefuseMessage(o) \/ FlushFailed(o)
    <3>1. n1 = n /\ c1 = 0
      <4>1. net'[o] = net[o] /\ channel'[o] = <<>>
        BY <2>3, <1>0 DEF ReadEnd, RefuseMessage, FlushFailed, Stop, TypeOK
      <4> QED BY <4>1
    <3> HIDE DEF c, n, c1, n1
    <3> QED BY <3>1, <1>3
  <2>4. CASE HandleMessage(o)
    <3>1. n1 = n /\ c1 = c - 1
      BY <2>4, <1>0, HeadTail DEF HandleMessage, TypeOK
    <3> HIDE DEF c, n, c1, n1
    <3> QED BY <3>1, <1>3
  <2>5. CASE Forward(o) \/ ObserveLag(o) \/ Beat(o) \/ PeerClose(o)
    <3>1. n1 = n /\ c1 = c
      BY <2>5 DEF Forward, ObserveLag, Beat, PeerClose
    <3> HIDE DEF c, n, c1, n1
    <3> QED BY <3>1, <1>3
  <2>6. CASE Greet(o) \/ Flush(o) \/ CloseWriter(o) \/ PeerSend(o)
    <3>1. n1 = n
      <4>1. (\E w : Put(o, w)) => net'[o] = net[o]
        BY <1>0 DEF Put, TypeOK
      <4>2. (\E w : Put(o, w)) \/ net' = net
        BY <2>6 DEF Greet, Flush, CloseWriter, PeerSend
      <4> QED BY <4>1, <4>2
    <3>2. c1 = c
      BY <2>6 DEF Greet, Flush, CloseWriter, PeerSend
    <3> HIDE DEF c, n, c1, n1
    <3> QED BY <3>1, <3>2, <1>3
  <2> QED BY <2>1, <2>2, <2>3, <2>4, <2>5, <2>6
          DEF CodeStep, ReadStep, HandlerStep, ReceiveStep, FlushStep, PeerStep
<1>5. /\ c + n + Beating(writing[e]) + backlog[e] = Pending(e)
      /\ c1 + n1 + Beating(writing'[e]) + backlog'[e] = Pending(e)'
  BY DEF Pending
<1>6. /\ Beating(writing[e]) \in Nat /\ backlog[e] \in Nat /\ Len(said[e]) \in Nat
      /\ beats[e] \in Nat
  BY Counts
<1> HIDE DEF c, n, c1, n1
<1> QED BY <1>1, <1>2, <1>3, <1>4, <1>5, <1>6 DEF FlowBound

\* What is on its way from an end is bounded by what it said and what its node
\* broadcast, as long as the history counts.
THEOREM FlowInvariant == Spec => []FlowInv
<1>1. Init => FlowInv
  <2> SUFFICES ASSUME Init, NEW e \in Honest PROVE Pending(e) <= beats[e] + Len(said[e])
    BY DEF FlowInv, FlowBound
  <2>1. e \in End /\ Other(e) \in End
    BY SessionAssumption, Ends
  <2> QED BY <2>1 DEF Init, Pending, Beating
<1>2. TypeOK /\ TypeOK' /\ FlowInv /\ [Next]_vars => FlowInv'
  <2> SUFFICES ASSUME TypeOK, TypeOK', FlowInv, [Next]_vars, NEW d \in Honest
               PROVE  FlowBound(d)'
    BY DEF FlowInv, FlowBound
  <2>1. d \in End /\ FlowBound(d)
    BY SessionAssumption DEF FlowInv, FlowBound
  <2>2. CASE Reset \/ UNCHANGED vars
    BY <2>1, <2>2 DEF Reset, vars, FlowBound, Pending
  <2>3. ASSUME NEW e \in Honest, CodeStep(e)
        PROVE  FlowBound(d)'
    <3>1. e = d \/ e = Other(d)
      BY <2>1, SessionAssumption DEF End, Other
    <3> QED BY <2>1, <2>3, <3>1, FlowOwn, FlowOther
  <2>4. ASSUME NEW e \in End \ Honest, PeerStep(e)
        PROVE  FlowBound(d)'
    <3>1. e = Other(d)
      BY <2>1 DEF End, Other
    <3> QED BY <2>1, <2>4, <3>1, FlowOther
  <2> QED BY <2>2, <2>3, <2>4 DEF Next
<1> QED BY <1>1, <1>2, SessionTypeCorrect, PTL DEF Spec

\* Only the end of the select gives a cause, and only a full channel the one of
\* flooding (start, start_read_loop).
LEMMA Causes ==
  ASSUME NEW e \in End, CodeStep(e)
  PROVE  \/ UNCHANGED cause
         \/ ReadFlood(e)
         \/ \E why \in {"peer_closed", "bad_message", "send_failed"} : Stop(e, why)
<1>1. CASE Greet(e) \/ ReadFrame(e) \/ HandleMessage(e) \/ Forward(e) \/ ObserveLag(e)
  BY <1>1 DEF Greet, ReadFrame, HandleMessage, Forward, ObserveLag
<1>2. CASE Flush(e) \/ CloseWriter(e) \/ Beat(e)
  BY <1>2 DEF Flush, CloseWriter, Beat
<1>3. CASE ReadEnd(e) \/ RefuseMessage(e) \/ FlushFailed(e)
  BY <1>3 DEF ReadEnd, RefuseMessage, FlushFailed
<1> QED BY <1>1, <1>2, <1>3
        DEF CodeStep, ReadStep, HandlerStep, ReceiveStep, FlushStep

\* A node is cut off by another for flooding only after it has broadcast at
\* least max_pending_messages - 1 heartbeats, if the history counts that far.
THEOREM NoFloodWithoutHeartbeats ==
  ASSUME MaxBeats >= MaxPending - 1
  PROVE  Spec => []FloodNeedsHeartbeats
<1> DEFINE FloodsSeen == \A e \in End \ Honest : cause[e] # "flood"
           Inv == FloodNeedsHeartbeats /\ FloodsSeen
<1>1. Init => Inv
  BY DEF Init, FloodNeedsHeartbeats
<1>2. TypeOK /\ TypeOK' /\ AnswersInOrder /\ PairInv /\ FlowInv /\ Inv /\ [Next]_vars => Inv'
  <2> SUFFICES ASSUME TypeOK, TypeOK', AnswersInOrder, PairInv, FlowInv, Inv, [Next]_vars
               PROVE  Inv'
    OBVIOUS
  <2>1. CASE Reset \/ UNCHANGED vars
    BY <2>1 DEF Reset, vars, FloodNeedsHeartbeats
  <2>2. ASSUME NEW e \in End \ Honest, PeerStep(e)
        PROVE  Inv'
    BY <2>2 DEF PeerStep, PeerSend, PeerRead, PeerClose, FloodNeedsHeartbeats
  <2>3. ASSUME NEW e \in Honest, CodeStep(e)
        PROVE  Inv'
    <3>0. e \in End /\ e \notin End \ Honest
      BY SessionAssumption
    <3>1. \A d \in End : d # e => cause'[d] = cause[d]
      <4>1. UNCHANGED cause \/ \E why : cause' = [cause EXCEPT ![e] = why]
        BY <2>3, <3>0, Causes DEF ReadFlood, Stop
      <4> QED BY <4>1 DEF TypeOK
    <3>2. \A d \in End : beats'[d] >= beats[d] /\ beats[d] \in Nat /\ beats'[d] \in Nat
      <4>1. CASE Beat(e)
        BY <4>1, <3>0, SessionAssumption DEF Beat, TypeOK
      <4>2. CASE ~Beat(e)
        <5>1. UNCHANGED beats
          BY <2>3, <4>2 DEF CodeStep, ReadStep, HandlerStep, ReceiveStep, FlushStep,
             Greet, ReadFrame, ReadFlood, ReadEnd, HandleMessage, RefuseMessage, Forward,
             ObserveLag, Flush, FlushFailed, CloseWriter
        <5> QED BY <5>1, SessionAssumption DEF TypeOK
      <4> QED BY <4>1, <4>2
    <3>3. FloodsSeen'
      BY <3>0, <3>1
    <3>4. ASSUME Other(e) \in Honest, cause'[e] = "flood", cause[e] # "flood"
          PROVE  beats[Other(e)] >= MaxPending - 1
      <4> DEFINE o == Other(e)
                 c == Len(channel[e])
                 n == Len(net[e])
                 b == Beating(writing[o])
                 s == Len(said[o])
      <4>1. o \in End /\ Other(o) = e /\ Honest = End
        <5>1. o \in End /\ Other(o) = e /\ End = {e, o}
          BY <3>0 DEF End, Other
        <5> QED BY <5>1, <3>4, SessionAssumption
      <4>2. ReadFlood(e)
        BY <2>3, <3>0, <3>4, Causes DEF Stop, TypeOK
      <4>3. c = MaxPending /\ n \in Nat \ {0}
        BY <4>2, <3>0, HeadTail DEF ReadFlood, Full, TypeOK
      <4>4. s <= 2
        BY <4>1, TwoWords
      <4>5. b \in Nat /\ backlog[o] \in Nat /\ s \in Nat /\ beats[o] \in Nat
        BY <4>1, Counts
      <4>6. beats[o] < MaxBeats => c + n + b + backlog[o] <= beats[o] + s
        BY <4>1 DEF FlowInv, FlowBound, Pending
      <4>7. MaxPending \in Nat /\ MaxBeats \in Nat
        BY SessionAssumption
      <4> HIDE DEF o, c, n, b, s
      <4>8. beats[o] >= MaxPending - 1
        <5>1. CASE beats[o] < MaxBeats
          BY <5>1, <4>3, <4>4, <4>5, <4>6, <4>7
        <5>2. CASE ~(beats[o] < MaxBeats)
          BY <5>2, <4>5, <4>7
        <5> QED BY <5>1, <5>2
      <4> QED BY <4>8 DEF o
    <3>5. FloodNeedsHeartbeats'
      <4> SUFFICES ASSUME NEW d \in End, Other(d) \in Honest, cause'[d] = "flood"
                   PROVE  beats'[Other(d)] >= MaxPending - 1
        BY DEF FloodNeedsHeartbeats
      <4>1. beats[Other(d)] >= MaxPending - 1
        BY <3>1, <3>4 DEF FloodNeedsHeartbeats
      <4>2. Other(d) \in End
        BY Ends
      <4> QED BY <4>1, <4>2, <3>2, SessionAssumption
    <3> QED BY <3>3, <3>5
  <2> QED BY <2>1, <2>2, <2>3 DEF Next
<1>3. Inv => FloodNeedsHeartbeats
  OBVIOUS
<1> HIDE DEF Inv
<1> QED BY <1>1, <1>2, <1>3, SessionTypeCorrect, AnswersAreInOrder, PairInvariant,
           FlowInvariant, PTL DEF Spec
==============================================================================
