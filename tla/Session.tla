-------------------------------- MODULE Session --------------------------------
(***************************************************************************)
(* One TCP connection between two peers, from the moment both connection   *)
(* tasks are spawned to their end (start, start_read_loop,                 *)
(* start_message_handler and handle_received in node/connection/src).  An  *)
(* end in Honest runs the code; any other end is a peer that sends frames  *)
(* and closes as it likes.                                                 *)
(*                                                                         *)
(* The read loop and the message handler of an end are two futures of one  *)
(* select: while the handler waits for a frame to be flushed, the read     *)
(* loop goes on reading into the bounded channel.                          *)
(***************************************************************************)
EXTENDS Integers, Sequences, SequencesExt, Protocol

CONSTANTS
  Honest,           \* the ends that run the code
  MaxPending,       \* max_pending_messages, the capacity of the mpsc channel
  MaxSendToAll,     \* max_pending_send_to_all, the capacity of the broadcast
                    \* ring (tokio rounds it up to a power of two)
  SocketCapacity,   \* frames that fit between a writer and the reader it feeds
  PeerFrames,       \* what an end that does not run the code may send
  MaxPeerFrames,    \* how many of them it sends
  MaxBeats          \* heartbeats are counted up to here

End == {"a", "b"}
Other(e) == IF e = "a" THEN "b" ELSE "a"

ASSUME SessionAssumption ==
  /\ Honest \subseteq End
  /\ MaxPending \in Nat \ {0}
  /\ MaxSendToAll \in Nat \ {0}
  /\ SocketCapacity \in Nat \ {0}
  /\ PeerFrames \subseteq Frame
  /\ MaxPeerFrames \in Nat
  /\ MaxBeats \in Nat

VARIABLES
  phase,     \* where start is
  net,       \* frames on their way to each end, in the sockets and the decoder
  broken,    \* has the connection been reset?
  channel,   \* the mpsc channel from the read loop to the handler
  writing,   \* the frame the handler is sending, if any
  backlog,   \* heartbeats in the ring that the receiver of each end has not seen
  muted,     \* has the select of the handler disabled its send_to_all branch?
  cause,     \* why the select of start ended
  beats,     \* history: heartbeats broadcast by the node of each end, saturating
  said       \* history: every frame but heartbeats that each end put on the wire

vars == <<phase, net, broken, channel, writing, backlog, muted, cause, beats, said>>

Heartbeat == as_bytes(HeartbeatStart)
Helo == as_bytes(HandshakeStart)

\* What a writer holds: a frame or nothing.
Slot == {<<>>} \cup {<<f>> : f \in Frame}

TypeOK ==
  /\ phase \in [End -> {"greeting", "serving", "closing", "closed"}]
  /\ net \in [End -> Seq(Frame)]
  /\ broken \in BOOLEAN
  /\ channel \in [End -> Seq(Frame)]
  /\ \A e \in End : Len(net[e]) <= SocketCapacity /\ Len(channel[e]) <= MaxPending
  /\ writing \in [End -> Slot]
  /\ backlog \in [End -> 0..(MaxSendToAll + 1)]
  /\ muted \in [End -> BOOLEAN]
  /\ cause \in [End -> {"none", "peer_closed", "flood", "bad_message", "send_failed"}]
  /\ beats \in [End -> 0..MaxBeats]
  /\ said \in [End -> Seq(Frame)]

\* An end whose connection manager refuses the connection closes at once.
Init ==
  /\ phase \in [End -> {"greeting", "closed"}]
  /\ net = [e \in End |-> <<>>]
  /\ broken = FALSE
  /\ channel = [e \in End |-> <<>>]
  /\ writing = [e \in End |-> <<>>]
  /\ backlog = [e \in End |-> 0]
  /\ muted = [e \in End |-> FALSE]
  /\ cause = [e \in End |-> "none"]
  /\ beats = [e \in End |-> 0]
  /\ said = [e \in End |-> <<>>]

------------------------------------------------------------------------------
\* The socket.

\* The socket of e takes another frame: there is room, or the other end is
\* closed and what is sent to it is lost.
Writable(e) ==
  phase[Other(e)] = "closed" \/ Len(net[Other(e)]) < SocketCapacity

\* Frames, none or one, go into the socket of e.
Put(e, frames) ==
  /\ net' = IF phase[Other(e)] = "closed" THEN net
            ELSE [net EXCEPT ![Other(e)] = @ \o frames]
  /\ said' = IF frames = <<Heartbeat>> THEN said ELSE [said EXCEPT ![e] = @ \o frames]

\* The network, or the operating system of an end that was closed, resets the
\* connection.
Reset ==
  /\ ~broken
  /\ broken' = TRUE
  /\ UNCHANGED <<phase, net, channel, writing, backlog, muted, cause, beats, said>>

------------------------------------------------------------------------------
\* start

\* The handshake is sent.  An error is ignored.
Greet(e) ==
  /\ phase[e] = "greeting"
  /\ \/ ~broken /\ Writable(e) /\ Put(e, <<Helo>>)
     \/ broken /\ UNCHANGED <<net, said>>
  /\ phase' = [phase EXCEPT ![e] = "serving"]
  /\ UNCHANGED <<broken, channel, writing, backlog, muted, cause, beats>>

\* The select ends: both futures are dropped and with them what is queued for
\* the handler and the receiver of the ring.  A frame in the writer stays.
Stop(e, why) ==
  /\ phase' = [phase EXCEPT ![e] = "closing"]
  /\ channel' = [channel EXCEPT ![e] = <<>>]
  /\ backlog' = [backlog EXCEPT ![e] = 0]
  /\ muted' = [muted EXCEPT ![e] = FALSE]
  /\ cause' = [cause EXCEPT ![e] = why]

\* Mutant of Closable: closing waits for the peer to close as well.
ClosableLast(e) == phase[Other(e)] = "closed"

\* The writer holds no frame, or the socket takes it.
Closable(e) == writing[e] = <<>> \/ Writable(e)

\* writer.close: what the writer holds is flushed, then the socket is shut
\* down.  An error is ignored.  The task ends and both halves are dropped.
CloseWriter(e) ==
  /\ phase[e] = "closing"
  /\ \/ ~broken /\ Closable(e) /\ Put(e, writing[e])
     \/ broken /\ UNCHANGED <<net, said>>
  /\ phase' = [phase EXCEPT ![e] = "closed"]
  /\ writing' = [writing EXCEPT ![e] = <<>>]
  /\ UNCHANGED <<broken, channel, backlog, muted, cause, beats>>

------------------------------------------------------------------------------
\* start_read_loop

\* Mutants of Full: the channel is not bounded; it holds one message less.
FullNever(e) == FALSE
FullEarly(e) == Len(channel[e]) >= MaxPending - 1

\* try_send finds no room in the channel.
Full(e) == Len(channel[e]) = MaxPending

\* A frame is read and there is room for it in the channel.
ReadFrame(e) ==
  /\ phase[e] = "serving"
  /\ net[e] # <<>>
  /\ ~Full(e)
  /\ net' = [net EXCEPT ![e] = Tail(@)]
  /\ channel' = [channel EXCEPT ![e] = Append(@, Head(net[e]))]
  /\ UNCHANGED <<phase, broken, writing, backlog, muted, cause, beats, said>>

\* A frame is read and try_send finds the channel full.
ReadFlood(e) ==
  /\ phase[e] = "serving"
  /\ net[e] # <<>>
  /\ Full(e)
  /\ net' = [net EXCEPT ![e] = Tail(@)]
  /\ Stop(e, "flood")
  /\ UNCHANGED <<broken, writing, beats, said>>

\* Mutant of AtEnd: the end of the stream is not an error.
AtEndOnReset(e) == broken

\* reader.next returns no frame: the stream is at its end or fails.
AtEnd(e) == broken \/ (net[e] = <<>> /\ phase[Other(e)] = "closed")

\* The read loop returns at the end of the stream.
ReadEnd(e) ==
  /\ phase[e] = "serving"
  /\ AtEnd(e)
  /\ Stop(e, "peer_closed")
  /\ UNCHANGED <<net, broken, writing, beats, said>>

------------------------------------------------------------------------------
\* start_message_handler

\* The handler is in its select.
Selecting(e) == phase[e] = "serving" /\ writing[e] = <<>>

\* What is left in the ring once the receiver has been polled: a receiver that
\* fell behind skips to the oldest heartbeat that is kept.
Caught(n) == IF n > MaxSendToAll THEN MaxSendToAll ELSE n

\* Mutant of HandleMessage: the newest message is taken first.
HandleMessageNewest(e) ==
  /\ Selecting(e)
  /\ channel[e] # <<>>
  /\ ~Refused(Last(channel[e]))
  /\ channel' = [channel EXCEPT ![e] = Front(@)]
  /\ writing' = [writing EXCEPT ![e] = Answer(Last(channel[e]))]
  /\ \E n \in {backlog[e], Caught(backlog[e])} : backlog' = [backlog EXCEPT ![e] = n]
  /\ muted' = [muted EXCEPT ![e] = FALSE]
  /\ UNCHANGED <<phase, net, broken, cause, beats, said>>

\* The handler takes a message and handle_received answers it, if it has an
\* answer.  The select may have polled the ring first and found it lagging.
\* The next turn of the loop enables both branches again.
HandleMessage(e) ==
  /\ Selecting(e)
  /\ channel[e] # <<>>
  /\ ~Refused(Head(channel[e]))
  /\ channel' = [channel EXCEPT ![e] = Tail(@)]
  /\ writing' = [writing EXCEPT ![e] = Answer(Head(channel[e]))]
  /\ \E n \in {backlog[e], Caught(backlog[e])} : backlog' = [backlog EXCEPT ![e] = n]
  /\ muted' = [muted EXCEPT ![e] = FALSE]
  /\ UNCHANGED <<phase, net, broken, cause, beats, said>>

\* Mutant of RefuseMessage: the error of handle_received is only logged.
RefuseMessageIgnored(e) ==
  /\ Selecting(e)
  /\ channel[e] # <<>>
  /\ Refused(Head(channel[e]))
  /\ channel' = [channel EXCEPT ![e] = Tail(@)]
  /\ UNCHANGED <<phase, net, broken, writing, backlog, muted, cause, beats, said>>

\* The handler takes a message that does not parse or is no valid handshake,
\* and returns.
RefuseMessage(e) ==
  /\ Selecting(e)
  /\ channel[e] # <<>>
  /\ Refused(Head(channel[e]))
  /\ Stop(e, "bad_message")
  /\ UNCHANGED <<net, broken, writing, beats, said>>

\* The handler takes a heartbeat from the ring.
Forward(e) ==
  /\ Selecting(e)
  /\ ~muted[e]
  /\ backlog[e] \in 1..MaxSendToAll
  /\ writing' = [writing EXCEPT ![e] = <<Heartbeat>>]
  /\ backlog' = [backlog EXCEPT ![e] = @ - 1]
  /\ UNCHANGED <<phase, net, broken, channel, muted, cause, beats, said>>

\* The receiver of the ring returns Lagged, which does not match the pattern
\* of its branch: the select disables the branch and waits for the other one.
ObserveLag(e) ==
  /\ Selecting(e)
  /\ ~muted[e]
  /\ channel[e] = <<>>
  /\ backlog[e] > MaxSendToAll
  /\ backlog' = [backlog EXCEPT ![e] = Caught(@)]
  /\ muted' = [muted EXCEPT ![e] = TRUE]
  /\ UNCHANGED <<phase, net, broken, channel, writing, cause, beats, said>>

\* writer.send returns.
Flush(e) ==
  /\ phase[e] = "serving"
  /\ writing[e] # <<>>
  /\ ~broken
  /\ Writable(e)
  /\ Put(e, writing[e])
  /\ writing' = [writing EXCEPT ![e] = <<>>]
  /\ UNCHANGED <<phase, broken, channel, backlog, muted, cause, beats>>

\* writer.send fails and the handler returns.
FlushFailed(e) ==
  /\ phase[e] = "serving"
  /\ writing[e] # <<>>
  /\ broken
  /\ Stop(e, "send_failed")
  /\ UNCHANGED <<net, broken, writing, beats, said>>

------------------------------------------------------------------------------
\* The node of end e broadcasts a heartbeat; the receiver of e is alive from
\* the spawn of its task to the end of its select (start_heartbeat).  A full
\* ring drops its oldest heartbeat.
Beat(e) ==
  /\ phase[e] \in {"greeting", "serving"}
  /\ backlog' = [backlog EXCEPT ![e] = IF @ > MaxSendToAll THEN @ ELSE @ + 1]
  /\ beats' = [beats EXCEPT ![e] = IF @ < MaxBeats THEN @ + 1 ELSE @]
  /\ UNCHANGED <<phase, net, broken, channel, writing, muted, cause, said>>

\* A peer that does not run the code sends a frame, reads one, or closes.
PeerSend(e) ==
  /\ phase[e] # "closed"
  /\ ~broken
  /\ Writable(e)
  /\ Len(said[e]) < MaxPeerFrames
  /\ \E f \in PeerFrames : Put(e, <<f>>)
  /\ UNCHANGED <<phase, broken, channel, writing, backlog, muted, cause, beats>>

PeerRead(e) ==
  /\ phase[e] # "closed"
  /\ net[e] # <<>>
  /\ net' = [net EXCEPT ![e] = Tail(@)]
  /\ UNCHANGED <<phase, broken, channel, writing, backlog, muted, cause, beats, said>>

PeerClose(e) ==
  /\ phase[e] # "closed"
  /\ phase' = [phase EXCEPT ![e] = "closed"]
  /\ UNCHANGED <<net, broken, channel, writing, backlog, muted, cause, beats, said>>

------------------------------------------------------------------------------
ReadStep(e) == ReadFrame(e) \/ ReadFlood(e) \/ ReadEnd(e)
FlushStep(e) == Flush(e) \/ FlushFailed(e)
ReceiveStep(e) == HandleMessage(e) \/ RefuseMessage(e)
HandlerStep(e) == ReceiveStep(e) \/ Forward(e) \/ ObserveLag(e) \/ FlushStep(e)
CodeStep(e) == Greet(e) \/ ReadStep(e) \/ HandlerStep(e) \/ CloseWriter(e) \/ Beat(e)
PeerStep(e) == PeerSend(e) \/ PeerRead(e) \/ PeerClose(e)

Next ==
  \/ \E e \in Honest : CodeStep(e)
  \/ \E e \in End \ Honest : PeerStep(e)
  \/ Reset

Spec == Init /\ [][Next]_vars

\* The runtime polls both futures of the select of start whenever one of them
\* can make progress.  The select of the handler polls its two branches in
\* random order, so neither a message nor a heartbeat that stays available
\* whenever the handler returns to its select is passed over for ever: strong
\* fairness.  The heartbeat task keeps broadcasting.
FairEnd(e) ==
  /\ WF_vars(Greet(e))
  /\ WF_vars(ReadStep(e))
  /\ SF_vars(ReceiveStep(e))
  /\ SF_vars(Forward(e))
  /\ WF_vars(ObserveLag(e))
  /\ WF_vars(FlushStep(e))
  /\ WF_vars(CloseWriter(e))
  /\ WF_vars(Beat(e))

\* Nothing is assumed of a peer that does not run the code ...
CodeFairSpec == Spec /\ \A e \in Honest : FairEnd(e)

\* ... or only that it keeps reading.
FairSpec == CodeFairSpec /\ \A e \in End \ Honest : WF_vars(PeerRead(e))

------------------------------------------------------------------------------
\* Safety.

\* Whatever the peer sends and however reading, handling and heartbeats
\* interleave, an end puts its handshake on the wire first and then the
\* answers to a prefix of what it was sent, in order, none twice and none
\* after a refused frame (start, start_read_loop, start_message_handler,
\* handle_received).
AnswersInOrder ==
  \A e \in Honest : Proper(said[e], said[Other(e)])

\* The two logs and who has left, as an exchange.
Left == [e \in End |-> phase[e] = "closed"]
Conversation == INSTANCE Exchange WITH log <- said, over <- Left

\* However the code reads, queues, flushes and closes, the connection is an
\* exchange: each step adds at most one frame to one log, an end that runs the
\* code says only what the other's frames call for, and an end that has closed
\* never speaks again (start, start_message_handler, handle_received).
ExchangeRefined == Conversation!Spec

\* Two ends that run the code never refuse each other's messages
\* (handle_received, HandshakeMessage::response_for_received).
HonestNeverRefused == Honest = End => \A e \in End : cause[e] # "bad_message"

\* An end that runs the code is cut off for flooding only if its node has
\* broadcast at least max_pending_messages - 1 heartbeats since the connection
\* was made: the handshakes alone never fill the channel (start_read_loop).
FloodNeedsHeartbeats ==
  \A e \in End :
    Other(e) \in Honest /\ cause[e] = "flood" => beats[Other(e)] >= MaxPending - 1

------------------------------------------------------------------------------
\* Liveness, under FairSpec.

\* When one of two ends that run the code stops, both tasks end: no pair of
\* ends waits for ever for room in each other's sockets (start, writer.close).
TeardownCompletes ==
  \A e \in Honest :
    (Honest = End /\ phase[e] \in {"closing", "closed"})
      ~> (\A d \in End : phase[d] = "closed")

\* The handshake of an end is answered or the connection ends, however many
\* heartbeats compete with the answer and even after the receiver of the ring
\* lagged (start_message_handler, handle_received).
HandshakeAnswered ==
  \A e \in Honest :
    (Honest = End /\ Contains(said[e], Helo))
      ~> (Len(said[Other(e)]) = 2 \/ phase[e] = "closed")

\* A peer that sends a refused frame and keeps reading is disconnected
\* (start_message_handler, start).
BadPeerDropped ==
  \A e \in Honest :
    (\E f \in ToSet(said[Other(e)]) : Refused(f)) ~> (phase[e] = "closed")

\* What the test it_should_shutdown_connection_if_peer_is_flooding_it expects:
\* a connection that is cut off for flooding is closed and its task ends
\* (start_read_loop, writer.close in start).
FlooderShutDown ==
  \A e \in Honest : (cause[e] = "flood") ~> (phase[e] = "closed")

\* What the comment on start_heartbeat says ("Start a task to send heartbeats
\* every given duration period"): a heartbeat that is broadcast is eventually
\* sent on every connection that stays open.
HeartbeatsReachPeer ==
  \A e \in Honest : (backlog[e] > 0) ~> (writing[e] = <<Heartbeat>> \/ phase[e] = "closed")

==============================================================================
