--------------------------------- MODULE Node ---------------------------------
(***************************************************************************)
(* The tasks of one braidpool node and what they share                     *)
(* (node/run/src/main.rs, node/connection/src/lib.rs): main, which spawns  *)
(* the heartbeat task and one connect task per seed and then runs the      *)
(* accept loop; one task per connection, from the spawn in                 *)
(* start_connection to the end of start; the heartbeat task.  They share   *)
(* the ConnectionManager, the receivers of the send_to_all broadcast       *)
(* channel and the permit of the Notify that resets the heartbeat.  What a *)
(* connection reads and writes while it serves is the subject of module    *)
(* Session.                                                                *)
(***************************************************************************)
EXTENDS ConnectionManager

CONSTANTS
  Seed,         \* entries of config.peer.seeds
  SeedAddr,     \* the address each seed resolves to, the key of its entry
  Inbound,      \* slots for accepted connections, reused when one ends
  PeerAddr,     \* source addresses peers connect from
  NoAddr,       \* the address of a slot that is not in use
  PeersRebind   \* may a peer connect again from its address before the task
                \* of its broken connection has cleaned up?

Conn == Seed \cup Inbound

\* The created_at stamp of an entry is the instant at which one connection
\* task registered: it is modelled by the identity of that task.
ASSUME NodeAssumption ==
  /\ Metadata = Conn
  /\ Seed \cap Inbound = {}
  /\ SeedAddr \in [Seed -> Addr]
  /\ PeerAddr \subseteq Addr
  /\ NoAddr \notin Addr
  /\ PeersRebind \in BOOLEAN

VARIABLES
  phase,        \* where the task of each connection is
  addr,         \* the addr argument of start
  sock,         \* does the TCP connection still hold the peer's address?
  subscribed,   \* connections whose send_to_all receiver is alive
  shared_state, \* the map of the ConnectionManager
  main,         \* where main is: its seed loop, then start_listen
  permit,       \* the permit stored in the Notify
  heartbeat     \* where the heartbeat task is

vars == <<phase, addr, sock, subscribed, shared_state, main, permit, heartbeat>>

Phases == {"idle",        \* not started (again)
           "connecting",  \* in TcpStream::connect
           "spawned",     \* the task running start is spawned
           "greeting",    \* registered, sending the handshake
           "serving",     \* in the select of read loop and message handler
           "closing",     \* in writer.close
           "removing",    \* about to call manager.remove
           "done"}        \* a seed is connected to once only

\* The phases between manager.insert and manager.remove.
Registered(c) == phase[c] \in {"greeting", "serving", "closing", "removing"}

\* The phases in which the task of a connection exists.
Live(c) == phase[c] \notin {"idle", "done"}

Running == main # "exited"

\* A receiver of the broadcast channel is owned by the task it was made for.
TypeOK ==
  /\ phase \in [Conn -> Phases]
  /\ addr \in [Conn -> Addr \cup {NoAddr}]
  /\ sock \in [Conn -> BOOLEAN]
  /\ subscribed \subseteq {c \in Conn : Live(c)}
  /\ shared_state \in Map
  /\ main \in {"seeding", "notify", "accepting", "exited"}
  /\ permit \in BOOLEAN
  /\ heartbeat \in {"waiting", "sending", "panicked"}

Init ==
  /\ phase = [c \in Conn |-> "idle"]
  /\ addr = [c \in Conn |-> NoAddr]
  /\ sock = [c \in Conn |-> FALSE]
  /\ subscribed = {}
  /\ shared_state = EmptyMap
  /\ main = "seeding"
  /\ permit = FALSE
  /\ heartbeat = "waiting"

------------------------------------------------------------------------------
\* main: the seed loop, then the accept loop of start_listen.

\* Mutant of Subscribe: the task is spawned without a receiver.
SubscribeNot(c) == UNCHANGED subscribed

\* send_to_all.subscribe(): a receiver for the task of c.
Subscribe(c) == subscribed' = subscribed \cup {c}

\* One turn of main's seed loop: connect is spawned with a new receiver.
SpawnConnect(c) ==
  /\ main = "seeding"
  /\ c \in Seed
  /\ phase[c] = "idle"
  /\ phase' = [phase EXCEPT ![c] = "connecting"]
  /\ addr' = [addr EXCEPT ![c] = SeedAddr[c]]
  /\ Subscribe(c)
  /\ UNCHANGED <<sock, shared_state, main, permit, heartbeat>>

SeedsSpawned == main = "seeding" /\ \A c \in Seed : phase[c] # "idle"

\* TcpListener::bind succeeds and the accept loop starts.
Bind ==
  /\ SeedsSpawned
  /\ main' = "notify"
  /\ UNCHANGED <<phase, addr, sock, subscribed, shared_state, permit, heartbeat>>

\* TcpListener::bind fails: start_listen returns, main returns, and the
\* runtime is dropped with every task in it.
BindFailed ==
  /\ SeedsSpawned
  /\ main' = "exited"
  /\ UNCHANGED <<phase, addr, sock, subscribed, shared_state, permit, heartbeat>>

\* The head of the accept loop stores a permit in the Notify.
NotifyOne ==
  /\ main = "notify"
  /\ main' = "accepting"
  /\ permit' = TRUE
  /\ UNCHANGED <<phase, addr, sock, subscribed, shared_state, heartbeat>>

\* listener.accept returns a connection from address a and start_connection
\* spawns its task with a new receiver.  Two TCP connections to the listening
\* port never hold the same peer address at once.
Accept(c, a) ==
  /\ main = "accepting"
  /\ c \in Inbound
  /\ phase[c] = "idle"
  /\ \A d \in Inbound : addr[d] = a => ~sock[d]
  /\ PeersRebind \/ \A d \in Conn : addr[d] # a
  /\ main' = "notify"
  /\ phase' = [phase EXCEPT ![c] = "spawned"]
  /\ addr' = [addr EXCEPT ![c] = a]
  /\ sock' = [sock EXCEPT ![c] = TRUE]
  /\ Subscribe(c)
  /\ UNCHANGED <<shared_state, permit, heartbeat>>

\* listener.accept returns an error, which is only logged.
AcceptFailed ==
  /\ main = "accepting"
  /\ main' = "notify"
  /\ UNCHANGED <<phase, addr, sock, subscribed, shared_state, permit, heartbeat>>

------------------------------------------------------------------------------
\* The task of a connection.  Tasks run until main returns.

\* Mutant of Ended: the receiver is lent to the task and outlives it.
EndedKeepsReceiver(c) ==
  /\ phase' = [phase EXCEPT ![c] = IF c \in Seed THEN "done" ELSE "idle"]
  /\ addr' = [addr EXCEPT ![c] = NoAddr]
  /\ sock' = [sock EXCEPT ![c] = FALSE]
  /\ UNCHANGED subscribed

\* The task ends: what it owns is dropped.  An inbound slot becomes free, a
\* seed is never connected to again.
Ended(c) ==
  /\ phase' = [phase EXCEPT ![c] = IF c \in Seed THEN "done" ELSE "idle"]
  /\ addr' = [addr EXCEPT ![c] = NoAddr]
  /\ sock' = [sock EXCEPT ![c] = FALSE]
  /\ subscribed' = subscribed \ {c}

\* connect: the TCP connection is made, the name resolves and
\* start_connection spawns the task.
Connected(c) ==
  /\ Running
  /\ phase[c] = "connecting"
  /\ phase' = [phase EXCEPT ![c] = "spawned"]
  /\ sock' = [sock EXCEPT ![c] = TRUE]
  /\ UNCHANGED <<addr, subscribed, shared_state, main, permit, heartbeat>>

\* connect: TcpStream::connect fails, whose expect ends the task, or the name
\* does not resolve, which ends it quietly.  Nothing tries again.
ConnectFailed(c) ==
  /\ Running
  /\ phase[c] = "connecting"
  /\ Ended(c)
  /\ UNCHANGED <<shared_state, main, permit, heartbeat>>

\* start: manager.insert succeeds.
Register(c) ==
  /\ Running
  /\ phase[c] = "spawned"
  /\ ~LimitReached(shared_state)
  /\ shared_state' = Inserted(shared_state, addr[c], c)
  /\ phase' = [phase EXCEPT ![c] = "greeting"]
  /\ UNCHANGED <<addr, sock, subscribed, main, permit, heartbeat>>

\* start: manager.insert is refused and start returns.
Refuse(c) ==
  /\ Running
  /\ phase[c] = "spawned"
  /\ LimitReached(shared_state)
  /\ Ended(c)
  /\ UNCHANGED <<shared_state, main, permit, heartbeat>>

\* start: the handshake is sent; a failure to send it is ignored.
Greet(c) ==
  /\ Running
  /\ phase[c] = "greeting"
  /\ phase' = [phase EXCEPT ![c] = "serving"]
  /\ UNCHANGED <<addr, sock, subscribed, shared_state, main, permit, heartbeat>>

\* Mutant of StopServing: the entry is removed before the writer is closed.
StopServingRemoves(c) ==
  /\ Running
  /\ phase[c] = "serving"
  /\ phase' = [phase EXCEPT ![c] = "closing"]
  /\ subscribed' = subscribed \ {c}
  /\ shared_state' = Removed(shared_state, addr[c])
  /\ UNCHANGED <<addr, sock, main, permit, heartbeat>>

\* Mutant of SelectEnds: the read loop does not return at the end of the stream.
SelectEndsWhileOpen(c) == phase[c] = "serving" /\ sock[c]

\* The select of start may end.
SelectEnds(c) == phase[c] = "serving"

\* start: the read loop or the message handler returns.  The futures of the
\* select are dropped, and with the handler goes the send_to_all receiver it
\* owns, before the body of the branch closes the channel.
StopServing(c) ==
  /\ Running
  /\ SelectEnds(c)
  /\ phase' = [phase EXCEPT ![c] = "closing"]
  /\ subscribed' = subscribed \ {c}
  /\ UNCHANGED <<addr, sock, shared_state, main, permit, heartbeat>>

\* start: writer.close returns; its result is ignored.
CloseWriter(c) ==
  /\ Running
  /\ phase[c] = "closing"
  /\ phase' = [phase EXCEPT ![c] = "removing"]
  /\ UNCHANGED <<addr, sock, subscribed, shared_state, main, permit, heartbeat>>

\* Mutant of Remove: start ends without manager.remove.
RemoveForgotten(c) ==
  /\ Running
  /\ phase[c] = "removing"
  /\ Ended(c)
  /\ UNCHANGED <<shared_state, main, permit, heartbeat>>

\* start: manager.remove, then the task ends.
Remove(c) ==
  /\ Running
  /\ phase[c] = "removing"
  /\ shared_state' = Removed(shared_state, addr[c])
  /\ Ended(c)
  /\ UNCHANGED <<main, permit, heartbeat>>

\* The peer closes or resets its end, after which its address is free.
PeerGone(c) ==
  /\ Running
  /\ sock[c]
  /\ sock' = [sock EXCEPT ![c] = FALSE]
  /\ UNCHANGED <<phase, addr, subscribed, shared_state, main, permit, heartbeat>>

------------------------------------------------------------------------------
\* The heartbeat task.  A tick that finds no connection changes nothing.

\* interval.tick: the table is found not empty and its lock is released.
HeartbeatTick ==
  /\ Running
  /\ heartbeat = "waiting"
  /\ num_connections(shared_state) > 0
  /\ heartbeat' = "sending"
  /\ UNCHANGED <<phase, addr, sock, subscribed, shared_state, main, permit>>

\* sender.send reaches the receivers that are alive.
HeartbeatSend ==
  /\ Running
  /\ heartbeat = "sending"
  /\ subscribed # {}
  /\ heartbeat' = "waiting"
  /\ UNCHANGED <<phase, addr, sock, subscribed, shared_state, main, permit>>

\* sender.send fails when no receiver is alive: the expect ends the task,
\* whose JoinHandle main has dropped.
HeartbeatPanic ==
  /\ Running
  /\ heartbeat = "sending"
  /\ subscribed = {}
  /\ heartbeat' = "panicked"
  /\ UNCHANGED <<phase, addr, sock, subscribed, shared_state, main, permit>>

\* notify.notified takes the permit and the interval starts again.
HeartbeatReset ==
  /\ Running
  /\ heartbeat = "waiting"
  /\ permit
  /\ permit' = FALSE
  /\ UNCHANGED <<phase, addr, sock, subscribed, shared_state, main, heartbeat>>

------------------------------------------------------------------------------
\* The steps of the task of connection c that the node itself takes.
TaskStep(c) ==
  \/ Connected(c) \/ ConnectFailed(c)
  \/ Register(c) \/ Refuse(c) \/ Greet(c)
  \/ StopServing(c) \/ CloseWriter(c) \/ Remove(c)

MainStep ==
  \/ \E c \in Seed : SpawnConnect(c)
  \/ Bind \/ BindFailed \/ NotifyOne \/ AcceptFailed
  \/ \E c \in Inbound, a \in PeerAddr : Accept(c, a)

HeartbeatStep ==
  HeartbeatTick \/ HeartbeatSend \/ HeartbeatPanic \/ HeartbeatReset

Next ==
  \/ MainStep
  \/ HeartbeatStep
  \/ \E c \in Conn : TaskStep(c) \/ PeerGone(c)

Spec == Init /\ [][Next]_vars

\* The runtime keeps polling a task that can make progress.  A connection
\* need not end while its peer keeps it open, so the end of the select is
\* fair only once the peer is gone and the read loop finds an error or the
\* end of the stream.  writer.close is assumed to return, see the README.
FairTask(c) ==
  /\ WF_vars(Register(c) \/ Refuse(c))
  /\ WF_vars(Greet(c))
  /\ WF_vars(~sock[c] /\ StopServing(c))
  /\ WF_vars(CloseWriter(c))
  /\ WF_vars(Remove(c))

------------------------------------------------------------------------------
\* Safety.

\* The table never holds more entries than max_peer_count, although insert
\* compares the length before it knows whether it adds or overwrites
\* (ConnectionManager::insert).
WithinCapacity == num_connections(shared_state) <= Capacity

\* No entry outlives its connection: every entry was made by a connection
\* task that is still between its insert and its remove, under that task's
\* own address, even when two tasks use one address and overwrite and remove
\* each other's entries (start, ConnectionManager::insert and remove).
EntriesAreOwned ==
  \A a \in DOMAIN shared_state :
    LET c == shared_state[a] IN Registered(c) /\ addr[c] = a

\* The broadcast channel has no receiver while the table has entries only if
\* every entry belongs to a connection that is past its select and on its way
\* to manager.remove: the one window in which the expect of the heartbeat
\* task can fail (start, start_heartbeat).
SilentOnlyWhileClosing ==
  subscribed = {} =>
    \A a \in DOMAIN shared_state :
      phase[shared_state[a]] \in {"closing", "removing"}

\* Every registered connection is found in the table under its address, with
\* its own metadata.  This needs addresses to be unique among the tasks that
\* run: seeds that resolve to different addresses and peers that do not come
\* back before the cleanup of start is over.
ServedAreTracked ==
  \A c \in Conn :
    Registered(c) => /\ addr[c] \in DOMAIN shared_state
                     /\ shared_state[addr[c]] = c

\* What the table promises the node: a bounded set of members.
Admission == INSTANCE AdmissionControl
               WITH Member <- Conn, Limit <- Capacity,
                    members <- {c \in Conn : Registered(c)}

\* With unique addresses the connection tasks and the table together
\* implement admission control: a task enters its select only as one of at
\* most max_peer_count members (start, ConnectionManager::insert and remove).
AdmissionRefined == Admission!Spec

\* What the comment on max_peer_count says (config.toml: "Maximum number of
\* peers to connect to"): at most that many peers are served at once.
PeersWithinLimit ==
  Cardinality({addr[c] : c \in {d \in Conn : phase[d] = "serving"}}) <= Capacity

\* What the expect in start_heartbeat asserts: a heartbeat sent because the
\* table has connections finds a receiver, so the task never panics.
HeartbeatSurvives == heartbeat # "panicked"

------------------------------------------------------------------------------
\* Liveness, under the fairness of module HeartbeatTimer.

\* A connection whose peer has gone is eventually removed from the table and
\* its task ends, whatever the other tasks do (start_read_loop, start).
DeadPeerForgotten ==
  \A c \in Conn : (Registered(c) /\ ~sock[c]) ~> (~Registered(c) \/ ~Running)

==============================================================================
