# Verification of the braidpool node

TLA+ specifications of the braidpool node (`src/node`), the TLC models that
check them on small instances and TLAPS proofs for instances of every size.

## The system

| Part | Source | State | Operations |
|---|---|---|---|
| Connection table | `connection/src/connection_manager.rs` | map from socket address to metadata, behind a mutex; capacity | `insert`, `remove`, `num_connections`, `get` |
| Node tasks | `connection/src/lib.rs`, `run/src/main.rs` | the task of every connection, the receivers of the `send_to_all` broadcast channel, the permit of a `Notify` | `main`, `connect`, `start_listen`, `start_connection`, `start`, `start_heartbeat` |
| Connection session | `connection/src/lib.rs` | TCP stream, bounded channel between read loop and handler, position in the broadcast ring | `start`, `start_read_loop`, `start_message_handler`, `handle_received` |
| Wire protocol | `protocol/src` | none | `as_bytes`, `from_bytes`, `start`, `response_for_received` |
| Payout updates | `uhpo/src` | the update under construction | `PayoutUpdate::new`, `add_coinbase_sig`, `add_prev_update_sig`, `build`, `add_signature`, `TransactionBuilder` |
| Heartbeat timer | `connection/src/lib.rs` | deadline of the interval, permit | `interval.tick`, `interval.reset`, `notify_one`, `notified` in `start_heartbeat` and `start_listen` |
| Configuration | `config/src/lib.rs` | none after startup | `load_config_from_file`, `get_bind_address` |
| Command line | `run/src/cli.rs` | none | `Cli::parse` |
| Logging and tracing | `run/src` | none | |
| Payout settlement | `uhpo/src/payout_settlement.rs` | none (empty) | |

How they interact. `main` makes the table, the broadcast channel and the
heartbeat task, spawns one `connect` task per seed, then runs the accept loop.
Each connection is one task that runs `start`: it registers in the table or is
refused, sends a handshake, and then polls a read loop and a message handler in
one `select!` until either returns; then it closes the writer and removes its
entry. The heartbeat task reads the table and sends into the broadcast channel,
from which every handler takes heartbeats. The payout crate is a library that
nothing in the node calls yet.

What is hard about it. Tasks interleave at every await: between the check of
the table and the send of a heartbeat, between closing a writer and removing an
entry, between reading a frame and handling it. A connection may break in each
phase. Two tasks may work for the same address. The channel, the ring and the
sockets are bounded and react differently when they are full: the channel cuts
the peer off, the ring drops the oldest heartbeat, the socket blocks. The
`hazards` of `PROJECT.json` name each place.

What makes each part correct:

- table: at most `max_peer_count` entries, each owned by a connection that is
  being served, each served connection found in it;
- node tasks: a peer that has gone is forgotten; the heartbeat task survives;
- timer: while there are connections, a heartbeat or a reset is never overdue
  and heartbeats are never early;
- session: messages are answered in order and exactly once, two nodes never
  refuse or starve each other, teardown of one end ends both;
- startup: the node serves a connection only with usable values, and whether it
  gets to accepting depends on its command line, its file and its port alone;
- payout: signatures commit to what is spent, an input signed once and by its
  owner can be spent, value is conserved, the updates form a chain, a failed
  call changes nothing.

## The modules

| Module | What it is |
|---|---|
| `ConnectionManager` | the map and its operations, as operators |
| `Node` | main, accept loop, connection tasks, heartbeat task; extends `ConnectionManager` |
| `AdmissionControl` | abstract specification: a bounded set of members |
| `NodeProofs` | theorems about `Node` |
| `HeartbeatTimer` | `Node` with the interval of its heartbeat task; extends `Node` |
| `TimerProofs` | theorems about `HeartbeatTimer`; extends `NodeProofs` |
| `Protocol` | messages, frames, answers, as operators |
| `Session` | both ends of one connection; extends `Protocol` |
| `Exchange` | abstract specification of a session: two logs; extends `Protocol` |
| `SessionProofs` | theorems about `Session` and its refinement of `Exchange` |
| `Startup` | command line, configuration file, defaults, startup up to the accept loop |
| `StartupProofs` | theorems about `Startup` |
| `Payout` | chain of payout updates |
| `PayoutProofs` | theorems about `Payout` |
| `MCNode`, `MCHeartbeat`, `MCSession`, `MCPayout` | definitions that the configurations use |

An operator whose comment starts with "Mutant of" is a wrong version of the
definition that follows it. No specification uses it: it shows that a property
notices that bug.

### Node

`phase[c]` is the place of the task of connection `c` in `connect` or `start`;
a step ends where the code awaits or takes the mutex. `addr[c]` is the `addr`
argument of `start`, `sock[c]` says whether the peer still holds its address,
`subscribed` the connections whose broadcast receiver is alive: from the spawn
to the end of the select, whose futures are dropped before the body of the
branch runs. `main` is the place in the seed loop and the accept loop;
`heartbeat` distinguishes the heartbeat task before and after it has read the
table. The metadata of an entry is a time stamp; the model uses the task that
took it, so that a property can say whose entry it is. Inbound slots are reused
after a task has ended; a seed is tried once, as in the code. `PeersRebind`
says whether a peer may come back from the same port while the task of its
broken connection is still cleaning up. An outbound connection is registered
under the address its seed resolves to, so two seeds may share one. `TypeOK`
includes that only a task that has not ended holds a receiver.

`BindFailed` ends `main` and with it every task; this is why the configurations
do not check for deadlock.

### HeartbeatTimer

`Node` lets the heartbeat task tick at any time. `HeartbeatTimer` adds `left`,
the time until the deadline of the tokio interval, in a unit of which `Period`
make one `heartbeat_interval`; `Elapse` lets one unit pass. The first tick is
due at once. A tick moves the deadline by one period from the old deadline, not
from now (the default `MissedTickBehavior::Burst`), so ticks that were missed
follow each other at once; a reset moves it to one period from now. A permit
that the accept loop has stored waits until the task is in its select and
causes one reset, however often it was stored. `MaxLate` bounds how long after
its deadline the runtime polls the task: it is a parameter of the statements,
which hold for every value. A tick that finds connections sends in the same
poll, so `Elapse` is not taken between the two; it is not taken either once the
process or the heartbeat task has ended.

Every other step is a step of `Node` as it stands (`TimedMain`, `TimedTask`).
Messages do not reach the timer: nothing that sends touches the `Notify`, and
the `notifier.notified()` of the handler makes a future that is dropped without
being polled. This is not what `config.toml` (line 24, heartbeats "in case of
quiscient period") and the comment at line 304 of `connection/src/lib.rs` say:
there messages set the heartbeat back and accepts do not, in the code it is the
other way round. The finding of `heartbeat_starved` quotes both lines.
`silence` and `lead` are history: time without a heartbeat or a reset,
heartbeats ahead of time. Only a heartbeat that was sent counts in them; one
that finds no receiver ends the task and counts for nothing.

### Session

`net[e]` holds the frames between the writer of the other end and the read loop
of `e`: socket buffers and decoder, `SocketCapacity` frames in all. `channel[e]`
is the mpsc channel, `writing[e]` the frame the handler is flushing,
`backlog[e]` how far the receiver is behind the ring (`MaxSendToAll + 1` means
that it has been overtaken), `muted[e]` that the handler's `select!` has
disabled its broadcast branch because `recv` returned `Lagged`. `beats` and
`said` are history. An end outside `Honest` sends any of `PeerFrames`, reads
and closes at will. `Reset` may strike at any time; it also stands for the
reset that the operating system sends for a socket closed with unread data. The
`notifier.notified()` of the handler makes a future that is dropped at once and
has no effect, so it is no step of the model.

`Exchange` is what a connection promises without sockets, channels and rings:
each party has a log; an honest one says its handshake and then the answers to
what the other has said, in order, each once, none after a frame it refuses,
and nothing after it has left. `Proper` says this of two logs: the frames that
call for an answer are the `Questions` of the log that was heard, and the n-th
answer belongs to the n-th of them, which `Asked` counts. It is a definition
over all frames at once and not a walk along the log, so that it can be proved
about without induction. `Conversation` maps `said` to the logs and `Left`, the
closed ends, to the parties that have left; a frame that the writer flushes while
it closes is said in the step in which the party leaves.

### Startup

`args` are the paths given with `--config-file`, `disk` what is found at each
path (at most one path has a file), `config_file` the path that is loaded. A key
that the file gives is a set of one value, a key it leaves out the empty set.
`config` is what `load_config_from_file` returns, with the default of each missing key. `at` is
the place of `main`, and each step is one that a configured value can make
panic: unwrapping the configuration, the broadcast channel, the address and the
interval of `start_heartbeat`, and the channel of an accepted connection, which
`start_connection` makes in the task of `main` (`Accept`). For a seed it is made
in the task of `connect`, which panics alone. `accepted` and `task` say whether
the task of an accepted connection and of each seed was started.

`Startable` are the files that get `main` to its accept loop, `Usable` those it
can work with there: a file that sets `max_pending_messages` to zero is
startable and not usable, and the node accepts with it until the first
connection arrives and panics `main`. `StartedIsUsable` therefore speaks of
connections whose task is started; `Node` and `Session` begin with those, and
`Session` assumes the slots of channel and ring that it gives.
Setting up logging cannot fail in a fresh process and is left out.

### Payout

Transactions, ids and signature hashes are records that contain exactly what
the real ones commit to, so equal hashes mean equal content. Amounts are
bounded by `MaxAmount`, and arithmetic outside the range panics as the
operators of `Amount` do: `new` never returns an `Err`, although its
documentation speaks of one. Three things are up to the caller, which is not in
the repository: that each update gets a fresh coinbase, that `new` gets the last
update as predecessor, as its comment requires, and that the public
`add_signature`, called on a transaction that was built (`SignBuilt`), gets the
outputs that the transaction spends. The caller may sign any input any number of
times (`MaxWitness` bounds it), before `build` or later, also when the next
update spends it already: an id that was taken before such a call is compared
with the one after it by `UpdatesFormChain`. `TaprootError` is modelled and
`TypeOK` shows that it does not occur. Whether a signature verifies is left open
because the crate is generic in it.

An element of a witness is a signature, which names the hash and the key pair,
and the byte that names the kind of hash. `Commits` compares the hash with the
one that a verifier computes from the transaction and the outputs it really
spends; `Valid` adds that the key pair is the one the spent output belongs to.
`Owner` says which one that is; it is a parameter because the code never asks:
`add_signature` verifies only against the pair that it signs with. `terms` is
history: for each update the coinbases and the fees of the chain so far and, per
input, the key pairs of the calls that returned `Ok`, in order.

## The runs

| Run | Shows |
|---|---|
| `node_shared` | `WithinCapacity`, `EntriesAreOwned`, `SilentOnlyWhileClosing` when two seeds resolve to one address, peers come back early, and four connections compete for two slots |
| `node_unique` | `ServedAreTracked` and the refinement `AdmissionRefined` when addresses are unique |
| `node_limit` | violation: `PeersWithinLimit` |
| `node_heartbeat` | violation: `HeartbeatSurvives` |
| `heartbeat_timer` | `BoundedSilence`, `BoundedBursts` and, under fairness, `HeartbeatsResume` and `DeadPeerForgotten`, with late ticks, resets and connections that come and go and may share an address |
| `heartbeat_starved` | violation: `SteadyHeartbeats` |
| `session_pair` | `HonestNeverRefused`, `FloodNeedsHeartbeats` and, under fairness, `TeardownCompletes`, `HandshakeAnswered` between two nodes |
| `session_peer` | `AnswersInOrder`, the refinement `ExchangeRefined`, `BadPeerDropped`, `FlooderShutDown` against an arbitrary peer that reads |
| `session_stall` | violation: `FlooderShutDown` against a peer that need not read |
| `session_lag` | violation: `HeartbeatsReachPeer` |
| `startup` | `StartedIsUsable`, and `StartupDecided` under fairness, for every command line and mix of keys |
| `payout` | `SignaturesCommit`, `SpendableIffOwnerSignedOnce`, `UpdatesFormChain`, `ValueConserved`, `FailureChangesNothing`, with signing before and after `build` |

Each run is `tlc -config <cfg> <module>` with the names in `PROJECT.json`.

### What the violations show

- `HeartbeatSurvives`. The last connection leaves its select, which drops its
  receiver; before it removes its entry the heartbeat task ticks, finds one
  connection and sends to no receiver; the `expect` ends the task for good.
  `SilentOnlyWhileClosing` shows that there is no other window.
- `PeersWithinLimit`. Two seeds of one address share one entry; when one of the
  connections ends it removes the entry of the other; the freed slot is given
  to a further peer.
- `HeartbeatsReachPeer`. Both handlers see `Lagged`, both disable their
  broadcast branch until the next message of the peer, and both then wait.
- `SteadyHeartbeats`. Every turn of the accept loop stores a permit, also after
  an accept that failed, and every permit resets the interval. While the loop
  turns more often than once a period the deadline is never reached, and peers
  that are connected get no heartbeat. `HeartbeatsResume` shows that they go out
  again once the loop waits, unless the heartbeat task has panicked, which is the
  subject of `HeartbeatSurvives`.
- `FlooderShutDown`. The handler is blocked in a send, the read loop finds the
  channel full and cuts the peer off, and `writer.close` first flushes the frame
  that is stuck. If the peer does not read, the task keeps its slot for ever. The
  same property holds in `session_peer`, where the peer is assumed to read.

### Bounds

- `Node`: two seeds of one address and two inbound slots with two more, for a
  capacity of two, are the smallest instance with overwriting, stale removal
  and refusal at once (with capacity one nothing is ever overwritten, with two
  addresses the limit is never at stake); `node_unique` has four connections and
  three addresses for two slots so that refusal, reuse of a slot and reuse of an address all happen. Inbound
  slots are symmetric in the safety run.
- `HeartbeatTimer`: a period of two units has a moment between the ticks;
  `MaxLate` 3 is one and a half periods, so that a tick is missed altogether and
  two come at once. One seed and one inbound slot, whose peer comes from an
  address of its own or from that of the seed and may come back early, empty and
  fill the table and overwrite each other's entry between any two moments.
  `heartbeat_starved` needs no delay: it has `MaxLate` 0.
- `Session`: a channel of two and a ring of one make flooding need more than
  handshakes and make lagging easy; a socket of one frame makes back-pressure
  common and lets both ends block at once. `MaxBeats` only stops the counter,
  never the heartbeats; `FloodNeedsHeartbeats` needs it to reach `MaxPending - 1`.
- `Session` with an arbitrary peer: three frames besides heartbeats let a
  refused frame come first, between and last, and flood a channel of two. Several
  questions in a row are what makes `AnswersInOrder` a question here; between two
  nodes each end hears a single one.
- `Startup`: each key is missing or on either side of the limit the code has for
  it; two paths make a file at the default path differ from the one that is
  asked for; two seeds may fail independently.
- `Payout`: three updates are enough for an update whose predecessor has a
  predecessor, and for signing one that is spent already; a coinbase of 2, fees
  of 1 and 3 and `MaxAmount` 3 reach both panics and a sum that just fits. One
  key with and without a tweak gives the owner's pair of each output and a wrong
  one: in `TweakedUpdates` coinbases belong to the bare key and updates to the
  tweaked one. Two signatures on an input are one more than it can bear.

### Fairness

- Tasks that can make progress are polled by the runtime: weak fairness of the
  steps of a task.
- A connection need not end while its peer keeps it open: in `Node`, leaving
  the select is fair only once the peer is gone.
- `writer.close` is assumed to return in `Node`. In `Session` this is not
  assumed: closing waits for room in the socket, and `TeardownCompletes` shows
  that it finds room when both ends run the code. The argument is frame by
  frame: a frame counts as one unit of a socket whatever its length. It does not
  extend to a peer that stops reading, which is what `session_stall` shows.
- The handler's `select!` polls its branches in random order, so receiving and
  forwarding get strong fairness.
- `HeartbeatTimer`: time passes, and the heartbeat task is polled. Its select
  polls the two branches in random order, so a tick that is due again and again
  is taken (strong fairness); nothing makes a tick due while resets come first,
  which is what `heartbeat_starved` shows. The tasks are fair as in `Node`.
  Nothing is assumed of arriving connections.
- `Startup`: `main` goes on; no seed has to answer.
- `CodeFairSpec` of `Session` assumes nothing of a peer that does not run the
  code; `FairSpec` adds that it keeps reading. `BadPeerDropped` needs that, and
  `FlooderShutDown` is checked with and without it.

## The proofs

`NodeProofs` proves, for all finite or infinite sets of seeds, inbound slots
and addresses and every capacity, from `CapacityAssumption` and
`NodeAssumption`:

- `NodeTypeCorrect`: `Spec => []TypeOK`. The type invariant alone is not
  inductive: `Register` needs the address of a live task to be an address
  (`LiveHasAddr`).
- `TableInvariant`: `TableInv`, the inductive invariant of the table: types,
  finiteness of the map, `WithinCapacity`, `EntriesAreOwned` and
  `SubscriptionHeld` (a task owns a receiver until its select is over).
  `RegisterStep` and `RemoveStep` treat the two steps that write the map,
  `OwnersStep` all others.
- `TableBounded`, `TableOwned`, `SilenceConfined`: the three invariants of
  `node_shared`, from `TableInv`.
- `ConnectionsTracked`, under `UniqueAddresses`: `ServedAreTracked`. The
  strengthening `AddrInv` says that live tasks have different addresses, that
  tasks that have ended have none, and that no inbound connection exists before
  the seeds are spawned.
- `AdmissionImplemented`, under `UniqueAddresses`: `Node` refines
  `AdmissionControl`. `MembersCounted` maps each registered connection to its
  key in the table, an injection, so there are at most as many members as
  entries.

`TimerProofs` proves, for every `Period`, every `MaxLate` and all constants of
`Node`, from `TimerAssumption` besides the two above:

- `TimerInvariant`: `TimerInv`. The bounds alone are not inductive, because they
  do not mention the deadline. `TimerInv` does: silence and the time that is
  left make at most a period, a lead is at most the time that is left, and an
  empty table is not silent. `Owed` is the period that a tick has added to the
  deadline while its heartbeat is not yet sent. A tick adds a period to both sides of the second, a
  reset needs the first two to hold with a full period left.
- `SilenceBounded`, `BurstsBounded`, `TimerTypeCorrect`: the invariants of
  `heartbeat_timer`, from `TimerInv`.
- `TimerImplementsNode`, a lemma: every timed step is a step of `Node` or leaves
  its variables alone, so the theorems of `NodeProofs` about `Spec` hold with
  time.

`StartupProofs` proves, for every set of paths, host names, ports, numbers and
seeds, from `StartupAssumption`:

- `StartupInvariant`: `StartupInv`, what `main` has established at each of its
  places. `StartedIsUsable` alone speaks only of tasks that were started; the
  strengthening says what the configuration has to do with the file from the load
  on, what holds after the ring is made and after the heartbeat task is started,
  and that no seed has a task before that.
- `OnlyUsableStarts`, `StartupTypeCorrect`: the invariants of `startup`, from
  `StartupInv`. `ParseFacts` is what parsing a section with missing keys returns.

`SessionProofs` proves, for sockets, channels and rings of every size and every
set of frames of a peer that does not run the code, from `SessionAssumption`:

- `SessionTypeCorrect`: `TypeOK`, with the capacity of each queue.
- `OrderInvariant`: `OrderInv`. That the log is proper says nothing of the
  frames on their way, so it is not inductive. For each end that runs the code
  `OrderInv` follows every frame from the log of the other end through the socket
  and the channel: `Tracks` gives each place in the two queues its place in the
  log, heartbeats left out (`TracksAppend`, `TracksTail` are joining and leaving
  the queue). `Replied` says that the log, with the frame in the writer, answers
  exactly the frames before the queue. In the greeting phase nothing has been
  taken; from the end of the select on only the writer is left; after a reset
  nothing more is said.
- `AnswersAreInOrder`, `SessionIsExchange`: `AnswersInOrder` and the refinement
  `ExchangeRefined`, from `OrderInv`. `StepIsTurn` maps each step of either end to
  a turn of one party or to none.
- `PairInvariant`, `NodesAgree`: two ends that run the code send three messages,
  the handshake, its answer and the heartbeat, none of which is refused
  (`HonestNeverRefused`).
- `FlowInvariant`: `FlowInv`, a count of frames: what is on its way from an end,
  in its writer, the socket, the channel of the other end and, for heartbeats, in
  the ring, is at most what it has said and what its node has broadcast.
- `NoFloodWithoutHeartbeats`: `FloodNeedsHeartbeats`, for every `MaxBeats` of at least
  `MaxPending - 1`; below that the counter of the history stops before the bound
  it is compared with. A node says at most two frames to another node
  (`TwoWords`), so a full channel and one more frame take `MaxPending - 1`
  heartbeats.

`PayoutProofs` proves, for chains of every length and every set of values, fees,
scripts, keys, tweaks and owners, from `PayoutAssumption`:

- `PayoutInvariant`: `PayoutInv`. It describes every update, built or under
  construction, completely (`IssuedAs`): it spends its own coinbase and the output
  of its predecessor, its witnesses hold for each successful call one signature
  that is good for the input and made by the pair of that call, and its output is
  worth the coinbases less the fees. The properties alone are not inductive
  because the signatures are made from the outputs that the `PayoutUpdate`
  remembers, and `new` computes from the last output alone; `Drafted` says that
  what is remembered is what the transaction spends. A signature commits to an id
  that does not contain witnesses, so the signatures put on before stay good
  (`PushedTransaction`), and so does what spends an update that is signed later
  (`SignBuiltStep`). `SignCall` is the one lemma about `add_signature`, for both
  ways of calling it.
- `SignaturesAreGood`, `SpendableByOwner`, `NothingLostOrMade`,
  `ChainIsLinked`, `PayoutTypeCorrect`: the invariants of `payout`, from
  `PayoutInv`. For `ChainIsLinked`, ids of updates of different places in the chain
  differ because each contains a coinbase that is only its own
  (`PointsDiffer`).
- `FailuresAreHarmless`: the action property `FailureChangesNothing`.

Every safety invariant, action property and refinement that a passing run checks
is stated by a theorem. `OrderInv` and `PayoutInv` quantify over all functions or
values and cannot be evaluated by TLC; the proof is what shows that they are
inductive.

Only model-checked: the liveness properties `HeartbeatsResume`,
`DeadPeerForgotten`, `TeardownCompletes`, `HandshakeAnswered`, `BadPeerDropped`,
`FlooderShutDown` and `StartupDecided`, which are out of the prover's reach, and
the counterexamples of the five violations.

## What is not modelled

- Frame lengths, partial frames and the 8 MB frame limit of the codec: a broken
  frame ends the stream with an error, as `ReadEnd` does.
- Logging and tracing, which no other part reads; the payout settlement, an
  empty structure without operations.
- Command lines that ask for help or the version: they end the process as a
  rejected one does.
- Cryptography: keys and signatures are symbols. Two key pairs are equal only if
  key and tweak are.
- Messages that set heartbeats back, of which `config.toml` line 24 and line 304
  of `connection/src/lib.rs` speak: the code has none.

## Plan

1. Done: `ConnectionManager`, `Node`, `AdmissionControl`, `NodeProofs`,
   `Protocol`, `Session`, `Startup`, `Payout`.
2. Done: `HeartbeatTimer`, `TimerProofs`, `Exchange` and the refinement of it by
   `Session`, the command line, the witnesses of `Payout`.
3. Done: `StartupProofs`, `SessionProofs`, `PayoutProofs`.
4. Left: theorems that connect the modules, such as what `Node` assumes of a
   session and `Session` of a startup; bounds on what a session has in flight
   with a peer that does not run the code.
