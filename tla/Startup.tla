-------------------------------- MODULE Startup --------------------------------
(***************************************************************************)
(* From the command line to the accept loop (node/run/src, node/config/src *)
(* and what node/connection/src/lib.rs makes of the configured values):    *)
(* which command lines, files and values let the node start, and where the *)
(* others end it.  Node and Session start where this module ends, with the *)
(* configured values as their constants.                                   *)
(***************************************************************************)
EXTENDS Integers, FiniteSets

CONSTANTS
  Path,      \* paths a configuration file may be at
  DefaultPath, \* config.toml
  Hosts,     \* host names a file may give for bind
  Resolved,  \* those that resolve to an address
  Localhost, \* the default host name
  Ports,     \* ports a file may give; a port is any unsigned integer
  Counts,    \* numbers a file may give for the other keys
  Seed       \* seeds a file may list

MaxPort == 65535

ASSUME StartupAssumption ==
  /\ DefaultPath \in Path
  /\ Resolved \subseteq Hosts /\ Localhost \in Resolved
  /\ Ports \subseteq Nat /\ Counts \subseteq Nat

VARIABLES
  args,      \* the paths given with --config-file on the command line
  disk,      \* what is found at each path
  config,    \* the Config that main works with, once it is loaded
  at,        \* where main is
  task,      \* what became of the connect task of each seed
  accepted   \* has the accept loop started the task of a connection: none, started

vars == <<args, disk, config, at, task, accepted>>

\* A key that may be missing: a set of at most one value.
Option(S) == {{}} \cup {{v} : v \in S}

Keys == {"bind", "port", "seeds", "max_peer_count", "max_pending_messages",
         "max_pending_send_to_all", "heartbeat_interval"}

\* The keys a file gives, of either section.  A section that is missing gives
\* none of its keys.
Given ==
  [bind : Option(Hosts), port : Option(Ports), seeds : Option(SUBSET Seed),
   max_peer_count : Option(Counts), max_pending_messages : Option(Counts),
   max_pending_send_to_all : Option(Counts), heartbeat_interval : Option(Counts)]

\* NetworkConfig::default and PeerConfig::default
Defaults ==
  [bind |-> Localhost, port |-> 6680, seeds |-> {}, max_peer_count |-> 10,
   max_pending_messages |-> 32, max_pending_send_to_all |-> 128,
   heartbeat_interval |-> 1000]

\* A file that cannot be opened or is not text, one that is not TOML or has a
\* value of another type, and one that parses.
Files ==
  {[kind |-> "unreadable"], [kind |-> "malformed"]}
  \cup {[kind |-> "toml", given |-> g] : g \in Given}

\* At most one of the paths has a file.
Init ==
  /\ args \in SUBSET Path
  /\ \E p \in Path, f \in Files :
       disk = [q \in Path |-> IF q = p THEN f ELSE [kind |-> "unreadable"]]
  /\ config = Defaults
  /\ at = "args"
  /\ task = [s \in Seed |-> "none"]
  /\ accepted = "none"

\* Cli::config_file
config_file == IF args = {} THEN DefaultPath ELSE CHOOSE p \in args : TRUE

\* The file that main is to load.
file == disk[config_file]

\* Cli::parse: an option that is given twice ends the process.
ParseArgs ==
  /\ at = "args"
  /\ at' = IF Cardinality(args) <= 1 THEN "load" ELSE "exited"
  /\ UNCHANGED <<args, disk, config, task, accepted>>

------------------------------------------------------------------------------
\* Mutant of parse_config: the port is cut to 16 bits.
parse_config_wraps(given) ==
  [k \in Keys |->
     IF given[k] = {} THEN Defaults[k]
     ELSE LET v == CHOOSE w \in given[k] : TRUE
          IN  IF k = "port" THEN v % (MaxPort + 1) ELSE v]

\* parse_config_from_string: every missing key gets its own default.
parse_config(given) ==
  [k \in Keys |-> IF given[k] = {} THEN Defaults[k] ELSE CHOOSE v \in given[k] : TRUE]

\* load_config_from_file: a file that cannot be read counts as none.
LoadConfig ==
  /\ at = "load"
  /\ \/ file.kind = "unreadable" /\ config' = Defaults
     \/ file.kind = "toml" /\ config' = parse_config(file.given)
  /\ at' = "channel"
  /\ UNCHANGED <<args, disk, task, accepted>>

\* load_config_from_file returns None for a file that does not parse and main
\* unwraps it.
LoadPanics ==
  /\ at = "load"
  /\ file.kind = "malformed"
  /\ at' = "panicked"
  /\ UNCHANGED <<args, disk, config, task, accepted>>

\* main: broadcast::channel panics for a ring without slots.  (It and
\* mpsc::channel also panic for sizes close to the largest usize.)
MakeChannel ==
  /\ at = "channel"
  /\ at' = IF config.max_pending_send_to_all > 0 THEN "heartbeat" ELSE "panicked"
  /\ UNCHANGED <<args, disk, config, task, accepted>>

\* get_bind_address and to_socket_addrs: host and port are joined by a colon
\* and taken apart again; the port must fit 16 bits and the host resolve.
AddressResolves == config.bind \in Resolved /\ config.port <= MaxPort

\* Mutant of HeartbeatStarts: the interval is made in the heartbeat task, whose
\* panic main does not see.
HeartbeatStartsAnyway == AddressResolves

\* start_heartbeat unwraps the resolved address, and time::interval panics for
\* a period of zero.
HeartbeatStarts == AddressResolves /\ config.heartbeat_interval > 0

\* start_heartbeat
StartHeartbeat ==
  /\ at = "heartbeat"
  /\ at' = IF HeartbeatStarts THEN "seeding" ELSE "panicked"
  /\ UNCHANGED <<args, disk, config, task, accepted>>

\* main: one turn of the seed loop.
SpawnSeed(s) ==
  /\ at = "seeding"
  /\ s \in config.seeds
  /\ task[s] = "none"
  /\ task' = [task EXCEPT ![s] = "connecting"]
  /\ UNCHANGED <<args, disk, config, at, accepted>>

\* Mutant of SeedsSpawned: main awaits the connect tasks.
SeedsConnected == \A s \in config.seeds : task[s] = "started"

\* The end of the seed loop: nothing waits for the tasks it spawned.
SeedsSpawned == \A s \in config.seeds : task[s] # "none"

\* start_listen: the socket is bound, or another program has the port and main
\* returns.
Listen ==
  /\ at = "seeding"
  /\ SeedsSpawned
  /\ at' \in {"accepting", "returned"}
  /\ UNCHANGED <<args, disk, config, task, accepted>>

Running == at \notin {"panicked", "returned", "exited"}

\* start_connection: mpsc::channel panics for a channel without slots.
ChannelMade == config.max_pending_messages > 0

\* connect: the seed does not answer and the task panics, or start_connection
\* makes the channel of the connection, which panics without slots, in the
\* task of connect, and starts the task that runs start.
ConnectSeed(s) ==
  /\ Running
  /\ task[s] = "connecting"
  /\ \E reached \in BOOLEAN :
       task' = [task EXCEPT ![s] =
                  IF reached /\ ChannelMade THEN "started" ELSE "panicked"]
  /\ UNCHANGED <<args, disk, config, at, accepted>>

\* start_listen: a connection is accepted and start_connection makes its channel
\* in the task of main.  With slots its task is started and main goes on
\* accepting; without, main panics.
Accept ==
  /\ at = "accepting"
  /\ IF ChannelMade THEN accepted' = "started" /\ UNCHANGED at
                    ELSE at' = "panicked" /\ UNCHANGED accepted
  /\ UNCHANGED <<args, disk, config, task>>

MainStep ==
  \/ ParseArgs \/ LoadConfig \/ LoadPanics \/ MakeChannel \/ StartHeartbeat
  \/ \E s \in Seed : SpawnSeed(s)
  \/ Listen

Next == MainStep \/ Accept \/ \E s \in Seed : ConnectSeed(s)

Spec == Init /\ [][Next]_vars

\* main runs on.  No seed has to answer and nobody to connect.
FairSpec == Spec /\ WF_vars(MainStep)

------------------------------------------------------------------------------
TypeOK ==
  /\ args \subseteq Path
  /\ disk \in [Path -> Files]
  /\ DOMAIN config = Keys
  /\ config.port \in Ports \cup {6680}
  /\ config.seeds \subseteq Seed
  /\ at \in {"args", "load", "channel", "heartbeat", "seeding", "accepting",
             "panicked", "returned", "exited"}
  /\ task \in [Seed -> {"none", "connecting", "started", "panicked"}]
  /\ accepted \in {"none", "started"}

\* The files a node can reach its accept loop with: what they give for the
\* address, the ring and the heartbeat is usable, whatever they leave out.
Startable(f) ==
  /\ f.kind # "malformed"
  /\ f.kind = "toml" =>
       /\ f.given.bind \subseteq Resolved
       /\ f.given.port \subseteq 0..MaxPort
       /\ 0 \notin f.given.max_pending_send_to_all \cup f.given.heartbeat_interval

\* The files a node can work with: their channels have slots as well.
Usable(f) == Startable(f) /\ (f.kind = "toml" => 0 \notin f.given.max_pending_messages)

\* No value is checked where the file is parsed: the ring, the address, the
\* period and the channel are each met by another step, of main or of a task.
\* Whatever order these steps take, the task of a connection, to a seed or
\* accepted, is started only by a node whose file gives no value that would have
\* made one of them panic; in particular with slots in the channel and the ring,
\* which module Session assumes (main, start_heartbeat, connect, start_listen,
\* start_connection).
StartedIsUsable ==
  accepted = "started" \/ (\E s \in Seed : task[s] = "started") => Usable(file)

\* Every start is decided, and by the command line and the file alone: a file
\* that is startable gets the node to its accept loop, or to the port being
\* taken, even when no seed answers, and any other file ends it (Cli, main,
\* connect).
StartupDecided ==
  (at = "args") ~>
    IF Cardinality(args) > 1 THEN at = "exited"
    ELSE IF Startable(file) THEN at \in {"accepting", "returned"}
    ELSE at = "panicked"
==============================================================================
