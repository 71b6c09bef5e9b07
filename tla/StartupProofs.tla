----------------------------- MODULE StartupProofs -----------------------------
(***************************************************************************)
(* Theorems about module Startup, for any set of paths, host names, ports, *)
(* numbers and seeds.                                                      *)
(***************************************************************************)
EXTENDS Startup, TLAPS

\* The configuration is the one of the file: a key it gives has the value it
\* gives, every other key its default.
Respected ==
  /\ file.kind # "malformed"
  /\ \A k \in Keys :
       IF file.kind = "toml" /\ file.given[k] # {}
       THEN config[k] \in file.given[k] ELSE config[k] = Defaults[k]

\* What main has checked when it spawns the first task.
Checked == Respected /\ config.max_pending_send_to_all > 0 /\ HeartbeatStarts

\* A connection has its task, to a seed or accepted.
Started == accepted = "started" \/ \E s \in Seed : task[s] = "started"

\* The inductive invariant: what main has checked at each of its places, and
\* that no connection exists before all of it is checked.
StartupInv ==
  /\ TypeOK
  /\ at \in {"channel", "heartbeat"} => Respected
  /\ at = "heartbeat" => config.max_pending_send_to_all > 0
  /\ at \in {"seeding", "accepting"} => Checked
  /\ \A s \in Seed : task[s] # "none" => at \notin {"args", "load"} /\ Checked
  /\ Started => at \notin {"args", "load"} /\ Checked /\ config.max_pending_messages > 0

------------------------------------------------------------------------------
\* A file that exists is one of the three kinds, and one that parses gives
\* each key at most one value.
LEMMA FileFacts ==
  ASSUME TypeOK
  PROVE  /\ file \in Files
         /\ file.kind \in {"unreadable", "malformed", "toml"}
         /\ file.kind = "toml" => file.given \in Given
<1>1. config_file \in Path
  BY StartupAssumption DEF config_file, TypeOK
<1>2. file \in Files
  BY <1>1 DEF file, TypeOK
<1> QED BY <1>2 DEF Files

\* parse_config_from_string: each key it is given keeps its value, each other
\* key has its default.
LEMMA ParseFacts ==
  ASSUME NEW g \in Given
  PROVE  /\ DOMAIN parse_config(g) = Keys
         /\ \A k \in Keys : IF g[k] # {} THEN parse_config(g)[k] \in g[k]
                            ELSE parse_config(g)[k] = Defaults[k]
         /\ parse_config(g).port \in Ports \cup {6680}
         /\ parse_config(g).seeds \subseteq Seed
<1>1. DOMAIN parse_config(g) = Keys
  BY DEF parse_config
<1>2. \A k \in Keys : IF g[k] # {} THEN parse_config(g)[k] \in g[k]
                      ELSE parse_config(g)[k] = Defaults[k]
  BY DEF parse_config
<1>3. "port" \in Keys /\ "seeds" \in Keys
  BY DEF Keys
<1>4. parse_config(g).port \in Ports \cup {6680}
  BY <1>2, <1>3 DEF Given, Option, Defaults
<1>5. parse_config(g).seeds \subseteq Seed
  BY <1>2, <1>3 DEF Given, Option, Defaults
<1> QED BY <1>1, <1>2, <1>4, <1>5

\* A process that has just started.
LEMMA StartupInitial ==
  ASSUME Init PROVE StartupInv
<1>1. disk \in [Path -> Files]
  BY DEF Init, Files
<1>2. DOMAIN config = Keys /\ config.port = 6680 /\ config.seeds = {}
  BY DEF Init, Defaults, Keys
<1>3. TypeOK
  BY <1>1, <1>2 DEF Init, TypeOK
<1>4. ~Started
  BY DEF Init, Started
<1> QED BY <1>3, <1>4 DEF Init, StartupInv

\* Reading the file: main works with what it says, or with the defaults when
\* it cannot be read (load_config_from_file).
LEMMA LoadStep ==
  ASSUME StartupInv, LoadConfig PROVE StartupInv'
<1> USE DEF LoadConfig
<1>1. (\A s \in Seed : task[s] = "none") /\ ~Started'
  <2>1. (\A s \in Seed : task[s] = "none") /\ ~Started
    BY DEF StartupInv
  <2> QED BY <2>1 DEF Started
<1>2. file' = file
  BY DEF file, config_file
<1>3. CASE file.kind = "unreadable" /\ config' = Defaults
  <2>1. DOMAIN config' = Keys /\ config'.port = 6680 /\ config'.seeds = {}
    BY <1>3 DEF Defaults, Keys
  <2>2. TypeOK'
    BY <2>1 DEF StartupInv, TypeOK
  <2>3. Respected'
    BY <1>2, <1>3 DEF Respected
  <2> QED BY <1>1, <2>2, <2>3 DEF StartupInv
<1>4. CASE file.kind = "toml" /\ config' = parse_config(file.given)
  <2>1. file.given \in Given
    BY <1>4, FileFacts DEF StartupInv
  <2>2. TypeOK'
    BY <1>4, <2>1, ParseFacts DEF StartupInv, TypeOK
  <2>3. Respected'
    BY <1>2, <1>4, <2>1, ParseFacts DEF Respected
  <2> QED BY <1>1, <2>2, <2>3 DEF StartupInv
<1> QED BY <1>3, <1>4

\* Every other step works with the configuration that was loaded.
LEMMA ConfigKept ==
  ASSUME StartupInv, [Next]_vars, ~LoadConfig
  PROVE  /\ UNCHANGED <<args, disk, config>>
         /\ Respected' <=> Respected
         /\ HeartbeatStarts' <=> HeartbeatStarts
         /\ Checked' <=> Checked
<1>1. UNCHANGED <<args, disk, config>>
  BY DEF Next, MainStep, ParseArgs, LoadPanics, MakeChannel, StartHeartbeat,
         SpawnSeed, Listen, Accept, ConnectSeed, vars
<1> QED BY <1>1 DEF Respected, file, config_file, HeartbeatStarts, AddressResolves, Checked

\* Every step of main and of the tasks of the seeds keeps the invariant.
LEMMA StartupStep ==
  ASSUME StartupInv, [Next]_vars PROVE StartupInv'
<1>1. CASE LoadConfig
  BY <1>1, LoadStep
<1>2. CASE ~LoadConfig
  <2> USE <1>2, ConfigKept DEF StartupInv, TypeOK
  <2>1. CASE ParseArgs
    BY <2>1 DEF ParseArgs, Started
  <2>2. CASE LoadPanics
    BY <2>2 DEF LoadPanics, Started
  <2>3. CASE MakeChannel
    BY <2>3 DEF MakeChannel, Started
  <2>4. CASE StartHeartbeat
    BY <2>4 DEF StartHeartbeat, Checked, Started
  <2>5. ASSUME NEW s \in Seed, SpawnSeed(s)
        PROVE  StartupInv'
    BY <2>5 DEF SpawnSeed, Started
  <2>6. CASE Listen
    BY <2>6 DEF Listen, Started
  <2>7. ASSUME NEW s \in Seed, ConnectSeed(s)
        PROVE  StartupInv'
    BY <2>7 DEF ConnectSeed, ChannelMade, Started
  <2>8. CASE Accept
    BY <2>8 DEF Accept, ChannelMade, Started
  <2>9. CASE UNCHANGED vars
    BY <2>9 DEF vars, Started
  <2> QED BY <2>1, <2>2, <2>3, <2>4, <2>5, <2>6, <2>7, <2>8, <2>9 DEF Next, MainStep
<1> QED BY <1>1, <1>2

------------------------------------------------------------------------------
\* What main has checked at each of its places (main, start_heartbeat).
THEOREM StartupInvariant == Spec => []StartupInv
<1>1. Init => StartupInv
  BY StartupInitial
<1>2. StartupInv /\ [Next]_vars => StartupInv'
  BY StartupStep
<1> QED BY <1>1, <1>2, PTL DEF Spec

\* The types of what main works with.
THEOREM StartupTypeCorrect == Spec => []TypeOK
<1>1. StartupInv => TypeOK
  BY DEF StartupInv
<1> QED BY <1>1, StartupInvariant, PTL

\* The task of a connection is started only by a node whose file gives no value
\* that makes a step of main or of a connection panic, although no value is
\* checked where the file is parsed (main, start_heartbeat, start_connection).
THEOREM OnlyUsableStarts == Spec => []StartedIsUsable
<1>1. ASSUME StartupInv, Started
      PROVE  Usable(file)
  <2>1. /\ Respected /\ HeartbeatStarts
        /\ config.max_pending_send_to_all > 0 /\ config.max_pending_messages > 0
    BY <1>1 DEF StartupInv, Checked
  <2>2. CASE file.kind # "toml"
    BY <2>1, <2>2 DEF Usable, Startable, Respected
  <2>3. CASE file.kind = "toml"
    <3>1. file.given \in Given
      BY <1>1, <2>3, FileFacts DEF StartupInv
    <3>2. \A k \in Keys : file.given[k] # {} => config[k] \in file.given[k]
      BY <2>1, <2>3 DEF Respected
    <3>3. file.given.bind \subseteq Resolved
      <4>1. file.given.bind \in Option(Hosts) /\ "bind" \in Keys
        BY <3>1 DEF Given, Keys
      <4> QED BY <4>1, <2>1, <3>2 DEF Option, HeartbeatStarts, AddressResolves
    <3>4. file.given.port \subseteq 0..MaxPort
      <4>1. file.given.port \in Option(Ports) /\ "port" \in Keys
        BY <3>1 DEF Given, Keys
      <4> QED BY <4>1, <2>1, <3>2, StartupAssumption
              DEF Option, HeartbeatStarts, AddressResolves
    <3>5. 0 \notin file.given.max_pending_send_to_all
      <4>1. /\ file.given.max_pending_send_to_all \in Option(Counts)
            /\ "max_pending_send_to_all" \in Keys
        BY <3>1 DEF Given, Keys
      <4> QED BY <4>1, <2>1, <3>2 DEF Option
    <3>6. 0 \notin file.given.heartbeat_interval
      <4>1. /\ file.given.heartbeat_interval \in Option(Counts)
            /\ "heartbeat_interval" \in Keys
        BY <3>1 DEF Given, Keys
      <4> QED BY <4>1, <2>1, <3>2 DEF Option, HeartbeatStarts
    <3>7. 0 \notin file.given.max_pending_messages
      <4>1. /\ file.given.max_pending_messages \in Option(Counts)
            /\ "max_pending_messages" \in Keys
        BY <3>1 DEF Given, Keys
      <4> QED BY <4>1, <2>1, <3>2 DEF Option
    <3> QED BY <2>1, <2>3, <3>3, <3>4, <3>5, <3>6, <3>7 DEF Usable, Startable, Respected
  <2> QED BY <2>2, <2>3
<1>2. StartupInv => StartedIsUsable
  BY <1>1 DEF StartedIsUsable, Started
<1> QED BY <1>2, StartupInvariant, PTL
==============================================================================
