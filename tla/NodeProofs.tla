------------------------------ MODULE NodeProofs ------------------------------
(***************************************************************************)
(* Theorems about module Node, for any number of seeds, peers and          *)
(* addresses and any max_peer_count.                                       *)
(***************************************************************************)
EXTENDS Node, FiniteSetTheorems, FunctionTheorems, TLAPS

\* A task that exists works for an address.
LiveHasAddr == \A c \in Conn : Live(c) => addr[c] \in Addr

\* A task owns a receiver from its spawn until its select is over.
SubscriptionHeld ==
  \A c \in Conn :
    phase[c] \in {"connecting", "spawned", "greeting", "serving"} =>
      c \in subscribed

TypeInv == TypeOK /\ LiveHasAddr

\* The inductive invariant that holds whatever addresses the tasks share.
TableInv ==
  /\ TypeInv
  /\ IsFiniteSet(DOMAIN shared_state)
  /\ WithinCapacity
  /\ EntriesAreOwned
  /\ SubscriptionHeld

------------------------------------------------------------------------------
\* What the operations of the table return (ConnectionManager::insert and
\* remove): the keys, the entries and the type of the new map.
LEMMA InsertedFacts ==
  ASSUME NEW m \in Map, NEW x \in Addr, NEW s \in Metadata
  PROVE  /\ Inserted(m, x, s) \in Map
         /\ DOMAIN Inserted(m, x, s) = DOMAIN m \cup {x}
         /\ Inserted(m, x, s)[x] = s
         /\ \A k \in DOMAIN m : k # x => Inserted(m, x, s)[k] = m[k]
<1>1. PICK S \in SUBSET Addr : m \in [S -> Metadata]
  BY DEF Map
<1>2. Inserted(m, x, s) \in [S \cup {x} -> Metadata]
  BY <1>1 DEF Inserted
<1>3. S \cup {x} \in SUBSET Addr
  OBVIOUS
<1>4. Inserted(m, x, s) \in Map
  BY <1>2, <1>3 DEF Map
<1>5. QED
  BY <1>1, <1>4 DEF Inserted

\* What remove makes of the map: one key less, the other entries as they were.
LEMMA RemovedFacts ==
  ASSUME NEW m \in Map, NEW x
  PROVE  /\ Removed(m, x) \in Map
         /\ DOMAIN Removed(m, x) = DOMAIN m \ {x}
         /\ \A k \in DOMAIN m \ {x} : Removed(m, x)[k] = m[k]
<1>1. PICK S \in SUBSET Addr : m \in [S -> Metadata]
  BY DEF Map
<1>2. Removed(m, x) \in [S \ {x} -> Metadata]
  BY <1>1 DEF Removed
<1>3. S \ {x} \in SUBSET Addr
  OBVIOUS
<1>4. Removed(m, x) \in Map
  BY <1>2, <1>3 DEF Map
<1>5. QED
  BY <1>1, <1>4 DEF Removed

\* The table at startup is a map without entries.
LEMMA EmptyMapFacts == EmptyMap \in Map /\ DOMAIN EmptyMap = {}
<1>1. EmptyMap \in [{} -> Metadata]
  BY DEF EmptyMap
<1>2. QED
  BY <1>1 DEF Map, EmptyMap

\* What an entry of the table is: an address and the metadata of a task.
LEMMA MapEntry ==
  ASSUME NEW m \in Map, NEW k \in DOMAIN m
  PROVE  k \in Addr /\ m[k] \in Metadata
BY DEF Map

------------------------------------------------------------------------------
\* The variables keep their types; the address a task registers under is a
\* real one (start, main, start_listen).
LEMMA TypeStep == TypeInv /\ [Next]_vars => TypeInv'
<1> SUFFICES ASSUME TypeInv, [Next]_vars
             PROVE  TypeInv'
  OBVIOUS
<1> USE NodeAssumption DEF TypeInv, TypeOK, LiveHasAddr, Live, Phases, Conn
<1>1. ASSUME NEW c \in Seed, SpawnConnect(c)
      PROVE  TypeInv'
  BY <1>1 DEF SpawnConnect, Subscribe
<1>2. ASSUME NEW c \in Inbound, NEW a \in PeerAddr, Accept(c, a)
      PROVE  TypeInv'
  BY <1>2 DEF Accept, Subscribe
<1>3. CASE Bind \/ BindFailed \/ NotifyOne \/ AcceptFailed
  BY <1>3 DEF Bind, BindFailed, NotifyOne, AcceptFailed
<1>4. CASE HeartbeatStep
  BY <1>4 DEF HeartbeatStep, HeartbeatTick, HeartbeatSend, HeartbeatPanic,
              HeartbeatReset
<1>5. ASSUME NEW c \in Conn,
             Connected(c) \/ Greet(c) \/ StopServing(c) \/ CloseWriter(c)
             \/ PeerGone(c)
      PROVE  TypeInv'
  BY <1>5 DEF Connected, Greet, StopServing, SelectEnds, CloseWriter, PeerGone
<1>6. ASSUME NEW c \in Conn, ConnectFailed(c) \/ Refuse(c)
      PROVE  TypeInv'
  BY <1>6 DEF ConnectFailed, Refuse, Ended
<1>7. ASSUME NEW c \in Conn, Register(c)
      PROVE  TypeInv'
  <2>1. addr[c] \in Addr
    BY <1>7 DEF Register
  <2>2. shared_state' \in Map
    BY <1>7, <2>1, InsertedFacts DEF Register
  <2>3. QED
    BY <1>7, <2>2 DEF Register
<1>8. ASSUME NEW c \in Conn, Remove(c)
      PROVE  TypeInv'
  <2>1. shared_state' \in Map
    BY <1>8, RemovedFacts DEF Remove
  <2>2. QED
    BY <1>8, <2>1 DEF Remove, Ended
<1>9. CASE UNCHANGED vars
  BY <1>9 DEF vars
<1>10. QED
  BY <1>1, <1>2, <1>3, <1>4, <1>5, <1>6, <1>7, <1>8, <1>9
  DEF Next, MainStep, TaskStep

\* Every variable of the node keeps its type in every behaviour.
THEOREM NodeTypeCorrect == Spec => []TypeOK
<1>1. Init => TypeInv
  BY NodeAssumption, EmptyMapFacts
  DEF Init, TypeInv, TypeOK, LiveHasAddr, Live, Phases, Conn
<1>2. TypeInv => TypeOK
  BY DEF TypeInv
<1>3. QED
  BY <1>1, <1>2, TypeStep, PTL DEF Spec

------------------------------------------------------------------------------
\* The table, when tasks may share an address.

\* Owners of entries stay registered, and the receivers of running tasks stay
\* alive, through every step that is not one of the two that write the table.
LEMMA OwnersStep ==
  ASSUME TableInv, Next, ~ \E c \in Conn : Register(c) \/ Remove(c)
  PROVE  UNCHANGED shared_state /\ EntriesAreOwned' /\ SubscriptionHeld'
<1> USE NodeAssumption DEF TableInv, TypeInv, TypeOK, LiveHasAddr, Live, Phases,
        Conn, EntriesAreOwned, Registered, SubscriptionHeld
<1>0. \A k \in DOMAIN shared_state : shared_state[k] \in Conn
  BY MapEntry
<1>1. ASSUME NEW c \in Seed, SpawnConnect(c)
      PROVE  UNCHANGED shared_state /\ EntriesAreOwned' /\ SubscriptionHeld'
  BY <1>0, <1>1 DEF SpawnConnect, Subscribe
<1>2. ASSUME NEW c \in Inbound, NEW a \in PeerAddr, Accept(c, a)
      PROVE  UNCHANGED shared_state /\ EntriesAreOwned' /\ SubscriptionHeld'
  BY <1>0, <1>2 DEF Accept, Subscribe
<1>3. CASE Bind \/ BindFailed \/ NotifyOne \/ AcceptFailed
  BY <1>3 DEF Bind, BindFailed, NotifyOne, AcceptFailed
<1>4. CASE HeartbeatStep
  BY <1>4 DEF HeartbeatStep, HeartbeatTick, HeartbeatSend, HeartbeatPanic,
              HeartbeatReset
<1>5. ASSUME NEW c \in Conn,
             Connected(c) \/ Greet(c) \/ StopServing(c) \/ CloseWriter(c)
             \/ PeerGone(c)
      PROVE  UNCHANGED shared_state /\ EntriesAreOwned' /\ SubscriptionHeld'
  BY <1>0, <1>5 DEF Connected, Greet, StopServing, SelectEnds, CloseWriter, PeerGone
<1>6. ASSUME NEW c \in Conn, ConnectFailed(c) \/ Refuse(c)
      PROVE  UNCHANGED shared_state /\ EntriesAreOwned' /\ SubscriptionHeld'
  BY <1>0, <1>6 DEF ConnectFailed, Refuse, Ended
<1>7. QED
  BY <1>1, <1>2, <1>3, <1>4, <1>5, <1>6 DEF Next, MainStep, TaskStep

\* What the two steps that write the table leave in it.
LEMMA RegisterWrites ==
  ASSUME TypeInv, NEW c \in Conn, Register(c)
  PROVE  /\ DOMAIN shared_state' = DOMAIN shared_state \cup {addr[c]}
         /\ shared_state'[addr[c]] = c
         /\ \A k \in DOMAIN shared_state :
              k # addr[c] => shared_state'[k] = shared_state[k]
<1>1. addr[c] \in Addr /\ shared_state \in Map /\ c \in Metadata
  BY NodeAssumption DEF Register, TypeInv, TypeOK, LiveHasAddr, Live
<1>2. QED
  BY <1>1, InsertedFacts DEF Register

\* What Remove makes of the table (remove, called by start).
LEMMA RemoveWrites ==
  ASSUME TypeInv, NEW c \in Conn, Remove(c)
  PROVE  /\ DOMAIN shared_state' = DOMAIN shared_state \ {addr[c]}
         /\ \A k \in DOMAIN shared_state \ {addr[c]} :
              shared_state'[k] = shared_state[k]
<1>1. shared_state \in Map
  BY DEF TypeInv, TypeOK
<1>2. QED
  BY <1>1, RemovedFacts DEF Remove

\* The steps that write the table (ConnectionManager::insert and remove).
LEMMA RegisterStep ==
  ASSUME TableInv, NEW c \in Conn, Register(c)
  PROVE  /\ IsFiniteSet(DOMAIN shared_state')
         /\ WithinCapacity'
         /\ EntriesAreOwned'
         /\ SubscriptionHeld'
<1> DEFINE D == DOMAIN shared_state
<1>1. shared_state \in Map
  BY DEF TableInv, TypeInv, TypeOK
<1>2. /\ DOMAIN shared_state' = D \cup {addr[c]}
      /\ shared_state'[addr[c]] = c
      /\ \A k \in D : k # addr[c] => shared_state'[k] = shared_state[k]
  BY RegisterWrites DEF TableInv
<1>3. IsFiniteSet(D) /\ Cardinality(D) \in Nat
  BY FS_CardinalityType DEF TableInv
<1>4. Cardinality(D) < Capacity
  BY <1>3, CapacityAssumption DEF Register, LimitReached, num_connections
<1>5. IsFiniteSet(DOMAIN shared_state') /\ WithinCapacity'
  <2>1. /\ IsFiniteSet(D \cup {addr[c]})
        /\ \/ Cardinality(D \cup {addr[c]}) = Cardinality(D)
           \/ Cardinality(D \cup {addr[c]}) = Cardinality(D) + 1
    BY <1>3, FS_AddElement
  <2>2. QED
    BY <1>2, <1>3, <1>4, <2>1, CapacityAssumption
    DEF WithinCapacity, num_connections
<1>6. EntriesAreOwned'
  <2> SUFFICES ASSUME NEW k \in DOMAIN shared_state'
               PROVE  /\ phase'[shared_state'[k]] \in
                              {"greeting", "serving", "closing", "removing"}
                         /\ addr'[shared_state'[k]] = k
    BY DEF EntriesAreOwned, Registered
  <2>1. CASE k = addr[c]
    BY <1>2, <2>1 DEF Register, Registered, TableInv, TypeInv, TypeOK
  <2>2. CASE k # addr[c]
    <3>1. /\ k \in D
          /\ shared_state'[k] = shared_state[k]
          /\ shared_state[k] \in Conn
      BY <1>1, <1>2, <2>2, MapEntry, NodeAssumption
    <3>2. Registered(shared_state[k]) /\ addr[shared_state[k]] = k
      BY <3>1 DEF TableInv, EntriesAreOwned
    <3>3. QED
      BY <3>1, <3>2 DEF Register, Registered, TableInv, TypeInv, TypeOK
  <2>3. QED
    BY <2>1, <2>2
<1>7. SubscriptionHeld'
  BY DEF Register, TableInv, TypeInv, TypeOK, SubscriptionHeld
<1>8. QED
  BY <1>5, <1>6, <1>7

\* Removing an entry, also one that another task has taken over, keeps the
\* table within its capacity and the remaining entries owned.
LEMMA RemoveStep ==
  ASSUME TableInv, NEW c \in Conn, Remove(c)
  PROVE  /\ IsFiniteSet(DOMAIN shared_state')
         /\ WithinCapacity'
         /\ EntriesAreOwned'
         /\ SubscriptionHeld'
<1> DEFINE D == DOMAIN shared_state
<1>1. shared_state \in Map
  BY DEF TableInv, TypeInv, TypeOK
<1>2. /\ DOMAIN shared_state' = D \ {addr[c]}
      /\ \A k \in D \ {addr[c]} : shared_state'[k] = shared_state[k]
  BY RemoveWrites DEF TableInv
<1>3. IsFiniteSet(D) /\ Cardinality(D) \in Nat
  BY FS_CardinalityType DEF TableInv
<1>4. IsFiniteSet(DOMAIN shared_state') /\ WithinCapacity'
  <2>1. /\ IsFiniteSet(D \ {addr[c]})
        /\ \/ Cardinality(D \ {addr[c]}) = Cardinality(D)
           \/ Cardinality(D \ {addr[c]}) = Cardinality(D) - 1
    BY <1>3, FS_RemoveElement
  <2>2. QED
    BY <1>2, <1>3, <2>1, CapacityAssumption
    DEF TableInv, WithinCapacity, num_connections
<1>5. EntriesAreOwned'
  <2> SUFFICES ASSUME NEW k \in DOMAIN shared_state'
               PROVE  /\ phase'[shared_state'[k]] \in
                              {"greeting", "serving", "closing", "removing"}
                         /\ addr'[shared_state'[k]] = k
    BY DEF EntriesAreOwned, Registered
  <2>1. /\ k \in D /\ k # addr[c]
        /\ shared_state'[k] = shared_state[k]
        /\ shared_state[k] \in Conn
    BY <1>1, <1>2, MapEntry, NodeAssumption
  <2>2. Registered(shared_state[k]) /\ addr[shared_state[k]] = k
    BY <2>1 DEF TableInv, EntriesAreOwned
  <2>3. QED
    BY <2>1, <2>2 DEF Remove, Ended, Registered, TableInv, TypeInv, TypeOK
<1>6. SubscriptionHeld'
  BY DEF Remove, Ended, TableInv, TypeInv, TypeOK, SubscriptionHeld
<1>7. QED
  BY <1>4, <1>5, <1>6

\* Every step of every task keeps the invariant of the table ...
LEMMA TableStep == TableInv /\ [Next]_vars => TableInv'
<1> SUFFICES ASSUME TableInv, [Next]_vars
             PROVE  TableInv'
  OBVIOUS
<1>1. TypeInv'
  BY TypeStep DEF TableInv
<1>2. CASE Next /\ ~ \E c \in Conn : Register(c) \/ Remove(c)
  <2>1. UNCHANGED shared_state /\ EntriesAreOwned' /\ SubscriptionHeld'
    BY <1>2, OwnersStep
  <2>2. QED
    BY <1>1, <2>1 DEF TableInv, WithinCapacity, num_connections
<1>3. ASSUME NEW c \in Conn, Register(c)
      PROVE  TableInv'
  BY <1>1, <1>3, RegisterStep DEF TableInv
<1>4. ASSUME NEW c \in Conn, Remove(c)
      PROVE  TableInv'
  BY <1>1, <1>4, RemoveStep DEF TableInv
<1>5. CASE UNCHANGED vars
  BY <1>1, <1>5 DEF vars, TableInv, WithinCapacity, num_connections,
                    EntriesAreOwned, Registered, SubscriptionHeld
<1>6. QED
  BY <1>2, <1>3, <1>4, <1>5

\* ... and it holds before main has spawned anything.
LEMMA TableInit == Init => TableInv
<1> SUFFICES ASSUME Init PROVE TableInv
  OBVIOUS
<1>1. TypeInv
  BY NodeAssumption, EmptyMapFacts
  DEF Init, TypeInv, TypeOK, LiveHasAddr, Live, Phases, Conn
<1>2. DOMAIN shared_state = {}
  BY EmptyMapFacts DEF Init
<1>3. IsFiniteSet({}) /\ Cardinality({}) = 0
  BY FS_EmptySet
<1>4. IsFiniteSet(DOMAIN shared_state) /\ WithinCapacity
  BY <1>2, <1>3, CapacityAssumption DEF WithinCapacity, num_connections
<1>5. EntriesAreOwned /\ SubscriptionHeld
  BY <1>2 DEF Init, EntriesAreOwned, SubscriptionHeld
<1>6. QED
  BY <1>1, <1>4, <1>5 DEF TableInv

\* The inductive invariant of the table holds in every behaviour.
THEOREM TableInvariant == Spec => []TableInv
BY TableInit, TableStep, PTL DEF Spec

\* The table never exceeds max_peer_count (ConnectionManager::insert).
THEOREM TableBounded == Spec => []WithinCapacity
<1>1. TableInv => WithinCapacity
  BY DEF TableInv
<1>2. QED
  BY <1>1, TableInvariant, PTL

\* No entry outlives the connection task that made it, even when tasks share
\* addresses (start, ConnectionManager::insert and remove).
THEOREM TableOwned == Spec => []EntriesAreOwned
<1>1. TableInv => EntriesAreOwned
  BY DEF TableInv
<1>2. QED
  BY <1>1, TableInvariant, PTL

\* The heartbeat task can find entries and no receiver only between the end of
\* a select and the manager.remove that follows it (start, start_heartbeat).
THEOREM SilenceConfined == Spec => []SilentOnlyWhileClosing
<1>1. TableInv => SilentOnlyWhileClosing
  <2> SUFFICES ASSUME TableInv, subscribed = {}, NEW k \in DOMAIN shared_state
               PROVE  phase[shared_state[k]] \in {"closing", "removing"}
    BY DEF SilentOnlyWhileClosing
  <2>1. shared_state[k] \in Conn
    BY MapEntry, NodeAssumption DEF TableInv, TypeInv, TypeOK
  <2>2. Registered(shared_state[k])
    BY DEF TableInv, EntriesAreOwned
  <2>3. QED
    BY <2>1, <2>2 DEF TableInv, SubscriptionHeld, Registered
<1>2. QED
  BY <1>1, TableInvariant, PTL

------------------------------------------------------------------------------
\* The table, when no two tasks share an address.

\* Seeds resolve to different addresses and a peer does not come back before
\* the task of its broken connection has cleaned up.
UniqueAddresses ==
  /\ ~PeersRebind
  /\ \A c, d \in Seed : SeedAddr[c] = SeedAddr[d] => c = d

AddrInv ==
  /\ \A c, d \in Conn : Live(c) /\ Live(d) /\ addr[c] = addr[d] => c = d
  /\ \A c \in Conn : ~Live(c) => addr[c] = NoAddr
  /\ \A c \in Seed : Live(c) => addr[c] = SeedAddr[c]
  /\ main = "seeding" => \A c \in Inbound : phase[c] = "idle"

\* The inductive invariant that holds when addresses are unique.
TrackedInv == TableInv /\ AddrInv /\ ServedAreTracked

\* Tasks keep different addresses (main, start_listen, connect).
LEMMA AddrStep ==
  ASSUME UniqueAddresses, TypeInv, AddrInv, [Next]_vars
  PROVE  AddrInv'
<1> USE NodeAssumption DEF UniqueAddresses, TypeInv, TypeOK, LiveHasAddr, Live,
        Phases, Conn, AddrInv
<1>1. ASSUME NEW c \in Seed, SpawnConnect(c)
      PROVE  AddrInv'
  BY <1>1 DEF SpawnConnect, Subscribe
<1>2. ASSUME NEW c \in Inbound, NEW a \in PeerAddr, Accept(c, a)
      PROVE  AddrInv'
  BY <1>2 DEF Accept, Subscribe
<1>3. CASE Bind \/ BindFailed \/ NotifyOne \/ AcceptFailed
  BY <1>3 DEF Bind, BindFailed, NotifyOne, AcceptFailed
<1>4. CASE HeartbeatStep
  BY <1>4 DEF HeartbeatStep, HeartbeatTick, HeartbeatSend, HeartbeatPanic,
              HeartbeatReset
<1>5. ASSUME NEW c \in Conn,
             Connected(c) \/ Register(c) \/ Greet(c) \/ StopServing(c)
             \/ CloseWriter(c) \/ PeerGone(c)
      PROVE  AddrInv'
  BY <1>5 DEF Connected, Register, Greet, StopServing, SelectEnds, CloseWriter, PeerGone
<1>6. ASSUME NEW c \in Conn, ConnectFailed(c) \/ Refuse(c) \/ Remove(c)
      PROVE  AddrInv'
  BY <1>6 DEF ConnectFailed, Refuse, Remove, Ended
<1>7. CASE UNCHANGED vars
  BY <1>7 DEF vars
<1>8. QED
  BY <1>1, <1>2, <1>3, <1>4, <1>5, <1>6, <1>7 DEF Next, MainStep, TaskStep

\* A registered connection keeps its entry until it removes it itself.
LEMMA TrackedStep ==
  ASSUME UniqueAddresses, TrackedInv, [Next]_vars
  PROVE  ServedAreTracked'
<1> USE NodeAssumption DEF TrackedInv, TableInv, TypeInv, TypeOK, LiveHasAddr,
        Live, Phases, Conn, ServedAreTracked, Registered
<1>1. ASSUME NEW c \in Seed, SpawnConnect(c)
      PROVE  ServedAreTracked'
  BY <1>1 DEF SpawnConnect, Subscribe
<1>2. ASSUME NEW c \in Inbound, NEW a \in PeerAddr, Accept(c, a)
      PROVE  ServedAreTracked'
  BY <1>2 DEF Accept, Subscribe
<1>3. CASE Bind \/ BindFailed \/ NotifyOne \/ AcceptFailed
  BY <1>3 DEF Bind, BindFailed, NotifyOne, AcceptFailed
<1>4. CASE HeartbeatStep
  BY <1>4 DEF HeartbeatStep, HeartbeatTick, HeartbeatSend, HeartbeatPanic,
              HeartbeatReset
<1>5. ASSUME NEW c \in Conn,
             Connected(c) \/ Greet(c) \/ StopServing(c) \/ CloseWriter(c)
             \/ PeerGone(c)
      PROVE  ServedAreTracked'
  BY <1>5 DEF Connected, Greet, StopServing, SelectEnds, CloseWriter, PeerGone
<1>6. ASSUME NEW c \in Conn, ConnectFailed(c) \/ Refuse(c)
      PROVE  ServedAreTracked'
  BY <1>6 DEF ConnectFailed, Refuse, Ended
<1>7. ASSUME NEW c \in Conn, Register(c)
      PROVE  ServedAreTracked'
  <2>1. /\ DOMAIN shared_state' = DOMAIN shared_state \cup {addr[c]}
        /\ shared_state'[addr[c]] = c
        /\ \A k \in DOMAIN shared_state :
             k # addr[c] => shared_state'[k] = shared_state[k]
    BY <1>7, RegisterWrites
  <2>2. \A d \in Conn : Registered(d) => d # c /\ addr[d] # addr[c]
    BY <1>7 DEF Register, AddrInv
  <2>3. QED
    BY <1>7, <2>1, <2>2 DEF Register
<1>8. ASSUME NEW c \in Conn, Remove(c)
      PROVE  ServedAreTracked'
  <2>1. /\ DOMAIN shared_state' = DOMAIN shared_state \ {addr[c]}
        /\ \A k \in DOMAIN shared_state \ {addr[c]} :
             shared_state'[k] = shared_state[k]
    BY <1>8, RemoveWrites
  <2>2. \A d \in Conn : Registered(d) /\ d # c => addr[d] # addr[c]
    BY <1>8 DEF Remove, AddrInv
  <2>3. \A d \in Conn : d # c => phase'[d] = phase[d] /\ addr'[d] = addr[d]
    BY <1>8 DEF Remove, Ended
  <2>4. phase'[c] \in {"idle", "done"}
    BY <1>8 DEF Remove, Ended
  <2>5. QED
    BY <2>1, <2>2, <2>3, <2>4
<1>9. CASE UNCHANGED vars
  BY <1>9 DEF vars
<1>10. QED
  BY <1>1, <1>2, <1>3, <1>4, <1>5, <1>6, <1>7, <1>8, <1>9
  DEF Next, MainStep, TaskStep

\* With unique addresses every step keeps each served connection tracked ...
LEMMA TrackedInvStep ==
  ASSUME UniqueAddresses
  PROVE  TrackedInv /\ [Next]_vars => TrackedInv'
BY TableStep, AddrStep, TrackedStep DEF TrackedInv, TableInv

\* ... and nothing is served at the start.
LEMMA TrackedInit == Init => TrackedInv
<1> SUFFICES ASSUME Init PROVE TrackedInv
  OBVIOUS
<1>1. TableInv
  BY TableInit
<1>2. AddrInv /\ ServedAreTracked
  BY NodeAssumption DEF Init, AddrInv, ServedAreTracked, Registered, Live, Conn
<1>3. QED
  BY <1>1, <1>2 DEF TrackedInv

\* With unique addresses every registered connection is found in the table
\* under its address (start, ConnectionManager::insert and remove).
THEOREM ConnectionsTracked ==
  ASSUME UniqueAddresses
  PROVE  Spec => []ServedAreTracked
<1>1. TrackedInv => ServedAreTracked
  BY DEF TrackedInv
<1>2. QED
  BY <1>1, TrackedInit, TrackedInvStep, PTL DEF Spec

\* The registered connections are as many as the entries, at most: a
\* connection is told from the others by its entry.
LEMMA MembersCounted ==
  ASSUME TrackedInv
  PROVE  LET members == {c \in Conn : Registered(c)} IN
         /\ IsFiniteSet(members)
         /\ Cardinality(members) <= num_connections(shared_state)
<1> DEFINE members == {c \in Conn : Registered(c)}
           key == [c \in members |-> addr[c]]
<1>1. \A c \in members : addr[c] \in DOMAIN shared_state
                         /\ shared_state[addr[c]] = c
  BY DEF TrackedInv, ServedAreTracked
<1>2. key \in [members -> DOMAIN shared_state]
  BY <1>1
<1>3. \A c, d \in members : key[c] = key[d] => c = d
  BY <1>1
<1>4. IsFiniteSet(DOMAIN shared_state)
  BY DEF TrackedInv, TableInv
<1> HIDE DEF members, key
<1>5. key \in Injection(members, DOMAIN shared_state)
  BY <1>2, <1>3, Fun_IsInj
<1>6. IsFiniteSet(members) /\ Cardinality(members) <= Cardinality(DOMAIN shared_state)
  BY <1>4, <1>5, FS_Injection
<1>7. QED
  BY <1>6 DEF members, num_connections

\* Every step of the node is a join, a leave or a stutter of the members.
LEMMA AdmissionStep ==
  ASSUME TrackedInv, [Next]_vars
  PROVE  [Admission!Next]_{c \in Conn : Registered(c)}
<1> DEFINE members == {c \in Conn : Registered(c)}
           members1 == {c \in Conn : phase'[c] \in
                          {"greeting", "serving", "closing", "removing"}}
<1> USE NodeAssumption DEF Phases, Conn, Registered
<1>0. phase \in [Conn -> Phases]
  BY DEF TrackedInv, TableInv, TypeInv, TypeOK
<1>1. ASSUME NEW c \in Conn, Register(c)
      PROVE  /\ c \notin members
             /\ Cardinality(members) < Capacity
             /\ members1 = members \cup {c}
  <2>1. c \notin members /\ members1 = members \cup {c}
    BY <1>0, <1>1 DEF Register
  <2>2. IsFiniteSet(DOMAIN shared_state) /\ num_connections(shared_state) \in Nat
    BY FS_CardinalityType DEF TrackedInv, TableInv, num_connections
  <2>3. num_connections(shared_state) < Capacity
    BY <1>1, <2>2, CapacityAssumption DEF Register, LimitReached
  <2>4. IsFiniteSet(members) /\ Cardinality(members) <= num_connections(shared_state)
    BY MembersCounted
  <2>5. Cardinality(members) \in Nat
    BY <2>4, FS_CardinalityType
  <2> HIDE DEF members
  <2>6. Cardinality(members) < Capacity
    BY <2>2, <2>3, <2>4, <2>5, CapacityAssumption
  <2>7. QED
    BY <2>1, <2>6
<1>2. ASSUME NEW c \in Conn, Remove(c)
      PROVE  c \in members /\ members1 = members \ {c}
  BY <1>0, <1>2 DEF Remove, Ended
<1>3. ASSUME ~ \E c \in Conn : Register(c) \/ Remove(c)
      PROVE  members1 = members
  <2>1. ASSUME NEW c \in Seed, SpawnConnect(c)
        PROVE  members1 = members
    BY <1>0, <2>1 DEF SpawnConnect, Subscribe
  <2>2. ASSUME NEW c \in Inbound, NEW a \in PeerAddr, Accept(c, a)
        PROVE  members1 = members
    BY <1>0, <2>2 DEF Accept, Subscribe
  <2>3. CASE Bind \/ BindFailed \/ NotifyOne \/ AcceptFailed
    BY <2>3 DEF Bind, BindFailed, NotifyOne, AcceptFailed
  <2>4. CASE HeartbeatStep
    BY <2>4 DEF HeartbeatStep, HeartbeatTick, HeartbeatSend, HeartbeatPanic,
                HeartbeatReset
  <2>5. ASSUME NEW c \in Conn,
               Connected(c) \/ Greet(c) \/ StopServing(c) \/ CloseWriter(c)
               \/ PeerGone(c)
        PROVE  members1 = members
    BY <1>0, <2>5 DEF Connected, Greet, StopServing, SelectEnds, CloseWriter, PeerGone
  <2>6. ASSUME NEW c \in Conn, ConnectFailed(c) \/ Refuse(c)
        PROVE  members1 = members
    BY <1>0, <2>6 DEF ConnectFailed, Refuse, Ended
  <2>7. CASE UNCHANGED vars
    BY <2>7 DEF vars
  <2>8. QED
    BY <1>3, <2>1, <2>2, <2>3, <2>4, <2>5, <2>6, <2>7
    DEF Next, MainStep, TaskStep
<1>4. \A S : Admission!Cardinality(S) = Cardinality(S)
  BY Zenon DEF Admission!Cardinality, Cardinality
<1>5. QED
  BY <1>1, <1>2, <1>3, <1>4
  DEF Admission!Next, Admission!Join, Admission!Leave

\* With unique addresses the connection tasks and the table implement
\* admission control: a bounded set that a task enters only while there is
\* room and leaves only by its own manager.remove (start).
THEOREM AdmissionImplemented ==
  ASSUME UniqueAddresses
  PROVE  Spec => AdmissionRefined
<1>1. Init => Admission!Init
  BY DEF Init, Admission!Init, Registered
<1>2. QED
  BY <1>1, TrackedInit, TrackedInvStep, AdmissionStep, PTL
  DEF Spec, AdmissionRefined, Admission!Spec

==============================================================================
