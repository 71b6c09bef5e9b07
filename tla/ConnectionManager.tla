-------------------------- MODULE ConnectionManager --------------------------
(***************************************************************************)
(* The table of connected peers of a node                                  *)
(* (node/connection/src/connection_manager.rs): a map from the socket      *)
(* address of a peer to metadata about its connection, behind one mutex.   *)
(* Every operation locks the mutex for its whole body, so each one is one  *)
(* atomic step of the task that calls it.  The operators below say what an *)
(* operation returns and what it leaves in the map; module Node applies    *)
(* them to its variable shared_state.                                      *)
(***************************************************************************)
EXTENDS Integers, FiniteSets

CONSTANTS
  Addr,       \* socket addresses, the keys of the map
  Metadata,   \* created_at stamps
  Capacity    \* max_peer_count of the configuration

ASSUME CapacityAssumption == Capacity \in Nat

\* HashMap<SocketAddr, Metadata>
Map == UNION {[S -> Metadata] : S \in SUBSET Addr}

\* ConnectionManager::new: the map starts empty.
EmptyMap == [a \in {} |-> a]

\* ConnectionManager::num_connections
num_connections(state) == Cardinality(DOMAIN state)

\* Mutant of LimitReached: off by one.
LimitExceeded(state) == num_connections(state) > Capacity

\* The early return of ConnectionManager::insert.  The length is compared
\* whether or not the address is already a key.
LimitReached(state) == num_connections(state) >= Capacity

\* HashMap::insert in ConnectionManager::insert: the entry of an address that
\* is already a key is overwritten.
Inserted(state, addr, s) ==
  [a \in DOMAIN state \cup {addr} |-> IF a = addr THEN s ELSE state[a]]

\* ConnectionManager::remove: whatever entry the address has is dropped,
\* whichever connection inserted it.
Removed(state, addr) == [a \in DOMAIN state \ {addr} |-> state[a]]
==============================================================================
