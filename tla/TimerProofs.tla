------------------------------ MODULE TimerProofs ------------------------------
(***************************************************************************)
(* Theorems about module HeartbeatTimer, for every period and every delay  *)
(* of the runtime, and for any number of seeds, slots and addresses.       *)
(***************************************************************************)
EXTENDS HeartbeatTimer, NodeProofs

\* The period that a tick has already added to the deadline while its heartbeat
\* is not sent yet, or never will be.
Owed == IF heartbeat = "waiting" THEN 0 ELSE Period

\* The silence so far and the time that is left make at most a period, a lead
\* is paid back by the next deadline, and an empty table is not silent.  Both
\* bounds count the deadline without the period that is owed, which is no
\* further away than a late tick leaves it.
TimerInv ==
  /\ left \in Int /\ Owed - MaxLate <= left /\ left <= Period
  /\ silence \in Nat /\ silence <= Period - (left - Owed)
  /\ lead \in Int /\ lead <= left - Owed
  /\ ~Populated => silence = 0

\* The steps that do not touch the timer leave the invariant alone.
LEMMA TimerAlone ==
  ASSUME TimerInv, UNCHANGED <<left, silence, lead, shared_state, heartbeat>>
  PROVE  TimerInv'
BY TimerAssumption DEF TimerInv, Owed, Populated, num_connections

\* main never writes the table and is not the heartbeat task.
LEMMA MainKeepsTable ==
  ASSUME MainStep PROVE UNCHANGED <<shared_state, heartbeat>>
BY DEF MainStep, SpawnConnect, Bind, BindFailed, NotifyOne, AcceptFailed, Accept

\* The interval starts with its first tick due.
LEMMA TimerInitial ==
  ASSUME TimerInit PROVE TimerInv
BY TimerAssumption DEF TimerInit, Init, TimerInv, Owed

\* Ticks, resets, the passing of time and all steps of the node keep the invariant.
LEMMA TimerStep ==
  ASSUME TimerInv, [TimerNext]_timerVars
  PROVE  TimerInv'
<1> USE TimerAssumption DEF Owed
<1>1. CASE Tick
  <2>1. Populated' <=> Populated
    BY <1>1 DEF Tick, Populated, num_connections
  <2> QED BY <1>1, <2>1 DEF Tick, Due, TimerInv
<1>2. CASE ResetTimer
  <2>1. Populated' <=> Populated
    BY <1>2 DEF ResetTimer, HeartbeatReset, Populated, num_connections
  <2> QED BY <1>2, <2>1 DEF ResetTimer, HeartbeatReset, AfterReset, TimerInv
<1>3. CASE FinishBeat
  <2>1. Populated' <=> Populated
    BY <1>3 DEF FinishBeat, HeartbeatSend, HeartbeatPanic, Populated, num_connections
  <2>2. CASE HeartbeatSend /\ silence' = 0 /\ lead' = lead + Period
    BY <1>3, <2>1, <2>2 DEF FinishBeat, HeartbeatSend, TimerInv
  <2>3. CASE HeartbeatPanic /\ UNCHANGED <<silence, lead>>
    BY <1>3, <2>1, <2>3 DEF FinishBeat, HeartbeatPanic, TimerInv
  <2> QED BY <1>3, <2>2, <2>3 DEF FinishBeat
<1>4. CASE Elapse
  <2>1. Populated' <=> Populated
    BY <1>4 DEF Elapse, vars, Populated, num_connections
  <2> QED BY <1>4, <2>1 DEF Elapse, vars, TimerInv
<1>5. CASE TimedMain
  BY <1>5, MainKeepsTable, TimerAlone DEF TimedMain
<1>6. ASSUME NEW c \in Conn, TimedTask(c)
      PROVE  TimerInv'
  <2>1. UNCHANGED heartbeat
    BY <1>6 DEF TimedTask, TaskStep, Connected, ConnectFailed, Register, Refuse,
                Greet, StopServing, CloseWriter, Remove, PeerGone
  <2> QED BY <1>6, <2>1 DEF TimedTask, TimerInv
<1>7. CASE UNCHANGED timerVars
  BY <1>7, TimerAlone DEF timerVars, vars
<1> QED BY <1>1, <1>2, <1>3, <1>4, <1>5, <1>6, <1>7 DEF TimerNext

\* The invariant of the timer of start_heartbeat.
THEOREM TimerInvariant == TimerSpec => []TimerInv
<1>1. TimerInit => TimerInv
  BY TimerInitial
<1>2. TimerInv /\ [TimerNext]_timerVars => TimerInv'
  BY TimerStep
<1> QED BY <1>1, <1>2, PTL DEF TimerSpec

\* An occupied table never waits longer for a heartbeat or a reset than one
\* period and the delay with which the runtime polls the heartbeat task.
THEOREM SilenceBounded == TimerSpec => []BoundedSilence
<1>1. TimerInv => BoundedSilence
  BY TimerAssumption DEF TimerInv, Owed, BoundedSilence
<1> QED BY <1>1, TimerInvariant, PTL

\* However resets and late ticks fall, heartbeats are never more than a period
\* ahead of the time that has passed.
THEOREM BurstsBounded == TimerSpec => []BoundedBursts
<1>1. TimerInv => BoundedBursts
  BY TimerAssumption DEF TimerInv, Owed, BoundedBursts
<1> QED BY <1>1, TimerInvariant, PTL

\* The node with its timer implements the node without: every theorem of
\* NodeProofs about Spec holds with time.
LEMMA TimerImplementsNode == TimerSpec => Spec
<1>1. TimerInit => Init
  BY DEF TimerInit
<1>2. [TimerNext]_timerVars => [Next]_vars
  <2> SUFFICES ASSUME [TimerNext]_timerVars PROVE [Next]_vars
    OBVIOUS
  <2>1. CASE Tick
    <3>1. CASE Populated
      BY <2>1, <3>1 DEF Tick, Populated, HeartbeatTick, HeartbeatStep, Next
    <3>2. CASE ~Populated
      BY <2>1, <3>2 DEF Tick, vars
    <3> QED BY <3>1, <3>2
  <2>2. CASE ResetTimer \/ FinishBeat
    BY <2>2 DEF ResetTimer, FinishBeat, HeartbeatStep, Next
  <2>3. CASE Elapse \/ UNCHANGED timerVars
    BY <2>3 DEF Elapse, timerVars
  <2>4. CASE TimedMain
    BY <2>4 DEF TimedMain, Next
  <2>5. ASSUME NEW c \in Conn, TimedTask(c)
        PROVE  [Next]_vars
    BY <2>5 DEF TimedTask, Next
  <2> QED BY <2>1, <2>2, <2>3, <2>4, <2>5 DEF TimerNext
<1> QED BY <1>1, <1>2, PTL DEF TimerSpec, Spec

\* The types of the node and of its timer.
THEOREM TimerTypeCorrect == TimerSpec => []TimerTypeOK
<1>1. TimerInv /\ TypeOK => TimerTypeOK
  BY TimerAssumption DEF TimerInv, Owed, TimerTypeOK
<1>2. TimerSpec => []TypeOK
  BY TimerImplementsNode, NodeTypeCorrect, PTL
<1> QED BY <1>1, <1>2, TimerInvariant, PTL
==============================================================================
