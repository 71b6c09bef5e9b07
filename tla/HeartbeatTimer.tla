---------------------------- MODULE HeartbeatTimer ----------------------------
(***************************************************************************)
(* Module Node with the time that its heartbeat task lives in              *)
(* (start_heartbeat of node/connection/src/lib.rs): the deadline of the    *)
(* tokio interval, ticks that are polled late and then come in a burst,    *)
(* and the reset that the accept loop asks for through the Notify.  Time   *)
(* is counted relative to the deadline, in a unit of which Period make one *)
(* heartbeat_interval.                                                     *)
(***************************************************************************)
EXTENDS Node

CONSTANTS
  Period,   \* heartbeat_interval
  MaxLate   \* the runtime polls the heartbeat task at most this long after
            \* its deadline

ASSUME TimerAssumption == Period \in Nat \ {0} /\ MaxLate \in Nat

VARIABLES
  left,     \* time until the deadline of the interval, negative when it is over
  silence,  \* history: time with a connection in the table and without a
            \* heartbeat that was sent or a reset
  lead      \* history: heartbeats sent, each worth a Period, less the time that
            \* has passed, not less than -MaxLate

timerVars == <<vars, left, silence, lead>>

\* The condition under which a tick sends a heartbeat.
Populated == num_connections(shared_state) > 0

\* time::interval: the first tick is due at once.
TimerInit ==
  /\ Init
  /\ left = 0
  /\ silence = 0
  /\ lead = 0

\* Mutant of Due: a tick that is polled late is lost.
DueExactly == left = 0

\* The sleep of the interval has elapsed.
Due == left <= 0

\* interval.tick returns.  The next deadline is one period after the last one,
\* which may be over already: missed ticks come in a burst.
Tick ==
  /\ Running
  /\ heartbeat = "waiting"
  /\ Due
  /\ left' = left + Period
  /\ heartbeat' = IF Populated THEN "sending" ELSE "waiting"
  /\ UNCHANGED <<phase, addr, sock, subscribed, shared_state, main, permit>>
  /\ UNCHANGED <<silence, lead>>

\* Mutants of AfterReset: a period is added to the old deadline; the next tick
\* is due at once.
AfterResetPostponed == left + Period
AfterResetNow == 0

\* interval.reset: the next deadline is one period from now.
AfterReset == Period

\* notify.notified returns.
ResetTimer ==
  /\ HeartbeatReset
  /\ left' = AfterReset
  /\ silence' = 0
  /\ UNCHANGED lead

\* The rest of the turn of the loop: the heartbeat is sent, or finds no receiver
\* and is none.
FinishBeat ==
  /\ \/ HeartbeatSend /\ silence' = 0 /\ lead' = lead + Period
     \/ HeartbeatPanic /\ UNCHANGED <<silence, lead>>
  /\ UNCHANGED left

\* A step of main.  Only its notify_one concerns the timer.
TimedMain == MainStep /\ UNCHANGED <<left, silence, lead>>

\* A step of the task of a connection, or the loss of its peer.  Neither what
\* it sends nor what it receives reaches the timer: the future that
\* notifier.notified() makes in its handler is dropped without being polled,
\* so that it does not even take the permit.
TimedTask(c) ==
  /\ TaskStep(c) \/ PeerGone(c)
  /\ silence' = IF Populated' THEN silence ELSE 0
  /\ UNCHANGED <<left, lead>>

\* Time passes, as far as the runtime lets a tick wait.  The turn of the loop
\* that sends does so in the poll in which the tick returned, and its time is
\* not counted; without a heartbeat task the timer stands still.
Elapse ==
  /\ Running
  /\ heartbeat = "waiting"
  /\ left > -MaxLate
  /\ left' = left - 1
  /\ silence' = IF Populated THEN silence + 1 ELSE 0
  /\ lead' = IF lead > -MaxLate THEN lead - 1 ELSE lead
  /\ UNCHANGED vars

TimerNext ==
  \/ Tick \/ ResetTimer \/ FinishBeat \/ Elapse
  \/ TimedMain
  \/ \E c \in Conn : TimedTask(c)

TimerSpec == TimerInit /\ [][TimerNext]_timerVars

\* The tasks are fair as in Node, time does not stop and the heartbeat task is
\* polled.  Its select polls the two branches in random order, so a tick that
\* is due again and again is not passed over for ever.
TimerFairSpec ==
  /\ TimerSpec
  /\ \A c \in Conn : FairTask(c)
  /\ WF_timerVars(Elapse)
  /\ SF_timerVars(Tick)
  /\ WF_timerVars(ResetTimer)
  /\ WF_timerVars(FinishBeat)
  /\ WF_timerVars(NotifyOne /\ TimedMain)

------------------------------------------------------------------------------
TimerTypeOK ==
  /\ TypeOK
  /\ left \in (-MaxLate)..Period
  /\ silence \in Nat
  /\ lead \in Int

\* However ticks, resets and connections interleave, while the table stays
\* occupied and the heartbeat task lives the interval never lets more than a
\* period, and the delay of the runtime, go by without a heartbeat or a reset
\* (start_heartbeat).
BoundedSilence == silence <= Period + MaxLate

\* Resets never make heartbeats come sooner and late ticks do not pile up: any
\* stretch of time t has at most 1 + (t + MaxLate) / Period heartbeats
\* (interval.tick and interval.reset in start_heartbeat).
BoundedBursts == lead <= Period

\* Once the accept loop stays in its wait for a connection, a heartbeat is sent
\* whenever the table stays occupied, whatever permit it has left behind and
\* however late the task is polled, unless the heartbeat task has panicked
\* (start_listen, start_heartbeat).  Where it can panic is the subject of
\* SilentOnlyWhileClosing and HeartbeatSurvives of module Node.
HeartbeatsResume ==
  \/ []<>(main # "accepting")
  \/ <>(heartbeat = "panicked")
  \/ [](Populated => <>(heartbeat = "sending" \/ ~Populated))

\* What the comment on start_heartbeat says ("Start a task to send heartbeats
\* every given duration period"): an occupied table gets its heartbeats, also
\* while the node accepts, or fails to accept, connections.  A node whose
\* heartbeat task has panicked is excused here: that is HeartbeatSurvives.
SteadyHeartbeats ==
  Populated ~> (heartbeat \in {"sending", "panicked"} \/ ~Populated \/ ~Running)
==============================================================================
