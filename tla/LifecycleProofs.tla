-------------------------- MODULE LifecycleProofs --------------------------
(***************************************************************************)
(* Proofs about a daemon's life, for any number of dials and disturbances: *)
(*   - SignalNeverLost: a signal that was caught stays in somebody's hand; *)
(*   - LifeTypeCorrect: the type invariant.                                *)
(***************************************************************************)
EXTENDS Lifecycle, TLAPS

HandlerStates == {"off", "waiting", "signal", "ended", "closed", "gone"}
LoopStates == {"off", "busy", "select", "stopped"}

\* The handler of InitEcoflow is registered once, by a main goroutine that is
\* still ahead of setup, and sends its value after the signal.
LInv ==
    /\ handler \in [Handlers -> HandlerStates]
    /\ httpDone \in 0..1
    /\ main \in {"request", "dial", "connect", "subscribe", "prepare", "start", "setup"}
          => handler["main"] = "off"
    /\ httpDone = 1 => handler["main"] \in {"ended", "closed", "gone"}

\* A fresh process has sent nothing.
LEMMA LifeInitLInv == LifeInit => LInv
BY DEF LifeInit, LInv, Handlers, HandlerStates

\* Every step keeps the books of httpDone.
LEMMA LifeNextLInv == LInv /\ [LifeNext]_lifeVars => LInv'
<1> SUFFICES ASSUME LInv, [LifeNext]_lifeVars PROVE LInv'
  OBVIOUS
<1> USE DEF LInv, Handlers, HandlerStates, startVars, linkVars, mqttVars, stopVars, outside
<1>1. CASE MainSteps
  <2>1. CASE ReadRequest \/ Dial \/ DialsOver \/ Subscribe \/ BrokerFails \/ PrepareEcoflow
    BY <2>1 DEF ReadRequest, Dial, DialsOver, Subscribe, BrokerFails, PrepareEcoflow
  <2>2. CASE Connect
    BY <2>2 DEF Connect
  <2>3. CASE StartLoops
    BY <2>3 DEF StartLoops
  <2>4. CASE SetupGracefulShutdown
    BY <2>4 DEF SetupGracefulShutdown
  <2>5. CASE InitMqtt \/ Return
    BY <2>5 DEF InitMqtt, Return
  <2>6. QED
    BY <1>1, <2>1, <2>2, <2>3, <2>4, <2>5 DEF MainSteps
<1>2. CASE MqttHandlerSteps
  BY <1>2 DEF MqttHandlerSteps, MqttDisconnect, MqttExit
<1>3. CASE EndHttp
  BY <1>3 DEF EndHttp
<1>4. CASE CloseQuit \/ SendDone
  BY <1>4 DEF CloseQuit, SendDone
<1>5. CASE LoopSteps
  <2>1. ASSUME NEW l \in {"http", "flow"}, RoundDone(l) \/ NextRound(l) PROVE LInv'
    BY <2>1 DEF RoundDone, NextRound
  <2>2. ASSUME NEW l \in {"http", "flow"}, TakeHttpDone(l) PROVE LInv'
    BY <2>2 DEF TakeHttpDone
  <2>3. CASE StatStops
    BY <2>3 DEF StatStops
  <2>4. CASE Hear \/ LoopTimeout
    BY <2>4 DEF Hear, LoopTimeout
  <2>5. QED
    BY <1>5, <2>1, <2>2, <2>3, <2>4 DEF LoopSteps
<1>6. CASE Signal
  BY <1>6 DEF Signal
<1>7. CASE Crash \/ BrokerGoes \/ BrokerComes
  BY <1>7 DEF Crash, BrokerGoes, BrokerComes
<1>8. CASE Restart
  BY <1>8 DEF Restart
<1>9. CASE UNCHANGED lifeVars
  BY <1>9 DEF lifeVars
<1>10. QED
  BY <1>1, <1>2, <1>3, <1>4, <1>5, <1>6, <1>7, <1>8, <1>9
  DEF LifeNext, MainHandlerSteps
----------------------------------------------------------------------------
(* The signal. *)

\* Each handler is registered once, has work only after a signal, and the last
\* thing the one of InitEcoflow does is to fill done.
SInv ==
    /\ LInv
    /\ main \in {"request", "dial", "connect"} => handler["mqtt"] = "off"
    /\ handler["main"] # "off" => main \in {"listen", "wait"}
    /\ ~signalled => \A h \in Handlers : handler[h] \in {"off", "waiting"}
    /\ handler["mqtt"] \in {"off", "waiting", "signal", "ended"}
    /\ done = 1 => handler["main"] = "gone"
    /\ done \in 0..1
    /\ SignalInHand

\* A fresh process has no signal.
LEMMA LifeInitSInv == LifeInit => SInv
  BY LifeInitLInv DEF LifeInit, SInv, SignalInHand, Handlers

\* Every step keeps the signal in somebody's hand.
LEMMA LifeNextSInv == SInv /\ [LifeNext]_lifeVars => SInv'
<1> SUFFICES ASSUME SInv, [LifeNext]_lifeVars PROVE SInv'
  OBVIOUS
<1>0. LInv'
  BY LifeNextLInv DEF SInv
<1>a. /\ handler \in [Handlers -> HandlerStates] /\ httpDone \in 0..1
      /\ httpDone = 1 => handler["main"] \in {"ended", "closed", "gone"}
  BY DEF SInv, LInv
<1> USE <1>0, <1>a DEF SInv, SignalInHand, Handlers, HandlerStates,
            startVars, linkVars, mqttVars, stopVars, outside
<1>1. CASE MainSteps
  <2>1. CASE ReadRequest \/ Dial \/ DialsOver \/ Subscribe \/ BrokerFails \/ PrepareEcoflow
    BY <2>1 DEF ReadRequest, Dial, DialsOver, Subscribe, BrokerFails, PrepareEcoflow
  <2>2. CASE Connect
    BY <2>2 DEF Connect
  <2>3. CASE StartLoops
    BY <2>3 DEF StartLoops
  <2>4. CASE SetupGracefulShutdown
    BY <2>4 DEF SetupGracefulShutdown
  <2>5. CASE InitMqtt
    BY <2>5 DEF InitMqtt
  <2>6. CASE Return
    BY <2>6 DEF Return
  <2>7. QED
    BY <1>1, <2>1, <2>2, <2>3, <2>4, <2>5, <2>6 DEF MainSteps
<1>2. CASE MqttHandlerSteps
  BY <1>2 DEF MqttHandlerSteps, MqttDisconnect, MqttExit
<1>3. CASE MainHandlerSteps
  BY <1>3 DEF MainHandlerSteps, EndHttp, CloseQuit, SendDone
<1>4. CASE LoopSteps
  <2>1. ASSUME NEW l \in {"http", "flow"}, RoundDone(l) \/ NextRound(l) PROVE SInv'
    BY <2>1 DEF RoundDone, NextRound
  <2>2. ASSUME NEW l \in {"http", "flow"}, TakeHttpDone(l) PROVE SInv'
    BY <2>2 DEF TakeHttpDone
  <2>3. CASE StatStops \/ Hear
    BY <2>3 DEF StatStops, Hear
  <2>4. CASE LoopTimeout
    BY <2>4 DEF LoopTimeout
  <2>5. QED
    BY <1>4, <2>1, <2>2, <2>3, <2>4 DEF LoopSteps
<1>5. CASE Signal
  BY <1>5 DEF Signal
<1>6. CASE Crash \/ BrokerGoes \/ BrokerComes
  BY <1>6 DEF Crash, BrokerGoes, BrokerComes
<1>7. CASE Restart
  BY <1>7 DEF Restart
<1>8. CASE UNCHANGED lifeVars
  BY <1>8 DEF lifeVars
<1>9. QED
  BY <1>1, <1>2, <1>3, <1>4, <1>5, <1>6, <1>7, <1>8 DEF LifeNext

\* A signal is never lost, in whatever state of the start it comes and however
\* the two handlers run: somebody is about to end the process, and no channel
\* is full when its turn comes.
THEOREM SignalNeverLost == LifeSpec => []SignalInHand
<1>1. SInv => SignalInHand
  BY DEF SInv
<1>2. QED
  BY <1>1, LifeInitSInv, LifeNextSInv, PTL DEF LifeSpec
----------------------------------------------------------------------------
\* What LifeTypeOK says of the variables that are no flags.
RangesOK ==
    /\ process \in {"up", "failed", "ended"}
    /\ options \in Options
    /\ main \in {"request", "dial", "connect", "subscribe", "prepare", "start",
                 "setup", "listen", "wait"}
    /\ tries \in Nat /\ (tries = 0 \/ tries <= Dials)
    /\ broker \in {"up", "down"} /\ link \in {"none", "open", "lost"}
    /\ mqttLoop \in {"off", "select"}
    /\ stuckTry \in 0..StuckTries + 1
    /\ loop \in [Loops -> LoopStates]
    /\ handler \in [Handlers -> HandlerStates]
    /\ httpDone \in 0..1 /\ done \in 0..1
    /\ disturbances \in 0..MaxDisturbances

\* A fresh process has its types.
LEMMA LifeInitType == LifeInit => FlagsOK /\ RangesOK
<1> SUFFICES ASSUME LifeInit PROVE FlagsOK /\ RangesOK
  OBVIOUS
<1>1. FlagsOK
  BY Zenon DEF LifeInit, FlagsOK
<1>2. RangesOK
  BY LifecycleAssumption
  DEF LifeInit, RangesOK, Loops, Handlers, LoopStates, HandlerStates, StuckTries
<1>3. QED
  BY <1>1, <1>2

\* Every step leaves the flags Boolean.
LEMMA LifeNextFlags == FlagsOK /\ [LifeNext]_lifeVars => FlagsOK'
<1> SUFFICES ASSUME FlagsOK, [LifeNext]_lifeVars PROVE FlagsOK'
  OBVIOUS
<1> USE DEF FlagsOK, startVars, linkVars, mqttVars, stopVars, outside
<1>1. CASE MainSteps
  BY <1>1, Zenon
  DEF MainSteps, ReadRequest, Dial, DialsOver, Connect, Subscribe, BrokerFails,
      PrepareEcoflow, StartLoops, SetupGracefulShutdown, InitMqtt, Return
<1>2. CASE MqttHandlerSteps \/ MainHandlerSteps
  BY <1>2, Zenon
  DEF MqttHandlerSteps, MainHandlerSteps, MqttDisconnect, MqttExit, EndHttp, CloseQuit,
      SendDone
<1>3. CASE LoopSteps
  BY <1>3, Zenon
  DEF LoopSteps, RoundDone, NextRound, TakeHttpDone, StatStops, Hear, LoopTimeout
<1>4. CASE Signal \/ Crash \/ BrokerGoes \/ BrokerComes \/ Restart
  BY <1>4, Zenon DEF Signal, Crash, BrokerGoes, BrokerComes, Restart
<1>5. CASE UNCHANGED lifeVars
  BY <1>5, Zenon DEF lifeVars
<1>6. QED
  BY <1>1, <1>2, <1>3, <1>4, <1>5 DEF LifeNext

\* Every step keeps the ranges: the dials and the count of silent timeouts
\* stay within their bounds.
LEMMA LifeNextRanges == RangesOK /\ [LifeNext]_lifeVars => RangesOK'
<1> SUFFICES ASSUME RangesOK, [LifeNext]_lifeVars PROVE RangesOK'
  OBVIOUS
<1> USE LifecycleAssumption
    DEF RangesOK, Loops, Handlers, LoopStates, HandlerStates, StuckTries,
        startVars, linkVars, mqttVars, stopVars, outside
<1>0. Dials \in Int
  BY DEF Dials
<1>1. CASE MainSteps
  <2>1. CASE ReadRequest \/ Subscribe \/ BrokerFails \/ PrepareEcoflow
    BY <2>1 DEF ReadRequest, Subscribe, BrokerFails, PrepareEcoflow
  <2>2. CASE Dial
    BY <1>0, <2>2 DEF Dial
  <2>3. CASE DialsOver
    BY <2>3 DEF DialsOver
  <2>4. CASE Connect \/ SetupGracefulShutdown
    BY <2>4 DEF Connect, SetupGracefulShutdown
  <2>5. CASE StartLoops
    BY <2>5 DEF StartLoops
  <2>6. CASE InitMqtt \/ Return
    BY <2>6 DEF InitMqtt, Return
  <2>7. QED
    BY <1>1, <2>1, <2>2, <2>3, <2>4, <2>5, <2>6 DEF MainSteps
<1>2. CASE MqttHandlerSteps
  BY <1>2 DEF MqttHandlerSteps, MqttDisconnect, MqttExit
<1>3. CASE MainHandlerSteps
  BY <1>3 DEF MainHandlerSteps, EndHttp, CloseQuit, SendDone
<1>4. CASE LoopSteps
  <2>1. ASSUME NEW l \in {"http", "flow"}, RoundDone(l) \/ NextRound(l) \/ TakeHttpDone(l)
        PROVE RangesOK'
    BY <2>1 DEF RoundDone, NextRound, TakeHttpDone
  <2>2. CASE StatStops \/ Hear
    BY <2>2 DEF StatStops, Hear
  <2>3. CASE LoopTimeout
    BY <2>3 DEF LoopTimeout
  <2>4. QED
    BY <1>4, <2>1, <2>2, <2>3 DEF LoopSteps
<1>5. CASE Signal
  BY <1>5 DEF Signal
<1>6. CASE Crash \/ BrokerGoes \/ BrokerComes
  BY <1>6 DEF Crash, BrokerGoes, BrokerComes
<1>7. CASE Restart
  BY <1>7 DEF Restart
<1>8. CASE UNCHANGED lifeVars
  BY <1>8 DEF lifeVars
<1>9. QED
  BY <1>1, <1>2, <1>3, <1>4, <1>5, <1>6, <1>7, <1>8 DEF LifeNext

\* A daemon keeps its types, and never dials more often than it is told to.
THEOREM LifeTypeCorrect == LifeSpec => []LifeTypeOK
<1>1. FlagsOK /\ RangesOK => LifeTypeOK
  BY DEF RangesOK, LifeTypeOK, LoopStates, HandlerStates
<1>2. QED
  BY <1>1, LifeInitType, LifeNextFlags, LifeNextRanges, PTL DEF LifeSpec
============================================================================
