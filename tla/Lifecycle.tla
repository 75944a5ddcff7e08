----------------------------- MODULE Lifecycle -----------------------------
(***************************************************************************)
(* A daemon from its start to its end: the main goroutine (main, then      *)
(* InitEcoflow with ConnectMQTT in front), the loops it starts, the        *)
(* channels that stop them, the two handlers of a termination signal, and  *)
(* the connection to the broker.                                           *)
(*                                                                         *)
(* httpDone and done are channels of capacity one, quit is closed once.    *)
(* httpDone has two readers, the http store and the dynamic controller's   *)
(* loop.  A signal goes to every channel registered for it; while none is  *)
(* registered it ends the process.                                         *)
(*                                                                         *)
(* What the loops do with their data is in the other modules.  Losses of   *)
(* the broker, crashes and signals are disturbances, at most               *)
(* MaxDisturbances of them, and a process gets one signal at most.         *)
(***************************************************************************)
EXTENDS Integers

CONSTANTS
    MaxTries,        \* mqtt.maxTries of the configuration, 0 when left out
    DefaultMaxTries, \* the number of dials then
    CloseIfStuck,    \* mqtt.go:38, where it is FALSE; nothing sets it
    MaxDisturbances

VARIABLES
    process,      \* "up", "failed" (an exit status not 0) or "ended"
    options,      \* the configuration and the command line
    main,         \* where the main goroutine is
    tries,        \* dials that failed
    broker,       \* "up" or "down"
    link,         \* the connection to it: "none", "open" or "lost"
    mqttLoop,     \* loopCounterAndCancelOutput: "off" or "select"
    heard,        \* a message came since its last timeout
    stuckTry,     \* its try
    loop,         \* httpParameterStore, StartFlow and startStatLoop
    handler,      \* the signal handlers of ConnectMQTT and of InitEcoflow
    httpDone, done, \* values in the channels
    quit,         \* the channel is closed
    signalled,    \* this process has got a signal
    disturbances  \* how many are left

startVars == <<main, tries>>
linkVars == <<broker, link>>
mqttVars == <<mqttLoop, heard, stuckTry>>
stopVars == <<handler, httpDone, done, quit>>
outside == <<options, signalled, disturbances>>
lifeVars == <<process, startVars, linkVars, mqttVars, loop, stopVars, outside>>

Loops == {"http", "flow", "stat"}
Handlers == {"mqtt", "main"}
StuckTries == 10

Options == [mqtt      : BOOLEAN,  \* a broker is configured
            converter : BOOLEAN,  \* the file lists a microConverter
            limits    : BOOLEAN,  \* CheckBatteryLimits
            listener  : BOOLEAN]  \* not MqttDisable

ASSUME LifecycleAssumption ==
    /\ MaxTries \in Int /\ DefaultMaxTries \in Nat \ {0}
    /\ CloseIfStuck \in BOOLEAN /\ MaxDisturbances \in Nat

Dials == IF MaxTries = 0 THEN DefaultMaxTries ELSE MaxTries

FlagsOK == heard \in BOOLEAN /\ quit \in BOOLEAN /\ signalled \in BOOLEAN

LifeTypeOK ==
    /\ FlagsOK
    /\ process \in {"up", "failed", "ended"}
    /\ options \in Options
    /\ main \in {"request", "dial", "connect", "subscribe", "prepare", "start",
                 "setup", "listen", "wait"}
    /\ tries \in Nat /\ (tries = 0 \/ tries <= Dials)
    /\ broker \in {"up", "down"} /\ link \in {"none", "open", "lost"}
    /\ mqttLoop \in {"off", "select"}
    /\ stuckTry \in 0..StuckTries + 1
    /\ loop \in [Loops -> {"off", "busy", "select", "stopped"}]
    /\ handler \in [Handlers -> {"off", "waiting", "signal", "ended", "closed", "gone"}]
    /\ {httpDone, done} \subseteq 0..1
    /\ disturbances \in 0..MaxDisturbances
----------------------------------------------------------------------------
LifeInit ==
    /\ process = "up"
    /\ options \in Options
    /\ main = IF options.mqtt THEN "request" ELSE "prepare"
    /\ tries = 0
    /\ broker = "up" /\ link = "none"
    /\ mqttLoop = "off" /\ heard = FALSE /\ stuckTry = 0
    /\ loop = [l \in Loops |-> "off"]
    /\ handler = [h \in Handlers |-> "off"]
    /\ httpDone = 0 /\ done = 0 /\ quit = FALSE
    /\ signalled = FALSE
    /\ disturbances = MaxDisturbances

\* getMqttCurrentRequest: the microConverter it indexes is the file's, the
\* one of the environment comes with prepareEcoflow.  A failed GET is no
\* reason to stop.
ReadRequest ==
    /\ process = "up" /\ main = "request"
    /\ IF options.converter
       THEN main' = "dial" /\ UNCHANGED process
       ELSE process' = "failed" /\ UNCHANGED main
    /\ UNCHANGED <<tries, linkVars, mqttVars, loop, stopVars, outside>>

\* Mutant of Dial: one dial too many.
DialOnceMore ==
    /\ process = "up" /\ main = "dial"
    /\ tries <= Dials
    /\ IF broker = "up"
       THEN main' = "connect" /\ link' = "open" /\ UNCHANGED tries
       ELSE tries' = tries + 1 /\ UNCHANGED <<main, link>>
    /\ UNCHANGED <<process, broker, mqttVars, loop, stopVars, outside>>

Dial ==
    /\ process = "up" /\ main = "dial"
    /\ tries < Dials
    /\ IF broker = "up"
       THEN main' = "connect" /\ link' = "open" /\ UNCHANGED tries
       ELSE tries' = tries + 1 /\ UNCHANGED <<main, link>>
    /\ UNCHANGED <<process, broker, mqttVars, loop, stopVars, outside>>

\* The loop of tryConnectMQTT is over.  With a negative maxTries it never
\* ran, there is no error and no connection.
DialsOver ==
    /\ process = "up" /\ main = "dial"
    /\ tries >= Dials
    /\ IF tries > 0
       THEN process' = "failed" /\ UNCHANGED main
       ELSE main' = "connect" /\ UNCHANGED process
    /\ UNCHANGED <<tries, linkVars, mqttVars, loop, stopVars, outside>>

Connect ==
    /\ process = "up" /\ main = "connect" /\ link = "open"
    /\ main' = "subscribe"
    /\ handler' = [handler EXCEPT !["mqtt"] = "waiting"]
    /\ UNCHANGED <<process, tries, linkVars, mqttVars, loop, httpDone, done, quit,
                   outside>>

Subscribe ==
    /\ process = "up" /\ main = "subscribe" /\ link = "open"
    /\ main' = "prepare"
    /\ mqttLoop' = "select"
    /\ UNCHANGED <<process, tries, linkVars, heard, stuckTry, loop, stopVars, outside>>

\* Connect or Subscribe returns an error.
BrokerFails ==
    /\ process = "up" /\ main \in {"connect", "subscribe"} /\ link # "open"
    /\ process' = "failed"
    /\ UNCHANGED <<startVars, linkVars, mqttVars, loop, stopVars, outside>>

PrepareEcoflow ==
    /\ process = "up" /\ main = "prepare"
    /\ main' = "start"
    /\ UNCHANGED <<process, tries, linkVars, mqttVars, loop, stopVars, outside>>

\* Mutant of StartLoops: StartFlow is called, not started with go.
StartLoopsInline ==
    /\ process = "up" /\ main = "start"
    /\ main' = IF options.limits THEN main ELSE "setup"
    /\ loop' = [http |-> IF options.limits THEN "off" ELSE "busy",
                flow |-> IF options.limits THEN "busy" ELSE "off",
                stat |-> IF options.limits THEN "off" ELSE "select"]
    /\ UNCHANGED <<process, tries, linkVars, mqttVars, stopVars, outside>>

StartLoops ==
    /\ process = "up" /\ main = "start"
    /\ main' = "setup"
    /\ loop' = [http |-> "busy",
                flow |-> IF options.limits THEN "busy" ELSE "off",
                stat |-> "select"]
    /\ UNCHANGED <<process, tries, linkVars, mqttVars, stopVars, outside>>

SetupGracefulShutdown ==
    /\ process = "up" /\ main = "setup"
    /\ main' = IF options.listener THEN "listen" ELSE "wait"
    /\ handler' = [handler EXCEPT !["main"] = "waiting"]
    /\ UNCHANGED <<process, tries, linkVars, mqttVars, loop, httpDone, done, quit,
                   outside>>

InitMqtt ==
    /\ process = "up" /\ main = "listen"
    /\ main' = "wait"
    /\ UNCHANGED <<process, tries, linkVars, mqttVars, loop, stopVars, outside>>

\* <-done, and main returns: whatever the other goroutines do ends with it.
Return ==
    /\ process = "up" /\ main = "wait" /\ done = 1
    /\ process' = "ended" /\ done' = 0
    /\ UNCHANGED <<startVars, linkVars, mqttVars, loop, handler, httpDone, quit, outside>>
----------------------------------------------------------------------------
\* A message arrives, see RealtimeControl for what becomes of it.
Hear ==
    /\ process = "up" /\ mqttLoop = "select" /\ link = "open"
    /\ heard' = TRUE
    /\ UNCHANGED <<process, startVars, linkVars, mqttLoop, stuckTry, loop, stopVars,
                   outside>>

\* OutLoopSeconds have passed without one.
LoopTimeout ==
    /\ process = "up" /\ mqttLoop = "select"
    /\ LET stuck == ~heard /\ CloseIfStuck
       IN IF stuck /\ stuckTry > StuckTries
          THEN process' = "failed" /\ UNCHANGED <<heard, stuckTry>>
          ELSE /\ stuckTry' = IF stuck THEN stuckTry + 1 ELSE 0
               /\ heard' = FALSE
               /\ UNCHANGED process
    /\ UNCHANGED <<startVars, linkVars, mqttLoop, loop, stopVars, outside>>

\* The http store's and the dynamic controller's loops: the work of a round,
\* the wait for the next one, the value in httpDone.
RoundDone(l) ==
    /\ process = "up" /\ loop[l] = "busy"
    /\ loop' = [loop EXCEPT ![l] = "select"]
    /\ UNCHANGED <<process, startVars, linkVars, mqttVars, stopVars, outside>>

NextRound(l) ==
    /\ process = "up" /\ loop[l] = "select"
    /\ loop' = [loop EXCEPT ![l] = "busy"]
    /\ UNCHANGED <<process, startVars, linkVars, mqttVars, stopVars, outside>>

TakeHttpDone(l) ==
    /\ process = "up" /\ loop[l] = "select" /\ httpDone = 1
    /\ httpDone' = 0
    /\ loop' = [loop EXCEPT ![l] = "stopped"]
    /\ UNCHANGED <<process, startVars, linkVars, mqttVars, handler, done, quit, outside>>

StatStops ==
    /\ process = "up" /\ loop["stat"] = "select" /\ quit
    /\ loop' = [loop EXCEPT !["stat"] = "stopped"]
    /\ UNCHANGED <<process, startVars, linkVars, mqttVars, stopVars, outside>>
----------------------------------------------------------------------------
\* Mutant of MqttDisconnect: the handler disconnects and does not exit.
MqttDisconnectOnly ==
    /\ process = "up" /\ handler["mqtt"] = "signal"
    /\ handler' = [handler EXCEPT !["mqtt"] = "gone"]
    /\ link' = "none"
    /\ UNCHANGED <<process, startVars, broker, mqttVars, loop, httpDone, done, quit,
                   outside>>

\* ConnectMQTT's handler: it disconnects and exits.
MqttDisconnect ==
    /\ process = "up" /\ handler["mqtt"] = "signal"
    /\ handler' = [handler EXCEPT !["mqtt"] = "ended"]
    /\ link' = "none"
    /\ UNCHANGED <<process, startVars, broker, mqttVars, loop, httpDone, done, quit,
                   outside>>

MqttExit ==
    /\ process = "up" /\ handler["mqtt"] = "ended"
    /\ process' = "ended"
    /\ UNCHANGED <<startVars, linkVars, mqttVars, loop, stopVars, outside>>

\* The handler of setupGracefulShutdown: endHttp(), close(quit), done <- true.
EndHttp ==
    /\ process = "up" /\ handler["main"] = "signal"
    /\ httpDone = 0
    /\ httpDone' = 1
    /\ handler' = [handler EXCEPT !["main"] = "ended"]
    /\ UNCHANGED <<process, startVars, linkVars, mqttVars, loop, done, quit, outside>>

CloseQuit ==
    /\ process = "up" /\ handler["main"] = "ended"
    /\ quit' = TRUE
    /\ handler' = [handler EXCEPT !["main"] = "closed"]
    /\ UNCHANGED <<process, startVars, linkVars, mqttVars, loop, httpDone, done, outside>>

\* Mutant of SendDone: done <- true only where the http store has stopped.
SendDoneAfterStop ==
    /\ process = "up" /\ handler["main"] = "closed"
    /\ loop["http"] = "stopped"
    /\ done' = 1
    /\ handler' = [handler EXCEPT !["main"] = "gone"]
    /\ UNCHANGED <<process, startVars, linkVars, mqttVars, loop, httpDone, quit, outside>>

SendDone ==
    /\ process = "up" /\ handler["main"] = "closed"
    /\ done' = 1
    /\ handler' = [handler EXCEPT !["main"] = "gone"]
    /\ UNCHANGED <<process, startVars, linkVars, mqttVars, loop, httpDone, quit, outside>>
----------------------------------------------------------------------------
Signal ==
    /\ process = "up" /\ ~signalled /\ disturbances > 0
    /\ signalled' = TRUE /\ disturbances' = disturbances - 1
    /\ process' = IF \E h \in Handlers : handler[h] = "waiting"
                  THEN process ELSE "failed"
    /\ handler' = [h \in Handlers |->
                     IF handler[h] = "waiting" THEN "signal" ELSE handler[h]]
    /\ UNCHANGED <<options, startVars, linkVars, mqttVars, loop, httpDone, done, quit>>

\* A panic or a Fatalf in any goroutine: a database that does not answer
\* to connnectDatabase, a broker that refuses the subscription.
Crash ==
    /\ process = "up" /\ disturbances > 0
    /\ process' = "failed" /\ disturbances' = disturbances - 1
    /\ UNCHANGED <<options, startVars, linkVars, mqttVars, loop, stopVars, signalled>>

BrokerGoes ==
    /\ broker = "up" /\ disturbances > 0
    /\ broker' = "down" /\ disturbances' = disturbances - 1
    /\ link' = IF link = "open" THEN "lost" ELSE link
    /\ UNCHANGED <<process, options, startVars, mqttVars, loop, stopVars, signalled>>

BrokerComes ==
    /\ broker = "down"
    /\ broker' = "up"
    /\ UNCHANGED <<process, startVars, link, mqttVars, loop, stopVars, outside>>

\* The container is started again.
Restart ==
    /\ process # "up"
    /\ process' = "up"
    /\ main' = IF options.mqtt THEN "request" ELSE "prepare"
    /\ tries' = 0
    /\ link' = "none"
    /\ mqttLoop' = "off" /\ heard' = FALSE /\ stuckTry' = 0
    /\ loop' = [l \in Loops |-> "off"]
    /\ handler' = [h \in Handlers |-> "off"]
    /\ httpDone' = 0 /\ done' = 0 /\ quit' = FALSE
    /\ signalled' = FALSE
    /\ UNCHANGED <<options, broker, disturbances>>

MainSteps ==
    \/ ReadRequest \/ Dial \/ DialsOver \/ Connect \/ Subscribe \/ BrokerFails
    \/ PrepareEcoflow \/ StartLoops \/ SetupGracefulShutdown \/ InitMqtt \/ Return

MqttHandlerSteps == MqttDisconnect \/ MqttExit
MainHandlerSteps == EndHttp \/ CloseQuit \/ SendDone

LoopSteps ==
    \/ \E l \in {"http", "flow"} : RoundDone(l) \/ NextRound(l) \/ TakeHttpDone(l)
    \/ StatStops
    \/ Hear \/ LoopTimeout

LifeNext ==
    \/ MainSteps \/ MqttHandlerSteps \/ MainHandlerSteps \/ LoopSteps
    \/ Signal \/ Crash \/ BrokerGoes \/ BrokerComes \/ Restart

\* The scheduler runs every goroutine that can go on, InitMqtt returns, a
\* failed container is started again.  The rounds of the loops may last for
\* ever and nothing says that the broker comes back.
LifeSpec ==
    /\ LifeInit /\ [][LifeNext]_lifeVars
    /\ WF_lifeVars(MainSteps)
    /\ WF_lifeVars(MqttHandlerSteps) /\ WF_lifeVars(MainHandlerSteps)
    /\ WF_lifeVars(LoopTimeout)
    /\ WF_lifeVars(process = "failed" /\ Restart)
----------------------------------------------------------------------------
\* A process that gets a signal ends, wherever its goroutines are: in a dial
\* or before the handlers are there, in InitMqtt, with a round of a loop that
\* never returns, with both handlers at work at once (general.go:25-40,
\* mqtt.go:228-238, ecoflow.go:70-75).
ShutdownCompletes == signalled ~> process # "up"

\* With a broker that stays, and a converter in the file when a broker is
\* configured, a daemon that fails comes back until it waits in InitEcoflow
\* with all its loops started, or has been ended (mqtt.go:139-261,
\* ecoflow.go:58-76).
ComesUp ==
    (<>[](broker = "up") /\ [](options.mqtt => options.converter))
        => []<>(\/ process = "up" /\ main = "wait" /\ loop["http"] # "off"
                \/ process = "ended")

\* A process that has got a signal and still runs has somebody about to end it:
\* ConnectMQTT's handler, the one of InitEcoflow, or the value of done, which
\* the main goroutine is sure to read; and neither of that handler's sends
\* finds its channel full (general.go:31-38, mqtt.go:228-238, ecoflow.go:70-75).
SignalInHand ==
    /\ signalled /\ process = "up" =>
          \/ handler["mqtt"] \in {"signal", "ended"}
          \/ /\ main \in {"listen", "wait"}
             /\ handler["main"] \in {"signal", "ended", "closed"} \/ done = 1
    /\ handler["main"] = "signal" => httpDone = 0
    /\ handler["main"] = "closed" => done = 0

\* "endHttp end Database store of HTTP data" (http.go:259): once the value it
\* sends is taken out of httpDone, the http store's loop has stopped.  The other
\* reader of the channel breaks it (compute.go:135).
EndHttpEndsStore ==
    handler["main"] \in {"ended", "closed", "gone"} /\ httpDone = 0
        => loop["http"] = "stopped"

\* A daemon that listens to the broker, loses the connection while it runs
\* and finds the broker back listens again, or at least ends so that it is
\* started anew (mqtt.go:55, 93-99, 183-189).
ListensAgain ==
    <>[](broker = "up") => (link = "lost" ~> (link = "open" \/ process # "up"))
============================================================================
