-------------------------- MODULE RealtimeControl --------------------------
(***************************************************************************)
(* The realtime controller (mqtt.go): one goroutine takes the messages of  *)
(* the meter from the MQTT client and, message by message, runs            *)
(* processEvent to its end: decide on a new request, send it to the        *)
(* converter through the cloud API, read the converter's output back.      *)
(* The handler reads the configuration without a lock, field by field, so  *)
(* a decision is a chain of steps, each with the value in force when it    *)
(* reads it:                                                               *)
(*   Accept  the switch RealtimeRequest;                                   *)
(*   Window  (no field) the wait that follows a request;                   *)
(*   Narrow  the dead zone;                                                *)
(*   Cap     the upper limit;                                              *)
(*   Raise   the base request;                                             *)
(*   Decide  the length of the wait, or Ignore.                            *)
(* Between any two steps the configuration can be reloaded, the main       *)
(* goroutine can still be starting up, time passes, and the process can    *)
(* end and be started again.                                               *)
(*                                                                         *)
(* The environment is open here: a message holds any reading of Events,    *)
(* the API reports any output of Reports or fails.  GridLoop closes it.    *)
(***************************************************************************)
EXTENDS AdapterConfig, PowerRequest

CONSTANTS
    Events,     \* what ParseMessage can return: [power : Int, out : Int]
    Reports,    \* the outputs the API can report (invToOtherWatts / 10)
    StartBlock  \* the initial blockRequestTime, in ticks

VARIABLES
    handler,           \* where the loop's goroutine is
    client,            \* the global API client: "nil" until prepareEcoflow
    currentRequested,  \* the output last read from the API, 0 if none
    wanted,            \* processEvent's newRequested while it decides
    newRequested,      \* the last request decided on, 0 if none
    blockLeft          \* ticks until blockRequestTime

controlVars ==
    <<handler, client, currentRequested, wanted, newRequested, blockLeft>>
vars == <<process, adapter, watcher,
          handler, client, currentRequested, wanted, newRequested, blockLeft>>

ASSUME RealtimeAssumption ==
    /\ Events \subseteq [power : Int, out : Int]
    /\ Reports \subseteq Nat
    /\ StartBlock \in Nat

TypeOK ==
    /\ ConfigTypeOK
    /\ handler \in {"connect", "idle", "window", "size", "cap", "base", "decide", "set",
                    "refresh"}
    /\ client \in {"nil", "ready"}
    /\ currentRequested \in Nat
    /\ wanted \in Int
    /\ newRequested \in Nat
    /\ blockLeft \in Nat
----------------------------------------------------------------------------
InitControl ==
    /\ handler = "connect"
    /\ client = "nil"
    /\ currentRequested = 0
    /\ wanted = 0
    /\ newRequested = 0
    /\ blockLeft = StartBlock

Init == InitConfig /\ InitControl

\* getMqttCurrentRequest, which ConnectMQTT calls once before it starts the
\* loop and processEvent calls after each request and instead of one.  It
\* uses an API client of its own.
RefreshOk(watts) ==
    /\ process = "up"
    /\ handler \in {"connect", "refresh"}
    /\ handler' = "idle"
    /\ currentRequested' = watts
    /\ UNCHANGED <<configVars, client, wanted, newRequested, blockLeft>>

\* The API fails: the output read last stays the one believed.
RefreshFails ==
    /\ process = "up"
    /\ handler \in {"connect", "refresh"}
    /\ handler' = "idle"
    /\ UNCHANGED <<configVars, client, currentRequested, wanted, newRequested, blockLeft>>

\* InitEcoflow goes on after ConnectMQTT, which has started the loop already.
PrepareEcoflow ==
    /\ process = "up"
    /\ handler # "connect"
    /\ client = "nil"
    /\ client' = "ready"
    /\ UNCHANGED <<configVars, handler, currentRequested, wanted, newRequested, blockLeft>>

\* Nothing is known of the converter, or realtime control is off.
Deferred == currentRequested = 0 \/ ~adapter.RealtimeRequest

ReadOnly(e) ==
    /\ process = "up"
    /\ handler = "idle"
    /\ Deferred
    /\ handler' = "refresh"
    /\ UNCHANGED <<configVars, client, currentRequested, wanted, newRequested, blockLeft>>

\* Only drawn power has to wait for the end of the blocked window.
Accept(e) ==
    LET power == AlignedPower(e.power, e.out)
        out == AlignedOut(e.power, e.out)
    IN  /\ process = "up"
        /\ handler = "idle"
        /\ ~Deferred
        /\ wanted' = Wished(currentRequested, power, out)
        /\ handler' = IF power > 0 THEN "window" ELSE "size"
        /\ UNCHANGED <<configVars, client, currentRequested, newRequested, blockLeft>>

\* Mutant of Window: the wait after a request is not looked at.
WindowOpen ==
    /\ process = "up"
    /\ handler = "window"
    /\ handler' = "size"
    /\ UNCHANGED <<configVars, client, currentRequested, wanted, newRequested, blockLeft>>

Window ==
    /\ process = "up"
    /\ handler = "window"
    /\ handler' = IF blockLeft > 0 THEN "refresh" ELSE "size"
    /\ UNCHANGED <<configVars, client, currentRequested, wanted, newRequested, blockLeft>>

Narrow ==
    /\ process = "up"
    /\ handler = "size"
    /\ wanted' = Narrowed(adapter, currentRequested, wanted)
    /\ handler' = "cap"
    /\ UNCHANGED <<configVars, client, currentRequested, newRequested, blockLeft>>

Cap ==
    /\ process = "up"
    /\ handler = "cap"
    /\ wanted' = Capped(adapter, wanted)
    /\ handler' = "base"
    /\ UNCHANGED <<configVars, client, currentRequested, newRequested, blockLeft>>

Raise ==
    /\ process = "up"
    /\ handler = "base"
    /\ wanted' = Raised(adapter, wanted)
    /\ handler' = "decide"
    /\ UNCHANGED <<configVars, client, currentRequested, newRequested, blockLeft>>

\* Mutant of Worthwhile: what is delivered already is requested again.
WorthwhileRepeated(watts) == watts > 0

Worthwhile(watts) == watts > 0 /\ watts # currentRequested

\* Mutant of Decide: the request does not start the wait.
DecideUnblocked ==
    /\ process = "up"
    /\ handler = "decide"
    /\ Worthwhile(wanted)
    /\ newRequested' = wanted
    /\ handler' = "set"
    /\ UNCHANGED <<configVars, client, currentRequested, wanted, blockLeft>>

Decide ==
    /\ process = "up"
    /\ handler = "decide"
    /\ Worthwhile(wanted)
    /\ newRequested' = wanted
    /\ blockLeft' = adapter.WaitAfterRequestSeconds
    /\ handler' = "set"
    /\ UNCHANGED <<configVars, client, currentRequested, wanted>>

\* The reading asks for no change: nothing is sent and nothing is read.
Ignore ==
    /\ process = "up"
    /\ handler = "decide"
    /\ ~Worthwhile(wanted)
    /\ handler' = "idle"
    /\ UNCHANGED <<configVars, client, currentRequested, wanted, newRequested, blockLeft>>

Receive(e) == ReadOnly(e) \/ Accept(e)

\* The steps of a decision, from the accepted reading on.
Deliberate == Window \/ Narrow \/ Cap \/ Raise \/ Decide \/ Ignore

\* client.SetEnvironmentPowerConsumption: its outcome is not looked at.
SetRequest ==
    /\ process = "up"
    /\ handler = "set"
    /\ client = "ready"
    /\ handler' = "refresh"
    /\ UNCHANGED <<configVars, client, currentRequested, wanted, newRequested, blockLeft>>

\* The same call through the nil client is a nil dereference.
SetOnNilClient ==
    /\ handler = "set"
    /\ client = "nil"
    /\ Dies
    /\ UNCHANGED controlVars

\* Mutant of Tick: the wait ends one tick late.
TickPastZero ==
    /\ process = "up"
    /\ blockLeft >= 0
    /\ blockLeft' = blockLeft - 1
    /\ UNCHANGED <<configVars, handler, client, currentRequested, wanted, newRequested>>

Tick ==
    /\ process = "up"
    /\ blockLeft > 0
    /\ blockLeft' = blockLeft - 1
    /\ UNCHANGED <<configVars, handler, client, currentRequested, wanted, newRequested>>

Crash == Dies /\ UNCHANGED controlVars

Restart ==
    /\ Boots
    /\ handler' = "connect"
    /\ client' = "nil"
    /\ currentRequested' = 0
    /\ wanted' = 0
    /\ newRequested' = 0
    /\ blockLeft' = StartBlock

Next ==
    \/ \E e \in Events : Receive(e)
    \/ Deliberate
    \/ SetRequest
    \/ SetOnNilClient
    \/ \E watts \in Reports : RefreshOk(watts)
    \/ RefreshFails
    \/ PrepareEcoflow
    \/ Reload /\ UNCHANGED controlVars
    \/ Tick
    \/ Crash
    \/ Restart

Spec == Init /\ [][Next]_vars
----------------------------------------------------------------------------
\* A decision under way is about a converter known to deliver something, and
\* wants more of it only if the wait of the last request is over: the blocked
\* window is tested once, when the reading is accepted, and nothing that
\* happens before the base request is looked at may open it again.
RaisesAreUnblocked ==
    /\ handler \in {"window", "size", "cap", "base", "decide"} => currentRequested # 0
    /\ handler \in {"size", "cap", "base"} /\ wanted > currentRequested => blockLeft = 0

\* The controller keeps the discipline of its requests under every
\* interleaving of readings, reloads, API failures and restarts: what
\* processEvent sends is bounded by an upper limit, lifted to a base request
\* and followed by a wait that were in force one after the other, though maybe
\* in different files, and goes up only when the last request's wait is over.
Discipline == INSTANCE RequestDiscipline
                WITH limits   <- adapter,
                     stage    <- CASE handler \in {"window", "size", "cap"} -> "armed"
                                   [] handler = "base" -> "bounded"
                                   [] handler = "decide" -> "lifted"
                                   [] OTHER -> "off",
                     target   <- IF handler \in {"base", "decide"} THEN wanted ELSE 0,
                     belief   <- currentRequested,
                     request  <- newRequested,
                     cooldown <- blockLeft

KeepsDiscipline == Discipline!Spec
============================================================================
