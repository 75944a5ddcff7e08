--------------------------- MODULE DynamicControl ---------------------------
(***************************************************************************)
(* The dynamic controller (compute.go): StartFlow's goroutine reads the    *)
(* last half hour of meter and converter records from the database         *)
(* (ReadCurrentFlow), derives a request from them (AnalyzeEnergyHistory),  *)
(* sends it, waits, and starts over.                                       *)
(*                                                                         *)
(* AnalyzeEnergyHistory reads the live configuration field by field, with  *)
(* log and status calls between; each read is a step, and a reload can     *)
(* come between any two:                                                   *)
(*   Gate        the switch DynamicRequest;                                *)
(*   ReduceFlow  where power is exported: the dead zone;                   *)
(*   LiftFlow    where none is: the upper limit, for the drawn power;      *)
(*   SizeFlow    the dead zone;                                            *)
(*   BaseFlow    the base request;                                         *)
(*   CapFlow     the upper limit, now for the request;                     *)
(*   AboveFlow   the base request again;                                   *)
(*   DecideFlow  the switch DynamicRequest again.                          *)
(***************************************************************************)
EXTENDS AdapterConfig, PowerRequest, Sequences

CONSTANTS
    Histories,  \* what the database can return, newest record first
    TestOnly    \* ecoflow.checkBatteryLimitsTests

VARIABLES
    flow,      \* where the goroutine is
    history,   \* lastLimitEntries, while a round lasts
    asked      \* newRequested, while a round lasts

flowVars == <<flow, history, asked>>

DefaultIntermediateSize == 15

Entry == [requested : Nat, powerout : Nat, housein : Nat, powercurr : Nat]

ASSUME DynamicAssumption ==
    /\ Histories \subseteq Seq(Entry)
    /\ TestOnly \in BOOLEAN

\* Between the first look at the configuration and the last.
Deciding == {"reduce", "lift", "size", "base", "cap", "above", "test"}

FlowTypeOK ==
    /\ flow \in {"off", "read", "analyze", "set", "wait"} \cup Deciding
    /\ history \in Seq(Entry)
    /\ asked \in Int
----------------------------------------------------------------------------
(* The arithmetic of AnalyzeEnergyHistory. *)

Exporting(h) == h[1].powerout > 0

\* The record of least drawn power: the first of the list, sorted stably.
Lowest(h) ==
    LET least == {i \in DOMAIN h : \A j \in DOMAIN h : h[i].powercurr <= h[j].powercurr}
    IN  h[CHOOSE i \in least : \A j \in least : i <= j]

\* The power taken for drawn, lifted to the upper limit where it is below.
Drawn(cfg, e) ==
    e.housein + (IF e.powercurr > cfg.UpperBatLimit THEN e.powercurr ELSE cfg.UpperBatLimit)
----------------------------------------------------------------------------
FlowInit == flow = "off" /\ history = <<>> /\ asked = 0

StartFlow ==
    /\ process = "up"
    /\ flow = "off"
    /\ flow' = "read"
    /\ adapter' = [adapter EXCEPT !.IntermediateSize =
                     IF @ = 0 THEN DefaultIntermediateSize ELSE @]
    /\ UNCHANGED <<process, watcher, history, asked>>

ReadCurrentFlow(h) ==
    /\ process = "up"
    /\ flow = "read"
    /\ flow' = "analyze"
    /\ history' = h
    /\ UNCHANGED <<configVars, asked>>

\* The round is over, and what it worked on is forgotten.
RoundOver ==
    /\ flow' = "wait"
    /\ history' = <<>> /\ asked' = 0

ReadFlowFails ==
    /\ process = "up"
    /\ flow = "read"
    /\ RoundOver
    /\ UNCHANGED configVars

Gate ==
    /\ process = "up"
    /\ flow = "analyze"
    /\ IF history = <<>> \/ ~adapter.DynamicRequest
       THEN RoundOver
       ELSE /\ flow' = IF Exporting(history) THEN "reduce" ELSE "lift"
            /\ UNCHANGED <<history, asked>>
    /\ UNCHANGED configVars

\* A step of the computation: the request becomes watts.
Compute(from, to, watts) ==
    /\ process = "up"
    /\ flow = from
    /\ flow' = to
    /\ asked' = watts
    /\ UNCHANGED <<configVars, history>>

ReduceFlow ==
    Compute("reduce", "base",
            history[1].requested - history[1].powerout - adapter.IntermediateSize)

\* What the converter was asked for last is subtracted here and added again in
\* the next step.
LiftFlow == Compute("lift", "size", Drawn(adapter, Lowest(history)))

SizeFlow == Compute("size", "base", asked + adapter.IntermediateSize)

\* The base request is the least, in either branch.
BaseFlow ==
    Compute("base", IF Exporting(history) THEN "test" ELSE "cap", Raised(adapter, asked))

\* Mutant of CapFlow: the upper limit is not applied.
CapFlowOpen == Compute("cap", "above", asked)

CapFlow == Compute("cap", "above", Capped(adapter, asked))

\* A raise is sent only if it is above the base request.
AboveFlow ==
    /\ process = "up"
    /\ flow = "above"
    /\ IF asked > adapter.BaseRequest
       THEN flow' = "test" /\ UNCHANGED <<history, asked>>
       ELSE RoundOver
    /\ UNCHANGED configVars

\* Mutant of Sent: DynamicRequest is not tested again.
SentUntested == ~TestOnly /\ asked # history[1].requested

\* In either branch.
Sent == adapter.DynamicRequest /\ ~TestOnly /\ asked # history[1].requested

DecideFlow ==
    /\ process = "up"
    /\ flow = "test"
    /\ IF Sent THEN flow' = "set" /\ UNCHANGED <<history, asked>> ELSE RoundOver
    /\ UNCHANGED configVars

\* client.SetEnvironmentPowerConsumption; the answer is not looked at.
SetFlow ==
    /\ process = "up"
    /\ flow = "set"
    /\ RoundOver
    /\ UNCHANGED configVars

Wake ==
    /\ process = "up"
    /\ flow = "wait"
    /\ flow' = "read"
    /\ UNCHANGED <<configVars, history, asked>>

\* AnalyzeEnergyHistory.
Analyze ==
    \/ Gate
    \/ ReduceFlow
    \/ LiftFlow
    \/ SizeFlow
    \/ BaseFlow
    \/ CapFlow
    \/ AboveFlow
    \/ DecideFlow
    \/ SetFlow

FlowNext ==
    \/ \E h \in Histories : ReadCurrentFlow(h)
    \/ ReadFlowFails
    \/ Analyze
    \/ Wake
============================================================================
