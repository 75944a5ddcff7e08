------------------------------ MODULE GridLoop ------------------------------
(***************************************************************************)
(* The realtime controller in its loop: the converter it commands, the     *)
(* house that draws power, and the meter whose readings come back over     *)
(* MQTT.  A reading is measured when it is published and used when the     *)
(* loop takes it, so readings can be older than the last request; the      *)
(* converter follows a request some time after it got it, so the value     *)
(* read back can be older than the request too.                            *)
(*                                                                         *)
(* Time is counted in Seconds.  The meter publishes at most                *)
(* ReadingsPerSecond readings in each, and the loop has taken them all     *)
(* when the second ends (the API answers within it).  The configuration    *)
(* is not reloaded.  What goes wrong - a lost request, a failed read-back, *)
(* a restart - and every change of the house's load is counted: there are  *)
(* at most MaxDisturbances, so that they end.                              *)
(***************************************************************************)
EXTENDS RealtimeControl, Sequences

CONSTANTS
    Loads,              \* what the house can draw
    Outputs,            \* what the converter delivers when the loop starts, and
                        \* what others ask it for
    ReadingsPerSecond,
    MaxDisturbances

VARIABLES
    load,          \* what the house draws
    demand,        \* the last request the converter got
    output,        \* what the converter delivers
    readings,      \* published, not yet taken by the loop
    measured,      \* the load in the reading the loop took last
    published,     \* readings published in this second
    disturbances,  \* how many more can happen
    faithful       \* the API always answers, and with the output the last
                   \* request has led to, and nobody else sends requests to
                   \* the converter; chosen once

gridVars == <<load, demand, output, readings, measured, published, disturbances, faithful>>
allVars == <<vars, gridVars>>

ASSUME GridAssumption ==
    /\ Loads \subseteq Nat
    /\ Outputs \subseteq Nat
    /\ ReadingsPerSecond \in Nat \ {0}
    /\ MaxDisturbances \in Nat
----------------------------------------------------------------------------
GridInit ==
    /\ Init
    /\ load \in Loads
    /\ demand \in Outputs
    /\ output = demand
    /\ readings = <<>>
    /\ measured = 0
    /\ published = 0
    /\ disturbances = MaxDisturbances
    /\ faithful \in BOOLEAN

Disturbed == disturbances > 0 /\ disturbances' = disturbances - 1

\* Mutant of Publish: the meter's rate is not bounded.
PublishUnbounded ==
    /\ process = "up"
    /\ client = "ready"
    /\ published' = published + 1
    /\ readings' = Append(readings, [load |-> load, output |-> output])
    /\ UNCHANGED <<vars, load, demand, output, measured, disturbances, faithful>>

\* The loop is subscribed once it runs; before prepareEcoflow is through, a
\* request ends the process (RealtimeControl), which is left out here.
Publish ==
    /\ process = "up"
    /\ client = "ready"
    /\ published < ReadingsPerSecond
    /\ published' = published + 1
    /\ readings' = Append(readings, [load |-> load, output |-> output])
    /\ UNCHANGED <<vars, load, demand, output, measured, disturbances, faithful>>

Reading == [power |-> Head(readings).load - Head(readings).output, out |-> 0]

TakeReading ==
    /\ readings # <<>>
    /\ Receive(Reading)
    /\ readings' = Tail(readings)
    /\ measured' = Head(readings).load
    /\ UNCHANGED <<load, demand, output, published, disturbances, faithful>>

Deciding == Deliberate /\ UNCHANGED gridVars

DeliverRequest ==
    /\ SetRequest
    /\ demand' = newRequested
    /\ UNCHANGED <<load, output, readings, measured, published, disturbances, faithful>>

LoseRequest ==
    /\ SetRequest
    /\ Disturbed
    /\ UNCHANGED <<load, demand, output, readings, measured, published, faithful>>

\* The converter gets a request that is not the daemon's: the plugin's PUT
\* call and main -p send one from a process of their own.
OtherRequest ==
    /\ ~faithful
    /\ Disturbed
    /\ demand' \in Outputs \ {demand}
    /\ UNCHANGED <<vars, load, output, readings, measured, published, faithful>>

ReadBack ==
    /\ faithful => output = demand
    /\ RefreshOk(output)
    /\ UNCHANGED gridVars

ReadBackFails ==
    /\ ~faithful
    /\ RefreshFails
    /\ Disturbed
    /\ UNCHANGED <<load, demand, output, readings, measured, published, faithful>>

Follow ==
    /\ output # demand
    /\ output' = demand
    /\ UNCHANGED <<vars, load, demand, readings, measured, published, disturbances, faithful>>

ChangeLoad ==
    /\ Disturbed
    /\ load' \in Loads \ {load}
    /\ UNCHANGED <<vars, demand, output, readings, measured, published, faithful>>

Second ==
    /\ process = "up"
    /\ handler = "idle"
    /\ readings = <<>>
    /\ published > 0 \/ blockLeft > 0
    /\ IF blockLeft > 0 THEN Tick ELSE UNCHANGED vars
    /\ published' = 0
    /\ UNCHANGED <<load, demand, output, readings, measured, disturbances, faithful>>

\* What the broker has not delivered is lost with the connection.
GridCrash ==
    /\ Crash
    /\ Disturbed
    /\ readings' = <<>>
    /\ UNCHANGED <<load, demand, output, measured, published, faithful>>

GridNext ==
    \/ Publish
    \/ TakeReading
    \/ Deciding
    \/ DeliverRequest
    \/ LoseRequest
    \/ OtherRequest
    \/ ReadBack
    \/ ReadBackFails
    \/ PrepareEcoflow /\ UNCHANGED gridVars
    \/ Follow
    \/ ChangeLoad
    \/ Second
    \/ GridCrash
    \/ Restart /\ UNCHANGED gridVars

\* The loop's goroutine is never stopped for good, the meter keeps
\* publishing, the converter keeps following, the container is restarted.
Fairness ==
    /\ WF_allVars(Publish)
    /\ WF_allVars(TakeReading)
    /\ WF_allVars(Deciding)
    /\ WF_allVars(DeliverRequest)
    /\ WF_allVars(ReadBack)
    /\ WF_allVars(PrepareEcoflow /\ UNCHANGED gridVars)
    /\ WF_allVars(Follow)
    /\ WF_allVars(Second)
    /\ WF_allVars(Restart /\ UNCHANGED gridVars)

GridSpec == GridInit /\ [][GridNext]_allVars /\ Fairness
----------------------------------------------------------------------------
GridTypeOK ==
    /\ TypeOK
    /\ load \in Nat /\ demand \in Nat /\ output \in Nat /\ measured \in Nat
    /\ readings \in Seq([load : Nat, output : Nat])
    /\ Len(readings) <= published
    /\ published \in 0..ReadingsPerSecond
    /\ disturbances \in 0..MaxDisturbances
    /\ faithful \in BOOLEAN

\* While the API answers faithfully and there is a wait at all, a raise never
\* goes beyond the load that was measured for it (the base request apart):
\* no reading older than the last request makes the converter climb.  The
\* blocked window of processEvent is what this rests on.
RaisesStayBelowLoad ==
    [][ /\ faithful
        /\ adapter.WaitAfterRequestSeconds > 0
        /\ handler = "decide" /\ handler' = "set"
        /\ newRequested' > currentRequested
        => newRequested' <= measured \/ newRequested' = adapter.BaseRequest ]_allVars

\* With so much delivered and drawn, nothing is exported that the limits allow
\* to keep, and nothing beyond the dead zone drawn that they allow to cover.
BalancedAt(watts, drawn) ==
    /\ watts > drawn => watts = adapter.BaseRequest
    /\ drawn - watts > adapter.IntermediateSize => watts >= adapter.UpperBatLimit

\* While the API answers faithfully and there is a wait at all, a decision
\* after the wait is right at once: the power it asks for, or the one it leaves
\* as it is, balances the load that was measured.  No reading from before the
\* last request is left in the queue when the wait is over, and the output
\* read back is the one the reading was measured at (processEvent).
QuietDecisionsBalance ==
    [][ /\ faithful
        /\ adapter.WaitAfterRequestSeconds > 0 /\ blockLeft = 0
        /\ adapter.BaseRequest > 0
        /\ handler = "decide" /\ handler' \in {"set", "idle"}
        => BalancedAt(IF handler' = "set" THEN newRequested' ELSE currentRequested, measured)
      ]_allVars

Limited(watts) ==
    \E cfg \in StartConfigs :
        /\ watts >= cfg.BaseRequest
        /\ watts <= cfg.UpperBatLimit \/ watts = cfg.BaseRequest

\* Whatever fails, the converter is never asked for anything but what others
\* ask it for, or a power within the limits of one of the configurations the
\* daemon came up with, across all restarts.
DemandWithinLimits == demand \in Outputs \/ Limited(demand)

Balanced == BalancedAt(output, load)

\* An unbalanced converter is brought back to balance again and again, as the
\* message of evaluateConfig promises ("power request will be updated if
\* needed").  It does not hold where a read-back can be late or fail.
UpdatedIfNeeded == []<>(Balanced \/ output = 0)

\* With a faithful API, once the disturbances end the loop settles: the
\* converter is balanced with the load and no more requests are made.  A
\* converter that delivers nothing is left alone, the controller takes it for
\* one it does not know.
Settles == faithful => <>[](handler # "set" /\ (Balanced \/ output = 0))
============================================================================
