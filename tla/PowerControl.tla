---------------------------- MODULE PowerControl ----------------------------
(***************************************************************************)
(* Both power controllers of a daemon, side by side (InitEcoflow): the     *)
(* realtime controller on the meter's messages, the dynamic one on the     *)
(* database's history.  They command the same converter; the configuration *)
(* they share is to keep them from doing it at the same time.              *)
(***************************************************************************)
EXTENDS RealtimeControl, DynamicControl

VARIABLE
    since    \* the extremes of the limits in force since AnalyzeEnergyHistory was
             \* entered: recorded for the properties, no step looks at it

allVars == <<vars, flowVars, since>>
----------------------------------------------------------------------------
Least(a, b) == IF a < b THEN a ELSE b
Most(a, b) == IF a > b THEN a ELSE b

\* The limits of one configuration.
LimitsOf(cfg) ==
    [lowBase |-> cfg.BaseRequest, highBase |-> cfg.BaseRequest,
     highUpper |-> cfg.UpperBatLimit]

\* The extremes, when another configuration comes into force.
WidenedBy(cfg) ==
    [lowBase   |-> Least(since.lowBase, cfg.BaseRequest),
     highBase  |-> Most(since.highBase, cfg.BaseRequest),
     highUpper |-> Most(since.highUpper, cfg.UpperBatLimit)]

NoLimits == [lowBase |-> 0, highBase |-> 0, highUpper |-> 0]

Recorded ==
    since' = IF flow' \notin Deciding THEN NoLimits
             ELSE IF flow \notin Deciding THEN LimitsOf(adapter)
             ELSE WidenedBy(adapter')
----------------------------------------------------------------------------
PowerInit ==
    /\ Init
    /\ FlowInit
    /\ since = NoLimits

RealtimeStep ==
    /\ \/ \E e \in Events : Receive(e)
       \/ Deliberate
       \/ SetRequest
       \/ \E watts \in Reports : RefreshOk(watts)
       \/ RefreshFails
       \/ PrepareEcoflow
       \/ Tick
    /\ UNCHANGED flowVars

\* InitEcoflow starts the dynamic controller when the client is ready.
FlowStarts ==
    /\ client = "ready"
    /\ StartFlow
    /\ UNCHANGED controlVars

FlowStep == FlowNext /\ UNCHANGED controlVars

Reconfigured == Reload /\ UNCHANGED <<controlVars, flowVars>>

Ends == (Crash \/ SetOnNilClient) /\ UNCHANGED flowVars

Restarts ==
    /\ Restart
    /\ flow' = "off" /\ history' = <<>> /\ asked' = 0

PowerStep ==
    \/ RealtimeStep
    \/ FlowStarts
    \/ FlowStep
    \/ Reconfigured
    \/ Ends
    \/ Restarts

PowerNext == PowerStep /\ Recorded

PowerSpec == PowerInit /\ [][PowerNext]_allVars
----------------------------------------------------------------------------
PowerTypeOK ==
    /\ TypeOK
    /\ FlowTypeOK
    /\ since \in [lowBase : Int, highBase : Int, highUpper : Int]

\* Outside a reload at most one controller is switched on, whatever sequence
\* of files the daemon has seen: a file only overwrites the keys it holds.
OneController ==
    watcher = "idle" => ~(adapter.DynamicRequest /\ adapter.RealtimeRequest)

\* The dynamic controller decides on a request only while realtime control is
\* off, or in the middle of the reload that switches it on.  The second test
\* of DynamicRequest in AnalyzeEnergyHistory is what it rests on: a reload
\* since the first test has no request follow.
DynamicDecidesAlone ==
    [][ flow = "test" /\ flow' = "set" =>
        ~adapter.RealtimeRequest \/ watcher = "unmarshalled" ]_allVars

\* A dynamic request is within limits that were in force at some moment since
\* AnalyzeEnergyHistory was entered, whatever was reloaded meanwhile: not below
\* every base request; and not above every upper limit, except where power is
\* exported: then it lowers what the converter had been asked for, or is at most
\* a base request.  Without a reload these are the limits of the file in force.
DynamicWithinLimits ==
    [][ flow = "test" /\ flow' = "set" =>
        /\ asked' >= since.lowBase
        /\ \/ asked' <= since.highUpper
           \/ /\ Exporting(history)
              /\ asked' < history[1].requested \/ asked' <= since.highBase ]_allVars

\* While realtime control is on (the reload apart that switches it on), the
\* converter gets no request from the dynamic controller, as evaluateConfig
\* announces ("Dynamic is switched off and relatime request is enabled").  A
\* request under way when the reload comes breaks it.
DynamicYields ==
    [][ flow = "set" /\ flow' = "wait" =>
        ~adapter.RealtimeRequest \/ watcher = "unmarshalled" ]_allVars

\* The dynamic controller asks for more than the base requests in force since
\* it began to decide, and for more than was requested last, only if the history
\* shows that power is drawn ("power request will be updated if needed",
\* evaluateConfig).  The lift of the drawn power to the upper limit breaks it.
RaisedIfNeeded ==
    [][ /\ flow = "test" /\ flow' = "set"
        /\ asked' > history[1].requested
        /\ asked' > since.highBase
        => \E i \in DOMAIN history : history[i].powercurr > 0 ]_allVars
============================================================================
