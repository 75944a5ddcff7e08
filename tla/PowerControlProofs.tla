------------------------- MODULE PowerControlProofs -------------------------
(***************************************************************************)
(* Proofs about PowerControl, for every set of configuration files, meter  *)
(* readings and histories:                                                 *)
(*   - ExclusiveControllers: OneController;                                *)
(*   - DynamicAlone: DynamicDecidesAlone, which follows from it;           *)
(*   - HistoryIgnored: what AnalyzeEnergyHistory computes when nothing is  *)
(*     exported does not depend on the history;                            *)
(*   - PowerTypeCorrect: the type invariant;                               *)
(*   - SharedRaises: RaisesAreUnblocked, beside the dynamic controller;    *)
(*   - DynamicLimited: DynamicWithinLimits;                                *)
(*   - SharedRefinement: KeepsDiscipline, the realtime controller's        *)
(*     promise, beside the dynamic one.                                    *)
(* The configuration alone decides the first two, so the invariant is the  *)
(* type of adapter and watcher together with OneController.  The others    *)
(* rest on the invariant of the realtime controller, which the dynamic one *)
(* does not disturb; on the history being there when it is looked at; and  *)
(* on what is known of the computed power from step to step: its relation  *)
(* to the extremes of the limits in force since the computation began.     *)
(***************************************************************************)
EXTENDS PowerControl, RealtimeControlProofs, NaturalOrder

CInv == ConfigTypeOK /\ OneController
----------------------------------------------------------------------------
\* The dynamic controller's goroutine, once started, writes nothing that the
\* realtime one has or that they share.
LEMMA FlowStepReads == FlowStep => UNCHANGED vars
  BY DEF FlowStep, FlowNext, ReadCurrentFlow, ReadFlowFails, Analyze, Gate, Compute,
         ReduceFlow, LiftFlow, SizeFlow, BaseFlow, CapFlow, AboveFlow, DecideFlow, SetFlow,
         Wake, configVars, controlVars, vars

\* A request of the dynamic controller is decided on in one step.
LEMMA DecidesInOneStep ==
    ASSUME [PowerNext]_allVars, flow = "test", flow' = "set"
    PROVE  DecideFlow /\ Sent /\ UNCHANGED <<vars, history, asked>>
<1>1. CASE FlowStep
  <2>1. DecideFlow
    BY <1>1 DEF FlowStep, FlowNext, ReadCurrentFlow, ReadFlowFails, Analyze, Gate, Compute,
                ReduceFlow, LiftFlow, SizeFlow, BaseFlow, CapFlow, AboveFlow, SetFlow, Wake
  <2>2. QED
    BY <1>1, <2>1, FlowStepReads DEF DecideFlow, RoundOver
<1>2. CASE UNCHANGED flowVars
  BY <1>2 DEF flowVars
<1>3. CASE Restarts
  BY <1>3 DEF Restarts
<1>4. CASE FlowStarts
  BY <1>4 DEF FlowStarts, StartFlow
<1>5. QED
  BY <1>1, <1>2, <1>3, <1>4
     DEF PowerNext, PowerStep, RealtimeStep, Reconfigured, Ends, allVars

\* The file loaded at the start is normalised.
LEMMA InitCInv == PowerInit => CInv
  BY StartConfigType
     DEF PowerInit, Init, InitConfig, CInv, ConfigTypeOK, OneController

\* Only the watcher, StartFlow and a restart write the configuration.
LEMMA NextCInv == CInv /\ [PowerNext]_allVars => CInv'
<1> SUFFICES ASSUME CInv, [PowerNext]_allVars PROVE CInv'
  OBVIOUS
<1> USE DEF CInv, ConfigTypeOK, OneController
<1>1. CASE UNCHANGED configVars
  BY <1>1 DEF configVars
<1>2. CASE RealtimeStep
  BY <1>1, <1>2 DEF RealtimeStep, Receive, ReadOnly, Accept, Deliberate, Window, Narrow,
     Cap, Raise, Decide, Ignore, SetRequest, RefreshOk, RefreshFails, PrepareEcoflow, Tick
<1>3. CASE FlowStarts
  <2>1. PICK size \in Nat : adapter' = [adapter EXCEPT !.IntermediateSize = size]
    BY <1>3 DEF FlowStarts, StartFlow, DefaultConfig, DefaultIntermediateSize
  <2>2. QED
    BY <1>3, <2>1 DEF FlowStarts, StartFlow, DefaultConfig
<1>4. CASE FlowStep
  BY <1>1, <1>4, FlowStepReads DEF vars, configVars
<1>5. CASE Reconfigured
  <2>1. ASSUME NEW f \in Files, Unmarshal(f) PROVE CInv'
    BY <2>1, OverlayType DEF Unmarshal
  <2>2. CASE Normalise
    BY <2>2, NormalisedType DEF Normalise
  <2>3. QED
    BY <1>5, <2>1, <2>2 DEF Reconfigured, Reload
<1>6. CASE Ends
  BY <1>6 DEF Ends, Crash, SetOnNilClient, Dies
<1>7. CASE Restarts
  BY <1>7, StartConfigType DEF Restarts, Restart, Boots
<1>8. CASE UNCHANGED allVars
  BY <1>1, <1>8 DEF allVars, vars, configVars
<1>9. QED
  BY <1>2, <1>3, <1>4, <1>5, <1>6, <1>7, <1>8 DEF PowerNext, PowerStep

\* However the file is changed while the daemon runs, outside a reload at most
\* one controller is switched on (evaluateConfig's switch).
THEOREM ExclusiveControllers == PowerSpec => []OneController
<1>1. CInv => OneController
  BY DEF CInv
<1>2. QED
  BY InitCInv, NextCInv, <1>1, PTL DEF PowerSpec

\* A step of the dynamic controller that decides on a request is taken with
\* realtime control off, or in the middle of a reload.
LEMMA StepDecidesAlone ==
    CInv /\ [PowerNext]_allVars =>
      (flow = "test" /\ flow' = "set" =>
         ~adapter.RealtimeRequest \/ watcher = "unmarshalled")
<1> SUFFICES ASSUME CInv, [PowerNext]_allVars, flow = "test", flow' = "set"
             PROVE  ~adapter.RealtimeRequest \/ watcher = "unmarshalled"
  OBVIOUS
<1>1. adapter.DynamicRequest
  BY DecidesInOneStep DEF Sent
<1>2. QED
  BY <1>1 DEF CInv, ConfigTypeOK, OneController

\* The dynamic controller decides only while realtime control is off, or in the
\* middle of a reload (AnalyzeEnergyHistory's second test of DynamicRequest).
THEOREM DynamicAlone == PowerSpec => DynamicDecidesAlone
  BY InitCInv, NextCInv, StepDecidesAlone, PTL DEF PowerSpec, DynamicDecidesAlone
----------------------------------------------------------------------------
\* The power taken for drawn is never below the upper limit.
LEMMA DrawnBound ==
    ASSUME NEW cfg \in DefaultConfig, NEW e \in Entry
    PROVE  Drawn(cfg, e) \in Int /\ Drawn(cfg, e) >= cfg.UpperBatLimit
  BY DEF Drawn, DefaultConfig, Entry

\* What AnalyzeEnergyHistory computes when nothing is exported, with the
\* configurations in force when it lifts the drawn power (early), adds the
\* dead zone and takes the base request (mid), and caps (late), does not depend
\* on the history: it is the upper limit, if that was not raised meanwhile.  If
\* it was, the result is between the two.
THEOREM HistoryIgnored ==
    ASSUME NEW early \in DefaultConfig, NEW mid \in DefaultConfig,
           NEW late \in DefaultConfig, NEW e \in Entry
    PROVE  LET watts == Capped(late, Raised(mid, Drawn(early, e) + mid.IntermediateSize))
           IN  /\ late.UpperBatLimit <= early.UpperBatLimit => watts = late.UpperBatLimit
               /\ late.UpperBatLimit > early.UpperBatLimit =>
                    watts \in early.UpperBatLimit..late.UpperBatLimit
<1> DEFINE drawn == Drawn(early, e)
           lifted == Raised(mid, drawn + mid.IntermediateSize)
<1>1. /\ mid.IntermediateSize \in Nat /\ mid.BaseRequest \in Int
      /\ late.UpperBatLimit \in Int /\ early.UpperBatLimit \in Int
  BY DEF DefaultConfig
<1>2. drawn \in Int /\ drawn >= early.UpperBatLimit
  BY DrawnBound
<1> HIDE DEF drawn
<1>3. lifted \in Int /\ lifted >= early.UpperBatLimit
  BY <1>1, <1>2 DEF Raised
<1> HIDE DEF lifted
<1>4. /\ late.UpperBatLimit <= early.UpperBatLimit =>
            Capped(late, lifted) = late.UpperBatLimit
      /\ late.UpperBatLimit > early.UpperBatLimit =>
            Capped(late, lifted) \in early.UpperBatLimit..late.UpperBatLimit
  BY <1>1, <1>3 DEF Capped
<1>5. QED
  BY <1>4 DEF lifted, drawn
----------------------------------------------------------------------------
(* The types, and the limits of the dynamic controller. *)

\* A list that is not empty has a record of least drawn power.
LEMMA LowestType ==
    ASSUME NEW h \in Seq(Entry), h # <<>>
    PROVE  Lowest(h) \in Entry
<1> DEFINE powers == {h[i].powercurr : i \in DOMAIN h}
           least == {i \in DOMAIN h : \A j \in DOMAIN h : h[i].powercurr <= h[j].powercurr}
           first(i) == \A j \in least : i <= j
<1>1. /\ DOMAIN h = 1..Len(h) /\ 1 \in DOMAIN h
      /\ \A i \in DOMAIN h : h[i] \in Entry /\ h[i].powercurr \in Nat
  <2>1. DOMAIN h = 1..Len(h) /\ 1 \in DOMAIN h
    OBVIOUS
  <2>2. ASSUME NEW i \in DOMAIN h PROVE h[i] \in Entry
    BY <2>1
  <2>3. \A e \in Entry : e.powercurr \in Nat
    BY DEF Entry
  <2>4. QED
    BY <2>1, <2>2, <2>3
<1>2. powers \subseteq Nat /\ powers # {}
  BY <1>1
<1>3. PICK p \in powers : \A q \in powers : p <= q
  BY <1>2, LeastNatural
<1>4. least # {} /\ least \subseteq Nat
  BY <1>1, <1>3
<1>5. \E i \in least : first(i)
  BY <1>4, LeastNatural
<1>6. (CHOOSE i \in least : first(i)) \in least
  BY <1>5
<1>7. Lowest(h) = h[CHOOSE i \in least : first(i)]
  BY DEF Lowest
<1>8. QED
  BY <1>1, <1>6, <1>7

\* The extremes recorded hold the limits in force.
SinceInv ==
    /\ since \in [lowBase : Int, highBase : Int, highUpper : Int]
    /\ flow \in Deciding =>
         /\ since.lowBase <= adapter.BaseRequest
         /\ adapter.BaseRequest <= since.highBase
         /\ adapter.UpperBatLimit <= since.highUpper

\* What is known of the history and of the computed power, step by step: where
\* power is exported it lowers the last request or is a base request; where
\* none is, the cap bounds it; and the last look at it leaves it above a base
\* request.
CourseInv ==
    /\ flow \in Deciding \cup {"set"} => history # <<>>
    /\ flow = "reduce" => Exporting(history)
    /\ flow \in {"lift", "size", "cap", "above"} => ~Exporting(history)
    /\ flow = "base" /\ Exporting(history) => asked < history[1].requested
    /\ flow = "test" => asked >= since.lowBase
    /\ flow \in {"above", "test"} /\ ~Exporting(history) => asked <= since.highUpper
    /\ flow = "test" /\ Exporting(history) =>
         asked < history[1].requested \/ asked <= since.highBase

FlowInv == FlowTypeOK /\ SinceInv /\ CourseInv

PInv == IInv /\ FlowInv

\* A daemon that has just come up has read no history.
LEMMA InitPInv == PowerInit => PInv
  BY InitIInv DEF PowerInit, FlowInit, PInv, FlowInv, FlowTypeOK, SinceInv, CourseInv,
                  NoLimits, Deciding

\* The types of what the computation works on.
LEMMA FlowTypes ==
    ASSUME PInv
    PROVE  /\ adapter \in DefaultConfig
           /\ adapter.BaseRequest \in Int /\ adapter.UpperBatLimit \in Int
           /\ adapter.IntermediateSize \in Nat
           /\ since.lowBase \in Int /\ since.highBase \in Int /\ since.highUpper \in Int
           /\ history # <<>> => /\ history[1] \in Entry
                                /\ history[1].requested \in Nat
                                /\ history[1].powerout \in Nat
<1>1. adapter \in DefaultConfig
  BY DEF PInv, IInv, TypeOK, ConfigTypeOK
<1>2. history # <<>> => history[1] \in Entry
  BY DEF PInv, FlowInv, FlowTypeOK
<1>3. since \in [lowBase : Int, highBase : Int, highUpper : Int]
  BY DEF PInv, FlowInv, SinceInv
<1>4. QED
  BY <1>1, <1>2, <1>3 DEF DefaultConfig, Entry

\* The recorded extremes only grow while the computation lasts, and hold the
\* limits that come into force.
LEMMA RecordedWidens ==
    ASSUME PInv, Recorded, adapter' \in DefaultConfig,
           flow \in Deciding \/ flow' \notin Deciding \/ adapter' = adapter
    PROVE  /\ SinceInv'
           /\ flow \in Deciding /\ flow' \in Deciding =>
                /\ since'.lowBase <= since.lowBase
                /\ since'.highBase >= since.highBase
                /\ since'.highUpper >= since.highUpper
<1>1. adapter'.BaseRequest \in Int /\ adapter'.UpperBatLimit \in Int
  BY DEF DefaultConfig
<1>2. CASE flow' \notin Deciding
  BY <1>2 DEF Recorded, NoLimits, SinceInv
<1>3. CASE flow' \in Deciding /\ flow \notin Deciding
  BY <1>1, <1>3 DEF Recorded, LimitsOf, SinceInv
<1>4. CASE flow' \in Deciding /\ flow \in Deciding
  <2>1. since' = WidenedBy(adapter')
    BY <1>4 DEF Recorded
  <2>2. QED
    BY <1>1, <1>4, <2>1, FlowTypes DEF WidenedBy, Least, Most, SinceInv
<1>5. QED
  BY <1>2, <1>3, <1>4

\* What is known of the dynamic controller stays true while it makes no step.
LEMMA FlowWaits ==
    ASSUME PInv, Recorded, adapter' \in DefaultConfig, UNCHANGED flowVars
    PROVE  FlowInv'
<1>1. FlowTypeOK'
  BY DEF PInv, FlowInv, FlowTypeOK, flowVars
<1>2. CourseInv'
  <2>1. /\ flow \in Deciding => /\ since'.lowBase <= since.lowBase
                                /\ since'.highBase >= since.highBase
                                /\ since'.highUpper >= since.highUpper
                                /\ since'.lowBase \in Int /\ since'.highBase \in Int
                                /\ since'.highUpper \in Int
        /\ SinceInv'
    BY RecordedWidens DEF flowVars, SinceInv
  <2>2. /\ asked \in Int /\ since.lowBase \in Int /\ since.highBase \in Int
        /\ since.highUpper \in Int
        /\ history # <<>> => history[1].requested \in Nat
    BY FlowTypes DEF PInv, FlowInv, FlowTypeOK
  <2>3. CourseInv /\ UNCHANGED <<flow, history, asked>>
    BY DEF PInv, FlowInv, flowVars
  <2>4. QED
    BY <2>1, <2>2, <2>3 DEF CourseInv, Deciding, Exporting
<1>3. QED
  BY <1>1, <1>2, RecordedWidens DEF FlowInv, flowVars

\* Each step of the computation hands on what the next ones rest on.
LEMMA AnalyzeKnows ==
    ASSUME PInv, Recorded, Analyze, UNCHANGED adapter
    PROVE  FlowInv'
<1> USE DEF PInv, FlowInv, FlowTypeOK, Deciding, RoundOver, Compute
<1>1. SinceInv' /\ (flow \in Deciding /\ flow' \in Deciding =>
                      /\ since'.lowBase <= since.lowBase
                      /\ since'.highBase >= since.highBase
                      /\ since'.highUpper >= since.highUpper)
  BY RecordedWidens, FlowTypes
<1>2. /\ since'.lowBase \in Int /\ since'.highBase \in Int /\ since'.highUpper \in Int
      /\ flow' \in Deciding => /\ since'.lowBase <= adapter.BaseRequest
                               /\ adapter.BaseRequest <= since'.highBase
                               /\ adapter.UpperBatLimit <= since'.highUpper
  BY <1>1 DEF SinceInv
<1>3. CASE flow' \notin Deciding \cup {"set"}
  <2>1. RoundOver
    BY <1>3 DEF Analyze, Gate, ReduceFlow, LiftFlow, SizeFlow, BaseFlow, CapFlow,
                AboveFlow, DecideFlow, SetFlow
  <2>2. <<>> \in Seq(Entry)
    OBVIOUS
  <2>3. FlowTypeOK'
    BY <2>1, <2>2
  <2>4. QED
    BY <1>1, <1>3, <2>3 DEF CourseInv
<1>4. CASE Gate /\ flow' \in Deciding
  BY <1>1, <1>4 DEF Gate, CourseInv, Exporting
<1>5. CASE ReduceFlow
  <2>1. asked' \in Int /\ asked' < history[1].requested
    BY <1>5, FlowTypes DEF ReduceFlow, CourseInv, Exporting
  <2>2. QED
    BY <1>1, <1>5, <2>1 DEF ReduceFlow, CourseInv, Exporting
<1>6. CASE LiftFlow
  <2>1. asked' \in Int
    BY <1>6, FlowTypes, LowestType, DrawnBound DEF LiftFlow, CourseInv
  <2>2. QED
    BY <1>1, <1>6, <2>1 DEF LiftFlow, CourseInv, Exporting
<1>7. CASE SizeFlow
  <2>1. asked' \in Int
    BY <1>7, FlowTypes DEF SizeFlow
  <2>2. QED
    BY <1>1, <1>7, <2>1 DEF SizeFlow, CourseInv, Exporting
<1>8. CASE BaseFlow
  <2>1. /\ asked' \in Int /\ asked' >= adapter.BaseRequest
        /\ asked' = asked \/ asked' = adapter.BaseRequest
    BY <1>8, FlowTypes, RaisedBound DEF BaseFlow
  <2>2. asked \in Int /\ adapter.BaseRequest \in Int /\ history # <<>>
        /\ history[1].requested \in Nat
    BY <1>8, FlowTypes DEF BaseFlow, CourseInv
  <2>3. CASE Exporting(history)
    <3>1. flow' = "test" /\ history' = history /\ asked < history[1].requested
      BY <1>8, <2>3 DEF BaseFlow, CourseInv
    <3>2. /\ asked' >= since'.lowBase
          /\ asked' < history[1].requested \/ asked' <= since'.highBase
      BY <1>2, <2>1, <2>2, <3>1
    <3>3. QED
      BY <1>1, <2>1, <2>2, <2>3, <3>1, <3>2 DEF CourseInv, Exporting
  <2>4. CASE ~Exporting(history)
    <3>1. flow' = "cap" /\ history' = history
      BY <1>8, <2>4 DEF BaseFlow
    <3>2. QED
      BY <1>1, <2>1, <2>2, <2>4, <3>1 DEF CourseInv, Exporting
  <2>5. QED
    BY <2>3, <2>4
<1>9. CASE CapFlow
  <2>1. asked' \in Int /\ asked' <= adapter.UpperBatLimit
    BY <1>9, FlowTypes, CappedBound DEF CapFlow
  <2>2. asked' <= since'.highUpper
    BY <1>2, <1>9, <2>1, FlowTypes DEF CapFlow
  <2>3. QED
    BY <1>1, <1>9, <2>1, <2>2 DEF CapFlow, CourseInv, Exporting
<1>10. CASE AboveFlow /\ flow' \in Deciding
  <2>1. /\ flow = "above" /\ flow' = "test" /\ UNCHANGED <<history, asked>>
        /\ asked > adapter.BaseRequest
    BY <1>10 DEF AboveFlow
  <2>2. asked \in Int /\ adapter.BaseRequest \in Int /\ since.highUpper \in Int
    BY FlowTypes
  <2>3. ~Exporting(history) /\ history # <<>> /\ asked <= since.highUpper
    BY <2>1 DEF CourseInv
  <2>4. asked >= since'.lowBase /\ asked <= since'.highUpper
    BY <1>1, <1>2, <2>1, <2>2, <2>3
  <2>5. QED
    BY <1>1, <2>1, <2>3, <2>4 DEF CourseInv, Exporting
<1>11. CASE DecideFlow /\ flow' = "set"
  BY <1>1, <1>11 DEF DecideFlow, CourseInv
<1>12. QED
  BY <1>3, <1>4, <1>5, <1>6, <1>7, <1>8, <1>9, <1>10, <1>11
     DEF Analyze, Gate, ReduceFlow, LiftFlow, SizeFlow, BaseFlow, CapFlow, AboveFlow,
         DecideFlow, SetFlow

\* Each controller keeps what is known of its own variables, and the two of
\* them the configuration they share.
LEMMA NextPInv == PInv /\ [PowerNext]_allVars => PInv'
<1> SUFFICES ASSUME PInv, [PowerNext]_allVars PROVE PInv'
  OBVIOUS
<1>1. ASSUME [Next]_vars PROVE IInv' /\ adapter' \in DefaultConfig
  BY <1>1, NextIInv DEF PInv, IInv, TypeOK, ConfigTypeOK
<1>2. CASE UNCHANGED allVars
  <2>1. FlowInv'
    BY <1>2 DEF allVars, flowVars, vars, PInv, FlowInv, FlowTypeOK, SinceInv, CourseInv,
                Exporting
  <2>2. QED
    BY <1>1, <1>2, <2>1 DEF allVars, PInv
<1>3. CASE (RealtimeStep \/ Reconfigured \/ Ends) /\ Recorded
  <2>1. [Next]_vars /\ UNCHANGED flowVars
    BY <1>3 DEF RealtimeStep, Reconfigured, Ends, Next
  <2>2. QED
    BY <1>1, <1>3, <2>1, FlowWaits DEF PInv
<1>4. CASE FlowStarts /\ Recorded
  <2>1. PICK size \in Nat : adapter' = [adapter EXCEPT !.IntermediateSize = size]
    BY <1>4 DEF FlowStarts, StartFlow, DefaultConfig, DefaultIntermediateSize,
                PInv, IInv, TypeOK, ConfigTypeOK
  <2>2. adapter' \in DefaultConfig
    BY <2>1 DEF DefaultConfig, PInv, IInv, TypeOK, ConfigTypeOK
  <2>3. IInv'
    BY <1>4, <2>2 DEF FlowStarts, StartFlow, controlVars,
                      PInv, IInv, TypeOK, ConfigTypeOK, RaisesAreUnblocked
  <2>4. flow' = "read" /\ UNCHANGED <<history, asked>>
    BY <1>4 DEF FlowStarts, StartFlow
  <2>5. SinceInv'
    BY <1>4, <2>2, <2>4, RecordedWidens DEF Deciding
  <2>6. QED
    BY <2>3, <2>4, <2>5 DEF PInv, FlowInv, FlowTypeOK, CourseInv, Deciding
<1>5. CASE FlowStep /\ Recorded
  <2>1. UNCHANGED vars
    BY <1>5, FlowStepReads
  <2>2. adapter' = adapter /\ adapter' \in DefaultConfig
    BY <2>1, FlowTypes DEF vars
  <2>3. FlowInv'
    <3>1. CASE Analyze
      BY <1>5, <2>2, <3>1, AnalyzeKnows
    <3>2. CASE ~Analyze
      <4>1. /\ flow' \in {"read", "analyze", "wait"}
            /\ history' \in Seq(Entry) /\ asked' \in Int
        <5>1. <<>> \in Seq(Entry) /\ history \in Seq(Entry) /\ asked \in Int
          BY DEF PInv, FlowInv, FlowTypeOK
        <5>2. ASSUME NEW h \in Histories, ReadCurrentFlow(h)
              PROVE  flow' = "analyze" /\ history' \in Seq(Entry) /\ asked' \in Int
          BY <5>1, <5>2, DynamicAssumption DEF ReadCurrentFlow
        <5>3. CASE ReadFlowFails
          BY <5>1, <5>3 DEF ReadFlowFails, RoundOver
        <5>4. CASE Wake
          BY <5>1, <5>4 DEF Wake
        <5>5. (\E h \in Histories : ReadCurrentFlow(h)) \/ ReadFlowFails \/ Wake
          BY <1>5, <3>2 DEF FlowStep, FlowNext
        <5>6. QED
          BY <5>2, <5>3, <5>4, <5>5
      <4>2. SinceInv'
        BY <1>5, <2>2, <4>1, RecordedWidens
      <4>3. QED
        BY <4>1, <4>2 DEF FlowInv, FlowTypeOK, CourseInv, Deciding
    <3>3. QED
      BY <3>1, <3>2
  <2>4. QED
    BY <1>1, <2>1, <2>3 DEF PInv
<1>6. CASE Restarts /\ Recorded
  <2>1. IInv' /\ adapter' \in DefaultConfig
    BY <1>1, <1>6 DEF Restarts, Next
  <2>2. SinceInv'
    BY <1>6, <2>1, RecordedWidens DEF Restarts, Deciding
  <2>3. QED
    BY <1>6, <2>1, <2>2 DEF Restarts, PInv, FlowInv, FlowTypeOK, CourseInv, Deciding
<1>7. QED
  BY <1>2, <1>3, <1>4, <1>5, <1>6 DEF PowerNext, PowerStep

\* Both controllers on one configuration keep their types, whatever the files,
\* the readings and the histories hold.
THEOREM PowerTypeCorrect == PowerSpec => []PowerTypeOK
<1>1. PInv => PowerTypeOK
  BY DEF PInv, IInv, FlowInv, SinceInv, PowerTypeOK
<1>2. QED
  BY <1>1, InitPInv, NextPInv, PTL DEF PowerSpec

\* A decision of processEvent that wants more of the converter is only under
\* way after the wait, while the dynamic controller runs in the same process
\* and writes the dead zone of the configuration they share.
THEOREM SharedRaises == PowerSpec => []RaisesAreUnblocked
<1>1. PInv => RaisesAreUnblocked
  BY DEF PInv, IInv
<1>2. QED
  BY <1>1, InitPInv, NextPInv, PTL DEF PowerSpec

\* A request of the dynamic controller (AnalyzeEnergyHistory) is not below
\* every base request in force since it began to decide; and not above every
\* upper limit, except where power is exported: then it lowers what was asked
\* for before, or is at most a base request.  For every history, and every
\* reload between any two reads of the configuration.
THEOREM DynamicLimited == PowerSpec => DynamicWithinLimits
<1>1. ASSUME PInv, [PowerNext]_allVars, flow = "test", flow' = "set"
      PROVE  /\ asked' >= since.lowBase
             /\ \/ asked' <= since.highUpper
                \/ /\ Exporting(history)
                   /\ asked' < history[1].requested \/ asked' <= since.highBase
  <2>1. asked' = asked
    BY <1>1, DecidesInOneStep
  <2>2. CourseInv
    BY <1>1 DEF PInv, FlowInv
  <2>3. QED
    BY <1>1, <2>1, <2>2 DEF CourseInv
<1>2. QED
  BY <1>1, InitPInv, NextPInv, PTL DEF PowerSpec, DynamicWithinLimits
----------------------------------------------------------------------------
(* The discipline of the realtime controller, beside the dynamic one. *)

\* What the dynamic controller does is no step of the discipline but one that
\* changes the limits.
LEMMA SharedStepRefines ==
    PInv /\ [PowerNext]_allVars => [Discipline!Next]_(Discipline!vars)
<1> SUFFICES ASSUME PInv, [PowerNext]_allVars
             PROVE  [Discipline!Next]_(Discipline!vars)
  OBVIOUS
<1>1. CASE [Next]_vars
  BY <1>1, StepRefines DEF PInv
<1>2. CASE FlowStarts
  BY <1>2 DEF FlowStarts, controlVars, Discipline!Next, Discipline!Reconfigure
<1>3. CASE FlowStep
  BY <1>1, <1>3, FlowStepReads
<1>4. CASE RealtimeStep \/ Reconfigured \/ Ends \/ Restarts
  BY <1>1, <1>4 DEF RealtimeStep, Reconfigured, Ends, Restarts, Next
<1>5. QED
  BY <1>1, <1>2, <1>3, <1>4 DEF PowerNext, PowerStep, allVars

\* The realtime controller keeps the discipline of its requests while the
\* dynamic one runs in the same process, which writes the dead zone of the
\* configuration they share (StartFlow).
THEOREM SharedRefinement == PowerSpec => KeepsDiscipline
<1>1. PowerInit => Discipline!Init
  BY InitRefines DEF PowerInit
<1>2. QED
  BY <1>1, InitPInv, NextPInv, SharedStepRefines, PTL
     DEF PowerSpec, KeepsDiscipline, Discipline!Spec
============================================================================
