--------------------------- MODULE GridLoopProofs ---------------------------
(***************************************************************************)
(* Proofs about the realtime controller in its loop, for every set of      *)
(* configuration files, loads, outputs, wait and rate of the meter:        *)
(*   - GridTypeCorrect: the type invariant;                                *)
(*   - DemandLimited: what the converter is asked for;                     *)
(*   - StaleReadingsHarmless: no raise goes beyond the load measured;      *)
(*   - DecisionsBalance: after the wait one decision is enough, which      *)
(*     RequestBalances says of the arithmetic alone.                       *)
(***************************************************************************)
EXTENDS GridLoop, RealtimeControlProofs

RReading == [load : Nat, output : Nat]

\* The variables of the loop have their types, as GridTypeOK says.
GridTypes ==
    /\ IInv
    /\ load \in Nat /\ demand \in Nat /\ output \in Nat /\ measured \in Nat
    /\ readings \in Seq(RReading)
    /\ Len(readings) <= published
    /\ published \in 0..ReadingsPerSecond
    /\ disturbances \in 0..MaxDisturbances
    /\ faithful \in BOOLEAN

\* A reading of the queue is what the controller takes for a message.
LEMMA HeadReading ==
    ASSUME readings \in Seq(RReading), readings # <<>>
    PROVE  /\ Head(readings) \in RReading
           /\ Reading \in [power : Int, out : Int]
           /\ Tail(readings) \in Seq(RReading)
           /\ Len(Tail(readings)) = Len(readings) - 1
<1>1. Head(readings) \in RReading /\ Tail(readings) \in Seq(RReading)
      /\ Len(Tail(readings)) = Len(readings) - 1
  OBVIOUS
<1>2. QED
  BY <1>1 DEF Reading, RReading

\* A converter, a house and a meter that have just been switched on.
LEMMA GridInitTypes == GridInit => GridTypes
  BY InitIInv, GridAssumption DEF GridInit, GridTypes

\* Every step of the loop keeps the types, and the controller's invariant.
LEMMA GridNextTypes == GridTypes /\ [GridNext]_allVars => GridTypes'
<1> SUFFICES ASSUME GridTypes, [GridNext]_allVars PROVE GridTypes'
  OBVIOUS
<1> USE GridAssumption DEF GridTypes
<1>0. UNCHANGED vars => IInv'
  BY DEF vars, IInv, TypeOK, ConfigTypeOK, RaisesAreUnblocked
<1>1. CASE Publish
  <2>1. [load |-> load, output |-> output] \in RReading
    BY DEF RReading
  <2>2. readings' \in Seq(RReading) /\ Len(readings') = Len(readings) + 1
    BY <1>1, <2>1 DEF Publish
  <2>3. QED
    BY <1>0, <1>1, <2>2 DEF Publish
<1>2. CASE TakeReading
  <2>1. IInv'
    BY <1>2, HeadReading, ReceiveIInv DEF TakeReading
  <2>2. QED
    BY <1>2, <2>1, HeadReading DEF TakeReading, RReading
<1>3. CASE Deciding
  BY <1>3, HandlerIInv DEF Deciding, gridVars
<1>4. CASE DeliverRequest
  BY <1>4, HandlerIInv DEF DeliverRequest, SetRequest, IInv, TypeOK
<1>5. CASE LoseRequest
  BY <1>5, HandlerIInv DEF LoseRequest, Disturbed
<1>6. CASE OtherRequest
  BY <1>0, <1>6 DEF OtherRequest, Disturbed
<1>7. CASE ReadBack
  BY <1>7, RefreshIInv DEF ReadBack, gridVars
<1>8. CASE ReadBackFails
  BY <1>8, HandlerIInv DEF ReadBackFails, Disturbed
<1>9. CASE PrepareEcoflow /\ UNCHANGED gridVars
  BY <1>9, HandlerIInv DEF gridVars
<1>10. CASE Follow
  BY <1>0, <1>10 DEF Follow
<1>11. CASE ChangeLoad
  BY <1>0, <1>11 DEF ChangeLoad, Disturbed
<1>12. CASE Second
  <2>1. IInv'
    BY <1>0, <1>12, HandlerIInv DEF Second
  <2>2. QED
    BY <1>12, <2>1 DEF Second
<1>13. CASE GridCrash
  BY <1>13, HandlerIInv DEF GridCrash, Disturbed
<1>14. CASE Restart /\ UNCHANGED gridVars
  BY <1>14, HandlerIInv DEF gridVars
<1>15. CASE UNCHANGED allVars
  BY <1>0, <1>15 DEF allVars, gridVars
<1>16. QED
  BY <1>1, <1>2, <1>3, <1>4, <1>5, <1>6, <1>7, <1>8, <1>9, <1>10, <1>11, <1>12,
     <1>13, <1>14, <1>15 DEF GridNext

\* The loop keeps its types, whatever the loads, the rate and the failures.
THEOREM GridTypeCorrect == GridSpec => []GridTypeOK
<1>1. GridTypes => GridTypeOK
  BY DEF GridTypes, GridTypeOK, IInv, RReading
<1>2. QED
  BY <1>1, GridInitTypes, GridNextTypes, PTL DEF GridSpec
----------------------------------------------------------------------------
(* What the converter is asked for. *)

\* The configuration in force is one the daemon came up with, and the limits
\* a decision has taken so far are its limits.
LimitInv ==
    /\ GridTypes
    /\ adapter \in StartConfigs
    /\ handler = "base" => wanted <= adapter.UpperBatLimit
    /\ handler = "decide" => Limited(wanted)
    /\ handler = "set" => Limited(newRequested)
    /\ DemandWithinLimits

\* What is raised to the base request after it was capped is limited.
LEMMA RaisedIsLimited ==
    ASSUME NEW cfg \in StartConfigs, NEW watts \in Int, watts <= cfg.UpperBatLimit
    PROVE  Limited(Raised(cfg, watts))
<1>1. cfg \in DefaultConfig
  BY StartConfigType
<1>2. /\ Raised(cfg, watts) >= cfg.BaseRequest
      /\ Raised(cfg, watts) = watts \/ Raised(cfg, watts) = cfg.BaseRequest
  BY <1>1, RaisedBound
<1>3. QED
  BY <1>2 DEF Limited

\* Nothing was decided when the loop is switched on.
LEMMA InitLimited == GridInit => LimitInv
  BY GridInitTypes
     DEF GridInit, Init, InitConfig, InitControl, LimitInv, DemandWithinLimits

\* Every step keeps the limits: a request is capped, then raised, and sent as
\* it was decided.
LEMMA NextLimited == LimitInv /\ [GridNext]_allVars => LimitInv'
<1> SUFFICES ASSUME LimitInv, [GridNext]_allVars PROVE LimitInv'
  OBVIOUS
<1>1. GridTypes'
  BY GridNextTypes DEF LimitInv
<1>a. adapter \in DefaultConfig /\ wanted \in Int
  BY DEF LimitInv, GridTypes, IInv, TypeOK, ConfigTypeOK
<1>2. CASE /\ UNCHANGED <<adapter, demand, wanted, newRequested>>
           /\ handler' \notin {"base", "decide", "set"} \/ UNCHANGED handler
  BY <1>1, <1>2 DEF LimitInv, DemandWithinLimits, Limited
<1>3. CASE Cap /\ UNCHANGED gridVars
  <2>1. wanted' <= adapter.UpperBatLimit
    BY <1>3, <1>a, CappedBound DEF Cap
  <2>2. QED
    BY <1>1, <1>3, <2>1
       DEF Cap, configVars, gridVars, LimitInv, DemandWithinLimits, Limited
<1>4. CASE Raise /\ UNCHANGED gridVars
  <2>1. Limited(wanted')
    BY <1>4, <1>a, RaisedIsLimited DEF Raise, LimitInv
  <2>2. QED
    BY <1>1, <1>4, <2>1
       DEF Raise, configVars, gridVars, LimitInv, DemandWithinLimits, Limited
<1>5. CASE Decide /\ UNCHANGED gridVars
  BY <1>1, <1>5 DEF Decide, configVars, gridVars, LimitInv, DemandWithinLimits, Limited
<1>6. CASE Narrow /\ UNCHANGED gridVars
  BY <1>1, <1>6 DEF Narrow, configVars, gridVars, LimitInv, DemandWithinLimits, Limited
<1>7. CASE DeliverRequest
  BY <1>1, <1>7 DEF DeliverRequest, SetRequest, configVars, LimitInv, DemandWithinLimits, Limited
<1>8. CASE OtherRequest
  BY <1>1, <1>8 DEF OtherRequest, vars, LimitInv, DemandWithinLimits, Limited
<1>9. CASE Restart /\ UNCHANGED gridVars
  BY <1>1, <1>9 DEF Restart, Boots, gridVars, LimitInv, DemandWithinLimits, Limited
<1>10. CASE TakeReading
  BY <1>1, <1>10 DEF TakeReading, Receive, ReadOnly, Accept, configVars,
                    LimitInv, DemandWithinLimits, Limited
<1>11. CASE \/ Publish
            \/ LoseRequest
            \/ ReadBack
            \/ ReadBackFails
            \/ (Window \/ Ignore \/ PrepareEcoflow) /\ UNCHANGED gridVars
            \/ Follow
            \/ ChangeLoad
            \/ Second
            \/ GridCrash
            \/ UNCHANGED allVars
  BY <1>2, <1>11
     DEF Publish, Window, Ignore, LoseRequest, SetRequest, ReadBack, RefreshOk, ReadBackFails,
         RefreshFails, PrepareEcoflow, Follow, ChangeLoad, Second, Tick, GridCrash, Crash,
         Dies, Disturbed, allVars, vars, gridVars, configVars, controlVars
<1>12. CASE Deciding
  BY <1>3, <1>4, <1>5, <1>6, <1>11, <1>12 DEF Deciding, Deliberate
<1>13. QED
  BY <1>7, <1>8, <1>9, <1>10, <1>11, <1>12 DEF GridNext

\* Across all failures and restarts, the converter is asked for nothing beyond
\* the limits of a configuration the daemon came up with (the two limits
\* processEvent applies, in their order).
THEOREM DemandLimited == GridSpec => []DemandWithinLimits
<1>1. LimitInv => DemandWithinLimits
  BY DEF LimitInv
<1>2. QED
  BY <1>1, InitLimited, NextLimited, PTL DEF GridSpec
----------------------------------------------------------------------------
(* Readings older than the last request. *)

Waits == adapter.WaitAfterRequestSeconds > 0

\* Every queued reading was measured at the converter's present output.
Current == \A i \in 1..Len(readings) : readings[i].output = output

\* The wait is over and the loop runs: nothing of the last request is pending.
Quiet == Waits /\ process = "up" /\ handler # "connect" /\ blockLeft = 0

\* A raise in the making is below the load measured for it, the base request
\* apart: from the accepted reading on, if the wait was over, and in any case
\* when the blocked window has been passed.
Modest ==
    /\ handler = "window" /\ blockLeft = 0 /\ wanted > currentRequested => wanted <= measured
    /\ handler \in {"size", "cap", "base"} /\ wanted > currentRequested => wanted <= measured
    /\ handler = "decide" /\ wanted > currentRequested =>
          wanted <= measured \/ wanted = adapter.BaseRequest

\* Outside the API calls the program knows what the converter delivers; no
\* reading is queued before the subscription; once the wait is over the queue
\* is current; and so a raise is modest.
Calm ==
    /\ handler \in {"idle", "window", "size", "cap", "base", "decide", "set"} =>
          currentRequested = output /\ output = demand
    /\ process = "down" \/ client = "nil" => readings = <<>>
    /\ handler = "connect" => client = "nil"
    /\ Quiet => output = demand /\ handler # "set" /\ Current
    /\ Waits => Modest

CalmInv == GridTypes /\ (faithful => Calm)

\* Taking or publishing a reading keeps the queue current.
LEMMA CurrentQueue ==
    ASSUME readings \in Seq(RReading), Current, output \in Nat, load \in Nat
    PROVE  /\ readings # <<>> =>
                 /\ Head(readings).output = output
                 /\ \A i \in 1..Len(Tail(readings)) : Tail(readings)[i].output = output
           /\ LET longer == Append(readings, [load |-> load, output |-> output])
              IN  \A i \in 1..Len(longer) : longer[i].output = output
<1>1. ASSUME readings # <<>>
      PROVE  /\ Head(readings).output = output
             /\ \A i \in 1..Len(Tail(readings)) : Tail(readings)[i].output = output
  BY <1>1 DEF Current
<1> DEFINE longer == Append(readings, [load |-> load, output |-> output])
<1>2. ASSUME NEW i \in 1..Len(longer) PROVE longer[i].output = output
  <2>1. Len(longer) = Len(readings) + 1
    OBVIOUS
  <2>2. CASE i = Len(readings) + 1
    BY <2>2
  <2>3. CASE i \in 1..Len(readings)
    BY <2>3 DEF Current
  <2>4. QED
    BY <2>1, <2>2, <2>3
<1>3. QED
  BY <1>1, <1>2

\* A raise that a current reading asks for is to the load it measured.
LEMMA WishedBelowLoad ==
    ASSUME NEW now \in Nat, NEW drawn \in Nat
    PROVE  Wished(now, AlignedPower(drawn - now, 0), AlignedOut(drawn - now, 0)) = drawn
  BY DEF Wished, AlignedPower, AlignedOut

\* A loop that has just been switched on is calm.
LEMMA InitCalm == GridInit => CalmInv
  BY GridInitTypes
     DEF GridInit, Init, InitConfig, InitControl, CalmInv, Calm, Modest, Quiet, Current

\* Whether the API is faithful is chosen once.
LEMMA FaithfulChosen == [GridNext]_allVars => UNCHANGED faithful
  BY ZenonT(30)
     DEF GridNext, Publish, TakeReading, Deciding, DeliverRequest, LoseRequest,
         OtherRequest, ReadBack, ReadBackFails, Follow, ChangeLoad, Second, GridCrash,
         gridVars, allVars

\* Every step keeps the calm: a request starts the wait, the wait runs only
\* while the queue is empty and the output has been read back, and so ends
\* with nothing pending.
LEMMA NextCalm == CalmInv /\ [GridNext]_allVars => CalmInv'
<1> SUFFICES ASSUME CalmInv, [GridNext]_allVars PROVE CalmInv'
  OBVIOUS
<1>b. GridTypes /\ GridTypes'
  BY GridNextTypes DEF CalmInv
<1>c. UNCHANGED faithful
  BY FaithfulChosen
<1> SUFFICES ASSUME faithful PROVE Calm'
  BY <1>b, <1>c DEF CalmInv
<1>1. Calm
  BY DEF CalmInv
<1>a. /\ adapter \in DefaultConfig /\ wanted \in Int /\ currentRequested \in Nat
      /\ blockLeft \in Nat /\ load \in Nat /\ output \in Nat /\ demand \in Nat
      /\ measured \in Nat /\ readings \in Seq(RReading)
  BY <1>b DEF GridTypes, IInv, TypeOK, ConfigTypeOK
<1> USE DEF Quiet, Waits
<1>2. CASE Publish
  <2>1. ASSUME Current PROVE Current'
    BY <1>2, <1>a, <2>1, CurrentQueue DEF Publish, Current
  <2>2. UNCHANGED vars /\ UNCHANGED <<demand, output, measured>>
    BY <1>2 DEF Publish
  <2>3. process = "up" /\ client = "ready"
    BY <1>2 DEF Publish
  <2>4. QED
    BY <1>1, <2>1, <2>2, <2>3 DEF vars, Calm, Modest
<1>3. CASE TakeReading
  <2>1. Quiet => Current'
    BY <1>1, <1>3, <1>a, CurrentQueue DEF TakeReading, Calm, Current
  <2>2. CASE ReadOnly(Reading)
    BY <1>1, <1>3, <2>1, <2>2 DEF TakeReading, ReadOnly, configVars, Calm, Modest
  <2>3. CASE Accept(Reading)
    <3>1. Head(readings) \in RReading
      BY <1>3, <1>a DEF TakeReading
    <3> DEFINE drawn == Head(readings).load
               now == Head(readings).output
    <3>2. drawn \in Nat /\ now \in Nat
      BY <3>1 DEF RReading
    <3>3. /\ wanted' = Wished(currentRequested, AlignedPower(drawn - now, 0),
                                               AlignedOut(drawn - now, 0))
          /\ handler' = IF AlignedPower(drawn - now, 0) > 0 THEN "window" ELSE "size"
          /\ UNCHANGED <<adapter, currentRequested, blockLeft>>
          /\ measured' = drawn
      BY <1>3, <2>3 DEF TakeReading, Accept, Reading, configVars
    <3>4. Waits /\ blockLeft = 0 => now = currentRequested
      BY <1>1, <1>3, <1>a, <2>3, CurrentQueue DEF TakeReading, Accept, Calm
    <3>5. Waits => Modest'
      <4> HIDE DEF drawn, now
      <4>1. AlignedPower(drawn - now, 0) \in Int /\ AlignedOut(drawn - now, 0) \in Int
        BY <3>2 DEF AlignedPower, AlignedOut
      <4>2. handler' = "size" => wanted' <= currentRequested /\ wanted' \in Int
        <5> DEFINE power == AlignedPower(drawn - now, 0)
                   out == AlignedOut(drawn - now, 0)
        <5>1. /\ wanted' = Wished(currentRequested, power, out)
              /\ handler' = IF power > 0 THEN "window" ELSE "size"
              /\ power \in Int /\ out \in Int
          BY <3>3, <4>1
        <5> HIDE DEF power, out
        <5>2. /\ Wished(currentRequested, power, out) \in Int
              /\ power <= 0 => Wished(currentRequested, power, out) <= currentRequested
          BY <1>a, <5>1, WishedBound
        <5>3. handler' = "size" => power <= 0
          BY <5>1
        <5>4. QED
          BY <5>1, <5>2, <5>3
      <4>3. Waits /\ blockLeft = 0 => wanted' = drawn
        BY <3>2, <3>3, <3>4, WishedBelowLoad
      <4>4. QED
        BY <1>a, <3>2, <3>3, <4>2, <4>3 DEF Modest
    <3>6. QED
      BY <1>1, <1>3, <2>1, <2>3, <3>3, <3>5 DEF TakeReading, Accept, configVars, Calm
  <2>4. QED
    BY <1>3, <2>2, <2>3 DEF TakeReading, Receive
<1>4. CASE (Narrow \/ Cap) /\ UNCHANGED gridVars
  <2>1. wanted' \in Int /\ wanted' <= wanted
    BY <1>4, <1>a, NarrowedBound, CappedBound DEF Narrow, Cap
  <2>2. Waits => Modest'
    BY <1>1, <1>4, <1>a, <2>1 DEF Narrow, Cap, configVars, gridVars, Calm, Modest
  <2>3. QED
    BY <1>1, <1>4, <2>2 DEF Narrow, Cap, configVars, gridVars, Calm, Current
<1>5. CASE Raise /\ UNCHANGED gridVars
  <2>1. wanted' = wanted \/ wanted' = adapter.BaseRequest
    BY <1>5, <1>a, RaisedBound DEF Raise
  <2>2. Waits => Modest'
    BY <1>1, <1>5, <1>a, <2>1 DEF Raise, configVars, gridVars, Calm, Modest
  <2>3. QED
    BY <1>1, <1>5, <2>2 DEF Raise, configVars, gridVars, Calm, Current
<1>6. CASE Window /\ UNCHANGED gridVars
  <2>1. Waits => Modest'
    BY <1>1, <1>6, <1>a DEF Window, configVars, gridVars, Calm, Modest
  <2>2. QED
    BY <1>1, <1>6, <2>1 DEF Window, configVars, gridVars, Calm, Current
<1>7. CASE Decide /\ UNCHANGED gridVars
  BY <1>1, <1>7 DEF Decide, configVars, gridVars, Calm, Modest, Current
<1>8. CASE Ignore /\ UNCHANGED gridVars
  BY <1>1, <1>8 DEF Ignore, configVars, gridVars, Calm, Modest, Current
<1>9. CASE DeliverRequest \/ LoseRequest
  BY <1>1, <1>9 DEF DeliverRequest, LoseRequest, Disturbed, SetRequest, configVars,
                    Calm, Modest, Current
<1>10. CASE ReadBack
  BY <1>1, <1>10 DEF ReadBack, RefreshOk, configVars, gridVars, Calm, Modest, Current
<1>11. CASE PrepareEcoflow /\ UNCHANGED gridVars
  BY <1>1, <1>11 DEF PrepareEcoflow, configVars, gridVars, Calm, Modest, Current
<1>12. CASE Follow
  BY <1>1, <1>12 DEF Follow, vars, Calm, Modest, Current
<1>13. CASE ChangeLoad
  BY <1>1, <1>13 DEF ChangeLoad, Disturbed, vars, Calm, Modest, Current
<1>14. CASE Second
  <2>1. Current'
    BY <1>14 DEF Second, Current
  <2>2. QED
    BY <1>1, <1>14, <2>1 DEF Second, Tick, vars, configVars, Calm, Modest
<1>15. CASE GridCrash
  BY <1>1, <1>15 DEF GridCrash, Crash, Dies, Disturbed, controlVars, Calm, Modest
<1>16. CASE Restart /\ UNCHANGED gridVars
  BY <1>1, <1>16 DEF Restart, Boots, gridVars, Calm, Modest
<1>17. CASE UNCHANGED allVars
  BY <1>1, <1>17 DEF allVars, vars, gridVars, Calm, Modest, Current
<1>18. CASE Deciding
  BY <1>4, <1>5, <1>6, <1>7, <1>8, <1>18 DEF Deciding, Deliberate
<1>19. ~OtherRequest /\ ~ReadBackFails
  BY DEF OtherRequest, ReadBackFails
<1>20. QED
  BY <1>2, <1>3, <1>9, <1>10, <1>11, <1>12, <1>13, <1>14, <1>15, <1>16, <1>17, <1>18,
     <1>19 DEF GridNext

\* No reading older than the last request makes the converter climb beyond
\* the load that was measured (the base request apart), whatever the rate of
\* the meter and the wait, as long as there is one and the API is faithful.
THEOREM StaleReadingsHarmless == GridSpec => RaisesStayBelowLoad
<1> DEFINE Below ==
             /\ faithful
             /\ adapter.WaitAfterRequestSeconds > 0
             /\ handler = "decide" /\ handler' = "set"
             /\ newRequested' > currentRequested
             => newRequested' <= measured \/ newRequested' = adapter.BaseRequest
<1>1. ASSUME CalmInv, [GridNext]_allVars PROVE Below
  <2> SUFFICES ASSUME faithful, adapter.WaitAfterRequestSeconds > 0,
                      handler = "decide", handler' = "set",
                      newRequested' > currentRequested
               PROVE  newRequested' <= measured \/ newRequested' = adapter.BaseRequest
    OBVIOUS
  <2>1. newRequested' = wanted
    BY <1>1 DEF GridNext, Publish, TakeReading, Receive, ReadOnly, Accept, Deciding,
                Deliberate, Window, Narrow, Cap, Raise, Decide, Ignore, DeliverRequest,
                LoseRequest, SetRequest, OtherRequest, ReadBack, RefreshOk, ReadBackFails,
                RefreshFails, PrepareEcoflow, Follow, ChangeLoad, Second, GridCrash, Crash,
                Dies, Restart, Boots, allVars, vars, controlVars
  <2>2. QED
    BY <1>1, <2>1 DEF CalmInv, Calm, Modest, Waits
<1>2. QED
  BY <1>1, InitCalm, NextCalm, PTL DEF GridSpec, RaisesStayBelowLoad
----------------------------------------------------------------------------
(* Decisions after the wait. *)

\* What a reading of a converter that delivers now, and of a load, asks for.
Metered(now, drawn) ==
    Wished(now, AlignedPower(drawn - now, 0), AlignedOut(drawn - now, 0))

\* What processEvent makes of it.
Wish(cfg, now, drawn) == Narrowed(cfg, now, Metered(now, drawn))

\* The request that follows from a wish.
Answered(cfg, now, drawn) == Raised(cfg, Capped(cfg, Wish(cfg, now, drawn)))

\* One request balances: for every converter, load, dead zone and pair of
\* limits, what processEvent computes from a reading that is up to date is
\* above the load only as the base request, and short of it by more than the
\* dead zone only at the upper limit.
THEOREM RequestBalances ==
    ASSUME NEW cfg \in DefaultConfig, NEW now \in Nat, NEW drawn \in Nat
    PROVE  LET watts == Answered(cfg, now, drawn)
           IN  /\ watts \in Int
               /\ watts > drawn => watts = cfg.BaseRequest
               /\ drawn - watts > cfg.IntermediateSize => watts >= cfg.UpperBatLimit
<1>1. cfg.BaseRequest \in Int /\ cfg.UpperBatLimit \in Int /\ cfg.IntermediateSize \in Nat
  BY DEF DefaultConfig
<1>2. /\ Wish(cfg, now, drawn) \in Int
      /\ Wish(cfg, now, drawn) <= drawn
      /\ drawn - Wish(cfg, now, drawn) <= cfg.IntermediateSize
  <2>1. Metered(now, drawn) = drawn
    BY WishedBelowLoad DEF Metered
  <2>2. Wish(cfg, now, drawn) = Narrowed(cfg, now, drawn)
    BY <2>1 DEF Wish
  <2>3. QED
    BY <1>1, <2>2 DEF Narrowed
<1> DEFINE wish == Wish(cfg, now, drawn)
<1> HIDE DEF wish
<1>3. wish \in Int /\ wish <= drawn /\ drawn - wish <= cfg.IntermediateSize
  BY <1>2 DEF wish
<1>4. Answered(cfg, now, drawn) = Raised(cfg, Capped(cfg, wish))
  BY DEF Answered, wish
<1>5. QED
  BY <1>1, <1>3, <1>4 DEF Raised, Capped

\* A decision after the wait is about the reading taken last, and about the
\* output the converter delivers.
Fresh ==
    Waits /\ blockLeft = 0 =>
        /\ handler \in {"window", "size"} => wanted = Metered(currentRequested, measured)
        /\ handler = "cap" => wanted = Wish(adapter, currentRequested, measured)
        /\ handler = "base" =>
              wanted = Capped(adapter, Wish(adapter, currentRequested, measured))
        /\ handler = "decide" => wanted = Answered(adapter, currentRequested, measured)

FreshInv == CalmInv /\ (faithful => Fresh)

\* No decision is under way in a loop that has just been switched on.
LEMMA InitFresh == GridInit => FreshInv
  BY InitCalm DEF GridInit, Init, InitControl, FreshInv, Fresh

\* Every step keeps it: a calm queue makes the accepted reading current, and
\* time passes only between decisions.
LEMMA NextFresh == FreshInv /\ [GridNext]_allVars => FreshInv'
<1> SUFFICES ASSUME FreshInv, [GridNext]_allVars PROVE FreshInv'
  OBVIOUS
<1>b. CalmInv /\ CalmInv'
  BY NextCalm DEF FreshInv
<1>c. UNCHANGED faithful
  BY FaithfulChosen
<1> SUFFICES ASSUME faithful PROVE Fresh'
  BY <1>b, <1>c DEF FreshInv
<1>0. Calm /\ Fresh
  BY DEF FreshInv, CalmInv
<1>a. /\ adapter \in DefaultConfig /\ currentRequested \in Nat /\ blockLeft \in Nat
      /\ load \in Nat /\ output \in Nat /\ readings \in Seq(RReading)
  BY <1>b DEF CalmInv, GridTypes, IInv, TypeOK, ConfigTypeOK
<1>1. CASE TakeReading
  <2>1. CASE ReadOnly(Reading)
    BY <2>1 DEF ReadOnly, Fresh
  <2>2. CASE Accept(Reading)
    <3> DEFINE now == Head(readings).output
               drawn == Head(readings).load
    <3>1. wanted' = Metered(now, drawn) \/ now # currentRequested
      BY <2>2 DEF Accept, Reading, Metered
    <3>2. /\ UNCHANGED <<adapter, currentRequested, blockLeft>>
          /\ handler' \in {"window", "size"} /\ measured' = drawn
      BY <1>1, <2>2 DEF TakeReading, Accept, configVars
    <3>3. Waits /\ blockLeft = 0 => now = currentRequested
      BY <1>0, <1>1, <1>a, <2>2, CurrentQueue DEF TakeReading, Accept, Calm, Quiet, Waits
    <3> HIDE DEF now, drawn
    <3>4. QED
      BY <3>1, <3>2, <3>3 DEF Fresh, Waits
  <2>3. QED
    BY <1>1, <2>1, <2>2 DEF TakeReading, Receive
<1>2. CASE (Window \/ Narrow \/ Cap \/ Raise) /\ UNCHANGED gridVars
  BY <1>0, <1>2 DEF Window, Narrow, Cap, Raise, configVars, gridVars, Fresh, Waits, Wish,
                    Answered
<1>3. CASE UNCHANGED <<adapter, handler, currentRequested, wanted, blockLeft, measured>>
  BY <1>0, <1>3 DEF Fresh, Waits
<1>4. CASE handler' \notin {"window", "size", "cap", "base", "decide"}
  BY <1>4 DEF Fresh
<1>5. QED
  BY <1>1, <1>2, <1>3, <1>4
     DEF GridNext, Publish, Deciding, Deliberate, Decide, Ignore, DeliverRequest,
         LoseRequest, SetRequest, OtherRequest, ReadBack, RefreshOk, ReadBackFails,
         RefreshFails, PrepareEcoflow, Follow, ChangeLoad, Second, Tick, GridCrash, Crash,
         Dies, Restart, allVars, vars, gridVars, configVars, controlVars

\* With a faithful API and a wait of any length, a decision after the wait
\* balances the converter with the load that was measured, in one request.
THEOREM DecisionsBalance == GridSpec => QuietDecisionsBalance
<1> DEFINE Target == IF handler' = "set" THEN newRequested' ELSE currentRequested
           Balances ==
             /\ faithful
             /\ adapter.WaitAfterRequestSeconds > 0 /\ blockLeft = 0
             /\ adapter.BaseRequest > 0
             /\ handler = "decide" /\ handler' \in {"set", "idle"}
             => BalancedAt(Target, measured)
<1>1. ASSUME FreshInv, [GridNext]_allVars PROVE Balances
  <2> SUFFICES ASSUME faithful, Waits, blockLeft = 0, adapter.BaseRequest > 0,
                      handler = "decide", handler' \in {"set", "idle"}
               PROVE  BalancedAt(Target, measured)
    BY DEF Waits
  <2>1. Decide \/ Ignore
    BY <1>1 DEF GridNext, Publish, TakeReading, Receive, ReadOnly, Accept, Deciding,
                Deliberate, Window, Narrow, Cap, Raise, DeliverRequest, LoseRequest,
                SetRequest, OtherRequest, ReadBack, RefreshOk, ReadBackFails, RefreshFails,
                PrepareEcoflow, Follow, ChangeLoad, Second, GridCrash, Crash, Dies, Restart,
                Boots, allVars, vars, controlVars
  <2>2. adapter \in DefaultConfig /\ currentRequested \in Nat /\ measured \in Nat
    BY <1>1 DEF FreshInv, CalmInv, GridTypes, IInv, TypeOK, ConfigTypeOK
  <2>3. wanted = Answered(adapter, currentRequested, measured)
    BY <1>1 DEF FreshInv, Fresh
  <2>4. wanted > 0
    BY <2>2, <2>3, RequestBalances DEF Raised, Answered, DefaultConfig
  <2>5. Target = Answered(adapter, currentRequested, measured)
    BY <2>1, <2>3, <2>4 DEF Decide, Ignore, Worthwhile
  <2>6. QED
    BY <2>2, <2>5, RequestBalances DEF BalancedAt
<1>2. QED
  BY <1>1, InitFresh, NextFresh, PTL DEF GridSpec, QuietDecisionsBalance
============================================================================
