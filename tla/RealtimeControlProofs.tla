----------------------- MODULE RealtimeControlProofs -----------------------
(***************************************************************************)
(* Proofs about RealtimeControl, for every set of configuration files,     *)
(* readings and reported outputs:                                          *)
(*   - TypeCorrect: the type invariant;                                    *)
(*   - UnblockedRaises: RaisesAreUnblocked, which is inductive together    *)
(*     with the type invariant (IInv);                                     *)
(*   - Refinement: the controller implements RequestDiscipline.            *)
(***************************************************************************)
EXTENDS RealtimeControl, AdapterConfigProofs

IInv == TypeOK /\ RaisesAreUnblocked
----------------------------------------------------------------------------
(* The decision. *)

\* The alignment of a reading gives integers.
LEMMA AlignedType ==
    ASSUME NEW e \in [power : Int, out : Int]
    PROVE  AlignedPower(e.power, e.out) \in Int /\ AlignedOut(e.power, e.out) \in Int
  BY DEF AlignedPower, AlignedOut

\* A reading without drawn power never makes the wish rise.
LEMMA WishedBound ==
    ASSUME NEW current \in Nat, NEW power \in Int, NEW out \in Int
    PROVE  /\ Wished(current, power, out) \in Int
           /\ power <= 0 => Wished(current, power, out) <= current
  BY DEF Wished

\* The dead zone makes no wish rise, and none to lower into one to raise.
LEMMA NarrowedBound ==
    ASSUME NEW cfg \in DefaultConfig, NEW current \in Nat, NEW watts \in Int
    PROVE  /\ Narrowed(cfg, current, watts) \in Int
           /\ Narrowed(cfg, current, watts) <= watts
  BY DEF Narrowed, DefaultConfig

\* The upper limit only lowers the wish, and bounds it.
LEMMA CappedBound ==
    ASSUME NEW cfg \in DefaultConfig, NEW watts \in Int
    PROVE  /\ Capped(cfg, watts) \in Int
           /\ Capped(cfg, watts) <= watts
           /\ Capped(cfg, watts) <= cfg.UpperBatLimit
  BY DEF Capped, DefaultConfig

\* The base request only raises it, to itself.
LEMMA RaisedBound ==
    ASSUME NEW cfg \in DefaultConfig, NEW watts \in Int
    PROVE  /\ Raised(cfg, watts) \in Int
           /\ Raised(cfg, watts) >= cfg.BaseRequest
           /\ Raised(cfg, watts) = watts \/ Raised(cfg, watts) = cfg.BaseRequest
  BY DEF Raised, DefaultConfig
----------------------------------------------------------------------------
(* The inductive invariant. *)

\* A starting process decides on nothing.
LEMMA InitIInv == Init => IInv
  BY StartConfigType, RealtimeAssumption
     DEF Init, InitConfig, InitControl, IInv, TypeOK, ConfigTypeOK, RaisesAreUnblocked

\* A reading that is accepted starts no raise during the wait.
LEMMA ReceiveIInv ==
    ASSUME IInv, NEW e \in [power : Int, out : Int], Receive(e) PROVE IInv'
<1> USE DEF IInv, TypeOK, ConfigTypeOK, RaisesAreUnblocked
<1>1. CASE ReadOnly(e)
  BY <1>1 DEF ReadOnly, configVars
<1>2. CASE Accept(e)
  <2> DEFINE power == AlignedPower(e.power, e.out)
             out == AlignedOut(e.power, e.out)
  <2>1. power \in Int /\ out \in Int
    BY AlignedType
  <2>2. /\ wanted' = Wished(currentRequested, power, out)
        /\ handler' = IF power > 0 THEN "window" ELSE "size"
    BY <1>2 DEF Accept
  <2>3. currentRequested # 0
    BY <1>2 DEF Accept, Deferred
  <2> HIDE DEF power, out
  <2>4. /\ wanted' \in Int
        /\ handler' = "size" => wanted' <= currentRequested
    BY <2>1, <2>2, WishedBound
  <2>5. QED
    BY <1>2, <2>2, <2>3, <2>4 DEF Accept, configVars
<1>3. QED
  BY <1>1, <1>2 DEF Receive

\* The output read back is a natural number.
LEMMA RefreshIInv ==
    ASSUME IInv, NEW watts \in Nat, RefreshOk(watts) PROVE IInv'
  BY DEF RefreshOk, configVars, IInv, TypeOK, ConfigTypeOK, RaisesAreUnblocked

\* The steps of a decision keep the invariant, and so do its request, the
\* start-up, time and the end of the process.
LEMMA HandlerIInv ==
    ASSUME IInv,
           Deliberate \/ SetRequest \/ SetOnNilClient \/ RefreshFails
             \/ PrepareEcoflow \/ Tick \/ Crash \/ Restart
    PROVE  IInv'
<1> USE DEF IInv, TypeOK, ConfigTypeOK, RaisesAreUnblocked
<1>1. CASE Window
  BY <1>1 DEF Window, configVars
<1>2. CASE Narrow \/ Cap
  <2>1. wanted' \in Int /\ wanted' <= wanted
    BY <1>2, NarrowedBound, CappedBound DEF Narrow, Cap
  <2>2. QED
    BY <1>2, <2>1 DEF Narrow, Cap, configVars
<1>3. CASE Raise
  <2>1. wanted' \in Int
    BY <1>3, RaisedBound DEF Raise
  <2>2. QED
    BY <1>3, <2>1 DEF Raise, configVars
<1>4. CASE Decide
  <2>1. newRequested' \in Nat
    BY <1>4 DEF Decide, Worthwhile
  <2>2. blockLeft' \in Nat
    BY <1>4 DEF Decide, DefaultConfig
  <2>3. QED
    BY <1>4, <2>1, <2>2 DEF Decide, configVars
<1>5. CASE Ignore
  BY <1>5 DEF Ignore, configVars
<1>6. CASE SetRequest
  BY <1>6 DEF SetRequest, configVars
<1>7. CASE SetOnNilClient
  BY <1>7 DEF SetOnNilClient, Dies, controlVars
<1>8. CASE RefreshFails
  BY <1>8 DEF RefreshFails, configVars
<1>9. CASE PrepareEcoflow
  BY <1>9 DEF PrepareEcoflow, configVars
<1>10. CASE Tick
  BY <1>10 DEF Tick, configVars
<1>11. CASE Crash
  BY <1>11 DEF Crash, Dies, controlVars
<1>12. CASE Restart
  BY <1>12, StartConfigType, RealtimeAssumption DEF Restart, Boots
<1>13. QED
  BY <1>1, <1>2, <1>3, <1>4, <1>5, <1>6, <1>7, <1>8, <1>9, <1>10, <1>11, <1>12
     DEF Deliberate

\* Every step keeps the invariant: drawn power passes the test of the wait, and
\* no step before the base request is looked at raises the wish or starts a wait.
LEMMA NextIInv == IInv /\ [Next]_vars => IInv'
<1> SUFFICES ASSUME IInv, [Next]_vars PROVE IInv'
  OBVIOUS
<1>1. ASSUME NEW e \in Events, Receive(e) PROVE IInv'
  BY <1>1, ReceiveIInv, RealtimeAssumption
<1>2. ASSUME NEW watts \in Reports, RefreshOk(watts) PROVE IInv'
  BY <1>2, RefreshIInv, RealtimeAssumption
<1>3. CASE Reload /\ UNCHANGED controlVars
  <2> USE DEF IInv, TypeOK, ConfigTypeOK, RaisesAreUnblocked
  <2>1. ASSUME NEW f \in Files, Unmarshal(f) PROVE IInv'
    BY <1>3, <2>1, OverlayType DEF Unmarshal, controlVars
  <2>2. CASE Normalise
    BY <1>3, <2>2, NormalisedType DEF Normalise, controlVars
  <2>3. QED
    BY <1>3, <2>1, <2>2 DEF Reload
<1>4. CASE UNCHANGED vars
  BY <1>4 DEF vars, IInv, TypeOK, ConfigTypeOK, RaisesAreUnblocked
<1>5. QED
  BY <1>1, <1>2, <1>3, <1>4, HandlerIInv DEF Next

\* IInv holds in every reachable state.
THEOREM Invariance == Spec => []IInv
  BY InitIInv, NextIInv, PTL DEF Spec

\* Every variable keeps its type: no request, no output read back and no wait
\* is ever negative, whatever the file, the meter and the API hold.
THEOREM TypeCorrect == Spec => []TypeOK
<1>1. IInv => TypeOK
  BY DEF IInv
<1>2. QED
  BY Invariance, <1>1, PTL

\* A decision that wants more of the converter is only ever under way after
\* the wait (processEvent's test of blockRequestTime).
THEOREM UnblockedRaises == Spec => []RaisesAreUnblocked
<1>1. IInv => RaisesAreUnblocked
  BY DEF IInv
<1>2. QED
  BY Invariance, <1>1, PTL
----------------------------------------------------------------------------
(* The refinement of RequestDiscipline. *)

\* A starting process maps to the discipline's initial state.
LEMMA InitRefines == Init => Discipline!Init
  BY DEF Init, InitControl, Discipline!Init, Discipline!Idle

\* Every step maps to one step of the discipline or to a stutter.
LEMMA StepRefines == IInv /\ [Next]_vars => [Discipline!Next]_(Discipline!vars)
<1> SUFFICES ASSUME IInv, [Next]_vars
             PROVE  [Discipline!Next]_(Discipline!vars)
  OBVIOUS
<1> USE DEF IInv, TypeOK, ConfigTypeOK, RaisesAreUnblocked
<1>1. ASSUME NEW e \in Events, ReadOnly(e) PROVE UNCHANGED Discipline!vars
  BY <1>1 DEF ReadOnly, configVars, Discipline!vars
<1>2. ASSUME NEW e \in Events, Accept(e) PROVE Discipline!Arm
  BY <1>2 DEF Accept, Deferred, configVars, Discipline!Arm
<1>3. CASE Window
  <2>1. Discipline!Drop \/ UNCHANGED Discipline!vars
    BY <1>3 DEF Window, configVars, Discipline!Drop, Discipline!Idle, Discipline!vars
  <2>2. QED
    BY <2>1 DEF Discipline!Next
<1>4. CASE Narrow
  BY <1>4 DEF Narrow, configVars, Discipline!vars
<1>5. CASE Cap
  <2>1. /\ wanted' <= adapter.UpperBatLimit
        /\ wanted' <= wanted
        /\ wanted' \in Int
    BY <1>5, CappedBound DEF Cap
  <2>2. wanted' <= currentRequested \/ blockLeft = 0
    BY <1>5, <2>1 DEF Cap
  <2>3. Discipline!Bound
    BY <1>5, <2>1, <2>2 DEF Cap, configVars, Discipline!Bound
  <2>4. QED
    BY <2>3 DEF Discipline!Next
<1>6. CASE Raise
  <2>1. /\ wanted' \in {wanted, adapter.BaseRequest}
        /\ wanted' >= adapter.BaseRequest /\ wanted' >= wanted
    BY <1>6 DEF Raise, Raised, DefaultConfig
  <2>2. Discipline!Lift
    BY <1>6, <2>1 DEF Raise, configVars, Discipline!Lift
  <2>3. QED
    BY <2>2 DEF Discipline!Next
<1>7. CASE Decide
  <2>1. Discipline!Request
    BY <1>7 DEF Decide, Worthwhile, configVars, Discipline!Request, Discipline!Idle
  <2>2. QED
    BY <2>1 DEF Discipline!Next
<1>8. CASE Ignore
  <2>1. Discipline!Drop
    BY <1>8 DEF Ignore, configVars, Discipline!Drop, Discipline!Idle
  <2>2. QED
    BY <2>1 DEF Discipline!Next
<1>9. CASE SetRequest
  BY <1>9 DEF SetRequest, configVars, Discipline!vars
<1>10. CASE SetOnNilClient
  BY <1>10 DEF SetOnNilClient, Dies, controlVars, Discipline!vars
<1>11. ASSUME NEW watts \in Reports, RefreshOk(watts) PROVE Discipline!Learn
  BY <1>11 DEF RefreshOk, configVars, Discipline!Learn
<1>12. CASE RefreshFails
  BY <1>12 DEF RefreshFails, configVars, Discipline!vars
<1>13. CASE PrepareEcoflow
  BY <1>13 DEF PrepareEcoflow, configVars, Discipline!vars
<1>14. CASE Reload /\ UNCHANGED controlVars
  BY <1>14 DEF controlVars, Discipline!Next, Discipline!Reconfigure
<1>15. CASE Tick
  <2>1. Discipline!Elapse
    BY <1>15 DEF Tick, configVars, Discipline!Elapse
  <2>2. QED
    BY <2>1 DEF Discipline!Next
<1>16. CASE Crash
  BY <1>16 DEF Crash, Dies, controlVars, Discipline!vars
<1>17. CASE Restart
  BY <1>17 DEF Restart, Discipline!Next, Discipline!Restart, Discipline!Init, Discipline!Idle
<1>18. CASE UNCHANGED vars
  BY <1>18 DEF vars, Discipline!vars
<1>19. QED
  BY <1>1, <1>2, <1>3, <1>4, <1>5, <1>6, <1>7, <1>8, <1>9, <1>10, <1>11, <1>12,
     <1>13, <1>14, <1>15, <1>16, <1>17, <1>18
     DEF Next, Receive, Deliberate, Discipline!Next

\* The realtime controller implements RequestDiscipline: it asks only while
\* realtime control was on, its requests are bounded and then lifted by limits
\* that were in force, and they climb only after the wait (the base request
\* apart), through every reload between any two reads of the configuration,
\* every API failure and every restart.
THEOREM Refinement == Spec => KeepsDiscipline
  BY InitRefines, StepRefines, Invariance, PTL
     DEF Spec, KeepsDiscipline, Discipline!Spec
============================================================================
