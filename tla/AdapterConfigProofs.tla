------------------------ MODULE AdapterConfigProofs ------------------------
(***************************************************************************)
(* Lemmas about the configuration, for every set of files.                 *)
(***************************************************************************)
EXTENDS AdapterConfig, TLAPS

\* Unmarshalling a file into a configuration gives a configuration.
LEMMA OverlayType ==
    ASSUME NEW cfg \in DefaultConfig, NEW f \in Files
    PROVE  Overlay(cfg, f) \in DefaultConfig
<1>1. f.values \in DefaultConfig
  BY ConfigAssumption
<1>2. QED
  BY <1>1 DEF Overlay, DefaultConfig, Keys

\* So does the normalisation, which gives the limits a value other than zero
\* and never leaves both controllers on.
LEMMA NormalisedType ==
    ASSUME NEW cfg \in DefaultConfig
    PROVE  /\ Normalised(cfg) \in DefaultConfig
           /\ Normalised(cfg).BaseRequest # 0
           /\ Normalised(cfg).UpperBatLimit # 0
           /\ ~(Normalised(cfg).DynamicRequest /\ Normalised(cfg).RealtimeRequest)
<1> DEFINE base == IF cfg.BaseRequest = 0 THEN defaultBaseRequest ELSE cfg.BaseRequest
           upper == IF cfg.UpperBatLimit = 0 THEN defaultMaxRequest ELSE cfg.UpperBatLimit
           dynamic == cfg.DynamicRequest /\ ~cfg.RealtimeRequest
<1>1. base \in Int \ {0} /\ upper \in Int \ {0}
  BY ConfigAssumption DEF DefaultConfig
<1>2. dynamic \in BOOLEAN
  OBVIOUS
<1>3. Normalised(cfg) = [cfg EXCEPT !.BaseRequest = base, !.UpperBatLimit = upper,
                                    !.DynamicRequest = dynamic]
  BY DEF Normalised
<1> HIDE DEF base, upper, dynamic
<1>4. /\ Normalised(cfg) \in DefaultConfig
      /\ Normalised(cfg).BaseRequest = base
      /\ Normalised(cfg).UpperBatLimit = upper
      /\ Normalised(cfg).DynamicRequest = dynamic
      /\ Normalised(cfg).RealtimeRequest = cfg.RealtimeRequest
  BY <1>1, <1>2, <1>3 DEF DefaultConfig
<1>5. QED
  BY <1>1, <1>4 DEF dynamic

\* The configuration a process starts with is normalised.
LEMMA StartConfigType ==
    ASSUME NEW cfg \in StartConfigs
    PROVE  cfg \in DefaultConfig /\ ~(cfg.DynamicRequest /\ cfg.RealtimeRequest)
<1>1. InitialConfig \in DefaultConfig
  BY ConfigAssumption DEF InitialConfig, DefaultConfig
<1>2. PICK f \in Files : cfg = Normalised(Overlay(InitialConfig, f))
  BY DEF StartConfigs
<1>3. QED
  BY <1>1, <1>2, OverlayType, NormalisedType
============================================================================
