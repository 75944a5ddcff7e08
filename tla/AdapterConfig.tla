--------------------------- MODULE AdapterConfig ---------------------------
(***************************************************************************)
(* The part of the configuration the power controllers read, and its hot   *)
(* reload (config.go).  adapter is the DefaultConfig record of the global  *)
(* adapter.  LoadConfig installs a file watcher; the watcher's goroutine   *)
(* calls evaluateConfig on the live record, with no lock, in two steps     *)
(* that every other goroutine can see between:                             *)
(*   - yaml.Unmarshal overwrites the keys the file holds and keeps the     *)
(*     others (Unmarshal);                                                 *)
(*   - the zero limits get their defaults and DynamicRequest is switched   *)
(*     off when RealtimeRequest is on (Normalise).                         *)
(* Watts and seconds are integers of any unit.                             *)
(***************************************************************************)
EXTENDS Integers

CONSTANTS
    Files,               \* the contents the configuration file can have
    defaultBaseRequest,  \* config.go:71
    defaultMaxRequest    \* config.go:72

VARIABLES
    process,   \* "up" while the daemon runs
    adapter,   \* adapter.DefaultConfig
    watcher    \* "idle", or "unmarshalled" inside evaluateConfig

configVars == <<process, adapter, watcher>>

Keys == {"DynamicRequest", "RealtimeRequest", "WaitAfterRequestSeconds",
         "BaseRequest", "UpperBatLimit", "IntermediateSize"}

DefaultConfig == [DynamicRequest          : BOOLEAN,
                  RealtimeRequest         : BOOLEAN,
                  WaitAfterRequestSeconds : Nat,
                  BaseRequest             : Int,
                  UpperBatLimit           : Int,
                  IntermediateSize        : Nat]

\* The code checks no value it reads; the model leaves out a negative wait
\* (which is no wait at all) and a negative intermediate size.
ASSUME ConfigAssumption ==
    /\ Files \subseteq [keys : SUBSET Keys, values : DefaultConfig]
    /\ defaultBaseRequest \in Nat \ {0}
    /\ defaultMaxRequest \in Nat \ {0}
----------------------------------------------------------------------------
\* The record of a process that has read no file yet.
InitialConfig == [DynamicRequest          |-> FALSE,
                  RealtimeRequest         |-> FALSE,
                  WaitAfterRequestSeconds |-> 0,
                  BaseRequest             |-> defaultBaseRequest,
                  UpperBatLimit           |-> 0,
                  IntermediateSize        |-> 0]

\* yaml.Unmarshal into the existing record: a key the file leaves out keeps
\* the value it had.
Overlay(cfg, file) ==
    [k \in Keys |-> IF k \in file.keys THEN file.values[k] ELSE cfg[k]]

\* Mutant of Normalised: the case of both controllers is left out.
NormalisedLimits(cfg) ==
    [cfg EXCEPT
       !.BaseRequest    = IF @ = 0 THEN defaultBaseRequest ELSE @,
       !.UpperBatLimit  = IF @ = 0 THEN defaultMaxRequest ELSE @]

\* What evaluateConfig does after the unmarshal.
Normalised(cfg) ==
    [cfg EXCEPT
       !.BaseRequest    = IF @ = 0 THEN defaultBaseRequest ELSE @,
       !.UpperBatLimit  = IF @ = 0 THEN defaultMaxRequest ELSE @,
       !.DynamicRequest = @ /\ ~cfg.RealtimeRequest]

\* main loads the file before it starts any goroutine.
StartConfigs == {Normalised(Overlay(InitialConfig, f)) : f \in Files}

InitConfig ==
    /\ process = "up"
    /\ adapter \in StartConfigs
    /\ watcher = "idle"

\* The watcher sees a change and reads the file.
Unmarshal(f) ==
    /\ process = "up"
    /\ watcher = "idle"
    /\ watcher' = "unmarshalled"
    /\ adapter' = Overlay(adapter, f)
    /\ UNCHANGED process

Normalise ==
    /\ process = "up"
    /\ watcher = "unmarshalled"
    /\ watcher' = "idle"
    /\ adapter' = Normalised(adapter)
    /\ UNCHANGED process

Reload == (\E f \in Files : Unmarshal(f)) \/ Normalise

\* The process ends: a panic or a Fatalf in any goroutine (a configuration
\* file that does not parse is one), os.Exit, or a kill.
Dies ==
    /\ process = "up"
    /\ process' = "down"
    /\ UNCHANGED <<adapter, watcher>>

\* The container is started again and loads the file anew.
Boots ==
    /\ process = "down"
    /\ process' = "up"
    /\ adapter' \in StartConfigs
    /\ watcher' = "idle"

ConfigTypeOK ==
    /\ process \in {"up", "down"}
    /\ adapter \in DefaultConfig
    /\ watcher \in {"idle", "unmarshalled"}
============================================================================
