---------------------------- MODULE PowerRequest ----------------------------
(***************************************************************************)
(* The arithmetic that turns a meter reading into the power the converter  *)
(* is asked to deliver (processEvent, mqtt.go).  cfg is a DefaultConfig    *)
(* record, current the converter's output as the program last read it.    *)
(* Watts are integers: the code's float64 values, in a unit small enough   *)
(* for the tenth of a watt the API reports.                                *)
(***************************************************************************)
EXTENDS Integers

\* A meter that reports only a signed power: a negative one is an export.
AlignedOut(power, out) == IF power < 0 /\ out = 0 THEN -power ELSE out

AlignedPower(power, out) == IF power < 0 /\ out = 0 THEN 0 ELSE power

\* What a reading asks for, before the dead zone: lower by what is exported,
\* higher by what is drawn.
Wished(current, power, out) ==
    IF out > 0 THEN current - out
    ELSE IF power > 0 THEN current + power ELSE current

\* The dead zone: a raise is shortened by it, or there is none.
Narrowed(cfg, current, watts) ==
    IF watts - current > cfg.IntermediateSize THEN watts - cfg.IntermediateSize
    ELSE IF watts > current THEN current ELSE watts

\* Mutant of Capped: the upper limit is not looked at.
CappedNever(cfg, watts) == watts

\* The upper limit comes first, the lower one so wins if they cross.
Capped(cfg, watts) ==
    IF watts > cfg.UpperBatLimit THEN cfg.UpperBatLimit ELSE watts

Raised(cfg, watts) ==
    IF watts < cfg.BaseRequest THEN cfg.BaseRequest ELSE watts
============================================================================
