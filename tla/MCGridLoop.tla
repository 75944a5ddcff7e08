----------------------------- MODULE MCGridLoop -----------------------------
(* GridLoop on a small instance. *)
EXTENDS GridLoop

MCFiles ==
    { [keys |-> Keys,
       values |-> [DynamicRequest |-> FALSE, RealtimeRequest |-> TRUE,
                   WaitAfterRequestSeconds |-> 1, BaseRequest |-> 1,
                   UpperBatLimit |-> 5, IntermediateSize |-> 1]] }
============================================================================
