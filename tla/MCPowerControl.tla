--------------------------- MODULE MCPowerControl ---------------------------
(* PowerControl on a small instance: watts from 0 to 5, a wait of one tick. *)
EXTENDS PowerControl

\* A full file, which switches the dynamic controller on; one that asks for
\* both controllers and sets no wait; one whose base request is above its upper
\* limit, as in adapter.yaml.template, and whose intermediate size is zero; one
\* that switches realtime control off and gives zero limits, for which the
\* defaults stand in.
MCFiles ==
    LET full == [DynamicRequest |-> TRUE, RealtimeRequest |-> FALSE,
                 WaitAfterRequestSeconds |-> 1, BaseRequest |-> 1,
                 UpperBatLimit |-> 3, IntermediateSize |-> 1]
    IN  { [keys |-> Keys, values |-> full],
          [keys |-> {"DynamicRequest", "RealtimeRequest", "WaitAfterRequestSeconds"},
           values |-> [full EXCEPT !.RealtimeRequest = TRUE,
                                   !.WaitAfterRequestSeconds = 0]],
          [keys |-> {"BaseRequest", "UpperBatLimit", "IntermediateSize"},
           values |-> [full EXCEPT !.BaseRequest = 4, !.UpperBatLimit = 2,
                                   !.IntermediateSize = 0]],
          [keys |-> {"RealtimeRequest", "BaseRequest", "UpperBatLimit"},
           values |-> [full EXCEPT !.BaseRequest = 0, !.UpperBatLimit = 0]] }

\* A signed meter, and one that gives drawn and exported power apart.
MCEvents == {[power |-> -1, out |-> 0], [power |-> 3, out |-> 0], [power |-> 1, out |-> 2]}

MCReports == {0, 2}

\* Nothing read; an export, small and large; nothing exported, in two records
\* of which the older shows less drawn power.
MCHistories ==
    LET e == [requested |-> 5, powerout |-> 1, housein |-> 0, powercurr |-> 0]
    IN  { <<>>,
          <<e>>,
          <<[e EXCEPT !.requested = 2, !.powerout = 3]>>,
          <<[e EXCEPT !.requested = 1, !.powerout = 0, !.powercurr = 4],
            [e EXCEPT !.powerout = 0]>>,
          <<[e EXCEPT !.requested = 2, !.powerout = 0]>> }
============================================================================
