------------------------- MODULE RequestDiscipline -------------------------
(***************************************************************************)
(* What the realtime controller promises the converter, whatever meter     *)
(* readings arrive, whatever the API answers and whenever the              *)
(* configuration is reloaded:                                              *)
(*   - a request is armed first, which takes realtime control to be on and *)
(*     the converter to be known to deliver something; each arming gives   *)
(*     at most one request;                                                *)
(*   - its target is bounded by the upper limit in force, then, later,     *)
(*     lifted to the base request in force, and nothing changes it after   *)
(*     that;                                                               *)
(*   - while the wait that follows a request runs, the next target only    *)
(*     goes down, or to a base request: it never climbs on readings that   *)
(*     may be older than the last request;                                 *)
(*   - a request is positive and no repetition, and starts the wait that   *)
(*     is in force then anew.                                              *)
(* The configuration can change between any two of these: the limits and   *)
(* the wait of one request may be from different files, and a request may  *)
(* be outside the limits in force when it is made.  No variable says why a *)
(* request is made.                                                        *)
(***************************************************************************)
EXTENDS Integers

CONSTANT StartBlock   \* the wait a starting process begins with

VARIABLES
    limits,    \* the configuration in force
    stage,     \* "off", then "armed", "bounded", "lifted": how far a request is
    target,    \* what it will ask for, once bounded
    belief,    \* what the controller thinks the converter delivers
    request,   \* the last request, 0 if none was made
    cooldown   \* what is left of the wait

vars == <<limits, stage, target, belief, request, cooldown>>

Idle == stage = "off" /\ target = 0

Init == Idle /\ belief = 0 /\ request = 0 /\ cooldown = StartBlock

Arm ==
    /\ stage = "off" /\ stage' = "armed"
    /\ limits.RealtimeRequest
    /\ belief # 0
    /\ UNCHANGED <<limits, target, belief, request, cooldown>>

Bound ==
    /\ stage = "armed" /\ stage' = "bounded"
    /\ target' <= limits.UpperBatLimit
    /\ target' <= belief \/ cooldown = 0
    /\ UNCHANGED <<limits, belief, request, cooldown>>

Lift ==
    /\ stage = "bounded" /\ stage' = "lifted"
    /\ target' \in {target, limits.BaseRequest}
    /\ target' >= limits.BaseRequest /\ target' >= target
    /\ UNCHANGED <<limits, belief, request, cooldown>>

Drop ==
    /\ Idle'
    /\ UNCHANGED <<limits, belief, request, cooldown>>

Request ==
    /\ stage = "lifted"
    /\ target > 0 /\ target # belief
    /\ request' = target
    /\ cooldown' = limits.WaitAfterRequestSeconds
    /\ Idle'
    /\ UNCHANGED <<limits, belief>>

\* The converter's output is read, never in the middle of a decision.
Learn == stage = "off" /\ UNCHANGED <<limits, stage, target, request, cooldown>>

Elapse ==
    /\ cooldown > 0
    /\ cooldown' = cooldown - 1
    /\ UNCHANGED <<limits, stage, target, belief, request>>

Reconfigure == UNCHANGED <<stage, target, belief, request, cooldown>>

\* A new process knows nothing of the last one's requests.
Restart == Init'

Next == \/ Arm \/ Bound \/ Lift \/ Drop \/ Request
        \/ Learn \/ Elapse \/ Reconfigure \/ Restart

Spec == Init /\ [][Next]_vars
============================================================================
