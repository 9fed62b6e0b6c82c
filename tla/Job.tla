-------------------------------- MODULE Job ---------------------------------
(***************************************************************************)
(* What yk::exec::scheduler promises its caller, without workers, queue,   *)
(* gates or statistics.  Inputs are taken, make values while they are      *)
(* being worked on, and are finished; values are consumed.  The wait       *)
(* succeeds only when nothing is left of either, and fails only after a    *)
(* stop; after the destructor nobody works any more.                       *)
(***************************************************************************)
EXTENDS Integers

CONSTANTS
    Inputs        \* number of producer inputs

VARIABLES
    caller,       \* what the thread that owns the scheduler is doing
    left,         \* inputs nobody has taken
    working,      \* inputs taken and not finished
    values,       \* values pushed and not consumed
    stopped       \* a stop was requested

vars == <<caller, left, working, values, stopped>>

Init ==
    /\ caller = "ready"
    /\ left = Inputs
    /\ working = 0
    /\ values = 0
    /\ stopped = FALSE

-----------------------------------------------------------------------------
(* The work.                                                               *)

Take(n) ==
    /\ caller # "ended" /\ ~stopped
    /\ n \in 1..left
    /\ left' = left - n
    /\ working' = working + n
    /\ UNCHANGED <<caller, values, stopped>>

Produce ==
    /\ caller # "ended"
    /\ working > 0
    /\ values' = values + 1
    /\ UNCHANGED <<caller, left, working, stopped>>

Finish(n) ==
    /\ caller # "ended"
    /\ n \in 1..working
    /\ working' = working - n
    /\ UNCHANGED <<caller, left, values, stopped>>

Consume(n) ==
    /\ caller # "ended"
    /\ n \in 1..values
    /\ values' = values - n
    /\ UNCHANGED <<caller, left, working, stopped>>

(* An exception, or somebody who halts the pool.                           *)
Stop ==
    /\ caller # "ended"
    /\ stopped' = TRUE
    /\ UNCHANGED <<caller, left, working, values>>

-----------------------------------------------------------------------------
(* The caller.                                                             *)

Goes(from, to) == caller \in from /\ caller' = to

Start ==
    /\ Goes({"ready", "running"}, "running")
    /\ UNCHANGED <<left, working, values, stopped>>

(* start() refuses when the inputs are used up and have not been reset.    *)
Refuse ==
    /\ Goes({"ready", "running"}, "refused")
    /\ left = 0 /\ working = 0
    /\ UNCHANGED <<left, working, values, stopped>>

Wait ==
    /\ Goes({"running"}, "waiting")
    /\ UNCHANGED <<left, working, values, stopped>>

Succeed ==
    /\ Goes({"waiting"}, "done")
    /\ left = 0 /\ working = 0 /\ values = 0 /\ ~stopped
    /\ UNCHANGED <<left, working, values, stopped>>

Fail ==
    /\ Goes({"waiting"}, "failed")
    /\ stopped
    /\ UNCHANGED <<left, working, values, stopped>>

Reset ==
    /\ Goes({"done"}, "ready")
    /\ left' = Inputs
    /\ UNCHANGED <<working, values, stopped>>

Abort ==
    /\ Goes({"running", "refused", "done", "failed"}, "closing")
    /\ stopped' = TRUE
    /\ UNCHANGED <<left, working, values>>

Close ==
    /\ Goes({"closing"}, "ended")
    /\ UNCHANGED <<left, working, values, stopped>>

-----------------------------------------------------------------------------

Next ==
    \/ \E n \in 1..left : Take(n)
    \/ Produce
    \/ \E n \in 1..working : Finish(n)
    \/ \E n \in 1..values : Consume(n)
    \/ Stop
    \/ Start \/ Refuse \/ Wait \/ Succeed \/ Fail \/ Reset \/ Abort \/ Close

Spec == Init /\ [][Next]_vars
=============================================================================
