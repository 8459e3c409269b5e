------------------------------ MODULE MCDurable ------------------------------
(***************************************************************************)
(* Instances of DurableRun for TLC.  The labels are those of               *)
(* work.worker_for, at a cost of two ticks; owners differ in the length of *)
(* their leases, and the synthetic ones have the length LEASE_TICKS.       *)
(***************************************************************************)
EXTENDS DurableProperties

MCJobs == <<"a", "b">>

Of_cost(status, cost) == [status |-> status, cost |-> cost]

\* instant, reliable, hopeless and dying
MCAnswer ==
    [l \in Labels |->
        CASE l = "instant"  -> <<Of_cost("ok", 0)>>
          [] l = "reliable" -> <<Of_cost("ok", 2)>>
          [] l = "hopeless" -> <<Of_cost("failed", 1)>>
          [] l = "dying"    -> <<Of_cost("ok", 2), Of_cost("died", 2), Of_cost("ok", 2)>>]

MCWorkers == <<[owner |-> "w1", ticks |-> 4], [owner |-> "w2", ticks |-> 2]>>
=============================================================================
