------------------------------ MODULE MCCluster ------------------------------
(***************************************************************************)
(* Instances of Cluster for TLC: three nodes with scaled timeouts.  As in  *)
(* wire.TIMEOUTS the ids are not in the order of the timeouts, and the     *)
(* shortest timeout is the heartbeat itself.                               *)
(***************************************************************************)
EXTENDS ClusterProperties, TLC

MCTimeout == (1 :> 4) @@ (2 :> 2) @@ (3 :> 3)

\* The commands differ only by name.
Symmetry == Permutations(Write)

Events(cuts, heals, crashes, submits, queries) ==
    [cut |-> cuts, heal |-> heals, crash |-> crashes, submit |-> submits,
     read |-> queries]

MixedBudget     == Events(2, 1, 1, 2, 0)
PartitionBudget == Events(2, 1, 0, 3, 1)
QuietBudget     == Events(2, 1, 1, 1, 0)
CrashBudget     == Events(1, 0, 2, 1, 0)
ReadBudget      == Events(2, 0, 0, 2, 1)
LoneBudget      == Events(2, 0, 0, 1, 0)
MemberBudget    == Events(2, 1, 0, 2, 0)
=============================================================================
