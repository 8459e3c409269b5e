------------------------------- MODULE MCQueue -------------------------------
(***************************************************************************)
(* Instances of the work queue for TLC: tasks over pools with room for one *)
(* or two flights, one of them with a high water mark of zero.             *)
(***************************************************************************)
EXTENDS QueueProperties

Pool(slots, mark) == [max_concurrency |-> slots, high_water |-> mark]
MCPools == {Pool(1, 3), Pool(2, 2), Pool(1, 0)}
MCLeases == {1, None}
MCBounds == {1, None}
TightPools == {Pool(1, 2)}
NoLease == {None}
NoBound == {None}
=============================================================================
