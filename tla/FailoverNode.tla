---------------------------- MODULE FailoverNode ----------------------------
(***************************************************************************)
(* The failover course's node as functions of what one node holds: the     *)
(* version grammar of kv.py, stage 1's dominance and union, stage 2's      *)
(* majority gate, stage 5's death count, stage 7's proposal and tally, and *)
(* stage 8's write clock, as stage_10.py composes them.                    *)
(*                                                                         *)
(* Keys never meet in the code (a store is one sibling set per key), so    *)
(* there is one key.  A write is named by its (client, rid), and the value *)
(* of a version is the name of the write that made it.  A clock gives a    *)
(* node the code leaves out of the tuple the count 0.                      *)
(***************************************************************************)
EXTENDS Naturals, Sequences, FiniteSets, SequencesExt

CONSTANTS East, West,   \* the two rosters in id order; East is the PRIMARY
          Writes        \* the set requests, one for each (client, rid)

Fleet == East \o West
Nodes == Range(Fleet)

ASSUME FleetAssumption ==
    /\ East \in Seq(Range(East)) /\ West \in Seq(Range(West))
    /\ East # <<>> /\ West # <<>>
    /\ Range(East) \cap Range(West) = {}
    /\ IsInjective(East) /\ IsInjective(West)

Regions == {East, West}
region_of(n) == IF n \in Range(East) THEN East ELSE West
other(region) == IF region = East THEN West ELSE East
peers_of(n) == Range(region_of(n)) \ {n}

INITIAL_EPOCH == 1
majority(n) == n \div 2 + 1

-----------------------------------------------------------------------------
(* kv.py and stage 1: versions and their order.                            *)

Clock == [Nodes -> Nat]
Version == [value : Writes, clock : Clock]
Blank == [n \in Nodes |-> 0]

dominates(a, b) == \A n \in Nodes : a[n] >= b[n]
before(a, b) == dominates(b, a) /\ ~dominates(a, b)

coalesce(versions) ==
    {a \in versions : \A b \in versions : ~before(a.clock, b.clock)}

(* A bug: the node's count starts over.                                    *)
bump_reset(clock, n) == [clock EXCEPT ![n] = 1]

bump(clock, n) == [clock EXCEPT ![n] = @ + 1]

(* coalesce sorts what it returns by the clock tuple, whose entries name   *)
(* only nodes that wrote: at the first node where two clocks differ, the   *)
(* one that leaves the node out goes on to a later id and sorts last.      *)
SortsAfter(a, b) ==
    \E i \in 1..Len(Fleet) :
        /\ \A j \in 1..(i - 1) : a[Fleet[j]] = b[Fleet[j]]
        /\ a[Fleet[i]] # b[Fleet[i]]
        /\ a[Fleet[i]] = 0 \/ (b[Fleet[i]] > 0 /\ a[Fleet[i]] > b[Fleet[i]])

last(versions) ==
    CHOOSE v \in versions : \A u \in versions \ {v} : SortsAfter(v.clock, u.clock)

-----------------------------------------------------------------------------
(* What the node does with its notices: stages 2, 5 and 7.                 *)

(* A bug: half of the region is enough.                                    *)
ackable_half(region, ids) == 2 * Cardinality(ids) >= Len(region) - 1

ackable(region, ids) == 2 * Cardinality(ids) > Len(region)

alive(n, notices) == Range(region_of(n)) \ notices
quorum_ok(n, notices) == ackable(region_of(n), alive(n, notices))

(* A bug: every death notice counts, whichever region it is of.            *)
primary_gone_any(notices) == Cardinality(notices) >= majority(Len(East))

primary_gone(notices) ==
    Cardinality(notices \cap Range(East)) >= majority(Len(East))

(* A bug: a node promoted in an earlier round asks again.                  *)
Candidate_again(n, epoch, promoted, notices) ==
    /\ region_of(n) = West
    /\ primary_gone(notices)
    /\ Cardinality(alive(n, notices)) >= majority(Len(West))

(* propose's refusals: already promoted, past the first epoch, a node of   *)
(* the primary, a primary not proven dead, a region that cannot decide.    *)
Candidate(n, epoch, promoted, notices) ==
    /\ ~promoted
    /\ epoch = INITIAL_EPOCH
    /\ region_of(n) = West
    /\ primary_gone(notices)
    /\ Cardinality(alive(n, notices)) >= majority(Len(West))

first(region, ids) ==
    region[CHOOSE i \in DOMAIN region :
               region[i] \in ids /\ \A j \in 1..(i - 1) : region[j] \notin ids]

(* A bug: the candidate forgets its own vote.                              *)
Counted_others(n, adopters) ==
    IF adopters = {} THEN {} ELSE {first(West, adopters)}

(* tally over the adopts of one round: the first moves the candidate to    *)
(* the new epoch, and every later one then names an epoch it already holds *)
(* and is ignored.                                                         *)
Counted(n, adopters) ==
    {n} \cup (IF adopters = {} THEN {} ELSE {first(West, adopters)})

-----------------------------------------------------------------------------
(* What the node does with its store: stages 1, 8 and 10.                  *)

(* A bug: what arrives takes the place of what is held.                    *)
absorb_overwriting(versions, arriving) == IF arriving = {} THEN versions ELSE arriving

absorb(versions, arriving) == coalesce(versions \cup arriving)

merged_clock(versions, n) ==
    LET siblings == coalesce(versions)
        joined == [p \in Nodes |-> Max({0} \cup {v.clock[p] : v \in siblings})]
    IN bump(joined, n)

winner(versions, n, w) == [value |-> w, clock |-> merged_clock(versions, n)]
=============================================================================
