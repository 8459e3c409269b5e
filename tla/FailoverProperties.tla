------------------------- MODULE FailoverProperties -------------------------
EXTENDS Fabric

Relay == [due : {"now", "next", "held"}, from : Nodes, to : Nodes, version : Version]
Word == [due : {"now", "next", "held"}, kind : {"dead", "alive"}]

(* Every variable keeps its shape; an epoch is the first or the next one.  *)
TypeOK ==
    /\ epoch \in [Nodes -> {INITIAL_EPOCH, INITIAL_EPOCH + 1}]
    /\ promoted \in [Nodes -> BOOLEAN]
    /\ \A n \in Nodes : store[n] \subseteq Version
    /\ ledger \in [Nodes -> SUBSET Writes]
    /\ notices \in [Nodes -> SUBSET Nodes]
    /\ votes \in [Nodes -> SUBSET Nodes]
    /\ down \subseteq Nodes /\ died \subseteq Nodes
    /\ link_up \in BOOLEAN /\ even \in BOOLEAN
    /\ phase \in {"events", "redirects", "clients"} /\ turn \in 1..(Len(West) + 1)
    /\ watch \in [Nodes -> [Nodes -> Seq(Word)]] /\ cross \subseteq Relay
    /\ inject \in Seq(Requests)
    /\ \A w \in written : w.by \in Nodes /\ w.version \in Version
    /\ left \in [{"kill", "revive", "flip", "call"} -> Nat]

covers(n, v) == \E u \in store[n] : dominates(u.clock, v.clock)

(* A node that was promoted is a west node with a majority of its region's *)
(* votes, and a majority of the primary did die: a cut link promotes       *)
(* nobody.                                                                 *)
PromotionProven ==
    \A n \in Nodes : promoted[n] =>
        /\ n \in Range(West)
        /\ epoch[n] > INITIAL_EPOCH
        /\ votes[n] \subseteq Range(West)
        /\ Cardinality(votes[n]) >= majority(Len(West))
        /\ Cardinality(died \cap Range(East)) >= majority(Len(East))

(* A version that a node wrote for a client is covered by what a majority  *)
(* of that node's region holds, from the answer on.                        *)
WrittenHeldByMajority ==
    \A w \in written :
        LET holders == {n \in Range(region_of(w.by)) : covers(n, w.version)}
        IN Cardinality(holders) >= majority(Len(region_of(w.by)))

Versions == (UNION {store[n] : n \in Nodes}) \cup {w.version : w \in written}
                \cup {m.version : m \in cross}

(* Two versions with one clock are one version.                            *)
ClocksUnique == \A u, v \in Versions : u.clock = v.clock => u = v

(* While neither entry node ever died, both hold the same siblings as soon *)
(* as no relay is on its way.                                              *)
EntriesConverge ==
    {East[1], West[1]} \cap died = {} /\ cross = {} => store[East[1]] = store[West[1]]

(* A node that never died believes dead exactly the nodes that are, once   *)
(* every notice to it has landed.                                          *)
NoticesTrackDeaths ==
    \A n \in Nodes \ died :
        (\A x \in Nodes : watch[n][x] = <<>>) => notices[n] = down

(* No step makes a node forget a version: what it held is covered by what  *)
(* it holds after, and epochs and promotions never fall back.              *)
NothingForgotten ==
    [][\A n \in Nodes :
          /\ \A v \in store[n] : \E u \in store'[n] : dominates(u.clock, v.clock)
          /\ epoch'[n] >= epoch[n]
          /\ promoted[n] => promoted'[n]]_vars

(* When a majority of the primary stays down, the link stays up and a      *)
(* majority of the west stays alive, a live west node is promoted.         *)
Orphaned ==
    /\ Cardinality(down \cap Range(East)) >= majority(Len(East))
    /\ link_up
    /\ Cardinality(live(West)) >= majority(Len(West))
FailoverHappens == []<>(Orphaned => \E n \in live(West) : promoted[n])
-----------------------------------------------------------------------------
(* What the course says of the node and the code does not keep.            *)

(* A write that was acknowledged is never written a second time.           *)
ReplayMovesNothing ==
    \A u, v \in written : u.version.value = v.version.value => u = v
=============================================================================
