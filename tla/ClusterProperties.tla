-------------------------- MODULE ClusterProperties --------------------------
(***************************************************************************)
(* What a run of the cluster promises.  A node that is down is judged by   *)
(* its disk, a live one too: every transition is on the disk at once.      *)
(***************************************************************************)
EXTENDS Cluster

\* The variables keep their shapes; sim.py and wire.py check most of this at
\* run time, through the builders.
TypeOK == /\ node \in [Node -> State] /\ disk \in [Node -> Image]
          /\ up \in SUBSET Node /\ cut \in SUBSET Link
          /\ clock \in Nat /\ phase \in {"events", "beats"}
          /\ turn \in SUBSET Node /\ pending \in Seq(Envelope)
          /\ raised \in BOOLEAN
          /\ leaders \in SUBSET [term : Nat, id : Node]
          /\ committed \in SUBSET [index : Nat, term : Nat]
          /\ chosen \in Seq(Command)
          /\ cast \in SUBSET Ballot

Leads(n) == n \in up /\ node[n].role = "leader"

\* At no moment do two live nodes lead in one term, although a leader forgets
\* whom it voted for, and so may vote again in a term it once led.
OneLeaderAtATime ==
    \A a, b \in Node :
        Leads(a) /\ Leads(b) /\ node[a].term = node[b].term => a = b

\* What makes an election safe.  Ballots are never cast ahead of a voter's
\* term; in its term a voter has voted for its disk's choice, for itself, or
\* not at all; a contender only for itself; and a voter that is nobody's rival
\* gives a term one ballot.
Voted(term, v, c) == [term |-> term, voter |-> v, cand |-> c] \in cast

BallotsBind ==
    /\ \A b \in cast :
          LET image == disk[b.voter] IN
          /\ b.term <= image.term
          /\ b.term = image.term => b.cand \in {image.voted_for, b.voter}
          /\ /\ b.voter \in up /\ node[b.voter].role # "follower"
             /\ b.term = image.term
             => b.cand = b.voter
    /\ \A a, b \in cast :
          a.term = b.term /\ a.voter = b.voter
          => a.cand = b.cand \/ a.voter \in {a.cand, b.cand}

\* What a candidate counts, what is on its way to it, and what a leader was
\* elected by, are ballots that were cast.
BallotsCounted ==
    /\ \A i \in 1..Len(pending) :
          LET m == pending[i].msg IN
          m.kind = "VOTE_REPLY" /\ m.granted => Voted(m.term, m.node, m.cand)
    /\ \A n \in up :
          /\ node[n].role = "candidate"
             => \A v \in node[n].votes \cup {n} : Voted(node[n].term, v, n)
          /\ node[n].role = "leader"
             => Cardinality({v \in Node : Voted(node[n].term, v, n)})
                    >= majority(Node)

\* No term ever has two leaders, one after the other included.
OneLeaderPerTerm ==
    \A a, b \in leaders : a.term = b.term => a.id = b.id

\* No slot is ever committed with two commands: the safety law `conflicts`
\* records.
SlotsCommitOnce == conflicts = {}

\* Two logs that hold the same term at a slot agree up to that slot: what the
\* prev check of handle_append buys.
LogMatching ==
    \A a, b \in Node : \A i \in 1..Len(disk[a].log) :
        i <= Len(disk[b].log) /\ disk[a].log[i].term = disk[b].log[i].term
        => SubSeq(disk[a].log, 1, i) = SubSeq(disk[b].log, 1, i)

Holds(n, slot) == /\ slot.index <= Len(disk[n].log)
                  /\ disk[n].log[slot.index].term = slot.term

\* What was once committed stays on a majority of the disks: advance_commit
\* counts replies, and each one must still be true of its sender's log.
ChosenHeldByMajority ==
    \A slot \in committed :
        Cardinality({n \in Node : Holds(n, slot)}) >= majority(Node)

\* A leader in the newest term holds every slot committed anywhere: the
\* election restriction of grant_vote.
LeaderHoldsChosen ==
    \A n \in Node : \A slot \in committed :
        Leads(n) /\ (\A other \in Node : disk[other].term <= node[n].term)
        => Holds(n, slot)

\* The row a leader keeps of a peer is a prefix both logs hold, as wire.leader
\* says of `matched`.
MatchedAgrees ==
    \A n \in Node : Leads(n) => \A p \in Node :
        LET prefix == node[n].matched[p] IN
        /\ prefix <= Len(disk[p].log) /\ prefix <= Len(node[n].log)
        /\ SubSeq(disk[p].log, 1, prefix) = SubSeq(node[n].log, 1, prefix)

\* No handler is ever led into a state the builders refuse, or to a slot its
\* log does not have.
NeverRaises == ~raised

\* What a node would come back with is what it had: a crash tears only the
\* copy of a record the disk already holds.
DiskIsCurrent == \A n \in up : disk[n] = persist(node[n])

\* No step, a crash and a restart included, lowers a node's term, or takes
\* back a slot it has committed.
TermsGrow == [][\A n \in Node : disk'[n].term >= disk[n].term]_vars

CommittedStays ==
    [][\A n \in Node :
          LET line == disk[n].commit_index IN
          /\ disk'[n].commit_index >= line
          /\ SubSeq(disk'[n].log, 1, line) = SubSeq(disk[n].log, 1, line)
      ]_vars

\* Every drain ends: no reply begets replies without end.
DrainsSettle == pending # <<>> ~> (pending = <<>> \/ raised)

\* A read answers from slots the cluster committed, never from a longer log.
ReadsAnswerCommitted == \A read \in reads : read.saw <= read.newest

\* A leader's answer to a read knows the newest committed write.
ReadsAreFresh == \A read \in reads : read.saw >= read.newest

\* A run that ends quiet, with every link healed and every node up, ends with
\* a leader.
Quiet == clock > Horizon /\ cut = {} /\ up = Node
HealedRunLeads == Quiet => \E n \in Node : Leads(n)

\* Such a run ends with one log everywhere, a leader's, unless the node with
\* the shortest timeout is behind another: it never wins, and resets the
\* timers of those that could.
Behind(n) ==
    \E p \in Node : ~at_least_as_up_to_date(LastTerm(disk[n].log),
                                           Len(disk[n].log), disk[p].log)
Fastest(n) == \A p \in Node : Timeout[n] <= Timeout[p]

HealedRunConverges ==
    Quiet => \/ \E n \in Node : Fastest(n) /\ Behind(n)
             \/ \E n \in Node : /\ Leads(n)
                                /\ \A p \in Node : disk[p].log = disk[n].log

\* A candidate alone in its config leads: its own vote is the majority.
LoneNodeLeads ==
    \A n \in up : node[n].role = "candidate" => node[n].config # {n}
=============================================================================
