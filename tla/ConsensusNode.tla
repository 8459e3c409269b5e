---------------------------- MODULE ConsensusNode ----------------------------
(***************************************************************************)
(* The composed node of consensus-from-scratch (solutions/stage_10.py over *)
(* stages 1-7 and wire.py), as operators from a state and a message to a   *)
(* state and its replies.  Slots count from 1 here and from 0 in the code, *)
(* so the code's -1 ("nothing yet") is 0 and a slot equals the length of   *)
(* the log prefix it ends.  A config is a set: member lists are sorted.    *)
(* A definition whose name ends in a slip ("_any_vote") is a plausible bug *)
(* of the definition after it, kept to show which property notices it.     *)
(***************************************************************************)
EXTENDS Integers, Sequences, FiniteSets

CONSTANTS Node,       \* the cluster's ids, numbered in their sorted order
          Timeout,    \* wire.TIMEOUTS: the election timeout of each node
          Heartbeat,  \* wire.HEARTBEAT
          Write,      \* the "k=v" commands a client may submit
          MemberSet   \* the configs a "members:" command may name

ASSUME NodeAssumption == Node \subseteq (Nat \ {0}) /\ IsFiniteSet(Node)
ASSUME TimerAssumption ==
    Timeout \in [Node -> Nat \ {0}] /\ Heartbeat \in Nat \ {0}
ASSUME MemberAssumption == \A c \in MemberSet : c \subseteq Node /\ c # {}

Nobody == 0           \* voted_for None

Command == [write : Write] \cup [members : MemberSet]
Entry   == [term : Nat, cmd : Command]

\* A leader's dict keyed by peer, as a total function: 0 in next_index is
\* the absent key (matched has the same keys), and no slot in matched.
Row   == [Node -> Nat]
NoRow == [peer \in Node |-> 0]

State == [role : {"follower", "candidate", "leader"}, term : Nat,
          voted_for : Node \cup {Nobody}, log : Seq(Entry),
          commit_index : Nat, config : SUBSET Node, elapsed : Nat,
          votes : SUBSET Node, matched : Row, next_index : Row]
Image == [term : Nat, voted_for : Node \cup {Nobody}, log : Seq(Entry),
          commit_index : Nat, config : SUBSET Node]

RequestVoteMsg == [kind : {"REQUEST_VOTE"}, term : Nat, cand : Node,
                last_term : Nat, last_index : Nat]
VoteReplyMsg   == [kind : {"VOTE_REPLY"}, term : Nat, node : Node,
                cand : Node, granted : BOOLEAN]
AppendMsg      == [kind : {"APPEND"}, term : Nat, sender : Node,
                prev_term : Nat, prev_index : Nat, entries : Seq(Entry),
                leader_commit : Nat]
AppendReplyMsg == [kind : {"APPEND_REPLY"}, term : Nat, node : Node,
                matched : Nat, conflict : Nat, leader : Node]
Message == RequestVoteMsg \cup VoteReplyMsg \cup AppendMsg \cup AppendReplyMsg
-----------------------------------------------------------------------------
(* wire.py: the builders and the helpers every stage shares.               *)

\* A state as the follower builder leaves it: no votes, no peer rows.
follower(s) == [s EXCEPT !.role = "follower", !.votes = {},
                         !.matched = NoRow, !.next_index = NoRow]

\* _common: the one check of the builders a run can fail.
Builds(s) == s.commit_index <= Len(s.log)

majority_of_half(config) == Cardinality(config) \div 2

majority(config) == Cardinality(config) \div 2 + 1

TermAt(log, slot) == IF slot = 0 THEN 0 ELSE log[slot].term
LastTerm(log)     == TermAt(log, Len(log))

at_least_by_term(last_term, last_index, log) == last_term >= LastTerm(log)

at_least_as_up_to_date(last_term, last_index, log) ==
    \/ last_term > LastTerm(log)
    \/ last_term = LastTerm(log) /\ last_index >= Len(log)

\* The largest number of a set of naturals, 0 of the empty set.
Top(S) == IF S = {} THEN 0 ELSE CHOOSE k \in S : \A j \in S : j <= k

\* The i-th member of a config in id order.
nth(config, i) ==
    CHOOSE p \in config : Cardinality({q \in config : q < p}) = i - 1
-----------------------------------------------------------------------------
(* Stages 7 and 9: the image on disk, and a membership at its commit.      *)

init(ids) == [role |-> "follower", term |-> 0, voted_for |-> Nobody,
              log |-> <<>>, commit_index |-> 0, config |-> ids,
              elapsed |-> 0, votes |-> {}, matched |-> NoRow,
              next_index |-> NoRow]

persist(s) == [term |-> s.term, voted_for |-> s.voted_for, log |-> s.log,
               commit_index |-> s.commit_index, config |-> s.config]

recover_uncommitted(image) ==
    [init(image.config) EXCEPT
        !.term = image.term, !.voted_for = image.voted_for, !.log = image.log]

recover(image) ==
    [init(image.config) EXCEPT
        !.term = image.term, !.voted_for = image.voted_for,
        !.log = image.log, !.commit_index = image.commit_index]

\* The committed slots that hold a "members:" command.
MemberSlots(s) ==
    {i \in 1..s.commit_index : "members" \in DOMAIN s.log[i].cmd}

\* The committed prefix ends in a membership: the config becomes it, at once.
apply_committed(s) ==
    IF MemberSlots(s) = {} THEN s
    ELSE [s EXCEPT !.config = s.log[Top(MemberSlots(s))].cmd.members]
-----------------------------------------------------------------------------
(* Stages 1 and 2: the vote and the election.                              *)

adopt_lower(s, term) ==
    IF term # s.term
    THEN [s EXCEPT !.term = term, !.voted_for = Nobody, !.elapsed = 0]
    ELSE s

\* A higher term is adopted before the vote is considered.
adopt(s, term) ==
    IF term > s.term
    THEN [s EXCEPT !.term = term, !.voted_for = Nobody, !.elapsed = 0]
    ELSE s

Grants_any_vote(s, m) ==
    /\ m.term >= s.term
    /\ at_least_as_up_to_date(m.last_term, m.last_index, s.log)

Grants(s, m) ==
    /\ m.term >= s.term
    /\ adopt(s, m.term).voted_for \in {Nobody, m.cand}
    /\ at_least_as_up_to_date(m.last_term, m.last_index, s.log)

grant_vote(s, m) ==
    follower([adopt(s, m.term) EXCEPT
                 !.voted_for = IF Grants(s, m) THEN m.cand ELSE @])

\* A leader or candidate denies a request at its term or below, unchanged.
Contends(s, m) == s.role # "follower" /\ m.term <= s.term

recv_request_vote(s, m) == IF Contends(s, m) THEN s ELSE grant_vote(s, m)

vote_reply(n, s, m) ==
    [kind |-> "VOTE_REPLY", term |-> recv_request_vote(s, m).term,
     node |-> n, cand |-> m.cand, granted |-> ~Contends(s, m) /\ Grants(s, m)]

\* A new term, voted for by its own candidate; `votes` fills with the replies.
start_election(n, s) ==
    [s EXCEPT !.role = "candidate", !.term = @ + 1, !.voted_for = n,
              !.elapsed = 0, !.votes = {}]

request_vote(n, s) ==
    [kind |-> "REQUEST_VOTE", term |-> s.term, cand |-> n,
     last_term |-> LastTerm(s.log), last_index |-> Len(s.log)]

Voters_denied(n, s, m) ==
    s.votes \cup {n} \cup
    {v \in s.config : v = m.node /\ m.cand = n /\ m.term = s.term}

\* The voters a candidate can count once this reply is in, itself included.
Voters(n, s, m) ==
    s.votes \cup {n} \cup
    {v \in s.config : v = m.node /\ m.granted /\ m.cand = n
                                 /\ m.term = s.term}

\* wire.leader keeps no vote: a leader's voted_for is None.
become_leader(n, s) ==
    [s EXCEPT !.role = "leader", !.voted_for = Nobody, !.elapsed = 0,
              !.votes = {},
              !.matched = NoRow,
              !.next_index = [p \in Node |-> IF p \in s.config \ {n}
                                            THEN Len(s.log) + 1 ELSE 0]]

Elects(n, s, m) ==
    /\ s.role = "candidate"
    /\ m.term <= s.term
    /\ Cardinality(Voters(n, s, m)) >= majority(s.config)

recv_vote_reply(n, s, m) ==
    IF s.role # "candidate" THEN s
    ELSE IF m.term > s.term
    THEN follower([s EXCEPT !.term = m.term, !.voted_for = Nobody])
    ELSE IF Elects(n, s, m) THEN become_leader(n, s)
    ELSE [s EXCEPT !.votes = Voters(n, s, m)]
-----------------------------------------------------------------------------
(* Stages 3, 4 and 10: a leader's appends and a follower's log.            *)

\* Where the leader sends from: a peer with no row is sent the tail.
NextOf(s, peer) ==
    IF s.next_index[peer] = 0 THEN Len(s.log) + 1 ELSE s.next_index[peer]

append(n, s, peer) ==
    LET next == NextOf(s, peer) IN
    [kind |-> "APPEND", term |-> s.term, sender |-> n,
     prev_term |-> TermAt(s.log, next - 1), prev_index |-> next - 1,
     entries |-> SubSeq(s.log, next, Len(s.log)),
     leader_commit |-> s.commit_index]

\* One APPEND per peer of the config, in the config's order.
broadcast(n, s) ==
    [i \in 1..Cardinality(s.config \ {n}) |->
        append(n, s, nth(s.config \ {n}, i))]

\* _prev_term finds the slot before every peer's next_index in the log.
Anchored(n, s) ==
    \A p \in s.config \ {n} : NextOf(s, p) <= Len(s.log) + 1

\* The sender is a stale leader, or a rival of this leader's own term.
Refuses(s, m) == m.term < s.term \/ (s.role = "leader" /\ m.term = s.term)

\* The prefix kept when the pair at prev_index disagrees: the suffix that
\* carries the leader's prev_term goes too.
Kept(log, m) ==
    Top({k \in 1..(m.prev_index - 1) : log[k].term # m.prev_term})

lesser(a, b) == IF a <= b THEN a ELSE b

reconcile_low(f, m) ==
    IF m.prev_index > Len(f.log) THEN f
    ELSE IF TermAt(f.log, m.prev_index) # m.prev_term /\ m.prev_index > 0
    THEN [f EXCEPT !.log = SubSeq(f.log, 1, Kept(f.log, m)),
                   !.commit_index = lesser(@, Kept(f.log, m) - 1)]
    ELSE [f EXCEPT !.log = SubSeq(f.log, 1, m.prev_index) \o m.entries]

reconcile_unmatched(f, m) ==
    IF m.prev_index > Len(f.log) THEN f
    ELSE LET log2 == SubSeq(f.log, 1, m.prev_index) \o m.entries IN
         [f EXCEPT !.log = log2,
                   !.commit_index = IF m.leader_commit > @
                                    THEN lesser(m.leader_commit, Len(log2))
                                    ELSE @]

\* The log and the commit line after an APPEND the follower does not refuse.
reconcile(f, m) ==
    IF m.prev_index > Len(f.log) THEN f
    ELSE IF TermAt(f.log, m.prev_index) # m.prev_term /\ m.prev_index > 0
    THEN [f EXCEPT !.log = SubSeq(f.log, 1, Kept(f.log, m)),
                   !.commit_index = lesser(@, Kept(f.log, m))]
    ELSE LET log2 == SubSeq(f.log, 1, m.prev_index) \o m.entries IN
         [f EXCEPT !.log = log2,
                   !.commit_index = IF m.leader_commit > @
                                    THEN lesser(m.leader_commit, Len(log2))
                                    ELSE @]

stand_down_late(s, m) ==
    LET a == adopt(s, m.term) IN
    [follower(a) EXCEPT !.voted_for = IF @ = Nobody THEN m.sender ELSE @]

\* A term's leader heard: stand down, restart the timer, and take the sender
\* for this term's vote when none is cast.
stand_down(s, m) ==
    LET a == adopt(s, m.term) IN
    [follower(a) EXCEPT !.elapsed = 0,
                        !.voted_for = IF @ = Nobody THEN m.sender ELSE @]

handle_append(s, m) ==
    IF Refuses(s, m) THEN s ELSE reconcile(stand_down(s, m), m)

recv_append(s, m) == apply_committed(handle_append(s, m))

\* Accepting or refusing, a reply names the replier's own last slot.
append_reply(n, s, m) ==
    LET f == handle_append(s, m) IN
    [kind |-> "APPEND_REPLY", term |-> f.term, node |-> n,
     matched |-> Len(f.log), conflict |-> Len(f.log) + 1,
     leader |-> m.sender]
-----------------------------------------------------------------------------
(* Stages 3, 5, 6 and 10: a leader reading its peers' answers.             *)

Held_short(n, s, i) ==
    1 + Cardinality({p \in s.config \ {n} : s.matched[p] + 1 >= i})
        >= majority(s.config)

\* An own-term slot that the matched rows place on a majority.
Held(n, s, i) ==
    1 + Cardinality({p \in s.config \ {n} : s.matched[p] >= i})
        >= majority(s.config)

\* Only own-term slots count, and none above an own-term slot not held.
advance_commit(n, s) ==
    LET own == {i \in (s.commit_index + 1)..Len(s.log) :
                    s.log[i].term = s.term}
        won == {i \in own : \A j \in own : j <= i => Held(n, s, j)}
    IN  IF won = {} THEN s ELSE [s EXCEPT !.commit_index = Top(won)]

advance(n, s) == apply_committed(advance_commit(n, s))

\* The peer once answered at the commit line and now answers below that.
same_term_stale(s, m) ==
    /\ m.term = s.term
    /\ m.matched < s.matched[m.node]
    /\ s.matched[m.node] >= s.commit_index

observe_reply_past(s, m) ==
    IF m.term < s.term \/ s.next_index[m.node] = 0 THEN s
    ELSE [s EXCEPT !.matched[m.node] = m.matched,
                   !.next_index[m.node] = m.conflict + 1]

observe_reply_swapped(s, m) ==
    IF m.term < s.term \/ s.next_index[m.node] = 0 THEN s
    ELSE [s EXCEPT !.matched[m.node] = m.conflict,
                   !.next_index[m.node] = m.conflict]

observe_reply_stuck(s, m) ==
    IF m.term < s.term \/ s.next_index[m.node] = 0 THEN s
    ELSE [s EXCEPT !.matched[m.node] = m.matched]

observe_reply(s, m) ==
    IF m.term < s.term \/ s.next_index[m.node] = 0 THEN s
    ELSE [s EXCEPT !.matched[m.node] = m.matched,
                   !.next_index[m.node] = m.conflict]

recv_append_reply(n, s, m) ==
    IF s.role # "leader" THEN s
    ELSE IF m.term > s.term
    THEN follower([s EXCEPT !.term = m.term, !.elapsed = 0])
    ELSE IF same_term_stale(s, m) THEN follower([s EXCEPT !.elapsed = 0])
    ELSE advance(n, observe_reply(s, m))
-----------------------------------------------------------------------------
(* Stage 10: the clock and the client.                                     *)

Beats(s)      == s.role = "leader" /\ s.elapsed + 1 >= Heartbeat
TimesOut(n, s) == s.role # "leader" /\ s.elapsed + 1 >= Timeout[n]

tick(n, s) ==
    IF Beats(s) THEN [s EXCEPT !.elapsed = 0]
    ELSE IF TimesOut(n, s) THEN start_election(n, s)
    ELSE [s EXCEPT !.elapsed = @ + 1]

\* A candidate with no peer in its config asks nobody.
tick_out(n, s) ==
    IF Beats(s) THEN broadcast(n, s)
    ELSE IF TimesOut(n, s) /\ s.config \ {n} # {}
    THEN <<request_vote(n, tick(n, s))>>
    ELSE <<>>

\* A write or a membership, appended by a leader.
client_submit(s, cmd) ==
    [s EXCEPT !.log = Append(@, [term |-> s.term, cmd |-> cmd])]

client(n, s, cmd) == advance(n, client_submit(s, cmd))

Applied_early(s) ==
    {i \in 1..Len(s.log) : "write" \in DOMAIN s.log[i].cmd}

\* The slots of the writes in the committed prefix, over which a read folds.
Applied(s) ==
    {i \in 1..s.commit_index : "write" \in DOMAIN s.log[i].cmd}
=============================================================================
