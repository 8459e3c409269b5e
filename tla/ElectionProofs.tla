---------------------------- MODULE ElectionProofs ----------------------------
(***************************************************************************)
(* What elections give, for every cluster size, timeout and schedule.      *)
(* Under a fixed membership, the condition MCswap shows the program needs: *)
(* no two live nodes lead in one term, and a leader answers reads only     *)
(* from what was noted as committed; no term ever has two leaders unless a *)
(* leader resigns.  Under any memberships: logs match as long as no term   *)
(* has had two leaders, and a slot has one command if, besides, commits    *)
(* stay with a majority.                                                   *)
(***************************************************************************)
EXTENDS DurabilityProofs

(* The invariant.                                                          *)

\* No membership is applied where none is submitted.
ConfigFixed == \A n \in Node : node[n].config = Node /\ disk[n].config = Node

ElectionInv == /\ TypeInv /\ Durable
               /\ ConfigFixed /\ BallotsBind /\ BallotsCounted

\* The voters of a candidate in a term.
Supporters(term, c) == {v \in Node : Voted(term, v, c)}

\* A message that claims a ballot claims one that was cast.
Genuine(m, ballots) ==
    m.kind = "VOTE_REPLY" /\ m.granted
    => [term |-> m.term, voter |-> m.node, cand |-> m.cand] \in ballots
-----------------------------------------------------------------------------
(* Two leaders of one term would share a voter.                            *)

\* More than half of a set, twice, is more than all of it.
LEMMA MajoritiesMeet ==
    ASSUME NEW S \in SUBSET Node, NEW T \in SUBSET Node,
           Cardinality(S) >= majority(Node), Cardinality(T) >= majority(Node)
    PROVE  S \cap T # {}
<1> DEFINE N == Cardinality(Node)
<1>1. /\ IsFiniteSet(Node) /\ N \in Nat
      /\ Cardinality(S) \in Nat /\ Cardinality(T) \in Nat
  BY NodeAssumption, FS_Subset, FS_CardinalityType
<1>2. N \div 2 \in Nat /\ N < 2 * (N \div 2 + 1)
  BY <1>1
<1>3. Cardinality(S) + Cardinality(T) > N
  BY <1>1, <1>2 DEF majority
<1> QED BY <1>1, <1>3, FS_MajoritiesIntersect

\* A term's live leader is the only one: a common voter voted for both, so it
\* is one of them, and a live contender votes for nobody else.
LEMMA BallotsElectOne == ElectionInv => OneLeaderAtATime
<1> SUFFICES ASSUME ElectionInv, NEW a \in Node, NEW b \in Node,
                    Leads(a), Leads(b), node[a].term = node[b].term
             PROVE  a = b
  BY DEF OneLeaderAtATime
<1> DEFINE t == node[a].term
<1>1. /\ a \in up /\ node[a].role = "leader"
      /\ b \in up /\ node[b].role = "leader"
  BY DEF Leads
<1>2. /\ Cardinality(Supporters(t, a)) >= majority(Node)
      /\ Cardinality(Supporters(t, b)) >= majority(Node)
  BY <1>1 DEF ElectionInv, BallotsCounted, Supporters
<1>3. PICK v \in Node : Voted(t, v, a) /\ Voted(t, v, b)
  BY <1>2, MajoritiesMeet DEF Supporters
<1> DEFINE x == [term |-> t, voter |-> v, cand |-> a]
           y == [term |-> t, voter |-> v, cand |-> b]
<1>4. x \in cast /\ y \in cast
  BY <1>3 DEF Voted
<1>5. x.cand = y.cand \/ x.voter \in {x.cand, y.cand}
  BY <1>4, Zenon DEF ElectionInv, BallotsBind
<1>6. ASSUME NEW n \in {a, b}, NEW z \in {x, y}, v = n
      PROVE  z.cand = n
  <2>1. node[n].role # "follower" /\ n \in up /\ z.term = node[n].term
    BY <1>1, <1>6
  <2>2. disk[n].term = node[n].term
    <3>1. disk[n] = persist(node[n])
      BY <2>1 DEF ElectionInv, Durable, DiskIsCurrent
    <3> QED BY <3>1 DEF persist
  <2>3. z \in cast /\ z.voter = n
    BY <1>4, <1>6
  <2> QED BY <2>1, <2>2, <2>3 DEF ElectionInv, BallotsBind
<1>7. CASE a # b
  <2>1. v = a \/ v = b
    BY <1>5, <1>7
  <2>2. CASE v = a
    BY <1>6, <2>2, y.cand = a
  <2>3. CASE v = b
    BY <1>6, <2>3, x.cand = b
  <2> QED BY <2>1, <2>2, <2>3
<1> QED BY <1>7
-----------------------------------------------------------------------------
(* The messages under way.                                                 *)

\* The envelopes of a queue, and their messages, in whatever order.
Letters(q) == {q[i] : i \in 1..Len(q)}
Says(q) == {e.msg : e \in Letters(q)}

\* Appending to a queue adds only the new envelopes.
LEMMA LettersConcat ==
    ASSUME NEW q \in Seq(Envelope), NEW r \in Seq(Envelope)
    PROVE  Letters(q \o r) \subseteq Letters(q) \cup Letters(r)
<1> SUFFICES ASSUME NEW i \in 1..Len(q \o r)
             PROVE  (q \o r)[i] \in Letters(q) \cup Letters(r)
  BY DEF Letters
<1>1. Len(q) \in Nat /\ Len(r) \in Nat /\ Len(q \o r) = Len(q) + Len(r)
  OBVIOUS
<1>2. CASE i <= Len(q)
  <2>1. (q \o r)[i] = q[i] /\ i \in 1..Len(q)
    BY <1>1, <1>2
  <2> QED BY <2>1 DEF Letters
<1>3. CASE i > Len(q)
  <2>1. (q \o r)[i] = r[i - Len(q)] /\ i - Len(q) \in 1..Len(r)
    BY <1>1, <1>3
  <2> QED BY <2>1 DEF Letters
<1> QED BY <1>1, <1>2, <1>3

\* The same letter, to no more readers.
Copies(e, d) == e.from = d.from /\ e.msg = d.msg /\ e.to \subseteq d.to

\* A delivery leaves what was pending, to fewer readers.
LEMMA LettersRest ==
    ASSUME pending \in Seq(Envelope), pending # << >>, NEW n \in Node
    PROVE  \A e \in Letters(Rest(Head(pending), n)) :
               \E d \in Letters(pending) : Copies(e, d)
<1> DEFINE d == Head(pending)
           x == [d EXCEPT !.to = @ \ {n}]
<1>1. /\ d \in Envelope /\ Tail(pending) \in Seq(Envelope)
      /\ d = pending[1] /\ Len(pending) \in Nat /\ Len(pending) # 0
      /\ Len(Tail(pending)) = Len(pending) - 1
      /\ \A i \in 1..Len(Tail(pending)) : Tail(pending)[i] = pending[i + 1]
  OBVIOUS
<1>2. Letters(Tail(pending)) \subseteq Letters(pending)
  <2> SUFFICES ASSUME NEW i \in 1..Len(Tail(pending))
               PROVE  Tail(pending)[i] \in Letters(pending)
    BY DEF Letters
  <2>1. i + 1 \in 1..Len(pending)
    BY <1>1
  <2> QED BY <1>1, <2>1 DEF Letters
<1>3. d \in Letters(pending)
  <2>1. 1 \in 1..Len(pending)
    BY <1>1
  <2> QED BY <1>1, <2>1 DEF Letters
<1>4. x \in Envelope /\ Copies(x, d)
  BY <1>1 DEF Envelope, Copies
<1>5. Rest(d, n) = (IF d.to = {n} THEN << >> ELSE <<x>>) \o Tail(pending)
  BY DEF Rest
<1> HIDE DEF d, x
<1>6. /\ << >> \in Seq(Envelope) /\ <<x>> \in Seq(Envelope)
      /\ Letters(<< >>) = {} /\ Letters(<<x>>) = {x}
  <2>1. <<x>> \in Seq(Envelope) /\ Len(<<x>>) = 1 /\ <<x>>[1] = x
    BY <1>4
  <2>2. Letters(<<x>>) = {x}
    BY <2>1 DEF Letters
  <2> QED BY <2>1, <2>2 DEF Letters
<1>7. Letters(Rest(d, n)) \subseteq {x} \cup Letters(pending)
  <2>1. CASE d.to = {n}
    BY <1>1, <1>2, <1>5, <1>6, <2>1, LettersConcat
  <2>2. CASE d.to # {n}
    BY <1>1, <1>2, <1>5, <1>6, <2>2, LettersConcat
  <2> QED BY <2>1, <2>2
<1>8. \A e \in Letters(pending) : Copies(e, e)
  BY DEF Copies
<1> QED BY <1>3, <1>4, <1>7, <1>8 DEF d

\* What a reply's messages are queued as.
LEMMA LettersQueue ==
    ASSUME NEW n \in Node, NEW out \in Seq(Message)
    PROVE  \A e \in Letters(queue(n, out)) : \E i \in 1..Len(out) :
               e = [from |-> n, to |-> addressees(n, out[i]), msg |-> out[i]]
<1> DEFINE sent == [i \in 1..Len(out) |->
                       [from |-> n, to |-> addressees(n, out[i]),
                        msg |-> out[i]]]
<1>1. queue(n, out) \in {sent, << >>}
  BY DEF queue
<1>2. Len(sent) = Len(out) /\ \A i \in 1..Len(out) :
          sent[i] = [from |-> n, to |-> addressees(n, out[i]), msg |-> out[i]]
  <2>1. Len(out) \in Nat /\ DOMAIN sent = 1..Len(out)
    OBVIOUS
  <2> QED BY <2>1
<1> HIDE DEF sent
<1>3. Letters(sent) \subseteq {sent[i] : i \in 1..Len(out)}
  BY <1>2 DEF Letters
<1>4. Letters(<< >>) = {}
  BY DEF Letters
<1>5. TAKE e \in Letters(queue(n, out))
<1>6. e \in Letters(sent)
  BY <1>1, <1>4, <1>5
<1>7. PICK i \in 1..Len(out) : e = sent[i]
  BY <1>3, <1>6
<1> QED BY <1>2, <1>7

\* Appending to a queue adds only the new messages.
LEMMA SaysConcat ==
    ASSUME NEW q \in Seq(Envelope), NEW r \in Seq(Envelope)
    PROVE  Says(q \o r) \subseteq Says(q) \cup Says(r)
BY LettersConcat DEF Says

\* A delivery adds no message to what was pending.
LEMMA SaysRest ==
    ASSUME pending \in Seq(Envelope), pending # << >>, NEW n \in Node
    PROVE  Says(Rest(Head(pending), n)) \subseteq Says(pending)
<1> SUFFICES ASSUME NEW e \in Letters(Rest(Head(pending), n))
             PROVE  e.msg \in Says(pending)
  BY DEF Says
<1>1. PICK d \in Letters(pending) : Copies(e, d)
  BY LettersRest
<1> QED BY <1>1 DEF Says, Copies

\* Queueing a reply's messages adds those messages.
LEMMA SaysQueue ==
    ASSUME NEW n \in Node, NEW out \in Seq(Message)
    PROVE  \A m \in Says(queue(n, out)) : \E i \in 1..Len(out) : m = out[i]
<1> SUFFICES ASSUME NEW e \in Letters(queue(n, out))
             PROVE  \E i \in 1..Len(out) : e.msg = out[i]
  BY DEF Says
<1>1. PICK i \in 1..Len(out) :
          e = [from |-> n, to |-> addressees(n, out[i]), msg |-> out[i]]
  BY LettersQueue
<1> QED BY <1>1

\* No ballot is ever withdrawn.
LEMMA CastGrows ==
    ASSUME TypeInv, Durable, [Next]_vars PROVE cast \subseteq cast'
<1>1. ASSUME NEW n \in Node, Crash(n) \/ Restart(n) PROVE cast' = cast
  BY <1>1 DEF Crash, Restart, record
<1> QED BY Transitions, <1>1

\* Every vote reply that joins the queue claims a ballot cast by then.
LEMMA RepliesGenuine ==
    ASSUME TypeInv, Durable, [Next]_vars,
           \A m \in Says(pending) : Genuine(m, cast)
    PROVE  \A m \in Says(pending') : Genuine(m, cast')
<1>1. \A m \in Says(pending) : Genuine(m, cast')
  BY CastGrows DEF Genuine
<1>2. pending \in Seq(Envelope) /\ up \in SUBSET Node
  BY DEF TypeInv, TypeOK
<1>3. Says(<< >>) = {}
  BY DEF Says, Letters
<1>4. ASSUME NEW n \in Node, NEW out \in Seq(Message),
             \A i \in 1..Len(out) : out[i].kind # "VOTE_REPLY"
      PROVE  \A m \in Says(queue(n, out)) : Genuine(m, cast')
  BY <1>4, SaysQueue DEF Genuine
<1>5. ASSUME NEW n \in Node, NEW s, Sound(s), Anchored(n, s)
      PROVE  /\ broadcast(n, s) \in Seq(Message)
             /\ \A i \in 1..Len(broadcast(n, s)) :
                   broadcast(n, s)[i].kind # "VOTE_REPLY"
  <2> DEFINE out == broadcast(n, s)
  <2>1. out \in Seq(AppendMsg)
    BY <1>5, BroadcastType
  <2> HIDE DEF out
  <2>2. \A i \in 1..Len(out) : out[i] \in AppendMsg
    BY <2>1
  <2>3. \A m \in AppendMsg : m.kind # "VOTE_REPLY"
    BY DEF AppendMsg
  <2>4. out \in Seq(Message)
    BY <2>1 DEF Message
  <2> QED BY <2>2, <2>3, <2>4 DEF out
<1>6. CASE UNCHANGED pending
  BY <1>1, <1>6
<1>7. ASSUME NEW n \in Node, NEW cmd \in Command, Submit(n, cmd)
      PROVE  \A m \in Says(pending') : Genuine(m, cast')
  <2> DEFINE s == client(n, node[n], cmd)
  <2>1. Sound(s)
    BY NodeSound, ClientType
  <2>2. \/ Anchored(n, s) /\ pending' = queue(n, broadcast(n, s))
        \/ pending' = pending
    BY <1>7 DEF Submit
  <2> HIDE DEF s
  <2> QED BY <1>4, <1>5, <1>6, <2>1, <2>2
<1>8. ASSUME NEW n \in Node, NodeTick(n)
      PROVE  \A m \in Says(pending') : Genuine(m, cast')
  <2>1. CASE Beats(node[n]) /\ ~Anchored(n, node[n])
    <3>1. Raises
      BY <1>8, <2>1, Zenon DEF NodeTick
    <3> QED BY <1>6, <3>1 DEF Raises
  <2>2. CASE ~(Beats(node[n]) /\ ~Anchored(n, node[n]))
    <3> DEFINE out == tick_out(n, node[n])
    <3>1. pending' = pending \o queue(n, out)
      BY <1>8, <2>2, Zenon DEF NodeTick
    <3>2. Sound(node[n])
      BY NodeSound
    <3>3. out \in Seq(Message)
      BY <2>2, <3>2, TickOutType
    <3>4. \A i \in 1..Len(out) : out[i].kind # "VOTE_REPLY"
      <4>1. CASE Beats(node[n])
        BY <1>5, <2>2, <3>2, <4>1 DEF tick_out
      <4>2. CASE ~Beats(node[n])
        BY <4>2 DEF tick_out, request_vote
      <4> QED BY <4>1, <4>2
    <3> HIDE DEF out
    <3>5. queue(n, out) \in Seq(Envelope)
      BY <1>2, <3>3, QueueType
    <3> QED BY <1>1, <1>2, <1>4, <3>1, <3>3, <3>4, <3>5, SaysConcat
  <2> QED BY <2>1, <2>2
<1>9. CASE Deliver
  <2> DEFINE e == Head(pending)
  <2>1. PICK n \in Node : \/ Drop(e, n) \/ DeliverRequestVote(e, n)
                          \/ DeliverVoteReply(e, n) \/ DeliverAppend(e, n)
                          \/ DeliverAppendReply(e, n)
    BY <1>9 DEF Deliver
  <2>2. /\ e.msg \in Message /\ Rest(e, n) \in Seq(Envelope)
        /\ \A m \in Says(Rest(e, n)) : Genuine(m, cast')
    <3>1. pending # << >>
      BY <1>9 DEF Deliver
    <3>2. e \in Envelope /\ Rest(e, n) \in Seq(Envelope)
      BY <1>2, <3>1, RestType
    <3>3. Says(Rest(e, n)) \subseteq Says(pending)
      BY <1>2, <3>1, SaysRest
    <3> HIDE DEF e
    <3> QED BY <1>1, <3>2, <3>3 DEF Envelope
  <2>3. Sound(node[n])
    BY NodeSound
  <2> HIDE DEF e
  <2>4. ASSUME NEW t, NEW out \in Seq(Message), Receives(e, n, t, out),
               \A m \in Says(queue(n, out)) : Genuine(m, cast')
        PROVE  \A m \in Says(pending') : Genuine(m, cast')
    <3>1. pending' = Rest(e, n) \o queue(n, out)
      BY <2>4 DEF Receives
    <3>2. queue(n, out) \in Seq(Envelope)
      BY <1>2, <2>4, QueueType
    <3> QED BY <2>2, <2>4, <3>1, <3>2, SaysConcat
  <2>5. CASE Drop(e, n)
    BY <2>2, <2>5 DEF Drop
  <2>6. CASE DeliverRequestVote(e, n)
    <3> DEFINE t == recv_request_vote(node[n], e.msg)
               r == vote_reply(n, node[n], e.msg)
    <3>1. e.msg \in RequestVoteMsg
      BY <2>2, <2>6, KindType DEF DeliverRequestVote, Arrives
    <3>2. /\ Receives(e, n, t, <<r>>)
          /\ cast' = cast \cup
                (IF r.granted
                 THEN {[term |-> r.term, voter |-> n, cand |-> r.cand]}
                 ELSE {})
      BY <2>6, Zenon DEF DeliverRequestVote
    <3>3. r \in VoteReplyMsg /\ r.node = n
      BY <2>3, <3>1, VoteReplyType, RequestVotes
    <3> HIDE DEF t, r
    <3>4. Genuine(r, cast')
      BY <3>2, <3>3 DEF Genuine
    <3>5. <<r>> \in Seq(Message) /\ Len(<<r>>) = 1 /\ <<r>>[1] = r
      BY <3>3 DEF Message
    <3>6. \A m \in Says(queue(n, <<r>>)) : m = r
      <4> DEFINE out == <<r>>
      <4>1. \A m \in Says(queue(n, out)) : \E i \in 1..Len(out) : m = out[i]
        BY <3>5, SaysQueue
      <4> QED BY <3>5, <4>1
    <3> QED BY <2>4, <3>2, <3>4, <3>5, <3>6
  <2>7. CASE DeliverVoteReply(e, n)
    <3> DEFINE t == recv_vote_reply(n, node[n], e.msg)
               out == IF Elects(n, node[n], e.msg)
                      THEN broadcast(n, t) ELSE << >>
    <3>1. e.msg \in VoteReplyMsg
      BY <2>2, <2>7, KindType DEF DeliverVoteReply, Arrives
    <3>2. Receives(e, n, t, out)
      BY <2>7, Zenon DEF DeliverVoteReply
    <3>3. Sound(t)
      BY <2>3, <3>1, TallyType
    <3>4. Elects(n, node[n], e.msg) => Anchored(n, t)
      <4>1. node[n].term \in Nat /\ e.msg.term \in Nat
        BY <2>3, <3>1 DEF Sound, State, VoteReplyMsg
      <4>2. Elects(n, node[n], e.msg) => t = become_leader(n, node[n])
        BY <4>1 DEF Elects, recv_vote_reply
      <4> QED BY <2>3, <4>2, LeaderType
    <3> HIDE DEF t
    <3>5. /\ out \in Seq(Message)
          /\ \A i \in 1..Len(out) : out[i].kind # "VOTE_REPLY"
      BY <1>5, <3>3, <3>4
    <3> HIDE DEF out
    <3> QED BY <1>4, <2>4, <3>2, <3>5
  <2>8. CASE DeliverAppend(e, n)
    <3> DEFINE t == recv_append(node[n], e.msg)
               r == append_reply(n, node[n], e.msg)
    <3>1. e.msg \in AppendMsg
      BY <2>2, <2>8, KindType DEF DeliverAppend, Arrives
    <3>2. CASE ~Builds(handle_append(node[n], e.msg))
      BY <1>6, <2>8, <3>2 DEF DeliverAppend, Raises
    <3>3. CASE Builds(handle_append(node[n], e.msg))
      <4>1. Receives(e, n, t, <<r>>)
        BY <2>8, <3>3, Zenon DEF DeliverAppend
      <4>2. r \in AppendReplyMsg
        BY <2>3, <3>1, <3>3, RecvAppendType
      <4> HIDE DEF t, r
      <4>3. <<r>> \in Seq(Message) /\ Len(<<r>>) = 1 /\ <<r>>[1] = r
        BY <4>2 DEF Message
      <4>4. \A i \in 1..Len(<<r>>) : <<r>>[i].kind # "VOTE_REPLY"
        BY <4>2, <4>3 DEF AppendReplyMsg
      <4> QED BY <1>4, <2>4, <4>1, <4>3, <4>4
    <3> QED BY <3>2, <3>3
  <2>9. CASE DeliverAppendReply(e, n)
    <3>1. Receives(e, n, recv_append_reply(n, node[n], e.msg), << >>)
      BY <2>9, Zenon DEF DeliverAppendReply
    <3>2. /\ << >> \in Seq(Message)
          /\ \A i \in 1..Len(<< >>) : << >>[i].kind # "VOTE_REPLY"
      OBVIOUS
    <3> QED BY <1>4, <2>4, <3>1, <3>2
  <2> QED BY <2>1, <2>5, <2>6, <2>7, <2>8, <2>9
<1>10. CASE \/ \E link \in Link : Cut(link)
            \/ Heal \/ BeginBeats \/ EndTick \/ Done
            \/ \E n \in Node : Crash(n) \/ Restart(n) \/ Read(n)
                               \/ SubmitRefused(n)
            \/ UNCHANGED vars
  BY <1>6, <1>10 DEF Cut, Heal, BeginBeats, EndTick, Done, Crash, Restart,
                     Read, SubmitRefused, vars, driver
<1> QED BY <1>7, <1>8, <1>9, <1>10 DEF Next, Schedule, Drive
-----------------------------------------------------------------------------
(* The ballots, step by step.                                              *)

\* A node's ballots as BallotsBind bounds them.
Bound(b, image, contends) ==
    /\ b.term <= image.term
    /\ b.term = image.term => b.cand \in {image.voted_for, b.voter}
    /\ contends /\ b.term = image.term => b.cand = b.voter

\* A live candidate or leader.
Contending(v) == v \in up /\ node[v].role # "follower"

\* The two halves of BallotsBind.
LEMMA BindHalves ==
    BallotsBind <=>
      /\ \A b \in cast : Bound(b, disk[b.voter], Contending(b.voter))
      /\ \A a, b \in cast :
            a.term = b.term /\ a.voter = b.voter
            => a.cand = b.cand \/ a.voter \in {a.cand, b.cand}
BY DEF BallotsBind, Bound, Contending

\* A live node's transition keeps every ballot bound.
LEMMA TransitBinds ==
    ASSUME ElectionInv, NEW n \in Node, NEW t, Transits(n, t),
           \/ Steady(node[n], t) /\ cast' = cast
           \/ /\ Stands(n, node[n], t)
              /\ cast' = cast \cup
                   {[term |-> t.term, voter |-> n, cand |-> n]}
           \/ \E c \in Node :
                 /\ VotesFor(node[n], t, c)
                 /\ cast' = cast \cup
                      {[term |-> t.term, voter |-> n, cand |-> c]}
           \/ \E m : /\ Counts(n, node[n], t, m) \/ Wins(n, node[n], t, m)
                     /\ cast' = cast
    PROVE  BallotsBind'
<1> DEFINE s == node[n]
<1>1. /\ node'[n] = t /\ disk'[n] = persist(t) /\ disk[n] = persist(s)
      /\ \A p \in Node \ {n} : node'[p] = node[p] /\ disk'[p] = disk[p]
      /\ n \in up /\ up' = up
  BY SavedState DEF ElectionInv
<1>2. /\ disk[n].term = s.term /\ disk[n].voted_for = s.voted_for
      /\ disk'[n].term = t.term /\ disk'[n].voted_for = t.voted_for
  BY <1>1 DEF persist
<1>3. /\ s.term \in Nat /\ t.term \in Nat
      /\ s.voted_for \in Node \cup {Nobody}
  BY DEF Transits, Sound, State, ElectionInv, TypeInv, TypeOK
<1>4. \A b \in cast : b.term \in Nat /\ b.voter \in Node /\ b.cand \in Node
                      /\ b.cand # Nobody
  BY NodeAssumption DEF ElectionInv, TypeInv, TypeOK, Ballot, Nobody
<1>5. \A b \in cast : Bound(b, disk[b.voter], Contending(b.voter))
  BY BindHalves DEF ElectionInv
<1>6. \A b \in cast : b.voter # n
          => Bound(b, disk'[b.voter], Contending(b.voter)')
  BY <1>1, <1>4, <1>5 DEF Contending
<1>7. \A b \in cast : b.voter = n =>
          /\ b.term <= s.term
          /\ b.term = s.term => b.cand \in {s.voted_for, n}
          /\ s.role # "follower" /\ b.term = s.term => b.cand = n
  BY <1>1, <1>2, <1>5 DEF Bound, Contending
<1>8. \A a, b \in cast :
          a.term = b.term /\ a.voter = b.voter
          => a.cand = b.cand \/ a.voter \in {a.cand, b.cand}
  BY BindHalves DEF ElectionInv
<1>9. ASSUME \A b \in cast : b.voter = n =>
                 /\ b.term <= t.term
                 /\ b.term = t.term => b.cand \in {t.voted_for, n}
                 /\ t.role # "follower" /\ b.term = t.term => b.cand = n
      PROVE  \A b \in cast : Bound(b, disk'[b.voter], Contending(b.voter)')
  BY <1>1, <1>2, <1>4, <1>6, <1>9 DEF Bound, Contending
<1>10. ASSUME cast' = cast,
              \A b \in cast : Bound(b, disk'[b.voter], Contending(b.voter)')
       PROVE  BallotsBind'
  BY <1>8, <1>10 DEF BallotsBind, Bound, Contending
<1> HIDE DEF s
<1>11. CASE Steady(s, t) /\ cast' = cast
  BY <1>3, <1>4, <1>7, <1>9, <1>10, <1>11 DEF Steady
<1>12. ASSUME NEW m, Counts(n, s, t, m) \/ Wins(n, s, t, m), cast' = cast
       PROVE  BallotsBind'
  <2>1. /\ t.term = s.term /\ s.role = "candidate"
        /\ t.voted_for \in {s.voted_for, Nobody}
    BY <1>12 DEF Counts, Wins
  <2> QED BY <1>3, <1>4, <1>7, <1>9, <1>10, <1>12, <2>1
<1>13. ASSUME NEW c \in Node,
              cast' = cast \cup {[term |-> t.term, voter |-> n, cand |-> c]},
              t.voted_for = c, t.role # "follower" => c = n,
              \A b \in cast : b.voter = n =>
                 /\ b.term <= t.term
                 /\ b.term = t.term => b.cand \in {c, n}
                 /\ t.role # "follower" /\ b.term = t.term => b.cand = n
       PROVE  BallotsBind'
  <2> DEFINE new == [term |-> t.term, voter |-> n, cand |-> c]
  <2>1. \A b \in cast : Bound(b, disk'[b.voter], Contending(b.voter)')
    BY <1>9, <1>13
  <2>2. Bound(new, disk'[n], Contending(n)')
    BY <1>1, <1>2, <1>3, <1>13 DEF Bound, Contending
  <2>3. \A b \in cast : b.voter = n /\ b.term = t.term
            => b.cand = c \/ n \in {b.cand, c}
    BY <1>13
  <2>4. new.term = t.term /\ new.voter = n /\ new.cand = c
    OBVIOUS
  <2> HIDE DEF new
  <2>5. cast' = cast \cup {new}
    BY <1>13 DEF new
  <2>6. \A b \in cast' : Bound(b, disk'[b.voter], Contending(b.voter)')
    BY <2>1, <2>2, <2>4, <2>5
  <2>7. \A a, b \in cast' :
            a.term = b.term /\ a.voter = b.voter
            => a.cand = b.cand \/ a.voter \in {a.cand, b.cand}
    BY <1>8, <2>3, <2>4, <2>5
  <2> QED BY <2>6, <2>7 DEF BallotsBind, Bound, Contending
<1>14. CASE /\ Stands(n, s, t)
            /\ cast' = cast \cup {[term |-> t.term, voter |-> n, cand |-> n]}
  <2>1. /\ t.term = s.term + 1 /\ t.voted_for = n
    BY <1>14 DEF Stands
  <2>2. \A b \in cast : b.voter = n => b.term <= t.term /\ b.term # t.term
    BY <1>3, <1>4, <1>7, <2>1
  <2> QED BY <1>13, <1>14, <2>1, <2>2
<1>15. ASSUME NEW c \in Node, VotesFor(s, t, c),
              cast' = cast \cup {[term |-> t.term, voter |-> n, cand |-> c]}
       PROVE  BallotsBind'
  <2>1. t.role = "follower" /\ t.voted_for = c
    BY <1>15 DEF VotesFor
  <2>2. \A b \in cast : b.voter = n =>
            b.term <= t.term /\ (b.term = t.term => b.cand \in {c, n})
    BY <1>3, <1>4, <1>7, <1>15 DEF VotesFor
  <2> QED BY <1>13, <1>15, <2>1, <2>2
<1> QED BY <1>11, <1>12, <1>14, <1>15 DEF s

\* So do a crash and a restart: the disk keeps the vote, and a node comes back
\* a follower.
LEMMA FaultsBind ==
    ASSUME ElectionInv, NEW n \in Node, Crash(n) \/ Restart(n), cast' = cast
    PROVE  BallotsBind'
<1>1. disk' = disk
  BY FaultsKeepDisk DEF ElectionInv
<1>2. \A v \in Node : Contending(v)' => Contending(v)
  <2>1. CASE Crash(n)
    BY <2>1, FaultsKeepDisk DEF Contending, ElectionInv
  <2>2. CASE Restart(n)
    <3>1. /\ up' = up \cup {n} /\ node'[n] = recover(disk[n])
          /\ \A p \in up : node'[p] = node[p]
      BY <2>2, FaultsKeepDisk DEF ElectionInv
    <3>2. node'[n].role = "follower"
      BY <3>1 DEF recover, init
    <3> QED BY <3>1, <3>2 DEF Contending
  <2> QED BY <2>1, <2>2
<1>3. \A b \in cast : b.voter \in Node
  BY DEF ElectionInv, TypeInv, TypeOK, Ballot
<1>4. /\ \A b \in cast : Bound(b, disk[b.voter], Contending(b.voter))
      /\ \A a, b \in cast :
            a.term = b.term /\ a.voter = b.voter
            => a.cand = b.cand \/ a.voter \in {a.cand, b.cand}
  BY BindHalves DEF ElectionInv
<1>5. \A b \in cast : Bound(b, disk'[b.voter], Contending(b.voter)')
  BY <1>1, <1>2, <1>3, <1>4 DEF Bound
<1> QED BY <1>4, <1>5 DEF BallotsBind, Bound, Contending
-----------------------------------------------------------------------------
(* The counts, step by step.                                               *)

\* What a node's role says of the ballots.
Counted(n, s, ballots) ==
    /\ s.role = "candidate" =>
          \A v \in s.votes \cup {n} :
              [term |-> s.term, voter |-> v, cand |-> n] \in ballots
    /\ s.role = "leader" =>
          Cardinality({v \in Node :
              [term |-> s.term, voter |-> v, cand |-> n] \in ballots})
              >= majority(Node)

\* The two halves of BallotsCounted.
LEMMA CountedHalves ==
    BallotsCounted <=> /\ \A m \in Says(pending) : Genuine(m, cast)
                       /\ \A n \in up : Counted(n, node[n], cast)
BY DEF BallotsCounted, Says, Letters, Genuine, Counted, Voted

\* A majority is a number.
LEMMA MajorityType == majority(Node) \in Nat
<1>1. Cardinality(Node) \in Nat
  BY NodeAssumption, FS_CardinalityType
<1> QED BY <1>1 DEF majority

\* More ballots keep a node's count.
LEMMA CountGrows ==
    ASSUME NEW n \in Node, NEW s, NEW old, NEW new, old \subseteq new,
           Counted(n, s, old)
    PROVE  Counted(n, s, new)
<1> DEFINE S(ballots) == {v \in Node :
               [term |-> s.term, voter |-> v, cand |-> n] \in ballots}
<1>1. S(old) \in SUBSET S(new) /\ S(new) \in SUBSET Node
  OBVIOUS
<1>2. IsFiniteSet(S(new))
  BY <1>1, NodeAssumption, FS_Subset
<1>3. Cardinality(S(old)) <= Cardinality(S(new))
  BY <1>1, <1>2, FS_Subset
<1>4. /\ Cardinality(S(old)) \in Nat /\ Cardinality(S(new)) \in Nat
      /\ majority(Node) \in Nat
  <2>1. IsFiniteSet(S(old))
    BY <1>1, <1>2, FS_Subset
  <2> QED BY <1>2, <2>1, FS_CardinalityType, MajorityType
<1>5. s.role = "leader" => Cardinality(S(new)) >= majority(Node)
  <2>1. s.role = "leader" => Cardinality(S(old)) >= majority(Node)
    BY DEF Counted
  <2> HIDE DEF S
  <2> QED BY <1>3, <1>4, <2>1
<1> QED BY <1>5 DEF Counted

\* A live node's transition keeps its own count true.
LEMMA TransitCounts ==
    ASSUME ElectionInv, NEW n \in Node, NEW t, Transits(n, t),
           cast \subseteq cast',
           \/ Steady(node[n], t)
           \/ /\ Stands(n, node[n], t)
              /\ cast' = cast \cup
                   {[term |-> t.term, voter |-> n, cand |-> n]}
           \/ \E c \in Node : VotesFor(node[n], t, c)
           \/ \E i \in 1..Len(pending) :
                 /\ pending[i].msg \in VoteReplyMsg
                 /\ \/ Counts(n, node[n], t, pending[i].msg)
                    \/ Wins(n, node[n], t, pending[i].msg)
    PROVE  Counted(n, t, cast')
<1> DEFINE s == node[n]
<1>1. Counted(n, s, cast) /\ n \in up
  BY CountedHalves DEF ElectionInv, Transits
<1>2. Counted(n, s, cast')
  BY <1>1, CountGrows
<1>3. /\ s.config = Node /\ s.votes \subseteq Node
      /\ t.role \in {"follower", "candidate", "leader"}
  BY DEF ElectionInv, ConfigFixed, TypeInv, TypeOK, Transits, Sound, State
<1> HIDE DEF s
<1>4. CASE Steady(s, t)
  BY <1>2, <1>4 DEF Steady, Counted
<1>5. CASE /\ Stands(n, s, t)
           /\ cast' = cast \cup {[term |-> t.term, voter |-> n, cand |-> n]}
  BY <1>5 DEF Stands, Counted
<1>6. CASE \E c \in Node : VotesFor(s, t, c)
  BY <1>6 DEF VotesFor, Counted
<1>7. ASSUME NEW i \in 1..Len(pending), pending[i].msg \in VoteReplyMsg,
             \/ Counts(n, s, t, pending[i].msg)
             \/ Wins(n, s, t, pending[i].msg)
      PROVE  Counted(n, t, cast')
  <2> DEFINE m == pending[i].msg
  <2>1. Genuine(m, cast) /\ m.kind = "VOTE_REPLY"
    BY <1>7, CountedHalves DEF ElectionInv, Says, Letters, VoteReplyMsg
  <2>2. m.granted =>
            [term |-> m.term, voter |-> m.node, cand |-> m.cand] \in cast'
    BY <2>1 DEF Genuine
  <2> HIDE DEF m
  <2>3. s.role = "candidate" => \A v \in s.votes \cup {n} :
            [term |-> s.term, voter |-> v, cand |-> n] \in cast'
    BY <1>2 DEF Counted
  <2>4. CASE Counts(n, s, t, m)
    BY <2>2, <2>3, <2>4 DEF Counts, Counted
  <2>5. CASE Wins(n, s, t, m)
    <3> DEFINE S == {v \in Node :
                       [term |-> s.term, voter |-> v, cand |-> n] \in cast'}
    <3>1. Voters(n, s, m) \in SUBSET S
      BY <1>3, <2>2, <2>3, <2>5 DEF Wins, Voters
    <3>2. IsFiniteSet(S)
      BY NodeAssumption, FS_Subset
    <3> HIDE DEF S
    <3>3. /\ Cardinality(Voters(n, s, m)) <= Cardinality(S)
          /\ Cardinality(Voters(n, s, m)) \in Nat /\ Cardinality(S) \in Nat
          /\ majority(Node) \in Nat
      <4>1. /\ IsFiniteSet(Voters(n, s, m))
            /\ Cardinality(Voters(n, s, m)) <= Cardinality(S)
        BY <3>1, <3>2, FS_Subset
      <4> QED BY <3>2, <4>1, FS_CardinalityType, MajorityType
    <3>4. Cardinality(S) >= majority(Node)
      BY <1>3, <2>5, <3>3 DEF Wins
    <3> QED BY <2>5, <3>4 DEF Wins, Counted, S
  <2> QED BY <1>7, <2>4, <2>5 DEF m
<1> QED BY <1>4, <1>5, <1>6, <1>7 DEF s

\* Every step keeps the ballots bound.
LEMMA BindStep ==
    ASSUME ElectionInv, [Next]_vars PROVE BallotsBind'
<1>1. ASSUME UNCHANGED <<node, disk, up, cast>> PROVE BallotsBind'
  BY <1>1 DEF ElectionInv, BallotsBind
<1>2. TypeInv /\ Durable
  BY DEF ElectionInv
<1> QED BY <1>1, <1>2, Transitions, TransitBinds, FaultsBind

\* Every step keeps the counts true.
LEMMA CountStep ==
    ASSUME ElectionInv, [Next]_vars PROVE BallotsCounted'
<1>1. TypeInv /\ Durable /\ cast \subseteq cast' /\ up \subseteq Node
  BY CastGrows DEF ElectionInv, TypeInv, TypeOK
<1>2. /\ \A m \in Says(pending) : Genuine(m, cast)
      /\ \A n \in up : Counted(n, node[n], cast)
  BY CountedHalves DEF ElectionInv
<1>3. \A m \in Says(pending') : Genuine(m, cast')
  BY <1>1, <1>2, RepliesGenuine
<1>4. \A n \in up : Counted(n, node[n], cast')
  BY <1>1, <1>2, CountGrows
<1>5. ASSUME NEW n \in Node, NEW t, Transits(n, t), Counted(n, t, cast')
      PROVE  \A p \in up' : Counted(p, node'[p], cast')
  <2>1. /\ node'[n] = t /\ up' = up
        /\ \A p \in Node \ {n} : node'[p] = node[p]
    BY <1>1, <1>5, SavedState
  <2> QED BY <1>1, <1>4, <1>5, <2>1
<1>6. ASSUME NEW n \in Node, Crash(n)
      PROVE  \A p \in up' : Counted(p, node'[p], cast')
  BY <1>1, <1>4, <1>6, FaultsKeepDisk
<1>7. ASSUME NEW n \in Node, Restart(n)
      PROVE  \A p \in up' : Counted(p, node'[p], cast')
  <2>1. /\ up' = up \cup {n} /\ node'[n] = recover(disk[n])
        /\ \A p \in up : node'[p] = node[p]
    BY <1>1, <1>7, FaultsKeepDisk
  <2>2. node'[n].role = "follower"
    BY <2>1 DEF recover, init
  <2>3. Counted(n, node'[n], cast')
    BY <2>2 DEF Counted
  <2> QED BY <1>4, <2>1, <2>3
<1>8. ASSUME UNCHANGED <<node, disk, up, cast>>
      PROVE  \A p \in up' : Counted(p, node'[p], cast')
  BY <1>2, <1>8
<1>9. \A p \in up' : Counted(p, node'[p], cast')
  BY <1>1, <1>5, <1>6, <1>7, <1>8, Transitions, TransitCounts
<1>10. /\ \A i \in 1..Len(pending') :
              Genuine(pending'[i].msg, cast')
       /\ \A n \in up' : Counted(n, node'[n], cast')
  BY <1>3, <1>9 DEF Says, Letters
<1> QED BY <1>10 DEF BallotsCounted, Genuine, Counted, Voted

\* Every step keeps the config.
LEMMA ConfigStep ==
    ASSUME Fixed, ElectionInv, [Next]_vars PROVE ConfigFixed'
<1>1. TypeInv /\ Durable
  BY DEF ElectionInv
<1>2. \A n \in Node : node[n].config = Node /\ disk[n].config = Node
  BY DEF ElectionInv, ConfigFixed
<1>3. ASSUME NEW n \in Node, NEW t, Transits(n, t) PROVE ConfigFixed'
  <2>1. /\ node'[n] = t /\ disk'[n] = persist(t)
        /\ \A p \in Node \ {n} : node'[p] = node[p] /\ disk'[p] = disk[p]
    BY <1>1, <1>3, SavedState
  <2>2. t.config = Node
    BY <1>2, <1>3 DEF Transits
  <2>3. persist(t).config = t.config
    BY DEF persist
  <2> QED BY <1>2, <2>1, <2>2, <2>3 DEF ConfigFixed
<1>4. ASSUME NEW n \in Node, Crash(n) PROVE ConfigFixed'
  <2>1. disk' = disk
    BY <1>1, <1>4, FaultsKeepDisk
  <2>2. node' = [node EXCEPT ![n] = init(Node)] /\ init(Node).config = Node
    BY <1>4 DEF Crash, init
  <2> QED BY <1>1, <1>2, <2>1, <2>2 DEF ConfigFixed, TypeInv, TypeOK
<1>5. ASSUME NEW n \in Node, Restart(n) PROVE ConfigFixed'
  <2>1. disk' = disk /\ node' = [node EXCEPT ![n] = recover(disk[n])]
    BY <1>5 DEF Restart
  <2>2. recover(disk[n]).config = disk[n].config
    BY DEF recover, init
  <2> QED BY <1>1, <1>2, <2>1, <2>2 DEF ConfigFixed, TypeInv, TypeOK
<1>6. ASSUME UNCHANGED <<node, disk, up, cast>> PROVE ConfigFixed'
  BY <1>2, <1>6 DEF ConfigFixed
<1> QED BY <1>1, <1>3, <1>4, <1>5, <1>6, Transitions

\* The invariant holds at the start: no ballot is cast and nobody contends.
LEMMA ElectionInit == Init => ElectionInv
<1> SUFFICES ASSUME Init PROVE ElectionInv
  OBVIOUS
<1>1. TypeInv /\ Durable
  BY TypeInit, DurableInit
<1>2. ConfigFixed
  BY DEF Init, ConfigFixed, init, persist
<1>3. BallotsBind
  BY DEF Init, BallotsBind
<1>4. BallotsCounted
  <2>1. \A n \in Node : node[n].role = "follower"
    BY DEF Init, init
  <2> QED BY <2>1 DEF Init, BallotsCounted
<1> QED BY <1>1, <1>2, <1>3, <1>4 DEF ElectionInv

\* Every step keeps it.
LEMMA ElectionStep ==
    ASSUME Fixed PROVE ElectionInv /\ [Next]_vars => ElectionInv'
<1> SUFFICES ASSUME ElectionInv, [Next]_vars PROVE ElectionInv'
  OBVIOUS
<1>1. TypeInv' /\ Durable'
  BY TypeStep, DurableStep DEF ElectionInv
<1> QED BY <1>1, BindStep, CountStep, ConfigStep DEF ElectionInv

\* Under a fixed membership the ballots bind in every reachable state: at most
\* one of a voter's ballots in a term is for another node, and none of a live
\* contender's is.
THEOREM BallotsHold ==
    ASSUME Fixed PROVE Spec => [](BallotsBind /\ BallotsCounted)
<1>1. ElectionInv => BallotsBind /\ BallotsCounted
  BY DEF ElectionInv
<1> QED BY <1>1, ElectionInit, ElectionStep, PTL DEF Spec

\* Under a fixed membership no two live nodes ever lead in one term, although
\* a leader's disk forgets its vote.
THEOREM ElectionSafety ==
    ASSUME Fixed PROVE Spec => []OneLeaderAtATime
BY BallotsElectOne, ElectionInit, ElectionStep, PTL DEF Spec
-----------------------------------------------------------------------------
(* What a leader has committed was noted.  The invariant.                  *)

\* The own-term slots past the commit line, and those advance_commit would
\* take it to.
Own(s) == {i \in (s.commit_index + 1)..Len(s.log) : s.log[i].term = s.term}
Won(n, s) == {i \in Own(s) : \A j \in Own(s) : j <= i => Held(n, s, j)}

\* A leader's rows point into its log.
RowsFit(s) == \A p \in Node : /\ s.matched[p] <= Len(s.log)
                              /\ s.next_index[p] <= Len(s.log) + 1

\* A leader needs a peer's answer to commit, and has drawn every conclusion
\* from the answers it has.
Leading(n, s) == s.role = "leader" => /\ majority(Node) >= 2
                                      /\ RowsFit(s) /\ Won(n, s) = {}

Rows == \A n \in up : Leading(n, node[n])

\* A node that has ticked and lost or won no election since: it becomes a
\* leader no more before the next tick.
Past(q) == q \in up \ turn /\ node[q].role # "candidate"

\* What a message under way still has to do with the node that asked for it:
\* an APPEND lies within its sender's log while that leads, and so does every
\* answer to one.
Posted(e) ==
    LET m == e.msg IN
    /\ e.from \notin e.to
    /\ m.kind = "REQUEST_VOTE" => m.cand = e.from
    /\ m.kind = "APPEND" =>
          /\ m.sender = e.from /\ Past(e.from)
          /\ node[e.from].role = "leader" =>
                /\ m.term = node[e.from].term
                /\ m.prev_index + Len(m.entries) <= Len(node[e.from].log)
    /\ m.kind = "APPEND_REPLY" =>
          /\ e.to \subseteq {m.leader} /\ Past(m.leader)
          /\ m.conflict = m.matched + 1
          /\ node[m.leader].role = "leader" /\ m.term = node[m.leader].term
             => m.matched <= Len(node[m.leader].log)

Mail == \A e \in Letters(pending) : Posted(e)

\* No node's commit line, on its disk or live, is past what was noted.
Recorded == \A n \in Node : disk[n].commit_index <= Len(chosen)

LeaderInv == /\ ElectionInv /\ Mail /\ Rows
             /\ Recorded /\ ReadsAnswerCommitted
-----------------------------------------------------------------------------
(* The commit line of a leader.                                            *)

\* advance_commit leaves nothing to advance to, and moves only the line.
LEMMA AdvanceSettles ==
    ASSUME NEW n, NEW s, Sound(s)
    PROVE  LET t == advance_commit(n, s) IN
           /\ Won(n, t) = {}
           /\ t.role = s.role /\ t.term = s.term /\ t.log = s.log
           /\ t.matched = s.matched /\ t.next_index = s.next_index
<1> DEFINE W == Won(n, s)
           t == advance_commit(n, s)
<1>1. t = IF W = {} THEN s ELSE [s EXCEPT !.commit_index = Top(W)]
  BY DEF advance_commit, Won, Own
<1>2. /\ s \in State /\ s.commit_index \in Nat /\ s.log \in Seq(Entry)
      /\ Len(s.log) \in Nat
  BY DEF Sound, State
<1> HIDE DEF t
<1>3. CASE W = {}
  BY <1>1, <1>3 DEF t
<1>4. CASE W # {}
  <2> DEFINE k == Top(W)
  <2>1. W \in SUBSET ((s.commit_index + 1)..Len(s.log))
    BY DEF Won, Own
  <2>2. W \in SUBSET Nat /\ IsFiniteSet(W)
    <3>0. s.commit_index + 1 \in Int /\ Len(s.log) \in Int
      BY <1>2
    <3>1. IsFiniteSet((s.commit_index + 1)..Len(s.log))
      BY <3>0, FS_Interval
    <3>2. IsFiniteSet(W)
      BY <2>1, <3>1, FS_Subset
    <3>3. (s.commit_index + 1)..Len(s.log) \in SUBSET Nat
      BY <1>2
    <3> HIDE DEF W
    <3> QED BY <2>1, <3>2, <3>3
  <2>3. k \in Nat /\ k \in W /\ \A j \in W : j <= k
    <3> HIDE DEF W
    <3> QED BY <1>4, <2>2, TopMax
  <2> HIDE DEF k
  <2>4. /\ t.commit_index = k /\ t.role = s.role /\ t.term = s.term
        /\ t.log = s.log /\ t.config = s.config
        /\ t.matched = s.matched /\ t.next_index = s.next_index
    BY <1>1, <1>2, <1>4 DEF State, k
  <2>5. \A j : Held(n, t, j) <=> Held(n, s, j)
    BY <2>4 DEF Held
  <2>6. ASSUME NEW i \in Won(n, t) PROVE FALSE
    <3>1. /\ i \in Own(t) /\ i \in Int /\ i > k
          /\ \A j \in Own(t) : j <= i => Held(n, s, j)
      BY <1>2, <2>3, <2>4, <2>5 DEF Won, Own
    <3>2. k >= s.commit_index + 1
      BY <1>2, <2>1, <2>3
    <3>3. i \in Own(s)
      BY <1>2, <2>3, <2>4, <3>1, <3>2 DEF Own
    <3>4. ASSUME NEW j \in Own(s), j <= i PROVE Held(n, s, j)
      <4>1. CASE j <= k
        BY <2>3, <4>1 DEF Won
      <4>2. CASE ~(j <= k)
        <5>1. j \in Own(t)
          BY <1>2, <2>3, <2>4, <4>2 DEF Own
        <5> QED BY <3>1, <3>4, <5>1
      <4> QED BY <4>1, <4>2
    <3>5. i \in W
      BY <3>3, <3>4 DEF Won
    <3> HIDE DEF W
    <3>6. i <= k
      BY <2>3, <3>5
    <3> QED BY <2>3, <3>1, <3>6
  <2> QED BY <2>4, <2>6 DEF t
<1> QED BY <1>3, <1>4

\* So a leader whose rows point into its log has concluded after an advance.
LEMMA AdvanceLeads ==
    ASSUME Fixed, NEW n, NEW s, Sound(s),
           s.role = "leader" => majority(Node) >= 2 /\ RowsFit(s)
    PROVE  LET t == advance(n, s) IN
           /\ Leading(n, t)
           /\ t.role = s.role /\ t.term = s.term /\ t.log = s.log
<1> DEFINE t == advance_commit(n, s)
<1>1. advance(n, s) = t
  BY AdvanceType, NothingApplied DEF advance
<1>2. /\ Won(n, t) = {}
      /\ t.role = s.role /\ t.term = s.term /\ t.log = s.log
      /\ t.matched = s.matched /\ t.next_index = s.next_index
  BY AdvanceSettles
<1> HIDE DEF t
<1>3. RowsFit(s) => RowsFit(t)
  BY <1>2 DEF RowsFit
<1> QED BY <1>1, <1>2, <1>3 DEF Leading

\* No slot past every row is held: one node is no majority of two.
LEMMA AloneHoldsNone ==
    ASSUME NEW n, NEW s, s.config = Node, majority(Node) >= 2,
           NEW i \in Nat, s.matched \in Row, \A p \in Node : s.matched[p] < i
    PROVE  ~Held(n, s, i)
<1> DEFINE P == {p \in s.config \ {n} : s.matched[p] >= i}
<1>1. \A p \in Node : s.matched[p] \in Nat
  BY DEF Row
<1>2. P = {}
  BY <1>1
<1>3. Cardinality(P) = 0
  BY <1>2, FS_EmptySet
<1> HIDE DEF P
<1>4. majority(Node) \in Nat
  BY MajorityType
<1>5. Held(n, s, i) <=> 1 + Cardinality(P) >= majority(Node)
  BY DEF Held, P
<1> QED BY <1>3, <1>4, <1>5

\* A new leader has heard nobody yet.
LEMMA FreshLeads ==
    ASSUME NEW n \in Node, NEW s, Sound(s), s.config = Node,
           majority(Node) >= 2
    PROVE  Leading(n, become_leader(n, s))
<1> DEFINE l == become_leader(n, s)
<1>1. Sound(l)
  BY LeaderType
<1>2. /\ l.log = s.log /\ l.config = Node /\ l.matched = NoRow
      /\ \A p \in Node : l.next_index[p] \in {0, Len(s.log) + 1}
  BY DEF become_leader, Sound, State
<1> HIDE DEF l
<1>3. /\ Len(l.log) \in Nat /\ l.commit_index \in Nat /\ l.matched \in Row
      /\ \A p \in Node : l.matched[p] = 0
  BY <1>1, <1>2 DEF Sound, State, NoRow
<1>4. RowsFit(l)
  BY <1>2, <1>3 DEF RowsFit
<1>5. ASSUME NEW i \in Won(n, l) PROVE FALSE
  <2>1. i \in Own(l) /\ i \in Nat /\ i > 0
    BY <1>3 DEF Won, Own
  <2>2. Held(n, l, i)
    BY <2>1 DEF Won
  <2>3. \A p \in Node : l.matched[p] < i
    BY <1>3, <2>1
  <2> QED BY <1>2, <1>3, <2>1, <2>2, <2>3, AloneHoldsNone
<1> QED BY <1>4, <1>5 DEF Leading, l

\* A command appended commits nothing: its slot is on no row yet.
LEMMA SubmitLeads ==
    ASSUME Fixed, NEW n \in Node, NEW s, Sound(s), s.config = Node,
           s.role = "leader", Leading(n, s), NEW cmd \in Command
    PROVE  LET t == client(n, s, cmd) IN
           /\ t = client_submit(s, cmd) /\ Leading(n, t)
           /\ t.commit_index = s.commit_index
           /\ t.role = "leader"
<1> DEFINE c == client_submit(s, cmd)
           new == [term |-> s.term, cmd |-> cmd]
           len == Len(s.log)
<1>1. /\ s \in State /\ s.commit_index \in Nat /\ s.log \in Seq(Entry)
      /\ len \in Nat /\ s.matched \in Row /\ s.next_index \in Row
      /\ s.commit_index <= len /\ s.term \in Nat
  BY DEF Sound, Builds, State
<1>2. /\ majority(Node) >= 2 /\ RowsFit(s) /\ Won(n, s) = {}
  BY DEF Leading
<1>3. /\ c.log = Append(s.log, new) /\ c.term = s.term
      /\ c.commit_index = s.commit_index /\ c.role = s.role
      /\ c.config = s.config /\ c.matched = s.matched
      /\ c.next_index = s.next_index
  BY <1>1 DEF client_submit, State
<1>4. Sound(c)
  BY ClientType
<1> HIDE DEF c
<1>5. /\ Len(c.log) = len + 1
      /\ \A i \in 1..len : c.log[i] = s.log[i]
  <2>1. new \in Entry
    BY <1>1 DEF Entry
  <2> HIDE DEF new
  <2> QED BY <1>1, <1>3, <2>1
<1>6. \A j : Held(n, c, j) <=> Held(n, s, j)
  BY <1>3 DEF Held
<1> HIDE DEF len
<1>7. ~Held(n, s, len + 1)
  <2>1. \A p \in Node : s.matched[p] < len + 1
    BY <1>1, <1>2 DEF RowsFit, Row, len
  <2> QED BY <1>1, <1>2, <2>1, AloneHoldsNone
<1>8. ASSUME NEW i \in Won(n, c) PROVE FALSE
  <2>1. /\ i \in Own(c) /\ i \in Int
        /\ \A j \in Own(c) : j <= i => Held(n, s, j)
    BY <1>6 DEF Won, Own
  <2>2. i # len + 1
    BY <1>7, <2>1
  <2>3. i \in Own(s)
    BY <1>1, <1>3, <1>5, <2>1, <2>2 DEF Own, len
  <2>4. Own(s) \subseteq Own(c)
    BY <1>1, <1>3, <1>5 DEF Own, len
  <2>5. i \in Won(n, s)
    BY <2>1, <2>3, <2>4 DEF Won
  <2> QED BY <1>2, <2>5
<1>9. RowsFit(c)
  BY <1>1, <1>2, <1>3, <1>5 DEF RowsFit, Row, len
<1>10. advance_commit(n, c) = c
  BY <1>8 DEF advance_commit, Won, Own
<1>11. client(n, s, cmd) = c
  BY <1>4, <1>10, NothingApplied DEF client, advance, c
<1> QED BY <1>2, <1>3, <1>8, <1>9, <1>11 DEF Leading, c

\* What a leader concludes depends on these parts of its state only.
LEMMA LeadingSame ==
    ASSUME NEW n, NEW s, NEW t, Leading(n, s), t.role = s.role,
           t.term = s.term, t.log = s.log, t.commit_index = s.commit_index,
           t.config = s.config, t.matched = s.matched,
           t.next_index = s.next_index
    PROVE  Leading(n, t)
<1>1. \A j : Held(n, t, j) <=> Held(n, s, j)
  BY DEF Held
<1>2. Own(t) = Own(s)
  BY DEF Own
<1>3. Won(n, t) = Won(n, s)
  BY <1>1, <1>2 DEF Won
<1>4. RowsFit(s) => RowsFit(t)
  BY DEF RowsFit
<1> QED BY <1>3, <1>4 DEF Leading
-----------------------------------------------------------------------------
(* What each handler does to a tenure.                                     *)

\* Outside an election nobody comes to lead, and a leader that goes on leads
\* in its term with its log.
Tenured(s, t) ==
    s.role # "candidate" =>
       /\ t.role # "candidate"
       /\ t.role = "leader" => /\ s.role = "leader" /\ t.term = s.term
                               /\ t.log = s.log

\* A vote request is no matter for a leader, unless it stands down.
LEMMA RequestTenured ==
    ASSUME NEW n, NEW s, Sound(s), NEW m \in RequestVoteMsg, Leading(n, s)
    PROVE  LET t == recv_request_vote(s, m) IN
           Leading(n, t) /\ Tenured(s, t)
<1> DEFINE t == recv_request_vote(s, m)
<1>1. CASE Contends(s, m)
  BY <1>1 DEF recv_request_vote, Tenured
<1>2. CASE ~Contends(s, m)
  <2>1. m.term \in Nat
    BY DEF RequestVoteMsg
  <2>2. adopt(s, m.term) \in State
    BY <2>1, AdoptType DEF Sound
  <2>3. t.role = "follower"
    BY <1>2, <2>2 DEF recv_request_vote, grant_vote, follower, State
  <2> HIDE DEF t
  <2> QED BY <2>3 DEF Leading, Tenured, t
<1> QED BY <1>1, <1>2

\* A reply makes a leader of a candidate only.
LEMMA TallyTenured ==
    ASSUME NEW n \in Node, NEW s, Sound(s), s.config = Node,
           NEW m \in VoteReplyMsg, Leading(n, s), majority(Node) >= 2
    PROVE  LET t == recv_vote_reply(n, s, m) IN
           Leading(n, t) /\ Tenured(s, t)
<1> DEFINE t == recv_vote_reply(n, s, m)
<1>1. CASE s.role # "candidate"
  BY <1>1 DEF recv_vote_reply, Tenured
<1>2. CASE s.role = "candidate" /\ m.term > s.term
  <2>1. t.role = "follower"
    BY <1>2 DEF recv_vote_reply, follower, Sound, State
  <2> HIDE DEF t
  <2> QED BY <1>2, <2>1 DEF Leading, Tenured, t
<1>3. CASE s.role = "candidate" /\ ~(m.term > s.term) /\ Elects(n, s, m)
  BY <1>3, FreshLeads DEF recv_vote_reply, Tenured
<1>4. CASE s.role = "candidate" /\ ~(m.term > s.term) /\ ~Elects(n, s, m)
  <2>1. t.role = "candidate"
    BY <1>4 DEF recv_vote_reply, Sound, State
  <2> HIDE DEF t
  <2> QED BY <1>4, <2>1 DEF Leading, Tenured, t
<1> QED BY <1>1, <1>2, <1>3, <1>4

\* The log of a follower that took an APPEND, matching or not, ends within it.
LEMMA ReconcileWithin ==
    ASSUME NEW f, Sound(f), NEW m \in AppendMsg
    PROVE  Len(reconcile(f, m).log) <= m.prev_index + Len(m.entries)
<1> DEFINE k == Kept(f.log, m)
           log1 == SubSeq(f.log, 1, k)
           log2 == SubSeq(f.log, 1, m.prev_index) \o m.entries
<1>1. /\ f \in State /\ f.log \in Seq(Entry) /\ Len(f.log) \in Nat
      /\ m.prev_index \in Nat /\ m.entries \in Seq(Entry)
      /\ Len(m.entries) \in Nat
  BY DEF Sound, State, AppendMsg
<1>2. CASE m.prev_index > Len(f.log)
  BY <1>1, <1>2 DEF reconcile
<1>3. CASE /\ ~(m.prev_index > Len(f.log))
           /\ TermAt(f.log, m.prev_index) # m.prev_term /\ m.prev_index > 0
  <2>1. k \in Nat /\ k < m.prev_index
    BY <1>3, KeptType
  <2>2. reconcile(f, m).log = log1
    BY <1>1, <1>3 DEF reconcile, State
  <2> HIDE DEF k
  <2>3. Len(log1) = k
    BY <1>1, <1>3, <2>1
  <2> HIDE DEF log1
  <2> QED BY <1>1, <2>1, <2>2, <2>3
<1>4. CASE /\ ~(m.prev_index > Len(f.log))
           /\ ~(TermAt(f.log, m.prev_index) # m.prev_term
                /\ m.prev_index > 0)
  <2>1. reconcile(f, m).log = log2
    BY <1>1, <1>4 DEF reconcile, State
  <2>2. /\ SubSeq(f.log, 1, m.prev_index) \in Seq(Entry)
        /\ Len(SubSeq(f.log, 1, m.prev_index)) = m.prev_index
    BY <1>1, <1>4
  <2>3. Len(log2) = m.prev_index + Len(m.entries)
    BY <1>1, <2>2
  <2> HIDE DEF log2
  <2> QED BY <1>1, <2>1, <2>3
<1> QED BY <1>2, <1>3, <1>4

\* Whoever takes an APPEND follows; its answer is in the APPEND's term and
\* its log ends within the APPEND, or it refuses in its own.
LEMMA AppendTenured ==
    ASSUME Fixed, NEW n, NEW s, Sound(s), NEW m \in AppendMsg,
           Builds(handle_append(s, m)), Leading(n, s)
    PROVE  LET t == recv_append(s, m)
               r == append_reply(n, s, m)
           IN  /\ Leading(n, t) /\ Tenured(s, t)
               /\ r.kind = "APPEND_REPLY" /\ r.leader = m.sender
               /\ r.conflict = r.matched + 1
               /\ \/ r.term = s.term /\ Refuses(s, m)
                  \/ /\ r.term = m.term
                     /\ r.matched <= m.prev_index + Len(m.entries)
<1> DEFINE h == handle_append(s, m)
           d == stand_down(s, m)
<1>1. recv_append(s, m) = h
  <2>1. Sound(h)
    BY HandleType DEF Sound
  <2> QED BY <2>1, NothingApplied DEF recv_append
<1>2. /\ append_reply(n, s, m).term = h.term
      /\ append_reply(n, s, m).matched = Len(h.log)
      /\ append_reply(n, s, m).conflict = Len(h.log) + 1
      /\ append_reply(n, s, m).leader = m.sender
      /\ append_reply(n, s, m).kind = "APPEND_REPLY"
  BY DEF append_reply
<1>3. CASE Refuses(s, m)
  <2>1. h = s
    BY <1>3 DEF handle_append
  <2> HIDE DEF h
  <2> QED BY <1>1, <1>2, <1>3, <2>1 DEF Tenured
<1>4. CASE ~Refuses(s, m)
  <2>1. h = reconcile(d, m)
    BY <1>4 DEF handle_append
  <2>2. /\ s \in State /\ s.term \in Nat /\ m.term \in Nat
        /\ m.term >= s.term
    BY <1>4 DEF Refuses, Sound, State, AppendMsg
  <2>3. d.role = "follower" /\ d.term = m.term
    BY <2>2 DEF stand_down, follower, adopt, State
  <2>4. Sound(d)
    BY StandDownType
  <2> HIDE DEF d
  <2>5. /\ reconcile(d, m).role = d.role /\ reconcile(d, m).term = d.term
    BY <2>4 DEF reconcile, Sound, State
  <2>6. Len(h.log) <= m.prev_index + Len(m.entries)
    BY <2>1, <2>4, ReconcileWithin
  <2> HIDE DEF h
  <2> QED BY <1>1, <1>2, <2>1, <2>3, <2>5, <2>6 DEF Leading, Tenured
<1> QED BY <1>3, <1>4

\* An answer that lies within the leader's log keeps its rows there.
LEMMA AnswerTenured ==
    ASSUME Fixed, NEW n \in Node, NEW s, Sound(s), NEW m \in AppendReplyMsg,
           Leading(n, s), m.conflict = m.matched + 1,
           s.role = "leader" /\ m.term = s.term => m.matched <= Len(s.log)
    PROVE  LET t == recv_append_reply(n, s, m) IN
           Leading(n, t) /\ Tenured(s, t)
<1> DEFINE t == recv_append_reply(n, s, m)
           o == observe_reply(s, m)
<1>1. /\ s \in State /\ s.term \in Nat /\ m.term \in Nat
      /\ m.matched \in Nat /\ m.node \in Node /\ Len(s.log) \in Nat
      /\ s.matched \in [Node -> Nat] /\ s.next_index \in [Node -> Nat]
  <2>1. s \in State
    BY DEF Sound
  <2>2. s.term \in Nat /\ Len(s.log) \in Nat
    BY <2>1 DEF State
  <2>3. s.matched \in [Node -> Nat] /\ s.next_index \in [Node -> Nat]
    BY <2>1 DEF State, Row
  <2>4. m.term \in Nat /\ m.matched \in Nat /\ m.node \in Node
    BY DEF AppendReplyMsg
  <2> QED BY <2>1, <2>2, <2>3, <2>4
<1>2. CASE s.role # "leader"
  <2>1. t = s
    BY <1>2 DEF recv_append_reply
  <2> HIDE DEF t
  <2> QED BY <1>2, <2>1 DEF Tenured, t
<1>3. CASE s.role = "leader" /\ (m.term > s.term \/ same_term_stale(s, m))
  <2>1. t.role = "follower"
    BY <1>1, <1>3 DEF recv_append_reply, follower, State
  <2> HIDE DEF t
  <2> QED BY <2>1 DEF Leading, Tenured, t
<1>4. CASE s.role = "leader" /\ ~(m.term > s.term) /\ ~same_term_stale(s, m)
  <2>1. t = advance(n, o)
    BY <1>4 DEF recv_append_reply
  <2>2. majority(Node) >= 2 /\ RowsFit(s)
    BY <1>4 DEF Leading
  <2>3. Sound(o) /\ o.role = s.role /\ o.term = s.term /\ o.log = s.log
    BY <1>1, ObserveType DEF observe_reply, State
  <2>4. RowsFit(o)
    <3>1. CASE m.term < s.term \/ s.next_index[m.node] = 0
      BY <2>2, <3>1 DEF observe_reply
    <3>2. CASE ~(m.term < s.term \/ s.next_index[m.node] = 0)
      <4>1. m.matched <= Len(s.log) /\ m.conflict <= Len(s.log) + 1
        BY <1>1, <1>4, <3>2
      <4>2. /\ o.matched = [s.matched EXCEPT ![m.node] = m.matched]
            /\ o.next_index = [s.next_index EXCEPT ![m.node] = m.conflict]
        BY <1>1, <3>2 DEF observe_reply, State
      <4> HIDE DEF o
      <4> QED BY <1>1, <2>2, <2>3, <4>1, <4>2 DEF RowsFit
    <3> QED BY <3>1, <3>2
  <2> HIDE DEF o
  <2>5. /\ Leading(n, advance(n, o))
        /\ advance(n, o).role = o.role /\ advance(n, o).term = o.term
        /\ advance(n, o).log = o.log
    BY <2>2, <2>3, <2>4, AdvanceLeads
  <2> QED BY <1>4, <2>1, <2>3, <2>5 DEF Tenured
<1> QED BY <1>2, <1>3, <1>4

\* A beat changes the timer only, and an election ends a tenure.
LEMMA TickTenured ==
    ASSUME NEW n \in Node, NEW s, Sound(s), Leading(n, s)
    PROVE  LET t == tick(n, s) IN
           /\ Leading(n, t)
           /\ Beats(s) => /\ t.role = "leader" /\ t.term = s.term
                          /\ t.log = s.log
<1> DEFINE t == tick(n, s)
<1>1. s \in State
  BY DEF Sound
<1>2. CASE TimesOut(n, s)
  <2>1. t.role = "candidate" /\ ~Beats(s)
    BY <1>1, <1>2 DEF tick, start_election, TimesOut, Beats, State
  <2> HIDE DEF t
  <2> QED BY <2>1 DEF Leading, t
<1>3. CASE ~TimesOut(n, s)
  <2>1. /\ t.role = s.role /\ t.term = s.term /\ t.log = s.log
        /\ t.commit_index = s.commit_index /\ t.config = s.config
        /\ t.matched = s.matched /\ t.next_index = s.next_index
    BY <1>1, <1>3 DEF tick, State
  <2> HIDE DEF t
  <2>2. Leading(n, t)
    BY <2>1, LeadingSame
  <2> QED BY <2>1, <2>2 DEF Beats, t
<1> QED BY <1>2, <1>3
-----------------------------------------------------------------------------
(* The messages under way.                                                 *)

\* The tenures a step leaves alone or merely continues.
Continues == /\ up' = up /\ turn' \subseteq turn
             /\ \A q \in Node : Past(q) => Tenured(node[q], node'[q])

\* A letter stays true of the nodes it is about.
LEMMA PostedKept ==
    ASSUME TypeInv, Continues, NEW d, NEW e, Posted(d), Copies(e, d)
    PROVE  Posted(e)'
<1>1. up \subseteq Node
  BY DEF TypeInv, TypeOK
<1>2. \A q : Past(q) => /\ q \in up' \ turn' /\ node'[q].role # "candidate"
                        /\ node'[q].role = "leader" =>
                              /\ node[q].role = "leader"
                              /\ node'[q].term = node[q].term
                              /\ node'[q].log = node[q].log
  BY <1>1 DEF Continues, Past, Tenured
<1>3. \A q : Past(q) => Past(q)'
  BY <1>2 DEF Past
<1>4. e.from = d.from /\ e.msg = d.msg /\ e.to \subseteq d.to
  BY DEF Copies
<1>5. /\ e.from \notin e.to
      /\ e.msg.kind = "REQUEST_VOTE" => e.msg.cand = e.from
  BY <1>4 DEF Posted
<1>6. ASSUME e.msg.kind = "APPEND"
      PROVE  /\ e.msg.sender = e.from /\ Past(e.from)'
             /\ node'[e.from].role = "leader" =>
                   /\ e.msg.term = node'[e.from].term
                   /\ e.msg.prev_index + Len(e.msg.entries)
                          <= Len(node'[e.from].log)
  BY <1>2, <1>3, <1>4, <1>6 DEF Posted
<1>7. ASSUME e.msg.kind = "APPEND_REPLY"
      PROVE  /\ e.to \subseteq {e.msg.leader} /\ Past(e.msg.leader)'
             /\ e.msg.conflict = e.msg.matched + 1
             /\ node'[e.msg.leader].role = "leader"
                /\ e.msg.term = node'[e.msg.leader].term
                => e.msg.matched <= Len(node'[e.msg.leader].log)
  <2>1. /\ Past(d.msg.leader) /\ e.to \subseteq {e.msg.leader}
        /\ e.msg.conflict = e.msg.matched + 1
        /\ node[e.msg.leader].role = "leader"
           /\ e.msg.term = node[e.msg.leader].term
           => e.msg.matched <= Len(node[e.msg.leader].log)
    BY <1>4, <1>7 DEF Posted
  <2> QED BY <1>2, <1>3, <1>4, <2>1
<1> QED BY <1>5, <1>6, <1>7 DEF Posted

\* An APPEND carries its sender's log to its end.
LEMMA AppendReaches ==
    ASSUME NEW n \in Node, NEW s, Sound(s), Anchored(n, s),
           NEW p \in s.config \ {n}
    PROVE  LET m == append(n, s, p) IN
           m.prev_index + Len(m.entries) = Len(s.log)
<1>1. /\ s.log \in Seq(Entry) /\ Len(s.log) \in Nat /\ p \in Node
      /\ s.next_index \in [Node -> Nat]
  BY DEF Sound, State, Row
<1> DEFINE next == NextOf(s, p)
<1>2. next \in 1..(Len(s.log) + 1)
  BY <1>1 DEF NextOf, Anchored
<1>3. /\ append(n, s, p).prev_index = next - 1
      /\ append(n, s, p).entries = SubSeq(s.log, next, Len(s.log))
  BY DEF append
<1> HIDE DEF next
<1>4. Len(SubSeq(s.log, next, Len(s.log))) = Len(s.log) - next + 1
  BY <1>1, <1>2
<1> QED BY <1>1, <1>2, <1>3, <1>4

\* What a leader broadcasts is posted.
LEMMA BroadcastPosted ==
    ASSUME NEW n \in Node, NEW s, Sound(s), Anchored(n, s), up' = up,
           n \in up' \ turn', node'[n].role = "leader",
           node'[n].term = s.term, node'[n].log = s.log
    PROVE  /\ broadcast(n, s) \in Seq(Message)
           /\ \A e \in Letters(queue(n, broadcast(n, s))) : Posted(e)'
<1> DEFINE out == broadcast(n, s)
           P == s.config \ {n}
<1>1. out \in Seq(AppendMsg)
  BY BroadcastType
<1>2. out \in Seq(Message)
  <2> HIDE DEF out
  <2> QED BY <1>1 DEF Message
<1>3. \A i \in 1..Len(out) : out[i] \in AppendMsg
  <2> HIDE DEF out
  <2> QED BY <1>1
<1>4. P \in SUBSET Nat /\ P \subseteq Node /\ IsFiniteSet(P)
  BY NodeAssumption, FS_Subset DEF Sound, State
<1>5. Cardinality(P) \in Nat
  BY <1>4, FS_CardinalityType
<1>6. Len(out) = Cardinality(P) /\ \A i \in 1..Cardinality(P) :
          out[i] = append(n, s, nth(P, i)) /\ nth(P, i) \in P
  <2>1. DOMAIN out = 1..Cardinality(P)
    BY DEF broadcast
  <2>2. Len(out) = Cardinality(P)
    BY <1>5, <2>1
  <2>3. \A i \in 1..Cardinality(P) : nth(P, i) \in P
    BY <1>4, NthMember
  <2> QED BY <2>2, <2>3 DEF broadcast
<1>7. \A i \in 1..Len(out) :
          /\ out[i].kind = "APPEND" /\ out[i].sender = n
          /\ out[i].term = s.term
          /\ out[i].prev_index + Len(out[i].entries) = Len(s.log)
  <2> TAKE i \in 1..Len(out)
  <2>1. PICK p \in P : out[i] = append(n, s, p)
    BY <1>6
  <2> HIDE DEF out
  <2>2. /\ append(n, s, p).prev_index + Len(append(n, s, p).entries)
              = Len(s.log)
    BY <2>1, AppendReaches, Zenon
  <2>3. /\ out[i].kind = "APPEND" /\ out[i].sender = n
        /\ out[i].term = s.term
    BY <2>1 DEF append
  <2> QED BY <2>1, <2>2, <2>3
<1> HIDE DEF out
<1>8. Len(s.log) \in Nat
  BY DEF Sound, State
<1>9. ASSUME NEW e \in Letters(queue(n, out)) PROVE Posted(e)'
  <2>1. PICK i \in 1..Len(out) :
            e = [from |-> n, to |-> addressees(n, out[i]), msg |-> out[i]]
    BY <1>2, LettersQueue
  <2>2. e.from = n /\ e.msg = out[i] /\ e.to = up \ {n}
    BY <1>7, <2>1 DEF addressees
  <2>3. PICK m : m = out[i]
    OBVIOUS
  <2>4. /\ e.msg = m /\ m.kind = "APPEND" /\ m.sender = n /\ m.term = s.term
        /\ m.prev_index + Len(m.entries) = Len(s.log)
    BY <1>7, <2>2, <2>3
  <2>5. Past(n)'
    BY DEF Past
  <2> QED BY <1>8, <2>2, <2>4, <2>5 DEF Posted
<1> QED BY <1>2, <1>9 DEF out
-----------------------------------------------------------------------------
(* The parts of a step.                                                    *)

\* A save of a transition that leads as it should keeps every node so.
LEMMA RowsKept ==
    ASSUME TypeInv, Rows, NEW n \in Node, NEW t, Saves(n, t), up' = up,
           Leading(n, t)
    PROVE  Rows'
<1>1. /\ up \subseteq Node /\ node'[n] = t
      /\ \A p \in Node \ {n} : node'[p] = node[p]
  BY DEF Saves, TypeInv, TypeOK
<1>2. \A p \in up' : Leading(p, node'[p])
  BY <1>1 DEF Rows
<1> QED BY <1>2 DEF Rows

\* What a noted transition commits is recorded.
LEMMA RecordedKept ==
    ASSUME TypeInv, Recorded, NEW n \in Node, NEW t, Sound(t), Saves(n, t),
           NotesCommits(t)
    PROVE  Recorded'
<1> DEFINE k   == t.commit_index - Len(chosen)
           new == [i \in 1..k |-> t.log[Len(chosen) + i].cmd]
<1>1. /\ chosen \in Seq(Command) /\ Len(chosen) \in Nat
      /\ t.commit_index \in Nat /\ k \in Int
      /\ \A p \in Node : disk[p].commit_index \in Nat
  <2>1. chosen \in Seq(Command) /\ Len(chosen) \in Nat
    BY DEF TypeInv, TypeOK
  <2>2. t.commit_index \in Nat
    BY DEF Sound, State
  <2>3. \A p \in Node : disk[p].commit_index \in Nat
    BY DEF TypeInv, TypeOK, Image
  <2> QED BY <2>1, <2>2, <2>3
<1>2. chosen' = chosen \o new
  BY DEF NotesCommits
<1>3. PICK j \in Nat : 1..k = 1..j /\ k <= j
  <2>1. CASE k >= 0
    BY <1>1, <2>1
  <2>2. CASE k < 0
    BY <1>1, <2>2, 1..k = 1..0
  <2> QED BY <1>1, <2>1, <2>2
<1>4. \A i \in 1..k : new[i] \in Command
  <2> TAKE i \in 1..k
  <2>1. Len(chosen) + i \in 1..Len(t.log) /\ t.log \in Seq(Entry)
    BY <1>1 DEF Sound, Builds, State
  <2>2. t.log[Len(chosen) + i] \in Entry
    BY <2>1
  <2> QED BY <2>2 DEF Entry
<1>5. new \in [1..j -> Command] /\ DOMAIN new = 1..j
  BY <1>3, <1>4
<1> HIDE DEF new
<1>6. new \in Seq(Command) /\ Len(new) = j
  BY <1>3, <1>5, SeqDef
<1>7. Len(chosen \o new) = Len(chosen) + j
  BY <1>1, <1>6
<1>8. Len(chosen') = Len(chosen) + j
  BY <1>2, <1>7
<1>9. Len(chosen') >= Len(chosen) /\ Len(chosen') >= t.commit_index
  BY <1>1, <1>3, <1>8
<1>10. /\ disk'[n] = persist(t)
      /\ \A p \in Node \ {n} : disk'[p] = disk[p]
  BY DEF Saves, TypeInv, TypeOK
<1>11. persist(t).commit_index = t.commit_index
  BY DEF persist
<1>12. ASSUME NEW p \in Node PROVE disk'[p].commit_index <= Len(chosen')
  <2>1. CASE p = n
    BY <1>9, <1>10, <1>11, <2>1
  <2>2. CASE p # n
    <3>1. disk[p].commit_index <= Len(chosen)
      BY DEF Recorded
    <3> QED BY <1>1, <1>8, <1>9, <1>10, <2>2, <3>1
  <2> QED BY <2>1, <2>2
<1> QED BY <1>12 DEF Recorded

\* One node's transition outside an election continues every tenure.
LEMMA TransitContinues ==
    ASSUME TypeInv, NEW n \in Node, NEW t, Saves(n, t), up' = up,
           turn' \subseteq turn, n \in turn \/ Tenured(node[n], t)
    PROVE  Continues
<1>1. node'[n] = t /\ \A p \in Node \ {n} : node'[p] = node[p]
  BY DEF Saves, TypeInv, TypeOK
<1>2. ASSUME NEW q \in Node, Past(q) PROVE Tenured(node[q], node'[q])
  <2>1. CASE q = n
    BY <1>1, <1>2, <2>1 DEF Past
  <2>2. CASE q # n
    BY <1>1, <2>2 DEF Tenured
  <2> QED BY <2>1, <2>2
<1> QED BY <1>2 DEF Continues

\* What was pending stays posted.
LEMMA PendingPosted ==
    ASSUME TypeInv, Mail, Continues
    PROVE  \A e \in Letters(pending) : Posted(e)'
<1> TAKE e \in Letters(pending)
<1>1. Posted(e) /\ Copies(e, e)
  BY DEF Mail, Copies
<1> QED BY <1>1, PostedKept

\* So does what is left of it after a delivery.
LEMMA RestPosted ==
    ASSUME TypeInv, Mail, Continues, pending # << >>, NEW n \in Node
    PROVE  \A e \in Letters(Rest(Head(pending), n)) : Posted(e)'
<1> TAKE e \in Letters(Rest(Head(pending), n))
<1>1. pending \in Seq(Envelope)
  BY DEF TypeInv, TypeOK
<1>2. PICK d \in Letters(pending) : Copies(e, d)
  BY <1>1, LettersRest
<1>3. Posted(d)
  BY DEF Mail
<1> QED BY <1>2, <1>3, PostedKept

\* The letter at the head is posted, and for somebody else than its sender.
LEMMA HeadPosted ==
    ASSUME TypeInv, Mail, pending # << >>
    PROVE  Head(pending) \in Envelope /\ Posted(Head(pending))
<1>1. /\ pending \in Seq(Envelope) /\ Head(pending) = pending[1]
      /\ 1 \in 1..Len(pending) /\ Head(pending) \in Envelope
  <2>1. pending \in Seq(Envelope)
    BY DEF TypeInv, TypeOK
  <2> QED BY <2>1
<1> QED BY <1>1 DEF Mail, Letters

\* Whatever handler receives the head of the queue.
LEMMA Received ==
    ASSUME TypeInv, Mail, Rows, Recorded, pending # << >>, NEW n \in Node,
           NEW t, Sound(t), NEW out \in Seq(Message),
           Receives(Head(pending), n, t, out),
           Leading(n, t), Tenured(node[n], t),
           \A e \in Letters(queue(n, out)) : Posted(e)'
    PROVE  Mail' /\ Rows' /\ Recorded'
<1>1. /\ Saves(n, t) /\ NotesCommits(t) /\ up' = up /\ turn' = turn
      /\ pending' = Rest(Head(pending), n) \o queue(n, out)
  BY DEF Receives, Notes
<1>2. Rows' /\ Recorded' /\ Continues
  BY <1>1, RowsKept, RecordedKept, TransitContinues
<1>3. \A e \in Letters(Rest(Head(pending), n)) : Posted(e)'
  BY <1>2, RestPosted
<1>4. /\ Rest(Head(pending), n) \in Seq(Envelope)
      /\ queue(n, out) \in Seq(Envelope)
  <2>1. up \in SUBSET Node /\ pending \in Seq(Envelope)
    BY DEF TypeInv, TypeOK
  <2> QED BY <2>1, RestType, QueueType
<1>5. Letters(pending') \subseteq Letters(Rest(Head(pending), n))
                                  \cup Letters(queue(n, out))
  BY <1>1, <1>4, LettersConcat
<1>6. \A e \in Letters(pending') : Posted(e)'
  BY <1>3, <1>5
<1> QED BY <1>2, <1>6 DEF Mail

\* A single answer is posted as one letter.
LEMMA ReplyLetter ==
    ASSUME NEW n \in Node, NEW r \in Message
    PROVE  /\ <<r>> \in Seq(Message)
           /\ \A e \in Letters(queue(n, <<r>>)) :
                 e.from = n /\ e.msg = r /\ e.to = addressees(n, r)
<1>1. <<r>> \in Seq(Message) /\ Len(<<r>>) = 1 /\ <<r>>[1] = r
  OBVIOUS
<1> DEFINE out == <<r>>
<1> HIDE DEF out
<1>2. out \in Seq(Message) /\ Len(out) = 1 /\ out[1] = r
  BY <1>1 DEF out
<1>3. ASSUME NEW e \in Letters(queue(n, out))
      PROVE  e.from = n /\ e.msg = r /\ e.to = addressees(n, r)
  <2>1. PICK i \in 1..Len(out) :
            e = [from |-> n, to |-> addressees(n, out[i]), msg |-> out[i]]
    BY <1>2, LettersQueue
  <2>2. i = 1
    BY <1>2, <2>1
  <2> QED BY <1>2, <2>1, <2>2
<1> QED BY <1>1, <1>3 DEF out

\* Two nodes make a majority of two or more.
LEMMA TwoAreMany ==
    ASSUME NEW a \in Node, NEW b \in Node, a # b
    PROVE  majority(Node) >= 2
<1>1. Cardinality({a, b}) = 2 /\ IsFiniteSet({a, b})
  <2>1. Cardinality({a}) = 1 /\ IsFiniteSet({a})
    BY FS_Singleton
  <2>2. {a, b} = {a} \cup {b} /\ b \notin {a}
    OBVIOUS
  <2>3. /\ IsFiniteSet({a} \cup {b})
        /\ Cardinality({a} \cup {b}) = Cardinality({a}) + 1
    <3>1. PICK S : S = {a}
      OBVIOUS
    <3>2. IsFiniteSet(S) /\ b \notin S
      BY <2>1, <2>2, <3>1
    <3>3. /\ IsFiniteSet(S \cup {b})
          /\ Cardinality(S \cup {b}) = Cardinality(S) + 1
      BY <3>2, FS_AddElement
    <3> QED BY <3>1, <3>3
  <2> QED BY <2>1, <2>2, <2>3
<1>2. Cardinality({a, b}) <= Cardinality(Node)
  <2>1. {a, b} \in SUBSET Node /\ IsFiniteSet(Node)
    BY NodeAssumption
  <2> QED BY <2>1, FS_Subset
<1>3. Cardinality(Node) \in Nat
  BY NodeAssumption, FS_CardinalityType
<1> QED BY <1>1, <1>2, <1>3 DEF majority
-----------------------------------------------------------------------------
(* The steps.                                                              *)

\* Every delivery leaves letters that are posted, leaders that have concluded,
\* and commits that are recorded.
LEMMA DeliverLeads ==
    ASSUME Fixed, ElectionInv, Mail, Rows, Recorded, pending # << >>,
           NEW n \in Node,
           \/ DeliverRequestVote(Head(pending), n)
           \/ DeliverVoteReply(Head(pending), n)
           \/ DeliverAppend(Head(pending), n)
           \/ DeliverAppendReply(Head(pending), n)
    PROVE  Mail' /\ Rows' /\ Recorded'
<1> DEFINE e == Head(pending)
           s == node[n]
           m == e.msg
<1>1. TypeInv /\ Durable
  BY DEF ElectionInv
<1>2. e \in Envelope /\ Posted(e)
  BY <1>1, HeadPosted
<1>3. m \in Message /\ e.from \in Node /\ e.to \in SUBSET Node
  BY <1>2 DEF Envelope
<1>4. /\ AtHead(e, n) /\ ~Severed(e, n)
  BY DEF DeliverRequestVote, DeliverVoteReply, DeliverAppend,
         DeliverAppendReply, Arrives
<1>5. /\ n \in e.to /\ turn = {} /\ n \in up /\ e.from # n
  BY <1>1, <1>2, <1>4, Live DEF AtHead, Posted
<1>6. Sound(s) /\ s.config = Node
  BY <1>1, NodeSound DEF ElectionInv, ConfigFixed
<1>7. Leading(n, s)
  BY <1>5 DEF Rows
<1> HIDE DEF s
<1>8. CASE DeliverRequestVote(e, n)
  <2> DEFINE t == recv_request_vote(s, m)
             r == vote_reply(n, s, m)
  <2>1. m.kind = "REQUEST_VOTE" /\ m \in RequestVoteMsg
    BY <1>3, <1>8, KindType DEF DeliverRequestVote, Arrives
  <2>2. Receives(e, n, t, <<r>>)
    BY <1>8, Zenon DEF DeliverRequestVote, s
  <2>3. Sound(t) /\ r \in VoteReplyMsg /\ Leading(n, t) /\ Tenured(s, t)
    BY <1>6, <1>7, <2>1, GrantType, VoteReplyType, RequestTenured
  <2>4. r.kind = "VOTE_REPLY" /\ r.cand = m.cand /\ r \in Message
    BY <2>3 DEF vote_reply, Message
  <2>5. m.cand # n
    BY <1>2, <1>5, <2>1 DEF Posted
  <2>6. PICK x : x = r
    OBVIOUS
  <2> HIDE DEF t, r
  <2>7. /\ <<x>> \in Seq(Message)
        /\ \A d \in Letters(queue(n, <<x>>)) :
              d.from = n /\ d.msg = x /\ d.to = addressees(n, x)
    BY <2>4, <2>6, ReplyLetter
  <2>8. x.kind = "VOTE_REPLY" /\ x.cand # n
    BY <2>4, <2>5, <2>6
  <2>9. addressees(n, x) = {x.cand} \cap up
    BY <2>8 DEF addressees
  <2>10. ASSUME NEW d \in Letters(queue(n, <<x>>)) PROVE Posted(d)'
    <3>1. d.from = n /\ d.msg = x /\ d.to = {x.cand} \cap up
      BY <2>7, <2>9
    <3> QED BY <2>8, <3>1 DEF Posted
  <2> QED BY <1>1, <2>2, <2>3, <2>6, <2>7, <2>10, Received DEF s
<1>9. CASE DeliverVoteReply(e, n)
  <2> DEFINE t == recv_vote_reply(n, s, m)
             out == IF Elects(n, s, m) THEN broadcast(n, t) ELSE << >>
  <2>1. m \in VoteReplyMsg
    BY <1>3, <1>9, KindType DEF DeliverVoteReply, Arrives
  <2>2. Receives(e, n, t, out)
    BY <1>9, Zenon DEF DeliverVoteReply, s
  <2>3. majority(Node) >= 2
    BY <1>3, <1>5, TwoAreMany
  <2>4. Sound(t) /\ Leading(n, t) /\ Tenured(s, t)
    BY <1>6, <1>7, <2>1, <2>3, TallyType, TallyTenured
  <2>5. ASSUME Elects(n, s, m)
        PROVE  /\ t.role = "leader" /\ Anchored(n, t)
    <3>1. s.term \in Nat /\ m.term \in Nat
      BY <1>6, <2>1 DEF Sound, State, VoteReplyMsg
    <3>2. t = become_leader(n, s)
      BY <2>5, <3>1 DEF Elects, recv_vote_reply
    <3>3. become_leader(n, s).role = "leader"
      BY <1>6 DEF become_leader, Sound, State
    <3> QED BY <1>6, <3>2, <3>3, LeaderType
  <2> HIDE DEF t
  <2>6. node'[n] = t /\ up' = up /\ n \in up' \ turn'
    BY <1>1, <1>5, <2>2 DEF Receives, Saves, TypeInv, TypeOK
  <2>7. /\ out \in Seq(Message)
        /\ \A d \in Letters(queue(n, out)) : Posted(d)'
    <3>1. CASE Elects(n, s, m)
      BY <2>4, <2>5, <2>6, <3>1, BroadcastPosted
    <3>2. CASE ~Elects(n, s, m)
      <4>1. queue(n, << >>) = << >>
        BY DEF queue
      <4>2. Letters(<< >>) = {}
        BY DEF Letters
      <4> QED BY <3>2, <4>1, <4>2
    <3> QED BY <3>1, <3>2
  <2> HIDE DEF out
  <2> QED BY <1>1, <2>2, <2>4, <2>7, Received DEF s
<1>10. CASE DeliverAppend(e, n) /\ ~Builds(handle_append(s, m))
  <2>1. UNCHANGED <<node, up, disk, turn, pending, chosen>>
    BY <1>10 DEF DeliverAppend, Raises, machine, record, s
  <2>2. Continues
    BY <2>1 DEF Continues, Tenured
  <2>3. \A d \in Letters(pending) : Posted(d)'
    BY <1>1, <2>2, PendingPosted
  <2>4. Mail'
    BY <2>1, <2>3 DEF Mail
  <2> QED BY <2>1, <2>4 DEF Rows, Recorded
<1>11. CASE DeliverAppend(e, n) /\ Builds(handle_append(s, m))
  <2> DEFINE t == recv_append(s, m)
             r == append_reply(n, s, m)
             q == e.from
  <2>1. m.kind = "APPEND" /\ m \in AppendMsg
    BY <1>3, <1>11, KindType DEF DeliverAppend, Arrives
  <2>2. Receives(e, n, t, <<r>>)
    BY <1>11, Zenon DEF DeliverAppend, s
  <2>3. Sound(t) /\ r \in AppendReplyMsg
    BY <1>6, <1>11, <2>1, RecvAppendType
  <2>4. /\ Leading(n, t) /\ Tenured(s, t)
        /\ r.kind = "APPEND_REPLY" /\ r.leader = m.sender
        /\ r.conflict = r.matched + 1
        /\ \/ r.term = s.term /\ Refuses(s, m)
           \/ /\ r.term = m.term
              /\ r.matched <= m.prev_index + Len(m.entries)
    BY <1>6, <1>7, <1>11, <2>1, AppendTenured, Zenon
  <2>5. /\ m.sender = q /\ Past(q)
        /\ node[q].role = "leader" =>
              /\ m.term = node[q].term
              /\ m.prev_index + Len(m.entries) <= Len(node[q].log)
    BY <1>2, <2>1 DEF Posted
  <2>6. PICK x : x = r
    OBVIOUS
  <2>7. PICK p : p = q
    OBVIOUS
  <2> HIDE DEF t, r, q
  <2>8. /\ r.matched \in Nat /\ m.prev_index \in Nat /\ m.term \in Nat
        /\ Len(m.entries) \in Nat /\ s.term \in Nat /\ p \in Node
    <3>1. r.matched \in Nat
      BY <2>3 DEF AppendReplyMsg
    <3>2. /\ m.prev_index \in Nat /\ m.term \in Nat
          /\ m.entries \in Seq(Entry)
      BY <2>1 DEF AppendMsg
    <3>3. s.term \in Nat
      BY <1>6 DEF Sound, State
    <3>4. p \in Node
      BY <1>3, <2>7 DEF q
    <3> QED BY <3>1, <3>2, <3>3, <3>4
  <2>9. Len(node[p].log) \in Nat
    BY <1>1, <2>8 DEF TypeInv, TypeOK, State
  <2>10. node[p].role = "leader" /\ x.term = node[p].term
         => x.matched <= Len(node[p].log)
    <3> SUFFICES ASSUME node[p].role = "leader", x.term = node[p].term
                 PROVE  x.matched <= Len(node[p].log)
      OBVIOUS
    <3>1. /\ m.term = node[p].term
          /\ m.prev_index + Len(m.entries) <= Len(node[p].log)
      BY <2>5, <2>7
    <3>2. CASE r.term = s.term /\ Refuses(s, m)
      <4>1. s.role = "leader" /\ s.term = node[p].term
        BY <2>6, <2>8, <3>1, <3>2 DEF Refuses
      <4>2. Leads(n) /\ Leads(p)
        BY <1>5, <2>5, <2>7, <4>1 DEF Leads, Past, s
      <4>3. n = p
        BY <2>8, <4>1, <4>2, BallotsElectOne DEF OneLeaderAtATime, s
      <4> QED BY <1>5, <2>7, <4>3 DEF q
    <3>3. CASE r.matched <= m.prev_index + Len(m.entries)
      <4>1. x.matched \in Nat
        BY <2>6, <2>8
      <4>2. x.matched <= m.prev_index + Len(m.entries)
        BY <2>6, <3>3
      <4> HIDE DEF m
      <4> QED BY <2>8, <2>9, <3>1, <4>1, <4>2
    <3> QED BY <2>4, <3>2, <3>3
  <2>11. /\ node'[p] = node[p] /\ Past(p)'
    <3>1. /\ Saves(n, t) /\ up' = up /\ turn' = turn
      BY <2>2 DEF Receives
    <3>2. node'[p] = node[p]
      BY <1>1, <1>5, <2>7, <2>8, <3>1 DEF Saves, TypeInv, TypeOK, q
    <3> QED BY <2>5, <2>7, <3>1, <3>2 DEF Past
  <2>12. r \in Message
    BY <2>3 DEF Message
  <2>13. /\ <<x>> \in Seq(Message)
         /\ \A d \in Letters(queue(n, <<x>>)) :
               d.from = n /\ d.msg = x /\ d.to = addressees(n, x)
    BY <2>6, <2>12, ReplyLetter
  <2>14. /\ x.kind = "APPEND_REPLY" /\ x.leader = p
         /\ x.conflict = x.matched + 1 /\ p # n
    BY <1>5, <2>4, <2>5, <2>6, <2>7 DEF q
  <2>15. addressees(n, x) = {p} \cap up
    BY <2>14 DEF addressees
  <2>16. ASSUME NEW d \in Letters(queue(n, <<x>>)) PROVE Posted(d)'
    <3>1. d.from = n /\ d.msg = x /\ d.to \subseteq {p}
      BY <2>13, <2>15
    <3> QED BY <2>10, <2>11, <2>14, <3>1 DEF Posted
  <2> QED BY <1>1, <2>2, <2>3, <2>4, <2>6, <2>13, <2>16, Received DEF s
<1>12. CASE DeliverAppendReply(e, n)
  <2> DEFINE t == recv_append_reply(n, s, m)
  <2>1. m.kind = "APPEND_REPLY" /\ m \in AppendReplyMsg
    BY <1>3, <1>12, KindType DEF DeliverAppendReply, Arrives
  <2>2. Receives(e, n, t, << >>)
    BY <1>12, Zenon DEF DeliverAppendReply, s
  <2>3. /\ m.leader = n /\ m.conflict = m.matched + 1
        /\ s.role = "leader" /\ m.term = s.term => m.matched <= Len(s.log)
    BY <1>2, <1>5, <2>1 DEF Posted, s
  <2>4. Sound(t)
    BY <1>6, <2>1, RecvReplyType
  <2>5. Leading(n, t) /\ Tenured(s, t)
    BY <1>6, <1>7, <2>1, <2>3, AnswerTenured
  <2> HIDE DEF t
  <2>6. /\ << >> \in Seq(Message) /\ queue(n, << >>) = << >>
        /\ Letters(<< >>) = {}
    BY DEF queue, Letters
  <2>7. \A d \in Letters(queue(n, << >>)) : Posted(d)'
    BY <2>6
  <2> QED BY <1>1, <2>2, <2>4, <2>5, <2>6, <2>7, Received DEF s
<1> QED BY <1>8, <1>9, <1>10, <1>11, <1>12

\* A live node's tick: a beat is posted, an election asks the others.
LEMMA TickLeads ==
    ASSUME ElectionInv, Mail, Rows, Recorded, NEW n \in Node, NodeTick(n)
    PROVE  Mail' /\ Rows' /\ Recorded'
<1> DEFINE s == node[n]
           t == tick(n, s)
           out == tick_out(n, s)
<1>1. TypeInv /\ Durable
  BY DEF ElectionInv
<1>2. n \in turn /\ n \in up /\ Sound(s) /\ Sound(t)
  BY <1>1, Live, NodeSound, TickType DEF NodeTick
<1>3. /\ Leading(n, t)
      /\ Beats(s) => t.role = "leader" /\ t.term = s.term /\ t.log = s.log
  <2>1. Leading(n, s)
    BY <1>2 DEF Rows
  <2> HIDE DEF s
  <2> QED BY <1>2, <2>1, TickTenured
<1>4. CASE Beats(s) /\ ~Anchored(n, s)
  <2>1. Raises
    BY <1>4, Zenon DEF NodeTick
  <2>2. UNCHANGED <<node, up, disk, turn, pending, chosen>>
    BY <2>1 DEF Raises, machine, record
  <2>3. Continues
    BY <2>2 DEF Continues, Tenured
  <2>4. \A d \in Letters(pending) : Posted(d)'
    BY <1>1, <2>3, PendingPosted
  <2>5. Mail'
    BY <2>2, <2>4 DEF Mail
  <2> QED BY <2>2, <2>5 DEF Rows, Recorded
<1>5. CASE ~(Beats(s) /\ ~Anchored(n, s))
  <2>1. /\ Saves(n, t) /\ NotesCommits(t) /\ up' = up /\ turn' = turn \ {n}
        /\ pending' = pending \o queue(n, out)
    <3>1. /\ Saves(n, t) /\ Notes(n, t) /\ up' = up /\ turn' = turn \ {n}
          /\ pending' = pending \o queue(n, out)
      BY <1>5, Zenon DEF NodeTick
    <3> HIDE DEF t, out
    <3> QED BY <3>1 DEF Notes
  <2>2. out \in Seq(Message)
    BY <1>2, <1>5, TickOutType
  <2> HIDE DEF t, s
  <2>3. Rows' /\ Recorded'
    BY <1>1, <1>2, <1>3, <2>1, RowsKept, RecordedKept
  <2>4. Continues
    BY <1>1, <1>2, <2>1, TransitContinues
  <2>5. \A d \in Letters(pending) : Posted(d)'
    BY <1>1, <2>4, PendingPosted
  <2>6. node'[n] = t /\ n \in up' \ turn' /\ up' = up
    BY <1>1, <1>2, <2>1 DEF Saves, TypeInv, TypeOK
  <2>7. ASSUME NEW d \in Letters(queue(n, out)) PROVE Posted(d)'
    <3>1. CASE Beats(s)
      <4>1. out = broadcast(n, s)
        BY <3>1 DEF tick_out
      <4>2. \A x \in Letters(queue(n, broadcast(n, s))) : Posted(x)'
        BY <1>2, <1>3, <1>5, <2>6, <3>1, BroadcastPosted
      <4> QED BY <2>7, <4>1, <4>2
    <3>2. CASE ~Beats(s)
      <4>1. PICK i \in 1..Len(out) :
                d = [from |-> n, to |-> addressees(n, out[i]), msg |-> out[i]]
        BY <2>2, <2>7, LettersQueue
      <4>2. PICK x : x = out[i]
        OBVIOUS
      <4>3. x.kind = "REQUEST_VOTE" /\ x.cand = n
        <5>1. out \in {<<request_vote(n, t)>>, << >>}
          BY <3>2 DEF tick_out, t
        <5>2. out = <<request_vote(n, t)>>
          BY <4>1, <5>1
        <5>3. x = request_vote(n, t)
          BY <4>1, <4>2, <5>2
        <5> QED BY <5>3 DEF request_vote
      <4>4. d.from = n /\ d.msg = x /\ d.to = up \ {n}
        BY <4>1, <4>2, <4>3 DEF addressees
      <4> QED BY <4>3, <4>4 DEF Posted
    <3> QED BY <3>1, <3>2
  <2>8. pending \in Seq(Envelope) /\ queue(n, out) \in Seq(Envelope)
    <3>1. up \in SUBSET Node /\ pending \in Seq(Envelope)
      BY <1>1 DEF TypeInv, TypeOK
    <3> HIDE DEF out
    <3> QED BY <2>2, <3>1, QueueType
  <2>9. Letters(pending')
           \subseteq Letters(pending) \cup Letters(queue(n, out))
    BY <2>1, <2>8, LettersConcat
  <2>10. Mail'
    BY <2>5, <2>7, <2>9 DEF Mail
  <2> QED BY <2>3, <2>10
<1> QED BY <1>4, <1>5

\* A command of a client commits nothing yet, so nothing goes unrecorded.
LEMMA SubmitPosts ==
    ASSUME Fixed, ElectionInv, Rows, Recorded,
           NEW n \in Node, NEW cmd \in Command, Submit(n, cmd)
    PROVE  Mail' /\ Rows' /\ Recorded'
<1> DEFINE s == node[n]
           t == client(n, s, cmd)
<1>1. TypeInv /\ Durable
  BY DEF ElectionInv
<1>2. /\ n \in up /\ s.role = "leader" /\ pending = << >> /\ turn' = turn
      /\ turn = {}
  BY <1>1 DEF Submit, Event, InSchedule, Durable
<1>3. Sound(s) /\ s.config = Node /\ Leading(n, s) /\ Sound(t)
  BY <1>1, <1>2, NodeSound, ClientType DEF ElectionInv, ConfigFixed, Rows
<1> HIDE DEF s
<1>4. /\ Leading(n, t) /\ t.commit_index = s.commit_index
      /\ t.role = "leader"
  BY <1>2, <1>3, SubmitLeads
<1> HIDE DEF t
<1>5. Letters(<< >>) = {}
  BY DEF Letters
<1>6. CASE /\ Anchored(n, t) /\ Saves(n, t)
           /\ pending' = queue(n, broadcast(n, t))
           /\ UNCHANGED <<up, cut, raised, record>>
  <2>1. node'[n] = t /\ n \in up' \ turn' /\ up' = up /\ chosen' = chosen
    BY <1>1, <1>2, <1>6 DEF Saves, TypeInv, TypeOK, record
  <2>2. Rows'
    BY <1>1, <1>4, <1>6, <2>1, RowsKept
  <2>3. \A e \in Letters(queue(n, broadcast(n, t))) : Posted(e)'
    BY <1>3, <1>4, <1>6, <2>1, BroadcastPosted
  <2>4. Mail'
    BY <1>6, <2>3 DEF Mail
  <2>5. disk'[n] = persist(t) /\ \A p \in Node \ {n} : disk'[p] = disk[p]
    BY <1>1, <1>6 DEF Saves, TypeInv, TypeOK
  <2>6. disk[n] = persist(s)
    BY <1>1, <1>2 DEF Durable, DiskIsCurrent, s
  <2>7. disk'[n].commit_index = disk[n].commit_index
    BY <1>4, <2>5, <2>6 DEF persist
  <2>8. \A p \in Node : disk'[p].commit_index = disk[p].commit_index
    BY <2>5, <2>7
  <2>9. Recorded'
    BY <2>1, <2>8 DEF Recorded
  <2> QED BY <2>2, <2>4, <2>9
<1>7. CASE raised' = TRUE /\ UNCHANGED <<machine, pending, record>>
  <2>1. Mail'
    BY <1>2, <1>5, <1>7 DEF Mail
  <2> QED BY <1>7, <2>1 DEF Rows, Recorded, machine, record
<1> QED BY <1>6, <1>7 DEF Submit, s, t

\* The steps that run no handler.
LEMMA QuietLeads ==
    ASSUME ElectionInv, Mail, Rows, Recorded,
           \/ \E link \in Link : Cut(link)
           \/ Heal \/ BeginBeats \/ EndTick \/ Done \/ UNCHANGED vars
           \/ \E n \in Node : \/ Crash(n) \/ Restart(n) \/ Read(n)
                              \/ SubmitRefused(n)
           \/ pending # << >> /\ \E n \in Node : Drop(Head(pending), n)
    PROVE  Mail' /\ Rows' /\ Recorded'
<1>1. TypeInv /\ Durable
  BY DEF ElectionInv
<1>2. Letters(<< >>) = {}
  BY DEF Letters
<1>3. ASSUME pending' = << >> PROVE Mail'
  BY <1>2, <1>3 DEF Mail
<1>4. ASSUME UNCHANGED <<node, up, disk, chosen>> PROVE Rows' /\ Recorded'
  BY <1>4 DEF Rows, Recorded
<1>5. CASE \/ \E link \in Link : Cut(link)
           \/ Heal \/ BeginBeats \/ EndTick
           \/ \E n \in Node : Read(n) \/ SubmitRefused(n)
  <2>1. pending' = << >> /\ UNCHANGED <<node, up, disk, chosen>>
    BY <1>5 DEF Cut, Heal, BeginBeats, EndTick, Read, SubmitRefused, Event,
                InSchedule, machine, record
  <2> QED BY <1>3, <1>4, <2>1
<1>6. CASE Done \/ UNCHANGED vars
  <2>1. UNCHANGED <<node, up, disk, chosen, pending, turn>>
    BY <1>6 DEF Done, vars, machine, driver, record
  <2>2. Continues
    BY <2>1 DEF Continues, Tenured
  <2>3. \A d \in Letters(pending) : Posted(d)'
    BY <1>1, <2>2, PendingPosted
  <2>4. Mail'
    BY <2>1, <2>3 DEF Mail
  <2> QED BY <1>4, <2>1, <2>4
<1>7. ASSUME NEW n \in Node, pending # << >>, Drop(Head(pending), n)
      PROVE  Mail' /\ Rows' /\ Recorded'
  <2>1. /\ UNCHANGED <<node, up, disk, chosen, turn>>
        /\ pending' = Rest(Head(pending), n)
    BY <1>7 DEF Drop, machine, record
  <2>2. Continues
    BY <2>1 DEF Continues, Tenured
  <2>3. \A d \in Letters(pending') : Posted(d)'
    BY <1>1, <1>7, <2>1, <2>2, RestPosted
  <2>4. Mail'
    BY <2>3 DEF Mail
  <2> QED BY <1>4, <2>1, <2>4
<1>8. ASSUME NEW n \in Node, Crash(n) PROVE Mail' /\ Rows' /\ Recorded'
  <2>1. /\ disk' = disk /\ up' = up \ {n} /\ \A p \in up' : node'[p] = node[p]
        /\ pending' = << >> /\ chosen' = chosen
    <3>1. pending' = << >> /\ chosen' = chosen
      BY <1>8 DEF Crash, Event, InSchedule, record
    <3> QED BY <1>1, <1>8, <3>1, FaultsKeepDisk
  <2> QED BY <1>3, <2>1 DEF Rows, Recorded
<1>9. ASSUME NEW n \in Node, Restart(n) PROVE Mail' /\ Rows' /\ Recorded'
  <2>1. /\ disk' = disk /\ up' = up \cup {n}
        /\ node'[n] = recover(disk[n])
        /\ \A p \in up : node'[p] = node[p]
        /\ pending' = << >> /\ chosen' = chosen
    <3>1. pending' = << >> /\ chosen' = chosen
      BY <1>9 DEF Restart, InSchedule, driver, record
    <3> QED BY <1>1, <1>9, <3>1, FaultsKeepDisk
  <2>2. n \notin up /\ node'[n].role = "follower"
    <3>1. n \notin up
      BY <1>9 DEF Restart
    <3>2. recover(disk[n]).role = "follower"
      BY DEF recover, init
    <3> QED BY <2>1, <3>1, <3>2
  <2>3. \A p \in up' : Leading(p, node'[p])
    BY <2>1, <2>2 DEF Rows, Leading
  <2> QED BY <1>3, <2>1, <2>3 DEF Rows, Recorded
<1> QED BY <1>5, <1>6, <1>7, <1>8, <1>9

\* Where every command is a write, the newest write noted is the last slot
\* noted.
LEMMA NewestNoted ==
    ASSUME Fixed, TypeInv
    PROVE  /\ Top({i \in 1..Len(chosen) : "write" \in DOMAIN chosen[i]})
                 = Len(chosen)
           /\ Len(chosen) \in Nat
<1> DEFINE L == Len(chosen)
           S == {i \in 1..L : "write" \in DOMAIN chosen[i]}
<1>1. chosen \in Seq(Command) /\ L \in Nat
  BY DEF TypeInv, TypeOK
<1>2. \A i \in 1..L : "write" \in DOMAIN chosen[i]
  <2> TAKE i \in 1..L
  <2>1. chosen[i] \in Command
    BY <1>1
  <2>2. [members : MemberSet] = {}
    BY DEF Fixed
  <2>3. chosen[i] \in [write : Write]
    BY <2>1, <2>2 DEF Command
  <2> QED BY <2>3
<1>3. S = 1..L
  BY <1>2
<1> HIDE DEF S, L
<1>4. S \in SUBSET Nat /\ IsFiniteSet(S)
  <2>1. IsFiniteSet(1..L)
    BY <1>1, FS_Interval
  <2> QED BY <1>1, <1>3, <2>1
<1>5. Top(S) \in Nat /\ (S # {} => Top(S) \in S /\ \A j \in S : j <= Top(S))
  BY <1>4, TopMax
<1>6. CASE L = 0
  <2>1. S = {}
    BY <1>3, <1>6
  <2> QED BY <1>1, <1>6, <2>1 DEF Top, S, L
<1>7. CASE L # 0
  <2>1. L \in S
    BY <1>1, <1>3, <1>7
  <2>2. Top(S) \in 1..L /\ L <= Top(S)
    BY <1>3, <1>5, <2>1
  <2>3. Top(S) = L
    BY <1>1, <2>2
  <2> QED BY <1>1, <2>3 DEF S, L
<1> QED BY <1>6, <1>7

\* A read answers from the leader's commit line, which was noted.
LEMMA ReadStep ==
    ASSUME Fixed, LeaderInv, [Next]_vars
    PROVE  ReadsAnswerCommitted'
<1>1. TypeInv /\ Durable /\ ReadsAnswerCommitted /\ Recorded
  BY DEF LeaderInv, ElectionInv
<1>2. ASSUME UNCHANGED reads PROVE ReadsAnswerCommitted'
  BY <1>1, <1>2 DEF ReadsAnswerCommitted
<1>3. ASSUME NEW n \in Node, Read(n) PROVE ReadsAnswerCommitted'
  <2> DEFINE new == [saw |-> Top(Applied(node[n])),
                     newest |-> Top({i \in 1..Len(chosen) :
                                        "write" \in DOMAIN chosen[i]})]
  <2>1. n \in up /\ reads' = reads \cup {new}
    BY <1>3 DEF Read
  <2>2. disk[n].commit_index = node[n].commit_index
    <3>1. disk[n] = persist(node[n])
      BY <1>1, <2>1 DEF Durable, DiskIsCurrent
    <3> QED BY <3>1 DEF persist
  <2>3. node[n].commit_index \in Nat
    BY <1>1 DEF TypeInv, TypeOK, State
  <2>4. Applied(node[n]) \in SUBSET (1..node[n].commit_index)
    BY DEF Applied
  <2>5. /\ Top(Applied(node[n])) <= node[n].commit_index
        /\ Top(Applied(node[n])) \in Nat
    BY <2>3, <2>4, TopSlot
  <2>6. node[n].commit_index <= Len(chosen)
    BY <1>1, <2>2 DEF Recorded
  <2>7. new.newest = Len(chosen) /\ Len(chosen) \in Nat
    BY <1>1, NewestNoted
  <2>8. new.saw <= new.newest
    <3>1. new.saw = Top(Applied(node[n]))
      OBVIOUS
    <3> HIDE DEF new
    <3> QED BY <2>3, <2>5, <2>6, <2>7, <3>1
  <2> HIDE DEF new
  <2> QED BY <1>1, <2>1, <2>8 DEF ReadsAnswerCommitted
<1>4. CASE \/ \E link \in Link : Cut(link)
           \/ Heal \/ BeginBeats \/ EndTick \/ Done \/ UNCHANGED vars
           \/ \E n \in Node : Crash(n) \/ Restart(n) \/ SubmitRefused(n)
  BY <1>2, <1>4 DEF Cut, Heal, BeginBeats, EndTick, Done, Crash, Restart,
                    SubmitRefused, vars, record
<1>5. ASSUME NEW n \in Node, NEW cmd \in Command, Submit(n, cmd)
      PROVE  UNCHANGED reads
  BY <1>5 DEF Submit, record
<1>6. ASSUME NEW n \in Node, NodeTick(n) PROVE UNCHANGED reads
  <2>1. \/ Raises \/ Notes(n, tick(n, node[n]))
    BY <1>6, Zenon DEF NodeTick
  <2> QED BY <2>1 DEF Raises, Notes, record
<1>7. ASSUME Deliver PROVE UNCHANGED reads
  BY <1>7 DEF Deliver, Drop, DeliverRequestVote, DeliverVoteReply,
              DeliverAppend, DeliverAppendReply, Receives, Notes, Raises,
              record
<1> QED BY <1>2, <1>3, <1>4, <1>5, <1>6, <1>7 DEF Next, Schedule, Drive

\* The invariant holds at the start: nothing is under way and nobody leads.
LEMMA LeaderInit == Init => LeaderInv
<1> SUFFICES ASSUME Init PROVE LeaderInv
  OBVIOUS
<1>1. ElectionInv
  BY ElectionInit
<1>2. Mail
  BY DEF Init, Mail, Letters
<1>3. Rows
  <2>1. \A n \in Node : node[n].role = "follower"
    BY DEF Init, init
  <2> QED BY <2>1 DEF Init, Rows, Leading
<1>4. Recorded
  <2>1. \A n \in Node : disk[n].commit_index = 0
    BY DEF Init, persist, init
  <2>2. Len(chosen) = 0
    BY DEF Init
  <2> QED BY <2>1, <2>2 DEF Recorded
<1>5. ReadsAnswerCommitted
  BY DEF Init, ReadsAnswerCommitted
<1> QED BY <1>1, <1>2, <1>3, <1>4, <1>5 DEF LeaderInv

\* Every step keeps it.
LEMMA LeaderStep ==
    ASSUME Fixed PROVE LeaderInv /\ [Next]_vars => LeaderInv'
<1> SUFFICES ASSUME LeaderInv, [Next]_vars PROVE LeaderInv'
  OBVIOUS
<1>1. ElectionInv' /\ ReadsAnswerCommitted'
  BY ElectionStep, ReadStep DEF LeaderInv
<1>2. ElectionInv /\ Mail /\ Rows /\ Recorded
  BY DEF LeaderInv
<1> SUFFICES Mail' /\ Rows' /\ Recorded'
  BY <1>1 DEF LeaderInv
<1>3. CASE Schedule
  BY <1>2, <1>3, QuietLeads, SubmitPosts DEF Schedule
<1>4. CASE Deliver
  BY <1>2, <1>4, QuietLeads, DeliverLeads DEF Deliver
<1>5. CASE BeginBeats \/ EndTick \/ Done \/ UNCHANGED vars
  BY <1>2, <1>5, QuietLeads
<1>6. ASSUME NEW n \in Node, NodeTick(n) PROVE Mail' /\ Rows' /\ Recorded'
  BY <1>2, <1>6, TickLeads
<1> QED BY <1>3, <1>4, <1>5, <1>6 DEF Next, Drive

\* Under a fixed membership a leader's rows never leave its log, so that
\* _prev_term finds the slot before each: the lookup a broadcast could fail.
THEOREM LeadersStayAnchored ==
    ASSUME Fixed
    PROVE  Spec => [](\A n \in Node : Leads(n) => Anchored(n, node[n]))
<1>1. ASSUME LeaderInv, NEW n \in Node, Leads(n) PROVE Anchored(n, node[n])
  <2>1. RowsFit(node[n])
    BY <1>1 DEF LeaderInv, Rows, Leading, Leads
  <2>2. node[n].config \subseteq Node /\ Len(node[n].log) \in Nat
    <3>1. Sound(node[n])
      BY <1>1, NodeSound DEF LeaderInv, ElectionInv
    <3> QED BY <3>1 DEF Sound, State
  <2> QED BY <2>1, <2>2 DEF Anchored, NextOf, RowsFit
<1>2. LeaderInv => \A n \in Node : Leads(n) => Anchored(n, node[n])
  BY <1>1
<1> QED BY <1>2, LeaderInit, LeaderStep, PTL DEF Spec

\* Under a fixed membership every read is answered from slots the cluster
\* noted as committed, although a leader that takes a write saves its state
\* and notes nothing: a lone append commits nothing, and what an answer
\* commits is noted with it.
THEOREM ReadsCommitted ==
    ASSUME Fixed PROVE Spec => []ReadsAnswerCommitted
<1>1. LeaderInv => ReadsAnswerCommitted
  BY DEF LeaderInv
<1> QED BY <1>1, LeaderInit, LeaderStep, PTL DEF Spec
-----------------------------------------------------------------------------
(* What logs and appends say of a slot, while no term has two leaders.     *)

\* What a log says of each of its slots: its entry, and the term before it.
Slots(log) ==
    {[at |-> i, entry |-> log[i], before |-> TermAt(log, i - 1)] :
        i \in 1..Len(log)}

\* What an APPEND says of the slots it brings.
Brings(m) ==
    {[at |-> m.prev_index + i, entry |-> m.entries[i],
      before |-> IF i > 1 THEN m.entries[i - 1].term
                 ELSE IF m.prev_index = 0 THEN 0 ELSE m.prev_term] :
        i \in 1..Len(m.entries)}

Appends(q) == {m \in Says(q) : m.kind = "APPEND"}

\* All that is said of slots, on disks and under way.
Facts == UNION ({Slots(disk[n].log) : n \in Node}
                \cup {Brings(m) : m \in Appends(pending)})

\* Of a slot and a term only one thing is said.
SlotsAgree ==
    \A x, y \in Facts : x.at = y.at /\ x.entry.term = y.entry.term => x = y

\* Every entry was made by a leader of its term, and a live leader's log
\* reaches every slot of its term.
SlotsLed ==
    /\ \A x \in Facts : \E l \in leaders : l.term = x.entry.term
    /\ \A n \in up : node[n].role = "leader" =>
          \A x \in Facts :
              x.entry.term = node[n].term => x.at <= Len(node[n].log)

\* Who leads was noted, and who was noted does not stand in that term again.
Noted(n) == [term |-> node[n].term, id |-> n] \in leaders

TermsLed ==
    /\ \A n \in up : node[n].role = "leader" => Noted(n)
    /\ \A l \in leaders :
          /\ l.term <= disk[l.id].term
          /\ l.id \in up /\ node[l.id].role = "candidate"
             => l.term < node[l.id].term

MatchInv == /\ TypeInv /\ Durable /\ TermsLed
            /\ OneLeaderPerTerm => SlotsAgree /\ SlotsLed

\* A mismatch or a refusal keeps some of the slots, and an accepted APPEND
\* adds its own behind a slot both sides hold.
LEMMA ReconcileSlots ==
    ASSUME NEW f, Sound(f), NEW m \in AppendMsg
    PROVE  Slots(reconcile(f, m).log) \subseteq Slots(f.log) \cup Brings(m)
<1>1. /\ f.log \in Seq(Entry) /\ Len(f.log) \in Nat /\ f \in State
      /\ m.prev_index \in Nat /\ m.entries \in Seq(Entry)
      /\ Len(m.entries) \in Nat
  BY DEF Sound, State, AppendMsg
<1>2. ASSUME NEW k \in Nat, k <= Len(f.log)
      PROVE  /\ Len(SubSeq(f.log, 1, k)) = k
             /\ SubSeq(f.log, 1, k) \in Seq(Entry)
             /\ \A i \in 1..k : SubSeq(f.log, 1, k)[i] = f.log[i]
  BY <1>1, <1>2
<1>3. ASSUME NEW log, NEW i \in Nat, i <= Len(f.log), i >= 1,
             \A j \in 1..i : log[j] = f.log[j]
      PROVE  [at |-> i, entry |-> log[i], before |-> TermAt(log, i - 1)]
                \in Slots(f.log)
  <2>1. i \in 1..Len(f.log) /\ log[i] = f.log[i]
    BY <1>1, <1>3
  <2>2. TermAt(log, i - 1) = TermAt(f.log, i - 1)
    <3>1. CASE i = 1
      BY <3>1 DEF TermAt
    <3>2. CASE i # 1
      <4>1. i - 1 \in 1..i
        BY <1>3, <3>2
      <4> QED BY <1>3, <4>1 DEF TermAt
    <3> QED BY <3>1, <3>2
  <2> QED BY <2>1, <2>2 DEF Slots
<1>4. CASE m.prev_index > Len(f.log)
  BY <1>4 DEF reconcile
<1>5. CASE /\ ~(m.prev_index > Len(f.log))
           /\ TermAt(f.log, m.prev_index) # m.prev_term /\ m.prev_index > 0
  <2> DEFINE k == Kept(f.log, m)
  <2>1. k \in Nat /\ k <= Len(f.log)
    BY <1>1, <1>5, KeptType
  <2>2. reconcile(f, m).log = SubSeq(f.log, 1, k)
    BY <1>1, <1>5 DEF reconcile, State
  <2> HIDE DEF k
  <2>3. PICK log : log = SubSeq(f.log, 1, k)
    OBVIOUS
  <2>4. Len(log) = k /\ \A i \in 1..k : log[i] = f.log[i]
    BY <1>2, <2>1, <2>3
  <2>5. ASSUME NEW i \in 1..Len(log)
        PROVE  [at |-> i, entry |-> log[i], before |-> TermAt(log, i - 1)]
                  \in Slots(f.log)
    <3>1. /\ i \in Nat /\ i >= 1 /\ i <= Len(f.log)
          /\ \A j \in 1..i : log[j] = f.log[j]
      BY <1>1, <2>1, <2>4, <2>5
    <3> QED BY <1>3, <3>1
  <2>6. Slots(log) \subseteq Slots(f.log)
    BY <2>5 DEF Slots
  <2> QED BY <2>2, <2>3, <2>6
<1>6. CASE /\ ~(m.prev_index > Len(f.log))
           /\ ~(TermAt(f.log, m.prev_index) # m.prev_term
                /\ m.prev_index > 0)
  <2> DEFINE p == m.prev_index
             log2 == SubSeq(f.log, 1, p) \o m.entries
  <2>1. reconcile(f, m).log = log2
    BY <1>1, <1>6 DEF reconcile, State
  <2>2. PICK log : log = log2
    OBVIOUS
  <2>3. /\ Len(log) = p + Len(m.entries)
        /\ \A i \in 1..p : log[i] = f.log[i]
        /\ \A i \in 1..Len(m.entries) : log[p + i] = m.entries[i]
    <3>1. PICK g : g = SubSeq(f.log, 1, p)
      OBVIOUS
    <3>2. Len(g) = p /\ g \in Seq(Entry) /\ \A i \in 1..p : g[i] = f.log[i]
      BY <1>1, <1>2, <1>6, <3>1
    <3>3. PICK es : es = m.entries
      OBVIOUS
    <3>4. es \in Seq(Entry) /\ Len(es) \in Nat /\ p \in Nat /\ log = g \o es
      BY <1>1, <2>2, <3>1, <3>3
    <3> HIDE DEF p, log2
    <3>5. /\ Len(log) = p + Len(es)
          /\ \A i \in 1..(p + Len(es)) : log[i] = IF i <= p THEN g[i] ELSE es[i - p]
      BY <3>2, <3>4, ConcatProperties
    <3>6. \A i \in 1..p : log[i] = f.log[i]
      BY <3>2, <3>4, <3>5
    <3>7. \A i \in 1..Len(es) : log[p + i] = es[i]
      <4> TAKE i \in 1..Len(es)
      <4>1. /\ p + i \in 1..(p + Len(es)) /\ ~(p + i <= p) /\ p + i - p = i
        BY <3>4
      <4>2. PICK k : k = p + i
        OBVIOUS
      <4>3. log[k] = es[k - p]
        BY <3>5, <4>1, <4>2
      <4>4. k - p = i
        BY <3>4, <4>1, <4>2
      <4>5. es[k - p] = es[i]
        BY <4>4
      <4> QED BY <4>2, <4>3, <4>5
    <3> QED BY <3>3, <3>5, <3>6, <3>7
  <2> HIDE DEF log2
  <2>4. ASSUME NEW i \in 1..Len(log)
        PROVE  [at |-> i, entry |-> log[i], before |-> TermAt(log, i - 1)]
                  \in Slots(f.log) \cup Brings(m)
    <3>1. CASE i <= p
      <4>1. /\ i \in Nat /\ i >= 1 /\ i <= Len(f.log)
            /\ \A j \in 1..i : log[j] = f.log[j]
        BY <1>1, <1>6, <2>3, <2>4, <3>1
      <4> QED BY <1>3, <4>1
    <3>2. CASE i > p
      <4>1. PICK k \in 1..Len(m.entries) : i = p + k
        <5>1. i - p \in 1..Len(m.entries) /\ i = p + (i - p)
          BY <1>1, <2>3, <2>4, <3>2
        <5> QED BY <5>1
      <4>2. log[i] = m.entries[k]
        BY <2>3, <4>1
      <4>3. TermAt(log, i - 1)
              = IF k > 1 THEN m.entries[k - 1].term
                ELSE IF p = 0 THEN 0 ELSE m.prev_term
        <5>1. CASE k = 1 /\ p # 0
          <6>1. i - 1 = p /\ p \in 1..p /\ p > 0
            BY <1>1, <4>1, <5>1
          <6>2. TermAt(log, p) = TermAt(f.log, p)
            BY <2>3, <5>1, <6>1 DEF TermAt
          <6> QED BY <1>6, <5>1, <6>1, <6>2
        <5>2. CASE k # 1
          <6>1. k - 1 \in 1..Len(m.entries) /\ i - 1 = p + (k - 1) /\ i - 1 # 0
            BY <1>1, <4>1, <5>2
          <6>2. log[i - 1] = m.entries[k - 1]
            BY <2>3, <6>1
          <6> QED BY <5>2, <6>1, <6>2 DEF TermAt
        <5>3. CASE k = 1 /\ p = 0
          BY <4>1, <5>3 DEF TermAt
        <5> QED BY <5>1, <5>2, <5>3
      <4>4. [at |-> i, entry |-> log[i], before |-> TermAt(log, i - 1)]
              \in Brings(m)
        BY <4>1, <4>2, <4>3 DEF Brings
      <4> QED BY <4>4
    <3> QED BY <1>1, <2>4, <3>1, <3>2
  <2>5. Slots(log) \subseteq Slots(f.log) \cup Brings(m)
    BY <2>4 DEF Slots
  <2> QED BY <2>1, <2>2, <2>5
<1> QED BY <1>1, <1>4, <1>5, <1>6

\* A command appended brings one slot, the last.
LEMMA CommandSlots ==
    ASSUME NEW s, Sound(s), NEW cmd \in Command
    PROVE  LET log == client_submit(s, cmd).log IN
           /\ Len(log) = Len(s.log) + 1
           /\ Slots(log) \subseteq Slots(s.log) \cup
                 {[at |-> Len(log), entry |-> [term |-> s.term, cmd |-> cmd],
                   before |-> LastTerm(s.log)]}
<1> DEFINE e == [term |-> s.term, cmd |-> cmd]
<1>1. s \in State /\ s.log \in Seq(Entry) /\ Len(s.log) \in Nat
  BY DEF Sound, State
<1>2. client_submit(s, cmd).log = Append(s.log, e)
  BY <1>1 DEF client_submit, State
<1>3. PICK log : log = Append(s.log, e)
  OBVIOUS
<1>4. /\ Len(log) = Len(s.log) + 1
      /\ \A i \in 1..Len(s.log) : log[i] = s.log[i]
      /\ log[Len(s.log) + 1] = e
  BY <1>1, <1>3
<1>5. \A i \in 1..Len(log) : TermAt(log, i - 1) = TermAt(s.log, i - 1)
  <2> TAKE i \in 1..Len(log)
  <2>1. i - 1 = 0 \/ i - 1 \in 1..Len(s.log)
    BY <1>1, <1>4
  <2> QED BY <1>4, <2>1 DEF TermAt
<1>6. ASSUME NEW i \in 1..Len(log)
      PROVE  [at |-> i, entry |-> log[i], before |-> TermAt(log, i - 1)]
                \in Slots(s.log) \cup
                    {[at |-> Len(log), entry |-> e,
                      before |-> LastTerm(s.log)]}
  <2>1. CASE i = Len(log)
    <3>1. i - 1 = Len(s.log)
      BY <1>1, <1>4, <2>1
    <3>2. TermAt(log, i - 1) = LastTerm(s.log)
      BY <1>5, <3>1 DEF LastTerm
    <3> QED BY <1>4, <2>1, <3>2
  <2>2. CASE i # Len(log)
    <3>1. i \in 1..Len(s.log)
      BY <1>1, <1>4, <2>2
    <3> QED BY <1>4, <1>5, <3>1 DEF Slots
  <2> QED BY <2>1, <2>2
<1>7. Slots(log) \subseteq Slots(s.log) \cup
          {[at |-> Len(log), entry |-> e, before |-> LastTerm(s.log)]}
  BY <1>6 DEF Slots
<1> QED BY <1>2, <1>3, <1>4, <1>7

\* What a leader sends a peer it says of its own log.
LEMMA AppendSlots ==
    ASSUME NEW n \in Node, NEW s, Sound(s), NEW p \in Node
    PROVE  Brings(append(n, s, p)) \subseteq Slots(s.log)
<1> DEFINE next == NextOf(s, p)
<1>1. /\ s.log \in Seq(Entry) /\ Len(s.log) \in Nat
      /\ s.next_index \in [Node -> Nat]
  BY DEF Sound, State, Row
<1>2. next \in Nat /\ next >= 1
  BY <1>1 DEF NextOf
<1>3. PICK m : m = append(n, s, p)
  OBVIOUS
<1>4. /\ m.prev_index = next - 1 /\ m.prev_term = TermAt(s.log, next - 1)
      /\ m.entries = SubSeq(s.log, next, Len(s.log))
  BY <1>3 DEF append
<1> HIDE DEF next
<1>5. /\ Len(m.entries) \in Nat
      /\ \A i \in 1..Len(m.entries) : /\ next + i - 1 \in 1..Len(s.log)
                                      /\ m.entries[i] = s.log[next + i - 1]
  BY <1>1, <1>2, <1>4
<1>6. ASSUME NEW i \in 1..Len(m.entries)
      PROVE  [at |-> m.prev_index + i, entry |-> m.entries[i],
              before |-> IF i > 1 THEN m.entries[i - 1].term
                         ELSE IF m.prev_index = 0 THEN 0 ELSE m.prev_term]
                \in Slots(s.log)
  <2>1. PICK k \in 1..Len(s.log) : k = next + i - 1
    BY <1>5
  <2>2. m.prev_index + i = k /\ m.entries[i] = s.log[k]
    BY <1>2, <1>4, <1>5, <2>1
  <2>3. (IF i > 1 THEN m.entries[i - 1].term
         ELSE IF m.prev_index = 0 THEN 0 ELSE m.prev_term)
            = TermAt(s.log, k - 1)
    <3>1. CASE i > 1
      <4>1. i - 1 \in 1..Len(m.entries) /\ next + (i - 1) - 1 = k - 1
        BY <1>2, <1>5, <2>1, <3>1
      <4>2. m.entries[i - 1] = s.log[k - 1]
        BY <1>5, <4>1
      <4>3. k - 1 # 0
        BY <1>2, <1>5, <2>1, <3>1
      <4> QED BY <3>1, <4>2, <4>3 DEF TermAt
    <3>2. CASE ~(i > 1)
      <4>1. next - 1 = k - 1
        BY <1>2, <1>5, <2>1, <3>2
      <4> QED BY <1>4, <3>2, <4>1 DEF TermAt
    <3> QED BY <3>1, <3>2
  <2> QED BY <2>2, <2>3 DEF Slots
<1>7. Brings(m) \subseteq Slots(s.log)
  BY <1>6 DEF Brings
<1> QED BY <1>3, <1>7

\* So does a broadcast.
LEMMA BroadcastSlots ==
    ASSUME NEW n \in Node, NEW s, Sound(s), broadcast(n, s) \in Seq(Message)
    PROVE  \A m \in Appends(queue(n, broadcast(n, s))) :
               Brings(m) \subseteq Slots(s.log)
<1> DEFINE out == broadcast(n, s)
           P == s.config \ {n}
<1>1. TAKE m \in Appends(queue(n, out))
<1>2. PICK i \in 1..Len(out) : m = out[i]
  BY SaysQueue DEF Appends
<1>3. P \in SUBSET Nat /\ P \subseteq Node /\ IsFiniteSet(P)
  BY NodeAssumption, FS_Subset DEF Sound, State
<1>4. Cardinality(P) \in Nat
  BY <1>3, FS_CardinalityType
<1>5. i \in 1..Cardinality(P)
  <2>1. DOMAIN out = 1..Cardinality(P)
    BY DEF broadcast
  <2> QED BY <1>4, <2>1
<1>6. out[i] = append(n, s, nth(P, i)) /\ nth(P, i) \in P
  BY <1>3, <1>5, NthMember DEF broadcast
<1> QED BY <1>2, <1>3, <1>6, AppendSlots
-----------------------------------------------------------------------------
(* What each step says of slots, and of who leads.                         *)

\* A step on which nothing new is said, and no leader's log changes.
Repeats ==
    /\ Facts' \subseteq Facts
    /\ \A p \in up' : node'[p].role = "leader" => node'[p].log = node[p].log

\* A step notes only who leads after it, and who has begun to.
Noting ==
    /\ leaders \subseteq leaders'
    /\ \A l \in leaders' \ leaders :
          /\ l.id \in up' /\ node'[l.id].role = "leader"
          /\ node'[l.id].term = l.term
    /\ \A p \in up' : node'[p].role = "leader" =>
          Noted(p)' \/ (p \in up /\ node[p].role = "leader")

\* A leader's client adds one slot, in the leader's term, to its log.
Commands(n, x) ==
    /\ n \in up /\ up' = up /\ leaders' = leaders
    /\ node[n].role = "leader" /\ node'[n].role = "leader"
    /\ node'[n].term = node[n].term
    /\ x.entry.term = node[n].term
    /\ x.at = Len(node[n].log) + 1 /\ Len(node'[n].log) = x.at
    /\ \A p \in Node \ {n} : node'[p] = node[p]
    /\ Facts' \subseteq Facts \cup {x}

\* A slot is a number.
LEMMA FactsType ==
    ASSUME TypeInv, NEW x \in Facts PROVE x.at \in Nat
<1>1. CASE \E n \in Node : x \in Slots(disk[n].log)
  <2>1. PICK n \in Node : x \in Slots(disk[n].log)
    BY <1>1
  <2>2. PICK i \in 1..Len(disk[n].log) : x.at = i
    BY <2>1 DEF Slots
  <2> QED BY <2>2
<1>2. CASE \E m \in Appends(pending) : x \in Brings(m)
  <2>1. PICK m \in Appends(pending) : x \in Brings(m)
    BY <1>2
  <2>2. m \in Message
    <3>1. pending \in Seq(Envelope)
      BY DEF TypeInv, TypeOK
    <3>2. \A e \in Letters(pending) : e \in Envelope
      BY <3>1 DEF Letters
    <3> QED BY <2>1, <3>2 DEF Appends, Says, Envelope
  <2>3. m.prev_index \in Nat
    BY <2>1, <2>2, KindType DEF Appends, AppendMsg
  <2>4. PICK i \in 1..Len(m.entries) : x.at = m.prev_index + i
    BY <2>1 DEF Brings
  <2> QED BY <2>3, <2>4
<1> QED BY <1>1, <1>2 DEF Facts

\* The disk of a live node says what the node's log does.
LEMMA LiveSlots ==
    ASSUME TypeInv, Durable, NEW n \in up
    PROVE  Slots(node[n].log) \subseteq Facts
<1>1. n \in Node /\ disk[n] = persist(node[n])
  BY DEF TypeInv, TypeOK, Durable, DiskIsCurrent
<1>2. disk[n].log = node[n].log
  BY <1>1 DEF persist
<1> QED BY <1>1, <1>2 DEF Facts

\* A save and what is queued with it say no more than X, if their parts do.
LEMMA SavedFacts ==
    ASSUME TypeInv, NEW n \in Node, NEW t, Saves(n, t),
           NEW X, Facts \subseteq X, Slots(t.log) \subseteq X,
           \A m \in Appends(pending') :
               m \in Appends(pending) \/ Brings(m) \subseteq X
    PROVE  Facts' \subseteq X
<1>1. /\ disk'[n] = persist(t)
      /\ \A p \in Node \ {n} : disk'[p] = disk[p]
  BY DEF Saves, TypeInv, TypeOK
<1>2. \A p \in Node : Slots(disk'[p].log) \subseteq X
  <2> TAKE p \in Node
  <2>1. CASE p = n
    BY <1>1, <2>1 DEF persist
  <2>2. CASE p # n
    BY <1>1, <2>2 DEF Facts
  <2> QED BY <2>1, <2>2
<1>3. \A m \in Appends(pending') : Brings(m) \subseteq X
  BY DEF Facts
<1> QED BY <1>2, <1>3 DEF Facts

\* A step that leaves disks, leaders and live nodes alone, and adds no
\* message, says nothing new.
LEMMA QuietFacts ==
    ASSUME disk' = disk, leaders' = leaders,
           Appends(pending') \subseteq Appends(pending),
           \A p \in up' : node'[p].role = "leader" =>
                              p \in up /\ node'[p] = node[p]
    PROVE  Repeats /\ Noting
BY DEF Repeats, Noting, Facts

\* A handler that says only what was said, and leaves a leader its log.
LEMMA SavedNoted ==
    ASSUME TypeInv, NEW n \in Node, n \in up, NEW t, Saves(n, t),
           NotesLeader(n, t), up' = up, Slots(t.log) \subseteq Facts,
           t.role = "leader" => t.log = node[n].log,
           \A m \in Appends(pending') :
               m \in Appends(pending) \/ Brings(m) \subseteq Facts
    PROVE  Repeats /\ Noting
<1>1. Facts' \subseteq Facts
  BY SavedFacts
<1>2. node'[n] = t /\ \A p \in Node \ {n} : node'[p] = node[p]
  BY DEF Saves, TypeInv, TypeOK
<1>3. up \subseteq Node
  BY DEF TypeInv, TypeOK
<1>4. Repeats
  BY <1>1, <1>2, <1>3 DEF Repeats
<1>5. leaders' = leaders \cup
          (IF t.role = "leader" THEN {[term |-> t.term, id |-> n]} ELSE {})
  BY DEF NotesLeader
<1>6. \A p \in up' : node'[p].role = "leader" =>
          Noted(p)' \/ (p \in up /\ node[p].role = "leader")
  <2> SUFFICES ASSUME NEW p \in up', node'[p].role = "leader"
               PROVE  Noted(p)' \/ (p \in up /\ node[p].role = "leader")
    OBVIOUS
  <2>1. CASE p = n
    BY <1>2, <1>5, <2>1 DEF Noted
  <2>2. CASE p # n
    BY <1>2, <1>3, <2>2
  <2> QED BY <2>1, <2>2
<1>7. Noting
  BY <1>2, <1>5, <1>6 DEF Noting
<1> QED BY <1>4, <1>7

\* Whatever handler receives the head of the queue.
LEMMA ReceivedFacts ==
    ASSUME TypeInv, pending # << >>, NEW n \in Node, n \in up,
           NEW t, NEW out \in Seq(Message),
           Receives(Head(pending), n, t, out),
           Slots(t.log) \subseteq Facts,
           t.role = "leader" => t.log = node[n].log,
           \A m \in Appends(queue(n, out)) : Brings(m) \subseteq Facts
    PROVE  Repeats /\ Noting
<1>1. /\ Saves(n, t) /\ NotesLeader(n, t) /\ up' = up
      /\ pending' = Rest(Head(pending), n) \o queue(n, out)
  BY DEF Receives, Notes
<1>2. /\ Rest(Head(pending), n) \in Seq(Envelope)
      /\ queue(n, out) \in Seq(Envelope)
      /\ Says(Rest(Head(pending), n)) \subseteq Says(pending)
  <2>1. up \in SUBSET Node /\ pending \in Seq(Envelope)
    BY DEF TypeInv, TypeOK
  <2> QED BY <2>1, RestType, QueueType, SaysRest
<1>3. Says(pending') \subseteq Says(pending) \cup Says(queue(n, out))
  BY <1>1, <1>2, SaysConcat
<1>4. \A m \in Appends(pending') :
          m \in Appends(pending) \/ Brings(m) \subseteq Facts
  BY <1>3 DEF Appends
<1> QED BY <1>1, <1>4, SavedNoted

\* An advance of the commit line leaves the log.
LEMMA AdvanceLog ==
    ASSUME NEW n, NEW s, Sound(s)
    PROVE  advance(n, s).log = s.log
<1>1. advance_commit(n, s).log = s.log
  BY DEF advance_commit, Sound, State
<1>2. Sound(advance_commit(n, s))
  BY AdvanceType
<1>3. ASSUME NEW q, Sound(q) PROVE apply_committed(q).log = q.log
  BY <1>3 DEF apply_committed, Sound, State
<1> QED BY <1>1, <1>2, <1>3 DEF advance

\* The handlers that answer votes and answers, and the tick, leave the log.
LEMMA LogsKept ==
    ASSUME NEW n \in Node, NEW s, Sound(s)
    PROVE  /\ \A m \in RequestVoteMsg : recv_request_vote(s, m).log = s.log
           /\ \A m \in VoteReplyMsg : recv_vote_reply(n, s, m).log = s.log
           /\ \A m \in AppendReplyMsg : recv_append_reply(n, s, m).log = s.log
           /\ tick(n, s).log = s.log
<1>1. s \in State
  BY DEF Sound
<1>2. ASSUME NEW m \in RequestVoteMsg
      PROVE  recv_request_vote(s, m).log = s.log
  <2>1. adopt(s, m.term).log = s.log /\ adopt(s, m.term) \in State
    BY <1>1, AdoptType DEF adopt, RequestVoteMsg, State, Sound
  <2> QED BY <2>1 DEF recv_request_vote, grant_vote, follower, State
<1>3. ASSUME NEW m \in VoteReplyMsg
      PROVE  recv_vote_reply(n, s, m).log = s.log
  BY <1>1 DEF recv_vote_reply, follower, become_leader, State
<1>4. ASSUME NEW m \in AppendReplyMsg
      PROVE  recv_append_reply(n, s, m).log = s.log
  <2>1. Sound(observe_reply(s, m)) /\ observe_reply(s, m).log = s.log
    BY <1>1, ObserveType DEF observe_reply, State
  <2>2. advance(n, observe_reply(s, m)).log = s.log
    BY <2>1, AdvanceLog
  <2> QED BY <1>1, <2>2 DEF recv_append_reply, follower, State
<1>5. tick(n, s).log = s.log
  BY <1>1 DEF tick, start_election, State
<1> QED BY <1>2, <1>3, <1>4, <1>5

\* Whoever takes an APPEND follows, with no slot but its own and those the
\* APPEND brings.
LEMMA AppendTaken ==
    ASSUME NEW s, Sound(s), NEW m \in AppendMsg, Builds(handle_append(s, m))
    PROVE  LET t == recv_append(s, m) IN
           /\ Slots(t.log) \subseteq Slots(s.log) \cup Brings(m)
           /\ t.role = "leader" => t.log = s.log
<1> DEFINE h == handle_append(s, m)
           d == stand_down(s, m)
           t == recv_append(s, m)
<1>1. Sound(h) /\ Sound(d)
  BY HandleType, StandDownType DEF Sound
<1>2. t.log = h.log /\ t.role = h.role
  <2>1. ASSUME NEW q, Sound(q)
        PROVE  /\ apply_committed(q).log = q.log
               /\ apply_committed(q).role = q.role
    BY <2>1 DEF apply_committed, Sound, State
  <2> QED BY <1>1, <2>1 DEF recv_append
<1> HIDE DEF t
<1>3. CASE Refuses(s, m)
  <2>1. h = s
    BY <1>3 DEF handle_append
  <2> HIDE DEF h
  <2> QED BY <1>2, <2>1 DEF t
<1>4. CASE ~Refuses(s, m)
  <2>1. h = reconcile(d, m)
    BY <1>4 DEF handle_append
  <2>2. adopt(s, m.term) \in State /\ adopt(s, m.term).log = s.log
    BY AdoptType DEF adopt, Sound, State, AppendMsg
  <2>3. d.log = s.log /\ d.role = "follower"
    BY <2>2 DEF stand_down, follower, State
  <2> HIDE DEF d
  <2>4. reconcile(d, m).role = d.role
    BY <1>1 DEF reconcile, Sound, State
  <2>5. Slots(reconcile(d, m).log) \subseteq Slots(d.log) \cup Brings(m)
    BY <1>1, ReconcileSlots
  <2> HIDE DEF h
  <2> QED BY <1>2, <2>1, <2>3, <2>4, <2>5 DEF t
<1> QED BY <1>3, <1>4

\* One reply that is no APPEND brings no slot.
LEMMA ReplyBrings ==
    ASSUME NEW n \in Node, NEW r \in Message, r.kind # "APPEND"
    PROVE  /\ <<r>> \in Seq(Message)
           /\ Appends(queue(n, <<r>>)) = {}
<1>1. <<r>> \in Seq(Message) /\ Len(<<r>>) = 1 /\ <<r>>[1] = r
  OBVIOUS
<1>2. ASSUME NEW m \in Says(queue(n, <<r>>)) PROVE m = r
  <2>1. PICK i \in 1..Len(<<r>>) : m = <<r>>[i]
    BY <1>1, SaysQueue
  <2>2. i = 1
    BY <1>1
  <2> QED BY <1>1, <2>1, <2>2
<1> QED BY <1>1, <1>2 DEF Appends

\* Nor does a handler that answers nothing.
LEMMA SilenceBrings ==
    ASSUME NEW n \in Node
    PROVE  << >> \in Seq(Message) /\ Appends(queue(n, << >>)) = {}
<1>1. << >> \in Seq(Message) /\ 1..Len(<< >>) = {}
  OBVIOUS
<1>2. ASSUME NEW m \in Says(queue(n, << >>)) PROVE FALSE
  <2>1. PICK out \in Seq(Message) : out = << >>
    BY <1>1
  <2>2. \E i \in 1..Len(out) : m = out[i]
    BY <1>2, <2>1, SaysQueue
  <2> QED BY <1>1, <2>1, <2>2
<1> QED BY <1>1, <1>2 DEF Appends

\* A delivery repeats what the message and the log say.
LEMMA DeliverFacts ==
    ASSUME TypeInv, Durable, pending # << >>, NEW n \in Node,
           \/ Drop(Head(pending), n)
           \/ DeliverRequestVote(Head(pending), n)
           \/ DeliverVoteReply(Head(pending), n)
           \/ DeliverAppend(Head(pending), n)
           \/ DeliverAppendReply(Head(pending), n)
    PROVE  Repeats /\ Noting
<1> DEFINE e == Head(pending)
           s == node[n]
<1>1. e \in Envelope /\ e.msg \in Message /\ e.msg \in Says(pending)
  <2>1. /\ pending \in Seq(Envelope) /\ e = pending[1]
        /\ 1 \in 1..Len(pending)
    BY DEF TypeInv, TypeOK
  <2> QED BY <2>1, RestType DEF Envelope, Says, Letters
<1>2. Sound(s) /\ pending \in Seq(Envelope) /\ up \subseteq Node
  BY NodeSound DEF TypeInv, TypeOK
<1>3. CASE Drop(e, n)
  <2>1. /\ disk' = disk /\ leaders' = leaders /\ up' = up /\ node' = node
        /\ pending' = Rest(e, n)
    BY <1>3 DEF Drop, machine, record
  <2>2. Appends(pending') \subseteq Appends(pending)
    BY <1>2, <2>1, SaysRest DEF Appends
  <2> QED BY <2>1, <2>2, QuietFacts
<1>4. ASSUME ~Severed(e, n) PROVE n \in up /\ Slots(s.log) \subseteq Facts
  BY <1>4, Live, LiveSlots
<1> HIDE DEF e, s
<1>5. CASE DeliverRequestVote(e, n)
  <2> DEFINE t == recv_request_vote(s, e.msg)
             r == vote_reply(n, s, e.msg)
  <2>1. e.msg \in RequestVoteMsg /\ ~Severed(e, n)
    BY <1>1, <1>5, KindType DEF DeliverRequestVote, Arrives
  <2>2. Receives(e, n, t, <<r>>)
    BY <1>5, Zenon DEF DeliverRequestVote, s
  <2>3. t.log = s.log /\ r \in VoteReplyMsg
    BY <1>2, <2>1, LogsKept, VoteReplyType
  <2> HIDE DEF t, r
  <2>4. r \in Message /\ r.kind # "APPEND"
    BY <2>3 DEF Message, VoteReplyMsg
  <2>5. <<r>> \in Seq(Message) /\ Appends(queue(n, <<r>>)) = {}
    BY <2>4, ReplyBrings
  <2> QED BY <1>4, <2>1, <2>2, <2>3, <2>5, ReceivedFacts DEF e, s
<1>6. CASE DeliverVoteReply(e, n)
  <2> DEFINE t == recv_vote_reply(n, s, e.msg)
             out == IF Elects(n, s, e.msg) THEN broadcast(n, t) ELSE << >>
  <2>1. e.msg \in VoteReplyMsg /\ ~Severed(e, n)
    BY <1>1, <1>6, KindType DEF DeliverVoteReply, Arrives
  <2>2. Receives(e, n, t, out)
    BY <1>6, Zenon DEF DeliverVoteReply, s
  <2>3. Sound(t) /\ t.log = s.log
    BY <1>2, <2>1, TallyType, LogsKept
  <2>4. ASSUME Elects(n, s, e.msg) PROVE broadcast(n, t) \in Seq(AppendMsg)
    <3>1. s.term \in Nat /\ e.msg.term \in Nat
      BY <1>2, <2>1 DEF Sound, State, VoteReplyMsg
    <3>2. t = become_leader(n, s)
      BY <2>4, <3>1 DEF Elects, recv_vote_reply
    <3> QED BY <1>2, <3>2, LeaderType, BroadcastType
  <2> HIDE DEF t
  <2>5. out \in Seq(Message)
    BY <2>4 DEF Message
  <2>6. \A m \in Appends(queue(n, out)) : Brings(m) \subseteq Slots(t.log)
    <3>1. CASE Elects(n, s, e.msg)
      BY <2>3, <2>5, <3>1, BroadcastSlots
    <3>2. CASE ~Elects(n, s, e.msg)
      <4>1. Appends(queue(n, << >>)) = {}
        BY SilenceBrings
      <4> QED BY <3>2, <4>1
    <3> QED BY <3>1, <3>2
  <2> HIDE DEF out
  <2> QED BY <1>4, <2>1, <2>2, <2>3, <2>5, <2>6, ReceivedFacts DEF e, s
<1>7. CASE DeliverAppend(e, n)
  <2>1. e.msg \in AppendMsg /\ ~Severed(e, n) /\ e.msg.kind = "APPEND"
    BY <1>1, <1>7, KindType DEF DeliverAppend, Arrives
  <2>2. CASE Builds(handle_append(s, e.msg))
    <3> DEFINE t == recv_append(s, e.msg)
               r == append_reply(n, s, e.msg)
    <3>1. Receives(e, n, t, <<r>>)
      BY <1>7, <2>2, Zenon DEF DeliverAppend, s
    <3>2. /\ Slots(t.log) \subseteq Slots(s.log) \cup Brings(e.msg)
          /\ t.role = "leader" => t.log = s.log
      BY <1>2, <2>1, <2>2, AppendTaken
    <3>3. r \in AppendReplyMsg
      BY <1>2, <2>1, <2>2, RecvAppendType
    <3> HIDE DEF t, r
    <3>4. r \in Message /\ r.kind # "APPEND"
      BY <3>3 DEF Message, AppendReplyMsg
    <3>5. <<r>> \in Seq(Message) /\ Appends(queue(n, <<r>>)) = {}
      BY <3>4, ReplyBrings
    <3>6. Brings(e.msg) \subseteq Facts
      BY <1>1, <2>1 DEF Facts, Appends
    <3>7. Slots(t.log) \subseteq Facts
      BY <1>4, <2>1, <3>2, <3>6
    <3> QED BY <1>4, <2>1, <3>1, <3>2, <3>5, <3>7, ReceivedFacts DEF e, s
  <2>3. CASE ~Builds(handle_append(s, e.msg))
    <3>1. Raises
      BY <1>7, <2>3, Zenon DEF DeliverAppend, s
    <3> QED BY <3>1, QuietFacts DEF Raises, machine, record
  <2> QED BY <2>2, <2>3
<1>8. CASE DeliverAppendReply(e, n)
  <2> DEFINE t == recv_append_reply(n, s, e.msg)
  <2>1. e.msg \in AppendReplyMsg /\ ~Severed(e, n)
    BY <1>1, <1>8, KindType DEF DeliverAppendReply, Arrives
  <2>2. Receives(e, n, t, << >>)
    BY <1>8, Zenon DEF DeliverAppendReply, s
  <2>3. t.log = s.log
    BY <1>2, <2>1, LogsKept
  <2> HIDE DEF t
  <2>4. << >> \in Seq(Message) /\ Appends(queue(n, << >>)) = {}
    BY SilenceBrings
  <2>5. \A m \in Appends(queue(n, << >>)) : Brings(m) \subseteq Facts
    BY <2>4
  <2>6. n \in up /\ Slots(t.log) \subseteq Facts
    BY <1>4, <2>1, <2>3
  <2> QED BY <2>2, <2>3, <2>4, <2>5, <2>6, ReceivedFacts DEF e, s
<1> QED BY <1>3, <1>5, <1>6, <1>7, <1>8 DEF e

\* A tick that beats repeats the leader's log.
LEMMA TickFacts ==
    ASSUME TypeInv, Durable, NEW n \in Node, NodeTick(n)
    PROVE  Repeats /\ Noting
<1> DEFINE s == node[n]
           t == tick(n, s)
           out == tick_out(n, s)
<1>1. /\ n \in up /\ Sound(s) /\ t.log = s.log
      /\ Slots(s.log) \subseteq Facts
  BY Live, NodeSound, LogsKept, LiveSlots
<1>2. CASE Beats(s) /\ ~Anchored(n, s)
  <2>1. Raises
    BY <1>2, Zenon DEF NodeTick
  <2> QED BY <2>1, QuietFacts DEF Raises, machine, record
<1>3. CASE ~(Beats(s) /\ ~Anchored(n, s))
  <2>1. /\ Saves(n, t) /\ Notes(n, t) /\ up' = up
        /\ pending' = pending \o queue(n, out)
    BY <1>3, Zenon DEF NodeTick
  <2>2. out \in Seq(Message)
    BY <1>1, <1>3, TickOutType
  <2>3. \A m \in Appends(queue(n, out)) : Brings(m) \subseteq Facts
    <3>1. CASE Beats(s)
      <4>1. out = broadcast(n, s)
        BY <3>1 DEF tick_out
      <4> HIDE DEF s, out
      <4> QED BY <1>1, <2>2, <4>1, BroadcastSlots
    <3>2. CASE ~Beats(s)
      <4>1. out \in {<<request_vote(n, t)>>, << >>}
        BY <3>2 DEF tick_out
      <4>2. CASE out = << >>
        BY <4>2, SilenceBrings
      <4>3. CASE out = <<request_vote(n, t)>>
        <5>1. request_vote(n, t).kind # "APPEND"
          BY DEF request_vote
        <5>2. request_vote(n, t) \in Message
          BY <1>1, TickType, RequestType DEF Message
        <5> QED BY <4>3, <5>1, <5>2, ReplyBrings
      <4> QED BY <4>1, <4>2, <4>3
    <3> QED BY <3>1, <3>2
  <2> HIDE DEF t, out
  <2>4. Says(pending') \subseteq Says(pending) \cup Says(queue(n, out))
    <3>1. up \in SUBSET Node /\ pending \in Seq(Envelope)
      BY DEF TypeInv, TypeOK
    <3>2. queue(n, out) \in Seq(Envelope)
      BY <2>2, <3>1, QueueType
    <3> QED BY <2>1, <3>1, <3>2, SaysConcat
  <2>5. NotesLeader(n, t)
    BY <2>1 DEF Notes
  <2>6. \A m \in Appends(pending') :
            m \in Appends(pending) \/ Brings(m) \subseteq Facts
    BY <2>3, <2>4 DEF Appends
  <2> QED BY <1>1, <2>1, <2>5, <2>6, SavedNoted
<1> QED BY <1>2, <1>3

\* What a client adds, and nothing else, is new.
LEMMA SubmitFacts ==
    ASSUME TypeInv, Durable, NEW n \in Node, NEW cmd \in Command,
           Submit(n, cmd)
    PROVE  (Repeats /\ Noting) \/ \E x : Commands(n, x)
<1> DEFINE s == node[n]
           r == client_submit(s, cmd)
           t == client(n, s, cmd)
           x == [at |-> Len(s.log) + 1,
                 entry |-> [term |-> s.term, cmd |-> cmd],
                 before |-> LastTerm(s.log)]
<1>1. n \in up /\ s.role = "leader"
  BY DEF Submit
<1>2. Sound(s) /\ Sound(r) /\ Sound(t) /\ Slots(s.log) \subseteq Facts
  BY <1>1, NodeSound, ClientType, LiveSlots
<1>3. CASE /\ Saves(n, t) /\ pending' = queue(n, broadcast(n, t))
           /\ Anchored(n, t)
           /\ UNCHANGED <<up, cut, raised, record>>
  <2>1. t.log = r.log
    BY <1>2, AdvanceLog DEF client
  <2>2. /\ Len(r.log) = Len(s.log) + 1
        /\ Slots(r.log) \subseteq Slots(s.log) \cup {x}
    <3> HIDE DEF s
    <3> QED BY <1>2, CommandSlots
  <2>3. t.role = "leader" /\ t.term = s.term
    BY <1>1, <1>2, ClientAlike DEF Alike
  <2>4. \A m \in Appends(pending') : Brings(m) \subseteq Slots(t.log)
    <3>1. broadcast(n, t) \in Seq(Message)
      <4> HIDE DEF t
      <4>1. broadcast(n, t) \in Seq(AppendMsg)
        BY <1>2, <1>3, BroadcastType
      <4> QED BY <4>1 DEF Message
    <3> HIDE DEF t
    <3> QED BY <1>2, <1>3, <3>1, BroadcastSlots
  <2> HIDE DEF t, r, x
  <2>5. Facts' \subseteq Facts \cup {x}
    <3>1. Slots(t.log) \subseteq Facts \cup {x}
      BY <1>2, <2>1, <2>2
    <3>2. \A m \in Appends(pending') : Brings(m) \subseteq Facts \cup {x}
      BY <2>4, <3>1
    <3> QED BY <1>3, <3>1, <3>2, SavedFacts
  <2>6. node'[n] = t /\ \A p \in Node \ {n} : node'[p] = node[p]
    BY <1>3 DEF Saves, TypeInv, TypeOK
  <2>7. up' = up /\ leaders' = leaders
    BY <1>3 DEF record
  <2>8. Commands(n, x)
    BY <1>1, <2>1, <2>2, <2>3, <2>5, <2>6, <2>7 DEF Commands, x
  <2> QED BY <2>8
<1>4. CASE UNCHANGED <<machine, pending, record>>
  BY <1>4, QuietFacts DEF machine, record
<1> QED BY <1>3, <1>4, Zenon DEF Submit

\* The steps that run no handler say nothing.
LEMMA QuietSteps ==
    ASSUME TypeInv,
           \/ \E link \in Link : Cut(link)
           \/ Heal \/ BeginBeats \/ EndTick \/ Done \/ UNCHANGED vars
           \/ \E n \in Node : \/ Crash(n) \/ Restart(n) \/ Read(n)
                              \/ SubmitRefused(n)
    PROVE  Repeats /\ Noting
<1>1. CASE \/ \E link \in Link : Cut(link)
           \/ Heal \/ BeginBeats \/ EndTick \/ Done \/ UNCHANGED vars
           \/ \E n \in Node : Read(n) \/ SubmitRefused(n)
  <2>1. UNCHANGED <<node, up, disk, pending, leaders>>
    BY <1>1 DEF Cut, Heal, BeginBeats, EndTick, Done, Read, SubmitRefused,
                vars, machine, driver, record
  <2> QED BY <2>1, QuietFacts
<1>2. ASSUME NEW n \in Node, Crash(n) PROVE Repeats /\ Noting
  <2>1. UNCHANGED <<pending, leaders>>
    BY <1>2 DEF Crash, record
  <2>2. /\ disk' = disk /\ up' = up \ {n}
        /\ \A p \in up' : node'[p] = node[p]
    BY <1>2, FaultsKeepDisk
  <2> QED BY <2>1, <2>2, QuietFacts
<1>3. ASSUME NEW n \in Node, Restart(n) PROVE Repeats /\ Noting
  <2>1. UNCHANGED <<pending, leaders>>
    BY <1>3 DEF Restart, driver, record
  <2>2. /\ disk' = disk /\ up' = up \cup {n}
        /\ node'[n] = recover(disk[n])
        /\ \A p \in up : node'[p] = node[p]
    BY <1>3, FaultsKeepDisk
  <2>3. recover(disk[n]).role = "follower"
    BY DEF recover, init
  <2>4. \A p \in up' : node'[p].role = "leader" =>
            p \in up /\ node'[p] = node[p]
    BY <2>2, <2>3
  <2> QED BY <2>1, <2>2, <2>4, QuietFacts
<1> QED BY <1>1, <1>2, <1>3

\* Every step repeats what was said, but a client's command.
LEMMA FactsStep ==
    ASSUME TypeInv, Durable, [Next]_vars
    PROVE  (Repeats /\ Noting) \/ \E n \in Node : \E x : Commands(n, x)
<1>1. CASE Schedule
  BY <1>1, QuietSteps, SubmitFacts DEF Schedule
<1>2. CASE Deliver
  BY <1>2, DeliverFacts DEF Deliver
<1>3. CASE BeginBeats \/ EndTick \/ Done \/ UNCHANGED vars
  BY <1>3, QuietSteps
<1>4. ASSUME NEW n \in Node, NodeTick(n) PROVE Repeats /\ Noting
  BY <1>4, TickFacts
<1> QED BY <1>1, <1>2, <1>3, <1>4 DEF Next, Drive

\* Who leads led before or stood, in the same term; who stands stood before,
\* or entered a new term to.
RolesKept(p) ==
    /\ node'[p].role = "leader" =>
          /\ p \in up /\ node[p].role \in {"leader", "candidate"}
          /\ node'[p].term = node[p].term
    /\ node'[p].role = "candidate" =>
          /\ p \in up
          /\ \/ node'[p].term = node[p].term + 1
             \/ node[p].role = "candidate" /\ node'[p].term = node[p].term

\* It is so on every step.
LEMMA RoleStep ==
    ASSUME TypeInv, Durable, [Next]_vars
    PROVE  \A p \in up' : RolesKept(p)
<1>1. up \subseteq Node
  BY DEF TypeInv, TypeOK
<1>2. ASSUME NEW p \in up, node'[p] = node[p] PROVE RolesKept(p)
  BY <1>2 DEF RolesKept
<1>3. ASSUME NEW n \in Node, NEW t, Transits(n, t),
             \/ Steady(node[n], t) \/ Stands(n, node[n], t)
             \/ \E c \in Node : VotesFor(node[n], t, c)
             \/ \E i \in 1..Len(pending) :
                   \/ Counts(n, node[n], t, pending[i].msg)
                   \/ Wins(n, node[n], t, pending[i].msg)
      PROVE  \A p \in up' : RolesKept(p)
  <2>1. /\ t.role = "leader" => /\ node[n].role \in {"leader", "candidate"}
                                /\ t.term = node[n].term
        /\ t.role = "candidate" =>
              \/ t.term = node[n].term + 1
              \/ node[n].role = "candidate" /\ t.term = node[n].term
    BY <1>3, Zenon DEF Steady, Stands, VotesFor, Counts, Wins
  <2>2. /\ n \in up /\ up' = up /\ node'[n] = t
        /\ \A p \in Node \ {n} : node'[p] = node[p]
    BY <1>3, SavedState
  <2> TAKE p \in up'
  <2>3. CASE p = n
    BY <2>1, <2>2, <2>3 DEF RolesKept
  <2>4. CASE p # n
    BY <1>1, <1>2, <2>2, <2>4
  <2> QED BY <2>3, <2>4
<1>4. ASSUME NEW n \in Node, Crash(n) PROVE \A p \in up' : RolesKept(p)
  BY <1>2, <1>4, FaultsKeepDisk
<1>5. ASSUME NEW n \in Node, Restart(n) PROVE \A p \in up' : RolesKept(p)
  <2>1. /\ up' = up \cup {n} /\ node'[n] = recover(disk[n])
        /\ \A p \in up : node'[p] = node[p]
    BY <1>5, FaultsKeepDisk
  <2>2. recover(disk[n]).role = "follower"
    BY DEF recover, init
  <2>3. n \notin up
    BY <1>5 DEF Restart
  <2> TAKE p \in up'
  <2>4. CASE p = n
    BY <2>1, <2>2, <2>4 DEF RolesKept
  <2>5. CASE p # n
    BY <1>2, <2>1, <2>5
  <2> QED BY <2>4, <2>5
<1>6. ASSUME UNCHANGED <<node, disk, up, cast>>
      PROVE  \A p \in up' : RolesKept(p)
  BY <1>2, <1>6
<1> QED BY <1>3, <1>4, <1>5, <1>6, Transitions

\* Who leads was noted, and stands no more in that term.
LEMMA LedStep ==
    ASSUME TypeInv, Durable, TermsLed, [Next]_vars
    PROVE  leaders \subseteq leaders' /\ TermsLed'
<1>1. TypeInv' /\ Durable'
  BY TypeStep, DurableStep
<1>2. /\ leaders \subseteq leaders'
      /\ \A l \in leaders' \ leaders :
            /\ l.id \in up' /\ node'[l.id].role = "leader"
            /\ node'[l.id].term = l.term
      /\ \A p \in up' : node'[p].role = "leader" =>
            Noted(p)' \/ (p \in up /\ node[p].role = "leader")
  <2>1. CASE Noting
    BY <2>1 DEF Noting
  <2>2. ASSUME NEW n \in Node, NEW x, Commands(n, x)
        PROVE  /\ leaders' = leaders
               /\ \A p \in up' : node'[p].role = "leader" =>
                      p \in up /\ node[p].role = "leader"
    <3>1. up \subseteq Node
      BY DEF TypeInv, TypeOK
    <3> QED BY <2>2, <3>1 DEF Commands
  <2> QED BY <2>1, <2>2, FactsStep
<1>3. \A p \in up' : node'[p].role = "leader" => Noted(p)'
  <2> SUFFICES ASSUME NEW p \in up', node'[p].role = "leader",
                      p \in up, node[p].role = "leader"
               PROVE  Noted(p)'
    BY <1>2
  <2>1. node'[p].term = node[p].term
    BY RoleStep DEF RolesKept
  <2>2. Noted(p)
    BY DEF TermsLed
  <2> QED BY <1>2, <2>1, <2>2 DEF Noted
<1>4. /\ \A p \in up : disk[p].term = node[p].term
      /\ \A p \in up' : disk'[p].term = node'[p].term
  <2>1. DiskIsCurrent /\ DiskIsCurrent'
    BY <1>1 DEF Durable
  <2>2. \A p \in up : disk[p] = persist(node[p])
    BY <2>1 DEF DiskIsCurrent
  <2>3. \A p \in up' : disk'[p] = persist(node'[p])
    BY <2>1 DEF DiskIsCurrent
  <2>4. \A s : persist(s).term = s.term
    BY DEF persist
  <2> QED BY <2>2, <2>3, <2>4
<1>5. /\ \A l \in leaders' : l.term \in Nat /\ l.id \in Node
      /\ \A p \in Node : /\ disk[p].term \in Nat /\ disk'[p].term \in Nat
                         /\ node[p].term \in Nat /\ node'[p].term \in Nat
  BY <1>1 DEF TypeInv, TypeOK, Image, State
<1>6. ASSUME NEW l \in leaders'
      PROVE  /\ l.term <= disk'[l.id].term
             /\ l.id \in up' /\ node'[l.id].role = "candidate"
                => l.term < node'[l.id].term
  <2>1. CASE l \in leaders
    <3>1. l.term <= disk[l.id].term
      BY <2>1 DEF TermsLed
    <3>2. disk'[l.id].term >= disk[l.id].term
      BY <1>5, TermStep
    <3>3. ASSUME l.id \in up', node'[l.id].role = "candidate"
          PROVE  l.term < node'[l.id].term
      <4>1. RolesKept(l.id)
        BY <3>3, RoleStep
      <4>2. l.id \in up
        BY <3>3, <4>1 DEF RolesKept
      <4>3. CASE node'[l.id].term = node[l.id].term + 1
        BY <1>4, <1>5, <3>1, <4>2, <4>3
      <4>4. CASE /\ node[l.id].role = "candidate"
                 /\ node'[l.id].term = node[l.id].term
        BY <2>1, <4>2, <4>4 DEF TermsLed
      <4> QED BY <3>3, <4>1, <4>3, <4>4 DEF RolesKept
    <3> QED BY <1>5, <3>1, <3>2, <3>3
  <2>2. CASE l \notin leaders
    BY <1>2, <1>4, <1>5, <2>2
  <2> QED BY <2>1, <2>2
<1> QED BY <1>2, <1>3, <1>6 DEF TermsLed

\* While no term has two leaders, every step keeps slots agreed.
LEMMA MatchStep ==
    ASSUME MatchInv, [Next]_vars PROVE MatchInv'
<1>1. TypeInv /\ Durable /\ TermsLed
  BY DEF MatchInv
<1>2. TypeInv' /\ Durable' /\ TermsLed' /\ leaders \subseteq leaders'
  BY <1>1, TypeStep, DurableStep, LedStep
<1> SUFFICES ASSUME OneLeaderPerTerm' PROVE SlotsAgree' /\ SlotsLed'
  BY <1>2 DEF MatchInv
<1>3. OneLeaderPerTerm
  BY <1>2 DEF OneLeaderPerTerm
<1>4. SlotsAgree /\ SlotsLed
  BY <1>3 DEF MatchInv
<1>5. ASSUME NEW p \in up', node'[p].role = "leader"
      PROVE  /\ p \in up /\ p \in Node /\ Noted(p)'
             /\ node[p].role \in {"leader", "candidate"}
             /\ node'[p].term = node[p].term
  BY <1>1, <1>2, <1>5, RoleStep DEF RolesKept, TermsLed, TypeInv, TypeOK
\* Whoever begins to lead finds nothing said of its term.
<1>6. ASSUME NEW p \in up', node'[p].role = "leader", node[p].role # "leader",
             NEW x \in Facts, x.entry.term = node'[p].term
      PROVE  FALSE
  <2>1. PICK l \in leaders : l.term = x.entry.term
    BY <1>4 DEF SlotsLed
  <2>2. l.id = p
    <3>1. PICK k \in leaders' : k.id = p /\ k.term = node'[p].term
      BY <1>5, <1>6 DEF Noted
    <3>2. l \in leaders' /\ l.term = k.term
      BY <1>2, <1>6, <2>1, <3>1
    <3> QED BY <3>1, <3>2 DEF OneLeaderPerTerm
  <2>3. l.term < node[p].term
    BY <1>1, <1>5, <1>6, <2>1, <2>2 DEF TermsLed
  <2>4. node[p].term \in Nat
    BY <1>1, <1>5, <1>6 DEF TypeInv, TypeOK, State
  <2> QED BY <1>5, <1>6, <2>1, <2>3, <2>4
<1>7. CASE Repeats /\ Noting
  <2>1. SlotsAgree'
    BY <1>4, <1>7 DEF Repeats, SlotsAgree
  <2>2. \A x \in Facts' : \E l \in leaders' : l.term = x.entry.term
    BY <1>2, <1>4, <1>7 DEF Repeats, SlotsLed
  <2>3. ASSUME NEW p \in up', node'[p].role = "leader",
               NEW x \in Facts', x.entry.term = node'[p].term
        PROVE  x.at <= Len(node'[p].log)
    <3>1. x \in Facts /\ node'[p].log = node[p].log
      BY <1>7, <2>3 DEF Repeats
    <3>2. node[p].role = "leader"
      BY <1>6, <2>3, <3>1
    <3> QED BY <1>4, <1>5, <2>3, <3>1, <3>2 DEF SlotsLed
  <2> QED BY <2>1, <2>2, <2>3 DEF SlotsLed
<1>8. ASSUME NEW n \in Node, NEW x, Commands(n, x)
      PROVE  SlotsAgree' /\ SlotsLed'
  <2>1. /\ n \in up /\ up' = up /\ leaders' = leaders
        /\ node[n].role = "leader" /\ node'[n].role = "leader"
        /\ node'[n].term = node[n].term
        /\ x.entry.term = node[n].term
        /\ x.at = Len(node[n].log) + 1 /\ Len(node'[n].log) = x.at
        /\ \A p \in Node \ {n} : node'[p] = node[p]
        /\ Facts' \subseteq Facts \cup {x}
    BY <1>8 DEF Commands
  <2>2. Len(node[n].log) \in Nat /\ Noted(n)
    BY <1>1, <2>1 DEF TypeInv, TypeOK, State, TermsLed
  <2>3. \A y \in Facts : y.entry.term = node[n].term => y.at # x.at
    <3> SUFFICES ASSUME NEW y \in Facts, y.entry.term = node[n].term,
                        y.at = x.at
                 PROVE  FALSE
      OBVIOUS
    <3>1. y.at <= Len(node[n].log)
      BY <1>4, <2>1 DEF SlotsLed
    <3> QED BY <2>1, <2>2, <3>1
  <2>4. SlotsAgree'
    <3> SUFFICES ASSUME NEW y \in Facts', NEW z \in Facts',
                        y.at = z.at, y.entry.term = z.entry.term
                 PROVE  y = z
      BY DEF SlotsAgree
    <3>1. y \in Facts /\ z \in Facts => y = z
      BY <1>4 DEF SlotsAgree
    <3> QED BY <2>1, <2>3, <3>1
  <2>5. \A y \in Facts' : \E l \in leaders' : l.term = y.entry.term
    <3> TAKE y \in Facts'
    <3>1. CASE y \in Facts
      BY <1>4, <2>1, <3>1 DEF SlotsLed
    <3>2. CASE y = x
      BY <2>1, <2>2, <3>2 DEF Noted
    <3> QED BY <2>1, <3>1, <3>2
  <2>6. ASSUME NEW p \in up', node'[p].role = "leader",
               NEW y \in Facts', y.entry.term = node'[p].term
        PROVE  y.at <= Len(node'[p].log)
    <3>1. CASE p = n
      <4>1. CASE y \in Facts
        <5>1. y.at <= Len(node[n].log)
          BY <1>4, <2>1, <2>6, <3>1, <4>1 DEF SlotsLed
        <5>2. y.at \in Nat
          BY <1>1, <4>1, FactsType
        <5> QED BY <2>1, <2>2, <3>1, <5>1, <5>2
      <4>2. CASE y = x
        BY <2>1, <2>2, <3>1, <4>2
      <4> QED BY <2>1, <4>1, <4>2
    <3>2. CASE p # n
      <4>1. p \in up /\ p \in Node /\ node'[p] = node[p]
        BY <1>5, <2>1, <2>6, <3>2
      <4>2. y # x
        <5>1. Noted(p)
          BY <1>1, <2>6, <4>1 DEF TermsLed
        <5>2. node[p].term # node[n].term
          BY <1>3, <2>2, <3>2, <5>1 DEF Noted, OneLeaderPerTerm
        <5> QED BY <2>1, <2>6, <4>1, <5>2
      <4> QED BY <1>4, <2>1, <2>6, <4>1, <4>2 DEF SlotsLed
    <3> QED BY <3>1, <3>2
  <2> QED BY <2>4, <2>5, <2>6 DEF SlotsLed
<1> QED BY <1>1, <1>7, <1>8, FactsStep

\* Nothing is said at the start.
LEMMA MatchInit == Init => MatchInv
<1> SUFFICES ASSUME Init PROVE MatchInv
  OBVIOUS
<1>1. TypeInv /\ Durable
  BY TypeInit, DurableInit
<1>2. leaders = {} /\ pending = << >>
  BY DEF Init
<1>3. Facts = {}
  <2>1. \A n \in Node : Slots(disk[n].log) = {}
    <3> TAKE n \in Node
    <3>1. disk[n].log = << >>
      BY DEF Init, persist, init
    <3>2. 1..Len(<< >>) = {}
      OBVIOUS
    <3> QED BY <3>1, <3>2 DEF Slots
  <2>2. Appends(pending) = {}
    <3>1. 1..Len(<< >>) = {}
      OBVIOUS
    <3> QED BY <1>2, <3>1 DEF Appends, Says, Letters
  <2> QED BY <2>1, <2>2 DEF Facts
<1>4. TermsLed
  BY <1>2 DEF Init, init, TermsLed
<1> QED BY <1>1, <1>3, <1>4 DEF MatchInv, SlotsAgree, SlotsLed, Init, init

\* Where slots agree, logs that share a term at a slot share all before it:
\* the slot before has one term in both, and so one entry, and so on down.
LEMMA AgreedLogsMatch ==
    ASSUME TypeInv, SlotsAgree PROVE LogMatching
<1> SUFFICES ASSUME NEW a \in Node, NEW b \in Node,
                    NEW i \in 1..Len(disk[a].log), i <= Len(disk[b].log),
                    disk[a].log[i].term = disk[b].log[i].term
             PROVE  SubSeq(disk[a].log, 1, i) = SubSeq(disk[b].log, 1, i)
  BY DEF LogMatching
<1>1. PICK f, g : f = disk[a].log /\ g = disk[b].log
  OBVIOUS
<1>2. /\ f \in Seq(Entry) /\ g \in Seq(Entry)
      /\ Len(f) \in Nat /\ Len(g) \in Nat
      /\ i \in Nat /\ i >= 1 /\ i <= Len(f) /\ i <= Len(g)
  <2>1. disk[a].log \in Seq(Entry) /\ disk[b].log \in Seq(Entry)
    BY DEF TypeInv, TypeOK, Image
  <2> QED BY <1>1, <2>1
<1>3. ASSUME NEW k \in 1..i, f[k].term = g[k].term
      PROVE  f[k] = g[k] /\ TermAt(f, k - 1) = TermAt(g, k - 1)
  <2> DEFINE x == [at |-> k, entry |-> f[k], before |-> TermAt(f, k - 1)]
             y == [at |-> k, entry |-> g[k], before |-> TermAt(g, k - 1)]
  <2>1. k \in 1..Len(f) /\ k \in 1..Len(g)
    BY <1>2
  <2>2. x \in Slots(f) /\ y \in Slots(g)
    BY <2>1 DEF Slots
  <2>3. x \in Facts /\ y \in Facts
    BY <1>1, <2>2 DEF Facts
  <2>4. x = y
    BY <1>3, <2>3 DEF SlotsAgree
  <2> QED BY <2>4
<1>4. \A k \in 1..i : f[k].term = g[k].term
  <2> DEFINE D == {k \in 1..i : f[k].term # g[k].term}
  <2> SUFFICES ASSUME D # {} PROVE FALSE
    OBVIOUS
  <2>1. D \in SUBSET Nat /\ IsFiniteSet(D)
    <3>1. IsFiniteSet(1..i)
      BY <1>2, FS_Interval
    <3> QED BY <1>2, <3>1, FS_Subset
  <2>2. PICK k \in D : \A j \in D : j <= k
    BY <2>1, Greatest
  <2>3. k \in 1..i /\ k # i /\ f[k].term # g[k].term
    BY <1>1
  <2>4. k + 1 \in 1..i /\ k + 1 \notin D /\ k + 1 - 1 = k /\ k # 0
    BY <1>2, <2>2, <2>3
  <2>5. TermAt(f, k) = TermAt(g, k)
    BY <1>3, <2>4
  <2> QED BY <2>3, <2>4, <2>5 DEF TermAt
<1>5. \A k \in 1..i : f[k] = g[k]
  BY <1>3, <1>4
<1>6. SubSeq(f, 1, i) = SubSeq(g, 1, i)
  BY <1>2, <1>5
<1> QED BY <1>1, <1>6

\* As long as no term has had two leaders, two logs that hold the same term at
\* a slot agree up to that slot, whatever appends were lost, cut for another
\* follower or refused, and whoever crashed: the prev check of handle_append
\* and the truncations do what they are for, under any memberships.
THEOREM LogsMatch == Spec => [](OneLeaderPerTerm => LogMatching)
<1>1. MatchInv => (OneLeaderPerTerm => LogMatching)
  BY AgreedLogsMatch DEF MatchInv
<1>2. MatchInv /\ [Next]_vars => MatchInv'
  <2>1. CASE MatchInv /\ [Next]_vars
    BY <2>1, MatchStep
  <2> QED BY <2>1
<1> QED BY <1>1, <1>2, MatchInit, PTL DEF Spec

-----------------------------------------------------------------------------
(* When a term has two leaders, one after the other.                       *)

\* A leader stops leading, and no newer term made it.
Resigns(n) == /\ Leads(n) /\ ~Leads(n)'
              /\ disk'[n].term = disk[n].term

KeepOffice == [][\A n \in Node : ~Resigns(n)]_vars

\* Who was noted a leader had a majority's ballots, gave all its own in that
\* term to itself, and leads still unless it has gone on to a newer term.
Elected ==
    \A l \in leaders :
        /\ Cardinality(Supporters(l.term, l.id)) >= majority(Node)
        /\ \A b \in cast : b.term = l.term /\ b.voter = l.id => b.cand = l.id
        /\ \/ l.term < disk[l.id].term
           \/ Leads(l.id) /\ node[l.id].term = l.term

TenureInv == ElectionInv /\ TermsLed /\ Elected

\* Two leaders of a term would share a voter, which would be one of them and
\* have voted for the other.
LEMMA ElectedOnce == TenureInv => OneLeaderPerTerm
<1> SUFFICES ASSUME TenureInv, NEW a \in leaders, NEW b \in leaders,
                    a.term = b.term, a.id # b.id
             PROVE  FALSE
  BY DEF OneLeaderPerTerm
<1>1. /\ Cardinality(Supporters(a.term, a.id)) >= majority(Node)
      /\ Cardinality(Supporters(a.term, b.id)) >= majority(Node)
  BY DEF TenureInv, Elected
<1>2. PICK v \in Node : Voted(a.term, v, a.id) /\ Voted(a.term, v, b.id)
  BY <1>1, MajoritiesMeet DEF Supporters
<1> DEFINE x == [term |-> a.term, voter |-> v, cand |-> a.id]
           y == [term |-> a.term, voter |-> v, cand |-> b.id]
<1>3. x \in cast /\ y \in cast
  BY <1>2 DEF Voted
<1>4. v \in {a.id, b.id}
  <2>1. x.cand = y.cand \/ x.voter \in {x.cand, y.cand}
    BY <1>3, BindHalves DEF TenureInv, ElectionInv
  <2> QED BY <2>1
<1>5. CASE v = a.id
  <2>1. y.cand = a.id
    BY <1>3, <1>5 DEF TenureInv, Elected
  <2> QED BY <2>1
<1>6. CASE v = b.id
  <2>1. x.cand = b.id
    BY <1>3, <1>6 DEF TenureInv, Elected
  <2> QED BY <2>1
<1> QED BY <1>4, <1>5, <1>6

\* A ballot is cast in the term its voter is then in.
LEMMA BallotsAreCurrent ==
    ASSUME TypeInv, Durable, [Next]_vars
    PROVE  \A b \in cast' \ cast : b.term = disk'[b.voter].term
<1>1. ASSUME NEW n \in Node, NEW t, Transits(n, t), NEW c,
             cast' = cast \cup {[term |-> t.term, voter |-> n, cand |-> c]}
      PROVE  \A b \in cast' \ cast : b.term = disk'[b.voter].term
  <2>1. disk'[n].term = t.term
    <3>1. disk'[n] = persist(t)
      BY <1>1, SavedState
    <3> QED BY <3>1 DEF persist
  <2>2. \A b \in cast' \ cast :
            b = [term |-> t.term, voter |-> n, cand |-> c]
    BY <1>1
  <2> QED BY <2>1, <2>2
<1> QED BY <1>1, Transitions

\* Who leads after a step was not noted before it, or led on.
LEMMA ElectedStep ==
    ASSUME Fixed, TenureInv, [Next]_vars, \A n \in Node : ~Resigns(n)
    PROVE  TenureInv'
<1>1. /\ TypeInv /\ Durable /\ TermsLed /\ ElectionInv
      /\ ElectionInv' /\ TypeInv' /\ Durable'
      /\ leaders \subseteq leaders' /\ TermsLed' /\ cast \subseteq cast'
  BY ElectionStep, LedStep, CastGrows DEF TenureInv, ElectionInv
<1>2. /\ \A p \in Node : /\ disk[p].term \in Nat /\ disk'[p].term \in Nat
                         /\ disk'[p].term >= disk[p].term
      /\ \A l \in leaders' : l.term \in Nat /\ l.id \in Node
  BY <1>1, TermStep DEF TypeInv, TypeOK, Image
<1>3. /\ \A p \in up : disk[p].term = node[p].term
      /\ \A p \in up' : disk'[p].term = node'[p].term
      /\ up \subseteq Node /\ up' \subseteq Node
  <2>1. /\ \A p \in up : disk[p] = persist(node[p])
        /\ \A p \in up' : disk'[p] = persist(node'[p])
    BY <1>1 DEF Durable, DiskIsCurrent
  <2>2. \A s : persist(s).term = s.term
    BY DEF persist
  <2> QED BY <1>1, <2>1, <2>2 DEF TypeInv, TypeOK
<1>4. \A l \in leaders' \ leaders :
          /\ l.id \in up' /\ node'[l.id].role = "leader"
          /\ node'[l.id].term = l.term
  <2>1. CASE Noting
    BY <2>1 DEF Noting
  <2>2. ASSUME NEW n \in Node, NEW x, Commands(n, x) PROVE leaders' = leaders
    BY <2>2 DEF Commands
  <2> QED BY <1>1, <2>1, <2>2, FactsStep
\* A live leader has a majority of the ballots of its term, its own among
\* those only for itself.
<1>5. ASSUME NEW p \in up', node'[p].role = "leader"
      PROVE  /\ Cardinality({v \in Node : [term |-> node'[p].term,
                    voter |-> v, cand |-> p] \in cast'}) >= majority(Node)
             /\ \A b \in cast' : b.term = node'[p].term /\ b.voter = p
                                 => b.cand = p
  <2>1. BallotsCounted' /\ BallotsBind'
    BY <1>1 DEF ElectionInv
  <2>2. Cardinality({v \in Node : Voted(node[p].term, v, p)'})
            >= majority(Node)
    BY <1>5, <2>1 DEF BallotsCounted, Voted
  <2>3. \A b \in cast' : b.term = node'[p].term /\ b.voter = p => b.cand = p
    BY <1>3, <1>5, <2>1 DEF BallotsBind
  <2> QED BY <2>2, <2>3 DEF Voted
<1>6. ASSUME NEW l \in leaders'
      PROVE  l.term < disk'[l.id].term
             \/ (Leads(l.id)' /\ node'[l.id].term = l.term)
  <2>1. CASE l \notin leaders
    BY <1>4, <2>1 DEF Leads
  <2>2. CASE l \in leaders /\ l.term < disk[l.id].term
    BY <1>2, <2>2
  <2>3. CASE l \in leaders /\ Leads(l.id) /\ node[l.id].term = l.term
    <3>1. disk[l.id].term = l.term
      BY <1>3, <2>3 DEF Leads
    <3>2. CASE disk'[l.id].term = l.term
      <4>1. Leads(l.id)'
        BY <1>2, <2>3, <3>1, <3>2 DEF Resigns
      <4> QED BY <1>3, <3>2, <4>1 DEF Leads
    <3>3. CASE disk'[l.id].term # l.term
      <4>1. disk'[l.id].term >= disk[l.id].term
        BY <1>2
      <4> QED BY <1>2, <3>1, <3>3, <4>1
    <3> QED BY <3>2, <3>3
  <2> QED BY <2>1, <2>2, <2>3 DEF TenureInv, Elected
<1>7. ASSUME NEW l \in leaders'
      PROVE  /\ \A b \in cast' : b.term = l.term /\ b.voter = l.id
                                 => b.cand = l.id
             /\ Cardinality({v \in Node : [term |-> l.term, voter |-> v,
                    cand |-> l.id] \in cast'}) >= majority(Node)
  <2>1. CASE Leads(l.id)' /\ node'[l.id].term = l.term
    BY <1>5, <2>1 DEF Leads
  <2>2. CASE l.term < disk'[l.id].term /\ l \in leaders
    <3>1. \A b \in cast' \ cast : b.voter = l.id => b.term # l.term
      <4>1. \A b \in cast' \ cast : b.term = disk'[b.voter].term
        BY <1>1, BallotsAreCurrent
      <4> QED BY <1>2, <2>2, <4>1
    <3>2. \A b \in cast : b.term = l.term /\ b.voter = l.id => b.cand = l.id
      BY <2>2 DEF TenureInv, Elected
    <3> DEFINE S(ballots) == {v \in Node :
                [term |-> l.term, voter |-> v, cand |-> l.id] \in ballots}
    <3>3. Cardinality(S(cast)) >= majority(Node)
      BY <2>2 DEF TenureInv, Elected, Supporters, Voted
    <3>4. S(cast) \subseteq S(cast') /\ IsFiniteSet(S(cast'))
      BY <1>1, NodeAssumption, FS_Subset
    <3> HIDE DEF S
    <3>5. Cardinality(S(cast)) <= Cardinality(S(cast'))
          /\ Cardinality(S(cast)) \in Nat /\ Cardinality(S(cast')) \in Nat
      BY <3>4, FS_Subset, FS_CardinalityType
    <3>6. Cardinality(S(cast')) >= majority(Node)
      BY <3>3, <3>5, MajorityType
    <3> QED BY <3>1, <3>2, <3>6 DEF S
  <2>3. CASE l \notin leaders
    BY <1>4, <2>1, <2>3 DEF Leads
  <2> QED BY <1>6, <2>1, <2>2, <2>3
<1>8. Elected'
  BY <1>6, <1>7 DEF Elected, Supporters, Voted
<1> QED BY <1>1, <1>8 DEF TenureInv

\* Nobody is noted at the start.
LEMMA TenureInit == Init => TenureInv
<1>1. Init => ElectionInv /\ MatchInv
  BY ElectionInit, MatchInit
<1>2. Init => leaders = {}
  BY DEF Init
<1> QED BY <1>1, <1>2 DEF TenureInv, MatchInv, Elected

\* The two ways a leader resigns: it crashes, or it takes an answer of its own
\* term, below what the same peer answered before, for a sign of a rival.
LEMMA Resignations ==
    ASSUME TypeInv, Durable, [Next]_vars, NEW n \in Node, Resigns(n)
    PROVE  \/ Crash(n)
           \/ /\ pending # << >>
              /\ DeliverAppendReply(Head(pending), n)
              /\ same_term_stale(node[n], Head(pending).msg)
<1> DEFINE s == node[n]
           e == Head(pending)
<1>1. /\ n \in up /\ s.role = "leader" /\ Sound(s)
      /\ ~(n \in up' /\ node'[n].role = "leader")
      /\ disk'[n].term = disk[n].term
  BY NodeSound DEF Resigns, Leads
<1>2. disk[n] = persist(s) /\ disk[n].term = s.term
  <2>1. disk[n] = persist(s)
    BY <1>1 DEF Durable, DiskIsCurrent
  <2> QED BY <2>1 DEF persist
<1> HIDE DEF s, e
<1>3. ASSUME up' = up, node'[n] = s PROVE FALSE
  BY <1>1, <1>3
<1>4. ASSUME NEW t, Saves(n, t), up' = up
      PROVE  t.role # "leader" /\ t.term = s.term
  <2>1. node'[n] = t /\ disk'[n] = persist(t)
    BY <1>4 DEF Saves, TypeInv, TypeOK
  <2> QED BY <1>1, <1>2, <1>4, <2>1 DEF persist
<1>5. ASSUME NEW p \in Node, p # n, NEW t, Saves(p, t), up' = up PROVE FALSE
  <2>1. node'[n] = s
    BY <1>5 DEF Saves, TypeInv, TypeOK, s
  <2> QED BY <1>3, <1>5, <2>1
<1>6. CASE UNCHANGED <<node, up>>
  BY <1>3, <1>6 DEF s
<1>7. CASE \/ \E link \in Link : Cut(link)
           \/ Heal \/ BeginBeats \/ EndTick \/ Done \/ UNCHANGED vars
           \/ \E p \in Node : Read(p) \/ SubmitRefused(p)
  BY <1>6, <1>7 DEF Cut, Heal, BeginBeats, EndTick, Done, Read, SubmitRefused,
                    vars, machine
<1>8. ASSUME NEW p \in Node, Restart(p) PROVE FALSE
  <2>1. n \in up' /\ node'[n] = node[n]
    BY <1>1, <1>8, FaultsKeepDisk
  <2> QED BY <1>1, <2>1 DEF s
<1>9. ASSUME NEW p \in Node, Crash(p), p # n PROVE FALSE
  <2>1. n \in up' /\ node'[n] = node[n]
    BY <1>1, <1>9, FaultsKeepDisk
  <2> QED BY <1>1, <2>1 DEF s
<1>10. ASSUME NEW p \in Node, NEW cmd \in Command, Submit(p, cmd) PROVE FALSE
  <2> DEFINE t == client(p, node[p], cmd)
  <2>1. (Saves(p, t) /\ up' = up) \/ UNCHANGED <<node, up>>
    BY <1>10, Zenon DEF Submit, machine
  <2>2. p = n => t.role = "leader"
    BY <1>1, ClientAlike DEF Alike, s
  <2> HIDE DEF t
  <2>3. CASE UNCHANGED <<node, up>>
    BY <1>3, <2>3 DEF s
  <2>4. CASE Saves(p, t) /\ up' = up /\ p = n
    <3>1. Saves(n, t)
      BY <2>4
    <3> QED BY <1>4, <2>2, <2>4, <3>1
  <2>5. CASE Saves(p, t) /\ up' = up /\ p # n
    BY <1>5, <2>5
  <2> QED BY <2>1, <2>3, <2>4, <2>5
<1>11. ASSUME NEW p \in Node, NodeTick(p) PROVE FALSE
  <2> DEFINE t == tick(p, node[p])
  <2>1. (Saves(p, t) /\ up' = up) \/ UNCHANGED <<node, up>>
    BY <1>11, Zenon DEF NodeTick, Raises, machine
  <2>2. p = n => t.role = "leader"
    BY <1>1 DEF tick, TimesOut, Sound, State, s
  <2> HIDE DEF t
  <2>3. CASE UNCHANGED <<node, up>>
    BY <1>3, <2>3 DEF s
  <2>4. CASE Saves(p, t) /\ up' = up /\ p = n
    <3>1. Saves(n, t)
      BY <2>4
    <3> QED BY <1>4, <2>2, <2>4, <3>1
  <2>5. CASE Saves(p, t) /\ up' = up /\ p # n
    BY <1>5, <2>5
  <2> QED BY <2>1, <2>3, <2>4, <2>5
<1>12. CASE Deliver
  <2>1. /\ e \in Envelope /\ e.msg \in Message /\ pending # << >>
    <3>1. pending # << >> /\ pending \in Seq(Envelope)
      BY <1>12 DEF Deliver, TypeInv, TypeOK
    <3>2. Head(pending) \in Envelope
      BY <3>1
    <3> QED BY <3>1, <3>2 DEF Envelope, e
  <2>2. PICK p \in Node : \/ Drop(e, p) \/ DeliverRequestVote(e, p)
                          \/ DeliverVoteReply(e, p) \/ DeliverAppend(e, p)
                          \/ DeliverAppendReply(e, p)
    BY <1>12 DEF Deliver, e
  <2>3. ASSUME NEW t, NEW out, Receives(e, p, t, out)
        PROVE  p = n /\ t.role # "leader" /\ t.term = s.term
    BY <1>4, <1>5, <2>3 DEF Receives
  <2>4. CASE Drop(e, p)
    BY <1>6, <2>4 DEF Drop, machine
  <2>5. CASE DeliverRequestVote(e, p)
    <3> DEFINE t == recv_request_vote(node[p], e.msg)
    <3>1. e.msg \in RequestVoteMsg
      BY <2>1, <2>5, KindType DEF DeliverRequestVote, Arrives
    <3>2. \E out : Receives(e, p, t, out)
      BY <2>5, Zenon DEF DeliverRequestVote
    <3>3. p = n /\ t.role # "leader" /\ t.term = s.term
      BY <2>3, <3>2
    <3>4. ~Contends(s, e.msg)
      BY <1>1, <3>3 DEF recv_request_vote, s
    <3>5. e.msg.term > s.term
      BY <1>1, <3>1, <3>4 DEF Contends, Sound, State, RequestVoteMsg
    <3>6. t.term = e.msg.term
      BY <1>1, <3>1, <3>3, <3>4, <3>5, AdoptType
         DEF recv_request_vote, grant_vote, follower, adopt, Sound, State,
             RequestVoteMsg, s
    <3> QED BY <1>1, <3>1, <3>3, <3>5, <3>6 DEF Sound, State, RequestVoteMsg
  <2>6. CASE DeliverVoteReply(e, p)
    <3>1. \E out : Receives(e, p, recv_vote_reply(p, node[p], e.msg), out)
      BY <2>6, Zenon DEF DeliverVoteReply
    <3>2. p = n /\ recv_vote_reply(p, node[p], e.msg).role # "leader"
      BY <2>3, <3>1
    <3> QED BY <1>1, <3>2 DEF recv_vote_reply, s
  <2>7. CASE DeliverAppend(e, p)
    <3> DEFINE t == recv_append(node[p], e.msg)
    <3>1. e.msg \in AppendMsg
      BY <2>1, <2>7, KindType DEF DeliverAppend, Arrives
    <3>2. CASE ~Builds(handle_append(node[p], e.msg))
      BY <1>6, <2>7, <3>2 DEF DeliverAppend, Raises, machine
    <3>3. CASE Builds(handle_append(node[p], e.msg))
      <4>1. \E out : Receives(e, p, t, out)
        BY <2>7, <3>3, Zenon DEF DeliverAppend
      <4>2. p = n /\ t.role # "leader" /\ t.term = s.term
        BY <2>3, <4>1
      <4>3. /\ Sound(handle_append(s, e.msg))
            /\ Alike(handle_append(s, e.msg), t)
        BY <1>1, <3>1, <3>3, <4>2, HandleType, ApplyAlike
           DEF recv_append, s, Sound
      <4>4. ~Refuses(s, e.msg)
        BY <1>1, <4>2, <4>3 DEF handle_append, Alike
      <4>5. e.msg.term > s.term
        BY <1>1, <3>1, <4>4 DEF Refuses, Sound, State, AppendMsg
      <4> DEFINE a == adopt(s, e.msg.term)
      <4>6. Sound(stand_down(s, e.msg))
        BY <1>1, <3>1, StandDownType
      <4>8. Sound(a) /\ a.term = e.msg.term
        BY <1>1, <3>1, <4>5, AdoptType DEF adopt, Sound, State, AppendMsg
      <4> HIDE DEF a
      <4>9. stand_down(s, e.msg).term = a.term
        BY <4>8 DEF stand_down, follower, Sound, State, a
      <4>7. handle_append(s, e.msg).term = e.msg.term
        BY <4>3, <4>4, <4>6, <4>8, <4>9 DEF handle_append, reconcile, Sound, State
      <4> QED BY <1>1, <3>1, <4>2, <4>3, <4>5, <4>7
              DEF Alike, Sound, State, AppendMsg
    <3> QED BY <3>2, <3>3
  <2>8. CASE DeliverAppendReply(e, p)
    <3> DEFINE t == recv_append_reply(p, node[p], e.msg)
    <3>1. e.msg \in AppendReplyMsg
      BY <2>1, <2>8, KindType DEF DeliverAppendReply, Arrives
    <3>2. Receives(e, p, t, << >>)
      BY <2>8, Zenon DEF DeliverAppendReply
    <3>3. p = n /\ t.role # "leader" /\ t.term = s.term
      BY <2>3, <3>2
    <3>4. ASSUME ~same_term_stale(s, e.msg) PROVE FALSE
      <4>1. CASE e.msg.term > s.term
        BY <1>1, <3>1, <3>3, <4>1
           DEF recv_append_reply, follower, Sound, State, AppendReplyMsg, s
      <4>2. CASE ~(e.msg.term > s.term)
        <5> DEFINE o == observe_reply(s, e.msg)
        <5>1. Sound(o) /\ o.role = s.role
          BY <1>1, <3>1, ObserveType DEF observe_reply, Sound, State
        <5>2. t = advance(n, o)
          BY <1>1, <3>3, <3>4, <4>2 DEF recv_append_reply, s
        <5> HIDE DEF o, t
        <5> QED BY <1>1, <3>3, <5>1, <5>2, AdvanceAlike DEF Alike
      <4> QED BY <4>1, <4>2
    <3> QED BY <2>1, <2>8, <3>3, <3>4 DEF s, e
  <2> QED BY <2>2, <2>4, <2>5, <2>6, <2>7, <2>8
<1> QED BY <1>7, <1>8, <1>9, <1>10, <1>11, <1>12
        DEF Next, Schedule, Drive

\* Under a fixed membership, no term ever has two leaders as long as no leader
\* resigns; that is, by Resignations, as long as none crashes or stands down on
\* same_term_stale.
THEOREM OneLeaderUnlessResigned ==
    ASSUME Fixed PROVE Spec /\ KeepOffice => []OneLeaderPerTerm
<1>1. TenureInv /\ UNCHANGED vars => TenureInv'
  <2>1. SUFFICES ASSUME TenureInv, UNCHANGED vars PROVE TenureInv'
    OBVIOUS
  <2>2. \A n \in Node : ~Resigns(n)
    BY <2>1 DEF Resigns, Leads, vars, machine
  <2> QED BY <2>1, <2>2, ElectedStep
<1>2. TenureInv /\ [Next]_vars /\ [\A n \in Node : ~Resigns(n)]_vars => TenureInv'
  BY <1>1, ElectedStep
<1> QED BY <1>2, TenureInit, ElectedOnce, PTL DEF Spec, KeepOffice

\* And then all logs match.
THEOREM LogsMatchUnlessResigned ==
    ASSUME Fixed PROVE Spec /\ KeepOffice => []LogMatching
BY OneLeaderUnlessResigned, LogsMatch, PTL

-----------------------------------------------------------------------------
(* When a slot has one command.                                            *)

\* Nothing conflicts; whatever is said of a committed slot in the term it was
\* committed in names the command chosen there; and the slots committed are
\* those with a command chosen.
ChosenSaid ==
    /\ conflicts = {}
    /\ \A x \in Facts :
          [index |-> x.at, term |-> x.entry.term] \in committed
          => chosen[x.at] = x.entry.cmd
    /\ {slot.index : slot \in committed} = 1..Len(chosen)

\* What the conclusion rests on: a term has one leader, and a commit stays on a
\* majority.
CommitsKept == OneLeaderPerTerm /\ ChosenHeldByMajority

\* What is on a majority is said by somebody.
LEMMA HeldSaid ==
    ASSUME TypeInv, ChosenSaid, ChosenHeldByMajority, NEW slot \in committed
    PROVE  \E x \in Facts : x.at = slot.index /\ x.entry.term = slot.term
<1>1. Cardinality({n \in Node : Holds(n, slot)}) >= majority(Node)
  BY DEF ChosenHeldByMajority
<1>2. PICK n \in Node : Holds(n, slot)
  BY <1>1, MajoritiesMeet
<1> DEFINE i == slot.index
           x == [at |-> i, entry |-> disk[n].log[i],
                 before |-> TermAt(disk[n].log, i - 1)]
<1>3. i \in 1..Len(disk[n].log)
  <2>1. Len(disk[n].log) \in Nat /\ Len(chosen) \in Nat
    BY DEF TypeInv, TypeOK, Image
  <2>2. i \in 1..Len(chosen)
    BY DEF ChosenSaid
  <2>3. i <= Len(disk[n].log)
    BY <1>2 DEF Holds
  <2> QED BY <2>1, <2>2, <2>3
<1>4. x \in Facts
  <2>1. x \in Slots(disk[n].log)
    BY <1>3 DEF Slots
  <2> QED BY <2>1 DEF Facts
<1>5. x.at = slot.index /\ x.entry.term = slot.term
  BY <1>2 DEF Holds
<1> QED BY <1>4, <1>5

\* A step notes the commits of the one node it runs, or none at all.
LEMMA CommitStep ==
    ASSUME TypeInv, TypeInv', Durable, [Next]_vars
    PROVE  \/ UNCHANGED <<committed, chosen, conflicts>>
           \/ /\ Repeats
              /\ \E n \in Node : \E t :
                    Sound(t) /\ Saves(n, t) /\ NotesCommits(t)
<1>1. ASSUME NEW n \in Node, NEW t, Saves(n, t) PROVE Sound(t)
  BY <1>1, NodeSound DEF Saves, TypeInv, TypeOK, Sound
<1>2. CASE \/ Schedule \/ BeginBeats \/ EndTick \/ Done \/ UNCHANGED vars
  BY <1>2 DEF Schedule, Cut, Heal, Crash, Restart, Submit, Read, SubmitRefused,
              BeginBeats, EndTick, Done, vars, driver, record
<1>3. ASSUME NEW n \in Node, NodeTick(n)
      PROVE  UNCHANGED <<committed, chosen, conflicts>>
             \/ \E t : Saves(n, t) /\ NotesCommits(t)
  BY <1>3, Zenon DEF NodeTick, Raises, record, Notes
<1>4. ASSUME NEW n \in Node, NEW e,
             \/ Drop(e, n) \/ DeliverRequestVote(e, n)
             \/ DeliverVoteReply(e, n) \/ DeliverAppend(e, n)
             \/ DeliverAppendReply(e, n)
      PROVE  UNCHANGED <<committed, chosen, conflicts>>
             \/ \E t : Saves(n, t) /\ NotesCommits(t)
  BY <1>4, Zenon DEF Drop, DeliverRequestVote, DeliverVoteReply, DeliverAppend,
                     DeliverAppendReply, Raises, record, Receives, Notes
<1>5. ASSUME NEW n \in Node, NodeTick(n) PROVE Repeats
  BY <1>5, TickFacts
<1>6. CASE Deliver
  <2>1. PICK n \in Node : \/ Drop(Head(pending), n)
                          \/ DeliverRequestVote(Head(pending), n)
                          \/ DeliverVoteReply(Head(pending), n)
                          \/ DeliverAppend(Head(pending), n)
                          \/ DeliverAppendReply(Head(pending), n)
    BY <1>6 DEF Deliver
  <2>2. Repeats
    BY <1>6, <2>1, DeliverFacts DEF Deliver
  <2> QED BY <1>1, <1>4, <2>1, <2>2
<1> QED BY <1>1, <1>2, <1>3, <1>5, <1>6 DEF Next, Drive

\* What a node that notes its commits leaves in the record.
LEMMA NotedChosen ==
    ASSUME TypeInv, TypeInv', NEW t, Sound(t), NotesCommits(t)
    PROVE  /\ \A i \in 1..t.commit_index :
                  i \in 1..Len(t.log) /\ i \in 1..Len(chosen')
           /\ \A i \in 1..Len(chosen) :
                  i \in 1..Len(chosen') /\ chosen'[i] = chosen[i]
           /\ \A i \in 1..Len(chosen') :
                  i \in 1..Len(chosen)
                  \/ (i \in 1..t.commit_index /\ chosen'[i] = t.log[i].cmd)
<1> DEFINE k   == t.commit_index - Len(chosen)
           new == [i \in 1..k |-> t.log[Len(chosen) + i].cmd]
<1>1. /\ chosen \in Seq(Command) /\ Len(chosen) \in Nat
      /\ t.commit_index \in Nat /\ k \in Int
      /\ t.log \in Seq(Entry) /\ Len(t.log) \in Nat
      /\ t.commit_index <= Len(t.log)
  <2>1. chosen \in Seq(Command) /\ Len(chosen) \in Nat
    BY DEF TypeInv, TypeOK
  <2>2. /\ t.commit_index \in Nat /\ t.log \in Seq(Entry)
        /\ t.commit_index <= Len(t.log)
    BY DEF Sound, State, Builds
  <2> QED BY <2>1, <2>2
<1>2. chosen' = chosen \o new
  BY DEF NotesCommits
<1>3. PICK j \in Nat : 1..k = 1..j /\ (k >= 0 => j = k) /\ (k < 0 => j = 0)
  <2>1. CASE k >= 0
    BY <1>1, <2>1
  <2>2. CASE k < 0
    BY <1>1, <2>2, 1..k = 1..0
  <2> QED BY <1>1, <2>1, <2>2
<1>4. \A i \in 1..k : new[i] \in Command
  <2> TAKE i \in 1..k
  <2>1. Len(chosen) + i \in 1..Len(t.log)
    BY <1>1
  <2>2. t.log[Len(chosen) + i] \in Entry
    BY <1>1, <2>1
  <2> QED BY <2>2 DEF Entry
<1>5. /\ new \in [1..j -> Command] /\ DOMAIN new = 1..j
      /\ \A i \in 1..j : new[i] = t.log[Len(chosen) + i].cmd
  BY <1>3, <1>4
<1> HIDE DEF new
<1>6. new \in Seq(Command) /\ Len(new) = j
  BY <1>3, <1>5, SeqDef
<1>7. /\ Len(chosen') = Len(chosen) + j
      /\ \A i \in 1..Len(chosen) : chosen'[i] = chosen[i]
      /\ \A i \in 1..j : chosen'[Len(chosen) + i] = new[i]
  <2>1. PICK f : f = chosen
    OBVIOUS
  <2>2. f \in Seq(Command) /\ Len(f) \in Nat
    BY <1>1, <2>1
  <2>3. /\ Len(f \o new) = Len(f) + j
        /\ \A i \in 1..Len(f) : (f \o new)[i] = f[i]
    BY <1>6, <2>2
  <2>4. ASSUME NEW i \in 1..j PROVE (f \o new)[Len(f) + i] = new[i]
    <3>1. Len(f) + i \in 1..(Len(f) + j) /\ ~(Len(f) + i <= Len(f))
          /\ Len(f) + i - Len(f) = i
      BY <2>2, <2>4
    <3> QED BY <1>6, <2>2, <3>1
  <2> QED BY <1>2, <2>1, <2>3, <2>4
<1>8. Len(chosen') >= Len(chosen) /\ Len(chosen') >= t.commit_index
  BY <1>1, <1>3, <1>7
<1>9. ASSUME NEW i \in 1..Len(chosen'), i \notin 1..Len(chosen)
      PROVE  i \in 1..t.commit_index /\ chosen'[i] = t.log[i].cmd
  <2>1. i - Len(chosen) \in 1..j /\ Len(chosen) + (i - Len(chosen)) = i
    BY <1>1, <1>3, <1>7, <1>9
  <2>2. i \in 1..t.commit_index
    BY <1>1, <1>3, <1>7, <1>9, <2>1
  <2> QED BY <1>5, <1>7, <2>1, <2>2
<1>10. \A i \in 1..t.commit_index :
          i \in 1..Len(t.log) /\ i \in 1..Len(chosen')
  BY <1>1, <1>3, <1>7, <1>8
<1>11. \A i \in 1..Len(chosen) : i \in 1..Len(chosen')
  BY <1>1, <1>3, <1>7, <1>8
<1> QED BY <1>7, <1>9, <1>10, <1>11

\* A slot committed again is committed in the term it was, for the two
\* majorities share a disk; and what is said of the slot in that term is one
\* command.
LEMMA ChosenStep ==
    ASSUME MatchInv, CommitsKept, ChosenSaid, [Next]_vars,
           CommitsKept'
    PROVE  ChosenSaid'
<1>1. MatchInv' /\ TypeInv /\ TypeInv' /\ Durable
  BY MatchStep DEF MatchInv
<1>2. SlotsAgree /\ SlotsLed /\ SlotsAgree'
  BY <1>1 DEF MatchInv, CommitsKept
<1>3. ChosenHeldByMajority /\ ChosenHeldByMajority'
  BY DEF CommitsKept
<1>4. committed \subseteq [index : Nat, term : Nat]
  BY <1>1 DEF TypeInv, TypeOK
<1>5. CASE UNCHANGED <<committed, chosen, conflicts>>
  <2>1. ASSUME NEW x \in Facts',
               [index |-> x.at, term |-> x.entry.term] \in committed
        PROVE  x \in Facts
    <3>1. CASE Repeats
      BY <2>1, <3>1 DEF Repeats
    <3>2. ASSUME NEW n \in Node, NEW y, Commands(n, y), x \notin Facts
          PROVE  FALSE
      <4>1. /\ x = y /\ n \in up /\ node[n].role = "leader"
            /\ x.entry.term = node[n].term /\ x.at = Len(node[n].log) + 1
        BY <2>1, <3>2 DEF Commands
      <4>2. PICK z \in Facts : z.at = x.at /\ z.entry.term = x.entry.term
        BY <1>1, <1>3, <2>1, HeldSaid
      <4>3. z.at <= Len(node[n].log)
        BY <1>2, <4>1, <4>2 DEF SlotsLed
      <4>4. Len(node[n].log) \in Nat
        BY <1>1, <3>2 DEF TypeInv, TypeOK, State
      <4> QED BY <4>1, <4>2, <4>3, <4>4
    <3> QED BY <1>1, <3>1, <3>2, FactsStep
  <2> QED BY <1>5, <2>1 DEF ChosenSaid
<1>6. ASSUME Repeats, NEW n \in Node, NEW t, Sound(t), Saves(n, t),
             NotesCommits(t)
      PROVE  ChosenSaid'
  <2>1. disk'[n].log = t.log
    BY <1>1, <1>6 DEF Saves, TypeInv, TypeOK, persist
  <2> DEFINE fact(i) == [at |-> i, entry |-> t.log[i],
                         before |-> TermAt(t.log, i - 1)]
             slot(i) == [index |-> i, term |-> t.log[i].term]
             line    == 1..t.commit_index
  <2>2. /\ committed' = committed \cup {slot(i) : i \in line}
        /\ \A i \in 1..t.commit_index :
               i \in 1..Len(t.log) /\ i \in 1..Len(chosen')
        /\ \A i \in 1..Len(chosen) :
               i \in 1..Len(chosen') /\ chosen'[i] = chosen[i]
        /\ \A i \in 1..Len(chosen') :
               i \in 1..Len(chosen)
               \/ (i \in 1..t.commit_index /\ chosen'[i] = t.log[i].cmd)
    <3>1. committed' = committed \cup {slot(i) : i \in line}
      BY <1>6 DEF NotesCommits
    <3> QED BY <1>1, <1>6, <3>1, NotedChosen
  <2>3. \A i \in line : fact(i) \in Facts /\ fact(i) \in Facts'
    <3> TAKE i \in line
    <3>1. fact(i) \in Slots(disk'[n].log)
      BY <2>1, <2>2 DEF Slots
    <3>2. fact(i) \in Facts'
      BY <3>1 DEF Facts
    <3> QED BY <1>6, <3>2 DEF Repeats
\* The command a node commits again is the one chosen.
  <2>4. ASSUME NEW i \in line, i \in 1..Len(chosen)
        PROVE  t.log[i].cmd = chosen[i]
    <3>1. PICK a \in committed : a.index = i
      <4>1. i \in {a.index : a \in committed}
        BY <2>4 DEF ChosenSaid
      <4> QED BY <4>1
    <3>2. a \in committed' /\ slot(i) \in committed'
      BY <2>2, <2>4
    <3>3. /\ Cardinality({p \in Node : Holds(p, a)'}) >= majority(Node)
          /\ Cardinality({p \in Node : Holds(p, slot(i))'}) >= majority(Node)
      BY <1>3, <3>2 DEF ChosenHeldByMajority
    <3>4. PICK p \in Node : Holds(p, a)' /\ Holds(p, slot(i))'
      BY <3>3, MajoritiesMeet
    <3>5. a.term = t.log[i].term
      BY <3>1, <3>4 DEF Holds
    <3>6. a = slot(i)
      BY <1>4, <3>1, <3>5
    <3> QED BY <2>3, <2>4, <3>1, <3>6 DEF ChosenSaid
  <2>5. conflicts' = {}
    <3>1. {j \in (1..t.commit_index) \cap (1..Len(chosen)) :
              /\ chosen[j] # t.log[j].cmd
              /\ \A c \in conflicts : c.index # j} = {}
      BY <2>4
    <3>2. conflicts' = conflicts \cup
              {[index |-> i, first |-> chosen[i], other |-> t.log[i].cmd] :
                  i \in {j \in (1..t.commit_index) \cap (1..Len(chosen)) :
                            /\ chosen[j] # t.log[j].cmd
                            /\ \A c \in conflicts : c.index # j}}
      BY <1>6 DEF NotesCommits
    <3> QED BY <3>1, <3>2 DEF ChosenSaid
  <2>6. ASSUME NEW x \in Facts',
               [index |-> x.at, term |-> x.entry.term] \in committed'
        PROVE  chosen'[x.at] = x.entry.cmd
    <3>1. CASE [index |-> x.at, term |-> x.entry.term] \in committed
      <4>1. x \in Facts
        BY <1>6, <2>6 DEF Repeats
      <4>2. chosen[x.at] = x.entry.cmd
        BY <3>1, <4>1 DEF ChosenSaid
      <4>3. x.at \in 1..Len(chosen)
        <5> DEFINE a == [index |-> x.at, term |-> x.entry.term]
        <5>1. a \in committed /\ a.index = x.at
          BY <3>1
        <5> QED BY <5>1 DEF ChosenSaid
      <4> QED BY <2>2, <4>2, <4>3
    <3>2. ASSUME NEW i \in line,
                 [index |-> x.at, term |-> x.entry.term] = slot(i)
          PROVE  chosen'[x.at] = x.entry.cmd
      <4>1. x.at = i /\ x.entry.term = t.log[i].term
        BY <3>2
      <4>2. x = fact(i)
        BY <1>2, <2>3, <2>6, <3>2, <4>1 DEF SlotsAgree
      <4>3. x.entry.cmd = t.log[i].cmd
        BY <4>2
      <4>4. i \in 1..Len(chosen')
        BY <2>2, <3>2
      <4>5. chosen'[i] = t.log[i].cmd
        BY <2>2, <2>4, <3>2, <4>4
      <4> QED BY <4>1, <4>3, <4>4, <4>5
    <3> QED BY <2>2, <2>6, <3>1, <3>2
  <2>7. ASSUME NEW i \in 1..Len(chosen')
        PROVE  \E a \in committed' : a.index = i
    <3>1. CASE i \in 1..Len(chosen)
      BY <2>2, <3>1 DEF ChosenSaid
    <3>2. CASE i \in line
      <4>1. slot(i) \in committed' /\ slot(i).index = i
        BY <2>2, <3>2
      <4> QED BY <4>1
    <3> QED BY <2>2, <2>7, <3>1, <3>2
  <2>8. ASSUME NEW a \in committed' PROVE a.index \in 1..Len(chosen')
    <3>1. CASE a \in committed
      <4>1. a.index \in 1..Len(chosen)
        BY <3>1 DEF ChosenSaid
      <4> QED BY <2>2, <4>1
    <3>2. CASE \E i \in line : a = slot(i)
      BY <2>2, <3>2
    <3> QED BY <2>2, <2>8, <3>1, <3>2
  <2>9. {a.index : a \in committed'} = 1..Len(chosen')
    BY <2>7, <2>8
  <2> QED BY <2>5, <2>6, <2>9 DEF ChosenSaid
<1> QED BY <1>1, <1>5, <1>6, CommitStep

\* Nothing is chosen at the start.
LEMMA ChosenInit == Init => ChosenSaid
<1> SUFFICES ASSUME Init PROVE ChosenSaid
  OBVIOUS
<1>1. conflicts = {} /\ committed = {} /\ chosen = << >>
  BY DEF Init
<1>2. 1..Len(<< >>) = {}
  OBVIOUS
<1> QED BY <1>1, <1>2 DEF ChosenSaid

\* Two commands are committed at one slot only where a term has had two
\* leaders or a commit has left a majority of the disks: under any memberships
\* and any faults, agreement can be lost in no third way.
THEOREM CommittedOnce ==
    Spec /\ []CommitsKept => []SlotsCommitOnce
<1>1. /\ MatchInv /\ [Next]_vars /\ CommitsKept /\ CommitsKept'
         /\ ChosenSaid => MatchInv' /\ ChosenSaid'
  <2>1. CASE /\ MatchInv /\ [Next]_vars /\ CommitsKept
             /\ CommitsKept' /\ ChosenSaid
    BY <2>1, MatchStep, ChosenStep
  <2> QED BY <2>1
<1>2. ChosenSaid => SlotsCommitOnce
  BY DEF ChosenSaid, SlotsCommitOnce
<1> QED BY <1>1, <1>2, MatchInit, ChosenInit, PTL DEF Spec

\* Under a fixed membership, then, only a leader that resigns or a commit that
\* leaves a majority can lose it.
THEOREM CommittedOnceUnlessResigned ==
    ASSUME Fixed
    PROVE  Spec /\ KeepOffice /\ []ChosenHeldByMajority => []SlotsCommitOnce
<1>1. []OneLeaderPerTerm /\ []ChosenHeldByMajority => []CommitsKept
  <2>1. OneLeaderPerTerm /\ ChosenHeldByMajority => CommitsKept
    BY DEF CommitsKept
  <2> QED BY <2>1, PTL
<1> QED BY <1>1, OneLeaderUnlessResigned, CommittedOnce, PTL
====
