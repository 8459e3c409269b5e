------------------------------ MODULE NodeTypes ------------------------------
(***************************************************************************)
(* What the operators of ConsensusNode return: states, images and messages *)
(* of the declared shapes.                                                 *)
(***************************************************************************)
EXTENDS ConsensusNode, Counting, FiniteSetTheorems,
        SequenceTheorems, TLAPS

(* The members of a finite set of naturals in their order.                 *)

\* nth(S, i) is a member of S.
LEMMA NthMember ==
    ASSUME NEW S \in SUBSET Nat, IsFiniteSet(S),
           NEW i \in 1..Cardinality(S)
    PROVE  nth(S, i) \in S
BY Numbering DEF nth, Below

\* Top of a finite set of naturals is its maximum, and 0 of the empty set.
LEMMA TopMax ==
    ASSUME NEW S \in SUBSET Nat, IsFiniteSet(S)
    PROVE  /\ Top(S) \in Nat
           /\ S # {} => Top(S) \in S /\ \A j \in S : j <= Top(S)
<1>1. CASE S = {}
  BY <1>1 DEF Top
<1>2. CASE S # {}
  BY <1>2, Greatest DEF Top
<1> QED BY <1>1, <1>2

\* Top of a set of slots up to a length.
LEMMA TopSlot ==
    ASSUME NEW a \in Nat, NEW b \in Nat, NEW S \in SUBSET (a..b)
    PROVE  Top(S) \in Nat /\ (S # {} => Top(S) \in S) /\ Top(S) <= b
<1>1. \A x \in S : x \in Nat /\ x <= b
  OBVIOUS
<1>2. IsFiniteSet(a..b)
  BY FS_Interval
<1>3. IsFiniteSet(S)
  BY <1>2, FS_Subset
<1>4. Top(S) \in Nat /\ (S # {} => Top(S) \in S)
  BY <1>1, <1>3, TopMax
<1> QED BY <1>1, <1>4 DEF Top
-----------------------------------------------------------------------------
(* The follower's side.                                                    *)

\* A state whose commit line lies within its log.
Sound(s) == s \in State /\ Builds(s)

\* The follower builder of wire.py keeps a state a state.
LEMMA FollowerType ==
    ASSUME NEW s \in State PROVE follower(s) \in State
BY DEF follower, State, NoRow, Row

\* Stage 10 init: a blank node is sound, whatever ids it is booted with.
LEMMA InitType ==
    ASSUME NEW ids \in SUBSET Node PROVE Sound(init(ids))
BY DEF Sound, init, Builds, State, NoRow, Row, Nobody

\* What persist writes to a disk is an image.
LEMMA PersistType ==
    ASSUME NEW s \in State PROVE persist(s) \in Image
BY DEF persist, State, Image

\* recover rebuilds a sound state from any image whose commit line lies
\* within its log.
LEMMA RecoverType ==
    ASSUME NEW image \in Image, image.commit_index <= Len(image.log)
    PROVE  Sound(recover(image))
BY DEF Sound, recover, init, Builds, Image, State, NoRow, Row, Nobody

\* _apply_committed installs a config of nodes and touches nothing else.
LEMMA ApplyType ==
    ASSUME NEW s, Sound(s) PROVE Sound(apply_committed(s))
<1> DEFINE M == MemberSlots(s)
<1>1. s \in State /\ s.commit_index \in Nat /\ s.log \in Seq(Entry)
  BY DEF Sound, State
<1>2. M \in SUBSET (1..s.commit_index)
  BY DEF MemberSlots
<1>3. CASE M # {}
  <2>1. Top(M) \in M
    BY <1>1, <1>2, <1>3, TopSlot
  <2>2. Top(M) \in 1..Len(s.log) /\ "members" \in DOMAIN s.log[Top(M)].cmd
    BY <1>1, <2>1 DEF MemberSlots, Sound, Builds
  <2>3. s.log[Top(M)].cmd \in Command
    <3>1. s.log[Top(M)] \in Entry
      BY <1>1, <2>2
    <3> QED BY <3>1 DEF Entry
  <2>4. s.log[Top(M)].cmd.members \in SUBSET Node
    BY <2>2, <2>3, MemberAssumption DEF Command
  <2>5. [s EXCEPT !.config = s.log[Top(M)].cmd.members] \in State
    BY <1>1, <2>4 DEF State
  <2> QED BY <1>1, <1>3, <2>5 DEF apply_committed, Sound, Builds, State
<1> QED BY <1>3 DEF apply_committed

\* Adopting a term keeps a state sound.
LEMMA AdoptType ==
    ASSUME NEW s, Sound(s), NEW t \in Nat PROVE Sound(adopt(s, t))
BY DEF Sound, adopt, Builds, State, Nobody

\* grant_vote, granting or denying, keeps the voter sound.
LEMMA GrantType ==
    ASSUME NEW s, Sound(s), NEW m \in RequestVoteMsg
    PROVE  Sound(grant_vote(s, m)) /\ Sound(recv_request_vote(s, m))
<1>1. m.term \in Nat /\ m.cand \in Node
  BY DEF RequestVoteMsg
<1>2. Sound(adopt(s, m.term))
  BY <1>1, AdoptType
<1> DEFINE a == adopt(s, m.term)
           g == [a EXCEPT !.voted_for = IF Grants(s, m) THEN m.cand ELSE @]
<1>3. Sound(g)
  BY <1>1, <1>2 DEF Sound, Builds, State
<1>4. Sound(follower(g))
  BY <1>3, FollowerType DEF Sound, Builds, follower, State
<1> QED BY <1>4 DEF grant_vote, recv_request_vote

\* The answer to a vote request is a VOTE_REPLY.
LEMMA VoteReplyType ==
    ASSUME NEW n \in Node, NEW s, Sound(s), NEW m \in RequestVoteMsg
    PROVE  vote_reply(n, s, m) \in VoteReplyMsg
<1>1. recv_request_vote(s, m).term \in Nat
  BY GrantType DEF Sound, State
<1>2. m.cand \in Node
  BY DEF RequestVoteMsg
<1>3. (~Contends(s, m) /\ Grants(s, m)) \in BOOLEAN
  OBVIOUS
<1> QED BY <1>1, <1>2, <1>3 DEF vote_reply, VoteReplyMsg

\* Restarting or counting the timer keeps a state sound.
LEMMA TimerType ==
    ASSUME NEW s, Sound(s), NEW k \in Nat
    PROVE  Sound([s EXCEPT !.elapsed = k])
BY DEF Sound, Builds, State

\* start_election keeps the candidate sound.
LEMMA ElectionType ==
    ASSUME NEW n \in Node, NEW s, Sound(s)
    PROVE  Sound(start_election(n, s))
<1>1. s.term + 1 \in Nat
  BY DEF Sound, State
<1>2. start_election(n, s) \in State
  BY <1>1 DEF Sound, State, start_election
<1>3. /\ start_election(n, s).log = s.log
      /\ start_election(n, s).commit_index = s.commit_index
  BY DEF Sound, State, start_election
<1> QED BY <1>2, <1>3 DEF Sound, Builds

\* The slots of a log, its end included, have terms.
LEMMA TermAtType ==
    ASSUME NEW log \in Seq(Entry), NEW i \in 0..Len(log)
    PROVE  TermAt(log, i) \in Nat
<1>1. ASSUME i # 0 PROVE log[i].term \in Nat
  <2>1. i \in 1..Len(log)
    BY <1>1
  <2>2. log[i] \in Entry
    BY <2>1
  <2> QED BY <2>2 DEF Entry
<1> QED BY <1>1 DEF TermAt

\* The last slot of a log has a term, 0 of an empty log.
LEMMA LastTermType ==
    ASSUME NEW log \in Seq(Entry)
    PROVE  LastTerm(log) \in Nat
<1>1. Len(log) \in 0..Len(log)
  OBVIOUS
<1> QED BY <1>1, TermAtType DEF LastTerm

\* A candidate's message is a REQUEST_VOTE.
LEMMA RequestType ==
    ASSUME NEW n \in Node, NEW s, Sound(s)
    PROVE  request_vote(n, s) \in RequestVoteMsg
<1>1. s.term \in Nat /\ s.log \in Seq(Entry)
  BY DEF Sound, State
<1>2. LastTerm(s.log) \in Nat /\ Len(s.log) \in Nat
  BY <1>1, LastTermType
<1> QED BY <1>1, <1>2 DEF request_vote, RequestVoteMsg

\* A new leader is sound, and its rows all point into its log, so that its
\* first broadcast cannot fail.
LEMMA LeaderType ==
    ASSUME NEW n \in Node, NEW s, Sound(s)
    PROVE  Sound(become_leader(n, s)) /\ Anchored(n, become_leader(n, s))
<1> DEFINE l == become_leader(n, s)
<1>1. Sound(l)
  <2>1. s \in State /\ Len(s.log) + 1 \in Nat
    BY DEF Sound, State
  <2> DEFINE next == [p \in Node |-> IF p \in s.config \ {n}
                                     THEN Len(s.log) + 1 ELSE 0]
  <2>2. NoRow \in Row /\ next \in Row
    BY <2>1 DEF NoRow, Row
  <2>3. l = [s EXCEPT !.role = "leader", !.voted_for = Nobody, !.elapsed = 0,
                      !.votes = {}, !.matched = NoRow, !.next_index = next]
    BY DEF become_leader
  <2> HIDE DEF next, l
  <2>4. l \in State /\ l.log = s.log /\ l.commit_index = s.commit_index
    BY <2>1, <2>2, <2>3 DEF State, Nobody
  <2> QED BY <2>4 DEF Sound, Builds
<1>2. /\ l.log = s.log /\ l.config = s.config
      /\ \A p \in Node : l.next_index[p] \in {0, Len(s.log) + 1}
  BY DEF become_leader, Sound, State
<1>3. s.config \subseteq Node /\ Len(s.log) \in Nat
  BY DEF Sound, State
<1>4. Anchored(n, l)
  BY <1>2, <1>3 DEF Anchored, NextOf
<1> QED BY <1>1, <1>4

\* A tally counts nodes.
LEMMA VotersType ==
    ASSUME NEW n \in Node, NEW s \in State, NEW m
    PROVE  Voters(n, s, m) \in SUBSET Node
BY DEF State, Voters

\* recv_vote_reply keeps a candidate sound: elected, counting or deposed.
LEMMA TallyType ==
    ASSUME NEW n \in Node, NEW s, Sound(s), NEW m \in VoteReplyMsg
    PROVE  Sound(recv_vote_reply(n, s, m))
<1>1. m.term \in Nat /\ s \in State
  BY DEF VoteReplyMsg, Sound
<1>2. CASE m.term > s.term
  <2> DEFINE a == [s EXCEPT !.term = m.term, !.voted_for = Nobody]
  <2>1. Sound(a)
    BY <1>1 DEF Sound, Builds, State, Nobody
  <2>2. Sound(follower(a))
    BY <2>1, FollowerType DEF Sound, Builds, follower, State
  <2> QED BY <1>2, <2>2 DEF recv_vote_reply
<1>3. CASE ~(m.term > s.term)
  <2>1. Sound([s EXCEPT !.votes = Voters(n, s, m)])
    BY <1>1, VotersType DEF Sound, Builds, State
  <2>2. Sound(become_leader(n, s))
    BY LeaderType
  <2> QED BY <1>3, <2>1, <2>2 DEF recv_vote_reply
<1> QED BY <1>2, <1>3
-----------------------------------------------------------------------------
(* Appends and their answers.                                              *)

\* What a leader sends a peer is an APPEND, provided the peer's row points
\* into the log.
LEMMA AppendType ==
    ASSUME NEW n \in Node, NEW s, Sound(s), Anchored(n, s),
           NEW p \in s.config \ {n}
    PROVE  append(n, s, p) \in AppendMsg
<1>1. /\ s.term \in Nat /\ s.log \in Seq(Entry) /\ s.commit_index \in Nat
      /\ p \in Node /\ s.next_index \in [Node -> Nat]
  BY DEF Sound, State, Row
<1> DEFINE next == NextOf(s, p)
<1>2. next \in 1..(Len(s.log) + 1)
  BY <1>1 DEF NextOf, Anchored
<1>3. next - 1 \in Nat /\ (next - 1 # 0 => next - 1 \in 1..Len(s.log))
  BY <1>1, <1>2
<1>4. TermAt(s.log, next - 1) \in Nat
  <2>1. next - 1 \in 0..Len(s.log)
    BY <1>1, <1>2
  <2> QED BY <1>1, <2>1, TermAtType
<1>5. SubSeq(s.log, next, Len(s.log)) \in Seq(Entry)
  BY <1>1, <1>2
<1> QED BY <1>1, <1>3, <1>4, <1>5 DEF append, AppendMsg

\* One APPEND per peer, in the order of the config.
LEMMA BroadcastType ==
    ASSUME NEW n \in Node, NEW s, Sound(s), Anchored(n, s)
    PROVE  broadcast(n, s) \in Seq(AppendMsg)
<1> DEFINE P == s.config \ {n}
<1>1. P \in SUBSET Nat /\ P \subseteq Node /\ IsFiniteSet(P)
  BY NodeAssumption, FS_Subset DEF Sound, State
<1>2. Cardinality(P) \in Nat
  BY <1>1, FS_CardinalityType
<1>3. \A i \in 1..Cardinality(P) : append(n, s, nth(P, i)) \in AppendMsg
  <2> TAKE i \in 1..Cardinality(P)
  <2>1. nth(P, i) \in P
    BY <1>1, NthMember
  <2> QED BY <2>1, AppendType
<1>4. broadcast(n, s) \in [1..Cardinality(P) -> AppendMsg]
  BY <1>3 DEF broadcast
<1> QED BY <1>2, <1>4, SeqDef

\* The prefix a mismatch keeps lies below prev_index.
LEMMA KeptType ==
    ASSUME NEW log, NEW m \in AppendMsg
    PROVE  /\ Kept(log, m) \in Nat
           /\ m.prev_index > 0 => Kept(log, m) < m.prev_index
<1> DEFINE K == {k \in 1..(m.prev_index - 1) : log[k].term # m.prev_term}
<1>1. m.prev_index \in Nat
  BY DEF AppendMsg
<1>2. CASE m.prev_index = 0
  <2>1. K = {}
    BY <1>2
  <2> QED BY <1>2, <2>1 DEF Kept, Top
<1>3. CASE m.prev_index > 0
  <2>1. m.prev_index - 1 \in Nat /\ K \in SUBSET (1..(m.prev_index - 1))
    BY <1>1, <1>3
  <2>2. Top(K) \in Nat /\ Top(K) <= m.prev_index - 1
    BY <2>1, TopSlot
  <2> QED BY <1>1, <1>3, <2>2 DEF Kept
<1> QED BY <1>1, <1>2, <1>3

\* Standing down before a leader keeps a state sound.
LEMMA StandDownType ==
    ASSUME NEW s, Sound(s), NEW m \in AppendMsg
    PROVE  Sound(stand_down(s, m))
<1>1. m.term \in Nat /\ m.sender \in Node
  BY DEF AppendMsg
<1> DEFINE a == adopt(s, m.term)
<1>2. Sound(a)
  BY <1>1, AdoptType
<1> HIDE DEF a
<1>3. Sound(follower(a))
  BY <1>2, FollowerType DEF Sound, Builds, follower, State
<1> DEFINE f == follower(a)
<1>4. Sound(f)
  BY <1>3
<1> HIDE DEF f
<1>5. Sound([f EXCEPT !.elapsed = 0,
                      !.voted_for = IF @ = Nobody THEN m.sender ELSE @])
  BY <1>1, <1>4 DEF Sound, Builds, State, Nobody
<1> QED BY <1>5 DEF stand_down, f, a

\* The log and the commit line of a reconciled follower have their types; its
\* commit line may lie past its log, which is what the builder refuses.
LEMMA ReconcileType ==
    ASSUME NEW f, Sound(f), NEW m \in AppendMsg
    PROVE  reconcile(f, m) \in State
<1>1. /\ f \in State /\ f.log \in Seq(Entry) /\ f.commit_index \in Nat
      /\ m.prev_index \in Nat /\ m.entries \in Seq(Entry)
      /\ m.leader_commit \in Nat
  BY DEF Sound, State, AppendMsg
<1>2. ASSUME NEW log \in Seq(Entry), NEW line \in Nat
      PROVE  [f EXCEPT !.log = log, !.commit_index = line] \in State
  BY <1>1 DEF State
<1>3. CASE m.prev_index > Len(f.log)
  BY <1>1, <1>3 DEF reconcile
<1>4. CASE m.prev_index <= Len(f.log)
  <2> DEFINE k == Kept(f.log, m)
             log1 == SubSeq(f.log, 1, k)
             log2 == SubSeq(f.log, 1, m.prev_index) \o m.entries
             line1 == lesser(f.commit_index, k)
             line2 == IF m.leader_commit > f.commit_index
                      THEN lesser(m.leader_commit, Len(log2))
                      ELSE f.commit_index
  <2>1. ASSUME m.prev_index > 0 PROVE k \in 0..Len(f.log)
    <3>1. k \in Nat /\ k < m.prev_index
      BY <2>1, KeptType
    <3> QED BY <1>1, <1>4, <3>1
  <2>2. ASSUME NEW j \in 0..Len(f.log)
        PROVE  SubSeq(f.log, 1, j) \in Seq(Entry)
    BY <1>1
  <2>3. log2 \in Seq(Entry) /\ Len(log2) \in Nat
    <3>1. m.prev_index \in 0..Len(f.log)
      BY <1>1, <1>4
    <3>2. SubSeq(f.log, 1, m.prev_index) \in Seq(Entry)
      BY <2>2, <3>1
    <3> QED BY <1>1, <3>2
  <2>4. line2 \in Nat
    BY <1>1, <2>3 DEF lesser
  <2>5. CASE TermAt(f.log, m.prev_index) # m.prev_term /\ m.prev_index > 0
    <3>1. log1 \in Seq(Entry) /\ line1 \in Nat
      BY <1>1, <2>1, <2>2, <2>5 DEF lesser
    <3>2. reconcile(f, m) = [f EXCEPT !.log = log1, !.commit_index = line1]
      <4>1. ~(m.prev_index > Len(f.log))
        BY <1>1, <1>4
      <4> QED BY <2>5, <4>1, Zenon DEF reconcile
    <3> QED BY <1>2, <3>1, <3>2
  <2>6. CASE ~(TermAt(f.log, m.prev_index) # m.prev_term /\ m.prev_index > 0)
    <3>1. reconcile(f, m) = [f EXCEPT !.log = log2, !.commit_index = line2]
      <4>1. ~(m.prev_index > Len(f.log))
        BY <1>1, <1>4
      <4> QED BY <2>6, <4>1, Zenon DEF reconcile
    <3> QED BY <1>2, <2>3, <2>4, <3>1
  <2> QED BY <2>5, <2>6
<1> QED BY <1>1, <1>3, <1>4

\* handle_append returns a state, and a sound one if the builder accepts it.
LEMMA HandleType ==
    ASSUME NEW s, Sound(s), NEW m \in AppendMsg
    PROVE  handle_append(s, m) \in State
<1>1. s \in State
  BY DEF Sound
<1>2. reconcile(stand_down(s, m), m) \in State
  BY StandDownType, ReconcileType
<1> QED BY <1>1, <1>2 DEF handle_append

\* The whole APPEND branch of recv, once the builder has accepted the state.
LEMMA RecvAppendType ==
    ASSUME NEW n \in Node, NEW s, Sound(s), NEW m \in AppendMsg,
           Builds(handle_append(s, m))
    PROVE  /\ Sound(recv_append(s, m))
           /\ append_reply(n, s, m) \in AppendReplyMsg
<1> DEFINE f == handle_append(s, m)
<1>1. Sound(f)
  BY HandleType DEF Sound
<1>2. Sound(recv_append(s, m))
  BY <1>1, ApplyType DEF recv_append
<1>3. f.term \in Nat /\ Len(f.log) \in Nat /\ Len(f.log) + 1 \in Nat
  BY <1>1 DEF Sound, State
<1>4. m.sender \in Node
  BY DEF AppendMsg
<1> HIDE DEF f
<1>5. append_reply(n, s, m) =
        [kind |-> "APPEND_REPLY", term |-> f.term, node |-> n,
         matched |-> Len(f.log), conflict |-> Len(f.log) + 1,
         leader |-> m.sender]
  BY DEF append_reply, f
<1> QED BY <1>2, <1>3, <1>4, <1>5 DEF AppendReplyMsg
-----------------------------------------------------------------------------
(* The leader's side.                                                      *)

\* advance_commit moves the commit line to a slot of the log.
LEMMA AdvanceType ==
    ASSUME NEW n, NEW s, Sound(s)
    PROVE  Sound(advance_commit(n, s)) /\ Sound(advance(n, s))
<1> DEFINE own == {i \in (s.commit_index + 1)..Len(s.log) :
                       s.log[i].term = s.term}
           won == {i \in own : \A j \in own : j <= i => Held(n, s, j)}
<1>1. s.commit_index + 1 \in Nat /\ Len(s.log) \in Nat
  BY DEF Sound, State
<1>2. won \in SUBSET ((s.commit_index + 1)..Len(s.log))
  OBVIOUS
<1>3. Top(won) \in Nat /\ Top(won) <= Len(s.log)
  BY <1>1, <1>2, TopSlot
<1> HIDE DEF won
<1>4. Sound([s EXCEPT !.commit_index = Top(won)])
  BY <1>3 DEF Sound, Builds, State
<1>5. advance_commit(n, s) =
        IF won = {} THEN s ELSE [s EXCEPT !.commit_index = Top(won)]
  BY DEF advance_commit, won
<1>6. Sound(advance_commit(n, s))
  BY <1>4, <1>5
<1> QED BY <1>6, ApplyType DEF advance

\* A peer's answer fills its rows with naturals.
LEMMA ObserveType ==
    ASSUME NEW s, Sound(s), NEW m \in AppendReplyMsg
    PROVE  Sound(observe_reply(s, m))
<1>1. /\ s \in State /\ m.matched \in Nat /\ m.conflict \in Nat
      /\ m.node \in Node
      /\ s.matched \in [Node -> Nat] /\ s.next_index \in [Node -> Nat]
  BY DEF Sound, State, Row, AppendReplyMsg
<1> DEFINE a == [s.matched EXCEPT ![m.node] = m.matched]
           b == [s.next_index EXCEPT ![m.node] = m.conflict]
<1>2. a \in Row /\ b \in Row
  BY <1>1 DEF Row
<1>3. [s EXCEPT !.matched[m.node] = m.matched,
                !.next_index[m.node] = m.conflict]
      = [s EXCEPT !.matched = a, !.next_index = b]
  BY <1>1 DEF State
<1> HIDE DEF a, b
<1>4. Sound([s EXCEPT !.matched = a, !.next_index = b])
  BY <1>2 DEF Sound, Builds, State
<1> QED BY <1>3, <1>4 DEF observe_reply

\* The APPEND_REPLY branch of recv keeps a leader sound.
LEMMA RecvReplyType ==
    ASSUME NEW n \in Node, NEW s, Sound(s), NEW m \in AppendReplyMsg
    PROVE  Sound(recv_append_reply(n, s, m))
<1>1. m.term \in Nat
  BY DEF AppendReplyMsg
<1>2. Sound([s EXCEPT !.elapsed = 0]) /\ Sound([s EXCEPT !.term = m.term, !.elapsed = 0])
  BY <1>1 DEF Sound, Builds, State
<1>3. ASSUME NEW r, Sound(r) PROVE Sound(follower(r))
  BY <1>3, FollowerType DEF Sound, Builds, follower, State
<1>4. Sound(advance(n, observe_reply(s, m)))
  BY ObserveType, AdvanceType
<1> QED BY <1>2, <1>3, <1>4 DEF recv_append_reply

\* A tick keeps a node sound: it beats, stands for election, or counts.
LEMMA TickType ==
    ASSUME NEW n \in Node, NEW s, Sound(s)
    PROVE  Sound(tick(n, s))
<1>1. s.elapsed + 1 \in Nat
  BY DEF Sound, State
<1>2. Sound([s EXCEPT !.elapsed = 0]) /\ Sound([s EXCEPT !.elapsed = @ + 1])
  BY <1>1 DEF Sound, Builds, State
<1> QED BY <1>2, ElectionType DEF tick

\* What a tick sends is one vote request or a broadcast.
LEMMA TickOutType ==
    ASSUME NEW n \in Node, NEW s, Sound(s), Beats(s) => Anchored(n, s)
    PROVE  tick_out(n, s) \in Seq(Message)
<1>1. ASSUME Beats(s) PROVE broadcast(n, s) \in Seq(Message)
  <2>1. broadcast(n, s) \in Seq(AppendMsg)
    BY <1>1, BroadcastType
  <2> QED BY <2>1 DEF Message
<1>2. request_vote(n, tick(n, s)) \in Message
  BY TickType, RequestType DEF Message
<1> QED BY <1>1, <1>2 DEF tick_out

\* A leader that takes a command appends it and may commit it at once.
LEMMA ClientType ==
    ASSUME NEW n, NEW s, Sound(s), NEW cmd \in Command
    PROVE  Sound(client_submit(s, cmd)) /\ Sound(client(n, s, cmd))
<1>1. /\ s \in State /\ s.log \in Seq(Entry) /\ s.term \in Nat
      /\ s.commit_index \in Nat /\ s.commit_index <= Len(s.log)
  BY DEF Sound, Builds, State
<1>2. [term |-> s.term, cmd |-> cmd] \in Entry
  BY <1>1 DEF Entry
<1> DEFINE log == Append(s.log, [term |-> s.term, cmd |-> cmd])
<1>3. log \in Seq(Entry) /\ Len(log) = Len(s.log) + 1
  BY <1>1, <1>2
<1>4. client_submit(s, cmd) = [s EXCEPT !.log = log]
  BY DEF client_submit
<1> HIDE DEF log
<1>5. Sound(client_submit(s, cmd))
  <2> DEFINE t == [s EXCEPT !.log = log]
  <2>1. t \in State
    BY <1>1, <1>3 DEF State
  <2>2. t.log = log /\ t.commit_index = s.commit_index
    BY <1>1 DEF State
  <2>3. Len(s.log) \in Nat
    BY <1>1
  <2>4. t.commit_index <= Len(t.log)
    BY <1>1, <1>3, <2>2, <2>3
  <2> HIDE DEF t
  <2>5. client_submit(s, cmd) = t
    BY <1>4 DEF t
  <2> QED BY <2>1, <2>4, <2>5 DEF Sound, Builds
<1> QED BY <1>5, AdvanceType DEF client
=============================================================================
