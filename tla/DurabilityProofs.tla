--------------------------- MODULE DurabilityProofs ---------------------------
(***************************************************************************)
(* What each step does to a node's term, role and vote; and from it, that  *)
(* disks are current and terms only grow, for every cluster size, timeout, *)
(* command and schedule.                                                   *)
(***************************************************************************)
EXTENDS ClusterTypes

(* What each handler may do to a node's term, role and vote.               *)

\* No ballot is cast: the node follows a newer term, or keeps its term, its
\* vote if it has one, and its role unless it stands down.
Steady(s, t) ==
    \/ t.term > s.term /\ t.role = "follower"
    \/ /\ t.term = s.term /\ t.role \in {s.role, "follower"}
       /\ t.votes \subseteq s.votes
       /\ s.voted_for \in {t.voted_for, Nobody}

\* The vote is given to c: in a newer term, or by a follower free to.
VotesFor(s, t, c) ==
    /\ t.role = "follower" /\ t.voted_for = c
    /\ \/ t.term > s.term
       \/ /\ t.term = s.term /\ s.role = "follower"
          /\ s.voted_for \in {Nobody, c}

\* An election is started, in a term of its own.
Stands(n, s, t) ==
    /\ t.term = s.term + 1 /\ t.role = "candidate"
    /\ t.voted_for = n /\ t.votes = {}

\* The same term, role, vote and tally.
Alike(s, t) ==
    /\ t.term = s.term /\ t.role = s.role
    /\ t.voted_for = s.voted_for /\ t.votes = s.votes

\* A membership applied at its commit leaves the vote alone.
LEMMA ApplyAlike ==
    ASSUME NEW s, Sound(s) PROVE Alike(s, apply_committed(s))
BY DEF Alike, apply_committed, Sound, State

\* So does an advance of the commit line.
LEMMA AdvanceAlike ==
    ASSUME NEW n, NEW s, Sound(s) PROVE Alike(s, advance(n, s))
<1>1. Alike(s, advance_commit(n, s))
  BY DEF Alike, advance_commit, Sound, State
<1>2. Alike(advance_commit(n, s), advance(n, s))
  BY AdvanceType, ApplyAlike DEF advance
<1> QED BY <1>1, <1>2 DEF Alike

\* A command appended by a leader leaves the vote alone.
LEMMA ClientAlike ==
    ASSUME NEW n, NEW s, Sound(s), NEW cmd \in Command
    PROVE  Alike(s, client(n, s, cmd))
<1>1. Alike(s, client_submit(s, cmd))
  BY DEF Alike, client_submit, Sound, State
<1>2. Alike(client_submit(s, cmd), client(n, s, cmd))
  BY ClientType, AdvanceAlike DEF client
<1> QED BY <1>1, <1>2 DEF Alike

\* An APPEND casts no ballot: the sender becomes the vote of a follower that
\* has none, never in place of one.
LEMMA AppendSteady ==
    ASSUME NEW s, Sound(s), NEW m \in AppendMsg,
           Builds(handle_append(s, m))
    PROVE  Steady(s, recv_append(s, m))
<1>1. /\ s \in State /\ s.term \in Nat /\ m.term \in Nat /\ m.sender \in Node
      /\ s.voted_for \in Node \cup {Nobody}
  BY DEF Sound, State, AppendMsg
<1> DEFINE d == stand_down(s, m)
           h == handle_append(s, m)
<1>2. Sound(d) /\ Sound(h)
  BY StandDownType, HandleType DEF Sound
<1>3. Steady(s, h)
  <2>1. CASE Refuses(s, m)
    BY <1>1, <2>1 DEF Steady, handle_append
  <2>2. CASE ~Refuses(s, m)
    <3>1. m.term >= s.term
      BY <1>1, <2>2 DEF Refuses
    <3>2. Alike(d, h)
      BY <1>2, <2>2 DEF Alike, handle_append, reconcile, Sound, State
    <3>3. Steady(s, d)
      <4>1. CASE m.term > s.term
        BY <1>1, <4>1 DEF Steady, stand_down, follower, adopt, State
      <4>2. CASE m.term = s.term
        BY <1>1, <4>2 DEF Steady, stand_down, follower, adopt, State
      <4> QED BY <1>1, <3>1, <4>1, <4>2
    <3> HIDE DEF d, h
    <3> QED BY <3>2, <3>3 DEF Steady, Alike
  <2> QED BY <2>1, <2>2
<1>4. Alike(h, recv_append(s, m))
  BY <1>2, ApplyAlike DEF recv_append
<1> HIDE DEF h
<1> QED BY <1>3, <1>4 DEF Steady, Alike

\* Nor does a peer's answer to a leader.
LEMMA ReplySteady ==
    ASSUME NEW n \in Node, NEW s, Sound(s), NEW m \in AppendReplyMsg
    PROVE  Steady(s, recv_append_reply(n, s, m))
<1>1. s \in State /\ s.term \in Nat /\ m.term \in Nat
  BY DEF Sound, State, AppendReplyMsg
<1>2. CASE s.role # "leader"
  BY <1>1, <1>2 DEF Steady, recv_append_reply
<1>3. CASE s.role = "leader" /\ m.term > s.term
  BY <1>1, <1>3 DEF Steady, recv_append_reply, follower, State
<1>4. CASE s.role = "leader" /\ ~(m.term > s.term) /\ same_term_stale(s, m)
  BY <1>1, <1>4 DEF Steady, recv_append_reply, follower, State
<1>5. CASE s.role = "leader" /\ ~(m.term > s.term) /\ ~same_term_stale(s, m)
  <2> DEFINE o == observe_reply(s, m)
  <2>1. Sound(o) /\ Alike(s, o)
    BY <1>1, ObserveType DEF Alike, observe_reply, State
  <2>2. Alike(o, advance(n, o))
    BY <2>1, AdvanceAlike
  <2>3. recv_append_reply(n, s, m) = advance(n, o)
    BY <1>5 DEF recv_append_reply
  <2> HIDE DEF o
  <2> QED BY <2>1, <2>2, <2>3 DEF Steady, Alike
<1> QED BY <1>2, <1>3, <1>4, <1>5

\* A request casts one ballot or none.
LEMMA RequestVotes ==
    ASSUME NEW n \in Node, NEW s, Sound(s), NEW m \in RequestVoteMsg
    PROVE  LET t == recv_request_vote(s, m)
               r == vote_reply(n, s, m)
           IN  /\ r.term = t.term /\ r.node = n /\ r.cand \in Node
               /\ r.kind = "VOTE_REPLY" /\ r.granted \in BOOLEAN
               /\ r.granted => VotesFor(s, t, r.cand)
               /\ ~r.granted => Steady(s, t)
<1> DEFINE t == recv_request_vote(s, m)
           r == vote_reply(n, s, m)
<1>1. /\ s \in State /\ s.term \in Nat /\ m.term \in Nat /\ m.cand \in Node
      /\ s.role \in {"follower", "candidate", "leader"}
  BY DEF Sound, State, RequestVoteMsg
<1>2. /\ r.term = t.term /\ r.node = n /\ r.cand = m.cand
      /\ r.kind = "VOTE_REPLY"
      /\ r.granted = (~Contends(s, m) /\ Grants(s, m))
  BY DEF vote_reply
<1>3. CASE Contends(s, m)
  BY <1>1, <1>2, <1>3 DEF Steady, recv_request_vote
<1>4. CASE ~Contends(s, m)
  <2>1. t = grant_vote(s, m)
    BY <1>4 DEF recv_request_vote
  <2> DEFINE a == adopt(s, m.term)
  <2>2. /\ a \in State /\ a.role = s.role /\ a.votes = s.votes
        /\ \/ a.term = s.term /\ a.voted_for = s.voted_for
           \/ a.term > s.term /\ a.voted_for = Nobody
    BY <1>1, AdoptType DEF adopt, Sound, State
  <2>3. m.term <= a.term
    BY <1>1 DEF adopt, State
  <2>4. /\ t.role = "follower" /\ t.votes = {} /\ t.term = a.term
        /\ t.voted_for = IF Grants(s, m) THEN m.cand ELSE a.voted_for
    BY <2>1, <2>2 DEF grant_vote, follower, State
  <2> HIDE DEF a, t, r
  <2>5. CASE Grants(s, m)
    <3>1. a.voted_for \in {Nobody, m.cand} /\ m.term >= s.term
      BY <2>5 DEF Grants, a
    <3>2. a.term = s.term => s.role = "follower"
      BY <1>1, <1>4, <2>3 DEF Contends
    <3> QED BY <1>1, <1>2, <1>4, <2>2, <2>4, <2>5, <3>1, <3>2
            DEF VotesFor, t, r
  <2>6. CASE ~Grants(s, m)
    BY <1>1, <1>2, <2>2, <2>4, <2>6 DEF Steady, t, r
  <2> QED BY <2>5, <2>6
<1> QED BY <1>3, <1>4

\* Counting: in its term a candidate adds itself and the sender of a granted
\* reply to its votes.
Counts(n, s, t, m) ==
    /\ s.role = "candidate" /\ t.role = "candidate" /\ t.term = s.term
    /\ t.voted_for = s.voted_for
    /\ \A v \in t.votes : \/ v \in s.votes \cup {n}
                          \/ /\ m.granted /\ v = m.node
                             /\ m.cand = n /\ m.term = s.term

\* Winning: the voters counted that way are a majority of the config.
Wins(n, s, t, m) ==
    /\ s.role = "candidate" /\ t.role = "leader" /\ t.term = s.term
    /\ t.voted_for = Nobody
    /\ Cardinality(Voters(n, s, m)) >= majority(s.config)

\* A vote reply is counted, wins, or casts nothing.
LEMMA ReplyCounts ==
    ASSUME NEW n \in Node, NEW s, Sound(s), NEW m \in VoteReplyMsg
    PROVE  LET t == recv_vote_reply(n, s, m) IN
           \/ Steady(s, t) \/ Counts(n, s, t, m) \/ Wins(n, s, t, m)
<1> DEFINE t == recv_vote_reply(n, s, m)
<1>1. s \in State /\ s.term \in Nat /\ m.term \in Nat
  BY DEF Sound, State, VoteReplyMsg
<1>2. CASE s.role # "candidate"
  BY <1>1, <1>2 DEF Steady, recv_vote_reply
<1>3. CASE s.role = "candidate" /\ m.term > s.term
  BY <1>1, <1>3 DEF Steady, recv_vote_reply, follower, State
<1>4. CASE s.role = "candidate" /\ ~(m.term > s.term) /\ Elects(n, s, m)
  <2>1. t = become_leader(n, s)
    BY <1>4 DEF recv_vote_reply
  <2>2. t.role = "leader" /\ t.term = s.term /\ t.voted_for = Nobody
    BY <1>1, <2>1 DEF become_leader, State
  <2> QED BY <1>4, <2>2 DEF Wins, Elects
<1>5. CASE s.role = "candidate" /\ ~(m.term > s.term) /\ ~Elects(n, s, m)
  <2>1. t = [s EXCEPT !.votes = Voters(n, s, m)]
    BY <1>5 DEF recv_vote_reply
  <2>2. /\ t.role = s.role /\ t.term = s.term /\ t.voted_for = s.voted_for
        /\ t.votes = Voters(n, s, m)
    BY <1>1, <2>1 DEF State
  <2> QED BY <1>5, <2>2 DEF Counts, Voters
<1> QED BY <1>2, <1>3, <1>4, <1>5

\* A tick stands for election, or casts nothing.
LEMMA TickVotes ==
    ASSUME NEW n \in Node, NEW s, Sound(s)
    PROVE  /\ TimesOut(n, s) => Stands(n, s, tick(n, s))
           /\ ~TimesOut(n, s) => Steady(s, tick(n, s))
<1>1. s \in State
  BY DEF Sound
<1>2. CASE TimesOut(n, s)
  <2>1. tick(n, s) = start_election(n, s)
    BY <1>2 DEF tick, TimesOut, Beats
  <2> QED BY <1>1, <1>2, <2>1 DEF Stands, start_election, State
<1>3. CASE ~TimesOut(n, s)
  BY <1>1, <1>3 DEF Steady, tick, State
<1> QED BY <1>2, <1>3
-----------------------------------------------------------------------------
(* The config.                                                             *)

\* No membership is ever submitted.
Fixed == MemberSet = {}

\* A log of writes changes no config.
LEMMA NothingApplied ==
    ASSUME Fixed, NEW s, Sound(s)
    PROVE  apply_committed(s) = s
<1>1. /\ s \in State /\ s.log \in Seq(Entry) /\ s.commit_index \in Nat
      /\ s.commit_index <= Len(s.log)
  BY DEF Sound, Builds, State
<1>2. \A i \in 1..s.commit_index : "members" \notin DOMAIN s.log[i].cmd
  <2> TAKE i \in 1..s.commit_index
  <2>1. i \in 1..Len(s.log)
    BY <1>1
  <2>2. s.log[i] \in Entry
    BY <1>1, <2>1
  <2>3. s.log[i].cmd \in [write : Write]
    <3>1. [members : MemberSet] = {}
      BY DEF Fixed
    <3> QED BY <2>2, <3>1 DEF Entry, Command
  <2>4. DOMAIN s.log[i].cmd = {"write"}
    BY <2>3
  <2> QED BY <2>4
<1>3. MemberSlots(s) = {}
  BY <1>2 DEF MemberSlots
<1> QED BY <1>3 DEF apply_committed

\* No handler changes the config.
LEMMA ConfigKept ==
    ASSUME Fixed, NEW n \in Node, NEW s, Sound(s)
    PROVE  /\ tick(n, s).config = s.config
           /\ \A cmd \in Command : client(n, s, cmd).config = s.config
           /\ \A m \in RequestVoteMsg :
                 recv_request_vote(s, m).config = s.config
           /\ \A m \in VoteReplyMsg :
                 recv_vote_reply(n, s, m).config = s.config
           /\ \A m \in AppendMsg :
                 Builds(handle_append(s, m)) =>
                 recv_append(s, m).config = s.config
           /\ \A m \in AppendReplyMsg :
                 recv_append_reply(n, s, m).config = s.config
<1>1. s \in State
  BY DEF Sound
<1>2. ASSUME NEW r, Sound(r) PROVE advance(n, r).config = r.config
  <2>1. advance(n, r) = advance_commit(n, r)
    BY <1>2, AdvanceType, NothingApplied DEF advance
  <2>2. advance_commit(n, r).config = r.config
    BY <1>2 DEF advance_commit, Sound, State
  <2> QED BY <2>1, <2>2
<1>3. tick(n, s).config = s.config
  BY <1>1 DEF tick, start_election, State
<1>4. ASSUME NEW cmd \in Command PROVE client(n, s, cmd).config = s.config
  <2>1. Sound(client_submit(s, cmd))
    BY ClientType
  <2>2. client_submit(s, cmd).config = s.config
    BY <1>1 DEF client_submit, State
  <2> QED BY <1>2, <2>1, <2>2 DEF client
<1>5. ASSUME NEW m \in RequestVoteMsg
      PROVE  recv_request_vote(s, m).config = s.config
  <2> DEFINE a == adopt(s, m.term)
  <2>1. m.term \in Nat
    BY DEF RequestVoteMsg
  <2>2. a \in State /\ a.config = s.config
    BY <1>1, <2>1, AdoptType DEF adopt, Sound, State
  <2>3. grant_vote(s, m).config = a.config
    BY <2>2 DEF grant_vote, follower, State
  <2> QED BY <2>2, <2>3 DEF recv_request_vote
<1>6. ASSUME NEW m \in VoteReplyMsg
      PROVE  recv_vote_reply(n, s, m).config = s.config
  BY <1>1 DEF recv_vote_reply, follower, become_leader, State
<1>7. ASSUME NEW m \in AppendMsg, Builds(handle_append(s, m))
      PROVE  recv_append(s, m).config = s.config
  <2>1. Sound(stand_down(s, m)) /\ Sound(handle_append(s, m))
    BY <1>7, StandDownType, HandleType DEF Sound
  <2>2. stand_down(s, m).config = s.config
    BY <1>1 DEF stand_down, follower, adopt, State
  <2>3. handle_append(s, m).config = s.config
    BY <2>1, <2>2 DEF handle_append, reconcile, Sound, State
  <2> QED BY <2>1, <2>3, NothingApplied DEF recv_append
<1>8. ASSUME NEW m \in AppendReplyMsg
      PROVE  recv_append_reply(n, s, m).config = s.config
  <2>1. Sound(observe_reply(s, m))
    BY ObserveType
  <2>2. observe_reply(s, m).config = s.config
    BY <1>1 DEF observe_reply, State
  <2>3. advance(n, observe_reply(s, m)).config = s.config
    BY <1>2, <2>1, <2>2
  <2> QED BY <1>1, <2>3 DEF recv_append_reply, follower, State
<1> QED BY <1>3, <1>4, <1>5, <1>6, <1>7, <1>8
-----------------------------------------------------------------------------
(* Disks are current and terms only grow.                                  *)

\* Besides: only live nodes are due a tick, and none is while events happen.
Durable == /\ DiskIsCurrent
           /\ turn \subseteq up
           /\ phase = "events" => turn = {}

\* A step of one live node n, from its state to t: it is saved as it is made.
Transits(n, t) ==
    /\ n \in up /\ Sound(t) /\ Saves(n, t) /\ up' = up
    /\ Fixed => t.config = node[n].config

\* The node that ticks or receives is live.
LEMMA Live ==
    ASSUME TypeInv, Durable, NEW n \in Node
    PROVE  /\ NodeTick(n) => n \in up
           /\ \A e : ~Severed(e, n) => n \in up
BY DEF Durable, TypeInv, TypeOK, NodeTick, Severed

\* A crash loses nothing, and a restart brings back the image of the disk.
LEMMA FaultsKeepDisk ==
    ASSUME TypeInv, NEW n \in Node
    PROVE  /\ Crash(n) => disk' = disk /\ up' = up \ {n}
                          /\ \A p \in up' : node'[p] = node[p]
           /\ Restart(n) => disk' = disk /\ up' = up \cup {n}
                            /\ node'[n] = recover(disk[n])
                            /\ \A p \in up : node'[p] = node[p]
<1>1. torn(<<disk[n], persist(node[n])>>) = disk[n]
  BY DEF torn
<1>2. ASSUME Crash(n)
      PROVE  disk' = disk /\ up' = up \ {n} /\ \A p \in up' : node'[p] = node[p]
  BY <1>1, <1>2 DEF Crash, TypeInv, TypeOK
<1>3. ASSUME Restart(n)
      PROVE  /\ disk' = disk /\ up' = up \cup {n}
             /\ node'[n] = recover(disk[n])
             /\ \A p \in up : node'[p] = node[p]
  BY <1>3 DEF Restart, TypeInv, TypeOK
<1> QED BY <1>2, <1>3

\* Every step is a step of one live node, a crash, a restart, or leaves the
\* nodes alone.  The second conjunct says what it does to the node's vote and
\* to the ballots.
LEMMA Transitions ==
    ASSUME TypeInv, Durable, [Next]_vars
    PROVE  \/ \E n \in Node : \E t :
                 /\ Transits(n, t)
                 /\ \/ Steady(node[n], t) /\ cast' = cast
                    \/ /\ Stands(n, node[n], t)
                       /\ cast' = cast \cup
                            {[term |-> t.term, voter |-> n, cand |-> n]}
                    \/ \E c \in Node :
                          /\ VotesFor(node[n], t, c)
                          /\ cast' = cast \cup
                               {[term |-> t.term, voter |-> n, cand |-> c]}
                    \/ \E i \in 1..Len(pending) :
                          /\ pending[i].msg \in VoteReplyMsg
                          /\ \/ Counts(n, node[n], t, pending[i].msg)
                             \/ Wins(n, node[n], t, pending[i].msg)
                          /\ cast' = cast
           \/ (\E n \in Node : Crash(n) \/ Restart(n)) /\ cast' = cast
           \/ UNCHANGED <<node, disk, up, cast>>
<1>1. ASSUME NEW n \in Node, Crash(n) \/ Restart(n) PROVE cast' = cast
  BY <1>1 DEF Crash, Restart, record
<1>2. CASE \/ \E link \in Link : Cut(link)
           \/ Heal \/ BeginBeats \/ EndTick \/ Done
           \/ (\E n \in Node : SubmitRefused(n) \/ Read(n))
           \/ UNCHANGED vars
  BY <1>2 DEF Cut, Heal, BeginBeats, EndTick, Done, SubmitRefused, Read,
              vars, machine, record
<1>3. ASSUME NEW n \in Node, NEW cmd \in Command, Submit(n, cmd)
      PROVE  \/ /\ Transits(n, client(n, node[n], cmd))
                /\ Steady(node[n], client(n, node[n], cmd)) /\ cast' = cast
             \/ UNCHANGED <<node, disk, up, cast>>
  <2> DEFINE t == client(n, node[n], cmd)
  <2>1. Sound(t) /\ Steady(node[n], t)
    BY NodeSound, ClientType, ClientAlike DEF Steady, Alike
  <2>3. Fixed => t.config = node[n].config
    BY NodeSound, ConfigKept
  <2>2. \/ n \in up /\ Saves(n, t) /\ up' = up /\ cast' = cast
        \/ UNCHANGED <<node, disk, up, cast>>
    BY <1>3 DEF Submit, machine, record
  <2> HIDE DEF t
  <2> QED BY <2>1, <2>2, <2>3 DEF Transits, t
<1>4. ASSUME NEW n \in Node, NodeTick(n)
      PROVE  LET t == tick(n, node[n]) IN
             \/ /\ Transits(n, t)
                /\ \/ Steady(node[n], t) /\ cast' = cast
                   \/ /\ Stands(n, node[n], t)
                      /\ cast' = cast \cup
                            {[term |-> t.term, voter |-> n, cand |-> n]}
             \/ UNCHANGED <<node, disk, up, cast>>
  <2> DEFINE t == tick(n, node[n])
  <2>1. /\ n \in up /\ Sound(t)
        /\ TimesOut(n, node[n]) => Stands(n, node[n], t)
        /\ ~TimesOut(n, node[n]) => Steady(node[n], t)
        /\ Fixed => t.config = node[n].config
    BY <1>4, Live, NodeSound, TickType, TickVotes, ConfigKept
  <2>2. \/ /\ Saves(n, t) /\ up' = up
           /\ cast' = cast \cup
                 (IF TimesOut(n, node[n])
                  THEN {[term |-> t.term, voter |-> n, cand |-> n]}
                  ELSE {})
        \/ Raises
    BY <1>4, Zenon DEF NodeTick
  <2> HIDE DEF t
  <2>3. Raises => UNCHANGED <<node, disk, up, cast>>
    BY DEF Raises, machine, record
  <2> QED BY <2>1, <2>2, <2>3 DEF Transits, t
<1>5. CASE Deliver
  <2> DEFINE e == Head(pending)
  <2>1. PICK n \in Node : \/ Drop(e, n) \/ DeliverRequestVote(e, n)
                          \/ DeliverVoteReply(e, n) \/ DeliverAppend(e, n)
                          \/ DeliverAppendReply(e, n)
    BY <1>5 DEF Deliver
  <2>2. /\ pending # << >> /\ e \in Envelope /\ e.msg \in Message
        /\ 1 \in 1..Len(pending) /\ e = pending[1]
    <3>1. pending # << >> /\ pending \in Seq(Envelope)
      BY <1>5 DEF Deliver, TypeInv, TypeOK
    <3>2. e \in Envelope
      BY <3>1
    <3>3. Len(pending) \in Nat /\ Len(pending) # 0
      BY <3>1
    <3>4. e = pending[1]
      BY <3>1
    <3> HIDE DEF e
    <3> QED BY <3>1, <3>2, <3>3, <3>4 DEF Envelope
  <2>3. Sound(node[n])
    BY NodeSound
  <2> HIDE DEF e
  <2>4. CASE Drop(e, n)
    BY <2>4 DEF Drop, machine, record
  <2>5. ASSUME NEW t, NEW out, Receives(e, n, t, out), ~Severed(e, n), Sound(t),
               Fixed => t.config = node[n].config
        PROVE  Transits(n, t)
    BY <2>5, Live DEF Receives, Transits
  <2>6. CASE DeliverRequestVote(e, n)
    <3> DEFINE t == recv_request_vote(node[n], e.msg)
               r == vote_reply(n, node[n], e.msg)
    <3>1. e.msg \in RequestVoteMsg /\ ~Severed(e, n)
      BY <2>2, <2>6, KindType DEF DeliverRequestVote, Arrives
    <3>2. /\ Receives(e, n, t, <<r>>)
          /\ cast' = cast \cup
                (IF r.granted
                 THEN {[term |-> r.term, voter |-> n, cand |-> r.cand]}
                 ELSE {})
      BY <2>6, Zenon DEF DeliverRequestVote
    <3>3. Transits(n, t)
      BY <2>3, <2>5, <3>1, <3>2, GrantType, ConfigKept
    <3>4. /\ r.term = t.term /\ r.cand \in Node /\ r.granted \in BOOLEAN
          /\ r.granted => VotesFor(node[n], t, r.cand)
          /\ ~r.granted => Steady(node[n], t)
      BY <2>3, <3>1, RequestVotes
    <3> HIDE DEF t, r
    <3> QED BY <3>2, <3>3, <3>4
  <2>7. CASE DeliverVoteReply(e, n)
    <3> DEFINE t == recv_vote_reply(n, node[n], e.msg)
    <3>1. e.msg \in VoteReplyMsg /\ ~Severed(e, n)
      BY <2>2, <2>7, KindType DEF DeliverVoteReply, Arrives
    <3>2. /\ Receives(e, n, t, IF Elects(n, node[n], e.msg)
                               THEN broadcast(n, t) ELSE << >>)
          /\ cast' = cast
      BY <2>7, Zenon DEF DeliverVoteReply
    <3>3. Sound(t) /\ Transits(n, t)
      BY <2>3, <2>5, <3>1, <3>2, TallyType, ConfigKept
    <3>4. \/ Steady(node[n], t) \/ Counts(n, node[n], t, e.msg)
          \/ Wins(n, node[n], t, e.msg)
      BY <2>3, <3>1, ReplyCounts
    <3> HIDE DEF t
    <3> QED BY <2>2, <3>1, <3>2, <3>3, <3>4
  <2>8. CASE DeliverAppend(e, n)
    <3> DEFINE t == recv_append(node[n], e.msg)
    <3>1. e.msg \in AppendMsg /\ ~Severed(e, n)
      BY <2>2, <2>8, KindType DEF DeliverAppend, Arrives
    <3>2. CASE ~Builds(handle_append(node[n], e.msg))
      BY <2>8, <3>2 DEF DeliverAppend, Raises, machine, record
    <3>3. CASE Builds(handle_append(node[n], e.msg))
      <4>1. /\ Receives(e, n, t, <<append_reply(n, node[n], e.msg)>>)
            /\ cast' = cast
        BY <2>8, <3>3, Zenon DEF DeliverAppend
      <4>2. /\ Sound(t) /\ Steady(node[n], t)
            /\ Fixed => t.config = node[n].config
        BY <2>3, <3>1, <3>3, RecvAppendType, AppendSteady, ConfigKept
      <4> HIDE DEF t
      <4> QED BY <2>5, <3>1, <4>1, <4>2
    <3> QED BY <3>2, <3>3
  <2>9. CASE DeliverAppendReply(e, n)
    <3> DEFINE t == recv_append_reply(n, node[n], e.msg)
    <3>1. e.msg \in AppendReplyMsg /\ ~Severed(e, n)
      BY <2>2, <2>9, KindType DEF DeliverAppendReply, Arrives
    <3>2. Receives(e, n, t, << >>) /\ cast' = cast
      BY <2>9, Zenon DEF DeliverAppendReply
    <3>3. /\ Sound(t) /\ Steady(node[n], t)
          /\ Fixed => t.config = node[n].config
      BY <2>3, <3>1, RecvReplyType, ReplySteady, ConfigKept
    <3> HIDE DEF t
    <3> QED BY <2>5, <3>1, <3>2, <3>3
  <2> QED BY <2>1, <2>4, <2>6, <2>7, <2>8, <2>9
<1> QED BY <1>1, <1>2, <1>3, <1>4, <1>5 DEF Next, Schedule, Drive

\* Saving a transition changes one node's state and disk.
LEMMA SavedState ==
    ASSUME TypeInv, Durable, NEW n \in Node, NEW t, Transits(n, t)
    PROVE  /\ node'[n] = t /\ disk'[n] = persist(t)
           /\ \A p \in Node \ {n} : node'[p] = node[p] /\ disk'[p] = disk[p]
           /\ disk[n] = persist(node[n]) /\ n \in up /\ up' = up
BY DEF Transits, Saves, Durable, DiskIsCurrent, TypeInv, TypeOK

\* A node that restarts has the image it restarts from.
LEMMA RecoverPersist ==
    ASSUME NEW image \in Image
    PROVE  persist(recover(image)) = image
BY DEF persist, recover, init, Image

\* No step of the program lets a node fall behind its disk.
LEMMA DiskStep ==
    ASSUME TypeInv, Durable, [Next]_vars
    PROVE  DiskIsCurrent'
<1>1. up \subseteq Node /\ disk \in [Node -> Image]
  BY DEF TypeInv, TypeOK
<1>2. ASSUME NEW n \in Node, NEW t, Transits(n, t) PROVE DiskIsCurrent'
  <2> SUFFICES ASSUME NEW p \in up' PROVE disk'[p] = persist(node'[p])
    BY DEF DiskIsCurrent
  <2>1. CASE p = n
    BY <1>2, <2>1, SavedState
  <2>2. CASE p # n
    <3>1. p \in Node \ {n} /\ p \in up
      BY <1>1, <1>2, <2>2, SavedState
    <3>2. disk[p] = persist(node[p])
      BY <3>1 DEF Durable, DiskIsCurrent
    <3> QED BY <1>2, <3>1, <3>2, SavedState
  <2> QED BY <2>1, <2>2
<1>3. ASSUME NEW n \in Node, Crash(n) PROVE DiskIsCurrent'
  BY <1>3, FaultsKeepDisk DEF Durable, DiskIsCurrent
<1>4. ASSUME NEW n \in Node, Restart(n) PROVE DiskIsCurrent'
  <2>1. /\ disk' = disk /\ up' = up \cup {n}
        /\ node'[n] = recover(disk[n])
        /\ \A p \in up : node'[p] = node[p]
    BY <1>4, FaultsKeepDisk
  <2>2. persist(recover(disk[n])) = disk[n]
    BY <1>1, RecoverPersist
  <2>3. n \notin up
    BY <1>4 DEF Restart
  <2> QED BY <2>1, <2>2, <2>3 DEF Durable, DiskIsCurrent
<1>5. CASE UNCHANGED <<node, disk, up, cast>>
  BY <1>5 DEF Durable, DiskIsCurrent
<1>6. \/ \E n \in Node : \E t : Transits(n, t)
      \/ \E n \in Node : Crash(n) \/ Restart(n)
      \/ UNCHANGED <<node, disk, up, cast>>
  BY Transitions
<1> QED BY <1>2, <1>3, <1>4, <1>5, <1>6

\* Only live nodes are due a tick: nodes crash and restart between ticks.
LEMMA TurnStep ==
    ASSUME TypeInv, Durable, [Next]_vars
    PROVE  turn' \subseteq up' /\ (phase' = "events" => turn' = {})
<1>1. turn \subseteq up /\ (phase = "events" => turn = {})
  BY DEF Durable
<1>2. CASE Schedule
  <2>1. ASSUME NEW n \in Node, NEW cmd \in Command, Submit(n, cmd)
        PROVE  UNCHANGED <<turn, phase, up>>
    BY <2>1 DEF Submit, Event, machine
  <2>2. ASSUME NEW n \in Node,
               Crash(n) \/ Restart(n) \/ Read(n) \/ SubmitRefused(n)
        PROVE  phase = "events" /\ UNCHANGED <<turn, phase>>
    BY <2>2 DEF Crash, Restart, Read, SubmitRefused, Event, InSchedule, driver
  <2>3. CASE Heal \/ \E link \in Link : Cut(link)
    BY <1>1, <2>3 DEF Heal, Cut, Event
  <2> QED BY <1>1, <1>2, <2>1, <2>2, <2>3 DEF Schedule
<1>3. CASE BeginBeats \/ EndTick \/ Done \/ UNCHANGED vars
  BY <1>1, <1>3 DEF BeginBeats, EndTick, Done, vars, machine, driver
<1>4. ASSUME NEW n \in Node, NodeTick(n)
      PROVE  up' = up /\ turn' \subseteq turn /\ phase' = phase
  <2>1. CASE Beats(node[n]) /\ ~Anchored(n, node[n])
    BY <1>4, <2>1 DEF NodeTick, Raises, machine
  <2>2. CASE ~(Beats(node[n]) /\ ~Anchored(n, node[n]))
    BY <1>4, <2>2 DEF NodeTick
  <2> QED BY <2>1, <2>2
<1>5. ASSUME Deliver PROVE UNCHANGED <<up, turn, phase>>
  BY <1>5 DEF Deliver, Drop, DeliverRequestVote, DeliverVoteReply,
              DeliverAppend, DeliverAppendReply, Receives, Raises, machine
<1> QED BY <1>1, <1>2, <1>3, <1>4, <1>5 DEF Next, Drive

\* No step lowers the term on a disk.
LEMMA TermStep ==
    ASSUME TypeInv, Durable, [Next]_vars
    PROVE  \A n \in Node : disk'[n].term >= disk[n].term
<1>1. \A n \in Node : disk[n].term \in Nat /\ node[n].term \in Nat
  BY DEF TypeInv, TypeOK, Image, State
<1>2. ASSUME NEW n \in Node, NEW t, Transits(n, t), t.term >= node[n].term
      PROVE  \A p \in Node : disk'[p].term >= disk[p].term
  <2> TAKE p \in Node
  <2>1. CASE p = n
    <3>1. disk'[n].term = t.term /\ disk[n].term = node[n].term
      <4>1. disk'[n] = persist(t) /\ disk[n] = persist(node[n])
        BY <1>2, SavedState
      <4> QED BY <4>1 DEF persist
    <3> QED BY <1>2, <2>1, <3>1
  <2>2. CASE p # n
    BY <1>1, <1>2, <2>2, SavedState
  <2> QED BY <2>1, <2>2
<1>3. ASSUME NEW n \in Node, Crash(n) \/ Restart(n) PROVE disk' = disk
  BY <1>3, FaultsKeepDisk
<1>4. ASSUME NEW n \in Node, NEW t, Transits(n, t),
             \/ Steady(node[n], t) \/ Stands(n, node[n], t)
             \/ \E c \in Node : VotesFor(node[n], t, c)
             \/ \E i \in 1..Len(pending) :
                   \/ Counts(n, node[n], t, pending[i].msg)
                   \/ Wins(n, node[n], t, pending[i].msg)
      PROVE  t.term >= node[n].term
  <2>1. node[n].term \in Nat
    BY <1>1
  <2>2. t.term = node[n].term => t.term >= node[n].term
    BY <2>1
  <2>3. t.term = node[n].term + 1 => t.term >= node[n].term
    BY <2>1
  <2>4. t.term \in Nat
    BY <1>4 DEF Transits, Sound, State
  <2>5. t.term > node[n].term => t.term >= node[n].term
    BY <2>1, <2>4
  <2> QED BY <1>4, <2>2, <2>3, <2>5, Zenon
          DEF Steady, Stands, VotesFor, Counts, Wins
<1>5. CASE disk' = disk
  BY <1>1, <1>5
<1> QED BY <1>2, <1>3, <1>4, <1>5, Transitions

\* The invariant of the disks.
LEMMA DurableInit == Init => Durable
BY DEF Init, Durable, DiskIsCurrent

\* It is kept.
LEMMA DurableStep == TypeInv /\ Durable /\ [Next]_vars => Durable'
BY DiskStep, TurnStep DEF Durable

\* It holds in every reachable state.
THEOREM DurableInvariant == Spec => [](TypeInv /\ Durable)
BY TypeInit, TypeStep, DurableInit, DurableStep, PTL DEF Spec

\* What a live node would come back with is what it has: the write that a
\* crash tears is a copy of the record before it.
THEOREM DisksAreCurrent == Spec => []DiskIsCurrent
<1>1. Durable => DiskIsCurrent
  BY DEF Durable
<1> QED BY <1>1, DurableInvariant, PTL

\* No step lowers a node's term, a crash and a restart included.
THEOREM TermsOnlyGrow == Spec => TermsGrow
<1>1. TypeInv /\ Durable /\ [Next]_vars
          => [\A n \in Node : disk'[n].term >= disk[n].term]_vars
  BY TermStep
<1> QED BY <1>1, DurableInvariant, PTL DEF Spec, TermsGrow
=============================================================================
