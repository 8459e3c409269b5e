----------------------------- MODULE ClusterTypes -----------------------------
(***************************************************************************)
(* Every run of the cluster keeps the declared shapes, whatever the        *)
(* cluster's size, its timeouts, its commands and its schedule.            *)
(***************************************************************************)
EXTENDS ClusterProperties, NodeTypes

\* TypeOK is not inductive: a node only stays well formed while its commit
\* line lies within its log, in its state and in the image it restarts from.
TypeInv ==
    /\ TypeOK
    /\ \A n \in Node : Builds(node[n])
    /\ \A n \in Node : disk[n].commit_index <= Len(disk[n].log)

\* A live node's state is sound.
LEMMA NodeSound ==
    ASSUME TypeInv, NEW n \in Node
    PROVE  Sound(node[n])
BY DEF TypeInv, TypeOK, Sound

\* The messages of a handler are queued as envelopes.
LEMMA QueueType ==
    ASSUME up \in SUBSET Node, NEW n \in Node, NEW out \in Seq(Message)
    PROVE  queue(n, out) \in Seq(Envelope)
<1> DEFINE sent == [i \in 1..Len(out) |->
                       [from |-> n, to |-> addressees(n, out[i]),
                        msg |-> out[i]]]
<1>1. Len(out) \in Nat
  OBVIOUS
<1>2. \A i \in 1..Len(out) : sent[i] \in Envelope
  <2> TAKE i \in 1..Len(out)
  <2>1. out[i] \in Message
    OBVIOUS
  <2>2. addressees(n, out[i]) \in SUBSET Node
    BY DEF addressees
  <2> QED BY <2>1, <2>2 DEF Envelope
<1>3. sent \in [1..Len(out) -> Envelope]
  BY <1>2
<1>4. sent \in Seq(Envelope)
  BY <1>1, <1>3, SeqDef
<1>5. queue(n, out) \in {sent, << >>}
  BY DEF queue
<1>6. << >> \in Seq(Envelope)
  OBVIOUS
<1> HIDE DEF sent
<1> QED BY <1>4, <1>5, <1>6, Zenon

\* What is left of the queue after one delivery is a queue.
LEMMA RestType ==
    ASSUME pending \in Seq(Envelope), pending # << >>, NEW n \in Node
    PROVE  /\ Head(pending) \in Envelope
           /\ Rest(Head(pending), n) \in Seq(Envelope)
<1>1. Head(pending) \in Envelope /\ Tail(pending) \in Seq(Envelope)
  OBVIOUS
<1> DEFINE e == Head(pending)
<1>2. [e EXCEPT !.to = @ \ {n}] \in Envelope
  BY <1>1 DEF Envelope
<1>3. <<[e EXCEPT !.to = @ \ {n}]>> \in Seq(Envelope)
  BY <1>2
<1>4. << >> \in Seq(Envelope)
  OBVIOUS
<1> HIDE DEF e
<1>5. Rest(e, n) \in Seq(Envelope)
  BY <1>1, <1>3, <1>4 DEF Rest
<1> QED BY <1>1, <1>5 DEF e

\* A save of a sound state keeps the nodes and the disks typed.
LEMMA SavesType ==
    ASSUME TypeInv, NEW n \in Node, NEW s, Sound(s), Saves(n, s)
    PROVE  /\ node' \in [Node -> State] /\ disk' \in [Node -> Image]
           /\ \A p \in Node : Builds(node'[p])
           /\ \A p \in Node : disk'[p].commit_index <= Len(disk'[p].log)
<1>1. s \in State /\ persist(s) \in Image /\ Builds(s)
  BY PersistType DEF Sound
<1>2. /\ persist(s).commit_index = s.commit_index
      /\ persist(s).log = s.log
  BY DEF persist
<1>3. node' \in [Node -> State] /\ disk' \in [Node -> Image]
  BY <1>1 DEF Saves, TypeInv, TypeOK
<1>4. ASSUME NEW p \in Node PROVE Builds(node'[p])
  BY <1>1 DEF Saves, TypeInv, TypeOK
<1>5. ASSUME NEW p \in Node
      PROVE  disk'[p].commit_index <= Len(disk'[p].log)
  <2>1. CASE p = n
    BY <1>1, <1>2, <2>1 DEF Saves, TypeInv, TypeOK, Builds
  <2>2. CASE p # n
    BY <2>2 DEF Saves, TypeInv, TypeOK
  <2> QED BY <2>1, <2>2
<1> QED BY <1>3, <1>4, <1>5

\* The record of leaders, commits and chosen commands stays typed.
LEMMA NotesType ==
    ASSUME TypeInv, NEW n \in Node, NEW s, Sound(s), Notes(n, s)
    PROVE  /\ leaders' \in SUBSET [term : Nat, id : Node]
           /\ committed' \in SUBSET [index : Nat, term : Nat]
           /\ chosen' \in Seq(Command)
<1>1. /\ s \in State /\ s.term \in Nat /\ s.log \in Seq(Entry)
      /\ s.commit_index \in Nat /\ s.commit_index <= Len(s.log)
      /\ Len(s.log) \in Nat
  BY DEF Sound, Builds, State
<1>2. leaders' \in SUBSET [term : Nat, id : Node]
  BY <1>1 DEF Notes, NotesLeader, TypeInv, TypeOK
<1>3. \A i \in 1..s.commit_index :
          s.log[i] \in Entry /\ s.log[i].term \in Nat
                             /\ s.log[i].cmd \in Command
  <2> TAKE i \in 1..s.commit_index
  <2>1. i \in 1..Len(s.log)
    BY <1>1
  <2>2. s.log[i] \in Entry
    BY <1>1, <2>1
  <2> QED BY <2>2 DEF Entry
<1>4. committed' \in SUBSET [index : Nat, term : Nat]
  <2>1. \A i \in 1..s.commit_index :
            [index |-> i, term |-> s.log[i].term] \in [index : Nat, term : Nat]
    BY <1>3
  <2> QED BY <2>1 DEF Notes, NotesCommits, TypeInv, TypeOK
<1>5. chosen' \in Seq(Command)
  <2> DEFINE k   == s.commit_index - Len(chosen)
             new == [i \in 1..k |-> s.log[Len(chosen) + i].cmd]
  <2>1. chosen \in Seq(Command) /\ Len(chosen) \in Nat /\ k \in Int
    BY <1>1 DEF TypeInv, TypeOK
  <2>2. \A i \in 1..k : new[i] \in Command
    <3> TAKE i \in 1..k
    <3>1. Len(chosen) + i \in 1..s.commit_index
      BY <1>1, <2>1
    <3> QED BY <1>3, <3>1
  <2>3. new \in [1..k -> Command]
    BY <2>2
  <2>4. PICK j \in Nat : 1..k = 1..j
    <3>1. CASE k >= 0
      BY <2>1, <3>1
    <3>2. CASE k < 0
      BY <2>1, <3>2, 1..k = 1..0
    <3> QED BY <2>1, <3>1, <3>2
  <2> HIDE DEF new
  <2>5. new \in Seq(Command)
    BY <2>3, <2>4, SeqDef
  <2>6. chosen' = chosen \o new
    BY DEF Notes, NotesCommits, new
  <2> QED BY <2>1, <2>5, <2>6
<1> QED BY <1>2, <1>4, <1>5
-----------------------------------------------------------------------------
(* The actions.                                                            *)

\* The scenario's events that touch no log: links, crashes and restarts.
LEMMA FaultsType ==
    ASSUME TypeInv,
           \/ \E link \in Link : Cut(link)
           \/ Heal
           \/ \E n \in Node : Crash(n) \/ Restart(n)
    PROVE  TypeInv'
<1>1. ASSUME NEW link \in Link, Cut(link) PROVE TypeInv'
  BY <1>1 DEF TypeInv, TypeOK, Cut, Event, record
<1>2. CASE Heal
  BY <1>2 DEF TypeInv, TypeOK, Heal, Event, record
<1>3. ASSUME NEW n \in Node, Crash(n) PROVE TypeInv'
  <2>1. Sound(init(Node))
    BY InitType
  <2>2. torn(<<disk[n], persist(node[n])>>) = disk[n]
    BY DEF torn
  <2>3. disk' = disk
    BY <1>3, <2>2 DEF Crash, TypeInv, TypeOK
  <2>4. /\ node' = [node EXCEPT ![n] = init(Node)] /\ up' = up \ {n}
        /\ UNCHANGED <<cut, clock, phase, turn, pending, raised, record>>
    BY <1>3 DEF Crash, Event
  <2>5. node' \in [Node -> State] /\ \A p \in Node : Builds(node'[p])
    BY <2>1, <2>4 DEF TypeInv, TypeOK, Sound
  <2> QED BY <2>3, <2>4, <2>5 DEF TypeInv, TypeOK, record
<1>4. ASSUME NEW n \in Node, Restart(n) PROVE TypeInv'
  <2>1. Sound(recover(disk[n]))
    BY RecoverType DEF TypeInv, TypeOK
  <2>2. /\ node' = [node EXCEPT ![n] = recover(disk[n])]
        /\ up' = up \cup {n} /\ UNCHANGED <<disk, cut, driver, record>>
    BY <1>4 DEF Restart
  <2>3. node' \in [Node -> State] /\ \A p \in Node : Builds(node'[p])
    BY <2>1, <2>2 DEF TypeInv, TypeOK, Sound
  <2> QED BY <2>2, <2>3 DEF TypeInv, TypeOK, driver, record
<1> QED BY <1>1, <1>2, <1>3, <1>4

\* The client's calls.
LEMMA CallsType ==
    ASSUME TypeInv, NEW n \in Node,
           \/ \E cmd \in Command : Submit(n, cmd)
           \/ SubmitRefused(n) \/ Read(n)
    PROVE  TypeInv'
<1>1. ASSUME NEW cmd \in Command, Submit(n, cmd) PROVE TypeInv'
  <2> DEFINE s == client(n, node[n], cmd)
  <2>1. Sound(s)
    BY NodeSound, ClientType
  <2>2. UNCHANGED <<clock, phase, turn>>
    BY <1>1 DEF Submit, Event
  <2> HIDE DEF s
  <2>3. CASE /\ Anchored(n, s) /\ Saves(n, s)
             /\ pending' = queue(n, broadcast(n, s))
             /\ UNCHANGED <<up, cut, raised, record>>
    <3>1. broadcast(n, s) \in Seq(Message)
      <4>1. broadcast(n, s) \in Seq(AppendMsg)
        BY <2>1, <2>3, BroadcastType
      <4> QED BY <4>1 DEF Message
    <3>2. up \in SUBSET Node
      BY DEF TypeInv, TypeOK
    <3>3. pending' \in Seq(Envelope)
      BY <2>3, <3>1, <3>2, QueueType
    <3>4. /\ node' \in [Node -> State] /\ disk' \in [Node -> Image]
          /\ \A p \in Node : Builds(node'[p])
          /\ \A p \in Node : disk'[p].commit_index <= Len(disk'[p].log)
      BY <2>1, <2>3, SavesType
    <3> QED BY <2>2, <2>3, <3>3, <3>4 DEF TypeInv, TypeOK, record
  <2>4. CASE raised' = TRUE /\ UNCHANGED <<machine, pending, record>>
    BY <2>2, <2>4 DEF TypeInv, TypeOK, machine, record
  <2> QED BY <1>1, <2>3, <2>4 DEF Submit, s
<1>2. CASE SubmitRefused(n)
  BY <1>2 DEF TypeInv, TypeOK, SubmitRefused, Event, machine, record
<1>3. CASE Read(n)
  BY <1>3 DEF TypeInv, TypeOK, Read, Event, machine
<1> QED BY <1>1, <1>2, <1>3

\* A handler that raises leaves everything but the flag as it was.
LEMMA RaisesType ==
    ASSUME TypeInv, Raises PROVE TypeInv'
BY DEF TypeInv, TypeOK, Raises, machine, record

\* The steps of the driver that run no handler.
LEMMA DriverType ==
    ASSUME TypeInv,
           \/ BeginBeats \/ EndTick \/ Done
           \/ pending # << >> /\ \E n \in Node : Drop(Head(pending), n)
    PROVE  TypeInv'
<1>1. CASE BeginBeats
  BY <1>1 DEF TypeInv, TypeOK, BeginBeats, machine, record
<1>2. CASE EndTick
  <2>1. clock' \in Nat
    BY <1>2 DEF TypeInv, TypeOK, EndTick
  <2> QED BY <1>2, <2>1 DEF TypeInv, TypeOK, EndTick, machine, record
<1>3. CASE Done
  BY <1>3 DEF TypeInv, TypeOK, Done, vars, machine, driver, record
<1>4. ASSUME pending # << >>, NEW n \in Node, Drop(Head(pending), n)
      PROVE  TypeInv'
  <2>1. Rest(Head(pending), n) \in Seq(Envelope)
    BY <1>4, RestType DEF TypeInv, TypeOK
  <2>2. /\ pending' = Rest(Head(pending), n)
        /\ UNCHANGED <<machine, clock, phase, turn, raised, record>>
    BY <1>4 DEF Drop
  <2> QED BY <2>1, <2>2 DEF TypeInv, TypeOK, machine, record
<1> QED BY <1>1, <1>2, <1>3, <1>4

\* A live node's tick.
LEMMA NodeTickType ==
    ASSUME TypeInv, NEW n \in Node, NodeTick(n)
    PROVE  TypeInv'
<1> DEFINE s == tick(n, node[n])
           ballots == IF TimesOut(n, node[n])
                      THEN {[term |-> s.term, voter |-> n, cand |-> n]}
                      ELSE {}
<1>1. Sound(node[n]) /\ Sound(s)
  BY NodeSound, TickType
<1> HIDE DEF s
<1>2. CASE ~(Beats(node[n]) /\ ~Anchored(n, node[n]))
  <2>1. /\ Saves(n, s) /\ Notes(n, s)
        /\ pending' = pending \o queue(n, tick_out(n, node[n]))
        /\ turn' = turn \ {n} /\ cast' = cast \cup ballots
        /\ UNCHANGED <<up, cut, clock, phase, raised, left>>
    BY <1>2, Zenon DEF NodeTick, s
  <2>2. tick_out(n, node[n]) \in Seq(Message)
    BY <1>1, <1>2, TickOutType
  <2>3. up \in SUBSET Node /\ pending \in Seq(Envelope)
    BY DEF TypeInv, TypeOK
  <2>4. queue(n, tick_out(n, node[n])) \in Seq(Envelope)
    BY <2>2, <2>3, QueueType
  <2>5. pending' \in Seq(Envelope)
    BY <2>1, <2>3, <2>4
  <2>6. /\ node' \in [Node -> State] /\ disk' \in [Node -> Image]
        /\ \A p \in Node : Builds(node'[p])
        /\ \A p \in Node : disk'[p].commit_index <= Len(disk'[p].log)
    BY <1>1, <2>1, SavesType
  <2>7. /\ leaders' \in SUBSET [term : Nat, id : Node]
        /\ committed' \in SUBSET [index : Nat, term : Nat]
        /\ chosen' \in Seq(Command)
    BY <1>1, <2>1, NotesType
  <2>8. cast' \in SUBSET Ballot
    <3>1. s.term \in Nat
      BY <1>1 DEF Sound, State
    <3>2. ballots \in SUBSET Ballot
      BY <3>1 DEF Ballot
    <3> QED BY <2>1, <3>2 DEF TypeInv, TypeOK
  <2>9. /\ up' \in SUBSET Node /\ cut' \in SUBSET Link /\ clock' \in Nat
        /\ phase' \in {"events", "beats"} /\ turn' \in SUBSET Node
        /\ raised' \in BOOLEAN
    BY <2>1 DEF TypeInv, TypeOK
  <2> QED BY <2>5, <2>6, <2>7, <2>8, <2>9 DEF TypeInv, TypeOK
<1>3. CASE Beats(node[n]) /\ ~Anchored(n, node[n])
  <2>1. Raises
    BY <1>3, Zenon DEF NodeTick
  <2> QED BY <2>1, RaisesType
<1> QED BY <1>2, <1>3

\* Whatever handler receives the head of the queue: a sound state, typed
\* messages and typed ballots out keep the cluster typed.
LEMMA ReceivesType ==
    ASSUME TypeInv, pending # << >>, NEW n \in Node,
           NEW s, Sound(s), NEW out \in Seq(Message),
           Receives(Head(pending), n, s, out), cast' \in SUBSET Ballot
    PROVE  TypeInv'
<1>1. /\ Saves(n, s) /\ Notes(n, s)
      /\ pending' = Rest(Head(pending), n) \o queue(n, out)
      /\ UNCHANGED <<up, cut, clock, phase, turn, raised, left>>
  BY DEF Receives
<1>2. up \in SUBSET Node /\ pending \in Seq(Envelope)
  BY DEF TypeInv, TypeOK
<1>3. /\ Rest(Head(pending), n) \in Seq(Envelope)
      /\ queue(n, out) \in Seq(Envelope)
  BY <1>2, RestType, QueueType
<1>4. pending' \in Seq(Envelope)
  BY <1>1, <1>3
<1>5. /\ node' \in [Node -> State] /\ disk' \in [Node -> Image]
      /\ \A p \in Node : Builds(node'[p])
      /\ \A p \in Node : disk'[p].commit_index <= Len(disk'[p].log)
  BY <1>1, SavesType
<1>6. /\ leaders' \in SUBSET [term : Nat, id : Node]
      /\ committed' \in SUBSET [index : Nat, term : Nat]
      /\ chosen' \in Seq(Command)
  BY <1>1, NotesType
<1>7. /\ up' \in SUBSET Node /\ cut' \in SUBSET Link /\ clock' \in Nat
      /\ phase' \in {"events", "beats"} /\ turn' \in SUBSET Node
      /\ raised' \in BOOLEAN
  BY <1>1 DEF TypeInv, TypeOK
<1> QED BY <1>4, <1>5, <1>6, <1>7 DEF TypeInv, TypeOK

\* A message of each kind, by its kind.
LEMMA KindType ==
    ASSUME NEW m \in Message
    PROVE  /\ m.kind = "REQUEST_VOTE" => m \in RequestVoteMsg
           /\ m.kind = "VOTE_REPLY"   => m \in VoteReplyMsg
           /\ m.kind = "APPEND"       => m \in AppendMsg
           /\ m.kind = "APPEND_REPLY" => m \in AppendReplyMsg
BY DEF Message, RequestVoteMsg, VoteReplyMsg, AppendMsg, AppendReplyMsg

\* The four deliveries.
LEMMA DeliverType ==
    ASSUME TypeInv, pending # << >>, NEW n \in Node,
           \/ DeliverRequestVote(Head(pending), n)
           \/ DeliverVoteReply(Head(pending), n)
           \/ DeliverAppend(Head(pending), n)
           \/ DeliverAppendReply(Head(pending), n)
    PROVE  TypeInv'
<1> DEFINE e == Head(pending)
           s == node[n]
<1>1. e \in Envelope /\ e.msg \in Message
  BY RestType DEF TypeInv, TypeOK, Envelope
<1>2. Sound(s) /\ cast \in SUBSET Ballot
  BY NodeSound DEF TypeInv, TypeOK
<1> HIDE DEF e, s
<1>3. CASE DeliverRequestVote(e, n)
  <2> DEFINE reply == vote_reply(n, s, e.msg)
             ballots == IF reply.granted
                        THEN {[term |-> reply.term, voter |-> n,
                               cand |-> reply.cand]}
                        ELSE {}
  <2>1. e.msg \in RequestVoteMsg
    BY <1>1, <1>3, KindType DEF DeliverRequestVote, Arrives
  <2>2. Sound(recv_request_vote(s, e.msg)) /\ reply \in VoteReplyMsg
    BY <1>2, <2>1, GrantType, VoteReplyType
  <2>3. /\ Receives(e, n, recv_request_vote(s, e.msg), <<reply>>)
        /\ cast' = cast \cup ballots
    BY <1>3, Zenon DEF DeliverRequestVote, s
  <2> HIDE DEF reply
  <2>4. <<reply>> \in Seq(Message)
    BY <2>2 DEF Message
  <2>5. cast' \in SUBSET Ballot
    BY <1>2, <2>2, <2>3 DEF VoteReplyMsg, Ballot
  <2> QED BY <2>2, <2>3, <2>4, <2>5, ReceivesType DEF e
<1>4. CASE DeliverVoteReply(e, n)
  <2> DEFINE t == recv_vote_reply(n, s, e.msg)
             out == IF Elects(n, s, e.msg) THEN broadcast(n, t) ELSE << >>
  <2>1. e.msg \in VoteReplyMsg
    BY <1>1, <1>4, KindType DEF DeliverVoteReply, Arrives
  <2>2. Sound(t)
    BY <1>2, <2>1, TallyType
  <2>3. Receives(e, n, t, out) /\ cast' = cast
    BY <1>4, Zenon DEF DeliverVoteReply, s
  <2>4. ASSUME Elects(n, s, e.msg) PROVE broadcast(n, t) \in Seq(AppendMsg)
    <3>1. s.term \in Nat /\ e.msg.term \in Nat
      BY <1>2, <2>1 DEF Sound, State, VoteReplyMsg
    <3>2. t = become_leader(n, s)
      BY <2>4, <3>1 DEF Elects, recv_vote_reply
    <3> QED BY <1>2, <3>2, LeaderType, BroadcastType
  <2> HIDE DEF t
  <2>5. out \in Seq(Message)
    BY <2>4 DEF Message
  <2> QED BY <1>2, <2>2, <2>3, <2>5, ReceivesType DEF e
<1>5. CASE DeliverAppend(e, n)
  <2>1. e.msg \in AppendMsg
    BY <1>1, <1>5, KindType DEF DeliverAppend, Arrives
  <2>2. CASE Builds(handle_append(s, e.msg))
    <3> DEFINE t == recv_append(s, e.msg)
               reply == append_reply(n, s, e.msg)
    <3>1. Receives(e, n, t, <<reply>>) /\ cast' = cast
      BY <1>5, <2>2, Zenon DEF DeliverAppend, s
    <3>2. Sound(t) /\ reply \in AppendReplyMsg
      BY <1>2, <2>1, <2>2, RecvAppendType
    <3> HIDE DEF t, reply
    <3>3. <<reply>> \in Seq(Message)
      BY <3>2 DEF Message
    <3> QED BY <1>2, <3>1, <3>2, <3>3, ReceivesType DEF e
  <2>3. CASE ~Builds(handle_append(s, e.msg))
    <3>1. Raises
      BY <1>5, <2>3, Zenon DEF DeliverAppend, s
    <3> QED BY <3>1, RaisesType
  <2> QED BY <2>2, <2>3
<1>6. CASE DeliverAppendReply(e, n)
  <2> DEFINE t == recv_append_reply(n, s, e.msg)
  <2>1. e.msg \in AppendReplyMsg
    BY <1>1, <1>6, KindType DEF DeliverAppendReply, Arrives
  <2>2. Sound(t) /\ << >> \in Seq(Message)
    BY <1>2, <2>1, RecvReplyType
  <2>3. Receives(e, n, t, << >>) /\ cast' = cast
    BY <1>6, Zenon DEF DeliverAppendReply, s
  <2> HIDE DEF t
  <2> QED BY <1>2, <2>2, <2>3, ReceivesType DEF e
<1> QED BY <1>3, <1>4, <1>5, <1>6 DEF e
-----------------------------------------------------------------------------
\* The invariant holds at the start.
LEMMA TypeInit == Init => TypeInv
<1> SUFFICES ASSUME Init PROVE TypeInv
  OBVIOUS
<1>1. Sound(init(Node))
  BY InitType
<1>2. persist(init(Node)) \in Image
  BY <1>1, PersistType DEF Sound
<1>3. persist(init(Node)).commit_index <= Len(persist(init(Node)).log)
  BY DEF persist, init
<1>4. node \in [Node -> State] /\ \A n \in Node : Builds(node[n])
  BY <1>1 DEF Init, Sound
<1>5. /\ disk \in [Node -> Image]
      /\ \A n \in Node : disk[n].commit_index <= Len(disk[n].log)
  BY <1>2, <1>3 DEF Init
<1>6. << >> \in Seq(Envelope) /\ << >> \in Seq(Command)
  OBVIOUS
<1> QED BY <1>4, <1>5, <1>6 DEF Init, TypeInv, TypeOK

\* Every step keeps it.
LEMMA TypeStep == TypeInv /\ [Next]_vars => TypeInv'
<1> SUFFICES ASSUME TypeInv, [Next]_vars PROVE TypeInv'
  OBVIOUS
<1>1. CASE Schedule
  BY <1>1, FaultsType, CallsType DEF Schedule
<1>2. CASE Deliver
  BY <1>2, DriverType, DeliverType DEF Deliver
<1>3. CASE BeginBeats \/ EndTick \/ Done
  BY <1>3, DriverType
<1>4. ASSUME NEW n \in Node, NodeTick(n) PROVE TypeInv'
  BY <1>4, NodeTickType
<1>5. CASE UNCHANGED vars
  BY <1>5 DEF vars, machine, driver, record, TypeInv, TypeOK
<1> QED BY <1>1, <1>2, <1>3, <1>4, <1>5 DEF Next, Drive

\* The strengthened invariant holds in every reachable state.
THEOREM TypeInvariant == Spec => []TypeInv
BY TypeInit, TypeStep, PTL DEF Spec

\* In every run the variables keep their shapes: what the builders of wire.py
\* check at run time holds of every state that is built.
THEOREM TypeCorrect == Spec => []TypeOK
<1>1. TypeInv => TypeOK
  BY DEF TypeInv
<1> QED BY <1>1, TypeInvariant, PTL
=============================================================================
