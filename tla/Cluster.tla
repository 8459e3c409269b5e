------------------------------- MODULE Cluster -------------------------------
(***************************************************************************)
(* sim.Cluster of consensus-from-scratch: the deterministic network and    *)
(* driver.  A tick runs the scenario's events, then each live node's tick  *)
(* in id order, then drains the fabric's queue first in, first out.  The   *)
(* scenario is the only choice: which nodes are cut, crashed, restarted or *)
(* called, and when, within `Budget`, and no later than tick `EventTicks`. *)
(***************************************************************************)
EXTENDS ConsensusNode

CONSTANTS Horizon,    \* the tick the run drives to
          EventTicks, \* the last tick with an event
          Budget      \* how many events of each kind a scenario holds

ASSUME BoundAssumption ==
    /\ Horizon \in Nat /\ EventTicks \in Nat
    /\ Budget \in [{"cut", "heal", "crash", "submit", "read"} -> Nat]

VARIABLES
  (* the nodes, their links and their disks *)
  node,        \* states: the state of each node, init of a node that is down
  up,          \* the ids in `states`
  disk,        \* the last record of each disk; a blank disk is init's image
  cut,         \* the severed links
  (* the driver *)
  clock,       \* the tick
  phase,       \* "events": the scenario's turn; "beats": the nodes'
  turn,        \* the live nodes still to tick
  pending,     \* the queue; a fanned message is one envelope to many targets
  raised,      \* an exception escaped the run
  left,        \* the events the scenario may still hold
  (* the recorded run *)
  leaders, committed, chosen, conflicts, reads,
  cast         \* history: every vote ever cast; no action reads it

machine == <<node, up, disk, cut>>
driver  == <<clock, phase, turn, pending, raised, left>>
record  == <<leaders, committed, chosen, conflicts, reads, cast>>
vars    == <<machine, driver, record>>

Link     == {{a, b} : a \in Node, b \in Node} \ {{a} : a \in Node}
Envelope == [from : Node, to : SUBSET Node, msg : Message]
Ballot   == [term : Nat, voter : Node, cand : Node]

Init == /\ node = [n \in Node |-> init(Node)]
        /\ up = Node
        /\ disk = [n \in Node |-> persist(init(Node))]
        /\ cut = {}
        /\ clock = 1 /\ phase = "events" /\ turn = {}
        /\ pending = <<>> /\ raised = FALSE /\ left = Budget
        /\ leaders = {} /\ committed = {} /\ chosen = <<>>
        /\ conflicts = {} /\ reads = {} /\ cast = {}
-----------------------------------------------------------------------------
(* The parts of the driver every step shares.                              *)

\* _queue: requests, appends fan to every live peer, replies go to one.
addressees(n, m) ==
    IF m.kind \in {"REQUEST_VOTE", "APPEND"} THEN up \ {n}
    ELSE (IF m.kind = "VOTE_REPLY" THEN {m.cand} ELSE {m.leader}) \cap up

\* The messages of one reply share their kind, hence their addressees.
queue(n, out) ==
    LET sent == [i \in 1..Len(out) |->
                    [from |-> n, to |-> addressees(n, out[i]),
                     msg |-> out[i]]]
    IN  IF \E i \in 1..Len(out) : sent[i].to = {} THEN <<>> ELSE sent

Saves_before(n, s) == /\ node' = [node EXCEPT ![n] = s]
                      /\ disk' = [disk EXCEPT ![n] = persist(node[n])]

\* _save: every transition of a state is one record on its disk.
Saves(n, s) == /\ node' = [node EXCEPT ![n] = s]
               /\ disk' = [disk EXCEPT ![n] = persist(s)]

NotesLeader(n, s) ==
    leaders' = leaders \cup
        (IF s.role = "leader" THEN {[term |-> s.term, id |-> n]} ELSE {})

\* _note_commits: the first command committed at a slot is the slot's; one
\* conflict is kept per slot that another command is committed at.
NotesCommits(s) ==
    LET line == 1..s.commit_index
        cmd(i) == s.log[i].cmd
    IN  /\ committed' = committed \cup
              {[index |-> i, term |-> s.log[i].term] : i \in line}
        /\ chosen' = chosen \o
              [i \in 1..(s.commit_index - Len(chosen)) |->
                  cmd(Len(chosen) + i)]
        /\ conflicts' = conflicts \cup
              {[index |-> i, first |-> chosen[i], other |-> cmd(i)] :
                  i \in {j \in line \cap (1..Len(chosen)) :
                            /\ chosen[j] # cmd(j)
                            /\ \A c \in conflicts : c.index # j}}

Notes(n, s) == NotesLeader(n, s) /\ NotesCommits(s) /\ UNCHANGED reads

\* An exception of the node protocol leaves run() where it was thrown.
Raises == /\ raised' = TRUE
          /\ UNCHANGED <<machine, clock, phase, turn, pending, left, record>>

Running == ~raised /\ clock <= Horizon
-----------------------------------------------------------------------------
(* The scenario's events, all before the nodes tick.                       *)

InSchedule == /\ Running /\ phase = "events" /\ pending = <<>>
              /\ clock <= EventTicks

Event(kind) == /\ InSchedule
               /\ left[kind] > 0
               /\ left' = [left EXCEPT ![kind] = @ - 1]
               /\ UNCHANGED <<clock, phase, turn>>

Cut(link) == /\ Event("cut")
             /\ link \notin cut
             /\ cut' = cut \cup {link}
             /\ UNCHANGED <<node, up, disk, pending, raised, record>>

Heal == /\ Event("heal")
        /\ cut # {}
        /\ cut' = {}
        /\ UNCHANGED <<node, up, disk, pending, raised, record>>

\* Disk.crash: every record but the last.
torn(records) == records[Len(records) - 1]

\* _crash saves the state once more, and tears that record.
Crash(n) == /\ Event("crash")
            /\ n \in up
            /\ up' = up \ {n}
            /\ disk' = [disk EXCEPT ![n] = torn(<<@, persist(node[n])>>)]
            /\ node' = [node EXCEPT ![n] = init(Node)]
            /\ UNCHANGED <<cut, pending, raised, record>>

Restart(n) == /\ InSchedule
              /\ n \notin up
              /\ up' = up \cup {n}
              /\ node' = [node EXCEPT ![n] = recover(disk[n])]
              /\ UNCHANGED <<disk, cut, driver, record>>

\* A write or a membership, on a live leader: what the leader broadcasts
\* drains before the next event.  The commit is noted at a later delivery.
Submit(n, cmd) ==
    /\ Event("submit")
    /\ n \in up /\ node[n].role = "leader"
    /\ LET s == client(n, node[n], cmd) IN
       IF Anchored(n, client_submit(node[n], cmd)) /\ Anchored(n, s)
       THEN /\ Saves(n, s)
            /\ pending' = queue(n, broadcast(n, s))
            /\ UNCHANGED <<up, cut, raised, record>>
       ELSE /\ raised' = TRUE
            /\ UNCHANGED <<machine, pending, record>>

\* A call on any other node is refused, and changes nothing.
SubmitRefused(n) ==
    /\ Event("submit")
    /\ ~(n \in up /\ node[n].role = "leader")
    /\ UNCHANGED <<machine, pending, raised, record>>

\* "get k": a leader answers from its own committed prefix, at once.
\* `saw` is the slot of that answer, `newest` the cluster's last write.
Read(n) ==
    /\ Event("read")
    /\ n \in up /\ node[n].role = "leader"
    /\ reads' = reads \cup
          {[saw |-> Top(Applied(node[n])),
            newest |-> Top({i \in 1..Len(chosen) :
                               "write" \in DOMAIN chosen[i]})]}
    /\ UNCHANGED <<machine, pending, raised,
                   leaders, committed, chosen, conflicts, cast>>
-----------------------------------------------------------------------------
(* The nodes' ticks, and the drain.                                        *)

BeginBeats == /\ Running /\ phase = "events" /\ pending = <<>>
              /\ phase' = "beats" /\ turn' = up
              /\ UNCHANGED <<machine, clock, pending, raised, left, record>>

NodeTick(n) ==
    /\ Running /\ phase = "beats"
    /\ n \in turn /\ \A other \in turn : n <= other
    /\ LET s == tick(n, node[n]) IN
       IF Beats(node[n]) /\ ~Anchored(n, node[n]) THEN Raises
       ELSE /\ Saves(n, s)
            /\ Notes(n, s)
            /\ pending' = pending \o queue(n, tick_out(n, node[n]))
            /\ turn' = turn \ {n}
            /\ cast' = cast \cup
                  (IF TimesOut(n, node[n])
                   THEN {[term |-> s.term, voter |-> n, cand |-> n]}
                   ELSE {})
            /\ UNCHANGED <<up, cut, clock, phase, raised, left>>

\* The message at the head of the queue, at the first of its targets.
AtHead(e, n) == /\ Running /\ turn = {}
                /\ n \in e.to /\ \A other \in e.to : n <= other

Rest(e, n) == (IF e.to = {n} THEN <<>>
               ELSE <<[e EXCEPT !.to = @ \ {n}]>>) \o Tail(pending)

Severed(e, n) == e.from \notin up \/ n \notin up \/ {e.from, n} \in cut

Drop_delayed(e, n) == /\ AtHead(e, n) /\ Severed(e, n)
                      /\ pending' = Append(Rest(e, n), [e EXCEPT !.to = {n}])
                      /\ UNCHANGED <<machine, clock, phase, turn, raised, left,
                                     record>>

\* Dropped, never delayed.
Drop(e, n) == /\ AtHead(e, n) /\ Severed(e, n)
              /\ pending' = Rest(e, n)
              /\ UNCHANGED <<machine, clock, phase, turn, raised, left,
                             record>>

\* recv returned `s` and `out`: the replies queue behind what is pending.
Receives(e, n, s, out) ==
    /\ Saves(n, s)
    /\ Notes(n, s)
    /\ pending' = Rest(e, n) \o queue(n, out)
    /\ UNCHANGED <<up, cut, clock, phase, turn, raised, left>>

Arrives(e, n, kind) == AtHead(e, n) /\ ~Severed(e, n) /\ e.msg.kind = kind

DeliverRequestVote(e, n) ==
    /\ Arrives(e, n, "REQUEST_VOTE")
    /\ LET reply == vote_reply(n, node[n], e.msg) IN
       /\ Receives(e, n, recv_request_vote(node[n], e.msg), <<reply>>)
       /\ cast' = cast \cup
             (IF reply.granted
              THEN {[term |-> reply.term, voter |-> n, cand |-> reply.cand]}
              ELSE {})

DeliverVoteReply(e, n) ==
    /\ Arrives(e, n, "VOTE_REPLY")
    /\ LET s == recv_vote_reply(n, node[n], e.msg) IN
       Receives(e, n, s, IF Elects(n, node[n], e.msg)
                         THEN broadcast(n, s) ELSE <<>>)
    /\ UNCHANGED cast

DeliverAppend(e, n) ==
    /\ Arrives(e, n, "APPEND")
    /\ IF Builds(handle_append(node[n], e.msg))
       THEN /\ Receives(e, n, recv_append(node[n], e.msg),
                        <<append_reply(n, node[n], e.msg)>>)
            /\ UNCHANGED cast
       ELSE Raises

DeliverAppendReply(e, n) ==
    /\ Arrives(e, n, "APPEND_REPLY")
    /\ Receives(e, n, recv_append_reply(n, node[n], e.msg), <<>>)
    /\ UNCHANGED cast

EndTick == /\ Running /\ phase = "beats" /\ turn = {} /\ pending = <<>>
           /\ clock' = clock + 1 /\ phase' = "events"
           /\ UNCHANGED <<machine, turn, pending, raised, left, record>>

\* run() returned, or an exception left it.
Done == ~Running /\ UNCHANGED vars
-----------------------------------------------------------------------------
Schedule == \/ \E link \in Link : Cut(link)
            \/ Heal
            \/ \E n \in Node : \/ Crash(n) \/ Restart(n) \/ Read(n)
                               \/ SubmitRefused(n)
            \/ \E n \in Node, cmd \in Command : Submit(n, cmd)

Deliver == /\ pending # <<>>
           /\ LET e == Head(pending) IN
              \E n \in Node : \/ Drop(e, n)
                             \/ DeliverRequestVote(e, n)
                             \/ DeliverVoteReply(e, n)
                             \/ DeliverAppend(e, n)
                             \/ DeliverAppendReply(e, n)

Drive == \/ BeginBeats \/ (\E n \in Node : NodeTick(n))
         \/ Deliver \/ EndTick

Next == Schedule \/ Drive \/ Done

\* run() is one loop: it never stops before its horizon.
Spec == Init /\ [][Next]_vars /\ WF_vars(Drive)
=============================================================================
