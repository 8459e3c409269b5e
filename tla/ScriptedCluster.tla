--------------------------- MODULE ScriptedCluster ---------------------------
(***************************************************************************)
(* Cluster under a fixed schedule: scenarios.py, and sim.Cluster.run over  *)
(* it.  With a script chosen a run has one behaviour, "every run of a      *)
(* scenario is the same run".                                              *)
(***************************************************************************)
EXTENDS ClusterProperties

CONSTANT Script   \* by name: [events, ticks], the events in tick order

VARIABLES scenario,   \* the name of the schedule
          agenda,     \* the events still to come
          story       \* the record with its ticks, as the driver keeps it

script == <<scenario, agenda, story>>

ScriptInit == /\ Init
              /\ scenario \in DOMAIN Script
              /\ agenda = Script[scenario].events
              /\ story = [leaders |-> {}, committed |-> {}]

Due == agenda # <<>> /\ Head(agenda).at = clock

\* _apply, by the kind of the event.
Apply(e) == \/ e.do = "cut"     /\ Cut(e.link)
            \/ e.do = "heal"    /\ Heal
            \/ e.do = "crash"   /\ Crash(e.id)
            \/ e.do = "restart" /\ Restart(e.id)
            \/ e.do = "submit"  /\ (Submit(e.id, e.cmd) \/ SubmitRefused(e.id))
            \/ e.do = "get"     /\ (Read(e.id) \/ SubmitRefused(e.id))

\* What this step adds to the driver's lists, at this tick.
Tells == story' =
    [leaders |-> story.leaders \cup
        {<<clock, l.term, l.id>> : l \in leaders' \ leaders},
     committed |-> story.committed \cup
        {<<clock, c.index, c.term, chosen'[c.index]>> :
            c \in committed' \ committed}]

Plays == /\ Due /\ Apply(Head(agenda))
         /\ agenda' = Tail(agenda)

Goes == /\ clock <= Script[scenario].ticks
        /\ Drive /\ (Due => ~BeginBeats)
        /\ UNCHANGED agenda

\* run() returned, or an exception left it.
Over == clock > Script[scenario].ticks \/ raised

ScriptNext == \/ (Plays \/ Goes) /\ Tells /\ UNCHANGED scenario
              \/ Over /\ UNCHANGED <<vars, script>>

ScriptSpec == ScriptInit /\ [][ScriptNext]_<<vars, script>>
=============================================================================
