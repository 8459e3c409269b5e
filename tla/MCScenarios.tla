----------------------------- MODULE MCScenarios -----------------------------
(* The seven schedules of scenarios.py, and the facts its PINS row says a  *)
(* correct node shows under each; a1..a5 are 1..5, slots count from 1.     *)
EXTENDS ScriptedCluster, SequencesExt

\* wire.TIMEOUTS
RealTimeout == <<11, 7, 9, 5, 13>>

Ample == [kind \in {"cut", "heal", "crash", "submit", "read"} |-> 20]

W(text) == [write |-> text]
cut_(t, a, b) == [at |-> t, do |-> "cut", link |-> {a, b}]
heal_(t)      == [at |-> t, do |-> "heal"]
crash_(t, n)  == [at |-> t, do |-> "crash", id |-> n]
restart_(t, n) == [at |-> t, do |-> "restart", id |-> n]
put(t, n, c)  == [at |-> t, do |-> "submit", id |-> n, cmd |-> c]
get_(t, n)    == [at |-> t, do |-> "get", id |-> n]

A123 == [members |-> {1, 2, 3}]

ELECT_ONE == <<put(11, 4, W("x=1"))>>

HEAL == <<put(11, 4, W("x=1")), cut_(14, 4, 1), cut_(14, 4, 2),
          cut_(14, 4, 3), put(16, 4, W("y=2")), heal_(40),
          put(44, 4, W("z=3"))>>

ASYMMETRIC == <<cut_(12, 4, 1), cut_(12, 4, 2), cut_(12, 5, 1),
                cut_(12, 5, 2), put(13, 4, W("x=1")), cut_(24, 3, 4),
                put(25, 2, W("y=2")), heal_(40), get_(45, 2)>>

MINORITY == <<put(11, 4, W("x=1")), cut_(15, 4, 1), cut_(15, 4, 2),
              cut_(15, 4, 3), cut_(15, 5, 1), cut_(15, 5, 2),
              cut_(15, 5, 3), put(16, 4, W("y=2")), heal_(40), get_(42, 4)>>

LAGGARD == <<put(11, 4, W("x=1")), cut_(13, 5, 1), cut_(13, 5, 2),
             cut_(13, 5, 3), cut_(13, 5, 4), put(16, 4, W("y=2")),
             put(22, 4, W("z=3")), heal_(45), get_(60, 4)>>

TORN == <<put(11, 4, W("x=1")), put(14, 4, W("y=2")), crash_(20, 2),
          restart_(22, 2), put(26, 4, W("z=3")), get_(31, 2)>>

JOINT == <<put(11, 4, W("x=1")), cut_(20, 4, 5), put(22, 4, A123),
           heal_(45), put(52, 4, W("y=2"))>>

SCENARIOS ==
    "ELECT_ONE" :> [events |-> ELECT_ONE, ticks |-> 30]
    @@ "HEAL" :> [events |-> HEAL, ticks |-> 55]
    @@ "ASYMMETRIC" :> [events |-> ASYMMETRIC, ticks |-> 60]
    @@ "MINORITY" :> [events |-> MINORITY, ticks |-> 55]
    @@ "LAGGARD" :> [events |-> LAGGARD, ticks |-> 70]
    @@ "TORN" :> [events |-> TORN, ticks |-> 40]
    @@ "JOINT" :> [events |-> JOINT, ticks |-> 75]

Pin(l, c) == [leaders |-> l, committed |-> c]

PINS ==
    "ELECT_ONE" :> Pin({<<5, 1, 4>>}, {<<11, 1, 1, W("x=1")>>})
    @@ "HEAL" :> Pin({<<5, 1, 4>>, <<17, 2, 2>>, <<34, 4, 2>>, <<40, 6, 4>>},
                     {<<11, 1, 1, W("x=1")>>, <<44, 2, 1, W("y=2")>>,
                      <<44, 3, 6, W("z=3")>>})
    @@ "ASYMMETRIC" :> Pin({<<5, 1, 4>>, <<40, 6, 4>>},
                           {<<13, 1, 1, W("x=1")>>})
    @@ "MINORITY" :> Pin({<<5, 1, 4>>, <<17, 2, 2>>, <<47, 3, 4>>},
                         {<<11, 1, 1, W("x=1")>>})
    @@ "LAGGARD" :> Pin({<<5, 1, 4>>, <<54, 5, 4>>},
                        {<<11, 1, 1, W("x=1")>>, <<16, 2, 1, W("y=2")>>,
                         <<22, 3, 1, W("z=3")>>})
    @@ "TORN" :> Pin({<<5, 1, 4>>},
                     {<<11, 1, 1, W("x=1")>>, <<14, 2, 1, W("y=2")>>,
                      <<26, 3, 1, W("z=3")>>})
    @@ "JOINT" :> Pin({<<5, 1, 4>>, <<35, 3, 2>>, <<40, 4, 4>>},
                      {<<11, 1, 1, W("x=1")>>, <<22, 2, 1, A123>>,
                       <<52, 3, 4, W("y=2")>>})

\* Each schedule, run to its horizon, shows the leaders and first commits of
\* its PINS row, at those ticks, and no conflict.
ReproducesPins ==
    clock > Script[scenario].ticks =>
        story = PINS[scenario] /\ conflicts = {} /\ ~raised
=============================================================================
