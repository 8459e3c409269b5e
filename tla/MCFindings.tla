------------------------------ MODULE MCFindings ------------------------------
(* Schedules that lead the real five nodes where no document says they go. *)
EXTENDS MCScenarios

cuts_(t, A, B) == SetToSeq({cut_(t, a, b) : a \in A, b \in B})

\* A refusal's `matched` counts as a replica that is not there.
\* Node 4 leads alone and piles up five slots of term 1; node 3 leads term 2
\* with slots of its own; both appends meet at node 1, whose refusal of one
\* tells node 3 a length that is the other's.
STALE_ROWS ==
    cuts_(6, {4}, {1, 2, 3, 5})
    \o [i \in 1..5 |-> put(6, 4, W("f"))]
    \o <<put(13, 2, W("e")), crash_(17, 2), restart_(17, 2)>>
    \o cuts_(22, {3}, {2, 5})
    \o [i \in 1..3 |-> put(22, 3, W("g"))]
    \o <<heal_(23)>>
    \o cuts_(23, {4}, {1, 2, 5}) \o cuts_(23, {3}, {2, 5})
    \o <<put(23, 3, W("g")), heal_(24)>>
    \o cuts_(24, {1, 3}, {2, 4, 5})
    \o <<crash_(24, 4), restart_(28, 4), put(29, 2, W("h"))>>

FALSE_COMMIT == "STALE_ROWS" :> [events |-> STALE_ROWS, ticks |-> 31]

\* A mismatch takes back slots that were committed.  Nodes commit two slots of
\* term 1; leader 4 appends a third alone, node 2 one of term 2, also alone.
\* Elected again, node 4 brings its third slot to the others and then offers
\* it to node 2 as the anchor: term 2 against term 1, and node 2 drops every
\* slot of term 1.
OVERCUT ==
    [i \in 1..2 |-> put(6, 4, W("e"))]
    \o cuts_(11, {4}, {1, 2, 3, 5}) \o <<put(11, 4, W("f"))>>
    \o cuts_(19, {2}, {1, 3, 5}) \o <<put(19, 2, W("g")), heal_(20)>>
    \o cuts_(20, {2}, {1, 3, 4, 5}) \o <<heal_(37)>>

TAKEN_BACK == "OVERCUT" :> [events |-> OVERCUT, ticks |-> 42]

\* Node 4, the shortest timeout, misses one write.  From the heal on it never
\* wins, for its log is behind, and never lets another candidate finish.
DEPOSED == cuts_(4, {4}, {1, 2, 3, 5}) \o <<put(8, 2, W("e")), heal_(20)>>

LIVELOCK == "DEPOSED" :> [events |-> DEPOSED, ticks |-> 300]
=============================================================================
