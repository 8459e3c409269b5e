------------------------------- MODULE Fabric -------------------------------
(***************************************************************************)
(* The failover course's driver, fabric.py, running the composed node of   *)
(* stage_10.py: two regions joined by a link, a watch channel that tells   *)
(* of deaths and revivals, and clients pinned to a home region.            *)
(*                                                                         *)
(* A tick has the phases of Fabric.run: world events, then every due       *)
(* delivery, then the redirected requests, then the node ticks (west only  *)
(* on even ticks), then the scheduled clients.  Same-region messages are   *)
(* delivered inside the call that sends them.  Traffic of the link is due  *)
(* "next" tick, and "held" while the link is down (the code's due None);   *)
(* the tick itself is not kept, only whether it is even.  The rows of      *)
(* applied, the answers and the logs of a run are left out: nothing a node *)
(* or the driver does depends on them.                                     *)
(*                                                                         *)
(* The watch channel is one list in the code.  A notice only touches what  *)
(* its hearer believes of its subject, so watch[n][x] is what is on its    *)
(* way to n about x, oldest first.  Relays only meet in a union, so the    *)
(* list of them is a set.                                                  *)
(***************************************************************************)
EXTENDS FailoverNode

CONSTANTS Reads,                        \* the get requests
          Home,                         \* the region a request's client is pinned to
          Mortal,                       \* the nodes a schedule may kill
          Kills, Revives, Flips, Calls  \* how many of each event a schedule has

ASSUME ScheduleAssumption ==
    /\ Writes \cap Reads = {}
    /\ Home \in [Writes \cup Reads -> Regions]
    /\ Mortal \subseteq Nodes
    /\ {Kills, Revives, Flips, Calls} \subseteq Nat

Requests == Writes \cup Reads

VARIABLES
    \* what each node holds
    epoch, promoted, store, ledger, notices, votes,
    \* the world
    down, link_up, even, phase, turn, watch, cross, inject,
    \* what is left of the schedule
    left,
    \* history: who has ever been killed, and every version ever written
    died, written

node == <<epoch, promoted, store, ledger, notices, votes>>
traffic == <<watch, cross, inject>>
clock == <<even, phase, turn>>
history == <<died, written>>
vars == <<node, down, link_up, clock, traffic, left, history>>

Init ==
    /\ epoch = [n \in Nodes |-> INITIAL_EPOCH]
    /\ promoted = [n \in Nodes |-> FALSE]
    /\ store = [n \in Nodes |-> {}]
    /\ ledger = [n \in Nodes |-> {}]
    /\ notices = [n \in Nodes |-> {}]
    /\ votes = [n \in Nodes |-> {}]
    /\ down = {} /\ link_up = TRUE
    /\ even = TRUE /\ phase = "events" /\ turn = 1
    /\ watch = [n \in Nodes |-> [x \in Nodes |-> <<>>]]
    /\ cross = {} /\ inject = <<>>
    /\ left = [kill |-> Kills, revive |-> Revives, flip |-> Flips, call |-> Calls]
    /\ died = {} /\ written = {}

Spend(what) == left[what] > 0 /\ left' = [left EXCEPT ![what] = @ - 1]

-----------------------------------------------------------------------------
(* World events.                                                           *)

Due(from, to) ==
    IF region_of(from) = region_of(to) THEN "now"
    ELSE IF link_up THEN "next" ELSE "held"

Notice(to, kind, subject) == [due |-> Due(subject, to), kind |-> kind]

(* The notice goes to every live node but the subject.                     *)
Told(kind, subject) ==
    [n \in Nodes |-> [x \in Nodes |->
        IF x = subject /\ n # subject /\ n \notin down
        THEN Append(watch[n][x], Notice(n, kind, x)) ELSE watch[n][x]]]

(* A revived node is also told of the nodes still down.                    *)
CatchUp(subject) ==
    [n \in Nodes |-> [x \in Nodes |->
        IF n = subject /\ x # subject /\ x \in down
        THEN Append(watch[n][x], Notice(n, "dead", x)) ELSE Told("alive", subject)[n][x]]]

Kill(n) ==
    /\ phase = "events"
    /\ n \in Mortal \ down
    /\ Spend("kill")
    /\ down' = down \cup {n}
    /\ died' = died \cup {n}
    /\ cross' = {m \in cross : m.from # n}
    /\ watch' = Told("dead", n)
    /\ UNCHANGED <<node, link_up, clock, inject, written>>

Revive(n) ==
    /\ phase = "events"
    /\ n \in down
    /\ Spend("revive")
    /\ down' = down \ {n}
    /\ watch' = CatchUp(n)
    /\ UNCHANGED <<node, link_up, clock, cross, inject, history>>

Cut ==
    /\ phase = "events"
    /\ link_up
    /\ Spend("flip")
    /\ link_up' = FALSE
    /\ UNCHANGED <<node, down, clock, traffic, history>>

Heal ==
    /\ phase = "events"
    /\ ~link_up
    /\ Spend("flip")
    /\ link_up' = TRUE
    /\ UNCHANGED <<node, down, clock, traffic, history>>

-----------------------------------------------------------------------------
(* Due deliveries.                                                         *)

(* The notices about x that reach n this tick: the last one decides.       *)
Landing(n, x) == {i \in DOMAIN watch[n][x] : watch[n][x][i].due = "now"}

Believes(n, x) ==
    IF n \in down \/ Landing(n, x) = {} THEN x \in notices[n]
    ELSE watch[n][x][Max(Landing(n, x))].kind = "dead"

Arriving(n) ==
    {m \in cross : /\ m.due = "now" /\ link_up /\ m.to = n
                   /\ n \notin down /\ m.from \notin down}

(* What waited for the link starts when it is up.                          *)
Released(m) ==
    IF m.due = "held" /\ link_up THEN [m EXCEPT !.due = "next"] ELSE m

(* SelectSeq by position: the notices at the positions I, in order.        *)
Remaining(notes, I) ==
    LET place(k) == CHOOSE i \in I : Cardinality({j \in I : j <= i}) = k
    IN [k \in 1..Cardinality(I) |-> Released(notes[place(k)])]

(* Bugs: what the link held is lost when it heals, as a notice or a relay. *)
StillWatch_lost(n, x) ==
    Remaining(watch[n][x],
        {i \in DOMAIN watch[n][x] : ~(watch[n][x][i].due = "now"
            \/ (watch[n][x][i].due = "held" /\ link_up))})

StillCross_lost ==
    {m \in cross : m.from \notin down /\ m.to \notin down /\ m.due = "next"}

(* What stays queued; a relay that falls due on a link cut again is held.  *)
StillWatch(n, x) ==
    Remaining(watch[n][x], DOMAIN watch[n][x] \ Landing(n, x))

StillCross ==
    {IF m.due = "now" THEN [m EXCEPT !.due = "held"] ELSE Released(m) :
        m \in {r \in cross : /\ r.from \notin down /\ r.to \notin down
                             /\ ~(r.due = "now" /\ link_up)}}

DeliverDue ==
    /\ phase = "events"
    /\ phase' = "redirects"
    /\ notices' = [n \in Nodes |-> {x \in Nodes : Believes(n, x)}]
    /\ store' = [n \in Nodes |->
                    absorb(store[n], {m.version : m \in Arriving(n)})]
    /\ watch' = [n \in Nodes |-> [x \in Nodes |-> StillWatch(n, x)]]
    /\ cross' = StillCross
    /\ UNCHANGED <<epoch, promoted, ledger, votes, down, link_up, even, turn,
                   inject, left, history>>

-----------------------------------------------------------------------------
(* Node ticks: the west nodes propose, one after the other.                *)

(* The peers that adopt: asked, up, and still below the new epoch.  The    *)
(* proposal's store goes with the question.                                *)
Adopters(n) ==
    {p \in peers_of(n) : p \notin notices[n] /\ p \notin down /\ epoch[p] <= epoch[n]}

Propose(n) ==
    LET adopters == Adopters(n)
    IN /\ store' = [p \in Nodes |-> IF p \in adopters
                                    THEN absorb(store[p], store[n]) ELSE store[p]]
       /\ votes' = [votes EXCEPT ![n] = Counted(n, adopters)]
       /\ epoch' = [epoch EXCEPT ![n] = IF adopters = {} THEN @ ELSE @ + 1]
       /\ promoted' = [promoted EXCEPT ![n] =
             adopters # {} /\ Cardinality(Counted(n, adopters)) >= majority(Len(West))]

Proposes(n) ==
    even /\ n \notin down /\ Candidate(n, epoch[n], promoted[n], notices[n])

(* The next node in id order that asks: a tick of any other changes nothing. *)
TickNode ==
    /\ phase = "redirects" /\ inject = <<>>
    /\ \E i \in turn..Len(West) :
          /\ Proposes(West[i])
          /\ \A j \in turn..(i - 1) : ~Proposes(West[j])
          /\ Propose(West[i])
          /\ turn' = i + 1
    /\ UNCHANGED <<ledger, notices, down, link_up, even, phase, traffic,
                   left, history>>

TicksDone ==
    /\ phase = "redirects" /\ inject = <<>>
    /\ \A i \in turn..Len(West) : ~Proposes(West[i])
    /\ phase' = "clients" /\ turn' = 1
    /\ UNCHANGED <<node, down, link_up, even, traffic, left, history>>

-----------------------------------------------------------------------------
(* Clients.                                                                *)

live(region) == Range(region) \ down
region_promoted(region) ==
    \E n \in live(region) : promoted[n] /\ epoch[n] > INITIAL_EPOCH

(* Home's entry while home has a live node; the other region's only once   *)
(* that region was promoted.  Nobody otherwise: the request is refused.    *)
Serving(home) ==
    IF live(home) # {} THEN {first(home, live(home))}
    ELSE IF region_promoted(other(home)) THEN {first(other(home), live(other(home)))}
    ELSE {}

(* What n now holds, and _wire, routed: a version goes out to the peers n  *)
(* believes alive, at once, and over the link to the other region's entry. *)
Wire(n, held, version) ==
    LET synced == {p \in peers_of(n) : p \notin notices[n] /\ p \notin down}
        entry == other(region_of(n))[1]
        relay == [due |-> Due(n, entry), from |-> n, to |-> entry, version |-> version]
    IN /\ store' = [p \in Nodes |->
                      CASE p = n -> held
                        [] p \in synced -> absorb(store[p], {version})
                        [] OTHER -> store[p]]
       /\ cross' = IF entry \in down THEN cross ELSE cross \cup {relay}

(* A set whose answer the ledger holds is not applied again, but it goes   *)
(* out once more, with the last of the versions held now.                  *)
Replay(n, w) ==
    /\ w \in ledger[n]
    /\ Wire(n, store[n], last(store[n]))
    /\ UNCHANGED <<ledger, written>>

Apply(n, w) ==
    /\ w \notin ledger[n]
    /\ LET version == winner(store[n], n, w)
       IN /\ Wire(n, {version}, version)
          /\ written' = written \cup {[by |-> n, version |-> version]}
    /\ ledger' = [ledger EXCEPT ![n] = @ \cup {w}]

(* The request arrives; a node below its quorum redirects it.              *)
Arrive(home, request) ==
    \/ /\ Serving(home) = {}
       /\ UNCHANGED <<node, cross, written>>
    \/ \E n \in Serving(home) :
          IF quorum_ok(n, notices[n]) /\ request \in Writes
          THEN /\ Apply(n, request) \/ Replay(n, request)
               /\ UNCHANGED <<epoch, promoted, notices, votes>>
          ELSE UNCHANGED <<node, cross, written>>

(* The home's own entry redirects; a request that already fell back or was *)
(* redirected once is refused instead.                                     *)
Redirects(home) ==
    \E n \in Serving(home) : region_of(n) = home /\ ~quorum_ok(n, notices[n])

Client(request) ==
    /\ phase = "clients"
    /\ Spend("call")
    /\ Arrive(Home[request], request)
    /\ inject' = IF Redirects(Home[request]) THEN Append(inject, request) ELSE inject
    /\ UNCHANGED <<down, link_up, clock, watch, died>>

(* A redirected request arrives at the other region one tick later.  The   *)
(* code sorts those of one tick by their wording; here any goes first.     *)
Redirected ==
    /\ phase = "redirects"
    /\ \E i \in DOMAIN inject :
          /\ Arrive(other(Home[inject[i]]), inject[i])
          /\ inject' = RemoveAt(inject, i)
    /\ UNCHANGED <<down, link_up, clock, watch, left, died>>

Arrived(m) == IF m.due = "next" THEN [m EXCEPT !.due = "now"] ELSE m

EndTick ==
    /\ phase = "clients"
    /\ phase' = "events"
    /\ even' = ~even
    /\ watch' = [n \in Nodes |-> [x \in Nodes |->
                    [i \in DOMAIN watch[n][x] |-> Arrived(watch[n][x][i])]]]
    /\ cross' = {Arrived(m) : m \in cross}
    /\ UNCHANGED <<node, down, link_up, turn, inject, left, history>>

-----------------------------------------------------------------------------
Next ==
    \/ \E n \in Nodes : Kill(n) \/ Revive(n)
    \/ Cut \/ Heal
    \/ DeliverDue
    \/ TickNode \/ TicksDone
    \/ Redirected
    \/ \E request \in Requests : Client(request)
    \/ EndTick

(* Fabric.run is one loop: it always goes on to the next step.             *)
Spec == Init /\ [][Next]_vars /\ WF_vars(Next)
=============================================================================
