------------------------------ MODULE WorkQueue ------------------------------
(***************************************************************************)
(* The work queue of queue-and-workers-from-scratch: tickets waiting,      *)
(* flights in the air, dead letters, and the operations of stages 2 to 7   *)
(* that the run loop composes.  A table of the source keyed by task id is  *)
(* a set of records with one record per task; the order of `pending` never *)
(* matters, since every reader of it sorts by order_key.                   *)
(***************************************************************************)
EXTENDS Integers, FiniteSets, Sequences

CONSTANTS
    TaskCount,  \* how many tasks the run is offered
    Priority,   \* the priorities a task may carry
    Attempts,   \* the attempt budgets a task may carry
    Report,     \* the statuses workers report
    Cost,       \* the ticks a worker's answer may claim
    None        \* Python's None: no deadline, no due date, no bound, no reason

\* The ids of the tasks, numbered in the order they are offered.
Task == 1..TaskCount

VARIABLES
    tasks,      \* what each task asks for: its priority and attempt budget
    pool,       \* max_concurrency and the high water mark
    now,        \* the injected clock
    sequence,   \* the arrival number of the next ticket
    pending,    \* the tickets waiting
    in_flight,  \* the flights in the air
    answers,    \* the answer each started task waits to be filed under
    dead,       \* the dead letters
    events      \* the log: what happened to which task, in order

given == <<tasks, pool>>
flights == <<in_flight, answers>>
queue == <<sequence, pending, in_flight, answers, dead, events>>

Status == {"ok", "failed", "died"}
Answer == [status : Report, ticks : Cost]

ASSUME QueueAssumption ==
    /\ TaskCount \in Nat
    /\ Priority \subseteq Nat /\ Attempts \subseteq Nat /\ Cost \subseteq Nat
    /\ Report \subseteq Status
    /\ None \notin Int /\ None \notin Answer

OptionalTick == Nat \cup {None}
Ticket == [task : Task, seq : Nat, attempts : Nat, ready_at : OptionalTick]
Flight == [task : Task, seq : Nat, attempt : Nat, started_at : Nat,
           finishes_at : Nat, deadline_at : OptionalTick]
Letter == [task : Task, attempts : Nat, reason : Status \cup {"shed"}]

depth == Cardinality(pending) + Cardinality(in_flight)
free_slots == pool.max_concurrency - Cardinality(in_flight)

\* One line of the log.
Line(kind, t) == <<[kind |-> kind, task |-> t]>>

-----------------------------------------------------------------------------
(* Priority ordering and due dates. *)

Overtakes(a, b) ==
    \/ tasks[a.task].priority > tasks[b.task].priority
    \/ tasks[a.task].priority = tasks[b.task].priority /\ a.seq < b.seq

IsDue(ticket) == ticket.ready_at = None \/ ticket.ready_at <= now
due == {ticket \in pending : IsDue(ticket)}
Picks(ticket) ==
    ticket \in due /\ \A other \in due \ {ticket} : Overtakes(ticket, other)
Last(ticket) ==
    ticket \in pending /\ \A other \in pending \ {ticket} : Overtakes(other, ticket)

-----------------------------------------------------------------------------
(* Admission: below the high water mark a task is taken; above it the      *)
(* policy refuses it, sheds the last ticket in its favour, or blocks.      *)

submit(t) == [task |-> t, seq |-> sequence, attempts |-> 0, ready_at |-> None]

Takes(t) ==
    /\ pending' = pending \cup {submit(t)}
    /\ sequence' = sequence + 1
    /\ events' = events \o Line("submitted", t) \o Line("admitted", t)
    /\ UNCHANGED <<flights, dead>>

AdmitBelow_at_mark(t) == depth <= pool.high_water /\ Takes(t)
AdmitBelow(t) == depth < pool.high_water /\ Takes(t)

TurnAway(t, kind) ==
    /\ depth >= pool.high_water
    /\ events' = events \o Line(kind, t)
    /\ UNCHANGED <<sequence, pending, flights, dead>>

AdmitRefused(t) == TurnAway(t, "refused")
AdmitBlocked(t) == TurnAway(t, "blocked")
NothingToShed(t) == pending = {} /\ TurnAway(t, "refused")

Without_kept(victim) == pending
Without(victim) == pending \ {victim}

AdmitShed(t) ==
    /\ depth >= pool.high_water
    /\ \E victim \in pending :
          /\ Last(victim)
          /\ dead' = dead \cup {[task |-> victim.task, reason |-> "shed",
                                 attempts |-> victim.attempts]}
          /\ pending' = Without(victim) \cup {submit(t)}
          /\ events' = events \o Line("dead_lettered", victim.task)
                         \o Line("submitted", t) \o Line("shed", victim.task)
    /\ sequence' = sequence + 1
    /\ UNCHANGED flights

-----------------------------------------------------------------------------
(* A start takes the best due ticket into the air. *)

Filed_once(t, answer) == [answers EXCEPT ![t] = IF @ = None THEN answer ELSE @]
Filed(t, answer) == [answers EXCEPT ![t] = answer]

start(lease) ==
    /\ free_slots > 0
    /\ \E ticket \in pending :
       \E answer \in Answer :
          /\ Picks(ticket)
          /\ pending' = pending \ {ticket}
          /\ in_flight' = in_flight \cup
                {[task |-> ticket.task, seq |-> ticket.seq,
                  attempt |-> ticket.attempts + 1, started_at |-> now,
                  finishes_at |-> now + answer.ticks,
                  deadline_at |-> IF lease = None THEN None ELSE now + lease]}
          /\ answers' = Filed(ticket.task, answer)
          /\ events' = events \o Line("started", ticket.task)
    /\ UNCHANGED <<sequence, dead>>

-----------------------------------------------------------------------------
(* Completions are resolved first, expired leases after them, and every    *)
(* attempt that failed or died is retried after its backoff or given up.   *)

Expired(f) == f.deadline_at # None /\ f.deadline_at <= now
complete_late == {f \in in_flight : f.finishes_at <= now /\ ~Expired(f)}
complete == {f \in in_flight : f.finishes_at <= now}
sweep == {f \in in_flight \ complete : Expired(f)}
Succeeds(f) == f \in complete /\ answers[f.task].status = "ok"

Reason_unnamed(f) == IF f \in complete THEN answers[f.task].status ELSE None
Reason(f) == IF f \in complete THEN answers[f.task].status ELSE "died"

backoff(attempt) == 2 ^ (attempt - 1)

\* A budget of 0 or 1 buys one attempt: the check comes after the attempt.
Spent_past(f) == f.attempt > tasks[f.task].attempts
Spent(f) == f.attempt >= tasks[f.task].attempts

requeue_last(f) ==
    [task |-> f.task, seq |-> f.seq + TaskCount, attempts |-> f.attempt,
     ready_at |-> now + backoff(f.attempt)]
requeue(f) ==
    [task |-> f.task, seq |-> f.seq, attempts |-> f.attempt,
     ready_at |-> now + backoff(f.attempt)]

dead_letter(f) ==
    [task |-> f.task, reason |-> Reason(f), attempts |-> f.attempt]

Sooner(f, g) ==
    \/ f \in complete /\ g \notin complete
    \/ /\ f \in complete /\ g \in complete
       /\ \/ f.finishes_at < g.finishes_at
          \/ f.finishes_at = g.finishes_at /\ f.seq < g.seq
    \/ /\ f \notin complete /\ g \notin complete
       /\ \/ f.deadline_at < g.deadline_at
          \/ f.deadline_at = g.deadline_at /\ f.seq < g.seq

Outcome(f) == IF Succeeds(f) THEN "succeeded" ELSE Reason(f)
Sequel(f) == IF Spent(f) THEN "dead_lettered" ELSE "retried"

\* One line of the log for each flight in kind's domain, in the order of
\* resolution.
LinesOf(kind) ==
    LET S == DOMAIN kind
        rank(f) == Cardinality({g \in S : Sooner(g, f)}) + 1
    IN  [i \in 1..Cardinality(S) |->
            LET f == CHOOSE g \in S : rank(g) = i
            IN  [task |-> f.task, kind |-> kind[f]]]

\* What became of each flight, then what the retry schedule made of those
\* that did not succeed.
Resolution_landed(done, lost) ==
    LinesOf([f \in done \ sweep |-> Outcome(f)]) \o LinesOf([f \in lost |-> Sequel(f)])
Resolution(done, lost) ==
    LinesOf([f \in done |-> Outcome(f)]) \o LinesOf([f \in lost |-> Sequel(f)])

Resolve ==
    LET done == complete \cup sweep
        lost == {f \in done : ~Succeeds(f)}
    IN  /\ in_flight' = in_flight \ done
        /\ answers' = [t \in Task |->
              IF \E f \in complete : f.task = t THEN None ELSE answers[t]]
        /\ pending' = pending \cup {requeue(f) : f \in {g \in lost : ~Spent(g)}}
        /\ dead' = dead \cup {dead_letter(f) : f \in {g \in lost : Spent(g)}}
        /\ events' = events \o Resolution(done, lost)
        /\ UNCHANGED sequence

\* The earliest tick at which a flight lands, a lease lapses or a ticket's
\* due date comes.
next_times_unleased ==
    {f.finishes_at : f \in in_flight}
    \cup ({ticket.ready_at : ticket \in pending} \ {None})
next_times ==
    {f.finishes_at : f \in in_flight}
    \cup ({f.deadline_at : f \in in_flight} \ {None})
    \cup ({ticket.ready_at : ticket \in pending} \ {None})

Soonest(tick) == tick \in next_times /\ \A other \in next_times : tick <= other
=============================================================================
