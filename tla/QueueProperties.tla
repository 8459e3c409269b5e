--------------------------- MODULE QueueProperties ---------------------------
(***************************************************************************)
(* What must hold of every run of the work queue, and the refinement that  *)
(* shows a run implements TaskFate.                                        *)
(***************************************************************************)
EXTENDS QueueRun

Kind == {"submitted", "admitted", "refused", "shed", "blocked", "started",
         "retried", "dead_lettered", "stopped", "succeeded"} \cup Status

\* Every table keeps its declared shape.
TablesOK ==
    /\ tasks \in [Task -> [priority : Priority, attempts : Attempts]]
    /\ pool \in Pools /\ lease \in Lease /\ max_ticks \in Bound
    /\ now \in Nat /\ sequence \in Nat
    /\ pending \subseteq Ticket /\ in_flight \subseteq Flight
    /\ dead \subseteq Letter
    /\ answers \in [Task -> Answer \cup {None}]
    /\ offered \in Nat /\ at \in Phase /\ stopped \in Stops
    /\ steps_left \in OptionalTick

\* Type invariant: the tables and the log of a run (stage 2's dataclasses and
\* EVENT_KINDS).
TypeOK ==
    /\ TablesOK
    /\ policy \in {"refuse", "shed", "block"}
    /\ events \in Seq([kind : Kind, task : Task \cup {None}])

-----------------------------------------------------------------------------
Waiting(t) == {ticket \in pending : ticket.task = t}
Running(t) == {f \in in_flight : f.task = t}
Letters(t) == {letter \in dead : letter.task = t}
Logged(kind, t) == {i \in DOMAIN events : events[i] = [kind |-> kind, task |-> t]}

\* No task is lost and none is held twice, whatever fails, expires, is retried
\* or shed: a task the queue took is one ticket, one flight, one dead letter or
\* one success (stage 4's complete, stage 5's sweep, stage 6's requeue).
OnePlace ==
    \A t \in Task :
        Cardinality(Logged("submitted", t)) =
            Cardinality(Waiting(t)) + Cardinality(Running(t))
            + Cardinality(Letters(t)) + Cardinality(Logged("succeeded", t))

\* The pool's two limits: never more flights than max_concurrency, and the
\* depth never passes the high water mark, a shed included (stages 4 and 7).
LimitsHeld ==
    /\ Cardinality(in_flight) <= pool.max_concurrency
    /\ depth <= pool.high_water

\* The answer a flight will be filed under is the answer of that very attempt,
\* though the table of answers is keyed by task and a swept flight leaves its
\* answer behind (stage 4's _answers, stage 5's sweep).
AnswersMatchFlights ==
    \A f \in in_flight :
        /\ answers[f.task] # None
        /\ f.finishes_at = f.started_at + answers[f.task].ticks

\* The clock never jumps past a landing or a lease it has not resolved
\* (stage 10's _next_time).
NeverOvershoots ==
    \A f \in in_flight :
        f.finishes_at >= now /\ (f.deadline_at = None \/ f.deadline_at >= now)

Lines(kinds) == {i \in DOMAIN events : events[i].kind \in kinds}
InFlightAfter(n) ==
    Cardinality({i \in Lines({"started"}) : i <= n})
    - Cardinality({i \in Lines({"succeeded", "failed", "died"}) : i <= n})

\* The record read off the log agrees with the tables: the flights it has not
\* seen land are the flights in the air, at no line were there more of them
\* than the pool allows, and what was submitted is done, given up or still in
\* the queue (stage 9's run_record and _peak_in_flight).
RecordAddsUp ==
    /\ InFlightAfter(Len(events)) = Cardinality(in_flight)
    /\ \A n \in DOMAIN events : InFlightAfter(n) <= pool.max_concurrency
    /\ Cardinality(Lines({"submitted"})) =
          depth + Cardinality(Lines({"succeeded", "dead_lettered"}))

\* An attempt that lands by its deadline is filed under its own answer and
\* never as a death, the tick of the deadline included (stage 10: completions
\* are resolved before leases are swept).
InTimeAnswersCount ==
    [][\A f \in in_flight \ in_flight' :
          f.deadline_at = None \/ f.finishes_at <= f.deadline_at
          => \E i \in DOMAIN events' \ DOMAIN events :
                events'[i] = [task |-> f.task,
                              kind |-> IF answers[f.task].status = "ok"
                                       THEN "succeeded"
                                       ELSE answers[f.task].status]]_vars

\* Retries keep a task's place: no task starts while a task of the same
\* priority that was offered before it is due (stages 3 and 6: the arrival
\* number survives a requeue).
ArrivalOrderSurvives ==
    [][\A f \in in_flight' \ in_flight : \A waiting \in due :
          waiting.task < f.task
          => tasks[waiting.task].priority # tasks[f.task].priority]_vars

\* Every run ends: each attempt spends budget, and every pass of the loop moves
\* the clock or stops (stage 10's _loop).
RunEnds == <>(at = "stopped")

\* A run that stops for want of progress holds nothing any more (stage 10: "if
\* it emptied because it gave up on work the stop is no_progress").
StopsOnlyWhenDrained == stopped = "no_progress" => depth = 0

-----------------------------------------------------------------------------
FateOf(t) ==
    IF t > offered THEN "offered"
    ELSE IF Waiting(t) # {} THEN "waiting"
    ELSE IF Running(t) # {} THEN "running"
    ELSE IF Letters(t) # {} THEN "dead"
    ELSE IF Logged("succeeded", t) # {} THEN "done"
    ELSE "refused"

Fates == INSTANCE TaskFate WITH
            fate <- [t \in Task |-> FateOf(t)],
            tries <- [t \in Task |-> Cardinality(Logged("started", t))],
            budget <- [t \in Task |-> tasks[t].attempts],
            limit <- pool.max_concurrency

\* Every run keeps TaskFate's promises, the attempt budget among them.
KeepsFates == Fates!Spec
=============================================================================
