------------------------------- MODULE Journal -------------------------------
(***************************************************************************)
(* The durable-execution course's journal as a sequence of lines, and the  *)
(* four readers the code has of it: stage_03.state_of, stage_05.recover,   *)
(* stage_06._fold and stage_10._leases.  Each is one pass over the lines   *)
(* in which the newest line that decides about a job wins, so each is read *)
(* here off the newest such line.  A job no line names reads as pending,   *)
(* which is what the callers' states.get(job, "pending") gives it.         *)
(***************************************************************************)
EXTENDS Naturals, Sequences, SequencesExt, FiniteSetsExt

CONSTANT Jobs    \* the plan's ids, sorted

Job == Range(Jobs)

ASSUME PlanAssumption == Jobs \in Seq(Job) /\ Jobs # <<>> /\ IsInjective(Jobs)

(* The next of some jobs in id order, which is how every loop takes them.  *)
IsFirst(job, ids) ==
    /\ job \in ids
    /\ \E i \in DOMAIN Jobs :
          Jobs[i] = job /\ \A k \in 1..(i - 1) : Jobs[k] \notin ids

MAX_MISSES == 2
INTENT_TICK == 0

RunLine(kind, tick) == [kind |-> kind, tick |-> tick]
JobLine(kind, tick, job) == [kind |-> kind, tick |-> tick, job |-> job]
LeaseLine(kind, tick, job, owner, ticks) ==
    [kind |-> kind, tick |-> tick, job |-> job, owner |-> owner, ticks |-> ticks]
ExpireLine(tick, job, owner) ==
    [kind |-> "expire", tick |-> tick, job |-> job, owner |-> owner]
ResultLine(tick, job, owner, status) ==
    [kind |-> "result", tick |-> tick, job |-> job, owner |-> owner, status |-> status]

Of(lines, job, kinds) ==
    {i \in DOMAIN lines : lines[i].kind \in kinds /\ lines[i].job = job}

newest(lines, job, kinds) == Max({0} \cup Of(lines, job, kinds))

top(lines) == Max({0} \cup {lines[i].tick : i \in DOMAIN lines})

count(lines, kind) == Cardinality({i \in DOMAIN lines : lines[i].kind = kind})

proven(lines, job) == Of(lines, job, {"effect"}) # {}

finished_as(line) == IF line.status = "ok" THEN "done" ELSE "failed"

-----------------------------------------------------------------------------
(* Leases.                                                                 *)

(* The deadline of the lease that line i claims: its newest beat's, or its *)
(* own.  Only the holder's beats count.                                    *)
Deadline(lines, i) ==
    LET beats == {k \in Of(lines, lines[i].job, {"beat"}) :
                    k > i /\ lines[k].owner = lines[i].owner}
        k == Max({i} \cup beats)
    IN lines[k].tick + lines[k].ticks

(* A bug: a lease is dead as soon as its deadline passes.                  *)
dead_at_once(deadline, now) == now >= deadline

(* Stages 5 and 6: a deadline that passed, and the grace of MAX_MISSES.    *)
dead(deadline, now) == now >= deadline + MAX_MISSES

(* Stage 4 reads a lease off the claim alone.                              *)
expired(lines, i, now) == lines[i].tick + lines[i].ticks <= now

(* stage_10._leases: the jobs whose newest claim no result and no retry    *)
(* answered, each with the line that claims it.                            *)
leases(lines) ==
    LET claim(j) == newest(lines, j, {"claim"})
        standing == {j \in Job : claim(j) > newest(lines, j, {"result", "retry"})}
    IN [j \in standing |-> claim(j)]

-----------------------------------------------------------------------------
(* The states a log decides.                                               *)

ExpiredBy(lines, i) ==
    \E k \in Of(lines, lines[i].job, {"expire"}) :
        k > i /\ lines[k].owner = lines[i].owner

(* stage_03.state_of has no clock: a dead lease still runs.                *)
state_of(lines, job) ==
    LET i == newest(lines, job, {"claim", "result", "retry"})
    IN IF i = 0 THEN "pending"
       ELSE CASE lines[i].kind = "retry" -> "pending"
              [] lines[i].kind = "result" -> finished_as(lines[i])
              [] lines[i].kind = "claim" ->
                     IF ExpiredBy(lines, i) THEN "expired" ELSE "running"

(* stage_06._fold: the same, but a lease that runs may be dead by now.     *)
Dies(lines, job, now) ==
    /\ state_of(lines, job) = "running"
    /\ dead(Deadline(lines, newest(lines, job, {"claim"})), now)
fold(lines, job, now) ==
    IF Dies(lines, job, now) THEN "expired" ELSE state_of(lines, job)

(* A bug: recover judges a lease by its claim and forgets the beats.       *)
recover_beatless(lines, job, now) ==
    LET i == newest(lines, job, {"claim"})
        standing == state_of(lines, job)
    IN IF standing = "running" /\ dead(lines[i].tick + lines[i].ticks, now)
       THEN "expired" ELSE standing

(* stage_05.recover believes any expire line of a job no result finished.  *)
recover(lines, job, now) ==
    LET decided == newest(lines, job, {"claim", "result", "retry"})
        i == newest(lines, job, {"claim", "result", "retry", "expire"})
    IN IF i = 0 THEN "pending"
       ELSE IF decided > 0 /\ lines[decided].kind = "result"
       THEN finished_as(lines[decided])
       ELSE CASE lines[i].kind = "retry" -> "pending"
              [] lines[i].kind = "expire" -> "expired"
              [] lines[i].kind = "claim" ->
                     IF dead(Deadline(lines, i), now) THEN "expired" ELSE "running"

reclaimable(lines, now) == {j \in Job : recover(lines, j, now) = "expired"}

(* The dead owners that stage_06.crash owes an expire line.                *)
Owed(lines, now) == {j \in Job : Dies(lines, j, now)}
=============================================================================
