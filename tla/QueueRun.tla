------------------------------ MODULE QueueRun ------------------------------
(***************************************************************************)
(* run and _loop of stage 10: every task is offered to the queue, then the *)
(* loop resolves, checks its bounds, dispatches, and moves the clock to    *)
(* the next tick that can change anything.  A worker is any function of a  *)
(* task and an attempt, so its answer is chosen when an attempt starts.    *)
(***************************************************************************)
EXTENDS WorkQueue

CONSTANTS
    Pools,      \* the pools a run may be given
    Lease,      \* the leases a run may be given, None included
    Bound       \* the max_ticks and max_steps a run may be given, None included

ASSUME RunAssumption ==
    /\ Pools \subseteq [max_concurrency : Nat \ {0}, high_water : Nat]
    /\ Lease \subseteq OptionalTick /\ Bound \subseteq OptionalTick

VARIABLES
    policy,     \* what admit does above the high water mark
    lease,      \* the lease stamped on each flight
    max_ticks,  \* the bound on the clock
    steps_left, \* max_steps less the iterations taken
    offered,    \* how many tasks have been offered so far
    at,         \* the part of the loop that runs next
    stopped     \* the reason the run stopped for

inputs == <<given, policy, lease, max_ticks>>
loop == <<offered, at, stopped, steps_left>>
vars == <<inputs, now, queue, loop>>

Phase == {"admit", "resolve", "bounds", "dispatch", "advance", "stopped"}
Stops == {"max_ticks", "max_steps", "no_progress", None}

Init ==
    /\ tasks \in [Task -> [priority : Priority, attempts : Attempts]]
    /\ pool \in Pools
    /\ policy \in {"refuse", "shed", "block"}
    /\ lease \in Lease
    /\ max_ticks \in Bound /\ steps_left \in Bound
    /\ now = 0 /\ sequence = 0
    /\ pending = {} /\ in_flight = {} /\ dead = {} /\ events = << >>
    /\ answers = [t \in Task |-> None]
    /\ offered = 0 /\ at = "admit" /\ stopped = None

At(here, there) == at = here /\ at' = there /\ UNCHANGED inputs

\* stage 7's admit for the next task under the run's policy; the loop of
\* admissions swallows the three refusals.
Admit ==
    /\ At("admit", "admit")
    /\ offered + 1 \in Task
    /\ offered' = offered + 1
    /\ LET t == offered + 1
       IN  \/ AdmitBelow(t)
           \/ policy = "refuse" /\ AdmitRefused(t)
           \/ policy = "block" /\ AdmitBlocked(t)
           \/ policy = "shed" /\ NothingToShed(t)
           \/ policy = "shed" /\ AdmitShed(t)
    /\ UNCHANGED <<now, stopped, steps_left>>

BeginLoop ==
    /\ At("admit", "resolve") /\ offered + 1 \notin Task
    /\ UNCHANGED <<now, queue, offered, stopped, steps_left>>

ResolveOutcomes ==
    /\ At("resolve", "bounds")
    /\ Resolve
    /\ UNCHANGED <<now, offered, stopped, steps_left>>

\* run_record writes the reason to the log when there is one.
Stop(from, reason) ==
    /\ At(from, "stopped")
    /\ stopped' = reason
    /\ events' = IF reason = None THEN events
                 ELSE events \o Line("stopped", None)
    /\ UNCHANGED <<now, sequence, pending, flights, dead, offered, steps_left>>

TicksSpent == max_ticks # None /\ now >= max_ticks
StepsSpent == steps_left # None /\ steps_left = 0

OutOfTicks == TicksSpent /\ Stop("bounds", "max_ticks")
OutOfSteps == ~TicksSpent /\ StepsSpent /\ Stop("bounds", "max_steps")

WithinBounds ==
    /\ At("bounds", "dispatch")
    /\ ~TicksSpent /\ ~StepsSpent
    /\ steps_left' = IF steps_left = None THEN None ELSE steps_left - 1
    /\ UNCHANGED <<now, queue, offered, stopped>>

Dispatch ==
    /\ At("dispatch", "dispatch")
    /\ start(lease)
    /\ UNCHANGED <<now, offered, stopped, steps_left>>

DispatchDone ==
    /\ At("dispatch", "advance")
    /\ free_slots = 0 \/ due = {}
    /\ UNCHANGED <<now, queue, offered, stopped, steps_left>>

\* The queue is empty: a clean drain, unless it gave up on something.
Drained ==
    /\ depth = 0
    /\ Stop("advance", IF dead = {} THEN None ELSE "no_progress")

DeadEnd_only_empty ==
    depth > 0 /\ next_times = {} /\ Stop("advance", "no_progress")
DeadEnd ==
    /\ depth > 0
    /\ next_times = {} \/ \E tick \in next_times : tick <= now
    /\ Stop("advance", "no_progress")

Advance ==
    /\ At("advance", "resolve")
    /\ depth > 0
    /\ \E tick \in next_times : Soonest(tick) /\ tick > now /\ now' = tick
    /\ UNCHANGED <<queue, offered, stopped, steps_left>>

Next ==
    \/ Admit
    \/ BeginLoop
    \/ ResolveOutcomes
    \/ OutOfTicks
    \/ OutOfSteps
    \/ WithinBounds
    \/ Dispatch
    \/ DispatchDone
    \/ Drained
    \/ DeadEnd
    \/ Advance

\* The loop is one thread of plain code, so it always takes its next step.
Spec == Init /\ [][Next]_vars /\ WF_vars(Next)
=============================================================================
