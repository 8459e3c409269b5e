------------------------------ MODULE TaskFate ------------------------------
(***************************************************************************)
(* What a run of the work queue promises about the tasks it is offered:    *)
(* each is turned away, or waits, runs and ends once, as done or as a dead *)
(* letter; no more of them run at once than the pool allows; none is tried *)
(* again once its budget is spent, and none is given up before that unless *)
(* a newcomer takes its place.                                             *)
(***************************************************************************)
EXTENDS Integers, FiniteSets

CONSTANT Task

VARIABLES
    fate,       \* where each task is
    tries,      \* how many attempts each task has cost
    budget,     \* how many attempts each task may cost
    limit       \* how many tasks may run at once

vars == <<fate, tries, budget, limit>>
Fate == {"offered", "refused", "waiting", "running", "done", "dead"}
In(f) == {t \in Task : fate[t] = f}

Init ==
    /\ fate = [t \in Task |-> "offered"]
    /\ tries = [t \in Task |-> 0]
    /\ budget \in [Task -> Nat]
    /\ limit \in Nat \ {0}

Move(S, f) == fate' = [t \in Task |-> IF t \in S THEN f ELSE fate[t]]

Refuse(t) == t \in In("offered") /\ Move({t}, "refused") /\ UNCHANGED tries
Accept(t) == t \in In("offered") /\ Move({t}, "waiting") /\ UNCHANGED tries

\* A newcomer takes the place of a waiting task, which is given up untried.
Displace(t, victim) ==
    /\ t \in In("offered") /\ victim \in In("waiting")
    /\ fate' = [fate EXCEPT ![t] = "waiting", ![victim] = "dead"]
    /\ UNCHANGED tries

Run(t) ==
    /\ t \in In("waiting") /\ Cardinality(In("running")) < limit
    /\ Move({t}, "running")
    /\ tries' = [tries EXCEPT ![t] = @ + 1]

\* Some running tasks end: the ones that did not succeed wait again exactly
\* while they have attempts left.
Settle(S, succeeded) ==
    /\ S # {} /\ S \subseteq In("running") /\ succeeded \subseteq S
    /\ fate' = [t \in Task |->
          IF t \notin S THEN fate[t]
          ELSE IF t \in succeeded THEN "done"
          ELSE IF tries[t] < budget[t] THEN "waiting" ELSE "dead"]
    /\ UNCHANGED tries

Step(t) ==
    \/ Refuse(t)
    \/ Accept(t)
    \/ \E victim \in Task : Displace(t, victim)
    \/ Run(t)

Next ==
    /\ \/ \E t \in Task : Step(t)
       \/ \E S \in SUBSET Task : \E succeeded \in SUBSET S : Settle(S, succeeded)
    /\ UNCHANGED <<budget, limit>>

Spec == Init /\ [][Next]_vars
=============================================================================
