-------------------------- MODULE DurableProperties --------------------------
EXTENDS DurableRun

Owner == {Workers[i].owner : i \in DOMAIN Workers}

Line ==
    [kind : {"start", "done"}, tick : Nat]
        \cup [kind : {"retry", "intent", "effect"}, tick : Nat, job : Job]
        \cup [kind : {"claim", "beat"}, tick : Nat, job : Job, owner : Owner, ticks : Nat]
        \cup [kind : {"expire"}, tick : Nat, job : Job, owner : Owner]
        \cup [kind : {"result"}, tick : Nat, job : Job, owner : Owner,
              status : {"ok", "failed", "died"}]

Entry == [owner : Owner, ticks : Nat, deadline : Nat, remaining : Nat,
          status : {"ok", "failed", "died"}]

(* Every variable keeps its shape; the jobs in the air are no more than    *)
(* the cap, and those about to settle are among them.                      *)
TypeOK ==
    /\ lines \in Seq(Line) /\ synced \in 0..Len(lines)
    /\ applied \in [Job -> Nat] /\ now \in Nat
    /\ mode \in {"off", "recovering", "filling", "beating", "settling", "done", "raised"}
    /\ DOMAIN in_flight \subseteq Job
    /\ \A j \in DOMAIN in_flight : in_flight[j] \in Entry
    /\ Cardinality(DOMAIN in_flight) <= limit
    /\ ready \subseteq Job /\ gone \subseteq Job
    /\ beating \subseteq DOMAIN in_flight /\ settling \subseteq DOMAIN in_flight
    /\ step \in {"intent", "apply", "report"}

(* However often the run dies and resumes, the world holds at most one     *)
(* application of a job's effect, a durable intent went before it, and a   *)
(* result is only written of a job whose effect the world and an earlier   *)
(* line have.                                                              *)
EffectsOnce ==
    \A j \in Job :
        /\ applied[j] <= 1
        /\ applied[j] = 1 => Of(durable, j, {"intent"}) # {}
        /\ Cardinality(Of(lines, j, {"effect"})) <= 1
        /\ \A i \in Of(lines, j, {"result"}) :
              applied[j] = 1 /\ \E k \in Of(lines, j, {"effect"}) : k < i

(* A job is claimed again only when no result finished it, and an expire   *)
(* line of the owner before stands between, at a tick past that owner's    *)
(* last promise by the whole grace.                                        *)
ClaimsInTurn ==
    \A j \in Job : \A k \in Of(lines, j, {"claim"}) :
        /\ \A i \in Of(lines, j, {"result"}) : i > k
        /\ LET before == {i \in Of(lines, j, {"claim"}) : i < k}
           IN before # {} =>
                \E m \in Of(lines, j, {"expire"}) :
                    /\ Max(before) < m /\ m < k
                    /\ lines[m].owner = lines[Max(before)].owner
                    /\ lines[m].tick >= Deadline(SubSeq(lines, 1, m), Max(before)) + MAX_MISSES

(* The readers of the log agree on what a process that wakes up must       *)
(* believe: stage 5's recover and stage 6's fold at every tick, and stage  *)
(* 10's leases on who still holds what.                                    *)
FoldsAgree ==
    /\ \A j \in Job : recover(durable, j, now) = fold(durable, j, now)
    /\ \A j \in Job : fold(durable, j, now) = "running" => j \in DOMAIN leases(durable)

(* Every call of run that is not killed for ever ends: no lease is waited  *)
(* for in vain, no job is left over and nothing the run writes is refused. *)
RunFinishes == []<>(mode = "done")
-----------------------------------------------------------------------------
(* What the course says of a resume and the code does not keep: the states *)
(* of a finished run are those of a run nobody killed, whose every attempt *)
(* is the first.                                                           *)
UntouchedStates ==
    mode = "done" => \A j \in Job :
        state_of(lines, j) = finished_as([status |-> answer(j, 1).status])
=============================================================================
