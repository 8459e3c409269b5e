----------------------------- MODULE DurableRun -----------------------------
(***************************************************************************)
(* The durable-execution course's run, stage_10.py with the stages it      *)
(* calls, over the disk of disk.py and the world of work.py.               *)
(*                                                                         *)
(* The disk is the journal's lines and how many of them a sync has made    *)
(* durable.  A process can die anywhere; what it did since its last sync   *)
(* or its last effect is lost either way, so one action reaches from one   *)
(* sync or effect to the next.  A checkpoint is kept only as the sync it   *)
(* is: run reads it back for its run and plan and for nothing else.  The   *)
(* run id and the plan are one and the same in every call.                 *)
(***************************************************************************)
EXTENDS Journal

CONSTANTS
    Labels,    \* the workers' labels
    Answer,    \* a label's answers by attempt; the last repeats for ever
    Workers,   \* the owners and the length of their leases, handed out in turn
    Limits,    \* the caps a run may have
    Every,     \* how often a run may checkpoint; 0 is never
    Calls      \* how often run is called over one disk

Outcome == [status : {"ok", "failed", "died"}, cost : Nat]

(* A lease of one tick is left out: its first heartbeat raises.            *)
ASSUME RunAssumption ==
    /\ Answer \in [Labels -> Seq(Outcome) \ {<<>>}]
    /\ Workers \in Seq([owner : STRING, ticks : Nat \ {0, 1}]) \ {<<>>}
    /\ Limits \subseteq Nat \ {0} /\ Every \subseteq Nat
    /\ Calls \in Nat

VARIABLES
    \* the disk and the world
    lines, synced, applied, now,
    \* the process
    mode, in_flight, ready, gone, beating, settling, step,
    \* how run is called, and how often it still is
    label, limit, every, calls

disk == <<lines, synced>>
process == <<in_flight, ready, gone, beating, settling, step>>
settings == <<label, limit, every>>
vars == <<disk, applied, now, mode, process, settings, calls>>

durable == SubSeq(lines, 1, synced)

write(new) == lines' = lines \o new /\ UNCHANGED synced
commit(new) == lines' = lines \o new /\ synced' = Len(lines')

answer(job, attempt) ==
    LET answers == Answer[label[job]]
    IN answers[Min({attempt, Len(answers)})]

Finished(job) == state_of(lines, job) \in {"done", "failed"}

Idle ==
    /\ in_flight = << >> /\ ready = {} /\ gone = {}
    /\ beating = {} /\ settling = {} /\ step = "intent"

Init ==
    /\ lines = <<>> /\ synced = 0
    /\ applied = [j \in Job |-> 0]
    /\ now = 0 /\ mode = "off" /\ Idle
    /\ label \in [Job -> Labels] /\ limit \in Limits /\ every \in Every
    /\ calls = Calls

-----------------------------------------------------------------------------
(* A call: run begins, or it resumes what a crash left.                    *)

(* The caller hands the clock on, or the call starts a fresh one.          *)
Call ==
    /\ mode \in {"off", "done"}
    /\ calls > 0
    /\ calls' = calls - 1
    /\ now' \in {now, 0}
    /\ IF count(lines, "start") = 0
       THEN /\ commit(<<RunLine("start", now')>>)
            /\ ready' = Job
            /\ mode' = "filling"
       ELSE /\ mode' = "recovering"
            /\ UNCHANGED <<disk, ready>>
    /\ UNCHANGED <<applied, in_flight, gone, beating, settling, step, settings>>

(* stage_06.crash: the expire line of every owner that is dead by now, in  *)
(* id order, and one sync behind the last.                                 *)
Expire ==
    /\ mode = "recovering"
    /\ \E job \in Job :
          /\ IsFirst(job, Owed(lines, now))
          /\ LET owner == lines[newest(lines, job, {"claim"})].owner
                 new == <<ExpireLine(now, job, owner)>>
             IN IF Owed(lines, now) = {job} THEN commit(new) ELSE write(new)
    /\ UNCHANGED <<applied, now, mode, process, settings, calls>>

Running == {j \in Job : fold(lines, j, now) = "running"}

(* A bug: the clock stops at the last deadline, short of the grace.        *)
Wait_short ==
    /\ mode = "recovering"
    /\ Owed(lines, now) = {}
    /\ \/ now < top(lines) /\ now' = top(lines)
       \/ /\ now >= top(lines) /\ Running # {}
          /\ now' = Max({Deadline(lines, leases(lines)[j]) : j \in Running})
    /\ UNCHANGED <<disk, applied, mode, process, settings, calls>>

(* The clock goes to the tick the log stopped at, and then to the first    *)
(* tick at which every lease that still stands is dead.                    *)
Wait ==
    /\ mode = "recovering"
    /\ Owed(lines, now) = {}
    /\ \/ now < top(lines) /\ now' = top(lines)
       \/ /\ now >= top(lines) /\ Running # {}
          /\ now' = Max({Deadline(lines, leases(lines)[j]) + MAX_MISSES : j \in Running})
    /\ UNCHANGED <<disk, applied, mode, process, settings, calls>>

Recovered ==
    /\ mode = "recovering"
    /\ Owed(lines, now) = {} /\ now >= top(lines) /\ Running = {}
    /\ mode' = "filling"
    /\ gone' = reclaimable(lines, now)
    /\ ready' = {j \in Job : ~Finished(j)}
    /\ UNCHANGED <<disk, applied, now, in_flight, beating, settling, step, settings, calls>>

-----------------------------------------------------------------------------
(* The claims.                                                             *)

owner_at(claims) == Workers[(claims % Len(Workers)) + 1]

(* A bug: the cap lets one more job in.                                    *)
Free_past == Cardinality(DOMAIN in_flight) <= limit /\ ready # {}

Free == Cardinality(DOMAIN in_flight) < limit /\ ready # {}

(* stage_04.claim refuses to claim over the newest claim's live lease.     *)
Steals(job) ==
    LET i == newest(lines, job, {"claim"})
    IN i > 0 /\ ~expired(lines, i, now)

StartOne ==
    /\ mode = "filling" /\ Free
    /\ \E job \in Job :
          /\ IsFirst(job, ready)
          /\ LET spec == owner_at(count(lines, "claim"))
                 attempt == 1 + Cardinality(Of(lines, job, {"claim"}))
                 retry == JobLine("retry", now, job)
                 claim == LeaseLine("claim", now, job, spec.owner, spec.ticks)
                 entry == [owner |-> spec.owner, ticks |-> spec.ticks,
                           deadline |-> now + spec.ticks,
                           status |-> answer(job, attempt).status,
                           remaining |-> answer(job, attempt).cost]
             IN IF Steals(job)
                THEN mode' = "raised" /\ UNCHANGED <<disk, in_flight, ready, gone>>
                ELSE /\ write(IF job \in gone THEN <<retry, claim>> ELSE <<claim>>)
                     /\ in_flight' = [j \in DOMAIN in_flight \cup {job} |->
                                        IF j = job THEN entry ELSE in_flight[j]]
                     /\ ready' = ready \ {job}
                     /\ gone' = gone \ {job}
                     /\ UNCHANGED mode
    /\ UNCHANGED <<applied, now, beating, settling, step, settings, calls>>

-----------------------------------------------------------------------------
(* The loop.                                                               *)

Tick ==
    /\ mode = "filling" /\ ~Free /\ DOMAIN in_flight # {}
    /\ now' = now + 1
    /\ mode' = "beating"
    /\ beating' = DOMAIN in_flight
    /\ UNCHANGED <<disk, applied, in_flight, ready, gone, settling, step, settings, calls>>

(* stage_05.heartbeat refuses a lease that ran out.                        *)
Beat ==
    /\ mode = "beating"
    /\ \E job \in Job :
          /\ IsFirst(job, beating)
          /\ LET held == in_flight[job]
             IN IF now >= held.deadline
                THEN mode' = "raised" /\ UNCHANGED <<disk, in_flight, beating>>
                ELSE /\ write(<<LeaseLine("beat", now, job, held.owner, held.ticks)>>)
                     /\ in_flight' = [in_flight EXCEPT ![job].deadline = now + held.ticks]
                     /\ beating' = beating \ {job}
                     /\ UNCHANGED mode
    /\ UNCHANGED <<applied, now, ready, gone, settling, step, settings, calls>>

(* The work of the tick: what is left of an attempt, and who has ended.    *)
Work ==
    /\ mode = "beating" /\ beating = {}
    /\ mode' = "settling"
    /\ in_flight' = [j \in DOMAIN in_flight |->
                       [in_flight[j] EXCEPT !.remaining = IF @ > 0 THEN @ - 1 ELSE 0]]
    /\ settling' = {j \in DOMAIN in_flight : in_flight[j].remaining <= 1}
    /\ UNCHANGED <<disk, applied, now, ready, gone, beating, step, settings, calls>>

(* _settle_effect: an effect the log proves needs nothing, and any other   *)
(* is announced, with a sync, before the world is asked.                   *)
Intent ==
    /\ mode = "settling" /\ step = "intent"
    /\ \E job \in Job :
          /\ IsFirst(job, settling)
          /\ IF proven(lines, job)
             THEN step' = "report" /\ UNCHANGED disk
             ELSE step' = "apply" /\ commit(<<JobLine("intent", INTENT_TICK, job)>>)
    /\ UNCHANGED <<applied, now, mode, in_flight, ready, gone, beating, settling,
                   settings, calls>>

(* A bug: the effect is applied without asking the world.                  *)
Apply_unasked ==
    /\ mode = "settling" /\ step = "apply"
    /\ \E job \in Job :
          /\ IsFirst(job, settling)
          /\ applied' = [applied EXCEPT ![job] = @ + 1]
    /\ step' = "report"
    /\ UNCHANGED <<disk, now, mode, in_flight, ready, gone, beating, settling,
                   settings, calls>>

(* stage_07.settle asks the world.                                         *)
Apply ==
    /\ mode = "settling" /\ step = "apply"
    /\ \E job \in Job :
          /\ IsFirst(job, settling)
          /\ applied' = [applied EXCEPT ![job] = IF @ >= 1 THEN @ ELSE @ + 1]
    /\ step' = "report"
    /\ UNCHANGED <<disk, now, mode, in_flight, ready, gone, beating, settling,
                   settings, calls>>

(* The effect line, unless the log has it, the result, and the checkpoint  *)
(* that every so many results are due.                                     *)
Report ==
    /\ mode = "settling" /\ step = "report"
    /\ \E job \in Job :
          /\ IsFirst(job, settling)
          /\ LET effect == JobLine("effect", now, job)
                 result == ResultLine(now, job, in_flight[job].owner,
                                      in_flight[job].status)
                 finished == 1 + Cardinality({j \in Job : Finished(j)})
                 new == IF proven(lines, job) THEN <<result>> ELSE <<effect, result>>
             IN IF every # 0 /\ finished % every = 0 THEN commit(new) ELSE write(new)
          /\ in_flight' = [j \in DOMAIN in_flight \ {job} |-> in_flight[j]]
          /\ settling' = settling \ {job}
    /\ step' = "intent"
    /\ UNCHANGED <<applied, now, mode, ready, gone, beating, settings, calls>>

Settled ==
    /\ mode = "settling" /\ settling = {}
    /\ mode' = "filling"
    /\ UNCHANGED <<disk, applied, now, process, settings, calls>>

Done ==
    /\ mode = "filling" /\ ready = {} /\ DOMAIN in_flight = {}
    /\ commit(<<RunLine("done", now)>>)
    /\ mode' = "done"
    /\ UNCHANGED <<applied, now, process, settings, calls>>

(* The process dies, and with it every line it did not sync.  A caller     *)
(* that lets it die calls again.                                           *)
Crash ==
    /\ mode \notin {"off", "done", "raised"}
    /\ calls > 0
    /\ mode' = "off"
    /\ lines' = durable
    /\ in_flight' = << >> /\ ready' = {} /\ gone' = {}
    /\ beating' = {} /\ settling' = {} /\ step' = "intent"
    /\ UNCHANGED <<synced, applied, now, settings, calls>>

-----------------------------------------------------------------------------
Next ==
    \/ Call \/ Expire \/ Wait \/ Recovered
    \/ StartOne \/ Tick \/ Beat \/ Work \/ Intent \/ Apply \/ Report \/ Settled \/ Done
    \/ Crash

(* The run is one process, and its caller does call again.                 *)
Spec == Init /\ [][Next]_vars /\ WF_vars(Next)
=============================================================================
