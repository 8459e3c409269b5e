---------------------------- MODULE DurableProofs ----------------------------
(***************************************************************************)
(* For any plan, workers, cap and checkpoints, and however often the run   *)
(* is killed and called again.                                             *)
(*                                                                         *)
(* Inv is about effects: one lands once, and only behind an intent that no *)
(* crash can lose.  LogInv is about leases: the log keeps a grammar, every *)
(* claim and retry of a job nobody holds and every expire line the answer  *)
(* to one claim.  The grammar is a fact about every prefix of the log, so  *)
(* a crash, which leaves a prefix, keeps it, and so does every line that   *)
(* is no claim, retry or expire; and it is what the readers need to agree. *)
(***************************************************************************)
EXTENDS DurableProperties, Counting, SequenceTheorems

-----------------------------------------------------------------------------
(* The inductive invariant.                                                *)

IsLine(s, i, kind, j) == s[i].kind = kind /\ s[i].job = j

DiskShape ==
    /\ lines \in Seq(Range(lines))
    /\ synced \in 0..Len(lines)
    /\ applied \in [Job -> {0, 1}]

\* What the world has was announced by a line that is durable.
Announced ==
    \A j \in Job : applied[j] = 1 => \E i \in 1..synced : IsLine(lines, i, "intent", j)

\* An effect line is the only one of its job, and the world has the effect.
Landed ==
    \A j \in Job : \A i \in 1..Len(lines) : IsLine(lines, i, "effect", j) =>
        /\ applied[j] = 1
        /\ \A k \in 1..Len(lines) : IsLine(lines, k, "effect", j) => k = i

\* A result comes after the effect line of its job.
Reported ==
    \A j \in Job : \A i \in 1..Len(lines) : IsLine(lines, i, "result", j) =>
        \E k \in 1..(i - 1) : IsLine(lines, k, "effect", j)

\* Where the settlement of a job stands, and what that says of the job.
Settling ==
    /\ step # "intent" => mode = "settling" /\ settling # {}
    /\ \A j \in Job : IsFirst(j, settling) =>
          /\ step = "apply" => \E i \in 1..synced : IsLine(lines, i, "intent", j)
          /\ step = "report" => applied[j] = 1

Inv == DiskShape /\ Announced /\ Landed /\ Reported /\ Settling

-----------------------------------------------------------------------------
(* Facts about the operators.                                              *)

\* The job that comes first is one.
LEMMA FirstIsOne ==
    ASSUME NEW S, NEW a, NEW b, IsFirst(a, S), IsFirst(b, S)
    PROVE  a = b
<1>1. PICK i \in DOMAIN Jobs : Jobs[i] = a /\ \A k \in 1..(i - 1) : Jobs[k] \notin S
  BY DEF IsFirst
<1>2. PICK l \in DOMAIN Jobs : Jobs[l] = b /\ \A k \in 1..(l - 1) : Jobs[k] \notin S
  BY DEF IsFirst
<1>3. a \in S /\ b \in S
  BY DEF IsFirst
<1>4. i \in 1..Len(Jobs) /\ l \in 1..Len(Jobs) /\ Len(Jobs) \in Nat
  BY PlanAssumption
<1>5. ~(i < l) /\ ~(l < i)
  BY <1>1, <1>2, <1>3, <1>4
<1> QED BY <1>1, <1>2, <1>4, <1>5

\* A sequence is a sequence of what it holds.
LEMMA OfItsRange ==
    ASSUME NEW S, NEW s \in Seq(S)
    PROVE  s \in Seq(Range(s))
BY DEF Range

\* One line and two lines, as a write adds them.
LEMMA OneLine ==
    ASSUME NEW r
    PROVE  <<r>> \in Seq({r}) /\ Len(<<r>>) = 1 /\ <<r>>[1] = r
OBVIOUS

LEMMA TwoLines ==
    ASSUME NEW e, NEW r
    PROVE  /\ <<e, r>> \in Seq({e, r}) /\ Len(<<e, r>>) = 2
           /\ <<e, r>>[1] = e /\ <<e, r>>[2] = r
OBVIOUS

\* What lines added at the end change: nothing of the lines before them.
LEMMA Added ==
    ASSUME DiskShape, NEW T, NEW new \in Seq(T), lines' = lines \o new
    PROVE  /\ lines' \in Seq(Range(lines'))
           /\ Len(lines') = Len(lines) + Len(new)
           /\ \A i \in 1..Len(lines) : lines'[i] = lines[i]
           /\ \A i \in (Len(lines) + 1)..Len(lines') : lines'[i] = new[i - Len(lines)]
<1>1. lines \in Seq(Range(lines) \cup T) /\ new \in Seq(Range(lines) \cup T)
  BY DEF DiskShape
<1> HIDE DEF DiskShape
<1>2. /\ lines' \in Seq(Range(lines) \cup T)
      /\ Len(lines') = Len(lines) + Len(new)
      /\ \A i \in 1..Len(lines) + Len(new) :
            lines'[i] = IF i <= Len(lines) THEN lines[i] ELSE new[i - Len(lines)]
  BY <1>1, ConcatProperties
<1>3. lines' \in Seq(Range(lines'))
  BY <1>2, OfItsRange
<1>4. Len(lines) \in Nat /\ Len(new) \in Nat
  BY <1>1
<1> QED BY <1>2, <1>3, <1>4

\* Lines that are neither effects nor results.
Quiet(new) == \A i \in 1..Len(new) : new[i].kind \notin {"effect", "result"}

\* Quiet lines keep what the log says, and no sync takes anything back.
LEMMA QuietLines ==
    ASSUME Inv, NEW T, NEW new \in Seq(T), Quiet(new),
           lines' = lines \o new, UNCHANGED applied,
           synced' \in synced..Len(lines')
    PROVE  DiskShape' /\ Announced' /\ Landed' /\ Reported'
<1> USE DEF Inv
<1>1. /\ lines' \in Seq(Range(lines'))
      /\ Len(lines') = Len(lines) + Len(new)
      /\ \A i \in 1..Len(lines) : lines'[i] = lines[i]
      /\ \A i \in (Len(lines) + 1)..Len(lines') : lines'[i] = new[i - Len(lines)]
  BY Added
<1>2. Len(lines) \in Nat /\ Len(new) \in Nat /\ synced \in 0..Len(lines)
  BY DEF DiskShape
<1>3. DiskShape'
  BY <1>1, <1>2 DEF DiskShape
<1>4. Announced'
  <2> SUFFICES ASSUME NEW j \in Job, applied'[j] = 1
               PROVE  \E i \in 1..synced' : IsLine(lines', i, "intent", j)
    BY DEF Announced
  <2>1. PICK i \in 1..synced : IsLine(lines, i, "intent", j)
    BY DEF Announced
  <2>2. i \in 1..Len(lines) /\ i \in 1..synced'
    BY <1>1, <1>2
  <2>3. lines'[i] = lines[i]
    BY <1>1, <2>2
  <2> QED BY <2>1, <2>2, <2>3 DEF IsLine
<1>5. \A i \in 1..Len(lines') : lines'[i].kind \in {"effect", "result"} =>
          i \in 1..Len(lines)
  <2> SUFFICES ASSUME NEW i \in 1..Len(lines'), i \notin 1..Len(lines)
               PROVE  lines'[i].kind \notin {"effect", "result"}
    OBVIOUS
  <2>1. i \in (Len(lines) + 1)..Len(lines') /\ i - Len(lines) \in 1..Len(new)
    BY <1>1, <1>2
  <2> QED BY <2>1, <1>1 DEF Quiet
<1>6. Landed'
  BY <1>1, <1>2, <1>5 DEF Landed, IsLine
<1>7. Reported'
  <2> SUFFICES ASSUME NEW j \in Job, NEW i \in 1..Len(lines'), IsLine(lines', i, "result", j)
               PROVE  \E k \in 1..(i - 1) : IsLine(lines', k, "effect", j)
    BY DEF Reported, IsLine
  <2>1. i \in 1..Len(lines) /\ IsLine(lines, i, "result", j)
    BY <1>1, <1>5 DEF IsLine
  <2>2. PICK k \in 1..(i - 1) : IsLine(lines, k, "effect", j)
    BY <2>1 DEF Reported
  <2>3. k \in 1..Len(lines)
    BY <1>2, <2>1
  <2> QED BY <1>1, <2>2, <2>3 DEF IsLine
<1> QED BY <1>3, <1>4, <1>6, <1>7

\* The same of an action that writes or commits them outside a settlement.
LEMMA QuietAction ==
    ASSUME Inv, NEW T, NEW new \in Seq(T), Quiet(new),
           write(new) \/ commit(new),
           UNCHANGED <<applied, settling, step>>, step = "intent"
    PROVE  Inv'
<1>1. lines' = lines \o new /\ Len(lines') = Len(lines) + Len(new)
  BY Added DEF write, commit, Inv
<1>2. synced' \in synced..Len(lines')
  BY <1>1 DEF write, commit, Inv, DiskShape
<1>3. DiskShape' /\ Announced' /\ Landed' /\ Reported'
  BY <1>1, <1>2, QuietLines
<1>4. Settling'
  BY DEF Settling
<1> QED BY <1>3, <1>4 DEF Inv

\* An action that leaves the disk, the world and the settlement alone.
LEMMA Elsewhere ==
    ASSUME Inv, UNCHANGED <<disk, applied, step>>, step = "intent"
    PROVE  Inv'
BY DEF Inv, DiskShape, Announced, Landed, Reported, Settling, disk, IsLine

-----------------------------------------------------------------------------
(* Each action in turn.                                                    *)

LEMMA InitInv == Init => Inv
BY DEF Init, Idle, Inv, DiskShape, Announced, Landed, Reported, Settling, Range, IsLine

LEMMA OutsideSettling == ASSUME Inv, mode # "settling" PROVE step = "intent"
BY DEF Inv, Settling

LEMMA CallInv == ASSUME Inv, Call PROVE Inv'
<1>1. step = "intent"
  BY OutsideSettling DEF Call
<1>2. CASE count(lines, "start") = 0
  <2> DEFINE new == <<RunLine("start", now')>>
  <2>1. new \in Seq({RunLine("start", now')}) /\ Quiet(new)
    BY DEF Quiet, RunLine
  <2>2. commit(new) /\ UNCHANGED <<applied, settling, step>>
    BY <1>2 DEF Call
  <2> QED BY <1>1, <2>1, <2>2, QuietAction
<1>3. CASE count(lines, "start") # 0
  BY <1>1, <1>3, Elsewhere DEF Call
<1> QED BY <1>2, <1>3

LEMMA ExpireInv == ASSUME Inv, Expire PROVE Inv'
<1>1. step = "intent"
  BY OutsideSettling DEF Expire
<1>2. PICK job \in Job :
        LET owner == lines[newest(lines, job, {"claim"})].owner
            new == <<ExpireLine(now, job, owner)>>
        IN IF Owed(lines, now) = {job} THEN commit(new) ELSE write(new)
  BY DEF Expire
<1> DEFINE line == ExpireLine(now, job, lines[newest(lines, job, {"claim"})].owner)
           new == <<line>>
<1>3. new \in Seq({line}) /\ Quiet(new)
  BY DEF Quiet, ExpireLine
<1>4. write(new) \/ commit(new)
  BY <1>2
<1>5. UNCHANGED <<applied, settling, step>>
  BY DEF Expire, process
<1> HIDE DEF new
<1> QED BY <1>1, <1>3, <1>4, <1>5, QuietAction

LEMMA StartOneInv == ASSUME Inv, StartOne PROVE Inv'
<1>1. step = "intent"
  BY OutsideSettling DEF StartOne
<1>2. UNCHANGED <<applied, settling, step>>
  BY DEF StartOne
<1>3. PICK job \in Job :
        LET spec == owner_at(count(lines, "claim"))
            retry == JobLine("retry", now, job)
            claim == LeaseLine("claim", now, job, spec.owner, spec.ticks)
        IN \/ UNCHANGED disk
           \/ write(IF job \in gone THEN <<retry, claim>> ELSE <<claim>>)
  BY DEF StartOne
<1> DEFINE spec == owner_at(count(lines, "claim"))
           retry == JobLine("retry", now, job)
           claim == LeaseLine("claim", now, job, spec.owner, spec.ticks)
           new == IF job \in gone THEN <<retry, claim>> ELSE <<claim>>
<1>4. CASE UNCHANGED disk
  BY <1>1, <1>2, <1>4, Elsewhere
<1>5. CASE write(new)
  <2>1. retry.kind = "retry" /\ claim.kind = "claim"
    BY DEF JobLine, LeaseLine
  <2>2. new \in Seq({retry, claim}) /\ Quiet(new)
    <3> HIDE DEF retry, claim
    <3>1. CASE job \in gone
      <4>1. new = <<retry, claim>>
        BY <3>1
      <4> HIDE DEF new
      <4> QED BY <4>1, <2>1 DEF Quiet
    <3>2. CASE job \notin gone
      <4>1. new = <<claim>>
        BY <3>2
      <4> HIDE DEF new
      <4> QED BY <4>1, <2>1 DEF Quiet
    <3> QED BY <3>1, <3>2
  <2> HIDE DEF new
  <2> QED BY <1>1, <1>2, <1>5, <2>2, QuietAction
<1> QED BY <1>3, <1>4, <1>5

LEMMA BeatInv == ASSUME Inv, Beat PROVE Inv'
<1>1. step = "intent"
  BY OutsideSettling DEF Beat
<1>2. UNCHANGED <<applied, settling, step>>
  BY DEF Beat
<1>3. PICK job \in Job :
        LET held == in_flight[job]
        IN UNCHANGED disk \/ write(<<LeaseLine("beat", now, job, held.owner, held.ticks)>>)
  BY DEF Beat
<1> DEFINE line == LeaseLine("beat", now, job, in_flight[job].owner, in_flight[job].ticks)
           new == <<line>>
<1>4. CASE UNCHANGED disk
  BY <1>1, <1>2, <1>4, Elsewhere
<1>5. CASE write(new)
  <2>1. new \in Seq({line}) /\ Quiet(new)
    BY DEF Quiet, LeaseLine
  <2> HIDE DEF new
  <2> QED BY <1>1, <1>2, <1>5, <2>1, QuietAction
<1> QED BY <1>3, <1>4, <1>5

LEMMA DoneInv == ASSUME Inv, Done PROVE Inv'
<1>1. step = "intent"
  BY OutsideSettling DEF Done
<1> DEFINE new == <<RunLine("done", now)>>
<1>2. new \in Seq({RunLine("done", now)}) /\ Quiet(new)
  BY DEF Quiet, RunLine
<1>3. commit(new) /\ UNCHANGED <<applied, settling, step>>
  BY DEF Done, process
<1> QED BY <1>1, <1>2, <1>3, QuietAction

LEMMA IntentInv == ASSUME Inv, Intent PROVE Inv'
<1>1. PICK job \in Job :
        /\ IsFirst(job, settling)
        /\ IF proven(lines, job)
           THEN step' = "report" /\ UNCHANGED disk
           ELSE step' = "apply" /\ commit(<<JobLine("intent", INTENT_TICK, job)>>)
  BY DEF Intent
<1>2. UNCHANGED <<applied, settling, mode>> /\ mode = "settling" /\ settling # {}
  BY <1>1 DEF Intent, IsFirst
<1>3. \A j \in Job : IsFirst(j, settling') => j = job
  BY <1>1, <1>2, FirstIsOne
<1>4. CASE proven(lines, job)
  <2>1. applied[job] = 1
    BY <1>4 DEF proven, Of, Inv, Landed, IsLine, DiskShape
  <2>2. Settling'
    BY <1>1, <1>2, <1>3, <1>4, <2>1 DEF Settling
  <2> QED BY <1>1, <1>2, <1>4, <2>2
      DEF Inv, DiskShape, Announced, Landed, Reported, disk, IsLine
<1>5. CASE ~proven(lines, job)
  <2> DEFINE line == JobLine("intent", INTENT_TICK, job)
             new == <<line>>
  <2>1. line.kind = "intent" /\ line.job = job
    BY DEF JobLine
  <2>2. new \in Seq({line}) /\ Quiet(new) /\ Len(new) = 1 /\ new[1] = line
    BY <2>1 DEF Quiet
  <2>3. commit(new) /\ step' = "apply"
    BY <1>1, <1>5
  <2> HIDE DEF new, line
  <2>4. /\ lines' = lines \o new
        /\ Len(lines') = Len(lines) + 1
        /\ \A i \in (Len(lines) + 1)..Len(lines') : lines'[i] = new[i - Len(lines)]
    BY <2>2, <2>3, Added DEF commit, Inv
  <2>5. synced' = Len(lines') /\ Len(lines) \in Nat /\ synced \in 0..Len(lines)
    BY <2>3 DEF commit, Inv, DiskShape
  <2>6. DiskShape' /\ Announced' /\ Landed' /\ Reported'
    BY <1>2, <2>2, <2>4, <2>5, QuietLines
  <2>7. IsLine(lines', Len(lines) + 1, "intent", job) /\ Len(lines) + 1 \in 1..synced'
    BY <2>1, <2>2, <2>4, <2>5 DEF IsLine
  <2>8. Settling'
    BY <1>2, <1>3, <2>3, <2>7 DEF Settling, IsLine
  <2> QED BY <2>6, <2>8 DEF Inv
<1> QED BY <1>4, <1>5

LEMMA ApplyInv == ASSUME Inv, Apply PROVE Inv'
<1>1. PICK job \in Job :
        /\ IsFirst(job, settling)
        /\ applied' = [applied EXCEPT ![job] = IF @ >= 1 THEN @ ELSE @ + 1]
  BY DEF Apply
<1>2. /\ UNCHANGED <<disk, settling, mode>> /\ step' = "report" /\ step = "apply"
      /\ mode = "settling" /\ settling # {}
  BY <1>1 DEF Apply, IsFirst
<1>3. applied' \in [Job -> {0, 1}] /\ applied'[job] = 1
  BY <1>1 DEF Inv, DiskShape
<1>4. \A j \in Job : applied[j] = 1 => applied'[j] = 1
  BY <1>1 DEF Inv, DiskShape
<1>5. \A j \in Job : j # job => applied'[j] = applied[j]
  BY <1>1 DEF Inv, DiskShape
<1>6. \E i \in 1..synced : IsLine(lines, i, "intent", job)
  BY <1>1, <1>2 DEF Inv, Settling
<1>7. Announced'
  BY <1>2, <1>5, <1>6 DEF Inv, Announced, disk, IsLine
<1>8. DiskShape' /\ Landed' /\ Reported'
  BY <1>2, <1>3, <1>4 DEF Inv, DiskShape, Landed, Reported, disk, IsLine
<1>9. Settling'
  <2>1. \A j \in Job : IsFirst(j, settling') => j = job
    BY <1>1, <1>2, FirstIsOne
  <2> QED BY <1>2, <1>3, <2>1 DEF Settling
<1> QED BY <1>7, <1>8, <1>9 DEF Inv

LEMMA ReportInv == ASSUME Inv, Report PROVE Inv'
<1>1. PICK job \in Job :
        /\ IsFirst(job, settling)
        /\ LET effect == JobLine("effect", now, job)
               result == ResultLine(now, job, in_flight[job].owner, in_flight[job].status)
               new == IF proven(lines, job) THEN <<result>> ELSE <<effect, result>>
           IN commit(new) \/ write(new)
  BY DEF Report
<1> DEFINE effect == JobLine("effect", now, job)
           result == ResultLine(now, job, in_flight[job].owner, in_flight[job].status)
           new == IF proven(lines, job) THEN <<result>> ELSE <<effect, result>>
<1>2. UNCHANGED applied /\ step = "report" /\ step' = "intent" /\ (commit(new) \/ write(new))
  BY <1>1 DEF Report
<1>3. /\ effect.kind = "effect" /\ effect.job = job
      /\ result.kind = "result" /\ result.job = job
  BY DEF JobLine, ResultLine
<1>4. applied[job] = 1
  BY <1>1, <1>2 DEF Inv, Settling
<1> HIDE DEF effect, result
<1>5. CASE proven(lines, job)
  <2>1. new = <<result>>
    BY <1>5
  <2> HIDE DEF new
  <2>2. new \in Seq({result}) /\ Len(new) = 1 /\ new[1] = result
    BY <2>1, OneLine
  <2>3. lines' = lines \o new
    BY <1>2 DEF commit, write
  <2>4. /\ lines' \in Seq(Range(lines')) /\ Len(lines') = Len(lines) + 1
        /\ \A i \in 1..Len(lines) : lines'[i] = lines[i]
        /\ lines'[Len(lines) + 1] = result
    <3>1. /\ lines' \in Seq(Range(lines')) /\ Len(lines') = Len(lines) + Len(new)
          /\ \A i \in 1..Len(lines) : lines'[i] = lines[i]
          /\ \A i \in (Len(lines) + 1)..Len(lines') : lines'[i] = new[i - Len(lines)]
      BY <2>2, <2>3, Added DEF Inv
    <3>2. Len(lines) \in Nat
      BY DEF Inv, DiskShape
    <3> QED BY <2>2, <3>1, <3>2
  <2>5. Len(lines) \in Nat /\ synced \in 0..Len(lines) /\ synced' \in synced..Len(lines')
    BY <1>2, <2>4 DEF Inv, DiskShape, commit, write
  <2>6. DiskShape'
    BY <1>2, <2>4, <2>5 DEF Inv, DiskShape
  <2>7. Announced'
    BY <1>2, <2>4, <2>5 DEF Inv, Announced, IsLine
  <2>8. Landed'
    BY <1>2, <1>3, <2>4, <2>5 DEF Inv, Landed, IsLine
  <2>9. Reported'
    <3>1. PICK k \in 1..Len(lines) : IsLine(lines, k, "effect", job)
      BY <1>5, <2>5 DEF proven, Of, IsLine, Inv, DiskShape
    <3> SUFFICES ASSUME NEW j \in Job, NEW i \in 1..Len(lines'),
                        IsLine(lines', i, "result", j)
                 PROVE  \E m \in 1..(i - 1) : IsLine(lines', m, "effect", j)
      BY DEF Reported, IsLine
    <3>2. CASE i = Len(lines) + 1
      BY <1>3, <2>4, <2>5, <3>1, <3>2 DEF IsLine
    <3>3. CASE i \in 1..Len(lines)
      <4>1. PICK m \in 1..(i - 1) : IsLine(lines, m, "effect", j)
        BY <2>4, <3>3 DEF Inv, Reported, IsLine
      <4> QED BY <2>4, <2>5, <3>3, <4>1 DEF IsLine
    <3> QED BY <2>4, <2>5, <3>2, <3>3
  <2>10. Settling'
    BY <1>2 DEF Settling
  <2> QED BY <2>6, <2>7, <2>8, <2>9, <2>10 DEF Inv
<1>6. CASE ~proven(lines, job)
  <2>1. new = <<effect, result>>
    BY <1>6
  <2> HIDE DEF new
  <2>2. new \in Seq({effect, result}) /\ Len(new) = 2 /\ new[1] = effect /\ new[2] = result
    BY <2>1, TwoLines
  <2>3. lines' = lines \o new
    BY <1>2 DEF commit, write
  <2>4. /\ lines' \in Seq(Range(lines')) /\ Len(lines') = Len(lines) + 2
        /\ \A i \in 1..Len(lines) : lines'[i] = lines[i]
        /\ lines'[Len(lines) + 1] = effect /\ lines'[Len(lines) + 2] = result
    <3>1. /\ lines' \in Seq(Range(lines')) /\ Len(lines') = Len(lines) + Len(new)
          /\ \A i \in 1..Len(lines) : lines'[i] = lines[i]
          /\ \A i \in (Len(lines) + 1)..Len(lines') : lines'[i] = new[i - Len(lines)]
      BY <2>2, <2>3, Added DEF Inv
    <3>2. Len(lines) \in Nat
      BY DEF Inv, DiskShape
    <3> QED BY <2>2, <3>1, <3>2
  <2>5. Len(lines) \in Nat /\ synced \in 0..Len(lines) /\ synced' \in synced..Len(lines')
    BY <1>2, <2>4 DEF Inv, DiskShape, commit, write
  <2>6. DiskShape'
    BY <1>2, <2>4, <2>5 DEF Inv, DiskShape
  <2>7. Announced'
    BY <1>2, <2>4, <2>5 DEF Inv, Announced, IsLine
  <2>8. \A i \in 1..Len(lines) : ~IsLine(lines, i, "effect", job)
    BY <1>6, <2>5 DEF proven, Of, IsLine, Inv, DiskShape
  <2>9. \A i \in 1..Len(lines'), j \in Job :
          IsLine(lines', i, "effect", j) =>
              \/ i = Len(lines) + 1 /\ j = job
              \/ i \in 1..Len(lines) /\ j # job /\ IsLine(lines, i, "effect", j)
    BY <1>3, <2>4, <2>5, <2>8 DEF IsLine
  <2>10. Landed'
    BY <1>2, <1>4, <2>4, <2>5, <2>9 DEF Inv, Landed, IsLine
  <2>11. Reported'
    <3> SUFFICES ASSUME NEW j \in Job, NEW i \in 1..Len(lines'),
                        IsLine(lines', i, "result", j)
                 PROVE  \E m \in 1..(i - 1) : IsLine(lines', m, "effect", j)
      BY DEF Reported, IsLine
    <3>1. i # Len(lines) + 1
      BY <1>3, <2>4 DEF IsLine
    <3>2. CASE i = Len(lines) + 2
      BY <1>3, <2>4, <2>5, <3>2 DEF IsLine
    <3>3. CASE i \in 1..Len(lines)
      <4>1. PICK m \in 1..(i - 1) : IsLine(lines, m, "effect", j)
        BY <2>4, <3>3 DEF Inv, Reported, IsLine
      <4> QED BY <2>4, <2>5, <3>3, <4>1 DEF IsLine
    <3> QED BY <2>4, <2>5, <3>1, <3>2, <3>3
  <2>12. Settling'
    BY <1>2 DEF Settling
  <2> QED BY <2>6, <2>7, <2>10, <2>11, <2>12 DEF Inv
<1> QED BY <1>5, <1>6

\* A crash keeps a prefix, and the intents of the world are in it.
LEMMA CrashInv == ASSUME Inv, Crash PROVE Inv'
<1>1. lines' = SubSeq(lines, 1, synced) /\ UNCHANGED <<synced, applied>> /\ step' = "intent"
  BY DEF Crash, durable
<1>2. synced \in 0..Len(lines) /\ Len(lines) \in Nat /\ lines \in Seq(Range(lines))
  BY DEF Inv, DiskShape
<1>3. /\ lines' \in Seq(Range(lines)) /\ Len(lines') = synced
      /\ \A i \in 1..synced : lines'[i] = lines[i]
  BY <1>1, <1>2
<1>4. DiskShape'
  <2>1. lines' \in Seq(Range(lines'))
    BY <1>3, OfItsRange
  <2>2. applied' \in [Job -> {0, 1}]
    BY <1>1 DEF Inv, DiskShape
  <2>3. synced' \in 0..Len(lines')
    BY <1>1, <1>2, <1>3
  <2> QED BY <2>1, <2>2, <2>3 DEF DiskShape
<1>5. Announced'
  BY <1>1, <1>3 DEF Inv, Announced, IsLine
<1>6. Landed' /\ Reported'
  BY <1>1, <1>2, <1>3 DEF Inv, Landed, Reported, IsLine
<1>7. Settling'
  BY <1>1 DEF Settling
<1> QED BY <1>4, <1>5, <1>6, <1>7 DEF Inv

LEMMA NextInv == ASSUME Inv, [Next]_vars PROVE Inv'
<1>1. CASE Call
  BY <1>1, CallInv
<1>2. CASE Expire
  BY <1>2, ExpireInv
<1>3. CASE Wait \/ Recovered \/ Tick \/ Work
  BY <1>3, OutsideSettling, Elsewhere DEF Wait, Recovered, Tick, Work, process
<1>4. CASE StartOne
  BY <1>4, StartOneInv
<1>5. CASE Beat
  BY <1>5, BeatInv
<1>6. CASE Intent
  BY <1>6, IntentInv
<1>7. CASE Apply
  BY <1>7, ApplyInv
<1>8. CASE Report
  BY <1>8, ReportInv
<1>9. CASE Settled
  <2>1. step = "intent" /\ UNCHANGED <<disk, applied, step>>
    BY <1>9 DEF Settled, Inv, Settling, process
  <2> QED BY <2>1, Elsewhere
<1>10. CASE Done
  BY <1>10, DoneInv
<1>11. CASE Crash
  BY <1>11, CrashInv
<1>12. CASE UNCHANGED vars
  BY <1>12 DEF vars, disk, process, Inv, DiskShape, Announced, Landed, Reported,
               Settling, IsLine
<1> QED BY <1>1, <1>2, <1>3, <1>4, <1>5, <1>6, <1>7, <1>8, <1>9, <1>10, <1>11, <1>12
    DEF Next

-----------------------------------------------------------------------------
(* The theorem.                                                            *)

LEMMA InvGivesEffectsOnce == Inv => EffectsOnce
<1> SUFFICES ASSUME Inv, NEW j \in Job
             PROVE  /\ applied[j] <= 1
                    /\ applied[j] = 1 => Of(durable, j, {"intent"}) # {}
                    /\ Cardinality(Of(lines, j, {"effect"})) <= 1
                    /\ \A i \in Of(lines, j, {"result"}) :
                          applied[j] = 1 /\ \E k \in Of(lines, j, {"effect"}) : k < i
  BY DEF EffectsOnce
<1>1. /\ synced \in 0..Len(lines) /\ Len(lines) \in Nat /\ lines \in Seq(Range(lines))
      /\ applied[j] \in {0, 1}
  BY DEF Inv, DiskShape
<1>2. ASSUME applied[j] = 1 PROVE Of(durable, j, {"intent"}) # {}
  <2>1. PICK i \in 1..synced : IsLine(lines, i, "intent", j)
    BY <1>2 DEF Inv, Announced
  <2>2. i \in DOMAIN durable /\ durable[i] = lines[i]
    BY <1>1 DEF durable
  <2> QED BY <2>1, <2>2 DEF Of, IsLine
<1>3. \A i, k \in Of(lines, j, {"effect"}) : i = k
  BY <1>1 DEF Of, Inv, Landed, IsLine
<1>4. Cardinality(Of(lines, j, {"effect"})) <= 1
  <2>1. CASE Of(lines, j, {"effect"}) = {}
    BY <2>1, FS_EmptySet
  <2>2. CASE Of(lines, j, {"effect"}) # {}
    <3>1. PICK i \in Of(lines, j, {"effect"}) : TRUE
      BY <2>2
    <3>2. Of(lines, j, {"effect"}) = {i}
      BY <1>3, <3>1
    <3>3. Cardinality({i}) = 1
      BY FS_Singleton
    <3> QED BY <3>2, <3>3
  <2> QED BY <2>1, <2>2
<1>5. ASSUME NEW i \in Of(lines, j, {"result"})
      PROVE  applied[j] = 1 /\ \E k \in Of(lines, j, {"effect"}) : k < i
  <2>1. i \in 1..Len(lines) /\ IsLine(lines, i, "result", j)
    BY <1>1 DEF Of, IsLine
  <2>2. PICK k \in 1..(i - 1) : IsLine(lines, k, "effect", j)
    BY <2>1 DEF Inv, Reported
  <2>3. k \in 1..Len(lines) /\ k < i
    BY <1>1, <2>1
  <2> QED BY <1>1, <2>2, <2>3 DEF Of, IsLine, Inv, Landed
<1> QED BY <1>1, <1>2, <1>4, <1>5

\* However often the run dies and is called again, the world holds at most
\* one application of an effect, a durable intent went before it, and a
\* result is written only behind it.
THEOREM ExactlyOnce == Spec => []EffectsOnce
<1>1. Inv /\ [Next]_vars => Inv'
  BY NextInv
<1> QED BY InitInv, <1>1, InvGivesEffectsOnce, PTL DEF Spec

-----------------------------------------------------------------------------
(* The grammar of the log.                                                 *)

\* The beats of the holder of the claim at i.
Beats(log, i) ==
    {k \in Of(log, log[i].job, {"beat"}) : k > i /\ log[k].owner = log[i].owner}

\* Line b is the last promise of the claim at i that stands before line n.
Promise(log, i, b, n) ==
    b < n /\ \A c \in Beats(log, i) : c < n => c <= b

\* Line m expires the claim at i, a whole grace past the last promise.
Answers(log, i, m) ==
    /\ i < m /\ log[m].owner = log[i].owner
    /\ \E b \in {i} \cup Beats(log, i) :
          /\ Promise(log, i, b, m)
          /\ log[m].tick >= log[b].tick + log[b].ticks + MAX_MISSES

\* Before line n nobody holds the job: no result has finished it, and every
\* claim of it is answered.
Unheld(log, j, n) ==
    /\ \A i \in Of(log, j, {"result"}) : i >= n
    /\ \A i \in Of(log, j, {"claim"}) : i < n =>
          \E m \in Of(log, j, {"expire"}) : m < n /\ Answers(log, i, m)

\* An expire line answers the claim that decides about its job.
Expires(log, j, m) ==
    \E i \in Of(log, j, {"claim"}) :
        /\ Answers(log, i, m)
        /\ \A k \in Of(log, j, {"claim", "retry", "result"}) : k < m => k <= i

\* Every claim and every retry is of a job nobody holds, and every expire line
\* answers the claim it is about.
Grammar(log) ==
    \A j \in Job :
        /\ \A k \in Of(log, j, {"claim", "retry"}) : Unheld(log, j, k)
        /\ \A m \in Of(log, j, {"expire"}) : Expires(log, j, m)

\* Every variable but the world's keeps its shape.
Shape ==
    /\ lines \in Seq(Line) /\ now \in Nat
    /\ mode \in {"off", "recovering", "filling", "beating", "settling", "done", "raised"}
    /\ DOMAIN in_flight \subseteq Job /\ IsFiniteSet(DOMAIN in_flight)
    /\ \A j \in DOMAIN in_flight : in_flight[j] \in Entry
    /\ Cardinality(DOMAIN in_flight) <= limit /\ limit \in Nat
    /\ ready \subseteq Job /\ gone \subseteq Job
    /\ beating \subseteq DOMAIN in_flight /\ settling \subseteq DOMAIN in_flight
    /\ step \in {"intent", "apply", "report"}
    /\ label \in [Job -> Labels]

\* What the part of the loop that runs says of the process and of the log.
Phases ==
    /\ mode \in {"off", "recovering", "done"} => DOMAIN in_flight = {}
    /\ mode \notin {"beating", "raised"} => beating = {}
    /\ mode # "settling" => settling = {}
    /\ lines = << >> => mode = "off"
    /\ lines # << >> => lines[1].kind = "start"
    /\ ready \cap DOMAIN in_flight = {}
    /\ \A j \in ready : Unheld(lines, j, Len(lines) + 1)

LogInv == Shape /\ Phases /\ Grammar(lines)

-----------------------------------------------------------------------------
(* Facts about lines and logs.                                             *)

\* What a line's kind says of its fields.
LEMMA LineFacts ==
    ASSUME NEW x \in Line
    PROVE  /\ x.tick \in Nat
           /\ x.kind \notin {"start", "done"} => x.job \in Job
           /\ x.kind \in {"claim", "beat"} => x.owner \in Owner /\ x.ticks \in Nat
           /\ x.kind \in {"expire", "result"} => x.owner \in Owner
           /\ x.kind = "result" => x.status \in {"ok", "failed", "died"}
           /\ x.kind \in {"start", "done", "retry", "intent", "effect", "claim", "beat",
                          "expire", "result"}
BY DEF Line

\* Two logs with the same first n lines.
Agree(log, other, n) ==
    /\ log \in Seq(Line) /\ other \in Seq(Line)
    /\ n \in Nat /\ n <= Len(log) /\ n <= Len(other)
    /\ \A i \in 1..n : other[i] = log[i]

\* What a log says of its first n lines, every log with the same ones says.
LEMMA Stable ==
    ASSUME NEW log, NEW other, NEW n, Agree(log, other, n)
    PROVE  /\ \A i \in 1..n : \A j, kinds : i \in Of(other, j, kinds) <=> i \in Of(log, j, kinds)
           /\ \A i, m \in 1..n : Answers(log, i, m) => Answers(other, i, m)
           /\ \A j \in Job : \A k \in 1..(n + 1) : Unheld(log, j, k) => Unheld(other, j, k)
           /\ \A j \in Job : \A m \in 1..n : Expires(log, j, m) => Expires(other, j, m)
<1>1. /\ \A i \in 1..n : i \in DOMAIN log /\ i \in DOMAIN other /\ other[i] = log[i]
      /\ DOMAIN log = 1..Len(log) /\ DOMAIN other = 1..Len(other)
      /\ n \in Nat /\ Len(log) \in Nat /\ Len(other) \in Nat
  BY DEF Agree
<1>2. \A i \in 1..n : \A j, kinds : i \in Of(other, j, kinds) <=> i \in Of(log, j, kinds)
  BY <1>1 DEF Of
<1>3. \A i, c \in 1..n : c \in Beats(other, i) <=> c \in Beats(log, i)
  BY <1>1, <1>2 DEF Beats
<1>4. /\ \A i, c : c \in Beats(log, i) => c \in 1..Len(log)
      /\ \A i, c : c \in Beats(other, i) => c \in 1..Len(other)
      /\ \A c, j, kinds : c \in Of(log, j, kinds) => c \in 1..Len(log)
      /\ \A c, j, kinds : c \in Of(other, j, kinds) => c \in 1..Len(other)
  BY <1>1 DEF Beats, Of
<1>5. ASSUME NEW i \in 1..n, NEW m \in 1..n, Answers(log, i, m)
      PROVE  Answers(other, i, m)
  <2>1. PICK b \in {i} \cup Beats(log, i) :
           /\ Promise(log, i, b, m)
           /\ log[m].tick >= log[b].tick + log[b].ticks + MAX_MISSES
    BY <1>5 DEF Answers
  <2>2. b < m /\ \A c \in Beats(log, i) : c < m => c <= b
    BY <2>1 DEF Promise
  <2>3. b \in 1..n
    BY <1>1, <1>4, <2>1, <2>2
  <2>4. b \in {i} \cup Beats(other, i)
    BY <1>3, <2>1, <2>3
  <2>5. \A c \in Beats(other, i) : c < m => c <= b
    BY <1>1, <1>3, <1>4, <2>2
  <2>6. i < m /\ log[m].owner = log[i].owner
    BY <1>5 DEF Answers
  <2>7. other[m] = log[m] /\ other[i] = log[i] /\ other[b] = log[b]
    BY <1>1, <2>3
  <2> QED BY <2>1, <2>2, <2>4, <2>5, <2>6, <2>7 DEF Answers, Promise
<1>6. ASSUME NEW j \in Job, NEW k \in 1..(n + 1), Unheld(log, j, k)
      PROVE  Unheld(other, j, k)
  <2>1. \A i \in Of(other, j, {"result"}) : i >= k
    <3> TAKE i \in Of(other, j, {"result"})
    <3>1. CASE i \in 1..n
      BY <1>2, <1>6, <3>1 DEF Unheld
    <3>2. CASE i \notin 1..n
      BY <1>1, <1>4, <3>2
    <3> QED BY <3>1, <3>2
  <2>2. ASSUME NEW i \in Of(other, j, {"claim"}), i < k
        PROVE  \E m \in Of(other, j, {"expire"}) : m < k /\ Answers(other, i, m)
    <3>1. i \in 1..n /\ i \in Of(log, j, {"claim"})
      BY <1>1, <1>2, <1>4, <2>2
    <3>2. PICK m \in Of(log, j, {"expire"}) : m < k /\ Answers(log, i, m)
      BY <1>6, <2>2, <3>1 DEF Unheld
    <3>3. m \in 1..n
      BY <1>1, <1>4, <3>2
    <3> QED BY <1>2, <1>5, <3>1, <3>2, <3>3
  <2> QED BY <2>1, <2>2 DEF Unheld
<1>7. ASSUME NEW j \in Job, NEW m \in 1..n, Expires(log, j, m)
      PROVE  Expires(other, j, m)
  <2>1. PICK i \in Of(log, j, {"claim"}) :
          /\ Answers(log, i, m)
          /\ \A k \in Of(log, j, {"claim", "retry", "result"}) : k < m => k <= i
    BY <1>7 DEF Expires
  <2>2. i < m /\ i \in 1..n
    BY <1>1, <1>4, <2>1 DEF Answers
  <2>3. \A k \in Of(other, j, {"claim", "retry", "result"}) : k < m => k <= i
    BY <1>1, <1>2, <1>4, <2>1
  <2> QED BY <1>2, <1>5, <2>1, <2>2, <2>3 DEF Expires
<1> QED BY <1>2, <1>5, <1>6, <1>7

\* The grammar of a log's first n lines and of each line added to them is the
\* grammar of the log.
LEMMA Extended ==
    ASSUME NEW log, NEW other, NEW n, Agree(log, other, n), Grammar(log),
           \A j \in Job : \A k \in Of(other, j, {"claim", "retry"}) :
              k > n => Unheld(other, j, k),
           \A j \in Job : \A m \in Of(other, j, {"expire"}) :
              m > n => Expires(other, j, m)
    PROVE  Grammar(other)
<1>0. /\ \A i \in 1..n : \A j, kinds : i \in Of(other, j, kinds) <=> i \in Of(log, j, kinds)
      /\ \A j \in Job : \A k \in 1..(n + 1) : Unheld(log, j, k) => Unheld(other, j, k)
      /\ \A j \in Job : \A m \in 1..n : Expires(log, j, m) => Expires(other, j, m)
  BY Stable
<1>1. \A j, kinds, i : i \in Of(other, j, kinds) => i \in 1..n \/ i > n
  BY DEF Agree, Of
<1>2. ASSUME NEW j \in Job, NEW k \in Of(other, j, {"claim", "retry"})
      PROVE  Unheld(other, j, k)
  <2>1. CASE k \in 1..n
    <3>1. k \in Of(log, j, {"claim", "retry"})
      BY <1>0, <2>1
    <3>2. Unheld(log, j, k) /\ k \in 1..(n + 1)
      BY <2>1, <3>1 DEF Grammar, Agree
    <3> QED BY <1>0, <3>2
  <2> QED BY <1>1, <1>2, <2>1
<1>3. ASSUME NEW j \in Job, NEW m \in Of(other, j, {"expire"})
      PROVE  Expires(other, j, m)
  <2>1. CASE m \in 1..n
    <3>1. m \in Of(log, j, {"expire"})
      BY <1>0, <2>1
    <3>2. Expires(log, j, m)
      BY <3>1 DEF Grammar
    <3> QED BY <1>0, <2>1, <3>2
  <2> QED BY <1>1, <1>3, <2>1
<1> QED BY <1>2, <1>3 DEF Grammar

-----------------------------------------------------------------------------
(* Facts about the readers.                                                *)

\* The greatest of a finite set of naturals.
LEMMA MaxIs ==
    ASSUME NEW S \in SUBSET Nat, IsFiniteSet(S), S # {}
    PROVE  Max(S) \in S /\ \A x \in S : x <= Max(S)
<1>1. PICK x \in S : \A y \in S : y <= x
  BY Greatest
<1>2. \A y \in S : x >= y
  BY <1>1
<1>3. Max(S) \in S /\ \A y \in S : Max(S) >= y
  BY <1>1, <1>2 DEF Max
<1> QED BY <1>3

LEMMA OfIsFinite ==
    ASSUME NEW log \in Seq(Line), NEW j, NEW kinds
    PROVE  IsFiniteSet(Of(log, j, kinds)) /\ Of(log, j, kinds) \in SUBSET (1..Len(log))
<1>1. Of(log, j, kinds) \in SUBSET (1..Len(log)) /\ Len(log) \in Nat
  BY DEF Of
<1>2. IsFiniteSet(1..Len(log))
  BY <1>1, FS_Interval
<1> QED BY <1>1, <1>2, FS_Subset

\* The newest line about a job, or 0 where there is none.
LEMMA NewestIs ==
    ASSUME NEW log \in Seq(Line), NEW j, NEW kinds
    PROVE  /\ \/ newest(log, j, kinds) \in Of(log, j, kinds)
              \/ newest(log, j, kinds) = 0 /\ Of(log, j, kinds) = {}
           /\ \A k \in Of(log, j, kinds) : k \in 1..Len(log) /\ k <= newest(log, j, kinds)
<1> DEFINE S == {0} \cup Of(log, j, kinds)
<1>1. Of(log, j, kinds) \in SUBSET (1..Len(log)) /\ IsFiniteSet(S)
  <2>1. IsFiniteSet(Of(log, j, kinds) \cup {0})
    BY OfIsFinite, FS_AddElement
  <2>2. S = Of(log, j, kinds) \cup {0}
    OBVIOUS
  <2> QED BY <2>1, <2>2, OfIsFinite
<1>2. S \in SUBSET Nat /\ S # {}
  <2>1. Len(log) \in Nat
    OBVIOUS
  <2> QED BY <1>1, <2>1
<1> HIDE DEF S
<1>3. Max(S) \in S /\ \A x \in S : x <= Max(S)
  BY <1>1, <1>2, MaxIs
<1>4. newest(log, j, kinds) = Max(S)
  BY DEF newest, S
<1>5. \A k \in Of(log, j, kinds) : k \in 1..Len(log) /\ k <= Max(S)
  BY <1>1, <1>3 DEF S
<1>6. Max(S) = 0 => Of(log, j, kinds) = {}
  <2>1. \A k \in Of(log, j, kinds) : ~(k <= 0)
    BY <1>1
  <2> QED BY <1>5, <2>1
<1>7. Max(S) = 0 \/ Max(S) \in Of(log, j, kinds)
  BY <1>3 DEF S
<1> QED BY <1>4, <1>5, <1>6, <1>7

\* A lease runs as long as the newest promise of its holder.
LEMMA DeadlineIs ==
    ASSUME NEW log \in Seq(Line), NEW j, NEW i \in Of(log, j, {"claim"})
    PROVE  \E b \in {i} \cup Beats(log, i) :
              /\ Promise(log, i, b, Len(log) + 1)
              /\ Deadline(log, i) = log[b].tick + log[b].ticks
<1> DEFINE S == {i} \cup Beats(log, i)
<1>1. i \in 1..Len(log) /\ Beats(log, i) \in SUBSET (1..Len(log)) /\ Len(log) \in Nat
  BY OfIsFinite DEF Beats
<1>2. IsFiniteSet(S)
  <2>1. IsFiniteSet(1..Len(log))
    BY <1>1, FS_Interval
  <2>2. IsFiniteSet(Beats(log, i))
    BY <1>1, <2>1, FS_Subset
  <2>3. IsFiniteSet(Beats(log, i) \cup {i}) /\ S = Beats(log, i) \cup {i}
    BY <2>2, FS_AddElement
  <2> QED BY <2>3
<1>3. S \in SUBSET Nat /\ S # {}
  BY <1>1
<1> HIDE DEF S
<1>4. Max(S) \in S /\ \A x \in S : x <= Max(S)
  BY <1>2, <1>3, MaxIs
<1>5. Deadline(log, i) = log[Max(S)].tick + log[Max(S)].ticks
  BY DEF Deadline, S, Beats
<1>6. Max(S) < Len(log) + 1
  BY <1>1, <1>4 DEF S
<1> QED BY <1>1, <1>4, <1>5, <1>6 DEF Promise, S

\* A line that answers a claim is past the deadline the log up to it gives.
LEMMA AnswersInTime ==
    ASSUME NEW log \in Seq(Line), NEW j, NEW i \in Of(log, j, {"claim"}),
           NEW m \in Of(log, j, {"expire"}), Answers(log, i, m)
    PROVE  log[m].tick >= Deadline(SubSeq(log, 1, m), i) + MAX_MISSES
<1> DEFINE sub == SubSeq(log, 1, m)
<1>1. /\ i \in 1..Len(log) /\ m \in 1..Len(log) /\ Len(log) \in Nat /\ i < m
      /\ log[i].job = j
  BY OfIsFinite DEF Answers, Of
<1>2. sub \in Seq(Line) /\ Len(sub) = m /\ \A k \in 1..m : sub[k] = log[k]
  BY <1>1
<1> HIDE DEF sub
<1>3. Agree(log, sub, m)
  BY <1>1, <1>2 DEF Agree
<1>4. /\ i \in Of(sub, j, {"claim"}) /\ m \in Of(sub, j, {"expire"})
      /\ Answers(sub, i, m)
  BY <1>1, <1>3, Stable
<1>5. PICK b \in {i} \cup Beats(sub, i) :
        Promise(sub, i, b, m + 1) /\ Deadline(sub, i) = sub[b].tick + sub[b].ticks
  BY <1>2, <1>4, DeadlineIs
<1>6. PICK c \in {i} \cup Beats(sub, i) :
        Promise(sub, i, c, m) /\ sub[m].tick >= sub[c].tick + sub[c].ticks + MAX_MISSES
  BY <1>4 DEF Answers
<1>7. /\ Beats(sub, i) \in SUBSET (1..m) /\ m \notin Beats(sub, i)
      /\ \A k \in Beats(sub, i) : k > i
  BY <1>2, <1>4 DEF Beats, Of
<1>8. b = c
  BY <1>1, <1>5, <1>6, <1>7 DEF Promise
<1>9. sub[m] = log[m]
  BY <1>1, <1>2
<1> QED BY <1>5, <1>6, <1>8, <1>9 DEF sub

\* The lines that decide a state, without a clock and with one.
Deciding == {"claim", "result", "retry"}
Telling == {"claim", "result", "retry", "expire"}

\* What the states the fold without a clock gives say of the log.
LEMMA StateIs ==
    ASSUME NEW log \in Seq(Line), NEW j \in Job, NEW i, i = newest(log, j, Deciding)
    PROVE  /\ i = 0 => state_of(log, j) = "pending"
           /\ i # 0 /\ log[i].kind = "retry" => state_of(log, j) = "pending"
           /\ i # 0 /\ log[i].kind = "result" =>
                 /\ state_of(log, j) = finished_as(log[i])
                 /\ state_of(log, j) \in {"done", "failed"}
           /\ i # 0 /\ log[i].kind = "claim" =>
                 state_of(log, j) = IF ExpiredBy(log, i) THEN "expired" ELSE "running"
           /\ i # 0 => i \in 1..Len(log) /\ log[i].kind \in Deciding /\ log[i].job = j
<1>1. i # 0 => i \in 1..Len(log) /\ log[i].kind \in Deciding /\ log[i].job = j
  BY NewestIs DEF Of
<1> QED BY <1>1 DEF state_of, Deciding, finished_as

\* In a log that keeps the grammar an expire line after the deciding line
\* expires the claim that decides, and nothing else can come first.
LEMMA ExpireDecides ==
    ASSUME NEW log \in Seq(Line), Grammar(log), NEW j \in Job,
           NEW i, i = newest(log, j, Deciding),
           NEW m \in Of(log, j, {"expire"}), i < m
    PROVE  i \in Of(log, j, {"claim"}) /\ Answers(log, i, m)
<1>1. PICK p \in Of(log, j, {"claim"}) :
        /\ Answers(log, p, m)
        /\ \A k \in Of(log, j, {"claim", "retry", "result"}) : k < m => k <= p
  BY DEF Grammar, Expires
<1>2. p \in Of(log, j, Deciding)
  BY <1>1 DEF Of, Deciding
<1>3. i \in Of(log, j, Deciding) /\ p <= i /\ i \in 1..Len(log) /\ p \in 1..Len(log)
  BY <1>2, NewestIs
<1>4. i \in Of(log, j, {"claim", "retry", "result"})
  BY <1>3 DEF Of, Deciding
<1>5. i <= p
  BY <1>1, <1>4
<1>6. i = p
  BY <1>3, <1>5
<1> QED BY <1>1, <1>6

\* The two readers with a clock read a log that keeps the grammar alike.
LEMMA ReadersAgree ==
    ASSUME NEW log \in Seq(Line), Grammar(log), NEW j \in Job, NEW t
    PROVE  /\ recover(log, j, t) = fold(log, j, t)
           /\ fold(log, j, t) = "running" => j \in DOMAIN leases(log)
<1> DEFINE d == newest(log, j, Deciding)
           n == newest(log, j, Telling)
           c == newest(log, j, {"claim"})
<1>1. /\ \/ d \in Of(log, j, Deciding)
         \/ d = 0 /\ Of(log, j, Deciding) = {}
      /\ \A k \in Of(log, j, Deciding) : k \in 1..Len(log) /\ k <= d
  BY NewestIs
<1>2. /\ \/ n \in Of(log, j, Telling)
         \/ n = 0 /\ Of(log, j, Telling) = {}
      /\ \A k \in Of(log, j, Telling) : k \in 1..Len(log) /\ k <= n
  BY NewestIs
<1>3. /\ \/ c \in Of(log, j, {"claim"})
         \/ c = 0 /\ Of(log, j, {"claim"}) = {}
      /\ \A k \in Of(log, j, {"claim"}) : k \in 1..Len(log) /\ k <= c
  BY NewestIs
<1>4. d \in Nat /\ n \in Nat /\ c \in Nat
  BY <1>1, <1>2, <1>3
<1>5. \A k : /\ k \in Of(log, j, {"claim"}) =>
                   k \in Of(log, j, Deciding) /\ log[k].kind = "claim"
             /\ k \in Of(log, j, Deciding) /\ log[k].kind = "claim" =>
                   k \in Of(log, j, {"claim"})
             /\ k \in Of(log, j, Deciding) => k \in Of(log, j, Telling)
             /\ k \in Of(log, j, Telling) =>
                   (k \in Of(log, j, Deciding) \/ k \in Of(log, j, {"expire"}))
             /\ k \in Of(log, j, {"expire"}) => k \in Of(log, j, Telling)
             /\ k \in Of(log, j, {"expire"}) => log[k].kind = "expire"
             /\ k \in Of(log, j, Deciding) => log[k].kind \in Deciding
             /\ k \in Of(log, j, Deciding) => log[k].job = j
  BY DEF Of, Deciding, Telling
<1>6. Deciding = {"claim", "result", "retry"}
  BY DEF Deciding
<1>7. recover(log, j, t) =
        IF n = 0 THEN "pending"
        ELSE IF d > 0 /\ log[d].kind = "result" THEN finished_as(log[d])
        ELSE CASE log[n].kind = "retry" -> "pending"
               [] log[n].kind = "expire" -> "expired"
               [] log[n].kind = "claim" ->
                      IF dead(Deadline(log, n), t) THEN "expired" ELSE "running"
  BY DEF recover, Deciding, Telling
<1>8. /\ d = 0 => state_of(log, j) = "pending"
      /\ d # 0 /\ log[d].kind = "retry" => state_of(log, j) = "pending"
      /\ d # 0 /\ log[d].kind = "result" =>
            /\ state_of(log, j) = finished_as(log[d])
            /\ state_of(log, j) \in {"done", "failed"}
      /\ d # 0 /\ log[d].kind = "claim" =>
            state_of(log, j) = IF ExpiredBy(log, d) THEN "expired" ELSE "running"
  BY StateIs
<1>9. fold(log, j, t) =
        IF state_of(log, j) = "running" /\ dead(Deadline(log, c), t)
        THEN "expired" ELSE state_of(log, j)
  BY DEF fold, Dies
<1>10. d # 0 /\ log[d].kind = "claim" => c = d
  BY <1>1, <1>3, <1>4, <1>5
<1>11. \A m \in Of(log, j, {"expire"}) : d < m => d \in Of(log, j, {"claim"}) /\ Answers(log, d, m)
  BY ExpireDecides
<1>12. d = n \/ (n \in Of(log, j, {"expire"}) /\ d < n)
  BY <1>1, <1>2, <1>4, <1>5
<1>13. d \in Of(log, j, {"claim"}) =>
         (ExpiredBy(log, d) <=> \E k \in Of(log, j, {"expire"}) :
                                   k > d /\ log[k].owner = log[d].owner)
  <2> SUFFICES ASSUME d \in Of(log, j, {"claim"})
               PROVE  ExpiredBy(log, d) <=> \E k \in Of(log, j, {"expire"}) :
                                               k > d /\ log[k].owner = log[d].owner
    OBVIOUS
  <2>1. log[d].job = j
    BY DEF Of
  <2> QED BY <2>1 DEF ExpiredBy
<1> HIDE DEF d, n, c
<1>14. ASSUME n \in Of(log, j, {"expire"}) /\ d < n
       PROVE  recover(log, j, t) = fold(log, j, t)
  <2>1. d \in Of(log, j, {"claim"}) /\ Answers(log, d, n) /\ log[d].kind = "claim"
    BY <1>5, <1>11, <1>14
  <2>2. ExpiredBy(log, d) /\ d # 0 /\ n # 0
    BY <1>1, <1>4, <1>5, <1>13, <1>14, <2>1 DEF Answers
  <2>3. fold(log, j, t) = "expired"
    BY <1>8, <1>9, <2>1, <2>2
  <2>4. recover(log, j, t) = "expired"
    BY <1>5, <1>7, <1>14, <2>1, <2>2
  <2> QED BY <2>3, <2>4
<1>15. ASSUME d = n
       PROVE  recover(log, j, t) = fold(log, j, t)
  <2>1. CASE d = 0
    BY <1>7, <1>8, <1>9, <1>15, <2>1
  <2>2. CASE d # 0 /\ log[d].kind = "result"
    <3>1. d > 0
      BY <1>4, <2>2
    <3> QED BY <1>7, <1>8, <1>9, <1>15, <2>2, <3>1
  <2>3. CASE d # 0 /\ log[d].kind = "retry"
    BY <1>7, <1>8, <1>9, <1>15, <2>3
  <2>4. CASE d # 0 /\ log[d].kind = "claim"
    <3>1. ~ExpiredBy(log, d)
      <4>1. \A k \in Of(log, j, {"expire"}) : ~(k > d)
        BY <1>2, <1>4, <1>5, <1>15
      <4>2. d \in Of(log, j, {"claim"})
        BY <1>1, <1>5, <2>4
      <4> QED BY <1>13, <4>1, <4>2
    <3>2. state_of(log, j) = "running"
      BY <1>8, <2>4, <3>1
    <3>3. recover(log, j, t) = IF dead(Deadline(log, d), t) THEN "expired" ELSE "running"
      BY <1>7, <1>15, <2>4
    <3> QED BY <1>9, <1>10, <2>4, <3>2, <3>3
  <2>5. d = 0 \/ log[d].kind \in {"claim", "result", "retry"}
    BY <1>1, <1>5, <1>6
  <2> QED BY <2>1, <2>2, <2>3, <2>4, <2>5
<1>16. recover(log, j, t) = fold(log, j, t)
  BY <1>12, <1>14, <1>15
<1>17. ASSUME fold(log, j, t) = "running"
       PROVE  j \in DOMAIN leases(log)
  <2>1. state_of(log, j) = "running"
    BY <1>9, <1>17
  <2>2. d # 0 /\ log[d].kind = "claim"
    BY <1>1, <1>5, <1>6, <1>8, <2>1
  <2>3. c = d /\ d > 0
    BY <1>4, <1>10, <2>2
  <2>4. newest(log, j, {"result", "retry"}) < d
    <3> DEFINE r == newest(log, j, {"result", "retry"})
    <3>1. r \in Of(log, j, {"result", "retry"}) \/ r = 0
      BY NewestIs
    <3>2. r \in Of(log, j, {"result", "retry"}) => r \in Of(log, j, Deciding) /\ log[r].kind # "claim"
      BY DEF Of, Deciding
    <3>3. r = 0 \/ (r <= d /\ r # d /\ r \in Nat)
      BY <1>1, <2>2, <3>1, <3>2
    <3> HIDE DEF r
    <3>4. r < d
      BY <1>4, <2>3, <3>3
    <3> QED BY <3>4 DEF r
  <2> QED BY <2>3, <2>4 DEF leases, c
<1> QED BY <1>16, <1>17

\* A log that keeps the grammar has its claims in turn.
LEMMA TurnsKept == ASSUME lines \in Seq(Line), Grammar(lines) PROVE ClaimsInTurn
<1> SUFFICES ASSUME NEW j \in Job, NEW k \in Of(lines, j, {"claim"})
             PROVE  /\ \A i \in Of(lines, j, {"result"}) : i > k
                    /\ LET before == {i \in Of(lines, j, {"claim"}) : i < k}
                       IN before # {} =>
                            \E m \in Of(lines, j, {"expire"}) :
                                /\ Max(before) < m /\ m < k
                                /\ lines[m].owner = lines[Max(before)].owner
                                /\ lines[m].tick >=
                                      Deadline(SubSeq(lines, 1, m), Max(before)) + MAX_MISSES
  BY DEF ClaimsInTurn
<1>1. Unheld(lines, j, k) /\ k \in 1..Len(lines) /\ Len(lines) \in Nat
  BY OfIsFinite DEF Grammar, Of
<1>2. \A i \in Of(lines, j, {"result"}) : i > k
  <2> TAKE i \in Of(lines, j, {"result"})
  <2>1. i >= k /\ i \in 1..Len(lines)
    BY <1>1, OfIsFinite DEF Unheld
  <2>2. i # k
    BY DEF Of
  <2> QED BY <1>1, <2>1, <2>2
<1> DEFINE before == {i \in Of(lines, j, {"claim"}) : i < k}
<1>3. ASSUME before # {}
      PROVE  \E m \in Of(lines, j, {"expire"}) :
                /\ Max(before) < m /\ m < k
                /\ lines[m].owner = lines[Max(before)].owner
                /\ lines[m].tick >= Deadline(SubSeq(lines, 1, m), Max(before)) + MAX_MISSES
  <2> DEFINE i == Max(before)
  <2>1. i \in before
    <3>1. Of(lines, j, {"claim"}) \in SUBSET Nat /\ IsFiniteSet(Of(lines, j, {"claim"}))
      BY <1>1, OfIsFinite
    <3>2. before \in SUBSET Nat /\ IsFiniteSet(before)
      BY <3>1, FS_Subset
    <3> HIDE DEF before
    <3> QED BY <1>3, <3>2, MaxIs
  <2>2. i \in Of(lines, j, {"claim"}) /\ i < k
    BY <2>1
  <2> HIDE DEF i, before
  <2>3. PICK m \in Of(lines, j, {"expire"}) : m < k /\ Answers(lines, i, m)
    BY <1>1, <2>2 DEF Unheld
  <2>4. lines[m].tick >= Deadline(SubSeq(lines, 1, m), i) + MAX_MISSES
    BY <2>2, <2>3, AnswersInTime
  <2>5. i < m /\ lines[m].owner = lines[i].owner
    BY <2>3 DEF Answers
  <2> QED BY <2>3, <2>4, <2>5 DEF i
<1> QED BY <1>2, <1>3

\* A job that is neither running nor finished is held by nobody.
LEMMA ReleasedIs ==
    ASSUME NEW log \in Seq(Line), Grammar(log), NEW j \in Job,
           state_of(log, j) \notin {"running", "done", "failed"}
    PROVE  Unheld(log, j, Len(log) + 1)
<1> DEFINE d == newest(log, j, Deciding)
<1>1. /\ \/ d \in Of(log, j, Deciding)
         \/ d = 0 /\ Of(log, j, Deciding) = {}
      /\ \A k \in Of(log, j, Deciding) : k \in 1..Len(log) /\ k <= d
  BY NewestIs
<1>2. \A k : k \in Of(log, j, {"claim"}) \/ k \in Of(log, j, {"result"})
             => k \in Of(log, j, Deciding)
  BY DEF Of, Deciding
<1>3. Len(log) \in Nat
  OBVIOUS
<1>4. CASE d = 0
  BY <1>1, <1>2, <1>4 DEF Unheld
<1>5. CASE d # 0
  <2>1. /\ d \in Of(log, j, {"claim", "retry"}) /\ d \in 1..Len(log)
        /\ log[d].kind = "claim" => ExpiredBy(log, d)
    <3>1. d \in Of(log, j, Deciding) /\ log[d].kind \in {"claim", "result", "retry"}
      BY <1>1, <1>5 DEF Of, Deciding
    <3>2. log[d].kind # "result" /\ (log[d].kind = "claim" => ExpiredBy(log, d))
      BY <1>5, <3>1, StateIs
    <3> QED BY <1>1, <3>1, <3>2 DEF Of
  <2>2. Unheld(log, j, d)
    BY <2>1 DEF Grammar
  <2>3. \A i \in Of(log, j, {"result"}) : i >= Len(log) + 1
    <3> SUFFICES ASSUME NEW i \in Of(log, j, {"result"}) PROVE FALSE
      OBVIOUS
    <3>1. i >= d /\ i <= d /\ i \in 1..Len(log)
      BY <1>1, <1>2, <2>2 DEF Unheld
    <3>2. i # d
      BY <2>1 DEF Of
    <3> QED BY <2>1, <3>1, <3>2
  <2>4. ASSUME NEW i \in Of(log, j, {"claim"})
        PROVE  \E m \in Of(log, j, {"expire"}) : m < Len(log) + 1 /\ Answers(log, i, m)
    <3>1. i <= d /\ i \in 1..Len(log) /\ \A m \in Of(log, j, {"expire"}) : m \in 1..Len(log)
      BY <1>1, <1>2, OfIsFinite
    <3>2. CASE i < d
      BY <1>3, <2>1, <2>2, <3>1, <3>2 DEF Unheld
    <3>3. CASE i = d
      <4>1. PICK m \in Of(log, j, {"expire"}) : m > d
        BY <2>1, <3>3 DEF ExpiredBy, Of
      <4>2. Answers(log, d, m)
        BY <2>1, <3>1, <4>1, ExpireDecides
      <4> QED BY <1>3, <3>1, <3>3, <4>2
    <3> QED BY <2>1, <3>1, <3>2, <3>3
  <2> QED BY <2>3, <2>4 DEF Unheld
<1> QED BY <1>4, <1>5

-----------------------------------------------------------------------------
(* What is written keeps the grammar.                                      *)

LEMMA Grows ==
    ASSUME lines \in Seq(Line), NEW new \in Seq(Line), lines' = lines \o new
    PROVE  /\ lines' \in Seq(Line) /\ Len(lines') = Len(lines) + Len(new)
           /\ Agree(lines, lines', Len(lines))
           /\ \A i \in 1..Len(lines') :
                 \/ i \in 1..Len(lines) /\ lines'[i] = lines[i]
                 \/ /\ i > Len(lines) /\ i - Len(lines) \in 1..Len(new)
                    /\ lines'[i] = new[i - Len(lines)]
           /\ Len(lines) \in Nat /\ Len(new) \in Nat
<1>1. /\ lines' \in Seq(Line)
      /\ Len(lines') = Len(lines) + Len(new)
      /\ \A i \in 1..Len(lines) + Len(new) :
            lines'[i] = IF i <= Len(lines) THEN lines[i] ELSE new[i - Len(lines)]
  BY ConcatProperties
<1>2. Len(lines) \in Nat /\ Len(new) \in Nat
  OBVIOUS
<1> QED BY <1>1, <1>2 DEF Agree

\* A job nobody holds stays so until a line claims or finishes it.
LEMMA StaysUnheld ==
    ASSUME lines \in Seq(Line), NEW new \in Seq(Line), lines' = lines \o new,
           NEW j \in Job, Unheld(lines, j, Len(lines) + 1),
           \A i \in 1..Len(new) : new[i].kind \in {"claim", "result"} => new[i].job # j
    PROVE  Unheld(lines', j, Len(lines') + 1)
<1>1. /\ lines' \in Seq(Line) /\ Len(lines') = Len(lines) + Len(new)
      /\ Agree(lines, lines', Len(lines))
      /\ \A i \in 1..Len(lines') :
            \/ i \in 1..Len(lines) /\ lines'[i] = lines[i]
            \/ /\ i > Len(lines) /\ i - Len(lines) \in 1..Len(new)
               /\ lines'[i] = new[i - Len(lines)]
      /\ Len(lines) \in Nat /\ Len(new) \in Nat
  BY Grows
<1>2. Unheld(lines', j, Len(lines) + 1)
  <2>1. Len(lines) + 1 \in 1..(Len(lines) + 1)
    BY <1>1
  <2>2. \A k \in 1..(Len(lines) + 1) : Unheld(lines, j, k) => Unheld(lines', j, k)
    BY <1>1, Stable
  <2> QED BY <2>1, <2>2
<1>3. \A i : i \in Of(lines', j, {"claim"}) \/ i \in Of(lines', j, {"result"})
             => i \in 1..Len(lines)
  BY <1>1 DEF Of
<1>4. \A i \in Of(lines', j, {"result"}) : FALSE
  BY <1>1, <1>2, <1>3 DEF Unheld
<1>5. \A i \in Of(lines', j, {"claim"}) :
        \E m \in Of(lines', j, {"expire"}) : m < Len(lines') + 1 /\ Answers(lines', i, m)
  <2> TAKE i \in Of(lines', j, {"claim"})
  <2>1. PICK m \in Of(lines', j, {"expire"}) : m < Len(lines) + 1 /\ Answers(lines', i, m)
    BY <1>1, <1>2, <1>3 DEF Unheld
  <2>2. m \in 1..Len(lines')
    BY <1>1, OfIsFinite
  <2> QED BY <1>1, <2>1, <2>2
<1> QED BY <1>4, <1>5 DEF Unheld

\* Lines that neither claim, retry nor expire keep the grammar.
LEMMA QuietGrammar ==
    ASSUME lines \in Seq(Line), Grammar(lines), NEW new \in Seq(Line), lines' = lines \o new,
           \A i \in 1..Len(new) : new[i].kind \notin {"claim", "retry", "expire"}
    PROVE  Grammar(lines')
<1>1. /\ Agree(lines, lines', Len(lines)) /\ lines' \in Seq(Line)
      /\ \A i \in 1..Len(lines') :
            \/ i \in 1..Len(lines) /\ lines'[i] = lines[i]
            \/ /\ i > Len(lines) /\ i - Len(lines) \in 1..Len(new)
               /\ lines'[i] = new[i - Len(lines)]
      /\ Len(lines) \in Nat
  BY Grows
<1>2. \A j, i : i \in Of(lines', j, {"claim", "retry"}) \/ i \in Of(lines', j, {"expire"})
             => ~(i > Len(lines))
  BY <1>1 DEF Of
<1> QED BY <1>1, <1>2, Extended

\* What an action leaves behind that writes no claim, retry, expire or result.
LEMMA QuietWrite ==
    ASSUME LogInv, NEW new \in Seq(Line), lines' = lines \o new,
           \A i \in 1..Len(new) :
              new[i].kind \notin {"claim", "retry", "expire", "result"}
    PROVE  /\ lines' \in Seq(Line) /\ Grammar(lines')
           /\ \A j \in Job : Unheld(lines, j, Len(lines) + 1) => Unheld(lines', j, Len(lines') + 1)
           /\ lines # << >> => lines' # << >> /\ lines'[1].kind = "start"
<1>1. lines \in Seq(Line) /\ Grammar(lines) /\ (lines # << >> => lines[1].kind = "start")
  BY DEF LogInv, Shape, Phases
<1>2. /\ lines' \in Seq(Line) /\ Len(lines') = Len(lines) + Len(new)
      /\ Agree(lines, lines', Len(lines))
  BY <1>1, Grows
<1>3. Grammar(lines')
  BY <1>1, QuietGrammar
<1>4. \A j \in Job : Unheld(lines, j, Len(lines) + 1) => Unheld(lines', j, Len(lines') + 1)
  BY <1>1, StaysUnheld
<1>5. lines # << >> => lines' # << >> /\ lines'[1].kind = "start"
  BY <1>1, <1>2 DEF Agree
<1> QED BY <1>2, <1>3, <1>4, <1>5

\* An action that leaves the log alone, and the process in its phase.
LEMMA QuietProcess ==
    ASSUME LogInv, UNCHANGED <<disk, label, limit>>, Shape', 
           mode' \in {"off", "recovering", "done"} => DOMAIN in_flight' = {},
           mode' \notin {"beating", "raised"} => beating' = {},
           mode' # "settling" => settling' = {},
           lines = << >> => mode' = "off",
           ready' \cap DOMAIN in_flight' = {},
           \A j \in ready' : Unheld(lines, j, Len(lines) + 1)
    PROVE  LogInv'
BY DEF LogInv, Phases, disk

LEMMA InitLog == Init => LogInv
<1> SUFFICES ASSUME Init PROVE LogInv
  OBVIOUS
<1>1. limit \in Nat
  BY RunAssumption DEF Init
<1>2. IsFiniteSet({}) /\ Cardinality({}) = 0
  BY FS_EmptySet
<1>3. /\ in_flight = << >> /\ ready = {} /\ gone = {} /\ beating = {} /\ settling = {}
      /\ step = "intent" /\ mode = "off" /\ lines = << >> /\ now = 0
      /\ label \in [Job -> Labels]
  BY DEF Init, Idle
<1>4. DOMAIN in_flight = {}
  BY <1>3
<1>5. Shape
  BY <1>1, <1>2, <1>3, <1>4 DEF Shape
<1>6. Phases
  BY <1>3, <1>4 DEF Phases
<1>7. Grammar(lines)
  BY <1>3 DEF Grammar, Of
<1> QED BY <1>5, <1>6, <1>7 DEF LogInv

\* A log without a start line is empty.
LEMMA NoStart ==
    ASSUME LogInv
    PROVE  count(lines, "start") = 0 <=> lines = << >>
<1> DEFINE S == {i \in DOMAIN lines : lines[i].kind = "start"}
<1>1. lines \in Seq(Line) /\ (lines # << >> => lines[1].kind = "start")
  BY DEF LogInv, Shape, Phases
<1>2. IsFiniteSet(S)
  <2>1. S \in SUBSET (1..Len(lines)) /\ Len(lines) \in Nat
    BY <1>1
  <2>2. IsFiniteSet(1..Len(lines))
    BY <2>1, FS_Interval
  <2> QED BY <2>1, <2>2, FS_Subset
<1>3. S = {} <=> lines = << >>
  BY <1>1
<1>4. count(lines, "start") = Cardinality(S)
  BY DEF count
<1> HIDE DEF S
<1> QED BY <1>2, <1>3, <1>4, FS_EmptySet

LEMMA CallLog == ASSUME LogInv, Call PROVE LogInv'
<1>1. /\ DOMAIN in_flight = {} /\ beating = {} /\ settling = {}
      /\ UNCHANGED <<in_flight, gone, beating, settling, step, label, limit>>
  BY DEF Call, LogInv, Phases, settings
<1>2. now' \in Nat
  BY DEF Call, LogInv, Shape
<1>3. CASE count(lines, "start") # 0
  <2>1. UNCHANGED <<disk, ready>> /\ mode' = "recovering"
    BY <1>3 DEF Call
  <2>2. lines # << >>
    BY <1>3, NoStart
  <2>3. Shape'
    BY <1>1, <1>2, <2>1 DEF LogInv, Shape, disk
  <2> QED BY <1>1, <2>1, <2>2, <2>3, QuietProcess DEF LogInv, Phases
<1>4. CASE count(lines, "start") = 0
  <2> DEFINE new == <<RunLine("start", now')>>
  <2>1. /\ lines = << >> /\ lines' = lines \o new /\ ready' = Job /\ mode' = "filling"
    BY <1>4, NoStart DEF Call, commit
  <2>2. /\ new \in Seq(Line) /\ Len(new) = 1 /\ new[1].kind = "start"
    <3>1. RunLine("start", now') \in Line
      BY <1>2 DEF RunLine, Line
    <3> QED BY <3>1 DEF RunLine
  <2> HIDE DEF new
  <2>3. lines' = new
    BY <2>1, <2>2
  <2>4. lines' \in Seq(Line) /\ Grammar(lines')
    BY <2>1, <2>2, QuietWrite
  <2>5. \A j \in Job : Unheld(lines', j, Len(lines') + 1)
    BY <2>2, <2>3 DEF Unheld, Of
  <2>6. Shape'
    BY <1>1, <1>2, <2>1, <2>4 DEF LogInv, Shape
  <2>7. Phases'
    BY <1>1, <2>1, <2>2, <2>3, <2>5 DEF Phases
  <2> QED BY <2>4, <2>6, <2>7 DEF LogInv
<1> QED BY <1>3, <1>4

\* A crash keeps the first lines of the log, and with them its grammar.
LEMMA CrashLog == ASSUME Inv, LogInv, Crash PROVE LogInv'
<1>1. /\ lines' = SubSeq(lines, 1, synced) /\ mode' = "off" /\ in_flight' = << >>
      /\ ready' = {} /\ gone' = {} /\ beating' = {} /\ settling' = {} /\ step' = "intent"
      /\ UNCHANGED <<now, label, limit>>
  BY DEF Crash, durable, settings
<1>2. synced \in 0..Len(lines) /\ lines \in Seq(Line) /\ Len(lines) \in Nat
  BY DEF Inv, DiskShape, LogInv, Shape
<1>3. /\ lines' \in Seq(Line) /\ Len(lines') = synced
      /\ \A i \in 1..synced : lines'[i] = lines[i]
  BY <1>1, <1>2
<1>4. Agree(lines, lines', synced)
  BY <1>2, <1>3 DEF Agree
<1>5. Grammar(lines')
  <2>1. \A j, kinds : \A k \in Of(lines', j, kinds) : ~(k > synced)
    BY <1>2, <1>3 DEF Of
  <2> QED BY <1>4, <2>1, Extended DEF LogInv
<1>6. DOMAIN in_flight' = {} /\ IsFiniteSet({}) /\ Cardinality({}) = 0
  BY <1>1, FS_EmptySet
<1>7. Shape'
  BY <1>1, <1>3, <1>6 DEF LogInv, Shape
<1>8. lines' # << >> => lines'[1].kind = "start"
  <2>1. lines' # << >> => lines # << >> /\ lines'[1] = lines[1]
    BY <1>2, <1>3
  <2> QED BY <2>1 DEF LogInv, Phases
<1>9. Phases'
  BY <1>1, <1>6, <1>8 DEF Phases
<1> QED BY <1>5, <1>7, <1>9 DEF LogInv

\* The newest claim of a job whose lease runs out is the line that decides.
LEMMA DiesIs ==
    ASSUME NEW log \in Seq(Line), NEW j \in Job, state_of(log, j) = "running"
    PROVE  LET i == newest(log, j, {"claim"})
           IN  /\ i \in Of(log, j, {"claim"}) /\ i = newest(log, j, Deciding)
               /\ \A k \in Of(log, j, {"claim", "retry", "result"}) : k <= i
<1> DEFINE i == newest(log, j, {"claim"})
           d == newest(log, j, Deciding)
<1>1. /\ d \in Of(log, j, Deciding) \/ d = 0
      /\ \A k \in Of(log, j, Deciding) : k \in 1..Len(log) /\ k <= d
  BY NewestIs
<1>2. /\ i \in Of(log, j, {"claim"}) \/ (i = 0 /\ Of(log, j, {"claim"}) = {})
      /\ \A k \in Of(log, j, {"claim"}) : k \in 1..Len(log) /\ k <= i
  BY NewestIs
<1>3. d # 0 /\ log[d].kind = "claim"
  <2>1. d # 0 => log[d].kind \in {"claim", "result", "retry"}
    BY StateIs DEF Deciding
  <2> QED BY <2>1, StateIs
<1>4. d \in Of(log, j, {"claim"})
  BY <1>1, <1>3 DEF Of
<1>5. i \in Of(log, j, {"claim"}) /\ d <= i
  BY <1>2, <1>4
<1>6. i \in Of(log, j, Deciding)
  BY <1>5 DEF Of, Deciding
<1>7. i = d
  BY <1>1, <1>2, <1>4, <1>5, <1>6
<1>8. \A k \in Of(log, j, {"claim", "retry", "result"}) : k \in Of(log, j, Deciding)
  BY DEF Of, Deciding
<1> HIDE DEF i, d
<1>9. /\ i \in Of(log, j, {"claim"}) /\ i = d
      /\ \A k \in Of(log, j, {"claim", "retry", "result"}) : k <= i
  BY <1>1, <1>5, <1>7, <1>8
<1> QED BY <1>9 DEF i, d

LEMMA ExpireLog == ASSUME LogInv, Expire PROVE LogInv'
<1>1. PICK j \in Job :
        /\ IsFirst(j, Owed(lines, now))
        /\ LET owner == lines[newest(lines, j, {"claim"})].owner
               new == <<ExpireLine(now, j, owner)>>
           IN commit(new) \/ write(new)
  BY DEF Expire
<1>2. PICK i : i = newest(lines, j, {"claim"})
  OBVIOUS
<1> DEFINE line == ExpireLine(now, j, lines[i].owner)
           new == <<line>>
<1>3. lines \in Seq(Line) /\ Grammar(lines) /\ now \in Nat
  BY DEF LogInv, Shape
<1>4. state_of(lines, j) = "running" /\ dead(Deadline(lines, i), now)
  BY <1>1, <1>2 DEF IsFirst, Owed, Dies
<1>5. /\ i \in Of(lines, j, {"claim"})
      /\ \A k \in Of(lines, j, {"claim", "retry", "result"}) : k <= i
  BY <1>2, <1>3, <1>4, DiesIs
<1>6. /\ i \in 1..Len(lines) /\ lines[i].job = j /\ lines[i] \in Line
      /\ lines[i].owner \in Owner
  <2>1. i \in 1..Len(lines) /\ lines[i].job = j /\ lines[i].kind = "claim"
    BY <1>3, <1>5, OfIsFinite DEF Of
  <2>2. lines[i] \in Line
    BY <1>3, <2>1
  <2> QED BY <2>1, <2>2, LineFacts
<1>7. lines' = lines \o new
  BY <1>1, <1>2 DEF commit, write
<1>8. /\ line.kind = "expire" /\ line.job = j /\ line.owner = lines[i].owner
      /\ line.tick = now /\ line \in Line
  BY <1>3, <1>6 DEF ExpireLine, Line
<1>9. UNCHANGED <<now, mode, process, label, limit>>
  BY DEF Expire, settings
<1> HIDE DEF line
<1>10. new \in Seq(Line) /\ Len(new) = 1 /\ new[1] = line
  BY <1>8
<1> HIDE DEF new
<1> DEFINE n == Len(lines)
<1>11. /\ lines' \in Seq(Line) /\ Len(lines') = n + 1 /\ n \in Nat
       /\ Agree(lines, lines', n) /\ lines'[n + 1] = line
       /\ \A k \in 1..n : lines'[k] = lines[k]
  <2>1. /\ lines' \in Seq(Line) /\ Len(lines') = Len(lines) + Len(new)
        /\ Agree(lines, lines', Len(lines))
        /\ \A k \in 1..Len(lines') :
              \/ k \in 1..Len(lines) /\ lines'[k] = lines[k]
              \/ /\ k > Len(lines) /\ k - Len(lines) \in 1..Len(new)
                 /\ lines'[k] = new[k - Len(lines)]
        /\ Len(lines) \in Nat
    BY <1>3, <1>7, <1>10, Grows
  <2> QED BY <1>10, <2>1
<1> HIDE DEF n
<1>12. Expires(lines', j, n + 1)
  <2>1. i \in 1..n
    BY <1>6 DEF n
  <2>2. \A k \in 1..n : \A kinds : k \in Of(lines', j, kinds) <=> k \in Of(lines, j, kinds)
    BY <1>11, Stable
  <2>3. PICK b \in {i} \cup Beats(lines, i) :
          Promise(lines, i, b, n + 1) /\ Deadline(lines, i) = lines[b].tick + lines[b].ticks
    BY <1>3, <1>5, DeadlineIs DEF n
  <2>4. b \in 1..n /\ Beats(lines, i) \in SUBSET (1..n)
    BY <1>3, <2>1, <2>3, OfIsFinite DEF Beats, n
  <2>5. Beats(lines', i) = Beats(lines, i)
    <3>1. n + 1 \notin Beats(lines', i)
      BY <1>8, <1>11 DEF Beats, Of
    <3>2. \A k \in Beats(lines', i) : k \in 1..(n + 1)
      BY <1>11 DEF Beats, Of
    <3>3. \A k \in 1..n : k \in Beats(lines', i) <=> k \in Beats(lines, i)
      BY <1>6, <1>11, <2>1, <2>2 DEF Beats
    <3>4. \A k \in Beats(lines', i) : k \in 1..n
      BY <1>11, <3>1, <3>2
    <3> QED BY <2>4, <3>3, <3>4
  <2>6. Promise(lines', i, b, n + 1)
    BY <2>3, <2>5 DEF Promise
  <2>7. now >= lines[b].tick + lines[b].ticks + MAX_MISSES
    BY <1>4, <2>3 DEF dead
  <2>8. /\ lines'[b] = lines[b] /\ lines'[i] = lines[i] /\ i < n + 1
        /\ b \in {i} \cup Beats(lines', i)
    BY <1>11, <2>1, <2>3, <2>4, <2>5
  <2>9. Answers(lines', i, n + 1)
    BY <1>8, <1>11, <2>6, <2>7, <2>8 DEF Answers
  <2>10. i \in Of(lines', j, {"claim"})
    BY <1>5, <2>1, <2>2
  <2>11. \A k \in Of(lines', j, {"claim", "retry", "result"}) : k < n + 1 => k <= i
    <3> SUFFICES ASSUME NEW k \in Of(lines', j, {"claim", "retry", "result"}), k < n + 1
                 PROVE  k <= i
      OBVIOUS
    <3>1. k \in 1..n
      BY <1>11 DEF Of
    <3> QED BY <1>5, <2>2, <3>1
  <2> QED BY <2>9, <2>10, <2>11 DEF Expires
<1>13. Grammar(lines')
  <2>1. \A l \in Job : \A k \in Of(lines', l, {"claim", "retry"}) : ~(k > n)
    BY <1>8, <1>11 DEF Of
  <2>2. \A l \in Job : \A m \in Of(lines', l, {"expire"}) : m > n => m = n + 1 /\ l = j
    BY <1>8, <1>11 DEF Of
  <2>3. \A l \in Job : \A m \in Of(lines', l, {"expire"}) : m > n => Expires(lines', l, m)
    BY <1>12, <2>2
  <2> QED BY <1>3, <1>11, <2>1, <2>3, Extended
<1>14. Shape'
  BY <1>9, <1>11 DEF LogInv, Shape, process
<1>15. \A l \in ready : Unheld(lines', l, Len(lines') + 1)
  <2> TAKE l \in ready
  <2>1. l \in Job /\ Unheld(lines, l, Len(lines) + 1)
    BY DEF LogInv, Shape, Phases
  <2>2. \A k \in 1..Len(new) : new[k].kind \notin {"claim", "result"}
    BY <1>8, <1>10
  <2> QED BY <1>3, <1>7, <1>10, <2>1, <2>2, StaysUnheld
<1>16. lines' # << >> /\ lines'[1].kind = "start"
  BY <1>5, <1>6, <1>11 DEF LogInv, Phases, n
<1>17. Phases'
  BY <1>9, <1>15, <1>16 DEF LogInv, Phases, process
<1> QED BY <1>13, <1>14, <1>17 DEF LogInv

LEMMA JobIsFinite == IsFiniteSet(Job)
<1>1. Jobs \in Surjection(1..Len(Jobs), Job) /\ Len(Jobs) \in Nat
  <2>1. Jobs \in Seq(Job) /\ Job = {Jobs[x] : x \in DOMAIN Jobs}
    BY PlanAssumption DEF Job, Range
  <2>2. DOMAIN Jobs = 1..Len(Jobs) /\ Len(Jobs) \in Nat /\ Jobs \in [1..Len(Jobs) -> Job]
    BY <2>1
  <2> QED BY <2>1, <2>2 DEF Surjection
<1>2. IsFiniteSet(1..Len(Jobs))
  BY <1>1, FS_Interval
<1> QED BY <1>1, <1>2, FS_Surjection

\* The clock goes to a tick.
LEMMA WaitLog == ASSUME LogInv, Wait PROVE LogInv'
<1>1. /\ mode = "recovering" /\ UNCHANGED <<disk, mode, process, label, limit>>
      /\ \/ now' = top(lines)
         \/ /\ Running # {}
            /\ now' = Max({Deadline(lines, leases(lines)[j]) + MAX_MISSES : j \in Running})
  BY DEF Wait, settings
<1>2. lines \in Seq(Line) /\ Grammar(lines) /\ Len(lines) \in Nat
  BY DEF LogInv, Shape
<1>3. CASE now' = top(lines)
  <2> DEFINE ticks == {lines[i].tick : i \in DOMAIN lines}
             S == ticks \cup {0}
             f == [i \in 1..Len(lines) |-> lines[i].tick]
  <2>1. f \in Surjection(1..Len(lines), ticks)
    <3>1. DOMAIN lines = 1..Len(lines)
      BY <1>2
    <3> QED BY <3>1 DEF Surjection
  <2>2. ticks \in SUBSET Nat
    <3>1. \A i \in DOMAIN lines : lines[i].tick \in Nat
      BY <1>2, LineFacts
    <3> QED BY <3>1
  <2>3. top(lines) = Max(S)
    <3>1. S = {0} \cup ticks
      OBVIOUS
    <3> QED BY <3>1 DEF top
  <2> HIDE DEF f, ticks
  <2>4. IsFiniteSet(S)
    <3>1. IsFiniteSet(1..Len(lines))
      BY <1>2, FS_Interval
    <3>2. IsFiniteSet(ticks)
      BY <2>1, <3>1, FS_Surjection
    <3> QED BY <3>2, FS_AddElement
  <2>5. S \in SUBSET Nat /\ S # {}
    BY <2>2
  <2> HIDE DEF S
  <2>6. Max(S) \in S
    BY <2>4, <2>5, MaxIs
  <2>7. now' \in Nat
    BY <1>3, <2>3, <2>5, <2>6
  <2>8. Shape'
    BY <1>1, <2>7 DEF LogInv, Shape, disk, process
  <2> QED BY <1>1, <2>8, QuietProcess DEF LogInv, Phases, process
<1>4. CASE /\ Running # {}
           /\ now' = Max({Deadline(lines, leases(lines)[j]) + MAX_MISSES : j \in Running})
  <2> DEFINE S == {Deadline(lines, leases(lines)[j]) + MAX_MISSES : j \in Running}
             f == [j \in Running |-> Deadline(lines, leases(lines)[j]) + MAX_MISSES]
  <2>1. f \in Surjection(Running, S)
    BY DEF Surjection
  <2>2. \A j \in Running : Deadline(lines, leases(lines)[j]) + MAX_MISSES \in Nat
    <3> TAKE j \in Running
    <3>1. j \in Job /\ j \in DOMAIN leases(lines) /\ state_of(lines, j) = "running"
      BY <1>2, ReadersAgree DEF Running, fold
    <3> DEFINE i == newest(lines, j, {"claim"})
    <3>2. leases(lines)[j] = i
      BY <3>1 DEF leases
    <3>3. i \in Of(lines, j, {"claim"})
      BY <1>2, <3>1, DiesIs
    <3> HIDE DEF i
    <3>4. PICK b \in {i} \cup Beats(lines, i) : Deadline(lines, i) = lines[b].tick + lines[b].ticks
      BY <1>2, <3>3, DeadlineIs
    <3>5. b \in DOMAIN lines /\ lines[b].kind \in {"claim", "beat"}
      BY <3>3, <3>4 DEF Beats, Of
    <3>6. lines[b] \in Line
      BY <1>2, <3>5
    <3>7. lines[b].tick \in Nat /\ lines[b].ticks \in Nat
      BY <3>5, <3>6, LineFacts
    <3> QED BY <3>2, <3>4, <3>7 DEF MAX_MISSES
  <2>3. IsFiniteSet(Running)
    BY JobIsFinite, FS_Subset DEF Running
  <2>4. S \in SUBSET Nat /\ S # {}
    BY <1>4, <2>2
  <2>5. now' = Max(S)
    BY <1>4
  <2> HIDE DEF f, S
  <2>6. IsFiniteSet(S)
    BY <2>1, <2>3, FS_Surjection
  <2>7. Max(S) \in S
    BY <2>4, <2>6, MaxIs
  <2>8. now' \in Nat
    BY <2>4, <2>5, <2>7
  <2>9. Shape'
    BY <1>1, <2>8 DEF LogInv, Shape, disk, process
  <2> QED BY <1>1, <2>9, QuietProcess DEF LogInv, Phases, process
<1> QED BY <1>1, <1>3, <1>4

\* What recovery hands over is held by nobody.
LEMMA RecoveredLog == ASSUME LogInv, Recovered PROVE LogInv'
<1>1. /\ mode = "recovering" /\ mode' = "filling"
      /\ Owed(lines, now) = {} /\ Running = {}
      /\ gone' = reclaimable(lines, now) /\ ready' = {j \in Job : ~Finished(j)}
      /\ UNCHANGED <<disk, now, in_flight, beating, settling, step, label, limit>>
  BY DEF Recovered, settings
<1>2. lines \in Seq(Line) /\ Grammar(lines) /\ lines # << >>
  BY <1>1 DEF LogInv, Shape, Phases
<1>3. \A j \in ready' : j \in Job /\ Unheld(lines, j, Len(lines) + 1)
  <2> TAKE j \in ready'
  <2>1. j \in Job /\ state_of(lines, j) \notin {"done", "failed"}
    BY <1>1 DEF Finished
  <2>2. state_of(lines, j) # "running"
    BY <1>1, <2>1 DEF Running, Owed, fold
  <2> QED BY <1>2, <2>1, <2>2, ReleasedIs
<1>4. DOMAIN in_flight = {} /\ beating = {} /\ settling = {}
  BY <1>1 DEF LogInv, Phases
<1>5. Shape'
  BY <1>1, <1>3 DEF LogInv, Shape, disk, reclaimable
<1> QED BY <1>1, <1>2, <1>3, <1>4, <1>5, QuietProcess

\* A claim's owner, length and answer have their types.
LEMMA ClaimTypes ==
    ASSUME LogInv, NEW j \in Job, NEW claims \in Nat, NEW attempt \in Nat \ {0}
    PROVE  /\ owner_at(claims).owner \in Owner /\ owner_at(claims).ticks \in Nat
           /\ answer(j, attempt).status \in {"ok", "failed", "died"}
           /\ answer(j, attempt).cost \in Nat
<1>1. /\ Workers \in Seq([owner : STRING, ticks : Nat \ {0, 1}])
      /\ Len(Workers) \in Nat /\ Len(Workers) > 0
  BY RunAssumption
<1>2. (claims % Len(Workers)) + 1 \in 1..Len(Workers)
  BY <1>1
<1>3. PICK k \in 1..Len(Workers) : owner_at(claims) = Workers[k]
  BY <1>2 DEF owner_at
<1>4. /\ owner_at(claims).owner \in Owner
      /\ owner_at(claims).ticks \in Nat
  <2> DEFINE W == [owner : STRING, ticks : Nat \ {0, 1}]
  <2>1. Workers \in Seq(W) /\ k \in 1..Len(Workers)
    BY <1>1
  <2> HIDE DEF W
  <2>2. Workers[k] \in W /\ k \in DOMAIN Workers
    BY <2>1
  <2>3. Workers[k].ticks \in Nat
    BY <2>2 DEF W
  <2> QED BY <1>3, <2>2, <2>3 DEF Owner
<1> DEFINE s == Answer[label[j]]
           S == {attempt, Len(s)}
<1>5. s \in Seq(Outcome) /\ Len(s) \in Nat /\ Len(s) > 0
  <2>1. label[j] \in Labels
    BY DEF LogInv, Shape
  <2>2. s \in Seq(Outcome) \ {<<>>}
    BY <2>1, RunAssumption
  <2> HIDE DEF s
  <2> QED BY <2>2
<1>6. answer(j, attempt) = s[Min(S)]
  BY DEF answer
<1> HIDE DEF s
<1>7. Min(S) \in S /\ Min(S) <= Len(s)
  <2>1. \E x \in S : \A y \in S : x =< y
    BY <1>5
  <2>2. Min(S) \in S /\ \A y \in S : Min(S) =< y
    BY <2>1 DEF Min
  <2> QED BY <2>2
<1>8. Min(S) \in 1..Len(s)
  BY <1>5, <1>7
<1>9. s[Min(S)] \in Outcome
  BY <1>5, <1>8
<1> QED BY <1>4, <1>6, <1>9 DEF Outcome

LEMMA StartOneLog == ASSUME LogInv, StartOne PROVE LogInv'
<1>1. PICK j \in Job :
        /\ IsFirst(j, ready)
        /\ LET spec == owner_at(count(lines, "claim"))
               attempt == 1 + Cardinality(Of(lines, j, {"claim"}))
               retry == JobLine("retry", now, j)
               claim == LeaseLine("claim", now, j, spec.owner, spec.ticks)
               entry == [owner |-> spec.owner, ticks |-> spec.ticks,
                         deadline |-> now + spec.ticks,
                         status |-> answer(j, attempt).status,
                         remaining |-> answer(j, attempt).cost]
           IN IF Steals(j)
              THEN mode' = "raised" /\ UNCHANGED <<disk, in_flight, ready, gone>>
              ELSE /\ write(IF j \in gone THEN <<retry, claim>> ELSE <<claim>>)
                   /\ in_flight' = [k \in DOMAIN in_flight \cup {j} |->
                                      IF k = j THEN entry ELSE in_flight[k]]
                   /\ ready' = ready \ {j}
                   /\ gone' = gone \ {j}
                   /\ UNCHANGED mode
  BY DEF StartOne
<1>2. /\ mode = "filling" /\ Cardinality(DOMAIN in_flight) < limit
      /\ UNCHANGED <<now, beating, settling, step, label, limit>>
  BY DEF StartOne, Free, settings
<1>3. /\ lines \in Seq(Line) /\ Grammar(lines) /\ now \in Nat /\ lines # << >>
      /\ beating = {} /\ settling = {}
  BY <1>2 DEF LogInv, Shape, Phases
<1>4. CASE Steals(j)
  <2>1. mode' = "raised" /\ UNCHANGED <<disk, in_flight, ready, gone>>
    BY <1>1, <1>4
  <2>2. Shape'
    BY <1>2, <2>1 DEF LogInv, Shape, disk
  <2> QED BY <1>2, <1>3, <2>1, <2>2, QuietProcess DEF LogInv, Phases
<1>5. CASE ~Steals(j)
  <2> DEFINE spec == owner_at(count(lines, "claim"))
             attempt == 1 + Cardinality(Of(lines, j, {"claim"}))
             retry == JobLine("retry", now, j)
             claim == LeaseLine("claim", now, j, spec.owner, spec.ticks)
             entry == [owner |-> spec.owner, ticks |-> spec.ticks,
                       deadline |-> now + spec.ticks,
                       status |-> answer(j, attempt).status,
                       remaining |-> answer(j, attempt).cost]
             new == IF j \in gone THEN <<retry, claim>> ELSE <<claim>>
  <2>1. /\ lines' = lines \o new /\ ready' = ready \ {j} /\ gone' = gone \ {j}
        /\ in_flight' = [k \in DOMAIN in_flight \cup {j} |->
                           IF k = j THEN entry ELSE in_flight[k]]
        /\ UNCHANGED mode
    BY <1>1, <1>5 DEF write
  <2>2. /\ spec.owner \in Owner /\ spec.ticks \in Nat
        /\ answer(j, attempt).status \in {"ok", "failed", "died"}
        /\ answer(j, attempt).cost \in Nat
    <3>1. count(lines, "claim") \in Nat
      <4> DEFINE S == {i \in DOMAIN lines : lines[i].kind = "claim"}
      <4>1. S \in SUBSET (1..Len(lines)) /\ Len(lines) \in Nat
        BY <1>3
      <4>2. IsFiniteSet(1..Len(lines))
        BY <4>1, FS_Interval
      <4>3. count(lines, "claim") = Cardinality(S)
        BY DEF count
      <4> HIDE DEF S
      <4>4. IsFiniteSet(S)
        BY <4>1, <4>2, FS_Subset
      <4> QED BY <4>3, <4>4, FS_CardinalityType
    <3>2. Cardinality(Of(lines, j, {"claim"})) \in Nat
      BY <1>3, OfIsFinite, FS_CardinalityType
    <3>3. attempt \in Nat \ {0}
      BY <3>2
    <3> HIDE DEF attempt
    <3> QED BY <3>1, <3>3, ClaimTypes
  <2>3. entry \in Entry
    BY <1>3, <2>2 DEF Entry
  <2>4. /\ claim \in Line /\ claim.kind = "claim" /\ claim.job = j
        /\ retry \in Line /\ retry.kind = "retry" /\ retry.job = j
    <3>1. claim \in [kind : {"claim", "beat"}, tick : Nat, job : Job, owner : Owner, ticks : Nat]
      BY <1>3, <2>2 DEF LeaseLine
    <3>2. retry \in [kind : {"retry", "intent", "effect"}, tick : Nat, job : Job]
      BY <1>3 DEF JobLine
    <3> QED BY <3>1, <3>2 DEF Line, LeaseLine, JobLine
  <2> HIDE DEF spec, attempt, retry, claim, entry
  <2>5. /\ new \in Seq(Line)
        /\ \/ new = <<claim>> /\ Len(new) = 1 /\ new[1] = claim
           \/ new = <<retry, claim>> /\ Len(new) = 2 /\ new[1] = retry /\ new[2] = claim
    BY <2>4
  <2> HIDE DEF new
  <2>6. /\ \A i \in 1..Len(new) : new[i].job = j /\ new[i].kind \in {"claim", "retry"}
        /\ \A i \in 1..Len(new) : new[i].kind = "claim" => i = Len(new)
        /\ Len(new) \in 1..2
    <3>1. CASE new = <<claim>> /\ Len(new) = 1 /\ new[1] = claim
      <4>1. \A i \in 1..Len(new) : i = 1
        BY <3>1
      <4> QED BY <2>4, <3>1, <4>1
    <3>2. CASE new = <<retry, claim>> /\ Len(new) = 2 /\ new[1] = retry /\ new[2] = claim
      <4>1. \A i \in 1..Len(new) : i = 1 \/ i = 2
        BY <3>2
      <4>2. Len(new) \in 1..2 /\ Len(new) = 2
        BY <3>2
      <4>3. ASSUME NEW i \in 1..Len(new)
            PROVE  /\ new[i].job = j /\ new[i].kind \in {"claim", "retry"}
                   /\ new[i].kind = "claim" => i = Len(new)
        <5>1. CASE i = 1
          BY <2>4, <3>2, <5>1
        <5>2. CASE i = 2
          BY <2>4, <3>2, <5>2
        <5> QED BY <4>1, <5>1, <5>2
      <4> QED BY <4>2, <4>3
    <3> QED BY <2>5, <3>1, <3>2
  <2>7. /\ lines' \in Seq(Line) /\ Len(lines') = Len(lines) + Len(new)
        /\ Agree(lines, lines', Len(lines))
        /\ \A i \in 1..Len(lines') :
              \/ i \in 1..Len(lines) /\ lines'[i] = lines[i]
              \/ /\ i > Len(lines) /\ i - Len(lines) \in 1..Len(new)
                 /\ lines'[i] = new[i - Len(lines)]
        /\ Len(lines) \in Nat /\ Len(new) \in Nat
    BY <1>3, <2>1, <2>5, Grows
  <2>8. j \in ready /\ Unheld(lines, j, Len(lines) + 1)
    BY <1>1 DEF IsFirst, LogInv, Phases
  <2>9. Unheld(lines', j, Len(lines) + 1)
    <3>1. Len(lines) + 1 \in 1..(Len(lines) + 1)
      BY <2>7
    <3>2. \A k \in 1..(Len(lines) + 1) : Unheld(lines, j, k) => Unheld(lines', j, k)
      BY <2>7, Stable
    <3> QED BY <2>8, <3>1, <3>2
  <2>10. ASSUME NEW k \in 1..Len(lines'), k > Len(lines)
         PROVE  Unheld(lines', j, k)
    <3>1. \A i \in Of(lines', j, {"result"}) : i >= k
      <4>1. \A i \in Of(lines', j, {"result"}) : i >= Len(lines) + 1
        BY <2>9 DEF Unheld
      <4>2. \A i \in Of(lines', j, {"result"}) : i \in 1..Len(lines)
        BY <2>6, <2>7 DEF Of
      <4> QED BY <2>7, <4>1, <4>2
    <3>2. ASSUME NEW i \in Of(lines', j, {"claim"}), i < k
          PROVE  \E m \in Of(lines', j, {"expire"}) : m < k /\ Answers(lines', i, m)
      <4>1. i \in 1..Len(lines') /\ lines'[i].kind = "claim"
        BY <2>7 DEF Of
      <4>2. i < Len(lines) + 1
        <5>1. CASE i > Len(lines) /\ i - Len(lines) \in 1..Len(new)
                   /\ lines'[i] = new[i - Len(lines)]
          <6>1. i - Len(lines) = Len(new)
            BY <2>6, <4>1, <5>1
          <6>2. i = Len(lines')
            BY <2>7, <4>1, <6>1
          <6> QED BY <2>7, <2>10, <3>2, <6>2
        <5>2. CASE i \in 1..Len(lines)
          BY <2>7, <5>2
        <5> QED BY <2>7, <4>1, <5>1, <5>2
      <4>3. PICK m \in Of(lines', j, {"expire"}) : m < Len(lines) + 1 /\ Answers(lines', i, m)
        BY <2>9, <4>2 DEF Unheld
      <4>4. m \in 1..Len(lines')
        BY <2>7, OfIsFinite
      <4> QED BY <2>7, <2>10, <4>3, <4>4
    <3> QED BY <3>1, <3>2 DEF Unheld
  <2>11. Grammar(lines')
    <3>1. \A l \in Job : \A k \in Of(lines', l, {"claim", "retry"}) :
             k > Len(lines) => Unheld(lines', l, k)
      <4> SUFFICES ASSUME NEW l \in Job, NEW k \in Of(lines', l, {"claim", "retry"}),
                          k > Len(lines)
                   PROVE  Unheld(lines', l, k)
        OBVIOUS
      <4>1. k \in 1..Len(lines') /\ lines'[k].job = l
        BY <2>7 DEF Of
      <4>2. l = j
        BY <2>6, <2>7, <4>1
      <4> QED BY <2>10, <4>1, <4>2
    <3>2. \A l \in Job : \A m \in Of(lines', l, {"expire"}) : ~(m > Len(lines))
      BY <2>6, <2>7 DEF Of
    <3> QED BY <1>3, <2>7, <3>1, <3>2, Extended
  <2>12. \A l \in ready' : Unheld(lines', l, Len(lines') + 1)
    <3> TAKE l \in ready'
    <3>1. l # j /\ l \in Job /\ Unheld(lines, l, Len(lines) + 1)
      BY <2>1 DEF LogInv, Shape, Phases
    <3> QED BY <1>3, <2>1, <2>5, <2>6, <3>1, StaysUnheld
  <2>13. lines' # << >> /\ lines'[1].kind = "start"
    BY <1>3, <2>7 DEF LogInv, Phases, Agree
  <2>14. /\ DOMAIN in_flight' = DOMAIN in_flight \cup {j}
         /\ \A k \in DOMAIN in_flight' : in_flight'[k] \in Entry
         /\ IsFiniteSet(DOMAIN in_flight') /\ Cardinality(DOMAIN in_flight') <= limit
    <3>1. /\ IsFiniteSet(DOMAIN in_flight) /\ limit \in Nat
          /\ \A k \in DOMAIN in_flight : in_flight[k] \in Entry
      BY DEF LogInv, Shape
    <3>2. DOMAIN in_flight' = DOMAIN in_flight \cup {j}
      BY <2>1
    <3>3. /\ IsFiniteSet(DOMAIN in_flight \cup {j})
          /\ Cardinality(DOMAIN in_flight \cup {j}) <= Cardinality(DOMAIN in_flight) + 1
          /\ Cardinality(DOMAIN in_flight) \in Nat
      BY <3>1, FS_AddElement, FS_CardinalityType
    <3>4. Cardinality(DOMAIN in_flight \cup {j}) \in Nat
      BY <3>3, FS_CardinalityType
    <3> QED BY <1>2, <2>1, <2>3, <3>1, <3>2, <3>3, <3>4
  <2>15. Shape'
    BY <1>2, <2>1, <2>7, <2>14 DEF LogInv, Shape
  <2>16. Phases'
    BY <1>2, <1>3, <2>1, <2>12, <2>13, <2>14 DEF LogInv, Phases
  <2> QED BY <2>11, <2>15, <2>16 DEF LogInv
<1> QED BY <1>4, <1>5

\* A line the process writes of a lease, an effect or the run is a line.
LEMMA LinesTyped ==
    ASSUME NEW t \in Nat, NEW j \in Job
    PROVE  /\ JobLine("intent", t, j) \in Line /\ JobLine("effect", t, j) \in Line
           /\ RunLine("done", t) \in Line
           /\ \A o \in Owner, n \in Nat : LeaseLine("beat", t, j, o, n) \in Line
           /\ \A o \in Owner, s \in {"ok", "failed", "died"} : ResultLine(t, j, o, s) \in Line
<1>1. /\ JobLine("intent", t, j) \in [kind : {"retry", "intent", "effect"}, tick : Nat, job : Job]
      /\ JobLine("effect", t, j) \in [kind : {"retry", "intent", "effect"}, tick : Nat, job : Job]
  BY DEF JobLine
<1>2. RunLine("done", t) \in [kind : {"start", "done"}, tick : Nat]
  BY DEF RunLine
<1>3. \A o \in Owner, n \in Nat : LeaseLine("beat", t, j, o, n) \in
         [kind : {"claim", "beat"}, tick : Nat, job : Job, owner : Owner, ticks : Nat]
  BY DEF LeaseLine
<1>4. \A o \in Owner, s \in {"ok", "failed", "died"} : ResultLine(t, j, o, s) \in
         [kind : {"result"}, tick : Nat, job : Job, owner : Owner,
          status : {"ok", "failed", "died"}]
  BY DEF ResultLine
<1>5. /\ JobLine("intent", t, j) \in Line /\ JobLine("effect", t, j) \in Line
  BY <1>1 DEF Line
<1>6. RunLine("done", t) \in Line
  BY <1>2 DEF Line
<1>7. \A o \in Owner, n \in Nat : LeaseLine("beat", t, j, o, n) \in Line
  BY <1>3 DEF Line
<1>8. \A o \in Owner, s \in {"ok", "failed", "died"} : ResultLine(t, j, o, s) \in Line
  BY <1>4 DEF Line
<1> QED BY <1>5, <1>6, <1>7, <1>8

LEMMA TickLog == ASSUME LogInv, Tick PROVE LogInv'
<1>1. /\ mode = "filling" /\ mode' = "beating" /\ now' = now + 1 /\ beating' = DOMAIN in_flight
      /\ UNCHANGED <<disk, in_flight, ready, gone, settling, step, label, limit>>
  BY DEF Tick, settings
<1>2. Shape'
  BY <1>1 DEF LogInv, Shape, disk
<1> QED BY <1>1, <1>2, QuietProcess DEF LogInv, Phases

LEMMA WorkLog == ASSUME LogInv, Work PROVE LogInv'
<1>1. /\ mode = "beating" /\ mode' = "settling" /\ beating = {}
      /\ DOMAIN in_flight' = DOMAIN in_flight
      /\ settling' \subseteq DOMAIN in_flight
      /\ UNCHANGED <<disk, now, ready, gone, beating, step, label, limit>>
  BY DEF Work, settings
<1>2. ASSUME NEW j \in DOMAIN in_flight PROVE in_flight'[j] \in Entry
  <2>1. in_flight[j] \in Entry
    BY DEF LogInv, Shape
  <2>2. in_flight'[j] = [in_flight[j] EXCEPT !.remaining = IF @ > 0 THEN @ - 1 ELSE 0]
    BY DEF Work
  <2>3. (IF in_flight[j].remaining > 0 THEN in_flight[j].remaining - 1 ELSE 0) \in Nat
    BY <2>1 DEF Entry
  <2> QED BY <2>1, <2>2, <2>3 DEF Entry
<1>3. Shape'
  BY <1>1, <1>2 DEF LogInv, Shape, disk
<1> QED BY <1>1, <1>3, QuietProcess DEF LogInv, Phases

LEMMA ApplyLog == ASSUME LogInv, Apply PROVE LogInv'
<1>1. /\ step' = "report"
      /\ UNCHANGED <<disk, now, mode, in_flight, ready, gone, beating, settling, label, limit>>
  BY DEF Apply, settings
<1>2. Shape'
  BY <1>1 DEF LogInv, Shape, disk
<1> QED BY <1>1, <1>2, QuietProcess DEF LogInv, Phases

LEMMA SettledLog == ASSUME LogInv, Settled PROVE LogInv'
<1>1. /\ mode = "settling" /\ mode' = "filling" /\ settling = {}
      /\ UNCHANGED <<disk, now, in_flight, ready, gone, beating, settling, step, label, limit>>
  BY DEF Settled, process, settings
<1>2. Shape'
  BY <1>1 DEF LogInv, Shape, disk
<1> QED BY <1>1, <1>2, QuietProcess DEF LogInv, Phases

LEMMA StillLog == ASSUME LogInv, UNCHANGED vars PROVE LogInv'
<1>1. UNCHANGED <<disk, now, mode, in_flight, ready, gone, beating, settling, step, label, limit>>
  BY DEF vars, process, settings
<1>2. Shape'
  BY <1>1 DEF LogInv, Shape, disk
<1> QED BY <1>1, <1>2, QuietProcess DEF LogInv, Phases

LEMMA DoneLog == ASSUME LogInv, Done PROVE LogInv'
<1> DEFINE new == <<RunLine("done", now)>>
<1>1. /\ mode = "filling" /\ mode' = "done" /\ ready = {} /\ DOMAIN in_flight = {}
      /\ lines' = lines \o new
      /\ UNCHANGED <<now, in_flight, ready, gone, beating, settling, step, label, limit>>
  BY DEF Done, commit, process, settings
<1>2. now \in Nat /\ lines # << >>
  BY <1>1 DEF LogInv, Shape, Phases
<1>3. new \in Seq(Line) /\ Len(new) = 1 /\ new[1].kind = "done"
  <2>1. RunLine("done", now) \in [kind : {"start", "done"}, tick : Nat]
    BY <1>2 DEF RunLine
  <2>2. RunLine("done", now) \in Line
    BY <2>1 DEF Line
  <2> QED BY <2>2 DEF RunLine
<1> HIDE DEF new
<1>4. \A i \in 1..Len(new) : new[i].kind = "done"
  BY <1>3
<1>5. /\ lines' \in Seq(Line) /\ Grammar(lines')
      /\ lines' # << >> /\ lines'[1].kind = "start"
  BY <1>1, <1>2, <1>3, <1>4, QuietWrite
<1>6. Shape'
  BY <1>1, <1>5 DEF LogInv, Shape
<1>7. Phases'
  BY <1>1, <1>5 DEF LogInv, Phases
<1> QED BY <1>5, <1>6, <1>7 DEF LogInv

LEMMA IntentLog == ASSUME LogInv, Intent PROVE LogInv'
<1>1. PICK j \in Job :
        /\ IsFirst(j, settling)
        /\ IF proven(lines, j)
           THEN step' = "report" /\ UNCHANGED disk
           ELSE step' = "apply" /\ commit(<<JobLine("intent", INTENT_TICK, j)>>)
  BY DEF Intent
<1>2. /\ mode = "settling"
      /\ UNCHANGED <<now, mode, in_flight, ready, gone, beating, settling, label, limit>>
  BY DEF Intent, settings
<1>3. CASE proven(lines, j)
  <2>1. step' = "report" /\ UNCHANGED disk
    BY <1>1, <1>3
  <2>2. Shape'
    BY <1>2, <2>1 DEF LogInv, Shape, disk
  <2> QED BY <1>2, <2>1, <2>2, QuietProcess DEF LogInv, Phases
<1>4. CASE ~proven(lines, j)
  <2> DEFINE new == <<JobLine("intent", INTENT_TICK, j)>>
  <2>1. step' = "apply" /\ lines' = lines \o new
    BY <1>1, <1>4 DEF commit
  <2>2. new \in Seq(Line) /\ Len(new) = 1 /\ new[1].kind = "intent"
    <3>1. JobLine("intent", INTENT_TICK, j) \in Line
      BY LinesTyped DEF INTENT_TICK
    <3> QED BY <3>1 DEF JobLine
  <2> HIDE DEF new
  <2>3. \A i \in 1..Len(new) : new[i].kind = "intent"
    BY <2>2
  <2>4. /\ lines' \in Seq(Line) /\ Grammar(lines')
        /\ \A l \in Job : Unheld(lines, l, Len(lines) + 1) => Unheld(lines', l, Len(lines') + 1)
        /\ lines # << >> => lines' # << >> /\ lines'[1].kind = "start"
    BY <2>1, <2>2, <2>3, QuietWrite
  <2>5. Shape'
    BY <1>2, <2>1, <2>4 DEF LogInv, Shape
  <2>6. Phases'
    BY <1>2, <2>1, <2>4, <2>5 DEF LogInv, Phases, Shape
  <2> QED BY <2>4, <2>5, <2>6 DEF LogInv
<1> QED BY <1>3, <1>4

LEMMA BeatLog == ASSUME LogInv, Beat PROVE LogInv'
<1>1. PICK j \in Job :
        /\ IsFirst(j, beating)
        /\ LET held == in_flight[j]
           IN IF now >= held.deadline
              THEN mode' = "raised" /\ UNCHANGED <<disk, in_flight, beating>>
              ELSE /\ write(<<LeaseLine("beat", now, j, held.owner, held.ticks)>>)
                   /\ in_flight' = [in_flight EXCEPT ![j].deadline = now + held.ticks]
                   /\ beating' = beating \ {j}
                   /\ UNCHANGED mode
  BY DEF Beat
<1>2. /\ mode = "beating"
      /\ UNCHANGED <<now, ready, gone, settling, step, label, limit>>
  BY DEF Beat, settings
<1>3. CASE now >= in_flight[j].deadline
  <2>1. mode' = "raised" /\ UNCHANGED <<disk, in_flight, beating>>
    BY <1>1, <1>3
  <2>2. Shape'
    BY <1>2, <2>1 DEF LogInv, Shape, disk
  <2> QED BY <1>2, <2>1, <2>2, QuietProcess DEF LogInv, Phases
<1>4. CASE ~(now >= in_flight[j].deadline)
  <2> DEFINE new == <<LeaseLine("beat", now, j, in_flight[j].owner, in_flight[j].ticks)>>
  <2>1. /\ lines' = lines \o new /\ beating' = beating \ {j} /\ UNCHANGED mode
        /\ in_flight' = [in_flight EXCEPT ![j].deadline = now + in_flight[j].ticks]
    BY <1>1, <1>4 DEF write
  <2>2. j \in DOMAIN in_flight /\ in_flight[j] \in Entry /\ now \in Nat
    BY <1>1 DEF IsFirst, LogInv, Shape
  <2>3. new \in Seq(Line) /\ Len(new) = 1 /\ new[1].kind = "beat"
    <3>1. LeaseLine("beat", now, j, in_flight[j].owner, in_flight[j].ticks) \in Line
      BY <2>2, LinesTyped DEF Entry
    <3> QED BY <3>1 DEF LeaseLine
  <2> HIDE DEF new
  <2>4. \A i \in 1..Len(new) : new[i].kind = "beat"
    BY <2>3
  <2>5. /\ lines' \in Seq(Line) /\ Grammar(lines')
        /\ \A l \in Job : Unheld(lines, l, Len(lines) + 1) => Unheld(lines', l, Len(lines') + 1)
        /\ lines # << >> => lines' # << >> /\ lines'[1].kind = "start"
    BY <2>1, <2>3, <2>4, QuietWrite
  <2>6. DOMAIN in_flight' = DOMAIN in_flight
    BY <2>1
  <2>7. ASSUME NEW k \in DOMAIN in_flight' PROVE in_flight'[k] \in Entry
    <3>1. in_flight[k] \in Entry /\ k \in DOMAIN in_flight
      BY <2>6 DEF LogInv, Shape
    <3>2. now + in_flight[j].ticks \in Nat
      BY <2>2 DEF Entry
    <3>3. CASE k = j
      <4>1. in_flight'[k] = [in_flight[j] EXCEPT !.deadline = now + in_flight[j].ticks]
        BY <2>1, <2>2, <3>3
      <4> QED BY <2>2, <3>2, <4>1 DEF Entry
    <3>4. CASE k # j
      BY <2>1, <3>1, <3>4
    <3> QED BY <3>3, <3>4
  <2>8. Shape'
    BY <1>2, <2>1, <2>5, <2>6, <2>7 DEF LogInv, Shape
  <2>9. Phases'
    BY <1>2, <2>1, <2>5, <2>6, <2>8 DEF LogInv, Phases, Shape
  <2> QED BY <2>5, <2>8, <2>9 DEF LogInv
<1> QED BY <1>3, <1>4

LEMMA ReportLog == ASSUME LogInv, Report PROVE LogInv'
<1>1. PICK j \in Job :
        /\ IsFirst(j, settling)
        /\ LET effect == JobLine("effect", now, j)
               result == ResultLine(now, j, in_flight[j].owner, in_flight[j].status)
               finished == 1 + Cardinality({k \in Job : Finished(k)})
               new == IF proven(lines, j) THEN <<result>> ELSE <<effect, result>>
           IN IF every # 0 /\ finished % every = 0 THEN commit(new) ELSE write(new)
        /\ in_flight' = [k \in DOMAIN in_flight \ {j} |-> in_flight[k]]
        /\ settling' = settling \ {j}
  BY DEF Report
<1>2. /\ mode = "settling" /\ step' = "intent"
      /\ UNCHANGED <<now, mode, ready, gone, beating, label, limit>>
  BY DEF Report, settings
<1>3. /\ lines \in Seq(Line) /\ Grammar(lines) /\ now \in Nat /\ lines # << >>
      /\ beating = {} /\ lines[1].kind = "start"
  BY <1>2 DEF LogInv, Shape, Phases
<1>4. j \in DOMAIN in_flight /\ in_flight[j] \in Entry /\ j \notin ready
  BY <1>1 DEF IsFirst, LogInv, Shape, Phases
<1> DEFINE effect == JobLine("effect", now, j)
           result == ResultLine(now, j, in_flight[j].owner, in_flight[j].status)
           new == IF proven(lines, j) THEN <<result>> ELSE <<effect, result>>
<1>5. /\ effect \in Line /\ effect.kind = "effect" /\ effect.job = j
      /\ result \in Line /\ result.kind = "result" /\ result.job = j
  <2>1. in_flight[j].owner \in Owner /\ in_flight[j].status \in {"ok", "failed", "died"}
    BY <1>4 DEF Entry
  <2>2. effect \in Line /\ result \in Line
    BY <1>3, <2>1, LinesTyped
  <2> QED BY <2>2 DEF JobLine, ResultLine
<1>6. lines' = lines \o new
  BY <1>1 DEF commit, write
<1> HIDE DEF effect, result
<1>7. /\ new \in Seq(Line)
      /\ \A i \in 1..Len(new) : new[i].job = j /\ new[i].kind \in {"effect", "result"}
  <2>1. CASE proven(lines, j)
    <3>1. new = <<result>> /\ Len(new) = 1 /\ new[1] = result /\ new \in Seq(Line)
      BY <1>5, <2>1
    <3> HIDE DEF new
    <3>2. \A i \in 1..Len(new) : i = 1
      BY <3>1
    <3> QED BY <1>5, <3>1, <3>2
  <2>2. CASE ~proven(lines, j)
    <3>1. /\ new = <<effect, result>> /\ Len(new) = 2 /\ new[1] = effect /\ new[2] = result
          /\ new \in Seq(Line)
      BY <1>5, <2>2
    <3> HIDE DEF new
    <3>2. \A i \in 1..Len(new) : i = 1 \/ i = 2
      BY <3>1
    <3> QED BY <1>5, <3>1, <3>2
  <2> QED BY <2>1, <2>2
<1> HIDE DEF new
<1>8. Grammar(lines')
  BY <1>3, <1>6, <1>7, QuietGrammar
<1>9. lines' \in Seq(Line) /\ lines' # << >> /\ lines'[1].kind = "start"
  <2>1. /\ lines' \in Seq(Line) /\ Len(lines') = Len(lines) + Len(new)
        /\ Agree(lines, lines', Len(lines))
    BY <1>3, <1>6, <1>7, Grows
  <2> QED BY <1>3, <2>1 DEF Agree
<1>10. \A l \in ready' : Unheld(lines', l, Len(lines') + 1)
  <2> TAKE l \in ready'
  <2>1. l # j /\ l \in Job /\ Unheld(lines, l, Len(lines) + 1)
    BY <1>2, <1>4 DEF LogInv, Shape, Phases
  <2> QED BY <1>3, <1>6, <1>7, <2>1, StaysUnheld
<1>11. /\ DOMAIN in_flight' = DOMAIN in_flight \ {j}
       /\ \A k \in DOMAIN in_flight' : in_flight'[k] \in Entry
       /\ IsFiniteSet(DOMAIN in_flight') /\ Cardinality(DOMAIN in_flight') <= limit
  <2>1. /\ IsFiniteSet(DOMAIN in_flight) /\ limit \in Nat
        /\ \A k \in DOMAIN in_flight : in_flight[k] \in Entry
        /\ Cardinality(DOMAIN in_flight) <= limit
    BY DEF LogInv, Shape
  <2>2. DOMAIN in_flight' = DOMAIN in_flight \ {j}
    BY <1>1
  <2>3. \A k \in DOMAIN in_flight' : in_flight'[k] \in Entry
    BY <1>1, <2>1
  <2>4. DOMAIN in_flight \ {j} \in SUBSET DOMAIN in_flight
    OBVIOUS
  <2>5. /\ IsFiniteSet(DOMAIN in_flight \ {j})
        /\ Cardinality(DOMAIN in_flight \ {j}) <= Cardinality(DOMAIN in_flight)
    BY <2>1, <2>4, FS_Subset
  <2>6. Cardinality(DOMAIN in_flight \ {j}) \in Nat /\ Cardinality(DOMAIN in_flight) \in Nat
    BY <2>1, <2>5, FS_CardinalityType
  <2>7. Cardinality(DOMAIN in_flight \ {j}) <= limit
    BY <2>1, <2>5, <2>6
  <2> QED BY <2>2, <2>3, <2>5, <2>7
<1>12. Shape'
  <2>1. settling' \subseteq DOMAIN in_flight' /\ beating' \subseteq DOMAIN in_flight'
    BY <1>1, <1>2, <1>3, <1>11 DEF LogInv, Shape
  <2> QED BY <1>2, <1>9, <1>11, <2>1 DEF LogInv, Shape
<1>13. Phases'
  BY <1>2, <1>3, <1>9, <1>10, <1>11 DEF LogInv, Phases
<1> QED BY <1>8, <1>12, <1>13 DEF LogInv

LEMMA NextLog == ASSUME Inv, LogInv, [Next]_vars PROVE LogInv'
<1>1. CASE Call
  BY <1>1, CallLog
<1>2. CASE Expire
  BY <1>2, ExpireLog
<1>3. CASE Wait
  BY <1>3, WaitLog
<1>4. CASE Recovered
  BY <1>4, RecoveredLog
<1>5. CASE StartOne
  BY <1>5, StartOneLog
<1>6. CASE Tick
  BY <1>6, TickLog
<1>7. CASE Beat
  BY <1>7, BeatLog
<1>8. CASE Work
  BY <1>8, WorkLog
<1>9. CASE Intent
  BY <1>9, IntentLog
<1>10. CASE Apply
  BY <1>10, ApplyLog
<1>11. CASE Report
  BY <1>11, ReportLog
<1>12. CASE Settled
  BY <1>12, SettledLog
<1>13. CASE Done
  BY <1>13, DoneLog
<1>14. CASE Crash
  BY <1>14, CrashLog
<1>15. CASE UNCHANGED vars
  BY <1>15, StillLog
<1> QED BY <1>1, <1>2, <1>3, <1>4, <1>5, <1>6, <1>7, <1>8, <1>9, <1>10, <1>11,
           <1>12, <1>13, <1>14, <1>15 DEF Next

-----------------------------------------------------------------------------
(* What the log promises.                                                  *)

LEMMA LogInvariant == Spec => [](Inv /\ LogInv)
<1>1. Init => Inv /\ LogInv
  BY InitInv, InitLog
<1>2. Inv /\ LogInv /\ [Next]_vars => (Inv /\ LogInv)'
  BY NextInv, NextLog
<1> QED BY <1>1, <1>2, PTL DEF Spec

\* Every variable of the run keeps its shape, across every crash and call: the
\* jobs in the air are never more than the cap, and only they beat or settle.
THEOREM TypeCorrect == Spec => []TypeOK
<1>1. Inv /\ LogInv => TypeOK
  <2> SUFFICES ASSUME Inv, LogInv PROVE TypeOK
    OBVIOUS
  <2>1. applied \in [Job -> Nat] /\ synced \in 0..Len(lines)
    BY DEF Inv, DiskShape
  <2> QED BY <2>1 DEF LogInv, Shape, TypeOK
<1> QED BY <1>1, LogInvariant, PTL

\* However the process dies and resumes, stage_10.run never claims a job a
\* result has finished, nor over an owner whose lease has not been expired, a
\* whole grace past the last promise that owner's beats made.
THEOREM OneHolderAtATime == Spec => []ClaimsInTurn
<1>1. LogInv => ClaimsInTurn
  BY TurnsKept DEF LogInv, Shape
<1> QED BY <1>1, LogInvariant, PTL

\* A process that wakes up over what the disk kept reads one story: stage 5's
\* recover and stage 6's fold give every job the same state, and a job that
\* runs by them is one whose lease stage 10 would wait for.
THEOREM OneStory == Spec => []FoldsAgree
<1>1. Inv /\ LogInv => FoldsAgree
  <2> SUFFICES ASSUME Inv, LogInv PROVE FoldsAgree
    OBVIOUS
  <2>1. lines \in Seq(Line) /\ Grammar(lines) /\ synced \in 0..Len(lines)
    BY DEF Inv, DiskShape, LogInv, Shape
  <2>2. /\ durable \in Seq(Line) /\ Len(durable) = synced
        /\ \A i \in 1..synced : durable[i] = lines[i]
    BY <2>1 DEF durable
  <2>3. Agree(lines, durable, synced)
    BY <2>1, <2>2 DEF Agree
  <2>4. \A j, kinds : \A i \in Of(durable, j, kinds) : ~(i > synced)
    BY <2>2 DEF Of
  <2>5. Grammar(durable)
    BY <2>1, <2>3, <2>4, Extended
  <2> QED BY <2>2, <2>5, ReadersAgree DEF FoldsAgree
<1> QED BY <1>1, LogInvariant, PTL
=============================================================================
