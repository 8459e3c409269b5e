---------------------------- MODULE QueueProofs ----------------------------
(***************************************************************************)
(* For any number of tasks and any pool, lease, bound and worker: the      *)
(* tables and the log keep their shape, the clock never passes a landing   *)
(* or a lease, a flight's answer is its own, the pool's two limits hold,   *)
(* no task is lost, retries keep their place, the log adds up to the       *)
(* tables, and a run of the queue implements TaskFate.                     *)
(***************************************************************************)
EXTENDS QueueProperties, Counting, SequenceTheorems

-----------------------------------------------------------------------------
(* Facts about the operators. *)

\* The backoff of an attempt is a number of ticks, one at least.
LEMMA BackoffType ==
    ASSUME NEW n \in Nat \ {0}
    PROVE  backoff(n) \in Nat \ {0}
<1> DEFINE S == 1..(n - 1)
<1>1. IsFiniteSet(S) /\ Cardinality(S) = n - 1
  <2>1. 1 \in Int /\ n - 1 \in Int
    OBVIOUS
  <2> QED BY <2>1, FS_Interval
<1>2. /\ IsFiniteSet(SUBSET S)
      /\ Cardinality(SUBSET S) = 2 ^ (n - 1)
  BY <1>1, FS_SUBSET
<1>3. Cardinality(SUBSET S) \in Nat
  BY <1>2, FS_CardinalityType
<1>4. Cardinality(SUBSET S) # 0
  <2>1. SUBSET S # {}
    OBVIOUS
  <2> QED BY <2>1, <1>2, FS_EmptySet
<1> QED BY <1>2, <1>3, <1>4 DEF backoff

\* The image of a finite set of flights under requeue is no larger.
LEMMA RequeuedCount ==
    ASSUME NEW S, IsFiniteSet(S)
    PROVE  /\ IsFiniteSet({requeue(f) : f \in S})
           /\ Cardinality({requeue(f) : f \in S}) <= Cardinality(S)
<1> DEFINE T == {requeue(f) : f \in S}
           g == [f \in S |-> requeue(f)]
<1>1. g \in Surjection(S, T)
  BY DEF Surjection
<1> QED BY <1>1, FS_Surjection

-----------------------------------------------------------------------------
(* The inductive invariant. *)

\* A task is held by one record at most, and only once it has been offered.
OneRecord ==
    /\ \A x, y \in pending : x.task = y.task => x = y
    /\ \A f, g \in in_flight : f.task = g.task => f = g
    /\ \A x \in pending : \A f \in in_flight : x.task # f.task
    /\ \A x \in pending : x.task <= offered
    /\ \A f \in in_flight : f.task <= offered

Finite == IsFiniteSet(pending) /\ IsFiniteSet(in_flight)

\* Each attempt number is one more than a natural number.
Tried == \A f \in in_flight : f.attempt # 0

Inv ==
    /\ TablesOK
    /\ OneRecord
    /\ Finite
    /\ Tried
    /\ AnswersMatchFlights
    /\ NeverOvershoots
    /\ LimitsHeld

\* The sizes of the two tables are numbers.
LEMMA DepthType ==
    ASSUME Finite
    PROVE  /\ Cardinality(pending) \in Nat
           /\ Cardinality(in_flight) \in Nat
BY FS_CardinalityType DEF Finite

LEMMA InitInv == Init => Inv
<1> SUFFICES ASSUME Init PROVE Inv
  OBVIOUS
<1>1. TablesOK
  BY QueueAssumption, RunAssumption
  DEF Init, TablesOK, OptionalTick, Phase, Stops
<1>2. OneRecord /\ Tried /\ AnswersMatchFlights /\ NeverOvershoots
  BY DEF Init, OneRecord, Tried, AnswersMatchFlights, NeverOvershoots
<1>3. Finite
  BY FS_EmptySet DEF Init, Finite
<1>4. LimitsHeld
  BY FS_EmptySet, RunAssumption DEF Init, LimitsHeld, depth
<1> QED BY <1>1, <1>2, <1>3, <1>4 DEF Inv

-----------------------------------------------------------------------------
(* Each action in turn. *)

\* A step that touches neither the tables nor the clock keeps the invariant.
LEMMA QuietInv ==
    ASSUME Inv, UNCHANGED <<inputs, now, sequence, pending, flights, dead>>,
           offered' \in Nat, offered' >= offered,
           at' \in Phase, stopped' \in Stops, steps_left' \in OptionalTick
    PROVE  Inv'
<1> USE DEF inputs, given, flights
<1>1. TablesOK'
  BY DEF Inv, TablesOK
<1>2. OneRecord'
  BY QueueAssumption DEF Inv, OneRecord, TablesOK, Ticket, Flight, Task
<1>3. (Finite /\ Tried /\ AnswersMatchFlights /\ NeverOvershoots)'
  BY DEF Inv, Finite, Tried, AnswersMatchFlights, NeverOvershoots
<1>4. LimitsHeld'
  BY DEF Inv, LimitsHeld, depth
<1> QED BY <1>1, <1>2, <1>3, <1>4 DEF Inv

\* A task that joins the queue in a free place is a new ticket.
LEMMA SubmitInv ==
    ASSUME Inv, UNCHANGED <<inputs, now, flights>>,
           NEW t \in Task, t = offered + 1, offered' = t,
           NEW left \in SUBSET pending, Cardinality(left) < pool.high_water
              - Cardinality(in_flight),
           pending' = left \cup {submit(t)},
           sequence' = sequence + 1, dead' \subseteq Letter,
           at' \in Phase, stopped' \in Stops, steps_left' \in OptionalTick
    PROVE  Inv'
<1> USE DEF inputs, given, flights
<1>1. submit(t) \in Ticket /\ submit(t).task = t
  BY DEF submit, Ticket, OptionalTick, Inv, TablesOK
<1>2. TablesOK'
  BY <1>1, QueueAssumption DEF Inv, TablesOK, Task
<1>3. OneRecord'
  BY <1>1, QueueAssumption DEF Inv, OneRecord, TablesOK, Ticket, Flight, Task
<1>4. (Tried /\ AnswersMatchFlights /\ NeverOvershoots)'
  BY DEF Inv, Tried, AnswersMatchFlights, NeverOvershoots
<1>5. /\ IsFiniteSet(left)
      /\ Cardinality(left) \in Nat
      /\ IsFiniteSet(pending')
      /\ Cardinality(pending') <= Cardinality(left) + 1
      /\ Cardinality(pending') \in Nat
  <2>1. IsFiniteSet(left)
    BY FS_Subset DEF Inv, Finite
  <2>2. Cardinality(left) \in Nat
    BY <2>1, FS_CardinalityType
  <2>3. IsFiniteSet(pending') /\ Cardinality(pending') \in Nat
    BY <2>1, FS_AddElement, FS_CardinalityType
  <2>4. Cardinality(pending') <= Cardinality(left) + 1
    BY <2>1, <2>2, FS_AddElement
  <2> QED BY <2>1, <2>2, <2>3, <2>4
<1>6. Finite'
  BY <1>5 DEF Inv, Finite
<1>7. LimitsHeld'
  <2>1. Cardinality(in_flight) \in Nat /\ pool.high_water \in Nat
    BY DepthType, RunAssumption DEF Inv, TablesOK
  <2> QED BY <1>5, <2>1 DEF Inv, LimitsHeld, depth
<1> QED BY <1>2, <1>3, <1>4, <1>6, <1>7 DEF Inv

LEMMA AdmitInv == ASSUME Inv, Admit PROVE Inv'
<1> DEFINE t == offered + 1
<1> USE DEF At, inputs, given, flights
<1>1. /\ t \in Task /\ offered' = t /\ offered \in Nat
      /\ at' \in Phase /\ stopped' \in Stops /\ steps_left' \in OptionalTick
      /\ UNCHANGED <<inputs, now>>
  BY DEF Admit, Inv, TablesOK, Phase
<1>2. /\ Cardinality(pending) \in Nat /\ Cardinality(in_flight) \in Nat
      /\ pool.high_water \in Nat
  BY DepthType, RunAssumption DEF Inv, TablesOK
<1>3. CASE AdmitBelow(t)
  <2>1. Cardinality(pending) < pool.high_water - Cardinality(in_flight)
    BY <1>2, <1>3 DEF AdmitBelow, Takes, depth
  <2>2. dead' \subseteq Letter
    BY <1>3 DEF AdmitBelow, Takes, Inv, TablesOK
  <2>3. pending' = pending \cup {submit(t)} /\ UNCHANGED flights
        /\ sequence' = sequence + 1
    BY <1>3 DEF AdmitBelow, Takes
  <2> HIDE DEF t
  <2> QED BY <1>1, <2>1, <2>2, <2>3, SubmitInv DEF t
<1>4. CASE AdmitShed(t)
  <2>1. PICK victim \in pending :
          /\ dead' = dead \cup {[task |-> victim.task, reason |-> "shed",
                                 attempts |-> victim.attempts]}
          /\ pending' = (pending \ {victim}) \cup {submit(t)}
    BY <1>4 DEF AdmitShed, Without
  <2>2. dead' \subseteq Letter
    BY <2>1 DEF Inv, TablesOK, Ticket, Letter
  <2>3. /\ Cardinality(pending \ {victim}) = Cardinality(pending) - 1
        /\ pending \ {victim} \in SUBSET pending
    BY FS_RemoveElement DEF Inv, Finite
  <2>4. Cardinality(pending \ {victim})
           < pool.high_water - Cardinality(in_flight)
    BY <1>2, <2>3 DEF Inv, LimitsHeld, depth
  <2>5. UNCHANGED flights /\ sequence' = sequence + 1
    BY <1>4 DEF AdmitShed, Without
  <2> HIDE DEF t
  <2> QED BY <1>1, <2>1, <2>2, <2>3, <2>4, <2>5, SubmitInv DEF t
<1>5. CASE \E kind \in {"refused", "blocked"} : TurnAway(t, kind)
  <2>1. UNCHANGED <<sequence, pending, flights, dead>>
    BY <1>5 DEF TurnAway
  <2>2. offered' \in Nat /\ offered' >= offered
    BY <1>1
  <2> QED BY <1>1, <2>1, <2>2, QuietInv
<1>6. AdmitBelow(t) \/ AdmitShed(t)
      \/ \E kind \in {"refused", "blocked"} : TurnAway(t, kind)
  BY DEF Admit, AdmitRefused, AdmitBlocked, NothingToShed
<1> QED BY <1>3, <1>4, <1>5, <1>6

LEMMA DispatchInv == ASSUME Inv, Dispatch PROVE Inv'
<1> USE DEF At, inputs, given
<1>1. PICK ticket \in pending, answer \in Answer :
        /\ pending' = pending \ {ticket}
        /\ in_flight' = in_flight \cup
              {[task |-> ticket.task, seq |-> ticket.seq,
                attempt |-> ticket.attempts + 1, started_at |-> now,
                finishes_at |-> now + answer.ticks,
                deadline_at |-> IF lease = None THEN None ELSE now + lease]}
        /\ answers' = Filed(ticket.task, answer)
  BY DEF Dispatch, start
<1> DEFINE f == [task |-> ticket.task, seq |-> ticket.seq,
                 attempt |-> ticket.attempts + 1, started_at |-> now,
                 finishes_at |-> now + answer.ticks,
                 deadline_at |-> IF lease = None THEN None ELSE now + lease]
<1>2. /\ free_slots > 0
      /\ UNCHANGED <<inputs, now, sequence, dead, offered, stopped, steps_left>>
      /\ at' \in Phase
  BY DEF Dispatch, start, Phase
<1>3. /\ ticket \in Ticket /\ lease \in OptionalTick
      /\ now \in Nat /\ answer.ticks \in Nat
  BY QueueAssumption, RunAssumption DEF Inv, TablesOK, Answer
<1>4. f \in Flight
  <2>1. ticket.task \in Task /\ ticket.seq \in Nat /\ ticket.attempts \in Nat
    BY <1>3 DEF Ticket
  <2>2. (IF lease = None THEN None ELSE now + lease) \in OptionalTick
    BY <1>3 DEF OptionalTick
  <2>3. ticket.attempts + 1 \in Nat /\ now + answer.ticks \in Nat
    BY <1>3, <2>1
  <2> QED BY <1>3, <2>1, <2>2, <2>3 DEF Flight
<1>5. /\ f.task = ticket.task /\ f.attempt = ticket.attempts + 1
      /\ f.started_at = now /\ f.finishes_at = now + answer.ticks
      /\ f.deadline_at = IF lease = None THEN None ELSE now + lease
  OBVIOUS
<1> HIDE DEF f
<1>6. in_flight' = in_flight \cup {f}
  BY <1>1 DEF f
<1>7. TablesOK'
  BY <1>1, <1>2, <1>3, <1>4, <1>6 DEF Filed, Inv, TablesOK, Ticket
<1>8. OneRecord'
  BY <1>1, <1>2, <1>5, <1>6 DEF Inv, OneRecord
<1>9. Tried'
  BY <1>3, <1>5, <1>6 DEF Inv, Tried, Ticket
<1>10. AnswersMatchFlights'
  <2> SUFFICES ASSUME NEW g \in in_flight'
               PROVE  /\ answers'[g.task] # None
                      /\ g.finishes_at = g.started_at + answers'[g.task].ticks
    BY DEF AnswersMatchFlights
  <2>1. CASE g = f
    <3>1. answers'[f.task] = answer
      BY <1>1, <1>3, <1>5 DEF Filed, Inv, TablesOK, Ticket
    <3>2. answer # None
      BY QueueAssumption
    <3> QED BY <2>1, <3>1, <3>2, <1>5
  <2>2. CASE g \in in_flight
    <3>1. g.task # ticket.task
      BY <2>2 DEF Inv, OneRecord
    <3>2. answers'[g.task] = answers[g.task]
      BY <1>1, <3>1, <2>2 DEF Filed, Inv, TablesOK, Flight
    <3> QED BY <3>2, <2>2 DEF Inv, AnswersMatchFlights
  <2> QED BY <2>1, <2>2, <1>6
<1>11. NeverOvershoots'
  BY <1>2, <1>3, <1>5, <1>6, QueueAssumption
  DEF Inv, NeverOvershoots, OptionalTick
<1>12. /\ IsFiniteSet(pending') /\ IsFiniteSet(in_flight')
       /\ Cardinality(pending') = Cardinality(pending) - 1
       /\ Cardinality(in_flight') <= Cardinality(in_flight) + 1
       /\ Cardinality(in_flight') \in Nat
  <2>1. IsFiniteSet(pending) /\ IsFiniteSet(in_flight)
        /\ Cardinality(in_flight) \in Nat
    BY DepthType DEF Inv, Finite
  <2>2. /\ IsFiniteSet(pending')
        /\ Cardinality(pending') = Cardinality(pending) - 1
    BY <1>1, <2>1, FS_RemoveElement
  <2>3. /\ IsFiniteSet(in_flight')
        /\ Cardinality(in_flight') <= Cardinality(in_flight) + 1
    <3>1. /\ IsFiniteSet(in_flight \cup {f})
          /\ Cardinality(in_flight \cup {f}) =
                IF f \in in_flight THEN Cardinality(in_flight)
                ELSE Cardinality(in_flight) + 1
      BY <2>1, FS_AddElement
    <3> QED BY <3>1, <2>1, <1>6
  <2>4. Cardinality(in_flight') \in Nat
    BY <2>3, FS_CardinalityType
  <2> QED BY <2>2, <2>3, <2>4
<1>13. Finite'
  BY <1>12 DEF Finite
<1>14. LimitsHeld'
  <2>1. pool.max_concurrency \in Nat /\ pool.high_water \in Nat
    BY RunAssumption DEF Inv, TablesOK
  <2>2. Cardinality(pending) \in Nat /\ Cardinality(in_flight) \in Nat
    BY DepthType DEF Inv
  <2> QED BY <1>2, <1>12, <2>1, <2>2 DEF Inv, LimitsHeld, depth, free_slots
<1> QED BY <1>7, <1>8, <1>9, <1>10, <1>11, <1>13, <1>14 DEF Inv

\* Every flight that lands or expires leaves the air; what it leaves behind
\* waits again or is given up.
LEMMA ResolveInv == ASSUME Inv, ResolveOutcomes PROVE Inv'
<1> USE DEF At, inputs, given
<1> DEFINE done == complete \cup sweep
           lost == {f \in done : ~Succeeds(f)}
           again == {g \in lost : ~Spent(g)}
           gone == {g \in lost : Spent(g)}
<1>1. /\ in_flight' = in_flight \ done
      /\ answers' = [t \in Task |->
            IF \E f \in complete : f.task = t THEN None ELSE answers[t]]
      /\ pending' = pending \cup {requeue(f) : f \in again}
      /\ dead' = dead \cup {dead_letter(f) : f \in gone}
      /\ UNCHANGED <<inputs, now, sequence, offered, stopped, steps_left>>
      /\ at' \in Phase
  BY DEF ResolveOutcomes, Resolve, Phase
<1>2. done \subseteq in_flight /\ again \subseteq done /\ gone \subseteq done
  BY DEF complete, sweep
<1>3. \A f \in again : requeue(f) \in Ticket /\ requeue(f).task = f.task
  <2> TAKE f \in again
  <2>1. f \in Flight /\ f.attempt \in Nat \ {0} /\ now \in Nat
    BY <1>2 DEF Inv, TablesOK, Tried, Flight
  <2>2. now + backoff(f.attempt) \in Nat
    BY <2>1, BackoffType
  <2> QED BY <2>1, <2>2 DEF requeue, Ticket, Flight, OptionalTick
<1>4. \A f \in gone : dead_letter(f) \in Letter
  <2> TAKE f \in gone
  <2>1. f \in Flight
    BY <1>2 DEF Inv, TablesOK
  <2>2. Reason(f) \in Status
    <3>1. CASE f \in complete
      <4>1. answers[f.task] \in Answer
        BY <1>2, <2>1 DEF Inv, TablesOK, AnswersMatchFlights, Flight
      <4> QED BY <3>1, <4>1, QueueAssumption DEF Reason, Answer
    <3>2. CASE f \notin complete
      BY <3>2 DEF Reason, Status
    <3> QED BY <3>1, <3>2
  <2> QED BY <2>1, <2>2 DEF dead_letter, Letter, Flight
<1> HIDE DEF done, lost, again, gone
<1>5. TablesOK'
  <2>1. answers' \in [Task -> Answer \cup {None}]
    BY <1>1 DEF Inv, TablesOK
  <2>2. pending' \subseteq Ticket /\ dead' \subseteq Letter
        /\ in_flight' \subseteq Flight
    BY <1>1, <1>3, <1>4 DEF Inv, TablesOK
  <2> QED BY <1>1, <2>1, <2>2 DEF Inv, TablesOK
<1>6. OneRecord'
  BY <1>1, <1>2, <1>3 DEF Inv, OneRecord
<1>7. (Tried /\ NeverOvershoots)'
  BY <1>1 DEF Inv, Tried, NeverOvershoots
<1>8. AnswersMatchFlights'
  <2> SUFFICES ASSUME NEW f \in in_flight'
               PROVE  /\ answers'[f.task] # None
                      /\ f.finishes_at = f.started_at + answers'[f.task].ticks
    BY DEF AnswersMatchFlights
  <2>1. f \in in_flight /\ f \notin done /\ f.task \in Task
    BY <1>1 DEF Inv, TablesOK, Flight
  <2>2. ~\E g \in complete : g.task = f.task
    BY <2>1, <1>2 DEF Inv, OneRecord, done
  <2>3. answers'[f.task] = answers[f.task]
    BY <1>1, <2>1, <2>2
  <2> QED BY <2>1, <2>3 DEF Inv, AnswersMatchFlights
<1>9. /\ IsFiniteSet(done) /\ IsFiniteSet(again)
      /\ Cardinality(done) \in Nat
      /\ Cardinality(again) <= Cardinality(done)
      /\ Cardinality(again) \in Nat
  BY <1>2, FS_Subset, FS_CardinalityType DEF Inv, Finite
<1>10. /\ IsFiniteSet(in_flight')
       /\ Cardinality(in_flight') = Cardinality(in_flight) - Cardinality(done)
  <2>1. in_flight \cap done = done
    BY <1>2
  <2>2. IsFiniteSet(in_flight)
    BY DEF Inv, Finite
  <2>3. /\ IsFiniteSet(in_flight \ done)
        /\ Cardinality(in_flight \ done)
              = Cardinality(in_flight) - Cardinality(in_flight \cap done)
    BY <2>2, FS_Difference
  <2> QED BY <1>1, <2>1, <2>3
<1>11. /\ IsFiniteSet(pending')
       /\ Cardinality(pending') <= Cardinality(pending) + Cardinality(again)
       /\ Cardinality(pending') \in Nat
  <2> DEFINE T == {requeue(f) : f \in again}
  <2>1. IsFiniteSet(T) /\ Cardinality(T) <= Cardinality(again)
        /\ Cardinality(T) \in Nat
    BY <1>9, RequeuedCount, FS_CardinalityType
  <2> HIDE DEF T
  <2>2. /\ IsFiniteSet(pending \cup T) /\ Cardinality(pending \cup T) \in Nat
        /\ Cardinality(pending \cup T) =
              Cardinality(pending) + Cardinality(T) - Cardinality(pending \cap T)
        /\ Cardinality(pending \cap T) \in Nat
    BY <2>1, FS_Union, FS_Intersection, FS_CardinalityType DEF Inv, Finite
  <2>3. pending' = pending \cup T
    BY <1>1 DEF T
  <2>4. Cardinality(pending) \in Nat
    BY DepthType DEF Inv
  <2> QED BY <1>9, <2>1, <2>2, <2>3, <2>4
<1>12. Finite'
  BY <1>10, <1>11 DEF Finite
<1>13. LimitsHeld'
  <2>1. pool.max_concurrency \in Nat /\ pool.high_water \in Nat
    BY RunAssumption DEF Inv, TablesOK
  <2>2. Cardinality(pending) \in Nat /\ Cardinality(in_flight) \in Nat
    BY DepthType DEF Inv
  <2>3. Cardinality(in_flight') <= pool.max_concurrency
    BY <1>9, <1>10, <2>1, <2>2 DEF Inv, LimitsHeld
  <2>4. Cardinality(pending') + Cardinality(in_flight') <= pool.high_water
    BY <1>9, <1>10, <1>11, <2>1, <2>2 DEF Inv, LimitsHeld, depth
  <2>5. pool' = pool
    BY <1>1
  <2> QED BY <2>3, <2>4, <2>5 DEF LimitsHeld, depth
<1> QED BY <1>5, <1>6, <1>7, <1>8, <1>12, <1>13 DEF Inv

\* The clock moves to the first tick that matters, and no further.
LEMMA AdvanceInv == ASSUME Inv, Advance PROVE Inv'
<1> USE DEF At, inputs, given, queue
<1>1. PICK tick \in next_times : Soonest(tick) /\ tick > now /\ now' = tick
  BY DEF Advance
<1>2. next_times \subseteq Nat
  BY DEF next_times, Inv, TablesOK, Ticket, Flight, OptionalTick
<1>3. TablesOK'
  BY <1>1, <1>2 DEF Advance, Inv, TablesOK, Phase
<1>4. (OneRecord /\ Finite /\ Tried /\ AnswersMatchFlights)'
  BY DEF Advance, Inv, OneRecord, Finite, Tried, AnswersMatchFlights
<1>5. NeverOvershoots'
  <2> SUFFICES ASSUME NEW f \in in_flight
               PROVE  /\ f.finishes_at >= tick
                      /\ f.deadline_at = None \/ f.deadline_at >= tick
    BY <1>1 DEF Advance, NeverOvershoots
  <2>1. f.finishes_at \in next_times
        /\ (f.deadline_at # None => f.deadline_at \in next_times)
    BY DEF next_times
  <2> QED BY <1>1, <1>2, <2>1 DEF Soonest
<1>6. LimitsHeld'
  BY DEF Advance, Inv, LimitsHeld, depth
<1> QED BY <1>3, <1>4, <1>5, <1>6 DEF Inv

\* The other parts of the loop only decide what comes next.
LEMMA ControlInv ==
    ASSUME Inv,
           \/ BeginLoop \/ OutOfTicks \/ OutOfSteps \/ WithinBounds
           \/ DispatchDone \/ Drained \/ DeadEnd
    PROVE  Inv'
<1> USE DEF At, inputs, given, queue, Stop, Stops, Phase, OptionalTick
<1>1. offered \in Nat /\ stopped \in Stops /\ steps_left \in OptionalTick
  BY DEF Inv, TablesOK
<1>2. UNCHANGED <<inputs, now, sequence, pending, flights, dead, offered>>
  BY DEF BeginLoop, OutOfTicks, OutOfSteps, WithinBounds, DispatchDone,
         Drained, DeadEnd, flights
<1>3. at' \in Phase /\ stopped' \in Stops
  BY <1>1 DEF BeginLoop, OutOfTicks, OutOfSteps, WithinBounds, DispatchDone,
              Drained, DeadEnd
<1>4. steps_left' \in OptionalTick
  BY <1>1, QueueAssumption
  DEF BeginLoop, OutOfTicks, OutOfSteps, WithinBounds, DispatchDone,
      Drained, DeadEnd, StepsSpent
<1>5. offered' \in Nat /\ offered' >= offered
  BY <1>1, <1>2
<1> QED BY <1>2, <1>3, <1>4, <1>5, QuietInv

LEMMA NextInv == Inv /\ [Next]_vars => Inv'
<1> SUFFICES ASSUME Inv, [Next]_vars PROVE Inv'
  OBVIOUS
<1>1. CASE UNCHANGED vars
  <2>1. /\ UNCHANGED <<inputs, now, sequence, pending, flights, dead>>
        /\ UNCHANGED <<offered, at, stopped, steps_left>>
    BY <1>1 DEF vars, queue, flights, loop
  <2>2. /\ offered' \in Nat /\ offered' >= offered
        /\ at' \in Phase /\ stopped' \in Stops /\ steps_left' \in OptionalTick
    BY <2>1 DEF Inv, TablesOK
  <2> QED BY <2>1, <2>2, QuietInv
<1>2. CASE Admit
  BY <1>2, AdmitInv
<1>3. CASE ResolveOutcomes
  BY <1>3, ResolveInv
<1>4. CASE Dispatch
  BY <1>4, DispatchInv
<1>5. CASE Advance
  BY <1>5, AdvanceInv
<1>6. CASE BeginLoop \/ OutOfTicks \/ OutOfSteps \/ WithinBounds
           \/ DispatchDone \/ Drained \/ DeadEnd
  BY <1>6, ControlInv
<1> QED BY <1>1, <1>2, <1>3, <1>4, <1>5, <1>6 DEF Next

\* The inductive invariant holds throughout every run of the queue.
LEMMA QueueInvariant == Spec => []Inv
<1>1. Init => Inv
  BY InitInv
<1>2. Inv /\ [Next]_vars => Inv'
  BY NextInv
<1> QED BY <1>1, <1>2, PTL DEF Spec

-----------------------------------------------------------------------------
(* The theorems. *)

\* Never more flights than max_concurrency and never more depth than the high
\* water mark, through every admission, shed, retry and sweep.
THEOREM PoolLimits == Spec => []LimitsHeld
<1>1. Inv => LimitsHeld
  BY DEF Inv
<1> QED BY <1>1, QueueInvariant, PTL

\* A flight is always filed under the answer of its own attempt.
THEOREM AnswersAreOwn == Spec => []AnswersMatchFlights
<1>1. Inv => AnswersMatchFlights
  BY DEF Inv
<1> QED BY <1>1, QueueInvariant, PTL

\* The clock never jumps past a landing or a lease it has not resolved.
THEOREM NoOvershoot == Spec => []NeverOvershoots
<1>1. Inv => NeverOvershoots
  BY DEF Inv
<1> QED BY <1>1, QueueInvariant, PTL

-----------------------------------------------------------------------------
(* Arrival order. *)

\* Arrival numbers grow with the order of the offers and are never reissued,
\* not to a retry either.
Arrivals ==
    /\ \A x \in pending \cup in_flight : x.seq < sequence
    /\ \A x, y \in pending \cup in_flight : x.task < y.task => x.seq < y.seq

\* A step that adds no record to the tables keeps the arrival order.
LEMMA FewerRecords ==
    ASSUME Inv, Arrivals, sequence' = sequence,
           \A x \in pending' \cup in_flight' :
              \E y \in pending \cup in_flight : x.task = y.task /\ x.seq = y.seq
    PROVE  Arrivals'
BY DEF Arrivals

\* A newcomer takes the next arrival number.
LEMMA AdmitArrivals == ASSUME Inv, Arrivals, Admit PROVE Arrivals'
<1> DEFINE t == offered + 1
<1>1. CASE UNCHANGED <<sequence, pending, flights>>
  BY <1>1, FewerRecords DEF flights
<1>2. CASE /\ sequence' = sequence + 1 /\ UNCHANGED flights
           /\ pending' \subseteq pending \cup {submit(t)}
  <2>1. submit(t).seq = sequence /\ submit(t).task = t
    BY DEF submit
  <2>2. \A x \in pending \cup in_flight : x.task < t /\ x.task \in Nat
    BY QueueAssumption DEF Inv, OneRecord, TablesOK, Ticket, Flight, Task
  <2>3. \A x \in pending \cup in_flight : x.seq \in Nat
    BY DEF Inv, TablesOK, Ticket, Flight
  <2>4. sequence \in Nat /\ t \in Nat
    BY DEF Inv, TablesOK
  <2>5. \A x \in pending' \cup in_flight' :
           x \in pending \cup in_flight \/ x = submit(t)
    BY <1>2 DEF flights
  <2> HIDE DEF t
  <2>6. \A x \in pending' \cup in_flight' : x.seq < sequence'
    BY <1>2, <2>1, <2>3, <2>4, <2>5 DEF Arrivals
  <2>7. \A x, y \in pending' \cup in_flight' : x.task < y.task => x.seq < y.seq
    BY <2>1, <2>2, <2>3, <2>4, <2>5 DEF Arrivals
  <2> QED BY <2>6, <2>7 DEF Arrivals
<1>3. \/ AdmitBelow(t) \/ AdmitShed(t)
      \/ \E kind \in {"refused", "blocked"} : TurnAway(t, kind)
  BY DEF Admit, AdmitRefused, AdmitBlocked, NothingToShed
<1> QED BY <1>1, <1>2, <1>3 DEF AdmitBelow, Takes, AdmitShed, Without, TurnAway, flights

LEMMA NextArrivals == Inv /\ Arrivals /\ [Next]_vars => Arrivals'
<1> SUFFICES ASSUME Inv, Arrivals, [Next]_vars PROVE Arrivals'
  OBVIOUS
<1>1. CASE Admit
  BY <1>1, AdmitArrivals
<1>2. CASE ResolveOutcomes
  <2>1. sequence' = sequence /\ in_flight' \subseteq in_flight
    BY <1>2 DEF ResolveOutcomes, Resolve
  <2>2. \A x \in pending' : x \in pending
           \/ \E f \in in_flight : x.task = f.task /\ x.seq = f.seq
    BY <1>2 DEF ResolveOutcomes, Resolve, requeue, complete, sweep
  <2> QED BY <2>1, <2>2, FewerRecords
<1>3. CASE Dispatch
  <2>1. sequence' = sequence /\ pending' \subseteq pending
    BY <1>3 DEF Dispatch, start
  <2>2. \A f \in in_flight' : f \in in_flight
           \/ \E x \in pending : x.task = f.task /\ x.seq = f.seq
    BY <1>3 DEF Dispatch, start
  <2> QED BY <2>1, <2>2, FewerRecords
<1>4. CASE UNCHANGED <<sequence, pending, in_flight>>
  BY <1>4 DEF Arrivals
<1>5. \/ Admit \/ ResolveOutcomes \/ Dispatch
      \/ UNCHANGED <<sequence, pending, in_flight>>
  BY DEF Next, vars, queue, BeginLoop, OutOfTicks, OutOfSteps, WithinBounds,
         DispatchDone, Drained, DeadEnd, Advance, Stop, flights
<1> QED BY <1>1, <1>2, <1>3, <1>4, <1>5

\* No task starts while one of the same priority that was offered before it is
\* due: a start takes the ticket that overtakes every other due one.
LEMMA StartsInOrder ==
    ASSUME Inv, Arrivals, [Next]_vars,
           NEW f \in in_flight' \ in_flight, NEW waiting \in due,
           waiting.task < f.task
    PROVE  tasks[waiting.task].priority # tasks[f.task].priority
<1>1. Dispatch
  BY DEF Next, vars, queue, Admit, AdmitBelow, Takes, AdmitShed, Without, AdmitRefused,
         AdmitBlocked, NothingToShed, TurnAway, BeginLoop, ResolveOutcomes,
         Resolve, OutOfTicks, OutOfSteps, WithinBounds, DispatchDone, Drained,
         DeadEnd, Advance, Stop, flights
<1>2. PICK ticket \in pending : Picks(ticket) /\ f.task = ticket.task
  BY <1>1 DEF Dispatch, start
<1>3. waiting \in pending /\ ticket.task \in Nat /\ waiting.task \in Nat
      /\ ticket.seq \in Nat /\ waiting.seq \in Nat
  BY QueueAssumption DEF due, Inv, TablesOK, Ticket, Task
<1>4. waiting # ticket
  BY <1>2, <1>3
<1>5. Overtakes(ticket, waiting)
  BY <1>2, <1>4 DEF Picks
<1>6. waiting.seq < ticket.seq
  BY <1>2, <1>3 DEF Arrivals
<1>7. /\ tasks[ticket.task].priority \in Nat
      /\ tasks[waiting.task].priority \in Nat
  BY <1>3, QueueAssumption DEF Inv, TablesOK, Ticket
<1> QED BY <1>2, <1>3, <1>5, <1>6, <1>7 DEF Overtakes

\* A retry keeps its task's place among the tasks of its priority.
THEOREM RetriesKeepTheirPlace == Spec => ArrivalOrderSurvives
<1>1. Init => Arrivals
  BY DEF Init, Arrivals
<1>2. Inv /\ Arrivals /\ [Next]_vars => Arrivals'
  BY NextArrivals
<1>3. Inv /\ Arrivals /\ [Next]_vars =>
        [\A f \in in_flight' \ in_flight : \A waiting \in due :
            waiting.task < f.task
            => tasks[waiting.task].priority # tasks[f.task].priority]_vars
  BY StartsInOrder
<1> QED BY <1>1, <1>2, <1>3, QueueInvariant, PTL DEF Spec, ArrivalOrderSurvives

-----------------------------------------------------------------------------
(* The lines of a resolution. *)

LogLine == [kind : Kind, task : Task \cup {None}]

\* The order of resolution is a strict total order: no two flights share an
\* arrival number.
LEMMA ResolutionOrder ==
    ASSUME Inv, Arrivals
    PROVE  LET done == complete \cup sweep
           IN  /\ \A f \in done : ~Sooner(f, f)
               /\ \A f, g, h \in done : Sooner(f, g) /\ Sooner(g, h) => Sooner(f, h)
               /\ \A f, g \in done : f # g => Sooner(f, g) \/ Sooner(g, f)
<1> DEFINE done == complete \cup sweep
<1>1. \A f \in done : /\ f \in in_flight /\ f.seq \in Nat /\ f.task \in Nat
                      /\ f.finishes_at \in Nat
                      /\ f \notin complete => f.deadline_at \in Nat
  BY QueueAssumption
  DEF complete, sweep, Expired, Inv, TablesOK, Flight, Task, OptionalTick
<1>2. \A f, g \in done : f # g => f.seq < g.seq \/ g.seq < f.seq
  <2> SUFFICES ASSUME NEW f \in done, NEW g \in done, f # g
               PROVE  f.seq < g.seq \/ g.seq < f.seq
    OBVIOUS
  <2>1. f.task # g.task
    BY <1>1 DEF Inv, OneRecord
  <2>2. f.task < g.task \/ g.task < f.task
    BY <1>1, <2>1
  <2> QED BY <1>1, <2>2 DEF Arrivals
<1> HIDE DEF done
<1>3. \A f \in done : ~Sooner(f, f)
  BY <1>1 DEF Sooner
<1>4. \A f, g, h \in done : Sooner(f, g) /\ Sooner(g, h) => Sooner(f, h)
  BY <1>1 DEF Sooner
<1>5. \A f, g \in done : f # g => Sooner(f, g) \/ Sooner(g, f)
  BY <1>1, <1>2 DEF Sooner
<1> QED BY <1>3, <1>4, <1>5 DEF done

\* The flights whose line is one of V.
Bearing(kind, V) == {f \in DOMAIN kind : [task |-> f.task, kind |-> kind[f]] \in V}

\* LinesOf writes one line for each flight of its domain: its occurrences of
\* any lines are the flights whose line is one of them.
LEMMA LinesListed ==
    ASSUME Inv, Arrivals, NEW S \in SUBSET (complete \cup sweep),
           NEW kind \in [S -> Kind], NEW V
    PROVE  /\ LinesOf(kind) \in Seq(LogLine)
           /\ Cardinality(Occurs(LinesOf(kind), V)) = Cardinality(Bearing(kind, V))
<1> DEFINE C == Cardinality(S)
           R == {p \in S \X S : Sooner(p[1], p[2])}
           rank(f) == Cardinality({g \in S : Sooner(g, f)}) + 1
           r == [f \in S |-> Cardinality(Ahead(S, R, f)) + 1]
           g == [i \in 1..C |-> CHOOSE f \in S : rank(f) = i]
           h == [f \in S |-> [task |-> f.task, kind |-> kind[f]]]
<1>1. S \in SUBSET in_flight
  BY DEF complete, sweep
<1>2. IsFiniteSet(S)
  BY <1>1, FS_Subset DEF Inv, Finite
<1>3. \A x, y \in S : <<x, y>> \in R <=> Sooner(x, y)
  OBVIOUS
<1>4. r \in Bijection(S, 1..C)
  <2>1. /\ \A x \in S : <<x, x>> \notin R
        /\ \A x, y, z \in S : <<x, y>> \in R /\ <<y, z>> \in R => <<x, z>> \in R
        /\ \A x, y \in S : x # y => <<x, y>> \in R \/ <<y, x>> \in R
    BY <1>3, ResolutionOrder
  <2> HIDE DEF R
  <2> QED BY <1>2, <2>1, Ranking
<1>5. \A f \in S : r[f] = rank(f)
  <2> TAKE f \in S
  <2>1. Ahead(S, R, f) = {x \in S : Sooner(x, f)}
    BY <1>3 DEF Ahead
  <2> QED BY <2>1
<1> HIDE DEF R, r, rank
<1>6. /\ r \in [S -> 1..C]
      /\ \A x, y \in S : r[x] = r[y] => x = y
      /\ \A i \in 1..C : \E x \in S : r[x] = i
  BY <1>4 DEF Bijection, Injection, IsInjective, Surjection
<1>7. \A i \in 1..C : g[i] \in S /\ r[g[i]] = i
  BY <1>5, <1>6
<1>8. g \in Bijection(1..C, S)
  <2>1. g \in [1..C -> S]
    BY <1>7
  <2> HIDE DEF g
  <2>2. \A i, j \in 1..C : g[i] = g[j] => i = j
    BY <1>7
  <2>3. \A x \in S : \E i \in 1..C : g[i] = x
    BY <1>6, <1>7
  <2> QED BY <2>1, <2>2, <2>3 DEF Bijection, Injection, IsInjective, Surjection
<1>9. h \in [S -> LogLine]
  BY <1>1 DEF LogLine, Inv, TablesOK, Flight
<1>10. LinesOf(kind) = [i \in 1..C |-> h[g[i]]]
  <2>1. DOMAIN kind = S
    OBVIOUS
  <2>2. LinesOf(kind) = [i \in 1..C |-> [task |-> g[i].task, kind |-> kind[g[i]]]]
    BY <2>1 DEF LinesOf, rank
  <2>3. \A i \in 1..C : h[g[i]] = [task |-> g[i].task, kind |-> kind[g[i]]]
    BY <1>7
  <2> HIDE DEF g, h
  <2> QED BY <2>2, <2>3
<1> DEFINE B == Bearing(kind, V)
<1>11. B \in SUBSET S /\ \A f \in S : f \in B <=> h[f] \in V
  BY DEF Bearing
<1> DEFINE L == LinesOf(kind)
<1>12. /\ L \in [1..Cardinality(S) -> LogLine]
       /\ \A i \in 1..Cardinality(S) : L[i] = h[g[i]]
  <2>1. \A i \in 1..C : h[g[i]] \in LogLine
    BY <1>7, <1>9
  <2> HIDE DEF g, h
  <2> QED BY <1>10, <2>1
<1>13. g \in Bijection(DOMAIN L, S)
  BY <1>8, <1>12
<1> HIDE DEF g, h, B, L
<1>14. B \in SUBSET S /\ \A i \in DOMAIN L : L[i] \in V <=> g[i] \in B
  <2>1. \A i \in DOMAIN L : g[i] \in S /\ L[i] = h[g[i]]
    BY <1>7, <1>12
  <2> QED BY <1>11, <2>1
<1>15. Cardinality(Occurs(L, V)) = Cardinality(B)
  BY <1>2, <1>13, <1>14, OccursListed
<1>16. L \in Seq(LogLine)
  <2>1. Cardinality(S) \in Nat
    BY <1>2, FS_CardinalityType
  <2> QED BY <1>12, <2>1
<1> QED BY <1>15, <1>16 DEF B, L

-----------------------------------------------------------------------------
(* Counting the lines of the log. *)

Tally(log, V) == Cardinality(Occurs(log, V))
Saying(kind, t) == {[kind |-> kind, task |-> t]}
Being(kinds) == {line \in LogLine : line.kind \in kinds}
Endings == {"succeeded", "failed", "died"}

\* The counts of the properties are tallies of the log.
LEMMA TalliesRead ==
    ASSUME NEW log \in Seq(LogLine)
    PROVE  /\ \A kind, t : {i \in DOMAIN log : log[i] = [kind |-> kind, task |-> t]}
                              = Occurs(log, Saying(kind, t))
           /\ \A kinds : {i \in DOMAIN log : log[i].kind \in kinds}
                              = Occurs(log, Being(kinds))
           /\ \A V : Tally(log, V) \in Nat /\ IsFiniteSet(Occurs(log, V))
<1>1. \A i \in DOMAIN log : log[i] \in LogLine
  OBVIOUS
<1>2. ASSUME NEW kind, NEW t
      PROVE  {i \in DOMAIN log : log[i] = [kind |-> kind, task |-> t]}
                = Occurs(log, Saying(kind, t))
  BY DEF Occurs, Saying
<1>3. ASSUME NEW kinds
      PROVE  {i \in DOMAIN log : log[i].kind \in kinds} = Occurs(log, Being(kinds))
  BY <1>1 DEF Occurs, Being
<1>4. ASSUME NEW V
      PROVE  Tally(log, V) \in Nat /\ IsFiniteSet(Occurs(log, V))
  BY OccursFinite DEF Tally
<1> QED BY <1>2, <1>3, <1>4

\* A step that appends to the log adds what it appends to every count.
LEMMA LogGrows ==
    ASSUME events \in Seq(LogLine), NEW more \in Seq(LogLine),
           events' = events \o more
    PROVE  /\ events' \in Seq(LogLine)
           /\ \A V : Tally(events', V) = Tally(events, V) + Tally(more, V)
           /\ \A V : Tally(events, V) \in Nat /\ Tally(more, V) \in Nat
BY OccursAppend, TalliesRead DEF Tally

\* A line is one entry, and counts where it belongs.
LEMMA LineTally ==
    ASSUME NEW kind \in Kind, NEW t \in Task \cup {None}, NEW V
    PROVE  /\ Line(kind, t) \in Seq(LogLine)
           /\ Tally(Line(kind, t), V)
                 = IF [kind |-> kind, task |-> t] \in V THEN 1 ELSE 0
<1> DEFINE l == [kind |-> kind, task |-> t]
           A == Occurs(<<l>>, V)
<1>1. l \in LogLine
  BY DEF LogLine
<1> HIDE DEF l
<1>2. <<l>> \in Seq(LogLine) /\ DOMAIN <<l>> = {1} /\ <<l>>[1] = l
  BY <1>1
<1>3. A = IF l \in V THEN {1} ELSE {}
  BY <1>2 DEF Occurs
<1> HIDE DEF A
<1>4. Cardinality(A) = IF l \in V THEN 1 ELSE 0
  BY <1>3, FS_EmptySet, FS_Singleton
<1> QED BY <1>2, <1>4 DEF A, Line, Tally, l

Joins(x, y, z) == (x \o y) \o z = x \o (y \o z)

LEMMA LinesJoin ==
    ASSUME NEW x \in Seq(LogLine), NEW y \in Seq(LogLine), NEW z \in Seq(LogLine)
    PROVE  Joins(x, y, z)
BY DEF Joins

\* The three lines of a task shed for another are appended as one.
LEMMA ShedLines ==
    ASSUME events \in Seq(LogLine), NEW v \in Task, NEW t \in Task
    PROVE  /\ Line("dead_lettered", v) \o Line("submitted", t) \o Line("shed", v)
                  \in Seq(LogLine)
           /\ events \o Line("dead_lettered", v) \o Line("submitted", t) \o Line("shed", v)
              = events \o (Line("dead_lettered", v) \o Line("submitted", t)
                              \o Line("shed", v))
<1>1. {"dead_lettered", "submitted", "shed"} \subseteq Kind
  BY DEF Kind
<1>2. PICK e \in Seq(LogLine), a \in Seq(LogLine), b \in Seq(LogLine), c \in Seq(LogLine) :
        /\ e = events /\ a = Line("dead_lettered", v)
        /\ b = Line("submitted", t) /\ c = Line("shed", v)
  BY <1>1, LineTally
<1>3. PICK ab \in Seq(LogLine) : ab = a \o b
  BY ConcatProperties
<1>4. Joins(e, a, b) /\ Joins(e, ab, c)
  BY LinesJoin
<1>5. e \o a \o b = e \o (a \o b) /\ (e \o ab) \o c = e \o (ab \o c)
  BY <1>4, Zenon DEF Joins
<1>6. ab \o c \in Seq(LogLine)
  BY ConcatProperties
<1> QED BY <1>2, <1>3, <1>5, <1>6, Zenon

\* What one line adds to the counts.
LEMMA LineCounts ==
    ASSUME NEW kind \in Kind, NEW t \in Task \cup {None}
    PROVE  /\ \A k, s : Tally(Line(kind, t), Saying(k, s))
                            = IF k = kind /\ s = t THEN 1 ELSE 0
           /\ \A kinds : Tally(Line(kind, t), Being(kinds))
                            = IF kind \in kinds THEN 1 ELSE 0
<1> DEFINE l == [kind |-> kind, task |-> t]
<1>1. l \in LogLine /\ l.kind = kind /\ l.task = t
  BY DEF LogLine
<1>2. \A k, s : l \in Saying(k, s) <=> k = kind /\ s = t
  BY DEF Saying
<1> HIDE DEF l
<1>3. \A kinds : l \in Being(kinds) <=> kind \in kinds
  BY <1>1 DEF Being
<1>4. \A V : Tally(Line(kind, t), V) = IF l \in V THEN 1 ELSE 0
  BY LineTally DEF l
<1> QED BY <1>2, <1>3, <1>4

\* The records of a table that are about task t.
About(S, t) == {x \in S : x.task = t}

\* What the flights of a resolution leave in the log: one ending each, and a
\* verdict of the retry schedule for each that did not succeed.
LEMMA ResolutionCounts ==
    ASSUME Inv, Arrivals, NEW done, done = complete \cup sweep,
           NEW lost, lost = {f \in done : ~Succeeds(f)}
    PROVE  /\ Resolution(done, lost) \in Seq(LogLine)
           /\ \A t \in Task :
                 /\ Tally(Resolution(done, lost), Saying("submitted", t)) = 0
                 /\ Tally(Resolution(done, lost), Saying("started", t)) = 0
                 /\ Tally(Resolution(done, lost), Saying("succeeded", t))
                       = Cardinality(About(done \ lost, t))
           /\ Tally(Resolution(done, lost), Being({"started"})) = 0
           /\ Tally(Resolution(done, lost), Being({"submitted"})) = 0
           /\ Tally(Resolution(done, lost), Being(Endings)) = Cardinality(done)
           /\ Tally(Resolution(done, lost), Being({"succeeded", "dead_lettered"}))
                 = Cardinality(done \ lost) + Cardinality({f \in lost : Spent(f)})
<1> DEFINE outcome == [f \in done |-> Outcome(f)]
           sequel == [f \in lost |-> Sequel(f)]
           A == LinesOf(outcome)
           B == LinesOf(sequel)
           ofA(V) == Bearing(outcome, V)
           ofB(V) == Bearing(sequel, V)
<1>1. /\ done \in SUBSET (complete \cup sweep) /\ lost \in SUBSET done
      /\ \A f \in done : f \in Flight /\ f.task \in Task
  BY DEF complete, sweep, Inv, TablesOK, Flight
<1>2. \A f \in done : /\ outcome[f] \in Endings
                      /\ outcome[f] = "succeeded" <=> f \notin lost
  <2> TAKE f \in done
  <2>1. CASE Succeeds(f)
    BY <2>1 DEF Outcome, Endings
  <2>2. CASE ~Succeeds(f) /\ f \in complete
    <3>1. answers[f.task] \in Answer
      BY <1>1, <2>2 DEF Inv, TablesOK, AnswersMatchFlights, complete
    <3>2. answers[f.task].status \in {"failed", "died"}
      BY <2>2, <3>1, QueueAssumption DEF Answer, Status, Succeeds
    <3> QED BY <2>2, <3>2 DEF Outcome, Reason, Endings
  <2>3. CASE f \notin complete
    BY <2>3 DEF Outcome, Reason, Endings, Succeeds
  <2> QED BY <2>1, <2>2, <2>3
<1>3. \A f \in lost : sequel[f] = IF Spent(f) THEN "dead_lettered" ELSE "retried"
  BY DEF Sequel
<1>4. outcome \in [done -> Kind] /\ sequel \in [lost -> Kind]
  <2>1. \A f \in done : Outcome(f) \in Kind
    BY <1>2 DEF Endings, Kind, Status
  <2>2. \A f \in lost : Sequel(f) \in Kind
    BY <1>3 DEF Kind
  <2> QED BY <2>1, <2>2
<1> HIDE DEF outcome, sequel
<1>5. /\ A \in Seq(LogLine) /\ B \in Seq(LogLine)
      /\ \A V : Tally(A, V) = Cardinality(ofA(V))
      /\ \A V : Tally(B, V) = Cardinality(ofB(V))
  <2>1. lost \in SUBSET (complete \cup sweep)
    BY <1>1
  <2> QED BY <1>1, <1>4, <2>1, LinesListed DEF Tally
<1>6. Resolution(done, lost) = A \o B
  BY DEF Resolution, outcome, sequel
<1> HIDE DEF A, B
<1>7. \A V : /\ Tally(A \o B, V) = Cardinality(ofA(V)) + Cardinality(ofB(V))
            /\ Cardinality(ofA(V)) \in Nat /\ Cardinality(ofB(V)) \in Nat
  BY <1>5, OccursAppend, TalliesRead DEF Tally
<1>8. Cardinality({}) = 0
  BY FS_EmptySet
<1>9. \A f \in done, k \in Kind :
          [task |-> f.task, kind |-> k] \in LogLine
  BY <1>1 DEF LogLine
<1>10. ASSUME NEW kinds
       PROVE  /\ ofA(Being(kinds)) = {f \in done : outcome[f] \in kinds}
              /\ ofB(Being(kinds)) = {f \in lost : sequel[f] \in kinds}
  BY <1>1, <1>4, <1>9 DEF Being, Bearing
<1>11. ASSUME NEW k, NEW t
       PROVE  /\ ofA(Saying(k, t)) = {f \in done : outcome[f] = k /\ f.task = t}
              /\ ofB(Saying(k, t)) = {f \in lost : sequel[f] = k /\ f.task = t}
  BY <1>4 DEF Saying, Bearing
<1> HIDE DEF ofA, ofB
<1>12. ASSUME NEW t \in Task
       PROVE  /\ Tally(A \o B, Saying("submitted", t)) = 0
              /\ Tally(A \o B, Saying("started", t)) = 0
              /\ Tally(A \o B, Saying("succeeded", t))
                    = Cardinality(About(done \ lost, t))
  <2>1. ASSUME NEW k \in {"submitted", "started"}
        PROVE  ofA(Saying(k, t)) = {} /\ ofB(Saying(k, t)) = {}
    BY <1>2, <1>3, <1>11 DEF Endings
  <2>2. /\ ofA(Saying("succeeded", t)) = About(done \ lost, t)
        /\ ofB(Saying("succeeded", t)) = {}
    BY <1>2, <1>3, <1>11 DEF About
  <2>3. /\ ofA(Saying("submitted", t)) = {} /\ ofB(Saying("submitted", t)) = {}
        /\ ofA(Saying("started", t)) = {} /\ ofB(Saying("started", t)) = {}
    BY <2>1
  <2>4. \A V : ofA(V) = {} /\ ofB(V) = {} => Tally(A \o B, V) = 0
    BY <1>7, <1>8
  <2>5. \A V : ofB(V) = {} => Tally(A \o B, V) = Cardinality(ofA(V))
    BY <1>7, <1>8
  <2> QED BY <2>2, <2>3, <2>4, <2>5
<1>13. ASSUME NEW kinds \in {{"started"}, {"submitted"}}
       PROVE  Tally(A \o B, Being(kinds)) = 0
  <2>1. ofA(Being(kinds)) = {} /\ ofB(Being(kinds)) = {}
    BY <1>2, <1>3, <1>10 DEF Endings
  <2> QED BY <1>7, <1>8, <2>1
<1>14. Tally(A \o B, Being(Endings)) = Cardinality(done)
  <2>1. ofA(Being(Endings)) = done /\ ofB(Being(Endings)) = {}
    BY <1>2, <1>3, <1>10 DEF Endings
  <2>2. Cardinality(done) \in Nat
    BY <1>7, <2>1
  <2> QED BY <1>7, <1>8, <2>1, <2>2
<1>15. Tally(A \o B, Being({"succeeded", "dead_lettered"}))
          = Cardinality(done \ lost) + Cardinality({f \in lost : Spent(f)})
  <2>1. /\ ofA(Being({"succeeded", "dead_lettered"})) = done \ lost
        /\ ofB(Being({"succeeded", "dead_lettered"})) = {f \in lost : Spent(f)}
    BY <1>1, <1>2, <1>3, <1>10 DEF Endings
  <2> QED BY <1>7, <2>1
<1>16. A \o B \in Seq(LogLine)
  BY <1>5
<1> QED BY <1>6, <1>12, <1>13, <1>14, <1>15, <1>16

-----------------------------------------------------------------------------
(* The flights open at each line of the log. *)

Early(log, V, n) == {i \in Occurs(log, V) : i <= n}
Open(log, n) ==
    Cardinality(Early(log, Being({"started"}), n))
    - Cardinality(Early(log, Being(Endings), n))

LEMMA EarlyCounts ==
    ASSUME NEW log \in Seq(LogLine), NEW V, NEW n \in Nat
    PROVE  /\ IsFiniteSet(Early(log, V, n))
           /\ Cardinality(Early(log, V, n)) \in Nat
           /\ Cardinality(Early(log, V, n)) <= Tally(log, V)
           /\ n >= Len(log) => Early(log, V, n) = Occurs(log, V)
<1>1. Early(log, V, n) \in SUBSET Occurs(log, V)
  BY DEF Early
<1>2. IsFiniteSet(Occurs(log, V))
  BY OccursFinite
<1>3. n >= Len(log) => Early(log, V, n) = Occurs(log, V)
  BY DEF Early, Occurs
<1> QED BY <1>1, <1>2, <1>3, FS_Subset, FS_CardinalityType DEF Tally

\* What is appended changes no earlier line; and without a start in it no later
\* line has more open flights than the last one had.
LEMMA OpenGrows ==
    ASSUME NEW log \in Seq(LogLine), NEW more \in Seq(LogLine)
    PROVE  /\ \A n \in DOMAIN log : Open(log \o more, n) = Open(log, n)
           /\ Tally(more, Being({"started"})) = 0 =>
                 \A n \in Nat : n >= Len(log) =>
                    Open(log \o more, n)
                    <= Tally(log, Being({"started"})) - Tally(log, Being(Endings))
           /\ Open(log, Len(log))
                 = Tally(log, Being({"started"})) - Tally(log, Being(Endings))
<1> DEFINE S == Being({"started"})
           E == Being(Endings)
<1> HIDE DEF S, E
<1>1. /\ log \o more \in Seq(LogLine) /\ Len(log) \in Nat
      /\ DOMAIN log = 1..Len(log)
  OBVIOUS
<1>2. ASSUME NEW n \in DOMAIN log
      PROVE  Open(log \o more, n) = Open(log, n)
  <2>1. n \in Nat /\ n <= Len(log)
    BY <1>1
  <2>2. \A V : Early(log \o more, V, n) = Early(log, V, n)
    BY <2>1, OccursEarly DEF Early
  <2> QED BY <2>2 DEF Open
<1>3. ASSUME Tally(more, S) = 0, NEW n \in Nat, n >= Len(log)
      PROVE  Open(log \o more, n) <= Tally(log, S) - Tally(log, E)
  <2>1. Tally(log \o more, S) = Tally(log, S) /\ Tally(log, S) \in Nat
    BY <1>3, OccursAppend, TalliesRead DEF Tally
  <2>2. Cardinality(Early(log \o more, S, n)) <= Tally(log, S)
        /\ Cardinality(Early(log \o more, S, n)) \in Nat
    BY <1>1, <2>1, EarlyCounts
  <2>3. Early(log \o more, E, Len(log)) = Occurs(log, E)
    <3>1. Early(log \o more, E, Len(log)) = Early(log, E, Len(log))
      BY <1>1, OccursEarly DEF Early
    <3>2. Early(log, E, Len(log)) = Occurs(log, E)
      BY <1>1, EarlyCounts
    <3> QED BY <3>1, <3>2
  <2>4. Occurs(log, E) \in SUBSET Early(log \o more, E, n)
    <3>1. ASSUME NEW i \in Occurs(log, E) PROVE i \in Early(log \o more, E, n)
      <4>1. i \in Occurs(log \o more, E) /\ i <= Len(log)
        BY <2>3, <3>1 DEF Early
      <4>2. i \in Nat
        BY <1>1 DEF Occurs
      <4> QED BY <1>1, <1>3, <4>1, <4>2 DEF Early
    <3> QED BY <3>1
  <2>5. /\ IsFiniteSet(Early(log \o more, E, n))
        /\ Cardinality(Early(log \o more, E, n)) \in Nat
    BY <1>1, EarlyCounts
  <2>6. Tally(log, E) <= Cardinality(Early(log \o more, E, n))
        /\ Tally(log, E) \in Nat
    BY <2>4, <2>5, FS_Subset, TalliesRead DEF Tally
  <2> QED BY <2>1, <2>2, <2>5, <2>6 DEF Open, S, E
<1>4. Open(log, Len(log)) = Tally(log, S) - Tally(log, E)
  BY <1>1, EarlyCounts DEF Open, Tally, S, E
<1> QED BY <1>2, <1>3, <1>4 DEF S, E

-----------------------------------------------------------------------------
(* The log agrees with the tables. *)

LogTyped ==
    /\ events \in Seq(LogLine) /\ IsFiniteSet(dead)
    /\ policy \in {"refuse", "shed", "block"}

\* OnePlace in terms of tallies.
Placed ==
    \A t \in Task :
        Tally(events, Saying("submitted", t)) =
            Cardinality(About(pending, t)) + Cardinality(About(in_flight, t))
            + Cardinality(About(dead, t)) + Tally(events, Saying("succeeded", t))

\* A task is taken once at most, and nothing is logged of it before its offer.
Once ==
    \A t \in Task :
        /\ Tally(events, Saying("submitted", t)) <= 1
        /\ t > offered => /\ Tally(events, Saying("submitted", t)) = 0
                          /\ Tally(events, Saying("started", t)) = 0

\* The attempts a record carries are the starts the log has of its task.
Counted ==
    /\ \A x \in pending : Tally(events, Saying("started", x.task)) = x.attempts
    /\ \A f \in in_flight : Tally(events, Saying("started", f.task)) = f.attempt

Balanced ==
    /\ Tally(events, Being({"started"}))
          = Cardinality(in_flight) + Tally(events, Being(Endings))
    /\ Tally(events, Being({"submitted"}))
          = Cardinality(pending) + Cardinality(in_flight)
            + Tally(events, Being({"succeeded", "dead_lettered"}))

NeverCrowded == \A n \in DOMAIN events : Open(events, n) <= pool.max_concurrency

LogInv == LogTyped /\ Placed /\ Once /\ Counted /\ Balanced /\ NeverCrowded

\* What the log's invariant says of the run's properties.
LEMMA LogReads ==
    ASSUME Inv, LogInv
    PROVE  OnePlace /\ RecordAddsUp /\ TypeOK
<1>1. events \in Seq(LogLine) /\ Len(events) \in Nat
  BY DEF LogInv, LogTyped
<1>2. \A k, t : Cardinality(Logged(k, t)) = Tally(events, Saying(k, t))
  BY <1>1, TalliesRead DEF Logged, Tally
<1>3. \A kinds : Lines(kinds) = Occurs(events, Being(kinds))
  BY <1>1, TalliesRead DEF Lines
<1>4. OnePlace
  BY <1>2 DEF OnePlace, LogInv, Placed, Waiting, Running, Letters, About
<1>5. \A n : InFlightAfter(n) = Open(events, n)
  BY <1>3 DEF InFlightAfter, Open, Early, Endings
<1>6. RecordAddsUp
  <2>1. /\ Cardinality(pending) \in Nat /\ Cardinality(in_flight) \in Nat
        /\ \A V : Tally(events, V) \in Nat
    BY <1>1, DepthType, TalliesRead DEF Inv
  <2>2. InFlightAfter(Len(events)) = Cardinality(in_flight)
    BY <1>1, <1>5, <2>1, OpenGrows DEF LogInv, Balanced
  <2>3. Cardinality(Lines({"submitted"}))
           = depth + Cardinality(Lines({"succeeded", "dead_lettered"}))
    BY <1>3 DEF LogInv, Balanced, depth, Tally
  <2> QED BY <1>5, <2>2, <2>3 DEF RecordAddsUp, LogInv, NeverCrowded
<1>7. TypeOK
  BY DEF Inv, LogInv, LogTyped, LogLine, TypeOK
<1> QED BY <1>4, <1>6, <1>7

\* A task that a table holds is held there once and has no other trace.
LEMMA HeldAlone ==
    ASSUME Inv, LogInv
    PROVE  /\ \A t \in Task :
                 /\ Cardinality(About(pending, t)) \in Nat
                 /\ Cardinality(About(in_flight, t)) \in Nat
                 /\ Cardinality(About(dead, t)) \in Nat
                 /\ IsFiniteSet(About(dead, t))
           /\ \A x \in pending : /\ About(pending, x.task) = {x}
                                 /\ About(in_flight, x.task) = {}
                                 /\ About(dead, x.task) = {}
                                 /\ Tally(events, Saying("succeeded", x.task)) = 0
                                 /\ Tally(events, Saying("submitted", x.task)) = 1
           /\ \A f \in in_flight : /\ About(in_flight, f.task) = {f}
                                   /\ About(pending, f.task) = {}
                                   /\ About(dead, f.task) = {}
                                   /\ Tally(events, Saying("succeeded", f.task)) = 0
                                   /\ Tally(events, Saying("submitted", f.task)) = 1
           /\ \A t \in Task : t > offered =>
                 /\ About(pending, t) = {} /\ About(in_flight, t) = {}
                 /\ About(dead, t) = {}
                 /\ Tally(events, Saying("succeeded", t)) = 0
<1>1. \A V : Tally(events, V) \in Nat
  BY TalliesRead DEF LogInv, LogTyped
<1>2. ASSUME NEW S, IsFiniteSet(S), NEW t
      PROVE  /\ IsFiniteSet(About(S, t)) /\ Cardinality(About(S, t)) \in Nat
             /\ Cardinality(About(S, t)) = 0 => About(S, t) = {}
  <2>1. About(S, t) \in SUBSET S
    BY DEF About
  <2> QED BY <1>2, <2>1, FS_Subset, FS_CardinalityType, FS_EmptySet
<1>3. IsFiniteSet(pending) /\ IsFiniteSet(in_flight) /\ IsFiniteSet(dead)
  BY DEF Inv, Finite, LogInv, LogTyped
<1>4. \A t \in Task :
         /\ Tally(events, Saying("submitted", t)) =
               Cardinality(About(pending, t)) + Cardinality(About(in_flight, t))
               + Cardinality(About(dead, t)) + Tally(events, Saying("succeeded", t))
         /\ Tally(events, Saying("submitted", t)) <= 1
         /\ t > offered => Tally(events, Saying("submitted", t)) = 0
  BY DEF LogInv, Placed, Once
<1>5. /\ \A x : Cardinality({x}) = 1
      /\ \A t \in Task : /\ Cardinality(About(pending, t)) \in Nat
                          /\ Cardinality(About(in_flight, t)) \in Nat
                          /\ Cardinality(About(dead, t)) \in Nat
  BY <1>2, <1>3, FS_Singleton
<1>6. ASSUME NEW x \in pending
      PROVE  /\ About(pending, x.task) = {x} /\ About(in_flight, x.task) = {}
             /\ About(dead, x.task) = {}
             /\ Tally(events, Saying("succeeded", x.task)) = 0
             /\ Tally(events, Saying("submitted", x.task)) = 1
  <2>1. About(pending, x.task) = {x}
    BY DEF About, Inv, OneRecord
  <2>2. Cardinality(About(pending, x.task)) = 1 /\ x.task \in Task
    BY <1>5, <2>1 DEF Inv, TablesOK, Ticket
  <2>3. /\ Cardinality(About(in_flight, x.task)) = 0
        /\ Cardinality(About(dead, x.task)) = 0
        /\ Tally(events, Saying("succeeded", x.task)) = 0
        /\ Tally(events, Saying("submitted", x.task)) = 1
    BY <1>1, <1>4, <1>5, <2>2
  <2> QED BY <1>2, <1>3, <2>1, <2>3
<1>7. ASSUME NEW f \in in_flight
      PROVE  /\ About(in_flight, f.task) = {f} /\ About(pending, f.task) = {}
             /\ About(dead, f.task) = {}
             /\ Tally(events, Saying("succeeded", f.task)) = 0
             /\ Tally(events, Saying("submitted", f.task)) = 1
  <2>1. About(in_flight, f.task) = {f}
    BY DEF About, Inv, OneRecord
  <2>2. Cardinality(About(in_flight, f.task)) = 1 /\ f.task \in Task
    BY <1>5, <2>1 DEF Inv, TablesOK, Flight
  <2>3. /\ Cardinality(About(pending, f.task)) = 0
        /\ Cardinality(About(dead, f.task)) = 0
        /\ Tally(events, Saying("succeeded", f.task)) = 0
        /\ Tally(events, Saying("submitted", f.task)) = 1
    BY <1>1, <1>4, <1>5, <2>2
  <2> QED BY <1>2, <1>3, <2>1, <2>3
<1>8. ASSUME NEW t \in Task, t > offered
      PROVE  /\ About(pending, t) = {} /\ About(in_flight, t) = {}
             /\ About(dead, t) = {} /\ Tally(events, Saying("succeeded", t)) = 0
  <2>1. /\ Cardinality(About(pending, t)) = 0
        /\ Cardinality(About(in_flight, t)) = 0
        /\ Cardinality(About(dead, t)) = 0
        /\ Tally(events, Saying("succeeded", t)) = 0
    BY <1>1, <1>2, <1>3, <1>4, <1>8
  <2> QED BY <1>2, <1>3, <2>1
<1> QED BY <1>2, <1>3, <1>6, <1>7, <1>8

\* Appending lines that start nothing crowds no line.
LEMMA StaysUncrowded ==
    ASSUME Inv, LogInv, NEW more \in Seq(LogLine), events' = events \o more,
           pool' = pool, Tally(more, Being({"started"})) = 0
    PROVE  NeverCrowded'
<1> SUFFICES ASSUME NEW n \in DOMAIN events'
             PROVE  Open(events', n) <= pool.max_concurrency
  BY DEF NeverCrowded
<1>1. /\ events \in Seq(LogLine) /\ Len(events) \in Nat
      /\ DOMAIN events = 1..Len(events) /\ n \in Nat \ {0}
  BY DEF LogInv, LogTyped
<1>2. CASE n \in DOMAIN events
  BY <1>1, <1>2, OpenGrows DEF LogInv, NeverCrowded
<1>3. CASE n >= Len(events)
  <2>1. Open(events', n) <= Cardinality(in_flight)
    <3>1. Cardinality(in_flight) \in Nat /\ Tally(events, Being(Endings)) \in Nat
      BY <1>1, DepthType, TalliesRead DEF Inv
    <3>2. Tally(events, Being({"started"})) - Tally(events, Being(Endings))
             = Cardinality(in_flight)
      BY <3>1 DEF LogInv, Balanced
    <3> QED BY <1>1, <1>3, <3>2, OpenGrows
  <2>2. Open(events', n) \in Int
    <3>1. events' \in Seq(LogLine) /\ n \in Nat
      BY <1>1
    <3>2. \A V : Cardinality(Early(events', V, n)) \in Nat
      BY <3>1, EarlyCounts
    <3>3. /\ Cardinality(Early(events', Being({"started"}), n)) \in Nat
          /\ Cardinality(Early(events', Being(Endings), n)) \in Nat
      BY <3>2
    <3> QED BY <3>3 DEF Open
  <2>3. Cardinality(in_flight) \in Nat /\ pool.max_concurrency \in Nat
    BY DepthType, RunAssumption DEF Inv, TablesOK
  <2> QED BY <2>1, <2>2, <2>3 DEF Inv, LimitsHeld
<1> QED BY <1>1, <1>2, <1>3

\* Lines that count for nothing.
Idle(more) ==
    /\ \A t \in Task : /\ Tally(more, Saying("submitted", t)) = 0
                       /\ Tally(more, Saying("started", t)) = 0
                       /\ Tally(more, Saying("succeeded", t)) = 0
    /\ Tally(more, Being({"started"})) = 0
    /\ Tally(more, Being({"submitted"})) = 0
    /\ Tally(more, Being(Endings)) = 0
    /\ Tally(more, Being({"succeeded", "dead_lettered"})) = 0

LEMMA IdleLine ==
    ASSUME NEW kind \in {"refused", "blocked", "stopped"},
           NEW t \in Task \cup {None}
    PROVE  Line(kind, t) \in Seq(LogLine) /\ Idle(Line(kind, t))
<1>1. /\ kind \in Kind /\ kind \notin {"started"} /\ kind \notin {"submitted"}
      /\ kind \notin Endings /\ kind \notin {"succeeded", "dead_lettered"}
  BY DEF Kind, Endings
<1>2. /\ \A k, s : k # kind => Tally(Line(kind, t), Saying(k, s)) = 0
      /\ \A kinds : kind \notin kinds => Tally(Line(kind, t), Being(kinds)) = 0
  BY <1>1, LineCounts
<1>3. Line(kind, t) \in Seq(LogLine)
  BY <1>1, LineTally
<1> QED BY <1>1, <1>2, <1>3 DEF Idle

LEMMA IdleNothing == << >> \in Seq(LogLine) /\ Idle(<< >>)
<1>1. \A V : Occurs(<< >>, V) = {}
  BY DEF Occurs
<1>2. \A V : Tally(<< >>, V) = 0
  BY <1>1, FS_EmptySet DEF Tally
<1> QED BY <1>2 DEF Idle

\* A step that logs idle lines and leaves the tables alone.
LEMMA QuietLog ==
    ASSUME Inv, LogInv, UNCHANGED <<inputs, pending, flights, dead>>,
           offered' \in Nat, offered' >= offered,
           NEW more \in Seq(LogLine), Idle(more), events' = events \o more
    PROVE  LogInv'
<1> USE DEF inputs, given, flights
<1>1. events \in Seq(LogLine)
  BY DEF LogInv, LogTyped
<1>2. /\ events' \in Seq(LogLine)
      /\ \A V : Tally(more, V) = 0 => Tally(events', V) = Tally(events, V)
  BY <1>1, LogGrows
<1>3. \A s \in Task :
         /\ Tally(events', Saying("submitted", s)) = Tally(events, Saying("submitted", s))
         /\ Tally(events', Saying("started", s)) = Tally(events, Saying("started", s))
         /\ Tally(events', Saying("succeeded", s)) = Tally(events, Saying("succeeded", s))
  BY <1>2 DEF Idle
<1>4. LogTyped'
  BY <1>2 DEF LogInv, LogTyped
<1>5. Placed'
  BY <1>3 DEF LogInv, Placed
<1>6. Once'
  <2> SUFFICES ASSUME NEW s \in Task
               PROVE  /\ Tally(events', Saying("submitted", s)) <= 1
                      /\ s > offered' => /\ Tally(events', Saying("submitted", s)) = 0
                                         /\ Tally(events', Saying("started", s)) = 0
    BY DEF Once
  <2>1. s > offered' => s > offered
    BY QueueAssumption DEF Task, Inv, TablesOK
  <2> QED BY <1>3, <2>1 DEF LogInv, Once
<1>7. Counted'
  <2>1. \A x \in pending \cup in_flight : x.task \in Task
    BY DEF Inv, TablesOK, Ticket, Flight
  <2> QED BY <1>3, <2>1 DEF LogInv, Counted
<1>8. Balanced'
  BY <1>2 DEF LogInv, Balanced, Idle
<1>9. NeverCrowded'
  BY StaysUncrowded DEF Idle
<1> QED BY <1>4, <1>5, <1>6, <1>7, <1>8, <1>9 DEF LogInv


\* A task admitted below the mark is one ticket, logged as submitted once.
LEMMA AdmitBelowLog ==
    ASSUME Inv, LogInv, Admit, AdmitBelow(offered + 1)
    PROVE  LogInv'
<1> DEFINE t == offered + 1
           more == Line("submitted", t) \o Line("admitted", t)
<1>1. /\ t \in Task /\ offered' = t /\ offered \in Nat
      /\ UNCHANGED <<inputs, in_flight, dead>>
      /\ pending' = pending \cup {submit(t)} /\ events' = events \o more
  BY DEF Admit, AdmitBelow, Takes, At, flights, Inv, TablesOK
<1>2. submit(t).task = t /\ submit(t).attempts = 0
  BY DEF submit
<1>3. /\ "submitted" \in Kind /\ "admitted" \in Kind
  BY DEF Kind
<1> HIDE DEF t
<1>4. /\ more \in Seq(LogLine)
      /\ \A V : Tally(more, V) = Tally(Line("submitted", t), V) + Tally(Line("admitted", t), V)
  <2>1. Line("submitted", t) \in Seq(LogLine) /\ Line("admitted", t) \in Seq(LogLine)
    BY <1>1, <1>3, LineTally
  <2> QED BY <2>1, OccursAppend DEF Tally
<1>5. /\ \A k, s : Tally(more, Saying(k, s)) = (IF k = "submitted" /\ s = t THEN 1 ELSE 0)
                                        + (IF k = "admitted" /\ s = t THEN 1 ELSE 0)
      /\ \A kinds : Tally(more, Being(kinds)) = (IF "submitted" \in kinds THEN 1 ELSE 0)
                                        + (IF "admitted" \in kinds THEN 1 ELSE 0)
  BY <1>1, <1>3, <1>4, LineCounts
<1> HIDE DEF more
<1>6. /\ events' \in Seq(LogLine)
      /\ \A V : Tally(events', V) = Tally(events, V) + Tally(more, V)
      /\ \A V : Tally(events, V) \in Nat
  BY <1>1, <1>4, LogGrows DEF LogInv, LogTyped
<1>7. \A s \in Task :
         /\ Tally(events', Saying("submitted", s))
               = Tally(events, Saying("submitted", s)) + (IF s = t THEN 1 ELSE 0)
         /\ Tally(events', Saying("started", s)) = Tally(events, Saying("started", s))
         /\ Tally(events', Saying("succeeded", s)) = Tally(events, Saying("succeeded", s))
  BY <1>5, <1>6
<1>8. t > offered
  BY <1>1 DEF t
<1>9. /\ About(pending, t) = {} /\ About(in_flight, t) = {} /\ About(dead, t) = {}
      /\ Tally(events, Saying("succeeded", t)) = 0
      /\ Tally(events, Saying("submitted", t)) = 0
      /\ Tally(events, Saying("started", t)) = 0
  BY <1>1, <1>8, HeldAlone DEF LogInv, Once
<1>10. LogTyped'
  BY <1>1, <1>6 DEF LogInv, LogTyped, inputs
<1>11. Placed'
  <2> SUFFICES ASSUME NEW s \in Task
               PROVE  Tally(events', Saying("submitted", s)) =
                         Cardinality(About(pending', s)) + Cardinality(About(in_flight, s))
                         + Cardinality(About(dead, s)) + Tally(events', Saying("succeeded", s))
    BY <1>1 DEF Placed
  <2>1. CASE s = t
    <3>1. About(pending', t) = {submit(t)}
      BY <1>1, <1>2, <1>9 DEF About
    <3>2. /\ Cardinality(About(pending', t)) = 1
          /\ Cardinality(About(in_flight, t)) = 0 /\ Cardinality(About(dead, t)) = 0
      BY <3>1, <1>9, FS_EmptySet, FS_Singleton
    <3>3. /\ Tally(events', Saying("submitted", t)) = 1
          /\ Tally(events', Saying("succeeded", t)) = 0
      BY <1>1, <1>7, <1>9
    <3> QED BY <2>1, <3>2, <3>3
  <2>2. CASE s # t
    <3>1. About(pending', s) = About(pending, s)
      BY <1>1, <1>2, <2>2 DEF About
    <3> QED BY <1>6, <1>7, <2>2, <3>1 DEF LogInv, Placed
  <2> QED BY <2>1, <2>2
<1>12. Once'
  <2> SUFFICES ASSUME NEW s \in Task
               PROVE  /\ Tally(events', Saying("submitted", s)) <= 1
                      /\ s > t => /\ Tally(events', Saying("submitted", s)) = 0
                                  /\ Tally(events', Saying("started", s)) = 0
    BY <1>1 DEF Once
  <2>1. s \in Nat /\ t \in Nat /\ t = offered + 1
    BY <1>1, QueueAssumption DEF Task, t
  <2>2. CASE s = t
    BY <1>7, <1>9, <2>1, <2>2
  <2>3. CASE s # t
    BY <1>1, <1>6, <1>7, <2>1, <2>3 DEF LogInv, Once
  <2> QED BY <2>2, <2>3
<1>13. Counted'
  <2>1. \A x \in pending \cup in_flight : x.task \in Task
    BY DEF Inv, TablesOK, Ticket, Flight
  <2> QED BY <1>1, <1>2, <1>7, <1>9, <2>1 DEF LogInv, Counted
<1>14. Balanced'
  <2>1. Cardinality(pending') = Cardinality(pending) + 1
    <3>1. submit(t) \notin pending
      BY <1>2, <1>9 DEF About
    <3> QED BY <1>1, <3>1, FS_AddElement DEF Inv, Finite
  <2>2. /\ Tally(events', Being({"started"})) = Tally(events, Being({"started"}))
        /\ Tally(events', Being(Endings)) = Tally(events, Being(Endings))
        /\ Tally(events', Being({"submitted"})) = Tally(events, Being({"submitted"})) + 1
        /\ Tally(events', Being({"succeeded", "dead_lettered"}))
              = Tally(events, Being({"succeeded", "dead_lettered"}))
    <3>1. /\ Tally(more, Being({"started"})) = 0 /\ Tally(more, Being(Endings)) = 0
          /\ Tally(more, Being({"submitted"})) = 1
          /\ Tally(more, Being({"succeeded", "dead_lettered"})) = 0
      BY <1>5 DEF Endings
    <3> QED BY <1>6, <3>1
  <2>3. Cardinality(pending) \in Nat /\ Cardinality(in_flight) \in Nat
    BY DepthType DEF Inv
  <2> QED BY <1>1, <1>6, <2>1, <2>2, <2>3 DEF LogInv, Balanced
<1>15. NeverCrowded'
  <2>1. pool' = pool /\ Tally(more, Being({"started"})) = 0
    BY <1>1, <1>5 DEF inputs, given
  <2> QED BY <1>1, <1>4, <2>1, StaysUncrowded
<1> QED BY <1>10, <1>11, <1>12, <1>13, <1>14, <1>15 DEF LogInv

\* A shed swaps the victim's ticket for a dead letter and takes the newcomer.
LEMMA AdmitShedLog ==
    ASSUME Inv, LogInv, Admit, AdmitShed(offered + 1)
    PROVE  LogInv'
<1> DEFINE t == offered + 1
<1>1. PICK victim \in pending :
         /\ dead' = dead \cup {[task |-> victim.task, reason |-> "shed",
                                attempts |-> victim.attempts]}
         /\ pending' = (pending \ {victim}) \cup {submit(t)}
         /\ events' = events \o Line("dead_lettered", victim.task)
                        \o Line("submitted", t) \o Line("shed", victim.task)
  BY DEF AdmitShed, Without
<1> DEFINE v == victim.task
           letter == [task |-> v, reason |-> "shed", attempts |-> victim.attempts]
           more == Line("dead_lettered", v) \o Line("submitted", t) \o Line("shed", v)
<1>2. /\ t \in Task /\ offered' = t /\ offered \in Nat /\ v \in Task /\ v # t
      /\ UNCHANGED <<inputs, in_flight>>
  <2>1. t \in Task /\ offered' = t /\ UNCHANGED inputs
    BY DEF Admit, At, inputs, given
  <2>2. UNCHANGED in_flight
    BY DEF AdmitShed, flights
  <2>3. TablesOK /\ OneRecord
    BY DEF Inv
  <2> HIDE DEF t
  <2>4. offered \in Nat /\ v \in Task
    BY <2>3, QueueAssumption DEF TablesOK, Ticket
  <2>5. v <= offered
    BY <2>3 DEF OneRecord
  <2>6. v # t
    BY <2>4, <2>5, QueueAssumption DEF t, Task
  <2> QED BY <2>1, <2>2, <2>4, <2>6
<1>3. submit(t).task = t /\ submit(t).attempts = 0 /\ letter.task = v
  BY DEF submit
<1>4. {"dead_lettered", "submitted", "shed"} \subseteq Kind
  BY DEF Kind
<1>5. dead' = dead \cup {letter}
  BY <1>1
<1>6. t > offered
  BY <1>2
<1> HIDE DEF t, v, letter
<1>7. /\ events \in Seq(LogLine) /\ Line("dead_lettered", v) \in Seq(LogLine)
      /\ Line("submitted", t) \in Seq(LogLine) /\ Line("shed", v) \in Seq(LogLine)
  BY <1>2, <1>4, LineTally DEF LogInv, LogTyped
<1>8. more \in Seq(LogLine) /\ events' = events \o more
  <2>1. /\ events' = events \o Line("dead_lettered", v) \o Line("submitted", t)
                       \o Line("shed", v)
        /\ more = Line("dead_lettered", v) \o Line("submitted", t) \o Line("shed", v)
    BY <1>1 DEF v
  <2> HIDE DEF more
  <2> QED BY <1>2, <1>7, <2>1, ShedLines, Zenon
<1>9. \A V : Tally(more, V) = Tally(Line("dead_lettered", v), V)
                + Tally(Line("submitted", t), V) + Tally(Line("shed", v), V)
  <2> DEFINE two == Line("dead_lettered", v) \o Line("submitted", t)
  <2>1. /\ two \in Seq(LogLine)
        /\ \A V : Tally(two, V) = Tally(Line("dead_lettered", v), V)
                     + Tally(Line("submitted", t), V)
    BY <1>7, OccursAppend DEF Tally
  <2> HIDE DEF two
  <2>2. \A V : Tally(two \o Line("shed", v), V) = Tally(two, V) + Tally(Line("shed", v), V)
    BY <1>7, <2>1, OccursAppend DEF Tally
  <2> QED BY <2>1, <2>2 DEF two
<1>10. /\ \A k, s : Tally(more, Saying(k, s)) =
             (IF k = "dead_lettered" /\ s = v THEN 1 ELSE 0)
             + (IF k = "submitted" /\ s = t THEN 1 ELSE 0)
             + (IF k = "shed" /\ s = v THEN 1 ELSE 0)
       /\ \A kinds : Tally(more, Being(kinds)) =
             (IF "dead_lettered" \in kinds THEN 1 ELSE 0)
             + (IF "submitted" \in kinds THEN 1 ELSE 0)
             + (IF "shed" \in kinds THEN 1 ELSE 0)
  BY <1>2, <1>4, <1>9, LineCounts
<1> HIDE DEF more
<1>11. /\ events' \in Seq(LogLine)
       /\ \A V : Tally(events', V) = Tally(events, V) + Tally(more, V)
       /\ \A V : Tally(events, V) \in Nat
  BY <1>7, <1>8, LogGrows
<1>12. \A s \in Task :
         /\ Tally(events', Saying("submitted", s))
               = Tally(events, Saying("submitted", s)) + (IF s = t THEN 1 ELSE 0)
         /\ Tally(events', Saying("started", s)) = Tally(events, Saying("started", s))
         /\ Tally(events', Saying("succeeded", s)) = Tally(events, Saying("succeeded", s))
  BY <1>10, <1>11
<1>13. /\ About(pending, t) = {} /\ About(in_flight, t) = {} /\ About(dead, t) = {}
       /\ Tally(events, Saying("succeeded", t)) = 0
       /\ Tally(events, Saying("submitted", t)) = 0
       /\ Tally(events, Saying("started", t)) = 0
  BY <1>2, <1>6, HeldAlone DEF LogInv, Once
<1>14. /\ About(pending, v) = {victim} /\ About(in_flight, v) = {}
       /\ About(dead, v) = {}
       /\ Tally(events, Saying("succeeded", v)) = 0
       /\ Tally(events, Saying("submitted", v)) = 1
  BY <1>1, HeldAlone DEF v
<1>15. LogTyped'
  <2>1. IsFiniteSet(dead')
    BY <1>5, FS_AddElement DEF LogInv, LogTyped
  <2> QED BY <1>2, <1>11, <2>1 DEF LogInv, LogTyped, inputs
<1>16. Placed'
  <2> SUFFICES ASSUME NEW s \in Task
               PROVE  Tally(events', Saying("submitted", s)) =
                         Cardinality(About(pending', s)) + Cardinality(About(in_flight, s))
                         + Cardinality(About(dead', s)) + Tally(events', Saying("succeeded", s))
    BY <1>2 DEF Placed
  <2>1. CASE s = t
    <3>1. About(pending', t) = {submit(t)} /\ About(dead', t) = {}
      BY <1>1, <1>2, <1>3, <1>5, <1>13 DEF About
    <3>2. /\ Cardinality(About(pending', t)) = 1
          /\ Cardinality(About(in_flight, t)) = 0 /\ Cardinality(About(dead', t)) = 0
      BY <3>1, <1>13, FS_EmptySet, FS_Singleton
    <3>3. /\ Tally(events', Saying("submitted", t)) = 1
          /\ Tally(events', Saying("succeeded", t)) = 0
      BY <1>2, <1>12, <1>13
    <3> QED BY <2>1, <3>2, <3>3
  <2>2. CASE s = v
    <3>1. About(pending', v) = {} /\ About(dead', v) = {letter}
      <4>1. About(pending', v) = About(pending, v) \ {victim}
        BY <1>1, <1>2, <1>3 DEF About
      <4>2. About(dead', v) = {letter}
        BY <1>3, <1>5, <1>14 DEF About
      <4> QED BY <1>14, <4>1, <4>2
    <3>2. /\ Cardinality(About(pending', v)) = 0
          /\ Cardinality(About(in_flight, v)) = 0 /\ Cardinality(About(dead', v)) = 1
      BY <3>1, <1>14, FS_EmptySet, FS_Singleton
    <3>3. /\ Tally(events', Saying("submitted", v)) = 1
          /\ Tally(events', Saying("succeeded", v)) = 0
      BY <1>2, <1>12, <1>14
    <3> QED BY <2>2, <3>2, <3>3
  <2>3. CASE s # t /\ s # v
    <3>1. About(pending', s) = About(pending, s) /\ About(dead', s) = About(dead, s)
      BY <1>1, <1>3, <1>5, <2>3 DEF About, v
    <3> QED BY <1>11, <1>12, <2>3, <3>1 DEF LogInv, Placed
  <2> QED BY <2>1, <2>2, <2>3
<1>17. Once'
  <2> SUFFICES ASSUME NEW s \in Task
               PROVE  /\ Tally(events', Saying("submitted", s)) <= 1
                      /\ s > t => /\ Tally(events', Saying("submitted", s)) = 0
                                  /\ Tally(events', Saying("started", s)) = 0
    BY <1>2 DEF Once
  <2>1. s \in Nat /\ t \in Nat /\ t = offered + 1
    BY <1>2, QueueAssumption DEF Task, t
  <2>2. CASE s = t
    BY <1>12, <1>13, <2>1, <2>2
  <2>3. CASE s # t
    BY <1>2, <1>11, <1>12, <2>1, <2>3 DEF LogInv, Once
  <2> QED BY <2>2, <2>3
<1>18. Counted'
  <2>1. \A x \in pending \cup in_flight : x.task \in Task
    BY DEF Inv, TablesOK, Ticket, Flight
  <2> QED BY <1>1, <1>2, <1>3, <1>12, <1>13, <2>1 DEF LogInv, Counted
<1>19. Balanced'
  <2>1. Cardinality(pending') = Cardinality(pending)
    <3> DEFINE rest == pending \ {victim}
    <3>1. IsFiniteSet(rest) /\ Cardinality(rest) = Cardinality(pending) - 1
      BY <1>1, FS_RemoveElement DEF Inv, Finite
    <3>2. submit(t) \notin rest
      BY <1>3, <1>13 DEF About
    <3>3. pending' = rest \cup {submit(t)}
      BY <1>1
    <3> HIDE DEF rest
    <3>4. Cardinality(pending') = Cardinality(rest) + 1
      BY <3>1, <3>2, <3>3, FS_AddElement
    <3>5. Cardinality(pending) \in Nat
      BY DepthType DEF Inv
    <3> QED BY <3>1, <3>4, <3>5
  <2>2. /\ Tally(events', Being({"started"})) = Tally(events, Being({"started"}))
        /\ Tally(events', Being(Endings)) = Tally(events, Being(Endings))
        /\ Tally(events', Being({"submitted"})) = Tally(events, Being({"submitted"})) + 1
        /\ Tally(events', Being({"succeeded", "dead_lettered"}))
              = Tally(events, Being({"succeeded", "dead_lettered"})) + 1
    BY <1>10, <1>11 DEF Endings
  <2>3. Cardinality(pending) \in Nat /\ Cardinality(in_flight) \in Nat
    BY DepthType DEF Inv
  <2> QED BY <1>2, <1>11, <2>1, <2>2, <2>3 DEF LogInv, Balanced
<1>20. NeverCrowded'
  <2>1. pool' = pool /\ Tally(more, Being({"started"})) = 0
    BY <1>2, <1>10 DEF inputs, given
  <2> QED BY <1>8, <2>1, StaysUncrowded
<1> QED BY <1>15, <1>16, <1>17, <1>18, <1>19, <1>20 DEF LogInv

LEMMA AdmitLog == ASSUME Inv, LogInv, Admit PROVE LogInv'
<1> DEFINE t == offered + 1
<1>1. CASE AdmitBelow(t)
  BY <1>1, AdmitBelowLog
<1>2. CASE AdmitShed(t)
  BY <1>2, AdmitShedLog
<1>3. CASE \E kind \in {"refused", "blocked"} : TurnAway(t, kind)
  <2>1. /\ UNCHANGED <<inputs, pending, flights, dead>> /\ t \in Task
        /\ offered' \in Nat /\ offered' >= offered
    BY <1>3 DEF TurnAway, Admit, At, Inv, TablesOK
  <2>2. PICK kind \in {"refused", "blocked"} : events' = events \o Line(kind, t)
    BY <1>3 DEF TurnAway
  <2> HIDE DEF t
  <2>3. Line(kind, t) \in Seq(LogLine) /\ Idle(Line(kind, t))
    BY <2>1, IdleLine
  <2> QED BY <2>1, <2>2, <2>3, QuietLog
<1>4. AdmitBelow(t) \/ AdmitShed(t)
      \/ \E kind \in {"refused", "blocked"} : TurnAway(t, kind)
  BY DEF Admit, AdmitRefused, AdmitBlocked, NothingToShed
<1> QED BY <1>1, <1>2, <1>3, <1>4

\* A start takes a waiting ticket off, puts the flight of its next attempt up,
\* and logs it.
Starts(ticket, f) ==
    /\ f.task = ticket.task /\ f.attempt = ticket.attempts + 1
    /\ pending' = pending \ {ticket} /\ in_flight' = in_flight \cup {f}
    /\ events' = events \o Line("started", ticket.task)

LEMMA DispatchStarts ==
    ASSUME Dispatch PROVE \E ticket \in pending : \E f : Starts(ticket, f)
<1>1. PICK ticket \in pending, answer \in Answer :
        /\ pending' = pending \ {ticket}
        /\ in_flight' = in_flight \cup
              {[task |-> ticket.task, seq |-> ticket.seq,
                attempt |-> ticket.attempts + 1, started_at |-> now,
                finishes_at |-> now + answer.ticks,
                deadline_at |-> IF lease = None THEN None ELSE now + lease]}
        /\ events' = events \o Line("started", ticket.task)
  BY DEF Dispatch, start
<1> WITNESS ticket \in pending
<1> WITNESS [task |-> ticket.task, seq |-> ticket.seq,
             attempt |-> ticket.attempts + 1, started_at |-> now,
             finishes_at |-> now + answer.ticks,
             deadline_at |-> IF lease = None THEN None ELSE now + lease]
<1> QED BY <1>1 DEF Starts

\* A start turns a ticket into a flight and logs one attempt more of its task.
LEMMA DispatchLog == ASSUME Inv, LogInv, Dispatch PROVE LogInv'
<1>0. PICK ticket \in pending : \E f : Starts(ticket, f)
  BY DispatchStarts
<1>1. PICK f :
        /\ f.task = ticket.task /\ f.attempt = ticket.attempts + 1
        /\ pending' = pending \ {ticket} /\ in_flight' = in_flight \cup {f}
        /\ events' = events \o Line("started", ticket.task)
  BY <1>0 DEF Starts
<1> DEFINE t == ticket.task
           more == Line("started", t)
<1>2. /\ UNCHANGED <<inputs, dead, offered>> /\ t \in Task /\ t <= offered
      /\ offered \in Nat /\ ticket.attempts \in Nat
  BY DEF Dispatch, start, At, Inv, TablesOK, OneRecord, Ticket
<1>3. "started" \in Kind
  BY DEF Kind
<1>4. events \in Seq(LogLine) /\ more \in Seq(LogLine) /\ events' = events \o more
  BY <1>1, <1>2, <1>3, LineTally DEF LogInv, LogTyped
<1>5. /\ \A k, s : Tally(more, Saying(k, s)) = IF k = "started" /\ s = t THEN 1 ELSE 0
      /\ \A kinds : Tally(more, Being(kinds)) = IF "started" \in kinds THEN 1 ELSE 0
  BY <1>2, <1>3, LineCounts
<1>6. DOMAIN more = {1}
  BY DEF Line
<1> HIDE DEF more
<1>7. /\ events' \in Seq(LogLine)
      /\ \A V : Tally(events', V) = Tally(events, V) + Tally(more, V)
      /\ \A V : Tally(events, V) \in Nat
  BY <1>4, LogGrows
<1>8. \A s \in Task :
         /\ Tally(events', Saying("submitted", s)) = Tally(events, Saying("submitted", s))
         /\ Tally(events', Saying("started", s))
               = Tally(events, Saying("started", s)) + (IF s = t THEN 1 ELSE 0)
         /\ Tally(events', Saying("succeeded", s)) = Tally(events, Saying("succeeded", s))
  BY <1>5, <1>7
<1>9. /\ About(pending, t) = {ticket} /\ About(in_flight, t) = {}
      /\ About(dead, t) = {} /\ Tally(events, Saying("succeeded", t)) = 0
      /\ Tally(events, Saying("submitted", t)) = 1
  BY HeldAlone
<1>10. Tally(events, Saying("started", t)) = ticket.attempts
  BY DEF LogInv, Counted
<1>11. \A x \in pending \ {ticket} : x.task # t
  BY DEF Inv, OneRecord
<1>12. \A g \in in_flight : g.task # t
  BY DEF Inv, OneRecord
<1> HIDE DEF t
<1>13. LogTyped'
  BY <1>2, <1>7 DEF LogInv, LogTyped, inputs
<1>14. Placed'
  <2> SUFFICES ASSUME NEW s \in Task
               PROVE  Tally(events', Saying("submitted", s)) =
                         Cardinality(About(pending', s)) + Cardinality(About(in_flight', s))
                         + Cardinality(About(dead, s)) + Tally(events', Saying("succeeded", s))
    BY <1>2 DEF Placed
  <2>1. CASE s = t
    <3>1. About(pending', t) = {}
      BY <1>1, <1>11 DEF About
    <3>2. About(in_flight', t) = {f}
      BY <1>1, <1>12 DEF About, t
    <3>3. /\ Cardinality(About(pending', t)) = 0
          /\ Cardinality(About(in_flight', t)) = 1 /\ Cardinality(About(dead, t)) = 0
      BY <1>9, <3>1, <3>2, FS_EmptySet, FS_Singleton
    <3>4. /\ Tally(events', Saying("submitted", t)) = 1
          /\ Tally(events', Saying("succeeded", t)) = 0
      BY <1>2, <1>8, <1>9
    <3> QED BY <2>1, <3>3, <3>4
  <2>2. CASE s # t
    <3>1. About(pending', s) = About(pending, s)
      BY <1>1, <2>2 DEF About, t
    <3>2. About(in_flight', s) = About(in_flight, s)
      BY <1>1, <2>2 DEF About, t
    <3> QED BY <1>8, <2>2, <3>1, <3>2 DEF LogInv, Placed
  <2> QED BY <2>1, <2>2
<1>15. Once'
  <2> SUFFICES ASSUME NEW s \in Task
               PROVE  /\ Tally(events', Saying("submitted", s)) <= 1
                      /\ s > offered => /\ Tally(events', Saying("submitted", s)) = 0
                                        /\ Tally(events', Saying("started", s)) = 0
    BY <1>2 DEF Once
  <2>1. s > offered => s # t
    BY <1>2, QueueAssumption DEF Task
  <2> QED BY <1>7, <1>8, <2>1 DEF LogInv, Once
<1>16. Counted'
  <2>1. \A x \in pending \cup in_flight : x.task \in Task
    BY DEF Inv, TablesOK, Ticket, Flight
  <2>2. \A x \in pending' : Tally(events', Saying("started", x.task)) = x.attempts
    BY <1>1, <1>7, <1>8, <1>11, <2>1 DEF LogInv, Counted
  <2>3. \A g \in in_flight : Tally(events', Saying("started", g.task)) = g.attempt
    BY <1>7, <1>8, <1>12, <2>1 DEF LogInv, Counted
  <2>4. Tally(events', Saying("started", f.task)) = f.attempt
    BY <1>1, <1>2, <1>8, <1>10 DEF t
  <2> QED BY <1>1, <2>2, <2>3, <2>4 DEF Counted
<1>17. /\ Cardinality(pending') = Cardinality(pending) - 1
       /\ Cardinality(in_flight') = Cardinality(in_flight) + 1
       /\ Cardinality(pending) \in Nat /\ Cardinality(in_flight) \in Nat
  <2>1. f \notin in_flight
    BY <1>1, <1>12 DEF t
  <2> QED BY <1>1, <2>1, DepthType, FS_AddElement, FS_RemoveElement DEF Inv, Finite
<1>18. Balanced'
  <2>1. /\ Tally(events', Being({"started"})) = Tally(events, Being({"started"})) + 1
        /\ Tally(events', Being(Endings)) = Tally(events, Being(Endings))
        /\ Tally(events', Being({"submitted"})) = Tally(events, Being({"submitted"}))
        /\ Tally(events', Being({"succeeded", "dead_lettered"}))
              = Tally(events, Being({"succeeded", "dead_lettered"}))
    BY <1>5, <1>7 DEF Endings
  <2>2. /\ Tally(events, Being({"started"}))
              = Cardinality(in_flight) + Tally(events, Being(Endings))
        /\ Tally(events, Being({"submitted"}))
              = Cardinality(pending) + Cardinality(in_flight)
                + Tally(events, Being({"succeeded", "dead_lettered"}))
    BY DEF LogInv, Balanced
  <2>3. \A V : Tally(events, V) \in Nat
    BY <1>7
  <2>4. Tally(events', Being({"started"}))
            = Cardinality(in_flight') + Tally(events', Being(Endings))
    BY <1>17, <2>1, <2>2, <2>3
  <2>5. Tally(events', Being({"submitted"}))
            = Cardinality(pending') + Cardinality(in_flight')
              + Tally(events', Being({"succeeded", "dead_lettered"}))
    BY <1>17, <2>1, <2>2, <2>3
  <2> QED BY <2>4, <2>5 DEF Balanced
<1>19. NeverCrowded'
  <2> SUFFICES ASSUME NEW n \in DOMAIN events'
               PROVE  Open(events', n) <= pool.max_concurrency
    BY <1>2 DEF NeverCrowded, inputs, given
  <2>1. CASE n \in DOMAIN events
    BY <1>4, <2>1, OpenGrows DEF LogInv, NeverCrowded
  <2>2. CASE n = Len(events')
    <3>1. Open(events', n) = Cardinality(in_flight')
      <4>1. Tally(events', Being({"started"}))
               = Cardinality(in_flight') + Tally(events', Being(Endings))
        BY <1>18 DEF Balanced
      <4>2. Cardinality(in_flight') \in Nat /\ Tally(events', Being(Endings)) \in Nat
        BY <1>7, <1>17, TalliesRead
      <4>3. Open(events', Len(events'))
               = Tally(events', Being({"started"})) - Tally(events', Being(Endings))
        BY <1>7, OpenGrows
      <4> QED BY <2>2, <4>1, <4>2, <4>3
    <3>2. Cardinality(in_flight) < pool.max_concurrency
      <4>1. pool.max_concurrency \in Nat
        BY RunAssumption DEF Inv, TablesOK
      <4> QED BY <1>17, <4>1 DEF Dispatch, start, free_slots
    <3>3. pool.max_concurrency \in Nat
      BY RunAssumption DEF Inv, TablesOK
    <3> QED BY <1>17, <3>1, <3>2, <3>3
  <2>3. n \in DOMAIN events \/ n = Len(events')
    <3>1. Len(more) = 1
      BY <1>4, <1>6
    <3>2. Len(events \o more) = Len(events) + 1
      BY <1>4, <3>1, AppendLength
    <3>3. /\ DOMAIN events' = 1..Len(events') /\ DOMAIN events = 1..Len(events)
          /\ Len(events) \in Nat
      BY <1>4, <1>7
    <3> QED BY <1>4, <3>2, <3>3
  <2> QED BY <2>1, <2>2, <2>3
<1> QED BY <1>13, <1>14, <1>15, <1>16, <1>18, <1>19 DEF LogInv

\* A resolution takes each resolved flight out of the air and leaves its task
\* one success, one ticket or one dead letter.
LEMMA ResolveLog == ASSUME Inv, LogInv, Arrivals, ResolveOutcomes PROVE LogInv'
<1> DEFINE done == complete \cup sweep
           lost == {f \in done : ~Succeeds(f)}
           again == {g \in lost : ~Spent(g)}
           gone == {g \in lost : Spent(g)}
           tickets == {requeue(f) : f \in again}
           letters == {dead_letter(f) : f \in gone}
           more == Resolution(done, lost)
<1>1. /\ in_flight' = in_flight \ done /\ pending' = pending \cup tickets
      /\ dead' = dead \cup letters /\ events' = events \o more
      /\ UNCHANGED <<inputs, offered>>
  BY DEF ResolveOutcomes, Resolve, At
<1>2. /\ done \subseteq in_flight /\ lost \subseteq done
      /\ again = lost \ gone /\ gone \subseteq lost
      /\ \A f \in in_flight : f.task \in Task /\ f.attempt \in Nat
  BY DEF complete, sweep, Inv, TablesOK, Flight
<1>3. /\ \A f : requeue(f).task = f.task /\ requeue(f).attempts = f.attempt
      /\ \A f : dead_letter(f).task = f.task
  BY DEF requeue, dead_letter
<1>4. /\ more \in Seq(LogLine)
      /\ \A t \in Task :
            /\ Tally(more, Saying("submitted", t)) = 0
            /\ Tally(more, Saying("started", t)) = 0
            /\ Tally(more, Saying("succeeded", t)) = Cardinality(About(done \ lost, t))
      /\ Tally(more, Being({"started"})) = 0
      /\ Tally(more, Being({"submitted"})) = 0
      /\ Tally(more, Being(Endings)) = Cardinality(done)
      /\ Tally(more, Being({"succeeded", "dead_lettered"}))
            = Cardinality(done \ lost) + Cardinality(gone)
  BY ResolutionCounts
<1>5. \A x \in tickets : \E f \in again : x = requeue(f)
  OBVIOUS
<1>6. \A x \in letters : \E f \in gone : x = dead_letter(f)
  OBVIOUS
<1>7. /\ \A f \in again : requeue(f) \in tickets
      /\ \A f \in gone : dead_letter(f) \in letters
  OBVIOUS
<1>8. /\ IsFiniteSet(tickets) /\ Cardinality(tickets) = Cardinality(again)
      /\ IsFiniteSet(letters)
  <2> DEFINE r == [f \in again |-> requeue(f)]
             d == [f \in gone |-> dead_letter(f)]
  <2>1. IsFiniteSet(again) /\ IsFiniteSet(gone)
    BY <1>2, FS_Subset DEF Inv, Finite
  <2>2. r \in Surjection(again, tickets) /\ d \in Surjection(gone, letters)
    BY DEF Surjection
  <2>3. r \in Injection(again, tickets)
    <3>1. \A f, g \in again : r[f] = r[g] => f = g
      BY <1>2, <1>3 DEF Inv, OneRecord
    <3> QED BY <3>1 DEF Injection, IsInjective
  <2> HIDE DEF r, d, again, gone, tickets, letters
  <2> QED BY <2>1, <2>2, <2>3, FS_Surjection
<1> HIDE DEF done, lost, again, gone, tickets, letters, more
<1>9. /\ events' \in Seq(LogLine)
      /\ \A V : Tally(events', V) = Tally(events, V) + Tally(more, V)
      /\ \A V : Tally(events, V) \in Nat /\ Tally(more, V) \in Nat
  BY <1>1, <1>4, LogGrows DEF LogInv, LogTyped
<1>10. \A s \in Task :
         /\ Tally(events', Saying("submitted", s)) = Tally(events, Saying("submitted", s))
         /\ Tally(events', Saying("started", s)) = Tally(events, Saying("started", s))
         /\ Tally(events', Saying("succeeded", s))
               = Tally(events, Saying("succeeded", s)) + Cardinality(About(done \ lost, s))
  <2> TAKE s \in Task
  <2>1. \A V : Tally(more, V) = 0 => Tally(events', V) = Tally(events, V)
    BY <1>9
  <2>2. Tally(events', Saying("succeeded", s))
           = Tally(events, Saying("succeeded", s)) + Tally(more, Saying("succeeded", s))
    BY <1>9
  <2> QED BY <1>4, <2>1, <2>2
<1>11. LogTyped'
  <2>1. IsFiniteSet(dead')
    BY <1>1, <1>8, FS_Union DEF LogInv, LogTyped
  <2> QED BY <1>1, <1>9, <2>1 DEF LogInv, LogTyped, inputs
<1>12. Placed'
  <2> SUFFICES ASSUME NEW s \in Task
               PROVE  Tally(events', Saying("submitted", s)) =
                         Cardinality(About(pending', s)) + Cardinality(About(in_flight', s))
                         + Cardinality(About(dead', s)) + Tally(events', Saying("succeeded", s))
    BY DEF Placed
  <2>1. CASE \E f \in done : f.task = s
    <3>1. PICK f \in done : f.task = s
      BY <2>1
    <3>2. /\ About(in_flight, s) = {f} /\ About(pending, s) = {}
          /\ About(dead, s) = {} /\ Tally(events, Saying("succeeded", s)) = 0
          /\ Tally(events, Saying("submitted", s)) = 1
      BY <1>2, <3>1, HeldAlone
    <3>3. \A g \in in_flight : g.task = s => g = f
      BY <1>2, <3>1 DEF Inv, OneRecord
    <3>4. About(in_flight', s) = {}
      BY <1>1, <3>1, <3>3 DEF About
    <3>5. About(pending', s) = IF f \in again THEN {requeue(f)} ELSE {}
      <4>1. \A x \in tickets : x.task = s <=> f \in again /\ x = requeue(f)
        BY <1>2, <1>3, <1>5, <3>1, <3>3
      <4>2. About(pending', s) = {x \in tickets : x.task = s}
        BY <1>1, <3>2 DEF About
      <4> QED BY <1>7, <4>1, <4>2
    <3>6. About(dead', s) = IF f \in gone THEN {dead_letter(f)} ELSE {}
      <4>1. \A x \in letters : x.task = s <=> f \in gone /\ x = dead_letter(f)
        BY <1>2, <1>3, <1>6, <3>1, <3>3
      <4>2. About(dead', s) = {x \in letters : x.task = s}
        BY <1>1, <3>2 DEF About
      <4> QED BY <1>7, <4>1, <4>2
    <3>7. About(done \ lost, s) = IF f \in lost THEN {} ELSE {f}
      BY <1>2, <3>1, <3>3 DEF About
    <3>8. \A x : Cardinality({x}) = 1 /\ Cardinality({}) = 0
      BY FS_EmptySet, FS_Singleton
    <3>9. /\ Cardinality(About(in_flight', s)) = 0
          /\ Cardinality(About(pending', s)) = IF f \in again THEN 1 ELSE 0
          /\ Cardinality(About(dead', s)) = IF f \in gone THEN 1 ELSE 0
          /\ Cardinality(About(done \ lost, s)) = IF f \in lost THEN 0 ELSE 1
      BY <3>4, <3>5, <3>6, <3>7, <3>8
    <3>10. /\ Tally(events', Saying("submitted", s)) = 1
           /\ Tally(events', Saying("succeeded", s)) = Cardinality(About(done \ lost, s))
      BY <1>10, <3>2, <3>9
    <3> QED BY <1>2, <3>9, <3>10
  <2>2. CASE ~\E f \in done : f.task = s
    <3>1. About(in_flight', s) = About(in_flight, s)
      BY <1>1, <2>2 DEF About
    <3>2. About(pending', s) = About(pending, s)
      <4>1. \A x \in tickets : x.task # s
        BY <1>2, <1>3, <1>5, <2>2
      <4> QED BY <1>1, <4>1 DEF About
    <3>3. About(dead', s) = About(dead, s)
      <4>1. \A x \in letters : x.task # s
        BY <1>2, <1>3, <1>6, <2>2
      <4> QED BY <1>1, <4>1 DEF About
    <3>4. About(done \ lost, s) = {}
      BY <2>2 DEF About
    <3>5. Cardinality(About(done \ lost, s)) = 0
      BY <3>4, FS_EmptySet
    <3>6. Tally(events', Saying("succeeded", s)) = Tally(events, Saying("succeeded", s))
      BY <1>9, <1>10, <3>5
    <3> QED BY <1>10, <3>1, <3>2, <3>3, <3>6 DEF LogInv, Placed
  <2> QED BY <2>1, <2>2
<1>13. Once'
  BY <1>1, <1>10 DEF LogInv, Once
<1>14. Counted'
  <2>1. \A x \in pending : x.task \in Task
    BY DEF Inv, TablesOK, Ticket
  <2>2. \A x \in pending : Tally(events', Saying("started", x.task)) = x.attempts
    BY <1>10, <2>1 DEF LogInv, Counted
  <2>3. \A f \in in_flight : Tally(events', Saying("started", f.task)) = f.attempt
    BY <1>2, <1>10 DEF LogInv, Counted
  <2>4. \A x \in tickets : Tally(events', Saying("started", x.task)) = x.attempts
    BY <1>2, <1>3, <1>5, <2>3
  <2> QED BY <1>1, <2>2, <2>3, <2>4 DEF Counted
<1>15. Balanced'
  <2>1. /\ IsFiniteSet(done) /\ IsFiniteSet(lost) /\ IsFiniteSet(in_flight)
        /\ IsFiniteSet(pending)
    BY <1>2, FS_Subset DEF Inv, Finite
  <2>2. Cardinality(in_flight') = Cardinality(in_flight) - Cardinality(done)
    <3>1. in_flight \cap done = done
      BY <1>2
    <3>2. Cardinality(in_flight \ done)
             = Cardinality(in_flight) - Cardinality(in_flight \cap done)
      BY <2>1, FS_Difference
    <3> QED BY <1>1, <3>1, <3>2
  <2>3. Cardinality(pending') = Cardinality(pending) + Cardinality(again)
    <3>1. pending \cap tickets = {}
      BY <1>2, <1>3, <1>5 DEF Inv, OneRecord
    <3>2. Cardinality(pending') = Cardinality(pending) + Cardinality(tickets)
                                  - Cardinality(pending \cap tickets)
      BY <1>1, <1>8, <2>1, FS_Union
    <3>3. Cardinality(pending \cap tickets) = 0
      BY <3>1, FS_EmptySet
    <3>4. Cardinality(pending) \in Nat /\ Cardinality(again) \in Nat
      BY <1>8, <2>1, FS_CardinalityType
    <3> QED BY <1>8, <3>2, <3>3, <3>4
  <2>4. /\ Cardinality(done \ lost) = Cardinality(done) - Cardinality(lost)
        /\ Cardinality(again) = Cardinality(lost) - Cardinality(gone)
    <3>1. done \cap lost = lost /\ lost \cap gone = gone
      BY <1>2
    <3>2. /\ Cardinality(done \ lost) = Cardinality(done) - Cardinality(done \cap lost)
          /\ Cardinality(lost \ gone) = Cardinality(lost) - Cardinality(lost \cap gone)
      BY <2>1, FS_Difference
    <3> QED BY <1>2, <3>1, <3>2
  <2>5. /\ Cardinality(done) \in Nat /\ Cardinality(lost) \in Nat
        /\ Cardinality(gone) \in Nat /\ Cardinality(in_flight) \in Nat
        /\ Cardinality(pending) \in Nat
    BY <1>2, <2>1, FS_Subset, FS_CardinalityType
  <2>6. /\ Tally(events', Being({"started"})) = Tally(events, Being({"started"}))
        /\ Tally(events', Being(Endings)) = Tally(events, Being(Endings)) + Cardinality(done)
        /\ Tally(events', Being({"submitted"})) = Tally(events, Being({"submitted"}))
        /\ Tally(events', Being({"succeeded", "dead_lettered"}))
              = Tally(events, Being({"succeeded", "dead_lettered"}))
                + Cardinality(done \ lost) + Cardinality(gone)
    <3>1. Cardinality(done \ lost) \in Nat
      BY <2>1, FS_Difference, FS_CardinalityType
    <3>2. \A V : Tally(more, V) = 0 => Tally(events', V) = Tally(events, V)
      BY <1>9
    <3>3. Tally(events', Being(Endings)) = Tally(events, Being(Endings)) + Cardinality(done)
      BY <1>4, <1>9
    <3>4. Tally(events', Being({"succeeded", "dead_lettered"}))
             = Tally(events, Being({"succeeded", "dead_lettered"}))
               + (Cardinality(done \ lost) + Cardinality(gone))
      BY <1>4, <1>9
    <3>5. Tally(events, Being({"succeeded", "dead_lettered"})) \in Nat
      BY <1>9
    <3> QED BY <1>4, <2>5, <3>1, <3>2, <3>3, <3>4, <3>5
  <2>7. /\ Tally(events, Being({"started"})) \in Nat
        /\ Tally(events, Being({"submitted"})) \in Nat
        /\ Tally(events, Being(Endings)) \in Nat
        /\ Tally(events, Being({"succeeded", "dead_lettered"})) \in Nat
    BY <1>9
  <2>8. /\ Tally(events, Being({"started"}))
              = Cardinality(in_flight) + Tally(events, Being(Endings))
        /\ Tally(events, Being({"submitted"}))
              = Cardinality(pending) + Cardinality(in_flight)
                + Tally(events, Being({"succeeded", "dead_lettered"}))
    BY DEF LogInv, Balanced
  <2>9. Tally(events', Being({"started"}))
           = Cardinality(in_flight') + Tally(events', Being(Endings))
    BY <2>2, <2>5, <2>6, <2>7, <2>8
  <2>10. Tally(events', Being({"submitted"}))
            = Cardinality(pending') + Cardinality(in_flight')
              + Tally(events', Being({"succeeded", "dead_lettered"}))
    BY <2>2, <2>3, <2>4, <2>5, <2>6, <2>7, <2>8
  <2> QED BY <2>9, <2>10 DEF Balanced
<1>16. NeverCrowded'
  <2>1. pool' = pool
    BY <1>1 DEF inputs, given
  <2> QED BY <1>1, <1>4, <2>1, StaysUncrowded
<1> QED BY <1>11, <1>12, <1>13, <1>14, <1>15, <1>16 DEF LogInv

LEMMA InitLog == Init => LogInv
<1> SUFFICES ASSUME Init PROVE LogInv
  OBVIOUS
<1>1. events = << >> /\ pending = {} /\ in_flight = {} /\ dead = {}
      /\ policy \in {"refuse", "shed", "block"}
  BY DEF Init
<1>2. LogTyped
  BY <1>1, IdleNothing, FS_EmptySet DEF LogTyped
<1>3. \A V : Tally(events, V) = 0
  <2>1. \A V : Occurs(<< >>, V) = {}
    BY DEF Occurs
  <2> QED BY <1>1, <2>1, FS_EmptySet DEF Tally
<1>4. \A t : Cardinality(About({}, t)) = 0
  <2>1. \A t : About({}, t) = {}
    BY DEF About
  <2> QED BY <2>1, FS_EmptySet
<1>5. Placed
  BY <1>1, <1>3, <1>4 DEF Placed
<1>6. Once /\ Counted
  BY <1>1, <1>3 DEF Once, Counted
<1>7. Balanced
  BY <1>1, <1>3, FS_EmptySet DEF Balanced
<1>8. NeverCrowded
  BY <1>1 DEF NeverCrowded
<1> QED BY <1>2, <1>5, <1>6, <1>7, <1>8 DEF LogInv

LEMMA NextLog == Inv /\ LogInv /\ Arrivals /\ [Next]_vars => LogInv'
<1> SUFFICES ASSUME Inv, LogInv, Arrivals, [Next]_vars PROVE LogInv'
  OBVIOUS
<1>1. CASE Admit
  BY <1>1, AdmitLog
<1>2. CASE ResolveOutcomes
  BY <1>2, ResolveLog
<1>3. CASE Dispatch
  BY <1>3, DispatchLog
<1>4. CASE /\ UNCHANGED <<inputs, pending, flights, dead, offered>>
           /\ events' = events \/ events' = events \o Line("stopped", None)
  <2>1. events \o << >> = events
    BY DEF LogInv, LogTyped
  <2>2. \E more \in Seq(LogLine) : Idle(more) /\ events' = events \o more
    BY <1>4, <2>1, IdleLine, IdleNothing
  <2>3. offered' \in Nat /\ offered' >= offered
    BY <1>4 DEF Inv, TablesOK
  <2> QED BY <1>4, <2>2, <2>3, QuietLog
<1>5. CASE \/ BeginLoop \/ WithinBounds \/ DispatchDone \/ Advance
           \/ OutOfTicks \/ OutOfSteps \/ Drained \/ DeadEnd \/ UNCHANGED vars
  <2>1. /\ UNCHANGED <<inputs, pending, flights, dead, offered>>
        /\ events' = events \/ events' = events \o Line("stopped", None)
    BY <1>5
    DEF BeginLoop, WithinBounds, DispatchDone, Advance, OutOfTicks, OutOfSteps,
        Drained, DeadEnd, Stop, At, vars, queue, loop, flights
  <2> QED BY <1>4, <2>1
<1> QED BY <1>1, <1>2, <1>3, <1>5 DEF Next

\* The log agrees with the tables throughout every run of the queue.
LEMMA LogInvariant == Spec => [](Inv /\ Arrivals /\ LogInv)
<1>1. Init => Arrivals
  BY DEF Init, Arrivals
<1>2. Inv /\ Arrivals /\ [Next]_vars => Arrivals'
  BY NextArrivals
<1> QED BY <1>1, <1>2, InitLog, NextLog, QueueInvariant, PTL DEF Spec

\* The tables and the log keep their declared shape in every run.
THEOREM TypeCorrect == Spec => []TypeOK
<1>1. Inv /\ LogInv => TypeOK
  BY LogReads
<1> QED BY <1>1, LogInvariant, PTL

\* No task is lost and none is held twice, whatever fails, expires, is retried
\* or shed: complete, sweep, requeue and admit each leave it in one place.
THEOREM NothingLost == Spec => []OnePlace
<1>1. Inv /\ LogInv => OnePlace
  BY LogReads
<1> QED BY <1>1, LogInvariant, PTL

\* The record a run reads off its log adds up to the tables: open flights, the
\* peak of them, and what was submitted.
THEOREM RecordAgrees == Spec => []RecordAddsUp
<1>1. Inv /\ LogInv => RecordAddsUp
  BY LogReads
<1> QED BY <1>1, LogInvariant, PTL

-----------------------------------------------------------------------------
(* Answers in time. *)

\* Every flight of a resolution has its line among those the step appends.
LEMMA EndingIsLogged ==
    ASSUME Inv, Arrivals, LogInv, ResolveOutcomes, NEW f \in complete \cup sweep
    PROVE  \E i \in DOMAIN events' \ DOMAIN events :
              events'[i] = [task |-> f.task, kind |-> Outcome(f)]
<1> DEFINE done == complete \cup sweep
           lost == {g \in done : ~Succeeds(g)}
           outcome == [g \in done |-> Outcome(g)]
           l == [task |-> f.task, kind |-> Outcome(f)]
           A == LinesOf(outcome)
           B == LinesOf([g \in lost |-> Sequel(g)])
<1>1. events' = events \o (A \o B) /\ events \in Seq(LogLine)
  BY DEF ResolveOutcomes, Resolve, Resolution, LogInv, LogTyped
<1>2. outcome \in [done -> Kind] /\ A \o B \in Seq(LogLine) /\ B \in Seq(LogLine)
  <2>1. /\ \A g \in done : Outcome(g) \in Kind
        /\ \A g \in lost : Sequel(g) \in Kind
    <3>1. ASSUME NEW g \in done PROVE Outcome(g) \in Kind
      <4>1. answers[g.task] \in Answer
        BY DEF Inv, TablesOK, AnswersMatchFlights, complete, sweep, Flight
      <4> QED BY <4>1, QueueAssumption DEF Outcome, Reason, Answer, Kind, Status
    <3>2. ASSUME NEW g \in lost PROVE Sequel(g) \in Kind
      BY DEF Sequel, Kind
    <3> QED BY <3>1, <3>2
  <2>2. [g \in lost |-> Sequel(g)] \in [lost -> Kind] /\ outcome \in [done -> Kind]
    BY <2>1
  <2>3. lost \in SUBSET done
    OBVIOUS
  <2> HIDE DEF lost, outcome
  <2>4. A \in Seq(LogLine) /\ B \in Seq(LogLine)
    BY <2>2, <2>3, LinesListed
  <2> QED BY <2>2, <2>4
<1>3. f \in Bearing(outcome, {l})
  BY DEF Bearing
<1> HIDE DEF outcome, l, B
<1>4. A \in Seq(LogLine) /\ Occurs(A, {l}) # {}
  <2>1. /\ A \in Seq(LogLine)
        /\ Cardinality(Occurs(A, {l})) = Cardinality(Bearing(outcome, {l}))
    BY <1>2, LinesListed
  <2>2. Bearing(outcome, {l}) \in SUBSET in_flight
    BY <1>2 DEF Bearing, complete, sweep
  <2>3. IsFiniteSet(Bearing(outcome, {l}))
    BY <2>2, FS_Subset DEF Inv, Finite
  <2>4. Cardinality(Bearing(outcome, {l})) # 0
    BY <1>3, <2>3, FS_EmptySet
  <2> QED BY <2>1, <2>4, FS_EmptySet
<1> HIDE DEF A
<1>5. PICK j \in DOMAIN A : A[j] = l
  BY <1>4 DEF Occurs
<1>6. /\ DOMAIN events = 1..Len(events) /\ DOMAIN A = 1..Len(A)
      /\ Len(events) \in Nat /\ Len(A) \in Nat /\ Len(B) \in Nat
  BY <1>1, <1>2, <1>4
<1>7. DOMAIN (A \o B) = 1..(Len(A) + Len(B)) /\ (A \o B)[j] = l
      /\ Len(A \o B) = Len(A) + Len(B)
  BY <1>2, <1>4, <1>5, <1>6, AppendLength
<1> DEFINE C == A \o B
<1>8. /\ DOMAIN (events \o C) = 1..(Len(events) + Len(C))
      /\ (events \o C)[Len(events) + j] = C[j]
  <2>1. C \in Seq(LogLine) /\ j \in 1..Len(C)
    BY <1>2, <1>6, <1>7
  <2> HIDE DEF C
  <2> QED BY <1>1, <2>1, AppendLength
<1>9. Len(events) + j \in DOMAIN events' \ DOMAIN events
  BY <1>1, <1>5, <1>6, <1>7, <1>8
<1>10. events'[Len(events) + j] = l
  BY <1>1, <1>7, <1>8
<1> QED BY <1>9, <1>10 DEF l

\* An attempt that lands by its deadline, that very tick included, is filed
\* under its own answer and never as a death: completions come before sweeps.
LEMMA InTime ==
    ASSUME Inv, Arrivals, LogInv, [Next]_vars, NEW f \in in_flight \ in_flight',
           f.deadline_at = None \/ f.finishes_at <= f.deadline_at
    PROVE  \E i \in DOMAIN events' \ DOMAIN events :
              events'[i] = [task |-> f.task,
                            kind |-> IF answers[f.task].status = "ok"
                                     THEN "succeeded"
                                     ELSE answers[f.task].status]
<1>1. ResolveOutcomes
  BY DEF Next, vars, queue, Admit, AdmitBelow, Takes, AdmitShed, Without, AdmitRefused,
         AdmitBlocked, NothingToShed, TurnAway, BeginLoop, Dispatch, start,
         OutOfTicks, OutOfSteps, WithinBounds, DispatchDone, Drained,
         DeadEnd, Advance, Stop, flights
<1>2. f \in complete \cup sweep
  BY <1>1 DEF ResolveOutcomes, Resolve
<1>3. f \in complete
  <2> SUFFICES ASSUME f \notin complete PROVE FALSE
    OBVIOUS
  <2>1. Expired(f) /\ ~(f.finishes_at <= now)
    BY <1>2 DEF sweep, complete
  <2>2. f.deadline_at \in Nat /\ f.finishes_at \in Nat /\ now \in Nat
    BY <2>1 DEF Expired, Inv, TablesOK, Flight, OptionalTick
  <2> QED BY <2>1, <2>2, QueueAssumption DEF Expired
<1>4. Outcome(f) = IF answers[f.task].status = "ok" THEN "succeeded"
                   ELSE answers[f.task].status
  BY <1>3 DEF Outcome, Succeeds, Reason
<1> QED BY <1>1, <1>2, <1>4, EndingIsLogged

\* An attempt that lands by its deadline is filed under its own answer, the
\* deadline's tick included: the sweep only takes what the landings left.
THEOREM InTimeIsFiled == Spec => InTimeAnswersCount
<1>1. Inv /\ Arrivals /\ LogInv /\ [Next]_vars =>
        [\A f \in in_flight \ in_flight' :
            f.deadline_at = None \/ f.finishes_at <= f.deadline_at
            => \E i \in DOMAIN events' \ DOMAIN events :
                  events'[i] = [task |-> f.task,
                                kind |-> IF answers[f.task].status = "ok"
                                         THEN "succeeded"
                                         ELSE answers[f.task].status]]_vars
  BY InTime
<1> QED BY <1>1, LogInvariant, PTL DEF Spec, InTimeAnswersCount

-----------------------------------------------------------------------------
(* A run implements TaskFate. *)

\* Where each kind of trace puts a task.
FatesRead ==
    /\ \A t \in Task : t > offered => FateOf(t) = "offered"
    /\ \A t : (\E x \in pending : x.task = t) => FateOf(t) = "waiting"
    /\ \A t : (\E f \in in_flight : f.task = t) => FateOf(t) = "running"
    /\ \A t : (\E letter \in dead : letter.task = t) => FateOf(t) = "dead"
    /\ \A t \in Task :
          Tally(events, Saying("succeeded", t)) # 0 => FateOf(t) = "done"
    /\ \A t \in Task : FateOf(t) = "running" => \E f \in in_flight : f.task = t

LEMMA FatesAreRead == Inv /\ LogInv => FatesRead
<1> SUFFICES ASSUME Inv, LogInv PROVE FatesRead
  OBVIOUS
<1>1. \A t \in Task :
         /\ Logged("succeeded", t) = {} <=> Tally(events, Saying("succeeded", t)) = 0
         /\ Waiting(t) = About(pending, t) /\ Running(t) = About(in_flight, t)
         /\ Letters(t) = About(dead, t)
  <2> TAKE t \in Task
  <2>1. /\ Logged("succeeded", t) = Occurs(events, Saying("succeeded", t))
        /\ IsFiniteSet(Occurs(events, Saying("succeeded", t)))
    BY TalliesRead DEF Logged, LogInv, LogTyped
  <2>2. Logged("succeeded", t) = {} <=> Tally(events, Saying("succeeded", t)) = 0
    BY <2>1, FS_EmptySet DEF Tally
  <2> QED BY <2>2 DEF Waiting, Running, Letters, About
<1>2. /\ \A x \in pending \cup in_flight \cup dead : x.task \in Task
      /\ \A x \in pending \cup in_flight : ~(x.task > offered)
  BY QueueAssumption
  DEF Inv, TablesOK, OneRecord, Ticket, Flight, Letter, Task
<1>3. \A t \in Task : t > offered => FateOf(t) = "offered"
  BY DEF FateOf
<1>4. \A x \in pending : FateOf(x.task) = "waiting"
  BY <1>1, <1>2, HeldAlone DEF FateOf
<1>5. \A f \in in_flight : FateOf(f.task) = "running"
  <2> TAKE f \in in_flight
  <2>1. /\ About(pending, f.task) = {} /\ About(in_flight, f.task) # {}
        /\ f.task \in Task /\ ~(f.task > offered)
    BY <1>2, HeldAlone
  <2> QED BY <1>1, <2>1 DEF FateOf
<1>6. ASSUME NEW t \in Task, t <= offered, About(pending, t) = {},
             About(in_flight, t) = {}
      PROVE  FateOf(t) = IF About(dead, t) # {} THEN "dead"
                         ELSE IF Tally(events, Saying("succeeded", t)) # 0 THEN "done"
                         ELSE "refused"
  <2>1. ~(t > offered)
    BY <1>6, QueueAssumption DEF Task, Inv, TablesOK
  <2> QED BY <1>1, <1>6, <2>1 DEF FateOf
<1>7. ASSUME NEW t \in Task,
             About(dead, t) # {} \/ Tally(events, Saying("succeeded", t)) # 0
      PROVE  /\ t <= offered /\ About(pending, t) = {} /\ About(in_flight, t) = {}
             /\ About(dead, t) = {} \/ Tally(events, Saying("succeeded", t)) = 0
  <2>1. t <= offered
    BY <1>7, HeldAlone, QueueAssumption DEF Task, Inv, TablesOK
  <2>2. About(pending, t) = {}
    <3>1. ~\E x \in pending : x.task = t
      BY <1>7, HeldAlone
    <3> QED BY <3>1 DEF About
  <2>3. About(in_flight, t) = {}
    <3>1. ~\E x \in in_flight : x.task = t
      BY <1>7, HeldAlone
    <3> QED BY <3>1 DEF About
  <2>4. About(dead, t) = {} \/ Tally(events, Saying("succeeded", t)) = 0
    <3>1. /\ Tally(events, Saying("submitted", t)) <= 1
          /\ Tally(events, Saying("submitted", t)) =
                0 + 0 + Cardinality(About(dead, t)) + Tally(events, Saying("succeeded", t))
      BY <2>2, <2>3, FS_EmptySet DEF LogInv, Placed, Once
    <3>2. /\ Cardinality(About(dead, t)) \in Nat
          /\ Tally(events, Saying("succeeded", t)) \in Nat
      BY HeldAlone, TalliesRead DEF LogInv, LogTyped
    <3>3. Cardinality(About(dead, t)) = 0 \/ Tally(events, Saying("succeeded", t)) = 0
      BY <3>1, <3>2
    <3> QED BY <3>3, HeldAlone, FS_EmptySet
  <2> QED BY <2>1, <2>2, <2>3, <2>4
<1>8. \A letter \in dead : FateOf(letter.task) = "dead"
  <2> TAKE letter \in dead
  <2>1. About(dead, letter.task) # {}
    BY DEF About
  <2> QED BY <1>2, <1>6, <1>7, <2>1
<1>9. \A t \in Task :
         Tally(events, Saying("succeeded", t)) # 0 => FateOf(t) = "done"
  BY <1>6, <1>7
<1>10. \A t \in Task : FateOf(t) = "running" => \E f \in in_flight : f.task = t
  BY DEF FateOf, Running
<1> QED BY <1>3, <1>4, <1>5, <1>8, <1>9, <1>10 DEF FatesRead

\* A task that a step neither offers nor touches keeps its fate.
LEMMA FateKept ==
    ASSUME events \in Seq(LogLine), events' \in Seq(LogLine), NEW t \in Task,
           t > offered' <=> t > offered,
           About(pending', t) = About(pending, t),
           About(in_flight', t) = About(in_flight, t),
           About(dead', t) = About(dead, t),
           Tally(events', Saying("succeeded", t)) = Tally(events, Saying("succeeded", t))
    PROVE  FateOf(t)' = FateOf(t)
<1>1. ASSUME NEW log \in Seq(LogLine)
      PROVE  {i \in DOMAIN log : log[i] = [kind |-> "succeeded", task |-> t]} = {}
                <=> Tally(log, Saying("succeeded", t)) = 0
  BY TalliesRead, FS_EmptySet DEF Tally
<1>2. Logged("succeeded", t)' = {} <=> Logged("succeeded", t) = {}
  BY <1>1 DEF Logged
<1>3. /\ Waiting(t)' = Waiting(t)
      /\ Running(t)' = Running(t)
      /\ Letters(t)' = Letters(t)
  BY DEF Waiting, Running, Letters, About
<1>4. (t > offered)' <=> t > offered
  OBVIOUS
<1> QED BY <1>2, <1>3, <1>4 DEF FateOf


\* The tasks a step touches are the ones whose fate may change.
LEMMA UntouchedKept ==
    ASSUME LogInv, NEW more \in Seq(LogLine), events' = events \o more, NEW touched,
           \A x : x.task \notin touched => (x \in pending' <=> x \in pending),
           \A x : x.task \notin touched => (x \in in_flight' <=> x \in in_flight),
           \A x : x.task \notin touched => (x \in dead' <=> x \in dead),
           \A s \in Task \ touched : Tally(more, Saying("succeeded", s)) = 0,
           \A s \in Task \ touched : s > offered' <=> s > offered
    PROVE  \A s \in Task \ touched : FateOf(s)' = FateOf(s)
<1> TAKE s \in Task \ touched
<1>1. events \in Seq(LogLine)
  BY DEF LogInv, LogTyped
<1>2. events' \in Seq(LogLine)
      /\ Tally(events', Saying("succeeded", s)) = Tally(events, Saying("succeeded", s))
  BY <1>1, LogGrows
<1>3. /\ About(pending', s) = About(pending, s)
      /\ About(in_flight', s) = About(in_flight, s)
      /\ About(dead', s) = About(dead, s)
  BY DEF About
<1>4. s > offered' <=> s > offered
  OBVIOUS
<1> QED BY <1>1, <1>2, <1>3, <1>4, FateKept

\* The abstract variables in terms of this module.
LEMMA MovesTo ==
    ASSUME NEW S, NEW f,
           \A s \in Task : FateOf(s)' = IF s \in S THEN f ELSE FateOf(s)
    PROVE  Fates!Move(S, f)
BY DEF Fates!Move

Tries == [t \in Task |-> Cardinality(Logged("started", t))]

LEMMA TriesRead ==
    ASSUME LogInv, NEW more \in Seq(LogLine), events' = events \o more
    PROVE  \A t \in Task :
              /\ Tries[t] = Tally(events, Saying("started", t))
              /\ Tries'[t] = Tries[t] + Tally(more, Saying("started", t))
              /\ Tries[t] \in Nat
<1> TAKE t \in Task
<1>1. events \in Seq(LogLine) /\ events' \in Seq(LogLine)
      /\ Tally(events', Saying("started", t))
            = Tally(events, Saying("started", t)) + Tally(more, Saying("started", t))
      /\ Tally(events, Saying("started", t)) \in Nat
  BY LogGrows DEF LogInv, LogTyped
<1>2. ASSUME NEW log \in Seq(LogLine)
      PROVE  Cardinality({i \in DOMAIN log : log[i] = [kind |-> "started", task |-> t]})
                = Tally(log, Saying("started", t))
  BY TalliesRead DEF Tally
<1>3. Tries[t] = Tally(events, Saying("started", t))
  BY <1>1, <1>2 DEF Tries, Logged
<1>4. Tries'[t] = Tally(events', Saying("started", t))
  BY <1>1, <1>2 DEF Tries, Logged
<1> QED BY <1>1, <1>3, <1>4

LEMMA TriesKept ==
    ASSUME LogInv, NEW more \in Seq(LogLine), events' = events \o more,
           \A t \in Task : Tally(more, Saying("started", t)) = 0
    PROVE  Tries' = Tries
<1>1. \A t \in Task : Tries'[t] = Tries[t]
  BY TriesRead
<1> QED BY <1>1 DEF Tries

\* What the abstract machine may spend is an input of the run.
LEMMA BoundsKept ==
    ASSUME UNCHANGED inputs
    PROVE  /\ [t \in Task |-> tasks[t].attempts]' = [t \in Task |-> tasks[t].attempts]
           /\ (pool.max_concurrency)' = pool.max_concurrency
BY DEF inputs, given

\* An admission accepts a task, displaces a waiting one for it, or refuses it.
LEMMA AdmitRefines ==
    ASSUME Inv, LogInv, Inv', LogInv', Admit
    PROVE  Fates!Next
<1>0. PICK t \in Task : t = offered + 1
  BY DEF Admit
<1>1. /\ t \in Task /\ offered' = t /\ offered \in Nat /\ UNCHANGED inputs
      /\ \A s \in Task : s # t => (s > offered' <=> s > offered)
      /\ t > offered /\ ~(t > offered')
  BY <1>0, QueueAssumption DEF Admit, At, Inv, TablesOK, Task
<1>2. FatesRead
  BY FatesAreRead
<1>3. FatesRead'
  BY FatesAreRead, PTL
<1>4. FateOf(t) = "offered"
  BY <1>1, <1>2 DEF FatesRead
<1>5. submit(t).task = t
  BY DEF submit
<1>6. events \in Seq(LogLine)
  BY DEF LogInv, LogTyped
<1>7. {"submitted", "admitted", "dead_lettered", "shed", "refused", "blocked"} \subseteq Kind
  BY DEF Kind
<1>8. CASE AdmitBelow(t)
  <2> DEFINE more == Line("submitted", t) \o Line("admitted", t)
  <2>1. Line("submitted", t) \in Seq(LogLine) /\ Line("admitted", t) \in Seq(LogLine)
    BY <1>1, <1>7, LineTally
  <2>2. /\ UNCHANGED <<in_flight, dead>> /\ pending' = pending \cup {submit(t)}
        /\ events' = events \o more
    BY <1>6, <1>8, <2>1 DEF AdmitBelow, Takes, flights
  <2>3. /\ more \in Seq(LogLine)
        /\ \A s : Tally(more, Saying("succeeded", s)) = 0
        /\ \A s : Tally(more, Saying("started", s)) = 0
    <3>1. \A V : Tally(more, V)
                   = Tally(Line("submitted", t), V) + Tally(Line("admitted", t), V)
      BY <2>1, OccursAppend DEF Tally
    <3>2. more \in Seq(LogLine)
      BY <2>1
    <3> HIDE DEF more
    <3> QED BY <1>1, <1>7, <3>1, <3>2, LineCounts
  <2> HIDE DEF more
  <2>4. FateOf(t)' = "waiting"
    <3>1. \E x \in pending' : x.task = t
      BY <1>5, <2>2
    <3> QED BY <1>3, <3>1 DEF FatesRead
  <2>5. \A s \in Task \ {t} : FateOf(s)' = FateOf(s)
    <3> DEFINE touched == {t}
    <3>1. \A x : x.task \notin touched => (x \in pending' <=> x \in pending)
      BY <1>5, <2>2
    <3>2. \A s \in Task \ touched : s > offered' <=> s > offered
      BY <1>1
    <3> HIDE DEF touched
    <3>3. \A s \in Task \ touched : FateOf(s)' = FateOf(s)
      BY <2>2, <2>3, <3>1, <3>2, UntouchedKept
    <3> QED BY <3>3 DEF touched
  <2>6. Fates!Move({t}, "waiting")
    <3>1. \A s \in Task : FateOf(s)' = IF s \in {t} THEN "waiting" ELSE FateOf(s)
      BY <2>4, <2>5
    <3> QED BY <3>1, MovesTo
  <2>7. Tries' = Tries
    BY <2>2, <2>3, TriesKept
  <2>8. Fates!Accept(t)
    BY <1>1, <1>4, <2>6, <2>7 DEF Fates!Accept, Fates!In, Tries
  <2> QED BY <1>1, <2>8, BoundsKept DEF Fates!Next, Fates!Step
<1>9. CASE AdmitShed(t)
  <2>1. PICK victim \in pending :
         /\ dead' = dead \cup {[task |-> victim.task, reason |-> "shed",
                                attempts |-> victim.attempts]}
         /\ pending' = (pending \ {victim}) \cup {submit(t)}
         /\ events' = events \o Line("dead_lettered", victim.task)
                        \o Line("submitted", t) \o Line("shed", victim.task)
         /\ UNCHANGED in_flight
    BY <1>9 DEF AdmitShed, Without, flights
  <2> DEFINE v == victim.task
             letter == [task |-> v, reason |-> "shed", attempts |-> victim.attempts]
             two == Line("dead_lettered", v) \o Line("submitted", t)
             more == two \o Line("shed", v)
  <2>2. /\ v \in Task /\ v # t /\ FateOf(v) = "waiting"
        /\ letter.task = v /\ letter \in dead' /\ dead' = dead \cup {letter}
    BY <1>2, <1>4, <2>1 DEF FatesRead, Inv, TablesOK, Ticket
  <2> HIDE DEF letter
  <2>3. Line("dead_lettered", v) \in Seq(LogLine) /\ Line("submitted", t) \in Seq(LogLine)
        /\ Line("shed", v) \in Seq(LogLine)
    BY <1>1, <1>7, <2>2, LineTally
  <2>4. events' = events \o more
    <3>1. /\ events' = events \o Line("dead_lettered", v) \o Line("submitted", t)
                         \o Line("shed", v)
          /\ more = Line("dead_lettered", v) \o Line("submitted", t) \o Line("shed", v)
      BY <2>1
    <3>2. events \in Seq(LogLine)
      BY <1>6
    <3> HIDE DEF more
    <3> QED BY <2>2, <3>1, <3>2, ShedLines, Zenon
  <2>5. /\ more \in Seq(LogLine)
        /\ \A s : Tally(more, Saying("succeeded", s)) = 0
        /\ \A s : Tally(more, Saying("started", s)) = 0
    <3>1. \A V : Tally(two, V)
                   = Tally(Line("dead_lettered", v), V) + Tally(Line("submitted", t), V)
      BY <2>3, OccursAppend DEF Tally
    <3>2. two \in Seq(LogLine)
      BY <2>3
    <3> HIDE DEF two
    <3>3. \A V : Tally(more, V) = Tally(two, V) + Tally(Line("shed", v), V)
      BY <2>3, <3>2, OccursAppend DEF Tally
    <3>4. more \in Seq(LogLine)
      BY <2>3, <3>2
    <3> HIDE DEF more
    <3> QED BY <1>1, <1>7, <2>2, <3>1, <3>3, <3>4, LineCounts
  <2> HIDE DEF more, two
  <2>6. FateOf(t)' = "waiting"
    <3>1. \E x \in pending' : x.task = t
      BY <1>5, <2>1
    <3> QED BY <1>3, <3>1 DEF FatesRead
  <2>7. FateOf(v)' = "dead"
    <3>1. \E x \in dead' : x.task = v
      BY <2>2
    <3> QED BY <1>3, <3>1 DEF FatesRead
  <2>8. \A s \in Task \ {t, v} : FateOf(s)' = FateOf(s)
    <3> DEFINE touched == {t, v}
    <3>1. /\ \A x : x.task \notin touched => (x \in pending' <=> x \in pending)
          /\ \A x : x.task \notin touched => (x \in dead' <=> x \in dead)
      BY <1>5, <2>1, <2>2
    <3>2. \A s \in Task \ touched : s > offered' <=> s > offered
      BY <1>1
    <3> HIDE DEF touched
    <3>3. \A s \in Task \ touched : FateOf(s)' = FateOf(s)
      BY <2>1, <2>4, <2>5, <3>1, <3>2, UntouchedKept
    <3> QED BY <3>3 DEF touched
  <2>9. Tries' = Tries
    BY <2>4, <2>5, TriesKept
  <2> HIDE DEF v
  <2>10. Fates!Displace(t, v)
    BY <1>1, <1>4, <2>2, <2>6, <2>7, <2>8, <2>9 DEF Fates!Displace, Fates!In, Tries
  <2> QED BY <1>1, <2>2, <2>10, BoundsKept DEF Fates!Next, Fates!Step
<1>10. CASE \E kind \in {"refused", "blocked"} : TurnAway(t, kind)
  <2>1. PICK kind \in {"refused", "blocked"} : events' = events \o Line(kind, t)
    BY <1>10 DEF TurnAway
  <2>2. UNCHANGED <<pending, in_flight, dead>>
    BY <1>10 DEF TurnAway, flights
  <2> DEFINE more == Line(kind, t)
  <2>3. /\ more \in Seq(LogLine)
        /\ \A s \in Task : Tally(more, Saying("succeeded", s)) = 0
        /\ \A s \in Task : Tally(more, Saying("started", s)) = 0
    BY <1>1, IdleLine DEF Idle
  <2> HIDE DEF more
  <2>4. FateOf(t)' = "refused"
    <3>1. About(pending, t) = {} /\ About(in_flight, t) = {} /\ About(dead, t) = {}
          /\ Tally(events, Saying("succeeded", t)) = 0
      BY <1>1, HeldAlone
    <3>2. events' \in Seq(LogLine) /\ Tally(events', Saying("succeeded", t)) = 0
      <4>1. events' = events \o more
        BY <2>1 DEF more
      <4>2. /\ events' \in Seq(LogLine)
            /\ Tally(events', Saying("succeeded", t))
                 = Tally(events, Saying("succeeded", t)) + Tally(more, Saying("succeeded", t))
        BY <1>6, <2>3, <4>1, LogGrows
      <4> QED BY <1>1, <2>3, <3>1, <4>2
    <3>3. Occurs(events', Saying("succeeded", t)) = {}
      BY <3>2, TalliesRead, FS_EmptySet DEF Tally
    <3>4. Logged("succeeded", t)' = {}
      BY <3>2, <3>3, TalliesRead DEF Logged
    <3>5. Waiting(t)' = {} /\ Running(t)' = {} /\ Letters(t)' = {}
      BY <2>2, <3>1 DEF Waiting, Running, Letters, About
    <3> QED BY <1>1, <3>4, <3>5 DEF FateOf
  <2>5. \A s \in Task \ {t} : FateOf(s)' = FateOf(s)
    <3> DEFINE touched == {t}
    <3>1. \A s \in Task \ touched : s > offered' <=> s > offered
      BY <1>1
    <3> HIDE DEF touched
    <3>2. \A s \in Task \ touched : FateOf(s)' = FateOf(s)
      BY <2>1, <2>2, <2>3, <3>1, UntouchedKept DEF more
    <3> QED BY <3>2 DEF touched
  <2>6. Fates!Move({t}, "refused")
    <3>1. \A s \in Task : FateOf(s)' = IF s \in {t} THEN "refused" ELSE FateOf(s)
      BY <2>4, <2>5
    <3> QED BY <3>1, MovesTo
  <2>7. Tries' = Tries
    BY <2>1, <2>3, TriesKept DEF more
  <2>8. Fates!Refuse(t)
    BY <1>1, <1>4, <2>6, <2>7 DEF Fates!Refuse, Fates!In, Tries
  <2> QED BY <1>1, <2>8, BoundsKept DEF Fates!Next, Fates!Step
<1>11. AdmitBelow(t) \/ AdmitShed(t)
       \/ \E kind \in {"refused", "blocked"} : TurnAway(t, kind)
  BY <1>0 DEF Admit, AdmitRefused, AdmitBlocked, NothingToShed
<1> QED BY <1>8, <1>9, <1>10, <1>11

\* A start runs a waiting task: a slot is free, and the attempt is counted.
LEMMA DispatchRefines ==
    ASSUME Inv, LogInv, Inv', LogInv', Dispatch
    PROVE  Fates!Next
<1>0. PICK ticket \in pending : \E f : Starts(ticket, f)
  BY DispatchStarts
<1>1. PICK f :
        /\ f.task = ticket.task /\ f.attempt = ticket.attempts + 1
        /\ pending' = pending \ {ticket} /\ in_flight' = in_flight \cup {f}
        /\ events' = events \o Line("started", ticket.task)
  BY <1>0 DEF Starts
<1>2. PICK t \in Task : t = ticket.task
  BY DEF Inv, TablesOK, Ticket
<1>3. UNCHANGED <<inputs, dead, offered>> /\ "started" \in Kind
  BY DEF Dispatch, start, At, Kind
<1>4. FatesRead /\ FateOf(t) = "waiting"
  BY <1>2, FatesAreRead DEF FatesRead
<1>5. FatesRead'
  BY FatesAreRead, PTL
<1>6. FateOf(t)' = "running"
  <2>1. \E g \in in_flight' : g.task = t
    BY <1>1, <1>2
  <2> QED BY <1>5, <2>1 DEF FatesRead
<1> DEFINE more == Line("started", t)
<1>7. /\ more \in Seq(LogLine) /\ events' = events \o more
      /\ \A s : Tally(more, Saying("succeeded", s)) = 0
      /\ \A s : Tally(more, Saying("started", s)) = IF s = t THEN 1 ELSE 0
  <2>1. more \in Seq(LogLine) /\ events' = events \o more
    BY <1>1, <1>2, <1>3, LineTally
  <2>2. \A k, s : Tally(more, Saying(k, s)) = IF k = "started" /\ s = t THEN 1 ELSE 0
    BY <1>3, LineCounts
  <2> HIDE DEF more
  <2> QED BY <2>1, <2>2
<1> HIDE DEF more
<1>8. \A s \in Task \ {t} : FateOf(s)' = FateOf(s)
  <2> DEFINE touched == {t}
  <2>1. /\ \A x : x.task \notin touched => (x \in pending' <=> x \in pending)
        /\ \A x : x.task \notin touched => (x \in in_flight' <=> x \in in_flight)
    BY <1>1, <1>2
  <2> HIDE DEF touched
  <2>2. \A s \in Task \ touched : FateOf(s)' = FateOf(s)
    BY <1>3, <1>7, <2>1, UntouchedKept
  <2> QED BY <2>2 DEF touched
<1>9. Fates!Move({t}, "running")
  <2>1. \A s \in Task : FateOf(s)' = IF s \in {t} THEN "running" ELSE FateOf(s)
    BY <1>6, <1>8
  <2> QED BY <2>1, MovesTo
<1>10. Tries' = [Tries EXCEPT ![t] = @ + 1]
  <2>1. \A s \in Task : /\ Tries'[s] = Tries[s] + Tally(more, Saying("started", s))
                        /\ Tries[s] \in Nat
    BY <1>7, TriesRead
  <2>2. \A s \in Task : Tries'[s] = IF s = t THEN Tries[s] + 1 ELSE Tries[s]
    BY <1>7, <2>1
  <2> QED BY <2>2 DEF Tries
<1>11. Cardinality(Fates!In("running")) < pool.max_concurrency
  <2> DEFINE R == Fates!In("running")
             who == [f_ \in in_flight |-> f_.task]
  <2>1. R = {s \in Task : FateOf(s) = "running"}
    BY DEF Fates!In
  <2>2. \A s \in R : \E g \in in_flight : g.task = s
    BY <1>4, <2>1 DEF FatesRead
  <2>3. \A g \in in_flight : g.task \in R
    BY <1>4, <2>1 DEF FatesRead, Inv, TablesOK, Flight
  <2>4. who \in Surjection(in_flight, R)
    BY <2>2, <2>3 DEF Surjection
  <2> HIDE DEF R, who
  <2>5. /\ Cardinality(R) \in Nat /\ Cardinality(in_flight) \in Nat
        /\ Cardinality(R) <= Cardinality(in_flight)
    BY <2>4, FS_Surjection, FS_CardinalityType DEF Inv, Finite
  <2>6. free_slots > 0 /\ pool.max_concurrency \in Nat
    BY RunAssumption DEF Dispatch, start, Inv, TablesOK
  <2>7. Cardinality(R) < pool.max_concurrency
    BY <2>5, <2>6 DEF free_slots
  <2> QED BY <2>7 DEF R
<1>12. Fates!Run(t)
  <2>1. Fates!Cardinality(Fates!In("running")) = Cardinality(Fates!In("running"))
    BY DEF Fates!Cardinality, Cardinality
  <2>2. t \in Fates!In("waiting")
    BY <1>4 DEF Fates!In
  <2> QED BY <1>9, <1>10, <1>11, <2>1, <2>2 DEF Fates!Run, Tries
<1> QED BY <1>3, <1>12, BoundsKept DEF Fates!Next, Fates!Step

\* A resolution settles the tasks whose flights it ends: the lost ones wait
\* again exactly while their attempts are below their budget.
LEMMA ResolveRefines ==
    ASSUME Inv, LogInv, Arrivals, Inv', LogInv', ResolveOutcomes
    PROVE  Fates!Next \/ UNCHANGED Fates!vars
<1> DEFINE done == complete \cup sweep
           lost == {f \in done : ~Succeeds(f)}
           more == Resolution(done, lost)
<1>1. /\ done \subseteq in_flight /\ lost \subseteq done
      /\ in_flight' = in_flight \ done
      /\ pending' = pending \cup {requeue(f) : f \in {g \in lost : ~Spent(g)}}
      /\ dead' = dead \cup {dead_letter(f) : f \in {g \in lost : Spent(g)}}
      /\ events' = events \o more
      /\ UNCHANGED <<inputs, offered>>
      /\ \A f : requeue(f).task = f.task /\ dead_letter(f).task = f.task
  BY DEF ResolveOutcomes, Resolve, At, complete, sweep, requeue, dead_letter
<1>2. /\ \A f \in in_flight : f.task \in Task /\ f.attempt \in Nat
      /\ \A f, g \in in_flight : f.task = g.task => f = g
      /\ \A t \in Task : tasks[t].attempts \in Nat
  BY QueueAssumption DEF Inv, TablesOK, Flight, OneRecord
<1>3. /\ more \in Seq(LogLine)
      /\ \A t \in Task :
            /\ Tally(more, Saying("submitted", t)) = 0
            /\ Tally(more, Saying("started", t)) = 0
            /\ Tally(more, Saying("succeeded", t)) = Cardinality(About(done \ lost, t))
      /\ Tally(more, Being({"started"})) = 0
      /\ Tally(more, Being({"submitted"})) = 0
      /\ Tally(more, Being(Endings)) = Cardinality(done)
      /\ Tally(more, Being({"succeeded", "dead_lettered"}))
            = Cardinality(done \ lost) + Cardinality({f \in lost : Spent(f)})
  BY ResolutionCounts
<1> HIDE DEF done, lost, more
<1>4. FatesRead /\ \A f \in in_flight : FateOf(f.task) = "running"
  BY FatesAreRead DEF FatesRead
<1>5. FatesRead'
  BY FatesAreRead, PTL
<1>6. Tries' = Tries
  BY <1>1, <1>3, TriesKept
<1>7. PICK S : S = {f.task : f \in done}
  OBVIOUS
<1>8. PICK succeeded : succeeded = {f.task : f \in done \ lost}
  OBVIOUS
<1>9. S \subseteq Fates!In("running") /\ succeeded \subseteq S
  <2>1. \A s \in S : s \in Task /\ FateOf(s) = "running"
    BY <1>1, <1>2, <1>4, <1>7
  <2> QED BY <1>7, <1>8, <2>1 DEF Fates!In
<1>10. \A s \in Task \ S : FateOf(s)' = FateOf(s)
  <2>1. \A s \in Task \ S : Tally(more, Saying("succeeded", s)) = 0
    <3> TAKE s \in Task \ S
    <3>1. About(done \ lost, s) = {}
      BY <1>7 DEF About
    <3> QED BY <1>3, <3>1, FS_EmptySet
  <2>2. /\ \A x : x.task \notin S => (x \in pending' <=> x \in pending)
        /\ \A x : x.task \notin S => (x \in in_flight' <=> x \in in_flight)
        /\ \A x : x.task \notin S => (x \in dead' <=> x \in dead)
    BY <1>1, <1>7
  <2>3. \A s \in Task \ S : s > offered' <=> s > offered
    BY <1>1
  <2> QED BY <1>1, <1>3, <2>1, <2>2, <2>3, UntouchedKept
<1>11. \A s \in succeeded : FateOf(s)' = "done"
  <2> TAKE s \in succeeded
  <2>1. PICK f \in done \ lost : f.task = s
    BY <1>8
  <2>2. s \in Task
    BY <1>1, <1>2, <2>1
  <2>3. About(done \ lost, s) = {f}
    BY <1>1, <1>2, <2>1 DEF About
  <2>4. Tally(more, Saying("succeeded", s)) = 1
    BY <1>3, <2>2, <2>3, FS_Singleton
  <2>5. /\ Tally(events', Saying("succeeded", s)) = Tally(events, Saying("succeeded", s)) + 1
        /\ Tally(events, Saying("succeeded", s)) \in Nat
    BY <1>1, <1>3, <2>4, LogGrows DEF LogInv, LogTyped
  <2>6. Tally(events', Saying("succeeded", s)) # 0
    BY <2>5
  <2> QED BY <1>5, <2>2, <2>6 DEF FatesRead
<1>12. \A s \in S \ succeeded :
          FateOf(s)' = IF Tries[s] < tasks[s].attempts THEN "waiting" ELSE "dead"
  <2> TAKE s \in S \ succeeded
  <2>1. PICK f \in lost : f.task = s
    BY <1>7, <1>8
  <2>2. s \in Task /\ f \in in_flight
    BY <1>1, <1>2, <2>1
  <2>3. Tries[s] = f.attempt
    BY <1>1, <1>3, <2>1, <2>2, TriesRead DEF LogInv, Counted
  <2>4. CASE Spent(f)
    <3>1. ~(Tries[s] < tasks[s].attempts)
      BY <1>2, <2>1, <2>2, <2>3, <2>4 DEF Spent
    <3>2. \E letter \in dead' : letter.task = s
      BY <1>1, <2>1, <2>4
    <3> QED BY <1>5, <3>1, <3>2 DEF FatesRead
  <2>5. CASE ~Spent(f)
    <3>1. Tries[s] < tasks[s].attempts
      BY <1>2, <2>1, <2>2, <2>3, <2>5 DEF Spent
    <3>2. \E ticket \in pending' : ticket.task = s
      BY <1>1, <2>1, <2>5
    <3> QED BY <1>5, <3>1, <3>2 DEF FatesRead
  <2> QED BY <2>4, <2>5
<1>13. CASE S = {}
  <2>1. \A s \in Task : FateOf(s)' = FateOf(s)
    BY <1>10, <1>13
  <2>2. [s \in Task |-> FateOf(s)]' = [s \in Task |-> FateOf(s)]
    BY <2>1
  <2> QED BY <1>1, <1>6, <2>2, BoundsKept DEF Fates!vars, Tries
<1>14. CASE S # {}
  <2>1. \A s \in Task :
           FateOf(s)' = IF s \notin S THEN FateOf(s)
                        ELSE IF s \in succeeded THEN "done"
                        ELSE IF Tries[s] < tasks[s].attempts THEN "waiting" ELSE "dead"
    BY <1>10, <1>11, <1>12
  <2>2. Fates!Settle(S, succeeded)
    BY <1>6, <1>9, <1>14, <2>1 DEF Fates!Settle, Tries
  <2>3. S \in SUBSET Task /\ succeeded \in SUBSET S
    BY <1>9 DEF Fates!In
  <2> QED BY <1>1, <2>2, <2>3, BoundsKept DEF Fates!Next
<1> QED BY <1>13, <1>14

LEMMA InitRefines == Init => Fates!Init
<1> SUFFICES ASSUME Init PROVE Fates!Init
  OBVIOUS
<1>1. \A t \in Task : /\ FateOf(t) = "offered" /\ Logged("started", t) = {}
                      /\ tasks[t].attempts \in Nat
  <2> TAKE t \in Task
  <2>1. offered = 0 /\ t > 0 /\ tasks[t].attempts \in Nat
    <3>1. /\ tasks \in [Task -> [priority : Priority, attempts : Attempts]]
          /\ offered = 0
      BY DEF Init
    <3>2. tasks[t].attempts \in Attempts
      BY <3>1
    <3>3. t > 0
      BY DEF Task
    <3> QED BY <3>1, <3>2, <3>3, QueueAssumption
  <2>2. events = << >>
    BY DEF Init
  <2> QED BY <2>1, <2>2 DEF FateOf, Logged
<1>2. Cardinality({}) = 0
  BY FS_EmptySet
<1>3. pool.max_concurrency \in Nat \ {0}
  BY RunAssumption DEF Init
<1> QED BY <1>1, <1>2, <1>3 DEF Fates!Init

LEMMA StepRefines ==
    Inv /\ Arrivals /\ LogInv /\ Inv' /\ LogInv' /\ [Next]_vars => [Fates!Next]_(Fates!vars)
<1> SUFFICES ASSUME Inv, Arrivals, LogInv, Inv', LogInv', [Next]_vars
             PROVE  [Fates!Next]_(Fates!vars)
  OBVIOUS
<1>1. CASE Admit
  BY <1>1, AdmitRefines
<1>2. CASE ResolveOutcomes
  BY <1>2, ResolveRefines
<1>3. CASE Dispatch
  BY <1>3, DispatchRefines
<1>4. CASE \/ BeginLoop \/ WithinBounds \/ DispatchDone \/ Advance
           \/ OutOfTicks \/ OutOfSteps \/ Drained \/ DeadEnd \/ UNCHANGED vars
  <2>1. /\ UNCHANGED <<inputs, pending, in_flight, dead, offered>>
        /\ events' = events \/ events' = events \o Line("stopped", None)
    BY <1>4
    DEF BeginLoop, WithinBounds, DispatchDone, Advance, OutOfTicks, OutOfSteps,
        Drained, DeadEnd, Stop, At, vars, queue, loop, flights
  <2>2. events \o << >> = events
    BY DEF LogInv, LogTyped
  <2>3. PICK more \in Seq(LogLine) : Idle(more) /\ events' = events \o more
    BY <2>1, <2>2, IdleLine, IdleNothing
  <2>4. \A t \in Task : FateOf(t)' = FateOf(t)
    <3> DEFINE touched == {}
    <3>1. \A s \in Task \ touched : s > offered' <=> s > offered
      BY <2>1
    <3>2. \A s \in Task \ touched : FateOf(s)' = FateOf(s)
      BY <2>1, <2>3, <3>1, UntouchedKept DEF Idle
    <3> QED BY <3>2
  <2>5. [t \in Task |-> FateOf(t)]' = [t \in Task |-> FateOf(t)]
    BY <2>4
  <2>6. Tries' = Tries
    BY <2>3, TriesKept DEF Idle
  <2> QED BY <2>1, <2>5, <2>6, BoundsKept DEF Fates!vars, Tries
<1> QED BY <1>1, <1>2, <1>3, <1>4 DEF Next

\* A run of the queue is a run of TaskFate, for every set of tasks, pool,
\* budget, lease, policy and bound: each offered task is refused, or waits, runs
\* and ends once, and none is given up before its budget is spent unless a
\* newcomer was taken in its place (stages 3 to 7 under stage 10's loop).
THEOREM KeepsTheFates == Spec => KeepsFates
<1>1. Inv /\ Arrivals /\ LogInv /\ (Inv /\ Arrivals /\ LogInv)' /\ [Next]_vars
        => [Fates!Next]_(Fates!vars)
  BY StepRefines
<1> QED BY <1>1, InitRefines, LogInvariant, PTL DEF Spec, KeepsFates, Fates!Spec
=============================================================================
