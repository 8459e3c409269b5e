# A verification project for learn-stuff-from-scratch

The repository is about eighty independent "from scratch" courses with one
command line (`codecraft`) that grades a reader's attempts. Each course is a
program of its own. This project models the four whose correctness is hardest to
see from their tests, because their parts crash, part, race a clock or retry:

- `consensus-from-scratch`: a Raft-shaped replicated log over a deterministic
  network;
- `queue-and-workers-from-scratch`: a work queue with leases, retries, dead
  letters and admission limits over an injected clock;
- `failover-from-scratch`: two regions, a link that drops, a promotion that must
  be proven, writes with sibling versions;
- `durable-execution-from-scratch`: a journal, leases and effects applied exactly
  once although the process dies anywhere.

TLC checks each on small instances; TLAPS proves the central invariants for
every value of the constants.

Contents: [inventory](#inventory) · [modules](#the-modules) ·
[consensus](#consensus) · [queue](#the-work-queue) · [failover](#failover) ·
[durable execution](#durable-execution) · [runs](#the-runs) ·
[disagreements](#where-code-and-documents-disagree) · [fairness](#fairness) ·
[proofs](#what-is-proved) · [not modelled](#what-is-not-modelled)

## Inventory

### The consensus course (`src/consensus-from-scratch`)

| Component | State | Operations | What is hard, what makes it correct |
|---|---|---|---|
| vote and election (`solutions/stage_01.py`, `stage_02.py`) | term, `voted_for`, role, votes | `grant_vote`, `start_election`, `tally` | interleaved candidates, a vote lost with a leader's role; one leader per term, none that lacks a committed slot |
| leadership and replication (`stage_03.py`, `stage_04.py`) | the leader's `matched` and `next_index` rows, the log | `become_leader`, `observe_reply`, `handle_append`, `client_submit` | rows true when written and stale when counted, truncation near the commit line; logs match, rows agree |
| commit and stale leaders (`stage_05.py`, `stage_06.py`) | the commit line | `advance_commit`, `same_term_stale` | slots of older terms, refusals counted as replicas; a slot commits once, and stays |
| image and disk (`stage_07.py`, `disk.py`) | the records of a disk | `persist`, `recover`, `Disk.crash` | a torn last record; a node comes back as it was |
| snapshot (`stage_08.py`) | the snapshot, the compacted log | `build_snapshot`, `install_snapshot` | contradiction of a committed slot |
| membership (`stage_09.py`) | the joint window, the config | `begin_change`, `quorum`, `finish_change` | two quorums that do not meet |
| the composed node (`stage_10.py`) | all of the above | `init`, `recv`, `tick`, `client`, `recover` | the order of adopt, stand down, reconcile, apply |
| grammar (`wire.py`) | none | builders, `majority`, `at_least_as_up_to_date` | the builder's refusals are the program's assertions |
| fabric and driver (`sim.py`) | states, disks, severed links, the queue, the recorded run | `boot`, the five events, `submit`, `_queue`, `_deliver`, `run` | delivery order, loss at delivery, a drain that must end |
| schedules (`scenarios.py`) | none | seven schedules and what each must show | the real timeouts, where the shortest is the heartbeat |
| history (`history.py`) | the client's calls | a linearizability search | reads of a cut-off leader |
| foil (`naive.py`) | as the node | a node that is wrong on purpose | what each law rules out |
| course text and checks (`course.py`, `stage_*.py`) | none | empty templates, the grader's tests | – |

Interaction: `sim.Cluster` calls the node's functions and keeps what they
return; the node never calls the fabric. Messages are values in one FIFO queue,
drained to the end inside each tick. The only shared state is the fabric's
(links, live set, queue); each node owns its state and its disk.

### The work queue course (`src/queue-and-workers-from-scratch`)

| Component | State | Operations | What is hard, what makes it correct |
|---|---|---|---|
| queue and order (`stage_02`, `03`) | pending tickets, arrival numbers, the clock, the log | `submit`, priority order, due dates | a retry keeps its place among its priority |
| flights (`stage_04`, `05`) | flights by task, answers by task, leases | `start`, `complete`, `sweep` | a landing and a lapse on one tick; an answer left behind by a swept flight |
| retries (`stage_06`) | attempts, dead letters | `backoff`, `requeue`, `dead_letter` | the budget's last attempt; no task lost or held twice |
| admission (`stage_07`) | pool limits, policy | `admit`: refuse, shed, block | depth at the high water mark |
| the run (`stage_09`, `10`) | the loop's bounds and its record | `run`, `_loop`, `_next_time`, `run_record` | the clock's jumps; stopping neither early nor never; a record that adds up |

### The failover course (`src/failover-from-scratch`)

| Component | State | Operations | What is hard, what makes it correct |
|---|---|---|---|
| versions (`kv.py`, `stage_01`, `08`) | sibling sets with clocks, a ledger per node | `coalesce`, `_merged_clock`, `apply_once` | concurrent writes in both regions; clocks are unique, nothing held is forgotten |
| health and quorum (`stage_02`, `05`) | notices of deaths | `ackable`, `primary_gone` | silence is not death; half a region is no quorum |
| promotion (`stage_07`) | epoch, promoted, votes | `propose`, `tally` | only a proven death promotes, and one that can be proven does |
| fabric (`fabric.py`) | who is down, the link, notices and relays under way, redirected requests | the phases of a tick | traffic held, released and held again; regions converge |

### The durable execution course (`src/durable-execution-from-scratch`)

| Component | State | Operations | What is hard, what makes it correct |
|---|---|---|---|
| disk and journal (`disk.py`, `stage_02`) | lines, and how many are durable | `write`, `commit`, `crash` | what a crash takes |
| leases (`stage_04`–`06`) | claims, beats, expire lines | `claim`, `heartbeat`, `crash`, `recover` | several readers of one log must agree; no claim over a live lease |
| effects (`stage_07`) | the world's keys | `intend`, `settle` | a death between an effect and its line |
| the run (`stage_10`) | jobs in the air, the cap, the caller's clock | `run`, `_recovered`, `_settle_effect` | a resume that neither waits for ever nor does work twice |

The four programs share no code and no state.

### The rest of the repository

`codecraft` (registry, attempts, progress: one process, file I/O); courses on an
MQTT broker, orchestration, dynamo, concurrent servers; on operating systems,
TCP/IP, shells and runtimes; on blockchains, query engines and git; on training,
interconnects and infrastructure; on language models, autograd and agents; on
finance; on mathematics, compilers and CUDA; and vendored tutorial corpora.
`PROJECT.json` lists each group with why it is not modelled.

## The modules

| Module | What it is |
|---|---|
| `ConsensusNode` | the composed consensus node: states, messages, and one operator per function |
| `Cluster` | `sim.Cluster`: variables, one action per event, tick and delivery |
| `ClusterProperties` | its type invariant, safety invariants, action and liveness properties |
| `ScriptedCluster` | `Cluster` under a fixed schedule, and the ticks the driver records |
| `MCCluster`, `MCScenarios`, `MCFindings` | three-node instances; the seven schedules and pins of `scenarios.py`; schedules for five nodes that no document foresees |
| `NodeTypes`, `ClusterTypes`, `DurabilityProofs`, `ElectionProofs` | proofs: what every operator of `ConsensusNode` returns; types; disks and terms; one live leader per term; what a leader answers was noted; logs match while no term has two leaders; what it takes for a term to get two, and a slot two commands |
| `WorkQueue` | the queue's tables and operations, stages 2 to 7 |
| `QueueRun` | `run` and `_loop` of stage 10: one action per phase of the loop |
| `TaskFate` | the abstract specification: what a run promises about each task |
| `QueueProperties`, `MCQueue`, `QueueProofs` | the queue's properties and refinement, its instances, its proofs |
| `FailoverNode` | the failover node as functions of what one node holds |
| `Fabric` | `fabric.py` driving the composed node |
| `FailoverProperties`, `MCFailover`, `FailoverProofs` | its properties, its instance, its proofs |
| `Counting` | lemmas on sets of naturals, finite orders and occurrences in sequences that the proofs of all four families share |
| `Journal` | the journal as a sequence of lines, and the readers the code has of it |
| `DurableRun` | `run` of stage 10 over a disk and a world, with crashes |
| `DurableProperties`, `MCDurable`, `DurableProofs` | its properties, its instance, its proofs |

In each family the modules extend one another in the order of the table; the
proof modules extend the properties and `Counting` (`NodeTypes` only
`ConsensusNode` and `Counting`).

The operators `..._any_vote`, `..._low`, `..._kept` and so on are plausible
slips of the definition after them. They are never used by the model; each shows
that some property of the runs notices that slip.

## Consensus

### The program

A run is `Cluster.run(events, ticks)` (`sim.py:332`). At each tick: the events
of that tick are applied (cut, heal, crash, restart, submit); every live node
ticks, in id order; and the queue is drained, first in, first out. A message
whose link is severed, or whose sender or target is dead, is dropped when its
turn comes, never delayed. Every new state is saved on the node's disk at once.
A crash saves the state again and tears that last record.

Two facts of the fabric shape everything else. An `APPEND` is written for one
peer, from that peer's `next_index`, but `_queue` (`sim.py:247`) hands it to
every live node. And a client's write is drained before the next event, while
what it commits on the leader is only noted at the next delivery.

### How the modules follow the code

**The node.** A state is one record for the three roles. `follower(s)` is the
builder that drops votes and rows; a leader's `voted_for` is `Nobody` because
`wire.leader` keeps none (`wire.py:287`). Slots count from 1, so the code's −1
is 0. `next_index` is a total function in which 0 is an absent key, which the
code reads as "send the tail". A config is a set: the code's member lists are
sorted. An `APPEND_REPLY` carries the replier's own last slot, accepted or
refused, as `_refusal` and `_accept` both do.

**A handler is one operator.** `recv_append` is adopt, stand down, reconcile
and apply, in the code's order; `recv_append_reply` is the stale check, the
row, the advance and the apply. The trailing `_apply_committed` is inside the
operator, never an action of its own.

**Assertions.** The builders of `wire.py` refuse malformed literals. The one
check a run can fail is a commit line past the log: `Builds`. The one lookup a
run can fail is `_prev_term`'s: `Anchored`. Where either fails the action is
`Raises`, which ends the run, as the exception does. `NeverRaises` says it does
not happen. Two envelope kinds that no run produces (SNAPSHOT and its reply)
are left out: `snapshot_at` is `None` in every state a run reaches.

**The driver.** `phase`, `turn` and `pending` are the position inside
`run()`'s loop: `"events"` with an empty queue, then each id of `turn` in
order, then the drain until `pending` is empty. `queue` makes an envelope with
all its targets, and `AtHead`/`Rest` hand it to them one at a time, which is
the order of the code's flat queue. `Submit` drains before the next event
because every event waits for `pending = <<>>`.

**The record.** `leaders`, `committed`, `chosen`, `conflicts` are the driver's
lists without their ticks; `ScriptedCluster.story` has the ticks. `chosen` is
the first command noted at each slot, and `conflicts` one entry per slot that
another command was noted at. `reads` keeps, of an answer, the slot it reflects
and the newest write noted by then. `cast` is a history variable: no action
reads it.

**The scenario** is the nondeterminism: which event, when, how often. `Budget`
bounds each kind, `EventTicks` the last tick with an event, `Horizon` the run.
Restarts need no budget: each follows a crash.

The scripted form was compared with runs of the Python program on random
schedules, state by state, before any property was trusted.

## The work queue

**Tables.** A dictionary of the source keyed by task id is a set of records with
at most one per task. The list `pending` is a set, because every reader of it
sorts by `order_key` first; the log `events` is a sequence of kinds and tasks,
because its order is read back. Task ids are numbers in the order of their offer.

**Phases.** `at` is the position inside `_loop`: every task is admitted, then the
loop resolves outcomes, checks its bounds, dispatches while a slot and a due
ticket exist, and moves the clock to `_next_time`. Resolving is one action:
`complete`, then `sweep`, then the retry schedule over both, in the order the
code logs them. Where `complete` and `sweep` append a ticket that the schedule
takes off again in the same call, only the result is kept.

**Workers** are functions of task and attempt that the caller passes in, so the
answer of an attempt is chosen when it starts.

**The promise.** `TaskFate` knows a task only as offered, refused, waiting,
running, done or dead, with the attempts it cost. `QueueProperties` maps a run
onto it (`FateOf` reads the tables and the log) and `KeepsFates` is its
specification under that mapping.

## Failover

**The node.** `FailoverNode` has the order of versions (`dominates`, `coalesce`),
the gates (`ackable`, `primary_gone`, `Candidate`), the tally of one round
(`Counted`: the first adopt moves the candidate's epoch, and every later one then
names an epoch it already holds) and the write clock. There is one key, because
keys never meet in a store. A write is named by its `(client, rid)`.

**The fabric.** A tick is the phases of `Fabric.run`: world events, due
deliveries, redirected requests, node ticks (the west's on even ticks), clients.
Traffic of the link is due `"now"`, `"next"` tick, or `"held"` while the link is
down; a relay that falls due on a link cut again is held again, as
`fabric.py:384` has it. The watch channel is one list in the code; a notice only
touches what its hearer believes of its subject, so `watch[n][x]` is what is on
its way to `n` about `x`, oldest first. Relays only meet in a union, so `cross` is
a set. Messages inside a region are delivered in the call that
sends them. A tick of a node that does not propose changes nothing, so `TickNode`
goes to the next one that does. Redirects of one tick are sorted by their wording
in the code; here any goes first.

**History.** `died` and `written` are read by no action.

## Durable execution

**The disk** is the journal's lines and how many of them a sync made durable.
`write` appends, `commit` appends and syncs, `Crash` cuts back to what is durable.
A checkpoint is kept as the sync it is: `run` reads back only its run and plan.

**Readers.** The code folds the journal in four places. Each fold is a pass in
which the newest line that decides about a job wins, so each is read off the
newest such line (`newest`); `FoldsAgree` compares them where the run relies on
more than one.

**Steps.** A process may die anywhere. What it did since its last sync or effect
is lost either way, so an action reaches from one sync or effect to the next:
`Intent`, `Apply` and `Report` are the three windows of `_settle_effect`. The
loop over the jobs of a tick goes in id order (`IsFirst`).

**Calls.** The caller may hand its clock on or start a fresh one at 0. It calls
`run` again after a crash as long as `Calls` allow, and a process dies only while
another call is left.

## The runs

Consensus. Timeouts in the three-node instances are 4, 2 and 3 ticks with
heartbeat 2: like `wire.TIMEOUTS` they are not in id order, and the shortest *is*
the heartbeat. One tick of an election plus its appends is a few dozen steps, so
seven or eight ticks hold several elections.

| Run | Instance | Shows |
|---|---|---|
| `mixed` | 3 nodes, 7 ticks, 2 cuts, 1 heal, 1 crash, 2 writes, any restarts; symmetric writes; 1.6 M states | types; `BallotsBind` (the heart of the election proof); one leader at a time; slots commit once; what is chosen is on a majority and with the newest leader; no exception; disks are current; terms and committed prefixes only grow |
| `partition` | 3 nodes, 8 ticks, 2 cuts, 1 heal, 3 writes, 1 read, no crash; 1.2 M states | one leader per term for good; logs match; a leader's rows are common prefixes; reads answer committed writes |
| `quiet` | events in 4 ticks, run to 14; 170 k states | when the links heal and all are up, one log and its leader, unless the fastest node is behind; every drain ends (the code raises at `MAX_DRAIN`) |
| `pins` | 5 nodes, real timeouts, the 7 schedules; 5.7 k states | the leaders, ticks and commits that `scenarios.PINS` lists |
| `queue` | 3 tasks, 2 priorities, a budget of 2 attempts, answers ok or failed that cost 0, 1 or 3 ticks, leases of 1 or none, bounds of 1 or none, three pools, three policies; 365 k states | types; no task lost or held twice; both limits; answers belong to their attempt; the clock never overshoots; the record adds up; landings in time count; retries keep their place; the run ends; it implements `TaskFate` |
| `failover` | 3 + 3 nodes, 2 kills among two east nodes and a west one, 1 revival, 2 flips of the link, 2 calls; 248 k states | types; promotion only after a proven death and by a majority; acknowledged versions stay on a majority; unique clocks; entries converge; notices track deaths; nothing held is forgotten; a failover that can happen does |
| `durable` | 2 jobs with any of 4 labels, 2 owners with leases of 4 and 2, caps of 1 and 2, checkpoints never or always, 3 calls; 47 k states | types and the cap; effects once; claims wait for the dead; readers agree; the run finishes |
| `second_vote`, `stale_rows`, `queue_stops_early`, `failover_replay`, `durable_untouched` | see below | each violates the one property it checks |

Why these bounds are enough for what they claim. A consensus conflict needs two
leaders, a slot on fewer nodes than it is counted on, and time for a second
election: two cuts, a heal and seven ticks. In the queue, a slot, a waiter and a
retry that competes with it need three tasks; a lease of 1 under costs of 0, 1
and 3 has landings before, at and after the lapse. In the failover run two kills
are a majority of the primary, a revival brings back a node that missed traffic,
and two flips release traffic and cut it again. In the durable run three calls
are two deaths, so a recovery is itself interrupted and recovered from. The
mutants confirm it: each slip is found inside these very bounds. What they do not reach is
a flaw that takes five nodes: `mixed` holds `CommittedStays`, `SlotsCommitOnce` and
`ChosenHeldByMajority` of three nodes, two writes and seven ticks, and each is lost in
some longer schedule of five (`stale_rows`, `MCovercut.cfg`). Larger instances
that pass but take longer were run by hand: failover with three writes (538 k
states) and with three kills (2.1 M); durable with four calls (106 k states) and with
three jobs (50 k). With a fourth flip of the link a notice can overtake an
older one about the same node that was held longer, and `NoticesTrackDeaths` no
longer holds: that is the limit of what the watch channel promises.

`SYMMETRY` permutes writes only, which no definition tells apart, and only in
runs without liveness properties. `CHECK_DEADLOCK FALSE` stands where the system
really stops: a queue run that has stopped, a durable run whose caller makes no
further call. Everywhere else deadlock is checked; in `Cluster`, `Done` stutters
when `run()` has returned.

### Configurations outside the runs

Six configurations show further disagreements that are described below. They
are kept to be run by hand (`tlc -config MCread.cfg MCCluster` and so on) and
each ends with the violation it names: `MCread.cfg` (`ReadsAreFresh`),
`MCswap.cfg` (`OneLeaderAtATime` under memberships), `MCraise.cfg`
(`NeverRaises` under memberships), `MClone.cfg` (`LoneNodeLeads`), all of
`MCCluster`, and `MChealed.cfg` (`HealedRunLeads`) and `MCovercut.cfg`
(`CommittedStays`) of `MCFindings`.

## Where code and documents disagree

Each statement below is one the repository makes about itself. TLC's trace is a
schedule the program follows step by step; the last three of the first list,
and 13, were also replayed on the Python.

With a run:

1. **A forgotten vote** (`second_vote`). `wire.leader` keeps no vote. A leader
   that crashes, or stands down without a newer term, comes back able to vote
   again in the term it led, and that term elects a second leader. The two are
   never live leaders at once: that is `OneLeaderAtATime`, proved below.
2. **Rows that were never true** (`stale_rows`). A refusal reports the
   refuser's own last slot, `observe_reply` files it as agreement, and since
   appends are fanned to all nodes a follower may answer an append that was not
   cut for it. A leader then counts a replica that does not exist and commits a
   slot that a later leader commits again with another command. The docs say of
   `matched` that it is "the highest index that node's log agrees with", and
   that the append "is NOT fanned".
3. **A queue that stops early** (`queue_stops_early`). A retry that falls due
   while every slot is taken makes the next time not later than now, which the
   loop reads as no progress: it stops with a flight in the air. The docstring
   says the run is done when the queue holds nothing.
4. **A retry applied twice** (`failover_replay`). The ledger is each node's own
   and is never sent. When the entry that answered a write dies, its successor
   applies the retry anew, with a clock above every write made since. The README
   calls the ledger exactly-once.
5. **A resume that ends otherwise** (`durable_untouched`). The attempt number
   counts claims on the disk. A claim whose process died moves the job on to its
   next answer, so a job whose first attempt succeeds and whose second dies ends
   as failed, with its effect applied. The README promises the untouched run's
   states.

Without a run, from the configurations above or from reading:

6. **A stale read** (`MCread.cfg`). A consensus leader answers from its own
   committed prefix and asks nobody (`stage_10.py:282`); cut off, it misses what a
   newer leader committed, although the docstring claims that this avoids the
   stale read of the foil.
7. **A membership in one step** (`MCswap.cfg`). The composed node applies a
   committed `members:` command at once (`stage_10.py:127`); the joint window of
   stage 9 is never opened. Two disjoint configs elect two leaders in one term.
8. **An exception after a membership** (`MCraise.cfg`). With two configs a
   follower may be sent a log shorter than its commit line. The docstring of
   stage 4 says the line is clamped; only a raised line is (`stage_04.py:185`),
   and the builder refuses the state.
9. **A node alone** (`MClone.cfg`). A candidate with no peers asks nobody, and
   only an answer is tallied (`stage_10.py:266`): a one-node config never elects.
10. **A livelock** (`MChealed.cfg`). A refused vote request still resets the
    voter's timer (`stage_01.py:76`). With the real timeouts the fastest node, one
    write behind, keeps five healed nodes without a leader to tick 300, term 60.
11. **Failover reads.** The quorum gate asks for a majority alive and then reads
    the local store (`failover-from-scratch/solutions/stage_10.py:251`), so an
    entry that was just revived answers without the writes it missed. Nor is a
    promoted west fenced from the old primary once that revives: nothing
    carries the epoch to it.
12. **A claim's length.** `durable-execution-from-scratch/solutions/stage_08.py:492`
    reads a lease's `ticks` as an absolute deadline; the README says that a claim
    is a length and not a deadline.
13. **A commit taken back** (`MCovercut.cfg`). When the slot before an append holds
    another term, `handle_append` cuts back through every slot that holds the
    leader's `prev_term` (`stage_04.py:177-186`), which may include slots that both
    logs share and that are committed, and lowers the commit line with them. The
    docstring of stage 5 (`stage_05.py:25`) has commits monotone, since a node that
    rolled one back would have to undo what it applied.

## Fairness

Each program is one loop that waits for nothing but its next iteration, so a step
of the loop that is enabled is taken: `WF_vars(Drive)` in `Cluster`,
`WF_vars(Next)` in the other three. Nothing is assumed of the scenario: no event
is ever obliged to happen (in `Fabric` events are bounded by `left` and every
phase ends without them, and `EndTick` is reached under weak fairness because
budgets run out; in `DurableRun` the caller does call again until its calls are
spent, and no process dies in the last one). `DrainsSettle`, `RunEnds`,
`FailoverHappens` and `RunFinishes` use it; `HealedRunConverges` is an invariant
at the horizon instead, since `run()` ends there.

## What is proved

All of it for any value of the constants under their named assumptions.

**Consensus** (any finite set of nodes, any timeouts and heartbeat, any commands,
schedule and horizon; `NodeAssumption`, `TimerAssumption`, `MemberAssumption`,
`BoundAssumption`).

- **`TypeCorrect`: `Spec => []TypeOK`.** `TypeOK` is not inductive: an append
  sends `SubSeq` of a log and a message's slot must exist, and a restart reads
  a disk. `TypeInv` adds that every state's commit line and every image's lies
  within its log, which is the builder's own check. `NodeTypes` has one lemma
  per operator (in particular `NthMember`: the i-th member of a config exists,
  by counting; `TopSlot`: the largest of a set of slots is one of them), and
  `ClusterTypes` one per group of actions.
- **`DisksAreCurrent`: `Spec => []DiskIsCurrent`** and **`TermsOnlyGrow`:
  `Spec => TermsGrow`.** A step needs to know that the node that ticks is live,
  so `Durable` adds that only live nodes are due a tick, and none while events
  happen. The lemma `Transitions` is the heart of this and of the next proof:
  every step is one node's saved transition, a crash, a restart, or leaves
  nodes alone, and it says which of five things happened to the node's vote
  (`Steady`, `VotesFor`, `Stands`, `Counts`, `Wins`).
- **`BallotsHold`** and **`ElectionSafety`: `Spec => []OneLeaderAtATime`**,
  assuming `MemberSet = {}`. The hypothesis is needed: `MCswap.cfg` is the
  counterexample without it. Because a leader forgets its vote, "one ballot per
  voter and term" is false, and the usual argument fails. The invariant is
  weaker: of the ballots a voter gives in a term at most one is for another
  node (`BallotsBind`, second part), the current one is on its disk or its own
  (first part), and a *live* candidate's or leader's ballots of its term are
  only its own. Two live leaders of a term have majorities that share a voter
  (`MajoritiesMeet`), who voted for both, who therefore is one of them, and
  live, and voted for the other: a contradiction. `BallotsCounted` ties the
  counts and the replies under way to ballots that were cast.
- **`LeadersStayAnchored`** and **`ReadsCommitted`:
  `Spec => []ReadsAnswerCommitted`**, under the same hypothesis, from
  `LeaderInv`. A leader that takes a write saves its state and notes nothing, so
  a read between that call and the next delivery would be wrong if the append
  alone could commit. It cannot: `Leading` says that a majority is at least two
  nodes, that every row lies within the leader's own log, and that
  `advance_commit` has already taken what it could (`Won` is empty), and a new
  slot is above every row. Rows stay within the log because every answer under
  way to a leader is within its log (`Posted`), because every append is, because
  a node that has ticked and is no candidate (`Past`) cannot win a term while
  mail of an older tenure of its own is in the queue, and because no live rival
  of the term can refuse its appends (`OneLeaderAtATime`). A winner heard another
  node, since nobody is sent its own request, so two nodes exist (`TwoAreMany`).
  `Recorded` then bounds every disk's commit line by what was noted. That a row
  is in the leader's log is also what `_prev_term` needs: one half of
  `NeverRaises` for a fixed membership.
- **`LogsMatch`: `Spec => [](OneLeaderPerTerm => LogMatching)`**, under any
  memberships. The condition is what the proof needs and no more: a term that
  elects a second leader (`second_vote`) can put two commands in one slot. What
  is on disks and in appends under way is taken apart into facts, one for each
  slot: its entry and the term of the slot before it (`Slots`, `Brings`). One
  statement about pairs of facts is then the invariant: of a slot and a term only
  one thing is said (`SlotsAgree`). A delivery says nothing new, because an
  accepted append is put behind a slot that both sides hold (`ReconcileSlots`),
  and a broadcast repeats its sender's log; only a client's command adds a fact,
  and it lies past every fact of the leader's term (`SlotsLed`), since who once
  led a term never stands in it again (`TermsLed`) and nobody else leads it.
  `AgreedLogsMatch` goes from there to equal prefixes, downwards from a greatest
  slot that would differ.
- **`OneLeaderUnlessResigned`: `Spec /\ KeepOffice => []OneLeaderPerTerm`** and,
  from it, **`LogsMatchUnlessResigned`**, under a fixed membership. `KeepOffice`
  says that no step takes a leader's role without a newer term; by the lemma
  `Resignations` that leaves out a crash of a leader and `same_term_stale`, and
  nothing else. So the forgotten vote is the only way to two leaders: followers and
  candidates may crash, and links be cut, at will. `TenureInv` keeps, of everyone
  ever noted as leader, the majority that elected it and that its own ballots of
  the term are for itself (`Elected`). Two such leaders would share a voter; it has
  given one ballot of the term to another node at most, so it is one of the two,
  and has voted for the other.
- **`CommittedOnce`: `Spec /\ []CommitsKept => []SlotsCommitOnce`**, under any
  memberships, and **`CommittedOnceUnlessResigned`** under a fixed one. `CommitsKept`
  is `OneLeaderPerTerm` and `ChosenHeldByMajority`. Neither is a property of the
  program in general: `second_vote` refutes the first, `stale_rows` and `MCovercut.cfg`
  show commits that were never on a majority, or leave a disk again. The theorem says
  that agreement is lost in no third way. The majority it assumes is that of the
  moment and not the one the leader counted, and a follower notes slots as well as
  a leader. `ChosenSaid` is the invariant: whatever any log or append says of a
  committed slot in the term it was committed in is the command chosen there. A
  slot that is noted again is noted in the same term, since the two majorities
  share a disk, which holds one term at the slot; and of a slot and a term only one
  thing is said (`SlotsAgree`). The theorem does not hold by `ChosenHeldByMajority`
  alone: the majority holds a term at the slot, not a command.

**Work queue** (any number of tasks, priorities, budgets, answers, pools, leases
and bounds; `QueueAssumption`, `RunAssumption`).

- **`TypeCorrect`, `PoolLimits`, `AnswersAreOwn`, `NoOvershoot`** come from one
  invariant `Inv`. The limits are not inductive alone: that a shed or a requeue
  keeps the depth needs `pending` and `in_flight` to hold each task at most once
  and never both, and to be finite; that an answer belongs to its flight needs
  the answers of landed flights, and only those, to be cleared; that the clock
  does not overshoot needs to know in which phases the landings due now have
  been resolved.
- **`RetriesKeepTheirPlace`: `Spec => ArrivalOrderSurvives`** adds `Arrivals`: a
  ticket's or flight's arrival number grows with the number of its task, whatever
  was refused or shed between.
- **`NothingLost`, `RecordAgrees`, `InTimeIsFiled`** relate the tables to the log.
  `LogInv` keeps tallies of the log's lines. For each task, its submissions are
  its records in the tables and its successes (`Placed`), at most one (`Once`), and
  its starts are the attempts its record counts (`Counted`). For the run, starts
  are flights and endings, submissions are what waits, flies or ended
  (`Balanced`), and no prefix of the log has more open starts than the pool has
  slots (`NeverCrowded`). `Counting` adds the tallies up over appends, so that no
  step has to look at the whole log.
- **`KeepsTheFates`: `Spec => KeepsFates`** for the safety part of the refinement:
  the initial state maps to `TaskFate`'s, and each step to one of its steps or a
  stutter. The mapped fate of a task is a fold over the log; `FatesRead` proves
  that it can be read off the tables instead, and then each action is one lemma.

**Durable execution** (any plan, labels, answers, workers, caps, checkpoints and
number of calls; `PlanAssumption`, `RunAssumption`).

- **`ExactlyOnce`: `Spec => []EffectsOnce`.** The invariant says what a crash may
  take: an effect line on the disk means the world has the effect, an intent line
  is durable whenever the process is past its sync, and between `Apply` and
  `Report` the world has the effect of exactly the job in hand. `Added` says what
  appended lines do to the set of lines of a job, and `QuietLines` that most
  actions append none that count.
- **`TypeCorrect`, `OneHolderAtATime`, `OneStory`** come from a second invariant
  `LogInv`. Its heart is `Grammar`, which says of each line something about the
  lines before it only: a claim or a retry is of a job that nobody holds
  (`Unheld`: no result, and every earlier claim is answered), and an expire line
  answers the claim that decides about its job, a whole grace past the last
  promise its beats made. Such a fact about every prefix is kept by a crash, which
  cuts the log to a prefix, and by lines of other jobs or kinds. `Shape` and
  `Phases` say what the process knows of the log in each phase of its loop (in
  particular that a job found ready is `Unheld`), so that what it appends fits the
  grammar. Under the grammar the readers of stages 5, 6 and 10, which fold the log
  each in its own way, decide one state for every job.

**Failover** (any two regions of any size, any writes, homes and mortal nodes, any
number of kills, revivals, flips and calls; `FleetAssumption`,
`ScheduleAssumption`).

- **`TypeCorrect`, `OnlyProvenPromotes`, `ClocksTellApart`, `WritesStayHeld`,
  `NothingIsForgotten`** come from one invariant `IInv`, as none of the three in
  the middle is inductive alone. A promotion is proven because every death notice,
  believed or on its way, is of a node that died (`DeathsHappened`). A new clock
  is new because a node holds every count of its own that any clock has
  (`OwnCounts`): it counts past what it holds, so past everything. A write is with
  a majority because a node that is up believes dead every peer that is down once
  the tick's deliveries are over (`PeersKnown`), so the majority it counts is one
  it reached. That it stays there rests on `CoalesceCovers`: what `coalesce` drops
  is dominated by something it keeps, for any finite set of versions. A retry goes
  out with the version that sorts last, which exists because the sort key is a
  strict total order (`SortsTotal`, `SortsTransitive`) and clocks are unique.
- **`PeersAreKnown`**: `PeersKnown` says it both ways for a node that never died,
  so what `quorum_ok` counts is the truth. A revived node is left out with reason:
  `CatchUp` tells it who is down and not who came back while it was down.
- **`EntriesAgree`** adds `EInv` to `IInv`, about two entries that never died. Such
  entries serve every request, so each relay goes from one of them to the other;
  its sender keeps covering what it carries; what one entry holds the other covers
  or a relay brings it (`Crossing`); and no west node runs ahead of its entry
  (`PeersFollow`), or a proposal could bring the entry a version no relay carries
  east. With nothing on its way the two stores cover each other, neither holds a
  version that another passes (`Siblings`), and clocks are unique: they are equal.
- **`NoticesArriveInOrder`: `Spec /\ CutsWait => []NoticesTrackDeaths`**, for any
  number of flips. `CutsWait` says that the link is not cut again while a node that
  never died has a notice on its way that the last cut held, unless it is the last
  flip. It is what the watch channel needs: a notice that is held twice can be
  passed by a newer one about the same node, and the older one, landing last, is
  believed. **`NoticesConverge`** needs no such condition, for up to three flips: the
  first cut finds nothing held and the second is the last flip. Both are sharp;
  with a fourth flip TLC finds a counterexample (in one tick a cut, a death, a heal,
  the revival and a cut; in the next a heal). `LinkInv` says of each queue of notices that it is
  due in the order it was written (`InTurn`), that its last word is the truth, or
  the hearer's belief is when it is empty (`LastTold`), and that between a heal and
  the next events nothing is held; or that the link is down for good with the
  notice (`Stranded`), which then never lands.

Every invariant here held in a TLC run before it was proved.

**Only model-checked.** Consensus: `ChosenHeldByMajority`, `LeaderHoldsChosen`,
`MatchedAgrees`, `CommittedStays` and the rest of `NeverRaises`. They hold of the
three-node instances within their bounds, and cannot be theorems of this program:
with five nodes `stale_rows` commits what no majority holds, a later leader lacks
it, and `MCovercut.cfg` takes back a committed slot. `OneLeaderPerTerm`,
`SlotsCommitOnce` and, in the failover run, `NoticesTrackDeaths` are no theorems
without a condition either, and are proved under the ones above.
`ReproducesPins` is about seven fixed schedules, and `HealedRunConverges` needs a
bound on how long timers take, which depends on their values. Liveness
(`DrainsSettle`, `RunEnds`, `FailoverHappens`, `RunFinishes`) is out of the
prover's reach and stays with TLC.

## What is not modelled

Consensus:
- `stage_08` and the SNAPSHOT kinds: unreachable from the composed node.
- `stage_09`'s joint window: never called by the composed node.
- `stage_03.heartbeat`, `observe_append`, `stage_06.check_request`: likewise.
- The text format of an image and its refusals; the checks on malformed
  messages, which no builder produces; key names and values.
- `history.py`'s search and `naive.py`; `sim.audit`.
- `MAX_DRAIN` (10000 deliveries) as a number: `quiet` shows that drains end.

Work queue: a capacity (`QueueFull`: no run sets one); the counters of limit hits
and decisions; stage 5's `ack` and `release`, stage 3's `take_next` and stage 6's
`due`, which the run does not call; stage 8's ageing, which it does not use; the
grammar of tasks and the canonical text of the log.

Failover: stage 3's hints, stages 4 and 6, which the composed node does not use;
the fence on old epochs, whose branch no message of a run reaches; more than one
key; ticks, kept as their parity; the `applied` rows, answers and logs; the drill
and audit of stages 9 and 10; `naive.py`.

Durable execution: the line grammar and its refusals; `stage_04.renew` and
`stage_07.apply_effect`, which the run does not call; the repair and resume of
stage 8 and the report and audit of stage 9; leases of one tick, whose first
heartbeat raises; a plan or run id that changes from call to call.

Everywhere: `course.py` and the empty templates, which are the grader and not the
program.

The rest of the repository is left out because it is another seventy-five
programs. Most are sequential computations (numeric courses, parsers, finance,
mathematics), where a model checker adds little to a unit test. The MQTT broker's
sessions, the dynamo capstone, the concurrent servers and the orchestrated graph
run could be modelled in the same way as the four courses here, each in a family
of modules of its own; this project preferred to check and prove the four in
depth.
