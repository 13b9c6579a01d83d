---------------------------- MODULE ScheduleSweep ----------------------------
(***************************************************************************)
(* The sweep that fires scheduled workflows (run_due_schedules).           *)
(*                                                                         *)
(* A timer sweep (process_timers) is one transaction: it begins, resumes   *)
(* delayed runs, reads the clock and the last firings, and then visits the *)
(* schedules it has chosen, one step each.  A run is dated by the start of *)
(* the transaction that inserts it and is seen by others after its commit. *)
(***************************************************************************)
EXTENDS FiniteSets, SequencesExt, Integers, Sequences, FiniteSetTheorems, TLAPS

(***************************************************************************)
(* When a schedule is due: schedule.py, shared by workflows and agents.    *)
(* Time is a counter of seconds.                                           *)
(***************************************************************************)

CONSTANT Minute    \* the seconds of a minute

Never == -1        \* last_run is None
Invalid == -1      \* a cron expression that croniter refuses

IntervalDue(period, last, now) == last = Never \/ now - last >= period

\* The latest boundary strictly before now; boundaries are the multiples of
\* the cron expression's period.
PrevBoundary(period, now) == ((now - 1) \div period) * period
CronDue(period, last, now) == period # Invalid /\ (last = Never \/ last < PrevBoundary(period, now))

\* The most specific entry wins; a block without a valid one is never due.
IsScheduleDue(block, last, now) ==
  IF block.cron # 0 THEN CronDue(block.cron, last, now)
  ELSE IF block.every_seconds > 0 THEN IntervalDue(block.every_seconds, last, now)
  ELSE block.every_minutes > 0 /\ IntervalDue(block.every_minutes * Minute, last, now)

----------------------------------------------------------------------------

CONSTANTS
  Workflows,   \* the enabled workflows with a published version
  Block,       \* Block[w]: the trigger's schedule block: cron, every_seconds, every_minutes
  Failing,     \* the workflows whose run raises
  Sweeps,      \* the sweeps that may overlap
  Limit,       \* schedule_limit
  MaxTime,     \* bound: the last second
  MaxAborts    \* bound: sweeps that crash

VARIABLES
  clock,
  fired,       \* fired[w]: the committed scheduled runs, [at: transaction start, now: clock read]
  tx,          \* tx[s]: what sweep s has read and not yet committed
  aborts

vars == <<clock, fired, tx, aborts>>

\* The latest start among runs.
Latest(rs) == IF rs = {} THEN Never ELSE CHOOSE t \in {r.at : r \in rs} : \A r \in rs : r.at <= t
LastOf(w) == Latest({fired[w][i] : i \in DOMAIN fired[w]})

Idle == [pc |-> "idle", at |-> 0, now |-> 0, last |-> [w \in Workflows |-> Never], queue |-> <<>>,
         locks |-> {}, wrote |-> {}]

Init ==
  /\ clock = 1
  /\ fired = [w \in Workflows |-> <<>>]
  /\ tx = [s \in Sweeps |-> Idle] /\ aborts = 0

Tick == clock < MaxTime /\ clock' = clock + 1 /\ UNCHANGED <<fired, tx, aborts>>

----------------------------------------------------------------------------
\* The endpoint opens its transaction, and resume_waiting_runs goes first.
Begin(s) ==
  /\ tx[s].pc = "idle"
  /\ tx' = [tx EXCEPT ![s] = [Idle EXCEPT !.pc = "resuming", !.at = clock]]
  /\ UNCHANGED <<clock, fired, aborts>>

\* The schedules by their last firing, those that never fired first.
Orders(q, last) == \A i \in 1 .. Len(q) - 1 : last[q[i]] <= last[q[i + 1]]

Cut(q) == SubSeq(q, 1, IF Len(q) < Limit THEN Len(q) ELSE Limit)

\* run_due_schedules: the last firings and the clock are read once, and the
\* limit is taken before anything is found due.
Scan(s) ==
  /\ tx[s].pc = "resuming"
  /\ \E q \in SetToSeqs(Workflows) :
       LET last == [w \in Workflows |-> LastOf(w)]
       IN /\ Orders(q, last)
          /\ tx' = [tx EXCEPT ![s] = [@ EXCEPT !.pc = "firing", !.now = clock, !.last = last,
                                               !.queue = Cut(q)]]
  /\ UNCHANGED <<clock, fired, aborts>>

\* pg_try_advisory_xact_lock: held until the transaction ends.
Locked(w, s) == \E o \in Sweeps \ {s} : w \in tx[o].locks

\* The last firing read again under the lock: committed runs and its own.
LastSeen(w, s) == IF w \in tx[s].wrote THEN tx[s].at ELSE LastOf(w)

\* Mutant: what was read before the lock is trusted.
ConfirmedUnread(w, s) == TRUE

Confirmed(w, s) == IsScheduleDue(Block[w], LastSeen(w, s), tx[s].now)

\* One schedule: found due, locked, confirmed, and run in a savepoint; a run
\* that raises is rolled back and leaves nothing to date a firing by.
Visit(s) ==
  /\ tx[s].pc = "firing" /\ tx[s].queue # <<>>
  /\ LET w == Head(tx[s].queue)
         due == IsScheduleDue(Block[w], tx[s].last[w], tx[s].now) /\ ~Locked(w, s)
         runs == due /\ Confirmed(w, s) /\ w \notin Failing
     IN tx' = [tx EXCEPT ![s].queue = Tail(@),
                         ![s].locks = IF due THEN @ \cup {w} ELSE @,
                         ![s].wrote = IF runs THEN @ \cup {w} ELSE @]
  /\ UNCHANGED <<clock, fired, aborts>>

Commit(s) ==
  /\ tx[s].pc = "firing" /\ tx[s].queue = <<>>
  /\ fired' = [w \in Workflows |-> IF w \in tx[s].wrote
                                   THEN Append(fired[w], [at |-> tx[s].at, now |-> tx[s].now])
                                   ELSE fired[w]]
  /\ tx' = [tx EXCEPT ![s] = Idle]
  /\ UNCHANGED <<clock, aborts>>

\* The service stops: nothing of the transaction is left.
Abort(s) ==
  /\ tx[s].pc # "idle" /\ aborts < MaxAborts
  /\ aborts' = aborts + 1 /\ tx' = [tx EXCEPT ![s] = Idle]
  /\ UNCHANGED <<clock, fired>>

----------------------------------------------------------------------------
Work(s) == Begin(s) \/ Scan(s) \/ Visit(s) \/ Commit(s)
Next ==
  \/ Tick
  \/ \E s \in Sweeps : Work(s) \/ Abort(s)

\* The beat starts a sweep again and again, and a sweep that runs goes on.
Fairness == \A s \in Sweeps : WF_vars(Work(s))
Spec == Init /\ [][Next]_vars /\ Fairness

----------------------------------------------------------------------------
TypeOK ==
  /\ clock \in 1 .. MaxTime /\ aborts \in 0 .. MaxAborts
  /\ \A w \in Workflows : fired[w] \in Seq([at : 1 .. MaxTime, now : 1 .. MaxTime])
  /\ \A s \in Sweeps : /\ tx[s].pc \in {"idle", "resuming", "firing"}
                       /\ tx[s].wrote \subseteq tx[s].locks

\* No period fires twice: when a run was fired, its schedule was due by every
\* scheduled run committed before it, overlapping sweeps and crashes included
\* ("a run another sweep just committed can't be double-fired").
FiredWhenDue ==
  \A w \in Workflows : \A j \in DOMAIN fired[w] : \A i \in 1 .. j - 1 :
    IsScheduleDue(Block[w], fired[w][i].at, fired[w][j].now)

\* A schedule that is due fires: a fixed limit does not starve it.
Due(w) == IsScheduleDue(Block[w], LastOf(w), clock)
DueFires == \A w \in Workflows \ Failing : Due(w) ~> ~Due(w)

----------------------------------------------------------------------------
(***************************************************************************)
(* The sweep that queues the runs of scheduled agents (scheduler.py): one  *)
(* transaction, which takes no lock before it writes.                      *)
(***************************************************************************)

CONSTANTS
  Agents,      \* Agents[a]: the cron period of the agent's schedule
  AgentSweeps,      \* the sweeps that may overlap
  AgentLimit,       \* the rows that a sweep reads
  AgentMaxTime      \* bound: the last second

VARIABLES
  agent_clock,
  enabled,     \* the agents that are enabled
  last_run_at, \* last_run_at[a] of the agents' schedules
  enqueued,    \* enqueued[a]: the moments of the agent runs queued, in order of commit
  agent_tx,          \* agent_tx[s]: what sweep s has read and not yet committed
  overlapped   \* a schedule was fired by a transaction that had read an older last_run_at

agent_vars == <<agent_clock, enabled, last_run_at, enqueued, agent_tx, overlapped>>

AgentIdle == [pc |-> "idle", now |-> 0, last |-> [a \in DOMAIN Agents |-> Never], queue |-> <<>>, locks |-> {}]

AgentInit ==
  /\ agent_clock = 1 /\ enabled = DOMAIN Agents
  /\ last_run_at = [a \in DOMAIN Agents |-> Never] /\ enqueued = [a \in DOMAIN Agents |-> <<>>]
  /\ agent_tx = [s \in AgentSweeps |-> AgentIdle] /\ overlapped = FALSE

AgentTick == agent_clock < AgentMaxTime /\ agent_clock' = agent_clock + 1 /\ UNCHANGED <<enabled, last_run_at, enqueued, agent_tx, overlapped>>

\* An administrator disables an agent, or enables it again.
Switch(a) ==
  /\ enabled' = IF a \in enabled THEN enabled \ {a} ELSE enabled \cup {a}
  /\ UNCHANGED <<agent_clock, last_run_at, enqueued, agent_tx, overlapped>>

AgentCut(q) == SubSeq(q, 1, IF Len(q) < AgentLimit THEN Len(q) ELSE AgentLimit)
AgentLocked(a, s) == \E o \in AgentSweeps \ {s} : a \in agent_tx[o].locks

\* Read once; which AgentLimit rows come back, and in which order, is the
\* database's choice.
ScanAgents(s) ==
  /\ agent_tx[s].pc = "idle"
  /\ \E q \in SetToSeqs(DOMAIN Agents) :
       agent_tx' = [agent_tx EXCEPT ![s] = [AgentIdle EXCEPT !.pc = "firing", !.now = agent_clock, !.last = last_run_at,
                                            !.queue = AgentCut(q)]]
  /\ UNCHANGED <<agent_clock, enabled, last_run_at, enqueued, overlapped>>

DueAgent(a, s) == CronDue(Agents[a], agent_tx[s].last[a], agent_tx[s].now) /\ a \in enabled

\* A run is queued and last_run_at written: the row is locked until commit,
\* so a second writer waits and then writes as well.
VisitAgent(s) ==
  /\ agent_tx[s].pc = "firing" /\ agent_tx[s].queue # <<>>
  /\ LET a == Head(agent_tx[s].queue)
         due == DueAgent(a, s)
     IN /\ due => ~AgentLocked(a, s)
        /\ agent_tx' = [agent_tx EXCEPT ![s].queue = Tail(@),
                            ![s].locks = IF due THEN @ \cup {a} ELSE @]
  /\ UNCHANGED <<agent_clock, enabled, last_run_at, enqueued, overlapped>>

CommitAgents(s) ==
  /\ agent_tx[s].pc = "firing" /\ agent_tx[s].queue = <<>>
  /\ last_run_at' = [a \in DOMAIN Agents |-> IF a \in agent_tx[s].locks THEN agent_tx[s].now ELSE last_run_at[a]]
  /\ enqueued' = [a \in DOMAIN Agents |-> IF a \in agent_tx[s].locks THEN Append(enqueued[a], agent_tx[s].now) ELSE enqueued[a]]
  /\ overlapped' = (overlapped \/ \E a \in agent_tx[s].locks : last_run_at[a] # agent_tx[s].last[a])
  /\ agent_tx' = [agent_tx EXCEPT ![s] = AgentIdle]
  /\ UNCHANGED <<agent_clock, enabled>>

\* Two agents' sweeps that wait for each other's row: one is rolled back.
Blocked(s) == /\ agent_tx[s].pc = "firing" /\ agent_tx[s].queue # <<>>
              /\ DueAgent(Head(agent_tx[s].queue), s) /\ AgentLocked(Head(agent_tx[s].queue), s)
Deadlock(s) ==
  /\ Blocked(s) /\ \E o \in AgentSweeps \ {s} : Blocked(o)
  /\ agent_tx' = [agent_tx EXCEPT ![s] = AgentIdle]
  /\ UNCHANGED <<agent_clock, enabled, last_run_at, enqueued, overlapped>>

----------------------------------------------------------------------------
AgentNext ==
  \/ AgentTick \/ \E a \in DOMAIN Agents : Switch(a)
  \/ \E s \in AgentSweeps : ScanAgents(s) \/ VisitAgent(s) \/ CommitAgents(s) \/ Deadlock(s)
AgentSpec == AgentInit /\ [][AgentNext]_agent_vars

AgentTypeOK ==
  /\ agent_clock \in 1 .. AgentMaxTime /\ overlapped \in BOOLEAN /\ enabled \subseteq DOMAIN Agents
  /\ \A a \in DOMAIN Agents : last_run_at[a] \in {Never} \cup 1 .. AgentMaxTime
  /\ \A s \in AgentSweeps : agent_tx[s].pc \in {"idle", "firing"} /\ agent_tx[s].locks \subseteq DOMAIN Agents

\* An agent's schedule is queued twice for one boundary only by sweeps that
\* overlapped.
OnlyOverlapDoubles ==
  ~overlapped => \A a \in DOMAIN Agents : \A j \in 2 .. Len(enqueued[a]) :
                   enqueued[a][j - 1] < PrevBoundary(Agents[a], enqueued[a][j])
----------------------------------------------------------------------------
(***************************************************************************)
(* Proofs about the workflows' sweeps, for any schedules and any overlap.  *)
(***************************************************************************)
Setting ==
  /\ IsFiniteSet(Workflows) /\ Limit \in Nat /\ MaxTime \in Nat \ {0} /\ Minute \in Nat
  /\ \A w \in Workflows :
       Block[w] \in [cron : Nat \cup {Invalid}, every_seconds : Int, every_minutes : Int]

Firing == [at : 1 .. MaxTime, now : 1 .. MaxTime]
Transaction ==
  [pc : {"idle", "resuming", "firing"}, at : 0 .. MaxTime, now : 0 .. MaxTime,
   last : [Workflows -> Int], queue : Seq(Workflows), locks : SUBSET Workflows, wrote : SUBSET Workflows]

Types ==
  /\ clock \in 1 .. MaxTime
  /\ fired \in [Workflows -> Seq(Firing)]
  /\ tx \in [Sweeps -> Transaction]

\* One of the committed runs is the latest, so that Latest has a value.
OneIsLatest ==
  \A w \in Workflows : fired[w] # <<>> =>
    \E k \in DOMAIN fired[w] : \A i \in DOMAIN fired[w] : fired[w][i].at <= fired[w][k].at

\* pg_try_advisory_xact_lock: two sweeps never hold the lock of one schedule.
LocksApart == \A s, o \in Sweeps : s # o => tx[s].locks \cap tx[o].locks = {}

\* A sweep has nothing before it fires; what it wrote it has locked; and what
\* it wrote was due by everything committed, which stays so under its lock.
WroteWhenDue ==
  \A s \in Sweeps :
    /\ tx[s].wrote \subseteq tx[s].locks
    /\ tx[s].pc # "firing" => tx[s].locks = {}
    /\ tx[s].pc # "idle" => tx[s].at # 0
    /\ tx[s].pc = "firing" => tx[s].now # 0
    /\ \A w \in tx[s].wrote : \A i \in DOMAIN fired[w] :
         IsScheduleDue(Block[w], fired[w][i].at, tx[s].now)

FInv == Types /\ OneIsLatest /\ LocksApart /\ WroteWhenDue /\ FiredWhenDue

\* schedule.py: a schedule that is due by a firing is due by an earlier one.
LEMMA DueByEarlier ==
  ASSUME Setting, NEW w \in Workflows, NEW now \in Nat, NEW last \in Nat, NEW earlier \in Nat,
         earlier <= last, IsScheduleDue(Block[w], last, now)
  PROVE  IsScheduleDue(Block[w], earlier, now)
<1> DEFINE b == Block[w]
<1>1. b.cron \in Nat \cup {-1} /\ b.every_seconds \in Int /\ b.every_minutes \in Int /\ Minute \in Nat
  BY DEF Setting, Invalid
<1> HIDE DEF b
<1>2. ASSUME NEW p \in Int, IntervalDue(p, last, now) PROVE IntervalDue(p, earlier, now)
  BY <1>2 DEF IntervalDue, Never
<1>3. ASSUME NEW p \in Nat \ {0} PROVE PrevBoundary(p, now) \in Int
  BY <1>3 DEF PrevBoundary
<1>4. ASSUME NEW p \in (Nat \ {0}) \cup {-1}, CronDue(p, last, now) PROVE CronDue(p, earlier, now)
  <2>1. p # -1 /\ last < PrevBoundary(p, now)
    BY <1>4 DEF CronDue, Never, Invalid
  <2>2. QED
    BY <2>1, <1>3 DEF CronDue, Invalid
<1>5. b.every_minutes * Minute \in Int
  BY <1>1
<1>6. IsScheduleDue(b, last, now) => IsScheduleDue(b, earlier, now)
  BY <1>1, <1>2, <1>4, <1>5 DEF IsScheduleDue
<1>7. QED
  BY <1>6 DEF b

\* What Latest finds among the committed runs of a schedule.
LEMMA LatestFound ==
  ASSUME Setting, Types, OneIsLatest, NEW w \in Workflows
  PROVE  /\ LastOf(w) \in Int
         /\ fired[w] # <<>> => /\ LastOf(w) \in Nat
                               /\ \A i \in DOMAIN fired[w] : fired[w][i].at \in Nat /\ fired[w][i].at <= LastOf(w)
<1> DEFINE rs == {fired[w][i] : i \in DOMAIN fired[w]}
<1>1. fired[w] \in Seq(Firing)
  BY DEF Types
<1>2. ASSUME NEW i \in DOMAIN fired[w] PROVE fired[w][i].at \in Nat
  <2>1. fired[w][i] \in Firing
    BY <1>1
  <2>2. QED
    BY <2>1 DEF Firing, Setting
<1>3. CASE fired[w] = <<>>
  BY <1>3 DEF LastOf, Latest, Never
<1>4. CASE fired[w] # <<>>
  <2>1. PICK k \in DOMAIN fired[w] : \A i \in DOMAIN fired[w] : fired[w][i].at <= fired[w][k].at
    BY <1>4 DEF OneIsLatest
  <2>2. \E t \in {r.at : r \in rs} : \A r \in rs : r.at <= t
    BY <2>1
  <2>3. rs # {}
    BY <2>1
  <2>4. LastOf(w) = CHOOSE t \in {r.at : r \in rs} : \A r \in rs : r.at <= t
    BY <2>3 DEF LastOf, Latest
  <2>5. LastOf(w) \in {r.at : r \in rs} /\ \A r \in rs : r.at <= LastOf(w)
    BY <2>2, <2>4
  <2>6. QED
    BY <2>5, <1>2
<1>5. QED
  BY <1>3, <1>4

\* A sweep that confirms a schedule under its lock confirms it against every
\* committed run.
LEMMA ConfirmedByAll ==
  ASSUME Setting, Types, OneIsLatest, NEW s \in Sweeps, NEW w \in Workflows,
         w \notin tx[s].wrote, Confirmed(w, s), NEW i \in DOMAIN fired[w]
  PROVE  IsScheduleDue(Block[w], fired[w][i].at, tx[s].now)
<1>1. fired[w] # <<>> /\ tx[s].now \in Nat
  BY DEF Types, Transaction
<1>2. LastOf(w) \in Nat /\ fired[w][i].at \in Nat /\ fired[w][i].at <= LastOf(w)
  BY <1>1, LatestFound
<1>3. IsScheduleDue(Block[w], LastOf(w), tx[s].now)
  BY DEF Confirmed, LastSeen
<1>4. QED
  BY <1>1, <1>2, <1>3, DueByEarlier

\* What a transaction must be to keep the invariant, beside the others'.
Sound(s, r) ==
  /\ r \in Transaction /\ r.wrote \subseteq r.locks
  /\ \A o \in Sweeps \ {s} : r.locks \cap tx[o].locks = {}
  /\ r.pc # "firing" => r.locks = {}
  /\ r.pc # "idle" => r.at # 0
  /\ r.pc = "firing" => r.now # 0
  /\ \A w \in r.wrote : \A i \in DOMAIN fired[w] : IsScheduleDue(Block[w], fired[w][i].at, r.now)

\* A step that changes one transaction and commits nothing.
LEMMA TxChange ==
  ASSUME FInv, NEW s \in Sweeps, NEW r, Sound(s, r), tx' = [tx EXCEPT ![s] = r], fired' = fired, clock' = clock
  PROVE  FInv'
<1>1. Types'
  BY DEF FInv, Types, Sound
<1>2. \A o \in Sweeps : tx'[o] = IF o = s THEN r ELSE tx[o]
  BY DEF FInv, Types
<1>3. LocksApart'
  BY <1>2 DEF FInv, LocksApart, Sound
<1>4. WroteWhenDue'
  BY <1>2 DEF FInv, WroteWhenDue, Sound
<1>5. OneIsLatest' /\ FiredWhenDue'
  BY DEF FInv, OneIsLatest, FiredWhenDue
<1>6. QED
  BY <1>1, <1>3, <1>4, <1>5 DEF FInv

\* A sweep that has nothing disturbs nobody.
LEMMA IdleSound ==
  ASSUME FInv, Setting, NEW s \in Sweeps
  PROVE  Sound(s, Idle) /\ Sound(s, [Idle EXCEPT !.pc = "resuming", !.at = clock])
<1>1. Idle \in Transaction /\ Idle.wrote = {} /\ Idle.locks = {} /\ Idle.pc = "idle"
  BY DEF Idle, Transaction, Never, Setting
<1>2. clock \in 1 .. MaxTime /\ MaxTime \in Nat
  BY DEF FInv, Types, Setting
<1>a. clock \in 0 .. MaxTime
  BY <1>2
<1> DEFINE r == [Idle EXCEPT !.pc = "resuming", !.at = clock]
<1>3. r \in Transaction /\ r.wrote = {} /\ r.locks = {} /\ r.pc = "resuming" /\ r.at = clock
  BY <1>1, <1>a DEF Transaction
<1> HIDE DEF r
<1>4. Sound(s, Idle)
  BY <1>1 DEF Sound
<1>5. Sound(s, r)
  BY <1>2, <1>3 DEF Sound
<1>6. QED
  BY <1>4, <1>5 DEF r

\* run_due_schedules reads the last firings and takes its batch.
LEMMA ScanSound ==
  ASSUME FInv, Setting, NEW s \in Sweeps, tx[s].pc = "resuming", NEW q \in SetToSeqs(Workflows)
  PROVE  Sound(s, [tx[s] EXCEPT !.pc = "firing", !.now = clock, !.last = [w \in Workflows |-> LastOf(w)],
                                !.queue = Cut(q)])
<1> DEFINE last == [w \in Workflows |-> LastOf(w)]
<1>1. last \in [Workflows -> Int]
  BY LatestFound DEF FInv
<1>2. q \in Seq(Workflows)
  <2>1. Cardinality(Workflows) \in Nat
    BY FS_CardinalityType DEF Setting
  <2>2. QED
    BY <2>1 DEF SetToSeqs
<1>3. Cut(q) \in Seq(Workflows)
  BY <1>2 DEF Cut, Setting
<1>4. clock \in 1 .. MaxTime /\ MaxTime \in Nat /\ tx[s] \in Transaction
  BY DEF FInv, Types, Setting
<1>5. tx[s].locks = {} /\ tx[s].wrote = {} /\ tx[s].at # 0
  BY DEF FInv, WroteWhenDue
<1>a. clock \in 0 .. MaxTime
  BY <1>4
<1> DEFINE cut == Cut(q)
<1> HIDE DEF last, cut
<1> DEFINE r == [tx[s] EXCEPT !.pc = "firing", !.now = clock, !.last = last, !.queue = cut]
<1>6. /\ r \in Transaction /\ r.wrote = tx[s].wrote /\ r.locks = tx[s].locks /\ r.pc = "firing" /\ r.at = tx[s].at
      /\ r.now = clock
  <2>1. cut \in Seq(Workflows)
    BY <1>3 DEF cut
  <2>2. QED
    BY <1>1, <1>4, <1>a, <2>1 DEF Transaction
<1> HIDE DEF r
<1>7. Sound(s, r)
  BY <1>4, <1>5, <1>6 DEF Sound
<1>8. QED
  BY <1>7 DEF r, last, cut

\* One schedule of the batch.
LEMMA VisitSound ==
  ASSUME FInv, Setting, NEW s \in Sweeps, Visit(s)
  PROVE  FInv'
<1> DEFINE w == Head(tx[s].queue)
           due == IsScheduleDue(Block[w], tx[s].last[w], tx[s].now) /\ ~Locked(w, s)
           runs == due /\ Confirmed(w, s) /\ w \notin Failing
           locks == IF due THEN tx[s].locks \cup {w} ELSE tx[s].locks
           wrote == IF runs THEN tx[s].wrote \cup {w} ELSE tx[s].wrote
           r == [tx[s] EXCEPT !.queue = Tail(tx[s].queue), !.locks = locks, !.wrote = wrote]
<1>1. tx[s] \in Transaction /\ tx[s].pc = "firing" /\ tx[s].queue # <<>>
  BY DEF FInv, Types, Visit
<1>2. tx[s].queue \in Seq(Workflows) /\ tx[s].locks \subseteq Workflows /\ tx[s].wrote \subseteq Workflows
  BY <1>1 DEF Transaction
<1>3. w \in Workflows /\ Tail(tx[s].queue) \in Seq(Workflows)
  BY <1>1, <1>2
<1>4. tx' = [tx EXCEPT ![s] = r] /\ fired' = fired /\ clock' = clock
  BY DEF Visit
<1>5. runs => due
  OBVIOUS
<1>6. due => ~Locked(w, s)
  OBVIOUS
<1>7. ASSUME runs, w \notin tx[s].wrote, NEW i \in DOMAIN fired[w]
      PROVE  IsScheduleDue(Block[w], fired[w][i].at, tx[s].now)
  BY <1>3, <1>7, ConfirmedByAll DEF FInv
<1> HIDE DEF w, due, runs
<1>8. locks \in SUBSET Workflows /\ wrote \in SUBSET Workflows
  BY <1>2, <1>3
<1> HIDE DEF locks, wrote
<1>9. /\ r \in Transaction /\ r.pc = "firing" /\ r.at = tx[s].at /\ r.now = tx[s].now /\ r.locks = locks
      /\ r.wrote = wrote
  BY <1>1, <1>3, <1>8 DEF Transaction
<1> HIDE DEF r
<1>10. wrote \subseteq locks
  BY <1>5 DEF wrote, locks, FInv, WroteWhenDue
<1>11. \A o \in Sweeps \ {s} : locks \cap tx[o].locks = {}
  BY <1>6 DEF locks, Locked, FInv, LocksApart
<1>12. \A v \in wrote : \A i \in DOMAIN fired[v] : IsScheduleDue(Block[v], fired[v][i].at, tx[s].now)
  BY <1>7 DEF wrote, FInv, WroteWhenDue
<1>13. Sound(s, r)
  BY <1>1, <1>9, <1>10, <1>11, <1>12 DEF Sound, FInv, WroteWhenDue
<1>14. QED
  BY <1>4, <1>13, TxChange

\* The commit of a sweep: its runs join the committed ones.
LEMMA CommitSound ==
  ASSUME FInv, Setting, NEW s \in Sweeps, Commit(s)
  PROVE  FInv'
<1> DEFINE new == [at |-> tx[s].at, now |-> tx[s].now]
<1>1. tx[s] \in Transaction /\ tx[s].pc = "firing"
  BY DEF FInv, Types, Commit
<1>2. new \in Firing /\ new.at = tx[s].at /\ new.now = tx[s].now
  <2>1. tx[s].at \in 1 .. MaxTime /\ tx[s].now \in 1 .. MaxTime
    BY <1>1 DEF Transaction, FInv, WroteWhenDue, Setting
  <2>2. QED
    BY <2>1 DEF Firing
<1>3. /\ fired' = [w \in Workflows |-> IF w \in tx[s].wrote THEN Append(fired[w], new) ELSE fired[w]]
      /\ tx' = [tx EXCEPT ![s] = Idle] /\ clock' = clock
  BY DEF Commit
<1> HIDE DEF new
<1>4. Idle \in Transaction /\ Idle.wrote = {} /\ Idle.locks = {} /\ Idle.pc = "idle"
  BY DEF Idle, Transaction, Never, Setting
<1>5. fired' \in [Workflows -> Seq(Firing)]
  BY <1>2, <1>3 DEF FInv, Types
<1>6. Types'
  BY <1>3, <1>4, <1>5 DEF FInv, Types
<1>7. \A o \in Sweeps : tx'[o] = IF o = s THEN Idle ELSE tx[o]
  BY <1>3 DEF FInv, Types
<1>8. LocksApart'
  BY <1>4, <1>7 DEF FInv, LocksApart
<1>9. ASSUME NEW w \in Workflows, w \notin tx[s].wrote PROVE fired'[w] = fired[w]
  BY <1>3, <1>9
<1>10. WroteWhenDue'
  <2>1. ASSUME NEW o \in Sweeps, o # s, NEW w \in tx[o].wrote PROVE w \in Workflows /\ fired'[w] = fired[w]
    <3>1. w \in Workflows
      BY <2>1 DEF FInv, Types, Transaction
    <3>2. w \notin tx[s].wrote
      BY <2>1 DEF FInv, LocksApart, WroteWhenDue
    <3>3. QED
      BY <3>1, <3>2, <1>9
  <2>2. QED
    BY <2>1, <1>4, <1>7 DEF FInv, WroteWhenDue
<1>11. ASSUME NEW w \in Workflows, w \in tx[s].wrote
       PROVE  /\ fired[w] \in Seq(Firing) /\ DOMAIN fired[w] = 1 .. Len(fired[w]) /\ Len(fired[w]) \in Nat
              /\ DOMAIN fired'[w] = 1 .. Len(fired[w]) + 1 /\ fired'[w][Len(fired[w]) + 1] = new
              /\ \A i \in DOMAIN fired[w] : fired'[w][i] = fired[w][i]
  <2>1. fired[w] \in Seq(Firing) /\ fired'[w] = Append(fired[w], new)
    BY <1>3, <1>11 DEF FInv, Types
  <2>2. QED
    BY <2>1, <1>2
<1>12. OneIsLatest'
  <2> SUFFICES ASSUME NEW w \in Workflows, fired'[w] # <<>>
               PROVE  \E k \in DOMAIN fired'[w] : \A i \in DOMAIN fired'[w] : fired'[w][i].at <= fired'[w][k].at
    BY DEF OneIsLatest
  <2>1. CASE w \notin tx[s].wrote
    BY <2>1, <1>9 DEF FInv, OneIsLatest
  <2>2. CASE w \in tx[s].wrote
    <3> DEFINE n == Len(fired[w]) + 1
    <3>1. \A i \in DOMAIN fired'[w] : fired'[w][i].at \in Nat
      <4>1. \A i \in DOMAIN fired'[w] : fired'[w][i] \in Firing
        BY <1>5
      <4>2. QED
        BY <4>1 DEF Firing, Setting
    <3>2. CASE fired[w] = <<>>
      BY <2>2, <3>1, <3>2, <1>11
    <3>3. CASE fired[w] # <<>>
      <4>1. PICK k \in DOMAIN fired[w] : \A i \in DOMAIN fired[w] : fired[w][i].at <= fired[w][k].at
        BY <3>3 DEF FInv, OneIsLatest
      <4>2. n \in DOMAIN fired'[w] /\ k \in DOMAIN fired'[w] /\ \A i \in DOMAIN fired'[w] : i = n \/ i \in DOMAIN fired[w]
        BY <2>2, <1>11
      <4>3. \A i \in DOMAIN fired[w] : i \in DOMAIN fired'[w] /\ fired'[w][i] = fired[w][i]
        BY <2>2, <1>11
      <4> HIDE DEF n
      <4>4. CASE fired'[w][n].at <= fired'[w][k].at
        BY <4>1, <4>2, <4>3, <4>4
      <4>5. CASE fired'[w][k].at <= fired'[w][n].at
        <5>1. ASSUME NEW i \in DOMAIN fired'[w] PROVE fired'[w][i].at <= fired'[w][n].at
          <6>1. CASE i = n
            BY <6>1, <3>1
          <6>2. CASE i \in DOMAIN fired[w]
            BY <6>2, <4>1, <4>2, <4>3, <4>5, <3>1
          <6>3. QED
            BY <6>1, <6>2, <4>2
        <5>2. QED
          BY <5>1, <4>2
      <4>6. QED
        BY <4>2, <4>4, <4>5, <3>1
    <3>4. QED
      BY <3>2, <3>3
  <2>3. QED
    BY <2>1, <2>2
<1>13. FiredWhenDue'
  <2> SUFFICES ASSUME NEW w \in Workflows, NEW j \in DOMAIN fired'[w], NEW i \in 1 .. j - 1
               PROVE  IsScheduleDue(Block[w], fired'[w][i].at, fired'[w][j].now)
    BY DEF FiredWhenDue
  <2>1. CASE w \notin tx[s].wrote
    BY <2>1, <1>9 DEF FInv, FiredWhenDue
  <2>2. CASE w \in tx[s].wrote /\ j \in DOMAIN fired[w]
    <3>1. i \in DOMAIN fired[w] /\ fired'[w][i] = fired[w][i] /\ fired'[w][j] = fired[w][j]
      BY <2>2, <1>11
    <3>2. QED
      BY <2>2, <3>1 DEF FInv, FiredWhenDue
  <2>3. CASE w \in tx[s].wrote /\ j \notin DOMAIN fired[w]
    <3>1. i \in DOMAIN fired[w] /\ fired'[w][i] = fired[w][i] /\ fired'[w][j] = new
      BY <2>3, <1>11
    <3>2. QED
      BY <2>3, <3>1, <1>2 DEF FInv, WroteWhenDue
  <2>4. QED
    BY <2>1, <2>2, <2>3
<1>14. QED
  BY <1>6, <1>8, <1>10, <1>12, <1>13 DEF FInv

\* No period of a schedule fires twice, for any schedules and any number of
\* sweeps that overlap and crash: run_due_schedules looks
\* again under the advisory lock.
THEOREM FiresOncePerPeriod ==
  ASSUME Setting PROVE Spec => []FiredWhenDue
<1>1. ASSUME Init PROVE FInv
  <2>1. Idle \in Transaction /\ Idle.wrote = {} /\ Idle.locks = {} /\ Idle.pc = "idle"
    BY DEF Idle, Transaction, Never, Setting
  <2>2. \A w \in Workflows : fired[w] = <<>>
    BY <1>1 DEF Init
  <2>3. Types
    BY <1>1, <2>1 DEF Init, Types, Setting
  <2>4. OneIsLatest /\ FiredWhenDue
    BY <2>2 DEF OneIsLatest, FiredWhenDue
  <2>5. LocksApart /\ WroteWhenDue
    BY <1>1, <2>1 DEF Init, LocksApart, WroteWhenDue
  <2>6. QED
    BY <2>3, <2>4, <2>5 DEF FInv
<1>2. ASSUME FInv, [Next]_vars PROVE FInv'
  <2>1. CASE UNCHANGED vars
    BY <1>2, <2>1 DEF vars, FInv, Types, OneIsLatest, LocksApart, WroteWhenDue, FiredWhenDue
  <2>2. CASE Tick
    BY <1>2, <2>2 DEF Tick, FInv, Types, OneIsLatest, LocksApart, WroteWhenDue, FiredWhenDue, Setting
  <2>3. ASSUME NEW s \in Sweeps, Begin(s) PROVE FInv'
    BY <1>2, <2>3, IdleSound, TxChange DEF Begin
  <2>4. ASSUME NEW s \in Sweeps, Scan(s) PROVE FInv'
    <3>1. PICK q \in SetToSeqs(Workflows) :
            tx' = [tx EXCEPT ![s] = [tx[s] EXCEPT !.pc = "firing", !.now = clock,
                                     !.last = [w \in Workflows |-> LastOf(w)], !.queue = Cut(q)]]
      BY <2>4 DEF Scan
    <3>2. tx[s].pc = "resuming" /\ fired' = fired /\ clock' = clock
      BY <2>4 DEF Scan
    <3> DEFINE r == [tx[s] EXCEPT !.pc = "firing", !.now = clock,
                                  !.last = [w \in Workflows |-> LastOf(w)], !.queue = Cut(q)]
    <3>3. Sound(s, r)
      BY <1>2, <3>2, ScanSound
    <3> HIDE DEF r
    <3>4. tx' = [tx EXCEPT ![s] = r]
      BY <3>1 DEF r
    <3>5. QED
      BY <1>2, <3>2, <3>3, <3>4, TxChange
  <2>5. ASSUME NEW s \in Sweeps, Visit(s) PROVE FInv'
    BY <1>2, <2>5, VisitSound
  <2>6. ASSUME NEW s \in Sweeps, Commit(s) PROVE FInv'
    BY <1>2, <2>6, CommitSound
  <2>7. ASSUME NEW s \in Sweeps, Abort(s) PROVE FInv'
    BY <1>2, <2>7, IdleSound, TxChange DEF Abort
  <2>8. QED
    BY <1>2, <2>1, <2>2, <2>3, <2>4, <2>5, <2>6, <2>7 DEF Next, Work
<1>3. FInv => FiredWhenDue
  BY DEF FInv
<1>4. QED
  BY <1>1, <1>2, <1>3, PTL DEF Spec

----------------------------------------------------------------------------
(***************************************************************************)
(* Proofs about the agents' sweeps.  A transaction may hold schedules that *)
(* another has fired since they were read; overlapped tells when it        *)
(* commits.                                                                *)
(***************************************************************************)
AgentSetting ==
  /\ IsFiniteSet(DOMAIN Agents) /\ AgentLimit \in Nat /\ AgentMaxTime \in Nat \ {0}
  /\ \A a \in DOMAIN Agents : Agents[a] \in (Nat \ {0}) \cup {Invalid}

AgentIds == DOMAIN Agents
Seconds == 1 .. AgentMaxTime
Moment == {Never} \cup Seconds
AgentTransaction ==
  [pc : {"idle", "firing"}, now : 0 .. AgentMaxTime, last : [DOMAIN Agents -> Moment],
   queue : Seq(AgentIds), locks : SUBSET DOMAIN Agents]

AgentTypes ==
  /\ agent_clock \in 1 .. AgentMaxTime /\ overlapped \in BOOLEAN
  /\ last_run_at \in [DOMAIN Agents -> Moment]
  /\ enqueued \in [DOMAIN Agents -> Seq(Seconds)]
  /\ agent_tx \in [AgentSweeps -> AgentTransaction]

\* last_run_at is the last moment that was queued.
LastIsLast ==
  \A a \in DOMAIN Agents :
    last_run_at[a] = IF enqueued[a] = <<>> THEN Never ELSE enqueued[a][Len(enqueued[a])]

\* What a transaction has fired was due by what it had read.
FiredWhenRead ==
  \A s \in AgentSweeps :
    /\ agent_tx[s].pc = "firing" => agent_tx[s].now # 0
    /\ \A a \in agent_tx[s].locks : CronDue(Agents[a], agent_tx[s].last[a], agent_tx[s].now)

AInv == AgentTypes /\ LastIsLast /\ FiredWhenRead /\ OnlyOverlapDoubles

AgentIdleIs ==
  /\ AgentIdle \in AgentTransaction
  /\ AgentIdle.locks = {} /\ AgentIdle.pc = "idle"

LEMMA AgentIdleHas ==
  ASSUME AgentSetting PROVE AgentIdleIs
  BY DEF AgentIdleIs, AgentIdle, AgentTransaction, Moment, AgentSetting

\* A step that changes one transaction and commits nothing.
LEMMA AgentTxChange ==
  ASSUME AInv, NEW s \in AgentSweeps, NEW r \in AgentTransaction,
         r.pc = "firing" => r.now # 0, \A a \in r.locks : CronDue(Agents[a], r.last[a], r.now),
         agent_tx' = [agent_tx EXCEPT ![s] = r],
         UNCHANGED <<agent_clock, last_run_at, enqueued, overlapped>>
  PROVE  AInv'
<1>1. AgentTypes'
  BY DEF AInv, AgentTypes
<1>2. \A o \in AgentSweeps : agent_tx'[o] = IF o = s THEN r ELSE agent_tx[o]
  BY DEF AInv, AgentTypes
<1>3. FiredWhenRead'
  BY <1>2 DEF AInv, FiredWhenRead
<1>4. LastIsLast' /\ OnlyOverlapDoubles'
  BY DEF AInv, LastIsLast, OnlyOverlapDoubles
<1>5. QED
  BY <1>1, <1>3, <1>4 DEF AInv

\* The rows are read, in any order.
LEMMA ScanAgentsSound ==
  ASSUME AInv, AgentSetting, NEW s \in AgentSweeps, ScanAgents(s)
  PROVE  AInv'
<1>1. PICK q \in SetToSeqs(DOMAIN Agents) :
        agent_tx' = [agent_tx EXCEPT ![s] = [AgentIdle EXCEPT !.pc = "firing", !.now = agent_clock,
                                             !.last = last_run_at, !.queue = AgentCut(q)]]
  BY DEF ScanAgents
<1>2. q \in Seq(AgentIds)
  <2>1. Cardinality(DOMAIN Agents) \in Nat
    BY FS_CardinalityType DEF AgentSetting
  <2>2. QED
    BY <2>1 DEF SetToSeqs, AgentIds
<1> DEFINE cut == AgentCut(q)
           r == [AgentIdle EXCEPT !.pc = "firing", !.now = agent_clock, !.last = last_run_at, !.queue = cut]
<1>3. cut \in Seq(AgentIds)
  BY <1>2 DEF AgentCut, AgentSetting
<1>4. agent_clock \in 0 .. AgentMaxTime /\ agent_clock # 0 /\ last_run_at \in [DOMAIN Agents -> Moment]
  BY DEF AInv, AgentTypes, AgentSetting
<1> HIDE DEF cut
<1>5. AgentIdle \in AgentTransaction /\ AgentIdle.locks = {}
  BY AgentIdleHas DEF AgentIdleIs
<1>6. r \in AgentTransaction /\ r.pc = "firing" /\ r.now = agent_clock /\ r.locks = {}
  BY <1>3, <1>4, <1>5 DEF AgentTransaction
<1>7. agent_tx' = [agent_tx EXCEPT ![s] = r]
  BY <1>1 DEF cut
<1> HIDE DEF r
<1>8. UNCHANGED <<agent_clock, last_run_at, enqueued, overlapped>>
  BY DEF ScanAgents
<1>9. QED
  BY <1>4, <1>6, <1>7, <1>8, AgentTxChange

\* One schedule: queued and locked when it is due.
LEMMA VisitAgentSound ==
  ASSUME AInv, AgentSetting, NEW s \in AgentSweeps, VisitAgent(s)
  PROVE  AInv'
<1> DEFINE a == Head(agent_tx[s].queue)
           due == DueAgent(a, s)
           locks == IF due THEN agent_tx[s].locks \cup {a} ELSE agent_tx[s].locks
           r == [agent_tx[s] EXCEPT !.queue = Tail(agent_tx[s].queue), !.locks = locks]
<1>1. agent_tx[s] \in AgentTransaction /\ agent_tx[s].pc = "firing" /\ agent_tx[s].queue # <<>>
  BY DEF AInv, AgentTypes, VisitAgent
<1>2. agent_tx[s].queue \in Seq(AgentIds) /\ agent_tx[s].locks \subseteq DOMAIN Agents
  BY <1>1 DEF AgentTransaction
<1>3. a \in AgentIds /\ Tail(agent_tx[s].queue) \in Seq(AgentIds)
  BY <1>1, <1>2
<1>4. agent_tx' = [agent_tx EXCEPT ![s] = r] /\ UNCHANGED <<agent_clock, last_run_at, enqueued, overlapped>>
  BY DEF VisitAgent
<1>5. due => CronDue(Agents[a], agent_tx[s].last[a], agent_tx[s].now)
  BY DEF DueAgent
<1> HIDE DEF a, due
<1>6. locks \in SUBSET DOMAIN Agents
  BY <1>2, <1>3 DEF AgentIds
<1>7. \A b \in locks : CronDue(Agents[b], agent_tx[s].last[b], agent_tx[s].now)
  BY <1>5 DEF AInv, FiredWhenRead
<1> HIDE DEF locks
<1>8. /\ r \in AgentTransaction /\ r.pc = "firing" /\ r.now = agent_tx[s].now /\ r.locks = locks
      /\ r.last = agent_tx[s].last
  BY <1>1, <1>3, <1>6 DEF AgentTransaction
<1> HIDE DEF r
<1>9. r.now # 0
  BY <1>1, <1>8 DEF AInv, FiredWhenRead
<1>10. QED
  BY <1>4, <1>7, <1>8, <1>9, AgentTxChange

\* The commit: what was fired is queued, and dates the schedule.
LEMMA CommitAgentsSound ==
  ASSUME AInv, AgentSetting, NEW s \in AgentSweeps, CommitAgents(s)
  PROVE  AInv'
<1> DEFINE now == agent_tx[s].now
           mine == agent_tx[s].locks
<1>1. agent_tx[s] \in AgentTransaction /\ now \in Seconds /\ mine \subseteq DOMAIN Agents
  <2>1. agent_tx[s] \in AgentTransaction /\ agent_tx[s].pc = "firing"
    BY DEF AInv, AgentTypes, CommitAgents
  <2>2. now # 0
    BY <2>1 DEF AInv, FiredWhenRead
  <2>3. now \in 0 .. AgentMaxTime /\ mine \subseteq DOMAIN Agents
    BY <2>1 DEF AgentTransaction
  <2>4. QED
    BY <2>1, <2>2, <2>3 DEF AgentSetting, Seconds
<1>2. /\ last_run_at' = [a \in DOMAIN Agents |-> IF a \in mine THEN now ELSE last_run_at[a]]
      /\ enqueued' = [a \in DOMAIN Agents |-> IF a \in mine THEN Append(enqueued[a], now) ELSE enqueued[a]]
      /\ overlapped' = (overlapped \/ \E a \in mine : last_run_at[a] # agent_tx[s].last[a])
      /\ agent_tx' = [agent_tx EXCEPT ![s] = AgentIdle] /\ agent_clock' = agent_clock
  BY DEF CommitAgents
<1>3. \A a \in mine : CronDue(Agents[a], agent_tx[s].last[a], now)
  BY DEF AInv, FiredWhenRead
<1> HIDE DEF now, mine
<1>4. AgentIdle \in AgentTransaction /\ AgentIdle.locks = {} /\ AgentIdle.pc = "idle"
  BY AgentIdleHas DEF AgentIdleIs
<1>5. ASSUME NEW a \in DOMAIN Agents
      PROVE  /\ enqueued[a] \in Seq(Seconds) /\ last_run_at[a] \in Moment
             /\ a \notin mine => enqueued'[a] = enqueued[a] /\ last_run_at'[a] = last_run_at[a]
             /\ a \in mine => enqueued'[a] = Append(enqueued[a], now) /\ last_run_at'[a] = now
  BY <1>2 DEF AInv, AgentTypes
<1>6. last_run_at' \in [DOMAIN Agents -> Moment]
  BY <1>1, <1>2 DEF AInv, AgentTypes, Moment
<1>7. enqueued' \in [DOMAIN Agents -> Seq(Seconds)]
  <2>1. ASSUME NEW a \in DOMAIN Agents PROVE enqueued'[a] \in Seq(Seconds)
    <3>1. enqueued[a] \in Seq(Seconds)
      BY <1>5
    <3>2. enqueued'[a] = enqueued[a] \/ enqueued'[a] = Append(enqueued[a], now)
      BY <1>5
    <3>3. now \in Seconds
      BY <1>1
    <3>4. QED
      BY <3>1, <3>2, <3>3
  <2>2. QED
    BY <2>1, <1>2
<1>8. AgentTypes'
  BY <1>2, <1>4, <1>6, <1>7 DEF AInv, AgentTypes
<1>9. ASSUME NEW a \in mine
      PROVE  /\ Len(enqueued[a]) \in Nat /\ enqueued'[a] # <<>> /\ Len(enqueued'[a]) = Len(enqueued[a]) + 1
             /\ enqueued'[a][Len(enqueued[a]) + 1] = now
             /\ \A j \in 1 .. Len(enqueued[a]) : enqueued'[a][j] = enqueued[a][j]
  <2>1. a \in DOMAIN Agents
    BY <1>1 DEF mine
  <2>2. enqueued[a] \in Seq(Seconds) /\ enqueued'[a] = Append(enqueued[a], now)
    BY <2>1, <1>5
  <2>3. QED
    BY <2>2, <1>1
<1>10. LastIsLast'
  BY <1>5, <1>9 DEF AInv, LastIsLast
<1>11. FiredWhenRead'
  BY <1>2, <1>4 DEF AInv, AgentTypes, FiredWhenRead
<1>12. OnlyOverlapDoubles'
  <2> SUFFICES ASSUME ~overlapped', NEW a \in DOMAIN Agents, NEW j \in 2 .. Len(enqueued'[a])
               PROVE  enqueued'[a][j - 1] < PrevBoundary(Agents[a], enqueued'[a][j])
    BY DEF OnlyOverlapDoubles
  <2>1. ~overlapped /\ \A b \in mine : last_run_at[b] = agent_tx[s].last[b]
    BY <1>2 DEF AInv, AgentTypes
  <2>2. CASE a \notin mine
    BY <2>1, <2>2, <1>5 DEF AInv, OnlyOverlapDoubles
  <2>3. CASE a \in mine /\ j \in 2 .. Len(enqueued[a])
    <3>1. enqueued'[a][j - 1] = enqueued[a][j - 1] /\ enqueued'[a][j] = enqueued[a][j]
      BY <2>3, <1>9
    <3>2. QED
      BY <2>1, <2>3, <3>1 DEF AInv, OnlyOverlapDoubles
  <2>4. CASE a \in mine /\ j \notin 2 .. Len(enqueued[a])
    <3>1. j = Len(enqueued[a]) + 1 /\ Len(enqueued[a]) \in Nat /\ Len(enqueued[a]) >= 1
      BY <2>4, <1>9
    <3>2. enqueued'[a][j] = now /\ enqueued'[a][j - 1] = enqueued[a][Len(enqueued[a])]
      BY <2>4, <3>1, <1>9
    <3>3. enqueued[a] # <<>> /\ enqueued[a][Len(enqueued[a])] \in Seconds
      BY <3>1, <1>5
    <3>4. agent_tx[s].last[a] = enqueued[a][Len(enqueued[a])]
      BY <2>1, <2>4, <3>3 DEF AInv, LastIsLast
    <3>5. agent_tx[s].last[a] # Never
      BY <3>3, <3>4 DEF Never, Seconds
    <3>6. QED
      BY <2>4, <3>2, <3>4, <3>5, <1>3 DEF CronDue
  <2>5. QED
    BY <2>2, <2>3, <2>4
<1>13. QED
  BY <1>8, <1>10, <1>11, <1>12 DEF AInv

\* An agent's schedule is queued twice for one boundary only when a sweep
\* commits what another has fired since it read (scheduler.py takes no lock
\* before it writes), for any agents, periods, limits and numbers of sweeps.
THEOREM DoublesOnlyByOverlap ==
  ASSUME AgentSetting PROVE AgentSpec => []OnlyOverlapDoubles
<1>1. ASSUME AgentInit PROVE AInv
  <2>1. AgentIdle \in AgentTransaction /\ AgentIdle.locks = {} /\ AgentIdle.pc = "idle"
    BY AgentIdleHas DEF AgentIdleIs
  <2>2. \A a \in DOMAIN Agents : enqueued[a] = <<>> /\ last_run_at[a] = Never
    BY <1>1 DEF AgentInit
  <2>3. AgentTypes
    <3>1. <<>> \in Seq(Seconds)
      OBVIOUS
    <3>2. enqueued \in [DOMAIN Agents -> Seq(Seconds)]
      BY <1>1, <3>1 DEF AgentInit
    <3>3. last_run_at \in [DOMAIN Agents -> Moment]
      BY <1>1 DEF AgentInit, Moment
    <3>4. agent_tx \in [AgentSweeps -> AgentTransaction]
      BY <1>1, <2>1 DEF AgentInit
    <3>5. agent_clock = 1 /\ AgentMaxTime \in Nat \ {0}
      BY <1>1 DEF AgentInit, AgentSetting
    <3>6. agent_clock \in 1 .. AgentMaxTime
      BY <3>5
    <3>7. overlapped \in BOOLEAN
      BY <1>1, Zenon DEF AgentInit
    <3>8. QED
      BY <3>2, <3>3, <3>4, <3>6, <3>7 DEF AgentTypes
  <2>4. LastIsLast /\ OnlyOverlapDoubles
    BY <2>2 DEF LastIsLast, OnlyOverlapDoubles
  <2>5. FiredWhenRead
    BY <1>1, <2>1 DEF AgentInit, FiredWhenRead
  <2>6. QED
    BY <2>3, <2>4, <2>5 DEF AInv
<1>2. ASSUME AInv, [AgentNext]_agent_vars PROVE AInv'
  <2>1. CASE UNCHANGED agent_vars
    BY <1>2, <2>1 DEF agent_vars, AInv, AgentTypes, LastIsLast, FiredWhenRead, OnlyOverlapDoubles
  <2>2. CASE AgentTick \/ \E a \in DOMAIN Agents : Switch(a)
    BY <1>2, <2>2 DEF AgentTick, Switch, AInv, AgentTypes, LastIsLast, FiredWhenRead, OnlyOverlapDoubles,
                 AgentSetting
  <2>3. ASSUME NEW s \in AgentSweeps, ScanAgents(s) PROVE AInv'
    BY <1>2, <2>3, ScanAgentsSound
  <2>4. ASSUME NEW s \in AgentSweeps, VisitAgent(s) PROVE AInv'
    BY <1>2, <2>4, VisitAgentSound
  <2>5. ASSUME NEW s \in AgentSweeps, CommitAgents(s) PROVE AInv'
    BY <1>2, <2>5, CommitAgentsSound
  <2>6. ASSUME NEW s \in AgentSweeps, Deadlock(s) PROVE AInv'
    <3>1. AgentIdle \in AgentTransaction /\ AgentIdle.locks = {} /\ AgentIdle.pc = "idle"
      BY AgentIdleHas DEF AgentIdleIs
    <3>2. QED
      BY <1>2, <2>6, <3>1, AgentTxChange DEF Deadlock
  <2>7. QED
    BY <1>2, <2>1, <2>2, <2>3, <2>4, <2>5, <2>6 DEF AgentNext
<1>3. AInv => OnlyOverlapDoubles
  BY DEF AInv
<1>4. QED
  BY <1>1, <1>2, <1>3, PTL DEF AgentSpec

=============================================================================
