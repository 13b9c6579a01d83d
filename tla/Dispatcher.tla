----------------------------- MODULE Dispatcher -----------------------------
(***************************************************************************)
(* The outbox and the timers of WorkflowDispatchService.                   *)
(*                                                                         *)
(* A request writes a record and an outbox event in one transaction and    *)
(* may run the inline workflows of the event there.  Beat sweeps claim     *)
(* pending events and run every matching workflow that has no run for the  *)
(* event yet; timer sweeps resume runs that wait at a delay.  An action of *)
(* a run may write further events, one level deeper.                       *)
(*                                                                         *)
(* A row carries the transaction that has inserted, claimed or updated it  *)
(* (by): its own values are visible to that transaction only, its row lock *)
(* makes the others skip it.  Committing or rolling back settles every row *)
(* of the transaction at once.  What the actions of a run do outside the   *)
(* database cannot be rolled back and is counted in acted.                 *)
(*                                                                         *)
(* Runs are those of the graph walker; the runs of the token engine enter  *)
(* here only as runs that end.  How a run ended is left out.               *)
(***************************************************************************)
EXTENDS Integers, FiniteSets

CONSTANTS
  Workflows,
  Inline,         \* the workflows with run_inline_on_change
  Matches,        \* the sets of workflows an event may match
  Requests,       \* transactions that write records
  Workers,        \* transactions of process_pending and resume_waiting_runs
  NoTx,
  MAX_DEPTH,
  MAX_RUN_STEPS,
  Legs,           \* Legs[w]: what a walk of w's graph up to its end or next delay may do
  LegSize,        \* actions of a leg at most
  Limit,          \* rows a sweep claims at most
  MaxEvents,      \* bound: outbox events
  MaxFaults       \* bound: exceptions, timeouts, crashes and aborts

ASSUME DispatcherAssumption ==
  /\ IsFiniteSet(Workflows)
  /\ Inline \subseteq Workflows
  /\ Matches \subseteq SUBSET Workflows
  /\ NoTx \notin Requests \cup Workers
  /\ Requests \cap Workers = {}
  /\ MAX_DEPTH \in Nat /\ MAX_RUN_STEPS \in Nat \ {0} /\ LegSize \in Nat
  /\ DOMAIN Legs = Workflows
  /\ \A w \in Workflows : Legs[w] \subseteq [steps : 0..LegSize, status : {"waiting", "ended"}, emits : BOOLEAN]
  /\ Limit \in Nat \ {0} /\ MaxEvents \in Nat /\ MaxFaults \in Nat

VARIABLES
  outbox,   \* outbox[e]: the event with sequence number e
  runs,     \* runs[<<w, e>>][i]: the run row with id i of workflow w for event e
  acted,    \* acted[<<w, e>>]: actions of w for e carried out, committed or not
  tx,       \* the open transactions
  seq,      \* the last sequence number given out
  faults

vars == <<outbox, runs, acted, tx, seq, faults>>

----------------------------------------------------------------------------
Events == 1..MaxEvents
Keys == Workflows \X Events
Txs == Requests \cup Workers

Event == [status : {"none", "pending", "claimed", "done", "skipped"}, depth : Nat,
          match : SUBSET Workflows, by : Txs \cup {NoTx}, new : BOOLEAN]
NoEvent == [status |-> "none", depth |-> 0, match |-> {}, by |-> NoTx, new |-> FALSE]

\* A run row; kept is the number of steps it had when it was last committed.
Run == [status : {"waiting", "running", "ended", "skipped"}, steps : Nat, kept : Nat,
        by : Txs \cup {NoTx}, new : BOOLEAN]

Transaction == [open : BOOLEAN, events : SUBSET Events, rows : SUBSET (Keys \X Nat)]
Closed == [open |-> FALSE, events |-> {}, rows |-> {}]

TooDeep == [steps |-> 0, status |-> "skipped", emits |-> FALSE]

\* Mutant: the guard lets one level more run.
LooseOutcomes(W, depth) == {f \in [W -> UNION {Legs[w] : w \in W} \cup {TooDeep}] :
  \A w \in W : f[w] \in IF depth > MAX_DEPTH + 1 THEN {TooDeep} ELSE Legs[w]}

\* The loop guard of _process_event.
Outcomes(W, depth) == {f \in [W -> UNION {Legs[w] : w \in W} \cup {TooDeep}] :
  \A w \in W : f[w] \in IF depth > MAX_DEPTH THEN {TooDeep} ELSE Legs[w]}

----------------------------------------------------------------------------
(***************************************************************************)
(* The parts of a transaction.                                             *)
(***************************************************************************)
\* n new events of depth d, written by the actions of a run or by a request.
Written(t, n, d, m) ==
  [e \in Events |-> IF e \in (seq + 1)..(seq + n)
                    THEN [status |-> "pending", depth |-> d, match |-> m, by |-> t, new |-> TRUE]
                    ELSE outbox[e]]

Absent(W, e) == {w \in W : DOMAIN runs[<<w, e>>] = {}}

\* The id of the next run row of a workflow and an event.
NewId(k) == CHOOSE i \in 1..(Cardinality(DOMAIN runs[k]) + 1) : i \notin DOMAIN runs[k]

\* create_run_if_absent and the first leg of the workflows W for event e.
RunAll(t, e, W, legs) ==
  /\ runs' = [k \in Keys |->
       IF k[2] = e /\ k[1] \in W
       THEN [i \in DOMAIN runs[k] \cup {NewId(k)} |->
               IF i \in DOMAIN runs[k] THEN runs[k][i]
               ELSE [status |-> legs[k[1]].status, steps |-> legs[k[1]].steps, kept |-> 0,
                     by |-> t, new |-> TRUE]]
       ELSE runs[k]]
  /\ acted' = [k \in Keys |->
       IF k[2] = e /\ k[1] \in W THEN acted[k] + legs[k[1]].steps ELSE acted[k]]

\* Actions of some of the workflows W fire, then the savepoint rolls back.
ActInVain(e, W) ==
  \E n \in [W -> 0..IF outbox[e].depth > MAX_DEPTH THEN 0 ELSE LegSize] :
    acted' = [k \in Keys |-> IF k[2] = e /\ k[1] \in W THEN acted[k] + n[k[1]] ELSE acted[k]]

Fault == faults < MaxFaults /\ faults' = faults + 1

----------------------------------------------------------------------------
(***************************************************************************)
(* The request: DynamicEntityRepository writes the record and the event,   *)
(* dispatch_inline_workflows runs in a savepoint under a time budget.      *)
(***************************************************************************)
\* The record routers dispatch inline, form submissions and the console do not.
WriteRecord(q) ==
  /\ tx[q] = Closed /\ seq < MaxEvents
  /\ \E m \in Matches : outbox' = Written(q, 1, 0, m)
  /\ seq' = seq + 1
  /\ \E inline \in SUBSET {seq + 1} : tx' = [tx EXCEPT ![q] = [open |-> TRUE, events |-> inline, rows |-> {}]]
  /\ UNCHANGED <<runs, acted, faults>>

RunInline(q, e) ==
  LET W == Absent(outbox[e].match \cap Inline, e) IN
  /\ tx[q].open /\ e \in tx[q].events
  /\ \E legs \in Outcomes(W, outbox[e].depth), m \in Matches :
       LET n == Cardinality({w \in W : legs[w].emits}) IN
       /\ seq + n <= MaxEvents
       /\ RunAll(q, e, W, legs)
       /\ outbox' = Written(q, n, outbox[e].depth + 1, m)
       /\ seq' = seq + n
  /\ tx' = [tx EXCEPT ![q].events = {}]
  /\ UNCHANGED faults

InlineFails(q, e) ==
  /\ tx[q].open /\ e \in tx[q].events
  /\ Fault
  /\ ActInVain(e, outbox[e].match \cap Inline)
  /\ tx' = [tx EXCEPT ![q].events = {}]
  /\ UNCHANGED <<outbox, runs, seq>>

----------------------------------------------------------------------------
(***************************************************************************)
(* process_pending.                                                        *)
(***************************************************************************)
Pending == {e \in Events : outbox[e].status = "pending" /\ ~outbox[e].new}

\* Mutant: a high-water mark instead of the pending flag.
Cursor(S) ==
  LET past == {e \in S : \A x \in Events : outbox[x].status \in {"done", "skipped"} => x < e}
  IN {e \in past : Cardinality({x \in past : x < e}) < Limit}

\* The claim, ORDER BY seq LIMIT Limit, skips rows that are locked.
Oldest(S) == {e \in S : Cardinality({x \in S : x < e}) < Limit}

Claim(s) ==
  /\ tx[s] = Closed /\ Pending # {}
  /\ outbox' = [e \in Events |-> IF e \in Oldest(Pending)
                                 THEN [outbox[e] EXCEPT !.status = "claimed", !.by = s]
                                 ELSE outbox[e]]
  /\ tx' = [tx EXCEPT ![s] = [open |-> TRUE, events |-> Oldest(Pending), rows |-> {}]]
  /\ UNCHANGED <<runs, acted, seq, faults>>

\* Mutant: the sweep trusts that the inline workflows have run.
TrustingToRun(e) == Absent(outbox[e].match \ Inline, e)

\* Mutant: no ON CONFLICT.
AllToRun(e) == outbox[e].match

\* The workflows _process_event creates a run for.
ToRun(e) == Absent(outbox[e].match, e)

\* The claimed events come in the order in which UPDATE ... RETURNING yields them.
ProcessEvent(s, e) ==
  /\ tx[s].open /\ e \in tx[s].events
  /\ \E legs \in Outcomes(ToRun(e), outbox[e].depth), m \in Matches :
       LET n == Cardinality({w \in ToRun(e) : legs[w].emits}) IN
       /\ seq + n <= MaxEvents
       /\ RunAll(s, e, ToRun(e), legs)
       /\ outbox' = [Written(s, n, outbox[e].depth + 1, m) EXCEPT ![e].status = "done"]
       /\ seq' = seq + n
  /\ tx' = [tx EXCEPT ![s].events = @ \ {e}]
  /\ UNCHANGED faults

\* The event raises: its savepoint is rolled back and it is marked skipped.
EventFails(s, e) ==
  /\ tx[s].open /\ e \in tx[s].events
  /\ Fault
  /\ ActInVain(e, ToRun(e))
  /\ outbox' = [outbox EXCEPT ![e].status = "skipped"]
  /\ tx' = [tx EXCEPT ![s].events = @ \ {e}]
  /\ UNCHANGED <<runs, seq>>

----------------------------------------------------------------------------
(***************************************************************************)
(* resume_waiting_runs.  A delay may have elapsed at any time.             *)
(***************************************************************************)
RowSet(k) == {<<k, i>> : i \in DOMAIN runs[k]}

\* Mutant: a claim without FOR UPDATE SKIP LOCKED.
UnlockedDue == {x \in UNION {RowSet(k) : k \in Keys} :
                  runs[x[1]][x[2]].status \in {"waiting", "running"} /\ ~runs[x[1]][x[2]].new}

Due == {x \in UNION {RowSet(k) : k \in Keys} :
          runs[x[1]][x[2]].status = "waiting" /\ runs[x[1]][x[2]].by = NoTx}

ClaimDue(s) ==
  /\ tx[s] = Closed
  /\ \E S \in SUBSET Due :
       /\ S # {} /\ Cardinality(S) <= Limit
       /\ runs' = [k \in Keys |-> [i \in DOMAIN runs[k] |->
                     IF <<k, i>> \in S THEN [runs[k][i] EXCEPT !.status = "running", !.by = s]
                     ELSE runs[k][i]]]
       /\ tx' = [tx EXCEPT ![s] = [open |-> TRUE, events |-> {}, rows |-> S]]
  /\ UNCHANGED <<outbox, acted, seq, faults>>

\* The steps that transaction s can see.
Seen(s, row) == IF row.by = s THEN row.steps ELSE row.kept

\* The cycle guard of _resume_run.
Budget(w, steps) ==
  IF steps >= MAX_RUN_STEPS THEN {[TooDeep EXCEPT !.status = "ended"]} ELSE Legs[w]

\* _resume_run: the next leg, unless the run has used up its steps.
ResumeRun(s, k, i) ==
  LET steps == Seen(s, runs[k][i])
      depth == outbox[k[2]].depth
  IN
  /\ tx[s].open /\ <<k, i>> \in tx[s].rows
  /\ \E leg \in Budget(k[1], steps), m \in Matches :
       LET n == IF leg.emits THEN 1 ELSE 0 IN
       /\ seq + n <= MaxEvents
       /\ runs' = [runs EXCEPT ![k][i].status = leg.status, ![k][i].steps = steps + leg.steps]
       /\ acted' = [acted EXCEPT ![k] = @ + leg.steps]
       /\ outbox' = Written(s, n, depth + 1, m)
       /\ seq' = seq + n
  /\ tx' = [tx EXCEPT ![s].rows = @ \ {<<k, i>>}]
  /\ UNCHANGED faults

\* The resume raises: the savepoint is rolled back and the run is failed.
ResumeFails(s, k, i) ==
  /\ tx[s].open /\ <<k, i>> \in tx[s].rows
  /\ Fault
  /\ \E n \in 0..LegSize : acted' = [acted EXCEPT ![k] = @ + n]
  /\ runs' = [runs EXCEPT ![k][i].status = "ended"]
  /\ tx' = [tx EXCEPT ![s].rows = @ \ {<<k, i>>}]
  /\ UNCHANGED <<outbox, seq>>

----------------------------------------------------------------------------
(***************************************************************************)
(* The end of a transaction.                                               *)
(***************************************************************************)
Committed(t, row) ==
  IF row.by = t THEN [row EXCEPT !.by = NoTx, !.new = FALSE, !.kept = row.steps] ELSE row

Commit(t) ==
  /\ tx[t].open /\ tx[t].events = {} /\ tx[t].rows = {}
  /\ outbox' = [e \in Events |-> IF outbox[e].by = t
                                 THEN [outbox[e] EXCEPT !.by = NoTx, !.new = FALSE] ELSE outbox[e]]
  /\ runs' = [k \in Keys |-> [i \in DOMAIN runs[k] |-> Committed(t, runs[k][i])]]
  /\ tx' = [tx EXCEPT ![t] = Closed]
  /\ UNCHANGED <<acted, seq, faults>>

Restored(t, row) ==
  IF row.by = t THEN [row EXCEPT !.status = "waiting", !.by = NoTx, !.steps = row.kept] ELSE row

\* A crash, a timeout of the request or an exception outside the savepoints.
Rollback(t) ==
  /\ tx[t].open
  /\ Fault
  /\ outbox' = [e \in Events |->
       IF outbox[e].by # t THEN outbox[e]
       ELSE IF outbox[e].new THEN NoEvent
       ELSE [outbox[e] EXCEPT !.status = "pending", !.by = NoTx]]
  /\ runs' = [k \in Keys |->
       [i \in {j \in DOMAIN runs[k] : ~(runs[k][j].by = t /\ runs[k][j].new)} |->
          Restored(t, runs[k][i])]]
  /\ tx' = [tx EXCEPT ![t] = Closed]
  /\ UNCHANGED <<acted, seq>>

----------------------------------------------------------------------------
Init ==
  /\ outbox = [e \in Events |-> NoEvent]
  /\ runs = [k \in Keys |-> <<>>]
  /\ acted = [k \in Keys |-> 0]
  /\ tx = [t \in Txs |-> Closed]
  /\ seq = 0
  /\ faults = 0

Request(q) == WriteRecord(q) \/ \E e \in Events : RunInline(q, e) \/ InlineFails(q, e)
Sweep(s) == \E e \in Events : ProcessEvent(s, e) \/ EventFails(s, e)
Timer(s) == \E x \in tx[s].rows : ResumeRun(s, x[1], x[2]) \/ ResumeFails(s, x[1], x[2])

Next ==
  \/ \E q \in Requests : Request(q)
  \/ \E s \in Workers : Claim(s) \/ Sweep(s) \/ ClaimDue(s) \/ Timer(s)
  \/ \E t \in Txs : Commit(t) \/ Rollback(t)

Spec == Init /\ [][Next]_vars

(***************************************************************************)
(* Fairness.  The beat sends a sweep of the outbox every ten seconds and    *)
(* the queue delivers it to some worker, also when others call for timers; *)
(* a worker goes on with its transaction.  Nobody must write records, and  *)
(* no timer sweep need start.                                              *)
(***************************************************************************)
Fairness ==
  /\ SF_vars(\E s \in Workers : Claim(s))
  /\ \A s \in Workers : WF_vars(Sweep(s) \/ Timer(s) \/ Commit(s))

FairSpec == Spec /\ Fairness

----------------------------------------------------------------------------
\* The type invariant; and a row is only ever held by an open transaction.
TypeOK ==
  /\ outbox \in [Events -> Event]
  /\ DOMAIN runs = Keys
  /\ \A k \in Keys : DOMAIN runs[k] \subseteq Nat /\ runs[k] \in [DOMAIN runs[k] -> Run]
  /\ acted \in [Keys -> Nat]
  /\ tx \in [Txs -> Transaction]
  /\ seq \in 0..MaxEvents
  /\ faults \in 0..MaxFaults
  /\ \A e \in Events : outbox[e].by # NoTx => tx[outbox[e].by].open
  /\ \A k \in Keys : \A i \in DOMAIN runs[k] : runs[k][i].by # NoTx => tx[runs[k][i].by].open

\* A workflow has one run for an event at most, whoever runs it: the request,
\* a sweep after it or two sweeps at once.
OneRunPerEvent == \A k \in Keys : \A i, j \in DOMAIN runs[k] : i = j

\* The steps recorded for a workflow and an event by a run, none without one.
Recorded(k) == {runs[k][i].steps : i \in DOMAIN runs[k]} \cup {0}

\* The actions of a workflow for an event are carried out once: however the
\* request, the sweeps and the timers overlap, an action fires again only
\* after a fault has taken its record away.
ActedOnce == \A k \in Keys : \E n \in Recorded(k) : acted[k] <= n + LegSize * faults

\* A workflow that triggers itself ends: no event lies deeper than one level
\* below the deepest run that was allowed to act.
ChainEnds == \A e \in Events : outbox[e].status # "none" => outbox[e].depth <= MAX_DEPTH + 1

\* A run that delays itself in a cycle ends: it exceeds the budget of steps by
\* less than what one walk to the next delay does.
CycleEnds ==
  \A k \in Keys : \A i \in DOMAIN runs[k] : runs[k][i].steps < MAX_RUN_STEPS + LegSize

\* What triggers or delays itself ends, along both guards.
ChainsEnd == ChainEnds /\ CycleEnds

\* An event is done when every workflow it matches has its run, also those
\* whose inline attempt failed; an event that is not done has inline runs only.
DoneIsComplete ==
  \A e \in Events : outbox[e].by = NoTx /\ outbox[e].status # "none" =>
    IF outbox[e].status = "done"
    THEN Absent(outbox[e].match, e) = {}
    ELSE Absent(Workflows \ Inline, e) = Workflows \ Inline

\* Every event that was committed is processed, in whatever order the
\* requests commit and whichever sweep crashes.
EventsSettle ==
  \A e \in Events : outbox[e].status \in {"pending", "claimed"} /\ ~outbox[e].new
                      ~> outbox[e].status \in {"done", "skipped"}

============================================================================
