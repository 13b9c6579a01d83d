---------------------------- MODULE TokenEngine ----------------------------
(***************************************************************************)
(* The BPMN token engine (services/api/.../workflow/engine.py) on one run. *)
(*                                                                         *)
(* The state is what PostgreSQL holds for the run: its token rows in       *)
(* creation order (tok), the run row (run), and the transaction that has   *)
(* the run's advisory lock (tx).  A transaction's steps are taken one      *)
(* token at a time; until it commits, the other writers either see the     *)
(* rows as they were or wait for a row lock, so they are not enabled while *)
(* a transaction is open, and saved keeps the rows for a rollback.  What   *)
(* a request read BEFORE the transaction and writes after it is modelled   *)
(* by splitting the request into a read and a write (SignalRead,           *)
(* SignalWrite).                                                           *)
(*                                                                         *)
(* Run variables and step outputs are abstracted: a gateway may choose any *)
(* handle its data can produce, an action may succeed or fail.  Time is    *)
(* abstracted: a resume_at that is set may elapse at any moment.           *)
(***************************************************************************)
EXTENDS WorkflowGraph, Integers

CONSTANTS
  MAX_RUN_STEPS,       \* run-wide step budget
  MAX_TOKENS_PER_RUN,  \* run-wide token budget
  MAX_PASSES,          \* drive_run's max_passes
  Requests,            \* complete-task requests that may be made
  MaxRetries,          \* bound: how often the run is retried by hand
  MaxFaults            \* bound: exceptions and crashes

ASSUME BudgetAssumption ==
  /\ MAX_RUN_STEPS \in Nat
  /\ MAX_TOKENS_PER_RUN \in Nat
  /\ MAX_PASSES \in Nat
  /\ MaxRetries \in Nat
  /\ MaxFaults \in Nat

VARIABLES
  tok,      \* the run's token rows, by creation order (column seq)
  run,      \* the run row
  tx,       \* the open transaction that holds the run's advisory lock
  saved,    \* the rows as they were when that transaction began
  req,      \* complete-task requests in flight
  exec,     \* exec[n]: calls of the external action of n, never rolled back
  faults    \* exceptions and crashes so far

vars == <<tok, run, tx, saved, req, exec, faults>>

----------------------------------------------------------------------------
TokenStatus == {"active", "running", "waiting", "completed", "dead"}
Live == {"active", "running", "waiting"}
RunStatus == {"none", "running", "waiting", "succeeded", "failed"}
TerminalRun == {"succeeded", "failed"}
WaitKind == {"none", "timer", "user_task", "receive", "join", "retry"}

\* What a human completion may resume (_SIGNALABLE_WAIT_KINDS).
Signalable == {"user_task", "receive"}

(***************************************************************************)
(* The token's data column: the completion marker (with the node it was    *)
(* made for, which the code does not record), the SLA and timer markers,   *)
(* and the attempt counter of each node.                                   *)
(***************************************************************************)
Data == [completed : Nodes \cup {NoNode}, armed : BOOLEAN,
         timerArmed : BOOLEAN, attempts : [Nodes -> Nat]]

NoData == [completed |-> NoNode, armed |-> FALSE, timerArmed |-> FALSE,
           attempts |-> [n \in Nodes |-> 0]]

\* A row of workflow_run_tokens; due is "resume_at IS NOT NULL".
Row == [status : TokenStatus, node : Nodes, from : Nodes \cup {NoNode},
        via : Handles, wait : WaitKind, due : BOOLEAN, data : Data]

NewRow(n, from, via) ==
  [status |-> "active", node |-> n, from |-> from, via |-> via,
   wait |-> "none", due |-> FALSE, data |-> NoData]

\* The run row; retries counts how often retry_run reopened the run.
RunRow == [status : RunStatus, steps : Nat, dead_letter : BOOLEAN, retries : Nat]
NoRun == [status |-> "none", steps |-> 0, dead_letter |-> FALSE, retries |-> 0]

NoTx == [mode |-> "none", queue |-> {}, held |-> {}, staleActive |-> {},
         staleWaiting |-> {}, seen |-> "none", passes |-> 0]
NothingSaved == [tok |-> <<>>, run |-> NoRun]

NoRequest == [state |-> "idle", token |-> 0, data |-> NoData, seen |-> "none"]

----------------------------------------------------------------------------
(***************************************************************************)
(* _dispatch: the NodeOutcomes a token may produce at its node.            *)
(* steps counts the step rows recorded, call says whether the external     *)
(* action ran, absorbed is the join buffer a fired join consumes.          *)
(***************************************************************************)
Outcome == [kind : {"advance", "emit", "park", "noop", "complete", "terminate", "fail"},
            targets : Seq(Target), wait : WaitKind, due : BOOLEAN, data : Data,
            steps : {0, 1}, call : BOOLEAN, dead_letter : BOOLEAN, absorbed : SUBSET Nat]

OutcomeOf(kind, data) ==
  [kind |-> kind, targets |-> <<>>, wait |-> "none", due |-> FALSE, data |-> data,
   steps |-> 0, call |-> FALSE, dead_letter |-> FALSE, absorbed |-> {}]

AdvanceTo(targets, data, steps) ==
  [OutcomeOf("advance", data) EXCEPT !.targets = targets, !.steps = steps]

Park(wait, due, data) ==
  [OutcomeOf("park", data) EXCEPT !.wait = wait, !.due = due]

\* Routes to a boundary event through the "boundary" handle.
Catch(boundary) == <<[node |-> boundary, via |-> "boundary"]>>

\* Mutant: the completion marker is not popped when the task advances.
StickyDispatchUser(n, data) ==
  IF data.completed # NoNode THEN AdvanceTo(OutEdges[n], [data EXCEPT !.armed = FALSE], 1)
  ELSE IF TimerBoundary[n] = NoNode THEN Park("user_task", FALSE, data)
  ELSE IF data.armed
       THEN AdvanceTo(OutEdges[TimerBoundary[n]], [data EXCEPT !.armed = FALSE], 1)
       ELSE Park("user_task", TRUE, [data EXCEPT !.armed = TRUE])

\* A user, manual or receive task: completed, timed out, or first arrival.
DispatchUser(n, data) ==
  IF data.completed # NoNode
  THEN AdvanceTo(OutEdges[n], [data EXCEPT !.completed = NoNode, !.armed = FALSE], 1)
  ELSE IF TimerBoundary[n] = NoNode THEN Park("user_task", FALSE, data)
  ELSE IF data.armed
       THEN AdvanceTo(OutEdges[TimerBoundary[n]], [data EXCEPT !.armed = FALSE], 1)
       ELSE Park("user_task", TRUE, [data EXCEPT !.armed = TRUE])

\* Mutant: a retry is parked without a resume_at.
UntimedServiceFailure(n, data) ==
  IF data.attempts[n] + 1 < MaxAttempts[n]
  THEN [Park("retry", FALSE, [data EXCEPT !.attempts[n] = @ + 1]) EXCEPT !.steps = 1]
  ELSE [OutcomeOf("fail", data) EXCEPT !.dead_letter = TRUE, !.steps = 1]

\* The failed attempt of a service task: retry, catch, continue or dead-letter.
ServiceFailure(n, data) ==
  LET attempt == data.attempts[n] + 1
      failed == [OutcomeOf("fail", data) EXCEPT !.dead_letter = TRUE, !.steps = 1]
  IN IF attempt < MaxAttempts[n]
     THEN [Park("retry", TRUE, [data EXCEPT !.attempts[n] = attempt]) EXCEPT !.steps = 1]
     ELSE IF ErrorBoundary[n] # NoNode THEN AdvanceTo(Catch(ErrorBoundary[n]), data, 1)
     ELSE IF n \in ContinueOnError THEN AdvanceTo(OutEdges[n], data, 1)
     ELSE failed

DispatchService(n, data) ==
  IF run.steps >= MAX_RUN_STEPS THEN {OutcomeOf("fail", data)}
  ELSE {[o EXCEPT !.call = TRUE] :
          o \in {AdvanceTo(OutEdges[n], [data EXCEPT !.attempts[n] = 0], 1),
                 ServiceFailure(n, data)}}

DispatchRule(n, data) ==
  IF run.steps >= MAX_RUN_STEPS THEN OutcomeOf("fail", data)
  ELSE AdvanceTo(OutEdges[n], data, 1)

\* An exclusive gateway; without a matching branch the path stops.
ExclusiveRoute(n, data) ==
  IF OutEdges[n] = <<>> THEN {OutcomeOf("complete", data)}
  ELSE IF Kind[n] = "merge" THEN {AdvanceTo(<<OutEdges[n][1]>>, data, 0)}
  ELSE {AdvanceTo(<<e>>, data, 0) : e \in UNION {Routes(n, h) : h \in Choices[n]}}
       \cup {OutcomeOf("complete", data) : h \in {c \in Choices[n] : Routes(n, c) = {}}}

DispatchTimer(n, data) ==
  IF data.timerArmed THEN AdvanceTo(OutEdges[n], [data EXCEPT !.timerArmed = FALSE], 0)
  ELSE Park("timer", TRUE, [data EXCEPT !.timerArmed = TRUE])

----------------------------------------------------------------------------
(***************************************************************************)
(* Joins.  rows are the token rows with the arriving token t buffered.     *)
(* list_for_run returns the session's own objects: a token that drive_run  *)
(* holds keeps the status it had in memory when a raw UPDATE killed it.    *)
(***************************************************************************)
ListStatus(rows, i) ==
  IF i \in tx.staleActive THEN "active"
  ELSE IF i \in tx.staleWaiting THEN "waiting"
  ELSE rows[i].status

BufferArrival(rows, t) == [rows EXCEPT ![t].status = "waiting", ![t].wait = "join"]

BufferedAt(rows, n) ==
  {i \in DOMAIN rows : rows[i].node = n /\ rows[i].status = "waiting" /\ rows[i].wait = "join"}

\* Mutant: the join fires on the first arrival.
EagerParallelReady(rows, n) ==
  \E i \in BufferedAt(rows, n) : <<rows[i].from, rows[i].via>> \in Incoming(n)

\* AND-join: fires when every incoming edge has a buffered token.
ParallelReady(rows, n) ==
  Incoming(n) \subseteq {<<rows[i].from, rows[i].via>> : i \in BufferedAt(rows, n)}

\* OR-join: fires when no live token outside the buffer can still reach it.
InclusiveReady(rows, n) ==
  LET others == {i \in DOMAIN rows :
                   ListStatus(rows, i) \in Live /\ ~(rows[i].node = n /\ rows[i].wait = "join")}
  IN n \notin ForwardReachable({rows[i].node : i \in others})

JoinOutcome(rows, t) ==
  LET n == rows[t].node
      buffered == BufferArrival(rows, t)
      ready == IF Kind[n] = "parallel" THEN ParallelReady(buffered, n)
               ELSE InclusiveReady(buffered, n)
  IN IF ready
     THEN [OutcomeOf("emit", rows[t].data) EXCEPT
             !.targets = OutEdges[n], !.absorbed = BufferedAt(buffered, n)]
     ELSE OutcomeOf("noop", rows[t].data)

Dispatch(rows, t) ==
  LET n == rows[t].node
      data == rows[t].data
      kind == Kind[n]
  IN CASE IsJoin(n) -> {JoinOutcome(rows, t)}
       [] kind = "user" -> {DispatchUser(n, data)}
       [] kind = "service" -> DispatchService(n, data)
       [] kind = "rule" -> {DispatchRule(n, data)}
       [] kind = "unwired" -> {AdvanceTo(OutEdges[n], data, 1)}
       [] kind \in {"exclusive", "merge"} -> ExclusiveRoute(n, data)
       [] kind = "timer" -> {DispatchTimer(n, data)}
       [] kind = "catch" -> {Park("receive", FALSE, data)}
       [] kind = "end" -> {OutcomeOf("complete", data)}
       [] kind = "terminate" -> {OutcomeOf("terminate", data)}
       [] kind = "errorEnd" -> {OutcomeOf("fail", data)}
       [] OTHER -> {AdvanceTo(OutEdges[n], data, 0)}

----------------------------------------------------------------------------
\* Mutant: the token budget is off by one.
LateOverBudget(rows, o) ==
  /\ o.kind \in {"advance", "emit"}
  /\ Len(rows) + Len(o.targets) > MAX_TOKENS_PER_RUN + 1

(***************************************************************************)
(* _apply: the rows an outcome leaves.                                     *)
(***************************************************************************)
OverBudget(rows, o) ==
  /\ o.kind \in {"advance", "emit"}
  /\ Len(rows) + Len(o.targets) > MAX_TOKENS_PER_RUN

\* Every live token but the terminating one is killed by one raw UPDATE.
KillAll(rows, t) ==
  [i \in DOMAIN rows |->
     IF i = t THEN [rows[i] EXCEPT !.status = "completed"]
     ELSE IF rows[i].status \in Live THEN [rows[i] EXCEPT !.status = "dead"]
     ELSE rows[i]]

\* A fired join consumes its whole buffer, the arriving token included.
Absorb(rows, absorbed) ==
  [i \in DOMAIN rows |->
     IF i \in absorbed THEN [rows[i] EXCEPT !.status = "dead", !.wait = "join"] ELSE rows[i]]

NewRows(n, targets) ==
  [i \in 1..Len(targets) |-> NewRow(targets[i].node, n, targets[i].via)]

\* Mutant: a token that moves on keeps its claim.
ClaimedMoveOn(rows, t, o) ==
  IF Len(o.targets) = 1
  THEN [rows EXCEPT ![t] = [@ EXCEPT !.node = o.targets[1].node, !.from = rows[t].node,
                                     !.via = o.targets[1].via, !.data = o.data]]
  ELSE [rows EXCEPT ![t] = [@ EXCEPT !.status = "completed", !.data = o.data]]
         \o NewRows(rows[t].node, o.targets)

\* Advancing to one target reuses the token; to none or many completes it.
MoveOn(rows, t, o) ==
  IF Len(o.targets) = 1
  THEN [rows EXCEPT ![t] = [@ EXCEPT !.status = "active", !.node = o.targets[1].node,
                                     !.from = rows[t].node, !.via = o.targets[1].via,
                                     !.data = o.data]]
  ELSE [rows EXCEPT ![t] = [@ EXCEPT !.status = "completed", !.data = o.data]]
         \o NewRows(rows[t].node, o.targets)

Apply(rows, t, o) ==
  CASE o.kind = "noop" -> BufferArrival(rows, t)
    [] o.kind = "park" -> [rows EXCEPT ![t] = [@ EXCEPT !.status = "waiting", !.wait = o.wait,
                                                       !.due = o.due, !.data = o.data]]
    [] o.kind = "complete" -> [rows EXCEPT ![t].status = "completed"]
    [] o.kind = "fail" -> [rows EXCEPT ![t].status = "dead"]
    [] o.kind = "terminate" -> KillAll(rows, t)
    [] o.kind = "advance" -> IF OverBudget(rows, o) THEN [rows EXCEPT ![t].status = "dead"]
                             ELSE MoveOn(rows, t, o)
    [] o.kind = "emit" -> IF OverBudget(rows, o) THEN Absorb(rows, o.absorbed)
                          ELSE Absorb(rows, o.absorbed) \o NewRows(rows[t].node, o.targets)

\* Mutant: parked tokens do not keep the run open.
BlindSettle(rows, status) ==
  IF status \in TerminalRun THEN status
  ELSE IF \E i \in DOMAIN rows : rows[i].status \in {"active", "running"} THEN "running"
  ELSE "succeeded"

\* Mutant: a token that moves reopens a run that has failed.
ReopeningSettle(rows, status) ==
  IF \E i \in DOMAIN rows : rows[i].status \in {"active", "running"} THEN "running"
  ELSE IF status \in TerminalRun THEN status
  ELSE IF \E i \in DOMAIN rows : rows[i].status = "waiting" THEN "waiting"
  ELSE "succeeded"

(***************************************************************************)
(* _settle_run, after the status _apply wrote itself.  The run row is an   *)
(* ORM object whose status this session loaded earlier (seen): assigning   *)
(* the value it already has writes nothing.                                *)
(***************************************************************************)
Settle(rows, status) ==
  IF status \in TerminalRun THEN status
  ELSE IF \E i \in DOMAIN rows : rows[i].status \in {"active", "running"} THEN "running"
  ELSE IF \E i \in DOMAIN rows : rows[i].status = "waiting" THEN "waiting"
  ELSE "succeeded"

StatusAfter(rows, t, o, seen) ==
  Settle(Apply(rows, t, o),
         IF o.kind = "fail" \/ OverBudget(rows, o) THEN "failed"
         ELSE IF o.kind = "terminate" THEN "succeeded" ELSE seen)

WriteStatus(new, seen) == IF new = seen THEN run.status ELSE new

----------------------------------------------------------------------------
(***************************************************************************)
(* _advance_one inside the open transaction: dispatch, apply, settle.      *)
(* seen is the run status the session has in memory.                       *)
(***************************************************************************)
AdvanceOne(rows, t, seen) ==
  \E o \in Dispatch(rows, t) :
    LET status == StatusAfter(rows, t, o, seen)
        held == tx.held \ {t}
        killed == o.kind = "terminate" /\ tx.mode = "drive"
    IN /\ tok' = Apply(rows, t, o)
       /\ run' = [run EXCEPT !.status = WriteStatus(status, seen),
                             !.steps = @ + o.steps,
                             !.dead_letter = @ \/ o.dead_letter]
       /\ exec' = IF o.call THEN [exec EXCEPT ![rows[t].node] = @ + 1] ELSE exec
       /\ tx' = [tx EXCEPT
            !.queue = @ \ {t},
            !.seen = status,
            !.staleActive = IF killed THEN {i \in held : ListStatus(rows, i) = "active"}
                            ELSE @ \ {t},
            !.staleWaiting = IF killed THEN {i \in held : ListStatus(rows, i) = "waiting"}
                             ELSE @ \ {t}]

\* The transaction takes the advisory lock; saved is what a rollback restores.
Begin(mode, queue, seen, before) ==
  /\ tx' = [NoTx EXCEPT !.mode = mode, !.queue = queue, !.seen = seen]
  /\ saved' = before

Committed == [tok |-> tok, run |-> run]

(***************************************************************************)
(* start_run + drive_run of a new run (dispatch, manual run, webhook).     *)
(***************************************************************************)
StartRun ==
  /\ tx = NoTx
  /\ run.status = "none"
  /\ tok' = [i \in 1..Len(Triggers) |-> NewRow(Triggers[i], NoNode, "default")]
  /\ run' = [run EXCEPT !.status = IF Triggers = <<>> THEN "failed" ELSE "running"]
  /\ Begin("drive", {}, run'.status, Committed)
  /\ UNCHANGED <<req, exec, faults>>

(***************************************************************************)
(* drive_run.  A pass lists the active tokens and advances each of them,   *)
(* in order, without reading its status again.                             *)
(***************************************************************************)
ListActive == {i \in DOMAIN tok : ListStatus(tok, i) = "active"}

DrivePass ==
  /\ tx.mode = "drive" /\ tx.queue = {}
  /\ ListActive # {}
  /\ tx.passes < MAX_PASSES
  /\ tx' = [tx EXCEPT !.queue = ListActive, !.held = ListActive, !.staleWaiting = {},
                      !.passes = @ + 1]
  /\ UNCHANGED <<tok, run, saved, req, exec, faults>>

DriveStep ==
  /\ tx.mode = "drive"
  /\ \E t \in tx.queue :
       /\ \A u \in tx.queue : t <= u
       /\ AdvanceOne([tok EXCEPT ![t].status = "running"], t, tx.seen)
  /\ UNCHANGED <<saved, req, faults>>

DriveCommit ==
  /\ tx.mode = "drive" /\ tx.queue = {}
  /\ ListActive = {} \/ tx.passes = MAX_PASSES
  /\ tx' = NoTx
  /\ saved' = NothingSaved
  /\ UNCHANGED <<tok, run, req, exec, faults>>

(***************************************************************************)
(* advance_tokens.  A sweep claims the active tokens no other worker has   *)
(* locked and advances each, unless it is no longer running.               *)
(***************************************************************************)
SweepClaim(S) ==
  /\ tx = NoTx
  /\ S # {} /\ \A i \in S : tok[i].status = "active"
  /\ tok' = [i \in DOMAIN tok |-> IF i \in S THEN [tok[i] EXCEPT !.status = "running"] ELSE tok[i]]
  /\ Begin("sweep", S, run.status, Committed)
  /\ UNCHANGED <<run, req, exec, faults>>

SweepAdvance(t) ==
  /\ tx.mode = "sweep" /\ t \in tx.queue
  /\ IF tok[t].status = "running"
     THEN AdvanceOne(tok, t, run.status)
     ELSE /\ tx' = [tx EXCEPT !.queue = @ \ {t}]
          /\ UNCHANGED <<tok, run, exec>>
  /\ UNCHANGED <<saved, req, faults>>

\* An exception rolls the token's savepoint back and kills the token; the
\* external action may have run before it.
KillToken(t) ==
  /\ tx.mode = "sweep" /\ t \in tx.queue
  /\ tok[t].status = "running"
  /\ faults < MaxFaults
  /\ tok' = [tok EXCEPT ![t].status = "dead"]
  /\ run' = [run EXCEPT !.status = IF @ = "succeeded" THEN @ ELSE "failed"]
  /\ exec' \in {exec, [exec EXCEPT ![tok[t].node] = @ + IF Kind[tok[t].node] = "service" THEN 1 ELSE 0]}
  /\ tx' = [tx EXCEPT !.queue = @ \ {t}]
  /\ faults' = faults + 1
  /\ UNCHANGED <<saved, req>>

SweepCommit ==
  /\ tx.mode = "sweep" /\ tx.queue = {}
  /\ tx' = NoTx
  /\ saved' = NothingSaved
  /\ UNCHANGED <<tok, run, req, exec, faults>>

\* The process dies or the caller's savepoint rolls back: external actions
\* that ran stay done, everything else of the transaction is undone.
Rollback ==
  /\ tx.mode # "none"
  /\ faults < MaxFaults
  /\ tok' = saved.tok
  /\ run' = saved.run
  /\ tx' = NoTx
  /\ saved' = NothingSaved
  /\ faults' = faults + 1
  /\ UNCHANGED <<req, exec>>

\* Mutant: the reaper overlooks human tasks whose SLA has elapsed.
SlalessDue(row) ==
  \/ row.status = "waiting" /\ row.wait \in {"timer", "retry"} /\ row.due
  \/ row.status = "running"

(***************************************************************************)
(* resume_due_tokens: elapsed waits and claims left by a crashed worker.   *)
(***************************************************************************)
Due(row) ==
  \/ row.status = "waiting" /\ row.wait \in {"timer", "retry", "user_task", "receive"} /\ row.due
  \/ row.status = "running"

ResumeDue(t) ==
  /\ tx = NoTx
  /\ Due(tok[t])
  /\ tok' = [tok EXCEPT ![t].status = "active"]
  /\ UNCHANGED <<run, tx, saved, req, exec, faults>>

(***************************************************************************)
(* The complete-task request: the run status and the parked token are read *)
(* without a lock (SignalRead); signal_token's UPDATE of that row and the  *)
(* drive_run after it come later (SignalWrite).  A drive whose lock is     *)
(* taken by a sweep at that moment is skipped.                             *)
(***************************************************************************)
SignalRead(r, t) ==
  /\ tx = NoTx
  /\ req[r].state = "idle"
  /\ run.status \in {"waiting", "running"}
  /\ tok[t].status = "waiting" /\ tok[t].wait \in Signalable
  /\ \A u \in DOMAIN tok : u < t =>
       ~(tok[u].status = "waiting" /\ tok[u].wait \in Signalable /\ tok[u].node = tok[t].node)
  /\ req' = [req EXCEPT ![r] = [state |-> "read", token |-> t, seen |-> run.status,
                                data |-> [tok[t].data EXCEPT !.completed = tok[t].node]]]
  /\ UNCHANGED <<tok, run, tx, saved, exec, faults>>

SignalWrite(r) ==
  /\ tx = NoTx
  /\ req[r].state = "read"
  /\ tok' = [tok EXCEPT ![req[r].token] = [@ EXCEPT !.status = "active", !.wait = "none",
                                                    !.data = req[r].data]]
  /\ req' = [req EXCEPT ![r] = [NoRequest EXCEPT !.state = "done"]]
  /\ \/ Begin("drive", {}, req[r].seen, Committed)
     \/ UNCHANGED <<tx, saved>>
  /\ UNCHANGED <<run, exec, faults>>

(***************************************************************************)
(* retry_run: every dead token of a failed run becomes active again, the   *)
(* run is reopened and driven (or left to the sweep that has the lock).    *)
(***************************************************************************)
ReactivateDead(rows) ==
  [i \in DOMAIN rows |->
     IF rows[i].status = "dead" THEN [rows[i] EXCEPT !.status = "active", !.due = FALSE]
     ELSE rows[i]]

RetryRun ==
  /\ tx = NoTx
  /\ run.status = "failed"
  /\ run.retries < MaxRetries
  /\ \E i \in DOMAIN tok : tok[i].status = "dead"
  /\ tok' = ReactivateDead(tok)
  /\ run' = [run EXCEPT !.status = "running", !.retries = @ + 1]
  /\ \/ Begin("drive", {}, "running", Committed)
     \/ UNCHANGED <<tx, saved>>
  /\ UNCHANGED <<req, exec, faults>>

----------------------------------------------------------------------------
Init ==
  /\ tok = <<>>
  /\ run = NoRun
  /\ tx = NoTx
  /\ saved = NothingSaved
  /\ req = [r \in Requests |-> NoRequest]
  /\ exec = [n \in Nodes |-> 0]
  /\ faults = 0

Next ==
  \/ StartRun
  \/ DrivePass \/ DriveStep \/ DriveCommit
  \/ \E S \in SUBSET DOMAIN tok : SweepClaim(S)
  \/ \E t \in DOMAIN tok : SweepAdvance(t) \/ KillToken(t) \/ ResumeDue(t)
  \/ SweepCommit
  \/ Rollback
  \/ \E r \in Requests : SignalWrite(r) \/ \E t \in DOMAIN tok : SignalRead(r, t)
  \/ RetryRun

Spec == Init /\ [][Next]_vars

(***************************************************************************)
(* Fairness.  The request that creates the run drives it; the beat calls   *)
(* the sweep every few seconds for as long as the process is up, so an     *)
(* open transaction ends, a due wait is resumed and an active token is     *)
(* claimed sooner or later.  Nothing makes a human complete a task or      *)
(* retry a run.                                                            *)
(***************************************************************************)
Fairness ==
  /\ WF_vars(StartRun)
  /\ WF_vars(DrivePass \/ DriveStep \/ DriveCommit \/ SweepCommit
             \/ \E t \in DOMAIN tok : SweepAdvance(t))
  /\ SF_vars(\E S \in SUBSET DOMAIN tok : SweepClaim(S))
  /\ SF_vars(\E t \in DOMAIN tok : ResumeDue(t))

FairSpec == Spec /\ Fairness

----------------------------------------------------------------------------
(***************************************************************************)
(* Properties.  "Committed" speaks of what other sessions can see.         *)
(***************************************************************************)
Request == [state : {"idle", "read", "done"}, token : Nat, seen : RunStatus, data : Data]

Tx == [mode : {"none", "sweep", "drive"}, queue : SUBSET Nat, held : SUBSET Nat,
       staleActive : SUBSET Nat, staleWaiting : SUBSET Nat, seen : RunStatus, passes : Nat]

\* The type invariant: every column holds a value of its vocabulary, and every
\* token id a transaction or a request keeps names a row of the run.
TypeOK ==
  /\ tok \in Seq(Row)
  /\ run \in RunRow
  /\ tx \in Tx
  /\ saved \in [tok : Seq(Row), run : RunRow]
  /\ req \in [Requests -> Request]
  /\ exec \in [Nodes -> Nat]
  /\ faults \in Nat
  /\ tx.queue \cup tx.held \cup tx.staleActive \cup tx.staleWaiting \subseteq DOMAIN tok
  /\ \A r \in Requests : req[r].state = "read" =>
       /\ req[r].token \in DOMAIN tok
       /\ tx.mode # "none" => req[r].token \in DOMAIN saved.tok

VisibleRun == IF tx.mode = "none" THEN run ELSE saved.run
VisibleTok == IF tx.mode = "none" THEN tok ELSE saved.tok

\* A claim never outlives its transaction: no committed row is "running", so
\* every token a sweep or a drive takes is settled before the commit and the
\* lease reaper of resume_due_tokens has nothing to requeue.
NoOrphanClaim == \A i \in DOMAIN VisibleTok : VisibleTok[i].status # "running"

\* A run that has succeeded has nothing left to do: no token of it is live.
SucceededIsQuiet ==
  VisibleRun.status = "succeeded" =>
    \A i \in DOMAIN VisibleTok : VisibleTok[i].status \notin Live

\* Something can wake this parked token: its resume_at, or a human completion.
Wakeable(row) == row.status = "waiting" /\ (row.wait \in Signalable \/ Due(row))

\* No run is stranded: a committed run that is neither settled nor active has
\* a token something can wake.
NoStrandedRun ==
  VisibleRun.status \in {"running", "waiting"} =>
    \E i \in DOMAIN VisibleTok : \/ VisibleTok[i].status = "active"
                                 \/ Wakeable(VisibleTok[i])

\* A run that failed stays failed until retry_run reopens it: no sibling token
\* that is still moving may turn the failure into a success.
FailureSticks ==
  [][VisibleRun.status = "failed" /\ VisibleRun'.status # "failed"
       => VisibleRun'.retries > VisibleRun.retries]_vars

\* A completion marker is found only on a token at the task it completes.
CompletionOnTarget ==
  \A i \in DOMAIN VisibleTok :
    VisibleTok[i].data.completed \in {NoNode, VisibleTok[i].node}

\* The token budget: a run never has more token rows than MAX_TOKENS_PER_RUN.
TokenBudget == Len(tok) <= MAX_TOKENS_PER_RUN

\* A terminate end event kills every live token and leaves the run succeeded:
\* afterwards the run starts no external action.
TerminateStops ==
  [][(\E i \in DOMAIN tok : Kind[tok[i].node] = "terminate" /\ tok[i].status = "completed")
       => exec' = exec]_vars

\* A started run reaches a terminal state.
RunSettles == run.status = "running" ~> run.status \in TerminalRun

============================================================================
