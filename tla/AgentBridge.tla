---------------------------- MODULE AgentBridge ----------------------------
(***************************************************************************)
(* The bridge between the workflow engine and the agent runs it starts:    *)
(* one workflow token at an agent task, the AgentRuns it enqueues there,   *)
(* the workers that execute them and the people who answer them.           *)
(*                                                                         *)
(* Every row is its committed value.  A worker's transaction lasts as long *)
(* as the execution of a run; before its last statement it only writes the *)
(* heartbeat, which leaves the status alone but takes the row's lock, so   *)
(* lock[r] is all that the others notice of it.  Everybody else's          *)
(* transactions are single actions, except that a person's decision is     *)
(* read in one step and written, by primary key, in a later one.           *)
(*                                                                         *)
(* Time is abstracted: an SLA that is armed may elapse at any moment, and  *)
(* with EarlyExpiry a lease may run out while its worker is alive.         *)
(***************************************************************************)
EXTENDS Naturals, FiniteSets

CONSTANTS
  AgentRuns,      \* ids of the agent runs that may be created
  NoRun,
  Workers,        \* concurrent calls of AgentRunExecutor.advance
  NoWorker,
  Humans,         \* people deciding approvals and answering questions
  Sla,            \* may the agent task have a timer boundary: {TRUE}, {FALSE} or both
  Caught,         \* error codes a boundary of the task catches
  MAX_ITERATIONS, \* iterations of a drive and its corrective second drive
  EarlyExpiry,    \* a lease may expire under a live worker
  MaxFaults,      \* bound: worker crashes and retries of the workflow run
  MaxDecisions    \* bound: decisions of people

ASSUME BridgeAssumption ==
  /\ NoRun \notin AgentRuns
  /\ NoWorker \notin Workers
  /\ Sla \subseteq BOOLEAN /\ Sla # {}
  /\ EarlyExpiry \in BOOLEAN
  /\ Caught \subseteq {"failed", "escalated"}
  /\ MAX_ITERATIONS \in Nat \ {0}
  /\ MaxFaults \in Nat
  /\ MaxDecisions \in Nat

VARIABLES
  tok,      \* the workflow token
  runs,     \* the agent_runs rows
  ask,      \* the pending approval or question of a run
  lock,     \* lock[r]: the worker whose transaction has the row lock of r
  wk,       \* the workers
  human,    \* the decision a person has read and not yet written
  wf,       \* the workflow run: open, failed or terminated
  count     \* faults and decisions so far

vars == <<tok, runs, ask, lock, wk, human, wf, count>>

----------------------------------------------------------------------------
Nonterminal == {"queued", "running", "waiting"}
Terminal == {"done", "error", "cancelled", "escalated"}
Asks == {"none", "approval", "question"}

MaybeRun == AgentRuns \cup {NoRun}

AgentRun == [status : Nonterminal \cup Terminal \cup {"none"}, requeues : Nat]
Unborn == [status |-> "none", requeues |-> 0]

(***************************************************************************)
(* The token row.  linked, armed, completed and result are its data keys   *)
(* _agent_run_id, _armed, _completed and _agent_result, the last two with  *)
(* the id of the run they report on and, for a failure, its error code.    *)
(***************************************************************************)
Token == [status : {"active", "waiting", "dead"}, at : {"task", "away"}, due : BOOLEAN,
          key : MaybeRun, linked : MaybeRun, armed : BOOLEAN,
          completed : MaybeRun, result : MaybeRun, code : {"failed", "escalated"}]

Arrived == [status |-> "active", at |-> "task", due |-> FALSE, key |-> NoRun,
            linked |-> NoRun, armed |-> FALSE, completed |-> NoRun, result |-> NoRun,
            code |-> "failed"]

\* A worker: the runs it has claimed and not begun, the run it executes, how
\* far it is in the loop and how many iterations of it are over.
Worker == [todo : SUBSET AgentRuns, run : MaybeRun, turn : Nat,
           pc : {"idle", "top", "stream", "gate", "batch", "failed"}]
Free == [todo |-> {}, run |-> NoRun, turn |-> 0, pc |-> "idle"]

Undecided == [run |-> NoRun, verb |-> "none"]
Decision == [run : MaybeRun, verb : {"none", "resume", "deny"}]

----------------------------------------------------------------------------
(***************************************************************************)
(* Terminal transitions of an agent run (lifecycle, AgentRunRepository).   *)
(***************************************************************************)
Unlocked(r, who) == lock[r] \in {NoWorker, who}

ParkedOn(r) == tok.status = "waiting" /\ tok.key = r

\* The stamp of a run that ended with status s: completion or failure patch.
Stamped(token, r, s) ==
  IF s = "done" THEN [token EXCEPT !.status = "active", !.due = FALSE, !.completed = r]
  ELSE [token EXCEPT !.status = "active", !.due = FALSE, !.result = r,
                     !.code = IF s = "escalated" THEN "escalated" ELSE "failed"]

\* Mutant: the wire-back does not compare the correlation key.
AnyWireBack(r, s) == IF tok.status = "waiting" THEN Stamped(tok, r, s) ELSE tok

\* resume_token_for_run: only a token that is still parked on r is resumed.
WireBack(r, s) == IF ParkedOn(r) THEN Stamped(tok, r, s) ELSE tok

\* finalize_run: compare-and-set; the winner voids the run's questions and
\* resumes the token in the same transaction.
Finalize(r, s) ==
  IF runs[r].status \in Nonterminal
  THEN /\ runs' = [runs EXCEPT ![r].status = s]
       /\ ask' = [ask EXCEPT ![r] = IF @ = "question" THEN "none" ELSE @]
       /\ tok' = WireBack(r, s)
  ELSE UNCHANGED <<runs, ask, tok>>

\* cancel_run on each of the runs S: compare-and-set, no wire-back.
Cancelled(S) ==
  [r \in AgentRuns |-> IF r \in S /\ runs[r].status \in Nonterminal
                       THEN [runs[r] EXCEPT !.status = "cancelled"] ELSE runs[r]]

\* The UPDATE of a cancellation waits for a worker that has the row.
Cancellable(S) == \A r \in S : runs[r].status \in Nonterminal => lock[r] = NoWorker

----------------------------------------------------------------------------
(***************************************************************************)
(* The workflow side: _dispatch_agent and the ways a workflow run dies.    *)
(***************************************************************************)
AtTask == tok.status = "active" /\ tok.at = "task"
Fresh == tok.completed = NoRun /\ tok.result = NoRun

MovedOn(token) == [token EXCEPT !.status = "active", !.at = "away", !.armed = FALSE, !.linked = NoRun]

\* Every nonterminal run of the workflow run is cancelled when it fails or
\* terminates; questions stay open, approvals are voided.
CancelAll ==
  /\ Cancellable(AgentRuns)
  /\ runs' = Cancelled(AgentRuns)
  /\ ask' = [r \in AgentRuns |-> IF runs[r].status \in Nonterminal /\ ask[r] = "approval"
                                 THEN "none" ELSE ask[r]]

\* _agent_failure_outcome: caught by a boundary, or the token and the run fail.
FailureOutcome(code, caught) ==
  IF code \in Caught
  THEN tok' = MovedOn(caught) /\ UNCHANGED <<runs, ask, wf>>
  ELSE /\ tok' = [tok EXCEPT !.status = "dead"]
       /\ CancelAll
       /\ wf' = "failed"

\* First arrival: a queued run is created, in a new row, and the token parks
\* on it.
NewRun == CHOOSE r \in AgentRuns : runs[r].status = "none"

Enqueue(r) ==
  /\ AtTask /\ Fresh /\ tok.linked = NoRun
  /\ runs[r].status = "none" /\ r = NewRun
  /\ runs' = [runs EXCEPT ![r].status = "queued"]
  /\ \E sla \in Sla : tok' = [tok EXCEPT !.status = "waiting", !.key = r, !.linked = r,
                                         !.due = sla, !.armed = sla]
  /\ UNCHANGED <<ask, lock, wk, human, wf, count>>

\* The agent is missing, disabled or not invocable from this workflow.
SetupFailure ==
  /\ AtTask /\ Fresh /\ tok.linked = NoRun
  /\ FailureOutcome("failed", tok)
  /\ UNCHANGED <<lock, wk, human, count>>

ConsumeCompletion ==
  /\ AtTask /\ tok.completed # NoRun
  /\ tok' = [MovedOn(tok) EXCEPT !.completed = NoRun]
  /\ UNCHANGED <<runs, ask, lock, wk, human, wf, count>>

\* A failed, escalated or cancelled run.  The dead token keeps its result.
ConsumeResult ==
  /\ AtTask /\ tok.completed = NoRun /\ tok.result # NoRun
  /\ FailureOutcome(tok.code, [tok EXCEPT !.result = NoRun, !.code = "failed"])
  /\ UNCHANGED <<lock, wk, human, count>>

\* The SLA elapsed without a stamp: cancel the run, take the timeout path.
SlaFires ==
  /\ AtTask /\ Fresh /\ tok.linked # NoRun /\ tok.armed
  /\ Cancellable({tok.linked})
  /\ runs' = Cancelled({tok.linked})
  /\ ask' = [ask EXCEPT ![tok.linked] = IF runs[tok.linked].status \in Nonterminal THEN "none" ELSE @]
  /\ tok' = MovedOn(tok)
  /\ UNCHANGED <<lock, wk, human, wf, count>>

\* Reactivated without an armed SLA and without a stamp (retry_run revived a
\* token that a terminate killed while it was parked): park again.
Repark ==
  /\ AtTask /\ Fresh /\ tok.linked # NoRun /\ ~tok.armed
  /\ tok' = [tok EXCEPT !.status = "waiting", !.key = tok.linked]
  /\ UNCHANGED <<runs, ask, lock, wk, human, wf, count>>

\* The graph leads the token back to the agent task.
LoopBack ==
  /\ tok.status = "active" /\ tok.at = "away"
  /\ \E r \in AgentRuns : runs[r].status = "none"
  /\ tok' = [tok EXCEPT !.at = "task"]
  /\ UNCHANGED <<runs, ask, lock, wk, human, wf, count>>

\* resume_due_tokens: the SLA elapsed.
ResumeDue ==
  /\ tok.status = "waiting" /\ tok.due
  /\ tok' = [tok EXCEPT !.status = "active"]
  /\ UNCHANGED <<runs, ask, lock, wk, human, wf, count>>

\* Mutant: the backstop overlooks cancelled runs.
ForgetfulReconcile ==
  /\ tok.status = "waiting" /\ tok.key # NoRun
  /\ runs[tok.key].status \in Terminal \ {"cancelled"}
  /\ tok' = Stamped(tok, tok.key, runs[tok.key].status)
  /\ UNCHANGED <<runs, ask, lock, wk, human, wf, count>>

\* reconcile_agent_tokens: the linked run is terminal and nobody resumed us.
Reconcile ==
  /\ tok.status = "waiting" /\ tok.key # NoRun
  /\ runs[tok.key].status \in Terminal
  /\ tok' = Stamped(tok, tok.key, runs[tok.key].status)
  /\ UNCHANGED <<runs, ask, lock, wk, human, wf, count>>

\* Another token fails the workflow run, also one of a drive pass that goes on
\* after a terminate, or an exception kills this one.
WorkflowFails ==
  /\ wf # "failed"
  /\ CancelAll
  /\ wf' = "failed"
  /\ \/ UNCHANGED tok
     \/ AtTask /\ tok' = [tok EXCEPT !.status = "dead"]
  /\ UNCHANGED <<lock, wk, human, count>>

\* Another token reaches a terminate end event: kill_all, then the cancels.
WorkflowTerminates ==
  /\ wf = "open" /\ tok.status # "dead"
  /\ CancelAll
  /\ tok' = [tok EXCEPT !.status = "dead"]
  /\ wf' = "succeeded"
  /\ UNCHANGED <<lock, wk, human, count>>

\* retry_run: the dead token is active again, its data as it was.
RetryRun ==
  /\ wf = "failed" /\ tok.status = "dead" /\ count.faults < MaxFaults
  /\ tok' = [tok EXCEPT !.status = "active", !.due = FALSE]
  /\ wf' = "open"
  /\ count' = [count EXCEPT !.faults = @ + 1]
  /\ UNCHANGED <<runs, ask, lock, wk, human>>

----------------------------------------------------------------------------
(***************************************************************************)
(* The executor: AgentRunExecutor.advance and the agent loop.              *)
(***************************************************************************)
\* The end of an execution: the transaction commits or rolls back.
Leave(w) ==
  /\ wk' = [wk EXCEPT ![w] = [Free EXCEPT !.todo = wk[w].todo]]
  /\ lock' = [r \in AgentRuns |-> IF lock[r] = w THEN NoWorker ELSE lock[r]]

Queued == {r \in AgentRuns : runs[r].status = "queued"}

\* A sweep claims every queued run and commits.
Claim(w) ==
  /\ wk[w] = Free /\ Queued # {}
  /\ wk' = [wk EXCEPT ![w].todo = Queued]
  /\ runs' = [r \in AgentRuns |-> IF r \in Queued THEN [runs[r] EXCEPT !.status = "running"]
                                  ELSE runs[r]]
  /\ UNCHANGED <<tok, ask, lock, human, wf, count>>

\* _execute_one up to the loop; a run that is not running any more is skipped.
Start(w, r) ==
  /\ wk[w].pc = "idle" /\ r \in wk[w].todo
  /\ wk' = [wk EXCEPT ![w].todo = @ \ {r},
                       ![w].run = IF runs[r].status = "running" THEN r ELSE NoRun,
                       ![w].pc = IF runs[r].status = "running" THEN "top" ELSE "idle"]
  /\ UNCHANGED <<tok, runs, ask, lock, human, wf, count>>

\* The agent, its provider key or the API key behind the run is gone.
Unable(w) ==
  /\ wk[w].pc = "top" /\ wk[w].turn = 0
  /\ Unlocked(wk[w].run, w)
  /\ Finalize(wk[w].run, "error")
  /\ Leave(w)
  /\ UNCHANGED <<human, wf, count>>

\* The top of an iteration: stop when the run is not running any more.
TopCheck(w) ==
  /\ wk[w].pc = "top" /\ wk[w].turn < MAX_ITERATIONS
  /\ IF runs[wk[w].run].status = "running"
     THEN wk' = [wk EXCEPT ![w].pc = "stream"] /\ UNCHANGED lock
     ELSE Leave(w)
  /\ UNCHANGED <<tok, runs, ask, human, wf, count>>

\* Queued messages of a person are drained and committed: the lock is gone.
Steer(w) ==
  /\ wk[w].pc = "stream"
  /\ \E r \in AgentRuns : lock[r] = w
  /\ lock' = [r \in AgentRuns |-> IF lock[r] = w THEN NoWorker ELSE lock[r]]
  /\ UNCHANGED <<tok, runs, ask, wk, human, wf, count>>

\* Mutant: the heartbeat is written by a session of its own and committed.
CommittedHeartbeat(w) == UNCHANGED lock

\* The heartbeat's UPDATE waits for the row; it locks a row that is running.
Heartbeat(w) ==
  /\ Unlocked(wk[w].run, w)
  /\ lock' = IF runs[wk[w].run].status = "running" THEN [lock EXCEPT ![wk[w].run] = w] ELSE lock

\* The model's turn ends with tool calls: usage and tool_call heartbeats.
ToolCalls(w) ==
  /\ wk[w].pc = "stream"
  /\ Heartbeat(w)
  /\ wk' = [wk EXCEPT ![w].pc = "gate"]
  /\ UNCHANGED <<tok, runs, ask, human, wf, count>>

\* mark_waiting writes the status by primary key, whatever it is, and commits.
MarkWaiting(w, kind) ==
  /\ Unlocked(wk[w].run, w)
  /\ runs' = [runs EXCEPT ![wk[w].run].status = "waiting"]
  /\ ask' = [ask EXCEPT ![wk[w].run] = kind]
  /\ Leave(w)
  /\ UNCHANGED <<tok, human, wf, count>>

\* A tool needs approval: the gate parks the run before the second check.
ParkForApproval(w) == wk[w].pc = "gate" /\ MarkWaiting(w, "approval")

\* The second check; then the batch's tools run.
Batch(w) ==
  /\ wk[w].pc = "gate"
  /\ IF runs[wk[w].run].status = "running"
     THEN wk' = [wk EXCEPT ![w].pc = "batch"] /\ UNCHANGED lock
     ELSE Leave(w)
  /\ UNCHANGED <<tok, runs, ask, human, wf, count>>

\* A tool asks a question: its handler parks the run.
ParkOnQuestion(w) == wk[w].pc = "batch" /\ MarkWaiting(w, "question")

NextTurn(w) ==
  /\ wk[w].pc = "batch"
  /\ Heartbeat(w)
  /\ wk' = [wk EXCEPT ![w].pc = "top", ![w].turn = @ + 1]
  /\ UNCHANGED <<tok, runs, ask, human, wf, count>>

\* A first turn without tool calls: one corrective message, then go on.
Nudge(w) ==
  /\ wk[w].pc = "stream"
  /\ Heartbeat(w)
  /\ wk' = [wk EXCEPT ![w].pc = "top", ![w].turn = @ + 1]
  /\ UNCHANGED <<tok, runs, ask, human, wf, count>>

\* complete_task, escalate_task or a revoked key ends the run from the batch;
\* a turn without tool calls, or the last iteration, escalates it.
Finish(w, s) ==
  /\ \/ wk[w].pc = "batch" /\ s \in {"done", "escalated", "error"}
     \/ wk[w].pc = "stream" /\ s = "escalated"
     \/ wk[w].pc = "top" /\ wk[w].turn = MAX_ITERATIONS /\ s = "escalated"
  /\ Unlocked(wk[w].run, w)
  /\ Finalize(wk[w].run, s)
  /\ Leave(w)
  /\ UNCHANGED <<human, wf, count>>

\* The provider fails or something raises: the transaction is rolled back.
Raise(w) ==
  /\ wk[w].pc \in {"top", "stream", "gate", "batch"}
  /\ wk' = [wk EXCEPT ![w].pc = "failed"]
  /\ lock' = [r \in AgentRuns |-> IF lock[r] = w THEN NoWorker ELSE lock[r]]
  /\ UNCHANGED <<tok, runs, ask, human, wf, count>>

\* _mark_error, in a transaction of its own.
MarkError(w) ==
  /\ wk[w].pc = "failed"
  /\ Unlocked(wk[w].run, w)
  /\ Finalize(wk[w].run, "error")
  /\ Leave(w)
  /\ UNCHANGED <<human, wf, count>>

Crash(w) ==
  /\ wk[w] # Free /\ count.faults < MaxFaults
  /\ wk' = [wk EXCEPT ![w] = Free]
  /\ lock' = [r \in AgentRuns |-> IF lock[r] = w THEN NoWorker ELSE lock[r]]
  /\ count' = [count EXCEPT !.faults = @ + 1]
  /\ UNCHANGED <<tok, runs, ask, human, wf>>

Held(r) == \E w \in Workers : r \in wk[w].todo \/ wk[w].run = r

\* Mutant: every run that is running counts as stale.
HastyReclaim(r) ==
  /\ runs[r].status = "running" /\ lock[r] = NoWorker
  /\ IF runs[r].requeues >= 1 THEN Finalize(r, "error")
     ELSE /\ runs' = [runs EXCEPT ![r] = [status |-> "queued", requeues |-> 1]]
          /\ UNCHANGED <<tok, ask>>
  /\ UNCHANGED <<lock, wk, human, wf, count>>

\* _reclaim_stale: requeue a run whose lease expired once, then give it up.
\* A row some worker has locked is skipped.
Reclaim(r) ==
  /\ runs[r].status = "running" /\ lock[r] = NoWorker /\ (EarlyExpiry \/ ~Held(r))
  /\ IF runs[r].requeues >= 1 THEN Finalize(r, "error")
     ELSE /\ runs' = [runs EXCEPT ![r] = [status |-> "queued", requeues |-> 1]]
          /\ UNCHANGED <<tok, ask>>
  /\ UNCHANGED <<lock, wk, human, wf, count>>

----------------------------------------------------------------------------
(***************************************************************************)
(* People: approve, deny, answer.                                          *)
(***************************************************************************)
\* The decision finds the run waiting.
Read(h, r, verb) ==
  /\ human[h] = Undecided /\ count.decisions < MaxDecisions
  /\ ask[r] # "none" /\ runs[r].status = "waiting"
  /\ verb = "deny" => ask[r] = "approval"
  /\ human' = [human EXCEPT ![h] = [run |-> r, verb |-> verb]]
  /\ count' = [count EXCEPT !.decisions = @ + 1]
  /\ UNCHANGED <<tok, runs, ask, lock, wk, wf>>

\* An approval or an answer requeues the run by primary key, a denial
\* finalizes it.
Write(h) ==
  LET r == human[h].run IN
  /\ r # NoRun /\ lock[r] = NoWorker
  /\ IF human[h].verb = "deny"
     THEN IF runs[r].status \in Nonterminal
          THEN /\ runs' = [runs EXCEPT ![r].status = "error"]
               /\ tok' = WireBack(r, "error")
          ELSE UNCHANGED <<runs, tok>>
     ELSE runs' = [runs EXCEPT ![r].status = "queued"] /\ UNCHANGED tok
  /\ ask' = [ask EXCEPT ![r] = "none"]
  /\ human' = [human EXCEPT ![h] = Undecided]
  /\ UNCHANGED <<lock, wk, wf, count>>

\* The decision finds the run elsewhere: the ask is closed, nothing is queued.
TooLate(r) ==
  /\ ask[r] # "none" /\ runs[r].status # "waiting"
  /\ ask' = [ask EXCEPT ![r] = "none"]
  /\ UNCHANGED <<tok, runs, lock, wk, human, wf, count>>

----------------------------------------------------------------------------
Init ==
  /\ tok = Arrived
  /\ runs = [r \in AgentRuns |-> Unborn]
  /\ ask = [r \in AgentRuns |-> "none"]
  /\ lock = [r \in AgentRuns |-> NoWorker]
  /\ wk = [w \in Workers |-> Free]
  /\ human = [h \in Humans |-> Undecided]
  /\ wf = "open"
  /\ count = [faults |-> 0, decisions |-> 0]

TokenStep ==
  \/ \E r \in AgentRuns : Enqueue(r)
  \/ SetupFailure \/ ConsumeCompletion \/ ConsumeResult \/ SlaFires \/ Repark

Execute(w) ==
  \/ Claim(w) \/ \E r \in AgentRuns : Start(w, r)
  \/ Unable(w) \/ TopCheck(w) \/ ToolCalls(w) \/ Batch(w) \/ NextTurn(w) \/ Nudge(w)
  \/ ParkForApproval(w) \/ ParkOnQuestion(w) \/ Raise(w) \/ MarkError(w)
  \/ \E s \in Terminal : Finish(w, s)

Next ==
  \/ TokenStep \/ LoopBack \/ ResumeDue \/ Reconcile \/ WorkflowFails
  \/ WorkflowTerminates \/ RetryRun
  \/ \E w \in Workers : Execute(w) \/ Steer(w) \/ Crash(w)
  \/ \E r \in AgentRuns : Reclaim(r) \/ TooLate(r)
  \/ \E h \in Humans : Write(h) \/ \E r \in AgentRuns, verb \in {"resume", "deny"} : Read(h, r, verb)

Spec == Init /\ [][Next]_vars

(***************************************************************************)
(* Fairness.  The beat sweeps tokens and agent runs every ten seconds, and *)
(* a worker goes on with what it began.  A statement that waits for a row  *)
(* lock gets it when the lock is free again and again.  Nobody is made to  *)
(* decide, to steer or to retry.                                           *)
(***************************************************************************)
Fairness ==
  /\ SF_vars(TokenStep)
  /\ WF_vars(ResumeDue) /\ WF_vars(Reconcile)
  /\ \A w \in Workers : SF_vars(Execute(w))

FairSpec == Spec /\ Fairness

----------------------------------------------------------------------------
\* The type invariant: every column holds a value of its vocabulary, a worker
\* in the loop has a run, and a row lock is held only by the worker that
\* executes the run.
TypeOK ==
  /\ tok \in Token
  /\ runs \in [AgentRuns -> AgentRun]
  /\ ask \in [AgentRuns -> Asks]
  /\ lock \in [AgentRuns -> Workers \cup {NoWorker}]
  /\ wk \in [Workers -> Worker]
  /\ human \in [Humans -> Decision]
  /\ wf \in {"open", "failed", "succeeded"}
  /\ count \in [faults : Nat, decisions : Nat]
  /\ \A w \in Workers : wk[w].pc # "idle" => wk[w].run # NoRun
  /\ \A r \in AgentRuns, w \in Workers : lock[r] = w => wk[w].run = r

\* Tools run only while the run's committed status is "running": a cancel,
\* a requeue or a decision of anybody else cannot land under a batch.
EffectsWhileRunning ==
  \A w \in Workers : wk[w].pc = "batch" => runs[wk[w].run].status = "running"

Driven(w) == wk[w].todo \cup ({wk[w].run} \ {NoRun})

\* No two workers have one agent run, claimed or under way, at the same time:
\* whoever drives a run has won its claim.
OneExecutor == \A v, w \in Workers : v # w => Driven(v) \cap Driven(w) = {}

\* A token is only ever stamped with the outcome of the run it is linked to,
\* also when an earlier run of the same step reports late.
StampIsOwn == \A r \in {tok.completed, tok.result} : r # NoRun => r = tok.linked

\* An agent takes side effects only while the workflow step is its own: once
\* the SLA has fired or the workflow is dead, the linked run has stopped.
EffectsOwned ==
  \A w \in Workers : wk[w].pc = "batch" => wk[w].run = tok.linked

\* The step waits for something that must come: its SLA or an ended run.
Ending(r) ==
  /\ tok.linked = r /\ tok.status # "dead"
  /\ tok.armed \/ runs[r].status \in Terminal

\* Every agent step with an SLA, and every step whose run has ended, goes on:
\* the wire-back, the backstop or the SLA moves the token.
AgentStepEnds == \A r \in AgentRuns : Ending(r) ~> ~Ending(r)

============================================================================
