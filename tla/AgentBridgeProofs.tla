------------------------- MODULE AgentBridgeProofs -------------------------
(***************************************************************************)
(* Proofs about AgentBridge.  The first invariant, for all values of the   *)
(* constants: types, and that a parked token waits for the run it is       *)
(* linked to.  The second, for one person deciding at a time and leases    *)
(* that outlive their workers: no two workers share a run, a worker's run  *)
(* is running or ended, and a batch runs under the row lock.  Then follow   *)
(* McpOAuth, the connections the tools of a run use: who holds which       *)
(* token, and that a run has what replaces one that was shown to the       *)
(* provider; Admins, the people above them all: that claims, changes of    *)
(* flags and removals leave one administrator; and ApiKeys, what a program *)
(* is let in with: that a key never comes to hold more than was minted.    *)
(***************************************************************************)
EXTENDS AgentBridge, McpOAuth, Admins, ApiKeys, FiniteSetTheorems, TLAPS

\* A parked token waits for its linked run and has no stamp; a stamp is that
\* of the linked run, and there is one at most.
Parked ==
  tok.status = "waiting" => /\ tok.key = tok.linked
                            /\ tok.completed = NoRun /\ tok.result = NoRun
OneStamp == tok.completed = NoRun \/ tok.result = NoRun

TokenInv == tok \in Token /\ StampIsOwn /\ Parked /\ OneStamp

----------------------------------------------------------------------------
\* What a stamp does to a parked token (Stamped).
LEMMA StampKeeps ==
  ASSUME TokenInv, NEW r \in AgentRuns, NEW s, ParkedOn(r), tok' = Stamped(tok, r, s)
  PROVE  TokenInv'
<1> USE BridgeAssumption
<1>1. tok.linked = r /\ tok.completed = NoRun /\ tok.result = NoRun
  BY DEF TokenInv, Parked, ParkedOn
<1>2. tok' \in Token
  BY DEF TokenInv, Token, Stamped, MaybeRun
<1>3. /\ tok'.status = "active" /\ tok'.linked = r
      /\ \/ tok'.completed = r /\ tok'.result = NoRun
         \/ tok'.completed = NoRun /\ tok'.result = r
  BY <1>1 DEF TokenInv, Token, Stamped
<1> QED BY <1>2, <1>3 DEF TokenInv, StampIsOwn, Parked, OneStamp

\* The wire-back stamps a token that is parked on the run and no other.
LEMMA WireBackKeeps ==
  ASSUME TokenInv, NEW r \in AgentRuns, NEW s, tok' = WireBack(r, s)
  PROVE  TokenInv'
<1>1. CASE ParkedOn(r) BY <1>1, StampKeeps DEF WireBack
<1>2. CASE ~ParkedOn(r)
  <2>1. tok' = tok BY <1>2 DEF WireBack
  <2> QED BY <2>1 DEF TokenInv, StampIsOwn, Parked, OneStamp
<1> QED BY <1>1, <1>2

LEMMA FinalizeKeeps ==
  ASSUME TokenInv, NEW r \in AgentRuns, NEW s, Finalize(r, s)
  PROVE  TokenInv'
<1>1. CASE runs[r].status \in Nonterminal BY <1>1, WireBackKeeps DEF Finalize
<1>2. CASE runs[r].status \notin Nonterminal
  BY <1>2 DEF Finalize, TokenInv, StampIsOwn, Parked, OneStamp
<1> QED BY <1>1, <1>2

\* A token that is dead or leaves the task without a stamp.
LEMMA FailureKeeps ==
  ASSUME TokenInv, NEW code, NEW caught \in Token,
         caught.completed = NoRun, caught.result = NoRun,
         FailureOutcome(code, caught)
  PROVE  TokenInv'
<1> USE BridgeAssumption
<1>1. CASE code \in Caught
  <2>1. tok' = MovedOn(caught) BY <1>1 DEF FailureOutcome
  <2>2. tok' \in Token BY <2>1 DEF MovedOn, Token, MaybeRun
  <2>3. tok'.status = "active" /\ tok'.completed = NoRun /\ tok'.result = NoRun
    BY <2>1 DEF MovedOn, Token
  <2> QED BY <2>2, <2>3 DEF TokenInv, StampIsOwn, Parked, OneStamp
<1>2. CASE code \notin Caught
  <2>1. tok' = [tok EXCEPT !.status = "dead"] BY <1>2 DEF FailureOutcome
  <2>2. tok' \in Token BY <2>1 DEF TokenInv, Token
  <2>3. /\ tok'.status = "dead" /\ tok'.linked = tok.linked
        /\ tok'.completed = tok.completed /\ tok'.result = tok.result
    BY <2>1 DEF TokenInv, Token
  <2> QED BY <2>2, <2>3 DEF TokenInv, StampIsOwn, Parked, OneStamp
<1> QED BY <1>1, <1>2

----------------------------------------------------------------------------
(***************************************************************************)
(* The type invariant in two parts: the rows, and the workers with the row *)
(* locks they hold.                                                        *)
(***************************************************************************)
RowsOK ==
  /\ runs \in [AgentRuns -> AgentRun]
  /\ ask \in [AgentRuns -> Asks]
  /\ human \in [Humans -> Decision]
  /\ wf \in {"open", "failed", "succeeded"}
  /\ count \in [faults : Nat, decisions : Nat]

WorkOK ==
  /\ lock \in [AgentRuns -> Workers \cup {NoWorker}]
  /\ wk \in [Workers -> Worker]
  /\ \A w \in Workers : wk[w].pc = "idle" <=> wk[w].run = NoRun
  /\ \A r \in AgentRuns, w \in Workers : lock[r] = w => wk[w].run = r

Inv == TokenInv /\ RowsOK /\ WorkOK

\* The run of a worker in the loop is a run.
LEMMA RunOfWorker ==
  ASSUME WorkOK, NEW w \in Workers, wk[w].pc # "idle"
  PROVE  wk[w].run \in AgentRuns
BY DEF WorkOK, Worker, MaybeRun

\* Leaving a run gives its lock back.
LEMMA LeaveWork ==
  ASSUME WorkOK, NEW w \in Workers, Leave(w)
  PROVE  /\ WorkOK'
         /\ wk'[w].pc = "idle" /\ wk'[w].run = NoRun /\ wk'[w].todo = wk[w].todo
         /\ \A v \in Workers : v # w => wk'[v] = wk[v]
         /\ \A r \in AgentRuns : lock'[r] = IF lock[r] = w THEN NoWorker ELSE lock[r]
<1> DEFINE left == [Free EXCEPT !.todo = wk[w].todo]
<1>1. left \in Worker /\ left.pc = "idle" /\ left.run = NoRun /\ left.todo = wk[w].todo
  BY DEF WorkOK, Worker, Free, MaybeRun
<1>2. wk' = [wk EXCEPT ![w] = left] /\ lock' = [r \in AgentRuns |-> IF lock[r] = w THEN NoWorker ELSE lock[r]]
  BY DEF Leave
<1> HIDE DEF left
<1>3. wk' \in [Workers -> Worker] /\ wk'[w] = left /\ \A v \in Workers : v # w => wk'[v] = wk[v]
  BY <1>1, <1>2 DEF WorkOK
<1>4. lock' \in [AgentRuns -> Workers \cup {NoWorker}]
  BY <1>2 DEF WorkOK
<1>5. \A r \in AgentRuns : lock'[r] = IF lock[r] = w THEN NoWorker ELSE lock[r]
  BY <1>2
<1> USE BridgeAssumption
<1>6. \A v \in Workers : wk'[v].pc = "idle" <=> wk'[v].run = NoRun
  BY <1>1, <1>3 DEF WorkOK
<1>7. \A r \in AgentRuns, v \in Workers : lock'[r] = v => wk'[v].run = r
  BY <1>3, <1>5 DEF WorkOK
<1> QED BY <1>1, <1>3, <1>4, <1>5, <1>6, <1>7 DEF WorkOK

\* Moving a worker within its run, with its locks or without them.
LEMMA MoveWork ==
  ASSUME WorkOK, NEW w \in Workers, NEW x \in Worker, x.run = wk[w].run, x.pc # "idle",
         wk[w].pc # "idle", wk' = [wk EXCEPT ![w] = x],
         lock' \in [AgentRuns -> Workers \cup {NoWorker}],
         \A r \in AgentRuns : lock'[r] = lock[r] \/ lock'[r] = NoWorker \/ (lock'[r] = w /\ r = wk[w].run)
  PROVE  WorkOK'
<1> USE BridgeAssumption
<1>1. wk' \in [Workers -> Worker] /\ wk'[w] = x /\ \A v \in Workers : v # w => wk'[v] = wk[v]
  BY DEF WorkOK
<1>2. \A v \in Workers : wk'[v].pc = "idle" <=> wk'[v].run = NoRun
  BY <1>1 DEF WorkOK
<1>3. \A r \in AgentRuns, v \in Workers : lock'[r] = v => wk'[v].run = r
  BY <1>1 DEF WorkOK
<1> QED BY <1>1, <1>2, <1>3 DEF WorkOK

\* The heartbeat takes the lock of the worker's own run or none.
LEMMA HeartbeatLock ==
  ASSUME WorkOK, NEW w \in Workers, wk[w].pc # "idle", Heartbeat(w)
  PROVE  /\ lock' \in [AgentRuns -> Workers \cup {NoWorker}]
         /\ \A r \in AgentRuns : lock'[r] = lock[r] \/ (lock'[r] = w /\ r = wk[w].run)
         /\ runs[wk[w].run].status = "running" => lock'[wk[w].run] = w
<1>1. wk[w].run \in AgentRuns BY RunOfWorker
<1> QED BY <1>1 DEF WorkOK, Heartbeat

\* A terminal transition keeps the rows in their vocabulary.
LEMMA FinalizeRows ==
  ASSUME RowsOK, NEW r \in AgentRuns, NEW s \in Terminal, Finalize(r, s), UNCHANGED <<human, wf, count>>
  PROVE  /\ RowsOK'
         /\ \A q \in AgentRuns : q # r => runs'[q] = runs[q]
         /\ runs'[r].status = IF runs[r].status \in Nonterminal THEN s ELSE runs[r].status
<1>1. CASE runs[r].status \in Nonterminal
  <2>1. runs' = [runs EXCEPT ![r].status = s] /\ ask' = [ask EXCEPT ![r] = IF @ = "question" THEN "none" ELSE @]
    BY <1>1 DEF Finalize
  <2> QED BY <1>1, <2>1 DEF RowsOK, AgentRun, Asks
<1>2. CASE runs[r].status \notin Nonterminal
  BY <1>2 DEF Finalize, RowsOK
<1> QED BY <1>1, <1>2

LEMMA CancelRows ==
  ASSUME RowsOK, NEW S \in SUBSET AgentRuns, runs' = Cancelled(S)
  PROVE  /\ runs' \in [AgentRuns -> AgentRun]
         /\ \A r \in AgentRuns : \/ runs'[r] = runs[r]
                                  \/ /\ runs[r].status \in Nonterminal
                                     /\ runs'[r].status = "cancelled"
                                     /\ r \in S
BY DEF RowsOK, Cancelled, AgentRun, Terminal

----------------------------------------------------------------------------
LEMMA InvInit == Init => Inv
<1> SUFFICES ASSUME Init PROVE Inv OBVIOUS
<1> USE BridgeAssumption
<1>1. TokenInv
  <2>1. tok \in Token BY DEF Init, Arrived, Token, MaybeRun
  <2>2. tok.status = "active" /\ tok.completed = NoRun /\ tok.result = NoRun BY DEF Init, Arrived
  <2> QED BY <2>1, <2>2 DEF TokenInv, StampIsOwn, Parked, OneStamp
<1>2. RowsOK BY DEF Init, RowsOK, AgentRun, Unborn, Asks, Undecided, Decision, MaybeRun
<1>3. WorkOK
  <2>1. Free \in Worker /\ Free.pc = "idle" /\ Free.run = NoRun BY DEF Free, Worker, MaybeRun
  <2> QED BY <2>1 DEF Init, WorkOK
<1> QED BY <1>1, <1>2, <1>3 DEF Inv

\* The steps of the token that touch no worker and no decision.
LEMMA TokenSteps ==
  ASSUME Inv,
         \/ TokenStep \/ LoopBack \/ ResumeDue \/ Reconcile \/ WorkflowFails
         \/ WorkflowTerminates \/ RetryRun
  PROVE  TokenInv' /\ RowsOK' /\ UNCHANGED <<lock, wk, human>>
<1> USE BridgeAssumption
<1>t. tok \in Token /\ TokenInv /\ RowsOK BY DEF Inv, TokenInv
<1>c. ASSUME CancelAll PROVE runs' \in [AgentRuns -> AgentRun] /\ ask' \in [AgentRuns -> Asks]
  <2>1. runs' \in [AgentRuns -> AgentRun] BY <1>t, <1>c, CancelRows DEF CancelAll
  <2> QED BY <2>1, <1>t, <1>c DEF CancelAll, RowsOK, Asks
<1>f. ASSUME NEW code, NEW caught, FailureOutcome(code, caught)
      PROVE  runs' \in [AgentRuns -> AgentRun] /\ ask' \in [AgentRuns -> Asks]
             /\ wf' \in {"open", "failed", "succeeded"}
  <2>1. CASE code \in Caught BY <2>1, <1>f, <1>t DEF FailureOutcome, RowsOK
  <2>2. CASE code \notin Caught BY <2>2, <1>f, <1>t, <1>c DEF FailureOutcome, RowsOK
  <2> QED BY <2>1, <2>2
<1>1. ASSUME NEW r \in AgentRuns, Enqueue(r) PROVE TokenInv' /\ RowsOK' /\ UNCHANGED <<lock, wk, human>>
  <2>1. PICK sla \in Sla : tok' = [tok EXCEPT !.status = "waiting", !.key = r, !.linked = r,
                                               !.due = sla, !.armed = sla]
    BY <1>1 DEF Enqueue
  <2>2. sla \in BOOLEAN OBVIOUS
  <2>3. tok' \in Token BY <1>t, <2>1, <2>2 DEF Token, MaybeRun
  <2>4. tok'.key = r /\ tok'.linked = r /\ tok'.completed = NoRun /\ tok'.result = NoRun
    BY <1>1, <1>t, <2>1 DEF Enqueue, Fresh, Token
  <2>5. runs' \in [AgentRuns -> AgentRun] BY <1>1, <1>t DEF Enqueue, RowsOK, AgentRun, Nonterminal
  <2> QED BY <1>1, <1>t, <2>3, <2>4, <2>5 DEF Enqueue, TokenInv, StampIsOwn, Parked, OneStamp, RowsOK
<1>2. CASE SetupFailure
  <2>1. TokenInv' BY <1>2, <1>t, FailureKeeps DEF SetupFailure, Fresh
  <2>2. RowsOK' BY <1>2, <1>t, <1>f DEF SetupFailure, RowsOK
  <2> QED BY <1>2, <2>1, <2>2 DEF SetupFailure
<1>3. CASE ConsumeCompletion
  <2>1. tok' = [MovedOn(tok) EXCEPT !.completed = NoRun] BY <1>3 DEF ConsumeCompletion
  <2>2. tok' \in Token BY <2>1, <1>t DEF MovedOn, Token, MaybeRun
  <2>3. tok'.status = "active" /\ tok'.completed = NoRun /\ tok'.result = tok.result
    BY <2>1, <1>t DEF MovedOn, Token
  <2>4. tok.result = NoRun BY <1>3, <1>t DEF ConsumeCompletion, TokenInv, OneStamp
  <2> QED BY <1>3, <1>t, <2>2, <2>3, <2>4
          DEF ConsumeCompletion, TokenInv, StampIsOwn, Parked, OneStamp, RowsOK
<1>4. CASE ConsumeResult
  <2> DEFINE caught == [tok EXCEPT !.result = NoRun, !.code = "failed"]
  <2>1. caught \in Token /\ caught.completed = NoRun /\ caught.result = NoRun
    BY <1>4, <1>t DEF ConsumeResult, Token, MaybeRun
  <2>2. FailureOutcome(tok.code, caught) BY <1>4 DEF ConsumeResult
  <2> HIDE DEF caught
  <2>3. TokenInv' BY <1>t, <2>1, <2>2, FailureKeeps
  <2>4. RowsOK' BY <1>4, <1>t, <1>f, <2>2 DEF ConsumeResult, RowsOK
  <2> QED BY <1>4, <2>3, <2>4 DEF ConsumeResult
<1>5. CASE SlaFires
  <2>1. tok.linked \in AgentRuns BY <1>5, <1>t DEF SlaFires, Token, MaybeRun
  <2>2. runs' \in [AgentRuns -> AgentRun] BY <1>5, <1>t, <2>1, CancelRows DEF SlaFires
  <2>3. ask' \in [AgentRuns -> Asks] BY <1>5, <1>t, <2>1 DEF SlaFires, RowsOK, Asks
  <2>4. tok' = MovedOn(tok) /\ tok.completed = NoRun /\ tok.result = NoRun BY <1>5 DEF SlaFires, Fresh
  <2>5. tok' \in Token BY <2>4, <1>t DEF MovedOn, Token, MaybeRun
  <2>6. tok'.status = "active" /\ tok'.completed = NoRun /\ tok'.result = NoRun
    BY <2>4, <1>t DEF MovedOn, Token
  <2> QED BY <1>5, <1>t, <2>2, <2>3, <2>5, <2>6
          DEF SlaFires, TokenInv, StampIsOwn, Parked, OneStamp, RowsOK
<1>6. CASE Repark
  <2>1. tok' = [tok EXCEPT !.status = "waiting", !.key = tok.linked] BY <1>6 DEF Repark
  <2>2. tok' \in Token BY <2>1, <1>t DEF Token
  <2>3. tok'.key = tok'.linked /\ tok'.completed = NoRun /\ tok'.result = NoRun
    BY <1>6, <2>1, <1>t DEF Repark, Fresh, Token
  <2> QED BY <1>6, <1>t, <2>2, <2>3 DEF Repark, TokenInv, StampIsOwn, Parked, OneStamp, RowsOK
<1>7. CASE TokenStep BY <1>7, <1>1, <1>2, <1>3, <1>4, <1>5, <1>6 DEF TokenStep
<1>8. ASSUME LoopBack \/ ResumeDue \/ RetryRun PROVE TokenInv' /\ RowsOK' /\ UNCHANGED <<lock, wk, human>>
  <2>1. tok' \in Token
    <3>1. CASE LoopBack BY <3>1, <1>t DEF LoopBack, Token
    <3>2. CASE ResumeDue BY <3>2, <1>t DEF ResumeDue, Token
    <3>3. CASE RetryRun BY <3>3, <1>t DEF RetryRun, Token
    <3> QED BY <1>8, <3>1, <3>2, <3>3
  <2>2. /\ tok'.status = "active" /\ tok'.linked = tok.linked
        /\ tok'.completed = tok.completed /\ tok'.result = tok.result
    BY <1>8, <1>t DEF LoopBack, ResumeDue, RetryRun, Token
  <2>3. TokenInv' BY <2>1, <2>2, <1>t DEF TokenInv, StampIsOwn, Parked, OneStamp
  <2>4. RowsOK' BY <1>8, <1>t DEF LoopBack, ResumeDue, RetryRun, RowsOK
  <2> QED BY <1>8, <2>3, <2>4 DEF LoopBack, ResumeDue, RetryRun
<1>9. CASE Reconcile
  <2>1. tok.key \in AgentRuns /\ ParkedOn(tok.key) BY <1>9, <1>t DEF Reconcile, ParkedOn, Token, MaybeRun
  <2>2. TokenInv' BY <1>9, <1>t, <2>1, StampKeeps DEF Reconcile
  <2> QED BY <1>9, <1>t, <2>2 DEF Reconcile, RowsOK
<1>10. ASSUME WorkflowFails \/ WorkflowTerminates PROVE TokenInv' /\ RowsOK' /\ UNCHANGED <<lock, wk, human>>
  <2>1. tok' = tok \/ tok' = [tok EXCEPT !.status = "dead"] BY <1>10 DEF WorkflowFails, WorkflowTerminates
  <2>2. tok' \in Token BY <2>1, <1>t DEF Token
  <2>3. /\ tok'.status = "waiting" => tok.status = "waiting"
        /\ tok'.linked = tok.linked /\ tok'.key = tok.key
        /\ tok'.completed = tok.completed /\ tok'.result = tok.result
    BY <2>1, <1>t DEF Token
  <2>4. TokenInv' BY <2>2, <2>3, <1>t DEF TokenInv, StampIsOwn, Parked, OneStamp
  <2>5. RowsOK' BY <1>10, <1>t, <1>c DEF WorkflowFails, WorkflowTerminates, RowsOK
  <2> QED BY <1>10, <2>4, <2>5 DEF WorkflowFails, WorkflowTerminates
<1> QED BY <1>7, <1>8, <1>9, <1>10

\* The steps of a worker, of the lease sweep and of a person.
LEMMA WorkSteps ==
  ASSUME Inv, NEW w \in Workers, Execute(w) \/ Steer(w) \/ Crash(w)
  PROVE  Inv'
<1> USE BridgeAssumption
<1>t. TokenInv /\ RowsOK /\ WorkOK BY DEF Inv
<1>k. ASSUME UNCHANGED <<tok, runs, ask, human, wf>>, count' = count \/ RowsOK' PROVE TokenInv' /\ RowsOK'
  BY <1>t, <1>k DEF TokenInv, StampIsOwn, Parked, OneStamp, RowsOK
<1>w. wk[w] \in Worker BY <1>t DEF WorkOK
<1>e. ASSUME NEW s \in Terminal, wk[w].pc # "idle", Finalize(wk[w].run, s), Leave(w),
             UNCHANGED <<human, wf, count>>
      PROVE  Inv'
  <2>1. wk[w].run \in AgentRuns BY <1>e, <1>t, RunOfWorker
  <2> QED BY <1>e, <1>t, <2>1, FinalizeKeeps, FinalizeRows, LeaveWork DEF Inv
<1>m. ASSUME NEW kind \in Asks, wk[w].pc # "idle", MarkWaiting(w, kind) PROVE Inv'
  <2>1. wk[w].run \in AgentRuns BY <1>m, <1>t, RunOfWorker
  <2>2. WorkOK' BY <1>m, <1>t, LeaveWork DEF MarkWaiting
  <2>3. RowsOK' BY <1>m, <1>t, <2>1 DEF MarkWaiting, RowsOK, AgentRun, Nonterminal
  <2>4. TokenInv' BY <1>m, <1>t DEF MarkWaiting, TokenInv, StampIsOwn, Parked, OneStamp
  <2> QED BY <2>2, <2>3, <2>4 DEF Inv
<1>1. CASE Claim(w)
  <2>1. runs' \in [AgentRuns -> AgentRun] BY <1>1, <1>t DEF Claim, RowsOK, AgentRun, Nonterminal
  <2>2. WorkOK'
    <3> DEFINE x == [wk[w] EXCEPT !.todo = Queued]
    <3>1. x \in Worker /\ x.pc = wk[w].pc /\ x.run = wk[w].run BY <1>w DEF Worker, Queued
    <3>2. wk' = [wk EXCEPT ![w] = x] /\ lock' = lock BY <1>1 DEF Claim
    <3> HIDE DEF x
    <3> QED BY <3>1, <3>2, <1>t DEF WorkOK
  <2> QED BY <1>1, <1>t, <2>1, <2>2 DEF Claim, Inv, TokenInv, StampIsOwn, Parked, OneStamp, RowsOK
<1>2. ASSUME NEW r \in AgentRuns, Start(w, r) PROVE Inv'
  <2> DEFINE x == [wk[w] EXCEPT !.todo = wk[w].todo \ {r},
                     !.run = IF runs[r].status = "running" THEN r ELSE NoRun,
                     !.pc = IF runs[r].status = "running" THEN "top" ELSE "idle"]
  <2>1. /\ x \in Worker /\ (x.pc = "idle" <=> x.run = NoRun)
    BY <1>w DEF Worker, MaybeRun
  <2>2. wk' = [wk EXCEPT ![w] = x] /\ lock' = lock BY <1>2 DEF Start
  <2> HIDE DEF x
  <2>3. wk' \in [Workers -> Worker] /\ wk'[w] = x /\ \A v \in Workers : v # w => wk'[v] = wk[v]
    BY <2>1, <2>2, <1>t DEF WorkOK
  <2>4. \A q \in AgentRuns : lock[q] # w BY <1>2, <1>t DEF Start, WorkOK
  <2>5. WorkOK' BY <2>1, <2>2, <2>3, <2>4, <1>t DEF WorkOK
  <2> QED BY <1>2, <1>k, <2>5 DEF Start, Inv
<1>3. CASE Unable(w) BY <1>3, <1>e DEF Unable, Terminal
<1>4. CASE TopCheck(w)
  <2>1. CASE runs[wk[w].run].status = "running"
    <3> DEFINE x == [wk[w] EXCEPT !.pc = "stream"]
    <3>1. x \in Worker /\ x.pc # "idle" /\ x.run = wk[w].run BY <1>w DEF Worker
    <3>2. wk' = [wk EXCEPT ![w] = x] /\ lock' = lock BY <1>4, <2>1 DEF TopCheck
    <3> HIDE DEF x
    <3>3. WorkOK' BY <1>4, <1>t, <3>1, <3>2, MoveWork DEF TopCheck, WorkOK
    <3> QED BY <1>4, <1>k, <3>3 DEF TopCheck, Inv
  <2>2. CASE runs[wk[w].run].status # "running"
    BY <1>4, <2>2, <1>t, <1>k, LeaveWork DEF TopCheck, Inv
  <2> QED BY <2>1, <2>2
<1>5. CASE ToolCalls(w)
  <2> DEFINE x == [wk[w] EXCEPT !.pc = "gate"]
  <2>1. x \in Worker /\ x.pc # "idle" /\ x.run = wk[w].run BY <1>w DEF Worker
  <2>2. wk' = [wk EXCEPT ![w] = x] /\ wk[w].pc # "idle" BY <1>5 DEF ToolCalls
  <2> HIDE DEF x
  <2>h. Heartbeat(w) BY <1>5 DEF ToolCalls
  <2>3. WorkOK' BY <1>t, <2>1, <2>2, <2>h, HeartbeatLock, MoveWork
  <2> QED BY <1>5, <1>k, <2>3 DEF ToolCalls, Inv
<1>6. CASE Batch(w)
  <2>1. CASE runs[wk[w].run].status = "running"
    <3> DEFINE x == [wk[w] EXCEPT !.pc = "batch"]
    <3>1. x \in Worker /\ x.pc # "idle" /\ x.run = wk[w].run BY <1>w DEF Worker
    <3>2. wk' = [wk EXCEPT ![w] = x] /\ lock' = lock BY <1>6, <2>1 DEF Batch
    <3> HIDE DEF x
    <3>3. WorkOK' BY <1>6, <1>t, <3>1, <3>2, MoveWork DEF Batch, WorkOK
    <3> QED BY <1>6, <1>k, <3>3 DEF Batch, Inv
  <2>2. CASE runs[wk[w].run].status # "running"
    BY <1>6, <2>2, <1>t, <1>k, LeaveWork DEF Batch, Inv
  <2> QED BY <2>1, <2>2
<1>7. ASSUME NextTurn(w) \/ Nudge(w) PROVE Inv'
  <2> DEFINE x == [wk[w] EXCEPT !.pc = "top", !.turn = wk[w].turn + 1]
  <2>n. wk[w].turn + 1 \in Nat BY <1>w DEF Worker
  <2>1. x \in Worker /\ x.pc # "idle" /\ x.run = wk[w].run BY <1>w, <2>n DEF Worker
  <2>2. wk' = [wk EXCEPT ![w] = x] /\ wk[w].pc # "idle" /\ Heartbeat(w) BY <1>7 DEF NextTurn, Nudge
  <2> HIDE DEF x
  <2>3. WorkOK' BY <1>t, <2>1, <2>2, HeartbeatLock, MoveWork
  <2> QED BY <1>7, <1>k, <2>3 DEF NextTurn, Nudge, Inv
<1>8. CASE ParkForApproval(w) BY <1>8, <1>m DEF ParkForApproval, Asks
<1>9. CASE ParkOnQuestion(w) BY <1>9, <1>m DEF ParkOnQuestion, Asks
<1>10. CASE Raise(w)
  <2> DEFINE x == [wk[w] EXCEPT !.pc = "failed"]
  <2>1. x \in Worker /\ x.pc # "idle" /\ x.run = wk[w].run BY <1>w DEF Worker
  <2>2. wk' = [wk EXCEPT ![w] = x] /\ wk[w].pc # "idle" BY <1>10 DEF Raise
  <2> HIDE DEF x
  <2>3. lock' = [r \in AgentRuns |-> IF lock[r] = w THEN NoWorker ELSE lock[r]] BY <1>10 DEF Raise
  <2>4. lock' \in [AgentRuns -> Workers \cup {NoWorker}] BY <2>3, <1>t DEF WorkOK
  <2>5. \A r \in AgentRuns : lock'[r] = lock[r] \/ lock'[r] = NoWorker BY <2>3
  <2>6. WorkOK' BY <1>t, <2>1, <2>2, <2>4, <2>5, MoveWork
  <2> QED BY <1>10, <1>k, <2>6 DEF Raise, Inv
<1>11. CASE MarkError(w) BY <1>11, <1>e DEF MarkError, Terminal
<1>12. ASSUME NEW s \in Terminal, Finish(w, s) PROVE Inv' BY <1>12, <1>e DEF Finish
<1>13. CASE Steer(w)
  <2>1. lock' \in [AgentRuns -> Workers \cup {NoWorker}] BY <1>13, <1>t DEF Steer, WorkOK
  <2>2. \A r \in AgentRuns : lock'[r] = lock[r] \/ lock'[r] = NoWorker BY <1>13 DEF Steer
  <2>3. WorkOK' BY <1>13, <1>t, <2>1, <2>2 DEF Steer, WorkOK
  <2> QED BY <1>13, <1>k, <2>3 DEF Steer, Inv
<1>14. CASE Crash(w)
  <2>1. Free \in Worker /\ Free.pc = "idle" /\ Free.run = NoRun BY DEF Free, Worker, MaybeRun
  <2>2. lock' = [r \in AgentRuns |-> IF lock[r] = w THEN NoWorker ELSE lock[r]] BY <1>14 DEF Crash
  <2>3. lock' \in [AgentRuns -> Workers \cup {NoWorker}] BY <2>2, <1>t DEF WorkOK
  <2>4. wk' = [wk EXCEPT ![w] = Free] BY <1>14 DEF Crash
  <2>5. WorkOK' BY <2>1, <2>2, <2>3, <2>4, <1>t DEF WorkOK
  <2>6. RowsOK' BY <1>14, <1>t DEF Crash, RowsOK
  <2> QED BY <1>14, <1>k, <2>5, <2>6 DEF Crash, Inv
<1> QED BY <1>1, <1>2, <1>3, <1>4, <1>5, <1>6, <1>7, <1>8, <1>9, <1>10, <1>11, <1>12, <1>13, <1>14 DEF Execute

\* The lease sweep and the decisions of people.
LEMMA OtherSteps ==
  ASSUME Inv,
         \/ \E r \in AgentRuns : Reclaim(r) \/ TooLate(r)
         \/ \E h \in Humans : Write(h) \/ \E r \in AgentRuns, verb \in {"resume", "deny"} : Read(h, r, verb)
  PROVE  Inv'
<1> USE BridgeAssumption
<1>t. TokenInv /\ RowsOK /\ WorkOK BY DEF Inv
<1>1. ASSUME NEW r \in AgentRuns, Reclaim(r) PROVE Inv'
  <2>1. WorkOK' BY <1>1, <1>t DEF Reclaim, WorkOK
  <2>2. CASE runs[r].requeues >= 1
    <3>1. Finalize(r, "error") BY <1>1, <2>2 DEF Reclaim
    <3>2. RowsOK' BY <1>1, <3>1, <1>t, FinalizeRows DEF Reclaim, Terminal
    <3> QED BY <3>1, <3>2, <2>1, <1>t, FinalizeKeeps DEF Inv
  <2>3. CASE ~(runs[r].requeues >= 1)
    <3>1. runs' = [runs EXCEPT ![r] = [status |-> "queued", requeues |-> 1]] /\ UNCHANGED <<tok, ask>>
      BY <1>1, <2>3 DEF Reclaim
    <3>2. RowsOK' BY <1>1, <3>1, <1>t DEF Reclaim, RowsOK, AgentRun, Nonterminal
    <3>3. TokenInv' BY <3>1, <1>t DEF TokenInv, StampIsOwn, Parked, OneStamp
    <3> QED BY <2>1, <3>2, <3>3 DEF Inv
  <2> QED BY <2>2, <2>3
<1>2. ASSUME NEW r \in AgentRuns, TooLate(r) PROVE Inv'
  <2>1. WorkOK' BY <1>2, <1>t DEF TooLate, WorkOK
  <2>2. RowsOK' BY <1>2, <1>t DEF TooLate, RowsOK, Asks
  <2>3. TokenInv' BY <1>2, <1>t DEF TooLate, TokenInv, StampIsOwn, Parked, OneStamp
  <2> QED BY <2>1, <2>2, <2>3 DEF Inv
<1>3. ASSUME NEW h \in Humans, NEW r \in AgentRuns, NEW verb \in {"resume", "deny"}, Read(h, r, verb) PROVE Inv'
  <2>1. WorkOK' BY <1>3, <1>t DEF Read, WorkOK
  <2>2. human' \in [Humans -> Decision] BY <1>3, <1>t DEF Read, RowsOK, Decision, MaybeRun
  <2>3. count' \in [faults : Nat, decisions : Nat] BY <1>3, <1>t DEF Read, RowsOK
  <2>4. RowsOK' BY <1>3, <1>t, <2>2, <2>3 DEF Read, RowsOK
  <2>5. TokenInv' BY <1>3, <1>t DEF Read, TokenInv, StampIsOwn, Parked, OneStamp
  <2> QED BY <2>1, <2>4, <2>5 DEF Inv
<1>4. ASSUME NEW h \in Humans, Write(h) PROVE Inv'
  <2> DEFINE r == human[h].run
  <2>r. r \in AgentRuns BY <1>4, <1>t DEF Write, RowsOK, Decision, MaybeRun
  <2>1. WorkOK' BY <1>4, <1>t DEF Write, WorkOK
  <2>2. human' \in [Humans -> Decision] BY <1>4, <1>t DEF Write, RowsOK, Decision, MaybeRun, Undecided
  <2>3. ask' \in [AgentRuns -> Asks] BY <1>4, <1>t, <2>r DEF Write, RowsOK, Asks
  <2>4. \/ runs' = runs /\ tok' = tok
        \/ runs' = [runs EXCEPT ![r].status = "error"] /\ tok' = WireBack(r, "error")
        \/ runs' = [runs EXCEPT ![r].status = "queued"] /\ tok' = tok
    BY <1>4 DEF Write
  <2>5. runs' \in [AgentRuns -> AgentRun] BY <2>r, <2>4, <1>t DEF RowsOK, AgentRun, Nonterminal, Terminal
  <2>6. RowsOK' BY <1>4, <1>t, <2>2, <2>3, <2>5 DEF Write, RowsOK
  <2>7. TokenInv'
    <3>1. CASE tok' = tok BY <3>1, <1>t DEF TokenInv, StampIsOwn, Parked, OneStamp
    <3>2. CASE tok' = WireBack(r, "error") BY <3>2, <2>r, <1>t, WireBackKeeps
    <3> QED BY <2>4, <3>1, <3>2
  <2> QED BY <2>1, <2>6, <2>7 DEF Inv
<1> QED BY <1>1, <1>2, <1>3, <1>4

LEMMA InvStep == Inv /\ [Next]_vars => Inv'
<1> SUFFICES ASSUME Inv, [Next]_vars PROVE Inv' OBVIOUS
<1>1. CASE \/ TokenStep \/ LoopBack \/ ResumeDue \/ Reconcile \/ WorkflowFails
           \/ WorkflowTerminates \/ RetryRun
  BY <1>1, TokenSteps DEF Inv, WorkOK
<1>2. CASE \E w \in Workers : Execute(w) \/ Steer(w) \/ Crash(w)
  BY <1>2, WorkSteps
<1>3. CASE \/ \E r \in AgentRuns : Reclaim(r) \/ TooLate(r)
           \/ \E h \in Humans : Write(h) \/ \E r \in AgentRuns, verb \in {"resume", "deny"} : Read(h, r, verb)
  BY <1>3, OtherSteps
<1>4. CASE UNCHANGED vars
  BY <1>4 DEF vars, Inv, TokenInv, StampIsOwn, Parked, OneStamp, RowsOK, WorkOK
<1> QED BY <1>1, <1>2, <1>3, <1>4 DEF Next

LEMMA InvHolds == Spec => []Inv
BY InvInit, InvStep, PTL DEF Spec

\* Every column keeps a value of its vocabulary, a worker in the loop has a
\* run, and only the worker that executes a run has its row lock, however
\* many runs, workers and people there are.
THEOREM BridgeTypeCorrect == Spec => []TypeOK
<1>1. Inv => TypeOK BY BridgeAssumption DEF Inv, TokenInv, RowsOK, WorkOK, TypeOK
<1> QED BY <1>1, InvHolds, PTL

\* resume_token_for_run and the backstop never stamp a token with the outcome
\* of a run it is not linked to, whatever is delivered late or twice.
THEOREM StampCorrect == Spec => []StampIsOwn
<1>1. Inv => StampIsOwn BY DEF Inv, TokenInv
<1> QED BY <1>1, InvHolds, PTL

----------------------------------------------------------------------------
(***************************************************************************)
(* The second invariant.  A run some worker has is running or has ended, so *)
(* it cannot be claimed; a run somebody decides on is waiting or has ended, *)
(* and no worker has it; a row lock means that the row says "running", and  *)
(* a batch is only ever run under the lock.                                 *)
(***************************************************************************)
Has(w, r) == r \in wk[w].todo \/ wk[w].run = r

OneHas == \A r \in AgentRuns, v, w \in Workers : Has(v, r) /\ Has(w, r) => v = w
Begun == \A w \in Workers : wk[w].run \notin wk[w].todo
Live == \A w \in Workers, r \in AgentRuns : Has(w, r) => runs[r].status \in {"running"} \cup Terminal
Deciding ==
  \A h \in Humans, r \in AgentRuns :
     human[h].run = r => /\ runs[r].status \in {"waiting"} \cup Terminal
                         /\ \A w \in Workers : ~Has(w, r)
LockRunning == \A r \in AgentRuns : lock[r] # NoWorker => runs[r].status = "running"
Guarded ==
  \A w \in Workers :
     /\ wk[w].pc = "gate" => lock[wk[w].run] = w \/ runs[wk[w].run].status \in Terminal
     /\ wk[w].pc = "batch" => lock[wk[w].run] = w

Safe == OneHas /\ Begun /\ Live /\ Deciding /\ LockRunning /\ Guarded

\* What everybody but a worker and a person may do to a row: nothing, or one of
\* these transitions while nobody has its lock.
RowChange(r) ==
  \/ runs'[r].status = runs[r].status
  \/ /\ lock[r] = NoWorker
     /\ \/ runs[r].status = "none" /\ runs'[r].status = "queued"
        \/ runs[r].status \in Nonterminal /\ runs'[r].status \in Terminal
        \/ runs[r].status = "running" /\ runs'[r].status = "queued" /\ \A w \in Workers : ~Has(w, r)

LEMMA RowsSafe ==
  ASSUME WorkOK, Safe, \A r \in AgentRuns : RowChange(r), UNCHANGED <<lock, wk, human>>
  PROVE  Safe'
<1> USE BridgeAssumption DEF Has
<1>1. OneHas' /\ Begun' BY DEF Safe, OneHas, Begun
<1>2. Live' BY DEF Safe, Live, RowChange, Terminal
<1>3. Deciding' BY DEF Safe, Deciding, RowChange, Terminal
<1>4. LockRunning' BY DEF Safe, LockRunning, RowChange
<1>5. Guarded'
  <2> SUFFICES ASSUME NEW w \in Workers
               PROVE  /\ wk'[w].pc = "gate" => lock'[wk'[w].run] = w \/ runs'[wk'[w].run].status \in Terminal
                      /\ wk'[w].pc = "batch" => lock'[wk'[w].run] = w
    BY DEF Guarded
  <2>1. CASE wk[w].pc \in {"gate", "batch"}
    <3>1. wk[w].run \in AgentRuns BY <2>1, RunOfWorker
    <3>2. RowChange(wk[w].run) BY <3>1
    <3> QED BY <3>1, <3>2 DEF Safe, Guarded, RowChange, Nonterminal, Terminal
  <2> QED BY <2>1
<1> QED BY <1>1, <1>2, <1>3, <1>4, <1>5 DEF Safe

\* A worker leaves its run, which it has parked, ended or left alone.
LEMMA LeaveSafe ==
  ASSUME WorkOK, Safe, NEW w \in Workers, wk[w].pc # "idle", Leave(w), human' = human,
         Unlocked(wk[w].run, w) \/ runs' = runs,
         \A r \in AgentRuns : r # wk[w].run => runs'[r] = runs[r],
         runs'[wk[w].run].status \in {runs[wk[w].run].status, "waiting"} \cup Terminal
  PROVE  Safe'
<1> USE BridgeAssumption DEF Has
<1>q. PICK q \in AgentRuns : q = wk[w].run BY RunOfWorker
<1>l. /\ WorkOK'
      /\ wk'[w].pc = "idle" /\ wk'[w].run = NoRun /\ wk'[w].todo = wk[w].todo
      /\ \A v \in Workers : v # w => wk'[v] = wk[v]
      /\ \A r \in AgentRuns : lock'[r] = IF lock[r] = w THEN NoWorker ELSE lock[r]
  BY LeaveWork
<1>h. \A v \in Workers, r \in AgentRuns : Has(v, r)' => Has(v, r)
  BY <1>l DEF WorkOK
<1>n. \A v \in Workers : ~Has(v, q)'
  BY <1>q, <1>l DEF Safe, OneHas, Begun
<1>1. OneHas' BY <1>h DEF Safe, OneHas
<1>2. Begun' BY <1>l DEF Safe, Begun, WorkOK, Worker
<1>3. Live' BY <1>h, <1>n, <1>q DEF Safe, Live
<1>4. Deciding' BY <1>h, <1>q DEF Safe, Deciding
<1>5. LockRunning'
  <2> SUFFICES ASSUME NEW r \in AgentRuns, lock'[r] # NoWorker PROVE runs'[r].status = "running"
    BY DEF LockRunning
  <2>1. lock[r] # NoWorker /\ lock[r] # w /\ runs[r].status = "running" BY <1>l DEF Safe, LockRunning
  <2>2. lock[r] \in Workers BY <2>1 DEF WorkOK
  <2>3. wk[lock[r]].run = r BY <2>2 DEF WorkOK
  <2>4. r # q BY <2>1, <2>2, <2>3, <1>q DEF Safe, OneHas
  <2> QED BY <2>1, <2>4, <1>q
<1>6. Guarded'
  <2> SUFFICES ASSUME NEW v \in Workers, v # w
               PROVE  /\ wk'[v].pc = "gate" => lock'[wk'[v].run] = v \/ runs'[wk'[v].run].status \in Terminal
                      /\ wk'[v].pc = "batch" => lock'[wk'[v].run] = v
    BY <1>l DEF Guarded
  <2>1. wk'[v] = wk[v] BY <1>l
  <2>2. CASE wk[v].pc \in {"gate", "batch"}
    <3>1. wk[v].run \in AgentRuns BY <2>2, RunOfWorker
    <3>2. wk[v].run # q BY <3>1, <1>q DEF Safe, OneHas
    <3> QED BY <2>1, <3>1, <3>2, <1>l, <1>q DEF Safe, Guarded
  <2> QED BY <2>1, <2>2
<1> QED BY <1>1, <1>2, <1>3, <1>4, <1>5, <1>6 DEF Safe

\* A worker goes on with its run; whatever lock it takes is on a running row.
LEMMA MoveSafe ==
  ASSUME WorkOK, Safe, NEW w \in Workers, NEW x \in Worker,
         x.run = wk[w].run, x.todo = wk[w].todo, wk[w].pc # "idle",
         wk' = [wk EXCEPT ![w] = x], UNCHANGED <<runs, human>>,
         lock' \in [AgentRuns -> Workers \cup {NoWorker}],
         \A r \in AgentRuns : \/ lock'[r] = lock[r]
                              \/ lock[r] \in {w, NoWorker} /\ lock'[r] = NoWorker
                              \/ lock[r] \in {w, NoWorker} /\ lock'[r] = w /\ r = wk[w].run /\ runs[r].status = "running",
         x.pc = "gate" => lock'[wk[w].run] = w \/ runs[wk[w].run].status \in Terminal,
         x.pc = "batch" => lock'[wk[w].run] = w
  PROVE  Safe'
<1> USE BridgeAssumption DEF Has
<1>0. wk'[w] = x /\ \A v \in Workers : v # w => wk'[v] = wk[v] BY DEF WorkOK
<1>h. \A v \in Workers, r \in AgentRuns : Has(v, r)' <=> Has(v, r) BY <1>0
<1>1. OneHas' BY <1>h DEF Safe, OneHas
<1>2. Begun' BY <1>0 DEF Safe, Begun
<1>3. Live' BY <1>h DEF Safe, Live
<1>4. Deciding' BY <1>h DEF Safe, Deciding
<1>5. LockRunning' BY DEF Safe, LockRunning
<1>6. Guarded'
  <2> SUFFICES ASSUME NEW v \in Workers
               PROVE  /\ wk'[v].pc = "gate" => lock'[wk'[v].run] = v \/ runs'[wk'[v].run].status \in Terminal
                      /\ wk'[v].pc = "batch" => lock'[wk'[v].run] = v
    BY DEF Guarded
  <2>1. CASE v = w BY <2>1, <1>0
  <2>2. CASE v # w /\ wk[v].pc \in {"gate", "batch"}
    <3>1. wk[v].run \in AgentRuns BY <2>2, RunOfWorker
    <3>2. lock[wk[v].run] = v => lock'[wk[v].run] = v BY <3>1, <2>2
    <3> QED BY <2>2, <3>1, <3>2, <1>0 DEF Safe, Guarded
  <2> QED BY <1>0, <2>1, <2>2
<1> QED BY <1>1, <1>2, <1>3, <1>4, <1>5, <1>6 DEF Safe

\* The workflow side, the lease sweep and late decisions.
LEMMA RowSteps ==
  ASSUME Inv, Safe, ~EarlyExpiry,
         \/ TokenStep \/ LoopBack \/ ResumeDue \/ Reconcile \/ WorkflowFails
         \/ WorkflowTerminates \/ RetryRun
         \/ \E r \in AgentRuns : Reclaim(r) \/ TooLate(r)
  PROVE  Safe'
<1> USE BridgeAssumption
<1>t. tok \in Token /\ RowsOK /\ WorkOK BY DEF Inv, TokenInv
<1>s. ASSUME runs' = runs PROVE \A r \in AgentRuns : RowChange(r)
  BY <1>s DEF RowChange
<1>c. ASSUME NEW S \in SUBSET AgentRuns, Cancellable(S), runs' = Cancelled(S)
      PROVE  \A r \in AgentRuns : RowChange(r)
  BY <1>c, <1>t, CancelRows DEF RowChange, Cancellable, Terminal
<1>f. ASSUME NEW code, NEW caught, FailureOutcome(code, caught) PROVE \A r \in AgentRuns : RowChange(r)
  <2>1. runs' = runs \/ (Cancellable(AgentRuns) /\ runs' = Cancelled(AgentRuns))
    BY <1>f DEF FailureOutcome, CancelAll
  <2> QED BY <2>1, <1>s, <1>c
<1>1. ASSUME NEW r \in AgentRuns, Enqueue(r) PROVE Safe'
  <2>1. runs[r].status = "none" /\ runs' = [runs EXCEPT ![r].status = "queued"] /\ UNCHANGED <<lock, wk, human>>
    BY <1>1 DEF Enqueue
  <2>2. lock[r] = NoWorker BY <2>1 DEF Safe, LockRunning
  <2>3. runs'[r].status = "queued" /\ \A q \in AgentRuns : q # r => runs'[q] = runs[q]
    BY <2>1, <1>t DEF RowsOK, AgentRun
  <2>4. \A q \in AgentRuns : RowChange(q) BY <2>1, <2>2, <2>3 DEF RowChange
  <2> QED BY <2>1, <2>4, <1>t, RowsSafe
<1>2. CASE SetupFailure
  <2>1. \A r \in AgentRuns : RowChange(r) BY <1>2, <1>f DEF SetupFailure
  <2> QED BY <1>2, <2>1, <1>t, RowsSafe DEF SetupFailure
<1>3. CASE ConsumeResult
  <2>1. PICK caught : FailureOutcome(tok.code, caught) BY <1>3 DEF ConsumeResult
  <2>2. \A r \in AgentRuns : RowChange(r) BY <2>1, <1>f
  <2> QED BY <1>3, <2>2, <1>t, RowsSafe DEF ConsumeResult
<1>4. CASE SlaFires
  <2>1. {tok.linked} \in SUBSET AgentRuns BY <1>4, <1>t DEF SlaFires, Token, MaybeRun
  <2>2. \A r \in AgentRuns : RowChange(r) BY <1>4, <2>1, <1>c DEF SlaFires
  <2> QED BY <1>4, <2>2, <1>t, RowsSafe DEF SlaFires
<1>5. CASE WorkflowFails \/ WorkflowTerminates
  <2>1. Cancellable(AgentRuns) /\ runs' = Cancelled(AgentRuns) /\ UNCHANGED <<lock, wk, human>>
    BY <1>5 DEF WorkflowFails, WorkflowTerminates, CancelAll
  <2>2. \A r \in AgentRuns : RowChange(r) BY <2>1, <1>c
  <2> QED BY <2>1, <2>2, <1>t, RowsSafe
<1>6. CASE ConsumeCompletion \/ Repark \/ LoopBack \/ ResumeDue \/ Reconcile \/ RetryRun
           \/ \E r \in AgentRuns : TooLate(r)
  <2>1. UNCHANGED <<runs, lock, wk, human>>
    BY <1>6 DEF ConsumeCompletion, Repark, LoopBack, ResumeDue, Reconcile, RetryRun, TooLate
  <2>2. \A r \in AgentRuns : RowChange(r) BY <2>1, <1>s
  <2> QED BY <2>1, <2>2, <1>t, RowsSafe
<1>7. ASSUME NEW r \in AgentRuns, Reclaim(r) PROVE Safe'
  <2>1. /\ runs[r].status = "running" /\ lock[r] = NoWorker /\ UNCHANGED <<lock, wk, human>>
        /\ \A w \in Workers : ~Has(w, r)
    BY <1>7 DEF Reclaim, Held, Has
  <2>2. /\ runs'[r].status \in {"queued", "error"}
        /\ \A q \in AgentRuns : q # r => runs'[q] = runs[q]
    <3>1. CASE Finalize(r, "error")
      BY <1>7, <3>1, <2>1, <1>t, FinalizeRows DEF Reclaim, Terminal, Nonterminal
    <3>2. CASE runs' = [runs EXCEPT ![r] = [status |-> "queued", requeues |-> 1]]
      BY <3>2, <1>t DEF RowsOK
    <3> QED BY <1>7, <3>1, <3>2 DEF Reclaim
  <2>3. \A q \in AgentRuns : RowChange(q) BY <2>1, <2>2 DEF RowChange, Nonterminal, Terminal
  <2> QED BY <2>1, <2>3, <1>t, RowsSafe
<1> QED BY <1>1, <1>2, <1>3, <1>4, <1>5, <1>6, <1>7 DEF TokenStep

\* A person reads that a run waits and later writes the decision: in between
\* nobody but a cancellation may have touched the run.
LEMMA HumanSteps ==
  ASSUME Inv, Safe, \A g, h \in Humans : g = h, NEW h \in Humans,
         Write(h) \/ \E r \in AgentRuns, verb \in {"resume", "deny"} : Read(h, r, verb)
  PROVE  Safe'
<1> USE BridgeAssumption DEF Has
<1>t. RowsOK /\ WorkOK BY DEF Inv
<1>1. ASSUME NEW r \in AgentRuns, NEW verb \in {"resume", "deny"}, Read(h, r, verb) PROVE Safe'
  <2>1. UNCHANGED <<runs, lock, wk>> /\ runs[r].status = "waiting" /\ human'[h].run = r
    BY <1>1, <1>t DEF Read, RowsOK
  <2>2. \A w \in Workers : ~Has(w, r) BY <2>1 DEF Safe, Live, Terminal
  <2>3. Deciding' BY <2>1, <2>2 DEF Deciding
  <2> QED BY <2>1, <2>3 DEF Safe, OneHas, Begun, Live, LockRunning, Guarded
<1>2. CASE Write(h)
  <2>1. PICK r \in AgentRuns : r = human[h].run BY <1>2, <1>t DEF Write, RowsOK, Decision, MaybeRun
  <2>2. human'[h].run = NoRun /\ UNCHANGED <<lock, wk>> /\ lock[r] = NoWorker
    BY <1>2, <2>1, <1>t DEF Write, RowsOK, Undecided
  <2>3. \A q \in AgentRuns : q # r => runs'[q] = runs[q] BY <1>2, <2>1, <1>t DEF Write, RowsOK
  <2>4. \A w \in Workers : ~Has(w, r) BY <2>1 DEF Safe, Deciding
  <2>5. Deciding' BY <2>2 DEF Deciding
  <2>6. Live' BY <2>2, <2>3, <2>4 DEF Safe, Live
  <2>7. LockRunning' BY <2>2, <2>3 DEF Safe, LockRunning
  <2>8. Guarded'
    <3> SUFFICES ASSUME NEW w \in Workers
                 PROVE  /\ wk'[w].pc = "gate" => lock'[wk'[w].run] = w \/ runs'[wk'[w].run].status \in Terminal
                        /\ wk'[w].pc = "batch" => lock'[wk'[w].run] = w
      BY DEF Guarded
    <3>1. CASE wk[w].pc \in {"gate", "batch"}
      <4>1. wk[w].run \in AgentRuns BY <3>1, <1>t, RunOfWorker
      <4>2. wk[w].run # r BY <2>4
      <4> QED BY <4>1, <4>2, <2>2, <2>3 DEF Safe, Guarded
    <3> QED BY <2>2, <3>1
  <2> QED BY <2>2, <2>5, <2>6, <2>7, <2>8 DEF Safe, OneHas, Begun
<1> QED BY <1>1, <1>2

\* The steps of a worker: a claim takes only queued runs, which nobody has.
LEMMA WorkerSafe ==
  ASSUME Inv, Safe, NEW w \in Workers, Execute(w) \/ Steer(w) \/ Crash(w)
  PROVE  Safe'
<1> USE BridgeAssumption
<1>t. RowsOK /\ WorkOK /\ wk[w] \in Worker BY DEF Inv, WorkOK
<1>e. ASSUME NEW s \in Terminal, wk[w].pc # "idle", Unlocked(wk[w].run, w), Finalize(wk[w].run, s),
             Leave(w), UNCHANGED <<human, wf, count>>
      PROVE  Safe'
  <2>1. wk[w].run \in AgentRuns BY <1>e, <1>t, RunOfWorker
  <2>2. /\ \A q \in AgentRuns : q # wk[w].run => runs'[q] = runs[q]
        /\ runs'[wk[w].run].status \in {runs[wk[w].run].status, s}
    BY <1>e, <2>1, <1>t, FinalizeRows
  <2> QED BY <1>e, <1>t, <2>2, LeaveSafe
<1>m. ASSUME NEW kind \in Asks, wk[w].pc # "idle", MarkWaiting(w, kind) PROVE Safe'
  <2>1. wk[w].run \in AgentRuns BY <1>m, <1>t, RunOfWorker
  <2>2. /\ \A q \in AgentRuns : q # wk[w].run => runs'[q] = runs[q]
        /\ runs'[wk[w].run].status = "waiting"
    BY <1>m, <2>1, <1>t DEF MarkWaiting, RowsOK, AgentRun
  <2>3. Unlocked(wk[w].run, w) /\ Leave(w) /\ human' = human BY <1>m DEF MarkWaiting
  <2> QED BY <1>m, <1>t, <2>2, <2>3, LeaveSafe
<1>h. ASSUME wk[w].pc # "idle", Heartbeat(w)
      PROVE  /\ lock' \in [AgentRuns -> Workers \cup {NoWorker}]
             /\ \A r \in AgentRuns : \/ lock'[r] = lock[r]
                                     \/ /\ lock[r] \in {w, NoWorker} /\ lock'[r] = w
                                        /\ r = wk[w].run /\ runs[r].status = "running"
             /\ lock'[wk[w].run] = w \/ runs[wk[w].run].status \in Terminal
  <2>1. wk[w].run \in AgentRuns BY <1>h, <1>t, RunOfWorker
  <2>2. runs[wk[w].run].status \in {"running"} \cup Terminal BY <2>1 DEF Safe, Live, Has
  <2> QED BY <1>h, <1>t, <2>1, <2>2 DEF Heartbeat, Unlocked, WorkOK
<1>1. CASE Claim(w)
  <2>1. wk[w] = Free /\ UNCHANGED <<lock, human>> BY <1>1 DEF Claim
  <2>2. \A r \in AgentRuns : \/ runs[r].status = "queued" /\ runs'[r].status = "running"
                             \/ runs[r].status # "queued" /\ runs'[r] = runs[r]
    BY <1>1, <1>t DEF Claim, Queued, RowsOK, AgentRun
  <2> DEFINE x == [wk[w] EXCEPT !.todo = Queued]
  <2>3. x.pc = "idle" /\ x.run = NoRun /\ x.todo = Queued BY <1>t, <2>1 DEF Worker, Free
  <2>4. wk' = [wk EXCEPT ![w] = x] BY <1>1 DEF Claim
  <2> HIDE DEF x
  <2>5. wk'[w] = x /\ \A v \in Workers : v # w => wk'[v] = wk[v] BY <2>4, <1>t DEF WorkOK
  <2>6. \A v \in Workers, r \in AgentRuns :
           Has(v, r)' => IF runs[r].status = "queued" THEN v = w ELSE Has(v, r) /\ runs'[r] = runs[r]
    <3> SUFFICES ASSUME NEW v \in Workers, NEW r \in AgentRuns, Has(v, r)'
                 PROVE  IF runs[r].status = "queued" THEN v = w ELSE Has(v, r) /\ runs'[r] = runs[r]
      OBVIOUS
    <3>1. CASE v = w BY <3>1, <2>2, <2>3, <2>5 DEF Has, Queued
    <3>2. CASE v # w BY <3>2, <2>2, <2>5 DEF Has, Safe, Live, Terminal
    <3> QED BY <3>1, <3>2
  <2>7. OneHas' BY <2>6 DEF Safe, OneHas
  <2>8. Begun' BY <2>3, <2>5 DEF Safe, Begun, Queued
  <2>9. Live' BY <2>2, <2>6 DEF Safe, Live
  <2>10. Deciding' BY <2>1, <2>2, <2>6 DEF Safe, Deciding, Terminal
  <2>11. LockRunning' BY <2>1, <2>2 DEF Safe, LockRunning
  <2>12. Guarded'
    <3> SUFFICES ASSUME NEW v \in Workers
                 PROVE  /\ wk'[v].pc = "gate" => lock'[wk'[v].run] = v \/ runs'[wk'[v].run].status \in Terminal
                        /\ wk'[v].pc = "batch" => lock'[wk'[v].run] = v
      BY DEF Guarded
    <3>1. CASE v # w /\ wk[v].pc \in {"gate", "batch"}
      <4>1. wk[v].run \in AgentRuns BY <3>1, <1>t, RunOfWorker
      <4>2. runs[wk[v].run].status # "queued" BY <4>1 DEF Safe, Live, Has, Terminal
      <4> QED BY <3>1, <4>1, <4>2, <2>1, <2>2, <2>5 DEF Safe, Guarded
    <3> QED BY <3>1, <2>3, <2>5
  <2> QED BY <2>7, <2>8, <2>9, <2>10, <2>11, <2>12 DEF Safe
<1>2. ASSUME NEW r \in AgentRuns, Start(w, r) PROVE Safe'
  <2> DEFINE x == [wk[w] EXCEPT !.todo = wk[w].todo \ {r},
                     !.run = IF runs[r].status = "running" THEN r ELSE NoRun,
                     !.pc = IF runs[r].status = "running" THEN "top" ELSE "idle"]
  <2>1. x.todo = wk[w].todo \ {r} /\ x.run \in {r, NoRun} /\ x.pc \in {"top", "idle"}
    BY <1>t DEF Worker
  <2>2. wk' = [wk EXCEPT ![w] = x] /\ UNCHANGED <<runs, lock, human>> /\ r \in wk[w].todo
    BY <1>2 DEF Start
  <2> HIDE DEF x
  <2>3. wk'[w] = x /\ \A v \in Workers : v # w => wk'[v] = wk[v] BY <2>2, <1>t DEF WorkOK
  <2>4. \A v \in Workers, q \in AgentRuns : Has(v, q)' => Has(v, q) BY <2>1, <2>2, <2>3 DEF Has
  <2>5. OneHas' /\ Live' /\ Deciding' BY <2>2, <2>4 DEF Safe, OneHas, Live, Deciding
  <2>6. NoRun \notin x.todo BY <2>1, <1>t DEF Worker
  <2>7. Begun' BY <2>1, <2>3, <2>6 DEF Safe, Begun
  <2>8. LockRunning' BY <2>2 DEF Safe, LockRunning
  <2>9. Guarded' BY <2>1, <2>2, <2>3 DEF Safe, Guarded
  <2> QED BY <2>5, <2>7, <2>8, <2>9 DEF Safe
<1>3. CASE Unable(w) BY <1>3, <1>e DEF Unable, Terminal
<1>4. CASE TopCheck(w)
  <2>1. CASE runs[wk[w].run].status = "running"
    <3> DEFINE x == [wk[w] EXCEPT !.pc = "stream"]
    <3>1. x \in Worker /\ x.pc = "stream" /\ x.run = wk[w].run /\ x.todo = wk[w].todo BY <1>t DEF Worker
    <3>2. wk' = [wk EXCEPT ![w] = x] /\ UNCHANGED <<lock, runs, human>> /\ wk[w].pc # "idle"
      BY <1>4, <2>1 DEF TopCheck
    <3> HIDE DEF x
    <3>3. lock' \in [AgentRuns -> Workers \cup {NoWorker}] BY <3>2, <1>t DEF WorkOK
    <3> QED BY <1>t, <3>1, <3>2, <3>3, MoveSafe
  <2>2. CASE runs[wk[w].run].status # "running"
    <3>1. Leave(w) /\ UNCHANGED <<runs, human>> /\ wk[w].pc # "idle" BY <1>4, <2>2 DEF TopCheck
    <3> QED BY <1>t, <3>1, LeaveSafe
  <2> QED BY <2>1, <2>2
<1>5. CASE ToolCalls(w)
  <2> DEFINE x == [wk[w] EXCEPT !.pc = "gate"]
  <2>1. x \in Worker /\ x.pc = "gate" /\ x.run = wk[w].run /\ x.todo = wk[w].todo BY <1>t DEF Worker
  <2>2. wk' = [wk EXCEPT ![w] = x] /\ UNCHANGED <<runs, human>> /\ wk[w].pc # "idle" /\ Heartbeat(w)
    BY <1>5 DEF ToolCalls
  <2> HIDE DEF x
  <2> QED BY <1>t, <1>h, <2>1, <2>2, MoveSafe
<1>6. CASE Batch(w)
  <2>1. CASE runs[wk[w].run].status = "running"
    <3> DEFINE x == [wk[w] EXCEPT !.pc = "batch"]
    <3>1. x \in Worker /\ x.pc = "batch" /\ x.run = wk[w].run /\ x.todo = wk[w].todo BY <1>t DEF Worker
    <3>2. wk' = [wk EXCEPT ![w] = x] /\ UNCHANGED <<lock, runs, human>> /\ wk[w].pc = "gate"
      BY <1>6, <2>1 DEF Batch
    <3> HIDE DEF x
    <3>3. lock' \in [AgentRuns -> Workers \cup {NoWorker}] BY <3>2, <1>t DEF WorkOK
    <3>4. lock[wk[w].run] = w BY <3>2, <2>1 DEF Safe, Guarded, Terminal
    <3> QED BY <1>t, <3>1, <3>2, <3>3, <3>4, MoveSafe
  <2>2. CASE runs[wk[w].run].status # "running"
    <3>1. Leave(w) /\ UNCHANGED <<runs, human>> /\ wk[w].pc # "idle" BY <1>6, <2>2 DEF Batch
    <3> QED BY <1>t, <3>1, LeaveSafe
  <2> QED BY <2>1, <2>2
<1>7. ASSUME NextTurn(w) \/ Nudge(w) PROVE Safe'
  <2> DEFINE x == [wk[w] EXCEPT !.pc = "top", !.turn = wk[w].turn + 1]
  <2>n. wk[w].turn + 1 \in Nat BY <1>t DEF Worker
  <2>1. x \in Worker /\ x.pc = "top" /\ x.run = wk[w].run /\ x.todo = wk[w].todo BY <1>t, <2>n DEF Worker
  <2>2. wk' = [wk EXCEPT ![w] = x] /\ UNCHANGED <<runs, human>> /\ wk[w].pc # "idle" /\ Heartbeat(w)
    BY <1>7 DEF NextTurn, Nudge
  <2> HIDE DEF x
  <2> QED BY <1>t, <1>h, <2>1, <2>2, MoveSafe
<1>8. CASE ParkForApproval(w) BY <1>8, <1>m DEF ParkForApproval, Asks
<1>9. CASE ParkOnQuestion(w) BY <1>9, <1>m DEF ParkOnQuestion, Asks
<1>10. CASE Raise(w)
  <2> DEFINE x == [wk[w] EXCEPT !.pc = "failed"]
  <2>1. x \in Worker /\ x.pc = "failed" /\ x.run = wk[w].run /\ x.todo = wk[w].todo BY <1>t DEF Worker
  <2>2. wk' = [wk EXCEPT ![w] = x] /\ UNCHANGED <<runs, human>> /\ wk[w].pc # "idle" BY <1>10 DEF Raise
  <2> HIDE DEF x
  <2>3. lock' = [r \in AgentRuns |-> IF lock[r] = w THEN NoWorker ELSE lock[r]] BY <1>10 DEF Raise
  <2>4. lock' \in [AgentRuns -> Workers \cup {NoWorker}] BY <2>3, <1>t DEF WorkOK
  <2>5. \A r \in AgentRuns : lock'[r] = lock[r] \/ (lock[r] = w /\ lock'[r] = NoWorker) BY <2>3
  <2> QED BY <1>t, <2>1, <2>2, <2>4, <2>5, MoveSafe
<1>11. CASE MarkError(w) BY <1>11, <1>e DEF MarkError, Terminal
<1>12. ASSUME NEW s \in Terminal, Finish(w, s) PROVE Safe' BY <1>12, <1>e DEF Finish
<1>13. CASE Steer(w)
  <2>1. wk' = [wk EXCEPT ![w] = wk[w]] /\ UNCHANGED <<runs, human>> /\ wk[w].pc = "stream"
    BY <1>13, <1>t DEF Steer, WorkOK
  <2>2. lock' = [r \in AgentRuns |-> IF lock[r] = w THEN NoWorker ELSE lock[r]] BY <1>13 DEF Steer
  <2>3. lock' \in [AgentRuns -> Workers \cup {NoWorker}] BY <2>2, <1>t DEF WorkOK
  <2>4. \A r \in AgentRuns : lock'[r] = lock[r] \/ (lock[r] = w /\ lock'[r] = NoWorker) BY <2>2
  <2> QED BY <1>t, <2>1, <2>3, <2>4, MoveSafe
<1>14. CASE Crash(w)
  <2>1. Free.pc = "idle" /\ Free.run = NoRun /\ Free.todo = {} BY DEF Free
  <2>2. UNCHANGED <<runs, human>> /\ lock' = [r \in AgentRuns |-> IF lock[r] = w THEN NoWorker ELSE lock[r]]
    BY <1>14 DEF Crash
  <2>3. wk'[w] = Free /\ \A v \in Workers : v # w => wk'[v] = wk[v] BY <1>14, <1>t DEF Crash, WorkOK
  <2>4. \A v \in Workers, q \in AgentRuns : Has(v, q)' => Has(v, q) BY <2>1, <2>3 DEF Has
  <2>5. OneHas' /\ Live' /\ Deciding' BY <2>2, <2>4 DEF Safe, OneHas, Live, Deciding
  <2>6. Begun' BY <2>1, <2>3 DEF Safe, Begun
  <2>7. LockRunning' BY <2>2 DEF Safe, LockRunning
  <2>8. Guarded'
    <3> SUFFICES ASSUME NEW v \in Workers
                 PROVE  /\ wk'[v].pc = "gate" => lock'[wk'[v].run] = v \/ runs'[wk'[v].run].status \in Terminal
                        /\ wk'[v].pc = "batch" => lock'[wk'[v].run] = v
      BY DEF Guarded
    <3>1. CASE v # w /\ wk[v].pc \in {"gate", "batch"}
      <4>1. wk[v].run \in AgentRuns BY <3>1, <1>t, RunOfWorker
      <4> QED BY <3>1, <4>1, <2>2, <2>3 DEF Safe, Guarded
    <3> QED BY <3>1, <2>1, <2>3
  <2> QED BY <2>5, <2>6, <2>7, <2>8 DEF Safe
<1> QED BY <1>1, <1>2, <1>3, <1>4, <1>5, <1>6, <1>7, <1>8, <1>9, <1>10, <1>11, <1>12, <1>13, <1>14 DEF Execute

LEMMA SafeHolds ==
  ASSUME ~EarlyExpiry, \A g, h \in Humans : g = h
  PROVE  Spec => []Safe
<1>1. Init => Safe
  <2> SUFFICES ASSUME Init PROVE Safe OBVIOUS
  <2>1. Free.pc = "idle" /\ Free.run = NoRun /\ Free.todo = {} BY DEF Free
  <2>2. \A w \in Workers, r \in AgentRuns : ~Has(w, r) BY <2>1, BridgeAssumption DEF Init, Has
  <2>3. \A h \in Humans : human[h].run = NoRun BY DEF Init, Undecided
  <2> QED BY <2>1, <2>2, <2>3, BridgeAssumption
          DEF Init, Safe, OneHas, Begun, Live, Deciding, LockRunning, Guarded
<1>2. Inv /\ Safe /\ [Next]_vars => Safe'
  <2> SUFFICES ASSUME Inv, Safe, [Next]_vars PROVE Safe' OBVIOUS
  <2>1. CASE UNCHANGED vars
    BY <2>1 DEF vars, Safe, OneHas, Begun, Live, Deciding, LockRunning, Guarded, Has
  <2>2. CASE \E w \in Workers : Execute(w) \/ Steer(w) \/ Crash(w) BY <2>2, WorkerSafe
  <2>3. CASE \E h \in Humans : Write(h) \/ \E r \in AgentRuns, verb \in {"resume", "deny"} : Read(h, r, verb)
    BY <2>3, HumanSteps
  <2>4. CASE \/ TokenStep \/ LoopBack \/ ResumeDue \/ Reconcile \/ WorkflowFails
             \/ WorkflowTerminates \/ RetryRun
             \/ \E r \in AgentRuns : Reclaim(r) \/ TooLate(r)
    BY <2>4, RowSteps
  <2> QED BY <2>1, <2>2, <2>3, <2>4 DEF Next
<1> QED BY <1>1, <1>2, InvHolds, PTL DEF Spec

\* While leases outlive their workers and one person decides at a time, no two
\* workers ever have one agent run: the claim, the lease sweep, crashes and
\* requeues by a decision together hand a run to one executor.
THEOREM OneExecutorHolds ==
  ASSUME ~EarlyExpiry, \A g, h \in Humans : g = h
  PROVE  Spec => []OneExecutor
<1>1. Inv /\ Safe => OneExecutor
  <2> SUFFICES ASSUME Inv, Safe, NEW v \in Workers, NEW w \in Workers, v # w,
                      NEW r \in Driven(v), r \in Driven(w)
               PROVE  FALSE
    BY DEF OneExecutor
  <2>1. wk[v] \in Worker BY DEF Inv, WorkOK
  <2>2. r \in AgentRuns /\ Has(v, r) /\ Has(w, r) BY <2>1 DEF Driven, Has, Worker, MaybeRun
  <2> QED BY <2>2 DEF Safe, OneHas
<1> QED BY <1>1, SafeHolds, InvHolds, PTL

\* Under the same assumptions tools run only while their run is running: the
\* heartbeat's row lock, taken before the second check, keeps every
\* cancellation out until the batch is over.
THEOREM EffectsGuarded ==
  ASSUME ~EarlyExpiry, \A g, h \in Humans : g = h
  PROVE  Spec => []EffectsWhileRunning
<1>1. Inv /\ Safe => EffectsWhileRunning
  <2> SUFFICES ASSUME Inv, Safe, NEW w \in Workers, wk[w].pc = "batch"
               PROVE  runs[wk[w].run].status = "running"
    BY DEF EffectsWhileRunning
  <2>1. wk[w].run \in AgentRuns BY RunOfWorker DEF Inv
  <2>2. lock[wk[w].run] = w BY DEF Safe, Guarded
  <2> QED BY <2>1, <2>2, BridgeAssumption DEF Safe, LockRunning
<1> QED BY <1>1, SafeHolds, InvHolds, PTL

----------------------------------------------------------------------------
(***************************************************************************)
(* McpOAuth.                                                               *)
(***************************************************************************)
\* What is assumed of the constants: the shared install is nobody's, and no run.
McpSetting ==
  /\ Org \notin Users /\ Org \notin Runs
  /\ MaxGrants \in Nat

Pcs == {"idle", "refresh", "flush", "turn", "use"}
ServerRow == [identity : {"org", "user"}, client : Nat, enabled : BOOLEAN]
SlotRow == [row : BOOLEAN, token : Nat, refresh : Nat, due : BOOLEAN]
Flow == [state : Nat, user : Holders, client : Nat]
Landing == [state : Nat, user : Holders, token : Nat, identity : {"org", "user"}]
Doing == [pc : Pcs, holder : Holders, refresh : Nat, token : Nat, next : Nat]

McpTypes ==
  /\ server \in ServerRow
  /\ slot \in [Holders -> SlotRow]
  /\ flows \subseteq Flow /\ starting \subseteq Flow /\ landing \subseteq Landing
  /\ run \in [Runs -> Doing]
  /\ slot_lock \in [Holders -> Runs \cup {Org}]
  /\ issued \in Nat /\ owner \in [1 .. MaxGrants -> Holders]
  /\ clients \in Nat /\ changes \in Nat /\ started \in Nat
  /\ lapped \in BOOLEAN /\ lost \in BOOLEAN /\ switched \in BOOLEAN
  /\ gone \subseteq Holders

\* What a run has of tokens, by where it is.
Stages == \A r \in Runs :
  /\ run[r].pc = "idle" => run[r].refresh = 0 /\ run[r].token = 0 /\ run[r].next = 0
  /\ run[r].pc = "refresh" => run[r].refresh # 0 /\ run[r].token = 0 /\ run[r].next = 0
  /\ run[r].pc \in {"flush", "turn"} => run[r].refresh # 0 /\ run[r].token # 0 /\ run[r].next # 0
  /\ run[r].pc = "use" => run[r].refresh = 0 /\ run[r].next = 0

\* No token is anywhere before the provider has issued it.
Issued ==
  /\ issued <= MaxGrants /\ live \subseteq 1 .. issued
  /\ \A h \in Holders : slot[h].token <= issued /\ slot[h].refresh <= issued
  /\ \A r \in Runs : run[r].refresh <= issued /\ run[r].token <= issued /\ run[r].next <= issued
  /\ \A l \in landing : l.token # 0 /\ l.token <= issued

\* The row lock of a holder is that of the turn which writes its tokens.
TurnsLock ==
  /\ \A h \in Holders : slot_lock[h] # Org => run[slot_lock[h]].pc = "turn" /\ run[slot_lock[h]].holder = h
  /\ \A r \in Runs : run[r].pc = "turn" => slot_lock[run[r].holder] = r

\* Of a server that was deleted nothing is left.
Deleted == ~server.enabled =>
  /\ flows = {} /\ starting = {} /\ landing = {}
  /\ \A h \in Holders : slot[h] = Slot(FALSE, 0, 0, FALSE)
  /\ \A r \in Runs : run[r].pc # "turn"

\* Whose tokens are where, as long as nobody changed the server meanwhile.
Owned ==
  /\ \A h \in Holders : /\ slot[h].token # 0 => owner[slot[h].token] = h
                        /\ slot[h].refresh # 0 => owner[slot[h].refresh] = h
  /\ \A r \in Runs : /\ run[r].token # 0 => owner[run[r].token] = run[r].holder
                     /\ run[r].refresh # 0 => owner[run[r].refresh] = run[r].holder
                     /\ run[r].next # 0 => owner[run[r].next] = run[r].holder
  /\ \A f \in flows \cup starting : f.user = Org <=> server.identity = "org"
  /\ \A l \in landing : /\ owner[l.token] = l.user /\ l.identity = server.identity
                        /\ l.user = Org <=> l.identity = "org"

\* The client of the server is one that was registered, and that of its flows.
ClientKnown == server.client <= clients
FlowsFit == \A f \in flows : f.client = server.client /\ f.client # 0

\* A holder has a refresh token if it is kept for it or a run of it has it.
Holds(h, t) == t # 0 /\ (slot[h].refresh = t \/ \E r \in Runs : run[r].holder = h /\ t \in {run[r].refresh, run[r].next})
Separate == \A g, h \in Holders : \A t \in Nat : Holds(g, t) /\ Holds(h, t) => g = h
LandingsApart ==
  /\ \A l \in landing : l.token \in live /\ \A h \in Holders : ~Holds(h, l.token)
  /\ \A l, m \in landing : l.token = m.token => l = m

\* One run at a time is at the tokens of a holder.
Alone == \A q, r \in Runs : run[q].pc # "idle" /\ run[r].pc # "idle" /\ run[q].holder = run[r].holder => q = r

\* What is kept still refreshes, or a run has what replaces it.
Refreshable ==
  /\ \A h \in Holders : slot[h].token # 0 /\ ~(\E r \in Runs : run[r].holder = h /\ run[r].pc \in {"flush", "turn"}) => slot[h].refresh \in live
  /\ \A r \in Runs : run[r].pc \in {"flush", "turn"} => run[r].next \in live

\* Nothing is kept for a holder that disconnected, and no run is at it.
GoneQuiet == \A h \in gone :
  /\ slot[h].token = 0 /\ slot[h].refresh = 0
  /\ server.enabled => ~Busy(h)

McpInv ==
  /\ McpTypes /\ Stages /\ Issued /\ TurnsLock /\ Deleted /\ ClientKnown /\ Separate /\ LandingsApart
  /\ (~switched => Owned /\ FlowsFit)
  /\ (~lapped => Alone /\ GoneQuiet)
  /\ (~lapped /\ ~lost => Refreshable)

\* A step after which nobody holds more refresh tokens keeps them apart.
LEMMA ByHolds ==
  ASSUME Separate, \A h \in Holders : \A t \in Nat : Holds(h, t)' => Holds(h, t)
  PROVE  Separate'
BY DEF Separate

\* One lemma per action, one step per part of the invariant.
LEMMA StartKeeps ==
  ASSUME McpSetting, McpInv, NEW u \in Users, server.enabled, oauth_start(u)
  PROVE  McpInv'
<1> USE DEF McpInv
<1>1. McpTypes'
  BY DEF oauth_start, Holder, provider, history, McpSetting, McpTypes, Issued, ServerRow, SlotRow, Flow, Landing, Doing, Pcs, Holders
<1>2. Stages'
  BY DEF oauth_start, Holder, provider, history, McpTypes, Stages, Doing, Pcs
<1>3. Issued'
  BY DEF oauth_start, Holder, provider, history, McpTypes, Issued, SlotRow, Doing, Landing
<1>4. TurnsLock'
  BY DEF oauth_start, Holder, provider, history, McpSetting, McpTypes, TurnsLock, Doing, Pcs
<1>5. Deleted'
  BY DEF oauth_start, Holder, provider, history, McpTypes, Deleted, ServerRow
<1>6. ClientKnown'
  BY DEF oauth_start, Holder, provider, history, McpTypes, ClientKnown, ServerRow, Flow
<1>7. Separate'
  <2>1. \A h \in Holders : \A t \in Nat : Holds(h, t)' => Holds(h, t)
    BY DEF oauth_start, Holder, provider, history, McpTypes, Holds, SlotRow, Doing
  <2> QED BY <2>1, ByHolds
<1>8. LandingsApart'
  BY DEF oauth_start, Holder, provider, history, McpTypes, LandingsApart, Holds, Issued, SlotRow, Doing, Landing
<1>9. ~switched' => Owned'
  BY DEF oauth_start, Holder, provider, history, McpSetting, McpTypes, Owned, Issued, ServerRow, SlotRow, Doing, Flow, Landing, Holders
<1>10. ~switched' => FlowsFit'
  BY DEF oauth_start, Holder, provider, history, McpTypes, FlowsFit, ServerRow, Flow
<1>11. ~lapped' => Alone'
  BY DEF oauth_start, Holder, provider, history, McpTypes, Alone, Busy, Doing
<1>12. ~lapped' => GoneQuiet'
  BY DEF oauth_start, Holder, provider, history, McpTypes, GoneQuiet, Busy, Deleted, Slot, ServerRow, SlotRow, Doing
<1>13. ~lapped' /\ ~lost' => Refreshable'
  BY DEF oauth_start, Holder, provider, history, McpTypes, Refreshable, Issued, Stages, Busy, SlotRow, Doing
<1> QED BY <1>1, <1>2, <1>3, <1>4, <1>5, <1>6, <1>7, <1>8, <1>9, <1>10, <1>11, <1>12, <1>13

LEMMA StartEndsKeeps ==
  ASSUME McpSetting, McpInv, NEW f \in starting, StartEnds(f)
  PROVE  McpInv'
<1> USE DEF McpInv
<1>1. McpTypes'
  <2> DEFINE c == IF NeedsClient(f.client) THEN clients + 1 ELSE f.client
  <2>1. c \in Nat /\ f \in Flow
    BY DEF McpTypes, Flow
  <2>2. server' = [server EXCEPT !.client = c] /\ flows' = flows \cup {[state |-> f.state, user |-> f.user, client |-> c]} /\ clients' \in {c, clients}
        /\ switched' \in BOOLEAN /\ starting' = starting \ {f} /\ UNCHANGED <<slot, landing, run, slot_lock, issued, owner, live, changes, started, lapped, lost, gone>>
    BY DEF StartEnds, provider
  <2> HIDE DEF c
  <2>3. server' \in ServerRow /\ [state |-> f.state, user |-> f.user, client |-> c] \in Flow
    BY <2>1, <2>2 DEF McpTypes, ServerRow, Flow
  <2> QED BY <2>1, <2>2, <2>3 DEF McpTypes
<1>2. Stages'
  BY DEF StartEnds, NeedsClient, provider, McpTypes, Stages, Doing, Pcs
<1>3. Issued'
  BY DEF StartEnds, NeedsClient, provider, McpTypes, Issued, SlotRow, Doing, Landing
<1>4. TurnsLock'
  BY DEF StartEnds, NeedsClient, provider, McpSetting, McpTypes, TurnsLock, Doing, Pcs
<1>5. Deleted'
  BY DEF StartEnds, NeedsClient, provider, McpTypes, Deleted, ServerRow
<1>6. ClientKnown'
  BY DEF StartEnds, NeedsClient, provider, McpTypes, ClientKnown, ServerRow, Flow
<1>7. Separate'
  <2>1. \A h \in Holders : \A t \in Nat : Holds(h, t)' => Holds(h, t)
    BY DEF StartEnds, NeedsClient, provider, McpTypes, Holds, SlotRow, Doing
  <2> QED BY <2>1, ByHolds
<1>8. LandingsApart'
  BY DEF StartEnds, NeedsClient, provider, McpTypes, LandingsApart, Holds, Issued, SlotRow, Doing, Landing
<1>9. ~switched' => Owned'
  BY DEF StartEnds, NeedsClient, provider, McpSetting, McpTypes, Owned, Issued, ServerRow, SlotRow, Doing, Flow, Landing, Holders
<1>10. ~switched' => FlowsFit'
  <2> DEFINE c == IF NeedsClient(f.client) THEN clients + 1 ELSE f.client
  <2>1. f \in Flow /\ clients \in Nat /\ server \in ServerRow
    BY DEF McpTypes
  <2>2. c \in Nat /\ c # 0
    BY <2>1 DEF Flow, NeedsClient
  <2>3. server' = [server EXCEPT !.client = c] /\ flows' = flows \cup {[state |-> f.state, user |-> f.user, client |-> c]}
        /\ switched' = (switched \/ server.client \notin {f.client, c})
    BY DEF StartEnds
  <2>4. f.client = 0 => c = clients + 1
    BY DEF NeedsClient
  <2>5. f.client # 0 => c = f.client
    BY DEF NeedsClient
  <2> HIDE DEF c
  <2>6. server'.client = c
    BY <2>1, <2>3 DEF ServerRow
  <2> SUFFICES ASSUME ~switched' PROVE FlowsFit'
    OBVIOUS
  <2>7. FlowsFit /\ server.client \in {f.client, c} /\ server.client <= clients
    BY <2>3 DEF ClientKnown
  <2>8. server.client \in Nat
    BY <2>1 DEF ServerRow
  <2>9. CASE f.client = 0
    <3>1. server.client = 0
      BY <2>1, <2>4, <2>7, <2>8, <2>9
    <3>2. flows = {}
      BY <3>1, <2>7 DEF FlowsFit
    <3> QED BY <3>2, <2>2, <2>3, <2>6 DEF FlowsFit
  <2>10. CASE f.client # 0
    <3>1. server.client = c
      BY <2>5, <2>7, <2>10
    <3> QED BY <3>1, <2>2, <2>3, <2>6, <2>7 DEF FlowsFit
  <2> QED BY <2>9, <2>10
<1>11. ~lapped' => Alone'
  BY DEF StartEnds, NeedsClient, provider, McpTypes, Alone, Busy, Doing
<1>12. ~lapped' => GoneQuiet'
  BY DEF StartEnds, NeedsClient, provider, McpTypes, GoneQuiet, Busy, Deleted, Slot, ServerRow, SlotRow, Doing
<1>13. ~lapped' /\ ~lost' => Refreshable'
  BY DEF StartEnds, NeedsClient, provider, McpTypes, Refreshable, Issued, Stages, Busy, SlotRow, Doing
<1> QED BY <1>1, <1>2, <1>3, <1>4, <1>5, <1>6, <1>7, <1>8, <1>9, <1>10, <1>11, <1>12, <1>13

LEMMA StartFailsKeeps ==
  ASSUME McpSetting, McpInv, NEW f \in starting, StartFails(f)
  PROVE  McpInv'
<1> USE DEF McpInv
<1>1. McpTypes'
  BY DEF StartFails, provider, history, McpSetting, McpTypes, Issued, ServerRow, SlotRow, Flow, Landing, Doing, Pcs, Holders
<1>2. Stages'
  BY DEF StartFails, provider, history, McpTypes, Stages, Doing, Pcs
<1>3. Issued'
  BY DEF StartFails, provider, history, McpTypes, Issued, SlotRow, Doing, Landing
<1>4. TurnsLock'
  BY DEF StartFails, provider, history, McpSetting, McpTypes, TurnsLock, Doing, Pcs
<1>5. Deleted'
  BY DEF StartFails, provider, history, McpTypes, Deleted, ServerRow
<1>6. ClientKnown'
  BY DEF StartFails, provider, history, McpTypes, ClientKnown, ServerRow, Flow
<1>7. Separate'
  <2>1. \A h \in Holders : \A t \in Nat : Holds(h, t)' => Holds(h, t)
    BY DEF StartFails, provider, history, McpTypes, Holds, SlotRow, Doing
  <2> QED BY <2>1, ByHolds
<1>8. LandingsApart'
  BY DEF StartFails, provider, history, McpTypes, LandingsApart, Holds, Issued, SlotRow, Doing, Landing
<1>9. ~switched' => Owned'
  BY DEF StartFails, provider, history, McpSetting, McpTypes, Owned, Issued, ServerRow, SlotRow, Doing, Flow, Landing, Holders
<1>10. ~switched' => FlowsFit'
  BY DEF StartFails, provider, history, McpTypes, FlowsFit, ServerRow, Flow
<1>11. ~lapped' => Alone'
  BY DEF StartFails, provider, history, McpTypes, Alone, Busy, Doing
<1>12. ~lapped' => GoneQuiet'
  BY DEF StartFails, provider, history, McpTypes, GoneQuiet, Busy, Deleted, Slot, ServerRow, SlotRow, Doing
<1>13. ~lapped' /\ ~lost' => Refreshable'
  BY DEF StartFails, provider, history, McpTypes, Refreshable, Issued, Stages, Busy, SlotRow, Doing
<1> QED BY <1>1, <1>2, <1>3, <1>4, <1>5, <1>6, <1>7, <1>8, <1>9, <1>10, <1>11, <1>12, <1>13

LEMMA ExchangeKeeps ==
  ASSUME McpSetting, McpInv, NEW f \in flows, Exchange(f)
  PROVE  McpInv'
<1> USE DEF McpInv
<1>1. McpTypes'
  BY DEF Exchange, history, McpSetting, McpTypes, Issued, ServerRow, SlotRow, Flow, Landing, Doing, Pcs, Holders
<1>2. Stages'
  BY DEF Exchange, history, McpTypes, Stages, Doing, Pcs
<1>3. Issued'
  <2>1. issued \in Nat /\ issued < MaxGrants /\ issued' = issued + 1 /\ live' = live \cup {issued + 1}
    BY DEF Exchange, McpTypes
  <2>2. landing' = landing \cup {[state |-> f.state, user |-> f.user, token |-> issued + 1, identity |-> server.identity]}
    BY DEF Exchange
  <2>3. slot' = slot /\ run' = run
    BY DEF Exchange
  <2>4. issued' <= MaxGrants /\ live' \subseteq 1 .. issued'
    BY <2>1 DEF Issued, McpSetting
  <2>5. \A l \in landing' : l.token # 0 /\ l.token <= issued'
    BY <2>1, <2>2 DEF Issued, McpTypes, Landing
  <2>6. \A h \in Holders : slot[h].token <= issued' /\ slot[h].refresh <= issued'
    BY <2>1 DEF Issued, McpTypes, SlotRow
  <2>7. \A r \in Runs : run[r].refresh <= issued' /\ run[r].token <= issued' /\ run[r].next <= issued'
    BY <2>1 DEF Issued, McpTypes, Doing
  <2> QED BY <2>3, <2>4, <2>5, <2>6, <2>7 DEF Issued
<1>4. TurnsLock'
  BY DEF Exchange, history, McpSetting, McpTypes, TurnsLock, Doing, Pcs
<1>5. Deleted'
  BY DEF Exchange, history, McpTypes, Deleted, ServerRow
<1>6. ClientKnown'
  BY DEF Exchange, history, McpTypes, ClientKnown, ServerRow, Flow
<1>7. Separate'
  <2>1. \A h \in Holders : \A t \in Nat : Holds(h, t)' => Holds(h, t)
    BY DEF Exchange, history, McpTypes, Holds, SlotRow, Doing
  <2> QED BY <2>1, ByHolds
<1>8. LandingsApart'
  BY DEF Exchange, history, McpTypes, LandingsApart, Holds, Issued, SlotRow, Doing, Landing
<1>9. ~switched' => Owned'
  BY DEF Exchange, history, McpSetting, McpTypes, Owned, Issued, ServerRow, SlotRow, Doing, Flow, Landing, Holders
<1>10. ~switched' => FlowsFit'
  BY DEF Exchange, history, McpTypes, FlowsFit, ServerRow, Flow
<1>11. ~lapped' => Alone'
  BY DEF Exchange, history, McpTypes, Alone, Busy, Doing
<1>12. ~lapped' => GoneQuiet'
  BY DEF Exchange, history, McpTypes, GoneQuiet, Busy, Deleted, Slot, ServerRow, SlotRow, Doing
<1>13. ~lapped' /\ ~lost' => Refreshable'
  BY DEF Exchange, history, McpTypes, Refreshable, Issued, Stages, Busy, SlotRow, Doing
<1> QED BY <1>1, <1>2, <1>3, <1>4, <1>5, <1>6, <1>7, <1>8, <1>9, <1>10, <1>11, <1>12, <1>13

LEMMA LandFailsKeeps ==
  ASSUME McpSetting, McpInv, NEW l \in landing, LandFails(l)
  PROVE  McpInv'
<1> USE DEF McpInv
<1>1. McpTypes'
  BY DEF LandFails, provider, history, McpSetting, McpTypes, Issued, ServerRow, SlotRow, Flow, Landing, Doing, Pcs, Holders
<1>2. Stages'
  BY DEF LandFails, provider, history, McpTypes, Stages, Doing, Pcs
<1>3. Issued'
  BY DEF LandFails, provider, history, McpTypes, Issued, SlotRow, Doing, Landing
<1>4. TurnsLock'
  BY DEF LandFails, provider, history, McpSetting, McpTypes, TurnsLock, Doing, Pcs
<1>5. Deleted'
  BY DEF LandFails, provider, history, McpTypes, Deleted, ServerRow
<1>6. ClientKnown'
  BY DEF LandFails, provider, history, McpTypes, ClientKnown, ServerRow, Flow
<1>7. Separate'
  <2>1. \A h \in Holders : \A t \in Nat : Holds(h, t)' => Holds(h, t)
    BY DEF LandFails, provider, history, McpTypes, Holds, SlotRow, Doing
  <2> QED BY <2>1, ByHolds
<1>8. LandingsApart'
  BY DEF LandFails, provider, history, McpTypes, LandingsApart, Holds, Issued, SlotRow, Doing, Landing
<1>9. ~switched' => Owned'
  BY DEF LandFails, provider, history, McpSetting, McpTypes, Owned, Issued, ServerRow, SlotRow, Doing, Flow, Landing, Holders
<1>10. ~switched' => FlowsFit'
  BY DEF LandFails, provider, history, McpTypes, FlowsFit, ServerRow, Flow
<1>11. ~lapped' => Alone'
  BY DEF LandFails, provider, history, McpTypes, Alone, Busy, Doing
<1>12. ~lapped' => GoneQuiet'
  BY DEF LandFails, provider, history, McpTypes, GoneQuiet, Busy, Deleted, Slot, ServerRow, SlotRow, Doing
<1>13. ~lapped' /\ ~lost' => Refreshable'
  BY DEF LandFails, provider, history, McpTypes, Refreshable, Issued, Stages, Busy, SlotRow, Doing
<1> QED BY <1>1, <1>2, <1>3, <1>4, <1>5, <1>6, <1>7, <1>8, <1>9, <1>10, <1>11, <1>12, <1>13

LEMMA LandKeeps ==
  ASSUME McpSetting, McpInv, NEW l \in landing, Land(l)
  PROVE  McpInv'
<1> USE DEF McpInv
<1>1. McpTypes'
  BY DEF Land, Holder, Tokens, Slot, provider, McpSetting, McpTypes, Issued, ServerRow, SlotRow, Flow, Landing, Doing, Pcs, Holders
<1>2. Stages'
  BY DEF Land, Holder, Tokens, Slot, provider, McpTypes, Stages, Doing, Pcs
<1>3. Issued'
  BY DEF Land, Holder, Tokens, Slot, provider, McpTypes, Issued, SlotRow, Doing, Landing
<1>4. TurnsLock'
  BY DEF Land, Holder, Tokens, Slot, provider, McpSetting, McpTypes, TurnsLock, Doing, Pcs
<1>5. Deleted'
  BY DEF Land, Holder, Tokens, Slot, provider, McpTypes, Deleted, ServerRow
<1>6. ClientKnown'
  BY DEF Land, Holder, Tokens, Slot, provider, McpTypes, ClientKnown, ServerRow, Flow
<1>7. Separate'
  <2> DEFINE k == Holder(l.identity, l.user)
  <2>1. k \in Holders /\ slot' = [slot EXCEPT ![k] = Slot(TRUE, l.token, l.token, FALSE)] /\ run' = run
    BY DEF Land, Tokens
  <2>2. \A h \in Holders : ~Holds(h, l.token)
    BY DEF LandingsApart
  <2> HIDE DEF k
  <2>3. \A h \in Holders : \A t \in Nat : Holds(h, t)' => Holds(h, t) \/ (h = k /\ t = l.token)
    BY <2>1 DEF Holds, McpTypes, Slot
  <2> QED BY <2>2, <2>3 DEF Separate
<1>8. LandingsApart'
  BY DEF Land, Holder, Tokens, Slot, provider, McpTypes, LandingsApart, Holds, Issued, SlotRow, Doing, Landing
<1>9. ~switched' => Owned'
  BY DEF Land, Holder, Tokens, Slot, provider, McpSetting, McpTypes, Owned, Issued, ServerRow, SlotRow, Doing, Flow, Landing, Holders
<1>10. ~switched' => FlowsFit'
  BY DEF Land, Holder, Tokens, Slot, provider, McpTypes, FlowsFit, ServerRow, Flow
<1>11. ~lapped' => Alone'
  BY DEF Land, Holder, Tokens, Slot, provider, McpTypes, Alone, Busy, Doing
<1>12. ~lapped' => GoneQuiet'
  BY DEF Land, Holder, Tokens, Slot, provider, McpTypes, GoneQuiet, Busy, Deleted, Slot, ServerRow, SlotRow, Doing
<1>13. ~lapped' /\ ~lost' => Refreshable'
  <2> DEFINE k == Holder(l.identity, l.user)
  <2>1. k \in Holders /\ slot' = [slot EXCEPT ![k] = Slot(TRUE, l.token, l.token, FALSE)] /\ run' = run /\ live' = live /\ lost' = lost
        /\ lapped' = (lapped \/ Busy(k))
    BY DEF Land, Tokens, provider
  <2>2. l.token \in live
    BY DEF LandingsApart
  <2> HIDE DEF k
  <2> QED BY <2>1, <2>2 DEF Refreshable, McpTypes, Slot
<1> QED BY <1>1, <1>2, <1>3, <1>4, <1>5, <1>6, <1>7, <1>8, <1>9, <1>10, <1>11, <1>12, <1>13

LEMMA NotConnectedKeeps ==
  ASSUME McpSetting, McpInv, NEW r \in Runs, NEW u \in Holders, NotConnected(r, u)
  PROVE  McpInv'
<1> USE DEF McpInv
<1>1. McpTypes'
  BY DEF NotConnected, Holder, Valid, Slot, provider, history, McpSetting, McpTypes, Issued, ServerRow, SlotRow, Flow, Landing, Doing, Pcs, Holders
<1>2. Stages'
  BY DEF NotConnected, Holder, Valid, Slot, provider, history, McpTypes, Stages, Doing, Pcs
<1>3. Issued'
  BY DEF NotConnected, Holder, Valid, Slot, provider, history, McpTypes, Issued, SlotRow, Doing, Landing
<1>4. TurnsLock'
  BY DEF NotConnected, Holder, Valid, Slot, provider, history, McpSetting, McpTypes, TurnsLock, Doing, Pcs
<1>5. Deleted'
  BY DEF NotConnected, Holder, Valid, Slot, provider, history, McpTypes, Deleted, ServerRow
<1>6. ClientKnown'
  BY DEF NotConnected, Holder, Valid, Slot, provider, history, McpTypes, ClientKnown, ServerRow, Flow
<1>7. Separate'
  <2>1. \A h \in Holders : \A t \in Nat : Holds(h, t)' => Holds(h, t)
    BY DEF NotConnected, Holder, Valid, Slot, provider, history, McpTypes, Holds, SlotRow, Doing
  <2> QED BY <2>1, ByHolds
<1>8. LandingsApart'
  BY DEF NotConnected, Holder, Valid, Slot, provider, history, McpTypes, LandingsApart, Holds, Issued, SlotRow, Doing, Landing
<1>9. ~switched' => Owned'
  BY DEF NotConnected, Holder, Valid, Slot, provider, history, McpSetting, McpTypes, Owned, Issued, ServerRow, SlotRow, Doing, Flow, Landing, Holders
<1>10. ~switched' => FlowsFit'
  BY DEF NotConnected, Holder, Valid, Slot, provider, history, McpTypes, FlowsFit, ServerRow, Flow
<1>11. ~lapped' => Alone'
  BY DEF NotConnected, Holder, Valid, Slot, provider, history, McpTypes, Alone, Busy, Doing
<1>12. ~lapped' => GoneQuiet'
  BY DEF NotConnected, Holder, Valid, Slot, provider, history, McpTypes, GoneQuiet, Busy, Deleted, Slot, ServerRow, SlotRow, Doing
<1>13. ~lapped' /\ ~lost' => Refreshable'
  BY DEF NotConnected, Holder, Valid, Slot, provider, history, McpTypes, Refreshable, Issued, Stages, Busy, SlotRow, Doing
<1> QED BY <1>1, <1>2, <1>3, <1>4, <1>5, <1>6, <1>7, <1>8, <1>9, <1>10, <1>11, <1>12, <1>13

LEMMA EnsureKeeps ==
  ASSUME McpSetting, McpInv, NEW r \in Runs, NEW u \in Holders, ensure_access_token(r, u)
  PROVE  McpInv'
<1> USE DEF McpInv
<1> DEFINE k == Holder(server.identity, u)
<1>a. k \in Holders
  BY DEF Holder, Holders
<1>b. PICK x \in Doing :
        /\ run' = [run EXCEPT ![r] = x] /\ x.holder = k /\ x.next = 0
        /\ \/ x.pc = "use" /\ x.token = slot[k].token /\ x.token # 0 /\ x.refresh = 0
           \/ x.pc = "refresh" /\ x.refresh = slot[k].refresh /\ x.refresh # 0 /\ x.token = 0
  <2>1. slot[k] \in SlotRow
    BY <1>a DEF McpTypes
  <2>2. Does("use", k, 0, slot[k].token, 0) \in Doing /\ Does("refresh", k, slot[k].refresh, 0, 0) \in Doing
    BY <1>a, <2>1 DEF Does, Doing, SlotRow, Pcs
  <2>3. CASE Valid(k)
    BY <2>2, <2>3 DEF ensure_access_token, Valid, Does
  <2>4. CASE ~Valid(k)
    BY <2>2, <2>4 DEF ensure_access_token, Valid, Does
  <2> QED BY <2>3, <2>4
<1>c. /\ run[r].pc = "idle" /\ server.enabled
      /\ UNCHANGED <<server, slot, flows, starting, landing, slot_lock, issued, owner, live, clients, changes, started, lost, switched, gone>>
  BY DEF ensure_access_token, provider
<1>d. lapped' = (lapped \/ Busy(k))
  BY DEF ensure_access_token
<1> HIDE DEF k
<1>1. McpTypes'
  BY <1>a, <1>b, <1>c, <1>d DEF McpSetting, McpTypes, Issued, ServerRow, SlotRow, Flow, Landing, Doing, Pcs, Holders
<1>2. Stages'
  BY <1>a, <1>b, <1>c, <1>d DEF McpTypes, Stages, Doing, Pcs
<1>3. Issued'
  BY <1>a, <1>b, <1>c, <1>d DEF McpTypes, Issued, SlotRow, Doing, Landing
<1>4. TurnsLock'
  BY <1>a, <1>b, <1>c, <1>d DEF McpSetting, McpTypes, TurnsLock, Doing, Pcs
<1>5. Deleted'
  BY <1>a, <1>b, <1>c, <1>d DEF McpTypes, Deleted, ServerRow
<1>6. ClientKnown'
  BY <1>a, <1>b, <1>c, <1>d DEF McpTypes, ClientKnown, ServerRow, Flow
<1>7. Separate'
  <2>1. \A h \in Holders : \A t \in Nat : Holds(h, t)' => Holds(h, t)
    BY <1>a, <1>b, <1>c, <1>d DEF McpTypes, Holds, SlotRow, Doing
  <2> QED BY <2>1, ByHolds
<1>8. LandingsApart'
  <2>1. \A g \in Holders : \A t \in Nat : Holds(g, t)' => Holds(g, t)
    BY <1>a, <1>b, <1>c DEF McpTypes, Holds, SlotRow, Doing
  <2> QED BY <1>c, <2>1 DEF McpTypes, LandingsApart, Landing
<1>9. ~switched' => Owned'
  BY <1>a, <1>b, <1>c, <1>d DEF McpSetting, McpTypes, Owned, Issued, ServerRow, SlotRow, Doing, Flow, Landing, Holders
<1>10. ~switched' => FlowsFit'
  BY <1>a, <1>b, <1>c, <1>d DEF McpTypes, FlowsFit, ServerRow, Flow
<1>11. ~lapped' => Alone'
  BY <1>a, <1>b, <1>c, <1>d DEF McpTypes, Alone, Busy, Doing
<1>12. ~lapped' => GoneQuiet'
  BY <1>a, <1>b, <1>c, <1>d DEF McpTypes, GoneQuiet, Busy, Deleted, Slot, ServerRow, SlotRow, Doing
<1>13. ~lapped' /\ ~lost' => Refreshable'
  BY <1>a, <1>b, <1>c, <1>d DEF McpTypes, Refreshable, Issued, Stages, Busy, SlotRow, Doing
<1> QED BY <1>1, <1>2, <1>3, <1>4, <1>5, <1>6, <1>7, <1>8, <1>9, <1>10, <1>11, <1>12, <1>13

LEMMA RefreshKeeps ==
  ASSUME McpSetting, McpInv, NEW r \in Runs, NEW rotates \in BOOLEAN, Refresh(r, rotates)
  PROVE  McpInv'
<1> USE DEF McpInv
<1>a. run[r] \in Doing /\ run[r].pc = "refresh" /\ run[r].refresh \in live /\ issued < MaxGrants
  BY DEF Refresh, McpTypes
<1>b. PICK x \in Doing :
        /\ run' = [run EXCEPT ![r] = x] /\ x.pc = "flush" /\ x.holder = run[r].holder
        /\ x.refresh = run[r].refresh /\ x.token = issued + 1
        /\ \/ live' = (live \ {run[r].refresh}) \cup {issued + 1} /\ x.next = issued + 1
           \/ live' = live /\ x.next = run[r].refresh
  <2>1. \A n \in Nat : Does("flush", run[r].holder, run[r].refresh, issued + 1, n) \in Doing
    BY <1>a DEF Does, Doing, Pcs, McpTypes
  <2>2. issued + 1 \in Nat /\ issued + 1 # 0 /\ run[r].refresh \in Nat
    BY <1>a DEF McpTypes, Doing
  <2>3. CASE rotates
    BY <2>1, <2>2, <2>3 DEF Refresh, Does, refresh_tokens
  <2>4. CASE ~rotates
    BY <2>1, <2>2, <2>4 DEF Refresh, Does, refresh_tokens
  <2> QED BY <2>3, <2>4
<1>c. /\ issued' = issued + 1 /\ owner' = [owner EXCEPT ![issued + 1] = owner[run[r].refresh]]
      /\ UNCHANGED <<server, slot, flows, starting, landing, slot_lock, clients, changes, started, lapped, lost, switched, gone>>
  BY DEF Refresh, history
<1>d. 1 .. MaxGrants \subseteq Nat /\ issued + 1 \in 1 .. MaxGrants /\ run[r].refresh \in 1 .. MaxGrants /\ issued \in Nat
  <2>1. issued \in Nat /\ live \subseteq 1 .. issued /\ issued <= MaxGrants /\ MaxGrants \in Nat
    BY DEF McpTypes, McpSetting, Issued
  <2>2. run[r].refresh \in 1 .. issued
    BY <1>a, <2>1
  <2> QED BY <1>a, <2>1, <2>2
<1>e. \A h \in Holders : \A t \in Nat : Holds(h, t)' => Holds(h, t) \/ (h = run[r].holder /\ t = issued + 1)
  <2> SUFFICES ASSUME NEW h \in Holders, NEW t \in Nat, Holds(h, t)'
               PROVE  Holds(h, t) \/ (h = run[r].holder /\ t = issued + 1)
    OBVIOUS
  <2>1. slot' = slot /\ \A q \in Runs : run'[q] = IF q = r THEN x ELSE run[q]
    BY <1>b, <1>c DEF McpTypes
  <2>2. x.holder = run[r].holder /\ x.refresh = run[r].refresh /\ x.next \in {issued + 1, run[r].refresh}
    BY <1>b
  <2>3. CASE slot'[h].refresh = t
    BY <2>1, <2>3 DEF Holds
  <2>4. ASSUME NEW q \in Runs, run'[q].holder = h, t \in {run'[q].refresh, run'[q].next}
        PROVE  Holds(h, t) \/ (h = run[r].holder /\ t = issued + 1)
    <3>1. CASE q = r
      BY <2>1, <2>2, <2>4, <3>1 DEF Holds
    <3>2. CASE q # r
      BY <2>1, <2>4, <3>2 DEF Holds
    <3> QED BY <3>1, <3>2
  <2> QED BY <2>3, <2>4 DEF Holds
<1>1. McpTypes'
  BY <1>a, <1>b, <1>c, <1>d DEF McpSetting, McpTypes, Issued, ServerRow, SlotRow, Flow, Landing, Doing, Pcs, Holders
<1>2. Stages'
  BY <1>a, <1>b, <1>c, <1>d DEF McpTypes, Stages, Doing, Pcs
<1>3. Issued'
  <2>1. issued' <= MaxGrants /\ live' \subseteq 1 .. issued'
    <3>1. live \subseteq 1 .. issued
      BY DEF Issued
    <3>2. live' \subseteq live \cup {issued + 1}
      BY <1>b
    <3> QED BY <1>a, <1>c, <1>d, <3>1, <3>2
  <2>2. \A h \in Holders : slot[h].token <= issued' /\ slot[h].refresh <= issued'
    BY <1>c, <1>d DEF Issued, McpTypes, SlotRow
  <2>3. \A l \in landing : l.token # 0 /\ l.token <= issued'
    BY <1>c, <1>d DEF Issued, McpTypes, Landing
  <2>4. x.refresh <= issued' /\ x.token <= issued' /\ x.next <= issued'
    <3>1. run[r].refresh <= issued /\ run[r].refresh \in Nat
      BY <1>a DEF Issued, Doing
    <3>2. issued' = issued + 1 /\ issued \in Nat
      BY <1>c, <1>d
    <3>3. x.refresh = run[r].refresh /\ x.token = issued + 1 /\ x.next \in {issued + 1, run[r].refresh}
      BY <1>b
    <3> QED BY <3>1, <3>2, <3>3
  <2>5. \A q \in Runs : run[q].refresh <= issued' /\ run[q].token <= issued' /\ run[q].next <= issued'
    BY <1>c, <1>d DEF Issued, McpTypes, Doing
  <2>6. \A q \in Runs : run'[q] = IF q = r THEN x ELSE run[q]
    BY <1>b DEF McpTypes
  <2> QED BY <1>c, <2>1, <2>2, <2>3, <2>4, <2>5, <2>6 DEF Issued
<1>4. TurnsLock'
  BY <1>a, <1>b, <1>c, <1>d DEF McpSetting, McpTypes, TurnsLock, Doing, Pcs
<1>5. Deleted'
  BY <1>a, <1>b, <1>c, <1>d DEF McpTypes, Deleted, ServerRow
<1>6. ClientKnown'
  BY <1>a, <1>b, <1>c, <1>d DEF McpTypes, ClientKnown, ServerRow, Flow
<1>7. Separate'
  <2>1. \A h \in Holders : ~Holds(h, issued + 1)
    <3>1. \A h \in Holders : slot[h].refresh # issued + 1
      BY <1>d DEF Issued, McpTypes, SlotRow
    <3>2. \A q \in Runs : run[q].refresh # issued + 1 /\ run[q].next # issued + 1
      BY <1>d DEF Issued, McpTypes, Doing
    <3> QED BY <3>1, <3>2 DEF Holds
  <2> QED BY <2>1, <1>e DEF Separate
<1>8. LandingsApart'
  <2>1. \A h \in Holders : \A t \in Nat : Holds(h, t)' => Holds(h, t) \/ t = issued + 1
    BY <1>e
  <2>2. \A l \in landing : l.token \in Nat /\ l.token # issued + 1
    BY <1>d DEF Issued, McpTypes, Landing
  <2>3. Holds(run[r].holder, run[r].refresh)
    <3>1. run[r].refresh # 0
      BY <1>d
    <3> HIDE DEF McpInv
    <3> QED BY <3>1 DEF Holds
  <2>4. \A l \in landing : l.token # run[r].refresh
    BY <1>a, <2>3 DEF LandingsApart, Doing
  <2>5. \A l \in landing : l.token \in live'
    BY <1>b, <2>4 DEF LandingsApart
  <2> QED BY <1>c, <2>1, <2>2, <2>5 DEF LandingsApart
<1>9. ~switched' => Owned'
  <2> SUFFICES ASSUME ~switched PROVE Owned'
    BY <1>c
  <2>1. Owned
    OBVIOUS
  <2>2. owner \in [1 .. MaxGrants -> Holders] /\ owner[run[r].refresh] = run[r].holder
    BY <1>a, <1>d, <2>1 DEF Owned, McpTypes
  <2>3. \A t \in 1 .. MaxGrants : t # issued + 1 => owner'[t] = owner[t]
    BY <1>c, <2>2
  <2>4. owner'[issued + 1] = run[r].holder
    BY <1>c, <1>d, <2>2
  <2>5. owner'[run[r].refresh] = run[r].holder
    BY <1>d, <2>2, <2>3, <2>4
  <2>6. \A n \in Nat : n # 0 /\ n <= issued => n \in 1 .. MaxGrants /\ n # issued + 1
    <3>1. issued \in Nat /\ issued < MaxGrants /\ MaxGrants \in Nat
      BY <1>a, <1>d DEF McpSetting
    <3> QED BY <3>1
  <2>7. \A h \in Holders : /\ slot[h].token # 0 => owner'[slot[h].token] = h
                           /\ slot[h].refresh # 0 => owner'[slot[h].refresh] = h
    BY <2>1, <2>3, <2>6 DEF Owned, Issued, McpTypes, SlotRow
  <2>8. \A q \in Runs : /\ run[q].token # 0 => owner'[run[q].token] = run[q].holder
                        /\ run[q].refresh # 0 => owner'[run[q].refresh] = run[q].holder
                        /\ run[q].next # 0 => owner'[run[q].next] = run[q].holder
    BY <2>1, <2>3, <2>6 DEF Owned, Issued, McpTypes, Doing
  <2>9. \A l \in landing : owner'[l.token] = l.user
    BY <2>1, <2>3, <2>6 DEF Owned, Issued, McpTypes, Landing
  <2>10. \A q \in Runs : run'[q] = IF q = r THEN x ELSE run[q]
    BY <1>b DEF McpTypes
  <2>11. /\ owner'[x.token] = x.holder /\ owner'[x.refresh] = x.holder /\ owner'[x.next] = x.holder
    BY <1>b, <2>4, <2>5
  <2> QED BY <1>c, <2>1, <2>7, <2>8, <2>9, <2>10, <2>11 DEF Owned
<1>10. ~switched' => FlowsFit'
  BY <1>a, <1>b, <1>c, <1>d DEF McpTypes, FlowsFit, ServerRow, Flow
<1>11. ~lapped' => Alone'
  BY <1>a, <1>b, <1>c, <1>d DEF McpTypes, Alone, Busy, Doing
<1>12. ~lapped' => GoneQuiet'
  BY <1>a, <1>b, <1>c, <1>d DEF McpTypes, GoneQuiet, Busy, Deleted, Slot, ServerRow, SlotRow, Doing
<1>13. ~lapped' /\ ~lost' => Refreshable'
  <2> SUFFICES ASSUME ~lapped, ~lost PROVE Refreshable'
    BY <1>c
  <2>1. Refreshable /\ Alone
    OBVIOUS
  <2>2. \A t \in live : t # run[r].refresh => t \in live'
    BY <1>b
  <2>3. x.next \in live'
    BY <1>a, <1>b
  <2>4. Holds(run[r].holder, run[r].refresh)
    BY <1>a, <1>d DEF Holds
  <2>5. \A q \in Runs : q # r /\ run[q].pc \in {"flush", "turn"} => run[q].next \in live'
    <3> SUFFICES ASSUME NEW q \in Runs, q # r, run[q].pc \in {"flush", "turn"} PROVE run[q].next # run[r].refresh
      BY <2>1, <2>2 DEF Refreshable
    <3>1. run[q].holder # run[r].holder /\ run[q] \in Doing
      BY <1>a, <2>1 DEF Alone, McpTypes
    <3>2. run[q].next # 0 /\ run[q].next \in Nat /\ run[q].holder \in Holders /\ run[r].holder \in Holders
      BY <1>a, <3>1 DEF Stages, Doing
    <3>3. Holds(run[q].holder, run[q].next)
      BY <3>2 DEF Holds
    <3> QED BY <2>4, <3>1, <3>2, <3>3 DEF Separate
  <2>6. \A q \in Runs : run'[q] = IF q = r THEN x ELSE run[q]
    BY <1>b DEF McpTypes
  <2>7. ASSUME NEW h \in Holders, slot[h].token # 0, ~(\E q \in Runs : run'[q].holder = h /\ run'[q].pc \in {"flush", "turn"})
        PROVE  slot[h].refresh \in live'
    <3>1. h # run[r].holder
      BY <1>b, <2>6, <2>7
    <3>2. ~(\E q \in Runs : run[q].holder = h /\ run[q].pc \in {"flush", "turn"})
      BY <3>1, <2>6, <2>7
    <3>3. slot[h].refresh \in live
      BY <2>1, <2>7, <3>2 DEF Refreshable
    <3>4. slot[h].refresh \in Nat /\ slot[h].refresh # 0 /\ run[r].holder \in Holders
      BY <1>a, <3>3 DEF McpTypes, SlotRow, Doing, Issued
    <3>5. Holds(h, slot[h].refresh)
      BY <3>4 DEF Holds
    <3>6. slot[h].refresh # run[r].refresh
      BY <2>4, <3>1, <3>4, <3>5 DEF Separate
    <3> QED BY <2>2, <3>3, <3>6
  <2> QED BY <1>b, <1>c, <2>3, <2>5, <2>6, <2>7 DEF Refreshable
<1> QED BY <1>1, <1>2, <1>3, <1>4, <1>5, <1>6, <1>7, <1>8, <1>9, <1>10, <1>11, <1>12, <1>13

LEMMA RefreshFailsKeeps ==
  ASSUME McpSetting, McpInv, NEW r \in Runs, RefreshFails(r)
  PROVE  McpInv'
<1> USE DEF McpInv
<1>1. McpTypes'
  BY DEF RefreshFails, Idle, Does, provider, history, McpSetting, McpTypes, Issued, ServerRow, SlotRow, Flow, Landing, Doing, Pcs, Holders
<1>2. Stages'
  BY DEF RefreshFails, Idle, Does, provider, history, McpTypes, Stages, Doing, Pcs
<1>3. Issued'
  BY DEF RefreshFails, Idle, Does, provider, history, McpTypes, Issued, SlotRow, Doing, Landing
<1>4. TurnsLock'
  BY DEF RefreshFails, Idle, Does, provider, history, McpSetting, McpTypes, TurnsLock, Doing, Pcs
<1>5. Deleted'
  BY DEF RefreshFails, Idle, Does, provider, history, McpTypes, Deleted, ServerRow
<1>6. ClientKnown'
  BY DEF RefreshFails, Idle, Does, provider, history, McpTypes, ClientKnown, ServerRow, Flow
<1>7. Separate'
  <2>1. \A h \in Holders : \A t \in Nat : Holds(h, t)' => Holds(h, t)
    BY DEF RefreshFails, Idle, Does, provider, history, McpTypes, Holds, SlotRow, Doing
  <2> QED BY <2>1, ByHolds
<1>8. LandingsApart'
  BY DEF RefreshFails, Idle, Does, provider, history, McpTypes, LandingsApart, Holds, Issued, SlotRow, Doing, Landing
<1>9. ~switched' => Owned'
  BY DEF RefreshFails, Idle, Does, provider, history, McpSetting, McpTypes, Owned, Issued, ServerRow, SlotRow, Doing, Flow, Landing, Holders
<1>10. ~switched' => FlowsFit'
  BY DEF RefreshFails, Idle, Does, provider, history, McpTypes, FlowsFit, ServerRow, Flow
<1>11. ~lapped' => Alone'
  BY DEF RefreshFails, Idle, Does, provider, history, McpTypes, Alone, Busy, Doing
<1>12. ~lapped' => GoneQuiet'
  BY DEF RefreshFails, Idle, Does, provider, history, McpTypes, GoneQuiet, Busy, Deleted, Slot, ServerRow, SlotRow, Doing
<1>13. ~lapped' /\ ~lost' => Refreshable'
  BY DEF RefreshFails, Idle, Does, provider, history, McpTypes, Refreshable, Issued, Stages, Busy, SlotRow, Doing
<1> QED BY <1>1, <1>2, <1>3, <1>4, <1>5, <1>6, <1>7, <1>8, <1>9, <1>10, <1>11, <1>12, <1>13

LEMMA FlushKeeps ==
  ASSUME McpSetting, McpInv, NEW r \in Runs, Flush(r)
  PROVE  McpInv'
<1> USE DEF McpInv
<1>a. run[r] \in Doing /\ run[r].pc = "flush" /\ slot_lock[run[r].holder] = Org
  BY DEF Flush, McpTypes
<1>b. PICK x \in Doing :
        /\ run' = [run EXCEPT ![r] = x]
        /\ \/ /\ slot[run[r].holder].row /\ slot_lock' = [slot_lock EXCEPT ![run[r].holder] = r] /\ lost' = lost
              /\ x.pc = "turn" /\ x.holder = run[r].holder
              /\ x.refresh = run[r].refresh /\ x.token = run[r].token /\ x.next = run[r].next
           \/ /\ slot_lock' = slot_lock /\ lost' = TRUE
              /\ x.pc = "idle" /\ x.refresh = 0 /\ x.token = 0 /\ x.next = 0
  <2>1. Idle \in Doing /\ Idle = Does("idle", Org, 0, 0, 0)
    BY DEF Does, Doing, Idle, Pcs, Holders
  <2>2. Does("turn", run[r].holder, run[r].refresh, run[r].token, run[r].next) \in Doing
    BY <1>a DEF Does, Doing, Pcs
  <2>3. CASE slot[run[r].holder].row
    BY <2>2, <2>3 DEF Flush, Does
  <2>4. CASE ~slot[run[r].holder].row
    BY <2>1, <2>4 DEF Flush, Does
  <2> QED BY <2>3, <2>4
<1>c. UNCHANGED <<server, slot, flows, starting, landing, issued, owner, live, clients, changes, started, lapped, switched, gone>>
  BY DEF Flush, provider
<1>1. McpTypes'
  <2>1. run' \in [Runs -> Doing]
    BY <1>b DEF McpTypes
  <2>2. slot_lock' \in [Holders -> Runs \cup {Org}]
    <3>1. slot_lock \in [Holders -> Runs \cup {Org}]
      BY DEF McpTypes
    <3>2. slot_lock' \in {slot_lock, [slot_lock EXCEPT ![run[r].holder] = r]}
      BY <1>b
    <3> QED BY <3>1, <3>2
  <2>3. lost' \in BOOLEAN
    BY <1>b DEF McpTypes
  <2> QED BY <1>c, <2>1, <2>2, <2>3 DEF McpTypes
<1>2. Stages'
  BY <1>a, <1>b, <1>c DEF McpTypes, Stages, Doing, Pcs
<1>3. Issued'
  BY <1>a, <1>b, <1>c DEF McpTypes, Issued, SlotRow, Doing, Landing
<1>4. TurnsLock'
  <2>1. CASE x.pc = "turn"
    BY <1>a, <1>b, <1>c, <2>1 DEF McpSetting, McpTypes, TurnsLock, Doing
  <2>2. CASE x.pc = "idle"
    BY <1>a, <1>b, <1>c, <2>2 DEF McpSetting, McpTypes, TurnsLock, Doing
  <2> QED BY <1>b, <2>1, <2>2
<1>5. Deleted'
  <2>1. CASE x.pc = "turn"
    BY <1>a, <1>b, <1>c, <2>1 DEF McpTypes, Deleted, Slot, SlotRow, Doing
  <2>2. CASE x.pc = "idle"
    BY <1>a, <1>b, <1>c, <2>2 DEF McpTypes, Deleted, Slot, SlotRow, Doing
  <2> QED BY <1>b, <2>1, <2>2
<1>6. ClientKnown'
  BY <1>a, <1>b, <1>c DEF McpTypes, ClientKnown, ServerRow, Flow
<1>7. Separate'
  <2>1. \A h \in Holders : \A t \in Nat : Holds(h, t)' => Holds(h, t)
    BY <1>a, <1>b, <1>c DEF McpTypes, Holds, SlotRow, Doing
  <2> QED BY <2>1, ByHolds
<1>8. LandingsApart'
  <2>1. CASE x.pc = "turn"
    BY <1>a, <1>b, <1>c, <2>1 DEF McpTypes, LandingsApart, Holds, Doing, Landing
  <2>2. CASE x.pc = "idle"
    BY <1>a, <1>b, <1>c, <2>2 DEF McpTypes, LandingsApart, Holds, Doing, Landing
  <2> QED BY <1>b, <2>1, <2>2
<1>9. ~switched' => Owned'
  <2>1. CASE x.pc = "turn"
    BY <1>a, <1>b, <1>c, <2>1 DEF McpTypes, Owned, Doing
  <2>2. CASE x.pc = "idle"
    BY <1>a, <1>b, <1>c, <2>2 DEF McpTypes, Owned, Doing
  <2> QED BY <1>b, <2>1, <2>2
<1>10. ~switched' => FlowsFit'
  BY <1>a, <1>b, <1>c DEF McpTypes, FlowsFit, ServerRow, Flow
<1>11. ~lapped' => Alone'
  BY <1>a, <1>b, <1>c DEF McpTypes, Alone, Busy, Doing
<1>12. ~lapped' => GoneQuiet'
  BY <1>a, <1>b, <1>c DEF McpTypes, GoneQuiet, Busy, Deleted, Slot, ServerRow, SlotRow, Doing
<1>13. ~lapped' /\ ~lost' => Refreshable'
  BY <1>a, <1>b, <1>c DEF McpTypes, Refreshable, Issued, Stages, Busy, SlotRow, Doing
<1> QED BY <1>1, <1>2, <1>3, <1>4, <1>5, <1>6, <1>7, <1>8, <1>9, <1>10, <1>11, <1>12, <1>13

LEMMA CommitKeeps ==
  ASSUME McpSetting, McpInv, NEW r \in Runs, TurnCommits(r)
  PROVE  McpInv'
<1> USE DEF McpInv
<1>1. McpTypes'
  BY DEF TurnCommits, Tokens, Slot, Does, provider, history, McpSetting, McpTypes, Issued, ServerRow, SlotRow, Flow, Landing, Doing, Pcs, Holders
<1>2. Stages'
  BY DEF TurnCommits, Tokens, Slot, Does, provider, history, McpTypes, Stages, Doing, Pcs
<1>3. Issued'
  BY DEF TurnCommits, Tokens, Slot, Does, provider, history, McpTypes, Issued, SlotRow, Doing, Landing
<1>4. TurnsLock'
  BY DEF TurnCommits, Tokens, Slot, Does, provider, history, McpSetting, McpTypes, TurnsLock, Doing, Pcs
<1>5. Deleted'
  BY DEF TurnCommits, Tokens, Slot, Does, provider, history, McpTypes, Deleted, ServerRow
<1>6. ClientKnown'
  BY DEF TurnCommits, Tokens, Slot, Does, provider, history, McpTypes, ClientKnown, ServerRow, Flow
<1>7. Separate'
  <2>1. \A h \in Holders : \A t \in Nat : Holds(h, t)' => Holds(h, t)
    BY DEF TurnCommits, Tokens, Slot, Does, provider, history, McpTypes, Holds, SlotRow, Doing
  <2> QED BY <2>1, ByHolds
<1>8. LandingsApart'
  <2>1. \A h \in Holders : \A t \in Nat : Holds(h, t)' => Holds(h, t)
    BY DEF TurnCommits, Tokens, Slot, Does, McpTypes, Holds, Doing, SlotRow
  <2>2. landing' = landing /\ live' = live
    BY DEF TurnCommits, provider
  <2> QED BY <2>1, <2>2 DEF LandingsApart, McpTypes, Landing
<1>9. ~switched' => Owned'
  BY DEF TurnCommits, Tokens, Slot, Does, provider, history, McpSetting, McpTypes, Owned, Issued, ServerRow, SlotRow, Doing, Flow, Landing, Holders
<1>10. ~switched' => FlowsFit'
  BY DEF TurnCommits, Tokens, Slot, Does, provider, history, McpTypes, FlowsFit, ServerRow, Flow
<1>11. ~lapped' => Alone'
  BY DEF TurnCommits, Tokens, Slot, Does, provider, history, McpTypes, Alone, Busy, Doing
<1>12. ~lapped' => GoneQuiet'
  BY DEF TurnCommits, Tokens, Slot, Does, provider, history, McpTypes, GoneQuiet, Busy, Deleted, Slot, ServerRow, SlotRow, Doing
<1>13. ~lapped' /\ ~lost' => Refreshable'
  BY DEF TurnCommits, Tokens, Slot, Does, provider, history, McpTypes, Refreshable, Issued, Stages, Busy, SlotRow, Doing
<1> QED BY <1>1, <1>2, <1>3, <1>4, <1>5, <1>6, <1>7, <1>8, <1>9, <1>10, <1>11, <1>12, <1>13

LEMMA RollBackKeeps ==
  ASSUME McpSetting, McpInv, NEW r \in Runs, TurnRollsBack(r)
  PROVE  McpInv'
<1> USE DEF McpInv
<1>1. McpTypes'
  BY DEF TurnRollsBack, Idle, Does, provider, McpSetting, McpTypes, Issued, ServerRow, SlotRow, Flow, Landing, Doing, Pcs, Holders
<1>2. Stages'
  BY DEF TurnRollsBack, Idle, Does, provider, McpTypes, Stages, Doing, Pcs
<1>3. Issued'
  BY DEF TurnRollsBack, Idle, Does, provider, McpTypes, Issued, SlotRow, Doing, Landing
<1>4. TurnsLock'
  BY DEF TurnRollsBack, Idle, Does, provider, McpSetting, McpTypes, TurnsLock, Doing, Pcs
<1>5. Deleted'
  BY DEF TurnRollsBack, Idle, Does, provider, McpTypes, Deleted, ServerRow
<1>6. ClientKnown'
  BY DEF TurnRollsBack, Idle, Does, provider, McpTypes, ClientKnown, ServerRow, Flow
<1>7. Separate'
  <2>1. \A h \in Holders : \A t \in Nat : Holds(h, t)' => Holds(h, t)
    BY DEF TurnRollsBack, Idle, Does, provider, McpTypes, Holds, SlotRow, Doing
  <2> QED BY <2>1, ByHolds
<1>8. LandingsApart'
  BY DEF TurnRollsBack, Idle, Does, provider, McpTypes, LandingsApart, Holds, Issued, SlotRow, Doing, Landing
<1>9. ~switched' => Owned'
  BY DEF TurnRollsBack, Idle, Does, provider, McpSetting, McpTypes, Owned, Issued, ServerRow, SlotRow, Doing, Flow, Landing, Holders
<1>10. ~switched' => FlowsFit'
  BY DEF TurnRollsBack, Idle, Does, provider, McpTypes, FlowsFit, ServerRow, Flow
<1>11. ~lapped' => Alone'
  BY DEF TurnRollsBack, Idle, Does, provider, McpTypes, Alone, Busy, Doing
<1>12. ~lapped' => GoneQuiet'
  BY DEF TurnRollsBack, Idle, Does, provider, McpTypes, GoneQuiet, Busy, Deleted, Slot, ServerRow, SlotRow, Doing
<1>13. ~lapped' /\ ~lost' => Refreshable'
  BY DEF TurnRollsBack, Idle, Does, provider, McpTypes, Refreshable, Issued, Stages, Busy, SlotRow, Doing
<1> QED BY <1>1, <1>2, <1>3, <1>4, <1>5, <1>6, <1>7, <1>8, <1>9, <1>10, <1>11, <1>12, <1>13

LEMMA RunEndsKeeps ==
  ASSUME McpSetting, McpInv, NEW r \in Runs, RunEnds(r)
  PROVE  McpInv'
<1> USE DEF McpInv
<1>1. McpTypes'
  BY DEF RunEnds, Idle, Does, provider, history, McpSetting, McpTypes, Issued, ServerRow, SlotRow, Flow, Landing, Doing, Pcs, Holders
<1>2. Stages'
  BY DEF RunEnds, Idle, Does, provider, history, McpTypes, Stages, Doing, Pcs
<1>3. Issued'
  BY DEF RunEnds, Idle, Does, provider, history, McpTypes, Issued, SlotRow, Doing, Landing
<1>4. TurnsLock'
  BY DEF RunEnds, Idle, Does, provider, history, McpSetting, McpTypes, TurnsLock, Doing, Pcs
<1>5. Deleted'
  BY DEF RunEnds, Idle, Does, provider, history, McpTypes, Deleted, ServerRow
<1>6. ClientKnown'
  BY DEF RunEnds, Idle, Does, provider, history, McpTypes, ClientKnown, ServerRow, Flow
<1>7. Separate'
  <2>1. \A h \in Holders : \A t \in Nat : Holds(h, t)' => Holds(h, t)
    BY DEF RunEnds, Idle, Does, provider, history, McpTypes, Holds, SlotRow, Doing
  <2> QED BY <2>1, ByHolds
<1>8. LandingsApart'
  BY DEF RunEnds, Idle, Does, provider, history, McpTypes, LandingsApart, Holds, Issued, SlotRow, Doing, Landing
<1>9. ~switched' => Owned'
  BY DEF RunEnds, Idle, Does, provider, history, McpSetting, McpTypes, Owned, Issued, ServerRow, SlotRow, Doing, Flow, Landing, Holders
<1>10. ~switched' => FlowsFit'
  BY DEF RunEnds, Idle, Does, provider, history, McpTypes, FlowsFit, ServerRow, Flow
<1>11. ~lapped' => Alone'
  BY DEF RunEnds, Idle, Does, provider, history, McpTypes, Alone, Busy, Doing
<1>12. ~lapped' => GoneQuiet'
  BY DEF RunEnds, Idle, Does, provider, history, McpTypes, GoneQuiet, Busy, Deleted, Slot, ServerRow, SlotRow, Doing
<1>13. ~lapped' /\ ~lost' => Refreshable'
  BY DEF RunEnds, Idle, Does, provider, history, McpTypes, Refreshable, Issued, Stages, Busy, SlotRow, Doing
<1> QED BY <1>1, <1>2, <1>3, <1>4, <1>5, <1>6, <1>7, <1>8, <1>9, <1>10, <1>11, <1>12, <1>13

LEMMA FallsDueKeeps ==
  ASSUME McpSetting, McpInv, NEW k \in Holders, FallsDue(k)
  PROVE  McpInv'
<1> USE DEF McpInv
<1>1. McpTypes'
  BY DEF FallsDue, Slot, provider, history, McpSetting, McpTypes, Issued, ServerRow, SlotRow, Flow, Landing, Doing, Pcs, Holders
<1>2. Stages'
  BY DEF FallsDue, Slot, provider, history, McpTypes, Stages, Doing, Pcs
<1>3. Issued'
  BY DEF FallsDue, Slot, provider, history, McpTypes, Issued, SlotRow, Doing, Landing
<1>4. TurnsLock'
  BY DEF FallsDue, Slot, provider, history, McpSetting, McpTypes, TurnsLock, Doing, Pcs
<1>5. Deleted'
  BY DEF FallsDue, Slot, provider, history, McpTypes, Deleted, ServerRow
<1>6. ClientKnown'
  BY DEF FallsDue, Slot, provider, history, McpTypes, ClientKnown, ServerRow, Flow
<1>7. Separate'
  <2>1. \A h \in Holders : \A t \in Nat : Holds(h, t)' => Holds(h, t)
    BY DEF FallsDue, Slot, provider, history, McpTypes, Holds, SlotRow, Doing
  <2> QED BY <2>1, ByHolds
<1>8. LandingsApart'
  BY DEF FallsDue, Slot, provider, history, McpTypes, LandingsApart, Holds, Issued, SlotRow, Doing, Landing
<1>9. ~switched' => Owned'
  BY DEF FallsDue, Slot, provider, history, McpSetting, McpTypes, Owned, Issued, ServerRow, SlotRow, Doing, Flow, Landing, Holders
<1>10. ~switched' => FlowsFit'
  BY DEF FallsDue, Slot, provider, history, McpTypes, FlowsFit, ServerRow, Flow
<1>11. ~lapped' => Alone'
  BY DEF FallsDue, Slot, provider, history, McpTypes, Alone, Busy, Doing
<1>12. ~lapped' => GoneQuiet'
  BY DEF FallsDue, Slot, provider, history, McpTypes, GoneQuiet, Busy, Deleted, Slot, ServerRow, SlotRow, Doing
<1>13. ~lapped' /\ ~lost' => Refreshable'
  BY DEF FallsDue, Slot, provider, history, McpTypes, Refreshable, Issued, Stages, Busy, SlotRow, Doing
<1> QED BY <1>1, <1>2, <1>3, <1>4, <1>5, <1>6, <1>7, <1>8, <1>9, <1>10, <1>11, <1>12, <1>13

LEMMA DisconnectKeeps ==
  ASSUME McpSetting, McpInv, NEW u \in Users, server.enabled, disconnect(u)
  PROVE  McpInv'
<1> USE DEF McpInv
<1>1. McpTypes'
  <2> DEFINE k == Holder(server.identity, u)
  <2>1. k \in Holders
    BY DEF Holder, Holders
  <2>2. \E e \in SlotRow : slot' = [slot EXCEPT ![k] = e]
    <3> DEFINE e == [row |-> k = Org, token |-> 0, refresh |-> 0, due |-> FALSE]
    <3>1. e \in SlotRow
      BY DEF SlotRow
    <3>2. slot' = [slot EXCEPT ![k] = e]
      BY DEF disconnect, Emptied, Empty, Slot
    <3> QED BY <3>1, <3>2
  <2>3. /\ changes' = changes + 1 /\ gone' = gone \cup {k} /\ lapped' \in BOOLEAN
        /\ UNCHANGED <<server, flows, starting, landing, run, slot_lock, issued, owner, live, clients, started, lost, switched>>
    BY DEF disconnect, Change, Emptied, Empty, provider
  <2> HIDE DEF k
  <2> QED BY <2>1, <2>2, <2>3 DEF McpTypes
<1>2. Stages'
  BY DEF disconnect, Change, Holder, Emptied, Empty, Slot, provider, McpTypes, Stages, Doing, Pcs
<1>3. Issued'
  BY DEF disconnect, Change, Holder, Emptied, Empty, Slot, provider, McpTypes, Issued, SlotRow, Doing, Landing
<1>4. TurnsLock'
  BY DEF disconnect, Change, Holder, Emptied, Empty, Slot, provider, McpSetting, McpTypes, TurnsLock, Doing, Pcs
<1>5. Deleted'
  BY DEF disconnect, Change, Holder, Emptied, Empty, Slot, provider, McpTypes, Deleted, ServerRow
<1>6. ClientKnown'
  BY DEF disconnect, Change, Holder, Emptied, Empty, Slot, provider, McpTypes, ClientKnown, ServerRow, Flow
<1>7. Separate'
  <2>1. \A h \in Holders : \A t \in Nat : Holds(h, t)' => Holds(h, t)
    BY DEF disconnect, Change, Holder, Emptied, Empty, Slot, provider, McpTypes, Holds, SlotRow, Doing
  <2> QED BY <2>1, ByHolds
<1>8. LandingsApart'
  BY DEF disconnect, Change, Holder, Emptied, Empty, Slot, provider, McpTypes, LandingsApart, Holds, Issued, SlotRow, Doing, Landing
<1>9. ~switched' => Owned'
  BY DEF disconnect, Change, Holder, Emptied, Empty, Slot, provider, McpSetting, McpTypes, Owned, Issued, ServerRow, SlotRow, Doing, Flow, Landing, Holders
<1>10. ~switched' => FlowsFit'
  BY DEF disconnect, Change, Holder, Emptied, Empty, Slot, provider, McpTypes, FlowsFit, ServerRow, Flow
<1>11. ~lapped' => Alone'
  BY DEF disconnect, Change, Holder, Emptied, Empty, Slot, provider, McpTypes, Alone, Busy, Doing
<1>12. ~lapped' => GoneQuiet'
  <2> DEFINE k == Holder(server.identity, u)
  <2>1. k \in Holders
    BY DEF Holder, Holders
  <2>2. /\ slot' = [slot EXCEPT ![k] = Slot(k = Org, 0, 0, FALSE)] /\ gone' = gone \cup {k} /\ run' = run /\ server' = server
    BY DEF disconnect, Emptied, Empty
  <2>3. lapped' = (lapped \/ Busy(k) \/ landing # {})
    BY DEF disconnect
  <2> HIDE DEF k
  <2>4. slot'[k].token = 0 /\ slot'[k].refresh = 0 /\ \A h \in Holders : h # k => slot'[h] = slot[h]
    BY <2>1, <2>2 DEF McpTypes, Slot
  <2> QED BY <2>1, <2>2, <2>3, <2>4 DEF GoneQuiet, McpTypes, Busy
<1>13. ~lapped' /\ ~lost' => Refreshable'
  BY DEF disconnect, Change, Holder, Emptied, Empty, Slot, provider, McpTypes, Refreshable, Issued, Stages, Busy, SlotRow, Doing
<1> QED BY <1>1, <1>2, <1>3, <1>4, <1>5, <1>6, <1>7, <1>8, <1>9, <1>10, <1>11, <1>12, <1>13

LEMMA UpdateKeeps ==
  ASSUME McpSetting, McpInv, server.enabled, NEW i \in {"org", "user"}, NEW c \in 1 .. MaxClients, update_mcp_server(i, c)
  PROVE  McpInv'
<1> USE DEF McpInv
<1>1. McpTypes'
  <2>1. c \in Nat
    OBVIOUS
  <2>2. /\ server' = [server EXCEPT !.identity = i, !.client = c] /\ clients' \in {c, clients} /\ changes' = changes + 1 /\ switched' \in BOOLEAN
        /\ UNCHANGED <<slot, flows, starting, landing, run, slot_lock, issued, owner, live, started, lapped, lost, gone>>
    BY DEF update_mcp_server, Change, provider
  <2>3. server' \in ServerRow
    BY <2>1, <2>2 DEF McpTypes, ServerRow
  <2> QED BY <2>1, <2>2, <2>3 DEF McpTypes
<1>2. Stages'
  BY DEF update_mcp_server, Change, Open, provider, McpTypes, Stages, Doing, Pcs
<1>3. Issued'
  BY DEF update_mcp_server, Change, Open, provider, McpTypes, Issued, SlotRow, Doing, Landing
<1>4. TurnsLock'
  BY DEF update_mcp_server, Change, Open, provider, McpSetting, McpTypes, TurnsLock, Doing, Pcs
<1>5. Deleted'
  BY DEF update_mcp_server, Change, Open, provider, McpTypes, Deleted, ServerRow
<1>6. ClientKnown'
  BY DEF update_mcp_server, Change, Open, provider, McpTypes, ClientKnown, ServerRow, Flow
<1>7. Separate'
  <2>1. \A h \in Holders : \A t \in Nat : Holds(h, t)' => Holds(h, t)
    BY DEF update_mcp_server, Change, Open, provider, McpTypes, Holds, SlotRow, Doing
  <2> QED BY <2>1, ByHolds
<1>8. LandingsApart'
  BY DEF update_mcp_server, Change, Open, provider, McpTypes, LandingsApart, Holds, Issued, SlotRow, Doing, Landing
<1>9. ~switched' => Owned'
  BY DEF update_mcp_server, Change, Open, provider, McpSetting, McpTypes, Owned, Issued, ServerRow, SlotRow, Doing, Flow, Landing, Holders
<1>10. ~switched' => FlowsFit'
  BY DEF update_mcp_server, Change, Open, provider, McpTypes, FlowsFit, ServerRow, Flow
<1>11. ~lapped' => Alone'
  BY DEF update_mcp_server, Change, Open, provider, McpTypes, Alone, Busy, Doing
<1>12. ~lapped' => GoneQuiet'
  BY DEF update_mcp_server, Change, Open, provider, McpTypes, GoneQuiet, Busy, Deleted, Slot, ServerRow, SlotRow, Doing
<1>13. ~lapped' /\ ~lost' => Refreshable'
  BY DEF update_mcp_server, Change, Open, provider, McpTypes, Refreshable, Issued, Stages, Busy, SlotRow, Doing
<1> QED BY <1>1, <1>2, <1>3, <1>4, <1>5, <1>6, <1>7, <1>8, <1>9, <1>10, <1>11, <1>12, <1>13

LEMMA DeleteKeeps ==
  ASSUME McpSetting, McpInv, delete_mcp_server
  PROVE  McpInv'
<1> USE DEF McpInv
<1>1. McpTypes'
  <2>1. /\ server' = [server EXCEPT !.enabled = FALSE]
        /\ flows' = {} /\ landing' = {} /\ starting' = {} /\ gone' = Holders /\ changes' = changes + 1
        /\ UNCHANGED <<run, slot_lock, issued, owner, live, clients, started, lapped, lost, switched>>
    BY DEF delete_mcp_server, Change, provider
  <2>2. slot' \in [Holders -> SlotRow]
    BY DEF delete_mcp_server, Slot, SlotRow
  <2>3. server' \in ServerRow
    BY <2>1 DEF McpTypes, ServerRow
  <2> QED BY <2>1, <2>2, <2>3 DEF McpTypes
<1>2. Stages'
  BY DEF delete_mcp_server, Change, Slot, provider, McpTypes, Stages, Doing, Pcs
<1>3. Issued'
  BY DEF delete_mcp_server, Change, Slot, provider, McpTypes, Issued, SlotRow, Doing, Landing
<1>4. TurnsLock'
  BY DEF delete_mcp_server, Change, Slot, provider, McpSetting, McpTypes, TurnsLock, Doing, Pcs
<1>5. Deleted'
  <2>1. \A h \in Holders : slot'[h] = Slot(FALSE, 0, 0, FALSE)
    BY DEF delete_mcp_server
  <2>2. \A r \in Runs : run[r].pc # "turn"
    BY DEF delete_mcp_server, McpSetting, McpTypes, TurnsLock, Doing
  <2> QED BY <2>1, <2>2 DEF delete_mcp_server, Deleted
<1>6. ClientKnown'
  BY DEF delete_mcp_server, Change, Slot, provider, McpTypes, ClientKnown, ServerRow, Flow
<1>7. Separate'
  <2>1. \A h \in Holders : \A t \in Nat : Holds(h, t)' => Holds(h, t)
    BY DEF delete_mcp_server, Change, Slot, provider, McpTypes, Holds, SlotRow, Doing
  <2> QED BY <2>1, ByHolds
<1>8. LandingsApart'
  BY DEF delete_mcp_server, Change, Slot, provider, McpTypes, LandingsApart, Holds, Issued, SlotRow, Doing, Landing
<1>9. ~switched' => Owned'
  BY DEF delete_mcp_server, Change, Slot, provider, McpSetting, McpTypes, Owned, Issued, ServerRow, SlotRow, Doing, Flow, Landing, Holders
<1>10. ~switched' => FlowsFit'
  BY DEF delete_mcp_server, Change, Slot, provider, McpTypes, FlowsFit, ServerRow, Flow
<1>11. ~lapped' => Alone'
  BY DEF delete_mcp_server, Change, Slot, provider, McpTypes, Alone, Busy, Doing
<1>12. ~lapped' => GoneQuiet'
  BY DEF delete_mcp_server, Change, Slot, provider, McpTypes, GoneQuiet, Busy, Deleted, Slot, ServerRow, SlotRow, Doing
<1>13. ~lapped' /\ ~lost' => Refreshable'
  BY DEF delete_mcp_server, Change, Slot, provider, McpTypes, Refreshable, Issued, Stages, Busy, SlotRow, Doing
<1> QED BY <1>1, <1>2, <1>3, <1>4, <1>5, <1>6, <1>7, <1>8, <1>9, <1>10, <1>11, <1>12, <1>13

LEMMA McpStutter ==
  ASSUME McpInv, UNCHANGED mcp_vars
  PROVE  McpInv'
<1> USE DEF McpInv, mcp_vars, provider, history
<1>1. McpTypes' /\ Stages' /\ Issued' /\ TurnsLock'
  BY DEF McpTypes, Stages, Issued, TurnsLock
<1>2. Deleted' /\ ClientKnown'
  BY DEF Deleted, ClientKnown
<1>5. \A h \in Holders : \A t : Holds(h, t)' <=> Holds(h, t)
  BY DEF Holds
<1>6. Separate' /\ LandingsApart'
  BY <1>5 DEF Separate, LandingsApart
<1>3. (~switched' => Owned' /\ FlowsFit') /\ (~lapped' => Alone' /\ GoneQuiet')
  BY DEF Owned, FlowsFit, Alone, GoneQuiet, Busy
<1>4. ~lapped' /\ ~lost' => Refreshable'
  BY DEF Refreshable
<1> QED BY <1>1, <1>2, <1>3, <1>4, <1>6

LEMMA McpInitially ==
  ASSUME McpSetting, McpInit
  PROVE  McpInv
<1> USE DEF McpInit
<1>1. \A r \in Runs : run[r].pc = "idle" /\ run[r].refresh = 0 /\ run[r].token = 0 /\ run[r].next = 0
  BY DEF Idle, Does
<1>2. \A h \in Holders : slot[h].token = 0 /\ slot[h].refresh = 0 /\ slot_lock[h] = Org
  BY DEF Empty, Slot
<1>3. McpTypes
  <2>1. server \in ServerRow
    <3>1. PICK i \in {"org", "user"}, c \in {0, 1}, e \in {TRUE} : server = [identity |-> i, client |-> c, enabled |-> e]
      OBVIOUS
    <3>2. e \in BOOLEAN /\ c \in Nat
      OBVIOUS
    <3> QED BY <3>1, <3>2 DEF ServerRow
  <2>2. slot \in [Holders -> SlotRow]
    BY DEF SlotRow, Empty, Slot
  <2>3. run \in [Runs -> Doing]
    BY DEF Doing, Idle, Does, Pcs, Holders
  <2>4. owner \in [1 .. MaxGrants -> Holders] /\ slot_lock \in [Holders -> Runs \cup {Org}]
    BY DEF Holders
  <2>5. clients \in Nat
    BY DEF ServerRow
  <2> QED BY <2>1, <2>2, <2>3, <2>4, <2>5 DEF McpTypes
<1>4. Stages /\ Issued
  BY <1>1, <1>2 DEF Stages, Issued, McpSetting
<1>10. Deleted
  <2>1. server.enabled
    OBVIOUS
  <2> QED BY <2>1 DEF Deleted
<1>5. TurnsLock
  BY <1>1, <1>2 DEF TurnsLock
<1>6. ClientKnown
  BY <1>3 DEF ClientKnown, McpTypes, ServerRow
<1>7. Separate /\ LandingsApart
  BY <1>1, <1>2 DEF Separate, LandingsApart, Holds
<1>8. Owned /\ FlowsFit /\ Alone /\ GoneQuiet
  BY <1>1, <1>2 DEF Owned, FlowsFit, Alone, GoneQuiet
<1>9. Refreshable
  BY <1>1, <1>2 DEF Refreshable
<1> QED BY <1>3, <1>4, <1>5, <1>6, <1>7, <1>8, <1>9, <1>10 DEF McpInv

LEMMA McpSteps ==
  ASSUME McpSetting, McpInv, McpNext
  PROVE  McpInv'
<1>1. ASSUME NEW u \in Users, server.enabled, oauth_start(u) \/ disconnect(u) PROVE McpInv'
  BY <1>1, StartKeeps, DisconnectKeeps
<1>2. ASSUME NEW f \in starting, StartEnds(f) \/ StartFails(f) PROVE McpInv'
  BY <1>2, StartEndsKeeps, StartFailsKeeps
<1>3. ASSUME NEW f \in flows, Exchange(f) PROVE McpInv'
  BY <1>3, ExchangeKeeps
<1>4. ASSUME NEW l \in landing, Land(l) \/ LandFails(l) PROVE McpInv'
  BY <1>4, LandKeeps, LandFailsKeeps
<1>5. ASSUME NEW r \in Runs, NEW u \in Holders, NotConnected(r, u) \/ ensure_access_token(r, u) PROVE McpInv'
  BY <1>5, NotConnectedKeeps, EnsureKeeps
<1>6. ASSUME NEW r \in Runs, NEW rotates \in BOOLEAN, Refresh(r, rotates) PROVE McpInv'
  BY <1>6, RefreshKeeps
<1>7. ASSUME NEW r \in Runs, RefreshFails(r) \/ Flush(r) \/ TurnCommits(r) \/ TurnRollsBack(r) \/ RunEnds(r) PROVE McpInv'
  BY <1>7, RefreshFailsKeeps, FlushKeeps, CommitKeeps, RollBackKeeps, RunEndsKeeps
<1>8. ASSUME NEW h \in Holders, FallsDue(h) PROVE McpInv'
  BY <1>8, FallsDueKeeps
<1>9. ASSUME server.enabled, NEW i \in {"org", "user"}, NEW c \in 1 .. MaxClients, update_mcp_server(i, c) PROVE McpInv'
  BY <1>9, UpdateKeeps
<1>10. CASE delete_mcp_server
  BY <1>10, DeleteKeeps
<1> QED BY <1>1, <1>2, <1>3, <1>4, <1>5, <1>6, <1>7, <1>8, <1>9, <1>10 DEF McpNext

\* For any number of people, runs, grants and changes: a run acts with a token
\* of the holder it acts for, unless the server changed under an open flow;
\* what is kept still refreshes, unless two met at it or a turn was rolled back
\* after the provider had answered; nothing is kept once a holder has
\* disconnected; and the flows that are open have the client of the server.
THEOREM ConnectionsKept ==
  ASSUME McpSetting
  PROVE  McpSpec => []ConnectionsStand
<1>1. McpInv => ConnectionsStand
  <2> SUFFICES ASSUME McpInv PROVE ConnectionsStand
    OBVIOUS
  <2> USE DEF McpInv
  <2>1. OwnToken
    BY DEF OwnToken, Owned
  <2>2. StaysConnected
    BY DEF StaysConnected, Refreshable, Busy
  <2>3. DisconnectStands
    BY DEF DisconnectStands, GoneQuiet
  <2>4. FlowsComplete
    BY DEF FlowsComplete, FlowsFit
  <2> QED BY <2>1, <2>2, <2>3, <2>4 DEF ConnectionsStand
<1>2. McpSpec => []McpInv
  <2>1. McpInit => McpInv
    BY McpInitially
  <2>2. McpInv /\ [McpNext]_mcp_vars => McpInv'
    BY McpSteps, McpStutter
  <2> QED BY <2>1, <2>2, PTL DEF McpSpec
<1> QED BY <1>1, <1>2, PTL

----------------------------------------------------------------------------
(***************************************************************************)
(* Admins.                                                                 *)
(***************************************************************************)
\* There are finitely many accounts, and nobody is none of them.
AdminSetting ==
  /\ IsFiniteSet(Accounts) /\ Nobody \notin Requests /\ Nobody \notin Accounts /\ MaxTokens \in Nat
  /\ Settings \subseteq [admin : {"same", "on", "off"}, active : {"same", "on", "off"}]

AccountRow == [known : BOOLEAN, admin : BOOLEAN, active : BOOLEAN]
FlagChange == [admin : {"same", "on", "off"}, active : {"same", "on", "off"}]
Action == [kind : {"free", "claim", "flags"}, by : Accounts \cup {Nobody}, to : Accounts \cup {Nobody}, set : FlagChange,
           seen : [admin : BOOLEAN, active : BOOLEAN], tok : Nat,
           pc : {"free", "get", "del", "commit", "check", "write", "refused"}]

AdminTypes ==
  /\ row \in [Accounts -> AccountRow]
  /\ minted \in 0 .. MaxTokens /\ token \in 0 .. minted
  /\ req \in [Requests -> Action] /\ flags_lock \in Requests \cup {Nobody}
  /\ crossed \in BOOLEAN /\ swapped \in BOOLEAN
  /\ won \in [1 .. MaxTokens -> SUBSET Accounts]

\* What a request is about, by what it does.
ActionsFit ==
  /\ \A u \in Accounts : row[u].admin => row[u].known
  /\ \A r \in Requests :
       /\ req[r].kind = "claim" => /\ req[r].by \in Accounts /\ row[req[r].by].known
                                   /\ req[r].tok \in 1 .. minted /\ req[r].pc \in {"get", "del", "commit"}
       /\ req[r].kind = "flags" => req[r].to \in Accounts /\ row[req[r].to].known /\ req[r].pc \in {"check", "write", "refused"}
       /\ req[r].kind = "free" => req[r].pc = "free"
  /\ flags_lock # Nobody => req[flags_lock].kind = "flags"

\* While no token was generated under a claim: the last one that was generated is
\* in Redis, or in one claim that removed it, or was used once.
OneToken ==
  /\ token \in {0, minted}
  /\ \A r \in Requests : req[r].kind = "claim" /\ req[r].pc \in {"del", "commit"} => req[r].tok = minted
  /\ \A r, s \in Requests : At(r, "claim", "commit") /\ At(s, "claim", "commit") => r = s
  /\ \A r \in Requests : At(r, "claim", "commit") => token = 0 /\ won[minted] = {}
  /\ token # 0 => won[minted] = {}
  /\ \A t \in 1 .. MaxTokens : /\ t > minted => won[t] = {}
                               /\ \A u, w \in won[t] : u = w

\* While nobody wrote over what he had not read: where flags are written there is
\* an admin, and one that takes an admin away has the lock and leaves another.
AdminThere ==
  /\ \A u \in Accounts : row[u].admin \/ ~row[u].active => site_admin_exists
  /\ \A r \in Requests : req[r].kind = "flags" => site_admin_exists
  /\ \A r \in Requests : At(r, "flags", "write") /\ NeedsLock(req[r]) =>
       flags_lock = r /\ \E u \in Accounts : u # req[r].to /\ Rule(u)

AdminInv == AdminTypes /\ ActionsFit /\ (~swapped => OneToken) /\ (~crossed => AdminThere)

LEMMA NoActionIs ==
  /\ NoAction \in Action /\ NoAction.kind = "free" /\ NoAction.pc = "free"
BY DEF NoAction, Action, FlagChange

\* A request that is over.
LEMMA DoneIs ==
  ASSUME AdminInv, NEW r \in Requests, Done(r)
  PROVE  /\ req' \in [Requests -> Action] /\ req'[r] = NoAction
         /\ \A s \in Requests : s # r => req'[s] = req[s]
BY NoActionIs DEF Done, AdminInv, AdminTypes

\* A request that goes on.
LEMMA GoIs ==
  ASSUME AdminInv, NEW r \in Requests, NEW p \in {"del", "commit", "write", "refused"}, req' = Go(r, p)
  PROVE  /\ req' \in [Requests -> Action] /\ req'[r].pc = p
         /\ req'[r].kind = req[r].kind /\ req'[r].by = req[r].by /\ req'[r].to = req[r].to /\ req'[r].set = req[r].set
         /\ req'[r].seen = req[r].seen /\ req'[r].tok = req[r].tok
         /\ \A s \in Requests : s # r => req'[s] = req[s]
<1>1. req \in [Requests -> Action] /\ req' = [req EXCEPT ![r] = [req[r] EXCEPT !.pc = p]] /\ req[r] \in Action
  BY DEF AdminInv, AdminTypes, Go
<1>2. [req[r] EXCEPT !.pc = p] \in Action
  BY <1>1 DEF Action
<1>3. req'[r] = [req[r] EXCEPT !.pc = p] /\ \A s \in Requests : s # r => req'[s] = req[s]
  BY <1>1
<1> QED BY <1>1, <1>2, <1>3 DEF Action

\* Whoever is an admin stays one, and the requests stay as they are.
LEMMA RulesStay ==
  ASSUME AdminInv, row' \in [Accounts -> AccountRow], \A u \in Accounts : Rule(u) => Rule(u)'
  PROVE  site_admin_exists => site_admin_exists'
BY DEF site_admin_exists

LEMMA ProvisionKeeps ==
  ASSUME AdminSetting, AdminInv, NEW u \in Accounts, NEW e, provision_user_from_claims(u, e)
  PROVE  AdminInv'
<1>1. row[u].active /\ row \in [Accounts -> AccountRow]
      /\ UNCHANGED <<token, minted, req, flags_lock, crossed, swapped, won>>
  BY DEF provision_user_from_claims, AdminInv, AdminTypes
<1>2. /\ row' \in [Accounts -> AccountRow] /\ row'[u].known /\ row'[u].active
      /\ row[u].admin => row'[u].admin
      /\ \A v \in Accounts : v # u => row'[v] = row[v]
  <2>1. PICK b \in BOOLEAN : row' = [row EXCEPT ![u] = [row[u] EXCEPT !.known = TRUE, !.admin = row[u].admin \/ b]]
    <3>1. row' = [row EXCEPT ![u] = [row[u] EXCEPT !.known = TRUE, !.admin = row[u].admin \/ should_be_site_admin(e)]]
      BY DEF provision_user_from_claims
    <3>2. should_be_site_admin(e) \in BOOLEAN
      BY DEF should_be_site_admin
    <3> QED BY <3>1, <3>2
  <2>2. row[u] \in AccountRow
    BY <1>1
  <2>3. [row[u] EXCEPT !.known = TRUE, !.admin = row[u].admin \/ b] \in AccountRow
    BY <2>2 DEF AccountRow
  <2>4. row'[u] = [row[u] EXCEPT !.known = TRUE, !.admin = row[u].admin \/ b]
    BY <1>1, <2>1
  <2> QED BY <1>1, <2>1, <2>2, <2>3, <2>4 DEF AccountRow
<1>3. AdminTypes'
  BY <1>1, <1>2 DEF AdminInv, AdminTypes
<1>4. ActionsFit'
  BY <1>1, <1>2 DEF AdminInv, ActionsFit
<1>5. ~swapped' => OneToken'
  BY <1>1 DEF AdminInv, OneToken, At
<1>6. \A v \in Accounts : Rule(v) => Rule(v)'
  BY <1>1, <1>2 DEF Rule
<1>7. ~crossed' => AdminThere'
  <2>1. site_admin_exists => site_admin_exists'
    BY <1>2, <1>6, RulesStay
  <2>2. row'[u].admin => site_admin_exists'
    BY <1>2 DEF site_admin_exists, Rule
  <2>3. \A v \in Accounts : row'[v].admin \/ ~row'[v].active => v = u \/ row[v].admin \/ ~row[v].active
    BY <1>2
  <2> QED BY <1>1, <1>2, <1>6, <2>1, <2>2, <2>3 DEF AdminInv, AdminThere, At, NeedsLock, Loses, Demoting, Deactivating
<1> QED BY <1>3, <1>4, <1>5, <1>7 DEF AdminInv

\* Nothing but the token changes.
LEMMA TokenGoes ==
  ASSUME AdminSetting, AdminInv, token' = 0, UNCHANGED <<row, minted, req, flags_lock, crossed, swapped, won>>
  PROVE  AdminInv'
<1>1. AdminTypes'
  BY DEF AdminInv, AdminTypes, AdminSetting
<1>2. ActionsFit'
  BY DEF AdminInv, ActionsFit
<1>3. ~swapped' => OneToken'
  BY DEF AdminInv, OneToken, At
<1>4. ~crossed' => AdminThere'
  BY DEF AdminInv, AdminThere, At, site_admin_exists, Rule, NeedsLock, Loses, Demoting, Deactivating
<1> QED BY <1>1, <1>2, <1>3, <1>4 DEF AdminInv

LEMMA NothingMoves ==
  ASSUME AdminInv, UNCHANGED <<row, token, minted, req, flags_lock, crossed, swapped, won>>
  PROVE  AdminInv'
BY DEF AdminInv, AdminTypes, ActionsFit, OneToken, At, AdminThere, site_admin_exists, Rule, NeedsLock, Loses, Demoting, Deactivating

LEMMA EnsureTokenKeeps == ASSUME AdminSetting, AdminInv, ensure_setup_token PROVE AdminInv'
<1>1. CASE site_admin_exists
  BY <1>1, TokenGoes DEF ensure_setup_token
<1>2. CASE ~site_admin_exists /\ token # 0
  BY <1>2, NothingMoves DEF ensure_setup_token, AdminInv, AdminTypes
<1>3. CASE ~site_admin_exists /\ token = 0
  <2>1. /\ minted < MaxTokens /\ minted' = minted + 1 /\ token' = minted + 1
        /\ swapped' = (swapped \/ \E r \in Requests : req[r].kind = "claim")
        /\ UNCHANGED <<row, req, flags_lock, crossed, won>>
    BY <1>3 DEF ensure_setup_token
  <2>2. minted \in Nat /\ MaxTokens \in Nat /\ minted' \in 1 .. MaxTokens
    BY <2>1 DEF AdminInv, AdminTypes, AdminSetting
  <2>3. AdminTypes'
    BY <2>1, <2>2 DEF AdminInv, AdminTypes
  <2>4. ActionsFit'
    BY <2>1, <2>2 DEF AdminInv, ActionsFit
  <2>5. ~swapped' => OneToken'
    <3> SUFFICES ASSUME ~swapped' PROVE OneToken'
      OBVIOUS
    <3>1. OneToken /\ \A r \in Requests : req[r].kind # "claim"
      BY <2>1 DEF AdminInv
    <3>2. won'[minted'] = {}
      BY <2>1, <2>2, <3>1 DEF OneToken
    <3> QED BY <2>1, <2>2, <3>1, <3>2 DEF OneToken, At
  <2>6. ~crossed' => AdminThere'
    BY <2>1 DEF AdminInv, AdminThere, At, site_admin_exists, Rule, NeedsLock, Loses, Demoting, Deactivating
  <2> QED BY <2>3, <2>4, <2>5, <2>6 DEF AdminInv
<1> QED BY <1>1, <1>2, <1>3

LEMMA ClaimKeeps ==
  ASSUME AdminSetting, AdminInv, NEW r \in Requests, NEW u \in Accounts, NEW t \in 1 .. MaxTokens, ClaimSetup(r, u, t)
  PROVE  AdminInv'
<1>1. CASE site_admin_exists
  BY <1>1, TokenGoes DEF ClaimSetup
<1>2. CASE ~site_admin_exists
  <2> DEFINE d == [NoAction EXCEPT !.kind = "claim", !.by = u, !.tok = t, !.pc = "get"]
  <2>1. /\ req[r] = NoAction /\ row[u].known /\ t <= minted /\ req' = [req EXCEPT ![r] = d] /\ req \in [Requests -> Action]
        /\ UNCHANGED <<row, token, minted, flags_lock, crossed, swapped, won>>
    BY <1>2 DEF ClaimSetup, AdminInv, AdminTypes
  <2>2. d \in Action /\ d.kind = "claim" /\ d.by = u /\ d.tok = t /\ d.pc = "get"
    <3>1. t \in Nat
      BY DEF AdminSetting
    <3> QED BY <3>1 DEF NoAction, Action, FlagChange
  <2> HIDE DEF d
  <2>3. req'[r] = d /\ \A s \in Requests : s # r => req'[s] = req[s]
    BY <2>1
  <2>4. AdminTypes'
    BY <2>1, <2>2 DEF AdminInv, AdminTypes
  <2>5. ActionsFit'
    BY <2>1, <2>2, <2>3, NoActionIs DEF AdminInv, ActionsFit, AdminTypes, AdminSetting
  <2>6. ~swapped' => OneToken'
    BY <2>1, <2>2, <2>3 DEF AdminInv, OneToken, At
  <2>7. ~crossed' => AdminThere'
    BY <2>1, <2>2, <2>3 DEF AdminInv, AdminThere, At, site_admin_exists, Rule, NeedsLock, Loses, Demoting, Deactivating
  <2> QED BY <2>4, <2>5, <2>6, <2>7 DEF AdminInv
<1> QED BY <1>1, <1>2

\* A claim that is over has changed what others see in the token, its account
\* or the winners only.
LEMMA CompareKeeps == ASSUME AdminSetting, AdminInv, NEW r \in Requests, Compare(r) PROVE AdminInv'
<1>1. At(r, "claim", "get") /\ UNCHANGED <<row, token, minted, flags_lock, crossed, swapped, won>>
  BY DEF Compare
<1>2. CASE token = req[r].tok
  <2>1. req' = Go(r, "del")
    BY <1>2 DEF Compare
  <2>2. AdminTypes'
    BY <1>1, <2>1, GoIs DEF AdminInv, AdminTypes
  <2>3. ActionsFit'
    BY <1>1, <2>1, GoIs DEF AdminInv, ActionsFit, At, AdminSetting, AdminTypes
  <2>4. ~swapped' => OneToken'
    <3>1. req[r].tok \in 1 .. minted /\ minted \in Nat
      BY <1>1 DEF AdminInv, ActionsFit, AdminTypes, At
    <3> QED BY <1>1, <1>2, <2>1, <3>1, GoIs DEF AdminInv, OneToken, At
  <2>5. ~crossed' => AdminThere'
    BY <1>1, <2>1, GoIs DEF AdminInv, AdminThere, At, site_admin_exists, Rule, NeedsLock, Loses, Demoting, Deactivating
  <2> QED BY <2>2, <2>3, <2>4, <2>5 DEF AdminInv
<1>3. CASE token # req[r].tok
  <2>1. Done(r)
    BY <1>3 DEF Compare
  <2>2. AdminTypes'
    BY <1>1, <2>1, DoneIs DEF AdminInv, AdminTypes
  <2>3. ActionsFit'
    BY <1>1, <2>1, DoneIs, NoActionIs DEF AdminInv, ActionsFit, At, AdminSetting, AdminTypes
  <2>4. ~swapped' => OneToken'
    BY <1>1, <2>1, DoneIs, NoActionIs DEF AdminInv, OneToken, At
  <2>5. ~crossed' => AdminThere'
    BY <1>1, <2>1, DoneIs, NoActionIs DEF AdminInv, AdminThere, At, site_admin_exists, Rule, NeedsLock, Loses, Demoting, Deactivating
  <2> QED BY <2>2, <2>3, <2>4, <2>5 DEF AdminInv
<1> QED BY <1>2, <1>3

LEMMA ConsumeKeeps == ASSUME AdminSetting, AdminInv, NEW r \in Requests, Consume(r) PROVE AdminInv'
<1>1. At(r, "claim", "del") /\ token' = 0 /\ UNCHANGED <<row, minted, flags_lock, crossed, swapped, won>>
  BY DEF Consume
<1>2. CASE token # 0
  <2>1. req' = Go(r, "commit")
    BY <1>2 DEF Consume, Removed
  <2>2. AdminTypes'
    BY <1>1, <2>1, GoIs DEF AdminInv, AdminTypes, AdminSetting
  <2>3. ActionsFit'
    BY <1>1, <2>1, GoIs DEF AdminInv, ActionsFit, At, AdminSetting, AdminTypes
  <2>4. ~swapped' => OneToken'
    BY <1>1, <1>2, <2>1, GoIs DEF AdminInv, OneToken, At
  <2>5. ~crossed' => AdminThere'
    BY <1>1, <2>1, GoIs DEF AdminInv, AdminThere, At, site_admin_exists, Rule, NeedsLock, Loses, Demoting, Deactivating
  <2> QED BY <2>2, <2>3, <2>4, <2>5 DEF AdminInv
<1>3. CASE token = 0
  <2>1. Done(r)
    BY <1>3 DEF Consume, Removed
  <2>2. AdminTypes'
    BY <1>1, <2>1, DoneIs DEF AdminInv, AdminTypes, AdminSetting
  <2>3. ActionsFit'
    BY <1>1, <2>1, DoneIs, NoActionIs DEF AdminInv, ActionsFit, At, AdminSetting, AdminTypes
  <2>4. ~swapped' => OneToken'
    BY <1>1, <2>1, DoneIs, NoActionIs DEF AdminInv, OneToken, At
  <2>5. ~crossed' => AdminThere'
    BY <1>1, <2>1, DoneIs, NoActionIs DEF AdminInv, AdminThere, At, site_admin_exists, Rule, NeedsLock, Loses, Demoting, Deactivating
  <2> QED BY <2>2, <2>3, <2>4, <2>5 DEF AdminInv
<1> QED BY <1>2, <1>3

LEMMA PromoteKeeps == ASSUME AdminSetting, AdminInv, NEW r \in Requests, Promote(r) PROVE AdminInv'
<1> DEFINE u == req[r].by
           t == req[r].tok
<1>1. /\ At(r, "claim", "commit") /\ Done(r) /\ u \in Accounts /\ row[u].known /\ t \in 1 .. minted /\ t \in 1 .. MaxTokens
      /\ row' = [row EXCEPT ![u].admin = TRUE] /\ won' = [won EXCEPT ![t] = won[t] \cup {u}]
      /\ row \in [Accounts -> AccountRow] /\ won \in [1 .. MaxTokens -> SUBSET Accounts]
      /\ UNCHANGED <<token, minted, flags_lock, crossed, swapped>>
  BY DEF Promote, AdminInv, AdminTypes, ActionsFit, At, AdminSetting
<1> HIDE DEF u, t
<1>2. /\ row' \in [Accounts -> AccountRow] /\ row'[u].known /\ row'[u].admin /\ row'[u].active = row[u].active
      /\ \A v \in Accounts : v # u => row'[v] = row[v]
  <2>1. row[u] \in AccountRow /\ row' = [row EXCEPT ![u] = [row[u] EXCEPT !.admin = TRUE]]
    BY <1>1
  <2>2. [row[u] EXCEPT !.admin = TRUE] \in AccountRow /\ row'[u] = [row[u] EXCEPT !.admin = TRUE]
    BY <1>1, <2>1 DEF AccountRow
  <2> QED BY <1>1, <2>1, <2>2 DEF AccountRow
<1>3. AdminTypes'
  BY <1>1, <1>2, DoneIs DEF AdminInv, AdminTypes
<1>4. ActionsFit'
  <2>1. \A v \in Accounts : (row'[v].admin => row'[v].known) /\ (row[v].known => row'[v].known)
    BY <1>1, <1>2 DEF AdminInv, ActionsFit
  <2>2. req'[r] = NoAction /\ \A s \in Requests : s # r => req'[s] = req[s]
    BY <1>1, DoneIs
  <2>3. flags_lock # Nobody => flags_lock \in Requests /\ req'[flags_lock].kind = "flags"
    BY <1>1, <2>2 DEF AdminInv, AdminTypes, ActionsFit, At
  <2>4. \A s \in Requests :
          /\ req'[s].kind = "claim" => /\ req'[s].by \in Accounts /\ row'[req'[s].by].known
                                       /\ req'[s].tok \in 1 .. minted /\ req'[s].pc \in {"get", "del", "commit"}
          /\ req'[s].kind = "flags" => req'[s].to \in Accounts /\ row'[req'[s].to].known /\ req'[s].pc \in {"check", "write", "refused"}
          /\ req'[s].kind = "free" => req'[s].pc = "free"
    BY <2>1, <2>2, NoActionIs DEF AdminInv, ActionsFit
  <2> QED BY <1>1, <2>1, <2>3, <2>4 DEF ActionsFit
<1>5. ~swapped' => OneToken'
  <2> SUFFICES ASSUME ~swapped' PROVE OneToken'
    OBVIOUS
  <2>1. OneToken /\ t = minted /\ won[t] = {} /\ token = 0
    BY <1>1 DEF AdminInv, OneToken, At, t
  <2>2. \A s \in Requests : ~At(s, "claim", "commit")'
    BY <1>1, <2>1, DoneIs, NoActionIs DEF OneToken, At
  <2>3. \A x \in 1 .. MaxTokens : IF x = t THEN won'[x] = {u} ELSE won'[x] = won[x]
    BY <1>1, <2>1
  <2>4. \A s \in Requests : req'[s].kind = "claim" /\ req'[s].pc \in {"del", "commit"} => req'[s].tok = minted
    BY <1>1, <2>1, DoneIs, NoActionIs DEF OneToken
  <2>5. \A x \in 1 .. MaxTokens : /\ x > minted => won'[x] = {}
                                  /\ \A v, w \in won'[x] : v = w
    BY <1>1, <2>1, <2>3 DEF OneToken
  <2> QED BY <1>1, <2>1, <2>2, <2>4, <2>5 DEF OneToken
<1>6. \A v \in Accounts : Rule(v) => Rule(v)'
  BY <1>1, <1>2 DEF Rule
<1>7. ~crossed' => AdminThere'
  <2> SUFFICES ASSUME ~crossed' PROVE AdminThere'
    OBVIOUS
  <2>1. site_admin_exists => site_admin_exists'
    BY <1>2, <1>6, RulesStay
  <2>2. AdminThere
    BY <1>1 DEF AdminInv
  <2>3. row[u].active => site_admin_exists'
    BY <1>1, <1>2 DEF site_admin_exists, Rule
  <2>4. site_admin_exists' \/ \A v \in Accounts : ~row'[v].admin /\ row'[v].active
    BY <1>1, <1>2, <2>1, <2>2, <2>3 DEF AdminThere
  <2>5. \A s \in Requests : req'[s].kind = "flags" => req'[s] = req[s] /\ site_admin_exists
    BY <1>1, <2>2, DoneIs, NoActionIs DEF AdminThere
  <2>6. \A s \in Requests : At(s, "flags", "write")' /\ NeedsLock(req'[s]) => At(s, "flags", "write") /\ NeedsLock(req[s])
    BY <2>5 DEF At
  <2>7. \A s \in Requests : At(s, "flags", "write")' /\ NeedsLock(req[s])' =>
         flags_lock' = s /\ \E v \in Accounts : v # req'[s].to /\ Rule(v)'
    <3> SUFFICES ASSUME NEW s \in Requests, At(s, "flags", "write")', NeedsLock(req'[s])
                 PROVE  flags_lock' = s /\ \E v \in Accounts : v # req'[s].to /\ Rule(v)'
      BY DEF NeedsLock, Loses, Demoting, Deactivating
    <3>1. req'[s] = req[s] /\ At(s, "flags", "write") /\ NeedsLock(req[s])
      BY <2>5, <2>6 DEF At
    <3> QED BY <1>1, <1>6, <2>2, <3>1 DEF AdminThere
  <2> QED BY <1>1, <2>1, <2>4, <2>5, <2>7 DEF AdminThere
<1> QED BY <1>3, <1>4, <1>5, <1>7 DEF AdminInv

LEMMA RestoreKeeps == ASSUME AdminSetting, AdminInv, NEW r \in Requests, Restore(r) PROVE AdminInv'
<1>1. /\ At(r, "claim", "commit") /\ Done(r) /\ token' = req[r].tok /\ req[r].tok \in 1 .. minted
      /\ UNCHANGED <<row, minted, flags_lock, crossed, swapped, won>>
  BY DEF Restore, AdminInv, ActionsFit, At
<1>2. AdminTypes'
  BY <1>1, DoneIs DEF AdminInv, AdminTypes
<1>3. ActionsFit'
  BY <1>1, DoneIs, NoActionIs DEF AdminInv, ActionsFit, At, AdminSetting, AdminTypes
<1>4. ~swapped' => OneToken'
  BY <1>1, DoneIs, NoActionIs DEF AdminInv, OneToken, At
<1>5. ~crossed' => AdminThere'
  BY <1>1, DoneIs, NoActionIs DEF AdminInv, AdminThere, At, site_admin_exists, Rule, NeedsLock, Loses, Demoting, Deactivating
<1> QED BY <1>2, <1>3, <1>4, <1>5 DEF AdminInv

LEMMA ReadUserKeeps ==
  ASSUME AdminSetting, AdminInv, NEW r \in Requests, NEW u \in Accounts, NEW v \in Accounts, NEW set \in Settings, ReadUser(r, u, v, set)
  PROVE  AdminInv'
<1> DEFINE d == [NoAction EXCEPT !.kind = "flags", !.by = u, !.to = v, !.set = set,
                                 !.seen = [admin |-> row[v].admin, active |-> row[v].active], !.pc = "check"]
<1>1. /\ req[r] = NoAction /\ Rule(u) /\ row[v].known /\ req' = [req EXCEPT ![r] = d] /\ req \in [Requests -> Action]
      /\ UNCHANGED <<row, token, minted, flags_lock, crossed, swapped, won>>
  BY DEF ReadUser, AdminInv, AdminTypes
<1>2. d \in Action /\ d.kind = "flags" /\ d.to = v /\ d.pc = "check"
  <2>1. row[v] \in AccountRow /\ set \in FlagChange
    BY DEF AdminInv, AdminTypes, AdminSetting, FlagChange
  <2>2. [admin |-> row[v].admin, active |-> row[v].active] \in [admin : BOOLEAN, active : BOOLEAN]
    BY <2>1 DEF AccountRow
  <2> QED BY <2>1, <2>2 DEF NoAction, Action
<1> HIDE DEF d
<1>3. req'[r] = d /\ \A s \in Requests : s # r => req'[s] = req[s]
  BY <1>1
<1>4. AdminTypes'
  BY <1>1, <1>2 DEF AdminInv, AdminTypes
<1>5. ActionsFit'
  BY <1>1, <1>2, <1>3, NoActionIs DEF AdminInv, ActionsFit, AdminTypes, AdminSetting
<1>6. ~swapped' => OneToken'
  BY <1>1, <1>2, <1>3 DEF AdminInv, OneToken, At
<1>7. ~crossed' => AdminThere'
  BY <1>1, <1>2, <1>3 DEF AdminInv, AdminThere, At, site_admin_exists, Rule, NeedsLock, Loses, Demoting, Deactivating
<1> QED BY <1>4, <1>5, <1>6, <1>7 DEF AdminInv

\* Among more than one there is another.
LEMMA Another ==
  ASSUME NEW S, IsFiniteSet(S), ~(Cardinality(S) <= 1), NEW x
  PROVE  \E y \in S : y # x
<1> SUFFICES ASSUME \A y \in S : y = x PROVE FALSE
  OBVIOUS
<1>1. CASE S = {}
  BY <1>1, FS_EmptySet
<1>2. CASE S # {}
  <2>1. S = {x}
    BY <1>2
  <2>2. Cardinality({x}) = 1
    BY FS_Singleton
  <2> QED BY <2>1, <2>2
<1> QED BY <1>1, <1>2

LEMMA CountAdminsKeeps == ASSUME AdminSetting, AdminInv, NEW r \in Requests, CountAdmins(r) PROVE AdminInv'
<1>1. PICK p \in {"write", "refused"} : req' = Go(r, p)
  BY DEF CountAdmins
<1>2. /\ At(r, "flags", "check") /\ UNCHANGED <<row, token, minted, crossed, swapped, won>>
      /\ NeedsLock(req[r]) => flags_lock = Nobody /\ flags_lock' = r
      /\ ~NeedsLock(req[r]) => flags_lock' = flags_lock
  BY DEF CountAdmins
<1>3. AdminTypes'
  BY <1>1, <1>2, GoIs DEF AdminInv, AdminTypes
<1>4. ActionsFit'
  BY <1>1, <1>2, GoIs DEF AdminInv, ActionsFit, At, AdminSetting, AdminTypes
<1>5. ~swapped' => OneToken'
  BY <1>1, <1>2, GoIs DEF AdminInv, OneToken, At
<1>6. ~crossed' => AdminThere'
  <2> SUFFICES ASSUME ~crossed' PROVE AdminThere'
    OBVIOUS
  <2>1. AdminThere /\ (site_admin_exists' <=> site_admin_exists)
    BY <1>2 DEF AdminInv, site_admin_exists, Rule
  <2>2. ASSUME At(r, "flags", "write")', NeedsLock(req[r]) PROVE \E u \in Accounts : u # req[r].to /\ Rule(u)
    <3>1. p = "write"
      BY <1>1, <2>2, GoIs DEF At
    <3>2. ~(Cardinality({u \in Accounts : Rule(u)}) <= 1)
      <4>1. CASE Cardinality({u \in Accounts : Rule(u)}) <= 1
        <5>1. req' = Go(r, "refused")
          BY <2>2, <4>1 DEF CountAdmins, NeedsLock
        <5> QED BY <5>1, <2>2, GoIs DEF At
      <4> QED BY <4>1
    <3>3. IsFiniteSet({u \in Accounts : Rule(u)})
      BY FS_Subset DEF AdminSetting
    <3> QED BY <3>2, <3>3, Another
  <2>3. \A s \in Requests : NeedsLock(req[s])' <=> NeedsLock(req[s])
    BY <1>1, GoIs DEF NeedsLock, Loses, Demoting, Deactivating
  <2>4. \A s \in Requests : At(s, "flags", "write")' /\ NeedsLock(req[s])' =>
          flags_lock' = s /\ \E u \in Accounts : u # req'[s].to /\ Rule(u)'
    <3> SUFFICES ASSUME NEW s \in Requests, At(s, "flags", "write")', NeedsLock(req[s])
                 PROVE  flags_lock' = s /\ \E u \in Accounts : u # req'[s].to /\ Rule(u)'
      BY <2>3
    <3>1. \A u \in Accounts : Rule(u)' <=> Rule(u)
      BY <1>2 DEF Rule
    <3>2. CASE s = r
      BY <1>1, <1>2, <2>2, <3>1, <3>2, GoIs
    <3>3. CASE s # r
      <4>1. At(s, "flags", "write") /\ req'[s] = req[s]
        BY <1>1, <3>3, GoIs DEF At
      <4>2. flags_lock = s /\ s # Nobody
        BY <2>1, <4>1 DEF AdminThere, AdminSetting
      <4> QED BY <1>2, <2>1, <3>1, <4>1, <4>2 DEF AdminThere
    <3> QED BY <3>2, <3>3
  <2>5. \A u \in Accounts : row'[u].admin \/ ~row'[u].active => site_admin_exists'
    BY <1>2, <2>1 DEF AdminThere
  <2>6. \A s \in Requests : req'[s].kind = "flags" => site_admin_exists'
    BY <1>1, <1>2, <2>1, GoIs DEF AdminThere
  <2> QED BY <2>4, <2>5, <2>6 DEF AdminThere
<1> QED BY <1>3, <1>4, <1>5, <1>6 DEF AdminInv

\* What is written, and that it takes no admin away unless it needs the lock.
LEMMA Written ==
  ASSUME AdminSetting, AdminInv, NEW r \in Requests, At(r, "flags", "write"), WriteFlags(r)
  PROVE  /\ row' \in [Accounts -> AccountRow] /\ row'[req[r].to].known /\ \A v \in Accounts : v # req[r].to => row'[v] = row[v]
         /\ crossed' \in BOOLEAN /\ (crossed => crossed')
         /\ ~crossed' /\ ~NeedsLock(req[r]) /\ Rule(req[r].to) => row'[req[r].to].admin /\ row'[req[r].to].active
<1> DEFINE q == req[r]
           Put(f) == IF Flag(q.seen[f], q.set[f]) = q.seen[f] THEN row[q.to][f] ELSE Flag(q.seen[f], q.set[f])
           new == [row[q.to] EXCEPT !.admin = Put("admin"), !.active = Put("active")]
<1>1. /\ q \in Action /\ q.to \in Accounts /\ row \in [Accounts -> AccountRow] /\ row[q.to] \in AccountRow /\ row[q.to].known
      /\ crossed \in BOOLEAN
  BY DEF AdminInv, AdminTypes, ActionsFit, At
<1>2. /\ row' = [row EXCEPT ![q.to] = new]
      /\ crossed' = (crossed \/ <<row[q.to].admin, row[q.to].active>> # <<q.seen.admin, q.seen.active>>)
  <2>1. req[r].pc # "refused"
    BY DEF At
  <2>2. /\ row' = [row EXCEPT ![q.to].admin = Put("admin"), ![q.to].active = Put("active")]
        /\ crossed' = (crossed \/ <<row[q.to].admin, row[q.to].active>> # <<q.seen.admin, q.seen.active>>)
    BY <2>1 DEF WriteFlags
  <2> HIDE DEF Put
  <2> QED BY <1>1, <2>2
<1>3. q.seen \in [admin : BOOLEAN, active : BOOLEAN] /\ q.set \in FlagChange
  BY <1>1 DEF Action
<1>4. Put("admin") \in BOOLEAN /\ Put("active") \in BOOLEAN
  BY <1>1, <1>3 DEF Flag, AccountRow
<1>5. new \in AccountRow /\ new.known /\ new.admin = Put("admin") /\ new.active = Put("active")
  <2> HIDE DEF Put
  <2> QED BY <1>1, <1>4 DEF AccountRow
<1>6. row' \in [Accounts -> AccountRow] /\ row'[q.to] = new /\ \A v \in Accounts : v # q.to => row'[v] = row[v]
  <2> HIDE DEF new
  <2> QED BY <1>1, <1>2, <1>5
<1>7. ASSUME ~crossed', ~NeedsLock(q), Rule(q.to) PROVE Put("admin") /\ Put("active")
  <2>1. row[q.to].admin /\ row[q.to].active /\ q.seen.admin = TRUE /\ q.seen.active = TRUE
    BY <1>1, <1>2, <1>3, <1>7 DEF Rule, AccountRow
  <2>2. q.set.admin # "off" /\ q.set.active # "off"
    BY <1>7, <2>1 DEF NeedsLock, Loses, Demoting, Deactivating
  <2> QED BY <1>3, <2>1, <2>2 DEF Flag, FlagChange
<1>8. ~crossed' /\ ~NeedsLock(q) /\ Rule(q.to) => row'[q.to].admin /\ row'[q.to].active
  <2> HIDE DEF new, Put
  <2> QED BY <1>5, <1>6, <1>7
<1> HIDE DEF new
<1> QED BY <1>1, <1>2, <1>5, <1>6, <1>8

LEMMA WriteFlagsKeeps == ASSUME AdminSetting, AdminInv, NEW r \in Requests, WriteFlags(r) PROVE AdminInv'
<1>1. /\ Done(r) /\ flags_lock' = LockLeft(r) /\ UNCHANGED <<token, minted, swapped, won>>
      /\ req[r].kind = "flags" /\ req[r].to \in Accounts
  BY DEF WriteFlags, At, AdminInv, ActionsFit
<1>2. flags_lock' \in Requests \cup {Nobody} /\ (flags_lock' # Nobody => flags_lock' = flags_lock /\ flags_lock # r)
      /\ (flags_lock # r => flags_lock' = flags_lock)
  BY <1>1 DEF LockLeft, AdminInv, AdminTypes
<1>3. /\ row' \in [Accounts -> AccountRow] /\ crossed' \in BOOLEAN /\ (crossed => crossed')
      /\ \A v \in Accounts : (row'[v].admin => row'[v].known) /\ (row[v].known => row'[v].known)
  <2>1. CASE req[r].pc = "refused"
    BY <2>1 DEF WriteFlags, AdminInv, AdminTypes, ActionsFit
  <2>2. CASE At(r, "flags", "write")
    BY <1>1, <2>2, Written DEF AdminInv, ActionsFit
  <2> QED BY <2>1, <2>2 DEF WriteFlags, At
<1>4. AdminTypes'
  BY <1>1, <1>2, <1>3, DoneIs DEF AdminInv, AdminTypes
<1>5. ActionsFit'
  BY <1>1, <1>2, <1>3, DoneIs, NoActionIs DEF AdminInv, ActionsFit, AdminTypes
<1>6. ~swapped' => OneToken'
  BY <1>1, DoneIs, NoActionIs DEF AdminInv, OneToken, At
<1>7. ~crossed' => AdminThere'
  <2> SUFFICES ASSUME ~crossed' PROVE AdminThere'
    OBVIOUS
  <2>1. AdminThere
    BY <1>3 DEF AdminInv
  <2>2. PICK a \in Accounts : Rule(a)
    BY <1>1, <2>1 DEF AdminThere, site_admin_exists
  <2>3. \A v \in Accounts : v # req[r].to => (Rule(v) => Rule(v)')
    <3>1. CASE req[r].pc = "refused"
      BY <3>1 DEF WriteFlags, Rule
    <3>2. CASE At(r, "flags", "write")
      BY <3>2, Written DEF Rule
    <3> QED BY <3>1, <3>2 DEF WriteFlags, At
  <2>4. ~(At(r, "flags", "write") /\ NeedsLock(req[r])) => \A v \in Accounts : Rule(v) => Rule(v)'
    <3>1. CASE req[r].pc = "refused"
      BY <3>1 DEF WriteFlags, Rule
    <3>2. CASE At(r, "flags", "write")
      BY <1>1, <2>3, <3>2, Written DEF Rule
    <3> QED BY <3>1, <3>2 DEF WriteFlags, At
  <2>5. site_admin_exists'
    <3>1. \E v \in Accounts : Rule(v)'
      <4>1. CASE At(r, "flags", "write") /\ NeedsLock(req[r])
        BY <2>1, <2>3, <4>1 DEF AdminThere
      <4>2. CASE ~(At(r, "flags", "write") /\ NeedsLock(req[r]))
        BY <2>2, <2>4, <4>2
      <4> QED BY <4>1, <4>2
    <3> QED BY <3>1 DEF site_admin_exists
  <2>6. ASSUME NEW s \in Requests, At(s, "flags", "write")', NeedsLock(req'[s])
        PROVE  flags_lock' = s /\ \E u \in Accounts : u # req'[s].to /\ Rule(u)'
    <3>1. s # r /\ req'[s] = req[s]
      BY <1>1, <2>6, DoneIs, NoActionIs DEF At
    <3>2. At(s, "flags", "write") /\ NeedsLock(req[s])
      BY <2>6, <3>1 DEF At
    <3>3. flags_lock = s /\ \E u \in Accounts : u # req[s].to /\ Rule(u)
      BY <2>1, <3>2 DEF AdminThere
    <3>4. ~(At(r, "flags", "write") /\ NeedsLock(req[r]))
      BY <2>1, <3>1, <3>3 DEF AdminThere
    <3> QED BY <1>2, <2>4, <3>1, <3>3, <3>4
  <2>7. \A s \in Requests : At(s, "flags", "write")' /\ NeedsLock(req[s])' =>
          flags_lock' = s /\ \E u \in Accounts : u # req'[s].to /\ Rule(u)'
    BY <2>6 DEF NeedsLock, Loses, Demoting, Deactivating
  <2> QED BY <2>5, <2>7 DEF AdminThere
<1> QED BY <1>4, <1>5, <1>6, <1>7 DEF AdminInv

LEMMA InitAdminInv == ASSUME AdminSetting, AdminInit PROVE AdminInv
<1>1. /\ row = [u \in Accounts |-> New] /\ token = 0 /\ minted = 0 /\ req = [r \in Requests |-> NoAction]
      /\ flags_lock = Nobody /\ crossed = FALSE /\ swapped = FALSE /\ won = [t \in 1 .. MaxTokens |-> {}]
  BY DEF AdminInit
<1>2. New \in AccountRow /\ ~New.admin /\ New.active
  BY DEF New, AccountRow
<1>3. AdminTypes
  <2>1. row \in [Accounts -> AccountRow] /\ req \in [Requests -> Action] /\ won \in [1 .. MaxTokens -> SUBSET Accounts]
    BY <1>1, <1>2, NoActionIs
  <2>2. minted \in 0 .. MaxTokens /\ token \in 0 .. minted
    BY <1>1 DEF AdminSetting
  <2> QED BY <1>1, <2>1, <2>2 DEF AdminTypes
<1>4. ActionsFit
  BY <1>1, <1>2, NoActionIs DEF ActionsFit
<1>5. OneToken
  BY <1>1, NoActionIs DEF OneToken, At
<1>6. AdminThere
  BY <1>1, <1>2, NoActionIs DEF AdminThere, At
<1> QED BY <1>3, <1>4, <1>5, <1>6 DEF AdminInv

LEMMA StepAdminInv == AdminSetting /\ AdminInv /\ [AdminNext]_admin_vars => AdminInv'
<1> SUFFICES ASSUME AdminSetting, AdminInv, [AdminNext]_admin_vars PROVE AdminInv'
  OBVIOUS
<1>1. CASE UNCHANGED admin_vars
  BY <1>1, NothingMoves DEF admin_vars
<1>2. BootLapses => AdminInv'
  BY NothingMoves DEF BootLapses
<1>3. TokenExpires => AdminInv'
  BY TokenGoes DEF TokenExpires
<1> QED BY <1>1, <1>2, <1>3, ProvisionKeeps, EnsureTokenKeeps, ClaimKeeps, CompareKeeps, ConsumeKeeps, PromoteKeeps, RestoreKeeps,
           ReadUserKeeps, CountAdminsKeeps, WriteFlagsKeeps DEF AdminNext

LEMMA AdminInvariant == ASSUME AdminSetting PROVE AdminSpec => []AdminInv
BY InitAdminInv, StepAdminInv, PTL DEF AdminSpec

\* A setup token makes one admin at most, whatever claims race or are rolled
\* back, unless a worker generates another while one is on its way
\* (consume_setup_token); and unless flags are written over a row that has
\* changed, an instance that has had an admin keeps one (update_user_flags),
\* for any number of accounts, requests and tokens.
THEOREM AdminsKept ==
  ASSUME AdminSetting
  PROVE  AdminSpec => [](OneClaim /\ AdminStays)
<1>1. AdminInv => OneClaim
  <2> SUFFICES ASSUME AdminInv, ~swapped, NEW t \in 1 .. MaxTokens PROVE Cardinality(won[t]) <= 1
    BY DEF OneClaim, SingleUse
  <2>1. \A u, w \in won[t] : u = w
    BY DEF AdminInv, OneToken
  <2>2. CASE won[t] = {}
    BY <2>2, FS_EmptySet
  <2>3. CASE won[t] # {}
    <3>1. PICK u \in won[t] : won[t] = {u}
      BY <2>1, <2>3
    <3>2. Cardinality({u}) = 1
      BY FS_Singleton
    <3> QED BY <3>1, <3>2
  <2> QED BY <2>2, <2>3
<1>2. AdminInv => AdminStays
  BY DEF AdminInv, AdminThere, AdminStays
<1> QED BY <1>1, <1>2, AdminInvariant, PTL

(***************************************************************************)
(* The members of an organisation.  A removal leaves another admin behind  *)
(* than the one it removes, from its guard to its delete.                  *)
(***************************************************************************)
MemberSetting == IsFiniteSet(People) /\ Nobody \notin People

Membership == {"none", "user", "admin"}
MemberTypes ==
  /\ member \in [People -> Membership]
  /\ removal \in [Removals -> [by : People \cup {Nobody}, to : People \cup {Nobody}]]
  /\ removals_met \in BOOLEAN /\ demoted \in BOOLEAN

LeavesAnother ==
  /\ Admins # {}
  /\ \A r, s \in Removals : removal[r] # NoRemoval /\ removal[s] # NoRemoval => r = s
  /\ \A r \in Removals : removal[r] # NoRemoval => removal[r].to \in People /\ \E u \in Admins : u # removal[r].to

MemberInv == MemberTypes /\ (~removals_met /\ ~demoted => LeavesAnother)

LEMMA StepMemberInv == MemberSetting /\ MemberInv /\ [MemberNext]_member_vars => MemberInv'
<1> SUFFICES ASSUME MemberSetting, MemberInv, [MemberNext]_member_vars PROVE MemberInv'
  OBVIOUS
<1>1. CASE UNCHANGED member_vars
  BY <1>1 DEF member_vars, MemberInv, MemberTypes, LeavesAnother, Admins
<1>2. ASSUME NEW u \in People, NEW v \in People, NEW m \in {"user", "admin"}, create_membership(u, v, m) \/ update_membership(u, v, m)
      PROVE  MemberInv'
  <2>1. /\ member' = [member EXCEPT ![v] = m] /\ demoted' = (demoted \/ (member[v] = "admin" /\ m = "user"))
        /\ UNCHANGED <<removal, removals_met>>
    BY <1>2 DEF create_membership, update_membership
  <2>2. MemberTypes'
    BY <2>1 DEF MemberInv, MemberTypes, Membership
  <2>3. ~demoted' => Admins \subseteq Admins'
    BY <2>1 DEF Admins, MemberInv, MemberTypes
  <2> QED BY <2>1, <2>2, <2>3 DEF MemberInv, LeavesAnother
<1>3. ASSUME NEW r \in Removals, Delete(r) PROVE MemberInv'
  <2>1. /\ removal[r] # NoRemoval /\ member' = [member EXCEPT ![removal[r].to] = "none"]
        /\ removal' = [removal EXCEPT ![r] = NoRemoval] /\ UNCHANGED <<removals_met, demoted>>
    BY <1>3 DEF Delete
  <2>2. MemberTypes'
    BY <2>1 DEF MemberInv, MemberTypes, Membership, NoRemoval
  <2>3. ~removals_met' /\ ~demoted' => LeavesAnother'
    <3> SUFFICES ASSUME ~removals_met', ~demoted' PROVE LeavesAnother'
      OBVIOUS
    <3>1. LeavesAnother /\ MemberTypes
      BY <2>1 DEF MemberInv
    <3>2. PICK u \in Admins : u # removal[r].to
      BY <2>1, <3>1 DEF LeavesAnother
    <3>3. u \in Admins'
      BY <2>1, <3>1, <3>2 DEF Admins, MemberTypes
    <3>4. \A s \in Removals : removal'[s] = NoRemoval
      BY <2>1, <3>1 DEF LeavesAnother, MemberTypes
    <3> QED BY <3>3, <3>4 DEF LeavesAnother
  <2> QED BY <2>2, <2>3 DEF MemberInv
<1>4. ASSUME NEW r \in Removals, NEW u \in People, NEW v \in People, delete_membership(r, u, v) PROVE MemberInv'
  <2> DEFINE d == [by |-> u, to |-> v]
  <2>1. /\ removal[r] = NoRemoval /\ member[v] # "none" /\ (member[v] = "admin" => Cardinality(Admins) > 1)
        /\ removal' = [removal EXCEPT ![r] = d] /\ UNCHANGED <<member, demoted>>
        /\ removals_met' = (removals_met \/ \E q \in Removals : removal[q] # NoRemoval)
    BY <1>4 DEF delete_membership, Others
  <2>2. MemberTypes'
    BY <2>1 DEF MemberInv, MemberTypes
  <2>3. ~removals_met' /\ ~demoted' => LeavesAnother'
    <3> SUFFICES ASSUME ~removals_met', ~demoted' PROVE LeavesAnother'
      OBVIOUS
    <3>1. LeavesAnother /\ MemberTypes /\ \A s \in Removals : removal[s] = NoRemoval
      BY <2>1 DEF MemberInv
    <3>2. \E w \in Admins : w # v
      <4>1. CASE member[v] = "admin"
        <5>1. IsFiniteSet(Admins)
          BY FS_Subset DEF Admins, MemberSetting
        <5>2. Cardinality(Admins) \in Nat
          BY <5>1, FS_CardinalityType
        <5> QED BY <2>1, <4>1, <5>1, <5>2, Another
      <4>2. CASE member[v] # "admin"
        BY <3>1, <4>2 DEF LeavesAnother, Admins
      <4> QED BY <4>1, <4>2
    <3>3. removal'[r] = d /\ d.to = v /\ \A s \in Removals : s # r => removal'[s] = NoRemoval
      BY <2>1, <3>1 DEF MemberTypes
    <3>4. Admins' = Admins
      BY <2>1 DEF Admins
    <3> HIDE DEF d
    <3> QED BY <3>1, <3>2, <3>3, <3>4 DEF LeavesAnother
  <2> QED BY <2>2, <2>3 DEF MemberInv
<1> QED BY <1>1, <1>2, <1>3, <1>4 DEF MemberNext

\* For any number of members and removals: removals that come one at a time
\* leave an admin, as long as nobody is made a plain member
\* (delete_membership counts before it deletes).
THEOREM MembersKept ==
  ASSUME MemberSetting
  PROVE  MemberSpec => []RemovalsLeaveOne
<1>1. MemberInit => MemberInv
  <2> SUFFICES ASSUME MemberInit PROVE MemberInv
    OBVIOUS
  <2>1. PICK u \in People : member = [v \in People |-> IF v = u THEN "admin" ELSE "none"]
    BY DEF MemberInit
  <2>2. removal = [r \in Removals |-> NoRemoval] /\ removals_met = FALSE /\ demoted = FALSE
    BY DEF MemberInit
  <2>3. u \in Admins
    BY <2>1 DEF Admins
  <2> QED BY <2>1, <2>2, <2>3 DEF MemberInv, MemberTypes, Membership, LeavesAnother, NoRemoval
<1>2. MemberInv => RemovalsLeaveOne
  BY DEF MemberInv, LeavesAnother, RemovalsLeaveOne
<1> QED BY <1>1, <1>2, StepMemberInv, PTL DEF MemberSpec

----------------------------------------------------------------------------
(***************************************************************************)
(* ApiKeys.  What a mint holds stays as it was validated until it commits, *)
(* and what an active key holds is never taken from it.                    *)
(***************************************************************************)
\* Keys may expire at some time or never.
KeySetting == MAX_KEYS_PER_ORG \in Nat /\ Expiries \subseteq Nat \cup {Never}

KeyRow == [scopes : SUBSET (UNION Grants), expires : Nat \cup {Never}, revoked : BOOLEAN, mode : {"org", "scoped"}, rows : SUBSET Items]
MintRow == [pc : {"save"}, scopes : SUBSET (UNION Grants), expires : Nat \cup {Never}, assigned : SUBSET Items]

KeyTypes ==
  /\ items \subseteq Items /\ now \in Nat /\ mints_lapped \in BOOLEAN
  /\ Minted \subseteq Keys /\ IsFiniteSet(Minted) /\ key \in [Minted -> KeyRow]
  /\ mint \in [Keys -> {Vacant} \cup MintRow]
  /\ del \in [Items -> {Vacant} \cup [pc : {"purge"}] \cup [pc : {"check"}, purged : SUBSET Keys]]

\* A key that is minted: a scoped one is limited to what scoped keys may do, and
\* has assignments as long as it is active; all that are left are there.
RowsFit ==
  \A k \in Minted :
    /\ key[k].rows \subseteq items
    /\ key[k].mode = "scoped" => key[k].scopes \subseteq SCOPED_KEY_SCOPES /\ (Active(k) => key[k].rows # {})

\* A key that is being minted: what it will hold is there and not being deleted.
MintsFit ==
  \A k \in Minting :
    /\ k \notin Minted
    /\ mint[k].assigned # {} => mint[k].scopes \subseteq SCOPED_KEY_SCOPES
    /\ \A i \in mint[k].assigned : i \in items /\ del[i].pc = "idle"

\* A key that a delete will release is inactive, which it cannot cease to be.
PurgesFit == \A i \in Items : del[i].pc = "check" => \A k \in del[i].purged : k \in Minted /\ ~Active(k)

\* One mint at a time, which found room.
RoomLeft ==
  /\ Cardinality(Minted) <= MAX_KEYS_PER_ORG
  /\ \A j, k \in Minting : j = k
  /\ Minting # {} => Cardinality(Minted) < MAX_KEYS_PER_ORG

KeysInv == KeyTypes /\ RowsFit /\ MintsFit /\ PurgesFit /\ (~mints_lapped => RoomLeft)

LEMMA VacantIs == Vacant.pc = "idle" /\ \A r \in MintRow : r.pc = "save"
BY DEF Vacant, MintRow

\* A key that is not active never is again.
LEMMA StaysInactive ==
  ASSUME KeyTypes, NEW k \in Minted, now' \in Nat, now' >= now, key'[k].expires = key[k].expires, key[k].revoked => key'[k].revoked,
         Active(k)'
  PROVE  Active(k)
<1>1. key[k] \in KeyRow /\ now \in Nat
  BY DEF KeyTypes
<1>2. key[k].expires \in Nat \cup {Never}
  BY <1>1 DEF KeyRow
<1> QED BY <1>1, <1>2 DEF Active, is_expired

\* Nothing happens but that keys end, or masks change.
LEMMA KeysEnd ==
  ASSUME KeySetting, KeysInv, UNCHANGED <<items, mint, del, mints_lapped>>, now' \in Nat, now' >= now,
         DOMAIN key' = Minted, key' \in [Minted -> KeyRow],
         \A k \in Minted : /\ key'[k].rows = key[k].rows /\ key'[k].mode = key[k].mode /\ key'[k].scopes = key[k].scopes
                           /\ key'[k].expires = key[k].expires /\ (key[k].revoked => key'[k].revoked)
  PROVE  KeysInv'
<1>1. Minted' = Minted /\ Minting' = Minting
  BY DEF Minted, Minting
<1>2. \A k \in Minted : Active(k)' => Active(k)
  BY StaysInactive DEF KeysInv
<1>3. KeyTypes'
  BY <1>1 DEF KeysInv, KeyTypes
<1>4. RowsFit'
  BY <1>1, <1>2 DEF KeysInv, RowsFit
<1>5. MintsFit'
  BY <1>1 DEF KeysInv, MintsFit
<1>6. PurgesFit'
  BY <1>1, <1>2 DEF KeysInv, PurgesFit
<1>7. ~mints_lapped' => RoomLeft'
  BY <1>1 DEF KeysInv, RoomLeft
<1> QED BY <1>3, <1>4, <1>5, <1>6, <1>7 DEF KeysInv

LEMMA ValidateKeeps ==
  ASSUME KeySetting, KeysInv, NEW k \in Keys, NEW g \in Grants, NEW e \in Expiries, NEW a \in SUBSET Items, Validate(k, g, e, a)
  PROVE  KeysInv'
<1> DEFINE d == [pc |-> "save", scopes |-> g, expires |-> e, assigned |-> a]
<1>1. /\ mint[k].pc = "idle" /\ k \notin Minted /\ Cardinality(Minted) < MAX_KEYS_PER_ORG
      /\ a # {} => g \subseteq SCOPED_KEY_SCOPES
      /\ a \subseteq items /\ \A i \in a : del[i].pc = "idle"
      /\ mint' = [mint EXCEPT ![k] = d] /\ mints_lapped' = (mints_lapped \/ Minting # {})
      /\ UNCHANGED <<items, key, del, now>>
  BY DEF Validate, HasRoom, validate_scoped_key_scopes
<1>2. d \in MintRow /\ d.pc = "save" /\ d.scopes = g /\ d.assigned = a
  BY DEF MintRow, KeySetting
<1> HIDE DEF d
<1>3. mint'[k] = d /\ \A j \in Keys : j # k => mint'[j] = mint[j]
  BY <1>1 DEF KeysInv, KeyTypes
<1>4. Minted' = Minted /\ Minting' = Minting \cup {k} /\ k \notin Minting
  BY <1>1, <1>2, <1>3 DEF Minted, Minting
<1>5. \A j \in Minted : Active(j)' <=> Active(j)
  BY <1>1 DEF Active, is_expired
<1>6. KeyTypes'
  BY <1>1, <1>2, <1>4 DEF KeysInv, KeyTypes
<1>7. RowsFit'
  BY <1>1, <1>4, <1>5 DEF KeysInv, RowsFit
<1>8. MintsFit'
  BY <1>1, <1>2, <1>3, <1>4 DEF KeysInv, MintsFit, Minting
<1>9. PurgesFit'
  BY <1>1, <1>4, <1>5 DEF KeysInv, PurgesFit
<1>10. ~mints_lapped' => RoomLeft'
  BY <1>1, <1>4 DEF KeysInv, RoomLeft
<1> QED BY <1>6, <1>7, <1>8, <1>9, <1>10 DEF KeysInv

LEMMA CreateKeeps == ASSUME KeySetting, KeysInv, NEW k \in Keys, create_key(k) PROVE KeysInv'
<1> DEFINE d == [scopes |-> mint[k].scopes, expires |-> mint[k].expires, revoked |-> FALSE,
                 mode |-> IF mint[k].assigned = {} THEN "org" ELSE "scoped", rows |-> mint[k].assigned]
<1>1. /\ mint[k].pc = "save" /\ mint[k] \in MintRow /\ mint' = [mint EXCEPT ![k] = Vacant] /\ UNCHANGED <<items, del, now, mints_lapped>>
      /\ k \in Minting
  BY DEF create_key, KeysInv, KeyTypes, Vacant, Minting
<1>2. mint'[k] = Vacant /\ \A j \in Keys : j # k => mint'[j] = mint[j]
  BY <1>1 DEF KeysInv, KeyTypes
<1>3. Minting' = Minting \ {k}
  BY <1>1, <1>2, VacantIs DEF Minting
<1>4. /\ k \notin Minted /\ mint[k].assigned \subseteq items
      /\ mint[k].assigned # {} => mint[k].scopes \subseteq SCOPED_KEY_SCOPES
      /\ \A i \in mint[k].assigned : del[i].pc = "idle"
  BY <1>1 DEF KeysInv, MintsFit
<1>5. key' = [j \in Minted \cup {k} |-> IF j # k THEN key[j] ELSE d]
  BY <1>4 DEF create_key
<1>6. /\ d \in KeyRow /\ d.rows = mint[k].assigned /\ d.scopes = mint[k].scopes
      /\ d.mode = "scoped" => d.rows # {}
  BY <1>1 DEF KeyRow, MintRow
<1> HIDE DEF d
<1>7. Minted' = Minted \cup {k} /\ key'[k] = d /\ \A j \in Minted : key'[j] = key[j]
  BY <1>4, <1>5 DEF Minted
<1>8. \A j \in Minted : Active(j)' <=> Active(j)
  BY <1>1, <1>7 DEF Active, is_expired
<1>9. IsFiniteSet(Minted') /\ Cardinality(Minted') = Cardinality(Minted) + 1 /\ Cardinality(Minted) \in Nat
  BY <1>4, <1>7, FS_AddElement, FS_CardinalityType DEF KeysInv, KeyTypes
<1>10. KeyTypes'
  <2>1. key' \in [Minted' -> KeyRow]
    BY <1>5, <1>6, <1>7 DEF KeysInv, KeyTypes
  <2>2. mint' \in [Keys -> {Vacant} \cup MintRow]
    BY <1>1 DEF KeysInv, KeyTypes
  <2> QED BY <1>1, <1>7, <1>9, <2>1, <2>2 DEF KeysInv, KeyTypes
<1>11. RowsFit'
  BY <1>1, <1>4, <1>6, <1>7, <1>8 DEF KeysInv, RowsFit
<1>12. MintsFit'
  BY <1>1, <1>2, <1>3, <1>7 DEF KeysInv, MintsFit
<1>13. PurgesFit'
  BY <1>1, <1>7, <1>8 DEF KeysInv, PurgesFit
<1>14. ~mints_lapped' => RoomLeft'
  BY <1>1, <1>3, <1>9 DEF KeysInv, RoomLeft, KeySetting
<1> QED BY <1>10, <1>11, <1>12, <1>13, <1>14 DEF KeysInv

LEMMA RevokeKeeps == ASSUME KeySetting, KeysInv, NEW k \in Keys, revoke_key(k) PROVE KeysInv'
<1> DEFINE d == [key[k] EXCEPT !.revoked = TRUE]
<1>1. k \in Minted /\ key' = [key EXCEPT ![k] = d] /\ UNCHANGED <<items, mint, del, now, mints_lapped>>
  BY DEF revoke_key
<1>2. key \in [Minted -> KeyRow] /\ key[k] \in KeyRow /\ now \in Nat
  BY <1>1 DEF KeysInv, KeyTypes
<1>3. d \in KeyRow /\ d.revoked /\ d.rows = key[k].rows /\ d.mode = key[k].mode /\ d.scopes = key[k].scopes /\ d.expires = key[k].expires
  BY <1>2 DEF KeyRow
<1> HIDE DEF d
<1>4. DOMAIN key' = Minted /\ key' \in [Minted -> KeyRow] /\ key'[k] = d /\ \A j \in Minted : j # k => key'[j] = key[j]
  BY <1>1, <1>2, <1>3 DEF Minted
<1> QED BY <1>1, <1>2, <1>3, <1>4, KeysEnd

\* The delete of an item goes on.
LEMMA DeletesKeep ==
  ASSUME KeySetting, KeysInv, NEW i \in Items, NEW d \in [pc : {"purge"}] \cup [pc : {"check"}, purged : SUBSET Keys],
         del' = [del EXCEPT ![i] = d], UNCHANGED <<items, key, mint, now, mints_lapped>>,
         \A k \in Minting : i \notin mint[k].assigned,
         d.pc = "check" => \A k \in d.purged : k \in Minted /\ ~Active(k)
  PROVE  KeysInv'
<1>1. Minted' = Minted /\ Minting' = Minting /\ \A k \in Minted : Active(k)' <=> Active(k)
  BY DEF Minted, Minting, Active, is_expired
<1>2. del'[i] = d /\ \A j \in Items : j # i => del'[j] = del[j]
  BY DEF KeysInv, KeyTypes
<1>3. KeyTypes'
  BY <1>1 DEF KeysInv, KeyTypes
<1>4. RowsFit'
  BY <1>1 DEF KeysInv, RowsFit
<1>5. MintsFit'
  <2>1. \A k \in Minting : mint[k].assigned \subseteq Items
    BY DEF KeysInv, MintsFit, KeyTypes
  <2> QED BY <1>1, <1>2, <2>1 DEF KeysInv, MintsFit
<1>6. PurgesFit'
  BY <1>1, <1>2 DEF KeysInv, PurgesFit
<1>7. ~mints_lapped' => RoomLeft'
  BY <1>1 DEF KeysInv, RoomLeft
<1> QED BY <1>3, <1>4, <1>5, <1>6, <1>7 DEF KeysInv

LEMMA LockKeeps == ASSUME KeySetting, KeysInv, NEW i \in Items, lock_item(i) PROVE KeysInv'
<1>1. [pc |-> "purge"] \in [pc : {"purge"}]
  OBVIOUS
<1> QED BY <1>1, DeletesKeep DEF lock_item, Shared

\* A mint that holds an item keeps its delete from going on.
LEMMA NotHeld ==
  ASSUME KeysInv, NEW i \in Items, del[i].pc # "idle"
  PROVE  \A k \in Minting : i \notin mint[k].assigned
BY DEF KeysInv, MintsFit

LEMMA PurgeKeeps == ASSUME KeySetting, KeysInv, NEW i \in Items, purge_inactive_holders(i) PROVE KeysInv'
<1> DEFINE p == {k \in Inactive : i \in key[k].rows}
           d == [pc |-> "check", purged |-> p]
<1>1. del[i].pc = "purge" /\ del' = [del EXCEPT ![i] = d] /\ UNCHANGED <<items, key, mint, now, mints_lapped>>
  BY DEF purge_inactive_holders
<1>2. \A k \in p : k \in Minted /\ ~Active(k)
  <2> SUFFICES ASSUME NEW k \in Inactive PROVE k \in Minted /\ ~Active(k)
    OBVIOUS
  <2>1. k \in Minted /\ key[k].expires \in Nat \cup {Never} /\ now \in Nat
    BY DEF Inactive, KeysInv, KeyTypes, KeyRow
  <2> QED BY <2>1 DEF Inactive, Active, is_expired
<1>3. p \in SUBSET Keys
  BY <1>2 DEF KeysInv, KeyTypes
<1> HIDE DEF p
<1>4. d \in [pc : {"check"}, purged : SUBSET Keys] /\ d.pc = "check" /\ d.purged = p
  BY <1>3
<1> HIDE DEF d
<1> QED BY <1>1, <1>2, <1>4, NotHeld, DeletesKeep

LEMMA DeleteItemKeeps == ASSUME KeySetting, KeysInv, NEW i \in Items, delete_item(i) PROVE KeysInv'
<1> DEFINE P == del[i].purged
           f == [k \in Minted |-> IF k \in P THEN [key[k] EXCEPT !.rows = key[k].rows \ {i}] ELSE key[k]]
<1>1. del[i].pc = "check" /\ del' = [del EXCEPT ![i] = Vacant] /\ UNCHANGED <<mint, now, mints_lapped>>
  BY DEF delete_item
<1>2. /\ del'[i] = Vacant /\ \A j \in Items : j # i => del'[j] = del[j]
      /\ del' \in [Items -> {Vacant} \cup [pc : {"purge"}] \cup [pc : {"check"}, purged : SUBSET Keys]]
  BY <1>1 DEF KeysInv, KeyTypes
<1>3. \A k \in P : k \in Minted /\ ~Active(k)
  BY <1>1 DEF KeysInv, PurgesFit
<1>4. CASE UNCHANGED <<items, key>>
  <2>1. Minted' = Minted /\ Minting' = Minting /\ \A k \in Minted : Active(k)' <=> Active(k)
    BY <1>1, <1>4 DEF Minted, Minting, Active, is_expired
  <2>2. KeyTypes'
    BY <1>1, <1>2, <1>4, <2>1 DEF KeysInv, KeyTypes
  <2>3. RowsFit'
    BY <1>4, <2>1 DEF KeysInv, RowsFit
  <2>4. MintsFit'
    <3>1. \A k \in Minting : mint[k].assigned \subseteq Items
      BY DEF KeysInv, MintsFit, KeyTypes
    <3> QED BY <1>1, <1>2, <1>4, <2>1, <3>1, VacantIs DEF KeysInv, MintsFit
  <2>5. PurgesFit'
    BY <1>2, <2>1, VacantIs DEF KeysInv, PurgesFit
  <2>6. ~mints_lapped' => RoomLeft'
    BY <1>1, <2>1 DEF KeysInv, RoomLeft
  <2> QED BY <2>2, <2>3, <2>4, <2>5, <2>6 DEF KeysInv
<1>5. CASE items' = items \ {i} /\ key' = f /\ \A k \in Minted \ P : i \notin key[k].rows
  <2>1. key \in [Minted -> KeyRow]
    BY DEF KeysInv, KeyTypes
  <2>2. \A k \in Minted : /\ f[k] \in KeyRow /\ f[k].rows = key[k].rows \ {i} /\ f[k].mode = key[k].mode /\ f[k].scopes = key[k].scopes
                          /\ f[k].expires = key[k].expires /\ f[k].revoked = key[k].revoked
    <3> SUFFICES ASSUME NEW k \in Minted
                 PROVE  /\ f[k] \in KeyRow /\ f[k].rows = key[k].rows \ {i} /\ f[k].mode = key[k].mode /\ f[k].scopes = key[k].scopes
                        /\ f[k].expires = key[k].expires /\ f[k].revoked = key[k].revoked
      OBVIOUS
    <3>1. key[k] \in KeyRow
      BY <2>1
    <3>2. CASE k \in P
      <4>1. f[k] = [key[k] EXCEPT !.rows = key[k].rows \ {i}]
        BY <3>2
      <4> HIDE DEF f
      <4> QED BY <3>1, <4>1 DEF KeyRow
    <3>3. CASE k \notin P
      <4>1. f[k] = key[k] /\ i \notin key[k].rows
        BY <1>5, <3>3
      <4> HIDE DEF f
      <4> QED BY <3>1, <4>1
    <3> QED BY <3>2, <3>3
  <2>3. DOMAIN f = Minted /\ (\A k \in Minted : k \notin P => f[k].rows = key[k].rows)
    BY <1>5
  <2>4. f \in [Minted -> KeyRow]
    BY <2>2
  <2> HIDE DEF f
  <2>5. Minted' = Minted /\ Minting' = Minting /\ \A k \in Minted : Active(k)' <=> Active(k)
    BY <1>1, <1>5, <2>2, <2>3 DEF Minted, Minting, Active, is_expired
  <2>6. KeyTypes'
    BY <1>1, <1>2, <1>5, <2>4, <2>5 DEF KeysInv, KeyTypes
  <2>7. RowsFit'
    <3> SUFFICES ASSUME NEW k \in Minted
                 PROVE  /\ key'[k].rows \subseteq items'
                        /\ key'[k].mode = "scoped" => key'[k].scopes \subseteq SCOPED_KEY_SCOPES /\ (Active(k)' => key'[k].rows # {})
      BY <2>5 DEF RowsFit
    <3>1. /\ key[k].rows \subseteq items
          /\ key[k].mode = "scoped" => key[k].scopes \subseteq SCOPED_KEY_SCOPES /\ (Active(k) => key[k].rows # {})
      BY DEF KeysInv, RowsFit
    <3>2. Active(k) => k \notin P
      BY <1>3
    <3> QED BY <1>5, <2>2, <2>3, <2>5, <3>1, <3>2
  <2>8. MintsFit'
    <3>1. \A k \in Minting : mint[k].assigned \subseteq Items /\ i \notin mint[k].assigned
      BY <1>1, NotHeld DEF KeysInv, MintsFit, KeyTypes
    <3> QED BY <1>1, <1>2, <1>5, <2>5, <3>1 DEF KeysInv, MintsFit
  <2>9. PurgesFit'
    BY <1>2, <2>5, VacantIs DEF KeysInv, PurgesFit
  <2>10. ~mints_lapped' => RoomLeft'
    BY <1>1, <2>5 DEF KeysInv, RoomLeft
  <2> QED BY <2>6, <2>7, <2>8, <2>9, <2>10 DEF KeysInv
<1> QED BY <1>4, <1>5 DEF delete_item

LEMMA InitKeysInv == ASSUME KeySetting, KeysInit PROVE KeysInv
<1>1. /\ items = Items /\ key = [k \in {} |-> Vacant] /\ mint = [k \in Keys |-> Vacant] /\ del = [i \in Items |-> Vacant]
      /\ now = 0 /\ mints_lapped = FALSE
  BY DEF KeysInit
<1>2. Minted = {} /\ Minting = {} /\ key \in [{} -> KeyRow]
  BY <1>1, VacantIs DEF Minted, Minting
<1>3. IsFiniteSet({}) /\ Cardinality({}) = 0
  BY FS_EmptySet
<1>4. KeyTypes
  BY <1>1, <1>2, <1>3 DEF KeyTypes
<1>5. PurgesFit
  BY <1>1, VacantIs DEF PurgesFit
<1> QED BY <1>1, <1>2, <1>3, <1>4, <1>5 DEF KeysInv, RowsFit, MintsFit, RoomLeft, KeySetting

LEMMA StepKeysInv == KeySetting /\ KeysInv /\ [KeysNext]_key_vars => KeysInv'
<1> SUFFICES ASSUME KeySetting, KeysInv, [KeysNext]_key_vars PROVE KeysInv'
  OBVIOUS
<1>1. now \in Nat /\ key \in [Minted -> KeyRow] /\ DOMAIN key = Minted
  BY DEF KeysInv, KeyTypes, Minted
<1>2. UNCHANGED <<items, key, mint, del, now, mints_lapped>> => KeysInv'
  BY <1>1, KeysEnd
<1>3. CASE UNCHANGED key_vars
  BY <1>2, <1>3 DEF key_vars
<1>4. ASSUME NEW vs \in SUBSET Folders, Reconfigure(vs) PROVE KeysInv'
  BY <1>2, <1>4 DEF Reconfigure
<1>5. CASE Tick
  <2>1. now' \in Nat /\ now' >= now /\ UNCHANGED <<items, key, mint, del, mints_lapped>>
    BY <1>1, <1>5 DEF Tick
  <2> QED BY <1>1, <2>1, KeysEnd
<1> QED BY <1>3, <1>4, <1>5, ValidateKeeps, CreateKeeps, RevokeKeeps, LockKeeps, PurgeKeeps, DeleteItemKeeps DEF KeysNext

LEMMA KeysInvariant == ASSUME KeySetting PROVE KeysSpec => []KeysInv
BY InitKeysInv, StepKeysInv, PTL DEF KeysSpec

\* For any number of keys, dimensions and folders, however mints, deletes and
\* the clock interleave: no active key is left without what it resolves to, a
\* scoped one never resolves to the whole organisation, one limited to folders
\* finds nothing outside the visible ones among them, a key does nothing
\* sensitive that it was not granted by name, and the limit of keys is kept
\* unless two mints overlapped (create_key, delete_item, resolve_key_scope).
THEOREM KeysKept ==
  ASSUME KeySetting
  PROVE  KeysSpec => [](ActiveResolves /\ NeverOrgWide /\ NarrowStays /\ Explicit /\ CountKept)
<1>1. KeysInv => ActiveResolves
  BY DEF KeysInv, KeyTypes, RowsFit, ActiveResolves, require_api_key, is_scoped, resolve_key_scope, KeyRow
<1>2. NeverOrgWide
  BY DEF NeverOrgWide, require_api_key, is_scoped, resolve_key_scope
<1>3. KeysInv => Explicit
  <2> SUFFICES ASSUME KeysInv, NEW k \in Minted, NEW s \in API_SCOPES, require_scope(k, s)
               PROVE  /\ s \in SENSITIVE_SCOPES => s \in key[k].scopes
                      /\ key[k].mode = "scoped" => s \in SCOPED_KEY_SCOPES \cap key[k].scopes
    BY DEF Explicit
  <2>1. has_scope(key[k].scopes, s) /\ (key[k].mode = "scoped" => s \in SCOPED_KEY_SCOPES)
    BY DEF require_scope
  <2>2. s \in SENSITIVE_SCOPES => s \in key[k].scopes
    BY <2>1 DEF has_scope
  <2>3. ASSUME key[k].mode = "scoped" PROVE s \in key[k].scopes
    <3>1. key[k].scopes \subseteq SCOPED_KEY_SCOPES
      BY <2>3 DEF KeysInv, RowsFit
    <3>2. All \notin SCOPED_KEY_SCOPES /\ <<Domain(s), "*">> \notin SCOPED_KEY_SCOPES
      BY DEF All, SCOPED_KEY_SCOPES
    <3> QED BY <2>1, <3>1, <3>2 DEF has_scope
  <2> QED BY <2>1, <2>2, <2>3
<1>4. KeysInv => CountKept
  BY DEF KeysInv, RoomLeft, CountKept
<1>5. NarrowStays
  <2> SUFFICES ASSUME NEW k \in Minted, NEW p, p = require_api_key(k), p.ok, p.limited,
                      NEW requested \in SUBSET Folders
               PROVE  Search(p, requested) \subseteq p.folders
    BY DEF NarrowStays
  <2>1. CASE requested = {}
    BY <2>1 DEF Search, api_key_folder_scope
  <2>2. CASE requested # {} /\ requested \subseteq p.folders
    BY <2>2 DEF Search, api_key_folder_scope
  <2>3. CASE requested # {} /\ ~(requested \subseteq p.folders)
    BY <2>3 DEF Search, api_key_folder_scope
  <2> QED BY <2>1, <2>2, <2>3
<1> QED BY <1>1, <1>2, <1>3, <1>4, <1>5, KeysInvariant, PTL
============================================================================
