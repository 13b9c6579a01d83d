---------------------------- MODULE CallActivity ----------------------------
(***************************************************************************)
(* Call activities: a node that runs another workflow as a child.          *)
(*                                                                         *)
(* Every run is a line of nodes with one token (branches, joins and timers *)
(* are TokenEngine's).  An open transaction drives the runs of its stack:  *)
(* the first is the token that a sweep has claimed and moves one node; a   *)
(* call pushes the child, which is driven until it rests, and then returns *)
(* to the caller.  Nothing else moves until the transaction ends, and      *)
(* "savepoint" is what its rollback goes back to.                          *)
(***************************************************************************)
EXTENDS Integers, Sequences

CONSTANTS
  Body,              \* Body[w]: the nodes of the published version of workflow w
  Roots,             \* the workflows that events start
  MAX_TOKEN_DEPTH,
  MaxRuns,           \* bound: runs of a behaviour
  MaxRaises          \* bound: exceptions

VARIABLES runs, stack, savepoint, raises
call_vars == <<runs, stack, savepoint, raises>>

Ended == {"succeeded", "failed"}
Run == [wf : DOMAIN Body, depth : Nat, caller : Nat, at : Nat, token : {"active", "waiting", "completed", "dead"},
        wait : {"none", "user_task", "subprocess"}, mark : {"none", "completed"} \cup Ended,
        status : {"running", "waiting"} \cup Ended, parked : BOOLEAN, killed : BOOLEAN, ignored : BOOLEAN]

\* create_run_if_absent and start_run.
NewRun(w, depth, caller) ==
  [wf |-> w, depth |-> depth, caller |-> caller, at |-> 1, token |-> "active", wait |-> "none",
   mark |-> "none", status |-> "running", parked |-> FALSE, killed |-> FALSE, ignored |-> FALSE]

CallInit == runs = <<>> /\ stack = <<>> /\ savepoint = <<>> /\ raises = 0

Start(w) ==
  /\ stack = <<>> /\ Len(runs) < MaxRuns
  /\ runs' = Append(runs, NewRun(w, 0, 0))
  /\ UNCHANGED <<stack, savepoint, raises>>

\* advance_active_tokens: a token is claimed and its savepoint opened.
Claim(i) ==
  /\ stack = <<>> /\ runs[i].token = "active"
  /\ stack' = <<i>> /\ savepoint' = runs
  /\ UNCHANGED <<runs, raises>>

----------------------------------------------------------------------------
Top == stack[Len(stack)]
Node(r) == Body[r.wf][r.at]
AtEnd(r) == r.at > Len(Body[r.wf])

\* _signal_parent: the parked token of the caller goes on, whatever the
\* child's end; inside the caller's own dispatch it is not parked.
Signal(rs, i) ==
  LET p == rs[i].caller
  IN IF p # 0 /\ rs[p].token = "waiting" /\ rs[p].wait = "subprocess"
     THEN [rs EXCEPT ![p] = [@ EXCEPT !.token = "active", !.wait = "none", !.mark = rs[i].status]] ELSE rs

\* _finish_run and _fail_run.
Finish(rs, i, status) ==
  Signal([rs EXCEPT ![i] = [@ EXCEPT !.token = IF status = "failed" THEN "dead" ELSE "completed",
                                     !.status = status]], i)

Advance(rs, i, to) == [rs EXCEPT ![i] = [@ EXCEPT !.at = to, !.mark = "none", !.status = "running"]]
Wait(rs, i, kind) ==
  [rs EXCEPT ![i] = [@ EXCEPT !.token = "waiting", !.wait = kind, !.status = "waiting", !.parked = TRUE]]

\* The sweep's own token moves one node; a child is driven until it rests.
Rest(rs) == IF Len(stack) = 1 \/ rs[Top].token # "active" THEN SubSeq(stack, 1, Len(stack) - 1) ELSE stack

\* The caller's frame is finished by the node that pushed the child.
Return(rs) == runs' = rs /\ stack' = Rest(rs) /\ UNCHANGED <<savepoint, raises>>

\* The innermost run of the stack moves; a caller whose child rests does not.
Dispatching(i) == stack # <<>> /\ Top = i /\ runs[i].token = "active" /\ runs[i].wait # "subprocess"

EndRun(i) == Dispatching(i) /\ AtEnd(runs[i]) /\ Return(Finish(runs, i, "succeeded"))

Task(i, ok) ==
  /\ Dispatching(i) /\ ~AtEnd(runs[i]) /\ Node(runs[i]).kind = "task"
  /\ Return(IF ok THEN Advance(runs, i, runs[i].at + 1) ELSE Finish(runs, i, "failed"))

User(i) ==
  /\ Dispatching(i) /\ ~AtEnd(runs[i]) /\ Node(runs[i]).kind = "user"
  /\ Return(IF runs[i].mark # "none" THEN Advance(runs, i, runs[i].at + 1) ELSE Wait(runs, i, "user_task"))

\* The caller goes on as if its child had succeeded.
Unrouted(i, status, to) ==
  /\ status = "failed" /\ to = runs[i].at + 1
  /\ ~Node(runs[i]).continue_on_error /\ Node(runs[i]).boundary # to

\* A call that was parked and is marked completed advances: the step is
\* recorded as succeeded, and the child's status is not looked at.
Resume(i) ==
  /\ Dispatching(i) /\ ~AtEnd(runs[i]) /\ Node(runs[i]).kind = "call" /\ runs[i].mark # "none"
  /\ LET to == runs[i].at + 1
         passed == runs[i].ignored \/ Unrouted(i, runs[i].mark, to)
     IN Return(Advance([runs EXCEPT ![i] = [@ EXCEPT !.ignored = passed]], i, to))

\* _dispatch_call: not too deep, and the target has a published version.
Callable(r) == r.depth < MAX_TOKEN_DEPTH /\ Node(r).to \in DOMAIN Body

Calling(i) == Dispatching(i) /\ ~AtEnd(runs[i]) /\ Node(runs[i]).kind = "call" /\ runs[i].mark = "none"

Refuse(i) == Calling(i) /\ ~Callable(runs[i]) /\ Return(Finish(runs, i, "failed"))

\* The child is created in the caller's transaction and driven at once; wait
\* marks the frame of the caller meanwhile.
Call(i) ==
  /\ Calling(i) /\ Callable(runs[i]) /\ Len(runs) < MaxRuns
  /\ runs' = Append([runs EXCEPT ![i] = [@ EXCEPT !.wait = "subprocess"]],
                   NewRun(Node(runs[i]).to, runs[i].depth + 1, i))
  /\ stack' = Append(stack, Len(runs) + 1)
  /\ UNCHANGED <<savepoint, raises>>

\* The children of a run, and the one it called last.
Children(rs, i) == {c \in DOMAIN rs : rs[c].caller = i}
ChildOf(i) == CHOOSE c \in Children(runs, i) : \A d \in Children(runs, i) : d <= c

\* A failed child is routed to the boundary, past the node, or to a dead letter.
Routed(rs, i, status) ==
  LET n == Node(rs[i])
  IN CASE status = "succeeded" -> Advance(rs, i, rs[i].at + 1)
       [] status = "failed" /\ n.boundary # 0 -> Advance(rs, i, n.boundary)
       [] status = "failed" /\ n.boundary = 0 /\ n.continue_on_error -> Advance(rs, i, rs[i].at + 1)
       [] OTHER -> Finish(rs, i, "failed")

\* The child has come to rest: it has ended, or the caller parks.
Returned(i) ==
  /\ stack # <<>> /\ Top = i /\ runs[i].token = "active" /\ runs[i].wait = "subprocess"
  /\ LET status == runs[ChildOf(i)].status
         rs == Routed([runs EXCEPT ![i] = [@ EXCEPT !.wait = "none"]], i, status)
     IN Return(IF status \in Ended
               THEN [rs EXCEPT ![i] = [@ EXCEPT !.ignored = rs[i].ignored \/ Unrouted(i, status, rs[i].at)]]
               ELSE Wait(runs, i, "subprocess"))

\* An exception anywhere below: the savepoint is rolled back, and _kill_token
\* fails the claimed run without a word to its caller.
Raise ==
  /\ stack # <<>> /\ raises < MaxRaises /\ raises' = raises + 1
  /\ runs' = [savepoint EXCEPT ![stack[1]] = [@ EXCEPT !.token = "dead", !.status = "failed", !.killed = TRUE]]
  /\ stack' = <<>> /\ UNCHANGED savepoint

\* signal_token: a person completes a user task.
Complete(i) ==
  /\ stack = <<>> /\ runs[i].token = "waiting" /\ runs[i].wait = "user_task"
  /\ runs' = [runs EXCEPT ![i] = [@ EXCEPT !.token = "active", !.wait = "none", !.mark = "completed"]]
  /\ UNCHANGED <<stack, savepoint, raises>>

----------------------------------------------------------------------------
CallNext ==
  \/ \E w \in Roots : Start(w)
  \/ \E i \in DOMAIN runs :
       \/ Claim(i) \/ EndRun(i) \/ User(i) \/ Resume(i) \/ Refuse(i) \/ Call(i) \/ Returned(i) \/ Complete(i)
       \/ \E ok \in BOOLEAN : Task(i, ok)
  \/ Raise

CallSpec == CallInit /\ [][CallNext]_call_vars

----------------------------------------------------------------------------
CallTypeOK == runs \in Seq(Run) /\ stack \in Seq(DOMAIN runs) /\ raises \in 0 .. MaxRaises /\ Len(runs) <= MaxRuns

\* A caller that is parked waits for a child that will wake it; only a child
\* that died of an exception leaves it waiting.
OnlyKilledStrands ==
  stack = <<>> => \A i \in DOMAIN runs :
    runs[i].token = "waiting" /\ runs[i].wait = "subprocess" =>
      \E c \in Children(runs, i) : runs[c].status \notin Ended \/ runs[c].killed

\* A run never ends before the children it called.
NoOrphans ==
  stack = <<>> => \A c \in DOMAIN runs :
    runs[c].caller # 0 /\ runs[runs[c].caller].status \in Ended => runs[c].status \in Ended

\* The failure of a child is passed over only when it came after the caller
\* had parked: then the step counts as succeeded.
OnlyLateFailureIgnored ==
  stack = <<>> => \A i \in DOMAIN runs :
    runs[i].ignored => \E c \in Children(runs, i) : runs[c].status = "failed" /\ runs[c].parked

\* "a failed child is routed like any task failure (error boundary / continue
\* / dead-letter)", whenever it fails.
FailureRouted == \A i \in DOMAIN runs : ~runs[i].ignored
=============================================================================
