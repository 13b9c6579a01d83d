----------------------------- MODULE WorkOrder -----------------------------
(***************************************************************************)
(* One work order: its status, its checklist, the alert that it is         *)
(* blocked, and the runs that people, agents and the executor's sweep      *)
(* queue on it.                                                            *)
(*                                                                         *)
(* A request, a tool call of an agent and a sweep are transactions of a    *)
(* process: the first step reads the committed rows and decides, the last  *)
(* one commits what was decided.  None of them locks what it has read, so  *)
(* req[p].stale records that something was committed since p read, and      *)
(* raced that a stale transaction has committed.  Run rows carry the time  *)
(* their transaction began, diary entries the time they are written;       *)
(* req[p].young and fresh keep what that order decides.                     *)
(***************************************************************************)
EXTENDS Naturals, Sequences, FiniteSets, FiniteSetTheorems, TLAPS

CONSTANTS
  Processes,          \* what runs concurrently: requests, agents' tools, sweeps
  Tasks,              \* the keys of the checklist
  Checklists,         \* the checklists that people set, with their statuses
  Owes,               \* the brief or the plan promises something to open
  MAX_CONTINUATIONS,
  MaxRuns,            \* bound: runs of the order
  MaxEdits            \* bound: changes of the checklist, the agent and the attachments

VARIABLES status, agent, task, output, alert, dismissed, runs, fresh, req, lost, raced, edits

order == <<status, agent, task, output, alert, dismissed>>
vars == <<status, agent, task, output, alert, dismissed, runs, fresh, req, lost, raced, edits>>

Transitions ==
  [draft |-> {"awaiting_approval", "approved", "in_progress", "cancelled"},
   awaiting_approval |-> {"approved", "draft", "cancelled"},
   approved |-> {"in_progress", "cancelled"},
   in_progress |-> {"done", "cancelled"},
   done |-> {}, cancelled |-> {}]

TaskStatus == {"open", "blocked", "done", "carried"}
LiveRunStatuses == {"parked", "running"}   \* parked: queued, or waiting for somebody
Run == [trigger : {"work_order", "continuation"}, status : LiveRunStatuses \cup {"ended"},
        progress : 0 .. Cardinality(Tasks)]

Settled(ts) == {t \in Tasks : ts[t] \in {"done", "carried"}}
Outstanding == Tasks \ Settled(task)
Blocked(ts) == {t \in Tasks : ts[t] = "blocked"}

\* A transaction that is not open.
Idle == [pc |-> "idle", does |-> "nothing", to |-> "none", list |-> <<>>, on |-> "none", by |-> 0,
         queue |-> FALSE, alert |-> "keep", stale |-> FALSE, young |-> TRUE]

\* A new order, with the checklist and the attachments of its first requests.
Init ==
  /\ status = "draft" /\ agent \in {"nobody", "able"}
  /\ task \in Checklists
  /\ output \in BOOLEAN /\ alert = (IF Blocked(task) = {} THEN 0 ELSE 1) /\ dismissed = FALSE
  /\ runs = <<>> /\ fresh = TRUE
  /\ req = [p \in Processes |-> Idle]
  /\ lost = FALSE /\ raced = FALSE /\ edits = 0

----------------------------------------------------------------------------
\* _has_live_run, leaving out the caller's own run.
LiveBut(own) == \E i \in DOMAIN runs : i # own /\ runs[i].status \in LiveRunStatuses
Live == LiveBut(0)

\* _dispatch: an assigned agent that cannot run is refused, an unassigned
\* order is left alone, and so is one with a live run.
Refused == agent = "disabled"
\* Mutant: the live run is not looked for.
QueuesAnyway(who, own) == who = "able"

Queues(who, own) == who = "able" /\ ~LiveBut(own)

\* p opens the transaction d.
Open(p, d) ==
  /\ req[p].pc = "idle"
  /\ req' = [req EXCEPT ![p] = d]
  /\ UNCHANGED <<order, runs, fresh, lost, raced, edits>>

\* set_status: only along an edge; the start of work dispatches first.
SetStatus(p, to) ==
  /\ to \in Transitions[status]
  /\ to = "in_progress" => ~Refused
  /\ Open(p, [Idle EXCEPT !.pc = "commit", !.does = "status", !.to = to,
                          !.queue = to = "in_progress" /\ Queues(agent, 0)])

\* assign: an order already under way is dispatched to its new agent.
Assign(p, to) ==
  /\ edits < MaxEdits
  /\ Open(p, [Idle EXCEPT !.pc = "commit", !.does = "assign", !.to = to,
                          !.queue = status = "in_progress" /\ Queues(to, 0)])

\* reply, first look: it starts an agent only on an order under way with
\* nobody on it; with a run in progress the diary says it was not delivered.
Reply(p) ==
  /\ status = "in_progress" /\ agent # "nobody" /\ ~Live
  /\ Open(p, [Idle EXCEPT !.pc = "dispatch", !.does = "reply"])

\* reply, in _dispatch: the second look returns without a word.
ReplyDispatch(p) ==
  /\ req[p].pc = "dispatch"
  /\ req' = [req EXCEPT ![p] = IF Refused THEN Idle
                             ELSE [@ EXCEPT !.pc = "commit", !.queue = Queues(agent, 0)]]
  /\ UNCHANGED <<order, runs, fresh, lost, raced, edits>>

\* The tool calls of a run follow one another.
Acting(i) == \E p \in Processes : req[p].by = i

\* submit_plan once approved: the run that planned queues the one that works.
StartApprovedPlan(p, i) ==
  /\ runs[i].status = "running" /\ ~Acting(i) /\ ~Refused
  /\ Open(p, [Idle EXCEPT !.pc = "commit", !.does = "plan", !.by = i, !.queue = Queues(agent, i)])

----------------------------------------------------------------------------
(***************************************************************************)
(* The checklist.                                                          *)
(***************************************************************************)
\* _require_evidence and _gate_acceptance: what the last open step needs.
Closable(t) == (Tasks \ {t}) \subseteq Settled(task) => (Owes => output)

\* update_work_order_task of a running agent; a repeated status is refused.
UpdateTask(p, i, t, to) ==
  /\ runs[i].status = "running" /\ ~Acting(i)
  /\ task[t] # to /\ (to = "done" => Closable(t))
  /\ edits < MaxEdits
  /\ Open(p, [Idle EXCEPT !.does = "task", !.by = i, !.on = t, !.to = to,
              !.pc = IF to = "blocked" \/ task[t] = "blocked" THEN "alert" ELSE "commit"])

\* set_tasks: the checklist is replaced, by an agent with open steps, by a
\* person with the statuses of the request.
SetTasks(p, list) ==
  /\ edits < MaxEdits
  /\ Open(p, [Idle EXCEPT !.pc = "alert", !.does = "replace", !.list = list])

\* The checklist with what p changes in it.
TasksOf(p) == CASE req[p].does = "task" -> [task EXCEPT ![req[p].on] = req[p].to]
                [] req[p].does = "replace" -> req[p].list
                [] OTHER -> task

\* report_blocked raises the alert when none is open; clear_blocked_alert
\* resolves it when no step is blocked.
Blocks(p) == IF req[p].does = "task" THEN req[p].to = "blocked" ELSE Blocked(req[p].list) # {}
AlertAfter(p) == IF Blocks(p) THEN IF alert = 0 THEN "raise" ELSE "keep"
                 ELSE IF Blocked(TasksOf(p)) = {} THEN "clear" ELSE "keep"

SettleAlert(p) ==
  /\ req[p].pc = "alert"
  /\ req' = [req EXCEPT ![p].pc = "commit", ![p].alert = AlertAfter(p)]
  /\ UNCHANGED <<order, runs, fresh, lost, raced, edits>>

----------------------------------------------------------------------------
(***************************************************************************)
(* The executor's sweep: _stalled_orders, _continued, _already_flagged.    *)
(***************************************************************************)
Stalled == status = "in_progress" /\ ~Live /\ runs # <<>> /\ Outstanding # {}

\* The earlier pickups, oldest first.
Continuations == {i \in DOMAIN runs : runs[i].trigger = "continuation"}
Progress == Cardinality(Settled(task))

\* Not blocked throughout, not too often, not after a pickup that settled
\* nothing, and with an agent that can run.
Continued ==
  /\ ~(\A t \in Outstanding : task[t] = "blocked")
  /\ Cardinality(Continuations) < MAX_CONTINUATIONS
  /\ \A i \in Continuations : (\A j \in Continuations : j <= i) => Progress > runs[i].progress
  /\ agent = "able"

\* A stall marker younger than the newest run: no run began after it.
AlreadyFlagged == ~fresh

\* One order of the sweep.
Sweep(p) ==
  /\ Stalled /\ (Continued \/ ~AlreadyFlagged)
  /\ Open(p, [Idle EXCEPT !.pc = "commit", !.does = IF Continued THEN "continue" ELSE "flag",
                          !.queue = Continued])

----------------------------------------------------------------------------
(***************************************************************************)
(* Commit.                                                                 *)
(***************************************************************************)
NewRun(p) == [trigger |-> IF req[p].does = "continue" THEN "continuation" ELSE "work_order",
              status |-> "parked", progress |-> IF req[p].does = "continue" THEN Progress ELSE 0]

\* Everyone else has read before this change.
Outdated(t) == [q \in Processes |-> IF t[q].pc = "idle" THEN t[q] ELSE [t[q] EXCEPT !.stale = TRUE]]

\* The run that planned ends with its last call.
RunsAfter(p) == LET mine == IF req[p].does = "plan" THEN [runs EXCEPT ![req[p].by].status = "ended"] ELSE runs
                IN IF req[p].queue THEN Append(mine, NewRun(p)) ELSE mine

Commit(p) ==
  /\ req[p].pc = "commit"
  /\ req[p].queue => Len(runs) < MaxRuns
  /\ status' = IF req[p].does = "status" THEN req[p].to ELSE status
  /\ agent' = IF req[p].does = "assign" THEN req[p].to ELSE agent
  /\ task' = TasksOf(p)
  /\ alert' = CASE req[p].alert = "raise" -> alert + 1 [] req[p].alert = "clear" -> 0 [] OTHER -> alert
  /\ dismissed' = (dismissed /\ req[p].alert = "keep")
  /\ runs' = RunsAfter(p)
  /\ fresh' = IF req[p].does = "flag" THEN FALSE ELSE (fresh \/ (req[p].queue /\ req[p].young))
  /\ lost' = (lost \/ (req[p].does = "reply" /\ ~req[p].queue))
  /\ raced' = (raced \/ req[p].stale)
  /\ edits' = IF req[p].does \in {"task", "replace", "assign"} THEN edits + 1 ELSE edits
  /\ req' = LET flagged == [q \in Processes |-> IF req[p].does = "flag" THEN [req[q] EXCEPT !.young = FALSE] ELSE req[q]]
           IN Outdated([flagged EXCEPT ![p] = Idle])
  /\ UNCHANGED output

\* A change that is one statement.
AtOnce == req' = Outdated(req) /\ UNCHANGED <<lost, raced>>
Edited == edits < MaxEdits /\ edits' = edits + 1

\* A worker, the agent, an administrator and the one who answers move a run.
MoveRun(i, from, to) ==
  /\ runs[i].status \in from /\ (to = "ended" => ~Acting(i))
  /\ runs' = [runs EXCEPT ![i].status = to]
  /\ AtOnce /\ UNCHANGED <<order, fresh, edits>>

Claim(i) == MoveRun(i, {"parked"}, "running")
Park(i) == ~Acting(i) /\ MoveRun(i, {"running"}, "parked")
End(i) == MoveRun(i, LiveRunStatuses, "ended")

\* attach_documents and detach_artifact of a document a person can open.
Attach(there) ==
  /\ output # there /\ output' = there
  /\ AtOnce /\ Edited /\ UNCHANGED <<status, agent, task, alert, dismissed, runs, fresh>>

\* A person resolves the alert; an administrator switches the agent.
Dismiss ==
  /\ alert > 0 /\ alert' = 0 /\ dismissed' = TRUE
  /\ AtOnce /\ Edited /\ UNCHANGED <<status, agent, task, output, runs, fresh>>

Switch ==
  /\ agent # "nobody" /\ agent' = IF agent = "able" THEN "disabled" ELSE "able"
  /\ AtOnce /\ Edited /\ UNCHANGED <<status, task, output, alert, dismissed, runs, fresh>>

Step ==
  \/ \E p \in Processes :
       \/ \E to \in DOMAIN Transitions : SetStatus(p, to)
       \/ \E to \in {"nobody", "able"} : Assign(p, to)
       \/ Reply(p) \/ ReplyDispatch(p) \/ SettleAlert(p) \/ Sweep(p) \/ Commit(p)
       \/ \E list \in Checklists : SetTasks(p, list)
       \/ \E i \in DOMAIN runs : \/ StartApprovedPlan(p, i)
                                 \/ \E t \in Tasks, to \in TaskStatus : UpdateTask(p, i, t, to)
  \/ \E i \in DOMAIN runs : Claim(i) \/ Park(i) \/ End(i)
  \/ \E there \in BOOLEAN : Attach(there)
  \/ Dismiss \/ Switch

\* Bound: nothing is claimed of an order after a race, so it is not followed.
Next == ~raced /\ Step

\* The executor's sweep runs on a schedule of its own, which the requests
\* cannot starve; a transaction that is open goes on.
Fairness ==
  /\ SF_vars(\E p \in Processes : Sweep(p))
  /\ \A p \in Processes : WF_vars(ReplyDispatch(p) \/ SettleAlert(p) \/ Commit(p))

Spec == Init /\ [][Next]_vars /\ Fairness

----------------------------------------------------------------------------
TypeOK ==
  /\ status \in DOMAIN Transitions /\ agent \in {"nobody", "able", "disabled"}
  /\ task \in [Tasks -> TaskStatus] /\ output \in BOOLEAN
  /\ alert \in 0 .. Cardinality(Processes) /\ dismissed \in BOOLEAN
  /\ runs \in Seq(Run) /\ Len(runs) <= MaxRuns
  /\ fresh \in BOOLEAN /\ lost \in BOOLEAN /\ raced \in BOOLEAN /\ edits \in 0 .. MaxEdits + Cardinality(Processes)

\* Only transactions that overlapped put two agents on one order ("starting a
\* second would put two agents on the same work").
OneAgent == ~raced => Cardinality({i \in DOMAIN runs : runs[i].status \in LiveRunStatuses}) <= 1

\* A finished or cancelled order stays so, and every change of status is an
\* edge, unless the decision was stale.
MovesAlongEdges == status' # status => status' \in Transitions[status] \/ raced'
StatusLegal == [][MovesAlongEdges]_vars

\* The pickups of an order end: each found more settled than the one before.
PickupsEnd ==
  ~raced => /\ Cardinality(Continuations) <= MAX_CONTINUATIONS
            /\ \A i, j \in Continuations : i < j => runs[i].progress < runs[j].progress

\* An open alert is about a blocked step, there is one, and a blocked step has
\* one unless a person has resolved it.
AlertIsTrue == ~raced => /\ alert > 0 => Blocked(task) # {}
                         /\ alert <= 1
                         /\ Blocked(task) # {} => alert > 0 \/ dismissed

\* A reply on an order under way is handed to a run or said not to be.
ReplyHeard == ~raced => ~lost

\* What holds until a transaction commits a stale decision.
OrdersHold == OneAgent /\ PickupsEnd /\ AlertIsTrue /\ ReplyHeard

\* The step that closes an order that owes a document finds one attached.
ClosesWithOutput ==
  (/\ Owes /\ ~raced' /\ Outstanding # {} /\ Outstanding' = {}
   /\ \E t \in Tasks : task[t] # "done" /\ task'[t] = "done") => output
ClosedWithOutput == [][ClosesWithOutput]_vars

\* An order that stops with work outstanding is picked up again or reported.
StallIsSeen ==
  (Stalled /\ ~raced) ~> (~Stalled \/ AlreadyFlagged \/ raced \/ Len(runs) = MaxRuns)
----------------------------------------------------------------------------
(***************************************************************************)
(* Proofs, for any number of processes, tasks and runs.                    *)
(***************************************************************************)
Setting ==
  IsFiniteSet(Tasks) /\ Checklists \subseteq [Tasks -> TaskStatus] /\ MAX_CONTINUATIONS \in Nat

Values == DOMAIN Transitions \cup TaskStatus \cup {"nobody", "able", "none"}
Request ==
  [pc : {"idle", "dispatch", "alert", "commit"},
   does : {"nothing", "status", "assign", "reply", "plan", "task", "replace", "continue", "flag"},
   to : Values, list : Checklists \cup {<<>>}, on : Tasks \cup {"none"}, by : Nat, queue : BOOLEAN,
   alert : {"keep", "raise", "clear"}, stale : BOOLEAN, young : BOOLEAN]

Types ==
  /\ agent \in {"nobody", "able", "disabled"} /\ task \in [Tasks -> TaskStatus]
  /\ alert \in Nat /\ dismissed \in BOOLEAN /\ runs \in Seq(Run)
  /\ req \in [Processes -> Request] /\ lost \in BOOLEAN /\ raced \in BOOLEAN

\* At most one run is live: OneAgent without counting.
OneLive == \A i, j \in DOMAIN runs :
             runs[i].status \in LiveRunStatuses /\ runs[j].status \in LiveRunStatuses => i = j

\* What an order has as long as nobody has raced.
Sane == ~raced => OneLive /\ AlertIsTrue /\ ~lost

\* The alert is true of the checklist ts, once a transaction has had its say.
AlertOn(ts, does, n, out) ==
  LET after == IF does = "raise" THEN n + 1 ELSE IF does = "clear" THEN 0 ELSE n
  IN /\ after > 0 => Blocked(ts) # {}
     /\ after <= 1
     /\ Blocked(ts) # {} => after > 0 \/ (out /\ does = "keep")

\* What a transaction has decided is right for the order as it is: d is p's
\* transaction, and nothing was committed since it read.
Fits(d) ==
  /\ d.queue => ~LiveBut(IF d.does = "plan" THEN d.by ELSE 0)
  /\ d.does = "status" => d.to \in Transitions[status]
  /\ d.does = "reply" => /\ ~Live /\ agent # "nobody"
                         /\ d.pc = "commit" => d.queue
  /\ d.does = "task" => /\ d.on \in Tasks /\ d.to \in TaskStatus
                        /\ d.to = "done" => Closable(d.on)
  /\ d.does = "replace" => d.list \in Checklists
  /\ d.pc = "alert" => d.does \in {"task", "replace"}
  /\ d.pc = "commit" => /\ d.does = "task" => AlertOn([task EXCEPT ![d.on] = d.to], d.alert, alert, dismissed)
                        /\ d.does = "replace" => AlertOn(d.list, d.alert, alert, dismissed)
  /\ d.does \notin {"task", "replace"} => d.alert = "keep"

\* Holds of stale transactions too.
Formed(d) ==
  /\ d.does = "task" => d.on \in Tasks /\ d.to \in TaskStatus
  /\ d.does = "replace" => d.list \in Checklists
  /\ d.does = "assign" => d.to \in {"nobody", "able"}
  /\ d.pc = "dispatch" => d.does = "reply"

Decisions == \A p \in Processes :
  /\ Formed(req[p])
  /\ req[p].pc # "idle" /\ ~req[p].stale /\ ~raced => Fits(req[p])

WInv == Types /\ Sane /\ Decisions

LEMMA IdleIs ==
  /\ Idle \in Request /\ Idle.pc = "idle" /\ Idle.does = "nothing" /\ Idle.queue = FALSE /\ Idle.alert = "keep"
  /\ Idle.stale = FALSE /\ Idle.young = TRUE /\ Idle.to = "none" /\ Idle.on = "none" /\ Idle.by = 0 /\ Idle.list = <<>>
  BY DEF Idle, Request, Values

\* A process decides: nothing but its own transaction changes.
LEMMA Decide ==
  ASSUME WInv, NEW p \in Processes, NEW d \in Request, Formed(d),
         d.pc # "idle" /\ ~d.stale /\ ~raced => Fits(d),
         req' = [req EXCEPT ![p] = d], UNCHANGED <<order, runs, lost, raced>>
  PROVE  WInv'
<1> USE DEF order
<1>1. Types'
  BY DEF WInv, Types
<1>2. Sane'
  BY DEF WInv, Sane, OneLive, AlertIsTrue
<1>4. \A o \in Processes : req'[o] = IF o = p THEN d ELSE req[o]
  BY DEF WInv, Types
<1>5. Decisions'
  <2>1. ASSUME NEW o \in Processes
        PROVE  Formed(req'[o]) /\ (req'[o].pc # "idle" /\ ~req'[o].stale /\ ~raced => Fits(req'[o]))
    BY <1>4 DEF WInv, Decisions
  <2>2. ASSUME NEW o \in Processes PROVE Formed(req[o])'
    BY <2>1 DEF Formed
  <2>3. status' = status /\ agent' = agent /\ task' = task /\ alert' = alert /\ dismissed' = dismissed /\ output' = output
        /\ runs' = runs /\ raced' = raced
    OBVIOUS
  <2>4. ASSUME NEW o \in Processes, (req[o].pc # "idle" /\ ~req[o].stale /\ ~raced)' PROVE Fits(req[o])'
    <3>1. Fits(req'[o])
      BY <2>1, <2>3, <2>4
    <3>2. (\A x : LiveBut(x)' <=> LiveBut(x)) /\ (Live' <=> Live)
      BY <2>3 DEF LiveBut, Live
    <3>3. \A x : Closable(x)' <=> Closable(x)
      BY <2>3 DEF Closable
    <3>4. QED
      BY <3>1, <3>2, <3>3, <2>3 DEF Fits
  <2>5. QED
    BY <2>2, <2>4 DEF Decisions
<1>6. QED
  BY <1>1, <1>2, <1>5 DEF WInv

\* The requests that only look at the runs and the status.
LEMMA RunsDecided ==
  ASSUME WInv, Setting, ~raced, NEW p \in Processes,
         \/ \E to \in DOMAIN Transitions : SetStatus(p, to)
         \/ \E to \in {"nobody", "able"} : Assign(p, to)
         \/ \E i \in DOMAIN runs : StartApprovedPlan(p, i)
         \/ Reply(p) \/ Sweep(p)
  PROVE  WInv'
<1>1. ASSUME NEW d, Open(p, d), d \in Request, Formed(d), Fits(d) PROVE WInv'
  BY <1>1, Decide DEF Open
<1>2. ASSUME NEW to \in DOMAIN Transitions, SetStatus(p, to) PROVE WInv'
  <2> DEFINE q == to = "in_progress" /\ Queues(agent, 0)
             d == [Idle EXCEPT !.pc = "commit", !.does = "status", !.to = to, !.queue = q]
  <2>1. Open(p, d) /\ to \in Transitions[status]
    BY <1>2 DEF SetStatus
  <2>2. q \in BOOLEAN /\ (q => ~LiveBut(0))
    BY DEF Queues
  <2> HIDE DEF q
  <2>3. to \in Values
    BY DEF Values
  <2>4. d \in Request /\ d.pc = "commit" /\ d.does = "status" /\ d.to = to /\ d.queue = q /\ d.alert = "keep"
    BY <2>2, <2>3, IdleIs DEF Request
  <2> HIDE DEF d
  <2>5. Formed(d) /\ Fits(d)
    BY <2>1, <2>2, <2>4 DEF Formed, Fits
  <2>6. QED
    BY <2>1, <2>4, <2>5, <1>1
<1>3. ASSUME NEW to \in {"nobody", "able"}, Assign(p, to) PROVE WInv'
  <2> DEFINE q == status = "in_progress" /\ Queues(to, 0)
             d == [Idle EXCEPT !.pc = "commit", !.does = "assign", !.to = to, !.queue = q]
  <2>1. Open(p, d)
    BY <1>3 DEF Assign
  <2>2. q \in BOOLEAN /\ (q => ~LiveBut(0))
    BY DEF Queues
  <2> HIDE DEF q
  <2>3. to \in Values
    BY DEF Values
  <2>4. d \in Request /\ d.pc = "commit" /\ d.does = "assign" /\ d.to = to /\ d.queue = q /\ d.alert = "keep"
    BY <2>2, <2>3, IdleIs DEF Request
  <2> HIDE DEF d
  <2>5. Formed(d) /\ Fits(d)
    BY <2>1, <2>2, <2>4 DEF Formed, Fits
  <2>6. QED
    BY <2>1, <2>4, <2>5, <1>1
<1>4. ASSUME NEW i \in DOMAIN runs, StartApprovedPlan(p, i) PROVE WInv'
  <2> DEFINE q == Queues(agent, i)
             d == [Idle EXCEPT !.pc = "commit", !.does = "plan", !.by = i, !.queue = q]
  <2>1. Open(p, d)
    BY <1>4 DEF StartApprovedPlan
  <2>2. q \in BOOLEAN /\ (q => ~LiveBut(i))
    BY DEF Queues
  <2> HIDE DEF q
  <2>3. i \in Nat
    BY DEF WInv, Types
  <2>4. d \in Request /\ d.pc = "commit" /\ d.does = "plan" /\ d.by = i /\ d.queue = q /\ d.alert = "keep"
    BY <2>2, <2>3, IdleIs DEF Request
  <2> HIDE DEF d
  <2>5. Formed(d) /\ Fits(d)
    BY <2>1, <2>2, <2>4 DEF Formed, Fits
  <2>6. QED
    BY <2>1, <2>4, <2>5, <1>1
<1>5. ASSUME Reply(p) PROVE WInv'
  <2> DEFINE d == [Idle EXCEPT !.pc = "dispatch", !.does = "reply"]
  <2>1. Open(p, d) /\ agent # "nobody" /\ ~Live
    BY <1>5 DEF Reply
  <2>2. d \in Request /\ d.pc = "dispatch" /\ d.does = "reply" /\ d.queue = FALSE /\ d.alert = "keep"
    BY IdleIs DEF Request
  <2> HIDE DEF d
  <2>3. Formed(d) /\ Fits(d)
    BY <2>1, <2>2 DEF Formed, Fits
  <2>4. QED
    BY <2>1, <2>2, <2>3, <1>1
<1>6. ASSUME Sweep(p) PROVE WInv'
  <2> DEFINE q == Continued
             does == IF Continued THEN "continue" ELSE "flag"
             d == [Idle EXCEPT !.pc = "commit", !.does = does, !.queue = q]
  <2>1. Open(p, d) /\ ~LiveBut(0)
    BY <1>6 DEF Sweep, Stalled, Live
  <2>2. q \in BOOLEAN /\ does \in {"continue", "flag"}
    BY DEF Continued
  <2> HIDE DEF q, does
  <2>3. d \in Request /\ d.pc = "commit" /\ d.does = does /\ d.queue = q /\ d.alert = "keep"
    BY <2>2, IdleIs DEF Request
  <2> HIDE DEF d
  <2>4. Formed(d) /\ Fits(d)
    BY <2>1, <2>2, <2>3 DEF Formed, Fits
  <2>5. QED
    BY <2>1, <2>3, <2>4, <1>1
<1>7. QED
  BY <1>2, <1>3, <1>4, <1>5, <1>6

\* The second look of a reply finds what the first found, or is stale.
LEMMA ReplyDecided ==
  ASSUME WInv, Setting, ~raced, NEW p \in Processes, ReplyDispatch(p)
  PROVE  WInv'
<1>1. req[p] \in Request /\ req[p].pc = "dispatch" /\ req[p].does = "reply" /\ UNCHANGED <<order, runs, lost, raced>>
  BY DEF WInv, Types, Decisions, Formed, ReplyDispatch
<1>2. CASE Refused
  <2>1. req' = [req EXCEPT ![p] = Idle]
    BY <1>2 DEF ReplyDispatch
  <2>2. Formed(Idle)
    BY IdleIs DEF Formed
  <2>3. QED
    BY <1>1, <2>1, <2>2, IdleIs, Decide
<1>3. CASE ~Refused
  <2> DEFINE q == Queues(agent, 0)
             d == [req[p] EXCEPT !.pc = "commit", !.queue = q]
  <2>1. req' = [req EXCEPT ![p] = d]
    BY <1>3 DEF ReplyDispatch
  <2>2. q \in BOOLEAN /\ (q => ~LiveBut(0)) /\ (agent = "able" /\ ~Live => q)
    BY DEF Queues, Live
  <2>3. agent # "nobody" => agent = "able"
    BY <1>3 DEF Refused, WInv, Types
  <2> HIDE DEF q
  <2>4. /\ d \in Request /\ d.pc = "commit" /\ d.does = "reply" /\ d.queue = q /\ d.alert = req[p].alert
        /\ d.stale = req[p].stale
    BY <1>1, <2>2 DEF Request
  <2> HIDE DEF d
  <2>5. Formed(d)
    BY <2>4 DEF Formed
  <2>6. ASSUME ~d.stale PROVE Fits(d)
    <3>1. Fits(req[p])
      BY <1>1, <2>4, <2>6 DEF WInv, Decisions
    <3>2. ~Live /\ agent # "nobody"
      BY <1>1, <3>1 DEF Fits
    <3>3. QED
      BY <1>1, <2>2, <2>3, <2>4, <3>1, <3>2 DEF Fits
  <2>7. QED
    BY <1>1, <2>1, <2>4, <2>5, <2>6, Decide
<1>4. QED
  BY <1>2, <1>3

\* The alert of a checklist that changes, as report_blocked and
\* clear_blocked_alert leave it.
LEMMA AlertDecided ==
  ASSUME NEW old \in [Tasks -> TaskStatus], NEW ts \in [Tasks -> TaskStatus], NEW n \in Nat, NEW out \in BOOLEAN,
         n > 0 => Blocked(old) # {}, n <= 1, Blocked(old) # {} => n > 0 \/ out
  PROVE  /\ Blocked(ts) # {} => AlertOn(ts, IF n = 0 THEN "raise" ELSE "keep", n, out)
         /\ Blocked(ts) = {} => AlertOn(ts, "clear", n, out)
         /\ Blocked(ts) # {} /\ Blocked(old) # {} => AlertOn(ts, "keep", n, out)
         /\ Blocked(ts) = Blocked(old) => AlertOn(ts, "keep", n, out)
  BY DEF AlertOn

\* A task of the checklist, or the whole of it, is to be changed.
LEMMA TasksDecided ==
  ASSUME WInv, Setting, ~raced, NEW p \in Processes,
         \/ \E i \in DOMAIN runs, t \in Tasks, to \in TaskStatus : UpdateTask(p, i, t, to)
         \/ \E list \in Checklists : SetTasks(p, list)
  PROVE  WInv'
<1>1. ASSUME NEW d, Open(p, d), d \in Request, Formed(d), Fits(d) PROVE WInv'
  BY <1>1, Decide DEF Open
<1>2. ASSUME NEW i \in DOMAIN runs, NEW t \in Tasks, NEW to \in TaskStatus, UpdateTask(p, i, t, to) PROVE WInv'
  <2> DEFINE pc == IF to = "blocked" \/ task[t] = "blocked" THEN "alert" ELSE "commit"
             d == [Idle EXCEPT !.does = "task", !.by = i, !.on = t, !.to = to, !.pc = pc]
  <2>1. Open(p, d) /\ (to = "done" => Closable(t))
    BY <1>2 DEF UpdateTask
  <2>2. pc \in {"alert", "commit"} /\ (pc = "commit" => to # "blocked" /\ task[t] # "blocked")
    OBVIOUS
  <2> HIDE DEF pc
  <2>3. to \in Values /\ i \in Nat
    BY DEF Values, WInv, Types
  <2>4. /\ d \in Request /\ d.pc = pc /\ d.does = "task" /\ d.to = to /\ d.on = t /\ d.queue = FALSE
        /\ d.alert = "keep"
    BY <2>2, <2>3, IdleIs DEF Request
  <2> HIDE DEF d
  <2>5. ASSUME pc = "commit" PROVE AlertOn([task EXCEPT ![t] = to], "keep", alert, dismissed)
    <3>1. task \in [Tasks -> TaskStatus] /\ alert \in Nat /\ dismissed \in BOOLEAN
      BY DEF WInv, Types
    <3>2. Blocked([task EXCEPT ![t] = to]) = Blocked(task)
      BY <3>1, <2>2, <2>5 DEF Blocked
    <3>3. [task EXCEPT ![t] = to] \in [Tasks -> TaskStatus]
      BY <3>1
    <3>4. (alert > 0 => Blocked(task) # {}) /\ alert <= 1 /\ (Blocked(task) # {} => alert > 0 \/ dismissed)
      BY DEF WInv, Sane, AlertIsTrue
    <3>5. QED
      BY <3>1, <3>2, <3>3, <3>4, AlertDecided
  <2>6. Formed(d) /\ Fits(d)
    BY <2>1, <2>2, <2>4, <2>5 DEF Formed, Fits
  <2>7. QED
    BY <2>1, <2>4, <2>6, <1>1
<1>3. ASSUME NEW list \in Checklists, SetTasks(p, list) PROVE WInv'
  <2> DEFINE d == [Idle EXCEPT !.pc = "alert", !.does = "replace", !.list = list]
  <2>1. Open(p, d)
    BY <1>3 DEF SetTasks
  <2>2. d \in Request /\ d.pc = "alert" /\ d.does = "replace" /\ d.list = list /\ d.queue = FALSE /\ d.alert = "keep"
    BY IdleIs DEF Request
  <2> HIDE DEF d
  <2>3. Formed(d) /\ Fits(d)
    BY <2>1, <2>2 DEF Formed, Fits
  <2>4. QED
    BY <2>1, <2>2, <2>3, <1>1
<1>4. QED
  BY <1>2, <1>3

\* The alert is decided on after the checklist, from the same rows.
LEMMA AlertSettled ==
  ASSUME WInv, Setting, ~raced, NEW p \in Processes, SettleAlert(p)
  PROVE  WInv'
<1> DEFINE e == req[p]
           a == AlertAfter(p)
           d == [e EXCEPT !.pc = "commit", !.alert = a]
<1>1. e \in Request /\ e.pc = "alert" /\ Formed(e) /\ UNCHANGED <<order, runs, lost, raced>>
  BY DEF WInv, Types, Decisions, SettleAlert
<1>2. req' = [req EXCEPT ![p] = d]
  BY DEF SettleAlert
<1>3. a \in {"keep", "raise", "clear"}
  BY DEF AlertAfter
<1>4. task \in [Tasks -> TaskStatus] /\ alert \in Nat /\ dismissed \in BOOLEAN
  BY DEF WInv, Types
<1>5. (alert > 0 => Blocked(task) # {}) /\ alert <= 1 /\ (Blocked(task) # {} => alert > 0 \/ dismissed)
  BY DEF WInv, Sane, AlertIsTrue
<1>6. ASSUME e.does = "task" PROVE AlertOn([task EXCEPT ![e.on] = e.to], a, alert, dismissed)
  <2> DEFINE ts == [task EXCEPT ![e.on] = e.to]
  <2>1. e.on \in Tasks /\ e.to \in TaskStatus
    BY <1>1, <1>6 DEF Formed
  <2>2. ts \in [Tasks -> TaskStatus]
    BY <2>1, <1>4
  <2>3. e.to = "blocked" => Blocked(ts) # {}
    BY <2>1, <1>4 DEF Blocked
  <2>4. e.to # "blocked" => Blocked(ts) \subseteq Blocked(task)
    BY <2>1, <1>4 DEF Blocked
  <2>5. a = IF e.to = "blocked" THEN IF alert = 0 THEN "raise" ELSE "keep"
            ELSE IF Blocked(ts) = {} THEN "clear" ELSE "keep"
    BY <1>6 DEF AlertAfter, Blocks, TasksOf
  <2> HIDE DEF ts, a
  <2>6. QED
    BY <2>2, <2>3, <2>4, <2>5, <1>4, <1>5, AlertDecided DEF ts
<1>7. ASSUME e.does = "replace" PROVE AlertOn(e.list, a, alert, dismissed)
  <2>1. e.list \in [Tasks -> TaskStatus]
    BY <1>1, <1>7 DEF Formed, Setting
  <2>2. a = IF Blocked(e.list) # {} THEN IF alert = 0 THEN "raise" ELSE "keep" ELSE "clear"
    BY <1>7 DEF AlertAfter, Blocks, TasksOf
  <2> HIDE DEF a, e
  <2>3. QED
    BY <2>1, <2>2, <1>4, <1>5, AlertDecided
<1>8. ~e.stale => Fits(e)
  BY <1>1 DEF WInv, Decisions
<1> HIDE DEF a, e
<1>9. /\ d \in Request /\ d.pc = "commit" /\ d.alert = a /\ d.does = e.does /\ d.to = e.to /\ d.on = e.on
      /\ d.list = e.list /\ d.queue = e.queue /\ d.by = e.by /\ d.stale = e.stale
  BY <1>1, <1>3 DEF Request
<1> HIDE DEF d
<1>10. Formed(d)
  BY <1>1, <1>9 DEF Formed
<1>11. ASSUME ~d.stale PROVE Fits(d)
  <2>1. Fits(e) /\ e.does \in {"task", "replace"}
    BY <1>1, <1>8, <1>9, <1>11 DEF Fits
  <2>2. QED
    BY <2>1, <1>1, <1>6, <1>7, <1>9 DEF Fits
<1>12. QED
  BY <1>1, <1>2, <1>9, <1>10, <1>11, Decide DEF d

\* Whoever has read before a change is stale after it.
LEMMA OthersStale ==
  ASSUME NEW t \in [Processes -> Request], \A q \in Processes : Formed(t[q]), req' = Outdated(t)
  PROVE  req' \in [Processes -> Request] /\ Decisions'
<1>1. ASSUME NEW q \in Processes
      PROVE  /\ req'[q] \in Request /\ (req'[q].pc # "idle" => req'[q].stale) /\ Formed(req'[q])
  <2>1. CASE t[q].pc = "idle"
    BY <2>1 DEF Outdated
  <2>2. CASE t[q].pc # "idle"
    <3> DEFINE e == t[q]
               d == [e EXCEPT !.stale = TRUE]
    <3>1. req'[q] = d /\ e \in Request
      BY <2>2 DEF Outdated
    <3> HIDE DEF e
    <3>2. /\ d \in Request /\ d.stale = TRUE /\ d.does = e.does /\ d.on = e.on /\ d.to = e.to /\ d.list = e.list
          /\ d.pc = e.pc
      BY <3>1 DEF Request
    <3>3. Formed(e)
      BY DEF e
    <3> HIDE DEF d
    <3>4. Formed(d)
      BY <3>2, <3>3 DEF Formed
    <3>5. QED
      BY <3>1, <3>2, <3>4
  <2>3. QED
    BY <2>1, <2>2
<1>2. req' = [q \in Processes |-> req'[q]]
  BY DEF Outdated
<1>3. req' \in [Processes -> Request]
  BY <1>1, <1>2
<1>4. ASSUME NEW q \in Processes PROVE Formed(req[q])'
  BY <1>1 DEF Formed
<1>5. QED
  BY <1>1, <1>3, <1>4 DEF Decisions

\* A sequence of rows with one of them replaced.
LEMMA RowReplaced ==
  ASSUME NEW R, NEW rows \in Seq(R), NEW i \in DOMAIN rows, NEW r \in R
  PROVE  LET t == [rows EXCEPT ![i] = r]
         IN /\ t \in Seq(R) /\ Len(t) = Len(rows) /\ DOMAIN t = DOMAIN rows
            /\ \A j \in DOMAIN rows : t[j] = IF j = i THEN r ELSE rows[j]
  OBVIOUS

\* A run is queued when none is live but the one that ends with the commit.
LEMMA OneLiveKept ==
  ASSUME Types, OneLive, NEW q \in BOOLEAN, NEW r \in Run, NEW by \in Nat, NEW plan \in BOOLEAN,
         NEW mine, mine = (IF plan THEN [runs EXCEPT ![by].status = "ended"] ELSE runs),
         runs' = (IF q THEN Append(mine, r) ELSE mine)
  PROVE  runs' \in Seq(Run) /\ ((q => ~LiveBut(IF plan THEN by ELSE 0)) => OneLive')
<1>1. runs \in Seq(Run)
  BY DEF Types
<1>2. /\ mine \in Seq(Run) /\ Len(mine) = Len(runs) /\ DOMAIN mine = DOMAIN runs
      /\ \A i \in DOMAIN runs : mine[i] = runs[i] \/ (plan /\ i = by /\ mine[i].status = "ended")
      /\ plan /\ by \in DOMAIN runs => mine[by].status = "ended"
  <2>1. CASE ~plan
    BY <2>1, <1>1
  <2>2. CASE plan /\ by \in DOMAIN runs
    <3> DEFINE e == runs[by]
               d == [e EXCEPT !.status = "ended"]
    <3>1. e \in Run
      BY <2>2, <1>1
    <3>2. mine = [runs EXCEPT ![by] = d]
      BY <2>2
    <3> HIDE DEF e
    <3>3. d \in Run /\ d.status = "ended"
      BY <3>1 DEF Run
    <3> HIDE DEF d
    <3> DEFINE t == [runs EXCEPT ![by] = d]
    <3>a. t \in Seq(Run) /\ Len(t) = Len(runs) /\ DOMAIN t = DOMAIN runs
      BY <2>2, <3>3, <1>1, RowReplaced
    <3>4. mine \in Seq(Run) /\ Len(mine) = Len(runs) /\ DOMAIN mine = DOMAIN runs
      <4>1. mine = t
        BY <3>2
      <4> HIDE DEF t
      <4>2. QED
        BY <4>1, <3>a
    <3>5. \A i \in DOMAIN runs : mine[i] = IF i = by THEN d ELSE runs[i]
      BY <2>2, <3>2, <3>3, <1>1, RowReplaced
    <3>6. QED
      BY <3>3, <3>4, <3>5, <2>2
  <2>3. CASE plan /\ by \notin DOMAIN runs
    <3>1. mine = runs
      BY <2>3, <1>1
    <3>2. QED
      BY <3>1, <2>3, <1>1
  <2>4. QED
    BY <2>1, <2>2, <2>3
<1>3. "ended" \notin LiveRunStatuses
  BY DEF LiveRunStatuses
<1>4. \A i \in DOMAIN mine : mine[i].status \in LiveRunStatuses => runs[i].status \in LiveRunStatuses /\ ~(plan /\ i = by)
  BY <1>2, <1>3
<1>5. CASE ~q
  <2>1. runs' = mine
    BY <1>5
  <2>2. \A i, j \in DOMAIN mine : mine[i].status \in LiveRunStatuses /\ mine[j].status \in LiveRunStatuses => i = j
    BY <1>2, <1>4 DEF OneLive
  <2>3. QED
    BY <2>1, <2>2, <1>2 DEF OneLive
<1>6. CASE q
  <2>1. ASSUME ~LiveBut(IF plan THEN by ELSE 0), NEW i \in DOMAIN mine PROVE mine[i].status \notin LiveRunStatuses
    <3>1. \A j \in DOMAIN runs : j # 0
      BY <1>1
    <3>2. \A j \in DOMAIN runs : runs[j].status \in LiveRunStatuses => plan /\ j = by
      BY <2>1, <3>1 DEF LiveBut
    <3>3. QED
      BY <3>2, <1>2, <1>4
  <2>2. runs' = Append(mine, r)
    BY <1>6
  <2>3. /\ runs' \in Seq(Run) /\ DOMAIN runs' = 1 .. Len(mine) + 1 /\ Len(mine) \in Nat
        /\ \A i \in 1 .. Len(mine) : runs'[i] = mine[i] /\ i \in DOMAIN mine
    <3>1. mine \in Seq(Run)
      BY <1>2
    <3>2. QED
      BY <3>1, <2>2
  <2>4. ASSUME ~LiveBut(IF plan THEN by ELSE 0), NEW i \in DOMAIN runs', runs'[i].status \in LiveRunStatuses
        PROVE  i = Len(mine) + 1
    BY <2>1, <2>3, <2>4
  <2>5. ASSUME ~LiveBut(IF plan THEN by ELSE 0) PROVE OneLive'
    BY <2>4, <2>5 DEF OneLive
  <2>6. QED
    BY <2>3, <2>5
<1>7. QED
  BY <1>5, <1>6

\* NewRun is a row of the table.
LEMMA NewRunType ==
  ASSUME Types, Setting, NEW p \in Processes
  PROVE  NewRun(p) \in Run
<1>1. Settled(task) \subseteq Tasks
  BY DEF Settled
<1>2. /\ Cardinality(Tasks) \in Nat /\ Cardinality(Settled(task)) \in Nat
      /\ Cardinality(Settled(task)) <= Cardinality(Tasks)
  BY <1>1, FS_Subset, FS_CardinalityType DEF Setting
<1>3. Progress \in 0 .. Cardinality(Tasks) /\ 0 \in 0 .. Cardinality(Tasks)
  BY <1>2 DEF Progress
<1>4. QED
  BY <1>3 DEF NewRun, Run, LiveRunStatuses

\* A commit of what was decided on the order as it is keeps all that is
\* claimed of the order; any other commit is a race.
LEMMA CommitKeeps ==
  ASSUME WInv, Setting, ~raced, NEW p \in Processes, Commit(p)
  PROVE  WInv'
<1> DEFINE d == req[p]
<1>1. d \in Request /\ d.pc = "commit" /\ Formed(d) /\ (~d.stale => Fits(d)) /\ req \in [Processes -> Request]
  BY DEF WInv, Types, Decisions, Commit
<1>2. /\ status' = IF d.does = "status" THEN d.to ELSE status
      /\ agent' = IF d.does = "assign" THEN d.to ELSE agent
      /\ task' = TasksOf(p)
      /\ alert' = CASE d.alert = "raise" -> alert + 1 [] d.alert = "clear" -> 0 [] OTHER -> alert
      /\ dismissed' = (dismissed /\ d.alert = "keep")
      /\ runs' = RunsAfter(p)
      /\ lost' = (lost \/ (d.does = "reply" /\ ~d.queue))
      /\ raced' = (raced \/ d.stale)
  BY DEF Commit
<1>3. /\ d.queue \in BOOLEAN /\ d.by \in Nat /\ d.stale \in BOOLEAN
      /\ d.alert \in {"keep", "raise", "clear"}
  BY <1>1 DEF Request
<1>4. /\ d.does = "task" => task' = [task EXCEPT ![d.on] = d.to]
      /\ d.does = "replace" => task' = d.list
      /\ d.does \notin {"task", "replace"} => task' = task
  BY <1>2 DEF TasksOf
<1>5. task' \in [Tasks -> TaskStatus] /\ agent' \in {"nobody", "able", "disabled"}
  <2>1. agent' \in {"nobody", "able", "disabled"}
    BY <1>1, <1>2 DEF Formed, WInv, Types
  <2>2. task' \in [Tasks -> TaskStatus]
    BY <1>1, <1>4 DEF Formed, WInv, Types, Setting
  <2>3. QED
    BY <2>1, <2>2
<1>6. alert' = IF d.alert = "raise" THEN alert + 1 ELSE IF d.alert = "clear" THEN 0 ELSE alert
  BY <1>2
<1>7. alert' \in Nat
  BY <1>6 DEF WInv, Types
<1>8. dismissed' \in BOOLEAN /\ lost' \in BOOLEAN /\ raced' \in BOOLEAN
  BY <1>2
<1>9. runs' \in Seq(Run) /\ (Fits(d) => OneLive')
  <2> DEFINE plan == d.does = "plan"
             mine == IF plan THEN [runs EXCEPT ![d.by].status = "ended"] ELSE runs
  <2>1. NewRun(p) \in Run
    BY NewRunType DEF WInv
  <2>2. runs' = IF d.queue THEN Append(mine, NewRun(p)) ELSE mine
    BY <1>2 DEF RunsAfter
  <2>3. Types /\ OneLive /\ plan \in BOOLEAN
    BY DEF WInv, Sane
  <2>4. Fits(d) => (d.queue => ~LiveBut(IF plan THEN d.by ELSE 0))
    BY DEF Fits
  <2> HIDE DEF plan
  <2>5. runs' \in Seq(Run) /\ ((d.queue => ~LiveBut(IF plan THEN d.by ELSE 0)) => OneLive')
    BY <2>1, <2>2, <2>3, <1>3, OneLiveKept
  <2>6. QED
    BY <2>4, <2>5
<1>10. req' \in [Processes -> Request] /\ Decisions'
  <2> DEFINE flagged == [q \in Processes |-> IF d.does = "flag" THEN [req[q] EXCEPT !.young = FALSE] ELSE req[q]]
             t == [flagged EXCEPT ![p] = Idle]
  <2>1. req' = Outdated(t)
    BY DEF Commit
  <2>2. ASSUME NEW q \in Processes PROVE flagged[q] \in Request /\ Formed(flagged[q])
    <3> DEFINE e == req[q]
               f == [e EXCEPT !.young = FALSE]
    <3>1. e \in Request /\ Formed(e) /\ (flagged[q] = e \/ flagged[q] = f)
      BY <1>1 DEF WInv, Decisions
    <3> HIDE DEF e
    <3>2. f \in Request /\ f.does = e.does /\ f.on = e.on /\ f.to = e.to /\ f.list = e.list /\ f.pc = e.pc
      BY <3>1 DEF Request
    <3> HIDE DEF f
    <3>3. Formed(f)
      BY <3>1, <3>2 DEF Formed
    <3>4. QED
      BY <3>1, <3>2, <3>3
  <2>3. flagged = [q \in Processes |-> flagged[q]]
    OBVIOUS
  <2> HIDE DEF flagged
  <2>4. Idle \in Request /\ Formed(Idle)
    BY IdleIs DEF Formed
  <2>5. t \in [Processes -> Request] /\ \A q \in Processes : Formed(t[q])
    BY <2>2, <2>3, <2>4
  <2> HIDE DEF t
  <2>6. QED
    BY <2>1, <2>5, OthersStale
<1>11. Types'
  BY <1>5, <1>7, <1>8, <1>9, <1>10 DEF Types
<1>12. ASSUME ~raced' PROVE OneLive' /\ AlertIsTrue' /\ ~lost'
  <2>1. Fits(d)
    BY <1>1, <1>2, <1>3, <1>12
  <2>2. ~lost'
    BY <2>1, <1>1, <1>2 DEF Fits, WInv, Sane
  <2>3. (alert > 0 => Blocked(task) # {}) /\ alert <= 1 /\ (Blocked(task) # {} => alert > 0 \/ dismissed)
    BY DEF WInv, Sane, AlertIsTrue
  <2>4. AlertOn(task', d.alert, alert, dismissed)
    <3>1. CASE d.does \in {"task", "replace"}
      BY <3>1, <2>1, <1>1, <1>4 DEF Fits
    <3>2. CASE d.does \notin {"task", "replace"}
      BY <3>2, <2>1, <2>3, <1>4 DEF Fits, AlertOn
    <3>3. QED
      BY <3>1, <3>2
  <2>5. /\ alert' > 0 => Blocked(task') # {}
        /\ alert' <= 1
        /\ Blocked(task') # {} => alert' > 0 \/ dismissed'
    BY <2>4, <1>2, <1>6 DEF AlertOn
  <2>6. AlertIsTrue'
    BY <2>5 DEF AlertIsTrue, Blocked
  <2>7. QED
    BY <2>1, <2>2, <2>6, <1>9
<1>13. QED
  BY <1>10, <1>11, <1>12 DEF WInv, Sane

\* The changes that are one statement.
LEMMA AtOnceKeeps ==
  ASSUME WInv, Setting, ~raced,
         \/ \E i \in DOMAIN runs : Claim(i) \/ Park(i) \/ End(i)
         \/ \E there \in BOOLEAN : Attach(there)
         \/ Dismiss \/ Switch
  PROVE  WInv'
<1>1. AtOnce
  BY DEF Claim, Park, End, MoveRun, Attach, Dismiss, Switch
<1>2. lost' = lost /\ raced' = raced /\ req' = Outdated(req)
  BY <1>1 DEF AtOnce
<1>3. req' \in [Processes -> Request] /\ Decisions'
  BY <1>2, OthersStale DEF WInv, Types, Decisions
<1>4. ASSUME NEW i \in DOMAIN runs, Claim(i) \/ Park(i) \/ End(i)
      PROVE  runs' \in Seq(Run) /\ OneLive' /\ UNCHANGED order
  <2>1. PICK st \in LiveRunStatuses \cup {"ended"} :
          runs[i].status \in LiveRunStatuses /\ runs' = [runs EXCEPT ![i].status = st] /\ UNCHANGED order
    BY <1>4 DEF Claim, Park, End, MoveRun, LiveRunStatuses
  <2> DEFINE e == runs[i]
             d == [e EXCEPT !.status = st]
             t == [runs EXCEPT ![i] = d]
  <2>2. e \in Run /\ runs \in Seq(Run)
    BY DEF WInv, Types
  <2>3. runs' = t
    BY <2>1
  <2> HIDE DEF e
  <2>4. d \in Run
    BY <2>1, <2>2 DEF Run
  <2> HIDE DEF d
  <2>5. /\ t \in Seq(Run) /\ DOMAIN t = DOMAIN runs
        /\ \A j \in DOMAIN runs : t[j] = IF j = i THEN d ELSE runs[j]
    BY <2>2, <2>4, RowReplaced
  <2> HIDE DEF t
  <2>6. \A j \in DOMAIN t : t[j].status \in LiveRunStatuses => runs[j].status \in LiveRunStatuses
    BY <2>1, <2>5
  <2>7. \A j, k \in DOMAIN t : t[j].status \in LiveRunStatuses /\ t[k].status \in LiveRunStatuses => j = k
    BY <2>5, <2>6 DEF WInv, Sane, OneLive
  <2>8. QED
    BY <2>1, <2>3, <2>5, <2>7 DEF OneLive
<1>5. CASE \E i \in DOMAIN runs : Claim(i) \/ Park(i) \/ End(i)
  <2>1. runs' \in Seq(Run) /\ OneLive' /\ UNCHANGED order
    BY <1>4, <1>5
  <2>2. Types'
    BY <2>1, <1>2, <1>3 DEF WInv, Types, order
  <2>3. Sane'
    BY <2>1, <1>2 DEF WInv, Sane, AlertIsTrue, order
  <2>4. QED
    BY <2>2, <2>3, <1>3 DEF WInv
<1>6. CASE (\E there \in BOOLEAN : Attach(there)) \/ Dismiss \/ Switch
  <2>1. /\ runs' = runs /\ task' = task /\ agent' \in {"nobody", "able", "disabled"}
        /\ \/ alert' = alert /\ dismissed' = dismissed
           \/ alert' = 0 /\ dismissed' = TRUE
    BY <1>6 DEF Attach, Dismiss, Switch, WInv, Types
  <2>a. dismissed \in BOOLEAN
    BY DEF WInv, Types
  <2>b. dismissed' \in BOOLEAN
    BY <2>1, <2>a, Zenon
  <2>2. Types'
    BY <2>1, <2>b, <1>2, <1>3 DEF WInv, Types
  <2>3. Sane'
    BY <2>1, <1>2 DEF WInv, Sane, AlertIsTrue, OneLive
  <2>4. QED
    BY <2>2, <2>3, <1>3 DEF WInv
<1>7. QED
  BY <1>5, <1>6

\* What was decided on rows that nobody has changed since is right when it is
\* committed, for every request, tool call and sweep.
THEOREM OrderInvariant ==
  ASSUME Setting PROVE Spec => []WInv
<1>1. ASSUME Init PROVE WInv
  <2>1. \A p \in Processes : req[p] = Idle
    BY <1>1 DEF Init
  <2>2. task \in [Tasks -> TaskStatus] /\ alert = (IF Blocked(task) = {} THEN 0 ELSE 1) /\ runs = <<>>
        /\ dismissed = FALSE /\ lost = FALSE /\ raced = FALSE /\ agent \in {"nobody", "able"}
    BY <1>1 DEF Init, Setting
  <2>3. req \in [Processes -> Request]
    BY <1>1, IdleIs DEF Init
  <2>4. Types
    <3>1. dismissed \in BOOLEAN /\ lost \in BOOLEAN /\ raced \in BOOLEAN
      BY <2>2, Zenon
    <3>2. runs \in Seq(Run) /\ alert \in Nat
      BY <2>2
    <3>3. QED
      BY <2>2, <2>3, <3>1, <3>2 DEF Types
  <2>5. Sane
    BY <2>2 DEF Sane, OneLive, AlertIsTrue
  <2>6. Decisions
    BY <2>1, IdleIs DEF Decisions, Formed
  <2>7. QED
    BY <2>4, <2>5, <2>6 DEF WInv
<1>2. ASSUME WInv, [Next]_vars PROVE WInv'
  <2>1. CASE UNCHANGED vars
    <3>1. UNCHANGED <<order, runs, req, lost, raced>>
      BY <2>1 DEF vars, order
    <3>2. Types'
      BY <1>2, <3>1 DEF WInv, Types, order
    <3>3. Sane'
      BY <1>2, <3>1 DEF WInv, Sane, OneLive, AlertIsTrue, order
    <3>4. ASSUME NEW p \in Processes PROVE Formed(req[p])' /\ (Fits(req[p]) => Fits(req[p])')
      <4>1. Formed(req[p])'
        BY <1>2, <3>1 DEF WInv, Decisions, Formed
      <4>2. (\A x : LiveBut(x)' <=> LiveBut(x)) /\ (Live' <=> Live)
        BY <3>1 DEF LiveBut, Live
      <4>3. \A x : Closable(x)' <=> Closable(x)
        BY <3>1 DEF Closable, order
      <4>4. QED
        BY <3>1, <4>1, <4>2, <4>3 DEF Fits, order
    <3>5. Decisions'
      BY <1>2, <3>1, <3>4 DEF WInv, Decisions
    <3>6. QED
      BY <3>2, <3>3, <3>5 DEF WInv
  <2>2. CASE Next
    BY <1>2, <2>2, RunsDecided, ReplyDecided, TasksDecided, AlertSettled, CommitKeeps, AtOnceKeeps DEF Next, Step
  <2>3. QED
    BY <1>2, <2>1, <2>2
<1>3. QED
  BY <1>1, <1>2, PTL DEF Spec

----------------------------------------------------------------------------
(***************************************************************************)
(* The pickups of an order.                                                *)
(***************************************************************************)
\* What a sweep that decided to continue has counted, and finds at its commit.
Pickable ==
  /\ Cardinality(Continuations) < MAX_CONTINUATIONS
  /\ \A i \in Continuations : (\A j \in Continuations : j <= i) => Progress > runs[i].progress
Continues(d) == d.does = "continue" /\ d.pc # "idle" /\ ~d.stale

Climbing ==
  /\ PickupsEnd
  /\ ~raced => /\ Continuations # {} => \E i \in Continuations : \A j \in Continuations : j <= i
               /\ \A p \in Processes : Continues(req[p]) => Pickable

\* A step that adds no pickup.
LEMMA NoPickup ==
  ASSUME Climbing, ~raced, Continuations' = Continuations,
         \A i \in Continuations : runs'[i].progress = runs[i].progress,
         ~raced' => \A p \in Processes : ~Continues(req[p])'
  PROVE  Climbing'
  BY DEF Climbing, PickupsEnd

\* A process decides; it may decide to continue only what can be.
LEMMA PickupsDecided ==
  ASSUME Climbing, ~raced, NEW p \in Processes, NEW d, req \in [Processes -> Request],
         req' = [req EXCEPT ![p] = d], UNCHANGED <<order, runs, raced>>,
         Continues(d) => Pickable \/ Continues(req[p])
  PROVE  Climbing'
<1>1. Continuations' = Continuations /\ Progress' = Progress /\ runs' = runs
  BY DEF Continuations, Progress, Settled, order
<1>2. Pickable' <=> Pickable
  BY <1>1 DEF Pickable
<1>3. ASSUME NEW q \in Processes, Continues(req[q])' PROVE Pickable'
  <2>1. Continues(req'[q])
    BY <1>3 DEF Continues
  <2>2. Continues(req[q]) => Pickable
    BY DEF Climbing
  <2>3. CASE q = p
    BY <2>1, <2>3, <1>2 DEF Climbing
  <2>4. CASE q # p
    BY <2>1, <2>2, <2>4, <1>2
  <2>5. QED
    BY <2>3, <2>4
<1>4. QED
  BY <1>1, <1>3 DEF Climbing, PickupsEnd

\* A transaction that was open at a commit is out of date.
LEMMA NoneContinues ==
  ASSUME NEW t \in [Processes -> Request], req' = Outdated(t), NEW p \in Processes
  PROVE  ~Continues(req[p])'
<1> DEFINE e == t[p]
           d == [e EXCEPT !.stale = TRUE]
<1>1. e \in Request /\ req'[p] = IF e.pc = "idle" THEN e ELSE d
  BY DEF Outdated
<1> HIDE DEF e
<1>2. d.stale = TRUE
  BY <1>1 DEF Request
<1>3. QED
  BY <1>1, <1>2 DEF Continues

\* A run that is moved on or ends: a pickup stays a pickup, as far on.
LEMMA RunMoved ==
  ASSUME NEW rows \in Seq(Run), NEW by \in DOMAIN rows, NEW e \in Run,
         e.trigger = rows[by].trigger, e.progress = rows[by].progress
  PROVE  LET t == [rows EXCEPT ![by] = e]
         IN /\ t \in Seq(Run) /\ Len(t) = Len(rows)
            /\ \A i \in DOMAIN rows : t[i].trigger = rows[i].trigger /\ t[i].progress = rows[i].progress
<1> DEFINE t == [rows EXCEPT ![by] = e]
<1>1. t \in Seq(Run) /\ Len(t) = Len(rows) /\ \A j \in DOMAIN rows : t[j] = IF j = by THEN e ELSE rows[j]
  BY RowReplaced
<1> HIDE DEF t
<1>2. \A j \in DOMAIN rows : t[j].trigger = rows[j].trigger /\ t[j].progress = rows[j].progress
  BY <1>1
<1>3. QED
  BY <1>1, <1>2 DEF t

LEMMA PickupsFinite == Types => IsFiniteSet(Continuations) /\ Cardinality(Continuations) \in Nat
<1> SUFFICES ASSUME Types PROVE IsFiniteSet(Continuations)
  BY FS_CardinalityType
<1>1. Len(runs) \in Nat /\ DOMAIN runs = 1 .. Len(runs)
  BY DEF Types
<1>2. IsFiniteSet(1 .. Len(runs))
  BY <1>1, FS_Interval
<1>3. Continuations \subseteq 1 .. Len(runs)
  BY <1>1 DEF Continuations
<1>4. QED
  BY <1>2, <1>3, FS_Subset

LEMMA CommitPickups ==
  ASSUME WInv, Climbing, Setting, ~raced, NEW p \in Processes, Commit(p)
  PROVE  Climbing'
<1> DEFINE d == req[p]
           plan == d.does = "plan"
           mine == IF plan THEN [runs EXCEPT ![d.by].status = "ended"] ELSE runs
           n == Len(runs)
<1>1. /\ d \in Request /\ d.pc = "commit" /\ d.queue \in BOOLEAN /\ d.by \in Nat /\ Types
      /\ raced' = (raced \/ d.stale) /\ d.stale \in BOOLEAN
      /\ runs' = IF d.queue THEN Append(mine, NewRun(p)) ELSE mine
  BY DEF WInv, Types, Request, Commit, RunsAfter
<1>2. \A q \in Processes : ~Continues(req[q])'
  <2> DEFINE flagged == [q \in Processes |-> IF d.does = "flag" THEN [req[q] EXCEPT !.young = FALSE] ELSE req[q]]
             t == [flagged EXCEPT ![p] = Idle]
  <2>1. req' = Outdated(t)
    BY DEF Commit
  <2>2. ASSUME NEW q \in Processes PROVE flagged[q] \in Request
    <3> DEFINE e == req[q]
               f == [e EXCEPT !.young = FALSE]
    <3>1. e \in Request /\ (flagged[q] = e \/ flagged[q] = f)
      BY DEF WInv, Types
    <3> HIDE DEF e
    <3>2. f \in Request
      BY <3>1 DEF Request
    <3>3. QED
      BY <3>1, <3>2
  <2>3. flagged = [q \in Processes |-> flagged[q]]
    OBVIOUS
  <2> HIDE DEF flagged
  <2>4. t \in [Processes -> Request]
    BY <2>2, <2>3, IdleIs
  <2> HIDE DEF t
  <2>5. QED
    BY <2>1, <2>4, NoneContinues
<1>3. /\ mine \in Seq(Run) /\ Len(mine) = n /\ n \in Nat /\ DOMAIN runs = 1 .. n
      /\ \A i \in 1 .. n : mine[i].trigger = runs[i].trigger /\ mine[i].progress = runs[i].progress
  <2>1. n \in Nat /\ DOMAIN runs = 1 .. n /\ runs \in Seq(Run)
    BY <1>1 DEF Types
  <2>2. CASE plan
    <3> DEFINE r == runs[d.by]
               e == [r EXCEPT !.status = "ended"]
               t == [runs EXCEPT ![d.by] = e]
    <3>1. mine = t
      BY <2>2
    <3>2. CASE d.by \in DOMAIN runs
      <4>1. r \in Run
        BY <2>1, <3>2
      <4> HIDE DEF r
      <4>2. e \in Run /\ e.trigger = r.trigger /\ e.progress = r.progress
        BY <4>1 DEF Run
      <4> HIDE DEF e, mine
      <4>3. /\ t \in Seq(Run) /\ Len(t) = Len(runs)
            /\ \A i \in DOMAIN runs : t[i].trigger = runs[i].trigger /\ t[i].progress = runs[i].progress
        <5>1. e.trigger = runs[d.by].trigger /\ e.progress = runs[d.by].progress
          BY <4>2 DEF r
        <5>2. QED
          BY <2>1, <3>2, <4>2, <5>1, RunMoved
      <4> HIDE DEF t
      <4>4. QED
        BY <2>1, <3>1, <4>3
    <3>3. CASE d.by \notin DOMAIN runs
      <4>1. t = runs
        BY <2>1, <3>3
      <4>2. QED
        BY <2>1, <3>1, <4>1
    <3>4. QED
      BY <3>2, <3>3
  <2>3. CASE ~plan
    BY <2>1, <2>3
  <2>4. QED
    BY <2>2, <2>3
<1> HIDE DEF mine
<1>4. NewRun(p) \in Run
  BY <1>1, NewRunType
<1>5. Continuations = {i \in 1 .. n : mine[i].trigger = "continuation"}
  BY <1>3 DEF Continuations
<1>6. CASE ~d.queue
  <2>1. runs' = mine /\ DOMAIN runs' = 1 .. n
    BY <1>1, <1>3, <1>6
  <2>2. Continuations' = Continuations
    BY <1>5, <2>1 DEF Continuations
  <2>3. \A i \in Continuations : runs'[i].progress = runs[i].progress
    BY <1>3, <1>5, <2>1
  <2>4. QED
    BY <1>2, <2>2, <2>3, NoPickup
<1>7. CASE d.queue
  <2>1. /\ DOMAIN runs' = 1 .. n + 1 /\ runs'[n + 1] = NewRun(p)
        /\ \A i \in 1 .. n : runs'[i] = mine[i]
    BY <1>1, <1>3, <1>4, <1>7
  <2>2. \A i \in 1 .. n : runs'[i].trigger = runs[i].trigger /\ runs'[i].progress = runs[i].progress
    BY <1>3, <2>1
  <2>3. CASE d.does # "continue"
    <3>1. runs'[n + 1].trigger # "continuation"
      BY <2>1, <2>3 DEF NewRun
    <3>2. Continuations' = Continuations
      BY <1>3, <1>5, <2>1, <3>1 DEF Continuations
    <3>3. \A i \in Continuations : runs'[i].progress = runs[i].progress
      BY <1>5, <2>2
    <3>4. QED
      BY <1>2, <3>2, <3>3, NoPickup
  <2>4. CASE d.does = "continue"
    <3>1. runs'[n + 1].trigger = "continuation" /\ runs'[n + 1].progress = Progress
      BY <2>1, <2>4 DEF NewRun
    <3>2. Continuations' = Continuations \cup {n + 1} /\ Continuations \subseteq 1 .. n
      BY <1>3, <1>5, <2>1, <3>1 DEF Continuations
    <3> SUFFICES ASSUME ~raced' PROVE Climbing'
      BY DEF Climbing, PickupsEnd
    <3>3. Pickable
      <4>1. ~d.stale
        BY <1>1
      <4>2. Continues(req[p])
        BY <4>1, <1>1, <2>4 DEF Continues
      <4>3. QED
        BY <4>2 DEF Climbing
    <3>4. Cardinality(Continuations') <= MAX_CONTINUATIONS
      <4>1. Cardinality(Continuations \cup {n + 1}) = Cardinality(Continuations) + 1
        <5>1. IsFiniteSet(Continuations) /\ n + 1 \notin Continuations
          BY <1>1, <1>3, <3>2, PickupsFinite
        <5>2. QED
          BY <5>1, FS_AddElement
      <4>2. QED
        BY <4>1, <3>2, <3>3, <1>1, PickupsFinite DEF Pickable, Setting
    <3>5. \A i \in Continuations : runs[i].progress \in Nat /\ runs[i].progress < Progress
      <4> SUFFICES ASSUME NEW i \in Continuations PROVE runs[i].progress \in Nat /\ runs[i].progress < Progress
        OBVIOUS
      <4>1. PICK k \in Continuations : \A j \in Continuations : j <= k
        BY DEF Climbing
      <4>2. \A j \in Continuations : runs[j] \in Run /\ j \in 1 .. n
        BY <1>1, <1>3, <3>2 DEF Types
      <4>3. \A j \in Continuations : runs[j].progress \in Nat
        <5>1. Cardinality(Tasks) \in Nat
          BY FS_CardinalityType DEF Setting
        <5>2. QED
          BY <4>2, <5>1 DEF Run
      <4>4. Progress \in Nat
        <5>1. Settled(task) \subseteq Tasks
          BY DEF Settled
        <5>2. QED
          BY <5>1, FS_Subset, FS_CardinalityType DEF Setting, Progress
      <4>5. runs[k].progress < Progress
        BY <3>3, <4>1, <4>3, <4>4 DEF Pickable
      <4>6. i = k \/ runs[i].progress < runs[k].progress
        BY <4>1, <4>2 DEF Climbing, PickupsEnd
      <4>7. QED
        BY <4>1, <4>3, <4>4, <4>5, <4>6
    <3>6. \A i, j \in Continuations' : i < j => runs'[i].progress < runs'[j].progress
      <4> SUFFICES ASSUME NEW i \in Continuations \cup {n + 1}, NEW j \in Continuations \cup {n + 1}, i < j
                   PROVE  runs'[i].progress < runs'[j].progress
        BY <3>2
      <4>1. i \in Continuations /\ i \in 1 .. n /\ runs'[i].progress = runs[i].progress
        BY <1>3, <2>2, <3>2
      <4>2. CASE j = n + 1
        BY <4>1, <4>2, <3>1, <3>5
      <4>3. CASE j \in Continuations
        BY <4>1, <4>3, <2>2, <3>2 DEF Climbing, PickupsEnd
      <4>4. QED
        BY <4>2, <4>3
    <3>7. \E i \in Continuations' : \A j \in Continuations' : j <= i
      <4>1. \A j \in Continuations \cup {n + 1} : j <= n + 1
        BY <1>3, <3>2
      <4>2. QED
        BY <3>2, <4>1
    <3>8. QED
      BY <1>2, <3>4, <3>6, <3>7 DEF Climbing, PickupsEnd
  <2>5. QED
    BY <2>3, <2>4
<1>8. QED
  BY <1>6, <1>7

\* The changes that are one statement.
LEMMA AtOncePickups ==
  ASSUME WInv, Climbing, ~raced, AtOnce,
         \/ runs' = runs
         \/ \E i \in DOMAIN runs, st \in LiveRunStatuses \cup {"ended"} : runs' = [runs EXCEPT ![i].status = st]
  PROVE  Climbing'
<1>1. \A p \in Processes : ~Continues(req[p])'
  <2>1. req' = Outdated(req) /\ req \in [Processes -> Request]
    BY DEF AtOnce, WInv, Types
  <2>2. QED
    BY <2>1, NoneContinues
<1>2. runs \in Seq(Run)
  BY DEF WInv, Types
<1>3. /\ DOMAIN runs' = DOMAIN runs
      /\ \A i \in DOMAIN runs : runs'[i].trigger = runs[i].trigger /\ runs'[i].progress = runs[i].progress
  <2>1. CASE runs' = runs
    BY <2>1
  <2>2. ASSUME NEW i \in DOMAIN runs, NEW st \in LiveRunStatuses \cup {"ended"},
               runs' = [runs EXCEPT ![i].status = st]
        PROVE  <1>3
    <3> DEFINE r == runs[i]
               e == [r EXCEPT !.status = st]
               t == [runs EXCEPT ![i] = e]
    <3>1. runs' = t
      BY <2>2
    <3>2. r \in Run
      BY <1>2, <2>2
    <3> HIDE DEF r
    <3>3. e \in Run /\ e.trigger = r.trigger /\ e.progress = r.progress
      BY <2>2, <3>2 DEF Run
    <3> HIDE DEF e
    <3>4. e.trigger = runs[i].trigger /\ e.progress = runs[i].progress
      BY <3>3 DEF r
    <3>5. /\ t \in Seq(Run) /\ Len(t) = Len(runs)
          /\ \A j \in DOMAIN runs : t[j].trigger = runs[j].trigger /\ t[j].progress = runs[j].progress
      BY <1>2, <2>2, <3>3, <3>4, RunMoved
    <3> HIDE DEF t
    <3>6. QED
      BY <1>2, <3>1, <3>5
  <2>3. QED
    BY <2>1, <2>2
<1>4. Continuations' = Continuations /\ \A i \in Continuations : runs'[i].progress = runs[i].progress
  BY <1>3 DEF Continuations
<1>5. QED
  BY <1>1, <1>4, NoPickup

\* The number and the progress of the pickups, whatever else happens to the order.
THEOREM PickupsInvariant ==
  ASSUME Setting PROVE Spec => []Climbing
<1>1. ASSUME Init PROVE Climbing
  <2>1. Continuations = {} /\ \A p \in Processes : req[p] = Idle
    BY <1>1 DEF Init, Continuations
  <2>2. Cardinality(Continuations) <= MAX_CONTINUATIONS
    BY <2>1, FS_EmptySet DEF Setting
  <2>3. QED
    BY <2>1, <2>2, IdleIs DEF Climbing, PickupsEnd, Continues
<1>2. ASSUME WInv, Climbing, [Next]_vars PROVE Climbing'
  <2>1. req \in [Processes -> Request]
    BY <1>2 DEF WInv, Types
  <2>2. CASE UNCHANGED vars
    <3>1. runs' = runs /\ req' = req /\ raced' = raced /\ task' = task
      BY <2>2 DEF vars
    <3>2. Continuations' = Continuations /\ Progress' = Progress
      BY <3>1 DEF Continuations, Progress, Settled
    <3>3. QED
      BY <1>2, <3>1, <3>2 DEF Climbing, PickupsEnd, Continues, Pickable
  <2>3. ASSUME ~raced, NEW p \in Processes, NEW d, Open(p, d), Continues(d) => Pickable PROVE Climbing'
    BY <1>2, <2>1, <2>3, PickupsDecided DEF Open
  <2>4. ASSUME ~raced, NEW p \in Processes, NEW to \in DOMAIN Transitions, SetStatus(p, to) PROVE Climbing'
    <3> DEFINE d == [Idle EXCEPT !.pc = "commit", !.does = "status", !.to = to,
                                 !.queue = to = "in_progress" /\ Queues(agent, 0)]
    <3>1. Open(p, d)
      BY <2>4 DEF SetStatus
    <3>2. d.does = "status"
      BY DEF Idle
    <3> HIDE DEF d
    <3>3. QED
      BY <2>3, <2>4, <3>1, <3>2 DEF Continues
  <2>5. ASSUME ~raced, NEW p \in Processes, NEW to \in {"nobody", "able"}, Assign(p, to) PROVE Climbing'
    <3> DEFINE d == [Idle EXCEPT !.pc = "commit", !.does = "assign", !.to = to,
                                 !.queue = status = "in_progress" /\ Queues(to, 0)]
    <3>1. Open(p, d)
      BY <2>5 DEF Assign
    <3>2. d.does = "assign"
      BY DEF Idle
    <3> HIDE DEF d
    <3>3. QED
      BY <2>3, <2>5, <3>1, <3>2 DEF Continues
  <2>6. ASSUME ~raced, NEW p \in Processes, Reply(p) PROVE Climbing'
    <3> DEFINE d == [Idle EXCEPT !.pc = "dispatch", !.does = "reply"]
    <3>1. Open(p, d)
      BY <2>6 DEF Reply
    <3>2. d.does = "reply"
      BY DEF Idle
    <3> HIDE DEF d
    <3>3. QED
      BY <2>3, <2>6, <3>1, <3>2 DEF Continues
  <2>7. ASSUME ~raced, NEW p \in Processes, NEW i \in DOMAIN runs, StartApprovedPlan(p, i) PROVE Climbing'
    <3> DEFINE d == [Idle EXCEPT !.pc = "commit", !.does = "plan", !.by = i, !.queue = Queues(agent, i)]
    <3>1. Open(p, d)
      BY <2>7 DEF StartApprovedPlan
    <3>2. d.does = "plan"
      BY DEF Idle
    <3> HIDE DEF d
    <3>3. QED
      BY <2>3, <2>7, <3>1, <3>2 DEF Continues
  <2>8. ASSUME ~raced, NEW p \in Processes, NEW i \in DOMAIN runs, NEW t \in Tasks, NEW to \in TaskStatus,
               UpdateTask(p, i, t, to)
        PROVE  Climbing'
    <3> DEFINE d == [Idle EXCEPT !.does = "task", !.by = i, !.on = t, !.to = to,
                                 !.pc = IF to = "blocked" \/ task[t] = "blocked" THEN "alert" ELSE "commit"]
    <3>1. Open(p, d)
      BY <2>8 DEF UpdateTask
    <3>2. d.does = "task"
      BY DEF Idle
    <3> HIDE DEF d
    <3>3. QED
      BY <2>3, <2>8, <3>1, <3>2 DEF Continues
  <2>9. ASSUME ~raced, NEW p \in Processes, NEW list \in Checklists, SetTasks(p, list) PROVE Climbing'
    <3> DEFINE d == [Idle EXCEPT !.pc = "alert", !.does = "replace", !.list = list]
    <3>1. Open(p, d)
      BY <2>9 DEF SetTasks
    <3>2. d.does = "replace"
      BY DEF Idle
    <3> HIDE DEF d
    <3>3. QED
      BY <2>3, <2>9, <3>1, <3>2 DEF Continues
  <2>10. ASSUME ~raced, NEW p \in Processes, Sweep(p) PROVE Climbing'
    <3> DEFINE d == [Idle EXCEPT !.pc = "commit", !.does = IF Continued THEN "continue" ELSE "flag",
                                 !.queue = Continued]
    <3>1. Open(p, d)
      BY <2>10 DEF Sweep
    <3>2. d.does = IF Continued THEN "continue" ELSE "flag"
      BY DEF Idle
    <3> HIDE DEF d
    <3>3. Continued => Pickable
      BY DEF Continued, Pickable
    <3>4. QED
      BY <2>3, <2>10, <3>1, <3>2, <3>3 DEF Continues
  <2>11. ASSUME ~raced, NEW p \in Processes, ReplyDispatch(p) PROVE Climbing'
    <3> DEFINE e == req[p]
               d == IF Refused THEN Idle ELSE [e EXCEPT !.pc = "commit", !.queue = Queues(agent, 0)]
    <3>1. req' = [req EXCEPT ![p] = d] /\ e.pc # "idle" /\ e \in Request
      BY <2>1, <2>11 DEF ReplyDispatch
    <3>2. UNCHANGED <<order, runs, raced>>
      BY <2>11 DEF ReplyDispatch
    <3> HIDE DEF e
    <3>3. d.pc = "idle" \/ (d.does = e.does /\ d.stale = e.stale)
      BY <3>1, IdleIs DEF Request
    <3> HIDE DEF d
    <3>4. Continues(d) => Continues(e)
      BY <3>1, <3>3 DEF Continues
    <3>5. QED
      BY <1>2, <2>1, <2>11, <3>1, <3>2, <3>4, PickupsDecided DEF e
  <2>12. ASSUME ~raced, NEW p \in Processes, SettleAlert(p) PROVE Climbing'
    <3> DEFINE e == req[p]
               d == [e EXCEPT !.pc = "commit", !.alert = AlertAfter(p)]
    <3>1. req' = [req EXCEPT ![p] = d] /\ e.pc # "idle" /\ e \in Request
      BY <2>1, <2>12 DEF SettleAlert
    <3>2. UNCHANGED <<order, runs, raced>>
      BY <2>12 DEF SettleAlert
    <3> HIDE DEF e
    <3>3. d.does = e.does /\ d.stale = e.stale
      BY <3>1 DEF Request
    <3> HIDE DEF d
    <3>4. Continues(d) => Continues(e)
      BY <3>1, <3>3 DEF Continues
    <3>5. QED
      BY <1>2, <2>1, <2>12, <3>1, <3>2, <3>4, PickupsDecided DEF e
  <2>13. ASSUME ~raced, NEW p \in Processes, Commit(p) PROVE Climbing'
    BY <1>2, <2>13, CommitPickups
  <2>14. ASSUME ~raced, NEW i \in DOMAIN runs, Claim(i) \/ Park(i) \/ End(i) PROVE Climbing'
    <3>1. AtOnce /\ \E st \in LiveRunStatuses \cup {"ended"} : runs' = [runs EXCEPT ![i].status = st]
      BY <2>14 DEF Claim, Park, End, MoveRun, LiveRunStatuses
    <3>2. QED
      BY <1>2, <2>14, <3>1, AtOncePickups
  <2>15. ASSUME ~raced, (\E there \in BOOLEAN : Attach(there)) \/ Dismiss \/ Switch PROVE Climbing'
    <3>1. AtOnce /\ runs' = runs
      BY <2>15 DEF Attach, Dismiss, Switch
    <3>2. QED
      BY <1>2, <2>15, <3>1, AtOncePickups
  <2>16. CASE Next
    BY <2>16, <2>4, <2>5, <2>6, <2>7, <2>8, <2>9, <2>10, <2>11, <2>12, <2>13, <2>14, <2>15 DEF Next, Step
  <2>17. QED
    BY <1>2, <2>2, <2>16
<1>3. QED
  BY <1>1, <1>2, OrderInvariant, PTL DEF Spec

\* As long as no transaction commits what it decided on rows that have changed
\* since: one agent at most is on the order (_has_live_run), the alert says
\* what the checklist says (report_blocked, clear_blocked_alert), a reply is
\* handed to a run or said not to be (reply), and the pickups are limited, each
\* with more settled than the one before (_continued), for any number of
\* requests, agents and sweeps.
THEOREM OrderSafe ==
  ASSUME Setting PROVE Spec => []OrdersHold
<1>1. ASSUME WInv PROVE OneAgent /\ AlertIsTrue /\ ReplyHeard
  <2> DEFINE L == {i \in DOMAIN runs : runs[i].status \in LiveRunStatuses}
  <2>1. ASSUME ~raced PROVE Cardinality(L) <= 1
    <3>1. CASE L = {}
      BY <3>1, FS_EmptySet
    <3>2. CASE L # {}
      <4>1. PICK i \in L : TRUE
        BY <3>2
      <4>2. L = {i}
        BY <1>1, <2>1, <4>1 DEF WInv, Sane, OneLive
      <4> HIDE DEF L
      <4>3. Cardinality({i}) = 1
        BY FS_Singleton
      <4>4. QED
        BY <4>2, <4>3
    <3>3. QED
      BY <3>1, <3>2
  <2>2. OneAgent
    BY <2>1 DEF OneAgent
  <2>3. AlertIsTrue /\ ReplyHeard
    BY <1>1 DEF WInv, Sane, AlertIsTrue, ReplyHeard
  <2>4. QED
    BY <2>2, <2>3
<1>2. Climbing => PickupsEnd
  BY DEF Climbing
<1>3. OneAgent /\ AlertIsTrue /\ ReplyHeard /\ PickupsEnd => OrdersHold
  BY DEF OrdersHold
<1>4. QED
  BY <1>1, <1>2, <1>3, OrderInvariant, PickupsInvariant, PTL

\* Every change of status is an edge of _TRANSITIONS, unless the request that
\* made it had read an older status (set_status checks what it has read).
THEOREM StatusMoves ==
  ASSUME Setting PROVE Spec => StatusLegal
<1>1. ASSUME WInv, [Next]_vars PROVE [MovesAlongEdges]_vars
  <2>1. ASSUME NEW p \in Processes, Commit(p), ~raced PROVE MovesAlongEdges
    <3>1. req[p].pc = "commit" /\ raced' = (raced \/ req[p].stale)
          /\ status' = IF req[p].does = "status" THEN req[p].to ELSE status
      BY <2>1 DEF Commit
    <3>2. CASE req[p].stale
      BY <3>1, <3>2 DEF MovesAlongEdges
    <3>3. CASE ~req[p].stale
      <4>1. Fits(req[p])
        BY <1>1, <2>1, <3>1, <3>3 DEF WInv, Decisions
      <4>2. QED
        BY <3>1, <4>1 DEF MovesAlongEdges, Fits
    <3>4. QED
      BY <3>2, <3>3
  <2>2. CASE Next /\ status' # status
    <3>1. ~raced /\ \E p \in Processes : Commit(p)
      BY <2>2 DEF Next, Step, SetStatus, Assign, Reply, ReplyDispatch, SettleAlert, Sweep, SetTasks,
             StartApprovedPlan, UpdateTask, Open, Claim, Park, End, MoveRun, Attach, Dismiss, Switch, order
    <3>2. QED
      BY <3>1, <2>1
  <2>3. CASE status' = status
    BY <2>3 DEF MovesAlongEdges
  <2>4. QED
    BY <1>1, <2>2, <2>3 DEF vars
<1>2. QED
  BY <1>1, OrderInvariant, PTL DEF Spec, StatusLegal

\* p replaces the whole checklist, with the statuses a person gave.
Replaces(p) == Commit(p) /\ req[p].does = "replace"
ClosedByUpdate == [][ClosesWithOutput \/ \E p \in Processes : Replaces(p)]_vars

\* An order that owes a document is closed step by step only with one attached
\* (_require_evidence), races apart; set_tasks of a person is not held to it.
THEOREM ClosesOwing ==
  ASSUME Setting PROVE Spec => ClosedByUpdate
<1>1. ASSUME WInv, [Next]_vars PROVE [ClosesWithOutput \/ \E p \in Processes : Replaces(p)]_vars
  <2>1. ASSUME NEW p \in Processes, Commit(p), ~raced, ~Replaces(p) PROVE ClosesWithOutput
    <3> SUFFICES ASSUME Owes, ~raced', Outstanding' = {}, NEW t \in Tasks, task[t] # "done", task'[t] = "done"
                 PROVE  output
      BY DEF ClosesWithOutput
    <3>1. req[p].pc = "commit" /\ ~req[p].stale /\ task' = TasksOf(p) /\ req[p].does # "replace"
      BY <2>1 DEF Commit, Replaces
    <3>2. Fits(req[p])
      BY <1>1, <2>1, <3>1 DEF WInv, Decisions
    <3>3. req[p].does = "task" /\ task' = [task EXCEPT ![req[p].on] = req[p].to]
      BY <3>1 DEF TasksOf
    <3>4. task \in [Tasks -> TaskStatus] /\ req[p].on \in Tasks
      BY <1>1, <3>2, <3>3 DEF WInv, Types, Fits
    <3>5. req[p].on = t /\ req[p].to = "done"
      BY <3>3, <3>4
    <3>6. Closable(t)
      BY <3>2, <3>3, <3>5 DEF Fits
    <3>7. \A u \in Tasks : task'[u] \in {"done", "carried"}
      BY DEF Outstanding, Settled
    <3>8. \A u \in Tasks \ {t} : u \in Settled(task)
      BY <3>3, <3>4, <3>5, <3>7 DEF Settled
    <3>9. QED
      BY <3>6, <3>8 DEF Closable
  <2>2. CASE Next /\ task' # task
    <3>1. ~raced /\ \E p \in Processes : Commit(p)
      BY <2>2 DEF Next, Step, SetStatus, Assign, Reply, ReplyDispatch, SettleAlert, Sweep, SetTasks,
             StartApprovedPlan, UpdateTask, Open, Claim, Park, End, MoveRun, Attach, Dismiss, Switch, order
    <3>2. QED
      BY <3>1, <2>1
  <2>3. CASE task' = task
    BY <2>3 DEF ClosesWithOutput
  <2>4. QED
    BY <1>1, <2>2, <2>3 DEF vars
<1>2. QED
  BY <1>1, OrderInvariant, PTL DEF Spec, ClosedByUpdate

=============================================================================
