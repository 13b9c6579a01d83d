----------------------------- MODULE Questions -----------------------------
(***************************************************************************)
(* Questions between agents, and from agents to people: an author's run    *)
(* parks on one tool call that put a question to every seat of a board     *)
(* (a consult is a board of one seat), each seat's run answers it or ends  *)
(* without an answer, and any run may ask a person.                        *)
(*                                                                         *)
(* run and q are the committed rows.  A transaction keeps the status it    *)
(* has written to a row and not committed in tx[p].run and tx[p].q ("none" *)
(* is a row it has not written); those are also the row locks it has.  A   *)
(* worker's transaction lasts as long as the execution of its run, whose   *)
(* row it locks with the first heartbeat, so a worker is named by its run. *)
(* A read sees the transaction's own writes over the committed rows.       *)
(***************************************************************************)
EXTENDS Naturals

CONSTANTS
  Author,      \* the run that convenes the board
  Seats,       \* the seats of the board: their runs, and their questions
  Person,      \* a request of a person: answer or decline
  Admin,       \* a request that cancels a run
  MaxFaults    \* bound: exceptions in the execution of a run

VARIABLES run, q, tx, notice, answered, missed, faults

vars == <<run, q, tx, notice, answered, missed, faults>>

Runs == Seats \cup {Author}
Human == "human"                   \* the one question to a person
Questions == Seats \cup {Human}
Processes == Runs \cup {Person, Admin}

Terminal == {"done", "error", "cancelled"}
RunStatus == Terminal \cup {"none", "queued", "running", "waiting"}
QuestionStatus == {"none", "pending", "answered", "declined", "voided"}

\* A question row: the run that asked it is the author for a seat's question.
Question == [status : QuestionStatus, by : Runs]

\* No writes, and the transaction of a process that is not in one.
NoRun == [r \in Runs |-> "none"]
NoQuestion == [x \in Questions |-> "none"]
Idle == [pc |-> "idle", run |-> NoRun, q |-> NoQuestion, on |-> Human, saw |-> "none",
         verdict |-> "none", ends |-> "none", heard |-> FALSE]

Init ==
  /\ run = [r \in Runs |-> IF r = Author THEN "queued" ELSE "none"]
  /\ q = [x \in Questions |-> [status |-> "none", by |-> Author]]
  /\ tx = [p \in Processes |-> Idle]
  /\ notice = {}
  /\ answered = {}
  /\ missed = FALSE
  /\ faults = 0

----------------------------------------------------------------------------
(***************************************************************************)
(* PostgreSQL, READ COMMITTED: what a process sees, the rows it may write, *)
(* and a commit.                                                           *)
(***************************************************************************)
SeesRun(p, r) == IF tx[p].run[r] # "none" THEN tx[p].run[r] ELSE run[r]
SeesQ(p, x) == IF tx[p].q[x] # "none" THEN tx[p].q[x] ELSE q[x].status

HoldsRun(o, r) == tx[o].run[r] # "none"
HoldsQ(o, x) == tx[o].q[x] # "none"
FreeRun(p, r) == \A o \in Processes \ {p} : ~HoldsRun(o, r)
FreeQ(p, x) == \A o \in Processes \ {p} : ~HoldsQ(o, x)

\* The transaction of p becomes t.
Becomes(p, t) == tx' = [tx EXCEPT ![p] = t]

\* The last statements of p write these rows, and p commits.
Commit(p, runs, questions) ==
  /\ run' = [r \in Runs |-> IF runs[r] # "none" THEN runs[r] ELSE SeesRun(p, r)]
  /\ q' = [x \in Questions |->
             [q[x] EXCEPT !.status = IF questions[x] # "none" THEN questions[x] ELSE SeesQ(p, x)]]
  /\ Becomes(p, Idle)

----------------------------------------------------------------------------
(***************************************************************************)
(* A worker takes a queued run, and the run asks.                          *)
(***************************************************************************)
Claim(r) ==
  /\ run[r] = "queued" /\ tx[r].pc = "idle" /\ FreeRun(r, r)
  /\ run' = [run EXCEPT ![r] = "running"]
  /\ Becomes(r, [Idle EXCEPT !.pc = "claimed"])
  /\ UNCHANGED <<q, notice, answered, missed, faults>>

\* The first heartbeat locks the row, unless the run was cancelled meanwhile.
Begin(r) ==
  /\ tx[r].pc = "claimed" /\ FreeRun(r, r)
  /\ Becomes(r, IF run[r] = "running"
                THEN [Idle EXCEPT !.pc = "exec", !.run = [NoRun EXCEPT ![r] = "running"]] ELSE Idle)
  /\ UNCHANGED <<run, q, notice, answered, missed, faults>>

\* consult_peer and review_gate.convene: a run and a question for every seat
\* on one tool call; the author parks, and all of it commits.
Convene ==
  /\ tx[Author].pc = "exec"
  /\ \A s \in Seats : q[s].status = "none"
  /\ Commit(Author, [r \in Runs |-> IF r = Author THEN "waiting" ELSE "queued"],
            [x \in Questions |-> IF x \in Seats THEN "pending" ELSE "none"])
  /\ UNCHANGED <<notice, answered, missed, faults>>

\* ask_human: a question, a notice to the administrators, the run parks, and all
\* of it commits, with the reply of the run that resumed nobody.
AskHuman(r) ==
  /\ tx[r].pc = "exec" /\ q[Human].status = "none"
  /\ run' = [run EXCEPT ![r] = "waiting"]
  /\ q' = [x \in Questions |-> IF x = Human THEN [status |-> "pending", by |-> r]
                               ELSE [q[x] EXCEPT !.status = SeesQ(r, x)]]
  /\ notice' = notice \cup {r}
  /\ Becomes(r, Idle)
  /\ UNCHANGED <<answered, missed, faults>>

----------------------------------------------------------------------------
(***************************************************************************)
(* record_answer and decline.  The changed question is flushed before the  *)
(* asking run is read (Settle); its siblings are read next (Siblings); the *)
(* asking run is written, by primary key, last (Wake).                     *)
(***************************************************************************)
\* reply_to_peer: only a question that is still pending.
Reply(r) ==
  /\ r \in Seats /\ tx[r].pc = "exec" /\ SeesQ(r, r) = "pending"
  /\ Becomes(r, [tx[r] EXCEPT !.pc = "settle", !.on = r, !.verdict = "answered", !.heard = FALSE])
  /\ UNCHANGED <<run, q, notice, answered, missed, faults>>

\* answer_question and decline_question: a question addressed to a person.
Decide(verdict) ==
  /\ tx[Person].pc = "idle" /\ q[Human].status = "pending"
  /\ Becomes(Person, [Idle EXCEPT !.pc = "settle", !.on = Human, !.verdict = verdict])
  /\ UNCHANGED <<run, q, notice, answered, missed, faults>>

Asker(p) == q[tx[p].on].by

Settle(p) ==
  /\ tx[p].pc = "settle" /\ FreeQ(p, tx[p].on)
  /\ Becomes(p, [tx[p] EXCEPT !.pc = "siblings", !.saw = SeesRun(p, Asker(p)),
                              !.q = [@ EXCEPT ![tx[p].on] = tx[p].verdict]])
  /\ UNCHANGED <<run, q, notice, answered, missed, faults>>

\* The other questions of the same tool call.
SiblingsOf(x) == IF x = Human THEN {} ELSE Seats \ {x}

\* Mutant: a seat that declined counts as one that has not spoken.
ReadyIfAllAnswer(p) == tx[p].saw = "waiting" /\ \A x \in SiblingsOf(tx[p].on) : SeesQ(p, x) = "answered"

\* _inject_answer up to its write: the asking run waits, and no sibling is
\* pending.  An answer that resumes nobody is voided.
Ready(p) == tx[p].saw = "waiting" /\ \A x \in SiblingsOf(tx[p].on) : SeesQ(p, x) # "pending"

Siblings(p) ==
  /\ tx[p].pc = "siblings"
  /\ Becomes(p,
       IF Ready(p) THEN [tx[p] EXCEPT !.pc = "wake"]
       ELSE IF tx[p].verdict = "answered"
       THEN [tx[p] EXCEPT !.pc = "told", !.q = [@ EXCEPT ![tx[p].on] = "voided"]]
       ELSE [tx[p] EXCEPT !.pc = "told"])
  /\ missed' = (missed \/ \E x \in SiblingsOf(tx[p].on) :
                              SeesQ(p, x) = "pending" /\ ~FreeQ(p, x))
  /\ UNCHANGED <<run, q, notice, answered, faults>>

Wake(p) ==
  /\ tx[p].pc = "wake" /\ FreeRun(p, Asker(p))
  /\ Becomes(p, [tx[p] EXCEPT !.pc = "told", !.heard = TRUE,
                              !.run = [@ EXCEPT ![Asker(p)] = "queued"]])
  /\ UNCHANGED <<run, q, notice, answered, missed, faults>>

\* What follows: a reply that resumed its asker ends the run (RunFinished, which
\* _finish_terminal finalizes as done), one that did not is an ordinary tool
\* result and the run goes on; an ending run settles the questions it asked; a
\* person's request commits.
Told(p) ==
  /\ tx[p].pc = "told" /\ p # Person
  /\ Becomes(p,
       IF tx[p].ends = "none" /\ tx[p].heard
       THEN [tx[p] EXCEPT !.pc = "close", !.ends = "done", !.run = [@ EXCEPT ![p] = "done"]]
       ELSE [tx[p] EXCEPT !.pc = IF tx[p].ends # "none" THEN "close" ELSE "exec"])
  /\ UNCHANGED <<run, q, notice, answered, missed, faults>>

\* The notice is closed once the run has no question to a person left pending.
Told_Person ==
  /\ tx[Person].pc = "told"
  /\ Commit(Person, NoRun, NoQuestion)
  /\ notice' = notice \ {q[Human].by}
  /\ answered' = IF tx[Person].heard THEN answered \cup {Human} ELSE answered
  /\ UNCHANGED <<missed, faults>>

----------------------------------------------------------------------------
(***************************************************************************)
(* lifecycle.finalize_run and cancel_run: a compare-and-set of the status, *)
(* settle_for_peer_run, void_open_questions and _cancel_orphaned_consults. *)
(***************************************************************************)
\* The loop of r is over, or an exception ended it after a rollback.
Finalize(r, status) ==
  /\ \/ tx[r].pc = "exec" /\ status = "done"
     \/ tx[r].pc = "failed" /\ FreeRun(r, r) /\ status = "error"
  /\ Becomes(r,
       IF SeesRun(r, r) \in Terminal THEN Idle
       ELSE [tx[r] EXCEPT !.ends = status, !.run = [@ EXCEPT ![r] = status], !.on = r,
                          !.verdict = "declined", !.heard = FALSE,
                          !.pc = IF r \in Seats /\ SeesQ(r, r) = "pending" THEN "settle" ELSE "close"])
  /\ UNCHANGED <<run, q, notice, answered, missed, faults>>

\* The UPDATE waits for a worker that executes the run.
Cancel(r) ==
  /\ tx[Admin].pc = "idle" /\ FreeRun(Admin, r) /\ run[r] \in {"queued", "running", "waiting"}
  /\ Becomes(Admin,
       [Idle EXCEPT !.ends = "cancelled", !.run = [NoRun EXCEPT ![r] = "cancelled"], !.on = r,
                    !.verdict = "declined",
                    !.pc = IF r \in Seats /\ q[r].status = "pending" THEN "settle" ELSE "close"])
  /\ UNCHANGED <<run, q, notice, answered, missed, faults>>

\* The run that p ends.
Ending(p) == IF p = Admin THEN tx[Admin].on ELSE p

AskedBy(p, r) == {x \in Questions : q[x].by = r /\ SeesQ(p, x) = "pending"}

\* Consults whose asker has ended, unless they are running.
Orphans(p, r) ==
  IF r # Author THEN {}
  ELSE {s \in Seats : q[s].status # "none" /\ SeesRun(p, s) \in {"queued", "waiting"}}

Voided(p, r) == AskedBy(p, r) \cup UNION {AskedBy(p, s) : s \in Orphans(p, r)}

Close(p) ==
  LET r == Ending(p)
  IN /\ tx[p].pc = "close"
     /\ \A x \in Voided(p, r) : FreeQ(p, x)
     /\ \A s \in Orphans(p, r) : FreeRun(p, s)
     /\ Commit(p, [s \in Runs |-> IF s \in Orphans(p, r) THEN "cancelled" ELSE "none"],
               [x \in Questions |-> IF x \in Voided(p, r) THEN "voided" ELSE "none"])
     /\ notice' = notice \ {r}
     /\ answered' = IF tx[p].heard THEN answered \cup {tx[p].on} ELSE answered
     /\ UNCHANGED <<missed, faults>>

----------------------------------------------------------------------------
(***************************************************************************)
(* Failures.  Two transactions that wait for each other's rows: one of     *)
(* them is aborted.  A worker rolls back and finalizes its run as an error *)
(* in a new transaction.                                                   *)
(***************************************************************************)
\* The rows that the next statement of p waits for have o as their owner.
WaitsFor(p, o) ==
  CASE tx[p].pc = "settle" -> HoldsQ(o, tx[p].on)
    [] tx[p].pc = "wake" -> HoldsRun(o, Asker(p))
    [] tx[p].pc = "close" -> \/ \E x \in Voided(p, Ending(p)) : HoldsQ(o, x)
                             \/ \E s \in Orphans(p, Ending(p)) : HoldsRun(o, s)
    [] OTHER -> FALSE

RolledBack(p) == Becomes(p, IF p \in Runs THEN [Idle EXCEPT !.pc = "failed"] ELSE Idle)

Deadlock(p) ==
  /\ \E o \in Processes \ {p} : WaitsFor(p, o) /\ WaitsFor(o, p)
  /\ RolledBack(p)
  /\ UNCHANGED <<run, q, notice, answered, missed, faults>>

Exception(r) ==
  /\ tx[r].pc \in {"exec", "told"} /\ tx[r].ends = "none" /\ faults < MaxFaults
  /\ RolledBack(r)
  /\ faults' = faults + 1
  /\ UNCHANGED <<run, q, notice, answered, missed>>

----------------------------------------------------------------------------
Answering(p) == Settle(p) \/ Siblings(p) \/ Wake(p) \/ Told(p) \/ Close(p) \/ Deadlock(p)

Next ==
  \/ Convene
  \/ \E r \in Runs : \/ Claim(r) \/ Begin(r) \/ AskHuman(r) \/ Reply(r) \/ Cancel(r) \/ Exception(r)
                     \/ \E s \in {"done", "error"} : Finalize(r, s)
  \/ \E v \in {"answered", "declined"} : Decide(v)
  \/ \E p \in Processes : Answering(p)
  \/ Told_Person

Spec == Init /\ [][Next]_vars

----------------------------------------------------------------------------
Tx == [pc : {"idle", "claimed", "exec", "settle", "siblings", "wake", "told", "close", "failed"},
       run : [Runs -> RunStatus], q : [Questions -> QuestionStatus], on : Questions \cup Runs,
       saw : RunStatus, verdict : {"none", "answered", "declined"}, ends : {"none"} \cup Terminal,
       heard : BOOLEAN]

TypeOK ==
  /\ run \in [Runs -> RunStatus]
  /\ q \in [Questions -> Question]
  /\ tx \in [Processes -> Tx]
  /\ notice \subseteq Runs /\ answered \subseteq Questions
  /\ missed \in BOOLEAN /\ faults \in Nat

\* A run that has ended leaves no question of its own open, whoever ended it
\* and whatever was being answered meanwhile (void_open_questions: "a pending
\* question against a finished run is a live trap").
NoTrap == \A x \in Questions : q[x].status = "pending" => run[q[x].by] \notin Terminal

\* The board resumes its author only when every seat has spoken or ended:
\* otherwise one verdict would be delivered and the rest discarded.
BoardComplete ==
  Seats \cap answered # {} => \A x \in Seats : q[x].status # "pending"

\* A run that has ended is never queued again by an answer that was on its way.
\* Nothing guards the write of _inject_answer; it is the order of the row locks
\* (question, then run) against that of a cancellation (run, then questions).
KeepsEnded == \A r \in Runs : run[r] \in Terminal => run'[r] = run[r]
StaysEnded == [][KeepsEnded]_vars

\* The author wakes when the last reviewer reports (review_gate): with nobody in
\* a transaction, an author that waits is waiting for an open question.
Quiet == \A p \in Processes : tx[p].pc = "idle"
Stranded ==
  /\ Quiet /\ run[Author] = "waiting"
  /\ \A x \in Questions : q[x].by = Author => q[x].status # "pending"
LastReviewerWakes == ~Stranded

\* Only two seats that answered inside each other's transactions strand it.
OnlyOverlapStrands == Stranded => missed

\* A notice in the inbox asks for an answer somebody still waits for; the one
\* exception is a consult that was cancelled because its asker ended.
NoticeIsOpen ==
  \A r \in notice : \/ q[Human].by = r /\ q[Human].status = "pending"
                    \/ r \in Seats /\ run[r] = "cancelled" /\ run[Author] \in Terminal

============================================================================
