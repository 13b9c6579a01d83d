-------------------------- MODULE QuestionsProofs --------------------------
(***************************************************************************)
(* Proofs about Questions, for any number of seats and faults, about       *)
(* ReviewGate, for any boards, levels, texts and cap, and about Authoring, *)
(* for any requests that draft, publish and run versions.                  *)
(*                                                                         *)
(* The inductive invariant QInv says of every transaction in flight what   *)
(* it has written and why what it has read still holds (Formed); that no   *)
(* two have written one row (Apart); that while nobody has missed anything *)
(* only one is past its look at the other seats, and one that resumes      *)
(* nobody leaves another open question to do so (Unmissed); and how the    *)
(* committed rows of runs, questions and notices fit together (Ledger). A  *)
(* statement inside a transaction is the lemma Inside; a commit is the     *)
(* lemma Committed, which asks that it lands beside the others (Lands).    *)
(***************************************************************************)
EXTENDS Questions, ReviewGate, Authoring, FiniteSetTheorems, SequenceTheorems, TLAPS

\* The seats, the author and the two requests have names of their own.
Setting ==
  /\ Seats # {} /\ Human \notin Runs /\ Author \notin Seats
  /\ Person \notin Runs /\ Admin \notin Runs /\ Person # Admin

\* Where a transaction stands.
Resting == {"idle", "claimed", "failed"}
Settling == {"settle", "siblings", "wake", "told"}
Busy == Settling \cup {"close"}
Past == {"wake", "told", "exec", "close"}

Pending(x) == q[x].status = "pending"
Spoken(x) == q[x].status \notin {"none", "pending"}

\* The run whose execution, or whose cancellation, the transaction d of p is.
Own(p, d) == IF p = Admin THEN d.on ELSE p

\* Where each kind of process can be.
RoleOf(p, d) ==
  /\ p \in Runs => /\ d.pc \in Resting => d.run = NoRun
                   /\ d.pc \notin Resting => d.run[p] # "none" /\ run[p] = "running"
                   /\ d.pc \in Busy => d.on = p
                   /\ d.pc \in {"claimed", "failed"} => run[p] \in Terminal \cup {"running"}
                   /\ d.pc = "exec" => d.ends = "none"
  /\ p = Admin => /\ d.pc \in {"idle"} \cup Busy
                  /\ d.pc = "idle" => d.run = NoRun
                  /\ d.pc # "idle" => d.on \in Runs /\ d.run[d.on] # "none" /\ d.ends # "none"
  /\ p = Person => /\ d.pc \in {"idle"} \cup Settling
                   /\ d.on = Human /\ d.ends = "none"

\* The rows it has written: its own run, and the run it resumes.
RowsOf(p, d) ==
  /\ \A r \in Runs : d.run[r] # "none" =>
       /\ run[r] \notin Terminal \cup {"none"}
       /\ r = Own(p, d) \/ (d.heard /\ r = q[d.on].by)
       /\ d.run[r] \in Terminal => r = Own(p, d)
  /\ d.ends # "none" /\ d.pc \in Busy => d.run[Own(p, d)] \in Terminal
  /\ d.pc = "close" => d.ends # "none"

\* The question it settles.
QuestionOf(p, d) ==
  /\ d.pc \in Settling => /\ d.on \in Questions /\ d.verdict # "none" /\ q[d.on].status # "none"
                          /\ d.on = Human => p = Person
  /\ \A x \in Questions : d.q[x] # "none" =>
       /\ x = d.on /\ d.pc \in Past \cup {"siblings"}
       /\ IF x = Human THEN p = Person ELSE d.run[x] # "none"
       /\ d.q[x] # "pending" /\ q[x].status # "none"
  /\ d.pc \in {"siblings", "wake", "told"} => d.q[d.on] # "none"

\* What it has read still holds, and whom it resumes.
ReadingOf(p, d) ==
  /\ d.pc = "settle" => Pending(d.on) \/ run[q[d.on].by] \in Terminal
  /\ d.pc \in {"siblings", "wake"} =>
       IF d.saw = "waiting" THEN Pending(d.on) /\ run[q[d.on].by] = "waiting"
       ELSE run[q[d.on].by] \in Terminal
  /\ d.pc = "wake" => d.saw = "waiting"
  /\ d.pc = "wake" \/ d.heard => \A x \in SiblingsOf(d.on) : Spoken(x)
  /\ d.heard => /\ d.pc \in {"told", "close"} /\ d.on \in Questions /\ d.q[d.on] # "none"
                /\ Pending(d.on) /\ d.run[q[d.on].by] = "queued"

Formed(p, d) == RoleOf(p, d) /\ RowsOf(p, d) /\ QuestionOf(p, d) /\ ReadingOf(p, d)

\* Nobody else has a row that d writes.
RowsFree(p, d) == \A r \in Runs : d.run[r] # "none" => FreeRun(p, r)

\* An open question that d has settled: its commit is what others will see.
Closing(d, x) == d.q[x] # "none" /\ Pending(x) /\ d.pc \in Past

\* While nobody has missed anything: a transaction that resumes nobody leaves
\* another open question to do so, and no two are past their look at the seats.
Leaves(d) ==
  \A x \in Questions : Closing(d, x) /\ d.pc # "wake" /\ ~d.heard => \E y \in SiblingsOf(x) : Pending(y)
Alone(p, d) ==
  \A o \in Processes \ {p} : \A x, y \in Seats : ~(Closing(d, x) /\ Closing(tx[o], y))

\* The committed rows: a run with an open question waits; an author waits for a
\* board or for a person; a board is convened as a whole.
Ledger ==
  /\ \A x \in Questions : Pending(x) => run[q[x].by] = "waiting"
  /\ \A s \in Seats : q[s].by = Author
  /\ Pending(Human) /\ q[Human].by = Author => \A s \in Seats : ~Pending(s)
  /\ \/ \A s \in Seats : q[s].status = "none" /\ run[s] = "none"
     \/ \A s \in Seats : q[s].status # "none" /\ run[s] # "none"
  /\ run[Author] # "none"
  /\ Seats \cap answered # {} => \A s \in Seats : Spoken(s)
  /\ NoticeIsOpen
  /\ run[Author] = "waiting" /\ ~missed => \E x \in Questions : q[x].by = Author /\ Pending(x)

AllFormed == \A p \in Processes : Formed(p, tx[p])
Apart == \A p \in Processes : RowsFree(p, tx[p])
Unmissed == ~missed => \A p \in Processes : Leaves(tx[p]) /\ Alone(p, tx[p])

QInv == TypeOK /\ Ledger /\ AllFormed /\ Apart /\ Unmissed

\* The names of the setting, spelled out.
LEMMA Names ==
  ASSUME Setting
  PROVE  /\ Author \in Runs /\ Human \in Questions /\ Human \notin Seats /\ Human \notin Runs
         /\ Person \notin Runs /\ Admin \notin Runs /\ Person # Admin /\ Author \notin Questions
         /\ \A s \in Seats : s \in Runs /\ s \in Questions /\ s # Author /\ s # Human
         /\ \A x \in Questions : x \in Seats \/ x = Human
         /\ \A r \in Runs : r \in Seats \/ r = Author
         /\ \A r \in Runs : r \in Processes /\ r # Person /\ r # Admin
         /\ Person \in Processes /\ Admin \in Processes
         /\ \A p \in Processes : p \in Runs \/ p = Person \/ p = Admin
  BY DEF Setting, Runs, Questions, Processes

LEMMA IdleIsTx == Setting => Idle \in Tx
  BY Names DEF Idle, Tx, NoRun, NoQuestion, RunStatus, QuestionStatus, Terminal

\* A transaction that has written nothing.
LEMMA IdleFormed ==
  ASSUME Setting, NEW p \in Processes, NEW d, d = Idle
  PROVE  Formed(p, d) /\ RowsFree(p, d) /\ Leaves(d) /\ Alone(p, d)
<1>1. /\ d.pc = "idle" /\ d.run = NoRun /\ d.q = NoQuestion /\ d.on = Human /\ d.ends = "none" /\ ~d.heard
      /\ \A r \in Runs : d.run[r] = "none"
      /\ \A x \in Questions : d.q[x] = "none"
  BY DEF Idle, NoRun, NoQuestion
<1>2. RoleOf(p, d)
  BY <1>1, Names DEF RoleOf, Resting, Busy, Settling
<1>3. RowsOf(p, d) /\ QuestionOf(p, d) /\ ReadingOf(p, d)
  BY <1>1 DEF RowsOf, QuestionOf, ReadingOf, Busy, Settling
<1>4. RowsFree(p, d) /\ Leaves(d)
  BY <1>1 DEF RowsFree, Leaves, Closing
<1>5. Alone(p, d)
  BY <1>1, Names DEF Alone, Closing
<1> QED BY <1>2, <1>3, <1>4, <1>5 DEF Formed

\* The question a transaction has written is the one it settles, and nobody else
\* has written that one.
LEMMA Holds ==
  ASSUME Setting, QInv, NEW p \in Processes, NEW x \in Questions, HoldsQ(p, x)
  PROVE  /\ x = tx[p].on /\ tx[p].pc \in Past \cup {"siblings"}
         /\ tx[p].q[x] # "pending" /\ q[x].status # "none"
         /\ x = Human => p = Person
         /\ x \in Seats => HoldsRun(p, x)
         /\ FreeQ(p, x)
<1>1. /\ x = tx[p].on /\ tx[p].pc \in Past \cup {"siblings"}
      /\ tx[p].q[x] # "pending" /\ q[x].status # "none"
      /\ x = Human => p = Person
      /\ x \in Seats => HoldsRun(p, x)
  BY Names DEF QInv, AllFormed, Formed, QuestionOf, HoldsQ, HoldsRun
<1>2. ASSUME NEW o \in Processes \ {p}, HoldsQ(o, x)
      PROVE  FALSE
  <2>1. (x = Human => o = Person) /\ (x \in Seats => HoldsRun(o, x))
    BY <1>2, Names DEF QInv, AllFormed, Formed, QuestionOf, HoldsQ, HoldsRun
  <2>2. x \in Seats
    BY <1>1, <2>1, Names, <1>2
  <2>3. RowsFree(p, tx[p]) /\ HoldsRun(p, x) /\ HoldsRun(o, x)
    BY <1>1, <2>1, <2>2 DEF QInv, Apart
  <2> QED BY <2>2, <2>3, <1>2, Names DEF RowsFree, FreeRun, HoldsRun
<1> QED BY <1>1, <1>2 DEF FreeQ

\* The run that asked the question a transaction settles is not its own, and
\* unless it has resumed it the transaction sees its committed status.
LEMMA Asking ==
  ASSUME Setting, QInv, NEW p \in Processes, tx[p].pc \in Settling \/ tx[p].heard
  PROVE  /\ tx[p].on \in Questions /\ q[tx[p].on].status # "none"
         /\ Asker(p) \in Runs /\ Asker(p) # Own(p, tx[p])
         /\ ~tx[p].heard => tx[p].run[Asker(p)] = "none" /\ SeesRun(p, Asker(p)) = run[Asker(p)]
         /\ p # Person => tx[p].on \in Seats /\ Asker(p) = Author /\ Own(p, tx[p]) = tx[p].on
<1> DEFINE d == tx[p]
<1>1. Formed(p, d) /\ TypeOK /\ Ledger
  BY DEF QInv, AllFormed
<1>2. d.on \in Questions /\ q[d.on].status # "none" /\ d.pc \in Busy /\ (d.on = Human => p = Person)
  BY <1>1, Holds DEF Formed, QuestionOf, ReadingOf, Busy, Settling, HoldsQ
<1>3. q[d.on].by \in Runs
  BY <1>1, <1>2 DEF TypeOK, Question
<1>4. p # Person => d.on \in Seats /\ q[d.on].by = Author /\ Own(p, d) = d.on
  BY <1>1, <1>2, Names DEF Formed, RoleOf, Ledger, Own
<1>5. q[d.on].by # Own(p, d)
  BY <1>3, <1>4, Names DEF Own
<1>6. ~d.heard => d.run[q[d.on].by] = "none"
  BY <1>1, <1>3, <1>5 DEF Formed, RowsOf
<1> QED BY <1>2, <1>3, <1>4, <1>5, <1>6 DEF Asker, SeesRun

----------------------------------------------------------------------------
\* A statement inside a transaction: the committed rows stay, and p has the
\* transaction d.
LEMMA Inside ==
  ASSUME Setting, QInv, NEW p \in Processes, NEW d \in Tx, Becomes(p, d),
         run' = run, q' = q, notice' = notice, answered' = answered,
         missed' \in BOOLEAN, missed => missed', faults' \in Nat,
         Formed(p, d), RowsFree(p, d), ~missed' => Leaves(d) /\ Alone(p, d)
  PROVE  QInv'
<1>1. TypeOK /\ Ledger /\ AllFormed /\ Apart /\ Unmissed
  BY DEF QInv
<1>2. /\ tx' \in [Processes -> Tx]
      /\ tx'[p] = d
      /\ \A o \in Processes : o # p => tx'[o] = tx[o]
  BY <1>1 DEF TypeOK, Becomes
<1>3. TypeOK'
  BY <1>1, <1>2 DEF TypeOK
<1>4. Ledger'
  BY <1>1 DEF Ledger, Pending, Spoken, NoticeIsOpen
<1>5. AllFormed'
  <2> SUFFICES ASSUME NEW o \in Processes PROVE Formed(o, tx[o])'
    BY DEF AllFormed
  <2>1. Formed(o, tx'[o])
    BY <1>1, <1>2 DEF AllFormed
  <2>2. RoleOf(o, tx[o])'
    BY <2>1 DEF Formed, RoleOf
  <2>3. RowsOf(o, tx[o])'
    BY <2>1 DEF Formed, RowsOf, Own
  <2>4. QuestionOf(o, tx[o])'
    BY <2>1 DEF Formed, QuestionOf
  <2>5. ReadingOf(o, tx[o])'
    BY <2>1 DEF Formed, ReadingOf, Pending, Spoken
  <2> QED BY <2>2, <2>3, <2>4, <2>5 DEF Formed
<1>6. Apart'
  <2> SUFFICES ASSUME NEW o \in Processes, NEW e \in Processes \ {o}, NEW r \in Runs,
                      tx'[o].run[r] # "none", tx'[e].run[r] # "none"
               PROVE  FALSE
    BY DEF Apart, RowsFree, FreeRun, HoldsRun
  <2>1. CASE o = p
    BY <2>1, <1>2 DEF RowsFree, FreeRun, HoldsRun
  <2>2. CASE e = p
    BY <2>2, <1>2 DEF RowsFree, FreeRun, HoldsRun
  <2>3. CASE o # p /\ e # p
    BY <2>3, <1>1, <1>2 DEF Apart, RowsFree, FreeRun, HoldsRun
  <2> QED BY <2>1, <2>2, <2>3
<1>7. Unmissed'
  <2> SUFFICES ASSUME ~missed', NEW o \in Processes
               PROVE  Leaves(tx[o])' /\ Alone(o, tx[o])'
    BY DEF Unmissed
  <2>1. ~missed
    BY <1>1 DEF TypeOK
  <2>2. Leaves(tx'[o])
    BY <2>1, <1>1, <1>2 DEF Unmissed
  <2>3. Leaves(tx[o])'
    BY <2>2 DEF Leaves, Closing, Pending, SiblingsOf
  <2>4. ASSUME NEW e \in Processes \ {o}, NEW x \in Seats, NEW y \in Seats,
               Closing(tx'[o], x), Closing(tx'[e], y)
        PROVE  FALSE
    <3>1. CASE o = p
      BY <3>1, <2>4, <1>2 DEF Alone
    <3>2. CASE e = p
      BY <3>2, <2>4, <1>2 DEF Alone
    <3>3. CASE o # p /\ e # p
      BY <3>3, <2>1, <2>4, <1>1, <1>2 DEF Unmissed, Alone
    <3> QED BY <3>1, <3>2, <3>3
  <2>5. Alone(o, tx[o])'
    BY <2>4 DEF Alone, Closing, Pending
  <2> QED BY <2>3, <2>5
<1> QED BY <1>3, <1>4, <1>5, <1>6, <1>7 DEF QInv

\* What the rows p commits leave alone: ended runs, runs that are executed
\* elsewhere, and the rows others have written.  A question p closes is one it has
\* settled, or its asker has ended.
Lands(p) ==
  /\ tx[p].pc # "siblings"
  /\ \A r \in Runs : run[r] \in Terminal => run'[r] = run[r]
  /\ \A r \in Runs : ~FreeRun(p, r) => run'[r] = run[r]
  /\ \A r \in Runs : r # p /\ run[r] = "running" => run'[r] \in Terminal \cup {"running"}
  /\ \A x \in Questions : ~FreeQ(p, x) => q'[x] = q[x]
  /\ \A x \in Questions : q[x].status # "none" => q'[x].by = q[x].by /\ q'[x].status # "none"
  /\ \A x \in Questions : Spoken(x) => Spoken(x)'
  /\ \A x \in Questions : Pending(x) => Pending(x)' \/ HoldsQ(p, x) \/ run'[q[x].by] \in Terminal

\* A commit: nobody else's transaction is disturbed.
LEMMA Committed ==
  ASSUME Setting, QInv, NEW p \in Processes, NEW d, Becomes(p, d), missed' = missed,
         TypeOK', Ledger', Lands(p),
         d = Idle \/ (p \in Runs /\ run'[p] = "running" /\ d = [Idle EXCEPT !.pc = "claimed"])
  PROVE  QInv'
<1>1. TypeOK /\ Ledger /\ AllFormed /\ Apart /\ Unmissed
  BY DEF QInv
<1>2. /\ tx'[p] = d
      /\ \A o \in Processes : o # p => tx'[o] = tx[o]
  BY <1>1 DEF TypeOK, Becomes
<1>3. /\ \A r \in Runs : d.run[r] = "none"
      /\ \A x \in Questions : d.q[x] = "none"
      /\ d.run = NoRun /\ d.on = Human /\ d.q = NoQuestion /\ d.ends = "none" /\ ~d.heard
      /\ d.pc = "idle" \/ (p \in Runs /\ run'[p] = "running" /\ d.pc = "claimed")
  BY DEF Idle, NoRun, NoQuestion
<1>4. Formed(p, tx[p])'
  <2>1. RoleOf(p, tx[p])'
    BY <1>2, <1>3, Names DEF RoleOf, Resting, Busy, Settling
  <2>2. RowsOf(p, tx[p])' /\ QuestionOf(p, tx[p])' /\ ReadingOf(p, tx[p])'
    BY <1>2, <1>3 DEF RowsOf, QuestionOf, ReadingOf, Busy, Settling
  <2> QED BY <2>1, <2>2 DEF Formed
<1>5. ASSUME NEW o \in Processes, o # p
      PROVE  Formed(o, tx[o])'
  <2> DEFINE e == tx[o]
  <2>1. tx'[o] = e /\ RoleOf(o, e) /\ RowsOf(o, e) /\ QuestionOf(o, e) /\ ReadingOf(o, e)
    BY <1>1, <1>2, <1>5 DEF AllFormed, Formed
  <2>2. \A r \in Runs : e.run[r] # "none" => run'[r] = run[r]
    BY <1>5 DEF Lands, FreeRun, HoldsRun
  <2>3. \A x \in Questions : e.q[x] # "none" => q'[x] = q[x]
    BY <1>5 DEF Lands, FreeQ, HoldsQ
  <2>4. e.pc \in Settling \/ e.heard => /\ e.on \in Questions /\ q[e.on].status # "none"
                                        /\ q[e.on].by \in Runs /\ q'[e.on].by = q[e.on].by
    BY Asking DEF Asker, Lands
  <2>5. RoleOf(o, tx[o])'
    <3>1. o \in Runs /\ e.pc \in {"claimed", "failed"} => run'[o] \in Terminal \cup {"running"}
      BY <2>1, <1>5 DEF RoleOf, Lands
    <3>2. o \in Runs /\ e.pc \notin Resting => run'[o] = "running"
      BY <2>1, <2>2 DEF RoleOf
    <3> QED BY <2>1, <3>1, <3>2 DEF RoleOf
  <2>6. RowsOf(o, tx[o])'
    BY <2>1, <2>2, <2>4 DEF RowsOf, Own
  <2>7. QuestionOf(o, tx[o])'
    <3>1. \A x \in Questions : q[x].status # "none" => q'[x].status # "none"
      BY DEF Lands
    <3>2. e.pc \in Settling => q'[e.on].status # "none"
      BY <2>4, <3>1
    <3> QED BY <2>1, <3>1, <3>2 DEF QuestionOf
  <2>8. ReadingOf(o, tx[o])'
    <3>1. ASSUME e.pc = "settle"
          PROVE  Pending(e.on)' \/ run'[q'[e.on].by] \in Terminal
      <4>1. ~HoldsQ(p, e.on)
        <5>1. HoldsQ(p, e.on) => (e.on = Human => p = Person) /\ (e.on \in Seats => HoldsRun(p, e.on))
          BY <2>4, <3>1, Holds DEF Settling
        <5>2. (e.on = Human => o = Person) /\ (e.on \in Seats => e.run[e.on] # "none")
          BY <2>1, <3>1, <2>4, Names DEF QuestionOf, RoleOf, Settling, Resting, Busy
        <5>3. e.on \in Seats => ~HoldsRun(p, e.on)
          BY <5>2, <1>1, <1>5, Names DEF Apart, RowsFree, FreeRun
        <5> QED BY <5>1, <5>2, <5>3, <1>5, <2>4, <3>1, Names DEF Settling
      <4> QED BY <4>1, <2>1, <2>4, <3>1 DEF ReadingOf, Lands, Settling
    <3>2. ASSUME e.pc \in {"siblings", "wake"}
          PROVE  IF e.saw = "waiting" THEN Pending(e.on)' /\ run'[q'[e.on].by] = "waiting"
                 ELSE run'[q'[e.on].by] \in Terminal
      <4>1. e.on \in Questions /\ q[e.on].by \in Runs /\ q'[e.on] = q[e.on]
        BY <2>1, <2>3, <2>4, <3>2 DEF QuestionOf, Settling
      <4>2. CASE e.saw = "waiting"
        <5>1. Pending(e.on)'
          BY <4>1, <4>2, <2>1, <3>2 DEF ReadingOf, Pending
        <5>2. run'[q'[e.on].by] = "waiting"
          BY <5>1, <4>1, <2>1 DEF Ledger, Pending
        <5> QED BY <4>2, <5>1, <5>2
      <4>3. CASE e.saw # "waiting"
        BY <4>1, <4>3, <2>1, <3>2 DEF ReadingOf, Lands
      <4> QED BY <4>2, <4>3
    <3>3. e.pc = "wake" => e.saw = "waiting"
      BY <2>1 DEF ReadingOf
    <3>4. e.pc = "wake" \/ e.heard => \A x \in SiblingsOf(e.on) : Spoken(x)'
      <4>1. SiblingsOf(e.on) \subseteq Questions
        BY Names DEF SiblingsOf
      <4> QED BY <4>1, <2>1 DEF ReadingOf, Lands
    <3>5. ASSUME e.heard
          PROVE  /\ e.pc \in {"told", "close"} /\ e.on \in Questions /\ e.q[e.on] # "none"
                 /\ Pending(e.on)' /\ e.run[q'[e.on].by] = "queued"
      BY <3>5, <2>1, <2>3, <2>4 DEF ReadingOf, Pending
    <3> QED BY <2>1, <3>1, <3>2, <3>3, <3>4, <3>5 DEF ReadingOf, SiblingsOf
  <2> QED BY <2>5, <2>6, <2>7, <2>8 DEF Formed
<1>6. AllFormed'
  BY <1>4, <1>5 DEF AllFormed
<1>7. Apart'
  BY <1>1, <1>2, <1>3 DEF Apart, RowsFree, FreeRun, HoldsRun
<1>8. Unmissed'
  <2> SUFFICES ASSUME ~missed PROVE \A o \in Processes : Leaves(tx[o])' /\ Alone(o, tx[o])'
    BY DEF Unmissed
  <2>1. \A o \in Processes, x \in Questions : Closing(tx[o], x)' => o # p /\ Closing(tx[o], x)
    <3> SUFFICES ASSUME NEW o \in Processes, NEW x \in Questions, Closing(tx[o], x)'
                 PROVE  o # p /\ Closing(tx[o], x)
      OBVIOUS
    <3>1. tx'[o].q[x] # "none" /\ Pending(x)' /\ tx'[o].pc \in Past
      BY DEF Closing
    <3>2. o # p /\ tx'[o] = tx[o]
      BY <3>1, <1>2, <1>3
    <3>3. q'[x] = q[x]
      BY <3>1, <3>2 DEF Lands, FreeQ, HoldsQ
    <3> QED BY <3>1, <3>2, <3>3 DEF Closing, Pending
  <2>2. ASSUME NEW o \in Processes PROVE Leaves(tx[o])'
    <3> SUFFICES ASSUME NEW x \in Questions, Closing(tx[o], x)', tx'[o].pc # "wake", ~tx'[o].heard
                 PROVE  \E y \in SiblingsOf(x) : Pending(y)'
      BY DEF Leaves, SiblingsOf
    <3>1. o # p /\ Closing(tx[o], x) /\ tx'[o] = tx[o] /\ q'[x] = q[x] /\ Pending(x)'
      BY <2>1, <1>2, Names DEF Closing, Lands, FreeQ, HoldsQ
    <3>2. PICK y \in SiblingsOf(x) : Pending(y)
      BY <3>1, <1>1 DEF Unmissed, Leaves
    <3>3. x \in Seats /\ y \in Seats /\ y # x /\ y \in Questions
      BY <3>2, Names DEF SiblingsOf
    <3>4. ~HoldsQ(p, y)
      <4>1. HoldsQ(p, y) => tx[p].pc \in Past \cup {"siblings"}
        BY <3>3, Holds
      <4>2. HoldsQ(p, y) => Closing(tx[p], y)
        BY <4>1, <3>2 DEF Lands, Closing, HoldsQ
      <4> QED BY <4>2, <3>1, <3>3, <1>1, Names DEF Unmissed, Alone
    <3>5. run'[q[y].by] \notin Terminal
      <4>1. q[y].by = Author /\ q[x].by = Author
        BY <3>3, <1>1 DEF Ledger
      <4>2. run'[Author] = "waiting"
        BY <3>1, <3>3, <4>1 DEF Ledger
      <4> QED BY <4>1, <4>2 DEF Terminal
    <3> QED BY <3>2, <3>3, <3>4, <3>5 DEF Lands
  <2>3. ASSUME NEW o \in Processes PROVE Alone(o, tx[o])'
    <3> SUFFICES ASSUME NEW e \in Processes \ {o}, NEW x \in Seats, NEW y \in Seats,
                        Closing(tx[o], x)', Closing(tx[e], y)'
                 PROVE  FALSE
      BY DEF Alone
    <3> QED BY <2>1, <1>1, Names DEF Unmissed, Alone
  <2> QED BY <2>2, <2>3
<1> QED BY <1>6, <1>7, <1>8 DEF QInv

----------------------------------------------------------------------------
(***************************************************************************)
(* The statements of a transaction.                                        *)
(***************************************************************************)
\* A transaction that gives up everything it wrote.
LEMMA GivesUp ==
  ASSUME Setting, QInv, NEW p \in Processes, NEW d, Becomes(p, d),
         run' = run, q' = q, notice' = notice, answered' = answered, missed' = missed, faults' \in Nat,
         d = Idle \/ (p \in Runs /\ run[p] \in Terminal \cup {"running"} /\ d = [Idle EXCEPT !.pc = "failed"])
  PROVE  QInv'
<1>1. /\ \A r \in Runs : d.run[r] = "none"
      /\ \A x \in Questions : d.q[x] = "none"
      /\ d.run = NoRun /\ d.on = Human /\ d.q = NoQuestion /\ d.ends = "none" /\ ~d.heard
      /\ d.pc = "idle" \/ (p \in Runs /\ run[p] \in Terminal \cup {"running"} /\ d.pc = "failed")
  BY DEF Idle, NoRun, NoQuestion
<1>2. d \in Tx
  BY IdleIsTx DEF Tx
<1>3. RoleOf(p, d)
  BY <1>1, Names DEF RoleOf, Resting, Busy, Settling
<1>4. RowsOf(p, d) /\ QuestionOf(p, d) /\ ReadingOf(p, d)
  BY <1>1 DEF RowsOf, QuestionOf, ReadingOf, Busy, Settling
<1>5. RowsFree(p, d) /\ Leaves(d) /\ Alone(p, d)
  BY <1>1, Names DEF RowsFree, Leaves, Alone, Closing
<1>6. missed' \in BOOLEAN
  BY DEF QInv, TypeOK
<1> QED BY <1>2, <1>3, <1>4, <1>5, <1>6, Inside DEF Formed

LEMMA BeginKeeps == ASSUME Setting, QInv, NEW r \in Runs, Begin(r) PROVE QInv'
<1> DEFINE d == [Idle EXCEPT !.pc = "exec", !.run = [NoRun EXCEPT ![r] = "running"]]
<1>0. r \in Processes /\ r # Person /\ r # Admin /\ faults' \in Nat /\ missed' \in BOOLEAN
  BY Names DEF Begin, QInv, TypeOK
<1>1. CASE run[r] # "running"
  BY <1>0, <1>1, GivesUp DEF Begin
<1>2. CASE run[r] = "running"
  <2>1. /\ d.pc = "exec" /\ d.run[r] = "running"
        /\ \A s \in Runs : d.run[s] # "none" => s = r
        /\ \A x \in Questions : d.q[x] = "none"
        /\ d.ends = "none" /\ ~d.heard
    BY DEF Idle, NoRun, NoQuestion
  <2>2. d \in Tx
    BY IdleIsTx, Names DEF Tx, Idle, NoRun, RunStatus
  <2>3. Becomes(r, d) /\ FreeRun(r, r)
    BY <1>2 DEF Begin
  <2> HIDE DEF d
  <2>4. RoleOf(r, d)
    BY <1>0, <1>2, <2>1 DEF RoleOf, Resting, Busy, Settling
  <2>5. RowsOf(r, d) /\ QuestionOf(r, d) /\ ReadingOf(r, d)
    BY <1>0, <1>2, <2>1 DEF RowsOf, QuestionOf, ReadingOf, Busy, Settling, Own, Terminal
  <2>6. RowsFree(r, d) /\ Leaves(d) /\ Alone(r, d)
    BY <2>1, <2>3, Names DEF RowsFree, Leaves, Alone, Closing
  <2> QED BY <1>0, <2>2, <2>3, <2>4, <2>5, <2>6, Inside DEF Formed, Begin
<1> QED BY <1>1, <1>2

\* Outside a settlement a run holds its own row only, and the question it has
\* settled before, if any, is its own.
LEMMA Working ==
  ASSUME Setting, QInv, NEW r \in Runs, tx[r].pc \in {"exec", "failed"}
  PROVE  /\ r \in Processes /\ r # Person /\ r # Admin /\ tx[r] \in Tx
         /\ tx[r].pc = "exec" => tx[r].ends = "none"
         /\ ~tx[r].heard
         /\ \A s \in Runs : HoldsRun(r, s) => s = r
         /\ \A x \in Questions : HoldsQ(r, x) => x = r /\ x \in Seats /\ tx[r].pc = "exec" /\ tx[r].q[x] # "pending"
         /\ tx[r].pc = "exec" => HoldsRun(r, r) /\ run[r] = "running"
         /\ tx[r].pc = "failed" => run[r] \in Terminal \cup {"running"} /\ tx[r].run = NoRun /\ tx[r].q = NoQuestion
<1>1. r \in Processes /\ r # Person /\ r # Admin /\ tx[r] \in Tx /\ Formed(r, tx[r])
  BY Names DEF QInv, TypeOK, AllFormed
<1>2. ~tx[r].heard
  BY <1>1 DEF Formed, ReadingOf
<1>3. \A s \in Runs : HoldsRun(r, s) => s = r
  BY <1>1, <1>2 DEF Formed, RowsOf, HoldsRun, Own
<1>4. \A x \in Questions : HoldsQ(r, x) => x = r /\ x \in Seats /\ tx[r].pc = "exec" /\ tx[r].q[x] # "pending"
  BY <1>1, <1>3, Holds, Names DEF Past
<1>5. tx[r].pc = "failed" => tx[r].q = NoQuestion
  BY <1>1, <1>4 DEF Tx, NoQuestion, HoldsQ
<1> QED BY <1>1, <1>2, <1>3, <1>4, <1>5 DEF Formed, RoleOf, Resting, HoldsRun

\* A transaction that closes no more than it did stays apart from the others.
LEMMA StillAlone ==
  ASSUME Setting, QInv, ~missed, NEW p \in Processes, NEW d,
         \A x \in Seats : Closing(d, x) => Closing(tx[p], x)
  PROVE  Alone(p, d)
  BY Names DEF QInv, Unmissed, Alone

LEMMA ReplyKeeps == ASSUME Setting, QInv, NEW r \in Runs, Reply(r) PROVE QInv'
<1> DEFINE d == [tx[r] EXCEPT !.pc = "settle", !.on = r, !.verdict = "answered", !.heard = FALSE]
<1>1. /\ r \in Processes /\ r # Person /\ r # Admin /\ r \in Seats /\ r \in Questions /\ r # Human
      /\ tx[r].pc = "exec" /\ tx[r] \in Tx
      /\ faults' \in Nat /\ missed' \in BOOLEAN /\ missed' = missed
  BY Working, Names DEF Reply, QInv, TypeOK
<1>2. Pending(r) /\ tx[r].q = NoQuestion
  <2>1. ~HoldsQ(r, r)
    BY <1>1, Working DEF Reply, SeesQ, HoldsQ
  <2>2. \A x \in Questions : tx[r].q[x] = "none"
    BY <1>1, <2>1, Working DEF HoldsQ
  <2> QED BY <1>1, <2>1, <2>2 DEF Reply, SeesQ, HoldsQ, Pending, Tx, NoQuestion
<1>3. /\ d.pc = "settle" /\ d.on = r /\ d.verdict = "answered" /\ d.heard = FALSE
      /\ d.run = tx[r].run /\ d.q = NoQuestion /\ d.ends = "none" /\ d \in Tx
  BY <1>1, <1>2, Working DEF Tx
<1>4. \A x \in Questions : d.q[x] = "none"
  BY <1>3 DEF NoQuestion
<1>5. Becomes(r, d)
  BY DEF Reply
<1> HIDE DEF d
<1>6. RoleOf(r, d)
  BY <1>1, <1>3, Working DEF RoleOf, Resting, HoldsRun
<1>7. RowsOf(r, d)
  <2>1. RowsOf(r, tx[r]) /\ ~tx[r].heard
    BY <1>1, Working DEF QInv, AllFormed, Formed
  <2> QED BY <2>1, <1>1, <1>3 DEF RowsOf, Own
<1>8. QuestionOf(r, d)
  BY <1>1, <1>2, <1>3, <1>4 DEF QuestionOf, Pending
<1>9. ReadingOf(r, d)
  BY <1>2, <1>3 DEF ReadingOf
<1>10. RowsFree(r, d) /\ Leaves(d) /\ Alone(r, d)
  BY <1>1, <1>3, <1>4, Names DEF RowsFree, Leaves, Alone, Closing, QInv, Apart
<1> QED BY <1>1, <1>3, <1>5, <1>6, <1>7, <1>8, <1>9, <1>10, Inside DEF Formed, Reply

LEMMA DecideKeeps == ASSUME Setting, QInv, NEW v \in {"answered", "declined"}, Decide(v) PROVE QInv'
<1> DEFINE d == [Idle EXCEPT !.pc = "settle", !.on = Human, !.verdict = v]
<1>1. Pending(Human) /\ faults' \in Nat /\ missed' \in BOOLEAN /\ Becomes(Person, d)
  BY DEF Decide, Pending, QInv, TypeOK
<1>2. /\ d.pc = "settle" /\ d.on = Human /\ d.verdict = v /\ ~d.heard
      /\ \A r \in Runs : d.run[r] = "none"
      /\ \A x \in Questions : d.q[x] = "none"
      /\ d.q = NoQuestion /\ d.ends = "none"
  BY DEF Idle, NoRun, NoQuestion
<1>3. d \in Tx
  BY IdleIsTx, Names DEF Tx, Idle
<1> HIDE DEF d
<1>4. RoleOf(Person, d)
  BY <1>2, Names DEF RoleOf, Settling
<1>5. RowsOf(Person, d) /\ QuestionOf(Person, d) /\ ReadingOf(Person, d)
  BY <1>1, <1>2, Names DEF RowsOf, QuestionOf, ReadingOf, Pending
<1>6. RowsFree(Person, d) /\ Leaves(d) /\ Alone(Person, d)
  BY <1>2, Names DEF RowsFree, Leaves, Alone, Closing
<1> QED BY <1>1, <1>3, <1>4, <1>5, <1>6, Names, Inside DEF Formed, Decide

LEMMA FinalizeKeeps ==
  ASSUME Setting, QInv, NEW r \in Runs, NEW s \in {"done", "error"}, Finalize(r, s) PROVE QInv'
<1> DEFINE d == [tx[r] EXCEPT !.ends = s, !.run = [@ EXCEPT ![r] = s], !.on = r, !.verdict = "declined",
                   !.heard = FALSE, !.pc = IF r \in Seats /\ SeesQ(r, r) = "pending" THEN "settle" ELSE "close"]
<1>1. /\ r \in Processes /\ r # Person /\ r # Admin /\ tx[r] \in Tx /\ tx[r].pc \in {"exec", "failed"}
      /\ faults' \in Nat /\ missed' \in BOOLEAN /\ missed' = missed
  BY Names DEF Finalize, QInv, TypeOK
<1>2. CASE SeesRun(r, r) \in Terminal
  BY <1>1, <1>2, GivesUp DEF Finalize
<1>3. CASE SeesRun(r, r) \notin Terminal
  <2>1. run[r] = "running"
    BY <1>1, <1>3, Working DEF SeesRun, NoRun
  <2>2. /\ d.pc \in {"settle", "close"} /\ d.on = r /\ d.verdict = "declined" /\ d.heard = FALSE /\ d.ends = s
        /\ d.run = [tx[r].run EXCEPT ![r] = s] /\ d.q = tx[r].q
        /\ d.pc = "settle" => r \in Seats /\ SeesQ(r, r) = "pending"
    BY <1>1 DEF Tx
  <2>3. d \in Tx
    <3>1. s \in RunStatus /\ s \in {"none"} \cup Terminal
      BY DEF RunStatus, Terminal
    <3>2. [tx[r].run EXCEPT ![r] = s] \in [Runs -> RunStatus]
      BY <1>1, <3>1 DEF Tx
    <3> QED BY <1>1, <3>1, <3>2 DEF Tx
  <2>4. d.run[r] = s /\ \A z \in Runs : d.run[z] # "none" => z = r
    BY <1>1, <2>2, Working DEF Tx, HoldsRun
  <2>5. Becomes(r, d)
    BY <1>3 DEF Finalize
  <2> HIDE DEF d
  <2>6. d.pc = "settle" => Pending(r) /\ d.q = NoQuestion
    <3> SUFFICES ASSUME d.pc = "settle" PROVE Pending(r) /\ tx[r].q = NoQuestion
      BY <2>2
    <3>1. r \in Questions /\ ~HoldsQ(r, r)
      BY <1>1, <2>2, Working, Names DEF SeesQ, HoldsQ
    <3>2. \A x \in Questions : tx[r].q[x] = "none"
      BY <1>1, <3>1, Working DEF HoldsQ
    <3> QED BY <1>1, <2>2, <3>1, <3>2 DEF SeesQ, HoldsQ, Pending, Tx, NoQuestion
  <2>7. FreeRun(r, r)
    BY <1>1, Working DEF Finalize, QInv, Apart, RowsFree, HoldsRun
  <2>8. RoleOf(r, d)
    BY <1>1, <2>1, <2>2, <2>4 DEF RoleOf, Resting
  <2>9. RowsOf(r, d)
    BY <1>1, <2>1, <2>2, <2>4 DEF RowsOf, Own, Terminal
  <2>10. QuestionOf(r, d)
    <3>1. \A x \in Questions : d.q[x] # "none" =>
            /\ x = r /\ x # Human /\ d.pc = "close" /\ d.q[x] # "pending" /\ q[x].status # "none"
      BY <1>1, <2>2, <2>6, Working, Holds, Names DEF HoldsQ, NoQuestion
    <3>2. d.pc = "settle" => r \in Questions /\ q[r].status # "none" /\ r # Human
      BY <2>2, <2>6, Names DEF Pending
    <3> QED BY <2>2, <2>4, <2>6, <3>1, <3>2 DEF QuestionOf, Settling, Past
  <2>11. ReadingOf(r, d)
    BY <2>2, <2>6 DEF ReadingOf
  <2>12. RowsFree(r, d)
    BY <2>4, <2>7 DEF RowsFree
  <2>13. \A x \in Questions : Closing(d, x) => Closing(tx[r], x) /\ tx[r].pc = "exec" /\ ~tx[r].heard
    BY <1>1, <2>2, Working DEF Closing, HoldsQ, Past
  <2>14. ~missed => Leaves(d) /\ Alone(r, d)
    BY <1>1, <2>13, StillAlone, Names DEF QInv, Unmissed, Leaves
  <2> QED BY <1>1, <2>3, <2>5, <2>8, <2>9, <2>10, <2>11, <2>12, <2>14, Inside DEF Formed, Finalize
<1> QED BY <1>2, <1>3

LEMMA CancelKeeps == ASSUME Setting, QInv, NEW r \in Runs, Cancel(r) PROVE QInv'
<1> DEFINE d == [Idle EXCEPT !.ends = "cancelled", !.run = [NoRun EXCEPT ![r] = "cancelled"], !.on = r,
                   !.verdict = "declined", !.pc = IF r \in Seats /\ q[r].status = "pending" THEN "settle" ELSE "close"]
<1>1. /\ faults' \in Nat /\ missed' \in BOOLEAN /\ Becomes(Admin, d) /\ FreeRun(Admin, r)
      /\ run[r] \in {"queued", "running", "waiting"}
  BY DEF Cancel, QInv, TypeOK
<1>2. /\ d.pc \in {"settle", "close"} /\ d.on = r /\ d.verdict = "declined" /\ ~d.heard /\ d.ends = "cancelled"
      /\ d.run[r] = "cancelled"
      /\ \A z \in Runs : d.run[z] # "none" => z = r
      /\ \A x \in Questions : d.q[x] = "none"
      /\ d.q = NoQuestion
      /\ d.pc = "settle" => r \in Seats /\ Pending(r)
  BY DEF Idle, NoRun, NoQuestion, Pending
<1>3. d \in Tx
  BY IdleIsTx, Names DEF Tx, Idle, NoRun, RunStatus, Terminal
<1> HIDE DEF d
<1>4. RoleOf(Admin, d)
  BY <1>2, Names DEF RoleOf, Busy, Settling
<1>5. RowsOf(Admin, d)
  BY <1>1, <1>2 DEF RowsOf, Own, Terminal
<1>6. QuestionOf(Admin, d)
  BY <1>2, Names DEF QuestionOf, Pending, Settling
<1>7. ReadingOf(Admin, d)
  BY <1>2 DEF ReadingOf
<1>8. RowsFree(Admin, d) /\ Leaves(d) /\ Alone(Admin, d)
  BY <1>1, <1>2, Names DEF RowsFree, Leaves, Alone, Closing
<1> QED BY <1>1, <1>3, <1>4, <1>5, <1>6, <1>7, <1>8, Names, Inside DEF Formed, Cancel

LEMMA SettleKeeps == ASSUME Setting, QInv, NEW p \in Processes, Settle(p) PROVE QInv'
<1> DEFINE d == [tx[p] EXCEPT !.pc = "siblings", !.saw = SeesRun(p, Asker(p)),
                              !.q = [@ EXCEPT ![tx[p].on] = tx[p].verdict]]
           x == tx[p].on
<1>1. /\ faults' \in Nat /\ missed' \in BOOLEAN /\ Becomes(p, d) /\ FreeQ(p, x)
      /\ tx[p].pc = "settle" /\ tx[p] \in Tx /\ missed' = missed
      /\ RoleOf(p, tx[p]) /\ RowsOf(p, tx[p]) /\ QuestionOf(p, tx[p]) /\ ReadingOf(p, tx[p])
  BY DEF Settle, QInv, TypeOK, AllFormed, Formed
<1>2. /\ x \in Questions /\ q[x].status # "none" /\ (x = Human => p = Person)
      /\ tx[p].verdict \in {"answered", "declined"} /\ tx[p].q = NoQuestion /\ ~tx[p].heard
  <2>1. \A y \in Questions : tx[p].q[y] = "none"
    BY <1>1 DEF QuestionOf, Past
  <2>2. tx[p].q = NoQuestion
    BY <1>1, <2>1 DEF NoQuestion, Tx
  <2> QED BY <1>1, <2>2 DEF QuestionOf, ReadingOf, Settling, Tx
<1>3. /\ Asker(p) \in Runs /\ Asker(p) = q[x].by /\ SeesRun(p, Asker(p)) = run[Asker(p)]
      /\ p # Person => x \in Seats /\ Own(p, tx[p]) = x
  BY <1>1, <1>2, Asking DEF Settling, Asker
<1>4. /\ d.pc = "siblings" /\ d.on = x /\ d.verdict = tx[p].verdict /\ d.run = tx[p].run /\ d.ends = tx[p].ends
      /\ ~d.heard /\ d.saw = run[q[x].by]
      /\ d.q[x] = tx[p].verdict
      /\ \A y \in Questions : d.q[y] # "none" => y = x
  BY <1>1, <1>2, <1>3 DEF Tx, NoQuestion
<1>5. d \in Tx
  <2>1. [tx[p].q EXCEPT ![x] = tx[p].verdict] \in [Questions -> QuestionStatus]
    BY <1>1, <1>2 DEF Tx, QuestionStatus
  <2>2. run[Asker(p)] \in RunStatus
    BY <1>3 DEF QInv, TypeOK
  <2> QED BY <1>1, <1>3, <2>1, <2>2 DEF Tx
<1> HIDE DEF d
<1>6. RoleOf(p, d)
  BY <1>1, <1>4 DEF RoleOf, Resting, Busy, Settling
<1>7. RowsOf(p, d)
  BY <1>1, <1>2, <1>4 DEF RowsOf, Own, Busy, Settling
<1>8. QuestionOf(p, d)
  <2>1. x # Human => d.run[x] # "none"
    BY <1>1, <1>2, <1>3, <1>4, Names DEF RowsOf, RoleOf, Own, Resting, Busy, Settling
  <2> QED BY <1>1, <1>2, <1>4, <2>1 DEF QuestionOf
<1>9. ReadingOf(p, d)
  <2>1. IF d.saw = "waiting" THEN Pending(x) /\ run[q[x].by] = "waiting" ELSE run[q[x].by] \in Terminal
    BY <1>1, <1>2, <1>4 DEF ReadingOf, QInv, Ledger, Terminal
  <2> QED BY <1>4, <2>1 DEF ReadingOf
<1>10. RowsFree(p, d) /\ Leaves(d) /\ Alone(p, d)
  BY <1>4, Names DEF RowsFree, Leaves, Alone, Closing, Past, QInv, Apart
<1> QED BY <1>1, <1>5, <1>6, <1>7, <1>8, <1>9, <1>10, Inside DEF Formed, Settle

LEMMA SiblingsKeeps == ASSUME Setting, QInv, NEW p \in Processes, Siblings(p) PROVE QInv'
<1> DEFINE x == tx[p].on
           d == IF Ready(p) THEN [tx[p] EXCEPT !.pc = "wake"]
                ELSE IF tx[p].verdict = "answered"
                THEN [tx[p] EXCEPT !.pc = "told", !.q = [@ EXCEPT ![tx[p].on] = "voided"]]
                ELSE [tx[p] EXCEPT !.pc = "told"]
<1>1. /\ faults' \in Nat /\ missed' \in BOOLEAN /\ Becomes(p, d)
      /\ missed => missed'
      /\ \A y \in SiblingsOf(x) : SeesQ(p, y) = "pending" /\ ~FreeQ(p, y) => missed'
      /\ tx[p].pc = "siblings" /\ tx[p] \in Tx
      /\ RoleOf(p, tx[p]) /\ RowsOf(p, tx[p]) /\ QuestionOf(p, tx[p]) /\ ReadingOf(p, tx[p])
  BY DEF Siblings, QInv, TypeOK, AllFormed, Formed
<1>2. /\ x \in Questions /\ q[x].status # "none" /\ (x = Human => p = Person) /\ tx[p].verdict # "none"
      /\ tx[p].q[x] # "none" /\ ~tx[p].heard /\ q[x].by \in Runs
      /\ \A y \in Questions : tx[p].q[y] # "none" => y = x
  BY <1>1, Asking DEF QuestionOf, ReadingOf, Settling, Asker
<1>3. /\ d.pc \in {"wake", "told"} /\ d.on = x /\ d.verdict = tx[p].verdict /\ d.run = tx[p].run
      /\ d.ends = tx[p].ends /\ ~d.heard /\ d.saw = tx[p].saw
      /\ d.pc = "wake" <=> Ready(p)
      /\ d.q[x] \notin {"none", "pending"}
      /\ \A y \in Questions : y # x => d.q[y] = "none"
  BY <1>1, <1>2 DEF Tx, QuestionOf
<1>4. d \in Tx
  <2>1. [tx[p].q EXCEPT ![x] = "voided"] \in [Questions -> QuestionStatus]
    BY <1>1, <1>2 DEF Tx, QuestionStatus
  <2> QED BY <1>1, <2>1 DEF Tx
<1> HIDE DEF d
<1>5. \A y \in SiblingsOf(x) : y \in Seats /\ y \in Questions /\ y # x /\ x \in Seats
                                /\ SeesQ(p, y) = q[y].status /\ q[y].status # "none"
  <2> SUFFICES ASSUME NEW y \in SiblingsOf(x)
               PROVE  y \in Seats /\ y \in Questions /\ y # x /\ x \in Seats
                      /\ SeesQ(p, y) = q[y].status /\ q[y].status # "none"
    OBVIOUS
  <2>1. y \in Seats /\ y \in Questions /\ y # x /\ x \in Seats
    BY <1>2, Names DEF SiblingsOf
  <2> QED BY <2>1, <1>2 DEF SeesQ, QInv, Ledger
<1>6. RoleOf(p, d)
  BY <1>1, <1>3 DEF RoleOf, Resting, Busy, Settling
<1>7. RowsOf(p, d)
  BY <1>1, <1>2, <1>3 DEF RowsOf, Own, Busy, Settling
<1>8. QuestionOf(p, d)
  BY <1>1, <1>2, <1>3 DEF QuestionOf, Settling, Past
<1>9. ReadingOf(p, d)
  <2>1. d.pc = "wake" => d.saw = "waiting" /\ \A y \in SiblingsOf(x) : Spoken(y)
    BY <1>3, <1>5 DEF Ready, Spoken
  <2>2. IF d.saw = "waiting" THEN Pending(x) /\ run[q[x].by] = "waiting" ELSE run[q[x].by] \in Terminal
    BY <1>1, <1>3 DEF ReadingOf
  <2> QED BY <1>3, <2>1, <2>2 DEF ReadingOf
<1>10. RowsFree(p, d)
  BY <1>3 DEF RowsFree, QInv, Apart
<1>11. ASSUME ~missed' PROVE Leaves(d) /\ Alone(p, d)
  <2>1. Leaves(d)
    <3> SUFFICES ASSUME NEW y \in Questions, Closing(d, y), d.pc # "wake"
                 PROVE  \E z \in SiblingsOf(y) : Pending(z)
      BY DEF Leaves
    <3>1. y = x /\ Pending(x) /\ ~Ready(p)
      BY <1>3 DEF Closing
    <3>2. run[q[x].by] = "waiting"
      BY <1>2, <3>1 DEF QInv, Ledger
    <3>3. tx[p].saw = "waiting"
      BY <1>1, <3>2 DEF ReadingOf, Terminal
    <3> QED BY <3>1, <3>3, <1>5 DEF Ready, Pending
  <2>2. Alone(p, d)
    <3> SUFFICES ASSUME NEW o \in Processes \ {p}, NEW y \in Seats, NEW z \in Seats,
                        Closing(d, y), Closing(tx[o], z)
                 PROVE  FALSE
      BY DEF Alone
    <3>1. y = x /\ z \in Questions /\ HoldsQ(o, z) /\ Pending(z)
      BY <1>3, Names DEF Closing, HoldsQ
    <3>2. z # x
      <4>1. HoldsQ(p, x)
        BY <1>2 DEF HoldsQ
      <4> QED BY <1>2, <4>1, <3>1, Holds DEF FreeQ
    <3>3. z \in SiblingsOf(x) /\ ~FreeQ(p, z)
      BY <3>1, <3>2, Names DEF SiblingsOf, FreeQ
    <3> QED BY <3>1, <3>3, <1>1, <1>5, <1>11 DEF Pending
  <2> QED BY <2>1, <2>2
<1> QED BY <1>1, <1>4, <1>6, <1>7, <1>8, <1>9, <1>10, <1>11, Inside DEF Formed, Siblings

LEMMA WakeKeeps == ASSUME Setting, QInv, NEW p \in Processes, Wake(p) PROVE QInv'
<1> DEFINE x == tx[p].on
           d == [tx[p] EXCEPT !.pc = "told", !.heard = TRUE, !.run = [@ EXCEPT ![Asker(p)] = "queued"]]
<1>1. /\ faults' \in Nat /\ missed' \in BOOLEAN /\ Becomes(p, d) /\ missed' = missed
      /\ FreeRun(p, Asker(p)) /\ tx[p].pc = "wake" /\ tx[p] \in Tx
      /\ RoleOf(p, tx[p]) /\ RowsOf(p, tx[p]) /\ QuestionOf(p, tx[p]) /\ ReadingOf(p, tx[p])
  BY DEF Wake, QInv, TypeOK, AllFormed, Formed
<1>2. /\ x \in Questions /\ ~tx[p].heard /\ tx[p].q[x] # "none"
      /\ Asker(p) \in Runs /\ Asker(p) = q[x].by /\ Asker(p) # Own(p, tx[p])
      /\ Pending(x) /\ run[Asker(p)] = "waiting" /\ \A y \in SiblingsOf(x) : Spoken(y)
  BY <1>1, Asking DEF QuestionOf, ReadingOf, Settling, Asker
<1>3. /\ d.pc = "told" /\ d.on = x /\ d.verdict = tx[p].verdict /\ d.ends = tx[p].ends
      /\ d.heard = TRUE /\ d.saw = tx[p].saw /\ d.q = tx[p].q
      /\ d.run[Asker(p)] = "queued"
      /\ \A r \in Runs : r # Asker(p) => d.run[r] = tx[p].run[r]
  BY <1>1, <1>2 DEF Tx
<1>4. d \in Tx
  <2>1. [tx[p].run EXCEPT ![Asker(p)] = "queued"] \in [Runs -> RunStatus]
    BY <1>1, <1>2 DEF Tx, RunStatus
  <2> QED BY <1>1, <2>1 DEF Tx
<1> HIDE DEF d
<1>5. RoleOf(p, d)
  BY <1>1, <1>2, <1>3, Names DEF RoleOf, Resting, Busy, Settling, Own
<1>6. RowsOf(p, d)
  <2>1. ASSUME NEW r \in Runs, d.run[r] # "none"
        PROVE  /\ run[r] \notin Terminal \cup {"none"}
               /\ r = Own(p, d) \/ (d.heard /\ r = q[d.on].by)
               /\ d.run[r] \in Terminal => r = Own(p, d)
    BY <2>1, <1>1, <1>2, <1>3 DEF RowsOf, Own, Terminal
  <2>2. d.ends # "none" => d.run[Own(p, d)] \in Terminal
    <3>1. Own(p, d) = Own(p, tx[p])
      BY <1>3 DEF Own
    <3>2. Own(p, d) \in Runs \/ d.ends = "none"
      BY <1>1, <1>3, Names DEF RoleOf, Own, Resting
    <3> QED BY <1>1, <1>2, <1>3, <3>1, <3>2 DEF RowsOf, Busy, Settling
  <2> QED BY <1>3, <2>1, <2>2 DEF RowsOf
<1>7. QuestionOf(p, d)
  <2>1. \A y \in Questions : y \in Seats /\ d.q[y] # "none" => d.run[y] # "none"
    BY <1>1, <1>2, <1>3, Names DEF QuestionOf
  <2> QED BY <1>1, <1>2, <1>3, <2>1, Names DEF QuestionOf, Settling, Past
<1>8. ReadingOf(p, d)
  BY <1>2, <1>3 DEF ReadingOf
<1>9. RowsFree(p, d)
  BY <1>1, <1>3 DEF RowsFree, QInv, Apart
<1>10. \A y \in Questions : Closing(d, y) => Closing(tx[p], y)
  BY <1>1, <1>3 DEF Closing, Past
<1>11. ~missed => Leaves(d) /\ Alone(p, d)
  BY <1>3, <1>10, StillAlone, Names DEF Leaves
<1> QED BY <1>1, <1>4, <1>5, <1>6, <1>7, <1>8, <1>9, <1>11, Inside DEF Formed, Wake

LEMMA ToldKeeps == ASSUME Setting, QInv, NEW p \in Processes, Told(p) PROVE QInv'
<1> DEFINE x == tx[p].on
           d == IF tx[p].ends = "none" /\ tx[p].heard
                THEN [tx[p] EXCEPT !.pc = "close", !.ends = "done", !.run = [@ EXCEPT ![p] = "done"]]
                ELSE [tx[p] EXCEPT !.pc = IF tx[p].ends # "none" THEN "close" ELSE "exec"]
<1>1. /\ faults' \in Nat /\ missed' \in BOOLEAN /\ Becomes(p, d) /\ missed' = missed
      /\ tx[p].pc = "told" /\ tx[p] \in Tx /\ p # Person
      /\ RoleOf(p, tx[p]) /\ RowsOf(p, tx[p]) /\ QuestionOf(p, tx[p]) /\ ReadingOf(p, tx[p])
      /\ RowsFree(p, tx[p])
  BY DEF Told, QInv, TypeOK, AllFormed, Formed, Apart
<1>2. /\ x \in Questions /\ tx[p].q[x] # "none"
      /\ q[x].by \in Runs /\ q[x].by # Own(p, tx[p]) /\ Own(p, tx[p]) = x
  BY <1>1, Asking DEF QuestionOf, Settling, Asker
<1>3. p \in Runs \/ (p = Admin /\ tx[p].ends # "none")
  BY <1>1, Names DEF RoleOf
<1>4. Own(p, tx[p]) \in Runs
  BY <1>1, <1>3, Names DEF RoleOf, Own
<1>5. CASE tx[p].ends = "none" /\ tx[p].heard
  <2>1. p \in Runs /\ p # Admin /\ Own(p, tx[p]) = p
    BY <1>3, <1>5, Names DEF Own
  <2>2. /\ d.pc = "close" /\ d.on = x /\ d.verdict = tx[p].verdict /\ d.ends = "done"
        /\ d.heard = tx[p].heard /\ d.saw = tx[p].saw /\ d.q = tx[p].q
        /\ d.run[p] = "done"
        /\ \A r \in Runs : r # p => d.run[r] = tx[p].run[r]
    BY <1>1, <1>5, <2>1 DEF Tx
  <2>3. d \in Tx
    <3>1. [tx[p].run EXCEPT ![p] = "done"] \in [Runs -> RunStatus]
      BY <1>1, <2>1 DEF Tx, RunStatus, Terminal
    <3> QED BY <1>1, <1>5, <3>1 DEF Tx, Terminal
  <2> HIDE DEF d
  <2>4. RoleOf(p, d)
    BY <1>1, <2>1, <2>2, Names DEF RoleOf, Resting, Busy, Settling
  <2>5. RowsOf(p, d)
    BY <1>1, <2>1, <2>2 DEF RowsOf, RoleOf, Own, Terminal, Resting
  <2>6. QuestionOf(p, d)
    <3>1. \A y \in Questions : d.q[y] # "none" /\ y # Human => d.run[y] # "none"
      BY <1>1, <2>1, <2>2, Names DEF QuestionOf
    <3> QED BY <1>1, <2>2, <3>1 DEF QuestionOf, Settling, Past
  <2>7. ReadingOf(p, d)
    BY <1>1, <1>2, <2>1, <2>2 DEF ReadingOf
  <2>8. RowsFree(p, d)
    BY <1>1, <2>1, <2>2 DEF RowsFree, RoleOf, Resting
  <2>9. \A y \in Questions : Closing(d, y) => Closing(tx[p], y)
    BY <1>1, <2>2 DEF Closing, Past
  <2>10. ~missed => Leaves(d) /\ Alone(p, d)
    BY <1>5, <2>2, <2>9, StillAlone, Names DEF Leaves
  <2> QED BY <1>1, <2>3, <2>4, <2>5, <2>6, <2>7, <2>8, <2>10, Inside DEF Formed, Told
<1>6. CASE ~(tx[p].ends = "none" /\ tx[p].heard)
  <2>1. /\ d.pc = (IF tx[p].ends # "none" THEN "close" ELSE "exec")
        /\ d.on = x /\ d.verdict = tx[p].verdict /\ d.ends = tx[p].ends /\ d.run = tx[p].run
        /\ d.heard = tx[p].heard /\ d.saw = tx[p].saw /\ d.q = tx[p].q
        /\ d \in Tx
    BY <1>1, <1>6 DEF Tx
  <2>2. tx[p].ends = "none" => p \in Runs /\ p # Admin /\ ~tx[p].heard
    BY <1>3, <1>6, Names
  <2> HIDE DEF d
  <2>3. RoleOf(p, d)
    BY <1>1, <2>1, <2>2, Names DEF RoleOf, Resting, Busy, Settling
  <2>4. RowsOf(p, d)
    BY <1>1, <2>1, <2>2 DEF RowsOf, Own, Busy, Settling
  <2>5. QuestionOf(p, d)
    BY <1>1, <2>1 DEF QuestionOf, Settling, Past
  <2>6. ReadingOf(p, d)
    BY <1>1, <2>1, <2>2 DEF ReadingOf
  <2>7. RowsFree(p, d)
    BY <1>1, <2>1 DEF RowsFree
  <2>8. \A y \in Questions : Closing(d, y) => Closing(tx[p], y)
    BY <1>1, <2>1 DEF Closing, Past
  <2>9. ~missed => Leaves(d) /\ Alone(p, d)
    BY <1>1, <2>1, <2>8, StillAlone, Names DEF QInv, Unmissed, Leaves
  <2> QED BY <1>1, <2>1, <2>3, <2>4, <2>5, <2>6, <2>7, <2>9, Inside DEF Formed, Told
<1> QED BY <1>5, <1>6

\* A worker whose transaction was rolled back finalizes its run.
LEMMA RollsBack ==
  ASSUME Setting, QInv, NEW p \in Processes, RolledBack(p),
         p \in Runs => tx[p].pc \notin Resting,
         run' = run, q' = q, notice' = notice, answered' = answered, missed' = missed, faults' \in Nat
  PROVE  QInv'
<1>1. p \in Runs => run[p] = "running"
  BY DEF QInv, AllFormed, Formed, RoleOf
<1> QED BY <1>1, GivesUp DEF RolledBack

LEMMA DeadlockKeeps == ASSUME Setting, QInv, NEW p \in Processes, Deadlock(p) PROVE QInv'
<1>1. tx[p].pc \in {"settle", "wake", "close"}
  BY DEF Deadlock, WaitsFor
<1>2. faults' \in Nat
  BY DEF Deadlock, QInv, TypeOK
<1> QED BY <1>1, <1>2, RollsBack DEF Deadlock, Resting

LEMMA ExceptionKeeps == ASSUME Setting, QInv, NEW r \in Runs, Exception(r) PROVE QInv'
<1>1. faults' \in Nat
  BY DEF Exception, QInv, TypeOK
<1> QED BY <1>1, RollsBack, Names DEF Exception, Resting

----------------------------------------------------------------------------
(***************************************************************************)
(* The commits: each leaves the ledger in order and lands beside the other *)
(* transactions.                                                           *)
(***************************************************************************)
\* What others have written is neither ended nor free.
LEMMA OthersRows ==
  ASSUME Setting, QInv, NEW p \in Processes, NEW r \in Runs, ~FreeRun(p, r)
  PROVE  run[r] \notin Terminal \cup {"none"} /\ ~HoldsRun(p, r)
<1>1. PICK o \in Processes \ {p} : HoldsRun(o, r)
  BY DEF FreeRun
<1>2. RowsOf(o, tx[o]) /\ RowsFree(p, tx[p])
  BY DEF QInv, AllFormed, Formed, Apart
<1> QED BY <1>1, <1>2 DEF RowsOf, RowsFree, HoldsRun, FreeRun

LEMMA OthersQuestions ==
  ASSUME Setting, QInv, NEW p \in Processes, NEW x \in Questions, ~FreeQ(p, x)
  PROVE  q[x].status # "none" /\ ~HoldsQ(p, x) /\ (p = Person => x # Human)
<1>1. PICK o \in Processes \ {p} : HoldsQ(o, x)
  BY DEF FreeQ
<1> QED BY <1>1, Holds DEF FreeQ

LEMMA ClaimKeeps == ASSUME Setting, QInv, NEW r \in Runs, Claim(r) PROVE QInv' /\ KeepsEnded
<1>1. /\ TypeOK /\ Ledger /\ r \in Processes
      /\ run[r] = "queued" /\ FreeRun(r, r)
      /\ run' = [run EXCEPT ![r] = "running"] /\ q' = q /\ notice' = notice
      /\ answered' = answered /\ missed' = missed /\ faults' = faults
      /\ tx[r].pc = "idle" /\ Becomes(r, [Idle EXCEPT !.pc = "claimed"])
  BY Names DEF Claim, QInv
<1>2. /\ run'[r] = "running" /\ \A s \in Runs : s # r => run'[s] = run[s]
      /\ \A s \in Runs : run[s] \in Terminal \cup {"none", "waiting"} => run'[s] = run[s] /\ s # r
  BY <1>1 DEF TypeOK, Terminal
<1>3. TypeOK'
  <2>1. [Idle EXCEPT !.pc = "claimed"] \in Tx
    BY IdleIsTx DEF Tx
  <2> QED BY <1>1, <2>1 DEF TypeOK, Becomes, RunStatus
<1>4. Ledger'
  <2>1. \A x \in Questions : Pending(x)' => run'[q'[x].by] = "waiting"
    BY <1>1, <1>2 DEF Ledger, Pending, TypeOK, Question
  <2>2. \/ \A s \in Seats : q'[s].status = "none" /\ run'[s] = "none"
        \/ \A s \in Seats : q'[s].status # "none" /\ run'[s] # "none"
    BY <1>1, <1>2, Names DEF Ledger
  <2>3. NoticeIsOpen'
    BY <1>1, <1>2, Names DEF Ledger, NoticeIsOpen, Terminal
  <2>4. run'[Author] = "waiting" => run[Author] = "waiting"
    BY <1>1, <1>2, Names
  <2>5. run'[Author] # "none"
    BY <1>1, <1>2, Names DEF Ledger
  <2> QED BY <1>1, <2>1, <2>2, <2>3, <2>4, <2>5 DEF Ledger, Pending, Spoken
<1>5. Lands(r)
  BY <1>1, <1>2 DEF Lands, Spoken, Pending
<1>6. KeepsEnded
  BY <1>2 DEF KeepsEnded
<1> QED BY <1>1, <1>2, <1>3, <1>4, <1>5, <1>6, Committed

LEMMA ConveneKeeps == ASSUME Setting, QInv, Convene PROVE QInv' /\ KeepsEnded
<1>1. /\ TypeOK /\ Ledger /\ Author \in Processes /\ tx[Author].pc = "exec" /\ run[Author] = "running"
      /\ \A s \in Seats : q[s].status = "none" /\ run[s] = "none"
      /\ notice' = notice /\ answered' = answered /\ missed' = missed /\ faults' = faults
      /\ Becomes(Author, Idle)
  BY Names, Working DEF Convene, Commit, QInv, Ledger
<1>2. \A x \in Questions : ~HoldsQ(Author, x)
  BY <1>1, Names, Working
<1>3. ~Pending(Human)
  <2> SUFFICES ASSUME Pending(Human) PROVE FALSE
    OBVIOUS
  <2>1. q[Human].by \in Runs /\ run[q[Human].by] = "waiting"
    BY <1>1, Names DEF Ledger, TypeOK, Question
  <2> QED BY <1>1, <2>1, Names
<1>4. /\ run'[Author] = "waiting" /\ \A s \in Seats : run'[s] = "queued"
      /\ run' \in [Runs -> RunStatus]
  <2>1. run' = [r \in Runs |-> IF r = Author THEN "waiting" ELSE "queued"]
    BY DEF Convene, Commit
  <2> QED BY <2>1, Names DEF RunStatus
<1>5. /\ \A s \in Seats : q'[s].status = "pending" /\ q'[s].by = Author
      /\ q'[Human] = q[Human]
      /\ q' \in [Questions -> Question]
  <2>1. q' = [x \in Questions |-> [q[x] EXCEPT !.status = IF x \in Seats THEN "pending" ELSE SeesQ(Author, x)]]
    BY DEF Convene, Commit
  <2>2. SeesQ(Author, Human) = q[Human].status
    BY <1>2, Names DEF SeesQ, HoldsQ
  <2>3. \A x \in Questions : q[x] \in Question
    BY <1>1 DEF TypeOK
  <2>4. q'[Human] = q[Human]
    BY <2>1, <2>2, <2>3, Names DEF Question
  <2>5. \A s \in Seats : q'[s].status = "pending" /\ q'[s].by = Author /\ q'[s] \in Question
    BY <1>1, <2>1, <2>3, Names DEF Question, Ledger, QuestionStatus
  <2>6. \A x \in Questions : q'[x] \in Question
    BY <2>3, <2>4, <2>5, Names
  <2> QED BY <2>1, <2>4, <2>5, <2>6
<1>6. notice = {}
  <2> SUFFICES ASSUME NEW r \in notice PROVE FALSE
    OBVIOUS
  <2>1. r \in Seats /\ run[r] = "cancelled"
    BY <1>1, <1>3 DEF Ledger, NoticeIsOpen, Pending
  <2> QED BY <1>1, <2>1
<1>7. TypeOK'
  BY <1>1, <1>4, <1>5, IdleIsTx DEF TypeOK, Becomes
<1>8. Ledger'
  <2>1. \A x \in Questions : Pending(x)' => run'[q'[x].by] = "waiting"
    BY <1>3, <1>4, <1>5, Names DEF Pending
  <2>2. Seats \cap answered' = {}
    BY <1>1 DEF Ledger, Spoken
  <2>3. NoticeIsOpen'
    BY <1>1, <1>6 DEF NoticeIsOpen
  <2>4. \E x \in Questions : q'[x].by = Author /\ Pending(x)'
    BY <1>5, Names DEF Pending, Setting
  <2>5. ~Pending(Human)'
    BY <1>3, <1>5 DEF Pending
  <2> QED BY <1>4, <1>5, <2>1, <2>2, <2>3, <2>4, <2>5 DEF Ledger
<1>9. Lands(Author)
  <2>1. \A r \in Runs : FreeRun(Author, r)
    BY <1>1, Names, OthersRows, Working
  <2>2. \A x \in Questions : ~FreeQ(Author, x) => q'[x] = q[x]
    BY <1>1, <1>5, Names, OthersQuestions
  <2>3. \A r \in Runs : run[r] \notin Terminal /\ (r # Author => run[r] # "running")
    BY <1>1, Names DEF Terminal
  <2>4. \A x \in Questions : q[x].status # "none" => q'[x] = q[x]
    BY <1>1, <1>5, Names
  <2> QED BY <1>1, <2>1, <2>2, <2>3, <2>4 DEF Lands, Spoken, Pending
<1>10. KeepsEnded
  BY <1>9 DEF KeepsEnded, Lands
<1> QED BY <1>1, <1>7, <1>8, <1>9, <1>10, Committed

LEMMA AskHumanKeeps == ASSUME Setting, QInv, NEW r \in Runs, AskHuman(r) PROVE QInv' /\ KeepsEnded
<1>1. /\ TypeOK /\ Ledger /\ r \in Processes /\ r # Person /\ r # Admin
      /\ tx[r].pc = "exec" /\ tx[r] \in Tx /\ ~tx[r].heard /\ run[r] = "running" /\ HoldsRun(r, r)
      /\ q[Human].status = "none" /\ ~HoldsQ(r, Human)
      /\ run' = [run EXCEPT ![r] = "waiting"] /\ notice' = notice \cup {r}
      /\ answered' = answered /\ missed' = missed /\ faults' = faults
      /\ Becomes(r, Idle)
  BY Names, Working DEF AskHuman, QInv
<1>2. /\ run'[r] = "waiting" /\ \A s \in Runs : s # r => run'[s] = run[s]
      /\ run' \in [Runs -> RunStatus]
  BY <1>1 DEF TypeOK, RunStatus
<1>3. /\ q'[Human].status = "pending" /\ q'[Human].by = r
      /\ \A x \in Questions : x # Human => q'[x].by = q[x].by /\ q'[x].status = SeesQ(r, x)
      /\ q' \in [Questions -> Question]
  <2>1. q' = [x \in Questions |-> IF x = Human THEN [status |-> "pending", by |-> r]
                                  ELSE [q[x] EXCEPT !.status = SeesQ(r, x)]]
    BY DEF AskHuman
  <2>2. \A x \in Questions : q[x] \in Question /\ SeesQ(r, x) \in QuestionStatus
    BY <1>1 DEF TypeOK, Question, SeesQ, Tx
  <2>3. [status |-> "pending", by |-> r] \in Question
    BY DEF Question, QuestionStatus
  <2>4. \A x \in Questions : q'[x] \in Question
    BY <2>1, <2>2, <2>3 DEF Question
  <2> QED BY <2>1, <2>2, <2>4, Names DEF Question
<1>4. \A x \in Questions : x # Human =>
        /\ HoldsQ(r, x) => x = r /\ q[x].status # "none" /\ q'[x].status \notin {"none", "pending"}
        /\ ~HoldsQ(r, x) => q'[x].status = q[x].status
  BY <1>3, Working, Holds, <1>1 DEF SeesQ, HoldsQ
<1>5. TypeOK'
  BY <1>1, <1>2, <1>3, IdleIsTx DEF TypeOK, Becomes
<1>6. KeepsEnded
  BY <1>1, <1>2 DEF KeepsEnded, Terminal
<1>7. Ledger'
  <2>1. \A s \in Seats : s # Human /\ s \in Questions /\ s \in Runs /\ q'[s].by = Author
                         /\ (Pending(s)' => Pending(s))
                         /\ (q'[s].status = "none" <=> q[s].status = "none")
                         /\ (Spoken(s) => Spoken(s)')
    BY <1>1, <1>3, <1>4, Names DEF Ledger, Pending, Spoken
  <2>2. \A x \in Questions : Pending(x)' => run'[q'[x].by] = "waiting"
    <3> SUFFICES ASSUME NEW x \in Seats, Pending(x)' PROVE run'[Author] = "waiting"
      BY <1>2, <1>3, <2>1, Names
    <3>1. run[Author] = "waiting"
      BY <1>1, <2>1 DEF Ledger
    <3> QED BY <3>1, <1>1, <1>2, Names
  <2>3. Pending(Human)' /\ q'[Human].by = Author => \A s \in Seats : ~Pending(s)'
    <3>1. r = Author => \A s \in Seats : ~Pending(s)
      BY <1>1, <2>1 DEF Ledger
    <3> QED BY <3>1, <1>3, <2>1
  <2>4. \/ \A s \in Seats : q'[s].status = "none" /\ run'[s] = "none"
        \/ \A s \in Seats : q'[s].status # "none" /\ run'[s] # "none"
    BY <1>1, <1>2, <2>1 DEF Ledger
  <2>5. run'[Author] # "none"
    BY <1>1, <1>2, Names DEF Ledger
  <2>6. Seats \cap answered' # {} => \A s \in Seats : Spoken(s)'
    BY <1>1, <2>1 DEF Ledger
  <2>7. NoticeIsOpen'
    <3> SUFFICES ASSUME NEW n \in notice, n # r
                 PROVE  n \in Seats /\ run'[n] = "cancelled" /\ run'[Author] \in Terminal
      BY <1>1, <1>3 DEF NoticeIsOpen
    <3>1. n \in Seats /\ run[n] = "cancelled" /\ run[Author] \in Terminal
      BY <1>1 DEF Ledger, NoticeIsOpen
    <3> QED BY <3>1, <1>6, Names DEF KeepsEnded, Terminal
  <2>8. ASSUME run'[Author] = "waiting", ~missed PROVE \E x \in Questions : q'[x].by = Author /\ Pending(x)'
    <3>1. CASE r = Author
      BY <3>1, <1>3, Names DEF Pending
    <3>2. CASE r # Author
      <4>1. PICK x \in Questions : q[x].by = Author /\ Pending(x)
        BY <3>2, <2>8, <1>1, <1>2, Names DEF Ledger
      <4>2. x \in Seats
        BY <4>1, <1>1, Names DEF Pending
      <4>3. CASE ~HoldsQ(r, x)
        BY <4>1, <4>2, <4>3, <1>4, <2>1 DEF Pending
      <4>4. CASE HoldsQ(r, x)
        <5>1. Leaves(tx[r]) /\ Closing(tx[r], x)
          BY <4>1, <4>4, <2>8, <1>1 DEF QInv, Unmissed, Closing, HoldsQ, Past
        <5>2. PICK y \in SiblingsOf(x) : Pending(y)
          BY <5>1, <1>1 DEF Leaves
        <5>3. y \in Seats /\ y # x /\ ~HoldsQ(r, y)
          BY <5>2, <4>2, <4>4, <2>1, <1>4, Names DEF SiblingsOf
        <5> QED BY <5>2, <5>3, <1>4, <2>1 DEF Pending
      <4> QED BY <4>3, <4>4
    <3> QED BY <3>1, <3>2
  <2> QED BY <1>1, <2>1, <2>2, <2>3, <2>4, <2>5, <2>6, <2>7, <2>8 DEF Ledger
<1>8. Lands(r)
  <2>1. \A s \in Runs : ~FreeRun(r, s) => run'[s] = run[s]
    BY <1>1, <1>2, OthersRows
  <2>2. \A x \in Questions : x # Human /\ ~HoldsQ(r, x) => q'[x] = q[x]
    BY <1>1, <1>3, <1>4 DEF TypeOK, Question
  <2>3. \A x \in Questions : ~FreeQ(r, x) => q'[x] = q[x]
    BY <1>1, <2>2, OthersQuestions
  <2>4. \A x \in Questions : q[x].status # "none" => x # Human /\ q'[x].by = q[x].by /\ q'[x].status # "none"
    BY <1>1, <1>3, <1>4
  <2>5. \A x \in Questions : /\ Spoken(x) => Spoken(x)'
                             /\ Pending(x) => Pending(x)' \/ HoldsQ(r, x)
    BY <2>2, <2>4, <1>4 DEF Spoken, Pending
  <2>6. \A s \in Runs : s # r /\ run[s] = "running" => run'[s] \in Terminal \cup {"running"}
    BY <1>2
  <2> QED BY <1>1, <1>6, <2>1, <2>3, <2>4, <2>5, <2>6 DEF Lands, KeepsEnded
<1> QED BY <1>1, <1>5, <1>6, <1>7, <1>8, Committed

LEMMA Told_PersonKeeps == ASSUME Setting, QInv, Told_Person PROVE QInv' /\ KeepsEnded
<1> DEFINE d == tx[Person]
<1>1. /\ TypeOK /\ Ledger /\ Person \in Processes /\ Person \notin Runs /\ Person # Admin
      /\ d.pc = "told" /\ d \in Tx /\ d.on = Human /\ HoldsQ(Person, Human)
      /\ RowsOf(Person, d) /\ ReadingOf(Person, d)
      /\ notice' = notice \ {q[Human].by} /\ missed' = missed /\ faults' = faults
      /\ answered' = IF d.heard THEN answered \cup {Human} ELSE answered
      /\ Becomes(Person, Idle)
  BY Names DEF Told_Person, Commit, QInv, TypeOK, AllFormed, Formed, RoleOf, QuestionOf, HoldsQ
<1>2. /\ q[Human].by \in Runs /\ q[Human].status # "none"
      /\ \A x \in Questions : HoldsQ(Person, x) => x = Human
  BY <1>1, Holds, Names DEF TypeOK, Question
<1>3. \A r \in Runs : HoldsRun(Person, r) <=> d.heard /\ r = q[Human].by
  BY <1>1, <1>2, Names DEF RowsOf, ReadingOf, Own, HoldsRun
<1>4. /\ \A r \in Runs : IF d.heard /\ r = q[Human].by THEN run'[r] = "queued" /\ run[r] = "waiting"
                         ELSE run'[r] = run[r]
      /\ run' \in [Runs -> RunStatus]
  <2>1. run' = [r \in Runs |-> SeesRun(Person, r)]
    BY DEF Told_Person, Commit, NoRun
  <2>2. \A r \in Runs : SeesRun(Person, r) \in RunStatus
    BY <1>1 DEF SeesRun, Tx, TypeOK
  <2>3. d.heard => run[q[Human].by] = "waiting" /\ d.run[q[Human].by] = "queued"
    BY <1>1, <1>2, Names DEF ReadingOf, Ledger
  <2> QED BY <1>3, <2>1, <2>2, <2>3 DEF SeesRun, HoldsRun
<1>5. /\ q'[Human].status \notin {"none", "pending"} /\ q'[Human].by = q[Human].by
      /\ \A x \in Seats : q'[x] = q[x]
      /\ q' \in [Questions -> Question]
  <2>1. q' = [x \in Questions |-> [q[x] EXCEPT !.status = SeesQ(Person, x)]]
    BY DEF Told_Person, Commit, NoQuestion
  <2>2. \A x \in Questions : q[x] \in Question /\ SeesQ(Person, x) \in QuestionStatus
    BY <1>1 DEF TypeOK, Question, SeesQ, Tx
  <2>3. \A x \in Seats : SeesQ(Person, x) = q[x].status
    BY <1>2, Names DEF SeesQ, HoldsQ
  <2>4. SeesQ(Person, Human) \notin {"none", "pending"}
    BY <1>1, Holds, Names DEF SeesQ, HoldsQ
  <2> QED BY <2>1, <2>2, <2>3, <2>4, Names DEF Question
<1>6. TypeOK'
  BY <1>1, <1>4, <1>5, IdleIsTx, Names DEF TypeOK, Becomes
<1>7. KeepsEnded
  BY <1>4 DEF KeepsEnded, Terminal
<1>8. Ledger'
  <2>1. \A x \in Questions : Pending(x)' => run'[q'[x].by] = "waiting"
    <3> SUFFICES ASSUME NEW x \in Seats, Pending(x) PROVE run'[Author] = "waiting"
      BY <1>1, <1>5, Names DEF Pending, Ledger
    <3>1. run[Author] = "waiting"
      BY <1>1, Names DEF Ledger
    <3>2. ~(d.heard /\ q[Human].by = Author)
      BY <1>1 DEF ReadingOf, Ledger
    <3> QED BY <3>1, <3>2, <1>4, Names
  <2>2. \/ \A s \in Seats : q'[s].status = "none" /\ run'[s] = "none"
        \/ \A s \in Seats : q'[s].status # "none" /\ run'[s] # "none"
    <3>1. \A s \in Seats : (run'[s] = "none" <=> run[s] = "none") /\ q'[s] = q[s]
      BY <1>4, <1>5, Names
    <3> QED BY <3>1, <1>1 DEF Ledger
  <2>3. run'[Author] # "none"
    BY <1>1, <1>4, Names DEF Ledger
  <2>4. Seats \cap answered' # {} => \A s \in Seats : Spoken(s)'
    BY <1>1, <1>5, Names DEF Ledger, Spoken
  <2>5. NoticeIsOpen'
    <3> SUFFICES ASSUME NEW n \in notice, n # q[Human].by
                 PROVE  n \in Seats /\ run'[n] = "cancelled" /\ run'[Author] \in Terminal
      BY <1>1 DEF NoticeIsOpen
    <3>1. n \in Seats /\ run[n] = "cancelled" /\ run[Author] \in Terminal
      BY <1>1 DEF Ledger, NoticeIsOpen
    <3> QED BY <3>1, <1>7, Names DEF KeepsEnded, Terminal
  <2>6. ASSUME run'[Author] = "waiting", ~missed PROVE \E x \in Questions : q'[x].by = Author /\ Pending(x)'
    <3>1. run[Author] = "waiting" /\ ~(d.heard /\ q[Human].by = Author)
      BY <2>6, <1>4, Names
    <3>2. PICK x \in Questions : q[x].by = Author /\ Pending(x)
      BY <2>6, <3>1, <1>1 DEF Ledger
    <3>3. x # Human
      <4> SUFFICES ASSUME x = Human PROVE FALSE
        OBVIOUS
      <4>1. Closing(d, x) /\ Leaves(d) /\ ~d.heard
        BY <3>1, <3>2, <2>6, <1>1 DEF QInv, Unmissed, Closing, HoldsQ, Past
      <4> QED BY <4>1, <1>1 DEF Leaves, SiblingsOf
    <3> QED BY <3>2, <3>3, <1>5, Names DEF Pending
  <2>7. ~Pending(Human)' /\ \A s \in Seats : q'[s].by = Author
    BY <1>1, <1>5 DEF Pending, Ledger
  <2> QED BY <1>1, <2>1, <2>2, <2>3, <2>4, <2>5, <2>6, <2>7 DEF Ledger
<1>9. Lands(Person)
  <2>1. \A s \in Runs : ~FreeRun(Person, s) => run'[s] = run[s]
    BY <1>1, <1>3, <1>4, OthersRows
  <2>2. \A x \in Questions : ~FreeQ(Person, x) => q'[x] = q[x]
    BY <1>1, <1>5, OthersQuestions, Names
  <2>3. \A x \in Questions : /\ q[x].status # "none" => q'[x].by = q[x].by /\ q'[x].status # "none"
                             /\ Spoken(x) => Spoken(x)'
                             /\ Pending(x) => Pending(x)' \/ HoldsQ(Person, x)
    BY <1>1, <1>5, Names DEF Spoken, Pending
  <2>4. \A s \in Runs : run[s] = "running" => run'[s] = "running"
    BY <1>4
  <2> QED BY <1>1, <1>7, <2>1, <2>2, <2>3, <2>4 DEF Lands, KeepsEnded
<1> QED BY <1>1, <1>6, <1>7, <1>8, <1>9, Committed

\* What a run that ends leaves in the rows.
LEMMA Ends ==
  ASSUME Setting, QInv, NEW p \in Processes, Close(p), NEW r, r = Ending(p)
  PROVE  /\ p # Person /\ r \in Runs /\ run'[r] \in Terminal /\ run[r] \notin Terminal \cup {"none"}
         /\ r # p => p \notin Runs
         /\ HoldsRun(p, r) /\ \A s \in Runs : HoldsRun(p, s) => s = r \/ (tx[p].heard /\ s = Author)
         /\ \A x \in Questions : HoldsQ(p, x) => x = r /\ x \in Seats /\ q[x].status # "none"
         /\ tx[p].heard => /\ r \in Seats /\ tx[p].on = r /\ Pending(r) /\ HoldsQ(p, r) /\ HoldsRun(p, Author)
                           /\ run[Author] = "waiting" /\ run'[Author] = "queued"
                           /\ \A s \in Seats : s # r => Spoken(s)
         /\ Orphans(p, r) = IF r # Author THEN {}
                            ELSE {s \in Seats : q[s].status # "none" /\ run[s] \in {"queued", "waiting"}}
         /\ \A s \in Orphans(p, r) : run'[s] = "cancelled" /\ FreeRun(p, s)
         /\ \A s \in Runs : s # r /\ s \notin Orphans(p, r) /\ ~(tx[p].heard /\ s = Author) => run'[s] = run[s]
         /\ run' \in [Runs -> RunStatus]
<1> DEFINE d == tx[p]
<1>1. /\ TypeOK /\ Ledger /\ d \in Tx /\ d.pc = "close" /\ RoleOf(p, d) /\ RowsOf(p, d) /\ QuestionOf(p, d) /\ ReadingOf(p, d)
      /\ p # Person
  BY Names DEF Close, QInv, TypeOK, AllFormed, Formed, RoleOf, Settling
<1>2. /\ r = Own(p, d) /\ r \in Runs /\ d.run[r] \in Terminal /\ d.run[r] # "none" /\ run[r] \notin Terminal \cup {"none"}
      /\ r # p => p \notin Runs
      /\ d.on = r
  <2>1. r = Own(p, d) /\ r \in Runs /\ d.on = r /\ (r # p => p \notin Runs)
    BY <1>1, Names DEF Ending, Own, RoleOf, Busy
  <2>2. d.run[r] \in Terminal
    BY <1>1, <2>1 DEF RowsOf, Busy
  <2> QED BY <1>1, <2>1, <2>2 DEF RowsOf, Terminal
<1>3. d.heard => /\ r \in Seats /\ Pending(r) /\ HoldsQ(p, r) /\ d.run[Author] = "queued"
                 /\ run[Author] = "waiting" /\ \A s \in Seats : s # r => Spoken(s)
  BY <1>1, <1>2, Names DEF ReadingOf, HoldsQ, SiblingsOf, Ledger
<1>4. \A s \in Runs : HoldsRun(p, s) => s = r \/ (d.heard /\ s = Author)
  BY <1>1, <1>2, <1>3 DEF RowsOf, HoldsRun, Ledger
<1>5. \A x \in Questions : HoldsQ(p, x) => x = r /\ x \in Seats /\ q[x].status # "none"
  BY <1>1, <1>2, Holds, Names
<1>6. Orphans(p, r) = IF r # Author THEN {}
                      ELSE {s \in Seats : q[s].status # "none" /\ run[s] \in {"queued", "waiting"}}
  <2>1. r = Author => \A s \in Seats : SeesRun(p, s) = run[s]
    BY <1>4, Names DEF SeesRun, HoldsRun
  <2> QED BY <2>1 DEF Orphans
<1>7. /\ run' = [s \in Runs |-> IF s \in Orphans(p, r) THEN "cancelled" ELSE SeesRun(p, s)]
      /\ \A s \in Orphans(p, r) : FreeRun(p, s) /\ s \in Runs /\ s \in Seats /\ r = Author
  <2>1. run' = [s \in Runs |-> IF [z \in Runs |-> IF z \in Orphans(p, r) THEN "cancelled" ELSE "none"][s] # "none"
                               THEN [z \in Runs |-> IF z \in Orphans(p, r) THEN "cancelled" ELSE "none"][s]
                               ELSE SeesRun(p, s)]
    BY DEF Close, Commit
  <2>2. \A s \in Orphans(p, r) : FreeRun(p, s) /\ s \in Runs /\ s \in Seats /\ r = Author
    BY <1>6, Names DEF Close
  <2> QED BY <2>1, <2>2
<1>8. run'[r] \in Terminal
  BY <1>2, <1>7, Names DEF SeesRun
<1>9. d.heard => run'[Author] = "queued"
  BY <1>3, <1>7, Names DEF SeesRun
<1>10. \A s \in Runs : s # r /\ s \notin Orphans(p, r) /\ ~(d.heard /\ s = Author) => run'[s] = run[s]
  BY <1>4, <1>7 DEF SeesRun, HoldsRun
<1>11. run' \in [Runs -> RunStatus]
  <2>1. \A s \in Runs : SeesRun(p, s) \in RunStatus
    BY <1>1 DEF SeesRun, Tx, TypeOK
  <2> QED BY <1>7, <2>1 DEF RunStatus, Terminal
<1>12. \A s \in Orphans(p, r) : run'[s] = "cancelled" /\ FreeRun(p, s)
  BY <1>7
<1>13. d.heard => HoldsRun(p, Author)
  BY <1>3 DEF HoldsRun
<1>14. HoldsRun(p, r)
  BY <1>2 DEF HoldsRun
<1> QED BY <1>1, <1>2, <1>3, <1>4, <1>5, <1>6, <1>8, <1>9, <1>10, <1>11, <1>12, <1>13, <1>14

\* And in the questions: it voids those it asked, and those of its consults.
LEMMA Voids ==
  ASSUME Setting, QInv, NEW p \in Processes, Close(p), NEW r, r = Ending(p)
  PROVE  /\ \A x \in Questions : q'[x].by = q[x].by
         /\ \A x \in Questions : x \in Voided(p, r) <=>
              Pending(x) /\ ~HoldsQ(p, x) /\ (q[x].by = r \/ q[x].by \in Orphans(p, r))
         /\ \A x \in Voided(p, r) : q'[x].status = "voided" /\ FreeQ(p, x)
         /\ \A x \in Questions : HoldsQ(p, x) => q'[x].status \notin {"none", "pending"}
         /\ \A x \in Questions : x \notin Voided(p, r) /\ ~HoldsQ(p, x) => q'[x] = q[x]
         /\ q' \in [Questions -> Question]
<1>1. TypeOK /\ tx[p] \in Tx
  BY DEF QInv, TypeOK
<1>2. \A x \in Questions : SeesQ(p, x) = "pending" <=> Pending(x) /\ ~HoldsQ(p, x)
  BY Holds DEF SeesQ, HoldsQ, Pending
<1>3. \A x \in Questions : x \in Voided(p, r) <=>
        Pending(x) /\ ~HoldsQ(p, x) /\ (q[x].by = r \/ q[x].by \in Orphans(p, r))
  BY <1>2 DEF Voided, AskedBy
<1>4. /\ q' = [x \in Questions |-> [q[x] EXCEPT !.status = IF x \in Voided(p, r) THEN "voided" ELSE SeesQ(p, x)]]
      /\ \A x \in Voided(p, r) : FreeQ(p, x) /\ x \in Questions
  <2>1. q' = [x \in Questions |-> [q[x] EXCEPT !.status =
                IF [z \in Questions |-> IF z \in Voided(p, r) THEN "voided" ELSE "none"][x] # "none"
                THEN [z \in Questions |-> IF z \in Voided(p, r) THEN "voided" ELSE "none"][x]
                ELSE SeesQ(p, x)]]
    BY DEF Close, Commit
  <2>2. \A x \in Voided(p, r) : FreeQ(p, x) /\ x \in Questions
    BY DEF Close, Voided, AskedBy
  <2> QED BY <2>1, <2>2
<1>5. \A x \in Questions : q[x] \in Question /\ SeesQ(p, x) \in QuestionStatus
  BY <1>1 DEF TypeOK, Question, SeesQ, Tx
<1>6. \A x \in Questions : q'[x].by = q[x].by /\ q'[x] \in Question
  BY <1>4, <1>5 DEF Question, QuestionStatus
<1>7. \A x \in Voided(p, r) : q'[x].status = "voided" /\ FreeQ(p, x)
  BY <1>4, <1>5 DEF Question
<1>8. \A x \in Questions : HoldsQ(p, x) => q'[x].status \notin {"none", "pending"}
  BY <1>3, <1>4, <1>5, Holds DEF Question, SeesQ, HoldsQ
<1>9. \A x \in Questions : x \notin Voided(p, r) /\ ~HoldsQ(p, x) => q'[x] = q[x]
  BY <1>4, <1>5 DEF Question, SeesQ, HoldsQ
<1>10. q' \in [Questions -> Question]
  BY <1>4, <1>6
<1> QED BY <1>3, <1>6, <1>7, <1>8, <1>9, <1>10

LEMMA CloseKeeps == ASSUME Setting, QInv, NEW p \in Processes, Close(p) PROVE QInv' /\ KeepsEnded
<1> DEFINE r == Ending(p)
<1>1. /\ TypeOK /\ Ledger /\ tx[p].pc = "close" /\ Becomes(p, Idle)
      /\ notice' = notice \ {r} /\ missed' = missed /\ faults' = faults
      /\ answered' = IF tx[p].heard THEN answered \cup {tx[p].on} ELSE answered
  BY DEF Close, Commit, QInv
<1>2. /\ p # Person /\ r \in Runs /\ run'[r] \in Terminal /\ run[r] \notin Terminal \cup {"none"}
      /\ r # p => p \notin Runs
      /\ HoldsRun(p, r) /\ \A s \in Runs : HoldsRun(p, s) => s = r \/ (tx[p].heard /\ s = Author)
      /\ \A x \in Questions : HoldsQ(p, x) => x = r /\ x \in Seats /\ q[x].status # "none"
      /\ tx[p].heard => /\ r \in Seats /\ tx[p].on = r /\ Pending(r) /\ HoldsQ(p, r) /\ HoldsRun(p, Author)
                        /\ run[Author] = "waiting" /\ run'[Author] = "queued"
                        /\ \A s \in Seats : s # r => Spoken(s)
      /\ Orphans(p, r) = IF r # Author THEN {}
                         ELSE {s \in Seats : q[s].status # "none" /\ run[s] \in {"queued", "waiting"}}
      /\ \A s \in Orphans(p, r) : run'[s] = "cancelled" /\ FreeRun(p, s)
      /\ \A s \in Runs : s # r /\ s \notin Orphans(p, r) /\ ~(tx[p].heard /\ s = Author) => run'[s] = run[s]
      /\ run' \in [Runs -> RunStatus]
  BY Ends
<1>3. /\ \A x \in Questions : q'[x].by = q[x].by
      /\ \A x \in Questions : x \in Voided(p, r) <=>
           Pending(x) /\ ~HoldsQ(p, x) /\ (q[x].by = r \/ q[x].by \in Orphans(p, r))
      /\ \A x \in Voided(p, r) : q'[x].status = "voided" /\ FreeQ(p, x)
      /\ \A x \in Questions : HoldsQ(p, x) => q'[x].status \notin {"none", "pending"}
      /\ \A x \in Questions : x \notin Voided(p, r) /\ ~HoldsQ(p, x) => q'[x] = q[x]
      /\ q' \in [Questions -> Question]
  BY Voids
<1> HIDE DEF r
<1>4. \A s \in Orphans(p, r) : s \in Seats /\ s \in Runs /\ r = Author /\ run[s] \in {"queued", "waiting"}
  BY <1>2, Names
<1>5. /\ KeepsEnded
      /\ \A s \in Runs : s # p /\ run[s] = "running" => run'[s] \in Terminal \cup {"running"}
  BY <1>2, <1>4, Names DEF KeepsEnded, Terminal
<1>6. TypeOK'
  <2>1. answered' \subseteq Questions
    BY <1>1, <1>2, Names DEF TypeOK
  <2> QED BY <1>1, <1>2, <1>3, <2>1, IdleIsTx DEF TypeOK, Becomes
<1>7. \A x \in Questions : /\ Spoken(x) => Spoken(x)'
                           /\ q[x].status # "none" => q'[x].status # "none"
                           /\ q[x].status = "none" => q'[x].status = "none"
                           /\ Pending(x)' => Pending(x) /\ ~HoldsQ(p, x) /\ x \notin Voided(p, r)
                           /\ Pending(x) /\ ~Pending(x)' => HoldsQ(p, x) \/ x \in Voided(p, r)
  BY <1>2, <1>3 DEF Spoken, Pending
<1>8. Ledger'
  <2>1. ASSUME NEW x \in Questions, Pending(x)' PROVE run'[q'[x].by] = "waiting"
    <3> DEFINE a == q[x].by
    <3>1. a \in Runs /\ Pending(x) /\ run[a] = "waiting" /\ a # r /\ a \notin Orphans(p, r) /\ q'[x].by = a /\ ~HoldsQ(p, x)
      BY <2>1, <1>1, <1>3, <1>7 DEF TypeOK, Question, Ledger
    <3> HIDE DEF a
    <3>2. ~(tx[p].heard /\ a = Author)
      <4> SUFFICES ASSUME tx[p].heard, a = Author PROVE FALSE
        OBVIOUS
      <4>1. \A s \in Seats : s # r => ~Pending(s)
        BY <1>2 DEF Pending, Spoken
      <4>2. x = Human
        BY <1>2, <3>1, <4>1, Names
      <4>3. Pending(r) /\ r \in Seats
        BY <1>2
      <4> QED BY <3>1, <4>2, <4>3, <1>1 DEF Ledger, a
    <3> QED BY <3>1, <3>2, <1>2
  <2>2. \/ \A s \in Seats : q'[s].status = "none" /\ run'[s] = "none"
        \/ \A s \in Seats : q'[s].status # "none" /\ run'[s] # "none"
    <3>1. \A s \in Seats : run'[s] = "none" <=> run[s] = "none"
      BY <1>2, <1>4, Names DEF Terminal
    <3> QED BY <1>1, <1>7, <3>1, Names DEF Ledger
  <2>3. run'[Author] # "none"
    BY <1>1, <1>2, <1>4, Names DEF Ledger, Terminal
  <2>4. ASSUME Seats \cap answered' # {} PROVE \A s \in Seats : Spoken(s)'
    <3>1. CASE ~tx[p].heard
      BY <2>4, <3>1, <1>1, <1>7, Names DEF Ledger
    <3>2. CASE tx[p].heard
      <4>1. \A s \in Seats : s = r => Spoken(s)'
        BY <3>2, <1>2, <1>3, Names DEF Spoken
      <4> QED BY <3>2, <4>1, <1>2, <1>7, Names
    <3> QED BY <3>1, <3>2
  <2>5. NoticeIsOpen'
    <3> SUFFICES ASSUME NEW n \in notice, n # r
                 PROVE  \/ q'[Human].by = n /\ q'[Human].status = "pending"
                        \/ n \in Seats /\ run'[n] = "cancelled" /\ run'[Author] \in Terminal
      BY <1>1 DEF NoticeIsOpen
    <3>1. CASE q[Human].by = n /\ Pending(Human)
      <4>1. CASE Human \in Voided(p, r)
        <5>1. n \in Orphans(p, r)
          BY <3>1, <4>1, <1>3, Names
        <5> QED BY <5>1, <1>2, <1>4
      <4>2. CASE Human \notin Voided(p, r)
        BY <3>1, <4>2, <1>2, <1>3, Names DEF Pending
      <4> QED BY <4>1, <4>2
    <3>2. CASE n \in Seats /\ run[n] = "cancelled" /\ run[Author] \in Terminal
      BY <3>2, <1>5, Names DEF KeepsEnded, Terminal
    <3> QED BY <3>1, <3>2, <1>1 DEF Ledger, NoticeIsOpen, Pending
  <2>6. ASSUME run'[Author] = "waiting", ~missed PROVE \E x \in Questions : q'[x].by = Author /\ Pending(x)'
    <3>1. r # Author /\ ~tx[p].heard
      BY <2>6, <1>2 DEF Terminal
    <3>2. run[Author] = "waiting" /\ Orphans(p, r) = {}
      BY <2>6, <3>1, <1>2, Names
    <3>3. PICK x \in Questions : q[x].by = Author /\ Pending(x)
      BY <2>6, <3>2, <1>1 DEF Ledger
    <3>4. \A y \in Questions : q[y].by = Author /\ Pending(y) /\ ~HoldsQ(p, y) => q'[y].by = Author /\ Pending(y)'
      BY <3>1, <3>2, <1>3, <1>7
    <3>5. CASE HoldsQ(p, x)
      <4>1. Leaves(tx[p]) /\ Closing(tx[p], x)
        BY <3>3, <3>5, <2>6, <1>1 DEF QInv, Unmissed, Closing, HoldsQ, Past
      <4>2. PICK y \in SiblingsOf(x) : Pending(y)
        BY <4>1, <3>1, <1>1 DEF Leaves
      <4>3. y \in Seats /\ y # x /\ x = r /\ ~HoldsQ(p, y)
        BY <4>2, <3>5, <1>2, Names DEF SiblingsOf
      <4> QED BY <4>2, <4>3, <3>4, <1>1, Names DEF Ledger
    <3> QED BY <3>3, <3>4, <3>5
  <2>7. \A s \in Seats : q'[s].by = Author
    BY <1>1, <1>3, Names DEF Ledger
  <2>8. Pending(Human)' /\ q'[Human].by = Author => \A s \in Seats : ~Pending(s)'
    BY <1>1, <1>3, <1>7, Names DEF Ledger
  <2> QED BY <1>1, <2>1, <2>2, <2>3, <2>4, <2>5, <2>6, <2>7, <2>8 DEF Ledger
<1>9. Lands(p)
  <2>1. ASSUME NEW s \in Runs, ~FreeRun(p, s) PROVE run'[s] = run[s]
    <3>1. ~HoldsRun(p, s)
      BY <2>1, OthersRows
    <3>2. s # r
      BY <3>1, <1>2
    <3> QED BY <2>1, <3>1, <3>2, <1>2
  <2>2. \A x \in Questions : ~FreeQ(p, x) => q'[x] = q[x]
    BY <1>3, OthersQuestions
  <2>3. \A x \in Questions : Pending(x) => Pending(x)' \/ HoldsQ(p, x) \/ run'[q[x].by] \in Terminal
    <3>1. \A x \in Voided(p, r) : x \in Questions
      BY DEF Voided, AskedBy
    <3>2. \A x \in Voided(p, r) : run'[q[x].by] \in Terminal
      BY <1>2, <1>3, <3>1 DEF Terminal
    <3> QED BY <1>7, <3>2
  <2> QED BY <1>1, <1>3, <1>5, <1>7, <2>1, <2>2, <2>3 DEF Lands, KeepsEnded
<1> QED BY <1>1, <1>5, <1>6, <1>8, <1>9, Committed

----------------------------------------------------------------------------
LEMMA InitQInv == Setting /\ Init => QInv
<1> SUFFICES ASSUME Setting, Init PROVE QInv
  OBVIOUS
<1>1. TypeOK
  BY Names, IdleIsTx DEF Init, TypeOK, RunStatus, Question, QuestionStatus
<1>2. Ledger
  BY Names DEF Init, Ledger, Pending, NoticeIsOpen
<1>3. \A p \in Processes : Formed(p, tx[p]) /\ RowsFree(p, tx[p]) /\ Leaves(tx[p]) /\ Alone(p, tx[p])
  BY IdleFormed DEF Init
<1> QED BY <1>1, <1>2, <1>3 DEF QInv, AllFormed, Apart, Unmissed

\* Every step; only a commit writes the status of a run.
LEMMA StepQInv == Setting /\ QInv /\ [Next]_vars => QInv' /\ KeepsEnded
<1> SUFFICES ASSUME Setting, QInv, [Next]_vars PROVE QInv' /\ KeepsEnded
  OBVIOUS
<1> DEFINE Same == run' = run
<1>0. Same => KeepsEnded
  BY DEF KeepsEnded
<1>1. CASE Convene
  BY <1>1, ConveneKeeps
<1>2. ASSUME NEW r \in Runs, Claim(r) PROVE QInv' /\ KeepsEnded
  BY <1>2, ClaimKeeps
<1>3. ASSUME NEW r \in Runs, Begin(r) PROVE QInv' /\ Same
  BY <1>3, BeginKeeps DEF Begin
<1>4. ASSUME NEW r \in Runs, AskHuman(r) PROVE QInv' /\ KeepsEnded
  BY <1>4, AskHumanKeeps
<1>5. ASSUME NEW r \in Runs, Reply(r) PROVE QInv' /\ Same
  BY <1>5, ReplyKeeps DEF Reply
<1>6. ASSUME NEW r \in Runs, Cancel(r) PROVE QInv' /\ Same
  BY <1>6, CancelKeeps DEF Cancel
<1>7. ASSUME NEW r \in Runs, Exception(r) PROVE QInv' /\ Same
  BY <1>7, ExceptionKeeps DEF Exception
<1>8. ASSUME NEW r \in Runs, NEW s \in {"done", "error"}, Finalize(r, s) PROVE QInv' /\ Same
  BY <1>8, FinalizeKeeps DEF Finalize
<1>9. ASSUME NEW v \in {"answered", "declined"}, Decide(v) PROVE QInv' /\ Same
  BY <1>9, DecideKeeps DEF Decide
<1>10. ASSUME NEW p \in Processes, Settle(p) PROVE QInv' /\ Same
  BY <1>10, SettleKeeps DEF Settle
<1>11. ASSUME NEW p \in Processes, Siblings(p) PROVE QInv' /\ Same
  BY <1>11, SiblingsKeeps DEF Siblings
<1>12. ASSUME NEW p \in Processes, Wake(p) PROVE QInv' /\ Same
  BY <1>12, WakeKeeps DEF Wake
<1>13. ASSUME NEW p \in Processes, Told(p) PROVE QInv' /\ Same
  BY <1>13, ToldKeeps DEF Told
<1>14. ASSUME NEW p \in Processes, Close(p) PROVE QInv' /\ KeepsEnded
  BY <1>14, CloseKeeps
<1>15. ASSUME NEW p \in Processes, Deadlock(p) PROVE QInv' /\ Same
  BY <1>15, DeadlockKeeps DEF Deadlock
<1>16. CASE Told_Person
  BY <1>16, Told_PersonKeeps
<1>17. CASE UNCHANGED vars
  <2>1. QInv'
    BY <1>17 DEF vars, QInv, TypeOK, Ledger, AllFormed, Apart, Unmissed, Formed, RoleOf, RowsOf, QuestionOf,
                 ReadingOf, RowsFree, Leaves, Alone, Closing, FreeRun, HoldsRun, Pending, Spoken, NoticeIsOpen, Own
  <2> QED BY <1>17, <1>0, <2>1 DEF vars
<1> QED BY <1>0, <1>1, <1>2, <1>3, <1>4, <1>5, <1>6, <1>7, <1>8, <1>9, <1>10, <1>11, <1>12, <1>13, <1>14,
           <1>15, <1>16, <1>17 DEF Next, Answering

\* The inductive invariant: what every transaction in flight has written and read.
THEOREM QuestionsInv == ASSUME Setting PROVE Spec => []QInv
<1>1. Init => QInv
  BY InitQInv
<1>2. QInv /\ [Next]_vars => QInv'
  BY StepQInv
<1> QED BY <1>1, <1>2, PTL DEF Spec

LEMMA QInvKeepsPromises == Setting /\ QInv => NoTrap /\ BoardComplete /\ OnlyOverlapStrands /\ NoticeIsOpen
<1> SUFFICES ASSUME Setting, QInv PROVE NoTrap /\ BoardComplete /\ OnlyOverlapStrands /\ NoticeIsOpen
  OBVIOUS
<1>1. NoTrap /\ NoticeIsOpen
  BY DEF QInv, Ledger, NoTrap, Pending, Terminal
<1>2. BoardComplete
  BY DEF QInv, Ledger, BoardComplete, Spoken
<1>3. OnlyOverlapStrands
  BY DEF QInv, Ledger, OnlyOverlapStrands, Stranded, Pending
<1> QED BY <1>1, <1>2, <1>3

\* For every board and any number of faults: no ended run leaves an open question,
\* a board resumes its author only when every seat has spoken, only two seats that
\* answer inside each other's transactions strand it, and the inbox shows nothing
\* that nobody waits for.
THEOREM BoardsKept ==
  ASSUME Setting PROVE Spec => [](NoTrap /\ BoardComplete /\ OnlyOverlapStrands /\ NoticeIsOpen)
<1>1. QInv => NoTrap /\ BoardComplete /\ OnlyOverlapStrands /\ NoticeIsOpen
  BY QInvKeepsPromises
<1> QED BY <1>1, QuestionsInv, PTL

\* A run that has ended stays ended: _inject_answer writes the asker without a
\* guard, and no answer on its way can reach a run that ended meanwhile.
THEOREM EndedStaysEnded == ASSUME Setting PROVE Spec => StaysEnded
<1>1. QInv /\ [Next]_vars => KeepsEnded
  BY StepQInv
<1> QED BY <1>1, QuestionsInv, PTL DEF Spec, StaysEnded, vars

----------------------------------------------------------------------------
(***************************************************************************)
(* The gate of a review board.  A line of the diary is earned (Earned) by  *)
(* what stands before it, so a line once earned stays so (EarnedStays);    *)
(* what the gate reads at the end of the diary is what its next line rests *)
(* on (InSession, NextLine).  A verdict comes without its gate, so the     *)
(* argument is about the lines after a convening, whatever gate they were  *)
(* written for.                                                            *)
(***************************************************************************)
\* "none" is no digest, and the cap is a positive number (2 in the code).
GateSetting == "none" \notin Submissions /\ MAX_ROUNDS \in Nat \ {0}

\* What a marker line may be.
Seatings == {<<>>} \cup {StaffedAt(l) : l \in DOMAIN Levels}
Entry == [mark : {"convened", "verdict", "passed", "released"}, gate : Gates \cup {"none"},
          sub : Submissions \cup {"none"}, seats : Seatings, who : SeatNames \cup {"none"},
          says : {"PASS", "FAIL", "none"}, board : BOOLEAN]

\* Why line n of the log may stand there.
Earned(log, n) ==
  /\ log[n].mark = "verdict" => log[n].says # "none"
  /\ log[n].mark = "passed" => Cleared(log, n)
  /\ log[n].mark = "released" => Cardinality(Rounds(log, log[n].gate, n)) >= MAX_ROUNDS
  /\ log[n].mark = "convened" /\ Cardinality(Rounds(log, log[n].gate, n - 1)) >= MAX_ROUNDS => Unjudged(log, n)

GateInv ==
  /\ level \in DOMAIN Levels /\ diary \in Seq(Entry)
  /\ \A n \in 1..Len(diary) : Earned(diary, n)

LEMMA LatestIs ==
  ASSUME NEW n \in Nat, NEW S \in SUBSET (1..n), S # {}
  PROVE  Latest(S) \in S /\ \A j \in S : j <= Latest(S)
<1> DEFINE T == {n - i : i \in S}
<1>1. \A y \in T : y \in Nat
  OBVIOUS
<1>2. PICK k \in S : TRUE
  OBVIOUS
<1>3. n - k \in T
  OBVIOUS
<1>4. \A j \in S : n - j \in T
  OBVIOUS
<1>5. T \subseteq Nat /\ T # {}
  BY <1>1, <1>3
<1>6. PICK x \in T : \A y \in T : ~ (<<y, x>> \in OpToRel(<, Nat))
  BY <1>5, NatLessThanWellFounded, WFMin, Zenon
<1>7. \A y \in T : ~ (y < x)
  BY <1>1, <1>6 DEF OpToRel
<1>8. PICK i \in S : x = n - i
  OBVIOUS
<1> HIDE DEF T
<1>9. ASSUME NEW j \in S PROVE j <= i
  <2>1. ~ (n - j < n - i) /\ i \in 1..n /\ j \in 1..n
    BY <1>4, <1>7, <1>8
  <2> QED BY <2>1
<1> QED BY <1>9 DEF Latest

\* A line more leaves what the board of an earlier line had said by then; one
\* that is no verdict says nothing itself.
LEMMA GivenStays ==
  ASSUME NEW t \in Seq(Entry), NEW e \in Entry, NEW i \in 1..Len(t), NEW m \in 1..Len(t), NEW s
  PROVE  Given(Append(t, e), i, m, s) = Given(t, i, m, s)
<1> DEFINE said == {j \in i..m : t[j].mark = "verdict" /\ t[j].who = s}
<1>1. \A j \in 1..m : Append(t, e)[j] = t[j]
  OBVIOUS
<1>2. {j \in i..m : Append(t, e)[j].mark = "verdict" /\ Append(t, e)[j].who = s} = said
  BY <1>1
<1>3. said \in SUBSET (1..m) /\ m \in Nat
  OBVIOUS
<1>4. Given(t, i, m, s) = IF said = {} THEN "none" ELSE t[Latest(said)].says
  BY DEF Given
<1>5. Given(Append(t, e), i, m, s) = IF said = {} THEN "none" ELSE Append(t, e)[Latest(said)].says
  BY <1>2 DEF Given
<1> HIDE DEF said
<1>6. said # {} => Latest(said) \in 1..m
  BY <1>3, LatestIs
<1> QED BY <1>1, <1>4, <1>5, <1>6

LEMMA GivenBefore ==
  ASSUME NEW t \in Seq(Entry), NEW e \in Entry, e.mark # "verdict", NEW i \in 1..Len(t), NEW s
  PROVE  Given(Append(t, e), i, Len(t) + 1, s) = Given(t, i, Len(t), s)
<1> DEFINE n == Len(t)
           u == Append(t, e)
           said == {j \in i..n : t[j].mark = "verdict" /\ t[j].who = s}
           more == {j \in i..(n + 1) : u[j].mark = "verdict" /\ u[j].who = s}
<1>1. n \in Nat /\ u[n + 1] = e /\ (\A j \in 1..n : u[j] = t[j]) /\ i \in 1..n
  OBVIOUS
<1>2. said \in SUBSET (1..n)
  OBVIOUS
<1>3. Given(t, i, n, s) = IF said = {} THEN "none" ELSE t[Latest(said)].says
  BY DEF Given
<1>4. Given(u, i, n + 1, s) = IF more = {} THEN "none" ELSE u[Latest(more)].says
  BY DEF Given
<1> HIDE DEF n, u
<1>5. more = said
  <2>1. ASSUME NEW j \in i..(n + 1), u[j].mark = "verdict" PROVE j \in i..n /\ j \in 1..n
    BY <1>1, <2>1
  <2> QED BY <1>1, <2>1
<1> HIDE DEF said, more
<1>6. said # {} => Latest(said) \in 1..n
  BY <1>1, <1>2, LatestIs
<1>7. Given(u, i, n + 1, s) = Given(t, i, n, s)
  BY <1>1, <1>3, <1>4, <1>5, <1>6
<1> QED BY <1>7 DEF n, u

LEMMA RoundsStay ==
  ASSUME NEW t \in Seq(Entry), NEW e \in Entry, NEW g, NEW m \in Nat, m <= Len(t)
  PROVE  Rounds(Append(t, e), g, m) = Rounds(t, g, m)
BY DEF Rounds

LEMMA LatestRound ==
  ASSUME NEW log, NEW g, NEW m \in Nat, Rounds(log, g, m) # {}
  PROVE  /\ Latest(Rounds(log, g, m)) \in 1..m
         /\ log[Latest(Rounds(log, g, m))].mark = "convened"
         /\ log[Latest(Rounds(log, g, m))].gate = g
<1>1. Rounds(log, g, m) \in SUBSET (1..m)
  BY DEF Rounds
<1>2. Latest(Rounds(log, g, m)) \in Rounds(log, g, m)
  BY <1>1, LatestIs
<1> QED BY <1>2 DEF Rounds

LEMMA RoundsFinite ==
  ASSUME NEW log, NEW g, NEW m \in Nat
  PROVE  /\ Cardinality(Rounds(log, g, m)) \in Nat
         /\ Cardinality(Rounds(log, g, m)) = 0 <=> Rounds(log, g, m) = {}
<1>1. Rounds(log, g, m) \in SUBSET (1..m) /\ 1 \in Int /\ m \in Int
  BY DEF Rounds
<1>2. IsFiniteSet(Rounds(log, g, m))
  BY <1>1, FS_Interval, FS_Subset
<1> QED BY <1>2, FS_CardinalityType, FS_EmptySet

\* What a line rests on is before it.
LEMMA EarnedStays ==
  ASSUME GateSetting, NEW t \in Seq(Entry), NEW e \in Entry, NEW m \in 1..Len(t), Earned(t, m)
  PROVE  Earned(Append(t, e), m)
<1> DEFINE u == Append(t, e)
<1>1. (\A i \in 1..m : u[i] = t[i]) /\ m \in 1..m /\ m \in Nat /\ m - 1 \in Nat /\ m <= Len(t)
      /\ \A i \in 1..m : i \in 1..Len(t)
  OBVIOUS
<1>2. \A g : Rounds(u, g, m) = Rounds(t, g, m) /\ Rounds(u, g, m - 1) = Rounds(t, g, m - 1)
  BY <1>1, RoundsStay
<1>3. \A i \in 1..m : \A s : Given(u, i, m, s) = Given(t, i, m, s)
  BY <1>1, GivenStays
<1> HIDE DEF u
<1>4. ASSUME Cleared(t, m) PROVE Cleared(u, m)
  BY <1>1, <1>2, <1>3, <1>4 DEF Cleared, Rounds
<1>5. ASSUME Unjudged(t, m), Rounds(t, t[m].gate, m - 1) # {} PROVE Unjudged(u, m)
  <2> DEFINE last == Latest(Rounds(t, t[m].gate, m - 1))
  <2>1. last \in 1..m
    BY <1>1, <1>5, LatestRound
  <2>2. t[last].sub # t[m].sub \/ \E s \in SetOf(t[last].seats) : Given(t, last, m, s) = "none"
    BY <1>5 DEF Unjudged
  <2>3. last = Latest(Rounds(u, u[m].gate, m - 1))
    BY <1>1, <1>2
  <2> HIDE DEF last
  <2>4. u[last].sub # u[m].sub \/ \E s \in SetOf(u[last].seats) : Given(u, last, m, s) = "none"
    BY <1>1, <1>3, <2>1, <2>2
  <2> QED BY <2>3, <2>4 DEF Unjudged
<1>6. Cardinality(Rounds(t, t[m].gate, m - 1)) >= MAX_ROUNDS => Rounds(t, t[m].gate, m - 1) # {}
  BY <1>1, RoundsFinite DEF GateSetting
<1>7. Earned(u, m)
  BY <1>1, <1>2, <1>4, <1>5, <1>6 DEF Earned
<1> QED BY <1>7 DEF u

\* The board in session, and what the gate reads of it.
LEMMA InSession ==
  ASSUME diary \in Seq(Entry), NEW g, Convened(g) # {}
  PROVE  \E i \in 1..Len(diary) :
           /\ i = Latest(Convened(g)) /\ diary[i].mark = "convened" /\ diary[i].gate = g
           /\ LastDigest(g) = diary[i].sub /\ CurrentSeats(g) = SetOf(diary[i].seats)
           /\ \A s : Verdict(g, s) = Given(diary, i, Len(diary), s)
<1> DEFINE i == Latest(Convened(g))
<1>1. Convened(g) = Rounds(diary, g, Len(diary)) /\ Len(diary) \in Nat
  BY DEF Convened, Rounds
<1>3. i \in 1..Len(diary) /\ diary[i].mark = "convened" /\ diary[i].gate = g
  BY <1>1, LatestRound
<1>4. Since(g) = i
  BY DEF Since
<1> HIDE DEF i
<1>5. ASSUME NEW s PROVE Verdict(g, s) = Given(diary, i, Len(diary), s)
  <2>1. VerdictLines(g, s) = {j \in i..Len(diary) : diary[j].mark = "verdict" /\ diary[j].who = s}
    BY <1>1, <1>3, <1>4 DEF VerdictLines
  <2> QED BY <2>1 DEF Verdict, Given
<1> QED BY <1>3, <1>5 DEF i, LastDigest, CurrentSeats

\* A line that is earned keeps the invariant.
LEMMA EarnedKeeps ==
  ASSUME GateSetting, GateInv, NEW e \in Entry, diary' = Append(diary, e), level' \in DOMAIN Levels,
         Earned(Append(diary, e), Len(diary) + 1)
  PROVE  GateInv'
<1> DEFINE n == Len(diary)
           u == Append(diary, e)
<1>0. diary \in Seq(Entry) /\ \A m \in 1..n : Earned(diary, m)
  BY DEF GateInv
<1>1. n \in Nat /\ u \in Seq(Entry) /\ Len(u) = n + 1
  BY <1>0
<1>2. \A m \in 1..n : Earned(u, m)
  BY <1>0, EarnedStays
<1>3. Earned(u, n + 1) /\ diary' = u
  OBVIOUS
<1> HIDE DEF n, u
<1>4. \A m \in 1..(n + 1) : Earned(u, m)
  BY <1>1, <1>2, <1>3
<1>5. Len(diary') = n + 1 /\ diary' \in Seq(Entry) /\ \A m \in 1..(n + 1) : Earned(diary', m)
  BY <1>1, <1>3, <1>4
<1> QED BY <1>5 DEF GateInv

\* A step that writes nothing keeps what the lines say.
LEMMA SameDiary ==
  ASSUME GateInv, diary' = diary, level' \in DOMAIN Levels
  PROVE  GateInv'
<1>1. (\A n \in 1..Len(diary) : Earned(diary, n))' <=> \A n \in 1..Len(diary') : Earned(diary', n)
  OBVIOUS
<1> QED BY <1>1 DEF GateInv

\* What the gate reads at the end of the diary is what the next line rests on.
LEMMA NextLine ==
  ASSUME diary \in Seq(Entry), NEW e \in Entry, e.mark # "verdict"
  PROVE  LET n == Len(diary)
             u == Append(diary, e)
         IN /\ n \in Nat /\ u[n + 1] = e
            /\ e.mark # "convened" => Rounds(u, e.gate, n + 1) = Convened(e.gate)
            /\ Rounds(u, e.gate, (n + 1) - 1) = Convened(e.gate)
            /\ \A i \in 1..n : u[i] = diary[i]
            /\ \A i \in 1..n : \A s : Given(u, i, n + 1, s) = Given(diary, i, n, s)
<1> DEFINE n == Len(diary)
           u == Append(diary, e)
<1>1. n \in Nat /\ u[n + 1] = e /\ (\A i \in 1..n : u[i] = diary[i])
  OBVIOUS
<1>2. \A i \in 1..n : \A s : Given(u, i, n + 1, s) = Given(diary, i, n, s)
  BY GivenBefore
<1>3. Convened(e.gate) = {i \in 1..n : diary[i].mark = "convened" /\ diary[i].gate = e.gate}
  BY DEF Convened
<1> HIDE DEF n, u
<1>4. (n + 1) - 1 = n
  BY <1>1
<1>5. Rounds(u, e.gate, (n + 1) - 1) = Convened(e.gate)
  BY <1>1, <1>3, <1>4 DEF Rounds
<1>6. e.mark # "convened" => Rounds(u, e.gate, n + 1) = Convened(e.gate)
  BY <1>1, <1>3 DEF Rounds
<1> QED BY <1>1, <1>2, <1>5, <1>6 DEF n, u

LEMMA MarkKeeps ==
  ASSUME GateSetting, GateInv, NEW g \in Gates, NEW d \in Submissions, Mark(g, d), level' = level
  PROVE  GateInv'
<1> DEFINE e == Line(IF Approved(g) THEN "passed" ELSE "released", g, d, <<>>, "none", "none", FALSE)
           n == Len(diary)
           u == Append(diary, e)
<1>1. e \in Entry /\ e.gate = g /\ e.sub = d /\ e.mark = (IF Approved(g) THEN "passed" ELSE "released")
  BY DEF Line, Entry, Seatings
<1>2. diary' = Append(diary, e) /\ LastDigest(g) = d /\ Settled(g) /\ (Approved(g) \/ RoundsRun(g) >= MAX_ROUNDS)
  BY DEF Mark, Write, Judged, Release
<1>3. Convened(g) # {}
  BY <1>2 DEF LastDigest, GateSetting
<1> HIDE DEF e
<1>4. PICK i \in 1..n :
        /\ diary[i].mark = "convened" /\ diary[i].gate = g
        /\ LastDigest(g) = diary[i].sub /\ CurrentSeats(g) = SetOf(diary[i].seats)
        /\ \A s : Verdict(g, s) = Given(diary, i, n, s)
  BY <1>3, InSession DEF GateInv
<1>5. ASSUME Approved(g), NEW s \in CurrentSeats(g) PROVE Verdict(g, s) = "PASS"
  <2>1. Verdict(g, s) # "none" /\ Verdict(g, s) # "FAIL"
    BY <1>2, <1>5 DEF Settled, Approved, Failed
  <2>2. VerdictLines(g, s) # {} /\ Verdict(g, s) = diary[Latest(VerdictLines(g, s))].says
    BY <2>1 DEF Verdict
  <2>3. VerdictLines(g, s) \in SUBSET (1..Len(diary)) /\ Len(diary) \in Nat
    BY DEF VerdictLines, GateInv
  <2>4. Latest(VerdictLines(g, s)) \in 1..Len(diary)
    BY <2>2, <2>3, LatestIs
  <2>5. diary[Latest(VerdictLines(g, s))] \in Entry
    BY <2>4 DEF GateInv
  <2> QED BY <2>1, <2>2, <2>5 DEF Entry
<1>6. /\ n \in Nat /\ u[n + 1] = e /\ Rounds(u, g, n + 1) = Convened(g)
      /\ \A k \in 1..n : u[k] = diary[k]
      /\ \A k \in 1..n : \A s : Given(u, k, n + 1, s) = Given(diary, k, n, s)
  BY <1>1, NextLine DEF GateInv
<1>7. i \in Convened(g)
  BY <1>4 DEF Convened
<1> HIDE DEF n, u
<1>8. Approved(g) => Cleared(u, n + 1)
  BY <1>1, <1>2, <1>4, <1>5, <1>6, <1>7 DEF Cleared
<1>9. Earned(u, n + 1)
  BY <1>1, <1>2, <1>6, <1>8 DEF Earned, RoundsRun
<1> QED BY <1>1, <1>2, <1>9, EarnedKeeps DEF GateInv, n, u

LEMMA ConveneBoardKeeps ==
  ASSUME GateSetting, GateInv, NEW g \in Gates, NEW d \in Submissions, ConveneBoard(g, d), level' = level
  PROVE  GateInv'
<1>1. CASE Staffed = <<>>
  BY <1>1, SameDiary DEF ConveneBoard, GateInv
<1>2. CASE Staffed # <<>>
  <2> DEFINE e == Line("convened", g, d, Staffed, "none", "none", TRUE)
             n == Len(diary)
             u == Append(diary, e)
  <2>1. e \in Entry /\ e.gate = g /\ e.sub = d /\ e.mark = "convened"
    BY DEF Line, Entry, Seatings, Staffed, GateInv
  <2>2. diary' = Append(diary, e) /\ ~ Judged(g, d)
    BY <1>2 DEF ConveneBoard, Write
  <2> HIDE DEF e
  <2>3. /\ n \in Nat /\ u[n + 1] = e /\ Rounds(u, g, (n + 1) - 1) = Convened(g)
        /\ \A k \in 1..n : u[k] = diary[k]
        /\ \A k \in 1..n : \A s : Given(u, k, n + 1, s) = Given(diary, k, n, s)
    BY <2>1, NextLine DEF GateInv
  <2>4. Convened(g) = Rounds(diary, g, n)
    BY DEF Convened, Rounds
  <2>5. ASSUME Cardinality(Convened(g)) >= MAX_ROUNDS PROVE Unjudged(u, n + 1)
    <3>1. Convened(g) # {}
      BY <2>3, <2>4, <2>5, RoundsFinite DEF GateSetting
    <3>2. PICK i \in 1..n :
            /\ i = Latest(Convened(g))
            /\ LastDigest(g) = diary[i].sub /\ CurrentSeats(g) = SetOf(diary[i].seats)
            /\ \A s : Verdict(g, s) = Given(diary, i, n, s)
      BY <3>1, InSession DEF GateInv
    <3> HIDE DEF n, u
    <3>3. diary[i].sub # d \/ \E s \in SetOf(diary[i].seats) : Given(diary, i, n, s) = "none"
      BY <2>2, <3>2 DEF Judged, Settled
    <3> QED BY <2>1, <2>3, <3>2, <3>3 DEF Unjudged
  <2> HIDE DEF n, u
  <2>6. Earned(u, n + 1)
    BY <2>1, <2>3, <2>5 DEF Earned
  <2> QED BY <2>1, <2>2, <2>6, EarnedKeeps DEF GateInv, n, u
<1> QED BY <1>1, <1>2

LEMMA VerdictKeeps ==
  ASSUME GateSetting, GateInv, NEW s \in SeatNames, NEW v \in {"PASS", "FAIL"}, NEW b \in BOOLEAN,
         Write(Line("verdict", "none", "none", <<>>, s, v, b)), level' = level
  PROVE  GateInv'
<1> DEFINE e == Line("verdict", "none", "none", <<>>, s, v, b)
<1>1. e \in Entry /\ e.mark = "verdict" /\ e.says = v
  BY DEF Line, Entry, Seatings
<1>2. diary' = Append(diary, e)
  BY DEF Write
<1> HIDE DEF e
<1>3. Append(diary, e)[Len(diary) + 1] = e
  BY DEF GateInv
<1>4. Earned(Append(diary, e), Len(diary) + 1)
  BY <1>1, <1>3 DEF Earned
<1> QED BY <1>1, <1>2, <1>4, EarnedKeeps DEF GateInv

LEMMA StepGateInv == GateSetting /\ GateInv /\ [GateNext]_gate_vars => GateInv'
<1> SUFFICES ASSUME GateSetting, GateInv, [GateNext]_gate_vars PROVE GateInv'
  OBVIOUS
<1>0. level \in DOMAIN Levels
  BY DEF GateInv
<1>1. ASSUME NEW g \in Gates, NEW d \in Submissions, Submit(g, d) PROVE GateInv'
  <2>1. level' = level
    BY <1>1 DEF Submit
  <2>2. CASE Skip(g, d)
    BY <2>1, <2>2, <1>0, SameDiary DEF Skip
  <2>3. CASE Mark(g, d)
    BY <2>1, <2>3, MarkKeeps
  <2>4. CASE ChangesRequested(g, d)
    BY <2>1, <2>4, <1>0, SameDiary DEF ChangesRequested
  <2>5. CASE ConveneBoard(g, d)
    BY <2>1, <2>5, ConveneBoardKeeps
  <2> QED BY <1>1, <2>2, <2>3, <2>4, <2>5 DEF Submit
<1>2. ASSUME NEW s \in SeatNames, NEW v \in {"PASS", "FAIL"}, Review(s, v) PROVE GateInv'
  BY <1>2, VerdictKeeps DEF Review
<1>3. ASSUME NEW s \in SeatNames, NEW v \in {"PASS", "FAIL"}, SideConsult(s, v) PROVE GateInv'
  BY <1>3, VerdictKeeps DEF SideConsult
<1>4. ASSUME NEW s \in SeatNames, Decline(s) PROVE GateInv'
  BY <1>4, <1>0, SameDiary DEF Decline
<1>5. ASSUME NEW b \in BOOLEAN, DecidePlan(b) PROVE GateInv'
  BY <1>5, <1>0, SameDiary DEF DecidePlan
<1>6. CASE GoOn
  BY <1>6, <1>0, SameDiary DEF GoOn
<1>7. ASSUME NEW l \in DOMAIN Levels, SetLevel(l) PROVE GateInv'
  BY <1>7, SameDiary DEF SetLevel
<1>8. CASE UNCHANGED gate_vars
  BY <1>8, <1>0, SameDiary DEF gate_vars
<1> QED BY <1>1, <1>2, <1>3, <1>4, <1>5, <1>6, <1>7, <1>8 DEF GateNext

\* Whatever the boards, the levels and the texts: what is marked as passed was
\* read and passed by every seat of a board convened for this very text; only
\* MAX_ROUNDS rounds carry work past its reviewers; and a round beyond them is
\* for a text the last board has not judged.
THEOREM GateKept ==
  ASSUME GateSetting PROVE GateSpec => [](PassedWasRead /\ ReleasedAfterCap /\ RoundsAfterCap)
<1>1. GateInit => GateInv
  BY DEF GateInit, GateInv
<1>2. GateInv /\ [GateNext]_gate_vars => GateInv'
  BY StepGateInv
<1>3. GateInv => PassedWasRead /\ ReleasedAfterCap /\ RoundsAfterCap
  BY DEF GateInv, Earned, PassedWasRead, ReleasedAfterCap, RoundsAfterCap
<1> QED BY <1>1, <1>2, <1>3, PTL DEF GateSpec

----------------------------------------------------------------------------
(***************************************************************************)
(* Publishing.  A request is at a publish from its first read to its       *)
(* commit; while no two are (Unraced), what it has read is what is there.  *)
(***************************************************************************)
\* A first draft of the assistant has room.
AuthoringSetting == MaxVersions \in Nat \ {0}

Publishing == {"version", "flush", "flushed"}
VersionStatus == {"draft", "published", "archived"}
Errors == {g.errors : g \in Graphs}
Agents == {g.agents : g \in Graphs}
VersionRow == [status : VersionStatus, errors : Errors, agents : Agents]
RequestRow == [pc : {"idle", "insert", "run"} \cup Publishing, v : Nat, active : Nat,
               status : VersionStatus, prior : VersionStatus]
RunRow == [ver : Nat, status : {"waiting", "succeeded", "failed"}]

AuthoringTypes ==
  /\ wf \in [there : BOOLEAN, enabled : BOOLEAN, active : Nat]
  /\ ver \in Seq(VersionRow) /\ runs \in Seq(RunRow)
  /\ req \in [Requests -> RequestRow]
  /\ raced \in BOOLEAN /\ refused \in BOOLEAN

\* Versions are never taken away: what names one goes on naming one.
Bound ==
  /\ wf.active \in 0 .. Len(ver) /\ Len(ver) <= MaxVersions
  /\ \A r \in DOMAIN runs : runs[r].ver \in DOMAIN ver
  /\ \A p \in Requests :
       /\ req[p].pc = "insert" => req[p].v <= MaxVersions
       /\ req[p].pc \in {"flush", "flushed", "run"} => req[p].v \in DOMAIN ver
       /\ req[p].active \in 0 .. Len(ver)

\* A version that was flushed is locked by one publish, and the workflow cannot
\* be deleted meanwhile.
Flushed ==
  /\ \A p \in Requests : req[p].pc = "flushed" => wf.there
  /\ \A p, o \in Requests : req[p].pc = "flushed" /\ req[o].pc = "flushed" /\ req[p].v = req[o].v => p = o

\* While no publish has met another or a run: it is alone, it has read the
\* version that is live, and so has a run that is to begin.
Undisputed ==
  /\ \A p, o \in Requests : req[p].pc \in Publishing /\ req[o].pc \in Publishing \cup {"run"} => p = o
  /\ \A p \in Requests :
       /\ req[p].pc \in Publishing => req[p].active = wf.active
       /\ req[p].pc \in {"flush", "flushed"} => req[p].status = ver[req[p].v].status
       /\ req[p].pc = "flushed" /\ wf.active # 0 => req[p].prior = ver[wf.active].status
       /\ req[p].pc = "run" => req[p].v = wf.active
  /\ wf.active # 0 => wf.active \in Published
  /\ Published \subseteq {wf.active}
  /\ ~refused

AuthoringInv == AuthoringTypes /\ Bound /\ Flushed /\ (~raced => Undisputed)


LEMMA NoRequestIs == NoRequest \in RequestRow /\ NoRequest.pc = "idle" /\ NoRequest.active = 0 /\ NoRequest.v = 0
BY DEF NoRequest, RequestRow, VersionStatus

LEMMA VersionIs ==
  ASSUME AuthoringTypes, NEW v \in DOMAIN ver
  PROVE  ver[v] \in VersionRow /\ ver[v].status \in VersionStatus /\ v \in Nat
<1>1. ver \in Seq(VersionRow)
  BY DEF AuthoringTypes
<1>2. ver[v] \in VersionRow
  BY <1>1
<1> QED BY <1>1, <1>2 DEF VersionRow

LEMMA DraftIs == ASSUME NEW g \in Graphs PROVE Draft(g) \in VersionRow /\ Draft(g).status = "draft"
<1>1. g.errors \in Errors /\ g.agents \in Agents
  BY DEF Errors, Agents
<1> QED BY <1>1 DEF Draft, VersionRow, VersionStatus

\* A request that leaves without having written anything.
LEMMA LeavesPlain ==
  ASSUME AuthoringInv, NEW p \in Requests, Done(p), UNCHANGED <<wf, ver, runs, refused>>, raced' = raced
  PROVE  AuthoringInv'
<1>1. req' = [req EXCEPT ![p] = NoRequest] /\ req \in [Requests -> RequestRow]
  BY DEF Done, AuthoringInv, AuthoringTypes
<1>2. req'[p] = NoRequest /\ \A o \in Requests : o # p => req'[o] = req[o]
  BY <1>1
<1>3. AuthoringTypes'
  BY <1>1, NoRequestIs DEF AuthoringInv, AuthoringTypes
<1>4. Bound'
  BY <1>2, NoRequestIs DEF AuthoringInv, Bound, AuthoringTypes
<1>5. Flushed'
  BY <1>2, NoRequestIs DEF AuthoringInv, Flushed
<1>6. ~raced' => Undisputed'
  BY <1>2, NoRequestIs DEF AuthoringInv, Undisputed, Published, Publishing
<1> QED BY <1>3, <1>4, <1>5, <1>6 DEF AuthoringInv

\* A request that goes on.
LEMMA SaveDraftKeeps == ASSUME AuthoringSetting, AuthoringInv, NEW p \in Requests, SaveDraft(p) PROVE AuthoringInv'
<1> DEFINE d == [NoRequest EXCEPT !.pc = "insert", !.v = Len(ver) + 1]
<1>1. req' = [req EXCEPT ![p] = d] /\ req \in [Requests -> RequestRow] /\ Len(ver) \in Nat /\ Len(ver) < MaxVersions
      /\ UNCHANGED <<wf, ver, runs, refused, raced>>
  BY DEF SaveDraft, AuthoringInv, AuthoringTypes
<1>2. d \in RequestRow /\ d.pc = "insert" /\ d.active = 0 /\ d.v = Len(ver) + 1
  <2>1. PICK n \in Nat : n = Len(ver) + 1
    BY <1>1
  <2> QED BY <2>1 DEF NoRequest, RequestRow, VersionStatus
<1> HIDE DEF d
<1>3. req'[p] = d /\ \A o \in Requests : o # p => req'[o] = req[o]
  BY <1>1
<1>4. AuthoringTypes'
  BY <1>1, <1>2 DEF AuthoringInv, AuthoringTypes
<1>5. Bound'
  BY <1>1, <1>2, <1>3 DEF AuthoringInv, Bound, AuthoringTypes, AuthoringSetting
<1>6. Flushed'
  BY <1>1, <1>2, <1>3 DEF AuthoringInv, Flushed
<1>7. ~raced' => Undisputed'
  BY <1>1, <1>2, <1>3 DEF AuthoringInv, Undisputed, Published, Publishing
<1> QED BY <1>4, <1>5, <1>6, <1>7 DEF AuthoringInv

LEMMA InsertDraftKeeps == ASSUME AuthoringInv, NEW p \in Requests, NEW g \in Graphs, InsertDraft(p, g) PROVE AuthoringInv'
<1>1. CASE ver' = ver
  BY <1>1, LeavesPlain DEF InsertDraft
<1>2. CASE ver' # ver
  <2>1. /\ req[p].pc = "insert" /\ req' = [req EXCEPT ![p] = NoRequest] /\ req \in [Requests -> RequestRow]
        /\ ver' = Append(ver, Draft(g)) /\ req[p].v = Len(ver) + 1
        /\ UNCHANGED <<wf, runs, refused, raced>> /\ ver \in Seq(VersionRow) /\ Draft(g) \in VersionRow
    BY <1>2, DraftIs DEF InsertDraft, Done, AuthoringInv, AuthoringTypes
  <2>2. /\ ver' \in Seq(VersionRow) /\ Len(ver') = Len(ver) + 1 /\ Len(ver) \in Nat
        /\ \A w \in DOMAIN ver : ver'[w] = ver[w] /\ w \in DOMAIN ver'
        /\ DOMAIN ver = 1 .. Len(ver) /\ DOMAIN ver' = 1 .. Len(ver) + 1
        /\ ver'[Len(ver) + 1].status = "draft"
    BY <2>1 DEF Draft
  <2>3. req'[p] = NoRequest /\ \A o \in Requests : o # p => req'[o] = req[o]
    BY <2>1
  <2>4. AuthoringTypes'
    BY <2>1, <2>2, NoRequestIs DEF AuthoringInv, AuthoringTypes
  <2>5. Bound'
    BY <2>1, <2>2, <2>3, NoRequestIs DEF AuthoringInv, Bound, AuthoringTypes
  <2>6. Flushed'
    BY <2>1, <2>3, NoRequestIs DEF AuthoringInv, Flushed
  <2>7. Published' = Published
    BY <2>2 DEF Published
  <2>8. ~raced' => Undisputed'
    BY <2>1, <2>2, <2>3, <2>7, NoRequestIs DEF AuthoringInv, Undisputed, Publishing, Bound, AuthoringTypes
  <2> QED BY <2>4, <2>5, <2>6, <2>8 DEF AuthoringInv
<1> QED BY <1>1, <1>2

LEMMA PublishStartKeeps == ASSUME AuthoringInv, NEW p \in Requests, PublishStart(p) PROVE AuthoringInv'
<1> DEFINE d == [NoRequest EXCEPT !.pc = "version", !.active = wf.active]
<1>1. req' = [req EXCEPT ![p] = d] /\ req \in [Requests -> RequestRow] /\ wf.active \in Nat
      /\ UNCHANGED <<wf, ver, runs, refused>>
  BY DEF PublishStart, AuthoringInv, AuthoringTypes
<1>2. d \in RequestRow /\ d.pc = "version" /\ d.active = wf.active
  BY <1>1 DEF NoRequest, RequestRow, VersionStatus, Publishing
<1> HIDE DEF d
<1>3. req'[p] = d /\ \A o \in Requests : o # p => req'[o] = req[o]
  BY <1>1
<1>4. raced' \in BOOLEAN /\ (~raced' => ~raced /\ \A o \in Requests : req[o].pc \notin Publishing \cup {"run"})
  BY DEF PublishStart, Publishing, AuthoringInv, AuthoringTypes
<1>5. AuthoringTypes'
  BY <1>1, <1>2, <1>4 DEF AuthoringInv, AuthoringTypes
<1>6. Bound'
  BY <1>1, <1>2, <1>3 DEF AuthoringInv, Bound, AuthoringTypes
<1>7. Flushed'
  BY <1>1, <1>2, <1>3 DEF AuthoringInv, Flushed
<1>8. ~raced' => Undisputed'
  <2> SUFFICES ASSUME ~raced' PROVE Undisputed'
    OBVIOUS
  <2>1. Undisputed
    BY <1>4 DEF AuthoringInv
  <2>2. \A o \in Requests : o # p => req'[o].pc \notin Publishing \cup {"run"}
    BY <1>3, <1>4
  <2>3. Published' = Published
    BY <1>1 DEF Published
  <2> QED BY <1>1, <1>2, <1>3, <2>1, <2>2, <2>3 DEF Undisputed, Publishing
<1> QED BY <1>5, <1>6, <1>7, <1>8 DEF AuthoringInv

LEMMA PublishReadKeeps == ASSUME AuthoringInv, NEW p \in Requests, NEW v \in 1 .. MaxVersions, PublishRead(p, v) PROVE AuthoringInv'
<1>1. CASE ~(Exists(v) /\ Preflight(v))
  BY <1>1, LeavesPlain DEF PublishRead
<1>2. CASE Exists(v) /\ Preflight(v)
  <2> DEFINE d == [req[p] EXCEPT !.pc = "flush", !.v = v, !.status = ver[v].status]
  <2>1. /\ req[p].pc = "version" /\ req' = [req EXCEPT ![p] = d] /\ req \in [Requests -> RequestRow]
        /\ UNCHANGED <<wf, ver, runs, refused, raced>> /\ v \in DOMAIN ver /\ v \in Nat /\ ver[v].status \in VersionStatus
    <3>1. req \in [Requests -> RequestRow] /\ v \in DOMAIN ver
      BY <1>2 DEF AuthoringInv, AuthoringTypes, Exists
    <3>2. v \in Nat /\ ver[v].status \in VersionStatus
      BY <3>1, VersionIs DEF AuthoringInv
    <3>3. req[p].pc = "version" /\ req' = [req EXCEPT ![p] = d] /\ UNCHANGED <<wf, ver, runs, refused, raced>>
      BY <1>2, <3>1 DEF PublishRead
    <3> QED BY <3>1, <3>2, <3>3
  <2>2. d \in RequestRow /\ d.pc = "flush" /\ d.active = req[p].active /\ d.v = v /\ d.status = ver[v].status
    <3>1. req[p] \in RequestRow
      BY <2>1
    <3> QED BY <2>1, <3>1 DEF RequestRow, Publishing
  <2> HIDE DEF d
  <2>3. req'[p] = d /\ \A o \in Requests : o # p => req'[o] = req[o]
    BY <2>1
  <2>4. AuthoringTypes'
    BY <2>1, <2>2 DEF AuthoringInv, AuthoringTypes
  <2>5. Bound'
    BY <2>1, <2>2, <2>3 DEF AuthoringInv, Bound, AuthoringTypes
  <2>6. Flushed'
    BY <2>1, <2>2, <2>3 DEF AuthoringInv, Flushed
  <2>7. ~raced' => Undisputed'
    BY <2>1, <2>2, <2>3 DEF AuthoringInv, Undisputed, Published, Publishing
  <2> QED BY <2>4, <2>5, <2>6, <2>7 DEF AuthoringInv
<1> QED BY <1>1, <1>2

LEMMA PublishFlushKeeps == ASSUME AuthoringInv, NEW p \in Requests, PublishFlush(p) PROVE AuthoringInv'
<1>1. CASE ~Exists(req[p].v)
  BY <1>1, LeavesPlain DEF PublishFlush, Done
<1>2. CASE Exists(req[p].v)
  <2> DEFINE prior == IF Exists(req[p].active) THEN ver[req[p].active].status ELSE "draft"
             d == [req[p] EXCEPT !.pc = "flushed", !.prior = prior]
  <2>1. /\ req[p].pc = "flush" /\ req' = [req EXCEPT ![p] = d] /\ req \in [Requests -> RequestRow]
        /\ UNCHANGED <<wf, ver, runs, refused, raced>> /\ wf.there /\ req[p].v \in DOMAIN ver
        /\ LockedBy(req[p].v) \subseteq {p}
    BY <1>2 DEF AuthoringInv, AuthoringTypes, PublishFlush, Exists, Free
  <2>2. prior \in VersionStatus
    BY VersionIs DEF AuthoringInv, Exists, VersionStatus
  <2>3. req[p].active \in DOMAIN ver => prior = ver[req[p].active].status
    BY <2>1 DEF Exists
  <2> HIDE DEF prior
  <2>4. d \in RequestRow /\ d.pc = "flushed" /\ d.active = req[p].active /\ d.v = req[p].v /\ d.status = req[p].status /\ d.prior = prior
    <3>1. req[p] \in RequestRow
      BY <2>1
    <3> QED BY <2>2, <3>1 DEF RequestRow, Publishing
  <2> HIDE DEF d
  <2>5. req'[p] = d /\ \A o \in Requests : o # p => req'[o] = req[o]
    BY <2>1
  <2>6. AuthoringTypes'
    BY <2>1, <2>4 DEF AuthoringInv, AuthoringTypes
  <2>7. Bound'
    BY <2>1, <2>4, <2>5 DEF AuthoringInv, Bound, AuthoringTypes
  <2>8. Flushed'
    BY <2>1, <2>4, <2>5 DEF AuthoringInv, Flushed, LockedBy
  <2>9. ~raced' => Undisputed'
    <3>1. wf.active \in 0 .. Len(ver) /\ DOMAIN ver = 1 .. Len(ver) /\ Len(ver) \in Nat
      BY DEF AuthoringInv, Bound, AuthoringTypes
    <3>2. ~raced /\ wf.active # 0 => d.prior = ver[wf.active].status
      BY <2>1, <2>3, <2>4, <3>1 DEF AuthoringInv, Undisputed, Publishing
    <3> QED BY <2>1, <2>4, <2>5, <3>2 DEF AuthoringInv, Undisputed, Published, Publishing
  <2> QED BY <2>6, <2>7, <2>8, <2>9 DEF AuthoringInv
<1> QED BY <1>1, <1>2

LEMMA PublishCommitKeeps == ASSUME AuthoringInv, NEW p \in Requests, PublishCommit(p) PROVE AuthoringInv'
<1> DEFINE t == req[p]
           St(v) == IF v = t.v /\ t.status # "published" THEN "published"
                    ELSE IF v = t.active /\ Archives(t) THEN "archived" ELSE ver[v].status
<1>1. /\ t.pc = "flushed" /\ req' = [req EXCEPT ![p] = NoRequest] /\ req \in [Requests -> RequestRow] /\ t \in RequestRow
      /\ ver' = [v \in DOMAIN ver |-> [ver[v] EXCEPT !.status = St(v)]]
      /\ wf' = (IF t.active # t.v THEN [wf EXCEPT !.active = t.v] ELSE wf)
      /\ UNCHANGED <<runs, refused, raced>>
  BY DEF PublishCommit, Done, AuthoringInv, AuthoringTypes
<1>2. /\ ver \in Seq(VersionRow) /\ DOMAIN ver = 1 .. Len(ver) /\ Len(ver) \in Nat
      /\ t.v \in DOMAIN ver /\ t.active \in 0 .. Len(ver) /\ wf.active \in 0 .. Len(ver)
  BY <1>1 DEF AuthoringInv, Bound, AuthoringTypes
<1>3. \A v \in DOMAIN ver : St(v) \in VersionStatus
  BY VersionIs DEF AuthoringInv, VersionStatus
<1>4. \A v \in DOMAIN ver : [ver[v] EXCEPT !.status = St(v)] \in VersionRow /\ [ver[v] EXCEPT !.status = St(v)].status = St(v)
  <2> SUFFICES ASSUME NEW v \in DOMAIN ver PROVE [ver[v] EXCEPT !.status = St(v)] \in VersionRow /\ [ver[v] EXCEPT !.status = St(v)].status = St(v)
    OBVIOUS
  <2>1. ver[v] \in VersionRow /\ St(v) \in VersionStatus
    BY <1>3, VersionIs DEF AuthoringInv
  <2> HIDE DEF St
  <2> QED BY <2>1 DEF VersionRow
<1>5. ver' \in Seq(VersionRow) /\ Len(ver') = Len(ver) /\ DOMAIN ver' = DOMAIN ver /\ \A v \in DOMAIN ver : ver'[v].status = St(v)
  <2> HIDE DEF St
  <2>1. ver' \in [1 .. Len(ver) -> VersionRow]
    BY <1>1, <1>2, <1>4
  <2>2. ver' \in Seq(VersionRow) /\ Len(ver') = Len(ver)
    BY <1>2, <2>1, SeqDef
  <2>3. \A v \in DOMAIN ver : ver'[v].status = St(v)
    BY <1>1, <1>4
  <2> QED BY <1>2, <2>1, <2>2, <2>3
<1>6. wf' \in [there : BOOLEAN, enabled : BOOLEAN, active : Nat] /\ wf'.active \in 0 .. Len(ver) /\ wf'.there = wf.there
      /\ (wf'.active = t.v \/ (wf'.active = wf.active /\ t.active = t.v))
  <2>1. wf \in [there : BOOLEAN, enabled : BOOLEAN, active : Nat] /\ t.v \in 0 .. Len(ver) /\ t.v \in Nat
    BY <1>2 DEF AuthoringInv, AuthoringTypes
  <2>2. CASE t.active # t.v
    BY <1>1, <2>1, <2>2
  <2>3. CASE t.active = t.v
    BY <1>1, <1>2, <2>1, <2>3
  <2> QED BY <2>2, <2>3
<1>7. req'[p] = NoRequest /\ \A o \in Requests : o # p => req'[o] = req[o]
  BY <1>1
<1> HIDE DEF t, St
<1>8. AuthoringTypes'
  BY <1>1, <1>5, <1>6, NoRequestIs DEF AuthoringInv, AuthoringTypes
<1>9. Bound'
  BY <1>1, <1>5, <1>6, <1>7, NoRequestIs DEF AuthoringInv, Bound, AuthoringTypes
<1>10. Flushed'
  BY <1>1, <1>6, <1>7, NoRequestIs DEF AuthoringInv, Flushed
<1>11. ~raced' => Undisputed'
  <2> SUFFICES ASSUME ~raced' PROVE Undisputed'
    OBVIOUS
  <2>1. Undisputed /\ t = req[p]
    BY <1>1 DEF AuthoringInv, t
  <2>2. \A o \in Requests : req'[o].pc \notin Publishing \cup {"run"}
    BY <1>1, <1>7, <2>1, NoRequestIs DEF Undisputed, Publishing
  <2>3. t.active = wf.active /\ t.status = ver[t.v].status /\ (wf.active # 0 => t.prior = "published")
    BY <1>1, <2>1 DEF Undisputed, Publishing, Published
  <2>4. wf'.active = t.v
    BY <1>6, <2>3
  <2>5. \A v \in DOMAIN ver : ver'[v].status = "published" <=> v = t.v
    <3>1. \A v \in DOMAIN ver : v # wf.active => ver[v].status # "published"
      BY <2>1 DEF Undisputed, Published
    <3>2. Archives(t) <=> wf.active \notin {0, t.v}
      BY <2>3 DEF Archives
    <3>3. ASSUME NEW v \in DOMAIN ver PROVE St(v) = "published" <=> v = t.v
      <4>1. CASE v = t.v
        BY <4>1, <2>3, <3>2 DEF St
      <4>2. CASE v # t.v /\ v = wf.active
        BY <4>2, <1>2, <2>3, <3>2 DEF St
      <4>3. CASE v # t.v /\ v # wf.active
        BY <4>3, <2>3, <3>1 DEF St
      <4> QED BY <4>1, <4>2, <4>3
    <3> QED BY <1>5, <3>3
  <2>6. Published' = {t.v}
    BY <1>2, <1>5, <2>5 DEF Published
  <2>7. ~refused'
    BY <1>1, <2>1 DEF Undisputed
  <2> QED BY <2>2, <2>4, <2>6, <2>7 DEF Undisputed, Publishing
<1> QED BY <1>8, <1>9, <1>10, <1>11 DEF AuthoringInv

LEMMA RunReadKeeps == ASSUME AuthoringInv, NEW p \in Requests, RunRead(p) PROVE AuthoringInv'
<1> DEFINE d == [NoRequest EXCEPT !.pc = "run", !.v = wf.active]
<1>0. raced' \in BOOLEAN /\ (~raced' => ~raced /\ \A o \in Requests : req[o].pc \notin Publishing)
      /\ UNCHANGED <<wf, ver, runs, refused>> /\ req \in [Requests -> RequestRow]
  BY DEF RunRead, Publishing, AuthoringInv, AuthoringTypes
<1>1. CASE req' = req
  <2>1. AuthoringTypes' /\ Bound' /\ Flushed'
    BY <1>0, <1>1 DEF AuthoringInv, AuthoringTypes, Bound, Flushed
  <2>2. ~raced' => Undisputed'
    BY <1>0, <1>1 DEF AuthoringInv, Undisputed, Published
  <2> QED BY <2>1, <2>2 DEF AuthoringInv
<1>2. CASE req' # req
  <2>1. req' = [req EXCEPT ![p] = d] /\ wf.active # 0
    BY <1>2 DEF RunRead
  <2>2. wf.active \in DOMAIN ver /\ wf.active \in Nat
    BY <2>1 DEF AuthoringInv, Bound, AuthoringTypes
  <2>3. d \in RequestRow /\ d.pc = "run" /\ d.active = 0 /\ d.v = wf.active
    BY <2>2 DEF NoRequest, RequestRow, VersionStatus
  <2> HIDE DEF d
  <2>4. req'[p] = d /\ \A o \in Requests : o # p => req'[o] = req[o]
    BY <1>0, <2>1
  <2>5. AuthoringTypes'
    BY <1>0, <2>1, <2>3 DEF AuthoringInv, AuthoringTypes
  <2>6. Bound'
    BY <1>0, <2>2, <2>3, <2>4 DEF AuthoringInv, Bound, AuthoringTypes
  <2>7. Flushed'
    BY <1>0, <2>3, <2>4 DEF AuthoringInv, Flushed
  <2>8. ~raced' => Undisputed'
    <3>1. ASSUME ~raced' PROVE Undisputed /\ \A o \in Requests : req'[o].pc \notin Publishing
      BY <3>1, <1>0, <2>3, <2>4 DEF AuthoringInv, Publishing
    <3>2. Published' = Published
      BY <1>0 DEF Published
    <3> QED BY <1>0, <2>3, <2>4, <3>1, <3>2 DEF Undisputed, Publishing
  <2> QED BY <2>5, <2>6, <2>7, <2>8 DEF AuthoringInv
<1> QED BY <1>1, <1>2

\* A run is added, of a version that is there.
LEMMA NewRunBound ==
  ASSUME AuthoringInv, NEW v \in DOMAIN ver, runs' = NewRun(v), ver' = ver
  PROVE  runs' \in Seq(RunRow) /\ \A r \in DOMAIN runs' : runs'[r].ver \in DOMAIN ver
<1>1. runs \in Seq(RunRow) /\ v \in Nat /\ [ver |-> v, status |-> "waiting"] \in RunRow
  BY DEF AuthoringInv, AuthoringTypes, RunRow
<1>2. \A r \in DOMAIN runs : runs[r].ver \in DOMAIN ver
  BY DEF AuthoringInv, Bound
<1>3. runs' \in Seq(RunRow) /\ DOMAIN runs' = 1 .. Len(runs) + 1 /\ DOMAIN runs = 1 .. Len(runs) /\ Len(runs) \in Nat
      /\ runs'[Len(runs) + 1].ver = v /\ \A r \in 1 .. Len(runs) : runs'[r] = runs[r]
  BY <1>1 DEF NewRun
<1> QED BY <1>2, <1>3

LEMMA RunStartKeeps == ASSUME AuthoringInv, NEW p \in Requests, RunStart(p) PROVE AuthoringInv'
<1> DEFINE good == Exists(req[p].v) /\ ver[req[p].v].status = "published"
<1>1. /\ req[p].pc = "run" /\ req' = [req EXCEPT ![p] = NoRequest] /\ req \in [Requests -> RequestRow]
      /\ UNCHANGED <<wf, ver, raced>>
  BY DEF RunStart, Done, AuthoringInv, AuthoringTypes
<1>2. req'[p] = NoRequest /\ \A o \in Requests : o # p => req'[o] = req[o]
  BY <1>1
<1>3. runs' \in Seq(RunRow) /\ (\A r \in DOMAIN runs' : runs'[r].ver \in DOMAIN ver)
  <2>1. CASE good
    BY <2>1, NewRunBound DEF RunStart, Exists
  <2>2. CASE ~good
    BY <2>2 DEF RunStart, AuthoringInv, AuthoringTypes, Bound
  <2> QED BY <2>1, <2>2
<1>4. refused' \in BOOLEAN /\ (~raced => refused' = refused)
  <2>1. CASE good
    BY <2>1 DEF RunStart, AuthoringInv, AuthoringTypes
  <2>2. CASE ~good
    <3>1. refused' = (refused \/ wf.there)
      BY <2>2 DEF RunStart
    <3>2. ~raced /\ wf.there => good
      BY <1>1 DEF AuthoringInv, Undisputed, Bound, Exists, Published, AuthoringTypes
    <3>3. refused \in BOOLEAN /\ wf.there \in BOOLEAN
      BY DEF AuthoringInv, AuthoringTypes
    <3> QED BY <2>2, <3>1, <3>2, <3>3
  <2> QED BY <2>1, <2>2
<1>5. AuthoringTypes'
  BY <1>1, <1>3, <1>4, NoRequestIs DEF AuthoringInv, AuthoringTypes
<1>6. Bound'
  BY <1>1, <1>2, <1>3, NoRequestIs DEF AuthoringInv, Bound, AuthoringTypes
<1>7. Flushed'
  BY <1>1, <1>2, NoRequestIs DEF AuthoringInv, Flushed
<1>8. ~raced' => Undisputed'
  BY <1>1, <1>2, <1>4, NoRequestIs DEF AuthoringInv, Undisputed, Published, Publishing
<1> QED BY <1>5, <1>6, <1>7, <1>8 DEF AuthoringInv

\* What leaves the requests and the versions alone.
LEMMA ElsewhereKeeps ==
  ASSUME AuthoringInv, UNCHANGED <<ver, req, raced, refused>>,
         wf' \in [there : BOOLEAN, enabled : BOOLEAN, active : Nat], wf'.active = wf.active,
         (\E p \in Requests : req[p].pc = "flushed") => wf'.there,
         runs' \in Seq(RunRow), \A r \in DOMAIN runs' : runs'[r].ver \in DOMAIN ver
  PROVE  AuthoringInv'
<1>1. AuthoringTypes'
  BY DEF AuthoringInv, AuthoringTypes
<1>2. Bound'
  BY DEF AuthoringInv, Bound
<1>3. Flushed'
  BY DEF AuthoringInv, Flushed
<1>4. ~raced' => Undisputed'
  BY DEF AuthoringInv, Undisputed, Published
<1> QED BY <1>1, <1>2, <1>3, <1>4 DEF AuthoringInv

LEMMA RunsAsWere == ASSUME AuthoringInv, UNCHANGED <<runs, ver>> PROVE runs' \in Seq(RunRow) /\ \A r \in DOMAIN runs' : runs'[r].ver \in DOMAIN ver
BY DEF AuthoringInv, AuthoringTypes, Bound

LEMMA WfAsWas ==
  ASSUME AuthoringInv, wf' = wf
  PROVE  /\ wf' \in [there : BOOLEAN, enabled : BOOLEAN, active : Nat] /\ wf'.active = wf.active
         /\ (\E p \in Requests : req[p].pc = "flushed") => wf'.there
BY DEF AuthoringInv, AuthoringTypes, Flushed

LEMMA WorkflowKeeps == ASSUME AuthoringInv, (\E b \in BOOLEAN : SetEnabled(b)) \/ DeleteWorkflow \/ ChangeAgent PROVE AuthoringInv'
<1>1. ASSUME NEW b \in BOOLEAN, SetEnabled(b) PROVE AuthoringInv'
  <2>1. wf' = [wf EXCEPT !.enabled = b] /\ wf.there /\ wf \in [there : BOOLEAN, enabled : BOOLEAN, active : Nat]
    BY <1>1 DEF SetEnabled, AuthoringInv, AuthoringTypes
  <2>2. wf' \in [there : BOOLEAN, enabled : BOOLEAN, active : Nat] /\ wf'.active = wf.active /\ wf'.there
    BY <2>1
  <2>3. UNCHANGED <<ver, req, raced, refused, runs>>
    BY <1>1 DEF SetEnabled
  <2> QED BY <2>2, <2>3, RunsAsWere, ElsewhereKeeps
<1>2. ASSUME DeleteWorkflow PROVE AuthoringInv'
  <2>1. wf' = [wf EXCEPT !.there = FALSE] /\ wf \in [there : BOOLEAN, enabled : BOOLEAN, active : Nat]
    BY <1>2 DEF DeleteWorkflow, AuthoringInv, AuthoringTypes
  <2>2. wf' \in [there : BOOLEAN, enabled : BOOLEAN, active : Nat] /\ wf'.active = wf.active
    BY <2>1
  <2>3. UNCHANGED <<ver, req, raced, refused, runs>>
    BY <1>2 DEF DeleteWorkflow
  <2>4. \A p \in Requests : req[p].pc # "flushed"
    <3>1. \A p \in Requests : req[p].pc = "flushed" => req[p].v \in DOMAIN ver /\ p \in LockedBy(req[p].v)
      BY DEF AuthoringInv, Bound, LockedBy
    <3> QED BY <1>2, <3>1 DEF DeleteWorkflow
  <2> QED BY <2>2, <2>3, <2>4, RunsAsWere, ElsewhereKeeps
<1>3. ASSUME ChangeAgent PROVE AuthoringInv'
  <2>1. UNCHANGED <<wf, ver, req, raced, refused, runs>>
    BY <1>3 DEF ChangeAgent
  <2> QED BY <2>1, WfAsWas, RunsAsWere, ElsewhereKeeps
<1> QED BY <1>1, <1>2, <1>3

LEMMA TriggerKeeps == ASSUME AuthoringInv, Trigger PROVE AuthoringInv'
<1>1. wf.active \in DOMAIN ver
  BY DEF Trigger, AuthoringInv, AuthoringTypes, Bound
<1>2. runs' = NewRun(wf.active) /\ UNCHANGED <<wf, ver, req, raced, refused>>
  BY DEF Trigger
<1> QED BY <1>1, <1>2, NewRunBound, WfAsWas, ElsewhereKeeps

LEMMA MoveKeeps ==
  ASSUME AuthoringInv, NEW r \in DOMAIN runs, NEW from, NEW to \in {"waiting", "succeeded", "failed"}, Move(r, from, to)
  PROVE  AuthoringInv'
<1>1. runs' = [runs EXCEPT ![r].status = to] /\ UNCHANGED <<wf, ver, req, raced, refused>> /\ runs \in Seq(RunRow)
  BY DEF Move, AuthoringInv, AuthoringTypes
<1>2. [runs[r] EXCEPT !.status = to] \in RunRow /\ [runs[r] EXCEPT !.status = to].ver = runs[r].ver
  <2>1. runs[r] \in RunRow
    BY <1>1
  <2> QED BY <2>1 DEF RunRow
<1>3. runs' \in Seq(RunRow) /\ DOMAIN runs' = DOMAIN runs /\ \A s \in DOMAIN runs : runs'[s].ver = runs[s].ver
  BY <1>1, <1>2
<1>4. \A s \in DOMAIN runs' : runs'[s].ver \in DOMAIN ver
  BY <1>3 DEF AuthoringInv, Bound
<1> QED BY <1>1, <1>3, <1>4, WfAsWas, ElsewhereKeeps

LEMMA InitAuthoringInv == ASSUME AuthoringSetting, AuthoringInit PROVE AuthoringInv
<1>1. wf = [there |-> TRUE, enabled |-> TRUE, active |-> 0] /\ req = [p \in Requests |-> NoRequest]
      /\ runs = <<>> /\ raced = FALSE /\ refused = FALSE
  BY DEF AuthoringInit
<1>2. ver \in Seq(VersionRow) /\ Len(ver) <= 1 /\ \A v \in DOMAIN ver : ver[v].status = "draft"
  <2>1. \A g \in Graphs : Draft(g) \in VersionRow /\ Draft(g).status = "draft"
    BY DraftIs
  <2>2. CASE ver = <<>>
    BY <2>2
  <2>3. ASSUME NEW g \in Graphs, ver = <<Draft(g)>> PROVE ver \in Seq(VersionRow) /\ Len(ver) <= 1 /\ \A v \in DOMAIN ver : ver[v].status = "draft"
    BY <2>1, <2>3
  <2> QED BY <2>2, <2>3 DEF AuthoringInit, Chains
<1>3. AuthoringTypes
  <2>1. req \in [Requests -> RequestRow] /\ runs \in Seq(RunRow)
    BY <1>1, NoRequestIs
  <2>2. wf \in [there : BOOLEAN, enabled : BOOLEAN, active : Nat]
    BY <1>1
  <2> QED BY <1>1, <1>2, <2>1, <2>2 DEF AuthoringTypes
<1>4. Bound
  BY <1>1, <1>2, NoRequestIs DEF Bound, AuthoringSetting
<1>5. Flushed
  BY <1>1, NoRequestIs DEF Flushed
<1>6. Undisputed
  BY <1>1, <1>2, NoRequestIs DEF Undisputed, Published, Publishing
<1> QED BY <1>3, <1>4, <1>5, <1>6 DEF AuthoringInv

LEMMA StepAuthoringInv == AuthoringSetting /\ AuthoringInv /\ [AuthoringNext]_authoring_vars => AuthoringInv'
<1> SUFFICES ASSUME AuthoringSetting, AuthoringInv, [AuthoringNext]_authoring_vars PROVE AuthoringInv'
  OBVIOUS
<1>1. CASE UNCHANGED authoring_vars
  <2>1. UNCHANGED <<wf, ver, runs, req, raced, refused>>
    BY <1>1 DEF authoring_vars
  <2> QED BY <2>1, WfAsWas, RunsAsWere, ElsewhereKeeps
<1>2. ASSUME NEW p \in Requests,
             \/ SaveDraft(p) \/ PublishStart(p) \/ PublishFlush(p) \/ PublishCommit(p) \/ PublishAbort(p) \/ RunRead(p) \/ RunStart(p)
             \/ \E g \in Graphs : InsertDraft(p, g) \/ ToolSaveDefinition(p, g)
             \/ \E v \in 1 .. MaxVersions : PublishRead(p, v) \/ ToolPublish(p, v)
      PROVE  AuthoringInv'
  <2>1. PublishAbort(p) => AuthoringInv'
    BY LeavesPlain DEF PublishAbort
  <2>2. ASSUME NEW g \in Graphs, InsertDraft(p, g) \/ ToolSaveDefinition(p, g) PROVE AuthoringInv'
    BY <2>2, InsertDraftKeeps DEF ToolSaveDefinition
  <2>3. ASSUME NEW v \in 1 .. MaxVersions, PublishRead(p, v) \/ ToolPublish(p, v) PROVE AuthoringInv'
    BY <2>3, PublishReadKeeps DEF ToolPublish
  <2> QED BY <1>2, <2>1, <2>2, <2>3, SaveDraftKeeps, PublishStartKeeps, PublishFlushKeeps, PublishCommitKeeps, RunReadKeeps, RunStartKeeps
<1>3. ASSUME NEW r \in DOMAIN runs, CompleteTask(r) \/ ToolRetryRun(r) PROVE AuthoringInv'
  BY <1>3, MoveKeeps DEF CompleteTask, ToolRetryRun
<1> QED BY <1>1, <1>2, <1>3, WorkflowKeeps, TriggerKeeps DEF AuthoringNext

\* Whatever requests, publishes and runs overlap: a workflow points at a version
\* that is not published, two versions are published at once, or a run of a
\* live workflow is refused, only after a publish met another or a run
\* (publish, run_workflow).
THEOREM PublishingKept ==
  ASSUME AuthoringSetting
  PROVE  AuthoringSpec => [](OnlyRaceStrands /\ OnlyRaceLeavesTwo /\ OnlyRaceRefuses)
<1>1. AuthoringInv => OnlyRaceStrands /\ OnlyRaceLeavesTwo /\ OnlyRaceRefuses
  BY DEF AuthoringInv, AuthoringTypes, Undisputed, OnlyRaceStrands, OnlyRaceLeavesTwo, OnlyRaceRefuses
<1> QED BY <1>1, InitAuthoringInv, StepAuthoringInv, PTL DEF AuthoringSpec

\* The workflow and its runs name versions that exist, numbers stay within the
\* bound, and one publish at a time has the row lock of a version.
THEOREM AuthoringTypeCorrect ==
  ASSUME AuthoringSetting
  PROVE  AuthoringSpec => []AuthoringTypeOK
<1>1. AuthoringInv => AuthoringTypeOK
  <2> SUFFICES ASSUME AuthoringInv PROVE AuthoringTypeOK
    OBVIOUS
  <2>1. \A v \in DOMAIN ver : ver[v].status \in {"draft", "published", "archived"}
    BY VersionIs DEF AuthoringInv, VersionStatus
  <2>2. \A r \in DOMAIN runs : runs[r].status \in {"waiting", "succeeded", "failed"}
    <3>1. \A r \in DOMAIN runs : runs[r] \in RunRow
      BY DEF AuthoringInv, AuthoringTypes
    <3> QED BY <3>1 DEF RunRow
  <2>3. ASSUME NEW v \in DOMAIN ver PROVE Cardinality(LockedBy(v)) <= 1
    <3>1. \A p, o \in LockedBy(v) : p = o
      BY DEF AuthoringInv, Flushed, LockedBy
    <3>2. CASE LockedBy(v) = {}
      BY <3>2, FS_EmptySet
    <3>3. CASE LockedBy(v) # {}
      <4>1. PICK p \in LockedBy(v) : LockedBy(v) = {p}
        BY <3>1, <3>3
      <4>2. Cardinality({p}) = 1
        BY FS_Singleton
      <4> QED BY <4>1, <4>2
    <3> QED BY <3>2, <3>3
  <2> QED BY <2>1, <2>2, <2>3 DEF AuthoringInv, Bound, AuthoringTypeOK
<1> QED BY <1>1, InitAuthoringInv, StepAuthoringInv, PTL DEF AuthoringSpec
============================================================================
