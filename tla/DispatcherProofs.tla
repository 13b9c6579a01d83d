-------------------------- MODULE DispatcherProofs --------------------------
(***************************************************************************)
(* Proofs about Dispatcher: for any number of requests, workers, workflows *)
(* and events, with faults at any point, an event has one run per workflow *)
(* and is not done before it has them all, actions are repeated by faults  *)
(* only, and chains of triggers and cycles of delays end.  At the end,     *)
(* proofs about DocumentIngest, the other job of the worker.               *)
(***************************************************************************)
EXTENDS Dispatcher, DocumentIngest, FiniteSetTheorems, SequenceTheorems, TLAPS

(***************************************************************************)
(* The inductive invariant: who may see and undo what.                     *)
(***************************************************************************)
\* Sequence numbers not given out have neither an event nor a run.
SeqBound ==
  /\ \A e \in Events : e > seq => outbox[e] = NoEvent
  /\ \A k \in Keys : k[2] > seq => DOMAIN runs[k] = {}

\* A transaction has locked the events it is working off; a sweep has claimed
\* them.
EventHeld ==
  \A t \in Txs : \A e \in tx[t].events :
    /\ outbox[e].by = t /\ outbox[e].status # "none"
    /\ t \in Workers => outbox[e].status = "claimed"

\* Nobody has an event that others may claim.
PendingFree ==
  \A e \in Events : outbox[e].status = "pending" /\ ~outbox[e].new => outbox[e].by = NoTx

\* A run that is not committed was inserted by the transaction that has its
\* event: either both are undone or neither.
NewRowHeld ==
  \A k \in Keys : \A i \in DOMAIN runs[k] : runs[k][i].new =>
    runs[k][i].by # NoTx /\ outbox[k[2]].by = runs[k][i].by

\* Only what is done has runs of workflows that are not inline.
OthersAbsent ==
  \A e \in Events : outbox[e].status # "done" =>
    \A w \in Workflows \ Inline : DOMAIN runs[<<w, e>>] = {}

\* What is done has all its runs, and while it is not committed those of the
\* workflows that are not inline are not committed either.
DoneRows ==
  \A e \in Events : outbox[e].status = "done" =>
    /\ \A w \in outbox[e].match : DOMAIN runs[<<w, e>>] # {}
    /\ outbox[e].by # NoTx =>
         \A w \in Workflows \ Inline : \A i \in DOMAIN runs[<<w, e>>] : runs[<<w, e>>][i].new

\* A transaction adds the steps of one leg at most to a run.
OneLeg ==
  \A k \in Keys : \A i \in DOMAIN runs[k] :
    LET row == runs[k][i] IN
    /\ row.kept <= row.steps /\ row.steps <= row.kept + LegSize
    /\ row.by = NoTx => row.steps = row.kept
    /\ row.new => row.kept = 0
    /\ row.steps < MAX_RUN_STEPS + LegSize

\* The runs a timer sweep has still to resume are as they were claimed.
RowHeld ==
  \A t \in Txs : \A x \in tx[t].rows :
    /\ x[2] \in DOMAIN runs[x[1]]
    /\ runs[x[1]][x[2]].by = t /\ ~runs[x[1]][x[2]].new
    /\ runs[x[1]][x[2]].steps = runs[x[1]][x[2]].kept

\* Only an event above the deepest level has a run that waits, or that waited
\* when its transaction claimed it.
DepthBound ==
  /\ \A e \in Events : outbox[e].depth <= MAX_DEPTH + 1
  /\ \A k \in Keys : \A i \in DOMAIN runs[k] :
       \/ runs[k][i].status \in {"waiting", "running"}
       \/ runs[k][i].by # NoTx /\ ~runs[k][i].new
       => outbox[k[2]].depth <= MAX_DEPTH

IInv ==
  /\ TypeOK /\ OneRunPerEvent /\ ActedOnce
  /\ SeqBound /\ EventHeld /\ PendingFree /\ NewRowHeld /\ OthersAbsent /\ DoneRows
  /\ OneLeg /\ RowHeld /\ DepthBound

----------------------------------------------------------------------------
\* A key is a workflow and an event.
LEMMA KeyFacts ==
  /\ \A k \in Keys : k = <<k[1], k[2]>> /\ k[1] \in Workflows /\ k[2] \in Events
  /\ \A w \in Workflows, e \in Events : <<w, e>> \in Keys /\ <<w, e>>[1] = w /\ <<w, e>>[2] = e
BY DEF Keys

\* Sequence numbers are natural numbers, nobody is no transaction.
LEMMA Basics ==
  /\ Events \subseteq Nat /\ NoTx \notin Txs /\ Requests \subseteq Txs /\ Workers \subseteq Txs
  /\ MaxEvents \in Nat /\ LegSize \in Nat /\ MAX_DEPTH \in Nat /\ MAX_RUN_STEPS \in Nat
  /\ MAX_RUN_STEPS > 0 /\ Inline \subseteq Workflows /\ MaxFaults \in Nat
BY DispatcherAssumption DEF Events, Txs

LEMMA NoEventFacts ==
  /\ NoEvent \in Event /\ NoEvent.status = "none" /\ NoEvent.depth = 0 /\ NoEvent.by = NoTx
  /\ NoEvent.new = FALSE
BY DispatcherAssumption DEF NoEvent, Event

LEMMA ClosedFacts ==
  Closed \in Transaction /\ Closed.open = FALSE /\ Closed.events = {} /\ Closed.rows = {}
BY DEF Closed, Transaction

\* What the type invariant says of one event, one run and one transaction.
LEMMA TypeFacts ==
  ASSUME TypeOK
  PROVE  /\ \A e \in Events : /\ outbox[e] \in Event /\ outbox[e].depth \in Nat
                              /\ outbox[e].match \subseteq Workflows /\ outbox[e].new \in BOOLEAN
                              /\ outbox[e].by \in Txs \cup {NoTx}
         /\ \A k \in Keys : \A i \in DOMAIN runs[k] :
              /\ i \in Nat /\ runs[k][i] \in Run /\ runs[k][i].steps \in Nat /\ runs[k][i].kept \in Nat
              /\ runs[k][i].by \in Txs \cup {NoTx} /\ runs[k][i].new \in BOOLEAN
         /\ \A t \in Txs : /\ tx[t] \in Transaction /\ tx[t].events \subseteq Events
                           /\ tx[t].open \in BOOLEAN
                           /\ \A x \in tx[t].rows : x[1] \in Keys /\ x[2] \in Nat /\ x = <<x[1], x[2]>>
         /\ \A k \in Keys : acted[k] \in Nat
         /\ seq \in Nat /\ seq <= MaxEvents /\ faults \in Nat
<1>1. \A e \in Events : /\ outbox[e] \in Event /\ outbox[e].depth \in Nat
                        /\ outbox[e].match \subseteq Workflows /\ outbox[e].new \in BOOLEAN
                        /\ outbox[e].by \in Txs \cup {NoTx}
  BY DEF TypeOK, Event
<1>2. \A k \in Keys : \A i \in DOMAIN runs[k] :
        /\ i \in Nat /\ runs[k][i] \in Run /\ runs[k][i].steps \in Nat /\ runs[k][i].kept \in Nat
        /\ runs[k][i].by \in Txs \cup {NoTx} /\ runs[k][i].new \in BOOLEAN
  BY DEF TypeOK, Run
<1>3. \A t \in Txs : tx[t] \in Transaction /\ tx[t].events \subseteq Events /\ tx[t].open \in BOOLEAN
  BY DEF TypeOK, Transaction
<1>4. \A t \in Txs : \A x \in tx[t].rows : x[1] \in Keys /\ x[2] \in Nat /\ x = <<x[1], x[2]>>
  <2> SUFFICES ASSUME NEW t \in Txs, NEW x \in tx[t].rows
               PROVE  x[1] \in Keys /\ x[2] \in Nat /\ x = <<x[1], x[2]>>
    OBVIOUS
  <2>1. x \in Keys \X Nat
    BY DEF TypeOK, Transaction
  <2> QED
    BY <2>1
<1>5. \A k \in Keys : acted[k] \in Nat
  BY DEF TypeOK
<1>6. seq \in Nat /\ seq <= MaxEvents /\ faults \in Nat
  BY Basics DEF TypeOK
<1> QED
  BY <1>1, <1>2, <1>3, <1>4, <1>5, <1>6

\* The invariant gives the properties the runs check.
LEMMA IInvGoals == IInv => ChainsEnd /\ DoneIsComplete
<1> SUFFICES ASSUME IInv PROVE ChainsEnd /\ DoneIsComplete
  OBVIOUS
<1>1. ChainsEnd
  BY DEF ChainsEnd, ChainEnds, CycleEnds, IInv, DepthBound, OneLeg
<1>2. ASSUME NEW e \in Events, outbox[e].by = NoTx, outbox[e].status = "done"
      PROVE  Absent(outbox[e].match, e) = {}
  BY <1>2 DEF Absent, IInv, DoneRows
<1>3. ASSUME NEW e \in Events, outbox[e].status # "done"
      PROVE  Absent(Workflows \ Inline, e) = Workflows \ Inline
  BY <1>3 DEF Absent, IInv, OthersAbsent
<1> QED
  BY <1>1, <1>2, <1>3 DEF DoneIsComplete

\* The invariant holds of the empty tables.
LEMMA InitIInv == Init => IInv
<1> SUFFICES ASSUME Init PROVE IInv
  OBVIOUS
<1>1. /\ outbox = [e \in Events |-> NoEvent] /\ \A k \in Keys : DOMAIN runs[k] = {}
      /\ \A t \in Txs : tx[t] = Closed
  BY DEF Init
<1>2. TypeOK
  <2>1. DOMAIN runs = Keys /\ \A k \in Keys : DOMAIN runs[k] \subseteq Nat /\ runs[k] \in [DOMAIN runs[k] -> Run]
    BY DEF Init
  <2>2. /\ outbox \in [Events -> Event] /\ acted \in [Keys -> Nat] /\ tx \in [Txs -> Transaction]
        /\ seq \in 0..MaxEvents /\ faults \in 0..MaxFaults
    BY Basics, NoEventFacts, ClosedFacts DEF Init
  <2> QED
    BY <1>1, <2>1, <2>2, NoEventFacts DEF TypeOK
<1>3. ActedOnce
  BY Basics DEF Init, ActedOnce, Recorded
<1>4. OneRunPerEvent /\ NewRowHeld /\ OneLeg /\ DepthBound
  BY <1>1, Basics, NoEventFacts DEF OneRunPerEvent, NewRowHeld, OneLeg, DepthBound
<1>5. SeqBound /\ PendingFree
  BY <1>1, NoEventFacts DEF SeqBound, PendingFree
<1>6. EventHeld /\ RowHeld
  BY <1>1, ClosedFacts DEF EventHeld, RowHeld
<1>7. OthersAbsent /\ DoneRows
  BY <1>1, KeyFacts, NoEventFacts DEF OthersAbsent, DoneRows
<1> QED
  BY <1>2, <1>3, <1>4, <1>5, <1>6, <1>7 DEF IInv

----------------------------------------------------------------------------
\* The outbox after n events have been written.
LEMMA FreshEvents ==
  ASSUME IInv, NEW t \in Txs, NEW n \in Nat, NEW d \in Nat, NEW m \in Matches
  PROVE  /\ Written(t, n, d, m) \in [Events -> Event]
         /\ \A x \in Events :
              /\ x <= seq \/ x > seq + n => Written(t, n, d, m)[x] = outbox[x]
              /\ x > seq /\ x <= seq + n =>
                   /\ Written(t, n, d, m)[x].status = "pending" /\ Written(t, n, d, m)[x].new
                   /\ Written(t, n, d, m)[x].by = t /\ Written(t, n, d, m)[x].depth = d
<1> DEFINE ev == [status |-> "pending", depth |-> d, match |-> m, by |-> t, new |-> TRUE]
<1>1. ev \in Event /\ ev.status = "pending" /\ ev.new /\ ev.by = t /\ ev.depth = d
  BY DispatcherAssumption DEF Event
<1>2. Written(t, n, d, m) = [e \in Events |-> IF e \in (seq + 1)..(seq + n) THEN ev ELSE outbox[e]]
  BY DEF Written
<1> HIDE DEF ev
<1>3. \A x \in Events : x \in Nat /\ outbox[x] \in Event /\ seq \in Nat
  BY Basics, TypeFacts DEF IInv
<1> QED
  BY <1>1, <1>2, <1>3

\* What a transaction may do to one event while it is open: nothing, write it,
\* or mark one it claims or has.
Fresh(t, e) ==
  /\ e > seq /\ e <= seq'
  /\ outbox'[e].status = "pending" /\ outbox'[e].new /\ outbox'[e].by = t
  /\ outbox'[e].depth <= MAX_DEPTH + 1

Marked(t, e) ==
  /\ (outbox[e].by = NoTx /\ outbox[e].status = "pending") \/ outbox[e].by = t
  /\ outbox[e].status # "none"
  /\ outbox'[e].by = t /\ outbox'[e].depth = outbox[e].depth /\ outbox'[e].match = outbox[e].match

\* No run belongs to a fresh event.
LEMMA RunOfOld ==
  ASSUME IInv, NEW t \in Txs, NEW k \in Keys, DOMAIN runs[k] # {}
  PROVE  k[2] <= seq /\ k[2] \in Events /\ ~Fresh(t, k[2])
BY KeyFacts, Basics, TypeFacts DEF IInv, SeqBound, Fresh

\* The part of the invariant about events and who holds them.
LEMMA EventStep ==
  ASSUME IInv, NEW t \in Txs, seq' \in Nat, seq <= seq',
         \A x \in Txs : x # t => tx'[x] = tx[x],
         \A e \in Events : outbox'[e] = outbox[e] \/ Fresh(t, e)
                           \/ (Marked(t, e) /\ outbox'[e].status \in {"claimed", "skipped", "done"}),
         \A e \in tx'[t].events :
           /\ outbox'[e].by = t /\ outbox'[e].status # "none"
           /\ t \in Workers => outbox'[e].status = "claimed",
         \A k \in Keys : k[2] > seq => DOMAIN runs'[k] = {}
  PROVE  SeqBound' /\ EventHeld' /\ PendingFree' /\ \A e \in Events : outbox'[e].depth <= MAX_DEPTH + 1
<1>1. \A e \in Events : e \in Nat /\ seq \in Nat
  BY Basics, TypeFacts DEF IInv
<1>2. \A e \in Events : e > seq' => outbox'[e] = NoEvent
  BY <1>1, NoEventFacts DEF IInv, SeqBound, Fresh, Marked
<1>3. SeqBound'
  BY <1>1, <1>2, KeyFacts DEF SeqBound
<1>4. EventHeld'
  <2> SUFFICES ASSUME NEW x \in Txs, x # t, NEW e \in tx'[x].events
               PROVE  /\ outbox'[e].by = x /\ outbox'[e].status # "none"
                      /\ x \in Workers => outbox'[e].status = "claimed"
    BY DEF EventHeld
  <2>1. e \in tx[x].events /\ e \in Events
    BY TypeFacts DEF IInv
  <2>2. outbox[e].by = x /\ outbox[e].status # "none" /\ (x \in Workers => outbox[e].status = "claimed")
    BY <2>1 DEF IInv, EventHeld
  <2>3. ~Fresh(t, e) /\ ~Marked(t, e)
    BY <2>1, <2>2, Basics, NoEventFacts DEF Fresh, Marked, IInv, SeqBound
  <2> QED
    BY <2>1, <2>2, <2>3
<1>5. PendingFree'
  BY DEF IInv, PendingFree, Fresh
<1>6. \A e \in Events : outbox'[e].depth <= MAX_DEPTH + 1
  BY DEF IInv, DepthBound, Fresh, Marked
<1> QED
  BY <1>3, <1>4, <1>5, <1>6

\* Steps that write, claim or skip events and leave the runs alone.
LEMMA EventsOnly ==
  ASSUME IInv, NEW t \in Txs, TypeOK', ActedOnce', runs' = runs, seq <= seq',
         \A x \in Txs : x # t => tx'[x] = tx[x],
         tx'[t].rows \subseteq tx[t].rows,
         \A e \in Events : outbox'[e] = outbox[e] \/ Fresh(t, e)
                           \/ (Marked(t, e) /\ outbox'[e].status \in {"claimed", "skipped"}
                               /\ outbox[e].status # "done"),
         \A e \in tx'[t].events :
           /\ outbox'[e].by = t /\ outbox'[e].status # "none"
           /\ t \in Workers => outbox'[e].status = "claimed"
  PROVE  IInv'
<1>1. seq' \in Nat
  BY Basics DEF TypeOK
<1>2. \A k \in Keys : k[2] > seq => DOMAIN runs'[k] = {}
  BY DEF IInv, SeqBound
<1>3. SeqBound' /\ EventHeld' /\ PendingFree' /\ \A e \in Events : outbox'[e].depth <= MAX_DEPTH + 1
  BY <1>1, <1>2, EventStep
<1>4. \A k \in Keys : DOMAIN runs[k] # {} => k[2] \in Events /\ ~Fresh(t, k[2])
  BY RunOfOld
<1>5. OneRunPerEvent' /\ OneLeg'
  BY DEF IInv, OneRunPerEvent, OneLeg
<1>6. NewRowHeld'
  BY <1>4 DEF IInv, NewRowHeld, Marked
<1>7. OthersAbsent'
  <2> SUFFICES ASSUME NEW e \in Events, outbox'[e].status # "done", NEW w \in Workflows \ Inline
               PROVE  DOMAIN runs[<<w, e>>] = {}
    BY DEF OthersAbsent
  <2>1. CASE Fresh(t, e)
    BY <1>4, <2>1, KeyFacts
  <2>2. CASE outbox[e].status # "done"
    BY <2>2 DEF IInv, OthersAbsent
  <2> QED
    BY <2>1, <2>2
<1>8. DoneRows'
  <2> SUFFICES ASSUME NEW e \in Events, outbox'[e].status = "done" PROVE outbox'[e] = outbox[e]
    BY DEF IInv, DoneRows
  <2> QED
    BY DEF Fresh
<1>9. RowHeld'
  BY DEF IInv, RowHeld
<1>10. DepthBound'
  BY <1>3, <1>4 DEF IInv, DepthBound, Marked
<1> QED
  BY <1>3, <1>5, <1>6, <1>7, <1>8, <1>9, <1>10 DEF IInv

\* A transaction that is not open has locked nothing.
LEMMA ClosedHolds ==
  ASSUME IInv, NEW t \in Txs, tx[t] = Closed
  PROVE  /\ \A e \in Events : outbox[e].by # t
         /\ \A k \in Keys : \A i \in DOMAIN runs[k] : runs[k][i].by # t
BY ClosedFacts, Basics DEF IInv, TypeOK

\* Replacing the record of a transaction.
LEMMA TxFields ==
  ASSUME TypeOK, NEW t \in Txs, NEW q \in Transaction, tx' = [tx EXCEPT ![t] = q]
  PROVE  tx' \in [Txs -> Transaction] /\ tx'[t] = q /\ \A x \in Txs : x # t => tx'[x] = tx[x]
BY DEF TypeOK

\* A transaction drops events of its list.
LEMMA DropEvents ==
  ASSUME TypeOK, NEW t \in Txs, NEW S \in SUBSET Events, tx' = [tx EXCEPT ![t].events = S]
  PROVE  /\ tx' \in [Txs -> Transaction] /\ \A x \in Txs : x # t => tx'[x] = tx[x]
         /\ tx'[t].open = tx[t].open /\ tx'[t].events = S /\ tx'[t].rows = tx[t].rows
<1> DEFINE q == [tx[t] EXCEPT !.events = S]
<1>1. tx[t] \in Transaction /\ tx \in [Txs -> Transaction]
  BY DEF TypeOK
<1>2. q \in Transaction /\ q.open = tx[t].open /\ q.events = S /\ q.rows = tx[t].rows
  BY <1>1 DEF Transaction
<1>3. tx' = [tx EXCEPT ![t] = q]
  BY <1>1
<1> HIDE DEF q
<1> QED
  BY <1>1, <1>2, <1>3

\* Setting the status of one event.
LEMMA StatusField ==
  ASSUME NEW o \in [Events -> Event], NEW e \in Events,
         NEW st \in {"none", "pending", "claimed", "done", "skipped"},
         NEW p, p = [o EXCEPT ![e].status = st]
  PROVE  /\ p \in [Events -> Event] /\ \A x \in Events : x # e => p[x] = o[x]
         /\ p[e].status = st /\ p[e].depth = o[e].depth /\ p[e].match = o[e].match
         /\ p[e].by = o[e].by /\ p[e].new = o[e].new
<1> DEFINE q == [o[e] EXCEPT !.status = st]
<1>1. /\ q \in Event /\ q.status = st /\ q.depth = o[e].depth /\ q.match = o[e].match
      /\ q.by = o[e].by /\ q.new = o[e].new
  BY DEF Event
<1>2. p = [o EXCEPT ![e] = q]
  OBVIOUS
<1> HIDE DEF q
<1> QED
  BY <1>1, <1>2

\* A fault allows one leg more to have been acted in vain.
LEMMA FaultSlack ==
  ASSUME IInv, Fault
  PROVE  faults' \in 0..MaxFaults /\ LegSize * faults' = LegSize * faults + LegSize
         /\ LegSize * faults \in Nat
<1>1. faults \in Nat /\ faults' = faults + 1 /\ LegSize \in Nat /\ faults < MaxFaults
  BY TypeFacts, Basics DEF IInv, Fault
<1>2. LegSize * (faults + 1) = LegSize * faults + LegSize /\ LegSize * faults \in Nat
  BY <1>1
<1> QED
  BY <1>1, <1>2, Basics

\* Actions that fire in vain are accounted for by the fault.
LEMMA VainActs ==
  ASSUME IInv, Fault, NEW e \in Events, NEW W \in SUBSET Workflows, ActInVain(e, W), runs' = runs
  PROVE  acted' \in [Keys -> Nat] /\ ActedOnce'
<1>1. PICK n \in [W -> 0..IF outbox[e].depth > MAX_DEPTH THEN 0 ELSE LegSize] :
        acted' = [k \in Keys |-> IF k[2] = e /\ k[1] \in W THEN acted[k] + n[k[1]] ELSE acted[k]]
  BY DEF ActInVain
<1>2. \A w \in W : n[w] \in Nat /\ n[w] <= LegSize
  BY <1>1, Basics
<1>3. \A k \in Keys : acted[k] \in Nat /\ acted'[k] \in Nat /\ acted'[k] <= acted[k] + LegSize
  BY <1>1, <1>2, TypeFacts, Basics DEF IInv
<1>4. ActedOnce'
  <2> SUFFICES ASSUME NEW k \in Keys
               PROVE  \E n1 \in Recorded(k) : acted'[k] <= n1 + LegSize * faults'
    BY DEF ActedOnce, Recorded
  <2>1. PICK n1 \in Recorded(k) : acted[k] <= n1 + LegSize * faults
    BY DEF IInv, ActedOnce
  <2>2. n1 \in Nat
    BY TypeFacts DEF IInv, Recorded
  <2>3. acted'[k] <= n1 + LegSize * faults'
    BY <1>3, <2>1, <2>2, FaultSlack, Basics
  <2> QED
    BY <2>3
<1> QED
  BY <1>1, <1>3, <1>4

----------------------------------------------------------------------------
(***************************************************************************)
(* The invariant is preserved, action by action.                           *)
(***************************************************************************)
\* A request writes one event, which it may dispatch inline.
LEMMA WriteRecordStep ==
  ASSUME IInv, NEW t \in Requests, WriteRecord(t)
  PROVE  IInv'
<1>1. /\ t \in Txs /\ t \notin Workers /\ tx[t] = Closed /\ seq < MaxEvents /\ seq' = seq + 1
      /\ runs' = runs /\ acted' = acted /\ faults' = faults
  BY DispatcherAssumption DEF WriteRecord, Txs
<1>2. PICK m \in Matches : outbox' = Written(t, 1, 0, m)
  BY DEF WriteRecord
<1>3. PICK inline \in SUBSET {seq + 1} :
        tx' = [tx EXCEPT ![t] = [open |-> TRUE, events |-> inline, rows |-> {}]]
  BY DEF WriteRecord
<1>4. seq \in Nat /\ seq + 1 \in Events
  BY <1>1, TypeFacts, Basics DEF IInv, Events
<1> DEFINE q == [open |-> TRUE, events |-> inline, rows |-> {}]
<1>5. q \in Transaction /\ q.open /\ q.events = inline /\ q.rows = {}
  BY <1>3, <1>4 DEF Transaction
<1> HIDE DEF q
<1>6. tx' \in [Txs -> Transaction] /\ tx'[t] = q /\ \A x \in Txs : x # t => tx'[x] = tx[x]
  BY <1>1, <1>3, <1>5, TxFields DEF IInv, q
<1>7. /\ outbox' \in [Events -> Event]
      /\ \A x \in Events : x # seq + 1 => outbox'[x] = outbox[x]
      /\ outbox'[seq + 1].status = "pending" /\ outbox'[seq + 1].new
      /\ outbox'[seq + 1].by = t /\ outbox'[seq + 1].depth = 0
  <2>1. \A x \in Events : x \in Nat /\ (x # seq + 1 => x <= seq \/ x > seq + 1)
    BY <1>4, Basics
  <2>2. /\ outbox' \in [Events -> Event]
        /\ \A x \in Events :
             /\ x <= seq \/ x > seq + 1 => outbox'[x] = outbox[x]
             /\ x > seq /\ x <= seq + 1 =>
                  outbox'[x].status = "pending" /\ outbox'[x].new /\ outbox'[x].by = t /\ outbox'[x].depth = 0
    <3>1. 0 \in Nat /\ 1 \in Nat
      OBVIOUS
    <3> QED
      BY <1>1, <1>2, <3>1, FreshEvents
  <2>3. seq + 1 > seq /\ seq + 1 <= seq + 1
    BY <1>4
  <2> QED
    BY <1>4, <2>1, <2>2, <2>3
<1>8. \A e \in Events : outbox'[e] = outbox[e] \/ Fresh(t, e)
  <2>1. Fresh(t, seq + 1)
    BY <1>1, <1>4, <1>7, Basics DEF Fresh
  <2> QED
    BY <1>7, <2>1
<1>9. TypeOK'
  <2>1. ASSUME NEW e \in Events, outbox'[e].by # NoTx
        PROVE  tx'[outbox'[e].by].open
    <3>1. CASE e = seq + 1
      BY <1>5, <1>6, <1>7, <3>1
    <3>2. CASE e # seq + 1
      <4>1. outbox'[e].by = outbox[e].by /\ outbox[e].by \in Txs
        BY <1>7, <2>1, <3>2, TypeFacts DEF IInv
      <4>2. tx[outbox[e].by].open
        BY <2>1, <4>1 DEF IInv, TypeOK
      <4> QED
        BY <1>5, <1>6, <4>1, <4>2
    <3> QED
      BY <3>1, <3>2
  <2>2. \A k \in Keys : \A i \in DOMAIN runs[k] : runs[k][i].by # NoTx => tx'[runs[k][i].by].open
    BY <1>5, <1>6, TypeFacts DEF IInv, TypeOK
  <2>3. seq' \in 0..MaxEvents
    BY <1>1, <1>4, Basics
  <2> QED
    BY <1>1, <1>6, <1>7, <2>1, <2>2, <2>3 DEF IInv, TypeOK
<1>10. ActedOnce'
  BY <1>1 DEF IInv, ActedOnce, Recorded
<1>11. \A e \in tx'[t].events : outbox'[e].by = t /\ outbox'[e].status # "none"
  BY <1>5, <1>6, <1>7
<1>12. tx'[t].rows \subseteq tx[t].rows /\ seq <= seq'
  BY <1>1, <1>4, <1>5, <1>6
<1> QED
  BY <1>1, <1>6, <1>8, <1>9, <1>10, <1>11, <1>12, EventsOnly

\* The savepoint of the inline dispatch is rolled back: only the actions remain.
LEMMA InlineFailsStep ==
  ASSUME IInv, NEW t \in Requests, NEW e \in Events, InlineFails(t, e)
  PROVE  IInv'
<1>1. /\ t \in Txs /\ e \in tx[t].events /\ Fault /\ ActInVain(e, outbox[e].match \cap Inline)
      /\ tx' = [tx EXCEPT ![t].events = {}] /\ outbox' = outbox /\ runs' = runs /\ seq' = seq
  BY DEF InlineFails, Txs
<1>2. /\ tx' \in [Txs -> Transaction] /\ \A x \in Txs : x # t => tx'[x] = tx[x]
      /\ tx'[t].open = tx[t].open /\ tx'[t].events = {} /\ tx'[t].rows = tx[t].rows
  <2>1. {} \in SUBSET Events
    OBVIOUS
  <2> QED
    BY <1>1, <2>1, DropEvents DEF IInv
<1>3. acted' \in [Keys -> Nat] /\ ActedOnce' /\ faults' \in 0..MaxFaults
  BY <1>1, VainActs, FaultSlack, TypeFacts DEF IInv
<1>4. \A x \in Txs : tx'[x].open = tx[x].open
  BY <1>2
<1>5. TypeOK'
  <2>1. \A x \in Events : outbox[x].by # NoTx => tx'[outbox[x].by].open
    BY <1>4, TypeFacts DEF IInv, TypeOK
  <2>2. \A k \in Keys : \A i \in DOMAIN runs[k] : runs[k][i].by # NoTx => tx'[runs[k][i].by].open
    BY <1>4, TypeFacts DEF IInv, TypeOK
  <2> QED
    BY <1>1, <1>2, <1>3, <2>1, <2>2 DEF IInv, TypeOK
<1>6. seq <= seq'
  BY <1>1, TypeFacts DEF IInv
<1> QED
  BY <1>1, <1>2, <1>3, <1>5, <1>6, EventsOnly

\* A sweep claims events that are committed and that nobody has.
LEMMA ClaimStep ==
  ASSUME IInv, NEW t \in Workers, Claim(t)
  PROVE  IInv'
<1> DEFINE S == Oldest(Pending)
           q == [open |-> TRUE, events |-> S, rows |-> {}]
<1>1. /\ t \in Txs /\ tx[t] = Closed /\ tx' = [tx EXCEPT ![t] = q]
      /\ outbox' = [e \in Events |-> IF e \in S THEN [outbox[e] EXCEPT !.status = "claimed", !.by = t]
                                     ELSE outbox[e]]
      /\ runs' = runs /\ acted' = acted /\ seq' = seq /\ faults' = faults
  BY DEF Claim, Txs
<1>2. S \subseteq Events /\ \A e \in S : outbox[e].status = "pending" /\ ~outbox[e].new
  BY DEF Oldest, Pending
<1> HIDE DEF S
<1>3. \A e \in S : outbox[e].by = NoTx
  BY <1>2 DEF IInv, PendingFree
<1>4. q \in Transaction /\ q.open /\ q.events = S /\ q.rows = {}
  BY <1>2 DEF Transaction
<1> HIDE DEF q
<1>5. tx' \in [Txs -> Transaction] /\ tx'[t] = q /\ \A x \in Txs : x # t => tx'[x] = tx[x]
  BY <1>1, <1>4, TxFields DEF IInv
<1>6. /\ outbox' \in [Events -> Event]
      /\ \A e \in Events : e \notin S => outbox'[e] = outbox[e]
      /\ \A e \in S : /\ outbox'[e].status = "claimed" /\ outbox'[e].by = t
                      /\ outbox'[e].depth = outbox[e].depth /\ outbox'[e].match = outbox[e].match
  <2>1. \A e \in Events : LET o == [outbox[e] EXCEPT !.status = "claimed", !.by = t] IN
          /\ o \in Event /\ o.status = "claimed" /\ o.by = t
          /\ o.depth = outbox[e].depth /\ o.match = outbox[e].match
    BY <1>1, TypeFacts DEF IInv, Event
  <2> QED
    BY <1>1, <1>2, <2>1, TypeFacts DEF IInv
<1>7. \A e \in Events : outbox'[e] = outbox[e] \/ (Marked(t, e) /\ outbox'[e].status \in {"claimed", "skipped"}
                                                   /\ outbox[e].status # "done")
  BY <1>2, <1>3, <1>6 DEF Marked
<1>8. TypeOK'
  <2>1. \A e \in Events : outbox'[e].by # NoTx => tx'[outbox'[e].by].open
    BY <1>4, <1>5, <1>6, TypeFacts DEF IInv, TypeOK
  <2>2. \A k \in Keys : \A i \in DOMAIN runs[k] : runs[k][i].by # NoTx => tx'[runs[k][i].by].open
    BY <1>4, <1>5, TypeFacts DEF IInv, TypeOK
  <2> QED
    BY <1>1, <1>5, <1>6, <2>1, <2>2 DEF IInv, TypeOK
<1>9. ActedOnce'
  BY <1>1 DEF IInv, ActedOnce, Recorded
<1>10. \A e \in tx'[t].events : outbox'[e].by = t /\ outbox'[e].status = "claimed"
  BY <1>4, <1>5, <1>6
<1>11. tx'[t].rows \subseteq tx[t].rows /\ seq <= seq'
  <2>1. tx'[t].rows = {}
    BY <1>4, <1>5
  <2>2. seq \in Nat /\ seq' = seq
    BY <1>1, TypeFacts DEF IInv
  <2>3. seq <= seq'
    BY <2>2
  <2> QED
    BY <2>1, <2>3
<1> QED
  BY <1>1, <1>5, <1>7, <1>8, <1>9, <1>10, <1>11, EventsOnly

\* The savepoint of a claimed event is rolled back and the event is skipped.
LEMMA EventFailsStep ==
  ASSUME IInv, NEW t \in Workers, NEW e \in Events, EventFails(t, e)
  PROVE  IInv'
<1>1. /\ t \in Txs /\ e \in tx[t].events /\ Fault /\ ActInVain(e, ToRun(e))
      /\ tx' = [tx EXCEPT ![t].events = @ \ {e}] /\ runs' = runs /\ seq' = seq
      /\ outbox' = [outbox EXCEPT ![e].status = "skipped"]
  BY DEF EventFails, Txs
<1> DEFINE S == tx[t].events \ {e}
<1>2. /\ S \in SUBSET Events /\ outbox \in [Events -> Event] /\ tx \in [Txs -> Transaction]
      /\ ToRun(e) \subseteq Workflows
  BY <1>1, TypeFacts DEF IInv, TypeOK, ToRun, Absent
<1>3. tx' = [tx EXCEPT ![t].events = S]
  BY <1>1, <1>2
<1>4. S \subseteq tx[t].events /\ e \notin S
  OBVIOUS
<1> HIDE DEF S
<1>5. /\ tx' \in [Txs -> Transaction] /\ \A x \in Txs : x # t => tx'[x] = tx[x]
      /\ tx'[t].open = tx[t].open /\ tx'[t].events = S /\ tx'[t].rows = tx[t].rows
  BY <1>1, <1>2, <1>3, DropEvents DEF IInv
<1>6. /\ outbox' \in [Events -> Event] /\ \A x \in Events : x # e => outbox'[x] = outbox[x]
      /\ outbox'[e].status = "skipped" /\ outbox'[e].depth = outbox[e].depth
      /\ outbox'[e].match = outbox[e].match /\ outbox'[e].by = outbox[e].by
  <2>1. outbox' = [outbox EXCEPT ![e].status = "skipped"] /\ outbox \in [Events -> Event]
    BY <1>1, <1>2
  <2> QED
    BY <2>1, StatusField
<1>7. acted' \in [Keys -> Nat] /\ ActedOnce' /\ faults' \in 0..MaxFaults
  BY <1>1, <1>2, VainActs, FaultSlack
<1>8. \A x \in Txs : tx'[x].open = tx[x].open
  BY <1>5
<1>9. \A x \in Events : outbox'[x].by = outbox[x].by
  BY <1>6
<1>10. TypeOK'
  <2>1. \A x \in Events : outbox'[x].by # NoTx => tx'[outbox'[x].by].open
    BY <1>8, <1>9, TypeFacts DEF IInv, TypeOK
  <2>2. \A k \in Keys : \A i \in DOMAIN runs[k] : runs[k][i].by # NoTx => tx'[runs[k][i].by].open
    BY <1>8, TypeFacts DEF IInv, TypeOK
  <2> QED
    BY <1>1, <1>5, <1>6, <1>7, <2>1, <2>2 DEF IInv, TypeOK
<1>11. outbox[e].by = t /\ outbox[e].status = "claimed"
  BY <1>1 DEF IInv, EventHeld
<1>12. \A x \in Events : outbox'[x] = outbox[x] \/ (Marked(t, x) /\ outbox'[x].status \in {"claimed", "skipped"}
                                                    /\ outbox[x].status # "done")
  BY <1>6, <1>11 DEF Marked
<1>13. \A x \in tx'[t].events : outbox'[x].by = t /\ outbox'[x].status = "claimed"
  <2>1. \A x \in S : outbox[x].by = t /\ outbox[x].status = "claimed" /\ x \in Events /\ x # e
    BY <1>1, <1>2, <1>4 DEF IInv, EventHeld
  <2> QED
    BY <1>5, <1>6, <2>1
<1>14. seq <= seq'
  BY <1>1, TypeFacts DEF IInv
<1> QED
  BY <1>1, <1>5, <1>7, <1>10, <1>12, <1>13, <1>14, EventsOnly

----------------------------------------------------------------------------
\* The keys of the runs that the workflows W get for event e.
Added(k, e, W) == k[2] = e /\ k[1] \in W

\* Transaction t runs the workflows W, which have no run for event e.
Walked(t, e, W, legs) ==
  /\ t \in Txs /\ e \in Events /\ W \subseteq Workflows /\ \A w \in W : DOMAIN runs[<<w, e>>] = {}
  /\ legs \in Outcomes(W, outbox[e].depth) /\ RunAll(t, e, W, legs)

\* An event is left as it is for a later sweep, or is done once every workflow
\* has its run.
Handled(t, e, W) ==
  \/ outbox'[e] = outbox[e] /\ W \subseteq Inline
  \/ /\ outbox[e].status = "claimed" /\ outbox'[e].status = "done"
     /\ outbox'[e].by = t /\ outbox'[e].depth = outbox[e].depth
     /\ outbox'[e].match = outbox[e].match
     /\ \A w \in outbox[e].match : w \in W \/ DOMAIN runs[<<w, e>>] # {}

Emits(W, legs) == Cardinality({w \in W : legs[w].emits})

\* What one walk of a graph may do; nothing below the deepest level.
LEMMA LegFacts ==
  ASSUME IInv, NEW t, NEW e, NEW W, NEW legs, Walked(t, e, W, legs)
  PROVE  /\ \A w \in W : /\ legs[w].steps \in Nat /\ legs[w].steps <= LegSize
                         /\ legs[w].status \in {"waiting", "ended", "skipped"}
                         /\ legs[w].status = "waiting" => outbox[e].depth <= MAX_DEPTH
         /\ Emits(W, legs) \in Nat
         /\ Emits(W, legs) = 0 \/ outbox[e].depth <= MAX_DEPTH
<1>1. \A w \in W : legs[w] \in IF outbox[e].depth > MAX_DEPTH THEN {TooDeep} ELSE Legs[w]
  BY DEF Walked, Outcomes
<1>2. TooDeep.steps = 0 /\ TooDeep.status = "skipped" /\ TooDeep.emits = FALSE
  BY DEF TooDeep
<1>3. \A w \in Workflows : \A leg \in Legs[w] : leg.steps \in 0..LegSize /\ leg.status \in {"waiting", "ended"}
  BY DispatcherAssumption
<1>4. outbox[e].depth \in Nat /\ W \subseteq Workflows
  BY TypeFacts DEF IInv, Walked
<1>5. \A w \in W : /\ legs[w].steps \in Nat /\ legs[w].steps <= LegSize
                   /\ legs[w].status \in {"waiting", "ended", "skipped"}
                   /\ legs[w].status = "waiting" => outbox[e].depth <= MAX_DEPTH
  BY <1>1, <1>2, <1>3, <1>4, Basics
<1> DEFINE E == {w \in W : legs[w].emits}
<1>6. E \subseteq Workflows /\ (outbox[e].depth > MAX_DEPTH => E = {})
  BY <1>1, <1>2, <1>4
<1> HIDE DEF E
<1>7. Cardinality(E) \in Nat
  BY <1>6, DispatcherAssumption, FS_Subset, FS_CardinalityType
<1>8. Cardinality(E) = 0 \/ outbox[e].depth <= MAX_DEPTH
  BY <1>4, <1>6, FS_EmptySet, Basics
<1> QED
  BY <1>5, <1>7, <1>8 DEF E, Emits

\* The runs that create_run_if_absent and the first legs leave behind.
LEMMA NewRows ==
  ASSUME IInv, NEW t, NEW e, NEW W, NEW legs, Walked(t, e, W, legs)
  PROVE  /\ DOMAIN runs' = Keys /\ acted' \in [Keys -> Nat]
         /\ \A k \in Keys : ~Added(k, e, W) => runs'[k] = runs[k] /\ acted'[k] = acted[k]
         /\ \A k \in Keys : Added(k, e, W) =>
              /\ DOMAIN runs[k] = {} /\ DOMAIN runs'[k] = {1} /\ runs'[k] \in [{1} -> Run]
              /\ runs'[k][1].status = legs[k[1]].status /\ runs'[k][1].steps = legs[k[1]].steps
              /\ runs'[k][1].kept = 0 /\ runs'[k][1].by = t /\ runs'[k][1].new
              /\ acted'[k] = acted[k] + legs[k[1]].steps
<1> DEFINE row(w) == [status |-> legs[w].status, steps |-> legs[w].steps, kept |-> 0,
                      by |-> t, new |-> TRUE]
<1>1. \A w \in W : /\ row(w) \in Run /\ row(w).status = legs[w].status /\ row(w).steps = legs[w].steps
                   /\ row(w).kept = 0 /\ row(w).by = t /\ row(w).new
  BY LegFacts DEF Run, Walked
<1>2. /\ runs' = [k \in Keys |->
           IF k[2] = e /\ k[1] \in W
           THEN [i \in DOMAIN runs[k] \cup {NewId(k)} |->
                   IF i \in DOMAIN runs[k] THEN runs[k][i] ELSE row(k[1])]
           ELSE runs[k]]
      /\ acted' = [k \in Keys |->
           IF k[2] = e /\ k[1] \in W THEN acted[k] + legs[k[1]].steps ELSE acted[k]]
  BY DEF Walked, RunAll
<1> HIDE DEF row
<1>3. \A k \in Keys : Added(k, e, W) => DOMAIN runs[k] = {}
  BY KeyFacts DEF Added, Walked
<1>4. \A k \in Keys : DOMAIN runs[k] = {} => NewId(k) = 1
  <2> SUFFICES ASSUME NEW k \in Keys, DOMAIN runs[k] = {} PROVE NewId(k) = 1
    OBVIOUS
  <2>1. Cardinality(DOMAIN runs[k]) = 0
    BY FS_EmptySet
  <2>2. 1..(0 + 1) = {1} /\ 1 \notin DOMAIN runs[k]
    OBVIOUS
  <2> QED
    BY <2>1, <2>2 DEF NewId
<1>5. DOMAIN runs' = Keys /\ \A k \in Keys : ~Added(k, e, W) => runs'[k] = runs[k] /\ acted'[k] = acted[k]
  BY <1>2 DEF Added
<1>6. ASSUME NEW k \in Keys, Added(k, e, W)
      PROVE  /\ DOMAIN runs[k] = {} /\ runs'[k] = [i \in {1} |-> row(k[1])] /\ k[1] \in W
             /\ acted'[k] = acted[k] + legs[k[1]].steps
  <2>1. DOMAIN runs[k] = {} /\ NewId(k) = 1 /\ k[1] \in W /\ k[2] = e
    BY <1>3, <1>4, <1>6 DEF Added
  <2>2. runs'[k] = [i \in DOMAIN runs[k] \cup {NewId(k)} |->
                      IF i \in DOMAIN runs[k] THEN runs[k][i] ELSE row(k[1])]
    BY <1>2, <2>1
  <2>3. acted'[k] = acted[k] + legs[k[1]].steps
    BY <1>2, <2>1
  <2> QED
    BY <2>1, <2>2, <2>3
<1>7. acted' \in [Keys -> Nat]
  <2>1. \A w \in W : legs[w].steps \in Nat
    BY LegFacts
  <2> QED
    BY <1>2, <2>1, TypeFacts DEF IInv
<1> QED
  BY <1>1, <1>5, <1>6, <1>7

\* The workflows W of an event run in transaction t, which then has no more to
\* do for it.
LEMMA RunStep ==
  ASSUME IInv, NEW t \in Txs, NEW e \in Events, e \in tx[t].events, NEW W, NEW legs,
         Walked(t, e, W, legs), NEW m \in Matches, NEW n, n = Emits(W, legs),
         seq + n <= MaxEvents, seq' = seq + n, faults' = faults,
         tx' \in [Txs -> Transaction], \A x \in Txs : x # t => tx'[x] = tx[x],
         tx'[t].open = tx[t].open, tx'[t].rows = tx[t].rows, tx'[t].events \subseteq tx[t].events \ {e},
         outbox' \in [Events -> Event],
         \A x \in Events : x # e => outbox'[x] = Written(t, n, outbox[e].depth + 1, m)[x],
         Handled(t, e, W)
  PROVE  IInv'
<1>1. tx[t].events \subseteq Events /\ seq \in Nat /\ outbox[e].depth \in Nat
  BY TypeFacts DEF IInv
<1>2. outbox[e].by = t /\ outbox[e].status # "none" /\ t # NoTx
  BY Basics DEF IInv, EventHeld
<1>3. e <= seq
  BY <1>1, <1>2, NoEventFacts, Basics DEF IInv, SeqBound
<1>4. \A x \in Txs : tx'[x].open = tx[x].open /\ tx'[x].rows = tx[x].rows
  OBVIOUS
<1>5. /\ DOMAIN runs' = Keys /\ acted' \in [Keys -> Nat]
      /\ \A k \in Keys : ~Added(k, e, W) => runs'[k] = runs[k] /\ acted'[k] = acted[k]
      /\ \A k \in Keys : Added(k, e, W) =>
           /\ DOMAIN runs[k] = {} /\ DOMAIN runs'[k] = {1} /\ runs'[k] \in [{1} -> Run]
           /\ runs'[k][1].status = legs[k[1]].status /\ runs'[k][1].steps = legs[k[1]].steps
           /\ runs'[k][1].kept = 0 /\ runs'[k][1].by = t /\ runs'[k][1].new
           /\ acted'[k] = acted[k] + legs[k[1]].steps
  BY NewRows
<1>6. /\ n \in Nat
      /\ \A w \in W : /\ legs[w].steps \in Nat /\ legs[w].steps <= LegSize
                      /\ legs[w].status \in {"waiting", "ended", "skipped"}
                      /\ legs[w].status = "waiting" => outbox[e].depth <= MAX_DEPTH
      /\ n = 0 \/ outbox[e].depth <= MAX_DEPTH
  BY LegFacts
<1>7. \A x \in Events : x # e => outbox'[x] = outbox[x] \/ Fresh(t, x)
  <2> SUFFICES ASSUME NEW x \in Events, x # e, outbox'[x] # outbox[x] PROVE Fresh(t, x)
    OBVIOUS
  <2>1. /\ x <= seq \/ x > seq + n => outbox'[x] = outbox[x]
        /\ x > seq /\ x <= seq + n =>
             outbox'[x].status = "pending" /\ outbox'[x].new /\ outbox'[x].by = t
             /\ outbox'[x].depth = outbox[e].depth + 1
    <3>1. outbox[e].depth + 1 \in Nat
      BY <1>1
    <3>2. outbox'[x] = Written(t, n, outbox[e].depth + 1, m)[x]
      OBVIOUS
    <3> QED
      BY <1>6, <3>1, <3>2, FreshEvents
  <2>2. x \in Nat /\ x > seq /\ x <= seq + n
    BY <1>1, <1>6, <2>1, Basics
  <2>3. n # 0
    BY <1>1, <2>2
  <2> QED
    BY <1>1, <1>6, <2>1, <2>2, <2>3, Basics DEF Fresh
<1>8. outbox'[e].by = t /\ outbox'[e].depth = outbox[e].depth /\ outbox'[e].match = outbox[e].match
  BY <1>2 DEF Handled
<1>9. outbox'[e] = outbox[e] \/ (Marked(t, e) /\ outbox'[e].status = "done")
  BY <1>2 DEF Marked, Handled
<1>10. \A k \in Keys : k[2] > seq => DOMAIN runs'[k] = {}
  <2> SUFFICES ASSUME NEW k \in Keys, k[2] > seq PROVE DOMAIN runs'[k] = {}
    OBVIOUS
  <2>1. ~Added(k, e, W)
    BY <1>1, <1>3, Basics DEF Added
  <2> QED
    BY <1>5, <2>1 DEF IInv, SeqBound
<1>11. SeqBound' /\ EventHeld' /\ PendingFree' /\ \A x \in Events : outbox'[x].depth <= MAX_DEPTH + 1
  <2>1. \A x \in tx'[t].events :
           /\ outbox'[x].by = t /\ outbox'[x].status # "none"
           /\ t \in Workers => outbox'[x].status = "claimed"
    <3> SUFFICES ASSUME NEW x \in tx'[t].events
                 PROVE  /\ outbox'[x].by = t /\ outbox'[x].status # "none"
                        /\ t \in Workers => outbox'[x].status = "claimed"
      OBVIOUS
    <3>1. /\ x \in Events /\ x # e /\ outbox[x].by = t /\ outbox[x].status # "none"
          /\ t \in Workers => outbox[x].status = "claimed"
      BY <1>1 DEF IInv, EventHeld
    <3>2. ~Fresh(t, x)
      BY <3>1, <1>2, NoEventFacts DEF Fresh, IInv, SeqBound
    <3> QED
      BY <1>7, <3>1, <3>2
  <2>2. seq' \in Nat /\ seq <= seq'
    BY <1>1, <1>6
  <2>3. \A x \in Events : outbox'[x] = outbox[x] \/ Fresh(t, x)
                          \/ (Marked(t, x) /\ outbox'[x].status \in {"claimed", "skipped", "done"})
    BY <1>7, <1>9
  <2> QED
    BY <1>4, <1>10, <2>1, <2>2, <2>3, EventStep
<1>12. \A k \in Keys : DOMAIN runs[k] # {} =>
         /\ ~Added(k, e, W) /\ runs'[k] = runs[k] /\ k[2] \in Events
         /\ outbox'[k[2]].by = outbox[k[2]].by /\ outbox'[k[2]].depth = outbox[k[2]].depth
  <2> SUFFICES ASSUME NEW k \in Keys, DOMAIN runs[k] # {}
               PROVE  /\ ~Added(k, e, W) /\ runs'[k] = runs[k] /\ k[2] \in Events
                      /\ outbox'[k[2]].by = outbox[k[2]].by /\ outbox'[k[2]].depth = outbox[k[2]].depth
    OBVIOUS
  <2>1. ~Added(k, e, W) /\ k[2] \in Events /\ ~Fresh(t, k[2])
    BY <1>5, RunOfOld
  <2> QED
    BY <1>2, <1>5, <1>7, <1>8, <2>1
<1>13. TypeOK'
  <2>1. \A x \in Txs : tx'[x].open = tx[x].open
    BY <1>4
  <2>2. tx[t].open
    BY <1>1, <1>2 DEF IInv, TypeOK
  <2>3. ASSUME NEW x \in Events, outbox'[x].by # NoTx
        PROVE  tx'[outbox'[x].by].open
    <3>1. outbox'[x].by = t \/ outbox'[x].by = outbox[x].by
      BY <1>7, <1>8 DEF Fresh
    <3>2. outbox[x].by \in Txs \cup {NoTx} /\ (outbox[x].by # NoTx => tx[outbox[x].by].open)
      BY DEF IInv, TypeOK, Event
    <3> QED
      BY <2>1, <2>2, <2>3, <3>1, <3>2
  <2>4. ASSUME NEW k \in Keys
        PROVE  /\ DOMAIN runs'[k] \subseteq Nat /\ runs'[k] \in [DOMAIN runs'[k] -> Run]
               /\ \A i \in DOMAIN runs'[k] : runs'[k][i].by # NoTx => tx'[runs'[k][i].by].open
    <3>1. CASE Added(k, e, W)
      BY <1>5, <2>1, <2>2, <3>1
    <3>2. CASE ~Added(k, e, W)
      <4>1. runs'[k] = runs[k] /\ DOMAIN runs[k] \subseteq Nat /\ runs[k] \in [DOMAIN runs[k] -> Run]
        BY <1>5, <3>2 DEF IInv, TypeOK
      <4>2. \A i \in DOMAIN runs[k] : /\ runs[k][i].by \in Txs \cup {NoTx}
                                      /\ runs[k][i].by # NoTx => tx[runs[k][i].by].open
        BY DEF IInv, TypeOK, Run
      <4> QED
        BY <2>1, <4>1, <4>2
    <3> QED
      BY <3>1, <3>2
  <2>5. seq' \in 0..MaxEvents /\ faults' \in 0..MaxFaults
    BY <1>1, <1>6, Basics DEF IInv, TypeOK
  <2> QED
    BY <1>4, <1>5, <2>3, <2>4, <2>5 DEF TypeOK
<1>14. OneRunPerEvent'
  BY <1>5 DEF IInv, OneRunPerEvent
<1>15. ActedOnce'
  <2> SUFFICES ASSUME NEW k \in Keys PROVE \E a \in Recorded(k)' : acted'[k] <= a + LegSize * faults'
    BY DEF ActedOnce
  <2>1. CASE Added(k, e, W)
    <3>1. acted[k] <= 0 + LegSize * faults
      BY <1>5, <2>1 DEF IInv, ActedOnce, Recorded
    <3>2. legs[k[1]].steps \in Recorded(k)'
      BY <1>5, <2>1 DEF Recorded
    <3>3. acted'[k] = acted[k] + legs[k[1]].steps /\ legs[k[1]].steps \in Nat
      BY <1>5, <1>6, <2>1 DEF Added
    <3>4. acted[k] \in Nat /\ LegSize * faults \in Nat
      <4>1. faults \in Nat /\ LegSize \in Nat /\ acted[k] \in Nat
        BY TypeFacts, Basics DEF IInv
      <4> QED
        BY <4>1
    <3>5. acted'[k] <= legs[k[1]].steps + LegSize * faults'
      BY <3>1, <3>3, <3>4
    <3> QED
      BY <3>2, <3>5
  <2>2. CASE ~Added(k, e, W)
    BY <1>5, <2>2 DEF IInv, ActedOnce, Recorded
  <2> QED
    BY <2>1, <2>2
<1>16. NewRowHeld'
  <2> SUFFICES ASSUME NEW k \in Keys, NEW i \in DOMAIN runs'[k], runs'[k][i].new
               PROVE  runs'[k][i].by # NoTx /\ outbox'[k[2]].by = runs'[k][i].by
    BY DEF NewRowHeld
  <2>1. CASE Added(k, e, W)
    BY <1>2, <1>5, <1>8, <2>1 DEF Added
  <2>2. CASE ~Added(k, e, W)
    BY <1>5, <1>12, <2>2 DEF IInv, NewRowHeld
  <2> QED
    BY <2>1, <2>2
<1>17. OthersAbsent'
  <2> SUFFICES ASSUME NEW x \in Events, outbox'[x].status # "done", NEW w \in Workflows \ Inline
               PROVE  DOMAIN runs'[<<w, x>>] = {}
    BY DEF OthersAbsent
  <2>1. <<w, x>> \in Keys /\ <<w, x>>[1] = w /\ <<w, x>>[2] = x
    BY KeyFacts
  <2>2. ~Added(<<w, x>>, e, W)
    BY <2>1 DEF Added, Handled
  <2>3. CASE outbox[x].status # "done"
    BY <1>5, <2>1, <2>2, <2>3 DEF IInv, OthersAbsent
  <2>4. CASE outbox[x].status = "done"
    <3>1. Fresh(t, x)
      BY <1>7, <1>9, <2>4
    <3> QED
      BY <1>5, <2>1, <2>2, <3>1, RunOfOld
  <2> QED
    BY <2>3, <2>4
<1>18. DoneRows'
  <2> SUFFICES ASSUME NEW x \in Events, outbox'[x].status = "done"
               PROVE  /\ \A w \in outbox'[x].match : DOMAIN runs'[<<w, x>>] # {}
                      /\ outbox'[x].by # NoTx =>
                           \A w \in Workflows \ Inline : \A i \in DOMAIN runs'[<<w, x>>] : runs'[<<w, x>>][i].new
    BY DEF DoneRows
  <2>1. \A w \in Workflows : <<w, x>> \in Keys /\ <<w, x>>[1] = w /\ <<w, x>>[2] = x
    BY KeyFacts
  <2>2. outbox[x].match \subseteq Workflows /\ outbox'[x].match \subseteq Workflows
    BY DEF IInv, TypeOK, Event
  <2>3. CASE outbox'[x] = outbox[x]
    <3>1. /\ \A w \in outbox[x].match : DOMAIN runs[<<w, x>>] # {}
          /\ outbox[x].by # NoTx =>
               \A w \in Workflows \ Inline : \A i \in DOMAIN runs[<<w, x>>] : runs[<<w, x>>][i].new
      BY <2>3 DEF IInv, DoneRows
    <3>2. \A w \in outbox[x].match : DOMAIN runs'[<<w, x>>] # {}
      BY <1>12, <2>1, <2>2, <3>1
    <3>3. ASSUME outbox[x].by # NoTx, NEW w \in Workflows \ Inline, NEW i \in DOMAIN runs'[<<w, x>>]
          PROVE  runs'[<<w, x>>][i].new
      <4>1. CASE Added(<<w, x>>, e, W)
        BY <1>5, <2>1, <3>3, <4>1
      <4>2. CASE ~Added(<<w, x>>, e, W)
        BY <1>5, <2>1, <3>1, <3>3, <4>2
      <4> QED
        BY <4>1, <4>2
    <3> QED
      BY <2>3, <3>2, <3>3
  <2>4. CASE outbox'[x] # outbox[x]
    <3>1. x = e /\ outbox[e].status = "claimed" /\ outbox'[e].match = outbox[e].match
          /\ \A w \in outbox[e].match : w \in W \/ DOMAIN runs[<<w, e>>] # {}
      BY <1>7, <2>4 DEF Fresh, Handled
    <3>2. \A w \in W : DOMAIN runs'[<<w, e>>] # {}
      BY <1>5, <2>1, <3>1 DEF Added, Walked
    <3>3. \A w \in outbox[e].match : DOMAIN runs'[<<w, e>>] # {}
      BY <1>12, <2>1, <2>2, <3>1, <3>2
    <3>4. ASSUME NEW w \in Workflows \ Inline, NEW i \in DOMAIN runs'[<<w, e>>]
          PROVE  runs'[<<w, e>>][i].new
      <4>1. DOMAIN runs[<<w, e>>] = {}
        BY <1>1, <3>1 DEF IInv, OthersAbsent
      <4>2. Added(<<w, e>>, e, W)
        BY <1>5, <2>1, <3>1, <3>4, <4>1
      <4> QED
        BY <1>5, <2>1, <3>1, <3>4, <4>2
    <3> QED
      BY <3>1, <3>3, <3>4
  <2> QED
    BY <2>3, <2>4
<1>19. OneLeg'
  <2> SUFFICES ASSUME NEW k \in Keys, NEW i \in DOMAIN runs'[k]
               PROVE  /\ runs'[k][i].kept <= runs'[k][i].steps
                      /\ runs'[k][i].steps <= runs'[k][i].kept + LegSize
                      /\ runs'[k][i].by = NoTx => runs'[k][i].steps = runs'[k][i].kept
                      /\ runs'[k][i].new => runs'[k][i].kept = 0
                      /\ runs'[k][i].steps < MAX_RUN_STEPS + LegSize
    BY DEF OneLeg
  <2>1. CASE Added(k, e, W)
    <3>1. legs[k[1]].steps \in Nat /\ legs[k[1]].steps <= LegSize
      BY <1>6, <2>1 DEF Added
    <3>2. runs'[k][i].kept = 0 /\ runs'[k][i].steps = legs[k[1]].steps /\ runs'[k][i].by # NoTx
      BY <1>2, <1>5, <2>1
    <3> QED
      BY <3>1, <3>2, Basics
  <2>2. CASE ~Added(k, e, W)
    BY <1>5, <2>2 DEF IInv, OneLeg
  <2> QED
    BY <2>1, <2>2
<1>20. RowHeld'
  <2> SUFFICES ASSUME NEW y \in Txs, NEW x \in tx[y].rows
               PROVE  /\ x[2] \in DOMAIN runs'[x[1]]
                      /\ runs'[x[1]][x[2]].by = y /\ ~runs'[x[1]][x[2]].new
                      /\ runs'[x[1]][x[2]].steps = runs'[x[1]][x[2]].kept
    BY <1>4 DEF RowHeld
  <2>1. x[1] \in Keys
    BY TypeFacts DEF IInv
  <2>2. /\ x[2] \in DOMAIN runs[x[1]]
        /\ runs[x[1]][x[2]].by = y /\ ~runs[x[1]][x[2]].new
        /\ runs[x[1]][x[2]].steps = runs[x[1]][x[2]].kept
    BY DEF IInv, RowHeld
  <2>3. runs'[x[1]] = runs[x[1]]
    BY <1>12, <2>1, <2>2
  <2> QED
    BY <2>2, <2>3
<1>21. DepthBound'
  <2> SUFFICES ASSUME NEW k \in Keys, NEW i \in DOMAIN runs'[k],
                      \/ runs'[k][i].status \in {"waiting", "running"}
                      \/ runs'[k][i].by # NoTx /\ ~runs'[k][i].new
               PROVE  outbox'[k[2]].depth <= MAX_DEPTH
    BY <1>11 DEF DepthBound
  <2>1. CASE Added(k, e, W)
    <3>1. legs[k[1]].status \in {"waiting", "running"} /\ k[1] \in W /\ k[2] = e
      BY <1>5, <2>1 DEF Added
    <3>2. legs[k[1]].status = "waiting"
      BY <1>6, <3>1
    <3> QED
      BY <1>6, <1>8, <3>1, <3>2
  <2>2. CASE ~Added(k, e, W)
    <3>1. runs'[k] = runs[k]
      BY <1>5, <2>2
    <3>2. outbox[k[2]].depth <= MAX_DEPTH
      BY <3>1 DEF IInv, DepthBound
    <3> QED
      BY <1>12, <3>1, <3>2
  <2> QED
    BY <2>1, <2>2
<1> QED
  BY <1>11, <1>13, <1>14, <1>15, <1>16, <1>17, <1>18, <1>19, <1>20, <1>21 DEF IInv

\* The inline workflows of an event run in the request's transaction.
LEMMA RunInlineStep ==
  ASSUME IInv, NEW t \in Requests, NEW e \in Events, RunInline(t, e)
  PROVE  IInv'
<1> DEFINE W == Absent(outbox[e].match \cap Inline, e)
<1>1. /\ t \in Txs /\ e \in tx[t].events /\ tx' = [tx EXCEPT ![t].events = {}] /\ faults' = faults
  BY DEF RunInline, Txs
<1>2. PICK legs \in Outcomes(W, outbox[e].depth), m \in Matches :
        /\ seq + Emits(W, legs) <= MaxEvents /\ RunAll(t, e, W, legs)
        /\ outbox' = Written(t, Emits(W, legs), outbox[e].depth + 1, m) /\ seq' = seq + Emits(W, legs)
  BY DEF RunInline, Emits
<1>3. W \subseteq Workflows /\ W \subseteq Inline /\ \A w \in W : DOMAIN runs[<<w, e>>] = {}
  BY Basics DEF Absent
<1> HIDE DEF W
<1>4. Walked(t, e, W, legs)
  BY <1>1, <1>2, <1>3 DEF Walked
<1> DEFINE n == Emits(W, legs)
<1>5. n \in Nat /\ n = Emits(W, legs)
  BY <1>4, LegFacts
<1>6. /\ seq + n <= MaxEvents /\ seq' = seq + n
      /\ outbox' = Written(t, n, outbox[e].depth + 1, m)
  BY <1>2
<1> HIDE DEF n
<1>7. /\ outbox' \in [Events -> Event]
      /\ \A x \in Events : x <= seq => outbox'[x] = outbox[x]
  <2>1. outbox[e].depth + 1 \in Nat
    BY TypeFacts DEF IInv
  <2> QED
    BY <1>1, <1>5, <1>6, <2>1, FreshEvents
<1>8. e <= seq
  <2>1. outbox[e].status # "none" /\ e \in Nat /\ seq \in Nat
    BY <1>1, Basics, TypeFacts DEF IInv, EventHeld
  <2> QED
    BY <2>1, NoEventFacts DEF IInv, SeqBound
<1>9. /\ tx' \in [Txs -> Transaction] /\ \A x \in Txs : x # t => tx'[x] = tx[x]
      /\ tx'[t].open = tx[t].open /\ tx'[t].rows = tx[t].rows
      /\ tx'[t].events \subseteq tx[t].events \ {e}
  <2>1. {} \in SUBSET Events
    OBVIOUS
  <2> QED
    BY <1>1, <2>1, DropEvents DEF IInv
<1>10. \A x \in Events : x # e => outbox'[x] = Written(t, n, outbox[e].depth + 1, m)[x]
  BY <1>6
<1>11. Handled(t, e, W)
  BY <1>3, <1>7, <1>8 DEF Handled
<1>12. t \in Txs /\ e \in tx[t].events /\ faults' = faults
  BY <1>1
<1> QED
  BY <1>12, <1>4, <1>5, <1>6, <1>7, <1>9, <1>10, <1>11, RunStep

\* A claimed event runs the workflows that have no run for it, and is done.
LEMMA ProcessEventStep ==
  ASSUME IInv, NEW t \in Workers, NEW e \in Events, ProcessEvent(t, e)
  PROVE  IInv'
<1> DEFINE W == ToRun(e)
           S == tx[t].events \ {e}
<1>1. t \in Txs /\ e \in tx[t].events /\ faults' = faults /\ tx' = [tx EXCEPT ![t].events = S]
  BY DEF ProcessEvent, Txs, IInv, TypeOK
<1>2. PICK legs \in Outcomes(W, outbox[e].depth), m \in Matches :
        /\ seq + Emits(W, legs) <= MaxEvents /\ RunAll(t, e, W, legs)
        /\ outbox' = [Written(t, Emits(W, legs), outbox[e].depth + 1, m) EXCEPT ![e].status = "done"]
        /\ seq' = seq + Emits(W, legs)
  BY DEF ProcessEvent, Emits
<1>3. /\ W \subseteq Workflows /\ \A w \in W : DOMAIN runs[<<w, e>>] = {}
      /\ \A w \in outbox[e].match : w \in W \/ DOMAIN runs[<<w, e>>] # {}
  BY TypeFacts DEF ToRun, Absent, IInv
<1>4. S \in SUBSET tx[t].events /\ e \notin S
  OBVIOUS
<1> HIDE DEF W, S
<1>5. Walked(t, e, W, legs)
  BY <1>1, <1>2, <1>3 DEF Walked
<1> DEFINE n == Emits(W, legs)
           o == Written(t, n, outbox[e].depth + 1, m)
<1>6. n \in Nat /\ n = Emits(W, legs)
  BY <1>5, LegFacts
<1>7. seq + n <= MaxEvents /\ seq' = seq + n /\ outbox' = [o EXCEPT ![e].status = "done"]
  BY <1>2
<1> HIDE DEF n
<1>8. o \in [Events -> Event] /\ \A x \in Events : x <= seq => o[x] = outbox[x]
  <2>1. outbox[e].depth + 1 \in Nat
    BY TypeFacts DEF IInv
  <2> QED
    BY <1>1, <1>6, <2>1, FreshEvents
<1>9. outbox[e].status = "claimed" /\ outbox[e].by = t
  BY <1>1 DEF IInv, EventHeld
<1>10. e <= seq
  <2>1. e \in Nat /\ seq \in Nat
    BY Basics, TypeFacts DEF IInv
  <2> QED
    BY <1>9, <2>1, NoEventFacts DEF IInv, SeqBound
<1> HIDE DEF o
<1>11. /\ outbox' \in [Events -> Event] /\ \A x \in Events : x # e => outbox'[x] = o[x]
       /\ outbox'[e].status = "done" /\ outbox'[e].depth = o[e].depth /\ outbox'[e].match = o[e].match
       /\ outbox'[e].by = o[e].by
  <2>1. outbox' = [o EXCEPT ![e].status = "done"]
    BY <1>7
  <2> QED
    BY <1>8, <2>1, StatusField
<1>12. o[e] = outbox[e]
  BY <1>8, <1>10
<1>13. /\ outbox[e].status = "claimed" /\ outbox'[e].status = "done"
       /\ outbox'[e].by = t /\ outbox'[e].depth = outbox[e].depth
       /\ outbox'[e].match = outbox[e].match
  BY <1>9, <1>11, <1>12
<1>14. \A x \in Events : x # e => outbox'[x] = Written(t, n, outbox[e].depth + 1, m)[x]
  BY <1>11 DEF o
<1>15. outbox' \in [Events -> Event]
  BY <1>11
<1>16. seq + n <= MaxEvents /\ seq' = seq + n
  BY <1>7
<1>17. Handled(t, e, W)
  BY <1>3, <1>13 DEF Handled
<1>18. /\ tx' \in [Txs -> Transaction] /\ \A x \in Txs : x # t => tx'[x] = tx[x]
       /\ tx'[t].open = tx[t].open /\ tx'[t].rows = tx[t].rows
       /\ tx'[t].events \subseteq tx[t].events \ {e}
  <2>1. S \in SUBSET Events /\ S \subseteq tx[t].events \ {e}
    BY <1>1, <1>4, TypeFacts DEF IInv
  <2> QED
    BY <1>1, <2>1, DropEvents DEF IInv
<1>19. t \in Txs /\ e \in tx[t].events /\ faults' = faults
  BY <1>1
<1> QED
  BY <1>5, <1>6, <1>14, <1>15, <1>16, <1>17, <1>18, <1>19, RunStep

----------------------------------------------------------------------------
\* What a timer sweep may do to a committed run that is free or its own.
Resumed(t, k, i) ==
  /\ runs[k][i].by \in {NoTx, t} /\ ~runs[k][i].new /\ outbox[k[2]].depth <= MAX_DEPTH
  /\ runs'[k][i] \in Run /\ runs'[k][i].by = t /\ ~runs'[k][i].new
  /\ runs'[k][i].kept = runs[k][i].kept /\ runs'[k][i].kept <= runs'[k][i].steps
  /\ runs'[k][i].steps <= runs'[k][i].kept + LegSize
  /\ runs'[k][i].steps < MAX_RUN_STEPS + LegSize

\* Steps that change some of the runs and may write events.
LEMMA RowsOnly ==
  ASSUME IInv, NEW t \in Txs, ActedOnce', seq <= seq',
         outbox' \in [Events -> Event], DOMAIN runs' = Keys, acted' \in [Keys -> Nat],
         tx' \in [Txs -> Transaction], seq' \in 0..MaxEvents, faults' \in 0..MaxFaults,
         tx'[t].open, tx'[t].events \subseteq tx[t].events,
         \A x \in Txs : x # t => tx'[x] = tx[x],
         \A e \in Events : outbox'[e] = outbox[e] \/ Fresh(t, e),
         \A k \in Keys : DOMAIN runs'[k] = DOMAIN runs[k] /\ runs'[k] \in [DOMAIN runs[k] -> Run],
         \A k \in Keys : \A i \in DOMAIN runs[k] : runs'[k][i] = runs[k][i] \/ Resumed(t, k, i),
         \A x \in tx'[t].rows : /\ x[2] \in DOMAIN runs[x[1]]
                                /\ runs'[x[1]][x[2]].by = t /\ ~runs'[x[1]][x[2]].new
                                /\ runs'[x[1]][x[2]].steps = runs'[x[1]][x[2]].kept
  PROVE  IInv'
<1>1. t # NoTx /\ seq' \in Nat /\ tx[t].events \subseteq Events
  BY Basics, TypeFacts DEF IInv
<1>2. \A k \in Keys : k[2] > seq => DOMAIN runs'[k] = {}
  BY DEF IInv, SeqBound
<1>3. SeqBound' /\ EventHeld' /\ PendingFree' /\ \A e \in Events : outbox'[e].depth <= MAX_DEPTH + 1
  <2>1. \A e \in tx'[t].events :
           /\ outbox'[e].by = t /\ outbox'[e].status # "none"
           /\ t \in Workers => outbox'[e].status = "claimed"
    <3> SUFFICES ASSUME NEW e \in tx'[t].events
                 PROVE  /\ outbox'[e].by = t /\ outbox'[e].status # "none"
                        /\ t \in Workers => outbox'[e].status = "claimed"
      OBVIOUS
    <3>1. /\ e \in Events /\ outbox[e].by = t /\ outbox[e].status # "none"
          /\ t \in Workers => outbox[e].status = "claimed"
      BY <1>1 DEF IInv, EventHeld
    <3>2. ~Fresh(t, e)
      BY <3>1, NoEventFacts DEF Fresh, IInv, SeqBound
    <3> QED
      BY <3>1, <3>2
  <2> QED
    BY <1>1, <1>2, <2>1, EventStep
<1>4. \A k \in Keys : DOMAIN runs[k] # {} => k[2] \in Events /\ outbox'[k[2]] = outbox[k[2]]
  BY RunOfOld
<1>5. TypeOK'
  <2>1. \A x \in Txs : tx[x].open => tx'[x].open
    OBVIOUS
  <2>2. ASSUME NEW e \in Events, outbox'[e].by # NoTx PROVE tx'[outbox'[e].by].open
    <3>1. outbox[e].by \in Txs \cup {NoTx} /\ (outbox[e].by # NoTx => tx[outbox[e].by].open)
      BY DEF IInv, TypeOK, Event
    <3> QED
      BY <2>1, <2>2, <3>1 DEF Fresh
  <2>3. ASSUME NEW k \in Keys, NEW i \in DOMAIN runs[k], runs'[k][i].by # NoTx
        PROVE  tx'[runs'[k][i].by].open
    <3>1. runs[k][i].by \in Txs \cup {NoTx} /\ (runs[k][i].by # NoTx => tx[runs[k][i].by].open)
      BY DEF IInv, TypeOK, Run
    <3>2. runs'[k][i].by = runs[k][i].by \/ runs'[k][i].by = t
      BY DEF Resumed
    <3> QED
      BY <2>1, <2>3, <3>1, <3>2
  <2>4. \A k \in Keys : DOMAIN runs'[k] \subseteq Nat /\ runs'[k] \in [DOMAIN runs'[k] -> Run]
    BY DEF IInv, TypeOK
  <2> QED
    BY <2>2, <2>3, <2>4 DEF TypeOK
<1>6. OneRunPerEvent'
  BY DEF IInv, OneRunPerEvent
<1>7. NewRowHeld'
  <2> SUFFICES ASSUME NEW k \in Keys, NEW i \in DOMAIN runs[k], runs'[k][i].new
               PROVE  runs'[k][i].by # NoTx /\ outbox'[k[2]].by = runs'[k][i].by
    BY DEF NewRowHeld
  <2>1. runs'[k][i] = runs[k][i]
    BY DEF Resumed
  <2> QED
    BY <1>4, <2>1 DEF IInv, NewRowHeld
<1>8. OthersAbsent'
  <2> SUFFICES ASSUME NEW e \in Events, outbox'[e].status # "done", NEW w \in Workflows \ Inline
               PROVE  DOMAIN runs[<<w, e>>] = {}
    BY KeyFacts DEF OthersAbsent
  <2>1. <<w, e>> \in Keys /\ <<w, e>>[2] = e
    BY KeyFacts
  <2> QED
    BY <1>4, <2>1 DEF IInv, OthersAbsent
<1>9. DoneRows'
  <2> SUFFICES ASSUME NEW e \in Events, outbox'[e].status = "done"
               PROVE  /\ \A w \in outbox'[e].match : DOMAIN runs'[<<w, e>>] # {}
                      /\ outbox'[e].by # NoTx =>
                           \A w \in Workflows \ Inline : \A i \in DOMAIN runs'[<<w, e>>] : runs'[<<w, e>>][i].new
    BY DEF DoneRows
  <2>1. outbox'[e] = outbox[e]
    BY DEF Fresh
  <2>2. outbox[e].match \subseteq Workflows
    BY TypeFacts DEF IInv
  <2>3. \A w \in Workflows : <<w, e>> \in Keys /\ DOMAIN runs'[<<w, e>>] = DOMAIN runs[<<w, e>>]
    BY KeyFacts
  <2>4. \A w \in outbox'[e].match : DOMAIN runs'[<<w, e>>] # {}
    BY <2>1, <2>2, <2>3 DEF IInv, DoneRows
  <2>5. ASSUME outbox'[e].by # NoTx, NEW w \in Workflows \ Inline, NEW i \in DOMAIN runs'[<<w, e>>]
        PROVE  runs'[<<w, e>>][i].new
    <3>1. runs[<<w, e>>][i].new
      BY <2>1, <2>3, <2>5 DEF IInv, DoneRows
    <3>2. runs'[<<w, e>>][i] = runs[<<w, e>>][i]
      BY <2>3, <2>5, <3>1 DEF Resumed
    <3> QED
      BY <3>1, <3>2
  <2> QED
    BY <2>4, <2>5
<1>10. OneLeg'
  <2> SUFFICES ASSUME NEW k \in Keys, NEW i \in DOMAIN runs[k]
               PROVE  /\ runs'[k][i].kept <= runs'[k][i].steps
                      /\ runs'[k][i].steps <= runs'[k][i].kept + LegSize
                      /\ runs'[k][i].by = NoTx => runs'[k][i].steps = runs'[k][i].kept
                      /\ runs'[k][i].new => runs'[k][i].kept = 0
                      /\ runs'[k][i].steps < MAX_RUN_STEPS + LegSize
    BY DEF OneLeg
  <2>1. CASE runs'[k][i] = runs[k][i]
    BY <2>1 DEF IInv, OneLeg
  <2>2. CASE Resumed(t, k, i)
    BY <1>1, <2>2 DEF Resumed
  <2> QED
    BY <2>1, <2>2
<1>11. RowHeld'
  <2> SUFFICES ASSUME NEW y \in Txs, y # t, NEW x \in tx[y].rows
               PROVE  /\ x[2] \in DOMAIN runs'[x[1]]
                      /\ runs'[x[1]][x[2]].by = y /\ ~runs'[x[1]][x[2]].new
                      /\ runs'[x[1]][x[2]].steps = runs'[x[1]][x[2]].kept
    <3>1. \A x \in tx'[t].rows : x[1] \in Keys
      BY DEF Transaction
    <3> QED
      BY <3>1 DEF RowHeld
  <2>1. x[1] \in Keys /\ y # NoTx
    BY TypeFacts, Basics DEF IInv
  <2>2. /\ x[2] \in DOMAIN runs[x[1]]
        /\ runs[x[1]][x[2]].by = y /\ ~runs[x[1]][x[2]].new
        /\ runs[x[1]][x[2]].steps = runs[x[1]][x[2]].kept
    BY DEF IInv, RowHeld
  <2>3. runs'[x[1]][x[2]] = runs[x[1]][x[2]]
    BY <2>1, <2>2 DEF Resumed
  <2> QED
    BY <2>1, <2>2, <2>3
<1>12. DepthBound'
  <2> SUFFICES ASSUME NEW k \in Keys, NEW i \in DOMAIN runs[k],
                      \/ runs'[k][i].status \in {"waiting", "running"}
                      \/ runs'[k][i].by # NoTx /\ ~runs'[k][i].new
               PROVE  outbox[k[2]].depth <= MAX_DEPTH
    BY <1>3, <1>4 DEF DepthBound
  <2>1. CASE runs'[k][i] = runs[k][i]
    BY <2>1 DEF IInv, DepthBound
  <2>2. CASE Resumed(t, k, i)
    BY <2>2 DEF Resumed
  <2> QED
    BY <2>1, <2>2
<1> QED
  BY <1>3, <1>5, <1>6, <1>7, <1>8, <1>9, <1>10, <1>11, <1>12 DEF IInv

\* A timer sweep claims runs that wait and that nobody has.
LEMMA ClaimDueStep ==
  ASSUME IInv, NEW t \in Workers, ClaimDue(t)
  PROVE  IInv'
<1>1. t \in Txs /\ tx[t] = Closed /\ outbox' = outbox /\ acted' = acted /\ seq' = seq /\ faults' = faults
  BY DEF ClaimDue, Txs
<1>2. PICK S \in SUBSET Due :
        /\ runs' = [k \in Keys |-> [i \in DOMAIN runs[k] |->
                     IF <<k, i>> \in S THEN [runs[k][i] EXCEPT !.status = "running", !.by = t]
                     ELSE runs[k][i]]]
        /\ tx' = [tx EXCEPT ![t] = [open |-> TRUE, events |-> {}, rows |-> S]]
  BY DEF ClaimDue
<1>3. \A x \in S : /\ x[1] \in Keys /\ x[2] \in DOMAIN runs[x[1]] /\ x = <<x[1], x[2]>>
                   /\ runs[x[1]][x[2]].status = "waiting" /\ runs[x[1]][x[2]].by = NoTx
  <2> SUFFICES ASSUME NEW x \in S
               PROVE  /\ x[1] \in Keys /\ x[2] \in DOMAIN runs[x[1]] /\ x = <<x[1], x[2]>>
                      /\ runs[x[1]][x[2]].status = "waiting" /\ runs[x[1]][x[2]].by = NoTx
    OBVIOUS
  <2>1. PICK k \in Keys : x \in RowSet(k)
    BY <1>2 DEF Due
  <2>2. PICK i \in DOMAIN runs[k] : x = <<k, i>>
    BY <2>1 DEF RowSet
  <2>3. runs[x[1]][x[2]].status = "waiting" /\ runs[x[1]][x[2]].by = NoTx
    BY <1>2 DEF Due
  <2> QED
    BY <2>2, <2>3
<1>4. S \subseteq Keys \X Nat
  BY <1>3, TypeFacts DEF IInv
<1> DEFINE q == [open |-> TRUE, events |-> {}, rows |-> S]
<1>5. q \in Transaction /\ q.open /\ q.events = {} /\ q.rows = S
  BY <1>4 DEF Transaction
<1> HIDE DEF q
<1>6. tx' \in [Txs -> Transaction] /\ tx'[t] = q /\ \A x \in Txs : x # t => tx'[x] = tx[x]
  BY <1>1, <1>2, <1>5, TxFields DEF IInv, q
<1>7. \A k \in Keys : \A i \in DOMAIN runs[k] :
        /\ runs[k][i].steps = runs[k][i].kept \/ runs[k][i].by # NoTx
        /\ runs[k][i].new => runs[k][i].by # NoTx
        /\ runs[k][i].status = "waiting" => outbox[k[2]].depth <= MAX_DEPTH
        /\ runs[k][i].steps < MAX_RUN_STEPS + LegSize
  BY DEF IInv, OneLeg, NewRowHeld, DepthBound
<1>8. ASSUME NEW k \in Keys, NEW i \in DOMAIN runs[k]
      PROVE  /\ runs'[k][i] \in Run
             /\ <<k, i>> \notin S => runs'[k][i] = runs[k][i]
             /\ <<k, i>> \in S => /\ Resumed(t, k, i)
                                  /\ runs'[k][i].steps = runs'[k][i].kept
  <2> DEFINE r == [runs[k][i] EXCEPT !.status = "running", !.by = t]
  <2>1. runs[k][i] \in Run /\ runs[k][i].steps \in Nat /\ runs[k][i].kept \in Nat
    BY TypeFacts DEF IInv
  <2>2. /\ r \in Run /\ r.by = t /\ r.new = runs[k][i].new /\ r.kept = runs[k][i].kept
        /\ r.steps = runs[k][i].steps
    BY <1>1, <2>1 DEF Run
  <2>3. runs'[k][i] = IF <<k, i>> \in S THEN r ELSE runs[k][i]
    BY <1>2
  <2> HIDE DEF r
  <2>4. CASE <<k, i>> \in S
    <3>1. runs[k][i].status = "waiting" /\ runs[k][i].by = NoTx
      BY <1>3, <2>4
    <3>2. /\ ~runs[k][i].new /\ outbox[k[2]].depth <= MAX_DEPTH
          /\ runs[k][i].steps = runs[k][i].kept /\ runs[k][i].steps < MAX_RUN_STEPS + LegSize
      BY <1>7, <3>1
    <3> QED
      BY <2>1, <2>2, <2>3, <2>4, <3>1, <3>2, Basics DEF Resumed
  <2>5. CASE <<k, i>> \notin S
    BY <2>1, <2>3, <2>5
  <2> QED
    BY <2>4, <2>5
<1>9. /\ DOMAIN runs' = Keys
      /\ \A k \in Keys : DOMAIN runs'[k] = DOMAIN runs[k] /\ runs'[k] \in [DOMAIN runs[k] -> Run]
  <2>1. DOMAIN runs' = Keys
    BY <1>2
  <2>2. ASSUME NEW k \in Keys
        PROVE  DOMAIN runs'[k] = DOMAIN runs[k] /\ runs'[k] \in [DOMAIN runs[k] -> Run]
    <3>1. PICK f : runs'[k] = [i \in DOMAIN runs[k] |-> f[i]]
      <4> DEFINE g == [i \in DOMAIN runs[k] |->
                         IF <<k, i>> \in S THEN [runs[k][i] EXCEPT !.status = "running", !.by = t]
                         ELSE runs[k][i]]
      <4>1. runs'[k] = g
        BY <1>2
      <4>2. g = [i \in DOMAIN runs[k] |-> g[i]]
        OBVIOUS
      <4> QED
        BY <4>1, <4>2
    <3> QED
      BY <1>8, <3>1
  <2> QED
    BY <2>1, <2>2
<1>10. ActedOnce'
  <2> SUFFICES ASSUME NEW k \in Keys PROVE \E n \in Recorded(k)' : acted[k] <= n + LegSize * faults
    BY <1>1 DEF ActedOnce
  <2>1. \A i \in DOMAIN runs[k] : runs'[k][i].steps = runs[k][i].steps
    <3> SUFFICES ASSUME NEW i \in DOMAIN runs[k], <<k, i>> \in S
                 PROVE  runs'[k][i].steps = runs[k][i].steps
      BY <1>8
    <3>1. runs[k][i].by = NoTx
      BY <1>3
    <3> QED
      BY <1>7, <1>8, <3>1 DEF Resumed
  <2>2. Recorded(k)' = Recorded(k)
    BY <1>9, <2>1 DEF Recorded
  <2> QED
    BY <2>2 DEF IInv, ActedOnce
<1>11. \A x \in tx'[t].rows : /\ x[2] \in DOMAIN runs[x[1]]
                              /\ runs'[x[1]][x[2]].by = t /\ ~runs'[x[1]][x[2]].new
                              /\ runs'[x[1]][x[2]].steps = runs'[x[1]][x[2]].kept
  BY <1>3, <1>5, <1>6, <1>8 DEF Resumed
<1>12. tx'[t].open /\ tx'[t].events \subseteq tx[t].events
  BY <1>5, <1>6
<1>13. /\ outbox' \in [Events -> Event] /\ acted' \in [Keys -> Nat] /\ seq' \in 0..MaxEvents
       /\ faults' \in 0..MaxFaults /\ seq <= seq'
  BY <1>1, TypeFacts DEF IInv, TypeOK
<1>14. \A k \in Keys : \A i \in DOMAIN runs[k] : runs'[k][i] = runs[k][i] \/ Resumed(t, k, i)
  BY <1>8
<1>15. t \in Txs /\ outbox' = outbox
  BY <1>1
<1> QED
  BY <1>6, <1>9, <1>10, <1>11, <1>12, <1>13, <1>14, <1>15, RowsOnly

\* Setting the status and the steps of a run.
Walk(r, st, n) == [r EXCEPT !.status = st, !.steps = n]

LEMMA WalkFields ==
  ASSUME NEW r \in Run, NEW st \in {"waiting", "ended"}, NEW n \in Nat
  PROVE  /\ Walk(r, st, n) \in Run /\ Walk(r, st, n).by = r.by /\ Walk(r, st, n).new = r.new
         /\ Walk(r, st, n).kept = r.kept /\ Walk(r, st, n).steps = n
BY DEF Run, Walk

\* Replacing one run.
LEMMA RowFields ==
  ASSUME TypeOK, NEW k \in Keys, NEW i \in DOMAIN runs[k], NEW q \in Run,
         runs' = [runs EXCEPT ![k] = [runs[k] EXCEPT ![i] = q]]
  PROVE  /\ DOMAIN runs' = Keys /\ runs'[k][i] = q
         /\ \A x \in Keys : DOMAIN runs'[x] = DOMAIN runs[x] /\ runs'[x] \in [DOMAIN runs[x] -> Run]
         /\ \A x \in Keys : x # k => runs'[x] = runs[x]
         /\ \A j \in DOMAIN runs[k] : j # i => runs'[k][j] = runs[k][j]
<1>1. DOMAIN runs = Keys /\ \A x \in Keys : runs[x] \in [DOMAIN runs[x] -> Run]
  BY DEF TypeOK
<1>2. DOMAIN runs' = Keys /\ runs'[k] = [runs[k] EXCEPT ![i] = q] /\ \A x \in Keys : x # k => runs'[x] = runs[x]
  BY <1>1
<1>3. runs'[k] \in [DOMAIN runs[k] -> Run] /\ runs'[k][i] = q
      /\ \A j \in DOMAIN runs[k] : j # i => runs'[k][j] = runs[k][j]
  BY <1>1, <1>2
<1> QED
  BY <1>1, <1>2, <1>3

\* A timer sweep drops a run of its list.
LEMMA DropRow ==
  ASSUME TypeOK, NEW t \in Txs, NEW y, tx' = [tx EXCEPT ![t].rows = @ \ {y}]
  PROVE  /\ tx' \in [Txs -> Transaction] /\ \A x \in Txs : x # t => tx'[x] = tx[x]
         /\ tx'[t].open = tx[t].open /\ tx'[t].events = tx[t].events /\ tx'[t].rows = tx[t].rows \ {y}
<1> DEFINE q == [tx[t] EXCEPT !.rows = tx[t].rows \ {y}]
<1>1. tx[t] \in Transaction /\ tx \in [Txs -> Transaction]
  BY DEF TypeOK
<1>2. q \in Transaction /\ q.open = tx[t].open /\ q.events = tx[t].events /\ q.rows = tx[t].rows \ {y}
  BY <1>1 DEF Transaction
<1>3. tx' = [tx EXCEPT ![t] = q]
  BY <1>1
<1> HIDE DEF q
<1> QED
  BY <1>1, <1>2, <1>3

\* What a transaction knows of a run it has still to resume.
LEMMA HeldRow ==
  ASSUME IInv, NEW t \in Txs, NEW k, NEW i, <<k, i>> \in tx[t].rows
  PROVE  /\ k \in Keys /\ i \in DOMAIN runs[k] /\ tx[t].open
         /\ runs[k][i].by = t /\ ~runs[k][i].new /\ runs[k][i].steps = runs[k][i].kept
         /\ runs[k][i].steps \in Nat /\ runs[k][i].steps < MAX_RUN_STEPS + LegSize
         /\ runs[k][i] \in Run /\ outbox[k[2]].depth <= MAX_DEPTH
         /\ \A n \in Recorded(k) : n = 0 \/ n = runs[k][i].steps
<1>1. k \in Keys
  <2>1. <<k, i>>[1] \in Keys
    BY TypeFacts DEF IInv
  <2> QED
    BY <2>1
<1>2. /\ i \in DOMAIN runs[k] /\ runs[k][i].by = t /\ ~runs[k][i].new
      /\ runs[k][i].steps = runs[k][i].kept
  <2>1. <<k, i>>[1] = k /\ <<k, i>>[2] = i
    OBVIOUS
  <2> QED
    BY <2>1 DEF IInv, RowHeld
<1>3. t # NoTx
  BY Basics
<1>4. tx[t].open
  BY <1>1, <1>2, <1>3 DEF IInv, TypeOK
<1>5. runs[k][i] \in Run /\ runs[k][i].steps \in Nat
  BY <1>1, <1>2, TypeFacts DEF IInv
<1>6. runs[k][i].steps < MAX_RUN_STEPS + LegSize
  BY <1>1, <1>2 DEF IInv, OneLeg
<1>7. outbox[k[2]].depth <= MAX_DEPTH
  BY <1>1, <1>2, <1>3 DEF IInv, DepthBound
<1>8. \A n \in Recorded(k) : n = 0 \/ n = runs[k][i].steps
  BY <1>1, <1>2 DEF IInv, OneRunPerEvent, Recorded
<1> QED
  BY <1>1, <1>2, <1>4, <1>5, <1>6, <1>7, <1>8

\* Resuming a run, or failing to: q is what the transaction leaves of it, and
\* the a actions that fire are recorded or are covered by a fault.
LEMMA ResumeStep ==
  ASSUME IInv, NEW t \in Txs, NEW k, NEW i, <<k, i>> \in tx[t].rows,
         NEW q \in Run, q.by = t, ~q.new, q.kept = runs[k][i].kept,
         q.kept <= q.steps, q.steps <= q.kept + LegSize, q.steps < MAX_RUN_STEPS + LegSize,
         runs' = [runs EXCEPT ![k] = [runs[k] EXCEPT ![i] = q]],
         NEW a \in Nat, acted' = [acted EXCEPT ![k] = @ + a],
         faults' \in 0..MaxFaults, faults <= faults',
         runs[k][i].steps + a + LegSize * faults <= q.steps + LegSize * faults',
         tx' = [tx EXCEPT ![t].rows = @ \ {<<k, i>>}],
         outbox' \in [Events -> Event], \A e \in Events : outbox'[e] = outbox[e] \/ Fresh(t, e),
         seq' \in 0..MaxEvents, seq <= seq'
  PROVE  IInv'
<1>1. /\ k \in Keys /\ i \in DOMAIN runs[k] /\ tx[t].open
      /\ runs[k][i].by = t /\ ~runs[k][i].new /\ runs[k][i].steps = runs[k][i].kept
      /\ runs[k][i].steps \in Nat /\ outbox[k[2]].depth <= MAX_DEPTH
      /\ \A n \in Recorded(k) : n = 0 \/ n = runs[k][i].steps
  BY HeldRow
<1>2. TypeOK
  BY DEF IInv
<1>3. /\ DOMAIN runs' = Keys /\ runs'[k][i] = q
      /\ \A x \in Keys : DOMAIN runs'[x] = DOMAIN runs[x] /\ runs'[x] \in [DOMAIN runs[x] -> Run]
      /\ \A x \in Keys : x # k => runs'[x] = runs[x]
      /\ \A j \in DOMAIN runs[k] : j # i => runs'[k][j] = runs[k][j]
  BY <1>1, <1>2, RowFields
<1>4. /\ tx' \in [Txs -> Transaction] /\ \A x \in Txs : x # t => tx'[x] = tx[x]
      /\ tx'[t].open = tx[t].open /\ tx'[t].events = tx[t].events
      /\ tx'[t].rows = tx[t].rows \ {<<k, i>>}
  BY <1>2, DropRow
<1>5. /\ acted' \in [Keys -> Nat] /\ acted[k] \in Nat /\ acted'[k] = acted[k] + a
      /\ \A x \in Keys : x # k => acted'[x] = acted[x]
  <2>1. acted \in [Keys -> Nat]
    BY <1>2 DEF TypeOK
  <2>2. acted[k] \in Nat /\ acted[k] + a \in Nat
    BY <1>1, <2>1
  <2>3. acted' = [acted EXCEPT ![k] = acted[k] + a]
    OBVIOUS
  <2> QED
    BY <1>1, <2>1, <2>2, <2>3
<1>6. Resumed(t, k, i)
  BY <1>1, <1>3 DEF Resumed
<1>7. \A x \in Keys : \A j \in DOMAIN runs[x] : runs'[x][j] = runs[x][j] \/ Resumed(t, x, j)
  BY <1>3, <1>6
<1>8. LegSize * faults \in Nat /\ LegSize * faults' \in Nat /\ LegSize * faults <= LegSize * faults'
  <2>1. LegSize \in Nat /\ faults \in Nat /\ faults' \in Nat
    BY Basics, TypeFacts DEF IInv
  <2>2. PICK d \in Nat : faults' = faults + d
    <3>1. faults' - faults \in Nat /\ faults' = faults + (faults' - faults)
      BY <2>1
    <3> QED
      BY <3>1
  <2>3. LegSize * (faults + d) = LegSize * faults + LegSize * d
    BY <2>1, <2>2
  <2>4. LegSize * faults \in Nat /\ LegSize * d \in Nat /\ LegSize * faults' \in Nat
    BY <2>1, <2>2
  <2> QED
    BY <2>2, <2>3, <2>4
<1>9. ActedOnce'
  <2> SUFFICES ASSUME NEW x \in Keys PROVE \E n \in Recorded(x)' : acted'[x] <= n + LegSize * faults'
    BY DEF ActedOnce
  <2>1. PICK n \in Recorded(x) : acted[x] <= n + LegSize * faults
    BY DEF IInv, ActedOnce
  <2>2. CASE x = k
    <3>1. n <= runs[k][i].steps /\ n \in Nat
      BY <1>1, <2>1, <2>2
    <3>2. q.steps \in Nat
      BY DEF Run
    <3>3. acted'[k] <= q.steps + LegSize * faults'
      BY <1>1, <1>5, <1>8, <2>1, <2>2, <3>1, <3>2
    <3>4. q.steps \in Recorded(k)'
      BY <1>1, <1>3 DEF Recorded
    <3> QED
      BY <2>2, <3>3, <3>4
  <2>3. CASE x # k
    <3>1. n \in Recorded(x)' /\ n \in Nat /\ acted'[x] = acted[x] /\ acted[x] \in Nat
      BY <1>3, <1>5, <2>1, <2>3, TypeFacts DEF Recorded, IInv
    <3>2. acted'[x] <= n + LegSize * faults'
      BY <1>8, <2>1, <3>1
    <3> QED
      BY <3>1, <3>2
  <2> QED
    BY <2>2, <2>3
<1>10. \A x \in tx'[t].rows : /\ x[2] \in DOMAIN runs[x[1]]
                              /\ runs'[x[1]][x[2]].by = t /\ ~runs'[x[1]][x[2]].new
                              /\ runs'[x[1]][x[2]].steps = runs'[x[1]][x[2]].kept
  <2> SUFFICES ASSUME NEW x \in tx[t].rows, x # <<k, i>>
               PROVE  /\ x[2] \in DOMAIN runs[x[1]]
                      /\ runs'[x[1]][x[2]].by = t /\ ~runs'[x[1]][x[2]].new
                      /\ runs'[x[1]][x[2]].steps = runs'[x[1]][x[2]].kept
    BY <1>4
  <2>1. x[1] \in Keys /\ x = <<x[1], x[2]>>
    BY TypeFacts DEF IInv
  <2>2. /\ x[2] \in DOMAIN runs[x[1]] /\ runs[x[1]][x[2]].by = t /\ ~runs[x[1]][x[2]].new
        /\ runs[x[1]][x[2]].steps = runs[x[1]][x[2]].kept
    BY DEF IInv, RowHeld
  <2>3. x[1] # k \/ x[2] # i
    BY <2>1
  <2>4. runs'[x[1]][x[2]] = runs[x[1]][x[2]]
    BY <1>3, <2>1, <2>2, <2>3
  <2> QED
    BY <2>2, <2>4
<1>11. tx'[t].open /\ tx'[t].events \subseteq tx[t].events
  BY <1>1, <1>4
<1> QED
  BY <1>3, <1>4, <1>5, <1>7, <1>9, <1>10, <1>11, RowsOnly

\* A claimed run walks its next leg, or ends when its budget is used up.
LEMMA ResumeRunStep ==
  ASSUME IInv, NEW t \in Workers, NEW k, NEW i, ResumeRun(t, k, i)
  PROVE  IInv'
<1>1. t \in Txs /\ <<k, i>> \in tx[t].rows /\ faults' = faults /\ tx' = [tx EXCEPT ![t].rows = @ \ {<<k, i>>}]
  BY DEF ResumeRun, Txs
<1>2. /\ k \in Keys /\ i \in DOMAIN runs[k] /\ tx[t].open
      /\ runs[k][i].by = t /\ ~runs[k][i].new /\ runs[k][i].steps = runs[k][i].kept
      /\ runs[k][i].steps \in Nat /\ runs[k][i].steps < MAX_RUN_STEPS + LegSize
      /\ runs[k][i] \in Run /\ outbox[k[2]].depth <= MAX_DEPTH
  BY <1>1, HeldRow
<1> DEFINE steps == runs[k][i].steps
<1>3. PICK leg \in Budget(k[1], steps), m \in Matches :
        /\ seq + (IF leg.emits THEN 1 ELSE 0) <= MaxEvents
        /\ runs' = [runs EXCEPT ![k][i].status = leg.status, ![k][i].steps = steps + leg.steps]
        /\ acted' = [acted EXCEPT ![k] = @ + leg.steps]
        /\ outbox' = Written(t, IF leg.emits THEN 1 ELSE 0, outbox[k[2]].depth + 1, m)
        /\ seq' = seq + (IF leg.emits THEN 1 ELSE 0)
  BY <1>2 DEF ResumeRun, Seen
<1> DEFINE n == IF leg.emits THEN 1 ELSE 0
<1>4. n \in {0, 1} /\ seq + n <= MaxEvents /\ seq' = seq + n /\ outbox' = Written(t, n, outbox[k[2]].depth + 1, m)
  BY <1>3
<1> HIDE DEF n
<1>5. /\ leg.steps \in Nat /\ leg.steps <= LegSize /\ leg.status \in {"waiting", "ended"}
      /\ steps + leg.steps < MAX_RUN_STEPS + LegSize
  <2>1. k[1] \in Workflows
    BY <1>2, KeyFacts
  <2>2. CASE steps >= MAX_RUN_STEPS
    <3>1. leg = [TooDeep EXCEPT !.status = "ended"]
      BY <1>3, <2>2 DEF Budget
    <3>2. leg.steps = 0 /\ leg.status = "ended"
      BY <3>1 DEF TooDeep
    <3> QED
      BY <1>2, <3>2, Basics
  <2>3. CASE ~(steps >= MAX_RUN_STEPS)
    <3>1. leg \in Legs[k[1]]
      BY <1>3, <2>3 DEF Budget
    <3>2. leg.steps \in 0..LegSize /\ leg.status \in {"waiting", "ended"}
      BY <2>1, <3>1, DispatcherAssumption
    <3> QED
      BY <1>2, <2>3, <3>2, Basics
  <2> QED
    BY <2>2, <2>3
<1> DEFINE q == [runs[k][i] EXCEPT !.status = leg.status, !.steps = steps + leg.steps]
<1>6. /\ q \in Run /\ q.by = t /\ ~q.new /\ q.kept = runs[k][i].kept /\ q.steps = steps + leg.steps
  <2>1. steps + leg.steps \in Nat /\ leg.status \in {"waiting", "ended"}
    BY <1>2, <1>5
  <2>2. q = Walk(runs[k][i], leg.status, steps + leg.steps)
    BY DEF Walk
  <2> HIDE DEF q, steps
  <2>3. runs[k][i] \in Run
    BY <1>2
  <2>4. /\ q \in Run /\ q.by = runs[k][i].by /\ q.new = runs[k][i].new
        /\ q.kept = runs[k][i].kept /\ q.steps = steps + leg.steps
    BY <2>1, <2>2, <2>3, WalkFields
  <2> QED
    BY <1>2, <2>4
<1>7. runs' = [runs EXCEPT ![k] = [runs[k] EXCEPT ![i] = q]]
  <2> DEFINE r1 == [runs EXCEPT ![k][i].status = leg.status]
             b == steps + leg.steps
  <2>1. DOMAIN runs = Keys
    BY DEF IInv, TypeOK
  <2>2. runs' = [r1 EXCEPT ![k][i].steps = b]
    BY <1>3
  <2>3. /\ DOMAIN r1 = Keys /\ \A x \in Keys : x # k => r1[x] = runs[x]
        /\ r1[k] = [runs[k] EXCEPT ![i] = [runs[k][i] EXCEPT !.status = leg.status]]
    BY <1>2, <2>1
  <2>4. q = [[runs[k][i] EXCEPT !.status = leg.status] EXCEPT !.steps = b]
    OBVIOUS
  <2> HIDE DEF r1, b, q
  <2>5. [r1[k] EXCEPT ![i].steps = b] = [runs[k] EXCEPT ![i] = q]
    BY <1>2, <2>3, <2>4
  <2>6. runs' = [r1 EXCEPT ![k] = [runs[k] EXCEPT ![i] = q]]
    BY <2>2, <2>5
  <2> QED
    BY <2>1, <2>3, <2>6
<1> HIDE DEF q
<1>8. outbox' \in [Events -> Event] /\ \A e \in Events : outbox'[e] = outbox[e] \/ Fresh(t, e)
  <2>1. k[2] \in Events /\ outbox[k[2]].depth \in Nat /\ outbox[k[2]].depth + 1 \in Nat /\ n \in Nat
        /\ seq \in Nat
    BY <1>2, <1>4, KeyFacts, TypeFacts DEF IInv
  <2>2. /\ outbox' \in [Events -> Event]
        /\ \A x \in Events :
              /\ x <= seq \/ x > seq + n => outbox'[x] = outbox[x]
              /\ x > seq /\ x <= seq + n =>
                   /\ outbox'[x].status = "pending" /\ outbox'[x].new
                   /\ outbox'[x].by = t /\ outbox'[x].depth = outbox[k[2]].depth + 1
    BY <1>1, <1>4, <2>1, FreshEvents
  <2>3. outbox[k[2]].depth + 1 <= MAX_DEPTH + 1
    BY <1>2, <2>1, Basics
  <2>4. ASSUME NEW x \in Events PROVE outbox'[x] = outbox[x] \/ Fresh(t, x)
    <3>1. x \in Nat
      BY Basics
    <3>2. CASE x <= seq \/ x > seq + n
      BY <2>2, <3>2
    <3>3. CASE x > seq /\ x <= seq + n
      <4>1. x <= seq'
        BY <1>4, <3>3
      <4> QED
        BY <2>2, <2>3, <3>3, <4>1 DEF Fresh
    <3> QED
      BY <2>1, <3>1, <3>2, <3>3
  <2> QED
    BY <2>2, <2>4
<1>9. seq' \in 0..MaxEvents /\ seq <= seq'
  <2>1. seq \in Nat
    BY TypeFacts DEF IInv
  <2> QED
    BY <1>4, <2>1, Basics
<1>10. faults' \in 0..MaxFaults /\ faults <= faults' /\ LegSize * faults' = LegSize * faults /\ LegSize * faults \in Nat
  <2>1. faults \in Nat /\ faults \in 0..MaxFaults /\ LegSize \in Nat
    BY TypeFacts, Basics DEF IInv, TypeOK
  <2> QED
    BY <1>1, <2>1
<1>11. q.kept <= q.steps /\ q.steps <= q.kept + LegSize /\ q.steps < MAX_RUN_STEPS + LegSize
  BY <1>2, <1>5, <1>6, Basics
<1>12. runs[k][i].steps + leg.steps + LegSize * faults <= q.steps + LegSize * faults'
  BY <1>2, <1>5, <1>6, <1>10
<1>13. /\ t \in Txs /\ <<k, i>> \in tx[t].rows /\ tx' = [tx EXCEPT ![t].rows = @ \ {<<k, i>>}]
       /\ acted' = [acted EXCEPT ![k] = @ + leg.steps] /\ leg.steps \in Nat
       /\ q \in Run /\ q.by = t /\ ~q.new /\ q.kept = runs[k][i].kept
  BY <1>1, <1>3, <1>5, <1>6
<1> QED
  BY <1>7, <1>8, <1>9, <1>10, <1>11, <1>12, <1>13, ResumeStep

\* The resume fails: the run ends with the steps it had.
LEMMA ResumeFailsStep ==
  ASSUME IInv, NEW t \in Workers, NEW k, NEW i, ResumeFails(t, k, i)
  PROVE  IInv'
<1>1. /\ t \in Txs /\ <<k, i>> \in tx[t].rows /\ Fault /\ outbox' = outbox /\ seq' = seq
      /\ tx' = [tx EXCEPT ![t].rows = @ \ {<<k, i>>}]
      /\ runs' = [runs EXCEPT ![k][i].status = "ended"]
  BY DEF ResumeFails, Txs
<1>2. PICK a \in 0..LegSize : acted' = [acted EXCEPT ![k] = @ + a]
  BY DEF ResumeFails
<1>3. /\ k \in Keys /\ i \in DOMAIN runs[k]
      /\ runs[k][i].by = t /\ ~runs[k][i].new /\ runs[k][i].steps = runs[k][i].kept
      /\ runs[k][i].steps \in Nat /\ runs[k][i].steps < MAX_RUN_STEPS + LegSize
      /\ runs[k][i] \in Run
  BY <1>1, HeldRow
<1> DEFINE q == [runs[k][i] EXCEPT !.status = "ended"]
<1>4. q \in Run /\ q.by = t /\ ~q.new /\ q.kept = runs[k][i].kept /\ q.steps = runs[k][i].steps
  BY <1>3 DEF Run
<1>5. runs' = [runs EXCEPT ![k] = [runs[k] EXCEPT ![i] = q]]
  BY <1>1
<1> HIDE DEF q
<1>6. faults' \in 0..MaxFaults /\ faults <= faults' /\ LegSize * faults' = LegSize * faults + LegSize
      /\ LegSize * faults \in Nat
  <2>1. faults \in Nat /\ faults' = faults + 1
    BY <1>1, TypeFacts DEF IInv, Fault
  <2> QED
    BY <1>1, <2>1, FaultSlack
<1>7. a \in Nat /\ a <= LegSize /\ LegSize \in Nat
  BY <1>2, Basics
<1>8. q.kept <= q.steps /\ q.steps <= q.kept + LegSize /\ q.steps < MAX_RUN_STEPS + LegSize
  BY <1>3, <1>4, <1>7
<1>9. runs[k][i].steps + a + LegSize * faults <= q.steps + LegSize * faults'
  BY <1>3, <1>4, <1>6, <1>7
<1>10. outbox' \in [Events -> Event] /\ seq' \in 0..MaxEvents /\ seq <= seq'
  BY <1>1, TypeFacts DEF IInv, TypeOK
<1>11. \A e \in Events : outbox'[e] = outbox[e] \/ Fresh(t, e)
  BY <1>1
<1>12. t \in Txs /\ <<k, i>> \in tx[t].rows /\ tx' = [tx EXCEPT ![t].rows = @ \ {<<k, i>>}]
  BY <1>1
<1> QED
  BY <1>2, <1>4, <1>5, <1>6, <1>7, <1>8, <1>9, <1>10, <1>11, <1>12, ResumeStep

----------------------------------------------------------------------------
\* Closing a transaction that has settled its rows.
LEMMA ClosedType ==
  ASSUME IInv, NEW t \in Txs, tx' = [tx EXCEPT ![t] = Closed],
         outbox' \in [Events -> Event], DOMAIN runs' = Keys, acted' = acted, seq' = seq,
         faults' \in 0..MaxFaults,
         \A e \in Events : outbox'[e].by = NoTx \/ (outbox[e].by # t /\ outbox'[e] = outbox[e]),
         \A k \in Keys : DOMAIN runs'[k] \subseteq DOMAIN runs[k] /\ runs'[k] \in [DOMAIN runs'[k] -> Run],
         \A k \in Keys : \A i \in DOMAIN runs'[k] :
           runs'[k][i].by = NoTx \/ (runs[k][i].by # t /\ runs'[k][i] = runs[k][i])
  PROVE  TypeOK' /\ \A x \in Txs : x # t => tx'[x] = tx[x]
<1>1. tx' \in [Txs -> Transaction] /\ \A x \in Txs : x # t => tx'[x] = tx[x]
  BY ClosedFacts, TxFields DEF IInv
<1>2. ASSUME NEW e \in Events, outbox'[e].by # NoTx PROVE tx'[outbox'[e].by].open
  <2>1. outbox'[e].by \in Txs /\ outbox'[e].by # t /\ outbox'[e].by = outbox[e].by
    BY <1>2 DEF Event
  <2>2. tx[outbox[e].by].open
    BY <1>2, <2>1 DEF IInv, TypeOK
  <2> QED
    BY <1>1, <2>1, <2>2
<1>3. ASSUME NEW k \in Keys, NEW i \in DOMAIN runs'[k], runs'[k][i].by # NoTx
      PROVE  tx'[runs'[k][i].by].open
  <2>1. runs'[k][i].by \in Txs /\ runs'[k][i].by # t /\ runs'[k][i].by = runs[k][i].by
    BY <1>3 DEF Run
  <2>2. tx[runs[k][i].by].open
    BY <1>3, <2>1 DEF IInv, TypeOK
  <2> QED
    BY <1>1, <2>1, <2>2
<1>4. \A k \in Keys : DOMAIN runs'[k] \subseteq Nat
  BY DEF IInv, TypeOK
<1>5. acted' \in [Keys -> Nat] /\ seq' \in 0..MaxEvents
  BY DEF IInv, TypeOK
<1> QED
  BY <1>1, <1>2, <1>3, <1>4, <1>5 DEF TypeOK

\* A transaction commits.
LEMMA CommitStep ==
  ASSUME IInv, NEW t \in Txs, Commit(t)
  PROVE  IInv'
<1>1. acted' = acted /\ seq' = seq /\ faults' = faults /\ tx' = [tx EXCEPT ![t] = Closed] /\ t # NoTx
  BY Basics DEF Commit
<1>2. /\ outbox' \in [Events -> Event]
      /\ \A e \in Events : /\ outbox[e].by # t => outbox'[e] = outbox[e]
                           /\ outbox[e].by = t =>
                                /\ outbox'[e].by = NoTx /\ ~outbox'[e].new /\ outbox'[e].status = outbox[e].status
                                /\ outbox'[e].depth = outbox[e].depth /\ outbox'[e].match = outbox[e].match
  <2>1. \A e \in Events : LET o == [outbox[e] EXCEPT !.by = NoTx, !.new = FALSE] IN
          /\ o \in Event /\ o.by = NoTx /\ ~o.new /\ o.status = outbox[e].status
          /\ o.depth = outbox[e].depth /\ o.match = outbox[e].match
    BY TypeFacts DEF IInv, Event
  <2>2. outbox' = [e \in Events |-> IF outbox[e].by = t
                                    THEN [outbox[e] EXCEPT !.by = NoTx, !.new = FALSE] ELSE outbox[e]]
    BY DEF Commit
  <2> QED
    BY <2>1, <2>2, TypeFacts DEF IInv
<1>3. /\ DOMAIN runs' = Keys
      /\ \A k \in Keys : runs'[k] = [i \in DOMAIN runs[k] |-> Committed(t, runs[k][i])]
  BY DEF Commit
<1>4. ASSUME NEW k \in Keys, NEW i \in DOMAIN runs[k]
      PROVE  /\ Committed(t, runs[k][i]) \in Run
             /\ runs[k][i].by # t => Committed(t, runs[k][i]) = runs[k][i]
             /\ runs[k][i].by = t =>
                  /\ Committed(t, runs[k][i]).by = NoTx /\ ~Committed(t, runs[k][i]).new
                  /\ Committed(t, runs[k][i]).kept = runs[k][i].steps
                  /\ Committed(t, runs[k][i]).steps = runs[k][i].steps
                  /\ Committed(t, runs[k][i]).status = runs[k][i].status
  <2>1. runs[k][i] \in Run
    BY TypeFacts DEF IInv
  <2> QED
    BY <2>1 DEF Run, Committed
<1>5. \A k \in Keys : DOMAIN runs'[k] = DOMAIN runs[k] /\ runs'[k] \in [DOMAIN runs[k] -> Run]
  BY <1>3, <1>4
<1>6. \A k \in Keys : \A i \in DOMAIN runs[k] :
        /\ runs[k][i].by # t => runs'[k][i] = runs[k][i]
        /\ runs[k][i].by = t =>
             /\ runs'[k][i].by = NoTx /\ ~runs'[k][i].new /\ runs'[k][i].kept = runs[k][i].steps
             /\ runs'[k][i].steps = runs[k][i].steps /\ runs'[k][i].status = runs[k][i].status
  BY <1>3, <1>4
<1>7. TypeOK' /\ \A x \in Txs : x # t => tx'[x] = tx[x]
  <2>1. faults' \in 0..MaxFaults
    BY <1>1 DEF IInv, TypeOK
  <2>2. \A e \in Events : outbox'[e].by = NoTx \/ (outbox[e].by # t /\ outbox'[e] = outbox[e])
    BY <1>2
  <2>3. /\ \A k \in Keys : DOMAIN runs'[k] \subseteq DOMAIN runs[k] /\ runs'[k] \in [DOMAIN runs'[k] -> Run]
        /\ \A k \in Keys : \A i \in DOMAIN runs'[k] :
             runs'[k][i].by = NoTx \/ (runs[k][i].by # t /\ runs'[k][i] = runs[k][i])
    BY <1>5, <1>6
  <2>4. outbox' \in [Events -> Event] /\ DOMAIN runs' = Keys
    BY <1>2, <1>3
  <2> QED
    BY <1>1, <2>1, <2>2, <2>3, <2>4, ClosedType
<1>8. tx'[t].events = {} /\ tx'[t].rows = {}
  BY <1>1, ClosedFacts DEF IInv, TypeOK
<1>9. OneRunPerEvent'
  BY <1>5 DEF IInv, OneRunPerEvent
<1>10. ActedOnce'
  <2> SUFFICES ASSUME NEW k \in Keys PROVE Recorded(k)' = Recorded(k)
    BY <1>1 DEF IInv, ActedOnce
  <2>1. \A i \in DOMAIN runs[k] : runs'[k][i].steps = runs[k][i].steps
    BY <1>6
  <2> QED
    BY <1>5, <2>1 DEF Recorded
<1>11. SeqBound'
  BY <1>1, <1>2, <1>5, NoEventFacts DEF IInv, SeqBound
<1>12. EventHeld' /\ RowHeld'
  <2>1. ASSUME NEW x \in Txs, x # t, NEW e \in tx[x].events
        PROVE  /\ outbox'[e].by = x /\ outbox'[e].status # "none"
               /\ x \in Workers => outbox'[e].status = "claimed"
    BY <1>2, <2>1, TypeFacts DEF IInv, EventHeld
  <2>2. ASSUME NEW y \in Txs, y # t, NEW x \in tx[y].rows
        PROVE  /\ x[2] \in DOMAIN runs'[x[1]]
               /\ runs'[x[1]][x[2]].by = y /\ ~runs'[x[1]][x[2]].new
               /\ runs'[x[1]][x[2]].steps = runs'[x[1]][x[2]].kept
    <3>1. x[1] \in Keys
      BY TypeFacts DEF IInv
    <3> QED
      BY <1>5, <1>6, <2>2, <3>1 DEF IInv, RowHeld
  <2> QED
    BY <1>7, <1>8, <2>1, <2>2 DEF EventHeld, RowHeld
<1>13. PendingFree'
  BY <1>2 DEF IInv, PendingFree
<1>14. NewRowHeld'
  <2> SUFFICES ASSUME NEW k \in Keys, NEW i \in DOMAIN runs[k], runs'[k][i].new
               PROVE  runs'[k][i].by # NoTx /\ outbox'[k[2]].by = runs'[k][i].by
    BY <1>5 DEF NewRowHeld
  <2> QED
    BY <1>2, <1>6, KeyFacts DEF IInv, NewRowHeld
<1>15. \A e \in Events : outbox'[e].status = outbox[e].status /\ outbox'[e].match = outbox[e].match
                         /\ outbox'[e].depth = outbox[e].depth
  BY <1>2
<1>16. \A w \in Workflows, e \in Events : <<w, e>> \in Keys /\ <<w, e>>[2] = e
  BY KeyFacts
<1>17. OthersAbsent'
  BY <1>5, <1>15, <1>16 DEF IInv, OthersAbsent
<1>18. DoneRows'
  <2> SUFFICES ASSUME NEW e \in Events, outbox[e].status = "done"
               PROVE  /\ \A w \in outbox[e].match : DOMAIN runs'[<<w, e>>] # {}
                      /\ outbox'[e].by # NoTx =>
                           \A w \in Workflows \ Inline : \A i \in DOMAIN runs'[<<w, e>>] : runs'[<<w, e>>][i].new
    BY <1>15 DEF DoneRows
  <2>1. \A w \in outbox[e].match : DOMAIN runs'[<<w, e>>] # {}
    BY <1>5, <1>16, TypeFacts DEF IInv, DoneRows
  <2>2. ASSUME outbox'[e].by # NoTx, NEW w \in Workflows \ Inline, NEW i \in DOMAIN runs'[<<w, e>>]
        PROVE  runs'[<<w, e>>][i].new
    <3>1. outbox[e].by # t /\ outbox[e].by # NoTx
      BY <1>2, <2>2
    <3>2. <<w, e>> \in Keys /\ <<w, e>>[2] = e /\ i \in DOMAIN runs[<<w, e>>]
      BY <1>5, <1>16, <2>2
    <3>3. runs[<<w, e>>][i].new
      BY <3>1, <3>2 DEF IInv, DoneRows
    <3>4. runs[<<w, e>>][i].by # t
      BY <3>1, <3>2, <3>3 DEF IInv, NewRowHeld
    <3> QED
      BY <1>6, <3>2, <3>3, <3>4
  <2> QED
    BY <2>1, <2>2
<1>19. OneLeg'
  <2> SUFFICES ASSUME NEW k \in Keys, NEW i \in DOMAIN runs[k]
               PROVE  /\ runs'[k][i].kept <= runs'[k][i].steps
                      /\ runs'[k][i].steps <= runs'[k][i].kept + LegSize
                      /\ runs'[k][i].by = NoTx => runs'[k][i].steps = runs'[k][i].kept
                      /\ runs'[k][i].new => runs'[k][i].kept = 0
                      /\ runs'[k][i].steps < MAX_RUN_STEPS + LegSize
    BY <1>5 DEF OneLeg
  <2>1. CASE runs[k][i].by # t
    BY <1>6, <2>1 DEF IInv, OneLeg
  <2>2. CASE runs[k][i].by = t
    <3>1. runs[k][i].steps \in Nat /\ runs[k][i].steps < MAX_RUN_STEPS + LegSize
      BY TypeFacts DEF IInv, OneLeg
    <3> QED
      BY <1>6, <2>2, <3>1, Basics
  <2> QED
    BY <2>1, <2>2
<1>20. DepthBound'
  <2>1. \A e \in Events : outbox'[e].depth <= MAX_DEPTH + 1
    BY <1>15 DEF IInv, DepthBound
  <2> SUFFICES ASSUME NEW k \in Keys, NEW i \in DOMAIN runs[k],
                      \/ runs'[k][i].status \in {"waiting", "running"}
                      \/ runs'[k][i].by # NoTx /\ ~runs'[k][i].new
               PROVE  outbox[k[2]].depth <= MAX_DEPTH
    BY <1>5, <1>15, <2>1, KeyFacts DEF DepthBound
  <2> QED
    BY <1>6 DEF IInv, DepthBound
<1> QED
  BY <1>7, <1>9, <1>10, <1>11, <1>12, <1>13, <1>14, <1>17, <1>18, <1>19, <1>20 DEF IInv

\* A transaction is rolled back: what it inserted is gone, what it had locked is
\* as it was committed.
LEMMA RollbackStep ==
  ASSUME IInv, NEW t \in Txs, Rollback(t)
  PROVE  IInv'
<1>1. acted' = acted /\ seq' = seq /\ Fault /\ tx' = [tx EXCEPT ![t] = Closed] /\ t # NoTx
  BY Basics DEF Rollback
<1>2. /\ outbox' \in [Events -> Event]
      /\ \A e \in Events :
           /\ outbox[e].by # t => outbox'[e] = outbox[e]
           /\ outbox[e].by = t =>
                \/ outbox'[e] = NoEvent
                \/ /\ outbox'[e].by = NoTx /\ outbox'[e].status = "pending"
                   /\ outbox'[e].depth = outbox[e].depth /\ outbox'[e].match = outbox[e].match
  <2>1. \A e \in Events : LET o == [outbox[e] EXCEPT !.status = "pending", !.by = NoTx] IN
          /\ o \in Event /\ o.by = NoTx /\ o.status = "pending"
          /\ o.depth = outbox[e].depth /\ o.match = outbox[e].match
    BY TypeFacts DEF IInv, Event
  <2>2. outbox' = [e \in Events |->
       IF outbox[e].by # t THEN outbox[e]
       ELSE IF outbox[e].new THEN NoEvent
       ELSE [outbox[e] EXCEPT !.status = "pending", !.by = NoTx]]
    BY DEF Rollback
  <2> QED
    BY <2>1, <2>2, TypeFacts, NoEventFacts DEF IInv
<1>3. /\ DOMAIN runs' = Keys
      /\ \A k \in Keys : runs'[k] =
           [i \in {j \in DOMAIN runs[k] : ~(runs[k][j].by = t /\ runs[k][j].new)} |-> Restored(t, runs[k][i])]
  BY DEF Rollback
<1>4. ASSUME NEW k \in Keys, NEW i \in DOMAIN runs[k]
      PROVE  /\ Restored(t, runs[k][i]) \in Run
             /\ runs[k][i].by # t => Restored(t, runs[k][i]) = runs[k][i]
             /\ runs[k][i].by = t =>
                  /\ Restored(t, runs[k][i]).by = NoTx
                  /\ Restored(t, runs[k][i]).new = runs[k][i].new
                  /\ Restored(t, runs[k][i]).kept = runs[k][i].kept
                  /\ Restored(t, runs[k][i]).steps = runs[k][i].kept
  <2>1. runs[k][i] \in Run
    BY TypeFacts DEF IInv
  <2> QED
    BY <2>1 DEF Run, Restored
<1>5. \A k \in Keys :
        /\ DOMAIN runs'[k] \subseteq DOMAIN runs[k] /\ runs'[k] \in [DOMAIN runs'[k] -> Run]
        /\ \A i \in DOMAIN runs[k] : i \in DOMAIN runs'[k] \/ (runs[k][i].by = t /\ runs[k][i].new)
  <2> SUFFICES ASSUME NEW k \in Keys
               PROVE  /\ DOMAIN runs'[k] \subseteq DOMAIN runs[k] /\ runs'[k] \in [DOMAIN runs'[k] -> Run]
                      /\ \A i \in DOMAIN runs[k] :
                           i \in DOMAIN runs'[k] \/ (runs[k][i].by = t /\ runs[k][i].new)
    OBVIOUS
  <2> DEFINE D == {j \in DOMAIN runs[k] : ~(runs[k][j].by = t /\ runs[k][j].new)}
  <2>1. D \subseteq DOMAIN runs[k] /\ \A i \in DOMAIN runs[k] : i \in D \/ (runs[k][i].by = t /\ runs[k][i].new)
    OBVIOUS
  <2>2. runs'[k] = [i \in D |-> Restored(t, runs[k][i])]
    BY <1>3
  <2> HIDE DEF D
  <2>3. \A i \in D : Restored(t, runs[k][i]) \in Run
    BY <1>4, <2>1
  <2>4. DOMAIN runs'[k] = D /\ runs'[k] \in [D -> Run]
    BY <2>2, <2>3
  <2> QED
    BY <2>1, <2>4
<1>6. \A k \in Keys : \A i \in DOMAIN runs'[k] :
        /\ runs[k][i].by # t => runs'[k][i] = runs[k][i]
        /\ runs[k][i].by = t =>
             /\ runs'[k][i].by = NoTx /\ ~runs'[k][i].new /\ ~runs[k][i].new
             /\ runs'[k][i].kept = runs[k][i].kept /\ runs'[k][i].steps = runs[k][i].kept
  <2> SUFFICES ASSUME NEW k \in Keys, NEW i \in DOMAIN runs'[k]
               PROVE  /\ runs[k][i].by # t => runs'[k][i] = runs[k][i]
                      /\ runs[k][i].by = t =>
                           /\ runs'[k][i].by = NoTx /\ ~runs'[k][i].new /\ ~runs[k][i].new
                           /\ runs'[k][i].kept = runs[k][i].kept /\ runs'[k][i].steps = runs[k][i].kept
    OBVIOUS
  <2>1. runs'[k][i] = Restored(t, runs[k][i]) /\ i \in DOMAIN runs[k] /\ ~(runs[k][i].by = t /\ runs[k][i].new)
    BY <1>3
  <2>2. runs[k][i].by # t => runs'[k][i] = runs[k][i]
    BY <1>4, <2>1
  <2>3. ASSUME runs[k][i].by = t
        PROVE  /\ runs'[k][i].by = NoTx /\ runs'[k][i].new = runs[k][i].new
               /\ runs'[k][i].kept = runs[k][i].kept /\ runs'[k][i].steps = runs[k][i].kept
    BY <1>4, <2>1, <2>3
  <2> QED
    BY <2>1, <2>2, <2>3
<1>7. TypeOK' /\ \A x \in Txs : x # t => tx'[x] = tx[x]
  <2>1. faults' \in 0..MaxFaults
    BY <1>1, FaultSlack
  <2>2. \A e \in Events : outbox'[e].by = NoTx \/ (outbox[e].by # t /\ outbox'[e] = outbox[e])
    BY <1>2, NoEventFacts
  <2>3. /\ \A k \in Keys : DOMAIN runs'[k] \subseteq DOMAIN runs[k] /\ runs'[k] \in [DOMAIN runs'[k] -> Run]
        /\ \A k \in Keys : \A i \in DOMAIN runs'[k] :
             runs'[k][i].by = NoTx \/ (runs[k][i].by # t /\ runs'[k][i] = runs[k][i])
    BY <1>5, <1>6
  <2>4. outbox' \in [Events -> Event] /\ DOMAIN runs' = Keys
    BY <1>2, <1>3
  <2> QED
    BY <1>1, <2>1, <2>2, <2>3, <2>4, ClosedType
<1>8. tx'[t].events = {} /\ tx'[t].rows = {}
  BY <1>1, ClosedFacts DEF IInv, TypeOK
<1>9. OneRunPerEvent'
  BY <1>5 DEF IInv, OneRunPerEvent
<1>10. ActedOnce'
  <2> SUFFICES ASSUME NEW k \in Keys PROVE \E n \in Recorded(k)' : acted[k] <= n + LegSize * faults'
    BY <1>1 DEF ActedOnce
  <2>1. PICK n \in Recorded(k) : acted[k] <= n + LegSize * faults
    BY DEF IInv, ActedOnce
  <2>2. /\ LegSize * faults' = LegSize * faults + LegSize /\ LegSize * faults \in Nat
        /\ LegSize \in Nat /\ acted[k] \in Nat
    BY <1>1, FaultSlack, Basics, TypeFacts DEF IInv
  <2>3. 0 \in Recorded(k)' /\ \A i \in DOMAIN runs'[k] : runs'[k][i].steps \in Recorded(k)'
    BY DEF Recorded
  <2>4. CASE n = 0
    <3>1. acted[k] <= 0 + LegSize * faults'
      BY <2>1, <2>2, <2>4
    <3> QED
      BY <2>3, <3>1
  <2>5. CASE n # 0
    <3>1. PICK i \in DOMAIN runs[k] : n = runs[k][i].steps
      BY <2>1, <2>5 DEF Recorded
    <3>2. /\ n \in Nat /\ runs[k][i].kept \in Nat /\ n <= runs[k][i].kept + LegSize
          /\ runs[k][i].new => runs[k][i].kept = 0
      BY <3>1, TypeFacts DEF IInv, OneLeg
    <3>3. CASE i \notin DOMAIN runs'[k]
      <4>1. n <= LegSize
        BY <1>5, <2>2, <3>1, <3>2, <3>3
      <4>2. acted[k] <= 0 + LegSize * faults'
        BY <2>1, <2>2, <3>2, <4>1
      <4> QED
        BY <2>3, <4>2
    <3>4. CASE i \in DOMAIN runs'[k] /\ runs[k][i].by = t
      <4>1. runs'[k][i].steps = runs[k][i].kept
        BY <1>6, <3>4
      <4>2. acted[k] <= runs[k][i].kept + LegSize * faults'
        BY <2>1, <2>2, <3>2
      <4> QED
        BY <2>3, <3>4, <4>1, <4>2
    <3>5. CASE i \in DOMAIN runs'[k] /\ runs[k][i].by # t
      <4>1. runs'[k][i].steps = n
        BY <1>6, <3>1, <3>5
      <4>2. acted[k] <= n + LegSize * faults'
        BY <2>1, <2>2, <3>2
      <4> QED
        BY <2>3, <3>5, <4>1, <4>2
    <3> QED
      BY <3>3, <3>4, <3>5
  <2> QED
    BY <2>4, <2>5
<1>11. SeqBound'
  BY <1>1, <1>2, <1>5, NoEventFacts DEF IInv, SeqBound
<1>12. EventHeld' /\ RowHeld'
  <2>1. ASSUME NEW x \in Txs, x # t, NEW e \in tx[x].events
        PROVE  /\ outbox'[e].by = x /\ outbox'[e].status # "none"
               /\ x \in Workers => outbox'[e].status = "claimed"
    BY <1>2, <2>1, TypeFacts DEF IInv, EventHeld
  <2>2. ASSUME NEW y \in Txs, y # t, NEW x \in tx[y].rows
        PROVE  /\ x[2] \in DOMAIN runs'[x[1]]
               /\ runs'[x[1]][x[2]].by = y /\ ~runs'[x[1]][x[2]].new
               /\ runs'[x[1]][x[2]].steps = runs'[x[1]][x[2]].kept
    <3>1. x[1] \in Keys
      BY TypeFacts DEF IInv
    <3> QED
      BY <1>5, <1>6, <2>2, <3>1 DEF IInv, RowHeld
  <2> QED
    BY <1>7, <1>8, <2>1, <2>2 DEF EventHeld, RowHeld
<1>13. PendingFree'
  BY <1>2, NoEventFacts DEF IInv, PendingFree
<1>14. NewRowHeld'
  <2> SUFFICES ASSUME NEW k \in Keys, NEW i \in DOMAIN runs'[k], runs'[k][i].new
               PROVE  runs'[k][i].by # NoTx /\ outbox'[k[2]].by = runs'[k][i].by
    BY DEF NewRowHeld
  <2>1. i \in DOMAIN runs[k] /\ runs[k][i].by # t /\ runs'[k][i] = runs[k][i] /\ k[2] \in Events
    BY <1>5, <1>6, KeyFacts
  <2>2. runs[k][i].by # NoTx /\ outbox[k[2]].by = runs[k][i].by
    BY <2>1 DEF IInv, NewRowHeld
  <2> QED
    BY <1>2, <2>1, <2>2
<1>15. \A w \in Workflows, e \in Events : <<w, e>> \in Keys /\ <<w, e>>[2] = e
  BY KeyFacts
<1>16. OthersAbsent'
  <2> SUFFICES ASSUME NEW e \in Events, outbox'[e].status # "done", NEW w \in Workflows \ Inline,
                      NEW i \in DOMAIN runs'[<<w, e>>]
               PROVE  FALSE
    BY DEF OthersAbsent
  <2>1. <<w, e>> \in Keys /\ <<w, e>>[2] = e /\ i \in DOMAIN runs[<<w, e>>]
    BY <1>5, <1>15
  <2>2. outbox[e].status = "done"
    BY <2>1 DEF IInv, OthersAbsent
  <2>3. outbox[e].by = t
    BY <1>2, <2>2
  <2>4. runs[<<w, e>>][i].new
    BY <1>1, <2>1, <2>2, <2>3 DEF IInv, DoneRows
  <2>5. runs[<<w, e>>][i].by = t
    BY <2>1, <2>3, <2>4 DEF IInv, NewRowHeld
  <2> QED
    BY <1>6, <2>1, <2>4, <2>5
<1>17. DoneRows'
  <2> SUFFICES ASSUME NEW e \in Events, outbox'[e].status = "done"
               PROVE  /\ \A w \in outbox'[e].match : DOMAIN runs'[<<w, e>>] # {}
                      /\ outbox'[e].by # NoTx =>
                           \A w \in Workflows \ Inline : \A i \in DOMAIN runs'[<<w, e>>] : runs'[<<w, e>>][i].new
    BY DEF DoneRows
  <2>1. outbox'[e] = outbox[e] /\ outbox[e].by # t
    BY <1>2, NoEventFacts
  <2>2. \A w \in Workflows : \A i \in DOMAIN runs[<<w, e>>] :
          runs[<<w, e>>][i].new => runs[<<w, e>>][i].by # t
    BY <1>15, <2>1 DEF IInv, NewRowHeld
  <2>3. ASSUME NEW w \in outbox[e].match PROVE DOMAIN runs'[<<w, e>>] # {}
    <3>1. w \in Workflows
      BY TypeFacts DEF IInv
    <3>2. PICK i : i \in DOMAIN runs[<<w, e>>]
      BY <2>1 DEF IInv, DoneRows
    <3> QED
      BY <1>5, <1>15, <2>2, <3>1, <3>2
  <2>4. ASSUME outbox[e].by # NoTx, NEW w \in Workflows \ Inline, NEW i \in DOMAIN runs'[<<w, e>>]
        PROVE  runs'[<<w, e>>][i].new
    <3>1. <<w, e>> \in Keys /\ i \in DOMAIN runs[<<w, e>>]
      BY <1>5, <1>15, <2>4
    <3>2. runs[<<w, e>>][i].new
      BY <2>1, <2>4, <3>1 DEF IInv, DoneRows
    <3> QED
      BY <1>6, <2>2, <2>4, <3>1, <3>2
  <2> QED
    BY <2>1, <2>3, <2>4
<1>18. OneLeg'
  <2> SUFFICES ASSUME NEW k \in Keys, NEW i \in DOMAIN runs'[k]
               PROVE  /\ runs'[k][i].kept <= runs'[k][i].steps
                      /\ runs'[k][i].steps <= runs'[k][i].kept + LegSize
                      /\ runs'[k][i].by = NoTx => runs'[k][i].steps = runs'[k][i].kept
                      /\ runs'[k][i].new => runs'[k][i].kept = 0
                      /\ runs'[k][i].steps < MAX_RUN_STEPS + LegSize
    BY DEF OneLeg
  <2>1. i \in DOMAIN runs[k]
    BY <1>5
  <2>2. CASE runs[k][i].by # t
    BY <1>6, <2>1, <2>2 DEF IInv, OneLeg
  <2>3. CASE runs[k][i].by = t
    <3>1. /\ runs[k][i].steps \in Nat /\ runs[k][i].kept \in Nat /\ runs[k][i].kept <= runs[k][i].steps
          /\ runs[k][i].steps < MAX_RUN_STEPS + LegSize
      BY <2>1, TypeFacts DEF IInv, OneLeg
    <3> QED
      BY <1>6, <2>3, <3>1, Basics
  <2> QED
    BY <2>2, <2>3
<1>19. DepthBound'
  <2>1. \A e \in Events : outbox'[e].depth \in Nat /\ outbox[e].depth \in Nat /\ outbox'[e].depth <= outbox[e].depth
    <3>1. \A e \in Events : outbox'[e].depth = outbox[e].depth \/ outbox'[e].depth = 0
      BY <1>2, NoEventFacts
    <3> QED
      BY <3>1, TypeFacts DEF IInv
  <2>2. \A e \in Events : outbox'[e].depth <= MAX_DEPTH + 1
    BY <2>1, Basics DEF IInv, DepthBound
  <2> SUFFICES ASSUME NEW k \in Keys, NEW i \in DOMAIN runs'[k],
                      \/ runs'[k][i].status \in {"waiting", "running"}
                      \/ runs'[k][i].by # NoTx /\ ~runs'[k][i].new
               PROVE  outbox'[k[2]].depth <= MAX_DEPTH
    BY <2>2 DEF DepthBound
  <2>3. i \in DOMAIN runs[k] /\ k[2] \in Events
    BY <1>5, KeyFacts
  <2>4. outbox[k[2]].depth <= MAX_DEPTH
    BY <1>1, <1>6, <2>3 DEF IInv, DepthBound
  <2>5. outbox'[k[2]].depth \in Nat /\ outbox[k[2]].depth \in Nat
        /\ outbox'[k[2]].depth <= outbox[k[2]].depth
    BY <2>1, <2>3
  <2> QED
    BY <2>4, <2>5, Basics
<1> QED
  BY <1>7, <1>9, <1>10, <1>11, <1>12, <1>13, <1>14, <1>16, <1>17, <1>18, <1>19 DEF IInv

----------------------------------------------------------------------------
\* Every step preserves the invariant.
LEMMA IInvStep == IInv /\ [Next]_vars => IInv'
<1> SUFFICES ASSUME IInv, [Next]_vars PROVE IInv'
  OBVIOUS
<1>1. ASSUME NEW q \in Requests, Request(q) PROVE IInv'
  BY <1>1, WriteRecordStep, RunInlineStep, InlineFailsStep DEF Request
<1>2. ASSUME NEW s \in Workers, Claim(s) \/ Sweep(s) \/ ClaimDue(s) \/ Timer(s) PROVE IInv'
  BY <1>2, ClaimStep, ProcessEventStep, EventFailsStep, ClaimDueStep, ResumeRunStep, ResumeFailsStep
     DEF Sweep, Timer
<1>3. ASSUME NEW t \in Txs, Commit(t) \/ Rollback(t) PROVE IInv'
  BY <1>3, CommitStep, RollbackStep
<1>4. CASE UNCHANGED vars
  BY <1>4 DEF vars, IInv, TypeOK, OneRunPerEvent, ActedOnce, Recorded, SeqBound, EventHeld, PendingFree,
              NewRowHeld, OthersAbsent, DoneRows, OneLeg, RowHeld, DepthBound
<1> QED
  BY <1>1, <1>2, <1>3, <1>4 DEF Next

----------------------------------------------------------------------------
\* The invariant of the outbox, the runs and the transactions holds always.
LEMMA Always == Spec => []IInv
BY InitIInv, IInvStep, PTL DEF Spec

\* The tables keep their types, and only open transactions hold rows.
THEOREM DispatchTypeCorrect == Spec => []TypeOK
<1>1. IInv => TypeOK
  BY DEF IInv
<1> QED
  BY <1>1, Always, PTL

\* However requests, sweeps and timers overlap and fail, create_run_if_absent
\* leaves a workflow with at most one run for an event.
THEOREM OneRun == Spec => []OneRunPerEvent
<1>1. IInv => OneRunPerEvent
  BY DEF IInv
<1> QED
  BY <1>1, Always, PTL

\* The actions of a workflow for an event fire once, and again only as often as
\* faults have taken records of them away.
THEOREM ActionsOnce == Spec => []ActedOnce
<1>1. IInv => ActedOnce
  BY DEF IInv
<1> QED
  BY <1>1, Always, PTL

\* The loop guard of _process_event and the cycle guard of _resume_run bound
\* the depth of events and the steps of runs.
THEOREM ChainsBounded == Spec => []ChainsEnd
<1>1. IInv => ChainsEnd
  BY IInvGoals
<1> QED
  BY <1>1, Always, PTL

\* A committed event is done only when every workflow it matches has its run,
\* and until then the sweeps have left no run behind.
THEOREM DoneComplete == Spec => []DoneIsComplete
<1>1. IInv => DoneIsComplete
  BY IInvGoals
<1> QED
  BY <1>1, Always, PTL

----------------------------------------------------------------------------
(***************************************************************************)
(* One document on its way into the index.  The inductive invariant says   *)
(* in every behaviour that one thread writes, into an index it has emptied *)
(* (OneWriter), and that an unsettled row has a request or a task to come  *)
(* (Expected); and, as long as no request met work in flight and nothing   *)
(* was lost, that row, task, thread and index agree (Undisturbed).         *)
(***************************************************************************)
\* No text is a text; nothing else is asked of the constants.
IngestSetting == 0 \in Texts

Phases == {"none", "embed", "write", "facts"}
TaskSteps == {"queued", "check", "submit", "post", "poll", "get", "ended"}
Sent == {"submit", "post", "poll", "get"}

Task == [pc : TaskSteps, text : Texts, acl : {1, 2}]

IngestTypes ==
  /\ doc \in [there : BOOLEAN, status : Cancellable \cup Terminal, text : Texts, acl : {1, 2}, task : Nat]
  /\ uploaded \in BOOLEAN /\ crossed \in BOOLEAN /\ lost \in BOOLEAN
  /\ req \in {"none", "replace", "purge", "dispatch", "persist"}
  /\ task \in Seq(Task)
  /\ thread \in [phase : Phases, text : Texts \cup {0}, acl : 0 .. 2]
  /\ thread.phase # "none" => job = "running"
  /\ meta \in Seq({2})

\* The worker or brain-api is at the document.
Working == (\E k \in DOMAIN task : Live(k)) \/ thread.phase # "none"

\* What the index should have for the row, with the access keys a.
Wanted(a) == IF doc.text \in Blank \cup {0} THEN {} ELSE {[text |-> doc.text, acl |-> a]}
Right == Wanted(doc.acl)

\* In every behaviour: one thread writes, into an index it has emptied; and a
\* row that is not settled has a request or a task that will settle it.
OneWriter ==
  /\ \A c, d \in index : c = d
  /\ thread.phase = "write" => index = {}
Expected ==
  doc.there /\ doc.text # 0 /\ doc.status \in Cancellable /\ ~lost =>
    req \in {"replace", "dispatch"} \/ \E k \in DOMAIN task : Live(k)

\* As long as no request met anything in flight and nothing was lost:
\* a deleted document has nothing left,
Gone == ~doc.there => ~InFlight /\ req = "none" /\ index = {}
\* one task is under way, with what the row says,
Carried ==
  \A k \in DOMAIN task : Live(k) =>
    /\ \A j \in DOMAIN task : Live(j) => j = k
    /\ task[k].text = doc.text /\ task[k].acl = doc.acl /\ (uploaded \/ doc.text # 0)
    /\ task[k].pc \in Sent => doc.text # 0
    /\ task[k].pc \in {"poll", "get"} /\ job = "done" => index = Right
\* so is the thread,
Threaded ==
  thread.phase # "none" =>
    /\ thread.text = doc.text /\ thread.acl = doc.acl /\ doc.text # 0
    /\ thread.phase = "write" => doc.text \notin Blank
    /\ thread.phase = "facts" => index = Right
\* and meanwhile the row does not say SUCCESS,
Unsettled ==
  Working => doc.there /\ doc.status # "SUCCESS" /\ meta = <<>> /\ req \in {"none", "persist"} /\ index \in {{}, Right}
\* nor while a request replaces what is indexed,
Replacing ==
  /\ req \in {"replace", "dispatch"} => ~InFlight /\ doc.status # "SUCCESS" /\ (uploaded \/ doc.text # 0)
  /\ req = "dispatch" => index = {}
  /\ req = "purge" => ~InFlight /\ doc.text = 0
\* new access keys find the index as the old ones left it,
Retagging ==
  meta # <<>> =>
    /\ meta = <<2>> /\ doc.acl = 2 /\ req = "none" /\ ~Working /\ doc.there
    /\ doc.status = "SUCCESS" => index = Wanted(1)
\* and SUCCESS with nothing in flight is true.
Succeeded ==
  ~InFlight /\ req \in {"none", "persist"} /\ doc.there /\ doc.status = "SUCCESS" => index = Right

Undisturbed == Gone /\ Carried /\ Threaded /\ Unsettled /\ Replacing /\ Retagging /\ Succeeded

IngestInv == IngestTypes /\ OneWriter /\ Expected /\ (~crossed /\ ~lost => Undisturbed)
LEMMA EditKeeps == ASSUME IngestSetting, IngestInv, NEW text \in Texts, Edit(text) PROVE IngestInv'
<1>1. IngestTypes'
  BY DEF Edit, Ask, IngestInv, IngestTypes, TaskSteps, Phases, Terminal, Cancellable
<1>2. OneWriter'
  BY DEF Edit, Ask, IngestInv, IngestTypes, OneWriter
<1>3. Expected'
  BY DEF Edit, Ask, IngestInv, IngestTypes, Expected, Live, Terminal, Cancellable
<1>4. ASSUME ~crossed', ~lost' PROVE Undisturbed'
  <2> USE DEF Edit, Ask, IngestInv, IngestTypes, Undisturbed, InFlight, Working, Live
  <2>1. Gone'
    BY <1>4 DEF Gone, Unsettled, Replacing, Retagging
  <2>2. Carried'
    BY <1>4 DEF Carried, Right, Wanted, Unsettled, Threaded, Sent
  <2>3. Threaded'
    BY <1>4 DEF Threaded, Right, Wanted, Unsettled
  <2>4. Unsettled'
    BY <1>4 DEF Unsettled, Right, Wanted, Threaded, Carried, Replacing, Gone, Retagging
  <2>5. Replacing'
    BY <1>4 DEF Replacing, Unsettled, Retagging, Gone
  <2>6. Retagging'
    BY <1>4 DEF Retagging, Wanted, Right, Unsettled, Replacing, Succeeded
  <2>7. Succeeded'
    BY <1>4 DEF Succeeded, Right, Wanted, Replacing, Unsettled, Carried, Retagging, Threaded, Gone
  <2> QED BY <2>1, <2>2, <2>3, <2>4, <2>5, <2>6, <2>7
<1> QED BY <1>1, <1>2, <1>3, <1>4 DEF IngestInv

LEMMA ReprocessKeeps == ASSUME IngestSetting, IngestInv, Reprocess PROVE IngestInv'
<1>1. IngestTypes'
  BY DEF Reprocess, Reprocessable, Ask, IngestInv, IngestTypes, TaskSteps, Phases, Terminal, Cancellable
<1>2. OneWriter'
  BY DEF Reprocess, Reprocessable, Ask, IngestInv, IngestTypes, OneWriter
<1>3. Expected'
  BY DEF Reprocess, Reprocessable, Ask, IngestInv, IngestTypes, Expected, Live, Terminal, Cancellable
<1>4. ASSUME ~crossed', ~lost' PROVE Undisturbed'
  <2> USE DEF Reprocess, Reprocessable, Ask, IngestInv, IngestTypes, Undisturbed, InFlight, Working, Live
  <2>1. Gone'
    BY <1>4 DEF Gone, Unsettled, Replacing, Retagging
  <2>2. Carried'
    BY <1>4 DEF Carried, Right, Wanted, Unsettled, Threaded, Sent
  <2>3. Threaded'
    BY <1>4 DEF Threaded, Right, Wanted, Unsettled
  <2>4. Unsettled'
    BY <1>4 DEF Unsettled, Right, Wanted, Threaded, Carried, Replacing, Gone, Retagging
  <2>5. Replacing'
    BY <1>4 DEF Replacing, Unsettled, Retagging, Gone
  <2>6. Retagging'
    BY <1>4 DEF Retagging, Wanted, Right, Unsettled, Replacing, Succeeded
  <2>7. Succeeded'
    BY <1>4 DEF Succeeded, Right, Wanted, Replacing, Unsettled, Carried, Retagging, Threaded, Gone
  <2> QED BY <2>1, <2>2, <2>3, <2>4, <2>5, <2>6, <2>7
<1> QED BY <1>1, <1>2, <1>3, <1>4 DEF IngestInv

LEMMA PurgeKeeps == ASSUME IngestSetting, IngestInv, NEW ok \in BOOLEAN, Purge(ok) PROVE IngestInv'
<1>1. IngestTypes'
  <2>1. req' \in {"dispatch", "none"} /\ lost' \in BOOLEAN
    BY DEF Purge, IngestInv, IngestTypes
  <2> QED BY <2>1 DEF Purge, IngestInv, IngestTypes
<1>2. OneWriter'
  BY DEF Purge, Fails, IngestInv, IngestTypes, OneWriter
<1>3. Expected'
  BY DEF Purge, Fails, IngestInv, IngestTypes, Expected, Live, Terminal, Cancellable
<1>4. ASSUME ~crossed', ~lost' PROVE Undisturbed'
  <2> USE DEF Purge, Fails, IngestInv, IngestTypes, Undisturbed, InFlight, Working, Live
  <2>1. Gone'
    BY <1>4 DEF Gone, Unsettled, Replacing, Retagging
  <2>2. Carried'
    BY <1>4 DEF Carried, Right, Wanted, Unsettled, Threaded, Sent
  <2>3. Threaded'
    BY <1>4 DEF Threaded, Right, Wanted, Unsettled
  <2>4. Unsettled'
    BY <1>4 DEF Unsettled, Right, Wanted, Threaded, Carried, Replacing, Gone, Retagging
  <2>5. Replacing'
    BY <1>4 DEF Replacing, Unsettled, Retagging, Gone
  <2>6. Retagging'
    BY <1>4 DEF Retagging, Wanted, Right, Unsettled, Replacing, Succeeded
  <2>7. Succeeded'
    BY <1>4 DEF Succeeded, Right, Wanted, Replacing, Unsettled, Carried, Retagging, Threaded, Gone
  <2> QED BY <2>1, <2>2, <2>3, <2>4, <2>5, <2>6, <2>7
<1> QED BY <1>1, <1>2, <1>3, <1>4 DEF IngestInv

LEMMA DispatchKeeps == ASSUME IngestSetting, IngestInv, NEW ok \in BOOLEAN, Dispatch(ok) PROVE IngestInv'
<1>1. IngestTypes'
  <2>1. req' \in {"persist", "none"} /\ lost' \in BOOLEAN /\ crossed' \in BOOLEAN
    BY DEF Dispatch, IngestInv, IngestTypes, InFlight
  <2>2. [pc |-> "queued", text |-> doc.text, acl |-> doc.acl] \in Task
    BY DEF IngestInv, IngestTypes, TaskSteps, Task
  <2>3. task' \in Seq(Task)
    <3>1. task \in Seq(Task)
      BY DEF IngestInv, IngestTypes
    <3>2. Append(task, [pc |-> "queued", text |-> doc.text, acl |-> doc.acl]) \in Seq(Task)
      BY <2>2, <3>1, AppendProperties
    <3>3. task' = task \/ task' = Append(task, [pc |-> "queued", text |-> doc.text, acl |-> doc.acl])
      BY DEF Dispatch
    <3> QED BY <3>1, <3>2, <3>3
  <2> QED BY <2>1, <2>3 DEF Dispatch, IngestInv, IngestTypes
<1>2. OneWriter'
  BY DEF Dispatch, Fails, IngestInv, IngestTypes, OneWriter
<1>3. Expected'
  BY DEF Dispatch, Fails, IngestInv, IngestTypes, Expected, Live, Terminal, Cancellable
<1>4. ASSUME ~crossed', ~lost' PROVE Undisturbed'
  <2> USE DEF Dispatch, Fails, IngestInv, IngestTypes, Undisturbed, InFlight, Working, Live
  <2>1. Gone'
    BY <1>4 DEF Gone, Unsettled, Replacing, Retagging
  <2>2. Carried'
    <3>1. ok /\ Replacing /\ ~InFlight /\ req = "dispatch"
      BY <1>4 DEF Replacing
    <3> DEFINE k == Len(task) + 1
               e == [pc |-> "queued", text |-> doc.text, acl |-> doc.acl]
    <3>2. task' = Append(task, e) /\ UNCHANGED <<doc, uploaded, job>>
      BY <3>1
    <3>3. DOMAIN task' = DOMAIN task \cup {k} /\ task'[k] = e /\ \A j \in DOMAIN task : task'[j] = task[j]
      BY <3>2
    <3>4. \A j \in DOMAIN task : task[j].pc = "ended"
      BY <3>1
    <3> HIDE DEF k
    <3> QED BY <3>1, <3>2, <3>3, <3>4 DEF Carried, Replacing, Sent
  <2>3. Threaded'
    BY <1>4 DEF Threaded, Right, Wanted, Unsettled
  <2>4. Unsettled'
    BY <1>4 DEF Unsettled, Right, Wanted, Threaded, Carried, Replacing, Gone, Retagging
  <2>5. Replacing'
    BY <1>4 DEF Replacing, Unsettled, Retagging, Gone
  <2>6. Retagging'
    BY <1>4 DEF Retagging, Wanted, Right, Unsettled, Replacing, Succeeded
  <2>7. Succeeded'
    BY <1>4 DEF Succeeded, Right, Wanted, Replacing, Unsettled, Carried, Retagging, Threaded, Gone
  <2> QED BY <2>1, <2>2, <2>3, <2>4, <2>5, <2>6, <2>7
<1> QED BY <1>1, <1>2, <1>3, <1>4 DEF IngestInv

LEMMA PersistKeeps == ASSUME IngestSetting, IngestInv, Persist PROVE IngestInv'
<1>1. IngestTypes'
  BY DEF Persist, IngestInv, IngestTypes, TaskSteps, Phases, Terminal, Cancellable
<1>2. OneWriter'
  BY DEF Persist, IngestInv, IngestTypes, OneWriter
<1>3. Expected'
  BY DEF Persist, IngestInv, IngestTypes, Expected, Live, Terminal, Cancellable
<1>4. ASSUME ~crossed', ~lost' PROVE Undisturbed'
  <2> USE DEF Persist, IngestInv, IngestTypes, Undisturbed, InFlight, Working, Live
  <2>1. Gone'
    BY <1>4 DEF Gone, Unsettled, Replacing, Retagging
  <2>2. Carried'
    BY <1>4 DEF Carried, Right, Wanted, Unsettled, Threaded, Sent
  <2>3. Threaded'
    BY <1>4 DEF Threaded, Right, Wanted, Unsettled
  <2>4. Unsettled'
    BY <1>4 DEF Unsettled, Right, Wanted, Threaded, Carried, Replacing, Gone, Retagging
  <2>5. Replacing'
    BY <1>4 DEF Replacing, Unsettled, Retagging, Gone
  <2>6. Retagging'
    BY <1>4 DEF Retagging, Wanted, Right, Unsettled, Replacing, Succeeded
  <2>7. Succeeded'
    BY <1>4 DEF Succeeded, Right, Wanted, Replacing, Unsettled, Carried, Retagging, Threaded, Gone
  <2> QED BY <2>1, <2>2, <2>3, <2>4, <2>5, <2>6, <2>7
<1> QED BY <1>1, <1>2, <1>3, <1>4 DEF IngestInv

LEMMA CancelKeeps == ASSUME IngestSetting, IngestInv, NEW ok \in BOOLEAN, Cancel(ok) PROVE IngestInv'
<1>1. IngestTypes'
  BY DEF Cancel, Fails, Ask, IngestInv, IngestTypes, TaskSteps, Phases, Terminal, Cancellable
<1>2. OneWriter'
  BY DEF Cancel, Fails, Ask, IngestInv, IngestTypes, OneWriter
<1>3. Expected'
  BY DEF Cancel, Fails, Ask, IngestInv, IngestTypes, Expected, Live, Terminal, Cancellable
<1>4. ASSUME ~crossed', ~lost' PROVE Undisturbed'
  <2> USE DEF Cancel, Fails, Ask, IngestInv, IngestTypes, Undisturbed, InFlight, Working, Live
  <2>1. Gone'
    BY <1>4 DEF Gone, Unsettled, Replacing, Retagging
  <2>2. Carried'
    BY <1>4 DEF Carried, Right, Wanted, Unsettled, Threaded, Sent
  <2>3. Threaded'
    BY <1>4 DEF Threaded, Right, Wanted, Unsettled
  <2>4. Unsettled'
    BY <1>4 DEF Unsettled, Right, Wanted, Threaded, Carried, Replacing, Gone, Retagging
  <2>5. Replacing'
    BY <1>4 DEF Replacing, Unsettled, Retagging, Gone
  <2>6. Retagging'
    BY <1>4 DEF Retagging, Wanted, Right, Unsettled, Replacing, Succeeded
  <2>7. Succeeded'
    BY <1>4 DEF Succeeded, Right, Wanted, Replacing, Unsettled, Carried, Retagging, Threaded, Gone
  <2> QED BY <2>1, <2>2, <2>3, <2>4, <2>5, <2>6, <2>7
<1> QED BY <1>1, <1>2, <1>3, <1>4 DEF IngestInv

LEMMA PatchKeeps == ASSUME IngestSetting, IngestInv, NEW ok \in BOOLEAN, Patch(ok) PROVE IngestInv'
<1>1. IngestTypes'
  <2>1. lost' \in BOOLEAN /\ crossed' \in BOOLEAN /\ meta' \in Seq({2})
    <3>1. meta \in Seq({2}) /\ 2 \in {2}
      BY DEF IngestInv, IngestTypes
    <3>2. Append(meta, 2) \in Seq({2})
      BY <3>1, AppendProperties
    <3>3. lost' \in BOOLEAN /\ crossed' \in BOOLEAN /\ meta' \in {meta, Append(meta, 2)}
      BY DEF Patch, IngestInv, IngestTypes, InFlight
    <3> QED BY <3>1, <3>2, <3>3
  <2>2. doc' \in [there : BOOLEAN, status : Cancellable \cup Terminal, text : Texts, acl : {1, 2}, task : Nat]
    BY DEF Patch, IngestInv, IngestTypes
  <2> QED BY <2>1, <2>2 DEF Patch, IngestInv, IngestTypes
<1>2. OneWriter'
  BY DEF Patch, Fails, Ask, IngestInv, IngestTypes, OneWriter
<1>3. Expected'
  BY DEF Patch, Fails, Ask, IngestInv, IngestTypes, Expected, Live, Terminal, Cancellable
<1>4. ASSUME ~crossed', ~lost' PROVE Undisturbed'
  <2> USE DEF Patch, Fails, Ask, IngestInv, IngestTypes, Undisturbed, InFlight, Working, Live
  <2>1. Gone'
    BY <1>4 DEF Gone, Unsettled, Replacing, Retagging
  <2>2. Carried'
    BY <1>4 DEF Carried, Right, Wanted, Unsettled, Threaded, Sent
  <2>3. Threaded'
    BY <1>4 DEF Threaded, Right, Wanted, Unsettled
  <2>4. Unsettled'
    BY <1>4 DEF Unsettled, Right, Wanted, Threaded, Carried, Replacing, Gone, Retagging
  <2>5. Replacing'
    BY <1>4 DEF Replacing, Unsettled, Retagging, Gone
  <2>6. Retagging'
    <3>1. ~InFlight /\ meta = <<>> /\ doc.acl = 1 /\ req = "none" /\ doc.there
      BY <1>4
    <3>2. meta' = <<2>>
      BY <1>4, <3>1
    <3>3. doc'.acl = 2 /\ doc'.status = doc.status /\ doc'.text = doc.text /\ doc'.there /\ UNCHANGED <<index, req, task, thread>>
      BY <1>4
    <3>4. doc.status = "SUCCESS" => index = Wanted(1)
      BY <1>4, <3>1 DEF Succeeded, Right
    <3>5. Wanted(1)' = Wanted(1)
      BY <3>3 DEF Wanted
    <3> QED BY <3>1, <3>2, <3>3, <3>4, <3>5 DEF Retagging
  <2>7. Succeeded'
    BY <1>4 DEF Succeeded, Right, Wanted, Replacing, Unsettled, Carried, Retagging, Threaded, Gone
  <2> QED BY <2>1, <2>2, <2>3, <2>4, <2>5, <2>6, <2>7
<1> QED BY <1>1, <1>2, <1>3, <1>4 DEF IngestInv

LEMMA DeleteKeeps == ASSUME IngestSetting, IngestInv, NEW ok \in BOOLEAN, Delete(ok) PROVE IngestInv'
<1>1. IngestTypes'
  BY DEF Delete, Fails, Ask, IngestInv, IngestTypes, TaskSteps, Phases, Terminal, Cancellable
<1>2. OneWriter'
  BY DEF Delete, Fails, Ask, IngestInv, IngestTypes, OneWriter
<1>3. Expected'
  BY DEF Delete, Fails, Ask, IngestInv, IngestTypes, Expected, Live, Terminal, Cancellable
<1>4. ASSUME ~crossed', ~lost' PROVE Undisturbed'
  <2> USE DEF Delete, Fails, Ask, IngestInv, IngestTypes, Undisturbed, InFlight, Working, Live
  <2>1. Gone'
    BY <1>4 DEF Gone, Unsettled, Replacing, Retagging
  <2>2. Carried'
    BY <1>4 DEF Carried, Right, Wanted, Unsettled, Threaded, Sent
  <2>3. Threaded'
    BY <1>4 DEF Threaded, Right, Wanted, Unsettled
  <2>4. Unsettled'
    BY <1>4 DEF Unsettled, Right, Wanted, Threaded, Carried, Replacing, Gone, Retagging
  <2>5. Replacing'
    BY <1>4 DEF Replacing, Unsettled, Retagging, Gone
  <2>6. Retagging'
    BY <1>4 DEF Retagging, Wanted, Right, Unsettled, Replacing, Succeeded
  <2>7. Succeeded'
    BY <1>4 DEF Succeeded, Right, Wanted, Replacing, Unsettled, Carried, Retagging, Threaded, Gone
  <2> QED BY <2>1, <2>2, <2>3, <2>4, <2>5, <2>6, <2>7
<1> QED BY <1>1, <1>2, <1>3, <1>4 DEF IngestInv

LEMMA UpdateMetadataKeeps == ASSUME IngestSetting, IngestInv, UpdateMetadata PROVE IngestInv'
<1>1. IngestTypes'
  BY DEF UpdateMetadata, IngestInv, IngestTypes, TaskSteps, Phases, Terminal, Cancellable
<1>2. OneWriter'
  BY DEF UpdateMetadata, IngestInv, IngestTypes, OneWriter
<1>3. Expected'
  BY DEF UpdateMetadata, IngestInv, IngestTypes, Expected, Live, Terminal, Cancellable
<1>4. ASSUME ~crossed', ~lost' PROVE Undisturbed'
  <2> USE DEF UpdateMetadata, IngestInv, IngestTypes, Undisturbed, InFlight, Working, Live
  <2>1. Gone'
    BY <1>4 DEF Gone, Unsettled, Replacing, Retagging
  <2>2. Carried'
    BY <1>4 DEF Carried, Right, Wanted, Unsettled, Threaded, Sent
  <2>3. Threaded'
    BY <1>4 DEF Threaded, Right, Wanted, Unsettled
  <2>4. Unsettled'
    BY <1>4 DEF Unsettled, Right, Wanted, Threaded, Carried, Replacing, Gone, Retagging
  <2>5. Replacing'
    BY <1>4 DEF Replacing, Unsettled, Retagging, Gone
  <2>6. Retagging'
    BY <1>4 DEF Retagging, Wanted, Right, Unsettled, Replacing, Succeeded
  <2>7. Succeeded'
    <3>1. meta = <<2>> /\ doc.acl = 2 /\ (doc.status = "SUCCESS" => index = Wanted(1))
      BY <1>4 DEF Retagging
    <3>2. index' = {[text |-> c.text, acl |-> 2] : c \in index} /\ doc' = doc
      BY <3>1
    <3>3. ASSUME doc.status = "SUCCESS" PROVE index' = Wanted(2)
      <4>1. CASE doc.text \in Blank \cup {0}
        <5>1. index = {}
          BY <3>1, <3>3, <4>1 DEF Wanted
        <5> QED BY <3>2, <4>1, <5>1 DEF Wanted
      <4>2. CASE doc.text \notin Blank \cup {0}
        <5>1. index = {[text |-> doc.text, acl |-> 1]}
          BY <3>1, <3>3, <4>2 DEF Wanted
        <5>2. index' = {[text |-> doc.text, acl |-> 2]}
          BY <3>2, <5>1
        <5> QED BY <4>2, <5>2 DEF Wanted
      <4> QED BY <4>1, <4>2
    <3> QED BY <3>1, <3>2, <3>3 DEF Succeeded, Right, Wanted
  <2> QED BY <2>1, <2>2, <2>3, <2>4, <2>5, <2>6, <2>7
<1> QED BY <1>1, <1>2, <1>3, <1>4 DEF IngestInv

LEMMA JobPurgeKeeps == ASSUME IngestSetting, IngestInv, JobPurge PROVE IngestInv'
<1>1. IngestTypes'
  BY DEF JobPurge, RestOfBrain, IngestInv, IngestTypes, TaskSteps, Phases, Terminal, Cancellable
<1>2. OneWriter'
  BY DEF JobPurge, RestOfBrain, IngestInv, IngestTypes, OneWriter
<1>3. Expected'
  BY DEF JobPurge, RestOfBrain, IngestInv, IngestTypes, Expected, Live, Terminal, Cancellable
<1>4. ASSUME ~crossed', ~lost' PROVE Undisturbed'
  <2> USE DEF JobPurge, RestOfBrain, IngestInv, IngestTypes, Undisturbed, InFlight, Working, Live
  <2>1. Gone'
    BY <1>4 DEF Gone, Unsettled, Replacing, Retagging
  <2>2. Carried'
    BY <1>4 DEF Carried, Right, Wanted, Unsettled, Threaded, Sent
  <2>3. Threaded'
    BY <1>4 DEF Threaded, Right, Wanted, Unsettled
  <2>4. Unsettled'
    BY <1>4 DEF Unsettled, Right, Wanted, Threaded, Carried, Replacing, Gone, Retagging
  <2>5. Replacing'
    BY <1>4 DEF Replacing, Unsettled, Retagging, Gone
  <2>6. Retagging'
    BY <1>4 DEF Retagging, Wanted, Right, Unsettled, Replacing, Succeeded
  <2>7. Succeeded'
    BY <1>4 DEF Succeeded, Right, Wanted, Replacing, Unsettled, Carried, Retagging, Threaded, Gone
  <2> QED BY <2>1, <2>2, <2>3, <2>4, <2>5, <2>6, <2>7
<1> QED BY <1>1, <1>2, <1>3, <1>4 DEF IngestInv

LEMMA JobEmptyKeeps == ASSUME IngestSetting, IngestInv, JobEmpty PROVE IngestInv'
<1>1. IngestTypes'
  BY DEF JobEmpty, RestOfBrain, NoThread, IngestInv, IngestTypes, TaskSteps, Phases, Terminal, Cancellable
<1>2. OneWriter'
  BY DEF JobEmpty, RestOfBrain, NoThread, IngestInv, IngestTypes, OneWriter
<1>3. Expected'
  BY DEF JobEmpty, RestOfBrain, NoThread, IngestInv, IngestTypes, Expected, Live, Terminal, Cancellable
<1>4. ASSUME ~crossed', ~lost' PROVE Undisturbed'
  <2> USE DEF JobEmpty, RestOfBrain, NoThread, IngestInv, IngestTypes, Undisturbed, InFlight, Working, Live
  <2>1. Gone'
    BY <1>4 DEF Gone, Unsettled, Replacing, Retagging
  <2>2. Carried'
    BY <1>4 DEF Carried, Right, Wanted, Unsettled, Threaded, Sent
  <2>3. Threaded'
    BY <1>4 DEF Threaded, Right, Wanted, Unsettled
  <2>4. Unsettled'
    BY <1>4 DEF Unsettled, Right, Wanted, Threaded, Carried, Replacing, Gone, Retagging
  <2>5. Replacing'
    BY <1>4 DEF Replacing, Unsettled, Retagging, Gone
  <2>6. Retagging'
    BY <1>4 DEF Retagging, Wanted, Right, Unsettled, Replacing, Succeeded
  <2>7. Succeeded'
    BY <1>4 DEF Succeeded, Right, Wanted, Replacing, Unsettled, Carried, Retagging, Threaded, Gone
  <2> QED BY <2>1, <2>2, <2>3, <2>4, <2>5, <2>6, <2>7
<1> QED BY <1>1, <1>2, <1>3, <1>4 DEF IngestInv

LEMMA JobWriteKeeps == ASSUME IngestSetting, IngestInv, JobWrite PROVE IngestInv'
<1>1. IngestTypes'
  BY DEF JobWrite, RestOfBrain, IngestInv, IngestTypes, TaskSteps, Phases, Terminal, Cancellable
<1>2. OneWriter'
  BY DEF JobWrite, RestOfBrain, IngestInv, IngestTypes, OneWriter
<1>3. Expected'
  BY DEF JobWrite, RestOfBrain, IngestInv, IngestTypes, Expected, Live, Terminal, Cancellable
<1>4. ASSUME ~crossed', ~lost' PROVE Undisturbed'
  <2> USE DEF JobWrite, RestOfBrain, IngestInv, IngestTypes, Undisturbed, InFlight, Working, Live
  <2>1. Gone'
    BY <1>4 DEF Gone, Unsettled, Replacing, Retagging
  <2>0. index' = {[text |-> thread.text, acl |-> thread.acl]} /\ thread.text = doc.text /\ thread.acl = doc.acl
        /\ doc.text \notin Blank \cup {0}
    BY <1>4 DEF Threaded, OneWriter
  <2>r. index' = Right' /\ Right' = Right
    BY <2>0 DEF Right, Wanted
  <2>2. Carried'
    BY <1>4 DEF Carried, Right, Wanted, Unsettled, Threaded, Sent
  <2>3. Threaded'
    BY <1>4, <2>r DEF Threaded
  <2>4. Unsettled'
    BY <1>4, <2>r DEF Unsettled
  <2>5. Replacing'
    BY <1>4 DEF Replacing, Unsettled, Retagging, Gone
  <2>6. Retagging'
    BY <1>4 DEF Retagging, Wanted, Right, Unsettled, Replacing, Succeeded
  <2>7. Succeeded'
    BY <1>4 DEF Succeeded, Right, Wanted, Replacing, Unsettled, Carried, Retagging, Threaded, Gone
  <2> QED BY <2>1, <2>2, <2>3, <2>4, <2>5, <2>6, <2>7
<1> QED BY <1>1, <1>2, <1>3, <1>4 DEF IngestInv

LEMMA JobDoneKeeps == ASSUME IngestSetting, IngestInv, JobDone PROVE IngestInv'
<1>1. IngestTypes'
  BY DEF JobDone, RestOfBrain, NoThread, IngestInv, IngestTypes, TaskSteps, Phases, Terminal, Cancellable
<1>2. OneWriter'
  BY DEF JobDone, RestOfBrain, NoThread, IngestInv, IngestTypes, OneWriter
<1>3. Expected'
  BY DEF JobDone, RestOfBrain, NoThread, IngestInv, IngestTypes, Expected, Live, Terminal, Cancellable
<1>4. ASSUME ~crossed', ~lost' PROVE Undisturbed'
  <2> USE DEF JobDone, RestOfBrain, NoThread, IngestInv, IngestTypes, Undisturbed, InFlight, Working, Live
  <2>1. Gone'
    BY <1>4 DEF Gone, Unsettled, Replacing, Retagging
  <2>2. Carried'
    BY <1>4 DEF Carried, Right, Wanted, Unsettled, Threaded, Sent
  <2>3. Threaded'
    BY <1>4 DEF Threaded, Right, Wanted, Unsettled
  <2>4. Unsettled'
    BY <1>4 DEF Unsettled, Right, Wanted, Threaded, Carried, Replacing, Gone, Retagging
  <2>5. Replacing'
    BY <1>4 DEF Replacing, Unsettled, Retagging, Gone
  <2>6. Retagging'
    BY <1>4 DEF Retagging, Wanted, Right, Unsettled, Replacing, Succeeded
  <2>7. Succeeded'
    BY <1>4 DEF Succeeded, Right, Wanted, Replacing, Unsettled, Carried, Retagging, Threaded, Gone
  <2> QED BY <2>1, <2>2, <2>3, <2>4, <2>5, <2>6, <2>7
<1> QED BY <1>1, <1>2, <1>3, <1>4 DEF IngestInv

LEMMA JobFailKeeps == ASSUME IngestSetting, IngestInv, JobFail PROVE IngestInv'
<1>1. IngestTypes'
  BY DEF JobFail, RestOfBrain, NoThread, IngestInv, IngestTypes, TaskSteps, Phases, Terminal, Cancellable
<1>2. OneWriter'
  BY DEF JobFail, RestOfBrain, NoThread, IngestInv, IngestTypes, OneWriter
<1>3. Expected'
  BY DEF JobFail, RestOfBrain, NoThread, IngestInv, IngestTypes, Expected, Live, Terminal, Cancellable
<1>4. ASSUME ~crossed', ~lost' PROVE Undisturbed'
  <2> USE DEF JobFail, RestOfBrain, NoThread, IngestInv, IngestTypes, Undisturbed, InFlight, Working, Live
  <2>1. Gone'
    BY <1>4 DEF Gone, Unsettled, Replacing, Retagging
  <2>2. Carried'
    BY <1>4 DEF Carried, Right, Wanted, Unsettled, Threaded, Sent
  <2>3. Threaded'
    BY <1>4 DEF Threaded, Right, Wanted, Unsettled
  <2>4. Unsettled'
    BY <1>4 DEF Unsettled, Right, Wanted, Threaded, Carried, Replacing, Gone, Retagging
  <2>5. Replacing'
    BY <1>4 DEF Replacing, Unsettled, Retagging, Gone
  <2>6. Retagging'
    BY <1>4 DEF Retagging, Wanted, Right, Unsettled, Replacing, Succeeded
  <2>7. Succeeded'
    BY <1>4 DEF Succeeded, Right, Wanted, Replacing, Unsettled, Carried, Retagging, Threaded, Gone
  <2> QED BY <2>1, <2>2, <2>3, <2>4, <2>5, <2>6, <2>7
<1> QED BY <1>1, <1>2, <1>3, <1>4 DEF IngestInv

LEMMA BrainRestartKeeps == ASSUME IngestSetting, IngestInv, BrainRestart PROVE IngestInv'
<1>1. IngestTypes'
  BY DEF BrainRestart, RestOfBrain, NoThread, Fails, IngestInv, IngestTypes, TaskSteps, Phases, Terminal, Cancellable
<1>2. OneWriter'
  BY DEF BrainRestart, RestOfBrain, NoThread, Fails, IngestInv, IngestTypes, OneWriter
<1>3. Expected'
  BY DEF BrainRestart, RestOfBrain, NoThread, Fails, IngestInv, IngestTypes, Expected, Live, Terminal, Cancellable
<1>4. ASSUME ~crossed', ~lost' PROVE Undisturbed'
  <2> USE DEF BrainRestart, RestOfBrain, NoThread, Fails, IngestInv, IngestTypes, Undisturbed, InFlight, Working, Live
  <2>1. Gone'
    BY <1>4 DEF Gone, Unsettled, Replacing, Retagging
  <2>2. Carried'
    BY <1>4 DEF Carried, Right, Wanted, Unsettled, Threaded, Sent
  <2>3. Threaded'
    BY <1>4 DEF Threaded, Right, Wanted, Unsettled
  <2>4. Unsettled'
    BY <1>4 DEF Unsettled, Right, Wanted, Threaded, Carried, Replacing, Gone, Retagging
  <2>5. Replacing'
    BY <1>4 DEF Replacing, Unsettled, Retagging, Gone
  <2>6. Retagging'
    BY <1>4 DEF Retagging, Wanted, Right, Unsettled, Replacing, Succeeded
  <2>7. Succeeded'
    BY <1>4 DEF Succeeded, Right, Wanted, Replacing, Unsettled, Carried, Retagging, Threaded, Gone
  <2> QED BY <2>1, <2>2, <2>3, <2>4, <2>5, <2>6, <2>7
<1> QED BY <1>1, <1>2, <1>3, <1>4 DEF IngestInv

\* A task goes on: where it may go, and what it may have said.
Onward(k, pc) ==
  /\ task' \in Seq(Task) /\ DOMAIN task' = DOMAIN task
  /\ \A j \in DOMAIN task : j # k => task'[j] = task[j]
  /\ task'[k].pc = pc /\ task'[k].acl = task[k].acl
  /\ task'[k].text = task[k].text \/ (uploaded /\ task'[k].text = doc.text)

Saying(st) ==
  /\ doc' = doc \/ (doc.there /\ doc' = [doc EXCEPT !.status = st])
  /\ lost' \in BOOLEAN /\ (lost => lost')

LEMMA GoesOn ==
  ASSUME IngestTypes, NEW k \in DOMAIN task, NEW pc \in TaskSteps, Goto(k, pc)
  PROVE  Onward(k, pc)
<1>1. task[k] \in Task
  BY DEF IngestTypes
<1> DEFINE e == [pc |-> pc, text |-> task[k].text, acl |-> task[k].acl]
<1>2. [task[k] EXCEPT !.pc = pc] = e
  BY <1>1 DEF Task
<1>3. task' = [task EXCEPT ![k] = e]
  BY <1>2 DEF Goto
<1>4. e \in Task /\ e.pc = pc /\ e.text = task[k].text /\ e.acl = task[k].acl
  BY <1>1 DEF Task
<1> HIDE DEF e
<1> QED BY <1>3, <1>4 DEF IngestTypes, Onward

LEMMA SaysSo ==
  ASSUME IngestTypes, NEW st \in Cancellable \cup Terminal, NEW got \in BOOLEAN, Report(st, got)
  PROVE  Saying(st) /\ (doc.there /\ ~lost' => doc'.status = st)
BY DEF Report, Fails, Saying, IngestTypes

LEMMA TaskKeeps ==
  ASSUME IngestInv, NEW k \in DOMAIN task, Live(k), NEW pc \in TaskSteps, Onward(k, pc),
         NEW st \in Cancellable \cup Terminal, Saying(st),
         RestOfWorker, UNCHANGED <<index, job, thread>>,
         pc # "ended" => doc' = doc \/ st = "PROCESSING",
         pc = "ended" /\ doc.there /\ ~lost' => doc'.status = st /\ st \in Terminal,
         pc = "ended" /\ st = "SUCCESS" => task[k].pc = "get" /\ job = "done",
         pc \in Sent => task[k].pc \in Sent \/ ~(uploaded /\ doc.text = 0),
         pc \in {"poll", "get"} => task[k].pc \in {"poll", "get"}
  PROVE  IngestInv'
<1>1. IngestTypes'
  BY DEF IngestInv, IngestTypes, Onward, Saying, RestOfWorker
<1>2. OneWriter'
  BY DEF IngestInv, OneWriter
<1>3. Expected'
  <2>1. k \in DOMAIN task' /\ (pc # "ended" => task'[k].pc # "ended")
    BY DEF Onward
  <2>2. CASE pc # "ended"
    BY <2>1, <2>2 DEF Expected, Live
  <2>3. CASE pc = "ended"
    BY <2>3 DEF Expected, Saying, Terminal, Cancellable, IngestInv, IngestTypes
  <2> QED BY <2>2, <2>3
<1>4. ASSUME ~crossed', ~lost' PROVE Undisturbed'
  <2> USE DEF IngestInv, IngestTypes, Undisturbed, InFlight, Working, Live, RestOfWorker, Onward, Saying
  <2>0. Undisturbed /\ doc.there /\ meta = <<>> /\ Carried /\ UNCHANGED <<uploaded, req, meta, crossed, index, job, thread>>
    BY <1>4 DEF Unsettled, Gone
  <2>a. doc'.there = doc.there /\ doc'.text = doc.text /\ doc'.acl = doc.acl
    OBVIOUS
  <2>b. Right' = Right /\ Wanted(1)' = Wanted(1)
    BY <2>a, <2>0 DEF Right, Wanted
  <2>c. \A j \in DOMAIN task : j # k => task[j].pc = "ended" /\ task'[j].pc = "ended"
    BY <2>0 DEF Carried
  <2>1. Gone'
    BY <2>0, <2>a DEF Gone
  <2>2. Carried'
    BY <2>0, <2>a, <2>b, <2>c DEF Carried
  <2>3. Threaded'
    BY <2>0, <2>a, <2>b DEF Threaded
  <2>4. Unsettled'
    BY <1>4, <2>0, <2>a, <2>b, <2>c DEF Unsettled
  <2>5. Replacing'
    BY <2>0, <2>a DEF Replacing, Unsettled
  <2>6. Retagging'
    BY <2>0 DEF Retagging
  <2>7. Succeeded'
    BY <1>4, <2>0, <2>a, <2>b, <2>c DEF Succeeded, Carried, Unsettled, Sent
  <2> QED BY <2>1, <2>2, <2>3, <2>4, <2>5, <2>6, <2>7
<1> QED BY <1>1, <1>2, <1>3, <1>4 DEF IngestInv

\* The job that a submission starts has what the row says.
LEMMA AcceptKeeps ==
  ASSUME IngestInv, NEW k \in DOMAIN task, task[k].pc = "post", Accept(k),
         NEW pc \in {"poll", "ended"}, Onward(k, pc), Saying("FAILED"),
         RestOfWorker, UNCHANGED index,
         pc # "ended" => doc' = doc, pc = "ended" /\ doc.there /\ ~lost' => doc'.status = "FAILED"
  PROVE  IngestInv'
<1>0. task[k].text \in Texts /\ task[k].acl \in {1, 2}
  <2>1. task[k] \in Task
    BY DEF IngestInv, IngestTypes
  <2> QED BY <2>1 DEF Task
<1>a. thread' \in [phase : Phases, text : Texts \cup {0}, acl : 0 .. 2] /\ thread'.phase \in {thread.phase, "embed"}
  BY <1>0 DEF IngestInv, IngestTypes, Accept, Phases
<1>b. job' = "running" /\ (thread' = thread \/ thread' = [phase |-> "embed", text |-> task[k].text, acl |-> task[k].acl])
  BY DEF Accept
<1>1. IngestTypes'
  BY <1>a, <1>b DEF IngestInv, IngestTypes, Onward, Saying, RestOfWorker, Terminal
<1>2. OneWriter'
  BY <1>b DEF IngestInv, OneWriter
<1>3. Expected'
  <2>1. k \in DOMAIN task' /\ (pc # "ended" => task'[k].pc # "ended")
    BY DEF Onward
  <2>2. CASE pc # "ended"
    BY <2>1, <2>2 DEF Expected, Live
  <2>3. CASE pc = "ended"
    BY <2>3 DEF Expected, Saying, Cancellable, IngestInv, IngestTypes
  <2> QED BY <2>2, <2>3
<1>4. ASSUME ~crossed', ~lost' PROVE Undisturbed'
  <2> USE DEF IngestInv, IngestTypes, Undisturbed, InFlight, Working, Live, RestOfWorker, Onward, Saying
  <2>0. Undisturbed /\ doc.there /\ meta = <<>> /\ Carried /\ UNCHANGED <<uploaded, req, meta, crossed, index>>
    BY <1>4 DEF Unsettled, Gone
  <2>a. doc'.there = doc.there /\ doc'.text = doc.text /\ doc'.acl = doc.acl
    OBVIOUS
  <2>b. Right' = Right /\ Wanted(1)' = Wanted(1)
    BY <2>a, <2>0 DEF Right, Wanted
  <2>c. \A j \in DOMAIN task : j # k => task[j].pc = "ended" /\ task'[j].pc = "ended"
    BY <2>0 DEF Carried
  <2>d. task[k].text = doc.text /\ task[k].acl = doc.acl /\ doc.text # 0 /\ (uploaded \/ doc.text # 0)
    BY <2>0 DEF Carried, Sent
  <2>1. Gone'
    BY <2>0, <2>a DEF Gone
  <2>2. Carried'
    BY <1>b, <2>0, <2>a, <2>b, <2>c, <2>d DEF Carried
  <2>3. Threaded'
    BY <1>b, <2>0, <2>a, <2>b, <2>d DEF Threaded
  <2>e. doc'.status # "SUCCESS" /\ req \in {"none", "persist"} /\ index \in {{}, Right}
    BY <2>0 DEF Unsettled
  <2>4. Unsettled'
    BY <1>4, <2>0, <2>a, <2>b, <2>c, <2>e DEF Unsettled
  <2>5. Replacing'
    BY <2>0, <2>a, <2>e DEF Replacing
  <2>6. Retagging'
    BY <2>0 DEF Retagging
  <2>7. Succeeded'
    BY <2>e DEF Succeeded
  <2> QED BY <2>1, <2>2, <2>3, <2>4, <2>5, <2>6, <2>7
<1> QED BY <1>1, <1>2, <1>3, <1>4 DEF IngestInv

LEMMA WorkerKeeps ==
  ASSUME IngestInv, NEW k \in DOMAIN task, NEW got \in BOOLEAN, Worker(k, got)
  PROVE  IngestInv'
<1> USE DEF TaskSteps, Terminal, Cancellable, Sent
<1>0. IngestTypes
  BY DEF IngestInv
<1>q. ASSUME Quietly, NEW st PROVE Saying(st)
  BY <1>q, <1>0 DEF Quietly, Saying, IngestTypes
<1>1. ASSUME Begin(k, got) PROVE IngestInv'
  <2>1. Onward(k, "check") /\ Saying("PROCESSING")
    BY <1>0, <1>1, GoesOn, SaysSo DEF Begin
  <2> QED BY <1>1, <2>1, TaskKeeps DEF Begin, Live
<1>c. ASSUME Cancelled(k, got), Live(k), RestOfWorker, UNCHANGED <<job, thread, index>> PROVE IngestInv'
  <2>1. Onward(k, "ended") /\ Saying("CANCELLED") /\ (doc.there /\ ~lost' => doc'.status = "CANCELLED")
    BY <1>0, <1>c, GoesOn, SaysSo DEF Cancelled
  <2> QED BY <1>c, <2>1, TaskKeeps
<1>2. ASSUME Check(k, got) PROVE IngestInv'
  <2>1. CASE Cancelled(k, got)
    BY <1>2, <1>c, <2>1 DEF Check, Live
  <2>2. CASE ~Cancelled(k, got)
    <3> DEFINE pc == IF task[k].pc = "submit" THEN "post" ELSE "get"
    <3>1. pc \in TaskSteps /\ Goto(k, pc) /\ Quietly /\ RestOfWorker /\ UNCHANGED <<job, thread, index>> /\ task[k].pc \in {"submit", "poll"}
      BY <1>2, <2>2 DEF Check
    <3>2. Onward(k, pc) /\ Saying("PROCESSING") /\ doc' = doc
      BY <1>0, <1>q, <3>1, GoesOn DEF Quietly
    <3>3. pc # "ended" /\ (pc \in {"poll", "get"} => task[k].pc = "poll") /\ task[k].pc \in Sent
      BY <3>1
    <3> HIDE DEF pc
    <3> QED BY <3>1, <3>2, <3>3, TaskKeeps DEF Live
  <2> QED BY <2>1, <2>2
<1>3. ASSUME NEW ok \in BOOLEAN, Extract(k, ok, got) PROVE IngestInv'
  <2>0. Live(k) /\ RestOfWorker /\ UNCHANGED <<job, thread, index>>
    BY <1>3 DEF Extract, Live
  <2>1. CASE Cancelled(k, got)
    BY <1>c, <2>0, <2>1
  <2>2. CASE /\ ~(uploaded /\ doc.text = 0) /\ Report("PROCESSING", got)
             /\ task' = [task EXCEPT ![k] = [pc |-> "submit", text |-> IF uploaded THEN doc.text ELSE task[k].text,
                                             acl |-> task[k].acl]]
    <3> DEFINE e == [pc |-> "submit", text |-> IF uploaded THEN doc.text ELSE task[k].text, acl |-> task[k].acl]
    <3>1. task[k] \in Task /\ doc.text \in Texts /\ uploaded \in BOOLEAN
      BY <1>0 DEF IngestTypes
    <3>2. e.pc = "submit" /\ e.acl = task[k].acl /\ (e.text = task[k].text \/ (uploaded /\ e.text = doc.text))
      BY <3>1
    <3>4. e \in Task
      BY <3>1 DEF Task
    <3>5. task' = [task EXCEPT ![k] = e]
      BY <2>2
    <3> HIDE DEF e
    <3>6. Onward(k, "submit")
      BY <1>0, <3>2, <3>4, <3>5 DEF IngestTypes, Onward
    <3>3. Onward(k, "submit") /\ Saying("PROCESSING")
      BY <1>0, <2>2, <3>6, SaysSo
    <3> QED BY <2>0, <2>2, <3>3, TaskKeeps
  <2>3. CASE Goto(k, "ended") /\ Report("FAILED", got)
    <3>1. Onward(k, "ended") /\ Saying("FAILED") /\ (doc.there /\ ~lost' => doc'.status = "FAILED")
      BY <1>0, <2>3, GoesOn, SaysSo
    <3> QED BY <2>0, <3>1, TaskKeeps
  <2> QED BY <1>3, <2>1, <2>2, <2>3 DEF Extract
<1>4. ASSUME NEW a \in {"accepted", "again", "refused", "timeout"}, Post(k, a, got) PROVE IngestInv'
  <2>0. task[k].pc = "post" /\ Live(k) /\ RestOfWorker /\ UNCHANGED index
    BY <1>4 DEF Post, Live
  <2>1. CASE Accept(k) /\ Goto(k, "poll") /\ Quietly
    <3>1. Onward(k, "poll") /\ Saying("FAILED") /\ doc' = doc
      BY <1>0, <1>q, <2>1, GoesOn DEF Quietly
    <3> QED BY <2>0, <2>1, <3>1, AcceptKeeps
  <2>2. CASE UNCHANGED <<job, thread>> /\ Goto(k, "submit") /\ Quietly
    <3>1. Onward(k, "submit") /\ Saying("PROCESSING") /\ doc' = doc
      BY <1>0, <1>q, <2>2, GoesOn DEF Quietly
    <3> QED BY <2>0, <2>2, <3>1, TaskKeeps
  <2>3. CASE UNCHANGED <<job, thread>> /\ Goto(k, "ended") /\ Report("FAILED", got)
    <3>1. Onward(k, "ended") /\ Saying("FAILED") /\ (doc.there /\ ~lost' => doc'.status = "FAILED")
      BY <1>0, <2>3, GoesOn, SaysSo
    <3> QED BY <2>0, <2>3, <3>1, TaskKeeps
  <2>4. CASE Accept(k) /\ Goto(k, "ended") /\ Report("FAILED", got)
    <3>1. Onward(k, "ended") /\ Saying("FAILED") /\ (doc.there /\ ~lost' => doc'.status = "FAILED")
      BY <1>0, <2>4, GoesOn, SaysSo
    <3> QED BY <2>0, <2>4, <3>1, AcceptKeeps
  <2> QED BY <1>4, <2>1, <2>2, <2>3, <2>4 DEF Post
<1>5. ASSUME NEW a \in {"state", "again", "none"}, Poll(k, a, got) PROVE IngestInv'
  <2>0. task[k].pc = "get" /\ Live(k) /\ RestOfWorker /\ UNCHANGED <<job, thread, index>>
    BY <1>5 DEF Poll, Live
  <2>1. CASE job = "done" /\ Goto(k, "ended") /\ Report("SUCCESS", got)
    <3>1. Onward(k, "ended") /\ Saying("SUCCESS") /\ (doc.there /\ ~lost' => doc'.status = "SUCCESS")
      BY <1>0, <2>1, GoesOn, SaysSo
    <3> QED BY <2>0, <2>1, <3>1, TaskKeeps
  <2>2. CASE Goto(k, "ended") /\ Report("FAILED", got)
    <3>1. Onward(k, "ended") /\ Saying("FAILED") /\ (doc.there /\ ~lost' => doc'.status = "FAILED")
      BY <1>0, <2>2, GoesOn, SaysSo
    <3> QED BY <2>0, <3>1, TaskKeeps
  <2>3. CASE Goto(k, "poll") /\ Report("PROCESSING", got)
    <3>1. Onward(k, "poll") /\ Saying("PROCESSING")
      BY <1>0, <2>3, GoesOn, SaysSo
    <3> QED BY <2>0, <3>1, TaskKeeps
  <2>4. CASE Goto(k, "poll") /\ Quietly
    <3>1. Onward(k, "poll") /\ Saying("PROCESSING") /\ doc' = doc
      BY <1>0, <1>q, <2>4, GoesOn DEF Quietly
    <3> QED BY <2>0, <3>1, TaskKeeps
  <2> QED BY <1>5, <2>1, <2>2, <2>3, <2>4 DEF Poll
<1> QED BY <1>1, <1>2, <1>3, <1>4, <1>5 DEF Worker

LEMMA RedeliverKeeps ==
  ASSUME IngestInv, NEW k \in DOMAIN task, Redeliver(k) \/ Kill(k)
  PROVE  IngestInv'
<1> USE DEF TaskSteps, Terminal, Cancellable, Sent
<1>0. IngestTypes
  BY DEF IngestInv
<1>1. CASE Redeliver(k)
  <2>1. Goto(k, "queued")
    BY <1>1 DEF Redeliver, Goto
  <2>2. Onward(k, "queued") /\ Saying("PROCESSING") /\ doc' = doc
    BY <1>0, <1>1, <2>1, GoesOn DEF Redeliver, Saying, IngestTypes
  <2> QED BY <1>1, <2>2, TaskKeeps DEF Redeliver
<1>2. CASE Kill(k)
  <2>1. Onward(k, "ended") /\ Saying("PROCESSING") /\ doc' = doc /\ lost' = TRUE
    BY <1>0, <1>2, GoesOn DEF Kill, Saying
  <2> QED BY <1>2, <2>1, TaskKeeps DEF Kill
<1> QED BY <1>1, <1>2

LEMMA StepIngestInv == IngestSetting /\ IngestInv /\ [IngestNext]_ingest_vars => IngestInv'
<1> SUFFICES ASSUME IngestSetting, IngestInv, [IngestNext]_ingest_vars PROVE IngestInv'
  OBVIOUS
<1>1. ASSUME NEW t \in Texts, Edit(t) PROVE IngestInv'
  BY <1>1, EditKeeps
<1>2. CASE Reprocess
  BY <1>2, ReprocessKeeps
<1>3. CASE Persist
  BY <1>3, PersistKeeps
<1>4. CASE UpdateMetadata
  BY <1>4, UpdateMetadataKeeps
<1>5. ASSUME NEW ok \in BOOLEAN, Purge(ok) PROVE IngestInv'
  BY <1>5, PurgeKeeps
<1>6. ASSUME NEW ok \in BOOLEAN, Dispatch(ok) PROVE IngestInv'
  BY <1>6, DispatchKeeps
<1>7. ASSUME NEW ok \in BOOLEAN, Cancel(ok) PROVE IngestInv'
  BY <1>7, CancelKeeps
<1>8. ASSUME NEW ok \in BOOLEAN, Patch(ok) PROVE IngestInv'
  BY <1>8, PatchKeeps
<1>9. ASSUME NEW ok \in BOOLEAN, Delete(ok) PROVE IngestInv'
  BY <1>9, DeleteKeeps
<1>10. ASSUME NEW k \in DOMAIN task, Redeliver(k) \/ Kill(k) PROVE IngestInv'
  BY <1>10, RedeliverKeeps
<1>11. ASSUME NEW k \in DOMAIN task, NEW got \in BOOLEAN, Worker(k, got) PROVE IngestInv'
  BY <1>11, WorkerKeeps
<1>12. CASE JobPurge \/ JobEmpty \/ JobWrite
  BY <1>12, JobPurgeKeeps, JobEmptyKeeps, JobWriteKeeps
<1>13. CASE JobDone \/ JobFail \/ BrainRestart
  BY <1>13, JobDoneKeeps, JobFailKeeps, BrainRestartKeeps
<1>14. CASE UNCHANGED ingest_vars
  BY <1>14 DEF ingest_vars, IngestInv, IngestTypes, OneWriter, Expected, Undisturbed, Gone, Carried, Threaded, Unsettled,
               Replacing, Retagging, Succeeded, Right, Wanted, Working, InFlight, Live
<1> QED BY <1>1, <1>2, <1>3, <1>4, <1>5, <1>6, <1>7, <1>8, <1>9, <1>10, <1>11, <1>12, <1>13, <1>14 DEF IngestNext

LEMMA InitIngestInv == IngestSetting /\ IngestInit => IngestInv
<1> SUFFICES ASSUME IngestSetting, IngestInit PROVE IngestInv
  OBVIOUS
<1>1. \E t \in Texts :
        /\ doc = Row(t) /\ uploaded \in BOOLEAN
        /\ (req = "dispatch" /\ (uploaded \/ t # 0)) \/ (req = "none" /\ ~uploaded /\ t = 0)
  BY DEF IngestInit, CreateDocument, UploadDocument
<1>a. PICK t \in Texts :
        /\ doc = Row(t) /\ uploaded \in BOOLEAN
        /\ (req = "dispatch" /\ (uploaded \/ t # 0)) \/ (req = "none" /\ ~uploaded /\ t = 0)
  BY <1>1
<1>2. IngestTypes
  <2>1. doc \in [there : BOOLEAN, status : Cancellable \cup Terminal, text : Texts, acl : {1, 2}, task : Nat]
    BY <1>a DEF Row, Cancellable
  <2>2. thread \in [phase : Phases, text : Texts \cup {0}, acl : 0 .. 2] /\ thread.phase = "none"
    BY DEF IngestInit, NoThread, Phases
  <2>3. task \in Seq(Task) /\ meta \in Seq({2}) /\ crossed = FALSE /\ lost = FALSE
    BY DEF IngestInit
  <2> QED BY <1>a, <2>1, <2>2, <2>3 DEF IngestTypes
<1>3. OneWriter /\ Expected
  BY <1>a DEF IngestInit, OneWriter, Expected, Row, NoThread
<1>4. ~InFlight /\ ~Working
  BY DEF IngestInit, InFlight, Working, NoThread
<1>5. Undisturbed
  BY <1>a, <1>4 DEF IngestInit, Undisturbed, Gone, Carried, Threaded, Unsettled, Replacing, Retagging, Succeeded, Row, NoThread
<1> QED BY <1>2, <1>3, <1>5 DEF IngestInv

\* For any bodies and any number of tasks, requests, lost calls and restarts: the
\* index never holds two ingests of a document; unless requests met work in
\* flight or something was lost, a document that says SUCCESS is indexed as it is
\* and a deleted one is not; and only what was lost leaves one unsettled.
THEOREM IngestKept == ASSUME IngestSetting PROVE IngestSpec => []IngestHolds
<1>1. IngestInv => IngestHolds
  <2> SUFFICES ASSUME IngestInv PROVE IngestHolds
    OBVIOUS
  <2>1. OneVersion
    <3>1. CASE index = {}
      BY <3>1, FS_EmptySet DEF OneVersion
    <3>2. CASE index # {}
      <4>1. PICK c \in index : index = {c}
        BY <3>2 DEF IngestInv, OneWriter
      <4> QED BY <4>1, FS_Singleton DEF OneVersion
    <3> QED BY <3>1, <3>2
  <2>2. OnlyOverlapIsStale /\ GhostOnlyInFlight
    BY DEF IngestInv, Undisturbed, Succeeded, Gone, Right, Wanted, OnlyOverlapIsStale, GhostOnlyInFlight, Quiet
  <2>3. StuckOnlyIfLost
    BY DEF IngestInv, IngestTypes, Expected, StuckOnlyIfLost, Quiet, InFlight
  <2> QED BY <2>1, <2>2, <2>3 DEF IngestHolds
<1>2. IngestInit => IngestInv
  BY InitIngestInv
<1>3. IngestInv /\ [IngestNext]_ingest_vars => IngestInv'
  BY StepIngestInv
<1> QED BY <1>1, <1>2, <1>3, PTL DEF IngestSpec

============================================================================
