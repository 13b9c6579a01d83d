------------------------- MODULE TokenEngineProofs -------------------------
(***************************************************************************)
(* Proofs about TokenEngine, for every graph, every budget and every set   *)
(* of requests: the types and the claims; the token budget; the quiet of a *)
(* run that has succeeded and the permanence of a failure; the place of a  *)
(* completion marker; and why a run that is open is never stranded.  At    *)
(* the end, proofs about CallActivity: runs that call each other.          *)
(***************************************************************************)
EXTENDS TokenEngine, CallActivity, SequenceTheorems, TLAPS

----------------------------------------------------------------------------
(***************************************************************************)
(* Outcomes.                                                               *)
(***************************************************************************)

\* The plain outcome of any kind is well formed.
LEMMA OutcomeOfType ==
  ASSUME NEW kind \in {"advance", "emit", "park", "noop", "complete", "terminate", "fail"},
         NEW data \in Data
  PROVE  OutcomeOf(kind, data) \in Outcome /\ OutcomeOf(kind, data).kind = kind
BY DEF OutcomeOf, Outcome, WaitKind

\* Setting a field of an outcome keeps it well formed and keeps its kind.
LEMMA OutcomeExcept ==
  ASSUME NEW o \in Outcome
  PROVE  /\ \A wait \in WaitKind, flag \in BOOLEAN :
              LET p == [o EXCEPT !.wait = wait, !.due = flag]
              IN p \in Outcome /\ p.kind = o.kind
         /\ LET p == [o EXCEPT !.dead_letter = TRUE, !.steps = 1]
            IN p \in Outcome /\ p.kind = o.kind
         /\ [o EXCEPT !.steps = 1] \in Outcome /\ [o EXCEPT !.steps = 1].kind = o.kind
         /\ [o EXCEPT !.call = TRUE] \in Outcome /\ [o EXCEPT !.call = TRUE].kind = o.kind
<1>2. ASSUME NEW wait \in WaitKind, NEW flag \in BOOLEAN
      PROVE  LET p == [o EXCEPT !.wait = wait, !.due = flag]
             IN p \in Outcome /\ p.kind = o.kind
  BY DEF Outcome
<1>3. LET p == [o EXCEPT !.dead_letter = TRUE, !.steps = 1] IN p \in Outcome /\ p.kind = o.kind
  BY DEF Outcome
<1>4. [o EXCEPT !.steps = 1] \in Outcome /\ [o EXCEPT !.steps = 1].kind = o.kind
  BY DEF Outcome
<1>5. [o EXCEPT !.call = TRUE] \in Outcome /\ [o EXCEPT !.call = TRUE].kind = o.kind
  BY DEF Outcome
<1> QED
  BY <1>2, <1>3, <1>4, <1>5

\* Advancing along a sequence of edges is well formed.
LEMMA AdvanceToType ==
  ASSUME NEW targets \in Seq(Target), NEW data \in Data, NEW steps \in {0, 1}
  PROVE  /\ AdvanceTo(targets, data, steps) \in Outcome
         /\ AdvanceTo(targets, data, steps).kind = "advance"
<1> DEFINE o == OutcomeOf("advance", data)
<1>1. o \in Outcome /\ o.kind = "advance"
  BY OutcomeOfType
<1> HIDE DEF o
<1>2. LET p == [o EXCEPT !.targets = targets, !.steps = steps] IN p \in Outcome /\ p.kind = o.kind
  BY <1>1 DEF Outcome
<1> QED
  BY <1>1, <1>2 DEF AdvanceTo, o

\* Parking a token is well formed.
LEMMA ParkType ==
  ASSUME NEW wait \in WaitKind, NEW due \in BOOLEAN, NEW data \in Data
  PROVE  /\ Park(wait, due, data) \in Outcome
         /\ Park(wait, due, data).kind = "park"
<1> DEFINE o == OutcomeOf("park", data)
<1>1. o \in Outcome /\ o.kind = "park"
  BY OutcomeOfType
<1> HIDE DEF o
<1>2. LET p == [o EXCEPT !.wait = wait, !.due = due] IN p \in Outcome /\ p.kind = o.kind
  BY <1>1, OutcomeExcept
<1> QED
  BY <1>1, <1>2 DEF Park, o

\* The out-edges of a node and the route to a boundary event are targets.
LEMMA TargetsType ==
  /\ \A n \in Nodes : OutEdges[n] \in Seq(Target)
  /\ \A b \in Nodes : Catch(b) \in Seq(Target)
  /\ \A e \in Target : <<e>> \in Seq(Target)
  /\ \A n \in Nodes, h \in Handles : Routes(n, h) \subseteq Target
<1>1. \A n \in Nodes : OutEdges[n] \in Seq(Target)
  BY GraphAssumption
<1>2. \A b \in Nodes : Catch(b) \in Seq(Target)
  BY DEF Catch, Target, Handles
<1>3. \A e \in Target : <<e>> \in Seq(Target)
  OBVIOUS
<1>4. ASSUME NEW n \in Nodes, NEW h \in Handles
      PROVE  FirstVia(n, h) \subseteq Target
  BY <1>1 DEF FirstVia
<1>5. "default" \in Handles
  BY DEF Handles
<1>6. \A n \in Nodes, h \in Handles : Routes(n, h) \subseteq Target
  BY <1>4, <1>5 DEF Routes
<1> QED
  BY <1>1, <1>2, <1>3, <1>6

----------------------------------------------------------------------------
(***************************************************************************)
(* Dispatch.  Apart from joins and terminate end events a node produces    *)
(* only local outcomes: ones that concern the dispatched token alone.      *)
(***************************************************************************)
LocalOutcome == {o \in Outcome : o.kind \in {"advance", "park", "complete", "fail"}}

\* Updating a marker or a counter of the data column keeps its type.
LEMMA DataExcept ==
  ASSUME NEW data \in Data, NEW flag \in BOOLEAN, NEW k \in Nat, NEW n \in Nodes
  PROVE  /\ [data EXCEPT !.completed = NoNode, !.armed = flag] \in Data
         /\ [data EXCEPT !.armed = flag] \in Data
         /\ [data EXCEPT !.timerArmed = flag] \in Data
         /\ [data EXCEPT !.completed = n] \in Data
         /\ [data EXCEPT !.attempts[n] = k] \in Data
         /\ data.attempts[n] \in Nat
<1>1. [data EXCEPT !.completed = NoNode, !.armed = flag] \in Data
  BY DEF Data
<1>2. [data EXCEPT !.armed = flag] \in Data
  BY DEF Data
<1>3. [data EXCEPT !.timerArmed = flag] \in Data
  BY DEF Data
<1>4. [data EXCEPT !.completed = n] \in Data
  BY DEF Data
<1>5. [data EXCEPT !.attempts[n] = k] \in Data
  BY DEF Data
<1>6. data.attempts[n] \in Nat
  BY DEF Data
<1> QED
  BY <1>1, <1>2, <1>3, <1>4, <1>5, <1>6

\* A wait-state task advances or parks its own token.
LEMMA DispatchUserLocal ==
  ASSUME NEW n \in Nodes, NEW data \in Data
  PROVE  DispatchUser(n, data) \in LocalOutcome
<1>1. TimerBoundary[n] # NoNode => TimerBoundary[n] \in Nodes
  BY GraphAssumption
<1>2. "user_task" \in WaitKind
  BY DEF WaitKind
<1> QED
  BY <1>1, <1>2, AdvanceToType, ParkType, TargetsType, DataExcept DEF DispatchUser, LocalOutcome

\* A failed attempt retries, is caught, is skipped over or fails the run.
LEMMA ServiceFailureLocal ==
  ASSUME NEW n \in Nodes, NEW data \in Data
  PROVE  ServiceFailure(n, data) \in LocalOutcome
<1> DEFINE attempt == data.attempts[n] + 1
           retried == [data EXCEPT !.attempts[n] = attempt]
<1>1. attempt \in Nat /\ retried \in Data
  <2>1. data.attempts[n] \in Nat
    BY DataExcept
  <2>2. attempt \in Nat
    BY <2>1
  <2> HIDE DEF attempt
  <2>3. [data EXCEPT !.attempts[n] = attempt] \in Data
    BY <2>2 DEF Data
  <2> QED
    BY <2>2, <2>3
<1>2. [Park("retry", TRUE, retried) EXCEPT !.steps = 1] \in LocalOutcome
  <2>1. "retry" \in WaitKind
    BY DEF WaitKind
  <2> DEFINE o == Park("retry", TRUE, retried)
  <2> HIDE DEF retried
  <2>2. o \in Outcome /\ o.kind = "park"
    BY <1>1, <2>1, ParkType
  <2> HIDE DEF o
  <2>3. [o EXCEPT !.steps = 1] \in Outcome /\ [o EXCEPT !.steps = 1].kind = o.kind
    BY <2>2, OutcomeExcept
  <2> QED
    BY <2>2, <2>3 DEF LocalOutcome, o
<1>3. [OutcomeOf("fail", data) EXCEPT !.dead_letter = TRUE, !.steps = 1] \in LocalOutcome
  <2> DEFINE o == OutcomeOf("fail", data)
  <2>1. o \in Outcome /\ o.kind = "fail"
    BY OutcomeOfType
  <2> HIDE DEF o
  <2>2. LET p == [o EXCEPT !.dead_letter = TRUE, !.steps = 1] IN p \in Outcome /\ p.kind = o.kind
    BY <2>1, OutcomeExcept
  <2> QED
    BY <2>1, <2>2 DEF LocalOutcome, o
<1>4. ErrorBoundary[n] # NoNode => AdvanceTo(Catch(ErrorBoundary[n]), data, 1) \in LocalOutcome
  <2>1. ErrorBoundary[n] # NoNode => ErrorBoundary[n] \in Nodes
    BY GraphAssumption
  <2> QED
    BY <2>1, AdvanceToType, TargetsType DEF LocalOutcome
<1>5. AdvanceTo(OutEdges[n], data, 1) \in LocalOutcome
  BY AdvanceToType, TargetsType DEF LocalOutcome
<1> QED
  BY <1>2, <1>3, <1>4, <1>5 DEF ServiceFailure

\* A service task concerns its own token.
LEMMA DispatchServiceLocal ==
  ASSUME NEW n \in Nodes, NEW data \in Data
  PROVE  DispatchService(n, data) \subseteq LocalOutcome
<1>1. \A o \in LocalOutcome : [o EXCEPT !.call = TRUE] \in LocalOutcome
  BY OutcomeExcept DEF LocalOutcome
<1>2. AdvanceTo(OutEdges[n], [data EXCEPT !.attempts[n] = 0], 1) \in LocalOutcome
  <2>1. [data EXCEPT !.attempts[n] = 0] \in Data
    BY DataExcept
  <2> QED
    BY <2>1, AdvanceToType, TargetsType DEF LocalOutcome
<1>3. OutcomeOf("fail", data) \in LocalOutcome
  BY OutcomeOfType DEF LocalOutcome
<1> QED
  BY <1>1, <1>2, <1>3, ServiceFailureLocal DEF DispatchService

\* An exclusive gateway routes or completes its own token.
LEMMA ExclusiveRouteLocal ==
  ASSUME NEW n \in Nodes, NEW data \in Data
  PROVE  ExclusiveRoute(n, data) \subseteq LocalOutcome
<1>1. OutcomeOf("complete", data) \in LocalOutcome
  BY OutcomeOfType DEF LocalOutcome
<1>2. \A e \in Target : AdvanceTo(<<e>>, data, 0) \in LocalOutcome
  BY AdvanceToType, TargetsType DEF LocalOutcome
<1>3. OutEdges[n] # <<>> => OutEdges[n][1] \in Target
  BY TargetsType
<1>4. UNION {Routes(n, h) : h \in Choices[n]} \subseteq Target
  <2>1. Choices[n] \subseteq Handles
    BY GraphAssumption
  <2> QED
    BY <2>1, TargetsType
<1> QED
  BY <1>1, <1>2, <1>3, <1>4 DEF ExclusiveRoute

----------------------------------------------------------------------------
(***************************************************************************)
(* Sequences of rows.                                                      *)
(***************************************************************************)

\* A function on 1..n with values in S is a sequence over S.
LEMMA FunctionIsSeq ==
  ASSUME NEW S, NEW n \in Nat, NEW f \in [1..n -> S]
  PROVE  f \in Seq(S) /\ Len(f) = n /\ DOMAIN f = 1..n
BY SeqDef

\* Buffering an arrival changes the status and the wait kind of that row only.
LEMMA BufferArrivalType ==
  ASSUME NEW rows \in Seq(Row), NEW t \in DOMAIN rows
  PROVE  LET b == BufferArrival(rows, t)
         IN /\ b \in Seq(Row) /\ DOMAIN b = DOMAIN rows /\ Len(b) = Len(rows)
            /\ b[t].status = "waiting" /\ b[t].wait = "join" /\ b[t].node = rows[t].node
            /\ \A i \in DOMAIN rows : i # t => b[i] = rows[i]
<1> DEFINE r == [[rows[t] EXCEPT !.status = "waiting"] EXCEPT !.wait = "join"]
<1>1. rows[t] \in Row /\ rows \in [1..Len(rows) -> Row] /\ Len(rows) \in Nat
  BY LenProperties
<1>2. r \in Row /\ r.status = "waiting" /\ r.wait = "join" /\ r.node = rows[t].node
  BY <1>1 DEF Row, TokenStatus, WaitKind
<1>3. BufferArrival(rows, t) = [rows EXCEPT ![t] = r]
  BY <1>1 DEF BufferArrival
<1> HIDE DEF r
<1> QED
  BY <1>1, <1>2, <1>3, ExceptSeq, LenProperties

\* A join fires with a buffer that holds the arriving token, or buffers it.
LEMMA JoinOutcomeType ==
  ASSUME NEW rows \in Seq(Row), NEW t \in DOMAIN rows
  PROVE  LET o == JoinOutcome(rows, t)
         IN /\ o \in Outcome
            /\ o.kind \in {"emit", "noop"}
            /\ o.kind = "emit" => t \in o.absorbed /\ o.absorbed \subseteq DOMAIN rows
<1> DEFINE n == rows[t].node
           buffered == BufferArrival(rows, t)
           absorbed == BufferedAt(buffered, n)
           emit == OutcomeOf("emit", rows[t].data)
<1>1. rows[t] \in Row /\ DOMAIN rows \subseteq Nat
  BY LenProperties
<1>2. n \in Nodes /\ rows[t].data \in Data
  BY <1>1 DEF Row
<1>3. t \in absorbed /\ absorbed \subseteq DOMAIN rows /\ absorbed \subseteq Nat
  BY <1>1, BufferArrivalType DEF BufferedAt
<1>4. emit \in Outcome /\ emit.kind = "emit"
  BY <1>2, OutcomeOfType
<1>5. OutcomeOf("noop", rows[t].data) \in Outcome /\ OutcomeOf("noop", rows[t].data).kind = "noop"
  BY <1>2, OutcomeOfType
<1>6. OutEdges[n] \in Seq(Target)
  BY <1>2, TargetsType
<1> HIDE DEF emit, absorbed, n
<1>7. LET p == [emit EXCEPT !.targets = OutEdges[n], !.absorbed = absorbed]
      IN p \in Outcome /\ p.kind = "emit" /\ p.absorbed = absorbed
  BY <1>3, <1>4, <1>6 DEF Outcome
<1>8. JoinOutcome(rows, t) \in {[emit EXCEPT !.targets = OutEdges[n], !.absorbed = absorbed],
                                OutcomeOf("noop", rows[t].data)}
  BY DEF JoinOutcome, emit, absorbed, n
<1> QED
  BY <1>3, <1>5, <1>7, <1>8

\* What _dispatch may return for any node: well formed; a join that fires has
\* the dispatched token in its buffer; only a terminate end event terminates,
\* and only a join buffers or fires.
LEMMA DispatchType ==
  ASSUME NEW rows \in Seq(Row), NEW t \in DOMAIN rows, NEW o \in Dispatch(rows, t)
  PROVE  /\ o \in Outcome
         /\ o.kind = "emit" => t \in o.absorbed /\ o.absorbed \subseteq DOMAIN rows
         /\ o.kind = "terminate" => Kind[rows[t].node] = "terminate"
         /\ o.kind \in {"emit", "noop"} => o = JoinOutcome(rows, t)
<1> DEFINE n == rows[t].node
           data == rows[t].data
<1>1. n \in Nodes /\ data \in Data
  <2>1. rows[t] \in Row
    BY LenProperties
  <2> QED
    BY <2>1 DEF Row
<1> HIDE DEF n, data
<1>2. CASE IsJoin(n)
  <2>1. Kind[n] \in {"parallel", "inclusive"}
    BY <1>2 DEF IsJoin
  <2>2. o = JoinOutcome(rows, t)
    BY <1>2, <2>1 DEF Dispatch, n
  <2> QED
    BY <2>2, JoinOutcomeType
<1>3. DispatchUser(n, data) \in LocalOutcome
  BY <1>1, DispatchUserLocal
<1>4. DispatchService(n, data) \subseteq LocalOutcome
  BY <1>1, DispatchServiceLocal
<1>5. OutcomeOf("fail", data) \in LocalOutcome /\ OutcomeOf("complete", data) \in LocalOutcome
  BY <1>1, OutcomeOfType DEF LocalOutcome
<1>6. /\ AdvanceTo(OutEdges[n], data, 0) \in LocalOutcome
      /\ AdvanceTo(OutEdges[n], data, 1) \in LocalOutcome
  BY <1>1, AdvanceToType, TargetsType DEF LocalOutcome
<1>7. DispatchRule(n, data) \in LocalOutcome
  BY <1>5, <1>6 DEF DispatchRule
<1>8. ExclusiveRoute(n, data) \subseteq LocalOutcome
  BY <1>1, ExclusiveRouteLocal
<1>9. DispatchTimer(n, data) \in LocalOutcome
  <2>1. "timer" \in WaitKind
    BY DEF WaitKind
  <2>2. [data EXCEPT !.timerArmed = FALSE] \in Data /\ [data EXCEPT !.timerArmed = TRUE] \in Data
    BY <1>1, DataExcept
  <2> QED
    BY <1>1, <2>1, <2>2, AdvanceToType, ParkType, TargetsType DEF DispatchTimer, LocalOutcome
<1>10. Park("receive", FALSE, data) \in LocalOutcome
  <2>1. "receive" \in WaitKind
    BY DEF WaitKind
  <2> QED
    BY <1>1, <2>1, ParkType DEF LocalOutcome
<1>11. OutcomeOf("terminate", data) \in Outcome /\ OutcomeOf("terminate", data).kind = "terminate"
  BY <1>1, OutcomeOfType
<1>12. CASE ~IsJoin(n)
  <2>1. \/ o \in LocalOutcome
        \/ Kind[n] = "terminate" /\ o = OutcomeOf("terminate", data)
    BY <1>3, <1>4, <1>5, <1>6, <1>7, <1>8, <1>9, <1>10, <1>12, Zenon DEF Dispatch, n, data
  <2> QED
    BY <2>1, <1>11 DEF LocalOutcome, n
<1> QED
  BY <1>2, <1>12

----------------------------------------------------------------------------
(***************************************************************************)
(* Apply.  Advances(rows, t, new) says what one advance of token t may do  *)
(* to the rows: they stay rows, none disappears, t is no longer running,   *)
(* and no other row becomes running.                                       *)
(***************************************************************************)
Advances(rows, t, new) ==
  /\ new \in Seq(Row)
  /\ DOMAIN rows \subseteq DOMAIN new
  /\ \A i \in DOMAIN new : new[i].status = "running" =>
       i # t /\ i \in DOMAIN rows /\ rows[i].status = "running"

\* Replacing row t by a row that is not running is an advance.
LEMMA ReplaceAdvances ==
  ASSUME NEW rows \in Seq(Row), NEW t \in DOMAIN rows,
         NEW r \in Row, r.status # "running"
  PROVE  Advances(rows, t, [rows EXCEPT ![t] = r])
BY ExceptSeq, LenProperties DEF Advances

\* Changing rows in place, without making one running, is an advance.
LEMMA MapAdvances ==
  ASSUME NEW rows \in Seq(Row), NEW t \in DOMAIN rows, NEW new \in [DOMAIN rows -> Row],
         \A i \in DOMAIN rows :
           new[i].status = "running" => i # t /\ rows[i].status = "running"
  PROVE  Advances(rows, t, new)
<1>1. DOMAIN rows = 1..Len(rows) /\ Len(rows) \in Nat
  BY LenProperties
<1>2. new \in Seq(Row) /\ DOMAIN new = DOMAIN rows
  BY <1>1, FunctionIsSeq
<1> QED
  BY <1>2 DEF Advances

\* The tokens created at the targets are active rows.
LEMMA NewRowsType ==
  ASSUME NEW n \in Nodes, NEW targets \in Seq(Target)
  PROVE  /\ NewRows(n, targets) \in Seq(Row)
         /\ \A i \in DOMAIN NewRows(n, targets) : NewRows(n, targets)[i].status = "active"
         /\ \A i \in DOMAIN NewRows(n, targets) : NewRows(n, targets)[i].data = NoData
         /\ Len(NewRows(n, targets)) = Len(targets)
<1>1. Len(targets) \in Nat /\ \A i \in 1..Len(targets) : targets[i] \in Target
  BY LenProperties, ElementOfSeq
<1>2. \A i \in 1..Len(targets) : targets[i].node \in Nodes /\ targets[i].via \in Handles
  BY <1>1 DEF Target
<1>3. NoData \in Data
  BY DEF NoData, Data
<1>4. \A i \in 1..Len(targets) :
        /\ NewRow(targets[i].node, n, targets[i].via) \in Row
        /\ NewRow(targets[i].node, n, targets[i].via).status = "active"
        /\ NewRow(targets[i].node, n, targets[i].via).data = NoData
  BY <1>2, <1>3 DEF NewRow, Row, TokenStatus, WaitKind
<1>5. NewRows(n, targets) \in [1..Len(targets) -> Row]
  BY <1>4 DEF NewRows
<1>6. /\ NewRows(n, targets) \in Seq(Row) /\ DOMAIN NewRows(n, targets) = 1..Len(targets)
      /\ Len(NewRows(n, targets)) = Len(targets)
  BY <1>1, <1>5, FunctionIsSeq
<1> QED
  BY <1>4, <1>6 DEF NewRows

\* Appending active rows to an advance is an advance.
LEMMA AppendAdvances ==
  ASSUME NEW rows \in Seq(Row), NEW t \in DOMAIN rows, NEW mid, Advances(rows, t, mid),
         NEW fresh \in Seq(Row), \A i \in DOMAIN fresh : fresh[i].status = "active"
  PROVE  Advances(rows, t, mid \o fresh)
<1>1. mid \in Seq(Row)
  BY DEF Advances
<1>2. /\ mid \o fresh \in Seq(Row)
      /\ Len(mid \o fresh) = Len(mid) + Len(fresh)
      /\ \A i \in 1..Len(mid) + Len(fresh) :
           (mid \o fresh)[i] = IF i <= Len(mid) THEN mid[i] ELSE fresh[i - Len(mid)]
  BY <1>1, ConcatProperties
<1>3. /\ DOMAIN mid = 1..Len(mid) /\ DOMAIN fresh = 1..Len(fresh)
      /\ DOMAIN (mid \o fresh) = 1..Len(mid) + Len(fresh)
      /\ Len(mid) \in Nat /\ Len(fresh) \in Nat
  BY <1>1, <1>2, LenProperties
<1>4. ASSUME NEW i \in DOMAIN (mid \o fresh), (mid \o fresh)[i].status = "running"
      PROVE  i \in DOMAIN mid /\ mid[i].status = "running"
  <2>1. CASE i <= Len(mid)
    BY <1>2, <1>3, <1>4, <2>1
  <2>2. CASE ~(i <= Len(mid))
    <3>1. i - Len(mid) \in DOMAIN fresh
      BY <1>3, <2>2
    <3>2. (mid \o fresh)[i].status = "active"
      BY <1>2, <1>3, <2>2, <3>1
    <3> QED
      BY <1>4, <3>2
  <2> QED
    BY <2>1, <2>2
<1> QED
  BY <1>2, <1>3, <1>4 DEF Advances

\* _apply leaves rows, takes the token out of "running" and makes no other
\* token running, whatever the outcome.
LEMMA ApplyAdvances ==
  ASSUME NEW rows \in Seq(Row), NEW t \in DOMAIN rows, NEW o \in Outcome,
         o.kind = "emit" => t \in o.absorbed
  PROVE  Advances(rows, t, Apply(rows, t, o))
<1>1. rows[t] \in Row /\ rows \in [DOMAIN rows -> Row]
  BY LenProperties
<1>2. /\ o.targets \in Seq(Target) /\ o.wait \in WaitKind /\ o.due \in BOOLEAN /\ o.data \in Data
      /\ o.kind \in {"advance", "emit", "park", "noop", "complete", "terminate", "fail"}
  BY DEF Outcome
<1>3. rows[t].node \in Nodes
  BY <1>1 DEF Row
<1>4. \A st \in {"dead", "completed"} : Advances(rows, t, [rows EXCEPT ![t].status = st])
  <2>1. ASSUME NEW st \in {"dead", "completed"}
        PROVE  Advances(rows, t, [rows EXCEPT ![t].status = st])
    <3> DEFINE r == [rows[t] EXCEPT !.status = st]
    <3>1. r \in Row /\ r.status # "running"
      BY <1>1 DEF Row, TokenStatus
    <3>2. [rows EXCEPT ![t].status = st] = [rows EXCEPT ![t] = r]
      BY <1>1
    <3> HIDE DEF r
    <3> QED
      BY <3>1, <3>2, ReplaceAdvances
  <2> QED
    BY <2>1
<1>5. NewRows(rows[t].node, o.targets) \in Seq(Row)
      /\ \A i \in DOMAIN NewRows(rows[t].node, o.targets) :
           NewRows(rows[t].node, o.targets)[i].status = "active"
  BY <1>2, <1>3, NewRowsType
<1>6. CASE o.kind = "noop"
  <2> DEFINE new == BufferArrival(rows, t)
  <2>1. new \in [DOMAIN rows -> Row] /\ new[t].status = "waiting"
        /\ \A i \in DOMAIN rows : i # t => new[i] = rows[i]
    BY BufferArrivalType, LenProperties
  <2> HIDE DEF new
  <2>2. Advances(rows, t, new)
    BY <2>1, MapAdvances
  <2> QED
    BY <1>6, <2>2 DEF Apply, new
<1>7. CASE o.kind = "park"
  <2> DEFINE r == [rows[t] EXCEPT !.status = "waiting", !.wait = o.wait, !.due = o.due,
                                  !.data = o.data]
  <2>1. r \in Row /\ r.status # "running"
    BY <1>1, <1>2 DEF Row, TokenStatus
  <2>2. Apply(rows, t, o) = [rows EXCEPT ![t] = r]
    BY <1>1, <1>7 DEF Apply
  <2> HIDE DEF r
  <2> QED
    BY <2>1, <2>2, ReplaceAdvances
<1>8. CASE o.kind = "complete"
  BY <1>4, <1>8 DEF Apply
<1>9. CASE o.kind = "fail"
  BY <1>4, <1>9 DEF Apply
<1>10. CASE o.kind = "terminate"
  <2> DEFINE new == KillAll(rows, t)
  <2>1. \A i \in DOMAIN rows : rows[i] \in Row
    BY <1>1
  <2>2. \A i \in DOMAIN rows : /\ [rows[i] EXCEPT !.status = "completed"] \in Row
                               /\ [rows[i] EXCEPT !.status = "completed"].status # "running"
                               /\ [rows[i] EXCEPT !.status = "dead"] \in Row
                               /\ [rows[i] EXCEPT !.status = "dead"].status # "running"
    BY <2>1 DEF Row, TokenStatus
  <2>3. new \in [DOMAIN rows -> Row] /\ \A i \in DOMAIN rows : new[i].status # "running"
    BY <2>1, <2>2 DEF KillAll, Live
  <2> HIDE DEF new
  <2>4. Advances(rows, t, new)
    BY <2>3, MapAdvances
  <2> QED
    BY <1>10, <2>4 DEF Apply, new
<1>11. CASE o.kind = "advance"
  <2>1. CASE OverBudget(rows, o)
    BY <1>4, <1>11, <2>1 DEF Apply
  <2>2. CASE ~OverBudget(rows, o) /\ Len(o.targets) = 1
    <3> DEFINE r == [rows[t] EXCEPT !.status = "active", !.node = o.targets[1].node,
                                    !.from = rows[t].node, !.via = o.targets[1].via,
                                    !.data = o.data]
    <3>1. o.targets[1] \in Target
      BY <1>2, <2>2, ElementOfSeq
    <3>2. r \in Row /\ r.status # "running"
      BY <1>1, <1>2, <1>3, <3>1 DEF Row, TokenStatus, Target
    <3>3. Apply(rows, t, o) = [rows EXCEPT ![t] = r]
      BY <1>1, <1>11, <2>2 DEF Apply, MoveOn
    <3> HIDE DEF r
    <3> QED
      BY <3>2, <3>3, ReplaceAdvances
  <2>3. CASE ~OverBudget(rows, o) /\ Len(o.targets) # 1
    <3> DEFINE r == [rows[t] EXCEPT !.status = "completed", !.data = o.data]
               mid == [rows EXCEPT ![t] = r]
               fresh == NewRows(rows[t].node, o.targets)
    <3>1. r \in Row /\ r.status # "running"
      BY <1>1, <1>2 DEF Row, TokenStatus
    <3>2. Apply(rows, t, o) = mid \o fresh
      BY <1>1, <1>11, <2>3 DEF Apply, MoveOn
    <3> HIDE DEF r
    <3>3. Advances(rows, t, mid)
      BY <3>1, ReplaceAdvances
    <3> HIDE DEF mid, fresh
    <3> QED
      BY <1>5, <3>2, <3>3, AppendAdvances DEF fresh
  <2> QED
    BY <2>1, <2>2, <2>3
<1>12. CASE o.kind = "emit"
  <2> DEFINE mid == Absorb(rows, o.absorbed)
             fresh == NewRows(rows[t].node, o.targets)
  <2>1. \A i \in DOMAIN rows :
          /\ rows[i] \in Row
          /\ [rows[i] EXCEPT !.status = "dead", !.wait = "join"] \in Row
          /\ [rows[i] EXCEPT !.status = "dead", !.wait = "join"].status # "running"
    BY <1>1 DEF Row, TokenStatus, WaitKind
  <2>2. /\ mid \in [DOMAIN rows -> Row]
        /\ \A i \in DOMAIN rows : mid[i].status = "running" => i # t /\ rows[i].status = "running"
    BY <1>12, <2>1 DEF Absorb
  <2> HIDE DEF mid, fresh
  <2>3. Advances(rows, t, mid)
    BY <2>2, MapAdvances
  <2>4. Advances(rows, t, mid \o fresh)
    BY <1>5, <2>3, AppendAdvances DEF fresh
  <2> QED
    BY <1>12, <2>3, <2>4 DEF Apply, mid, fresh
<1> QED
  BY <1>2, <1>6, <1>7, <1>8, <1>9, <1>10, <1>11, <1>12

----------------------------------------------------------------------------
(***************************************************************************)
(* One advance inside a transaction.                                       *)
(***************************************************************************)

\* The status _advance_one leaves the run with is a run status.
LEMMA StatusAfterType ==
  ASSUME NEW rows, NEW t, NEW o, NEW seen \in RunStatus
  PROVE  StatusAfter(rows, t, o, seen) \in RunStatus \ {"none"}
<1>1. \A r, st : st \in RunStatus => Settle(r, st) \in RunStatus \ {"none"}
  BY DEF Settle, RunStatus, TerminalRun
<1> QED
  BY <1>1 DEF StatusAfter, RunStatus

\* What one advance of token t does to every variable.
LEMMA AdvanceOneType ==
  ASSUME TypeOK, NEW rows \in Seq(Row), DOMAIN rows = DOMAIN tok, NEW t \in DOMAIN rows,
         NEW seen \in RunStatus, AdvanceOne(rows, t, seen)
  PROVE  /\ Advances(rows, t, tok')
         /\ run' \in RunRow /\ (run'.status = "none" => run.status = "none")
         /\ exec' \in [Nodes -> Nat]
         /\ tx' \in Tx
         /\ tx'.mode = tx.mode
         /\ tx'.queue = tx.queue \ {t}
         /\ tx'.queue \cup tx'.held \cup tx'.staleActive \cup tx'.staleWaiting \subseteq DOMAIN tok'
<1> DEFINE status(o) == StatusAfter(rows, t, o, seen)
           held == tx.held \ {t}
           killed(o) == o.kind = "terminate" /\ tx.mode = "drive"
           active(o) == IF killed(o) THEN {i \in held : ListStatus(rows, i) = "active"}
                        ELSE tx.staleActive \ {t}
           waiting(o) == IF killed(o) THEN {i \in held : ListStatus(rows, i) = "waiting"}
                         ELSE tx.staleWaiting \ {t}
<1>1. PICK o \in Dispatch(rows, t) :
        /\ tok' = Apply(rows, t, o)
        /\ run' = [run EXCEPT !.status = WriteStatus(status(o), seen), !.steps = @ + o.steps,
                              !.dead_letter = @ \/ o.dead_letter]
        /\ exec' = IF o.call THEN [exec EXCEPT ![rows[t].node] = @ + 1] ELSE exec
        /\ tx' = [tx EXCEPT !.queue = @ \ {t}, !.seen = status(o),
                            !.staleActive = active(o), !.staleWaiting = waiting(o)]
  BY Zenon DEF AdvanceOne
<1>2. o \in Outcome /\ (o.kind = "emit" => t \in o.absorbed)
  BY DispatchType
<1>3. Advances(rows, t, tok')
  BY <1>1, <1>2, ApplyAdvances
<1>4. status(o) \in RunStatus \ {"none"}
  BY StatusAfterType
<1>5. run' \in RunRow /\ (run'.status = "none" => run.status = "none")
  <2>1. /\ WriteStatus(status(o), seen) \in RunStatus
        /\ WriteStatus(status(o), seen) = "none" => run.status = "none"
    BY <1>4 DEF WriteStatus, TypeOK, RunRow
  <2>2. run.steps + o.steps \in Nat
    BY <1>2 DEF TypeOK, RunRow, Outcome
  <2>3. (run.dead_letter \/ o.dead_letter) \in BOOLEAN
    BY Zenon
  <2> DEFINE st == WriteStatus(status(o), seen)
             n == run.steps + o.steps
             b == run.dead_letter \/ o.dead_letter
  <2>4. run' = [run EXCEPT !.status = st, !.steps = n, !.dead_letter = b]
    BY <1>1 DEF TypeOK, RunRow
  <2> HIDE DEF st, n, b
  <2>5. /\ st \in RunStatus /\ n \in Nat /\ b \in BOOLEAN
        /\ st = "none" => run.status = "none"
    BY <2>1, <2>2, <2>3 DEF st, n, b
  <2> QED
    BY <2>4, <2>5 DEF TypeOK, RunRow
<1>6. exec' \in [Nodes -> Nat]
  <2>1. rows[t] \in Row
    BY LenProperties
  <2>2. rows[t].node \in Nodes
    BY <2>1 DEF Row
  <2> QED
    BY <1>1, <2>2 DEF TypeOK
<1>7. tx \in Tx /\ tx.queue \cup tx.held \cup tx.staleActive \cup tx.staleWaiting \subseteq DOMAIN tok
  BY DEF TypeOK
<1>8. active(o) \in SUBSET Nat /\ waiting(o) \in SUBSET Nat /\ tx.queue \ {t} \in SUBSET Nat
  BY <1>7 DEF Tx
<1>9. active(o) \subseteq DOMAIN tok /\ waiting(o) \subseteq DOMAIN tok
  BY <1>7
<1> HIDE DEF status, active, waiting
<1>10. /\ tx' \in Tx /\ tx'.mode = tx.mode /\ tx'.queue = tx.queue \ {t} /\ tx'.held = tx.held
       /\ tx'.staleActive = active(o) /\ tx'.staleWaiting = waiting(o)
  BY <1>1, <1>4, <1>7, <1>8 DEF Tx
<1>11. DOMAIN tok \subseteq DOMAIN tok'
  BY <1>3 DEF Advances
<1> QED
  BY <1>3, <1>5, <1>6, <1>7, <1>9, <1>10, <1>11

----------------------------------------------------------------------------
(***************************************************************************)
(* Type correctness.                                                       *)
(***************************************************************************)

\* Opening a transaction: its row sets are empty or the claimed rows, and what
\* a rollback would restore is the state it started from.
LEMMA BeginType ==
  ASSUME TypeOK, NEW mode \in {"sweep", "drive"}, NEW queue \in SUBSET DOMAIN tok,
         NEW seen \in RunStatus, Begin(mode, queue, seen, Committed)
  PROVE  /\ tx' \in Tx /\ tx'.mode = mode /\ tx'.queue = queue
         /\ tx'.held = {} /\ tx'.staleActive = {} /\ tx'.staleWaiting = {}
         /\ saved' = [tok |-> tok, run |-> run]
         /\ saved' \in [tok : Seq(Row), run : RunRow]
<1>1. queue \in SUBSET Nat
  BY LenProperties DEF TypeOK
<1>2. NoTx \in Tx
  BY DEF NoTx, Tx, RunStatus
<1>3. tx' = [NoTx EXCEPT !.mode = mode, !.queue = queue, !.seen = seen]
  BY DEF Begin
<1>4. /\ tx' \in Tx /\ tx'.mode = mode /\ tx'.queue = queue
      /\ tx'.held = NoTx.held /\ tx'.staleActive = NoTx.staleActive
      /\ tx'.staleWaiting = NoTx.staleWaiting
  BY <1>1, <1>2, <1>3 DEF Tx
<1>5. saved' = [tok |-> tok, run |-> run]
  BY DEF Begin, Committed
<1> QED
  BY <1>4, <1>5 DEF NoTx, TypeOK

\* A row whose status column is rewritten is still a row.
LEMMA RowStatus ==
  ASSUME NEW r \in Row, NEW st \in TokenStatus
  PROVE  [r EXCEPT !.status = st] \in Row /\ [r EXCEPT !.status = st].status = st
BY DEF Row

\* Rewriting rows in place keeps the sequence and its length.
LEMMA RewriteRows ==
  ASSUME NEW rows \in Seq(Row), NEW new \in [DOMAIN rows -> Row]
  PROVE  new \in Seq(Row) /\ DOMAIN new = DOMAIN rows
BY FunctionIsSeq, LenProperties

(***************************************************************************)
(* The inductive invariant.  A request has read a token only of a run that *)
(* was started, in the open transaction and before it; and a row is        *)
(* "running" only inside a sweep that still has it in its queue.           *)
(***************************************************************************)
Reading == \E r \in Requests : req[r].state = "read"

ReadsStarted ==
  Reading => run.status # "none" /\ (tx.mode # "none" => saved.run.status # "none")

Unclaimed(rows) == \A i \in DOMAIN rows : rows[i].status # "running"

ClaimsQueued ==
  /\ tx.mode # "sweep" => Unclaimed(tok)
  /\ tx.mode # "none" => Unclaimed(saved.tok)
  /\ tx.mode = "sweep" => \A i \in DOMAIN tok : tok[i].status = "running" => i \in tx.queue

IInv == TypeOK /\ ReadsStarted /\ ClaimsQueued

\* The invariant holds before the run is created.
LEMMA InitIInv == Init => IInv
<1> SUFFICES ASSUME Init PROVE IInv
  OBVIOUS
<1>1. <<>> \in Seq(Row) /\ DOMAIN <<>> = {}
  OBVIOUS
<1>2. NoRun \in RunRow /\ NoTx \in Tx
  BY DEF NoRun, RunRow, RunStatus, NoTx, Tx
<1>3. NoData \in Data
  BY DEF NoData, Data
<1>4. NoRequest \in Request /\ NoRequest.state = "idle"
  BY <1>3 DEF NoRequest, Request, RunStatus
<1>5. tx.queue \cup tx.held \cup tx.staleActive \cup tx.staleWaiting = {} /\ tx.mode = "none"
  BY DEF Init, NoTx
<1>6. TypeOK
  BY <1>1, <1>2, <1>4, <1>5 DEF Init, TypeOK, NothingSaved
<1>7. ~Reading
  BY <1>4 DEF Init, Reading
<1> QED
  BY <1>1, <1>5, <1>6, <1>7 DEF IInv, ReadsStarted, ClaimsQueued, Unclaimed, Init

\* A step of an open transaction, or of the reaper: no row disappears and no
\* request moves.
LEMMA InnerStep ==
  ASSUME IInv, tok' \in Seq(Row), DOMAIN tok \subseteq DOMAIN tok',
         run' \in RunRow, run'.status = "none" => run.status = "none",
         exec' \in [Nodes -> Nat], faults' \in Nat, UNCHANGED <<saved, req>>,
         tx' \in Tx, tx'.mode = tx.mode,
         tx'.queue \cup tx'.held \cup tx'.staleActive \cup tx'.staleWaiting \subseteq DOMAIN tok'
  PROVE  TypeOK' /\ ReadsStarted'
BY DEF IInv, TypeOK, ReadsStarted, Reading

\* A step that opens a transaction, and may finish a request.
LEMMA OpenStep ==
  ASSUME IInv, tx.mode = "none", tok' \in Seq(Row), DOMAIN tok \subseteq DOMAIN tok',
         run' \in RunRow, Reading' => run.status # "none" /\ run'.status # "none",
         NEW mode \in {"sweep", "drive"}, NEW queue \in SUBSET DOMAIN tok,
         NEW seen \in RunStatus, Begin(mode, queue, seen, Committed),
         UNCHANGED <<exec, faults>>, req' \in [Requests -> Request],
         \A r \in Requests : req'[r].state = "read" => req'[r].token \in DOMAIN tok
  PROVE  TypeOK' /\ ReadsStarted' /\ tx'.mode = mode /\ tx'.queue = queue /\ saved'.tok = tok
<1>1. /\ tx' \in Tx /\ tx'.mode = mode /\ tx'.queue = queue
      /\ tx'.held = {} /\ tx'.staleActive = {} /\ tx'.staleWaiting = {}
      /\ saved' = [tok |-> tok, run |-> run]
      /\ saved' \in [tok : Seq(Row), run : RunRow]
  BY BeginType DEF IInv
<1>2. saved'.tok = tok /\ saved'.run = run
  BY <1>1
<1>3. TypeOK'
  BY <1>1, <1>2 DEF IInv, TypeOK
<1>4. ReadsStarted'
  BY <1>2 DEF ReadsStarted, Reading
<1> QED
  BY <1>1, <1>2, <1>3, <1>4

\* A step that closes the transaction, by a commit or a rollback.
LEMMA CloseStep ==
  ASSUME IInv, tx.mode # "none", tx' = NoTx, saved' = NothingSaved, UNCHANGED <<req, exec>>,
         faults' \in Nat,
         \/ UNCHANGED <<tok, run>>
         \/ tok' = saved.tok /\ run' = saved.run
  PROVE  TypeOK' /\ ReadsStarted' /\ tx'.mode = "none"
<1>1. /\ NoTx \in Tx /\ NoTx.mode = "none"
      /\ NoTx.queue \cup NoTx.held \cup NoTx.staleActive \cup NoTx.staleWaiting = {}
  BY DEF NoTx, Tx, RunStatus
<1>2. NothingSaved \in [tok : Seq(Row), run : RunRow]
  BY DEF NothingSaved, NoRun, RunRow, RunStatus
<1>3. /\ tok' \in Seq(Row) /\ run' \in RunRow
      /\ \A r \in Requests : req[r].state = "read" => req[r].token \in DOMAIN tok'
  BY DEF IInv, TypeOK
<1>4. TypeOK'
  BY <1>1, <1>2, <1>3 DEF IInv, TypeOK
<1>5. ReadsStarted'
  BY <1>1 DEF IInv, ReadsStarted, Reading
<1> QED
  BY <1>1, <1>4, <1>5

----------------------------------------------------------------------------
(***************************************************************************)
(* The invariant is preserved, action by action.                           *)
(***************************************************************************)

\* start_run places one active token on every trigger.
LEMMA StartRunStep ==
  ASSUME IInv, StartRun
  PROVE  IInv'
<1>1. tx.mode = "none" /\ tx = NoTx /\ run.status = "none"
  BY DEF StartRun, NoTx
<1>2. ~Reading /\ ~Reading'
  BY <1>1 DEF IInv, ReadsStarted, Reading, StartRun
<1>3. Len(Triggers) \in Nat /\ \A i \in 1..Len(Triggers) : Triggers[i] \in Nodes
  BY GraphAssumption, LenProperties
<1>4. \A n \in Nodes : NewRow(n, NoNode, "default") \in Row
                       /\ NewRow(n, NoNode, "default").status = "active"
  BY GraphAssumption DEF NewRow, Row, NoData, Data, WaitKind, Handles, TokenStatus
<1>5. tok' \in [1..Len(Triggers) -> Row] /\ \A i \in 1..Len(Triggers) : tok'[i].status = "active"
  BY <1>3, <1>4 DEF StartRun
<1>6. tok' \in Seq(Row) /\ DOMAIN tok' = 1..Len(Triggers)
  BY <1>3, <1>5, FunctionIsSeq
<1>7. run' \in RunRow /\ run'.status \in RunStatus
  BY DEF StartRun, IInv, TypeOK, RunRow, RunStatus
<1>8. /\ tx' \in Tx /\ tx'.mode = "drive" /\ tx'.queue = {}
      /\ tx'.held = {} /\ tx'.staleActive = {} /\ tx'.staleWaiting = {}
      /\ saved' = [tok |-> tok, run |-> run]
      /\ saved' \in [tok : Seq(Row), run : RunRow]
  BY <1>7, BeginType DEF IInv, StartRun
<1>9. TypeOK'
  <2>1. UNCHANGED <<req, exec, faults>>
    BY DEF StartRun
  <2> QED
    BY <1>2, <1>6, <1>7, <1>8, <2>1 DEF IInv, TypeOK, Reading
<1>10. ReadsStarted'
  BY <1>2 DEF ReadsStarted
<1>11. ClaimsQueued'
  <2>1. Unclaimed(tok')
    BY <1>5, <1>6 DEF Unclaimed
  <2>2. Unclaimed(saved'.tok)
    BY <1>1, <1>8 DEF IInv, ClaimsQueued
  <2> QED
    BY <1>8, <2>1, <2>2 DEF ClaimsQueued
<1> QED
  BY <1>9, <1>10, <1>11 DEF IInv

\* A pass of drive_run lists active tokens and writes nothing.
LEMMA DrivePassStep ==
  ASSUME IInv, DrivePass
  PROVE  IInv'
<1>1. ListActive \in SUBSET DOMAIN tok /\ ListActive \in SUBSET Nat
  BY LenProperties DEF ListActive, IInv, TypeOK
<1>2. tx' = [tx EXCEPT !.queue = ListActive, !.held = ListActive, !.staleWaiting = {},
                       !.passes = @ + 1]
      /\ tx.mode = "drive" /\ UNCHANGED <<tok, run, saved, req, exec, faults>>
  BY DEF DrivePass
<1>3. /\ tx' \in Tx /\ tx'.mode = tx.mode
      /\ tx'.queue \cup tx'.held \cup tx'.staleActive \cup tx'.staleWaiting \subseteq DOMAIN tok
  <2> DEFINE n == tx.passes + 1
             active == ListActive
  <2>1. tx \in Tx /\ n \in Nat /\ tx.staleActive \subseteq DOMAIN tok
    BY DEF IInv, TypeOK, Tx
  <2>2. tx' = [tx EXCEPT !.queue = active, !.held = active, !.staleWaiting = {}, !.passes = n]
    BY <1>2
  <2>3. active \in SUBSET DOMAIN tok /\ active \in SUBSET Nat
    BY <1>1
  <2> HIDE DEF n, active
  <2>4. /\ tx' \in Tx /\ tx'.mode = tx.mode /\ tx'.queue = active /\ tx'.held = active
        /\ tx'.staleActive = tx.staleActive /\ tx'.staleWaiting = {}
    BY <2>1, <2>2, <2>3 DEF Tx
  <2> QED
    BY <2>1, <2>3, <2>4
<1>4. TypeOK' /\ ReadsStarted'
  BY <1>2, <1>3, InnerStep DEF IInv, TypeOK
<1>5. ClaimsQueued'
  BY <1>2, <1>3 DEF IInv, ClaimsQueued, Unclaimed
<1> QED
  BY <1>4, <1>5 DEF IInv

\* A step of drive_run settles the token it takes before the next step.
LEMMA DriveStepStep ==
  ASSUME IInv, DriveStep
  PROVE  IInv'
<1>1. PICK t \in tx.queue : AdvanceOne([tok EXCEPT ![t].status = "running"], t, tx.seen)
  BY DEF DriveStep
<1>2. tx.mode = "drive" /\ UNCHANGED <<saved, req, faults>>
  BY DEF DriveStep
<1>3. t \in DOMAIN tok /\ tok \in Seq(Row) /\ tok[t] \in Row /\ tx.seen \in RunStatus
  <2>1. t \in DOMAIN tok /\ tok \in Seq(Row) /\ tx.seen \in RunStatus
    BY DEF IInv, TypeOK, Tx
  <2> QED
    BY <2>1, LenProperties
<1> DEFINE r == [tok[t] EXCEPT !.status = "running"]
           rows == [tok EXCEPT ![t] = r]
<1>4. r \in Row
  BY <1>3, RowStatus DEF TokenStatus
<1> HIDE DEF r
<1>5. /\ rows \in Seq(Row) /\ DOMAIN rows = DOMAIN tok
      /\ \A i \in DOMAIN rows : i # t => rows[i] = tok[i]
  <2>1. rows \in [DOMAIN tok -> Row] /\ \A i \in DOMAIN tok : i # t => rows[i] = tok[i]
    BY <1>3, <1>4, LenProperties
  <2> HIDE DEF rows
  <2> QED
    BY <1>3, <2>1, RewriteRows
<1>6. AdvanceOne(rows, t, tx.seen)
  BY <1>1, <1>3 DEF r
<1> HIDE DEF rows
<1>7. /\ Advances(rows, t, tok')
      /\ run' \in RunRow /\ (run'.status = "none" => run.status = "none")
      /\ exec' \in [Nodes -> Nat]
      /\ tx' \in Tx /\ tx'.mode = tx.mode
      /\ tx'.queue \cup tx'.held \cup tx'.staleActive \cup tx'.staleWaiting \subseteq DOMAIN tok'
  BY <1>3, <1>5, <1>6, AdvanceOneType DEF IInv
<1>8. /\ tok' \in Seq(Row) /\ DOMAIN tok \subseteq DOMAIN tok'
      /\ \A i \in DOMAIN tok' : tok'[i].status = "running" =>
           i \in DOMAIN tok /\ tok[i].status = "running"
  BY <1>5, <1>7 DEF Advances
<1>9. TypeOK' /\ ReadsStarted'
  BY <1>2, <1>7, <1>8, InnerStep DEF IInv, TypeOK
<1>10. ClaimsQueued'
  BY <1>2, <1>7, <1>8 DEF IInv, ClaimsQueued, Unclaimed
<1> QED
  BY <1>9, <1>10 DEF IInv

\* A sweep marks the rows it claims and queues exactly those.
LEMMA SweepClaimStep ==
  ASSUME IInv, NEW S \in SUBSET DOMAIN tok, SweepClaim(S)
  PROVE  IInv'
<1>1. tx.mode = "none" /\ tok \in Seq(Row) /\ run \in RunRow /\ run.status \in RunStatus
  BY DEF SweepClaim, NoTx, IInv, TypeOK, RunRow
<1>2. /\ tok' = [i \in DOMAIN tok |-> IF i \in S THEN [tok[i] EXCEPT !.status = "running"]
                                      ELSE tok[i]]
      /\ Begin("sweep", S, run.status, Committed)
      /\ UNCHANGED <<run, req, exec, faults>>
  BY DEF SweepClaim
<1>3. \A i \in DOMAIN tok : tok[i] \in Row /\ [tok[i] EXCEPT !.status = "running"] \in Row
  <2>1. \A i \in DOMAIN tok : tok[i] \in Row
    BY <1>1, LenProperties
  <2> QED
    BY <2>1, RowStatus DEF TokenStatus
<1>4. tok' \in [DOMAIN tok -> Row] /\ \A i \in DOMAIN tok : i \notin S => tok'[i] = tok[i]
  BY <1>2, <1>3
<1>5. tok' \in Seq(Row) /\ DOMAIN tok' = DOMAIN tok
  BY <1>1, <1>4, RewriteRows
<1>6. Reading' => run.status # "none" /\ run'.status # "none"
  BY <1>2 DEF IInv, ReadsStarted, Reading
<1>7. /\ req' \in [Requests -> Request]
      /\ \A r \in Requests : req'[r].state = "read" => req'[r].token \in DOMAIN tok
  BY <1>2 DEF IInv, TypeOK
<1>8. TypeOK' /\ ReadsStarted' /\ tx'.mode = "sweep" /\ tx'.queue = S /\ saved'.tok = tok
  BY <1>1, <1>2, <1>5, <1>6, <1>7, OpenStep
<1>9. Unclaimed(tok)
  BY <1>1 DEF IInv, ClaimsQueued
<1>10. ClaimsQueued'
  BY <1>4, <1>5, <1>8, <1>9 DEF ClaimsQueued, Unclaimed
<1> QED
  BY <1>8, <1>10 DEF IInv

\* A sweep settles each token it advances, or skips one that a sibling killed.
LEMMA SweepAdvanceStep ==
  ASSUME IInv, NEW t \in DOMAIN tok, SweepAdvance(t)
  PROVE  IInv'
<1>1. /\ tx.mode = "sweep" /\ t \in tx.queue /\ UNCHANGED <<saved, req, faults>>
      /\ tok \in Seq(Row) /\ run.status \in RunStatus /\ tx \in Tx
  BY DEF SweepAdvance, IInv, TypeOK, RunRow
<1>2. CASE tok[t].status = "running"
  <2>1. AdvanceOne(tok, t, run.status)
    BY <1>2 DEF SweepAdvance
  <2>2. /\ Advances(tok, t, tok')
        /\ run' \in RunRow /\ (run'.status = "none" => run.status = "none")
        /\ exec' \in [Nodes -> Nat]
        /\ tx' \in Tx /\ tx'.mode = tx.mode /\ tx'.queue = tx.queue \ {t}
        /\ tx'.queue \cup tx'.held \cup tx'.staleActive \cup tx'.staleWaiting \subseteq DOMAIN tok'
    BY <1>1, <2>1, AdvanceOneType DEF IInv
  <2>3. /\ tok' \in Seq(Row) /\ DOMAIN tok \subseteq DOMAIN tok'
        /\ \A i \in DOMAIN tok' : tok'[i].status = "running" =>
             i # t /\ i \in DOMAIN tok /\ tok[i].status = "running"
    BY <2>2 DEF Advances
  <2>4. TypeOK' /\ ReadsStarted'
    BY <1>1, <2>2, <2>3, InnerStep DEF IInv, TypeOK
  <2>5. ClaimsQueued'
    BY <1>1, <2>2, <2>3 DEF IInv, ClaimsQueued, Unclaimed
  <2> QED
    BY <2>4, <2>5 DEF IInv
<1>3. CASE tok[t].status # "running"
  <2>1. tx' = [tx EXCEPT !.queue = tx.queue \ {t}] /\ UNCHANGED <<tok, run, exec>>
    BY <1>3 DEF SweepAdvance
  <2>2. /\ tx' \in Tx /\ tx'.mode = tx.mode /\ tx'.queue = tx.queue \ {t}
        /\ tx'.held = tx.held /\ tx'.staleActive = tx.staleActive
        /\ tx'.staleWaiting = tx.staleWaiting
    BY <1>1, <2>1 DEF Tx
  <2>3. TypeOK' /\ ReadsStarted'
    BY <1>1, <2>1, <2>2, InnerStep DEF IInv, TypeOK
  <2>4. ClaimsQueued'
    BY <1>1, <1>3, <2>1, <2>2 DEF IInv, ClaimsQueued, Unclaimed
  <2> QED
    BY <2>3, <2>4 DEF IInv
<1> QED
  BY <1>2, <1>3

\* A token whose advance raised is dead, and its run failed.
LEMMA KillTokenStep ==
  ASSUME IInv, NEW t \in DOMAIN tok, KillToken(t)
  PROVE  IInv'
<1>1. /\ tx.mode = "sweep" /\ t \in tx.queue /\ UNCHANGED <<saved, req>>
      /\ tok \in Seq(Row) /\ run \in RunRow /\ tx \in Tx /\ exec \in [Nodes -> Nat]
      /\ faults' \in Nat /\ tx' = [tx EXCEPT !.queue = tx.queue \ {t}]
  BY DEF KillToken, IInv, TypeOK
<1>2. tok[t] \in Row /\ tok[t].node \in Nodes
  <2>1. tok[t] \in Row
    BY <1>1, LenProperties
  <2> QED
    BY <2>1 DEF Row
<1> DEFINE r == [tok[t] EXCEPT !.status = "dead"]
<1>3. r \in Row /\ r.status = "dead"
  BY <1>2, RowStatus DEF TokenStatus
<1>4. tok' = [tok EXCEPT ![t] = r]
  BY DEF KillToken
<1> HIDE DEF r
<1>5. /\ tok' \in [DOMAIN tok -> Row] /\ tok'[t] = r
      /\ \A i \in DOMAIN tok : i # t => tok'[i] = tok[i]
  BY <1>1, <1>3, <1>4, LenProperties
<1>6. tok' \in Seq(Row) /\ DOMAIN tok' = DOMAIN tok
  BY <1>1, <1>5, RewriteRows
<1>7. run' \in RunRow /\ run'.status # "none"
  <2> DEFINE st == IF run.status = "succeeded" THEN run.status ELSE "failed"
  <2>1. run' = [run EXCEPT !.status = st]
    BY DEF KillToken
  <2>2. st \in RunStatus /\ st # "none"
    BY <1>1 DEF RunRow, RunStatus
  <2> HIDE DEF st
  <2> QED
    BY <1>1, <2>1, <2>2 DEF RunRow
<1>8. exec' \in [Nodes -> Nat]
  <2> DEFINE k == IF Kind[tok[t].node] = "service" THEN 1 ELSE 0
  <2>1. exec' = exec \/ exec' = [exec EXCEPT ![tok[t].node] = exec[tok[t].node] + k]
    BY DEF KillToken
  <2>2. k \in Nat
    OBVIOUS
  <2> HIDE DEF k
  <2> QED
    BY <1>1, <1>2, <2>1, <2>2
<1>9. /\ tx' \in Tx /\ tx'.mode = tx.mode /\ tx'.queue = tx.queue \ {t}
      /\ tx'.held = tx.held /\ tx'.staleActive = tx.staleActive
      /\ tx'.staleWaiting = tx.staleWaiting
  BY <1>1 DEF Tx
<1>10. tx'.queue \cup tx'.held \cup tx'.staleActive \cup tx'.staleWaiting \subseteq DOMAIN tok'
  BY <1>6, <1>9 DEF IInv, TypeOK
<1>11. TypeOK' /\ ReadsStarted'
  BY <1>1, <1>6, <1>7, <1>8, <1>9, <1>10, InnerStep
<1>12. ClaimsQueued'
  BY <1>1, <1>3, <1>5, <1>6, <1>9 DEF IInv, ClaimsQueued, Unclaimed
<1> QED
  BY <1>11, <1>12 DEF IInv

\* A commit finds no claim left, and a rollback restores rows without claims.
LEMMA CloseSteps ==
  ASSUME IInv, DriveCommit \/ SweepCommit \/ Rollback
  PROVE  IInv'
<1>1. /\ tx.mode # "none" /\ tx' = NoTx /\ saved' = NothingSaved /\ UNCHANGED <<req, exec>>
      /\ faults' \in Nat
  BY DEF DriveCommit, SweepCommit, Rollback, IInv, TypeOK
<1>2. \/ UNCHANGED <<tok, run>> /\ (tx.mode = "sweep" => tx.queue = {})
      \/ tok' = saved.tok /\ run' = saved.run
  BY DEF DriveCommit, SweepCommit, Rollback
<1>3. TypeOK' /\ ReadsStarted' /\ tx'.mode = "none"
  BY <1>1, <1>2, CloseStep
<1>4. Unclaimed(tok')
  BY <1>1, <1>2 DEF IInv, ClaimsQueued, Unclaimed
<1> QED
  BY <1>3, <1>4 DEF IInv, ClaimsQueued

\* The reaper only makes rows active.
LEMMA ResumeDueStep ==
  ASSUME IInv, NEW t \in DOMAIN tok, ResumeDue(t)
  PROVE  IInv'
<1>1. /\ tx.mode = "none" /\ UNCHANGED <<run, tx, saved, req, exec, faults>>
      /\ tok \in Seq(Row)
  BY DEF ResumeDue, NoTx, IInv, TypeOK
<1>2. tok[t] \in Row
  BY <1>1, LenProperties
<1> DEFINE r == [tok[t] EXCEPT !.status = "active"]
<1>3. r \in Row /\ r.status = "active"
  BY <1>2, RowStatus DEF TokenStatus
<1>4. tok' = [tok EXCEPT ![t] = r]
  BY DEF ResumeDue
<1> HIDE DEF r
<1>5. /\ tok' \in [DOMAIN tok -> Row] /\ tok'[t] = r
      /\ \A i \in DOMAIN tok : i # t => tok'[i] = tok[i]
  BY <1>1, <1>3, <1>4, LenProperties
<1>6. tok' \in Seq(Row) /\ DOMAIN tok' = DOMAIN tok
  BY <1>1, <1>5, RewriteRows
<1>7. TypeOK' /\ ReadsStarted'
  BY <1>1, <1>6, InnerStep DEF IInv, TypeOK
<1>8. ClaimsQueued'
  BY <1>1, <1>3, <1>5, <1>6 DEF IInv, ClaimsQueued, Unclaimed
<1> QED
  BY <1>7, <1>8 DEF IInv

\* Reading the parked token changes no row.
LEMMA SignalReadStep ==
  ASSUME IInv, NEW q \in Requests, NEW t \in DOMAIN tok, SignalRead(q, t)
  PROVE  IInv'
<1>1. /\ tx.mode = "none" /\ UNCHANGED <<tok, run, tx, saved, exec, faults>>
      /\ tok \in Seq(Row) /\ run.status \in {"waiting", "running"}
  BY DEF SignalRead, NoTx, IInv, TypeOK
<1>2. tok[t] \in Row /\ t \in Nat
  BY <1>1, LenProperties
<1>3. tok[t].node \in Nodes /\ tok[t].data \in Data
  BY <1>2 DEF Row
<1> DEFINE d == [tok[t].data EXCEPT !.completed = tok[t].node]
           p == [state |-> "read", token |-> t, seen |-> run.status, data |-> d]
<1>4. d \in Data
  BY <1>3 DEF Data
<1> HIDE DEF d
<1>5. p \in Request /\ p.token = t
  BY <1>1, <1>2, <1>4 DEF Request, RunStatus
<1>6. req' = [req EXCEPT ![q] = p]
  BY DEF SignalRead, d
<1> HIDE DEF p
<1>7. /\ req' \in [Requests -> Request]
      /\ \A r \in Requests : req'[r].state = "read" => req'[r].token \in DOMAIN tok
  BY <1>5, <1>6 DEF IInv, TypeOK
<1>8. TypeOK'
  BY <1>1, <1>7 DEF IInv, TypeOK
<1>9. ReadsStarted' /\ ClaimsQueued'
  BY <1>1 DEF IInv, ReadsStarted, ClaimsQueued, Unclaimed
<1> QED
  BY <1>8, <1>9 DEF IInv

\* The late write of a completion makes its row active.
LEMMA SignalWriteStep ==
  ASSUME IInv, NEW q \in Requests, SignalWrite(q)
  PROVE  IInv'
<1>1. /\ tx.mode = "none" /\ UNCHANGED <<run, exec, faults>> /\ req[q].state = "read"
      /\ tok \in Seq(Row) /\ req[q] \in Request /\ req[q].token \in DOMAIN tok
      /\ run \in RunRow /\ req \in [Requests -> Request]
  BY DEF SignalWrite, NoTx, IInv, TypeOK
<1> DEFINE t == req[q].token
           d == req[q].data
           r == [tok[t] EXCEPT !.status = "active", !.wait = "none", !.data = d]
           p == [NoRequest EXCEPT !.state = "done"]
<1>2. tok[t] \in Row /\ d \in Data /\ req[q].seen \in RunStatus
  BY <1>1, LenProperties DEF Request
<1>3. r \in Row /\ r.status = "active"
  BY <1>2 DEF Row, TokenStatus, WaitKind
<1>4. p \in Request /\ p.state = "done"
  <2>1. NoData \in Data
    BY DEF NoData, Data
  <2> QED
    BY <2>1 DEF NoRequest, Request, RunStatus
<1>5. tok' = [tok EXCEPT ![t] = r] /\ req' = [req EXCEPT ![q] = p]
  BY DEF SignalWrite
<1>6. Begin("drive", {}, req[q].seen, Committed) \/ UNCHANGED <<tx, saved>>
  BY DEF SignalWrite
<1> HIDE DEF r, p, d
<1>7. /\ tok' \in [DOMAIN tok -> Row] /\ tok'[t] = r
      /\ \A i \in DOMAIN tok : i # t => tok'[i] = tok[i]
  BY <1>1, <1>3, <1>5, LenProperties
<1>8. tok' \in Seq(Row) /\ DOMAIN tok' = DOMAIN tok
  BY <1>1, <1>7, RewriteRows
<1>9. /\ req' \in [Requests -> Request]
      /\ \A s \in Requests : req'[s].state = "read" => req'[s].token \in DOMAIN tok
  BY <1>1, <1>4, <1>5 DEF IInv, TypeOK
<1>10. run.status # "none"
  BY <1>1 DEF IInv, ReadsStarted, Reading
<1>11. Unclaimed(tok) /\ Unclaimed(tok')
  BY <1>1, <1>3, <1>7, <1>8 DEF IInv, ClaimsQueued, Unclaimed
<1>12. CASE Begin("drive", {}, req[q].seen, Committed)
  <2>1. TypeOK' /\ ReadsStarted' /\ tx'.mode = "drive" /\ saved'.tok = tok
    BY <1>1, <1>2, <1>8, <1>9, <1>10, <1>12, OpenStep
  <2> QED
    BY <1>11, <2>1 DEF IInv, ClaimsQueued
<1>13. CASE UNCHANGED <<tx, saved>>
  <2>1. TypeOK'
    BY <1>1, <1>8, <1>9, <1>13 DEF IInv, TypeOK
  <2>2. ReadsStarted'
    BY <1>1, <1>10, <1>13 DEF ReadsStarted
  <2>3. ClaimsQueued'
    BY <1>1, <1>11, <1>13 DEF ClaimsQueued
  <2> QED
    BY <2>1, <2>2, <2>3 DEF IInv
<1> QED
  BY <1>6, <1>12, <1>13

\* retry_run makes dead rows active.
LEMMA RetryRunStep ==
  ASSUME IInv, RetryRun
  PROVE  IInv'
<1>1. /\ tx.mode = "none" /\ UNCHANGED <<req, exec, faults>> /\ run.status = "failed"
      /\ tok \in Seq(Row) /\ run \in RunRow
  BY DEF RetryRun, NoTx, IInv, TypeOK
<1>2. \A i \in DOMAIN tok :
        /\ tok[i] \in Row
        /\ [tok[i] EXCEPT !.status = "active", !.due = FALSE] \in Row
        /\ [tok[i] EXCEPT !.status = "active", !.due = FALSE].status = "active"
  <2>1. \A i \in DOMAIN tok : tok[i] \in Row
    BY <1>1, LenProperties
  <2> QED
    BY <2>1 DEF Row, TokenStatus
<1>3. /\ tok' \in [DOMAIN tok -> Row]
      /\ \A i \in DOMAIN tok : tok'[i].status = "running" => tok[i].status = "running"
  BY <1>2 DEF RetryRun, ReactivateDead
<1>4. tok' \in Seq(Row) /\ DOMAIN tok' = DOMAIN tok
  BY <1>1, <1>3, RewriteRows
<1>5. run' \in RunRow /\ run'.status = "running"
  <2> DEFINE n == run.retries + 1
  <2>1. run' = [run EXCEPT !.status = "running", !.retries = n] /\ n \in Nat
    BY <1>1 DEF RetryRun, RunRow
  <2> HIDE DEF n
  <2> QED
    BY <1>1, <2>1 DEF RunRow, RunStatus
<1>6. Unclaimed(tok) /\ Unclaimed(tok')
  BY <1>1, <1>3, <1>4 DEF IInv, ClaimsQueued, Unclaimed
<1>7. Begin("drive", {}, "running", Committed) \/ UNCHANGED <<tx, saved>>
  BY DEF RetryRun
<1>8. /\ req' \in [Requests -> Request]
      /\ \A r \in Requests : req'[r].state = "read" => req'[r].token \in DOMAIN tok
  BY <1>1 DEF IInv, TypeOK
<1>9. CASE Begin("drive", {}, "running", Committed)
  <2>1. "running" \in RunStatus
    BY DEF RunStatus
  <2>2. TypeOK' /\ ReadsStarted' /\ tx'.mode = "drive" /\ saved'.tok = tok
    BY <1>1, <1>4, <1>5, <1>8, <1>9, <2>1, OpenStep
  <2> QED
    BY <1>6, <2>2 DEF IInv, ClaimsQueued
<1>10. CASE UNCHANGED <<tx, saved>>
  <2>1. TypeOK'
    BY <1>1, <1>4, <1>5, <1>8, <1>10 DEF IInv, TypeOK
  <2>2. ReadsStarted'
    BY <1>1, <1>5, <1>10 DEF ReadsStarted
  <2>3. ClaimsQueued'
    BY <1>1, <1>6, <1>10 DEF ClaimsQueued
  <2> QED
    BY <2>1, <2>2, <2>3 DEF IInv
<1> QED
  BY <1>7, <1>9, <1>10

\* Every step preserves the invariant.
LEMMA IInvStep ==
  ASSUME IInv, [Next]_vars
  PROVE  IInv'
<1>1. CASE UNCHANGED vars
  BY <1>1 DEF vars, IInv, TypeOK, ReadsStarted, Reading, ClaimsQueued, Unclaimed
<1>2. CASE Next
  BY <1>2, StartRunStep, DrivePassStep, DriveStepStep, CloseSteps, SweepClaimStep,
     SweepAdvanceStep, KillTokenStep, ResumeDueStep, SignalReadStep, SignalWriteStep,
     RetryRunStep DEF Next
<1> QED
  BY <1>1, <1>2

\* Type correctness of the engine: for every graph, every budget, every set of
\* requests and every number of faults, each column holds a value of its
\* vocabulary and no transaction or request keeps the id of a row that is gone.
THEOREM TypeCorrect == Spec => []TypeOK
<1>1. IInv => TypeOK
  BY DEF IInv
<1> QED
  BY <1>1, InitIInv, IInvStep, PTL DEF Spec

\* Every token a worker claims is settled before its transaction commits, and
\* a rollback gives every claim back: no committed row is ever "running".
THEOREM ClaimsSettle == Spec => []NoOrphanClaim
<1>1. IInv => NoOrphanClaim
  BY DEF IInv, ClaimsQueued, NoOrphanClaim, VisibleTok, Unclaimed
<1> QED
  BY <1>1, InitIInv, IInvStep, PTL DEF Spec

----------------------------------------------------------------------------
(***************************************************************************)
(* The rows _apply leaves, row by row.                                     *)
(***************************************************************************)

\* The dispatched token stays where it is with its data, parks with the data of
\* the outcome, or moves on with it.
TokenAfter(old, o, r) ==
  \/ r.node = old.node /\ r.data = old.data /\ (r.status = "waiting" => r.wait = "join")
  \/ o.kind = "park" /\ r.node = old.node /\ r.data = o.data /\ r.wait = o.wait
  \/ o.kind = "advance" /\ r.data = o.data /\ r.status # "waiting"

\* Every other token is left alone, killed by a terminate end event or consumed
\* by a join that fires.
OtherAfter(old, o, i, r) ==
  \/ r = old
  \/ /\ r.status = "dead" /\ r.node = old.node /\ r.data = old.data
     /\ o.kind = "terminate" \/ (o.kind = "emit" /\ i \in o.absorbed)

RowsAfter(rows, t, o, new) ==
  /\ \A i \in DOMAIN rows : i # t => OtherAfter(rows[i], o, i, new[i])
  /\ TokenAfter(rows[t], o, new[t])
  /\ \A i \in DOMAIN new \ DOMAIN rows : new[i].status = "active" /\ new[i].data = NoData

\* Rewriting rows in place keeps their number.
LEMMA RewriteLength ==
  ASSUME NEW rows \in Seq(Row), NEW new \in Seq(Row), DOMAIN new = DOMAIN rows
  PROVE  Len(new) = Len(rows)
<1>1. /\ DOMAIN rows = 1..Len(rows) /\ DOMAIN new = 1..Len(new)
      /\ Len(rows) \in Nat /\ Len(new) \in Nat
  BY LenProperties
<1> QED
  BY <1>1

\* Replacing the row of the dispatched token leaves the others alone.
LEMMA ReplaceAfter ==
  ASSUME NEW rows \in Seq(Row), NEW t \in DOMAIN rows, NEW o, NEW r \in Row,
         TokenAfter(rows[t], o, r)
  PROVE  /\ RowsAfter(rows, t, o, [rows EXCEPT ![t] = r])
         /\ Len([rows EXCEPT ![t] = r]) = Len(rows)
<1> DEFINE new == [rows EXCEPT ![t] = r]
<1>1. /\ new[t] = r /\ DOMAIN new = DOMAIN rows /\ Len(new) = Len(rows)
      /\ \A i \in DOMAIN rows : i # t => new[i] = rows[i]
  BY ExceptSeq, LenProperties
<1> HIDE DEF new
<1>2. RowsAfter(rows, t, o, new) /\ Len(new) = Len(rows)
  BY <1>1 DEF RowsAfter, OtherAfter
<1> QED
  BY <1>2 DEF new

\* Appending active rows without data keeps what is said of the old rows.
LEMMA AppendAfter ==
  ASSUME NEW rows \in Seq(Row), NEW t \in DOMAIN rows, NEW o, NEW mid \in Seq(Row),
         DOMAIN mid = DOMAIN rows, RowsAfter(rows, t, o, mid), NEW fresh \in Seq(Row),
         \A i \in DOMAIN fresh : fresh[i].status = "active",
         \A i \in DOMAIN fresh : fresh[i].data = NoData
  PROVE  /\ RowsAfter(rows, t, o, mid \o fresh)
         /\ Len(mid \o fresh) = Len(rows) + Len(fresh)
<1> DEFINE new == mid \o fresh
<1>1. /\ Len(new) = Len(mid) + Len(fresh)
      /\ \A i \in 1..Len(mid) + Len(fresh) :
           new[i] = IF i <= Len(mid) THEN mid[i] ELSE fresh[i - Len(mid)]
      /\ new \in Seq(Row)
  BY ConcatProperties
<1>2. /\ DOMAIN mid = 1..Len(mid) /\ DOMAIN fresh = 1..Len(fresh) /\ Len(rows) = Len(mid)
      /\ DOMAIN new = 1..Len(mid) + Len(fresh) /\ Len(mid) \in Nat /\ Len(fresh) \in Nat
  <2>1. /\ DOMAIN mid = 1..Len(mid) /\ DOMAIN fresh = 1..Len(fresh)
        /\ Len(mid) \in Nat /\ Len(fresh) \in Nat /\ DOMAIN rows = 1..Len(rows)
        /\ Len(rows) \in Nat /\ DOMAIN new = 1..Len(new)
    BY <1>1, LenProperties
  <2>2. Len(rows) = Len(mid)
    BY RewriteLength
  <2> QED
    BY <1>1, <2>1, <2>2
<1> HIDE DEF new
<1>3. \A i \in DOMAIN rows : i \in DOMAIN new /\ new[i] = mid[i]
  BY <1>1, <1>2
<1>4. ASSUME NEW i \in DOMAIN new \ DOMAIN rows
      PROVE  new[i].status = "active" /\ new[i].data = NoData
  <2>1. i - Len(mid) \in DOMAIN fresh /\ new[i] = fresh[i - Len(mid)]
    BY <1>1, <1>2, <1>4
  <2> QED
    BY <2>1
<1>5. RowsAfter(rows, t, o, new)
  BY <1>3, <1>4 DEF RowsAfter
<1> QED
  BY <1>1, <1>2, <1>5 DEF new

\* Rows changed in place.
LEMMA MapAfter ==
  ASSUME NEW rows \in Seq(Row), NEW t \in DOMAIN rows, NEW o, NEW new \in [DOMAIN rows -> Row],
         \A i \in DOMAIN rows : i # t => OtherAfter(rows[i], o, i, new[i]),
         TokenAfter(rows[t], o, new[t])
  PROVE  /\ RowsAfter(rows, t, o, new)
         /\ new \in Seq(Row) /\ DOMAIN new = DOMAIN rows /\ Len(new) = Len(rows)
<1>1. DOMAIN rows = 1..Len(rows) /\ Len(rows) \in Nat
  BY LenProperties
<1>2. new \in Seq(Row) /\ DOMAIN new = DOMAIN rows /\ Len(new) = Len(rows)
  BY <1>1, FunctionIsSeq
<1> QED
  BY <1>2 DEF RowsAfter

\* _apply, for every outcome: each row as said above, and never more rows than
\* the token budget when there were not more before.
LEMMA ApplyAfter ==
  ASSUME NEW rows \in Seq(Row), NEW t \in DOMAIN rows, NEW o \in Outcome,
         o.kind = "emit" => t \in o.absorbed
  PROVE  /\ RowsAfter(rows, t, o, Apply(rows, t, o))
         /\ Len(rows) <= MAX_TOKENS_PER_RUN => Len(Apply(rows, t, o)) <= MAX_TOKENS_PER_RUN
<1>1. rows[t] \in Row /\ rows \in [DOMAIN rows -> Row]
  BY LenProperties
<1>2. /\ o.targets \in Seq(Target) /\ o.wait \in WaitKind /\ o.due \in BOOLEAN /\ o.data \in Data
      /\ o.kind \in {"advance", "emit", "park", "noop", "complete", "terminate", "fail"}
  BY DEF Outcome
<1>3. rows[t].node \in Nodes
  BY <1>1 DEF Row
<1>4. ASSUME NEW st \in {"dead", "completed"}
      PROVE  /\ RowsAfter(rows, t, o, [rows EXCEPT ![t].status = st])
             /\ Len([rows EXCEPT ![t].status = st]) = Len(rows)
  <2> DEFINE r == [rows[t] EXCEPT !.status = st]
  <2>1. r \in Row /\ r.node = rows[t].node /\ r.data = rows[t].data /\ r.status # "waiting"
    BY <1>1 DEF Row, TokenStatus
  <2>2. [rows EXCEPT ![t].status = st] = [rows EXCEPT ![t] = r]
    BY <1>1
  <2> HIDE DEF r
  <2>3. TokenAfter(rows[t], o, r)
    BY <2>1 DEF TokenAfter
  <2> QED
    BY <2>1, <2>2, <2>3, ReplaceAfter
<1> DEFINE fresh == NewRows(rows[t].node, o.targets)
<1>5. /\ fresh \in Seq(Row) /\ Len(fresh) = Len(o.targets)
      /\ \A i \in DOMAIN fresh : fresh[i].status = "active"
      /\ \A i \in DOMAIN fresh : fresh[i].data = NoData
  BY <1>2, <1>3, NewRowsType
<1> HIDE DEF fresh
<1>6. CASE o.kind = "noop"
  <2> DEFINE new == BufferArrival(rows, t)
             r == [[rows[t] EXCEPT !.status = "waiting"] EXCEPT !.wait = "join"]
  <2>1. r \in Row /\ r.wait = "join" /\ r.node = rows[t].node /\ r.data = rows[t].data
    BY <1>1 DEF Row, TokenStatus, WaitKind
  <2>2. new = [rows EXCEPT ![t] = r]
    BY <1>1 DEF BufferArrival
  <2> HIDE DEF r, new
  <2>3. TokenAfter(rows[t], o, r)
    BY <2>1 DEF TokenAfter
  <2>4. RowsAfter(rows, t, o, new) /\ Len(new) = Len(rows)
    BY <2>1, <2>2, <2>3, ReplaceAfter
  <2> QED
    BY <1>6, <2>4 DEF Apply, new
<1>7. CASE o.kind = "park"
  <2> DEFINE r == [rows[t] EXCEPT !.status = "waiting", !.wait = o.wait, !.due = o.due,
                                  !.data = o.data]
  <2>1. r \in Row /\ r.node = rows[t].node /\ r.data = o.data /\ r.wait = o.wait
    BY <1>1, <1>2 DEF Row, TokenStatus
  <2>2. Apply(rows, t, o) = [rows EXCEPT ![t] = r]
    BY <1>1, <1>7 DEF Apply
  <2> HIDE DEF r
  <2>3. TokenAfter(rows[t], o, r)
    BY <1>7, <2>1 DEF TokenAfter
  <2>4. /\ RowsAfter(rows, t, o, [rows EXCEPT ![t] = r])
        /\ Len([rows EXCEPT ![t] = r]) = Len(rows)
    BY <2>1, <2>3, ReplaceAfter
  <2> QED
    BY <2>2, <2>4
<1>8. CASE o.kind = "complete"
  BY <1>4, <1>8 DEF Apply
<1>9. CASE o.kind = "fail"
  BY <1>4, <1>9 DEF Apply
<1>10. CASE o.kind = "terminate"
  <2> DEFINE new == KillAll(rows, t)
  <2>1. \A i \in DOMAIN rows : rows[i] \in Row
    BY <1>1
  <2>2. ASSUME NEW i \in DOMAIN rows, NEW st \in {"completed", "dead"}
        PROVE  /\ [rows[i] EXCEPT !.status = st] \in Row
               /\ [rows[i] EXCEPT !.status = st].status = st
               /\ [rows[i] EXCEPT !.status = st].node = rows[i].node
               /\ [rows[i] EXCEPT !.status = st].data = rows[i].data
    BY <2>1 DEF Row, TokenStatus
  <2>3. new \in [DOMAIN rows -> Row]
    BY <2>1, <2>2 DEF KillAll
  <2>4. new[t] = [rows[t] EXCEPT !.status = "completed"]
        /\ \A i \in DOMAIN rows : i # t =>
             new[i] = rows[i] \/ new[i] = [rows[i] EXCEPT !.status = "dead"]
    BY DEF KillAll
  <2> HIDE DEF new
  <2>5. TokenAfter(rows[t], o, new[t])
    BY <2>2, <2>4 DEF TokenAfter
  <2>6. \A i \in DOMAIN rows : i # t => OtherAfter(rows[i], o, i, new[i])
    BY <1>10, <2>2, <2>4 DEF OtherAfter
  <2>7. RowsAfter(rows, t, o, new) /\ Len(new) = Len(rows)
    BY <2>3, <2>5, <2>6, MapAfter
  <2> QED
    BY <1>10, <2>7 DEF Apply, new
<1>11. CASE o.kind = "advance"
  <2>1. CASE OverBudget(rows, o)
    BY <1>4, <1>11, <2>1 DEF Apply
  <2>2. CASE ~OverBudget(rows, o) /\ Len(o.targets) = 1
    <3> DEFINE r == [rows[t] EXCEPT !.status = "active", !.node = o.targets[1].node,
                                    !.from = rows[t].node, !.via = o.targets[1].via,
                                    !.data = o.data]
    <3>1. o.targets[1] \in Target
      BY <1>2, <2>2, ElementOfSeq
    <3>2. r \in Row /\ r.status # "waiting" /\ r.data = o.data
      BY <1>1, <1>2, <1>3, <3>1 DEF Row, TokenStatus, Target
    <3>3. Apply(rows, t, o) = [rows EXCEPT ![t] = r]
      BY <1>1, <1>11, <2>2 DEF Apply, MoveOn
    <3> HIDE DEF r
    <3>4. TokenAfter(rows[t], o, r)
      BY <1>11, <3>2 DEF TokenAfter
    <3>5. /\ RowsAfter(rows, t, o, [rows EXCEPT ![t] = r])
          /\ Len([rows EXCEPT ![t] = r]) = Len(rows)
      BY <3>2, <3>4, ReplaceAfter
    <3> QED
      BY <3>3, <3>5
  <2>3. CASE ~OverBudget(rows, o) /\ Len(o.targets) # 1
    <3> DEFINE r == [rows[t] EXCEPT !.status = "completed", !.data = o.data]
               mid == [rows EXCEPT ![t] = r]
    <3>1. r \in Row /\ r.status # "waiting" /\ r.data = o.data
      BY <1>1, <1>2 DEF Row, TokenStatus
    <3>2. Apply(rows, t, o) = mid \o fresh
      BY <1>1, <1>11, <2>3 DEF Apply, MoveOn, fresh
    <3> HIDE DEF r
    <3>3. TokenAfter(rows[t], o, r)
      BY <1>11, <3>1 DEF TokenAfter
    <3>4. RowsAfter(rows, t, o, mid)
      BY <3>1, <3>3, ReplaceAfter
    <3>5. Len(mid) = Len(rows) /\ mid \in Seq(Row) /\ DOMAIN mid = DOMAIN rows
      BY <3>1, ExceptSeq, LenProperties
    <3> HIDE DEF mid
    <3>6. /\ RowsAfter(rows, t, o, mid \o fresh)
          /\ Len(mid \o fresh) = Len(rows) + Len(fresh)
      BY <1>5, <3>4, <3>5, AppendAfter
    <3>7. Len(rows) + Len(o.targets) <= MAX_TOKENS_PER_RUN
      <4>1. Len(rows) \in Nat /\ Len(o.targets) \in Nat
        BY <1>2, LenProperties
      <4> QED
        BY <1>11, <2>3, <4>1, BudgetAssumption DEF OverBudget
    <3> QED
      BY <1>5, <3>2, <3>6, <3>7
  <2> QED
    BY <2>1, <2>2, <2>3
<1>12. CASE o.kind = "emit"
  <2> DEFINE mid == Absorb(rows, o.absorbed)
  <2>1. ASSUME NEW i \in DOMAIN rows
        PROVE  /\ rows[i] \in Row
               /\ [rows[i] EXCEPT !.status = "dead", !.wait = "join"] \in Row
               /\ [rows[i] EXCEPT !.status = "dead", !.wait = "join"].status = "dead"
               /\ [rows[i] EXCEPT !.status = "dead", !.wait = "join"].node = rows[i].node
               /\ [rows[i] EXCEPT !.status = "dead", !.wait = "join"].data = rows[i].data
    BY <1>1 DEF Row, TokenStatus, WaitKind
  <2>2. mid \in [DOMAIN rows -> Row]
    BY <2>1 DEF Absorb
  <2>3. \A i \in DOMAIN rows :
          mid[i] = IF i \in o.absorbed THEN [rows[i] EXCEPT !.status = "dead", !.wait = "join"]
                   ELSE rows[i]
    BY DEF Absorb
  <2> HIDE DEF mid
  <2>4. TokenAfter(rows[t], o, mid[t])
    BY <1>12, <2>1, <2>3 DEF TokenAfter
  <2>5. \A i \in DOMAIN rows : i # t => OtherAfter(rows[i], o, i, mid[i])
    BY <1>12, <2>1, <2>3 DEF OtherAfter
  <2>6. /\ RowsAfter(rows, t, o, mid)
        /\ mid \in Seq(Row) /\ DOMAIN mid = DOMAIN rows /\ Len(mid) = Len(rows)
    BY <2>2, <2>4, <2>5, MapAfter
  <2>7. /\ RowsAfter(rows, t, o, mid \o fresh)
        /\ Len(mid \o fresh) = Len(rows) + Len(fresh)
    BY <1>5, <2>6, AppendAfter
  <2>8. CASE OverBudget(rows, o)
    BY <1>12, <2>6, <2>8 DEF Apply, mid
  <2>9. CASE ~OverBudget(rows, o)
    <3>1. Len(rows) + Len(o.targets) <= MAX_TOKENS_PER_RUN
      <4>1. Len(rows) \in Nat /\ Len(o.targets) \in Nat
        BY <1>2, LenProperties
      <4> QED
        BY <1>12, <2>9, <4>1, BudgetAssumption DEF OverBudget
    <3>2. Apply(rows, t, o) = mid \o fresh
      BY <1>12, <2>9 DEF Apply, mid, fresh
    <3> QED
      BY <1>5, <2>7, <3>1, <3>2
  <2> QED
    BY <2>8, <2>9
<1> QED
  BY <1>2, <1>6, <1>7, <1>8, <1>9, <1>10, <1>11, <1>12

----------------------------------------------------------------------------
(***************************************************************************)
(* One advance inside a transaction, seen from the run.                    *)
(***************************************************************************)
Advanced(rows, t, seen, o) ==
  /\ tok' = Apply(rows, t, o)
  /\ RowsAfter(rows, t, o, tok')
  /\ Len(rows) <= MAX_TOKENS_PER_RUN => Len(tok') <= MAX_TOKENS_PER_RUN
  /\ run'.retries = run.retries
  /\ tx'.mode = tx.mode /\ tx'.queue = tx.queue \ {t}
  /\ tx'.seen = StatusAfter(rows, t, o, seen)
  /\ run'.status = WriteStatus(tx'.seen, seen)
  /\ o.kind # "terminate" => /\ tx'.staleActive = tx.staleActive \ {t}
                             /\ tx'.staleWaiting = tx.staleWaiting \ {t}

\* _advance_one applies one outcome of the dispatch.
LEMMA AdvanceOutcome ==
  ASSUME TypeOK, NEW rows \in Seq(Row), NEW t \in DOMAIN rows,
         NEW seen \in RunStatus, AdvanceOne(rows, t, seen)
  PROVE  \E o \in Dispatch(rows, t) : o \in Outcome /\ Advanced(rows, t, seen, o)
<1> DEFINE status(o) == StatusAfter(rows, t, o, seen)
           held == tx.held \ {t}
           killed(o) == o.kind = "terminate" /\ tx.mode = "drive"
           active(o) == IF killed(o) THEN {i \in held : ListStatus(rows, i) = "active"}
                        ELSE tx.staleActive \ {t}
           waiting(o) == IF killed(o) THEN {i \in held : ListStatus(rows, i) = "waiting"}
                         ELSE tx.staleWaiting \ {t}
<1>1. PICK o \in Dispatch(rows, t) :
        /\ tok' = Apply(rows, t, o)
        /\ run' = [run EXCEPT !.status = WriteStatus(status(o), seen), !.steps = @ + o.steps,
                              !.dead_letter = @ \/ o.dead_letter]
        /\ tx' = [tx EXCEPT !.queue = @ \ {t}, !.seen = status(o),
                            !.staleActive = active(o), !.staleWaiting = waiting(o)]
  BY Zenon DEF AdvanceOne
<1>2. o \in Outcome /\ (o.kind = "emit" => t \in o.absorbed)
  BY DispatchType
<1>3. /\ RowsAfter(rows, t, o, tok')
      /\ Len(rows) <= MAX_TOKENS_PER_RUN => Len(tok') <= MAX_TOKENS_PER_RUN
  BY <1>1, <1>2, ApplyAfter
<1>4. run'.status = WriteStatus(status(o), seen) /\ run'.retries = run.retries
  <2> DEFINE st == WriteStatus(status(o), seen)
             n == run.steps + o.steps
             b == run.dead_letter \/ o.dead_letter
  <2>1. run' = [run EXCEPT !.status = st, !.steps = n, !.dead_letter = b]
    BY <1>1 DEF TypeOK, RunRow
  <2> HIDE DEF st, n, b
  <2>2. run'.status = st /\ run'.retries = run.retries
    BY <2>1 DEF TypeOK, RunRow
  <2> QED
    BY <2>2 DEF st
<1>5. o.kind # "terminate" => /\ active(o) = tx.staleActive \ {t}
                              /\ waiting(o) = tx.staleWaiting \ {t}
  OBVIOUS
<1> HIDE DEF status, active, waiting
<1>6. /\ tx'.mode = tx.mode /\ tx'.queue = tx.queue \ {t} /\ tx'.seen = status(o)
      /\ tx'.staleActive = active(o) /\ tx'.staleWaiting = waiting(o)
  BY <1>1 DEF TypeOK, Tx
<1>7. Advanced(rows, t, seen, o)
  BY <1>1, <1>3, <1>4, <1>5, <1>6 DEF Advanced, status
<1> QED
  BY <1>2, <1>7

\* A join that fires consumes the arriving token and waiting tokens only.
LEMMA JoinAbsorbs ==
  ASSUME NEW rows \in Seq(Row), NEW t \in DOMAIN rows, NEW o \in Dispatch(rows, t),
         o.kind = "emit"
  PROVE  \A i \in o.absorbed : i # t => rows[i].status = "waiting"
<1> DEFINE n == rows[t].node
           buffered == BufferArrival(rows, t)
           absorbed == BufferedAt(buffered, n)
           emit == OutcomeOf("emit", rows[t].data)
           noop == OutcomeOf("noop", rows[t].data)
<1>1. o = JoinOutcome(rows, t)
  BY DispatchType
<1>2. DOMAIN buffered = DOMAIN rows /\ \A i \in DOMAIN rows : i # t => buffered[i] = rows[i]
  BY BufferArrivalType
<1>3. \A i \in absorbed : i # t => rows[i].status = "waiting"
  BY <1>2 DEF BufferedAt
<1>4. rows[t].data \in Data
  <2>1. rows[t] \in Row
    BY LenProperties
  <2> QED
    BY <2>1 DEF Row
<1>5. emit \in Outcome /\ noop.kind = "noop"
  BY <1>4, OutcomeOfType
<1> HIDE DEF emit, absorbed, n, noop, buffered
<1>6. o \in {[emit EXCEPT !.targets = OutEdges[n], !.absorbed = absorbed], noop}
  BY <1>1 DEF JoinOutcome, emit, absorbed, n, noop, buffered
<1>7. o = [emit EXCEPT !.targets = OutEdges[n], !.absorbed = absorbed]
  BY <1>5, <1>6
<1>8. o.absorbed = absorbed
  BY <1>5, <1>7 DEF Outcome
<1> QED
  BY <1>3, <1>8

\* A row a transaction has marked is still a row.
LEMMA MarkRow ==
  ASSUME TypeOK, NEW t \in DOMAIN tok, NEW st \in TokenStatus
  PROVE  /\ [tok EXCEPT ![t].status = st] \in Seq(Row)
         /\ DOMAIN [tok EXCEPT ![t].status = st] = DOMAIN tok
         /\ Len([tok EXCEPT ![t].status = st]) = Len(tok)
         /\ [tok EXCEPT ![t].status = st][t] = [tok[t] EXCEPT !.status = st]
         /\ \A i \in DOMAIN tok : i # t => [tok EXCEPT ![t].status = st][i] = tok[i]
<1>1. tok \in Seq(Row) /\ tok[t] \in Row /\ tok \in [DOMAIN tok -> Row]
  <2>1. tok \in Seq(Row)
    BY DEF TypeOK
  <2> QED
    BY <2>1, LenProperties
<1> DEFINE r == [tok[t] EXCEPT !.status = st]
           new == [tok EXCEPT ![t] = r]
<1>2. r \in Row
  BY <1>1, RowStatus
<1>3. [tok EXCEPT ![t].status = st] = new
  BY <1>1
<1> HIDE DEF r
<1>4. /\ new \in Seq(Row) /\ DOMAIN new = DOMAIN tok /\ Len(new) = Len(tok) /\ new[t] = r
      /\ \A i \in DOMAIN tok : i # t => new[i] = tok[i]
  BY <1>1, <1>2, ExceptSeq, LenProperties
<1> QED
  BY <1>3, <1>4 DEF r

----------------------------------------------------------------------------
(***************************************************************************)
(* The token budget.  start_run does not check the triggers against the    *)
(* budget: a definition must not have more of them than it allows.  The    *)
(* budget holds of the rows a rollback would restore as well.              *)
(***************************************************************************)
BInv ==
  /\ IInv
  /\ TokenBudget
  /\ tx.mode # "none" => Len(saved.tok) <= MAX_TOKENS_PER_RUN

\* A step that keeps the number of rows keeps the budget.
LEMMA SameLength ==
  ASSUME BInv, IInv', Len(tok') = Len(tok),
         (UNCHANGED saved /\ tx'.mode = tx.mode) \/ saved' = Committed
  PROVE  BInv'
BY DEF BInv, TokenBudget, Committed

\* One advance keeps the budget.
LEMMA BudgetAdvance ==
  ASSUME BInv, IInv', NEW rows \in Seq(Row), NEW t \in DOMAIN rows, Len(rows) = Len(tok),
         NEW seen \in RunStatus, AdvanceOne(rows, t, seen), UNCHANGED saved
  PROVE  BInv'
<1>1. PICK o \in Dispatch(rows, t) : Advanced(rows, t, seen, o)
  BY AdvanceOutcome DEF BInv, IInv
<1> QED
  BY <1>1 DEF Advanced, BInv, TokenBudget

\* Every step keeps the budget.
LEMMA BInvStep ==
  ASSUME Len(Triggers) <= MAX_TOKENS_PER_RUN, BInv, [Next]_vars
  PROVE  BInv'
<1>1. IInv /\ IInv' /\ TypeOK /\ tok \in Seq(Row) /\ tok' \in Seq(Row)
  BY IInvStep DEF BInv, IInv, TypeOK
<1>2. CASE UNCHANGED vars
  BY <1>1, <1>2 DEF vars, BInv, TokenBudget
<1>3. CASE StartRun
  <2>1. Len(tok') = Len(Triggers)
    <3>1. Len(Triggers) \in Nat
      BY GraphAssumption, LenProperties
    <3>2. DOMAIN tok' = 1..Len(Triggers)
      BY <1>3 DEF StartRun
    <3>3. DOMAIN tok' = 1..Len(tok') /\ Len(tok') \in Nat
      BY <1>1, LenProperties
    <3> QED
      BY <3>1, <3>2, <3>3
  <2>2. saved' = Committed
    BY <1>3 DEF StartRun, Begin
  <2>3. saved'.tok = tok
    BY <2>2 DEF Committed
  <2> QED
    BY <1>1, <2>1, <2>3 DEF BInv, TokenBudget
<1>4. CASE DrivePass
  <2>1. UNCHANGED <<tok, saved>> /\ tx.mode = "drive"
    BY <1>4 DEF DrivePass
  <2> QED
    BY <1>1, <2>1 DEF BInv, TokenBudget
<1>5. CASE DriveStep
  <2>1. PICK t \in tx.queue : AdvanceOne([tok EXCEPT ![t].status = "running"], t, tx.seen)
    BY <1>5 DEF DriveStep
  <2>2. t \in DOMAIN tok /\ tx.seen \in RunStatus /\ "running" \in TokenStatus
    BY <1>1 DEF TypeOK, Tx, TokenStatus
  <2>3. UNCHANGED saved
    BY <1>5 DEF DriveStep
  <2> DEFINE rows == [tok EXCEPT ![t].status = "running"]
  <2>4. rows \in Seq(Row) /\ t \in DOMAIN rows /\ Len(rows) = Len(tok)
    BY <1>1, <2>2, MarkRow
  <2>5. AdvanceOne(rows, t, tx.seen)
    BY <2>1
  <2> HIDE DEF rows
  <2> QED
    BY <1>1, <2>2, <2>3, <2>4, <2>5, BudgetAdvance
<1>6. CASE DriveCommit \/ SweepCommit \/ Rollback
  <2>1. tx.mode # "none" /\ (tok' = tok \/ tok' = saved.tok) /\ tx'.mode = "none"
    BY <1>6 DEF DriveCommit, SweepCommit, Rollback, NoTx
  <2> QED
    BY <1>1, <2>1 DEF BInv, TokenBudget
<1>7. ASSUME NEW S \in SUBSET DOMAIN tok, SweepClaim(S)
      PROVE  BInv'
  <2>1. DOMAIN tok' = DOMAIN tok /\ saved' = Committed
    BY <1>7 DEF SweepClaim, Begin
  <2> QED
    BY <1>1, <2>1, RewriteLength, SameLength
<1>8. ASSUME NEW t \in DOMAIN tok, SweepAdvance(t)
      PROVE  BInv'
  <2>1. UNCHANGED saved /\ tx.mode = "sweep"
    BY <1>8 DEF SweepAdvance
  <2>2. CASE tok[t].status = "running"
    <3>1. AdvanceOne(tok, t, run.status) /\ run.status \in RunStatus
      BY <1>1, <1>8, <2>2 DEF SweepAdvance, TypeOK, RunRow
    <3> QED
      BY <1>1, <2>1, <3>1, BudgetAdvance
  <2>3. CASE tok[t].status # "running"
    <3>1. UNCHANGED tok
      BY <1>8, <2>3 DEF SweepAdvance
    <3> QED
      BY <1>1, <2>1, <3>1 DEF BInv, TokenBudget
  <2> QED
    BY <2>2, <2>3
<1>9. ASSUME NEW t \in DOMAIN tok, KillToken(t) \/ ResumeDue(t)
      PROVE  BInv'
  <2>1. DOMAIN tok' = DOMAIN tok
    BY <1>9 DEF KillToken, ResumeDue
  <2>2. CASE KillToken(t)
    <3>1. UNCHANGED saved /\ tx.mode = "sweep"
      BY <2>2 DEF KillToken
    <3> QED
      BY <1>1, <2>1, <3>1, RewriteLength DEF BInv, TokenBudget
  <2>3. CASE ResumeDue(t)
    <3>1. UNCHANGED <<saved, tx>>
      BY <2>3 DEF ResumeDue
    <3> QED
      BY <1>1, <2>1, <3>1, RewriteLength, SameLength
  <2> QED
    BY <1>9, <2>2, <2>3
<1>10. ASSUME NEW r \in Requests, SignalWrite(r)
       PROVE  BInv'
  <2>1. DOMAIN tok' = DOMAIN tok /\ (saved' = Committed \/ UNCHANGED <<tx, saved>>)
    BY <1>10 DEF SignalWrite, Begin
  <2> QED
    BY <1>1, <2>1, RewriteLength, SameLength
<1>11. ASSUME NEW r \in Requests, NEW t \in DOMAIN tok, SignalRead(r, t)
       PROVE  BInv'
  BY <1>1, <1>11, SameLength DEF SignalRead
<1>12. CASE RetryRun
  <2>1. DOMAIN tok' = DOMAIN tok /\ (saved' = Committed \/ UNCHANGED <<tx, saved>>)
    BY <1>12 DEF RetryRun, ReactivateDead, Begin
  <2> QED
    BY <1>1, <2>1, RewriteLength, SameLength
<1> QED
  BY <1>2, <1>3, <1>4, <1>5, <1>6, <1>7, <1>8, <1>9, <1>10, <1>11, <1>12 DEF Next

\* A run never has more token rows than MAX_TOKENS_PER_RUN, whatever its graph
\* forks or loops, if it does not start with more: _apply refuses the outcome
\* that would exceed the budget before it creates a row.
THEOREM BudgetKept ==
  ASSUME Len(Triggers) <= MAX_TOKENS_PER_RUN
  PROVE  Spec => []TokenBudget
<1>1. Init => BInv
  <2> SUFFICES ASSUME Init PROVE BInv
    OBVIOUS
  <2>1. Len(tok) = 0 /\ tx.mode = "none"
    BY DEF Init, NoTx
  <2> QED
    BY <2>1, InitIInv, BudgetAssumption DEF BInv, TokenBudget
<1>2. BInv /\ [Next]_vars => BInv'
  BY BInvStep
<1>3. BInv => TokenBudget
  BY DEF BInv
<1> QED
  BY <1>1, <1>2, <1>3, PTL DEF Spec

----------------------------------------------------------------------------
(***************************************************************************)
(* Success is quiet and failure sticks.  Two things the engine does not    *)
(* guard against are hypotheses: no terminate end event (it settles the    *)
(* run as succeeded even after a sibling failed it, and a drive goes on    *)
(* with the tokens it has already listed), and no completion of a task     *)
(* written after its run was settled (the write does not look at the run   *)
(* again).                                                                 *)
(***************************************************************************)
NoTerminate == \A n \in Nodes : Kind[n] # "terminate"

QuietCompletions ==
  \A r \in Requests : req[r].state = "read" => VisibleRun.status \notin TerminalRun

Quiet(rows) == \A i \in DOMAIN rows : rows[i].status \notin Live

\* A request saw an open run.
ReadsOpen == \A r \in Requests : req[r].state = "read" => req[r].seen \in {"waiting", "running"}

\* No listed token was killed behind the back of a drive.
NothingStale == tx.staleActive = {} /\ tx.staleWaiting = {}

\* The run status a drive has in memory may lag, but never about the end.
DriveSeen ==
  tx.mode = "drive" =>
    (tx.seen \in TerminalRun \/ run.status \in TerminalRun => tx.seen = run.status)

\* What a drive has listed is active until it takes it.
DriveQueued == tx.mode = "drive" => \A i \in tx.queue : tok[i].status = "active"

QuietSuccess ==
  /\ run.status = "succeeded" => Quiet(tok)
  /\ tx.mode # "none" /\ saved.run.status = "succeeded" => Quiet(saved.tok)

\* A transaction that found the run failed leaves it failed, or reopened it.
FailureKept ==
  tx.mode # "none" /\ saved.run.status = "failed" =>
    run.status = "failed" \/ run.retries > saved.run.retries

SInv ==
  /\ IInv
  /\ ReadsOpen
  /\ NothingStale
  /\ DriveSeen
  /\ DriveQueued
  /\ QuietSuccess
  /\ FailureKept

\* The status an advance settles: a failure is kept, and a new success has no
\* live row left.
LEMMA SettledStatus ==
  ASSUME NEW rows, NEW t, NEW o, o.kind # "terminate", NEW seen \in RunStatus,
         NEW st, st = StatusAfter(rows, t, o, seen)
  PROVE  /\ seen = "failed" => st = "failed"
         /\ st = "succeeded" => seen = "succeeded" \/ Quiet(Apply(rows, t, o))
<1> DEFINE new == Apply(rows, t, o)
           s == IF o.kind = "fail" \/ OverBudget(rows, o) THEN "failed" ELSE seen
<1>1. st = Settle(new, s)
  BY DEF StatusAfter
<1>2. s = "failed" \/ s = seen
  OBVIOUS
<1>3. seen = "failed" => s = "failed"
  OBVIOUS
<1> HIDE DEF new, s
<1>4. s \in TerminalRun => st = s
  BY <1>1 DEF Settle
<1>5. ASSUME s \notin TerminalRun, st = "succeeded"
      PROVE  Quiet(new)
  <2>1. ~\E i \in DOMAIN new : new[i].status \in {"active", "running"}
    BY <1>1, <1>5 DEF Settle
  <2>2. ~\E i \in DOMAIN new : new[i].status = "waiting"
    BY <1>1, <1>5, <2>1 DEF Settle
  <2> QED
    BY <2>1, <2>2 DEF Quiet, Live
<1> QED
  BY <1>2, <1>3, <1>4, <1>5 DEF TerminalRun, new

\* One advance of a token that is live keeps the invariant.
LEMMA SettleAdvance ==
  ASSUME NoTerminate, SInv, IInv', tx.mode # "none",
         NEW rows \in Seq(Row), NEW t \in DOMAIN rows, DOMAIN rows = DOMAIN tok,
         \A i \in DOMAIN tok : i # t => rows[i] = tok[i],
         tok[t].status \in Live,
         NEW seen \in RunStatus, AdvanceOne(rows, t, seen), UNCHANGED <<saved, req>>,
         IF tx.mode = "drive" THEN seen = tx.seen ELSE seen = run.status
  PROVE  SInv'
<1>1. PICK o \in Dispatch(rows, t) : o \in Outcome /\ Advanced(rows, t, seen, o)
  BY AdvanceOutcome DEF SInv, IInv
<1>2. o.kind # "terminate"
  <2>1. rows[t] \in Row
    BY LenProperties
  <2>2. rows[t].node \in Nodes
    BY <2>1 DEF Row
  <2> QED
    BY <2>2, DispatchType DEF NoTerminate
<1>3. /\ tok' = Apply(rows, t, o) /\ RowsAfter(rows, t, o, tok')
      /\ run'.retries = run.retries
      /\ tx'.mode = tx.mode /\ tx'.queue = tx.queue \ {t}
      /\ tx'.seen = StatusAfter(rows, t, o, seen)
      /\ run'.status = WriteStatus(tx'.seen, seen)
      /\ tx'.staleActive = tx.staleActive \ {t} /\ tx'.staleWaiting = tx.staleWaiting \ {t}
  BY <1>1, <1>2 DEF Advanced
<1>4. /\ seen = "failed" => tx'.seen = "failed"
      /\ tx'.seen = "succeeded" => seen = "succeeded" \/ Quiet(tok')
  BY <1>2, <1>3, SettledStatus
<1>5. \/ tx'.seen = seen /\ run'.status = run.status
      \/ run'.status = tx'.seen
  BY <1>3 DEF WriteStatus
<1>6. run.status # "succeeded" /\ seen # "succeeded"
  <2>1. t \in DOMAIN tok
    OBVIOUS
  <2>2. run.status # "succeeded"
    BY <2>1 DEF SInv, QuietSuccess, Quiet
  <2> QED
    BY <2>2 DEF SInv, DriveSeen, TerminalRun
<1>7. run.status = "failed" => seen = "failed"
  BY DEF SInv, DriveSeen, TerminalRun
<1>8. QuietSuccess'
  BY <1>3, <1>4, <1>5, <1>6 DEF SInv, QuietSuccess
<1>9. FailureKept'
  BY <1>3, <1>4, <1>5, <1>7 DEF SInv, FailureKept
<1>10. DriveSeen'
  BY <1>3, <1>5 DEF SInv, DriveSeen
<1>11. NothingStale' /\ ReadsOpen'
  BY <1>3 DEF SInv, NothingStale, ReadsOpen
<1>12. DriveQueued'
  <2> SUFFICES ASSUME tx.mode = "drive", NEW i \in tx.queue, i # t
               PROVE  tok'[i].status = "active"
    BY <1>3 DEF DriveQueued
  <2>1. i \in DOMAIN tok /\ tok[i].status = "active"
    BY DEF SInv, IInv, TypeOK, DriveQueued
  <2>2. rows[i].status = "active" /\ i \in DOMAIN rows
    BY <2>1
  <2>3. OtherAfter(rows[i], o, i, tok'[i])
    BY <1>3, <2>2 DEF RowsAfter
  <2>4. ~(o.kind = "emit" /\ i \in o.absorbed)
    BY <2>2, JoinAbsorbs
  <2>5. tok'[i] = rows[i]
    BY <1>2, <2>3, <2>4 DEF OtherAfter
  <2> QED
    BY <2>2, <2>5
<1> QED
  BY <1>8, <1>9, <1>10, <1>11, <1>12 DEF SInv

\* A transaction that opens on an unsettled run, or leaves its status alone.
LEMMA SettleOpen ==
  ASSUME SInv, IInv', tx.mode = "none", tx' \in Tx,
         tx'.staleActive = {} /\ tx'.staleWaiting = {},
         tx'.mode = "sweep" \/ (tx'.mode = "drive" /\ tx'.queue = {}),
         tx'.mode = "drive" =>
           (tx'.seen \in TerminalRun \/ run'.status \in TerminalRun => tx'.seen = run'.status),
         saved'.tok = tok, saved'.run = run,
         run'.status # "succeeded",
         run.status = "failed" => run'.status = "failed" \/ run'.retries > run.retries,
         ReadsOpen'
  PROVE  SInv'
<1>1. NothingStale' /\ DriveSeen' /\ DriveQueued'
  BY DEF NothingStale, DriveSeen, DriveQueued
<1>2. QuietSuccess'
  BY DEF SInv, QuietSuccess
<1>3. FailureKept'
  BY DEF FailureKept
<1> QED
  BY <1>1, <1>2, <1>3 DEF SInv

\* What Begin leaves.
LEMMA BeginFields ==
  ASSUME TypeOK, NEW mode \in {"sweep", "drive"}, NEW queue \in SUBSET DOMAIN tok,
         NEW seen \in RunStatus, Begin(mode, queue, seen, Committed)
  PROVE  /\ tx' \in Tx /\ tx'.mode = mode /\ tx'.queue = queue /\ tx'.seen = seen
         /\ tx'.staleActive = {} /\ tx'.staleWaiting = {}
         /\ saved'.tok = tok /\ saved'.run = run
<1>1. /\ tx' \in Tx /\ tx'.mode = mode /\ tx'.queue = queue
      /\ tx'.staleActive = {} /\ tx'.staleWaiting = {}
      /\ saved' = [tok |-> tok, run |-> run]
  BY BeginType
<1>2. tx' = [NoTx EXCEPT !.mode = mode, !.queue = queue, !.seen = seen]
  BY DEF Begin
<1>3. tx'.seen = seen
  <2>1. NoTx \in Tx
    BY DEF NoTx, Tx, RunStatus
  <2> QED
    BY <1>2, <2>1 DEF Tx
<1> QED
  BY <1>1, <1>3

\* A step outside every transaction that opens none.
LEMMA SettleOutside ==
  ASSUME SInv, IInv', tx.mode = "none", UNCHANGED tx, run'.status # "succeeded", ReadsOpen'
  PROVE  SInv'
BY DEF SInv, NothingStale, DriveSeen, DriveQueued, QuietSuccess, FailureKept

\* Every step keeps the invariant.
LEMMA SInvStep ==
  ASSUME NoTerminate, SInv, QuietCompletions, [Next]_vars
  PROVE  SInv'
<1>1. /\ IInv /\ IInv' /\ TypeOK /\ tok \in Seq(Row) /\ run \in RunRow /\ tx \in Tx
      /\ run.status \in RunStatus
  BY IInvStep DEF SInv, IInv, TypeOK, RunRow
<1>2. CASE UNCHANGED vars
  BY <1>1, <1>2 DEF vars, SInv, ReadsOpen, NothingStale, DriveSeen, DriveQueued, QuietSuccess,
     Quiet, FailureKept
<1>3. CASE StartRun
  <2>1. tx.mode = "none" /\ run.status = "none" /\ UNCHANGED req
    BY <1>3 DEF StartRun, NoTx
  <2>2. run' = [run EXCEPT !.status = IF Triggers = <<>> THEN "failed" ELSE "running"]
    BY <1>3 DEF StartRun
  <2>3. run'.status \in {"failed", "running"}
    BY <1>1, <2>2 DEF RunRow
  <2>4. run'.status \in RunStatus /\ Begin("drive", {}, run'.status, Committed)
    BY <1>3, <2>3 DEF StartRun, RunStatus
  <2>5. /\ tx' \in Tx /\ tx'.mode = "drive" /\ tx'.queue = {} /\ tx'.seen = run'.status
        /\ tx'.staleActive = {} /\ tx'.staleWaiting = {}
        /\ saved'.tok = tok /\ saved'.run = run
    BY <1>1, <2>4, BeginFields
  <2>6. ReadsOpen'
    BY <2>1 DEF SInv, ReadsOpen
  <2> QED
    BY <1>1, <2>1, <2>3, <2>5, <2>6, SettleOpen
<1>4. CASE DrivePass
  <2>1. tx' = [tx EXCEPT !.queue = ListActive, !.held = ListActive, !.staleWaiting = {},
                         !.passes = @ + 1]
        /\ tx.mode = "drive" /\ UNCHANGED <<tok, run, saved, req>>
    BY <1>4 DEF DrivePass
  <2>2. \A i \in ListActive : i \in DOMAIN tok /\ tok[i].status = "active"
    BY DEF ListActive, ListStatus, SInv, NothingStale
  <2> DEFINE n == tx.passes + 1
             active == ListActive
  <2>3. tx' = [tx EXCEPT !.queue = active, !.held = active, !.staleWaiting = {}, !.passes = n]
    BY <2>1
  <2> HIDE DEF n, active
  <2>4. /\ tx'.mode = tx.mode /\ tx'.queue = active /\ tx'.seen = tx.seen
        /\ tx'.staleActive = tx.staleActive /\ tx'.staleWaiting = {}
    BY <1>1, <2>3 DEF Tx
  <2>5. DriveQueued'
    BY <2>1, <2>2, <2>4 DEF DriveQueued, active
  <2>6. ReadsOpen' /\ NothingStale' /\ DriveSeen'
    BY <2>1, <2>4 DEF SInv, ReadsOpen, NothingStale, DriveSeen
  <2>7. QuietSuccess' /\ FailureKept'
    BY <2>1, <2>4 DEF SInv, QuietSuccess, Quiet, FailureKept
  <2> QED
    BY <1>1, <2>5, <2>6, <2>7 DEF SInv
<1>5. CASE DriveStep
  <2>1. PICK t \in tx.queue : AdvanceOne([tok EXCEPT ![t].status = "running"], t, tx.seen)
    BY <1>5 DEF DriveStep
  <2>2. /\ t \in DOMAIN tok /\ tx.seen \in RunStatus /\ "running" \in TokenStatus
        /\ tx.mode = "drive" /\ UNCHANGED <<saved, req>>
    BY <1>1, <1>5 DEF TypeOK, Tx, TokenStatus, DriveStep
  <2>3. tok[t].status \in Live
    BY <2>2 DEF SInv, DriveQueued, Live
  <2> DEFINE rows == [tok EXCEPT ![t].status = "running"]
  <2>4. /\ rows \in Seq(Row) /\ t \in DOMAIN rows /\ DOMAIN rows = DOMAIN tok
        /\ \A i \in DOMAIN tok : i # t => rows[i] = tok[i]
    BY <1>1, <2>2, MarkRow
  <2>5. AdvanceOne(rows, t, tx.seen)
    BY <2>1
  <2> HIDE DEF rows
  <2> QED
    BY <1>1, <2>2, <2>3, <2>4, <2>5, SettleAdvance
<1>6. CASE DriveCommit \/ SweepCommit
  <2>1. tx' = NoTx /\ UNCHANGED <<tok, run, req>>
    BY <1>6 DEF DriveCommit, SweepCommit
  <2>2. tx'.mode = "none" /\ tx'.staleActive = {} /\ tx'.staleWaiting = {}
    BY <2>1 DEF NoTx
  <2>3. QuietSuccess'
    BY <2>1, <2>2 DEF SInv, QuietSuccess, Quiet
  <2> QED
    BY <1>1, <2>1, <2>2, <2>3 DEF SInv, ReadsOpen, NothingStale, DriveSeen, DriveQueued, FailureKept
<1>7. CASE Rollback
  <2>1. tx' = NoTx /\ tok' = saved.tok /\ run' = saved.run /\ UNCHANGED req /\ tx.mode # "none"
    BY <1>7 DEF Rollback
  <2>2. tx'.mode = "none" /\ tx'.staleActive = {} /\ tx'.staleWaiting = {}
    BY <2>1 DEF NoTx
  <2>3. QuietSuccess'
    BY <2>1, <2>2 DEF SInv, QuietSuccess, Quiet
  <2> QED
    BY <1>1, <2>1, <2>2, <2>3 DEF SInv, ReadsOpen, NothingStale, DriveSeen, DriveQueued, FailureKept
<1>8. ASSUME NEW S \in SUBSET DOMAIN tok, SweepClaim(S)
      PROVE  SInv'
  <2>1. /\ tx.mode = "none" /\ UNCHANGED <<run, req>> /\ Begin("sweep", S, run.status, Committed)
        /\ S # {} /\ \A i \in S : tok[i].status = "active"
    BY <1>8 DEF SweepClaim, NoTx
  <2>2. /\ tx' \in Tx /\ tx'.mode = "sweep"
        /\ tx'.staleActive = {} /\ tx'.staleWaiting = {}
        /\ saved'.tok = tok /\ saved'.run = run
    BY <1>1, <2>1, BeginFields
  <2>3. run.status # "succeeded"
    BY <2>1 DEF SInv, QuietSuccess, Quiet, Live
  <2>4. ReadsOpen'
    BY <2>1 DEF SInv, ReadsOpen
  <2> QED
    BY <1>1, <2>1, <2>2, <2>3, <2>4, SettleOpen
<1>9. ASSUME NEW t \in DOMAIN tok, SweepAdvance(t)
      PROVE  SInv'
  <2>1. UNCHANGED <<saved, req>> /\ tx.mode = "sweep"
    BY <1>9 DEF SweepAdvance
  <2>2. CASE tok[t].status = "running"
    <3>1. AdvanceOne(tok, t, run.status) /\ tok[t].status \in Live
      BY <1>9, <2>2 DEF SweepAdvance, Live
    <3> QED
      BY <1>1, <2>1, <3>1, SettleAdvance
  <2>3. CASE tok[t].status # "running"
    <3>1. tx' = [tx EXCEPT !.queue = tx.queue \ {t}] /\ UNCHANGED <<tok, run>>
      BY <1>9, <2>3 DEF SweepAdvance
    <3>2. /\ tx'.mode = tx.mode /\ tx'.staleActive = tx.staleActive
          /\ tx'.staleWaiting = tx.staleWaiting
      BY <1>1, <3>1 DEF Tx
    <3>3. QuietSuccess' /\ FailureKept'
      BY <2>1, <3>1, <3>2 DEF SInv, QuietSuccess, Quiet, FailureKept
    <3> QED
      BY <1>1, <2>1, <3>1, <3>2, <3>3 DEF SInv, ReadsOpen, NothingStale, DriveSeen, DriveQueued
  <2> QED
    BY <2>2, <2>3
<1>10. ASSUME NEW t \in DOMAIN tok, KillToken(t)
       PROVE  SInv'
  <2>1. /\ UNCHANGED <<saved, req>> /\ tx.mode = "sweep" /\ tok[t].status = "running"
        /\ tx' = [tx EXCEPT !.queue = tx.queue \ {t}]
    BY <1>10 DEF KillToken
  <2>2. run.status # "succeeded"
    BY <2>1 DEF SInv, QuietSuccess, Quiet, Live
  <2>3. run' = [run EXCEPT !.status = "failed"]
    BY <1>10, <2>2 DEF KillToken
  <2>4. run'.status = "failed"
    BY <1>1, <2>3 DEF RunRow
  <2>5. /\ tx'.mode = tx.mode /\ tx'.staleActive = tx.staleActive
        /\ tx'.staleWaiting = tx.staleWaiting
    BY <1>1, <2>1 DEF Tx
  <2>6. QuietSuccess' /\ FailureKept'
    BY <2>1, <2>4, <2>5 DEF SInv, QuietSuccess, FailureKept
  <2> QED
    BY <1>1, <2>1, <2>5, <2>6 DEF SInv, ReadsOpen, NothingStale, DriveSeen, DriveQueued
<1>11. ASSUME NEW t \in DOMAIN tok, ResumeDue(t)
       PROVE  SInv'
  <2>1. tx.mode = "none" /\ UNCHANGED <<run, tx, req>> /\ tok[t].status \in Live
    BY <1>11 DEF ResumeDue, Due, Live, NoTx
  <2>2. run.status # "succeeded"
    BY <2>1 DEF SInv, QuietSuccess, Quiet
  <2>3. ReadsOpen'
    BY <2>1 DEF SInv, ReadsOpen
  <2> QED
    BY <1>1, <2>1, <2>2, <2>3, SettleOutside
<1>12. ASSUME NEW r \in Requests, SignalWrite(r)
       PROVE  SInv'
  <2>1. /\ tx.mode = "none" /\ UNCHANGED run /\ req[r].state = "read"
        /\ req' = [req EXCEPT ![r] = [NoRequest EXCEPT !.state = "done"]]
    BY <1>12 DEF SignalWrite, NoTx
  <2>2. run.status \notin TerminalRun
    BY <2>1 DEF QuietCompletions, VisibleRun
  <2>3. req[r].seen \in {"waiting", "running"}
    BY <2>1 DEF SInv, ReadsOpen
  <2>4. ReadsOpen'
    <3> DEFINE p == [NoRequest EXCEPT !.state = "done"]
    <3>1. p.state = "done"
      BY DEF NoRequest
    <3>2. req' = [req EXCEPT ![r] = p] /\ req \in [Requests -> Request]
      BY <1>1, <2>1 DEF TypeOK
    <3> HIDE DEF p
    <3> QED
      BY <3>1, <3>2 DEF SInv, ReadsOpen
  <2>5. CASE Begin("drive", {}, req[r].seen, Committed)
    <3>1. req[r].seen \in RunStatus /\ req[r].seen \notin TerminalRun
      BY <2>3 DEF RunStatus, TerminalRun
    <3>2. /\ tx' \in Tx /\ tx'.mode = "drive" /\ tx'.queue = {} /\ tx'.seen = req[r].seen
          /\ tx'.staleActive = {} /\ tx'.staleWaiting = {}
          /\ saved'.tok = tok /\ saved'.run = run
      BY <1>1, <2>5, <3>1, BeginFields
    <3>3. run'.status # "succeeded"
      BY <2>1, <2>2 DEF TerminalRun
    <3> QED
      BY <1>1, <2>1, <2>2, <2>4, <3>1, <3>2, <3>3, SettleOpen
  <2>6. CASE UNCHANGED <<tx, saved>>
    <3>1. run'.status # "succeeded"
      BY <2>1, <2>2 DEF TerminalRun
    <3> QED
      BY <1>1, <2>1, <2>4, <2>6, <3>1, SettleOutside
  <2> QED
    BY <1>12, <2>5, <2>6 DEF SignalWrite
<1>13. ASSUME NEW r \in Requests, NEW t \in DOMAIN tok, SignalRead(r, t)
       PROVE  SInv'
  <2> DEFINE d == [tok[t].data EXCEPT !.completed = tok[t].node]
             p == [state |-> "read", token |-> t, seen |-> run.status, data |-> d]
  <2>1. /\ tx.mode = "none" /\ UNCHANGED <<run, tx>> /\ run.status \in {"waiting", "running"}
        /\ req' = [req EXCEPT ![r] = p]
    BY <1>13 DEF SignalRead, NoTx
  <2>2. p.seen = run.status
    OBVIOUS
  <2> HIDE DEF p
  <2>3. ReadsOpen'
    BY <1>1, <2>1, <2>2 DEF SInv, ReadsOpen, TypeOK
  <2> QED
    BY <1>1, <2>1, <2>3, SettleOutside
<1>14. CASE RetryRun
  <2>1. tx.mode = "none" /\ UNCHANGED req
    BY <1>14 DEF RetryRun, NoTx
  <2> DEFINE n == run.retries + 1
  <2>2. run' = [run EXCEPT !.status = "running", !.retries = n]
    BY <1>14 DEF RetryRun
  <2>3. n > run.retries
    BY <1>1 DEF RunRow
  <2> HIDE DEF n
  <2>4. run'.status = "running" /\ run'.retries > run.retries
    BY <1>1, <2>2, <2>3 DEF RunRow
  <2>5. ReadsOpen'
    BY <2>1 DEF SInv, ReadsOpen
  <2>6. CASE Begin("drive", {}, "running", Committed)
    <3>1. "running" \in RunStatus /\ "running" \notin TerminalRun
      BY DEF RunStatus, TerminalRun
    <3>2. /\ tx' \in Tx /\ tx'.mode = "drive" /\ tx'.queue = {} /\ tx'.seen = "running"
          /\ tx'.staleActive = {} /\ tx'.staleWaiting = {}
          /\ saved'.tok = tok /\ saved'.run = run
      BY <1>1, <2>6, <3>1, BeginFields
    <3> QED
      BY <1>1, <2>1, <2>4, <2>5, <3>1, <3>2, SettleOpen
  <2>7. CASE UNCHANGED <<tx, saved>>
    BY <1>1, <2>1, <2>4, <2>5, <2>7, SettleOutside
  <2> QED
    BY <1>14, <2>6, <2>7 DEF RetryRun
<1> QED
  BY <1>2, <1>3, <1>4, <1>5, <1>6, <1>7, <1>8, <1>9, <1>10, <1>11, <1>12, <1>13, <1>14 DEF Next

\* The invariant holds before the run is created.
LEMMA InitSInv == Init => SInv
<1> SUFFICES ASSUME Init PROVE SInv
  OBVIOUS
<1>1. IInv
  BY InitIInv
<1>2. tx.mode = "none" /\ tx.staleActive = {} /\ tx.staleWaiting = {}
  BY DEF Init, NoTx
<1>3. run.status = "none"
  BY DEF Init, NoRun
<1>4. \A r \in Requests : req[r].state = "idle"
  BY DEF Init, NoRequest
<1> QED
  BY <1>1, <1>2, <1>3, <1>4 DEF SInv, ReadsOpen, NothingStale, DriveSeen, DriveQueued,
     QuietSuccess, FailureKept

\* A run that is committed as succeeded has no live token, in every graph
\* without a terminate end event and as long as no completion of a task is
\* written after its run was settled: _settle_run counts the tokens in the
\* same transaction in which it writes the status.
THEOREM SuccessIsQuiet ==
  ASSUME NoTerminate
  PROVE  Spec /\ []QuietCompletions => []SucceededIsQuiet
<1>1. SInv /\ QuietCompletions /\ [Next]_vars => SInv'
  BY SInvStep
<1>2. SInv => SucceededIsQuiet
  BY DEF SInv, QuietSuccess, Quiet, SucceededIsQuiet, VisibleRun, VisibleTok
<1> QED
  BY <1>1, <1>2, InitSInv, PTL DEF Spec

\* A step inside a transaction keeps it open, with what a rollback restores, or
\* ends it.
LEMMA InsideStep ==
  ASSUME IInv, Next, tx.mode # "none"
  PROVE  \/ tx'.mode = tx.mode /\ UNCHANGED saved
         \/ DriveCommit \/ SweepCommit \/ Rollback
<1>1. tx \in Tx /\ TypeOK /\ tok \in Seq(Row) /\ run.status \in RunStatus /\ tx # NoTx
  BY DEF IInv, TypeOK, RunRow, NoTx
<1>2. CASE DrivePass
  <2> DEFINE n == tx.passes + 1
             active == ListActive
  <2>1. tx' = [tx EXCEPT !.queue = active, !.held = active, !.staleWaiting = {}, !.passes = n]
        /\ UNCHANGED saved
    BY <1>2 DEF DrivePass
  <2> HIDE DEF n, active
  <2> QED
    BY <1>1, <2>1 DEF Tx
<1>3. CASE DriveStep
  <2>1. PICK t \in tx.queue : AdvanceOne([tok EXCEPT ![t].status = "running"], t, tx.seen)
    BY <1>3 DEF DriveStep
  <2>2. t \in DOMAIN tok /\ tx.seen \in RunStatus /\ "running" \in TokenStatus /\ UNCHANGED saved
    BY <1>1, <1>3 DEF TypeOK, Tx, TokenStatus, DriveStep
  <2> DEFINE rows == [tok EXCEPT ![t].status = "running"]
  <2>3. rows \in Seq(Row) /\ t \in DOMAIN rows
    BY <1>1, <2>2, MarkRow
  <2>4. AdvanceOne(rows, t, tx.seen)
    BY <2>1
  <2> HIDE DEF rows
  <2>5. PICK o \in Dispatch(rows, t) : Advanced(rows, t, tx.seen, o)
    BY <1>1, <2>2, <2>3, <2>4, AdvanceOutcome
  <2> QED
    BY <2>2, <2>5 DEF Advanced
<1>4. ASSUME NEW t \in DOMAIN tok, SweepAdvance(t)
      PROVE  tx'.mode = tx.mode /\ UNCHANGED saved
  <2>1. UNCHANGED saved
    BY <1>4 DEF SweepAdvance
  <2>2. CASE tok[t].status = "running"
    <3>1. AdvanceOne(tok, t, run.status)
      BY <1>4, <2>2 DEF SweepAdvance
    <3>2. PICK o \in Dispatch(tok, t) : Advanced(tok, t, run.status, o)
      BY <1>1, <3>1, AdvanceOutcome
    <3> QED
      BY <2>1, <3>2 DEF Advanced
  <2>3. CASE tok[t].status # "running"
    <3>1. tx' = [tx EXCEPT !.queue = tx.queue \ {t}]
      BY <1>4, <2>3 DEF SweepAdvance
    <3> QED
      BY <1>1, <2>1, <3>1 DEF Tx
  <2> QED
    BY <2>2, <2>3
<1>5. ASSUME NEW t \in DOMAIN tok, KillToken(t)
      PROVE  tx'.mode = tx.mode /\ UNCHANGED saved
  <2>1. tx' = [tx EXCEPT !.queue = tx.queue \ {t}] /\ UNCHANGED saved
    BY <1>5 DEF KillToken
  <2> QED
    BY <1>1, <2>1 DEF Tx
<1>6. /\ ~StartRun /\ ~RetryRun
      /\ \A S \in SUBSET DOMAIN tok : ~SweepClaim(S)
      /\ \A t \in DOMAIN tok : ~ResumeDue(t)
      /\ \A r \in Requests : ~SignalWrite(r) /\ \A t \in DOMAIN tok : ~SignalRead(r, t)
  BY <1>1 DEF StartRun, RetryRun, SweepClaim, ResumeDue, SignalWrite, SignalRead
<1> QED
  BY <1>2, <1>3, <1>4, <1>5, <1>6 DEF Next

\* A step outside every transaction opens one on what it finds, or none.
LEMMA OutsideStep ==
  ASSUME Next, tx.mode = "none"
  PROVE  /\ saved' = Committed \/ UNCHANGED tx
         /\ UNCHANGED run \/ RetryRun \/ StartRun
<1>1. /\ ~DrivePass /\ ~DriveStep /\ ~DriveCommit /\ ~SweepCommit /\ ~Rollback
      /\ \A t \in DOMAIN tok : ~SweepAdvance(t) /\ ~KillToken(t)
  BY DEF DrivePass, DriveStep, DriveCommit, SweepCommit, Rollback, SweepAdvance, KillToken
<1>2. StartRun => saved' = Committed
  BY DEF StartRun, Begin
<1>3. ASSUME NEW S \in SUBSET DOMAIN tok, SweepClaim(S)
      PROVE  saved' = Committed /\ UNCHANGED run
  BY <1>3 DEF SweepClaim, Begin
<1>4. ASSUME NEW t \in DOMAIN tok, ResumeDue(t)
      PROVE  UNCHANGED <<tx, run>>
  BY <1>4 DEF ResumeDue
<1>5. ASSUME NEW r \in Requests, SignalWrite(r)
      PROVE  (saved' = Committed \/ UNCHANGED tx) /\ UNCHANGED run
  BY <1>5 DEF SignalWrite, Begin
<1>6. ASSUME NEW r \in Requests, NEW t \in DOMAIN tok, SignalRead(r, t)
      PROVE  UNCHANGED <<tx, run>>
  BY <1>6 DEF SignalRead
<1>7. RetryRun => saved' = Committed \/ UNCHANGED tx
  BY DEF RetryRun, Begin
<1> QED
  BY <1>1, <1>2, <1>3, <1>4, <1>5, <1>6, <1>7 DEF Next

\* A step shows a failed run as anything else only if retry_run reopened it.
LEMMA FailureStep ==
  ASSUME SInv, Next, VisibleRun.status = "failed", VisibleRun'.status # "failed"
  PROVE  VisibleRun'.retries > VisibleRun.retries
<1>1. CASE tx.mode = "none"
  <2>1. VisibleRun = run /\ (VisibleRun' = run' \/ VisibleRun' = run)
    BY <1>1, OutsideStep DEF VisibleRun, Committed
  <2>2. VisibleRun' = run' /\ RetryRun
    BY <1>1, <2>1, OutsideStep DEF StartRun
  <2>3. run \in RunRow
    BY DEF SInv, IInv, TypeOK
  <2> DEFINE n == run.retries + 1
  <2>4. run' = [run EXCEPT !.status = "running", !.retries = n] /\ n > run.retries
    BY <2>2, <2>3 DEF RetryRun, RunRow
  <2> HIDE DEF n
  <2>5. run'.retries = n
    BY <2>3, <2>4 DEF RunRow
  <2> QED
    BY <2>1, <2>2, <2>4, <2>5
<1>2. CASE tx.mode # "none"
  <2>1. DriveCommit \/ SweepCommit \/ Rollback
    BY <1>2, InsideStep DEF SInv, VisibleRun
  <2>2. (run' = run \/ run' = saved.run) /\ tx'.mode = "none"
    BY <2>1 DEF DriveCommit, SweepCommit, Rollback, NoTx
  <2> QED
    BY <1>2, <2>2 DEF VisibleRun, SInv, FailureKept
<1> QED
  BY <1>1, <1>2

\* A failed run stays failed until retry_run reopens it, under the same two
\* hypotheses: no sibling token that is still moving, in a drive or in a sweep,
\* with a fresh or a lagging status in memory, turns the failure into a success.
THEOREM FailureIsKept ==
  ASSUME NoTerminate
  PROVE  Spec /\ []QuietCompletions => FailureSticks
<1>1. SInv /\ QuietCompletions /\ [Next]_vars => SInv'
  BY SInvStep
<1>2. SInv /\ [Next]_vars =>
        [VisibleRun.status = "failed" /\ VisibleRun'.status # "failed"
           => VisibleRun'.retries > VisibleRun.retries]_vars
  <2>1. CASE Next
    BY <2>1, FailureStep
  <2>2. CASE UNCHANGED vars
    BY <2>2
  <2> QED
    BY <2>1, <2>2
<1> QED
  BY <1>1, <1>2, InitSInv, PTL DEF Spec, FailureSticks

----------------------------------------------------------------------------
(***************************************************************************)
(* The completion marker.  A completion that is written while its token is *)
(* still at the task it was read at puts the marker there; the engine then *)
(* never carries it to another node.                                       *)
(***************************************************************************)
HumanTask == {"user", "catch"}

\* No completion is written to a token that has moved since it was read.
FreshCompletions ==
  \A r \in Requests : req[r].state = "read" =>
    VisibleTok[req[r].token].node = req[r].data.completed

\* An outcome of a node without a human task: the marker is what it was, and no
\* token parks for a human.
Plain(data, o) ==
  /\ o.data.completed = data.completed
  /\ o.kind = "park" => o.wait \notin Signalable

\* The fields of the outcomes.
LEMMA OutcomeFields ==
  ASSUME NEW data \in Data, NEW kind \in {"advance", "emit", "park", "noop", "complete",
                                         "terminate", "fail"}
  PROVE  OutcomeOf(kind, data) \in Outcome /\ OutcomeOf(kind, data).data = data
         /\ OutcomeOf(kind, data).wait = "none" /\ OutcomeOf(kind, data).kind = kind
BY OutcomeOfType DEF OutcomeOf

LEMMA AdvanceFields ==
  ASSUME NEW targets \in Seq(Target), NEW data \in Data, NEW steps \in {0, 1}
  PROVE  /\ AdvanceTo(targets, data, steps) \in Outcome
         /\ AdvanceTo(targets, data, steps).data = data
         /\ AdvanceTo(targets, data, steps).kind = "advance"
<1> DEFINE o == OutcomeOf("advance", data)
<1>1. o \in Outcome /\ o.data = data
  BY OutcomeFields
<1> HIDE DEF o
<1>2. [o EXCEPT !.targets = targets, !.steps = steps].data = o.data
  BY <1>1 DEF Outcome
<1> QED
  BY <1>1, <1>2, AdvanceToType DEF AdvanceTo, o

LEMMA ParkFields ==
  ASSUME NEW wait \in WaitKind, NEW data \in Data
  PROVE  /\ Park(wait, TRUE, data) \in Outcome /\ Park(wait, TRUE, data).kind = "park"
         /\ Park(wait, TRUE, data).data = data /\ Park(wait, TRUE, data).wait = wait
         /\ Park(wait, FALSE, data) \in Outcome /\ Park(wait, FALSE, data).kind = "park"
         /\ Park(wait, FALSE, data).data = data /\ Park(wait, FALSE, data).wait = wait
<1> DEFINE o == OutcomeOf("park", data)
<1>1. o \in Outcome /\ o.data = data /\ o.kind = "park"
  BY OutcomeFields
<1> HIDE DEF o
<1>2. LET p == [o EXCEPT !.wait = wait, !.due = TRUE]
      IN p \in Outcome /\ p.kind = o.kind /\ p.data = o.data /\ p.wait = wait
  BY <1>1 DEF Outcome
<1>3. LET p == [o EXCEPT !.wait = wait, !.due = FALSE]
      IN p \in Outcome /\ p.kind = o.kind /\ p.data = o.data /\ p.wait = wait
  BY <1>1 DEF Outcome
<1> QED
  BY <1>1, <1>2, <1>3 DEF Park, o

\* Counting a step, a call or a dead letter changes neither data nor wait.
LEMMA PlainExcept ==
  ASSUME NEW data, NEW o \in Outcome, Plain(data, o)
  PROVE  /\ Plain(data, [o EXCEPT !.steps = 1])
         /\ Plain(data, [o EXCEPT !.dead_letter = TRUE, !.steps = 1])
         /\ Plain(data, [o EXCEPT !.call = TRUE])
<1>1. ASSUME NEW p, p.data = o.data, p.kind = o.kind, p.wait = o.wait
      PROVE  Plain(data, p)
  BY <1>1 DEF Plain
<1>2. LET p == [o EXCEPT !.steps = 1]
      IN p.data = o.data /\ p.kind = o.kind /\ p.wait = o.wait
  BY DEF Outcome
<1>3. LET p == [o EXCEPT !.dead_letter = TRUE, !.steps = 1]
      IN p.data = o.data /\ p.kind = o.kind /\ p.wait = o.wait
  BY DEF Outcome
<1>4. LET p == [o EXCEPT !.call = TRUE]
      IN p.data = o.data /\ p.kind = o.kind /\ p.wait = o.wait
  BY DEF Outcome
<1> QED
  BY <1>1, <1>2, <1>3, <1>4

\* The other markers and counters of the data column are apart from this one.
LEMMA DataFields ==
  ASSUME NEW data \in Data, NEW flag \in BOOLEAN, NEW k \in Nat, NEW n \in Nodes
  PROVE  /\ [data EXCEPT !.completed = NoNode, !.armed = flag].completed = NoNode
         /\ [data EXCEPT !.armed = flag].completed = data.completed
         /\ [data EXCEPT !.timerArmed = flag].completed = data.completed
         /\ [data EXCEPT !.attempts[n] = k].completed = data.completed
<1>1. [data EXCEPT !.completed = NoNode, !.armed = flag].completed = NoNode
  BY DEF Data
<1>2. [data EXCEPT !.armed = flag].completed = data.completed
  BY DEF Data
<1>3. [data EXCEPT !.timerArmed = flag].completed = data.completed
  BY DEF Data
<1>4. [data EXCEPT !.attempts[n] = k].completed = data.completed
  BY DEF Data
<1> QED
  BY <1>1, <1>2, <1>3, <1>4

\* A service task.
LEMMA ServicePlain ==
  ASSUME NEW n \in Nodes, NEW data \in Data
  PROVE  \A o \in DispatchService(n, data) : Plain(data, o)
<1> DEFINE attempt == data.attempts[n] + 1
           retried == [data EXCEPT !.attempts[n] = attempt]
           parked == Park("retry", TRUE, retried)
           failed == OutcomeOf("fail", data)
           reset == [data EXCEPT !.attempts[n] = 0]
<1>1. retried \in Data /\ retried.completed = data.completed
  <2>1. data.attempts[n] \in Nat
    BY DataExcept
  <2>2. attempt \in Nat
    BY <2>1
  <2> HIDE DEF attempt
  <2> QED
    BY <2>2, DataExcept, DataFields
<1>2. reset \in Data /\ reset.completed = data.completed
  BY DataExcept, DataFields
<1>3. "retry" \in WaitKind /\ "retry" \notin Signalable
  BY DEF WaitKind, Signalable
<1> HIDE DEF retried, reset
<1>4. parked \in Outcome /\ Plain(data, parked)
  <2>1. parked \in Outcome /\ parked.data = retried /\ parked.wait = "retry"
    BY <1>1, <1>3, ParkFields
  <2> HIDE DEF parked
  <2> QED
    BY <1>1, <1>3, <2>1 DEF Plain
<1>5. failed \in Outcome /\ Plain(data, failed)
  BY OutcomeFields DEF Plain
<1>6. /\ \A targets \in Seq(Target) :
           /\ AdvanceTo(targets, data, 1) \in Outcome
           /\ Plain(data, AdvanceTo(targets, data, 1))
      /\ AdvanceTo(OutEdges[n], reset, 1) \in Outcome
      /\ Plain(data, AdvanceTo(OutEdges[n], reset, 1))
  BY <1>2, AdvanceFields, TargetsType DEF Plain
<1> HIDE DEF parked, failed
<1>7. [parked EXCEPT !.steps = 1] \in Outcome
      /\ [failed EXCEPT !.dead_letter = TRUE, !.steps = 1] \in Outcome
  BY <1>4, <1>5, OutcomeExcept
<1>8. ErrorBoundary[n] # NoNode => Catch(ErrorBoundary[n]) \in Seq(Target)
  BY GraphAssumption, TargetsType
<1>9. ServiceFailure(n, data) \in Outcome /\ Plain(data, ServiceFailure(n, data))
  <2>1. \/ ServiceFailure(n, data) = [parked EXCEPT !.steps = 1]
        \/ ErrorBoundary[n] # NoNode
           /\ ServiceFailure(n, data) = AdvanceTo(Catch(ErrorBoundary[n]), data, 1)
        \/ ServiceFailure(n, data) = AdvanceTo(OutEdges[n], data, 1)
        \/ ServiceFailure(n, data) = [failed EXCEPT !.dead_letter = TRUE, !.steps = 1]
    BY DEF ServiceFailure, parked, failed, retried
  <2>2. CASE ServiceFailure(n, data) = [parked EXCEPT !.steps = 1]
    BY <1>4, <1>7, <2>2, PlainExcept
  <2>3. CASE ErrorBoundary[n] # NoNode
             /\ ServiceFailure(n, data) = AdvanceTo(Catch(ErrorBoundary[n]), data, 1)
    BY <1>6, <1>8, <2>3
  <2>4. CASE ServiceFailure(n, data) = AdvanceTo(OutEdges[n], data, 1)
    BY <1>6, <2>4, TargetsType
  <2>5. CASE ServiceFailure(n, data) = [failed EXCEPT !.dead_letter = TRUE, !.steps = 1]
    <3>1. Plain(data, [failed EXCEPT !.dead_letter = TRUE, !.steps = 1])
      BY <1>5, PlainExcept, Zenon
    <3> QED
      BY <1>7, <2>5, <3>1, Zenon
  <2> QED
    BY <2>1, <2>2, <2>3, <2>4, <2>5
<1> QED
  BY <1>5, <1>6, <1>9, PlainExcept DEF DispatchService, failed, reset

\* What a dispatch does with the marker: it drops it, or keeps it on a token
\* that does not move; and a token parks for a human at a human task only.
LEMMA DispatchMarker ==
  ASSUME NEW rows \in Seq(Row), NEW t \in DOMAIN rows, NEW o \in Dispatch(rows, t),
         rows[t].data.completed # NoNode => Kind[rows[t].node] \in HumanTask
  PROVE  /\ o.data.completed # NoNode =>
              o.data.completed = rows[t].data.completed /\ o.kind # "advance"
         /\ o.kind = "park" /\ o.wait \in Signalable => Kind[rows[t].node] \in HumanTask
<1> DEFINE n == rows[t].node
           data == rows[t].data
           Goal(p) == /\ p.data.completed # NoNode =>
                           p.data.completed = data.completed /\ p.kind # "advance"
                      /\ p.kind = "park" /\ p.wait \in Signalable => Kind[n] \in HumanTask
<1>1. n \in Nodes /\ data \in Data
  <2>1. rows[t] \in Row
    BY LenProperties
  <2> QED
    BY <2>1 DEF Row
<1> SUFFICES Goal(o)
  OBVIOUS
<1>2. data.completed # NoNode => Kind[n] \in HumanTask
  OBVIOUS
<1> HIDE DEF n, data
<1>3. CASE Kind[n] \notin HumanTask
  <2>1. \A p : Plain(data, p) => Goal(p)
    BY <1>2, <1>3 DEF Plain
  <2> SUFFICES Plain(data, o)
    BY <2>1
  <2>2. CASE IsJoin(n)
    <3>1. Kind[n] \in {"parallel", "inclusive"}
      BY <2>2 DEF IsJoin
    <3>2. o = JoinOutcome(rows, t)
      BY <2>2, <3>1 DEF Dispatch, n
    <3> DEFINE emit == OutcomeOf("emit", data)
               noop == OutcomeOf("noop", data)
               absorbed == BufferedAt(BufferArrival(rows, t), n)
    <3>3. /\ emit \in Outcome /\ emit.data = data /\ emit.kind = "emit"
          /\ noop.data = data /\ noop.kind = "noop"
      BY <1>1, OutcomeFields
    <3> HIDE DEF emit, noop, absorbed
    <3>4. \/ o = [emit EXCEPT !.targets = OutEdges[n], !.absorbed = absorbed]
          \/ o = noop
      BY <3>2 DEF JoinOutcome, emit, noop, absorbed, n, data
    <3>5. LET p == [emit EXCEPT !.targets = OutEdges[n], !.absorbed = absorbed]
          IN p.data = emit.data /\ p.kind = emit.kind
      BY <3>3 DEF Outcome
    <3> QED
      BY <3>3, <3>4, <3>5 DEF Plain
  <2>3. CASE ~IsJoin(n)
    <3>1. \A p \in DispatchService(n, data) : Plain(data, p)
      BY <1>1, ServicePlain
    <3>2. \A kind \in {"fail", "complete", "terminate"} : Plain(data, OutcomeOf(kind, data))
      BY <1>1, OutcomeFields DEF Plain
    <3>3. \A targets \in Seq(Target), steps \in {0, 1} : Plain(data, AdvanceTo(targets, data, steps))
      BY <1>1, AdvanceFields DEF Plain
    <3>4. OutEdges[n] \in Seq(Target)
      BY <1>1, TargetsType
    <3>5. Plain(data, DispatchRule(n, data))
      BY <3>2, <3>3, <3>4 DEF DispatchRule
    <3>6. \A p \in ExclusiveRoute(n, data) : Plain(data, p)
      <4>1. \A e \in Target : Plain(data, AdvanceTo(<<e>>, data, 0))
        BY <3>3, TargetsType
      <4>2. OutEdges[n] # <<>> => OutEdges[n][1] \in Target
        BY <3>4
      <4>3. UNION {Routes(n, h) : h \in Choices[n]} \subseteq Target
        <5>1. Choices[n] \subseteq Handles
          BY <1>1, GraphAssumption
        <5> QED
          BY <1>1, <5>1, TargetsType
      <4> QED
        BY <3>2, <4>1, <4>2, <4>3 DEF ExclusiveRoute
    <3>7. Plain(data, DispatchTimer(n, data))
      <4>1. \A flag \in BOOLEAN : /\ [data EXCEPT !.timerArmed = flag] \in Data
                                  /\ [data EXCEPT !.timerArmed = flag].completed = data.completed
        BY <1>1, DataExcept, DataFields
      <4>2. "timer" \in WaitKind /\ "timer" \notin Signalable
        BY DEF WaitKind, Signalable
      <4> QED
        <5> DEFINE fired == [data EXCEPT !.timerArmed = FALSE]
                   armed == [data EXCEPT !.timerArmed = TRUE]
                   go == AdvanceTo(OutEdges[n], fired, 0)
                   park == Park("timer", TRUE, armed)
        <5>1. fired \in Data /\ armed \in Data
              /\ fired.completed = data.completed /\ armed.completed = data.completed
          BY <4>1
        <5>2. DispatchTimer(n, data) = go \/ DispatchTimer(n, data) = park
          BY DEF DispatchTimer
        <5> HIDE DEF fired, armed
        <5>3. go.data = fired /\ go.kind = "advance"
          BY <3>4, <5>1, AdvanceFields
        <5>4. park.data = armed /\ park.wait = "timer"
          BY <4>2, <5>1, ParkFields
        <5> HIDE DEF go, park
        <5> QED
          BY <4>2, <5>1, <5>2, <5>3, <5>4 DEF Plain
    <3>8. Plain(data, AdvanceTo(OutEdges[n], data, 0)) /\ Plain(data, AdvanceTo(OutEdges[n], data, 1))
      BY <3>3, <3>4
    <3>9. /\ Plain(data, OutcomeOf("fail", data)) /\ Plain(data, OutcomeOf("complete", data))
          /\ Plain(data, OutcomeOf("terminate", data))
      BY <3>2
    <3>10. Kind[n] # "user" /\ Kind[n] # "catch"
      BY <1>3 DEF HumanTask
    <3> QED
      BY <2>3, <3>1, <3>5, <3>6, <3>7, <3>8, <3>9, <3>10, Zenon DEF Dispatch, n, data
  <2> QED
    BY <2>2, <2>3
<1>4. CASE Kind[n] = "catch"
  <2>1. o = Park("receive", FALSE, data)
    BY <1>4 DEF Dispatch, n, data, IsJoin
  <2>2. "receive" \in WaitKind
    BY DEF WaitKind
  <2>3. Park("receive", FALSE, data).kind = "park" /\ Park("receive", FALSE, data).data = data
    BY <1>1, <2>2, ParkFields
  <2>4. o.kind = "park" /\ o.data = data
    BY <2>1, <2>3
  <2> QED
    BY <1>4, <2>4 DEF HumanTask
<1>5. CASE Kind[n] = "user"
  <2>1. o = DispatchUser(n, data)
    BY <1>5 DEF Dispatch, n, data, IsJoin
  <2>2. OutEdges[n] \in Seq(Target)
        /\ (TimerBoundary[n] # NoNode => OutEdges[TimerBoundary[n]] \in Seq(Target))
    BY <1>1, TargetsType, GraphAssumption
  <2> DEFINE done == [data EXCEPT !.completed = NoNode, !.armed = FALSE]
             set(flag) == [data EXCEPT !.armed = flag]
  <2>3. /\ done \in Data /\ done.completed = NoNode
        /\ \A flag \in BOOLEAN : set(flag) \in Data /\ set(flag).completed = data.completed
    BY <1>1, DataExcept, DataFields
  <2>4. "user_task" \in WaitKind
    BY DEF WaitKind
  <2>5. CASE data.completed # NoNode
    <3>1. o = AdvanceTo(OutEdges[n], done, 1)
      BY <2>1, <2>5 DEF DispatchUser
    <3> HIDE DEF done
    <3>2. o.data = done /\ o.kind = "advance"
      BY <2>2, <2>3, <3>1, AdvanceFields
    <3> QED
      BY <2>3, <3>2
  <2>6. CASE data.completed = NoNode
    <3>1. \/ o = Park("user_task", FALSE, data)
          \/ TimerBoundary[n] # NoNode /\ o = AdvanceTo(OutEdges[TimerBoundary[n]], set(FALSE), 1)
          \/ o = Park("user_task", TRUE, set(TRUE))
      BY <2>1, <2>6 DEF DispatchUser
    <3> HIDE DEF set
    <3>2. o.data = data \/ o.data = set(FALSE) \/ o.data = set(TRUE)
      <4>1. Park("user_task", FALSE, data).data = data
        BY <1>1, <2>4, ParkFields
      <4>2. set(FALSE) \in Data /\ set(TRUE) \in Data
        BY <2>3
      <4>3. Park("user_task", TRUE, set(TRUE)).data = set(TRUE)
        BY <2>4, <4>2, ParkFields
      <4>4. TimerBoundary[n] # NoNode =>
              AdvanceTo(OutEdges[TimerBoundary[n]], set(FALSE), 1).data = set(FALSE)
        BY <2>2, <4>2, AdvanceFields
      <4> QED
        BY <3>1, <4>1, <4>3, <4>4
    <3>3. o.data.completed = NoNode
      BY <2>3, <2>6, <3>2
    <3> QED
      BY <1>5, <3>3 DEF HumanTask
  <2> QED
    BY <2>5, <2>6
<1> QED
  BY <1>3, <1>4, <1>5 DEF HumanTask

(***************************************************************************)
(* The invariant: a row with a marker stands at the human task the marker  *)
(* names, only human tasks are waited for by a human, and what a request   *)
(* has read names a human task.                                            *)
(***************************************************************************)
RowMarked(row) ==
  /\ row.data.completed # NoNode =>
       row.data.completed = row.node /\ Kind[row.node] \in HumanTask
  /\ row.status = "waiting" /\ row.wait \in Signalable => Kind[row.node] \in HumanTask

Marked(rows) == \A i \in DOMAIN rows : RowMarked(rows[i])

ReadsHuman ==
  \A r \in Requests : req[r].state = "read" => Kind[req[r].data.completed] \in HumanTask

CInv ==
  /\ IInv
  /\ Marked(tok)
  /\ tx.mode # "none" => Marked(saved.tok)
  /\ ReadsHuman

\* One advance keeps the markers in place.
LEMMA MarkedAdvance ==
  ASSUME CInv, IInv', NEW rows \in Seq(Row), NEW t \in DOMAIN rows, Marked(rows),
         NEW seen \in RunStatus, AdvanceOne(rows, t, seen), UNCHANGED <<saved, req>>
  PROVE  CInv'
<1>1. PICK o \in Dispatch(rows, t) : Advanced(rows, t, seen, o)
  BY AdvanceOutcome DEF CInv, IInv
<1>2. RowsAfter(rows, t, o, tok') /\ tx'.mode = tx.mode
  BY <1>1 DEF Advanced
<1>3. RowMarked(rows[t])
  BY DEF Marked
<1>4. /\ o.data.completed # NoNode =>
           o.data.completed = rows[t].data.completed /\ o.kind # "advance"
      /\ o.kind = "park" /\ o.wait \in Signalable => Kind[rows[t].node] \in HumanTask
  BY <1>3, DispatchMarker DEF RowMarked
<1>5. RowMarked(tok'[t])
  <2>1. TokenAfter(rows[t], o, tok'[t])
    BY <1>2 DEF RowsAfter
  <2>2. "join" \notin Signalable
    BY DEF Signalable
  <2> QED
    BY <1>3, <1>4, <2>1, <2>2 DEF RowMarked, TokenAfter
<1>6. ASSUME NEW i \in DOMAIN rows, i # t
      PROVE  RowMarked(tok'[i])
  <2>1. OtherAfter(rows[i], o, i, tok'[i])
    BY <1>2, <1>6 DEF RowsAfter
  <2> QED
    BY <2>1 DEF OtherAfter, Marked, RowMarked
<1>7. ASSUME NEW i \in DOMAIN tok' \ DOMAIN rows
      PROVE  RowMarked(tok'[i])
  <2>1. tok'[i].status = "active" /\ tok'[i].data = NoData
    BY <1>2 DEF RowsAfter
  <2>2. NoData.completed = NoNode
    BY DEF NoData
  <2> QED
    BY <2>1, <2>2 DEF RowMarked
<1>8. Marked(tok')
  BY <1>5, <1>6, <1>7 DEF Marked
<1> QED
  BY <1>2, <1>8 DEF CInv, ReadsHuman

\* A row that is rewritten where it stands, with its data, and does not wait.
LEMMA RowStays ==
  ASSUME NEW old, RowMarked(old), NEW row, row.node = old.node, row.data = old.data,
         row.status # "waiting"
  PROVE  RowMarked(row)
BY DEF RowMarked

\* Setting the status of a row.
LEMMA StatusFields ==
  ASSUME NEW r \in Row, NEW st \in TokenStatus
  PROVE  /\ [r EXCEPT !.status = st].status = st
         /\ [r EXCEPT !.status = st].node = r.node
         /\ [r EXCEPT !.status = st].data = r.data
BY DEF Row

\* A step outside every transaction.
LEMMA MarkedOpen ==
  ASSUME CInv, IInv', tx.mode = "none", Marked(tok'), ReadsHuman',
         saved' = Committed \/ UNCHANGED <<tx, saved>>
  PROVE  CInv'
<1>1. Committed.tok = tok
  BY DEF Committed
<1> QED
  BY <1>1 DEF CInv

\* Marking one row as taken or dead keeps the markers.
LEMMA MarkedStatus ==
  ASSUME TypeOK, Marked(tok), NEW t \in DOMAIN tok, NEW st \in TokenStatus \ {"waiting"}
  PROVE  Marked([tok EXCEPT ![t].status = st])
<1> DEFINE new == [tok EXCEPT ![t].status = st]
<1>1. /\ DOMAIN new = DOMAIN tok /\ new[t] = [tok[t] EXCEPT !.status = st]
      /\ \A i \in DOMAIN tok : i # t => new[i] = tok[i]
  BY MarkRow
<1>2. tok[t] \in Row
  <2>1. tok \in Seq(Row)
    BY DEF TypeOK
  <2> QED
    BY <2>1, LenProperties
<1> HIDE DEF new
<1>3. new[t].status = st /\ new[t].node = tok[t].node /\ new[t].data = tok[t].data
  BY <1>1, <1>2, StatusFields
<1>4. RowMarked(new[t])
  BY <1>3, RowStays DEF Marked
<1>5. Marked(new)
  BY <1>1, <1>4 DEF Marked
<1> QED
  BY <1>5 DEF new

\* Every step keeps the invariant.
LEMMA CInvStep ==
  ASSUME CInv, FreshCompletions, [Next]_vars
  PROVE  CInv'
<1>1. /\ IInv /\ IInv' /\ TypeOK /\ tok \in Seq(Row) /\ run.status \in RunStatus /\ Marked(tok)
      /\ \A i \in DOMAIN tok : tok[i] \in Row
  <2>1. IInv /\ IInv' /\ TypeOK /\ tok \in Seq(Row) /\ run.status \in RunStatus /\ Marked(tok)
    BY IInvStep DEF CInv, IInv, TypeOK, RunRow
  <2> QED
    BY <2>1, LenProperties
<1>2. CASE UNCHANGED vars
  BY <1>1, <1>2 DEF vars, CInv, Marked, ReadsHuman
<1>3. CASE StartRun
  <2>1. /\ tx.mode = "none" /\ UNCHANGED req /\ saved' = Committed
        /\ tok' = [i \in 1..Len(Triggers) |-> NewRow(Triggers[i], NoNode, "default")]
    BY <1>3 DEF StartRun, NoTx, Begin
  <2>2. \A n : RowMarked(NewRow(n, NoNode, "default"))
    BY DEF RowMarked, NewRow, NoData
  <2>3. Marked(tok')
    BY <2>1, <2>2 DEF Marked
  <2>4. ReadsHuman'
    BY <2>1 DEF CInv, ReadsHuman
  <2> QED
    BY <1>1, <2>1, <2>3, <2>4, MarkedOpen
<1>4. CASE DrivePass
  <2>1. UNCHANGED <<tok, saved, req>> /\ tx.mode = "drive"
    BY <1>4 DEF DrivePass
  <2> QED
    BY <1>1, <2>1 DEF CInv, Marked, ReadsHuman
<1>5. CASE DriveStep
  <2>1. PICK t \in tx.queue : AdvanceOne([tok EXCEPT ![t].status = "running"], t, tx.seen)
    BY <1>5 DEF DriveStep
  <2>2. /\ t \in DOMAIN tok /\ tx.seen \in RunStatus /\ "running" \in TokenStatus \ {"waiting"}
        /\ UNCHANGED <<saved, req>>
    BY <1>1, <1>5 DEF TypeOK, Tx, TokenStatus, DriveStep
  <2> DEFINE rows == [tok EXCEPT ![t].status = "running"]
  <2>3. rows \in Seq(Row) /\ t \in DOMAIN rows
    BY <1>1, <2>2, MarkRow
  <2>4. Marked(rows)
    BY <1>1, <2>2, MarkedStatus
  <2>5. AdvanceOne(rows, t, tx.seen)
    BY <2>1
  <2> HIDE DEF rows
  <2> QED
    BY <1>1, <2>2, <2>3, <2>4, <2>5, MarkedAdvance
<1>6. CASE DriveCommit \/ SweepCommit \/ Rollback
  <2>1. /\ tx.mode # "none" /\ tx'.mode = "none" /\ UNCHANGED req
        /\ tok' = tok \/ tok' = saved.tok
    BY <1>6 DEF DriveCommit, SweepCommit, Rollback, NoTx
  <2>2. Marked(tok')
    BY <2>1 DEF CInv
  <2> QED
    BY <1>1, <2>1, <2>2 DEF CInv, ReadsHuman
<1>7. ASSUME NEW S \in SUBSET DOMAIN tok, SweepClaim(S)
      PROVE  CInv'
  <2>1. /\ tx.mode = "none" /\ UNCHANGED req /\ saved' = Committed
        /\ tok' = [i \in DOMAIN tok |-> IF i \in S THEN [tok[i] EXCEPT !.status = "running"]
                                        ELSE tok[i]]
    BY <1>7 DEF SweepClaim, NoTx, Begin
  <2>2. ASSUME NEW i \in DOMAIN tok
        PROVE  RowMarked(tok'[i])
    <3>1. tok'[i] = tok[i] \/ tok'[i] = [tok[i] EXCEPT !.status = "running"]
      BY <2>1
    <3>2. "running" \in TokenStatus /\ RowMarked(tok[i])
      BY <1>1 DEF TokenStatus, Marked
    <3> DEFINE r == [tok[i] EXCEPT !.status = "running"]
    <3>3. r.status = "running" /\ r.node = tok[i].node /\ r.data = tok[i].data
      BY <1>1, <3>2, StatusFields
    <3> HIDE DEF r
    <3>4. RowMarked(r)
      BY <3>2, <3>3, RowStays
    <3> QED
      BY <3>1, <3>2, <3>4 DEF r
  <2>3. Marked(tok')
    BY <2>1, <2>2 DEF Marked
  <2>4. ReadsHuman'
    BY <2>1 DEF CInv, ReadsHuman
  <2> QED
    BY <1>1, <2>1, <2>3, <2>4, MarkedOpen
<1>8. ASSUME NEW t \in DOMAIN tok, SweepAdvance(t)
      PROVE  CInv'
  <2>1. UNCHANGED <<saved, req>> /\ tx.mode = "sweep"
    BY <1>8 DEF SweepAdvance
  <2>2. CASE tok[t].status = "running"
    <3>1. AdvanceOne(tok, t, run.status)
      BY <1>8, <2>2 DEF SweepAdvance
    <3> QED
      BY <1>1, <2>1, <3>1, MarkedAdvance
  <2>3. CASE tok[t].status # "running"
    <3>1. UNCHANGED tok
      BY <1>8, <2>3 DEF SweepAdvance
    <3> QED
      BY <1>1, <2>1, <3>1 DEF CInv, Marked, ReadsHuman
  <2> QED
    BY <2>2, <2>3
<1>9. ASSUME NEW t \in DOMAIN tok, KillToken(t)
      PROVE  CInv'
  <2>1. /\ UNCHANGED <<saved, req>> /\ tx.mode = "sweep"
        /\ tok' = [tok EXCEPT ![t].status = "dead"]
    BY <1>9 DEF KillToken
  <2>2. "dead" \in TokenStatus \ {"waiting"}
    BY DEF TokenStatus
  <2>3. Marked(tok')
    BY <1>1, <2>1, <2>2, MarkedStatus
  <2> QED
    BY <1>1, <2>1, <2>3 DEF CInv, ReadsHuman
<1>10. ASSUME NEW t \in DOMAIN tok, ResumeDue(t)
       PROVE  CInv'
  <2>1. /\ UNCHANGED <<tx, saved, req>> /\ tx.mode = "none"
        /\ tok' = [tok EXCEPT ![t].status = "active"]
    BY <1>10 DEF ResumeDue, NoTx
  <2>2. "active" \in TokenStatus \ {"waiting"}
    BY DEF TokenStatus
  <2>3. Marked(tok')
    BY <1>1, <2>1, <2>2, MarkedStatus
  <2> QED
    BY <1>1, <2>1, <2>3 DEF CInv, ReadsHuman
<1>11. ASSUME NEW q \in Requests, SignalWrite(q)
       PROVE  CInv'
  <2>1. /\ tx.mode = "none" /\ req[q].state = "read"
        /\ req' = [req EXCEPT ![q] = [NoRequest EXCEPT !.state = "done"]]
        /\ saved' = Committed \/ UNCHANGED <<tx, saved>>
    BY <1>11 DEF SignalWrite, NoTx, Begin
  <2> DEFINE t == req[q].token
             d == req[q].data
             r == [tok[t] EXCEPT !.status = "active", !.wait = "none", !.data = d]
  <2>2. t \in DOMAIN tok /\ d \in Data
    BY <1>1, <2>1 DEF TypeOK, Request
  <2>3. tok[t].node = d.completed
    BY <2>1 DEF FreshCompletions, VisibleTok
  <2>4. r \in Row /\ r.node = tok[t].node /\ r.data = d /\ r.status = "active"
    BY <1>1, <2>2 DEF Row, TokenStatus, WaitKind
  <2>5. tok' = [tok EXCEPT ![t] = r]
    BY <1>11 DEF SignalWrite
  <2>6. Kind[d.completed] \in HumanTask
    BY <2>1 DEF CInv, ReadsHuman
  <2> HIDE DEF r, d
  <2>7. RowMarked(r)
    BY <2>3, <2>4, <2>6 DEF RowMarked
  <2>8. Marked(tok')
    BY <1>1, <2>2, <2>5, <2>7 DEF Marked
  <2>9. ReadsHuman'
    <3> DEFINE p == [NoRequest EXCEPT !.state = "done"]
    <3>1. p.state = "done"
      BY DEF NoRequest
    <3>2. req' = [req EXCEPT ![q] = p] /\ req \in [Requests -> Request]
      BY <1>1, <2>1 DEF TypeOK
    <3> HIDE DEF p
    <3> QED
      BY <3>1, <3>2 DEF CInv, ReadsHuman
  <2> QED
    BY <1>1, <2>1, <2>8, <2>9, MarkedOpen
<1>12. ASSUME NEW q \in Requests, NEW t \in DOMAIN tok, SignalRead(q, t)
       PROVE  CInv'
  <2> DEFINE d == [tok[t].data EXCEPT !.completed = tok[t].node]
             p == [state |-> "read", token |-> t, seen |-> run.status, data |-> d]
  <2>1. /\ tx.mode = "none" /\ UNCHANGED <<tok, tx, saved>>
        /\ tok[t].status = "waiting" /\ tok[t].wait \in Signalable
        /\ req' = [req EXCEPT ![q] = p]
    BY <1>12 DEF SignalRead, NoTx
  <2>2. Kind[tok[t].node] \in HumanTask
    BY <1>1, <2>1 DEF Marked, RowMarked
  <2>3. d.completed = tok[t].node
    <3>1. tok[t].data \in Data
      BY <1>1 DEF Row
    <3> QED
      BY <3>1 DEF Data
  <2> HIDE DEF d
  <2>4. p.data = d
    OBVIOUS
  <2> HIDE DEF p
  <2>5. ReadsHuman'
    BY <1>1, <2>1, <2>2, <2>3, <2>4 DEF CInv, ReadsHuman, TypeOK
  <2>6. Marked(tok')
    BY <1>1, <2>1 DEF Marked
  <2> QED
    BY <1>1, <2>1, <2>5, <2>6, MarkedOpen
<1>13. CASE RetryRun
  <2>1. /\ tx.mode = "none" /\ UNCHANGED req /\ tok' = ReactivateDead(tok)
        /\ saved' = Committed \/ UNCHANGED <<tx, saved>>
    BY <1>13 DEF RetryRun, NoTx, Begin
  <2>2. ASSUME NEW i \in DOMAIN tok
        PROVE  RowMarked(tok'[i])
    <3> DEFINE r == [tok[i] EXCEPT !.status = "active", !.due = FALSE]
    <3>1. tok'[i] = tok[i] \/ tok'[i] = r
      BY <2>1 DEF ReactivateDead
    <3>2. r.status = "active" /\ r.node = tok[i].node /\ r.data = tok[i].data
      BY <1>1 DEF Row
    <3>3. RowMarked(tok[i])
      BY <1>1 DEF Marked
    <3> HIDE DEF r
    <3> QED
      BY <3>1, <3>2, <3>3, RowStays
  <2>3. Marked(tok')
    BY <2>1, <2>2 DEF Marked, ReactivateDead
  <2>4. ReadsHuman'
    BY <2>1 DEF CInv, ReadsHuman
  <2> QED
    BY <1>1, <2>1, <2>3, <2>4, MarkedOpen
<1> QED
  BY <1>2, <1>3, <1>4, <1>5, <1>6, <1>7, <1>8, <1>9, <1>10, <1>11, <1>12, <1>13 DEF Next

\* A completion marker is found only on a token at the task it completes, in
\* every graph, loops and SLA timers included, as long as no completion is
\* written to a token that has moved since it was read: DispatchUser pops the
\* marker before the token leaves, and no other node lets a marked token pass.
THEOREM MarkerOnTarget == Spec /\ []FreshCompletions => []CompletionOnTarget
<1>1. Init => CInv
  <2> SUFFICES ASSUME Init PROVE CInv
    OBVIOUS
  <2>1. tx.mode = "none" /\ DOMAIN tok = {}
    BY DEF Init, NoTx
  <2>2. \A r \in Requests : req[r].state = "idle"
    BY DEF Init, NoRequest
  <2> QED
    BY <2>1, <2>2, InitIInv DEF CInv, Marked, ReadsHuman
<1>2. CInv /\ FreshCompletions /\ [Next]_vars => CInv'
  BY CInvStep
<1>3. CInv => CompletionOnTarget
  BY DEF CInv, Marked, RowMarked, CompletionOnTarget, VisibleTok
<1> QED
  BY <1>1, <1>2, <1>3, PTL DEF Spec

----------------------------------------------------------------------------
(***************************************************************************)
(* Why an open run is never stranded.  _settle_run leaves a run open only  *)
(* while it has a live token, no claim outlives its transaction, and a     *)
(* token that waits, waits for a human, for a resume_at that is set, or in *)
(* the buffer of a join.  The first two hold in every graph, so a join is  *)
(* the only place where a run can be stranded.                             *)
(***************************************************************************)
OpenRun == {"running", "waiting"}

\* A token that parks can be woken: by a human, or by a resume_at.
Wakes(o) ==
  o.kind = "park" => o.wait \in Signalable \/ (o.wait \in {"timer", "retry"} /\ o.due)

\* What parking puts into the outcome.
LEMMA ParkDue ==
  ASSUME NEW wait \in WaitKind, NEW data \in Data, NEW flag \in BOOLEAN
  PROVE  /\ Park(wait, flag, data) \in Outcome
         /\ Park(wait, flag, data).wait = wait /\ Park(wait, flag, data).due = flag
<1> DEFINE o == OutcomeOf("park", data)
<1>1. o \in Outcome
  BY OutcomeFields
<1> HIDE DEF o
<1>2. LET p == [o EXCEPT !.wait = wait, !.due = flag]
      IN p \in Outcome /\ p.wait = wait /\ p.due = flag
  BY <1>1 DEF Outcome
<1> QED
  BY <1>2 DEF Park, o

\* Recording a step or a call changes neither the wait nor its time.
LEMMA WakesExcept ==
  ASSUME NEW o \in Outcome, Wakes(o)
  PROVE  /\ Wakes([o EXCEPT !.steps = 1])
         /\ Wakes([o EXCEPT !.call = TRUE])
<1>1. ASSUME NEW p, p.kind = o.kind, p.wait = o.wait, p.due = o.due
      PROVE  Wakes(p)
  BY <1>1 DEF Wakes
<1>2. LET p == [o EXCEPT !.steps = 1] IN p.kind = o.kind /\ p.wait = o.wait /\ p.due = o.due
  BY DEF Outcome
<1>3. LET p == [o EXCEPT !.call = TRUE] IN p.kind = o.kind /\ p.wait = o.wait /\ p.due = o.due
  BY DEF Outcome
<1> QED
  BY <1>1, <1>2, <1>3

\* A service task parks only for a timed retry.
LEMMA ServiceWakes ==
  ASSUME NEW n \in Nodes, NEW data \in Data
  PROVE  \A o \in DispatchService(n, data) : Wakes(o)
<1> DEFINE attempt == data.attempts[n] + 1
           retried == [data EXCEPT !.attempts[n] = attempt]
           parked == Park("retry", TRUE, retried)
           reset == [data EXCEPT !.attempts[n] = 0]
           failed == OutcomeOf("fail", data)
<1>1. retried \in Data /\ reset \in Data
  <2>1. data.attempts[n] \in Nat
    BY DataExcept
  <2>2. attempt \in Nat
    BY <2>1
  <2> HIDE DEF attempt
  <2> QED
    BY <2>2, DataExcept
<1> HIDE DEF retried, reset
<1>2. parked \in Outcome /\ Wakes(parked)
  <2>1. "retry" \in WaitKind
    BY DEF WaitKind
  <2>2. parked \in Outcome /\ parked.wait = "retry" /\ parked.due = TRUE
    BY <1>1, <2>1, ParkDue
  <2> HIDE DEF parked
  <2> QED
    BY <2>2 DEF Wakes
<1>3. failed \in Outcome /\ failed.kind = "fail"
  BY OutcomeFields
<1> HIDE DEF parked, failed
<1>4. [parked EXCEPT !.steps = 1] \in Outcome /\ Wakes([parked EXCEPT !.steps = 1])
  BY <1>2, OutcomeExcept, WakesExcept
<1>5. /\ [failed EXCEPT !.dead_letter = TRUE, !.steps = 1] \in Outcome
      /\ Wakes([failed EXCEPT !.dead_letter = TRUE, !.steps = 1])
  <2>1. LET p == [failed EXCEPT !.dead_letter = TRUE, !.steps = 1]
        IN p \in Outcome /\ p.kind = failed.kind
    BY <1>3, OutcomeExcept
  <2> QED
    BY <1>3, <2>1 DEF Wakes
<1>6. /\ \A targets \in Seq(Target) : AdvanceTo(targets, data, 1) \in Outcome
                                     /\ Wakes(AdvanceTo(targets, data, 1))
      /\ AdvanceTo(OutEdges[n], reset, 1) \in Outcome /\ Wakes(AdvanceTo(OutEdges[n], reset, 1))
  BY <1>1, AdvanceFields, TargetsType DEF Wakes
<1>7. ErrorBoundary[n] # NoNode => Catch(ErrorBoundary[n]) \in Seq(Target)
  BY GraphAssumption, TargetsType
<1>8. ServiceFailure(n, data) \in Outcome /\ Wakes(ServiceFailure(n, data))
  <2>1. \/ ServiceFailure(n, data) = [parked EXCEPT !.steps = 1]
        \/ ErrorBoundary[n] # NoNode
           /\ ServiceFailure(n, data) = AdvanceTo(Catch(ErrorBoundary[n]), data, 1)
        \/ ServiceFailure(n, data) = AdvanceTo(OutEdges[n], data, 1)
        \/ ServiceFailure(n, data) = [failed EXCEPT !.dead_letter = TRUE, !.steps = 1]
    BY DEF ServiceFailure, parked, failed, retried
  <2>2. OutEdges[n] \in Seq(Target)
    BY TargetsType
  <2> QED
    BY <1>4, <1>5, <1>6, <1>7, <2>1, <2>2, Zenon
<1>9. Wakes(failed)
  BY <1>3 DEF Wakes
<1> QED
  BY <1>3, <1>6, <1>8, <1>9, WakesExcept DEF DispatchService, failed, reset

\* In every node: what parks can be woken, and only a join buffers a token.
LEMMA DispatchWakes ==
  ASSUME NEW rows \in Seq(Row), NEW t \in DOMAIN rows, NEW o \in Dispatch(rows, t)
  PROVE  Wakes(o) /\ (o.kind = "noop" => IsJoin(rows[t].node))
<1> DEFINE n == rows[t].node
           data == rows[t].data
<1>1. n \in Nodes /\ data \in Data
  <2>1. rows[t] \in Row
    BY LenProperties
  <2> QED
    BY <2>1 DEF Row
<1> HIDE DEF n, data
<1>2. CASE IsJoin(n)
  <2>1. Kind[n] \in {"parallel", "inclusive"}
    BY <1>2 DEF IsJoin
  <2>2. o = JoinOutcome(rows, t)
    BY <1>2, <2>1 DEF Dispatch, n
  <2>3. o.kind # "park"
    BY <2>2, JoinOutcomeType
  <2> QED
    BY <1>2, <2>3 DEF Wakes, n
<1>3. CASE ~IsJoin(n)
  <2> DEFINE Good(p) == Wakes(p) /\ p.kind # "noop"
  <2>1. \A p \in DispatchService(n, data) : Good(p)
    BY <1>1, ServiceWakes, DispatchServiceLocal DEF LocalOutcome
  <2>2. \A kind \in {"fail", "complete", "terminate"} : Good(OutcomeOf(kind, data))
    BY <1>1, OutcomeFields DEF Wakes
  <2>3. \A targets \in Seq(Target), steps \in {0, 1}, d \in Data : Good(AdvanceTo(targets, d, steps))
    BY AdvanceFields DEF Wakes
  <2>4. OutEdges[n] \in Seq(Target)
    BY <1>1, TargetsType
  <2>5. Good(DispatchRule(n, data))
    BY <1>1, <2>2, <2>3, <2>4 DEF DispatchRule
  <2>6. \A p \in ExclusiveRoute(n, data) : Good(p)
    <3>1. \A e \in Target : Good(AdvanceTo(<<e>>, data, 0))
      BY <1>1, <2>3, TargetsType
    <3>2. OutEdges[n] # <<>> => OutEdges[n][1] \in Target
      BY <2>4
    <3>3. UNION {Routes(n, h) : h \in Choices[n]} \subseteq Target
      <4>1. Choices[n] \subseteq Handles
        BY <1>1, GraphAssumption
      <4> QED
        BY <1>1, <4>1, TargetsType
    <3> HIDE DEF Good
    <3> QED
      BY <2>2, <3>1, <3>2, <3>3 DEF ExclusiveRoute
  <2>7. \A wait \in Signalable, d \in Data, flag \in BOOLEAN : Good(Park(wait, flag, d))
    <3>1. Signalable \subseteq WaitKind
      BY DEF Signalable, WaitKind
    <3>2. \A wait \in Signalable, d \in Data, flag \in BOOLEAN :
            Park(wait, flag, d).wait = wait /\ Park(wait, flag, d).kind = "park"
      BY <3>1, ParkDue, ParkType
    <3> QED
      BY <3>2 DEF Wakes
  <2>8. \A d \in Data : Good(Park("timer", TRUE, d))
    <3>1. "timer" \in WaitKind
      BY DEF WaitKind
    <3>2. \A d \in Data : /\ Park("timer", TRUE, d).wait = "timer" /\ Park("timer", TRUE, d).due = TRUE
                          /\ Park("timer", TRUE, d).kind = "park"
      BY <3>1, ParkDue, ParkType
    <3> QED
      BY <3>2 DEF Wakes
  <2> HIDE DEF Good
  <2>9. Good(DispatchTimer(n, data))
    <3>1. [data EXCEPT !.timerArmed = FALSE] \in Data /\ [data EXCEPT !.timerArmed = TRUE] \in Data
      BY <1>1, DataExcept
    <3> QED
      BY <2>3, <2>4, <2>8, <3>1 DEF DispatchTimer
  <2>10. Good(DispatchUser(n, data))
    <3>1. /\ [data EXCEPT !.completed = NoNode, !.armed = FALSE] \in Data
          /\ [data EXCEPT !.armed = FALSE] \in Data /\ [data EXCEPT !.armed = TRUE] \in Data
      BY <1>1, DataExcept
    <3>2. TimerBoundary[n] # NoNode => OutEdges[TimerBoundary[n]] \in Seq(Target)
      BY <1>1, TargetsType, GraphAssumption
    <3>3. "user_task" \in Signalable
      BY DEF Signalable
    <3> QED
      BY <1>1, <2>3, <2>4, <2>7, <3>1, <3>2, <3>3 DEF DispatchUser
  <2>11. Good(Park("receive", FALSE, data))
    BY <1>1, <2>7 DEF Signalable
  <2>12. Good(AdvanceTo(OutEdges[n], data, 0)) /\ Good(AdvanceTo(OutEdges[n], data, 1))
    BY <1>1, <2>3, <2>4
  <2>13. /\ Good(OutcomeOf("fail", data)) /\ Good(OutcomeOf("complete", data))
         /\ Good(OutcomeOf("terminate", data))
    BY <2>2
  <2>14. Good(o)
    BY <1>3, <2>1, <2>5, <2>6, <2>9, <2>10, <2>11, <2>12, <2>13, Zenon DEF Dispatch, n, data
  <2> QED
    BY <2>14 DEF Good
<1> QED
  BY <1>2, <1>3

\* After _apply the dispatched token waits only where the outcome parked it, or
\* in the buffer of its join.
LEMMA ApplyWaits ==
  ASSUME NEW rows \in Seq(Row), NEW t \in DOMAIN rows, NEW o \in Outcome,
         o.kind = "emit" => t \in o.absorbed,
         Apply(rows, t, o)[t].status = "waiting"
  PROVE  LET r == Apply(rows, t, o)[t]
         IN \/ o.kind = "noop" /\ r.wait = "join" /\ r.node = rows[t].node
            \/ o.kind = "park" /\ r.wait = o.wait /\ r.due = o.due
<1>1. rows[t] \in Row /\ rows \in [DOMAIN rows -> Row] /\ rows \in [1..Len(rows) -> Row]
      /\ Len(rows) \in Nat /\ t \in 1..Len(rows)
  BY LenProperties
<1>2. /\ o.targets \in Seq(Target) /\ o.wait \in WaitKind /\ o.due \in BOOLEAN /\ o.data \in Data
      /\ o.kind \in {"advance", "emit", "park", "noop", "complete", "terminate", "fail"}
  BY DEF Outcome
<1>3. rows[t].node \in Nodes
  BY <1>1 DEF Row
<1> DEFINE fresh == NewRows(rows[t].node, o.targets)
<1>4. fresh \in Seq(Row)
  BY <1>2, <1>3, NewRowsType
<1> HIDE DEF fresh
<1>5. ASSUME NEW mid \in Seq(Row), DOMAIN mid = DOMAIN rows
      PROVE  (mid \o fresh)[t] = mid[t]
  <2>1. Len(mid) = Len(rows)
    BY <1>5, RewriteLength
  <2> QED
    BY <1>1, <1>4, <2>1, ConcatProperties
<1>6. \A st \in {"dead", "completed"} : [rows EXCEPT ![t].status = st][t].status # "waiting"
  BY <1>1 DEF Row
<1>7. CASE o.kind = "noop"
  BY <1>7, BufferArrivalType DEF Apply
<1>8. CASE o.kind = "park"
  <2> DEFINE r == [rows[t] EXCEPT !.status = "waiting", !.wait = o.wait, !.due = o.due,
                                  !.data = o.data]
  <2>1. r.wait = o.wait /\ r.due = o.due
    BY <1>1, <1>2 DEF Row
  <2>2. Apply(rows, t, o)[t] = r
    BY <1>1, <1>8 DEF Apply
  <2> HIDE DEF r
  <2> QED
    BY <1>8, <2>1, <2>2
<1>9. CASE o.kind \in {"complete", "fail"}
  BY <1>6, <1>9 DEF Apply
<1>10. CASE o.kind = "terminate"
  <2>1. [rows[t] EXCEPT !.status = "completed"].status = "completed"
    BY <1>1 DEF Row
  <2>2. Apply(rows, t, o)[t] = [rows[t] EXCEPT !.status = "completed"]
    BY <1>10 DEF Apply, KillAll
  <2> QED
    BY <2>1, <2>2
<1>11. CASE o.kind = "advance"
  <2>1. CASE OverBudget(rows, o)
    BY <1>6, <1>11, <2>1 DEF Apply
  <2>2. CASE ~OverBudget(rows, o) /\ Len(o.targets) = 1
    <3> DEFINE r == [rows[t] EXCEPT !.status = "active", !.node = o.targets[1].node,
                                    !.from = rows[t].node, !.via = o.targets[1].via,
                                    !.data = o.data]
    <3>1. r.status = "active"
      BY <1>1 DEF Row
    <3>2. Apply(rows, t, o)[t] = r
      BY <1>1, <1>11, <2>2 DEF Apply, MoveOn
    <3> QED
      BY <3>1, <3>2
  <2>3. CASE ~OverBudget(rows, o) /\ Len(o.targets) # 1
    <3> DEFINE r == [rows[t] EXCEPT !.status = "completed", !.data = o.data]
               mid == [rows EXCEPT ![t] = r]
    <3>1. r \in Row /\ r.status = "completed"
      BY <1>1, <1>2 DEF Row, TokenStatus
    <3>2. Apply(rows, t, o) = mid \o fresh
      BY <1>1, <1>11, <2>3 DEF Apply, MoveOn, fresh
    <3> HIDE DEF r
    <3>3. mid \in Seq(Row) /\ DOMAIN mid = DOMAIN rows /\ mid[t] = r
      BY <1>1, <3>1, ExceptSeq, LenProperties
    <3> HIDE DEF mid
    <3>4. Apply(rows, t, o)[t] = r
      BY <1>5, <3>2, <3>3
    <3> QED
      BY <3>1, <3>4
  <2> QED
    BY <2>1, <2>2, <2>3
<1>12. CASE o.kind = "emit"
  <2> DEFINE mid == Absorb(rows, o.absorbed)
             r == [rows[t] EXCEPT !.status = "dead", !.wait = "join"]
  <2>1. r.status = "dead"
    BY <1>1 DEF Row
  <2>2. mid \in Seq(Row) /\ DOMAIN mid = DOMAIN rows
    <3>1. \A i \in DOMAIN rows : [rows[i] EXCEPT !.status = "dead", !.wait = "join"] \in Row
      BY <1>1 DEF Row, TokenStatus, WaitKind
    <3>2. mid \in [DOMAIN rows -> Row]
      BY <1>1, <3>1 DEF Absorb
    <3> HIDE DEF mid
    <3> QED
      BY <3>2, RewriteRows
  <2>3. mid[t] = r
    BY <1>1, <1>12 DEF Absorb
  <2>4. Apply(rows, t, o) = mid \/ Apply(rows, t, o) = mid \o fresh
    BY <1>12 DEF Apply, fresh
  <2> HIDE DEF mid, r
  <2>5. Apply(rows, t, o)[t] = r
    BY <1>5, <2>2, <2>3, <2>4
  <2> QED
    BY <2>1, <2>5
<1> QED
  BY <1>2, <1>7, <1>8, <1>9, <1>10, <1>11, <1>12

(***************************************************************************)
(* The invariant.                                                          *)
(***************************************************************************)

\* A token that waits can be woken, or is buffered at a join.
WaitKnown(row) ==
  row.status = "waiting" => Wakeable(row) \/ (row.wait = "join" /\ IsJoin(row.node))

WaitsKnown(rows) == \A i \in DOMAIN rows : WaitKnown(rows[i])

\* A run is open only while it has a live token.
KeptOpen(status, rows) == status \in OpenRun => \E i \in DOMAIN rows : rows[i].status \in Live

\* An end that a drive has in memory is written.
EndIsWritten == tx.mode = "drive" /\ tx.seen \in TerminalRun => run.status = tx.seen

LInv ==
  /\ IInv
  /\ ReadsOpen
  /\ EndIsWritten
  /\ KeptOpen(run.status, tok) /\ WaitsKnown(tok)
  /\ tx.mode # "none" => KeptOpen(saved.run.status, saved.tok) /\ WaitsKnown(saved.tok)

\* _settle_run leaves a run unsettled only with a live row.
LEMMA SettledOpen ==
  ASSUME NEW rows, NEW t, NEW o, NEW seen,
         StatusAfter(rows, t, o, seen) \notin TerminalRun
  PROVE  \E i \in DOMAIN Apply(rows, t, o) : Apply(rows, t, o)[i].status \in Live
<1> DEFINE new == Apply(rows, t, o)
           s == IF o.kind = "fail" \/ OverBudget(rows, o) THEN "failed"
                ELSE IF o.kind = "terminate" THEN "succeeded" ELSE seen
<1>1. Settle(new, s) \notin TerminalRun
  BY DEF StatusAfter
<1> HIDE DEF new, s
<1>2. \E i \in DOMAIN new : new[i].status \in Live
  BY <1>1 DEF Settle, Live, TerminalRun
<1> QED
  BY <1>2 DEF new

\* One advance keeps the invariant.
LEMMA LiveAdvance ==
  ASSUME LInv, IInv', tx.mode # "none",
         NEW rows \in Seq(Row), NEW t \in DOMAIN rows, WaitsKnown(rows),
         NEW seen \in RunStatus, AdvanceOne(rows, t, seen), UNCHANGED <<saved, req>>,
         IF tx.mode = "drive" THEN seen = tx.seen ELSE seen = run.status
  PROVE  LInv'
<1>1. PICK o \in Dispatch(rows, t) : o \in Outcome /\ Advanced(rows, t, seen, o)
  BY AdvanceOutcome DEF LInv, IInv
<1>2. /\ tok' = Apply(rows, t, o) /\ RowsAfter(rows, t, o, tok')
      /\ tx'.mode = tx.mode /\ tx'.seen = StatusAfter(rows, t, o, seen)
      /\ run'.status = WriteStatus(tx'.seen, seen)
  BY <1>1 DEF Advanced
<1>3. \/ tx'.seen = seen /\ run'.status = run.status
      \/ run'.status = tx'.seen
  BY <1>2 DEF WriteStatus
<1>4. KeptOpen(run'.status, tok')
  <2>1. CASE tx'.seen \notin TerminalRun
    <3>1. \E i \in DOMAIN tok' : tok'[i].status \in Live
      BY <1>2, <2>1, SettledOpen
    <3> QED
      BY <3>1 DEF KeptOpen
  <2>2. CASE tx'.seen \in TerminalRun
    <3>1. run'.status \in TerminalRun
      BY <1>3, <2>2 DEF LInv, EndIsWritten
    <3> QED
      BY <3>1 DEF KeptOpen, OpenRun, TerminalRun
  <2> QED
    BY <2>1, <2>2
<1>5. EndIsWritten'
  BY <1>2, <1>3 DEF LInv, EndIsWritten
<1>6. WaitKnown(tok'[t])
  <2> SUFFICES ASSUME tok'[t].status = "waiting"
               PROVE  \/ Wakeable(tok'[t])
                      \/ tok'[t].wait = "join" /\ IsJoin(tok'[t].node)
    BY DEF WaitKnown
  <2>1. o.kind = "emit" => t \in o.absorbed
    BY <1>1, DispatchType
  <2>2. \/ o.kind = "noop" /\ tok'[t].wait = "join" /\ tok'[t].node = rows[t].node
        \/ o.kind = "park" /\ tok'[t].wait = o.wait /\ tok'[t].due = o.due
    BY <1>1, <1>2, <2>1, ApplyWaits
  <2>3. Wakes(o) /\ (o.kind = "noop" => IsJoin(rows[t].node))
    BY <1>1, DispatchWakes
  <2> QED
    BY <2>2, <2>3 DEF Wakes, Wakeable, Due
<1>7. ASSUME NEW i \in DOMAIN tok', i # t
      PROVE  WaitKnown(tok'[i])
  <2>1. CASE i \in DOMAIN rows
    <3>1. OtherAfter(rows[i], o, i, tok'[i]) /\ WaitKnown(rows[i])
      BY <1>2, <1>7, <2>1 DEF RowsAfter, WaitsKnown
    <3> QED
      BY <3>1 DEF OtherAfter, WaitKnown
  <2>2. CASE i \notin DOMAIN rows
    BY <1>2, <2>2 DEF RowsAfter, WaitKnown
  <2> QED
    BY <2>1, <2>2
<1>8. WaitsKnown(tok')
  BY <1>6, <1>7 DEF WaitsKnown
<1> QED
  BY <1>2, <1>4, <1>5, <1>8 DEF LInv, ReadsOpen

\* A step outside every transaction that leaves some token live.
LEMMA LiveOutside ==
  ASSUME LInv, IInv', tx.mode = "none", WaitsKnown(tok'), ReadsOpen',
         \E i \in DOMAIN tok' : tok'[i].status \in Live,
         \/ tx'.mode = "none"
         \/ tx'.seen \in TerminalRun => run'.status = tx'.seen,
         saved' = Committed \/ UNCHANGED <<tx, saved>>
  PROVE  LInv'
<1>1. Committed.tok = tok /\ Committed.run = run
  BY DEF Committed
<1>2. KeptOpen(run'.status, tok')
  BY DEF KeptOpen
<1> QED
  BY <1>1, <1>2 DEF LInv, EndIsWritten

\* Setting a row to a status that does not wait keeps what is said of the others.
LEMMA WaitsStatus ==
  ASSUME TypeOK, WaitsKnown(tok), NEW t \in DOMAIN tok, NEW st \in TokenStatus \ {"waiting"}
  PROVE  WaitsKnown([tok EXCEPT ![t].status = st])
<1> DEFINE new == [tok EXCEPT ![t].status = st]
<1>1. /\ DOMAIN new = DOMAIN tok /\ new[t] = [tok[t] EXCEPT !.status = st]
      /\ \A i \in DOMAIN tok : i # t => new[i] = tok[i]
  BY MarkRow
<1>2. tok[t] \in Row
  <2>1. tok \in Seq(Row)
    BY DEF TypeOK
  <2> QED
    BY <2>1, LenProperties
<1> HIDE DEF new
<1>3. new[t].status # "waiting"
  BY <1>1, <1>2, StatusFields
<1>4. WaitsKnown(new)
  BY <1>1, <1>3 DEF WaitsKnown, WaitKnown
<1> QED
  BY <1>4 DEF new

\* Every step keeps the invariant, in every graph and whatever the requests do.
LEMMA LInvStep ==
  ASSUME LInv, [Next]_vars
  PROVE  LInv'
<1>1. /\ IInv /\ IInv' /\ TypeOK /\ tok \in Seq(Row) /\ run \in RunRow /\ tx \in Tx
      /\ run.status \in RunStatus /\ WaitsKnown(tok)
      /\ \A i \in DOMAIN tok : tok[i] \in Row
  <2>1. IInv /\ IInv' /\ TypeOK /\ tok \in Seq(Row) /\ run \in RunRow /\ tx \in Tx
        /\ run.status \in RunStatus /\ WaitsKnown(tok)
    BY IInvStep DEF LInv, IInv, TypeOK, RunRow
  <2> QED
    BY <2>1, LenProperties
<1>2. CASE UNCHANGED vars
  BY <1>1, <1>2 DEF vars, LInv, ReadsOpen, EndIsWritten, KeptOpen, WaitsKnown
<1>3. CASE StartRun
  <2>1. /\ tx.mode = "none" /\ UNCHANGED req /\ saved' = Committed
        /\ tok' = [i \in 1..Len(Triggers) |-> NewRow(Triggers[i], NoNode, "default")]
        /\ run' = [run EXCEPT !.status = IF Triggers = <<>> THEN "failed" ELSE "running"]
        /\ tx' = [NoTx EXCEPT !.mode = "drive", !.queue = {}, !.seen = run'.status]
    BY <1>3 DEF StartRun, NoTx, Begin
  <2>2. \A n : NewRow(n, NoNode, "default").status = "active"
    BY DEF NewRow
  <2>3. WaitsKnown(tok')
    BY <2>1, <2>2 DEF WaitsKnown, WaitKnown
  <2>4. run'.status = (IF Triggers = <<>> THEN "failed" ELSE "running")
    BY <1>1, <2>1 DEF RunRow
  <2>5. KeptOpen(run'.status, tok')
    <3>1. CASE Triggers = <<>>
      BY <2>4, <3>1 DEF KeptOpen, OpenRun
    <3>2. CASE Triggers # <<>>
      <4>1. Len(Triggers) \in Nat /\ Len(Triggers) # 0
        BY <3>2, GraphAssumption, LenProperties, EmptySeq
      <4>2. 1 \in DOMAIN tok' /\ tok'[1].status = "active"
        BY <2>1, <2>2, <4>1
      <4> QED
        BY <4>2 DEF KeptOpen, Live
    <3> QED
      BY <3>1, <3>2
  <2>6. tx'.seen = run'.status
    BY <2>1 DEF NoTx
  <2>7. saved'.tok = tok /\ saved'.run = run
    BY <2>1 DEF Committed
  <2> QED
    BY <1>1, <2>1, <2>3, <2>5, <2>6, <2>7 DEF LInv, ReadsOpen, EndIsWritten
<1>4. CASE DrivePass
  <2> DEFINE n == tx.passes + 1
             active == ListActive
  <2>1. /\ UNCHANGED <<tok, run, saved, req>> /\ tx.mode = "drive"
        /\ tx' = [tx EXCEPT !.queue = active, !.held = active, !.staleWaiting = {}, !.passes = n]
    BY <1>4 DEF DrivePass
  <2> HIDE DEF n, active
  <2>2. tx'.mode = tx.mode /\ tx'.seen = tx.seen
    BY <1>1, <2>1 DEF Tx
  <2> QED
    BY <1>1, <2>1, <2>2 DEF LInv, ReadsOpen, EndIsWritten, KeptOpen, WaitsKnown
<1>5. CASE DriveStep
  <2>1. PICK t \in tx.queue : AdvanceOne([tok EXCEPT ![t].status = "running"], t, tx.seen)
    BY <1>5 DEF DriveStep
  <2>2. /\ t \in DOMAIN tok /\ tx.seen \in RunStatus /\ "running" \in TokenStatus \ {"waiting"}
        /\ tx.mode = "drive" /\ UNCHANGED <<saved, req>>
    BY <1>1, <1>5 DEF TypeOK, Tx, TokenStatus, DriveStep
  <2> DEFINE rows == [tok EXCEPT ![t].status = "running"]
  <2>3. rows \in Seq(Row) /\ t \in DOMAIN rows
    BY <1>1, <2>2, MarkRow
  <2>4. WaitsKnown(rows)
    BY <1>1, <2>2, WaitsStatus
  <2>5. AdvanceOne(rows, t, tx.seen)
    BY <2>1
  <2> HIDE DEF rows
  <2> QED
    BY <1>1, <2>2, <2>3, <2>4, <2>5, LiveAdvance
<1>6. CASE DriveCommit \/ SweepCommit \/ Rollback
  <2>1. /\ tx.mode # "none" /\ tx'.mode = "none" /\ UNCHANGED req
        /\ \/ UNCHANGED <<tok, run>>
           \/ tok' = saved.tok /\ run' = saved.run
    BY <1>6 DEF DriveCommit, SweepCommit, Rollback, NoTx
  <2>2. KeptOpen(run'.status, tok') /\ WaitsKnown(tok')
    BY <2>1 DEF LInv, KeptOpen, WaitsKnown
  <2> QED
    BY <1>1, <2>1, <2>2 DEF LInv, ReadsOpen, EndIsWritten
<1>7. ASSUME NEW S \in SUBSET DOMAIN tok, SweepClaim(S)
      PROVE  LInv'
  <2>1. /\ tx.mode = "none" /\ UNCHANGED <<run, req>> /\ S # {}
        /\ Begin("sweep", S, run.status, Committed)
        /\ tok' = [i \in DOMAIN tok |-> IF i \in S THEN [tok[i] EXCEPT !.status = "running"]
                                        ELSE tok[i]]
    BY <1>7 DEF SweepClaim, NoTx
  <2>2. \A i \in DOMAIN tok : [tok[i] EXCEPT !.status = "running"].status = "running"
    BY <1>1 DEF Row
  <2>3. WaitsKnown(tok')
    BY <1>1, <2>1, <2>2 DEF WaitsKnown, WaitKnown
  <2>4. \E i \in DOMAIN tok' : tok'[i].status \in Live
    BY <2>1, <2>2 DEF Live
  <2>5. saved' = Committed /\ tx'.seen = run.status
    BY <1>1, <2>1, BeginFields DEF Begin
  <2>6. ReadsOpen'
    BY <2>1 DEF LInv, ReadsOpen
  <2> QED
    BY <1>1, <2>1, <2>3, <2>4, <2>5, <2>6, LiveOutside
<1>8. ASSUME NEW t \in DOMAIN tok, SweepAdvance(t)
      PROVE  LInv'
  <2>1. UNCHANGED <<saved, req>> /\ tx.mode = "sweep"
    BY <1>8 DEF SweepAdvance
  <2>2. CASE tok[t].status = "running"
    <3>1. AdvanceOne(tok, t, run.status)
      BY <1>8, <2>2 DEF SweepAdvance
    <3> QED
      BY <1>1, <2>1, <3>1, LiveAdvance
  <2>3. CASE tok[t].status # "running"
    <3>1. tx' = [tx EXCEPT !.queue = tx.queue \ {t}] /\ UNCHANGED <<tok, run>>
      BY <1>8, <2>3 DEF SweepAdvance
    <3>2. tx'.mode = tx.mode
      BY <1>1, <3>1 DEF Tx
    <3> QED
      BY <1>1, <2>1, <3>1, <3>2 DEF LInv, ReadsOpen, EndIsWritten, KeptOpen, WaitsKnown
  <2> QED
    BY <2>2, <2>3
<1>9. ASSUME NEW t \in DOMAIN tok, KillToken(t)
      PROVE  LInv'
  <2> DEFINE st == IF run.status = "succeeded" THEN run.status ELSE "failed"
  <2>1. /\ UNCHANGED <<saved, req>> /\ tx.mode = "sweep"
        /\ tok' = [tok EXCEPT ![t].status = "dead"]
        /\ tx' = [tx EXCEPT !.queue = tx.queue \ {t}]
        /\ run' = [run EXCEPT !.status = st]
    BY <1>1, <1>9 DEF KillToken, RunRow
  <2>2. st \notin OpenRun
    BY DEF OpenRun
  <2> HIDE DEF st
  <2>3. run'.status = st /\ tx'.mode = tx.mode
    BY <1>1, <2>1 DEF RunRow, Tx
  <2>4. WaitsKnown(tok')
    <3>1. "dead" \in TokenStatus \ {"waiting"}
      BY DEF TokenStatus
    <3> QED
      BY <1>1, <2>1, <3>1, WaitsStatus
  <2>5. KeptOpen(run'.status, tok')
    BY <2>2, <2>3 DEF KeptOpen
  <2> QED
    BY <1>1, <2>1, <2>3, <2>4, <2>5 DEF LInv, ReadsOpen, EndIsWritten
<1>10. ASSUME NEW t \in DOMAIN tok, ResumeDue(t)
       PROVE  LInv'
  <2>1. /\ UNCHANGED <<run, tx, saved, req>> /\ tx.mode = "none"
        /\ tok' = [tok EXCEPT ![t].status = "active"]
    BY <1>10 DEF ResumeDue, NoTx
  <2>2. "active" \in TokenStatus \ {"waiting"}
    BY DEF TokenStatus
  <2>3. WaitsKnown(tok')
    BY <1>1, <2>1, <2>2, WaitsStatus
  <2>4. t \in DOMAIN tok' /\ tok'[t].status = "active"
    BY <1>1, <2>1, <2>2, MarkRow, StatusFields
  <2>5. ReadsOpen' /\ tx'.mode = "none"
    BY <2>1 DEF LInv, ReadsOpen
  <2> QED
    BY <1>1, <2>1, <2>3, <2>4, <2>5, LiveOutside DEF Live
<1>11. ASSUME NEW q \in Requests, SignalWrite(q)
       PROVE  LInv'
  <2>1. /\ tx.mode = "none" /\ req[q].state = "read" /\ UNCHANGED run
        /\ req' = [req EXCEPT ![q] = [NoRequest EXCEPT !.state = "done"]]
        /\ Begin("drive", {}, req[q].seen, Committed) \/ UNCHANGED <<tx, saved>>
    BY <1>11 DEF SignalWrite, NoTx
  <2> DEFINE t == req[q].token
             d == req[q].data
             r == [tok[t] EXCEPT !.status = "active", !.wait = "none", !.data = d]
  <2>2. t \in DOMAIN tok /\ d \in Data
    BY <1>1, <2>1 DEF TypeOK, Request
  <2>3. r \in Row /\ r.status = "active"
    BY <1>1, <2>2 DEF Row, TokenStatus, WaitKind
  <2>4. tok' = [tok EXCEPT ![t] = r]
    BY <1>11 DEF SignalWrite
  <2> HIDE DEF r, d
  <2>5. t \in DOMAIN tok' /\ tok'[t] = r /\ \A i \in DOMAIN tok' : i # t => tok'[i] = tok[i]
    BY <1>1, <2>2, <2>3, <2>4, ExceptSeq
  <2>6. WaitsKnown(tok') /\ \E i \in DOMAIN tok' : tok'[i].status \in Live
    <3>1. DOMAIN tok' = DOMAIN tok
      BY <2>4
    <3> QED
      BY <1>1, <2>3, <2>5, <3>1 DEF WaitsKnown, WaitKnown, Live
  <2>7. ReadsOpen'
    <3> DEFINE p == [NoRequest EXCEPT !.state = "done"]
    <3>1. p.state = "done"
      BY DEF NoRequest
    <3>2. req' = [req EXCEPT ![q] = p] /\ req \in [Requests -> Request]
      BY <1>1, <2>1 DEF TypeOK
    <3> HIDE DEF p
    <3> QED
      BY <3>1, <3>2 DEF LInv, ReadsOpen
  <2>8. tx'.mode = "none" \/ tx'.seen \notin TerminalRun
    <3>1. req[q].seen \in {"waiting", "running"}
      BY <2>1 DEF LInv, ReadsOpen
    <3>2. req[q].seen \in RunStatus /\ req[q].seen \notin TerminalRun
      BY <3>1 DEF RunStatus, TerminalRun
    <3> QED
      BY <1>1, <2>1, <3>2, BeginFields
  <2>9. saved' = Committed \/ UNCHANGED <<tx, saved>>
    BY <2>1 DEF Begin
  <2> QED
    BY <1>1, <2>1, <2>6, <2>7, <2>8, <2>9, LiveOutside
<1>12. ASSUME NEW q \in Requests, NEW t \in DOMAIN tok, SignalRead(q, t)
       PROVE  LInv'
  <2> DEFINE d == [tok[t].data EXCEPT !.completed = tok[t].node]
             p == [state |-> "read", token |-> t, seen |-> run.status, data |-> d]
  <2>1. /\ tx.mode = "none" /\ UNCHANGED <<tok, run, tx, saved>>
        /\ run.status \in {"waiting", "running"}
        /\ req' = [req EXCEPT ![q] = p]
    BY <1>12 DEF SignalRead, NoTx
  <2>2. p.seen = run.status
    OBVIOUS
  <2> HIDE DEF p
  <2>3. ReadsOpen'
    BY <1>1, <2>1, <2>2 DEF LInv, ReadsOpen, TypeOK
  <2> QED
    BY <1>1, <2>1, <2>3 DEF LInv, EndIsWritten, KeptOpen, WaitsKnown
<1>13. CASE RetryRun
  <2>1. /\ tx.mode = "none" /\ UNCHANGED req /\ tok' = ReactivateDead(tok)
        /\ \E i \in DOMAIN tok : tok[i].status = "dead"
        /\ Begin("drive", {}, "running", Committed) \/ UNCHANGED <<tx, saved>>
    BY <1>13 DEF RetryRun, NoTx
  <2>2. \A i \in DOMAIN tok : [tok[i] EXCEPT !.status = "active", !.due = FALSE].status = "active"
    BY <1>1 DEF Row
  <2>3. /\ DOMAIN tok' = DOMAIN tok
        /\ \A i \in DOMAIN tok : IF tok[i].status = "dead" THEN tok'[i].status = "active"
                                 ELSE tok'[i] = tok[i]
    BY <2>1, <2>2 DEF ReactivateDead
  <2>4. WaitsKnown(tok') /\ \E i \in DOMAIN tok' : tok'[i].status \in Live
    BY <1>1, <2>1, <2>3 DEF WaitsKnown, WaitKnown, Live
  <2>5. ReadsOpen'
    BY <2>1 DEF LInv, ReadsOpen
  <2>6. tx'.mode = "none" \/ tx'.seen \notin TerminalRun
    <3>1. "running" \in RunStatus /\ "running" \notin TerminalRun
      BY DEF RunStatus, TerminalRun
    <3> QED
      BY <1>1, <2>1, <3>1, BeginFields
  <2>7. saved' = Committed \/ UNCHANGED <<tx, saved>>
    BY <2>1 DEF Begin
  <2> QED
    BY <1>1, <2>1, <2>4, <2>5, <2>6, <2>7, LiveOutside
<1> QED
  BY <1>2, <1>3, <1>4, <1>5, <1>6, <1>7, <1>8, <1>9, <1>10, <1>11, <1>12, <1>13 DEF Next

\* The invariant holds before the run is created.
LEMMA InitLInv == Init => LInv
<1> SUFFICES ASSUME Init PROVE LInv
  OBVIOUS
<1>1. IInv
  BY InitIInv
<1>2. tx.mode = "none" /\ run.status = "none" /\ DOMAIN tok = {}
  BY DEF Init, NoTx, NoRun
<1>3. \A r \in Requests : req[r].state = "idle"
  BY DEF Init, NoRequest
<1> QED
  BY <1>1, <1>2, <1>3 DEF LInv, ReadsOpen, EndIsWritten, KeptOpen, OpenRun, WaitsKnown

\* A committed run that is open has a token that is active, that something can
\* wake, or that is buffered at a join: in every graph, with any number of
\* faults, retries and completions, the buffer of a join is the only place
\* where a run can be stranded.
OnlyJoinsStrand ==
  VisibleRun.status \in OpenRun =>
    \E i \in DOMAIN VisibleTok :
      \/ VisibleTok[i].status = "active"
      \/ Wakeable(VisibleTok[i])
      \/ VisibleTok[i].status = "waiting" /\ IsJoin(VisibleTok[i].node)

LEMMA LInvStrands == LInv => OnlyJoinsStrand
<1> SUFFICES ASSUME LInv, VisibleRun.status \in OpenRun
             PROVE  \E i \in DOMAIN VisibleTok :
                      \/ VisibleTok[i].status = "active"
                      \/ Wakeable(VisibleTok[i])
                      \/ VisibleTok[i].status = "waiting" /\ IsJoin(VisibleTok[i].node)
  BY DEF OnlyJoinsStrand
<1>1. PICK i \in DOMAIN VisibleTok : VisibleTok[i].status \in Live
  BY DEF LInv, KeptOpen, VisibleRun, VisibleTok
<1>2. VisibleTok[i].status # "running"
  BY <1>1 DEF LInv, IInv, ClaimsQueued, Unclaimed, VisibleTok
<1>3. WaitKnown(VisibleTok[i])
  BY <1>1 DEF LInv, WaitsKnown, VisibleTok
<1> QED
  BY <1>1, <1>2, <1>3 DEF Live, WaitKnown

THEOREM JoinsAloneStrand == Spec => []OnlyJoinsStrand
BY InitLInv, LInvStep, LInvStrands, PTL DEF Spec

\* No run is stranded in a graph without joins: whatever fails, is retried, is
\* completed late or runs out of passes, an open run keeps a token that a sweep
\* takes, a resume_at wakes or a human can complete.
THEOREM NothingStranded ==
  ASSUME \A n \in Nodes : ~IsJoin(n)
  PROVE  Spec => []NoStrandedRun
<1>1. LInv => NoStrandedRun
  <2> SUFFICES ASSUME LInv, VisibleRun.status \in {"running", "waiting"}
               PROVE  \E i \in DOMAIN VisibleTok : \/ VisibleTok[i].status = "active"
                                                   \/ Wakeable(VisibleTok[i])
    BY DEF NoStrandedRun
  <2>1. PICK i \in DOMAIN VisibleTok :
          \/ VisibleTok[i].status = "active"
          \/ Wakeable(VisibleTok[i])
          \/ VisibleTok[i].status = "waiting" /\ IsJoin(VisibleTok[i].node)
    BY LInvStrands DEF OnlyJoinsStrand, OpenRun
  <2>2. VisibleTok[i].node \in Nodes
    <3>1. VisibleTok \in Seq(Row)
      BY DEF LInv, IInv, TypeOK, VisibleTok
    <3>2. VisibleTok[i] \in Row
      BY <2>1, <3>1, LenProperties
    <3> QED
      BY <3>2 DEF Row
  <2> QED
    BY <2>1, <2>2
<1> QED
  BY <1>1, InitLInv, LInvStep, PTL DEF Spec

----------------------------------------------------------------------------
(***************************************************************************)
(* Call activities, for any workflows that call each other in any way.     *)
(* The runs form a forest: a run that is not at a call has no child left   *)
(* to end; at a call it waits for its last child at most.  While a         *)
(* transaction is open the callers of the run that moves are its stack.    *)
(***************************************************************************)
CallSetting ==
  /\ Roots \subseteq DOMAIN Body
  /\ \A w \in DOMAIN Body : /\ Len(Body[w]) \in Nat
                            /\ \A k \in 1 .. Len(Body[w]) : Body[w][k].boundary \in Nat

Over(r) == r.status \in Ended

\* What a run says of itself: it was called by an earlier one.
Shape(i, r) ==
  /\ r.caller < i /\ r.at # 0
  /\ Over(r) <=> r.token \in {"completed", "dead"}
  /\ r.token = "waiting" => r.wait # "none" /\ r.parked
  /\ r.token # "waiting" => r.wait # "user_task"
  /\ Over(r) => r.wait = "none"
  /\ r.wait = "subprocess" => r.at <= Len(Body[r.wf])

FailedLate(rs, i) == \E c \in Children(rs, i) : rs[c].status = "failed" /\ rs[c].parked

\* What r, as run i, says of its children.
Family(rs, i, r) ==
  /\ IF r.wait = "subprocess"
     THEN \E c \in Children(rs, i) :
            /\ \A d \in Children(rs, i) : d <= c /\ (d # c => Over(rs[d]))
            /\ r.token = "waiting" => rs[c].parked
     ELSE \A c \in Children(rs, i) : Over(rs[c])
  /\ r.mark = "failed" => FailedLate(rs, i)
  /\ r.ignored => FailedLate(rs, i)

Forest(rs) == \A i \in DOMAIN rs : Shape(i, rs[i]) /\ Family(rs, i, rs[i])

\* A caller that is parked is woken by a child that has not ended.
AtCall(r) == r.token = "waiting" /\ r.wait = "subprocess"
Awaited(rs) ==
  \A i \in DOMAIN rs : AtCall(rs[i]) => \E c \in Children(rs, i) : ~Over(rs[c]) \/ rs[c].killed

\* The stack of an open transaction: every run called the next, and nothing
\* else is in the middle of a call.
Frames(rs, st) ==
  /\ \A k \in 1 .. Len(st) : st[k] \in DOMAIN rs /\ rs[st[k]].token = "active"
  /\ \A k, l \in 1 .. Len(st) : k < l => st[k] < st[l]
  /\ \A k \in 1 .. Len(st) - 1 : rs[st[k]].wait = "subprocess" /\ rs[st[k + 1]].caller = st[k]
  /\ \A j \in DOMAIN rs : rs[j].token = "active" /\ rs[j].wait = "subprocess" => \E k \in 1 .. Len(st) : st[k] = j
  /\ \A c, j \in DOMAIN rs :
       rs[c].caller = j /\ rs[j].token = "active" /\ rs[c].token = "active" => \E k \in 1 .. Len(st) : st[k] = c

Whole(rs, st) == rs \in Seq(Run) /\ Forest(rs) /\ Awaited(rs) /\ Frames(rs, st)

TreeInv ==
  /\ stack \in Seq(Nat) /\ Whole(runs, stack)
  /\ stack # <<>> => /\ Whole(savepoint, <<>>)
                     /\ stack[1] \in DOMAIN savepoint /\ savepoint[stack[1]].token = "active"

\* One run is replaced.
LEMMA RunReplaced ==
  ASSUME NEW rs \in Seq(Run), NEW i \in DOMAIN rs, NEW r \in Run
  PROVE  LET t == [rs EXCEPT ![i] = r]
         IN /\ t \in Seq(Run) /\ DOMAIN t = DOMAIN rs /\ Len(t) = Len(rs)
            /\ \A j \in DOMAIN rs : t[j] = IF j = i THEN r ELSE rs[j]
  OBVIOUS

\* What is known of a run, without its other fields.
LEMMA RunIs ==
  ASSUME NEW r \in Run
  PROVE  /\ r.caller \in Nat /\ r.at \in Nat /\ r.wf \in DOMAIN Body /\ r.depth \in Nat
         /\ r.token \in {"active", "waiting", "completed", "dead"}
         /\ r.wait \in {"none", "user_task", "subprocess"}
         /\ r.mark \in {"none", "completed", "succeeded", "failed"}
         /\ r.status \in {"running", "waiting", "succeeded", "failed"}
         /\ r.parked \in BOOLEAN /\ r.killed \in BOOLEAN /\ r.ignored \in BOOLEAN
  BY DEF Run, Ended

\* One run, which has not ended, becomes r.
LEMMA Touched ==
  ASSUME NEW rs \in Seq(Run), Forest(rs), NEW i \in DOMAIN rs, ~Over(rs[i]),
         NEW r \in Run, r.caller = rs[i].caller, rs[i].parked => r.parked,
         Shape(i, r), Family(rs, i, r)
  PROVE  Forest([rs EXCEPT ![i] = r])
<1> DEFINE t == [rs EXCEPT ![i] = r]
<1>1. t \in Seq(Run) /\ DOMAIN t = DOMAIN rs /\ \A j \in DOMAIN rs : t[j] = IF j = i THEN r ELSE rs[j]
  BY RunReplaced
<1> HIDE DEF t
<1>2. DOMAIN rs \subseteq Nat
  OBVIOUS
<1>3. \A j \in DOMAIN rs : Children(t, j) = Children(rs, j) /\ Children(rs, j) \subseteq DOMAIN rs
  BY <1>1 DEF Children
<1>4. \A j \in DOMAIN rs : Shape(j, rs[j]) /\ Family(rs, j, rs[j]) /\ rs[j] \in Run
  BY DEF Forest
<1>5. \A j \in DOMAIN rs : Shape(j, t[j])
  BY <1>1, <1>4
<1>6. \A c \in DOMAIN rs : (Over(rs[c]) => t[c] = rs[c]) /\ (rs[c].parked => t[c].parked)
  BY <1>1
<1>7. \A j \in DOMAIN rs : FailedLate(rs, j) => FailedLate(t, j)
  <2> SUFFICES ASSUME NEW j \in DOMAIN rs, NEW c \in Children(rs, j), rs[c].status = "failed", rs[c].parked
               PROVE  FailedLate(t, j)
    BY DEF FailedLate
  <2>1. c \in DOMAIN rs /\ Over(rs[c])
    BY <1>3 DEF Over, Ended
  <2>2. t[c] = rs[c]
    BY <1>6, <2>1
  <2>3. QED
    BY <1>3, <2>2 DEF FailedLate
<1>8. ASSUME NEW j \in DOMAIN rs, NEW u, Family(rs, j, u), j # i \/ u = r,
             i \in Children(rs, j) => u.wait = "subprocess"
      PROVE  Family(t, j, u)
  <2>1. CASE u.wait = "subprocess"
    <3>1. PICK c \in Children(rs, j) : /\ \A d \in Children(rs, j) : d <= c /\ (d # c => Over(rs[d]))
                                       /\ u.token = "waiting" => rs[c].parked
      BY <1>8, <2>1 DEF Family
    <3>2. \A d \in Children(rs, j) : d # c => Over(t[d])
      <4> SUFFICES ASSUME NEW d \in Children(rs, j), d # c PROVE Over(t[d])
        OBVIOUS
      <4>1. Over(rs[d]) /\ d \in DOMAIN rs
        BY <3>1, <1>3
      <4>2. QED
        BY <4>1, <1>6
    <3>3. u.token = "waiting" => t[c].parked
      BY <3>1, <1>3, <1>6
    <3>4. QED
      BY <1>3, <1>7, <1>8, <2>1, <3>1, <3>2, <3>3 DEF Family
  <2>2. CASE u.wait # "subprocess"
    <3>1. \A c \in Children(rs, j) : Over(t[c])
      <4> SUFFICES ASSUME NEW c \in Children(rs, j) PROVE Over(t[c])
        OBVIOUS
      <4>1. Over(rs[c]) /\ c \in DOMAIN rs
        BY <1>3, <1>8, <2>2 DEF Family
      <4>2. QED
        BY <4>1, <1>6
    <3>2. QED
      BY <1>3, <1>7, <1>8, <2>2, <3>1 DEF Family
  <2>3. QED
    BY <2>1, <2>2
<1>9. \A j \in DOMAIN rs : Family(t, j, t[j])
  <2> SUFFICES ASSUME NEW j \in DOMAIN rs PROVE Family(t, j, t[j])
    OBVIOUS
  <2>1. CASE j = i
    <3>1. i \notin Children(rs, i)
      <4>1. rs[i].caller < i /\ rs[i].caller \in Nat /\ i \in Nat
        BY <1>2, <1>4, RunIs DEF Shape
      <4>2. QED
        BY <4>1 DEF Children
    <3>2. t[j] = r
      BY <1>1, <2>1
    <3>3. QED
      BY <1>8, <2>1, <3>1, <3>2
  <2>2. CASE j # i
    <3>1. t[j] = rs[j] /\ Family(rs, j, rs[j])
      BY <1>1, <1>4, <2>2
    <3>2. i \in Children(rs, j) => rs[j].wait = "subprocess"
      BY <3>1 DEF Family
    <3>3. QED
      BY <1>8, <2>2, <3>1, <3>2
  <2>3. QED
    BY <2>1, <2>2
<1>10. Forest(t)
  BY <1>1, <1>5, <1>9 DEF Forest
<1>11. QED
  BY <1>10 DEF t

\* It leaves the callers awaited, and nobody in the middle of a call.
LEMMA TouchedAwaited ==
  ASSUME NEW rs \in Seq(Run), Awaited(rs), NEW i \in DOMAIN rs,
         NEW r \in Run, r.caller = rs[i].caller,
         AtCall(r) => \E c \in Children(rs, i) : c # i /\ (~Over(rs[c]) \/ rs[c].killed),
         \/ ~Over(r) \/ r.killed
         \/ \A p \in DOMAIN rs : i \in Children(rs, p) => ~AtCall(rs[p])
  PROVE  Awaited([rs EXCEPT ![i] = r])
<1> DEFINE t == [rs EXCEPT ![i] = r]
<1>1. t \in Seq(Run) /\ DOMAIN t = DOMAIN rs /\ \A j \in DOMAIN rs : t[j] = IF j = i THEN r ELSE rs[j]
  BY RunReplaced
<1> HIDE DEF t
<1>2. \A j \in DOMAIN rs : Children(t, j) = Children(rs, j) /\ Children(rs, j) \subseteq DOMAIN rs
  BY <1>1 DEF Children
<1>3. ASSUME NEW j \in DOMAIN rs, AtCall(t[j])
      PROVE  \E c \in Children(t, j) : ~Over(t[c]) \/ t[c].killed
  <2>1. CASE j = i
    <3>1. PICK c \in Children(rs, i) : c # i /\ (~Over(rs[c]) \/ rs[c].killed)
      BY <1>1, <1>3, <2>1
    <3>2. t[c] = rs[c]
      BY <1>1, <1>2, <3>1
    <3>3. QED
      BY <1>2, <2>1, <3>1, <3>2
  <2>2. CASE j # i
    <3>1. t[j] = rs[j]
      BY <1>1, <2>2
    <3>2. PICK c \in Children(rs, j) : ~Over(rs[c]) \/ rs[c].killed
      BY <1>3, <3>1 DEF Awaited
    <3>3. CASE c = i
      <4>1. t[c] = r /\ (~Over(r) \/ r.killed)
        BY <1>1, <1>3, <3>1, <3>2, <3>3
      <4>2. QED
        BY <1>2, <3>2, <4>1
    <3>4. CASE c # i
      <4>1. t[c] = rs[c]
        BY <1>1, <1>2, <3>2, <3>4
      <4>2. QED
        BY <1>2, <3>2, <4>1
    <3>5. QED
      BY <3>3, <3>4
  <2>3. QED
    BY <2>1, <2>2
<1>4. Awaited(t)
  BY <1>1, <1>3 DEF Awaited
<1>5. QED
  BY <1>4 DEF t

\* Run i moves: besides it only the caller that its end wakes is changed.
Moves(rs, t, i) ==
  /\ DOMAIN t = DOMAIN rs
  /\ \A j \in DOMAIN rs : t[j].caller = rs[j].caller
  /\ \A j \in DOMAIN rs : \/ j = i \/ t[j] = rs[j]
                          \/ j = rs[i].caller /\ AtCall(rs[j]) /\ t[j].wait = "none"
  /\ t[i].token = "active" => t[i].wait = "none"

\* _finish_run and _fail_run, with _signal_parent.
LEMMA FinishKeeps ==
  ASSUME NEW rs \in Seq(Run), Forest(rs), Awaited(rs), NEW i \in DOMAIN rs,
         rs[i].token = "active", rs[i].wait = "none", NEW status \in Ended
  PROVE  LET t == Finish(rs, i, status)
         IN /\ t \in Seq(Run) /\ Forest(t) /\ Awaited(t) /\ Moves(rs, t, i)
            /\ t[i].token # "active" /\ t[i].at = rs[i].at
<1> DEFINE r == [rs[i] EXCEPT !.token = IF status = "failed" THEN "dead" ELSE "completed", !.status = status]
           s == [rs EXCEPT ![i] = r]
           p == rs[i].caller
           u == [s[p] EXCEPT !.token = "active", !.wait = "none", !.mark = s[i].status]
           t == [s EXCEPT ![p] = u]
<1>1. rs[i] \in Run /\ Shape(i, rs[i]) /\ Family(rs, i, rs[i]) /\ DOMAIN rs \subseteq Nat
  BY DEF Forest
<1>2. /\ r \in Run /\ r.caller = p /\ r.status = status /\ r.token \in {"dead", "completed"}
      /\ r.wait = rs[i].wait /\ r.at = rs[i].at /\ r.parked = rs[i].parked /\ r.mark = rs[i].mark
      /\ r.ignored = rs[i].ignored /\ r.killed = rs[i].killed
  <2> DEFINE old == rs[i]
  <2>1. old \in Run
    BY <1>1
  <2> HIDE DEF old
  <2> DEFINE new == [old EXCEPT !.token = IF status = "failed" THEN "dead" ELSE "completed", !.status = status]
  <2>2. /\ new \in Run /\ new.caller = old.caller /\ new.status = status /\ new.token \in {"dead", "completed"}
        /\ new.wait = old.wait /\ new.at = old.at /\ new.parked = old.parked /\ new.mark = old.mark
        /\ new.ignored = old.ignored /\ new.killed = old.killed
    BY <2>1 DEF Run, Ended
  <2>3. QED
    BY <2>2 DEF old
<1>3. s \in Seq(Run) /\ DOMAIN s = DOMAIN rs /\ \A j \in DOMAIN rs : s[j] = IF j = i THEN r ELSE rs[j]
  BY <1>2, RunReplaced
<1>4. Over(r) /\ Shape(i, r) /\ Family(rs, i, r) /\ ~Over(rs[i])
  BY <1>1, <1>2 DEF Over, Shape, Family
<1>5. Forest(s)
  BY <1>1, <1>2, <1>4, Touched
<1>6. p \in Nat /\ p < i /\ i \in Nat
  BY <1>1, RunIs DEF Shape
<1> HIDE DEF r, s
<1>7. CASE ~(p # 0 /\ s[p].token = "waiting" /\ s[p].wait = "subprocess")
  <2>1. Finish(rs, i, status) = s
    BY <1>2, <1>3, <1>7 DEF Finish, Signal, r, s
  <2>2. Awaited(s)
    <3>1. \A j \in DOMAIN rs : i \in Children(rs, j) => ~AtCall(rs[j])
      <4> SUFFICES ASSUME NEW j \in DOMAIN rs, i \in Children(rs, j) PROVE ~AtCall(rs[j])
        OBVIOUS
      <4>1. j = p /\ p # 0 /\ p # i /\ s[p] = rs[p]
        BY <1>3, <1>6, <1>1 DEF Children
      <4>2. QED
        BY <4>1, <1>7 DEF AtCall
    <3>2. ~AtCall(r)
      BY <1>2 DEF AtCall
    <3>3. QED
      BY <1>2, <3>1, <3>2, TouchedAwaited DEF s
  <2>3. Moves(rs, s, i) /\ s[i].token # "active" /\ s[i].at = rs[i].at
    <3>1. \A j \in DOMAIN rs : s[j].caller = rs[j].caller
      BY <1>2, <1>3
    <3>2. QED
      BY <1>2, <1>3, <3>1 DEF Moves
  <2>4. QED
    BY <1>3, <1>5, <2>1, <2>2, <2>3
<1>8. CASE p # 0 /\ s[p].token = "waiting" /\ s[p].wait = "subprocess"
  <2>1. Finish(rs, i, status) = t
    BY <1>2, <1>3, <1>8 DEF Finish, Signal, r, s
  <2>2. p \in DOMAIN rs /\ p # i /\ s[p] = rs[p] /\ rs[p] \in Run /\ AtCall(rs[p])
    <3>1. p \in 1 .. Len(rs)
      BY <1>6, <1>8
    <3>2. QED
      BY <3>1, <1>3, <1>6, <1>8 DEF AtCall
  <2>3. i \in Children(rs, p) /\ Children(s, p) = Children(rs, p) /\ Children(rs, p) \subseteq DOMAIN rs
    BY <1>2, <1>3 DEF Children
  <2>4. s[i] = r /\ s[i].status = status
    BY <1>2, <1>3
  <2>5. /\ u \in Run /\ u.caller = rs[p].caller /\ u.at = rs[p].at /\ u.token = "active" /\ u.wait = "none"
        /\ u.mark = status /\ u.parked = rs[p].parked /\ u.status = rs[p].status /\ u.ignored = rs[p].ignored
        /\ u.killed = rs[p].killed
    <3> DEFINE old == rs[p]
               new == [old EXCEPT !.token = "active", !.wait = "none", !.mark = status]
    <3>1. old \in Run
      BY <2>2
    <3>2. u = new
      BY <2>2, <2>4
    <3> HIDE DEF old, u
    <3>3. /\ new \in Run /\ new.caller = old.caller /\ new.at = old.at /\ new.token = "active" /\ new.wait = "none"
          /\ new.mark = status /\ new.parked = old.parked /\ new.status = old.status /\ new.ignored = old.ignored
          /\ new.killed = old.killed
      BY <3>1 DEF Run
    <3>4. QED
      BY <3>2, <3>3 DEF old
  <2>6. /\ Shape(p, s[p]) /\ Family(s, p, s[p]) /\ ~Over(s[p])
    BY <1>3, <1>5, <2>2 DEF Forest, Shape, AtCall
  <2>7. rs[i].parked /\ \A d \in Children(rs, p) : Over(s[d])
    <3>1. Family(rs, p, rs[p]) /\ rs[p].wait = "subprocess" /\ rs[p].token = "waiting"
      BY <2>2 DEF Forest, AtCall
    <3>2. PICK c \in Children(rs, p) : /\ \A d \in Children(rs, p) : d <= c /\ (d # c => Over(rs[d]))
                                       /\ rs[c].parked
      BY <3>1 DEF Family
    <3>3. c = i
      BY <1>4, <2>3, <3>2
    <3>4. \A d \in Children(rs, p) : d # i => s[d] = rs[d]
      BY <1>3, <2>3
    <3>5. QED
      BY <1>4, <2>4, <3>2, <3>3, <3>4
  <2>8. FailedLate(s, p) \/ status # "failed"
    BY <1>2, <2>3, <2>4, <2>7 DEF FailedLate
  <2>9. Shape(p, u) /\ Family(s, p, u)
    <3>1. Shape(p, u)
      BY <2>2, <2>5, <2>6 DEF Shape, Over
    <3>2. u.ignored => FailedLate(s, p)
      BY <2>2, <2>5, <2>6 DEF Family
    <3>3. QED
      BY <2>3, <2>5, <2>7, <2>8, <3>1, <3>2 DEF Family
  <2> HIDE DEF u
  <2>10. Forest(t)
    BY <1>3, <1>5, <2>2, <2>5, <2>6, <2>9, Touched
  <2>11. t \in Seq(Run) /\ DOMAIN t = DOMAIN rs /\ \A j \in DOMAIN rs : t[j] = IF j = p THEN u ELSE s[j]
    BY <1>3, <2>2, <2>5, RunReplaced
  <2> HIDE DEF t
  <2>12. Awaited(t)
    <3> SUFFICES ASSUME NEW j \in DOMAIN rs, AtCall(t[j])
                 PROVE  \E c \in Children(t, j) : ~Over(t[c]) \/ t[c].killed
      BY <2>11 DEF Awaited
    <3>1. j # p
      BY <2>5, <2>11 DEF AtCall
    <3>2. j # i
      BY <1>2, <1>3, <2>2, <2>11 DEF AtCall
    <3>3. t[j] = rs[j] /\ AtCall(rs[j])
      BY <1>3, <2>11, <3>1, <3>2
    <3>4. PICK c \in Children(rs, j) : ~Over(rs[c]) \/ rs[c].killed
      BY <3>3 DEF Awaited
    <3>5. c \in DOMAIN rs /\ c # i /\ rs[c].caller = j
      BY <3>1, <3>4 DEF Children
    <3>6. t[c].caller = rs[c].caller /\ t[c].status = rs[c].status /\ t[c].killed = rs[c].killed
      BY <1>3, <2>2, <2>5, <2>11, <3>5
    <3>7. QED
      BY <2>11, <3>4, <3>5, <3>6 DEF Children, Over
  <2>13. Moves(rs, t, i) /\ t[i].token # "active" /\ t[i].at = rs[i].at
    <3>1. t[i] = r
      BY <1>3, <2>2, <2>11
    <3>2. \A j \in DOMAIN rs : t[j].caller = rs[j].caller
      BY <1>2, <1>3, <2>2, <2>5, <2>11
    <3>3. \A j \in DOMAIN rs : \/ j = i \/ t[j] = rs[j]
                               \/ j = rs[i].caller /\ AtCall(rs[j]) /\ t[j].wait = "none"
      BY <1>3, <2>2, <2>5, <2>11
    <3>4. QED
      BY <1>2, <2>11, <3>1, <3>2, <3>3 DEF Moves
  <2>14. QED
    BY <2>1, <2>10, <2>11, <2>12, <2>13
<1>9. QED
  BY <1>7, <1>8

\* A frame is taken off the stack.
LEMMA Popped ==
  ASSUME NEW st \in Seq(Nat), st # <<>>
  PROVE  LET t == SubSeq(st, 1, Len(st) - 1)
         IN /\ t \in Seq(Nat) /\ Len(t) = Len(st) - 1
            /\ \A k \in 1 .. Len(st) - 1 : t[k] = st[k]
<1> DEFINE n == Len(st)
<1>1. n \in Nat \ {0} /\ 1 \in 1 .. n + 1 /\ n - 1 \in 0 .. n
  OBVIOUS
<1>2. CASE n = 1
  <2>1. SubSeq(st, 1, n - 1) = <<>>
    BY <1>1, <1>2
  <2>2. QED
    BY <1>2, <2>1
<1>3. CASE n # 1
  <2>1. /\ SubSeq(st, 1, n - 1) \in Seq(Nat)
        /\ Len(SubSeq(st, 1, n - 1)) = IF 1 <= n - 1 THEN n - 1 - 1 + 1 ELSE 0
        /\ \A k \in 1 .. n - 1 - 1 + 1 : SubSeq(st, 1, n - 1)[k] = st[1 + k - 1]
    BY <1>1, SubSeqProperties
  <2> DEFINE t == SubSeq(st, 1, n - 1)
  <2> HIDE DEF t, n
  <2>2. ASSUME NEW k \in 1 .. n - 1 PROVE t[k] = st[k]
    <3>1. k \in 1 .. n - 1 - 1 + 1 /\ 1 + k - 1 = k
      BY <1>1
    <3>2. QED
      BY <2>1, <3>1 DEF t
  <2>3. t \in Seq(Nat) /\ Len(t) = n - 1
    BY <1>1, <1>3, <2>1 DEF t
  <2>4. QED
    BY <2>2, <2>3 DEF t, n
<1>4. QED
  BY <1>2, <1>3

\* The innermost run has moved: what is left of the stack.
LEMMA RestKeeps ==
  ASSUME stack \in Seq(Nat), stack # <<>>, Whole(runs, stack), NEW t \in Seq(Run), Forest(t), Moves(runs, t, Top)
  PROVE  /\ Rest(t) \in Seq(Nat) /\ Frames(t, Rest(t))
         /\ Rest(t) # <<>> => Rest(t)[1] = stack[1]
<1> DEFINE i == Top
           n == Len(stack)
           st == Rest(t)
           p == runs[i].caller
<1>1. n \in Nat \ {0} /\ i = stack[n] /\ runs \in Seq(Run) /\ DOMAIN runs \subseteq Nat
  BY DEF Top, Whole
<1>2. /\ \A k \in 1 .. n : stack[k] \in DOMAIN runs /\ runs[stack[k]].token = "active"
      /\ \A k, l \in 1 .. n : k < l => stack[k] < stack[l]
      /\ \A k \in 1 .. n - 1 : runs[stack[k]].wait = "subprocess" /\ runs[stack[k + 1]].caller = stack[k]
      /\ \A j \in DOMAIN runs :
           runs[j].token = "active" /\ runs[j].wait = "subprocess" => \E k \in 1 .. n : stack[k] = j
      /\ \A c, j \in DOMAIN runs :
           runs[c].caller = j /\ runs[j].token = "active" /\ runs[c].token = "active" => \E k \in 1 .. n : stack[k] = c
  BY DEF Whole, Frames
<1>3. /\ DOMAIN t = DOMAIN runs
      /\ \A j \in DOMAIN runs : t[j].caller = runs[j].caller
      /\ \A j \in DOMAIN runs : j = i \/ t[j] = runs[j] \/ (j = p /\ AtCall(runs[j]) /\ t[j].wait = "none")
      /\ t[i].token = "active" => t[i].wait = "none"
  BY DEF Moves
<1> HIDE DEF i, n, p
<1>4. \A k \in 1 .. n : k < n => stack[k] # i /\ t[stack[k]] = runs[stack[k]]
  <2> SUFFICES ASSUME NEW k \in 1 .. n, k < n PROVE stack[k] # i /\ t[stack[k]] = runs[stack[k]]
    OBVIOUS
  <2>1. stack[k] < stack[n] /\ stack[k] \in DOMAIN runs /\ runs[stack[k]].token = "active"
    BY <1>1, <1>2
  <2>2. stack[k] # i
    BY <1>1, <2>1
  <2>3. QED
    BY <1>3, <2>1, <2>2 DEF AtCall
<1>5. \A j \in DOMAIN runs : t[j].token = "active" /\ t[j].wait = "subprocess" =>
        j # i /\ runs[j] = t[j] /\ \E k \in 1 .. n : k < n /\ stack[k] = j
  <2> SUFFICES ASSUME NEW j \in DOMAIN runs, t[j].token = "active", t[j].wait = "subprocess"
               PROVE  j # i /\ runs[j] = t[j] /\ \E k \in 1 .. n : k < n /\ stack[k] = j
    OBVIOUS
  <2>1. j # i /\ runs[j] = t[j]
    BY <1>3
  <2>2. PICK k \in 1 .. n : stack[k] = j
    BY <1>2, <2>1
  <2>3. k # n
    BY <1>1, <2>1, <2>2
  <2>4. QED
    BY <1>1, <2>1, <2>2, <2>3
<1>6. \A c, j \in DOMAIN runs :
        t[c].caller = j /\ t[j].token = "active" /\ t[c].token = "active" =>
          \E k \in 1 .. n : stack[k] = c /\ (k < n \/ n > 1)
  <2> SUFFICES ASSUME NEW c \in DOMAIN runs, NEW j \in DOMAIN runs, t[c].caller = j,
                      t[j].token = "active", t[c].token = "active"
               PROVE  \E k \in 1 .. n : stack[k] = c /\ (k < n \/ n > 1)
    OBVIOUS
  <2>1. ~Over(t[c]) /\ c \in Children(t, j) /\ Family(t, j, t[j])
    BY <1>3 DEF Forest, Shape, Children
  <2>2. t[j].wait = "subprocess"
    BY <2>1 DEF Family
  <2>3. PICK k \in 1 .. n : k < n /\ stack[k] = j /\ runs[j] = t[j]
    BY <1>5, <2>2
  <2>4. n > 1
    BY <1>1, <2>3
  <2>5. CASE c = i
    BY <1>1, <2>4, <2>5
  <2>6. CASE c # i
    <3>1. runs[c] = t[c]
      <4>1. SUFFICES ASSUME c = p, AtCall(runs[c]) PROVE FALSE
        BY <1>3, <2>6
      <4>2. stack[n - 1] = p /\ runs[stack[n - 1]].token = "active"
        <5>1. n - 1 \in 1 .. n - 1 /\ n - 1 + 1 = n /\ n - 1 \in 1 .. n
          BY <1>1, <2>4
        <5>2. runs[stack[n]].caller = stack[n - 1]
          BY <1>2, <5>1
        <5>3. QED
          BY <1>1, <1>2, <5>1, <5>2 DEF p
      <4>3. QED
        BY <4>1, <4>2 DEF AtCall
    <3>2. QED
      BY <1>2, <2>3, <2>4, <3>1
  <2>7. QED
    BY <2>5, <2>6
<1>7. CASE n = 1 \/ t[i].token # "active"
  <2>1. st = SubSeq(stack, 1, n - 1)
    BY <1>7 DEF Rest, i, n
  <2>2. st \in Seq(Nat) /\ Len(st) = n - 1 /\ \A k \in 1 .. n - 1 : st[k] = stack[k]
    BY <2>1, Popped DEF n
  <2> HIDE DEF st
  <2>3. \A k \in 1 .. n - 1 : st[k] \in DOMAIN t /\ t[st[k]].token = "active"
    <3> SUFFICES ASSUME NEW k \in 1 .. n - 1 PROVE st[k] \in DOMAIN t /\ t[st[k]].token = "active"
      OBVIOUS
    <3>1. k \in 1 .. n /\ k < n /\ st[k] = stack[k]
      BY <1>1, <2>2
    <3>2. stack[k] \in DOMAIN runs /\ runs[stack[k]].token = "active"
      BY <1>2, <3>1
    <3>3. t[stack[k]] = runs[stack[k]] /\ stack[k] \in DOMAIN t
      BY <1>3, <1>4, <3>1, <3>2
    <3>4. QED
      BY <3>1, <3>2, <3>3
  <2>4. \A k, l \in 1 .. n - 1 : k < l => st[k] < st[l]
    <3> SUFFICES ASSUME NEW k \in 1 .. n - 1, NEW l \in 1 .. n - 1, k < l PROVE st[k] < st[l]
      OBVIOUS
    <3>1. k \in 1 .. n /\ l \in 1 .. n
      BY <1>1
    <3>2. stack[k] < stack[l]
      BY <1>2, <3>1
    <3>3. QED
      BY <2>2, <3>2
  <2>5. \A k \in 1 .. Len(st) - 1 : t[st[k]].wait = "subprocess" /\ t[st[k + 1]].caller = st[k]
    <3> SUFFICES ASSUME NEW k \in 1 .. Len(st) - 1
                 PROVE  t[st[k]].wait = "subprocess" /\ t[st[k + 1]].caller = st[k]
      OBVIOUS
    <3>1. k \in 1 .. n - 1 /\ k + 1 \in 1 .. n - 1 /\ k \in 1 .. n /\ k < n /\ k + 1 \in 1 .. n
      BY <1>1, <2>2
    <3>2. st[k] = stack[k] /\ st[k + 1] = stack[k + 1]
      BY <2>2, <3>1
    <3>3. runs[stack[k]].wait = "subprocess" /\ runs[stack[k + 1]].caller = stack[k] /\ stack[k + 1] \in DOMAIN runs
      BY <1>2, <3>1
    <3>4. QED
      BY <1>3, <1>4, <3>1, <3>2, <3>3
  <2>6. \A j \in DOMAIN t : t[j].token = "active" /\ t[j].wait = "subprocess" => \E k \in 1 .. n - 1 : st[k] = j
    <3> SUFFICES ASSUME NEW j \in DOMAIN runs, t[j].token = "active", t[j].wait = "subprocess"
                 PROVE  \E k \in 1 .. n - 1 : st[k] = j
      BY <1>3
    <3>1. PICK k \in 1 .. n : k < n /\ stack[k] = j
      BY <1>5
    <3>2. k \in 1 .. n - 1
      BY <1>1, <3>1
    <3>3. QED
      BY <2>2, <3>1, <3>2
  <2>7. \A c, j \in DOMAIN t :
          t[c].caller = j /\ t[j].token = "active" /\ t[c].token = "active" => \E k \in 1 .. n - 1 : st[k] = c
    <3> SUFFICES ASSUME NEW c \in DOMAIN runs, NEW j \in DOMAIN runs, t[c].caller = j,
                        t[j].token = "active", t[c].token = "active"
                 PROVE  \E k \in 1 .. n - 1 : st[k] = c
      BY <1>3
    <3>1. PICK k \in 1 .. n : stack[k] = c /\ (k < n \/ n > 1)
      BY <1>6
    <3>2. k < n
      BY <1>1, <1>7, <3>1
    <3>3. k \in 1 .. n - 1
      BY <1>1, <3>2
    <3>4. QED
      BY <2>2, <3>1, <3>3
  <2>8. Frames(t, st)
    BY <2>2, <2>3, <2>4, <2>5, <2>6, <2>7 DEF Frames
  <2>9. st # <<>> => st[1] = stack[1]
    BY <1>1, <2>2
  <2>10. QED
    BY <2>2, <2>8, <2>9 DEF st
<1>8. CASE n # 1 /\ t[i].token = "active"
  <2>1. st = stack
    BY <1>8 DEF Rest, i, n
  <2> HIDE DEF st
  <2>2. Len(st) = n
    BY <2>1 DEF n
  <2>3. \A k \in 1 .. n : st[k] \in DOMAIN t /\ t[st[k]].token = "active"
    <3> SUFFICES ASSUME NEW k \in 1 .. n PROVE stack[k] \in DOMAIN t /\ t[stack[k]].token = "active"
      BY <2>1
    <3>1. CASE k = n
      BY <1>1, <1>2, <1>3, <1>8, <3>1
    <3>2. CASE k # n
      <4>1. k < n
        BY <1>1, <3>2
      <4>2. QED
        BY <1>2, <1>3, <1>4, <4>1
    <3>3. QED
      BY <3>1, <3>2
  <2>4. \A k \in 1 .. Len(st) - 1 : t[st[k]].wait = "subprocess" /\ t[st[k + 1]].caller = st[k]
    <3> SUFFICES ASSUME NEW k \in 1 .. n - 1 PROVE t[stack[k]].wait = "subprocess" /\ t[stack[k + 1]].caller = stack[k]
      BY <2>1, <2>2
    <3>1. k \in 1 .. n /\ k < n /\ k + 1 \in 1 .. n
      BY <1>1
    <3>2. QED
      BY <1>2, <1>3, <1>4, <3>1
  <2>5. \A j \in DOMAIN t : t[j].token = "active" /\ t[j].wait = "subprocess" => \E k \in 1 .. n : st[k] = j
    BY <1>3, <1>5, <2>1
  <2>6. \A c, j \in DOMAIN t :
          t[c].caller = j /\ t[j].token = "active" /\ t[c].token = "active" => \E k \in 1 .. n : st[k] = c
    BY <1>3, <1>6, <2>1
  <2>7. Frames(t, st)
    BY <1>2, <2>1, <2>2, <2>3, <2>4, <2>5, <2>6 DEF Frames
  <2>8. QED
    BY <2>1, <2>7 DEF st
<1>9. QED
  BY <1>7, <1>8

\* A run that moves and neither ends nor waits.
LEMMA Redone ==
  ASSUME NEW rs \in Seq(Run), Forest(rs), Awaited(rs), NEW i \in DOMAIN rs, rs[i].token = "active",
         \A c \in Children(rs, i) : Over(rs[c]),
         NEW r \in Run, r.caller = rs[i].caller, r.token = "active", r.wait = "none", r.at # 0, ~Over(r),
         r.parked = rs[i].parked, r.mark \in {"none", rs[i].mark}, r.ignored => FailedLate(rs, i)
  PROVE  LET t == [rs EXCEPT ![i] = r]
         IN t \in Seq(Run) /\ Forest(t) /\ Awaited(t) /\ Moves(rs, t, i) /\ t[i] = r
<1> DEFINE t == [rs EXCEPT ![i] = r]
<1>1. t \in Seq(Run) /\ DOMAIN t = DOMAIN rs /\ \A j \in DOMAIN rs : t[j] = IF j = i THEN r ELSE rs[j]
  BY RunReplaced
<1>2. Shape(i, rs[i]) /\ Family(rs, i, rs[i])
  BY DEF Forest
<1>3. Shape(i, r) /\ ~Over(rs[i])
  BY <1>2 DEF Shape
<1>4. Family(rs, i, r)
  BY <1>2 DEF Family
<1>5. Forest(t)
  BY <1>3, <1>4, Touched
<1>6. Awaited(t)
  <2>1. ~AtCall(r)
    BY DEF AtCall
  <2>2. QED
    BY <2>1, TouchedAwaited
<1> HIDE DEF t
<1>7. Moves(rs, t, i)
  BY <1>1 DEF Moves
<1>8. QED
  BY <1>1, <1>5, <1>6, <1>7 DEF t

\* A run that parks.
LEMMA Parks ==
  ASSUME NEW rs \in Seq(Run), Forest(rs), Awaited(rs), NEW i \in DOMAIN rs, rs[i].token = "active",
         NEW kind \in {"user_task", "subprocess"},
         kind = "user_task" => \A c \in Children(rs, i) : Over(rs[c]),
         kind = "subprocess" =>
           /\ rs[i].wait = "subprocess"
           /\ \E c \in Children(rs, i) : /\ ~Over(rs[c]) /\ rs[c].parked
                                         /\ \A d \in Children(rs, i) : d <= c /\ (d # c => Over(rs[d]))
  PROVE  LET t == Wait(rs, i, kind)
         IN t \in Seq(Run) /\ Forest(t) /\ Awaited(t) /\ Moves(rs, t, i)
<1> DEFINE old == rs[i]
           r == [old EXCEPT !.token = "waiting", !.wait = kind, !.status = "waiting", !.parked = TRUE]
           t == [rs EXCEPT ![i] = r]
<1>1. Shape(i, old) /\ Family(rs, i, old) /\ old \in Run /\ old.token = "active"
  BY DEF Forest
<1>2. Wait(rs, i, kind) = t
  BY DEF Wait
<1> HIDE DEF old
<1>3. /\ r \in Run /\ r.caller = old.caller /\ r.at = old.at /\ r.wf = old.wf /\ r.token = "waiting" /\ r.wait = kind
      /\ r.status = "waiting" /\ r.parked /\ r.mark = old.mark /\ r.ignored = old.ignored
  BY <1>1 DEF Run
<1> HIDE DEF r
<1>4. ~Over(r) /\ ~Over(old)
  BY <1>1, <1>3 DEF Over, Ended, Shape
<1>5. Shape(i, r)
  <2>1. kind = "subprocess" => old.at <= Len(Body[old.wf])
    BY <1>1 DEF Shape, old
  <2>2. QED
    BY <1>1, <1>3, <1>4, <2>1 DEF Shape
<1>6. Family(rs, i, r)
  BY <1>1, <1>3 DEF Family
<1>7. t \in Seq(Run) /\ DOMAIN t = DOMAIN rs /\ \A j \in DOMAIN rs : t[j] = IF j = i THEN r ELSE rs[j]
  BY <1>3, RunReplaced
<1>8. Forest(t)
  BY <1>1, <1>3, <1>4, <1>5, <1>6, Touched DEF old
<1>9. Awaited(t)
  <2>1. i \notin Children(rs, i)
    <3>1. old.caller < i /\ old.caller \in Nat /\ i \in Nat
      BY <1>1, RunIs DEF Shape
    <3>2. QED
      BY <3>1 DEF Children, old
  <2>2. AtCall(r) => \E c \in Children(rs, i) : c # i /\ (~Over(rs[c]) \/ rs[c].killed)
    BY <1>3, <2>1 DEF AtCall
  <2>3. QED
    BY <1>3, <1>4, <2>2, TouchedAwaited DEF old
<1> HIDE DEF t
<1>10. Moves(rs, t, i)
  BY <1>3, <1>7 DEF Moves, old
<1>11. QED
  BY <1>2, <1>7, <1>8, <1>9, <1>10

\* The runs, with p in the middle of a call.
AtTheCall(rs, base, p) ==
  /\ Len(base) = Len(rs)
  /\ \A j \in DOMAIN rs :
       /\ base[j] \in Run /\ base[j].caller = rs[j].caller /\ base[j].token = rs[j].token
       /\ base[j].status = rs[j].status /\ base[j].parked = rs[j].parked /\ base[j].killed = rs[j].killed
       /\ base[j].wf = rs[j].wf /\ base[j].at = rs[j].at /\ base[j].mark = rs[j].mark
       /\ base[j].ignored = rs[j].ignored
       /\ base[j].wait = IF j = p THEN "subprocess" ELSE rs[j].wait
       /\ j # p => base[j] = rs[j]

\* The runs after create_run_if_absent.
Opened(base, t, w, depth, p) == t = Append(base, NewRun(w, depth, p))

\* The caller is marked.
LEMMA CallMarked ==
  ASSUME NEW rs \in Seq(Run), NEW p \in DOMAIN rs, NEW base,
         base = [rs EXCEPT ![p] = [rs[p] EXCEPT !.wait = "subprocess"]]
  PROVE  base \in Seq(Run) /\ AtTheCall(rs, base, p)
<1> DEFINE old == rs[p]
           u == [old EXCEPT !.wait = "subprocess"]
<1>1. base = [rs EXCEPT ![p] = u] /\ old \in Run
  OBVIOUS
<1> HIDE DEF old
<1>2. /\ u \in Run /\ u.caller = old.caller /\ u.token = old.token /\ u.status = old.status
      /\ u.parked = old.parked /\ u.killed = old.killed /\ u.wf = old.wf /\ u.at = old.at
      /\ u.mark = old.mark /\ u.ignored = old.ignored /\ u.wait = "subprocess"
  BY <1>1 DEF Run
<1> HIDE DEF u
<1>3. base \in Seq(Run) /\ Len(base) = Len(rs) /\ \A j \in DOMAIN rs : base[j] = IF j = p THEN u ELSE rs[j]
  BY <1>1, <1>2, RunReplaced
<1>4. \A j \in DOMAIN rs : rs[j] \in Run
  OBVIOUS
<1>5. QED
  BY <1>2, <1>3, <1>4 DEF old, AtTheCall

\* t is rs with a new run that p has called.
Created(rs, t, p) ==
  /\ t \in Seq(Run) /\ Len(t) = Len(rs) + 1 /\ Forest(t) /\ Awaited(t)
  /\ t[Len(rs) + 1].token = "active" /\ t[Len(rs) + 1].wait = "none" /\ t[Len(rs) + 1].caller = p
  /\ \A j \in DOMAIN rs : /\ j # p => t[j] = rs[j]
                          /\ t[j].caller = rs[j].caller /\ t[j].token = rs[j].token
                          /\ j = p => t[j].wait = "subprocess"

\* create_run_if_absent: a new run is the last child of its caller.
LEMMA Grown ==
  ASSUME NEW rs \in Seq(Run), Forest(rs), Awaited(rs), NEW p \in {0} \cup DOMAIN rs,
         p # 0 => /\ rs[p].token = "active" /\ rs[p].wait = "none"
                  /\ rs[p].at <= Len(Body[rs[p].wf]),
         NEW w \in DOMAIN Body, NEW depth \in Nat, NEW base \in Seq(Run), AtTheCall(rs, base, p),
         NEW t, Opened(base, t, w, depth, p)
  PROVE  Created(rs, t, p)
<1> DEFINE n == Len(rs)
           new == NewRun(w, depth, p)
<1> HIDE DEF new
<1>15. t = Append(base, new)
  BY DEF new, Opened
<1>1. n \in Nat /\ DOMAIN rs = 1 .. n
  OBVIOUS
<1>2. /\ new \in Run /\ new.caller = p /\ new.token = "active" /\ new.wait = "none" /\ new.at = 1
      /\ new.status = "running" /\ new.mark = "none" /\ ~new.ignored
  <2>1. p \in Nat
    BY <1>1
  <2>2. QED
    BY <2>1 DEF NewRun, Run, Ended, new
<1>3. /\ Len(base) = n
      /\ \A j \in 1 .. n : /\ base[j] \in Run /\ base[j].caller = rs[j].caller /\ base[j].token = rs[j].token
                           /\ base[j].status = rs[j].status /\ base[j].parked = rs[j].parked
                           /\ base[j].killed = rs[j].killed
                           /\ base[j].wf = rs[j].wf /\ base[j].at = rs[j].at /\ base[j].mark = rs[j].mark
                           /\ base[j].ignored = rs[j].ignored
                           /\ base[j].wait = IF j = p THEN "subprocess" ELSE rs[j].wait
                           /\ j # p => base[j] = rs[j]
  BY <1>1 DEF AtTheCall
<1>4. /\ t \in Seq(Run) /\ Len(t) = n + 1 /\ DOMAIN t = 1 .. n + 1 /\ t[n + 1] = new
      /\ \A j \in 1 .. n : t[j] = base[j]
  BY <1>1, <1>2, <1>3, <1>15
<1> HIDE DEF n
<1>14. \A j \in 1 .. n : /\ t[j].caller = rs[j].caller /\ t[j].token = rs[j].token
                         /\ t[j].status = rs[j].status /\ t[j].parked = rs[j].parked
                         /\ t[j].killed = rs[j].killed
                         /\ t[j].wf = rs[j].wf /\ t[j].at = rs[j].at /\ t[j].mark = rs[j].mark
                         /\ t[j].ignored = rs[j].ignored
                         /\ t[j].wait = IF j = p THEN "subprocess" ELSE rs[j].wait
                         /\ j # p => t[j] = rs[j]
  <2> SUFFICES ASSUME NEW j \in 1 .. n
               PROVE  /\ t[j].caller = rs[j].caller /\ t[j].token = rs[j].token
                      /\ t[j].status = rs[j].status /\ t[j].parked = rs[j].parked
                      /\ t[j].killed = rs[j].killed
                      /\ t[j].wf = rs[j].wf /\ t[j].at = rs[j].at /\ t[j].mark = rs[j].mark
                      /\ t[j].ignored = rs[j].ignored
                      /\ t[j].wait = IF j = p THEN "subprocess" ELSE rs[j].wait
                      /\ j # p => t[j] = rs[j]
    OBVIOUS
  <2>1. t[j] = base[j]
    BY <1>4
  <2>2. QED
    BY <1>3, <2>1
<1>5. \A j \in 1 .. n : Shape(j, rs[j]) /\ Family(rs, j, rs[j]) /\ Children(rs, j) \subseteq 1 .. n
  BY <1>1 DEF Forest, Children
<1>6. \A j \in 1 .. n : Children(t, j) = IF j = p THEN Children(rs, j) \cup {n + 1} ELSE Children(rs, j)
  <2> SUFFICES ASSUME NEW j \in 1 .. n
               PROVE  Children(t, j) = IF j = p THEN Children(rs, j) \cup {n + 1} ELSE Children(rs, j)
    OBVIOUS
  <2>1. \A c \in 1 .. n : t[c].caller = rs[c].caller
    BY <1>14, <1>4
  <2>2. t[n + 1].caller = p
    BY <1>2, <1>4
  <2>3. 1 .. n + 1 = (1 .. n) \cup {n + 1}
    BY <1>1
  <2>4. QED
    BY <1>1, <1>4, <2>1, <2>2, <2>3 DEF Children
<1>7. \A c \in 1 .. n : /\ t[c].status = rs[c].status /\ t[c].parked = rs[c].parked
                        /\ t[c].killed = rs[c].killed
  BY <1>14, <1>4
<1>8. \A j \in 1 .. n : FailedLate(rs, j) => FailedLate(t, j)
  <2> SUFFICES ASSUME NEW j \in 1 .. n, NEW c \in Children(rs, j), rs[c].status = "failed", rs[c].parked
               PROVE  FailedLate(t, j)
    BY DEF FailedLate
  <2>1. c \in Children(t, j) /\ c \in 1 .. n
    BY <1>5, <1>6
  <2>2. QED
    BY <1>7, <2>1 DEF FailedLate
<1>9. \A j \in 1 .. n + 1 : Shape(j, t[j])
  <2> SUFFICES ASSUME NEW j \in 1 .. n + 1 PROVE Shape(j, t[j])
    OBVIOUS
  <2>1. CASE j = n + 1
    <3>1. p < n + 1
      BY <1>1
    <3>2. QED
      BY <1>2, <1>4, <2>1, <3>1 DEF Shape, Over, Ended
  <2>2. CASE j # n + 1
    <3>1. j \in 1 .. n
      BY <1>1, <2>2
    <3>2. Shape(j, rs[j]) /\ (j = p => ~Over(rs[j]))
      BY <1>5, <3>1 DEF Shape
    <3>3. QED
      BY <1>14, <1>4, <3>1, <3>2 DEF Shape, Over
  <2>3. QED
    BY <2>1, <2>2
<1>10. \A j \in 1 .. n + 1 : Family(t, j, t[j])
  <2> SUFFICES ASSUME NEW j \in 1 .. n + 1 PROVE Family(t, j, t[j])
    OBVIOUS
  <2>1. CASE j = n + 1
    <3>1. Children(t, n + 1) = {}
      <4> SUFFICES ASSUME NEW c \in 1 .. n + 1, t[c].caller = n + 1 PROVE FALSE
        BY <1>4 DEF Children
      <4>1. CASE c = n + 1
        BY <1>1, <1>2, <1>4, <4>1
      <4>2. CASE c # n + 1
        <5>1. c \in 1 .. n
          BY <1>1, <4>2
        <5>2. rs[c].caller < c /\ rs[c].caller = n + 1
          BY <1>14, <1>4, <1>5, <5>1 DEF Shape
        <5>3. QED
          BY <1>1, <5>1, <5>2
      <4>3. QED
        BY <4>1, <4>2
    <3>2. QED
      BY <1>2, <1>4, <2>1, <3>1 DEF Family
  <2>2. CASE j \in 1 .. n /\ j # p
    <3>1. t[j] = rs[j] /\ Children(t, j) = Children(rs, j) /\ Family(rs, j, rs[j]) /\ Children(rs, j) \subseteq 1 .. n
      BY <1>14, <1>4, <1>5, <1>6, <2>2
    <3>2. \A c \in Children(rs, j) : (Over(rs[c]) => Over(t[c])) /\ (rs[c].parked => t[c].parked)
      BY <1>7, <3>1 DEF Over
    <3>3. FailedLate(rs, j) => FailedLate(t, j)
      BY <1>8, <2>2
    <3>4. QED
      BY <3>1, <3>2, <3>3 DEF Family
  <2>3. CASE j \in 1 .. n /\ j = p
    <3>1. /\ t[j].wait = "subprocess" /\ t[j].token = "active" /\ t[j].mark = rs[j].mark
          /\ t[j].ignored = rs[j].ignored /\ Family(rs, j, rs[j]) /\ rs[j].wait = "none"
          /\ Children(t, j) = Children(rs, j) \cup {n + 1} /\ Children(rs, j) \subseteq 1 .. n
      BY <1>1, <1>14, <1>4, <1>5, <1>6, <2>3
    <3>2. \A d \in Children(t, j) : d <= n + 1 /\ (d # n + 1 => Over(t[d]))
      BY <1>1, <1>7, <3>1 DEF Family, Over
    <3>3. FailedLate(rs, j) => FailedLate(t, j)
      BY <1>8, <2>3
    <3>4. QED
      BY <3>1, <3>2, <3>3 DEF Family
  <2>4. QED
    BY <1>1, <2>1, <2>2, <2>3
<1>11. Forest(t)
  BY <1>4, <1>9, <1>10 DEF Forest
<1>12. Awaited(t)
  <2> SUFFICES ASSUME NEW j \in 1 .. n + 1, AtCall(t[j])
               PROVE  \E c \in Children(t, j) : ~Over(t[c]) \/ t[c].killed
    BY <1>4 DEF Awaited
  <2>1. j \in 1 .. n /\ j # p
    BY <1>1, <1>2, <1>14, <1>4 DEF AtCall
  <2>2. t[j] = rs[j] /\ j \in DOMAIN rs
    BY <1>1, <1>14, <1>4, <2>1
  <2>3. PICK c \in Children(rs, j) : ~Over(rs[c]) \/ rs[c].killed
    BY <2>2 DEF Awaited
  <2>4. QED
    BY <1>5, <1>6, <1>7, <2>1, <2>3 DEF Over
<1>13. QED
  <2>1. \A j \in 1 .. n : /\ j # p => t[j] = rs[j]
                          /\ t[j].caller = rs[j].caller /\ t[j].token = rs[j].token
                          /\ j = p => t[j].wait = "subprocess"
    BY <1>14, <1>4
  <2>2. t[n + 1].token = "active" /\ t[n + 1].wait = "none" /\ t[n + 1].caller = p
    BY <1>2, <1>4
  <2>3. QED
    BY <1>1, <1>4, <1>11, <1>12, <2>1, <2>2 DEF n, Created

\* Run i has moved in place, and then moves on.
LEMMA MovesOn ==
  ASSUME NEW rs \in Seq(Run), NEW i \in DOMAIN rs, NEW base \in Seq(Run), DOMAIN base = DOMAIN rs,
         \A j \in DOMAIN rs : base[j].caller = rs[j].caller /\ (j # i => base[j] = rs[j]),
         rs[i].caller # i, NEW t, Moves(base, t, i)
  PROVE  Moves(rs, t, i)
  BY DEF Moves

\* A run moves on to another node.
LEMMA AdvanceKeeps ==
  ASSUME NEW rs \in Seq(Run), Forest(rs), Awaited(rs), NEW i \in DOMAIN rs,
         rs[i].token = "active", rs[i].wait = "none", NEW to \in Nat \ {0}
  PROVE  LET t == Advance(rs, i, to)
         IN t \in Seq(Run) /\ Forest(t) /\ Awaited(t) /\ Moves(rs, t, i) /\ t[i].at = to
<1> DEFINE old == rs[i]
           r == [old EXCEPT !.at = to, !.mark = "none", !.status = "running"]
<1>1. old \in Run /\ Shape(i, old) /\ Family(rs, i, old) /\ old.token = "active" /\ old.wait = "none"
  BY DEF Forest
<1>2. Advance(rs, i, to) = [rs EXCEPT ![i] = r]
  BY DEF Advance
<1> HIDE DEF old
<1>3. /\ r \in Run /\ r.caller = old.caller /\ r.at = to /\ r.token = "active" /\ r.wait = "none"
      /\ r.status = "running" /\ r.mark = "none" /\ r.parked = old.parked /\ r.ignored = old.ignored
  BY <1>1 DEF Run
<1> HIDE DEF r
<1>4. ~Over(r) /\ (r.ignored => FailedLate(rs, i)) /\ \A c \in Children(rs, i) : Over(rs[c])
  BY <1>1, <1>3 DEF Over, Ended, Family
<1>5. /\ r.caller = rs[i].caller /\ r.parked = rs[i].parked /\ r.mark \in {"none", rs[i].mark}
      /\ r.at # 0 /\ \A c \in Children(rs, i) : Over(rs[c])
  BY <1>3, <1>4 DEF old
<1> DEFINE t == [rs EXCEPT ![i] = r]
<1>6. t \in Seq(Run) /\ Forest(t) /\ Awaited(t) /\ Moves(rs, t, i) /\ t[i] = r
  BY <1>3, <1>4, <1>5, Redone
<1> HIDE DEF t
<1>7. QED
  BY <1>2, <1>3, <1>6 DEF t

\* A run whose call is over, and which may pass a failure over.
Edit(old, ignored) == [old EXCEPT !.wait = "none", !.ignored = ignored]

\* It may move on from there: its children have ended.
LEMMA EditKeeps ==
  ASSUME NEW rs \in Seq(Run), Forest(rs), Awaited(rs), NEW i \in DOMAIN rs, rs[i].token = "active",
         \A c \in Children(rs, i) : Over(rs[c]),
         NEW ignored \in BOOLEAN, ignored => FailedLate(rs, i)
  PROVE  LET r == Edit(rs[i], ignored)
             t == [rs EXCEPT ![i] = r]
         IN /\ t \in Seq(Run) /\ Forest(t) /\ Awaited(t) /\ DOMAIN t = DOMAIN rs
            /\ \A j \in DOMAIN rs : t[j].caller = rs[j].caller /\ (j # i => t[j] = rs[j])
            /\ t[i] = r /\ r.token = "active" /\ r.wait = "none" /\ r.at = rs[i].at /\ r.wf = rs[i].wf
            /\ r.caller = rs[i].caller /\ rs[i].caller # i
<1> DEFINE old == rs[i]
           r == Edit(old, ignored)
           t == [rs EXCEPT ![i] = r]
<1>1. old \in Run /\ Shape(i, old) /\ old.token = "active" /\ DOMAIN rs \subseteq Nat
  BY DEF Forest
<1> HIDE DEF old
<1>2. /\ r \in Run /\ r.caller = old.caller /\ r.at = old.at /\ r.wf = old.wf /\ r.token = "active" /\ r.wait = "none"
      /\ r.status = old.status /\ r.mark = old.mark /\ r.parked = old.parked /\ r.ignored = ignored
  BY <1>1 DEF Run, Edit
<1> HIDE DEF r
<1>3. ~Over(r) /\ r.at # 0 /\ old.caller < i /\ old.caller # i
  BY <1>1, <1>2, RunIs DEF Shape, Over
<1>4. t \in Seq(Run) /\ Forest(t) /\ Awaited(t) /\ t[i] = r
  BY <1>2, <1>3, Redone DEF old
<1>5. DOMAIN t = DOMAIN rs /\ \A j \in DOMAIN rs : t[j] = IF j = i THEN r ELSE rs[j]
  BY <1>2, RunReplaced
<1>6. \A j \in DOMAIN rs : t[j].caller = rs[j].caller /\ (j # i => t[j] = rs[j])
  BY <1>2, <1>5 DEF old
<1> HIDE DEF t
<1>7. QED
  BY <1>2, <1>3, <1>4, <1>5, <1>6 DEF t, r, old

\* What the open transaction's innermost run is.
LEMMA TopIs ==
  ASSUME TreeInv, NEW i \in DOMAIN runs, stack # <<>>, Top = i, runs[i].token = "active"
  PROVE  /\ runs \in Seq(Run) /\ Forest(runs) /\ Awaited(runs) /\ Whole(runs, stack)
         /\ runs[i] \in Run /\ Shape(i, runs[i]) /\ Family(runs, i, runs[i])
         /\ runs[i].at \in Nat \ {0} /\ runs[i].wf \in DOMAIN Body /\ runs[i].wait # "user_task"
<1>1. runs \in Seq(Run) /\ Forest(runs) /\ Awaited(runs) /\ Whole(runs, stack) /\ runs[i] \in Run
  BY DEF TreeInv, Whole
<1>2. Shape(i, runs[i]) /\ Family(runs, i, runs[i])
  BY <1>1 DEF Forest
<1>3. QED
  BY <1>1, <1>2, RunIs DEF Shape

\* A step of the innermost run.
LEMMA Onward ==
  ASSUME TreeInv, stack # <<>>, NEW t \in Seq(Run), Forest(t), Awaited(t), Moves(runs, t, Top), Return(t)
  PROVE  TreeInv'
<1>1. stack \in Seq(Nat) /\ Whole(runs, stack)
  BY DEF TreeInv
<1>2. Rest(t) \in Seq(Nat) /\ Frames(t, Rest(t)) /\ (Rest(t) # <<>> => Rest(t)[1] = stack[1])
  BY <1>1, RestKeeps
<1>3. runs' = t /\ stack' = Rest(t) /\ savepoint' = savepoint
  BY DEF Return
<1>4. Whole(t, Rest(t))
  BY <1>2 DEF Whole
<1>5. Whole(runs, stack)' /\ (stack \in Seq(Nat))'
  BY <1>2, <1>3, <1>4
<1>6. (stack # <<>>)' => /\ Whole(savepoint, <<>>)' /\ (stack[1] \in DOMAIN savepoint)'
                         /\ (savepoint[stack[1]].token = "active")'
  <2>1. Whole(savepoint, <<>>) /\ stack[1] \in DOMAIN savepoint /\ savepoint[stack[1]].token = "active"
    BY DEF TreeInv
  <2>2. Whole(savepoint, <<>>)'
    BY <1>3, <2>1
  <2>3. QED
    BY <1>2, <1>3, <2>1, <2>2
<1>7. QED
  BY <1>5, <1>6 DEF TreeInv

\* advance_active_tokens claims a token: the stack is that run alone.
LEMMA ClaimKeeps ==
  ASSUME TreeInv, NEW i \in DOMAIN runs, Claim(i)
  PROVE  TreeInv'
<1>1. Whole(runs, <<>>) /\ runs[i].token = "active" /\ stack' = <<i>> /\ savepoint' = runs /\ runs' = runs
  BY DEF TreeInv, Claim
<1>2. DOMAIN runs \subseteq Nat /\ runs \in Seq(Run)
  BY <1>1 DEF Whole
<1>3. Frames(runs, <<i>>)
  <2>1. \A j \in DOMAIN runs : ~(runs[j].token = "active" /\ runs[j].wait = "subprocess")
    BY <1>1 DEF Whole, Frames
  <2>2. \A c, j \in DOMAIN runs : ~(runs[c].caller = j /\ runs[j].token = "active" /\ runs[c].token = "active")
    BY <1>1 DEF Whole, Frames
  <2>3. Len(<<i>>) = 1 /\ <<i>>[1] = i /\ 1 .. 1 = {1} /\ 1 .. 1 - 1 = {}
    OBVIOUS
  <2>4. QED
    BY <1>1, <1>2, <2>1, <2>2, <2>3 DEF Frames
<1>4. stack' \in Seq(Nat) /\ stack'[1] = i
  BY <1>1, <1>2
<1>5. QED
  BY <1>1, <1>3, <1>4 DEF TreeInv, Whole

\* An event starts a run, which nobody called.
LEMMA StartKeeps ==
  ASSUME CallSetting, TreeInv, NEW w \in Roots, Start(w)
  PROVE  TreeInv'
<1> DEFINE t == Append(runs, NewRun(w, 0, 0))
           n == Len(runs)
<1>1. Whole(runs, <<>>) /\ stack = <<>> /\ stack' = <<>> /\ runs' = t
  BY DEF TreeInv, Start
<1>2. runs \in Seq(Run) /\ Forest(runs) /\ Awaited(runs) /\ Frames(runs, <<>>) /\ w \in DOMAIN Body
  BY <1>1 DEF Whole, CallSetting
<1>3. /\ t \in Seq(Run) /\ Len(t) = n + 1 /\ Forest(t) /\ Awaited(t)
      /\ t[n + 1].token = "active" /\ t[n + 1].wait = "none" /\ t[n + 1].caller = 0
      /\ \A j \in DOMAIN runs : j # 0 => t[j] = runs[j]
  <2> DEFINE p == 0
             u == Append(runs, NewRun(w, p, p))
  <2>1. p \in {0} \cup DOMAIN runs /\ p = 0 /\ p \in Nat /\ u = t
    OBVIOUS
  <2> HIDE DEF p
  <2>2. AtTheCall(runs, runs, p)
    BY <1>2, <2>1 DEF AtTheCall
  <2>3. p # 0 => runs[p].token = "active" /\ runs[p].wait = "none" /\ runs[p].at <= Len(Body[runs[p].wf])
    BY <2>1
  <2>4. Opened(runs, u, w, p, p)
    BY DEF Opened
  <2> HIDE DEF u, t, n
  <2>5. Created(runs, u, p)
    BY <1>2, <2>1, <2>2, <2>3, <2>4, Grown
  <2>6. QED
    BY <2>1, <2>5 DEF n, Created
<1> HIDE DEF t
<1>4. DOMAIN t = 1 .. n + 1 /\ DOMAIN runs = 1 .. n /\ n \in Nat /\ \A j \in 1 .. n : t[j] = runs[j]
  BY <1>2, <1>3
<1> HIDE DEF n
<1>5. Frames(t, <<>>)
  <2>1. /\ \A j \in 1 .. n : ~(runs[j].token = "active" /\ runs[j].wait = "subprocess")
        /\ \A c, j \in 1 .. n : ~(runs[c].caller = j /\ runs[j].token = "active" /\ runs[c].token = "active")
    BY <1>2, <1>4 DEF Frames
  <2>2. \A j \in 1 .. n + 1 : ~(t[j].token = "active" /\ t[j].wait = "subprocess")
    BY <1>3, <1>4, <2>1
  <2>3. \A c \in 1 .. n : runs[c].caller # n + 1
    <3> SUFFICES ASSUME NEW c \in 1 .. n PROVE runs[c].caller # n + 1
      OBVIOUS
    <3>1. runs[c].caller < c /\ runs[c] \in Run
      BY <1>2, <1>4 DEF Forest, Shape
    <3>2. QED
      BY <1>4, <3>1, RunIs
  <2>4. \A c, j \in 1 .. n + 1 : ~(t[c].caller = j /\ t[j].token = "active" /\ t[c].token = "active")
    <3> SUFFICES ASSUME NEW c \in 1 .. n + 1, NEW j \in 1 .. n + 1,
                        t[c].caller = j, t[j].token = "active", t[c].token = "active"
                 PROVE  FALSE
      OBVIOUS
    <3>1. c \in 1 .. n
      BY <1>3, <1>4
    <3>2. j \in 1 .. n
      BY <1>4, <2>3, <3>1
    <3>3. QED
      BY <1>4, <2>1, <3>1, <3>2
  <2>5. QED
    BY <1>4, <2>2, <2>4 DEF Frames
<1>6. Whole(t, <<>>)
  BY <1>3, <1>5 DEF Whole
<1>7. QED
  BY <1>1, <1>6 DEF TreeInv, Whole

\* The run goes on from its user task: its caller is not moving.
LEMMA CompleteKeeps ==
  ASSUME TreeInv, NEW i \in DOMAIN runs, Complete(i)
  PROVE  TreeInv'
<1> DEFINE old == runs[i]
           r == [old EXCEPT !.token = "active", !.wait = "none", !.mark = "completed"]
           t == [runs EXCEPT ![i] = r]
<1>1. Whole(runs, <<>>) /\ stack = <<>> /\ stack' = <<>> /\ runs' = t /\ old.token = "waiting" /\ old.wait = "user_task"
  BY DEF TreeInv, Complete
<1>2. runs \in Seq(Run) /\ Forest(runs) /\ Awaited(runs) /\ Frames(runs, <<>>)
  BY <1>1 DEF Whole
<1>3. old \in Run /\ Shape(i, old) /\ Family(runs, i, old) /\ DOMAIN runs \subseteq Nat
  BY <1>2 DEF Forest
<1> HIDE DEF old
<1>4. /\ r \in Run /\ r.caller = old.caller /\ r.at = old.at /\ r.token = "active" /\ r.wait = "none"
      /\ r.mark = "completed" /\ r.parked = old.parked /\ r.ignored = old.ignored /\ r.status = old.status
  BY <1>3 DEF Run
<1> HIDE DEF r
<1>5. ~Over(r) /\ ~Over(old) /\ Shape(i, r) /\ Family(runs, i, r) /\ ~AtCall(r)
  BY <1>1, <1>3, <1>4 DEF Over, Shape, Family, AtCall
<1>6. Forest(t) /\ Awaited(t)
  BY <1>2, <1>4, <1>5, Touched, TouchedAwaited DEF old
<1>7. t \in Seq(Run) /\ DOMAIN t = DOMAIN runs /\ \A j \in DOMAIN runs : t[j] = IF j = i THEN r ELSE runs[j]
  BY <1>2, <1>4, RunReplaced
<1> HIDE DEF t
<1>8. /\ \A j \in DOMAIN runs : ~(runs[j].token = "active" /\ runs[j].wait = "subprocess")
      /\ \A c, j \in DOMAIN runs : ~(runs[c].caller = j /\ runs[j].token = "active" /\ runs[c].token = "active")
  BY <1>2 DEF Frames
<1>9. \A c, j \in DOMAIN runs : ~(t[c].caller = j /\ t[j].token = "active" /\ t[c].token = "active")
  <2> SUFFICES ASSUME NEW c \in DOMAIN runs, NEW j \in DOMAIN runs,
                      t[c].caller = j, t[j].token = "active", t[c].token = "active"
               PROVE  FALSE
    OBVIOUS
  <2>1. runs[c].caller = j /\ c \in Children(runs, j)
    BY <1>4, <1>7 DEF old, Children
  <2>2. CASE j = i
    <3>1. c # i
      BY <1>3, <2>1, <2>2, RunIs DEF Shape, old
    <3>2. Over(runs[c]) /\ Shape(c, runs[c])
      BY <1>1, <1>2, <1>3, <2>1, <2>2 DEF Family, Forest
    <3>3. QED
      BY <1>7, <3>1, <3>2 DEF Shape
  <2>3. CASE j # i
    <3>1. runs[j].token = "active" /\ runs[j].wait # "subprocess" /\ Family(runs, j, runs[j])
      BY <1>2, <1>7, <1>8, <2>3 DEF Forest
    <3>2. Over(runs[c])
      BY <2>1, <3>1 DEF Family
    <3>3. c # i
      BY <1>5, <3>2 DEF old
    <3>4. QED
      BY <1>7, <1>8, <2>1, <3>1, <3>3
  <2>4. QED
    BY <2>2, <2>3
<1>10. \A j \in DOMAIN runs : ~(t[j].token = "active" /\ t[j].wait = "subprocess")
  BY <1>4, <1>7, <1>8
<1>11. Whole(t, <<>>)
  BY <1>6, <1>7, <1>9, <1>10 DEF Whole, Frames
<1>12. QED
  BY <1>1, <1>11 DEF TreeInv, Whole

\* _dispatch_call creates the child and drives it: it is pushed.
LEMMA CallKeeps ==
  ASSUME TreeInv, NEW i \in DOMAIN runs, Call(i)
  PROVE  TreeInv'
<1> DEFINE n == Len(runs)
           m == Len(stack)
           w == Node(runs[i]).to
           depth == runs[i].depth + 1
           base == [runs EXCEPT ![i] = [runs[i] EXCEPT !.wait = "subprocess"]]
           t == Append(base, NewRun(w, depth, i))
           st == Append(stack, n + 1)
<1>1. /\ stack # <<>> /\ Top = i /\ runs[i].token = "active" /\ runs[i].wait # "subprocess"
      /\ runs[i].at <= Len(Body[runs[i].wf]) /\ w \in DOMAIN Body /\ runs' = t /\ stack' = st /\ savepoint' = savepoint
  <2>1. ~AtEnd(runs[i]) /\ Dispatching(i) /\ Callable(runs[i])
    BY DEF Call, Calling
  <2>2. runs[i].at \in Nat
    <3>1. stack # <<>> /\ Top = i /\ runs[i].token = "active"
      BY <2>1 DEF Dispatching
    <3>2. QED
      BY <3>1, TopIs
  <2>3. QED
    BY <2>1, <2>2 DEF Call, Dispatching, Callable, AtEnd
<1>2. /\ runs \in Seq(Run) /\ Forest(runs) /\ Awaited(runs) /\ Frames(runs, stack) /\ stack \in Seq(Nat)
      /\ runs[i] \in Run /\ runs[i].wait = "none" /\ depth \in Nat /\ i \in {0} \cup DOMAIN runs
      /\ n \in Nat /\ DOMAIN runs = 1 .. n /\ m \in Nat \ {0} /\ stack[m] = i
  <2>1. runs[i] \in Run /\ runs[i].wait = "none"
    BY <1>1, TopIs, RunIs
  <2>2. QED
    BY <1>1, <2>1, TopIs, RunIs DEF TreeInv, Whole, Top
<1> HIDE DEF w, depth
<1>3. base \in Seq(Run) /\ AtTheCall(runs, base, i) /\ Opened(base, t, w, depth, i)
  BY <1>2, CallMarked DEF Opened
<1> HIDE DEF base, t, n, m, st
<1>11. /\ runs \in Seq(Run) /\ Forest(runs) /\ Awaited(runs) /\ i \in {0} \cup DOMAIN runs
       /\ w \in DOMAIN Body /\ depth \in Nat
       /\ runs[i].token = "active" /\ runs[i].wait = "none" /\ runs[i].at <= Len(Body[runs[i].wf])
  BY <1>1, <1>2
<1>4. Created(runs, t, i)
  BY <1>3, <1>11, Grown
<1>5. /\ t \in Seq(Run) /\ Forest(t) /\ Awaited(t) /\ DOMAIN t = 1 .. n + 1
      /\ t[n + 1].token = "active" /\ t[n + 1].wait = "none" /\ t[n + 1].caller = i
      /\ \A j \in 1 .. n : /\ j # i => t[j] = runs[j]
                           /\ t[j].caller = runs[j].caller /\ t[j].token = runs[j].token
                           /\ j = i => t[j].wait = "subprocess"
  <2>1. Len(runs) = n /\ DOMAIN runs = 1 .. n /\ n \in Nat
    BY <1>2 DEF n
  <2>2. /\ t \in Seq(Run) /\ Forest(t) /\ Awaited(t) /\ Len(t) = n + 1
        /\ t[n + 1].token = "active" /\ t[n + 1].wait = "none" /\ t[n + 1].caller = i
    BY <1>4, <2>1 DEF Created
  <2>3. DOMAIN t = 1 .. n + 1
    BY <2>2
  <2>4. \A j \in 1 .. n : /\ j # i => t[j] = runs[j]
                          /\ t[j].caller = runs[j].caller /\ t[j].token = runs[j].token
                          /\ j = i => t[j].wait = "subprocess"
    BY <1>4, <2>1 DEF Created
  <2>5. QED
    BY <2>2, <2>3, <2>4
<1>6. /\ st \in Seq(Nat) /\ Len(st) = m + 1 /\ st[m + 1] = n + 1 /\ \A k \in 1 .. m : st[k] = stack[k]
  BY <1>2 DEF m, st
<1>7. /\ \A k \in 1 .. m : stack[k] \in 1 .. n /\ runs[stack[k]].token = "active"
      /\ \A k, l \in 1 .. m : k < l => stack[k] < stack[l]
      /\ \A k \in 1 .. m - 1 : runs[stack[k]].wait = "subprocess" /\ runs[stack[k + 1]].caller = stack[k]
      /\ \A j \in 1 .. n : runs[j].token = "active" /\ runs[j].wait = "subprocess" => \E k \in 1 .. m : stack[k] = j
      /\ \A c, j \in 1 .. n :
           runs[c].caller = j /\ runs[j].token = "active" /\ runs[c].token = "active" => \E k \in 1 .. m : stack[k] = c
  BY <1>2 DEF Frames, m
<1>8. Frames(t, st)
  <2>1. \A k \in 1 .. m + 1 : st[k] \in DOMAIN t /\ t[st[k]].token = "active"
    <3> SUFFICES ASSUME NEW k \in 1 .. m + 1 PROVE st[k] \in DOMAIN t /\ t[st[k]].token = "active"
      OBVIOUS
    <3>1. CASE k = m + 1
      BY <1>2, <1>5, <1>6, <3>1
    <3>2. CASE k \in 1 .. m
      <4>1. st[k] = stack[k] /\ stack[k] \in 1 .. n /\ runs[stack[k]].token = "active"
        BY <1>6, <1>7, <3>2
      <4>2. t[stack[k]].token = "active" /\ stack[k] \in 1 .. n + 1
        BY <1>2, <1>5, <4>1
      <4>3. QED
        BY <1>5, <4>1, <4>2
    <3>3. QED
      BY <1>2, <3>1, <3>2
  <2>2. \A k, l \in 1 .. m + 1 : k < l => st[k] < st[l]
    <3> SUFFICES ASSUME NEW k \in 1 .. m + 1, NEW l \in 1 .. m + 1, k < l PROVE st[k] < st[l]
      OBVIOUS
    <3>1. k \in 1 .. m /\ st[k] = stack[k] /\ stack[k] \in 1 .. n
      BY <1>2, <1>6, <1>7
    <3>2. CASE l = m + 1
      BY <1>2, <1>6, <3>1, <3>2
    <3>3. CASE l \in 1 .. m
      BY <1>6, <1>7, <3>1, <3>3
    <3>4. QED
      BY <1>2, <3>2, <3>3
  <2>3. \A k \in 1 .. m : t[st[k]].wait = "subprocess" /\ t[st[k + 1]].caller = st[k]
    <3> SUFFICES ASSUME NEW k \in 1 .. m PROVE t[st[k]].wait = "subprocess" /\ t[st[k + 1]].caller = st[k]
      OBVIOUS
    <3>1. st[k] = stack[k] /\ stack[k] \in 1 .. n
      BY <1>6, <1>7
    <3>2. CASE k = m
      BY <1>2, <1>5, <1>6, <3>1, <3>2
    <3>3. CASE k # m
      <4>1. k \in 1 .. m - 1 /\ k + 1 \in 1 .. m /\ st[k + 1] = stack[k + 1] /\ stack[k + 1] \in 1 .. n
        BY <1>2, <1>6, <1>7, <3>3
      <4>2. runs[stack[k]].wait = "subprocess" /\ runs[stack[k + 1]].caller = stack[k]
        BY <1>7, <4>1
      <4>3. QED
        BY <1>5, <3>1, <4>1, <4>2
    <3>4. QED
      BY <3>2, <3>3
  <2>4. \A j \in 1 .. n + 1 : t[j].token = "active" /\ t[j].wait = "subprocess" => \E k \in 1 .. m + 1 : st[k] = j
    <3> SUFFICES ASSUME NEW j \in 1 .. n + 1, t[j].token = "active", t[j].wait = "subprocess"
                 PROVE  \E k \in 1 .. m + 1 : st[k] = j
      OBVIOUS
    <3>1. j \in 1 .. n
      BY <1>2, <1>5
    <3>2. CASE j = i
      <4>1. m \in 1 .. m /\ m \in 1 .. m + 1 /\ stack[m] = i
        BY <1>2
      <4>2. st[m] = i
        BY <1>6, <4>1
      <4>3. QED
        BY <3>2, <4>1, <4>2
    <3>3. CASE j # i
      <4>1. PICK k \in 1 .. m : stack[k] = j
        BY <1>5, <1>7, <3>1, <3>3
      <4>2. QED
        BY <1>2, <1>6, <4>1
    <3>4. QED
      BY <3>2, <3>3
  <2>5. \A c, j \in 1 .. n + 1 :
          t[c].caller = j /\ t[j].token = "active" /\ t[c].token = "active" => \E k \in 1 .. m + 1 : st[k] = c
    <3> SUFFICES ASSUME NEW c \in 1 .. n + 1, NEW j \in 1 .. n + 1,
                        t[c].caller = j, t[j].token = "active", t[c].token = "active"
                 PROVE  \E k \in 1 .. m + 1 : st[k] = c
      OBVIOUS
    <3>1. CASE c = n + 1
      BY <1>2, <1>6, <3>1
    <3>2. CASE c \in 1 .. n
      <4>5. c \in DOMAIN runs /\ runs[c].caller = j /\ runs[c].token = "active" /\ runs[c] \in Run
        BY <1>2, <1>5, <3>2
      <4>6. Shape(c, runs[c])
        BY <1>2, <4>5 DEF Forest
      <4>1. runs[c].caller = j /\ runs[c].token = "active" /\ runs[c].caller < c /\ runs[c] \in Run
        BY <4>5, <4>6 DEF Shape
      <4>2. j \in 1 .. n
        BY <1>2, <3>2, <4>1
      <4>3. PICK k \in 1 .. m : stack[k] = c
        BY <1>5, <1>7, <3>2, <4>1, <4>2
      <4>4. QED
        BY <1>2, <1>6, <4>3
    <3>3. QED
      BY <1>2, <3>1, <3>2
  <2>6. 1 .. Len(st) = 1 .. m + 1 /\ 1 .. Len(st) - 1 = 1 .. m /\ DOMAIN t = 1 .. n + 1
    BY <1>2, <1>5, <1>6
  <2>7. QED
    BY <2>1, <2>2, <2>3, <2>4, <2>5, <2>6 DEF Frames
<1>9. Whole(t, st) /\ st[1] = stack[1]
  BY <1>2, <1>5, <1>6, <1>8 DEF Whole
<1>10. QED
  <2>1. Whole(savepoint, <<>>) /\ stack[1] \in DOMAIN savepoint /\ savepoint[stack[1]].token = "active"
    BY <1>1 DEF TreeInv
  <2>2. (Whole(runs, stack))' /\ (stack \in Seq(Nat))' /\ (Whole(savepoint, <<>>))'
    BY <1>1, <1>6, <1>9, <2>1
  <2>3. (stack[1] \in DOMAIN savepoint)' /\ (savepoint[stack[1]].token = "active")'
    BY <1>1, <1>9, <2>1
  <2>4. QED
    BY <2>2, <2>3 DEF TreeInv

\* What Dispatching says of the run that moves.
LEMMA MoverIs ==
  ASSUME TreeInv, NEW i \in DOMAIN runs, Dispatching(i)
  PROVE  /\ stack # <<>> /\ Top = i /\ runs \in Seq(Run) /\ Forest(runs) /\ Awaited(runs)
         /\ runs[i] \in Run /\ runs[i].token = "active" /\ runs[i].wait = "none"
         /\ runs[i].at \in Nat \ {0} /\ runs[i].at + 1 \in Nat \ {0} /\ Family(runs, i, runs[i])
         /\ \A c \in Children(runs, i) : Over(runs[c])
<1>1. stack # <<>> /\ Top = i /\ runs[i].token = "active" /\ runs[i].wait # "subprocess"
  BY DEF Dispatching
<1>2. /\ runs \in Seq(Run) /\ Forest(runs) /\ Awaited(runs) /\ runs[i] \in Run /\ Family(runs, i, runs[i])
      /\ runs[i].at \in Nat \ {0} /\ runs[i].wait # "user_task"
  BY <1>1, TopIs
<1>3. runs[i].wait = "none"
  BY <1>1, <1>2, RunIs
<1>4. QED
  BY <1>1, <1>2, <1>3 DEF Family

\* The run that moves ends.
LEMMA FinishOnward ==
  ASSUME TreeInv, NEW i \in DOMAIN runs, Dispatching(i), NEW status \in Ended, Return(Finish(runs, i, status))
  PROVE  TreeInv'
<1> DEFINE t == Finish(runs, i, status)
<1>1. stack # <<>> /\ Top = i
  BY MoverIs
<1>2. t \in Seq(Run) /\ Forest(t) /\ Awaited(t) /\ Moves(runs, t, i)
  BY MoverIs, FinishKeeps
<1> HIDE DEF t
<1>3. Return(t)
  BY DEF t
<1>4. QED
  BY <1>1, <1>2, <1>3, Onward

\* The run that moves passes its node.
LEMMA AdvanceOnward ==
  ASSUME TreeInv, NEW i \in DOMAIN runs, Dispatching(i), Return(Advance(runs, i, runs[i].at + 1))
  PROVE  TreeInv'
<1> DEFINE to == runs[i].at + 1
           t == Advance(runs, i, to)
<1>1. stack # <<>> /\ Top = i /\ to \in Nat \ {0}
  BY MoverIs
<1> HIDE DEF to
<1>2. t \in Seq(Run) /\ Forest(t) /\ Awaited(t) /\ Moves(runs, t, i)
  BY <1>1, MoverIs, AdvanceKeeps
<1> HIDE DEF t
<1>3. Return(t)
  BY DEF t, to
<1>4. QED
  BY <1>1, <1>2, <1>3, Onward

\* A user task: the run parks, or has been completed.
LEMMA UserKeeps ==
  ASSUME TreeInv, NEW i \in DOMAIN runs, User(i)
  PROVE  TreeInv'
<1>1. Dispatching(i)
  BY DEF User
<1>2. CASE runs[i].mark # "none"
  BY <1>1, <1>2, AdvanceOnward DEF User
<1>3. CASE runs[i].mark = "none"
  <2> DEFINE t == Wait(runs, i, "user_task")
  <2>1. Return(t) /\ stack # <<>> /\ Top = i
    BY <1>1, <1>3, MoverIs DEF User
  <2>2. t \in Seq(Run) /\ Forest(t) /\ Awaited(t) /\ Moves(runs, t, i)
    <3> DEFINE kind == "user_task"
    <3>1. kind \in {"user_task", "subprocess"} /\ kind # "subprocess"
      OBVIOUS
    <3> HIDE DEF kind
    <3> DEFINE u == Wait(runs, i, kind)
    <3>2. u \in Seq(Run) /\ Forest(u) /\ Awaited(u) /\ Moves(runs, u, i)
      BY <1>1, <3>1, MoverIs, Parks
    <3>3. QED
      BY <3>2 DEF kind
  <2> HIDE DEF t
  <2>3. QED
    BY <2>1, <2>2, Onward
<1>4. QED
  BY <1>2, <1>3

\* A call that is marked completed: the caller advances, and remembers that
\* it passed a failure over, which is that of a child it was parked for.
LEMMA ResumeKeeps ==
  ASSUME TreeInv, NEW i \in DOMAIN runs, Resume(i)
  PROVE  TreeInv'
<1> DEFINE ignored == runs[i].ignored \/ Unrouted(i, runs[i].mark, runs[i].at + 1)
           r == Edit(runs[i], ignored)
           base == [runs EXCEPT ![i] = r]
           to == runs[i].at + 1
           t == Advance(base, i, to)
<1>1. Dispatching(i)
  BY DEF Resume, Calling
<1>2. /\ stack # <<>> /\ Top = i /\ runs \in Seq(Run) /\ Forest(runs) /\ Awaited(runs)
      /\ runs[i] \in Run /\ runs[i].token = "active" /\ runs[i].wait = "none"
      /\ to \in Nat \ {0} /\ Family(runs, i, runs[i]) /\ \A c \in Children(runs, i) : Over(runs[c])
  BY <1>1, MoverIs
<1>3. ignored \in BOOLEAN
  BY <1>2, RunIs DEF Unrouted
<1>4. ignored => FailedLate(runs, i)
  BY <1>2 DEF Family, Unrouted
<1>5. Return(t)
  <2>1. [runs[i] EXCEPT !.ignored = ignored] = r
    <3> DEFINE old == runs[i]
    <3>1. old \in Run /\ old.wait = "none"
      BY <1>2
    <3> HIDE DEF old, ignored
    <3>2. [old EXCEPT !.ignored = ignored] = [old EXCEPT !.wait = "none", !.ignored = ignored]
      BY <3>1 DEF Run
    <3>3. QED
      BY <3>2 DEF old, Edit
  <2>2. QED
    BY <2>1 DEF Resume
<1> HIDE DEF ignored, to, r
<1>6. /\ base \in Seq(Run) /\ Forest(base) /\ Awaited(base) /\ DOMAIN base = DOMAIN runs
      /\ \A j \in DOMAIN runs : base[j].caller = runs[j].caller /\ (j # i => base[j] = runs[j])
      /\ base[i].token = "active" /\ base[i].wait = "none" /\ runs[i].caller # i
  BY <1>2, <1>3, <1>4, EditKeeps DEF r
<1> HIDE DEF base
<1>7. t \in Seq(Run) /\ Forest(t) /\ Awaited(t) /\ Moves(base, t, i)
  BY <1>2, <1>6, AdvanceKeeps
<1> HIDE DEF t
<1>8. Moves(runs, t, i)
  BY <1>2, <1>6, <1>7, MovesOn
<1>9. QED
  BY <1>2, <1>5, <1>7, <1>8, Onward

\* Where the caller goes once its child has ended.
LEMMA RoutedKeeps ==
  ASSUME CallSetting, NEW rs \in Seq(Run), Forest(rs), Awaited(rs), NEW i \in DOMAIN rs,
         rs[i].token = "active", rs[i].wait = "none", rs[i].at <= Len(Body[rs[i].wf]), NEW status \in Ended
  PROVE  LET t == Routed(rs, i, status)
         IN /\ t \in Seq(Run) /\ Forest(t) /\ Awaited(t) /\ Moves(rs, t, i)
            /\ status = "failed" /\ t[i].at = rs[i].at + 1 =>
                 Node(rs[i]).continue_on_error \/ Node(rs[i]).boundary = t[i].at
<1> DEFINE b == Node(rs[i]).boundary
           on == Node(rs[i]).continue_on_error
           t == Routed(rs, i, status)
           next == rs[i].at + 1
<1>1. rs[i].at \in Nat \ {0} /\ next \in Nat \ {0} /\ rs[i].at # next /\ b \in Nat
  <2>1. rs[i] \in Run /\ Shape(i, rs[i])
    BY DEF Forest
  <2>2. rs[i].at \in Nat \ {0} /\ rs[i].wf \in DOMAIN Body
    BY <2>1, RunIs DEF Shape
  <2>3. rs[i].at \in 1 .. Len(Body[rs[i].wf])
    BY <2>2 DEF CallSetting
  <2>4. QED
    BY <2>2, <2>3 DEF CallSetting, Node
<1>2. CASE status = "succeeded"
  <2>1. t = Advance(rs, i, next)
    BY <1>2 DEF Routed
  <2> HIDE DEF t, next
  <2>2. QED
    BY <1>1, <1>2, <2>1, AdvanceKeeps DEF t
<1>3. CASE status = "failed" /\ b # 0
  <2>1. t = Advance(rs, i, b) /\ b \in Nat \ {0}
    BY <1>1, <1>3 DEF Routed
  <2> HIDE DEF t, next, b
  <2>2. t \in Seq(Run) /\ Forest(t) /\ Awaited(t) /\ Moves(rs, t, i) /\ t[i].at = b
    BY <2>1, AdvanceKeeps
  <2>3. QED
    BY <2>2 DEF t, b
<1>4. CASE status = "failed" /\ b = 0 /\ on
  <2>1. t = Advance(rs, i, next)
    BY <1>4 DEF Routed
  <2> HIDE DEF t, next, b
  <2>2. t \in Seq(Run) /\ Forest(t) /\ Awaited(t) /\ Moves(rs, t, i)
    BY <1>1, <2>1, AdvanceKeeps
  <2>3. QED
    BY <1>4, <2>2 DEF t
<1>5. CASE status = "failed" /\ b = 0 /\ ~on
  <2>1. t = Finish(rs, i, status)
    BY <1>5 DEF Routed
  <2> HIDE DEF t, b
  <2>2. t \in Seq(Run) /\ Forest(t) /\ Awaited(t) /\ Moves(rs, t, i) /\ t[i].at = rs[i].at
    BY <2>1, FinishKeeps
  <2>3. t[i].at # rs[i].at + 1
    BY <1>1, <2>2 DEF next
  <2>4. QED
    BY <2>2, <2>3 DEF t
<1>6. QED
  BY <1>2, <1>3, <1>4, <1>5 DEF Ended

\* The caller goes on when its child rests.
LEMMA ReturnedKeeps ==
  ASSUME CallSetting, TreeInv, NEW i \in DOMAIN runs, Returned(i)
  PROVE  TreeInv'
<1> DEFINE c == ChildOf(i)
           status == runs[c].status
           r == Edit(runs[i], runs[i].ignored)
           base == [runs EXCEPT ![i] = r]
           t == Routed(base, i, status)
<1>1. stack # <<>> /\ Top = i /\ runs[i].token = "active" /\ runs[i].wait = "subprocess"
  BY DEF Returned
<1>2. /\ runs \in Seq(Run) /\ Forest(runs) /\ Awaited(runs) /\ Whole(runs, stack) /\ runs[i] \in Run
      /\ Shape(i, runs[i]) /\ Family(runs, i, runs[i]) /\ runs[i].at \in Nat \ {0}
  BY <1>1, TopIs
<1>3. /\ c \in Children(runs, i)
      /\ \A d \in Children(runs, i) : d <= c /\ (d # c => Over(runs[d]))
  <2>1. PICK last \in Children(runs, i) : \A d \in Children(runs, i) : d <= last /\ (d # last => Over(runs[d]))
    BY <1>1, <1>2 DEF Family
  <2>2. c \in Children(runs, i) /\ \A d \in Children(runs, i) : d <= c
    BY <2>1 DEF ChildOf
  <2>3. c = last
    <3>1. c <= last /\ last <= c /\ c \in Nat /\ last \in Nat
      BY <1>2, <2>1, <2>2 DEF Children
    <3>2. QED
      BY <3>1
  <2>4. QED
    BY <2>1, <2>3
<1>4. c \in DOMAIN runs /\ runs[c].caller = i /\ runs[c] \in Run /\ Shape(c, runs[c]) /\ c \in Nat /\ i \in Nat
  BY <1>2, <1>3 DEF Children, Forest
<1> HIDE DEF c
<1>5. CASE status \in Ended
  <2>1. \A d \in Children(runs, i) : Over(runs[d])
    BY <1>3, <1>5 DEF Over
  <2>2. runs[i].ignored \in BOOLEAN /\ (runs[i].ignored => FailedLate(runs, i))
    BY <1>2, RunIs DEF Family
  <2>3. /\ base \in Seq(Run) /\ Forest(base) /\ Awaited(base) /\ DOMAIN base = DOMAIN runs
        /\ \A j \in DOMAIN runs : base[j].caller = runs[j].caller /\ (j # i => base[j] = runs[j])
        /\ base[i].token = "active" /\ base[i].wait = "none" /\ runs[i].caller # i
        /\ base[i].at = runs[i].at /\ base[i].wf = runs[i].wf
    BY <1>1, <1>2, <2>1, <2>2, EditKeeps
  <2>4. base = [runs EXCEPT ![i] = [runs[i] EXCEPT !.wait = "none"]]
    <3> DEFINE old == runs[i]
    <3>1. old \in Run
      BY <1>2
    <3> HIDE DEF old
    <3>2. [old EXCEPT !.wait = "none"] = Edit(old, old.ignored)
      BY <3>1 DEF Run, Edit
    <3>3. QED
      BY <3>2 DEF old
  <2>5. Return([t EXCEPT ![i] = [t[i] EXCEPT !.ignored = t[i].ignored \/ Unrouted(i, status, t[i].at)]])
    BY <1>5, <2>4 DEF Returned, c
  <2>6. Node(base[i]) = Node(runs[i]) /\ base[i].at <= Len(Body[base[i].wf])
    BY <1>1, <1>2, <2>3 DEF Node, Shape
  <2> HIDE DEF base, r
  <2>7. /\ t \in Seq(Run) /\ Forest(t) /\ Awaited(t) /\ Moves(base, t, i)
        /\ status = "failed" /\ t[i].at = base[i].at + 1 =>
             Node(base[i]).continue_on_error \/ Node(base[i]).boundary = t[i].at
    <3> HIDE DEF status
    <3>1. QED
      BY <1>5, <2>3, <2>6, RoutedKeeps
  <2>8. ~Unrouted(i, status, t[i].at)
    BY <2>3, <2>6, <2>7 DEF Unrouted
  <2> HIDE DEF t
  <2>9. Return(t)
    <3>1. i \in DOMAIN t
      BY <2>3, <2>7 DEF Moves
    <3>2. t[i] \in Run /\ t[i].ignored \in BOOLEAN
      BY <2>7, <3>1, RunIs
    <3>3. [t[i] EXCEPT !.ignored = t[i].ignored \/ Unrouted(i, status, t[i].at)] = t[i]
      <4> DEFINE u == t[i]
                 x == Unrouted(i, status, t[i].at)
      <4>1. u \in Run /\ u.ignored \in BOOLEAN /\ ~x
        BY <2>8, <3>2
      <4> HIDE DEF u, x
      <4>2. (u.ignored \/ x) = u.ignored
        BY <4>1
      <4>3. [u EXCEPT !.ignored = u.ignored] = u
        BY <4>1 DEF Run
      <4>4. QED
        BY <4>2, <4>3 DEF u, x
    <3>4. [t EXCEPT ![i] = t[i]] = t
      BY <2>7, <3>1
    <3>5. QED
      BY <2>5, <3>3, <3>4
  <2>10. Moves(runs, t, i)
    BY <1>2, <2>3, <2>7, MovesOn
  <2>11. QED
    BY <1>1, <2>7, <2>9, <2>10, Onward
<1>6. CASE status \notin Ended
  <2> DEFINE v == Wait(runs, i, "subprocess")
  <2>1. Return(v)
    BY <1>6 DEF Returned, c
  <2>2. ~Over(runs[c]) /\ runs[c].parked
    <3>1. ~Over(runs[c]) /\ runs[c].token \in {"active", "waiting"}
      BY <1>4, <1>6, RunIs DEF Over, Shape
    <3>2. CASE runs[c].token = "waiting"
      BY <1>4, <3>1, <3>2 DEF Shape
    <3>3. CASE runs[c].token = "active"
      <4>1. PICK k \in 1 .. Len(stack) : stack[k] = c
        BY <1>1, <1>2, <1>4, <3>3 DEF Whole, Frames
      <4>2. stack[Len(stack)] = i /\ Len(stack) \in Nat
        BY <1>1 DEF Top, TreeInv
      <4>3. k = Len(stack) \/ stack[k] < stack[Len(stack)]
        <5> DEFINE m == Len(stack)
        <5>1. \A l, n \in 1 .. m : l < n => stack[l] < stack[n]
          BY <1>2 DEF Whole, Frames
        <5>2. m \in Nat /\ k \in 1 .. m
          BY <4>1, <4>2
        <5> HIDE DEF m
        <5>3. k = m \/ (k < m /\ m \in 1 .. m)
          BY <5>2
        <5>4. k = m \/ stack[k] < stack[m]
          BY <5>1, <5>2, <5>3
        <5>5. QED
          BY <5>4 DEF m
      <4>4. i < c
        BY <1>4 DEF Shape
      <4>5. QED
        BY <1>4, <4>1, <4>2, <4>3, <4>4
    <3>4. QED
      BY <3>1, <3>2, <3>3
  <2>3. v \in Seq(Run) /\ Forest(v) /\ Awaited(v) /\ Moves(runs, v, i)
    <3> DEFINE kind == "subprocess"
    <3>1. kind \in {"user_task", "subprocess"} /\ kind # "user_task"
      OBVIOUS
    <3>2. \E d \in Children(runs, i) : /\ ~Over(runs[d]) /\ runs[d].parked
                                      /\ \A e \in Children(runs, i) : e <= d /\ (e # d => Over(runs[e]))
      BY <1>3, <2>2
    <3> HIDE DEF kind
    <3> DEFINE u == Wait(runs, i, kind)
    <3>3. u \in Seq(Run) /\ Forest(u) /\ Awaited(u) /\ Moves(runs, u, i)
      BY <1>1, <1>2, <3>1, <3>2, Parks
    <3>4. QED
      BY <3>3 DEF kind
  <2> HIDE DEF v
  <2>4. QED
    BY <1>1, <2>1, <2>3, Onward
<1>7. QED
  BY <1>5, <1>6

\* _kill_token: of the rows that the savepoint restores one is changed. Its
\* caller, if it is parked, is the one that nobody wakes.
LEMMA RaiseKeeps ==
  ASSUME TreeInv, Raise
  PROVE  TreeInv'
<1> DEFINE i == stack[1]
           old == savepoint[i]
           r == [old EXCEPT !.token = "dead", !.status = "failed", !.killed = TRUE]
           t == [savepoint EXCEPT ![i] = r]
<1>1. /\ Whole(savepoint, <<>>) /\ i \in DOMAIN savepoint /\ old.token = "active"
      /\ stack' = <<>> /\ runs' = t
  BY DEF TreeInv, Raise
<1> HIDE DEF i
<1>2. savepoint \in Seq(Run) /\ Forest(savepoint) /\ Awaited(savepoint) /\ Frames(savepoint, <<>>)
  BY <1>1 DEF Whole
<1>3. old \in Run /\ Shape(i, old) /\ Family(savepoint, i, old) /\ DOMAIN savepoint \subseteq Nat
  BY <1>1, <1>2 DEF Forest
<1>4. old.wait = "none"
  <2>1. old.wait # "subprocess"
    BY <1>1, <1>2 DEF Frames
  <2>2. old.wait # "user_task"
    BY <1>1, <1>3 DEF Shape
  <2>3. QED
    BY <1>3, <2>1, <2>2, RunIs
<1> HIDE DEF old
<1>5. /\ r \in Run /\ r.caller = old.caller /\ r.at = old.at /\ r.token = "dead" /\ r.wait = "none"
      /\ r.mark = old.mark /\ r.parked = old.parked /\ r.ignored = old.ignored /\ r.status = "failed" /\ r.killed
  BY <1>3, <1>4 DEF Run, Ended
<1> HIDE DEF r
<1>6. Over(r) /\ ~Over(old) /\ Shape(i, r) /\ Family(savepoint, i, r) /\ ~AtCall(r)
  BY <1>1, <1>3, <1>4, <1>5 DEF Over, Ended, Shape, Family, AtCall
<1>7. Forest(t) /\ Awaited(t)
  BY <1>1, <1>2, <1>5, <1>6, Touched, TouchedAwaited DEF old
<1>8. /\ t \in Seq(Run) /\ DOMAIN t = DOMAIN savepoint
      /\ \A j \in DOMAIN savepoint : t[j] = IF j = i THEN r ELSE savepoint[j]
  BY <1>1, <1>2, <1>5, RunReplaced
<1> HIDE DEF t
<1>9. /\ \A j \in DOMAIN savepoint : ~(savepoint[j].token = "active" /\ savepoint[j].wait = "subprocess")
      /\ \A c, j \in DOMAIN savepoint :
           ~(savepoint[c].caller = j /\ savepoint[j].token = "active" /\ savepoint[c].token = "active")
  BY <1>2 DEF Frames
<1>10. \A j \in DOMAIN savepoint : t[j].token = "active" => t[j] = savepoint[j]
  BY <1>5, <1>8
<1>11. /\ \A j \in DOMAIN savepoint : ~(t[j].token = "active" /\ t[j].wait = "subprocess")
       /\ \A c, j \in DOMAIN savepoint : ~(t[c].caller = j /\ t[j].token = "active" /\ t[c].token = "active")
  BY <1>9, <1>10
<1>12. Whole(t, <<>>)
  BY <1>7, <1>8, <1>11 DEF Whole, Frames
<1>13. QED
  BY <1>1, <1>12 DEF TreeInv, Whole

\* Every behaviour keeps the forest of runs and the stack of the open
\* transaction whole, whatever calls, failures and exceptions occur.
THEOREM ForestKept == CallSetting => (CallSpec => []TreeInv)
<1> SUFFICES ASSUME CallSetting PROVE CallSpec => []TreeInv
  OBVIOUS
<1>1. CallInit => TreeInv
  BY DEF CallInit, TreeInv, Whole, Forest, Awaited, Frames
<1>2. TreeInv /\ [CallNext]_call_vars => TreeInv'
  <2> SUFFICES ASSUME TreeInv, [CallNext]_call_vars PROVE TreeInv'
    OBVIOUS
  <2>1. ASSUME NEW w \in Roots, Start(w) PROVE TreeInv'
    BY <2>1, StartKeeps
  <2>2. ASSUME NEW i \in DOMAIN runs, Claim(i) PROVE TreeInv'
    BY <2>2, ClaimKeeps
  <2>3. ASSUME NEW i \in DOMAIN runs, EndRun(i) PROVE TreeInv'
    <3>1. Dispatching(i) /\ Return(Finish(runs, i, "succeeded")) /\ "succeeded" \in Ended
      BY <2>3 DEF EndRun, Ended
    <3>2. QED
      BY <3>1, FinishOnward
  <2>4. ASSUME NEW i \in DOMAIN runs, User(i) PROVE TreeInv'
    BY <2>4, UserKeeps
  <2>5. ASSUME NEW i \in DOMAIN runs, Resume(i) PROVE TreeInv'
    BY <2>5, ResumeKeeps
  <2>6. ASSUME NEW i \in DOMAIN runs, Refuse(i) PROVE TreeInv'
    <3>1. Dispatching(i) /\ Return(Finish(runs, i, "failed")) /\ "failed" \in Ended
      BY <2>6 DEF Refuse, Calling, Ended
    <3>2. QED
      BY <3>1, FinishOnward
  <2>7. ASSUME NEW i \in DOMAIN runs, Call(i) PROVE TreeInv'
    BY <2>7, CallKeeps
  <2>8. ASSUME NEW i \in DOMAIN runs, Returned(i) PROVE TreeInv'
    BY <2>8, ReturnedKeeps
  <2>9. ASSUME NEW i \in DOMAIN runs, Complete(i) PROVE TreeInv'
    BY <2>9, CompleteKeeps
  <2>10. ASSUME NEW i \in DOMAIN runs, NEW ok \in BOOLEAN, Task(i, ok) PROVE TreeInv'
    <3>1. CASE ok
      <4>1. Dispatching(i) /\ Return(Advance(runs, i, runs[i].at + 1))
        BY <2>10, <3>1 DEF Task
      <4>2. QED
        BY <4>1, AdvanceOnward
    <3>2. CASE ~ok
      <4>1. Dispatching(i) /\ Return(Finish(runs, i, "failed")) /\ "failed" \in Ended
        BY <2>10, <3>2 DEF Task, Ended
      <4>2. QED
        BY <4>1, FinishOnward
    <3>3. QED
      BY <3>1, <3>2
  <2>11. CASE Raise
    BY <2>11, RaiseKeeps
  <2>12. CASE UNCHANGED call_vars
    BY <2>12 DEF call_vars, TreeInv, Whole, Forest, Shape, Family, FailedLate, Children, Awaited, AtCall, Frames, Over
  <2>13. QED
    BY <2>1, <2>2, <2>3, <2>4, <2>5, <2>6, <2>7, <2>8, <2>9, <2>10, <2>11, <2>12 DEF CallNext
<1>3. QED
  BY <1>1, <1>2, PTL DEF CallSpec

\* A caller waits only for a child that will wake it or was killed, no run ends
\* before a child it called, and only a late failure is passed over.
THEOREM CallsKept == CallSetting => (CallSpec => [](OnlyKilledStrands /\ NoOrphans /\ OnlyLateFailureIgnored))
<1> SUFFICES ASSUME CallSetting PROVE CallSpec => [](OnlyKilledStrands /\ NoOrphans /\ OnlyLateFailureIgnored)
  OBVIOUS
<1>1. TreeInv => OnlyKilledStrands /\ NoOrphans /\ OnlyLateFailureIgnored
  <2> SUFFICES ASSUME TreeInv PROVE OnlyKilledStrands /\ NoOrphans /\ OnlyLateFailureIgnored
    OBVIOUS
  <2>1. runs \in Seq(Run) /\ Forest(runs) /\ Awaited(runs)
    BY DEF TreeInv, Whole
  <2>2. OnlyKilledStrands
    BY <2>1 DEF OnlyKilledStrands, Awaited, AtCall, Over
  <2>3. NoOrphans
    <3> SUFFICES ASSUME NEW c \in DOMAIN runs, runs[c].caller # 0, runs[runs[c].caller].status \in Ended
                 PROVE  runs[c].status \in Ended
      BY DEF NoOrphans
    <3> DEFINE p == runs[c].caller
    <3>1. runs[c] \in Run /\ Shape(c, runs[c])
      BY <2>1 DEF Forest
    <3>2. p \in Nat /\ p < c
      BY <3>1, RunIs DEF Shape
    <3>3. p \in DOMAIN runs
      BY <2>1, <3>2
    <3>4. Over(runs[p]) /\ Shape(p, runs[p]) /\ Family(runs, p, runs[p]) /\ c \in Children(runs, p)
      BY <2>1, <3>3 DEF Forest, Over, Children
    <3>5. QED
      BY <3>4 DEF Shape, Family, Over
  <2>4. OnlyLateFailureIgnored
    BY <2>1 DEF OnlyLateFailureIgnored, Forest, Family, FailedLate
  <2>5. QED
    BY <2>2, <2>3, <2>4
<1>2. QED
  BY <1>1, ForestKept, PTL
=============================================================================
