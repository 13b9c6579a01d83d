-------------------------- MODULE TokenSweepProofs --------------------------
(***************************************************************************)
(* Proofs about TokenSweep: for any number of sessions, runs and tokens,   *)
(* two sessions never advance tokens of one run at the same time.          *)
(* Two sections follow on other places where what overlaps is kept apart   *)
(* by the database alone.  EntityCatalog: the catalog and the physical     *)
(* tables agree.  KnowledgeWrite: the original a document is served from   *)
(* is there, nothing else is left behind, and the index follows.           *)
(***************************************************************************)
EXTENDS TokenSweep, EntityCatalog, KnowledgeWrite, TLAPS

(***************************************************************************)
(* The inductive invariant.  A session has the advisory lock of the run    *)
(* whose token it is advancing, of the runs it has advanced and not        *)
(* committed, and of the run it drives; a row that nobody has locked has   *)
(* no uncommitted version; and an advisory lock that a rollback of the     *)
(* savepoint would give up protects no earlier advance.                    *)
(***************************************************************************)
Changed(t) == row[t].advances # base[t].advances

CurLocked == \A s \in Sessions : sess[s].cur \in Tokens =>
  /\ adv[RunOf[sess[s].cur]] = s
  /\ sess[s].step \in {"advance", "killing"} => owner[sess[s].cur] = s

ChangedLocked == \A t \in Tokens : Changed(t) => owner[t] # NoSession /\ adv[RunOf[t]] = owner[t]

TodoLocked == \A s \in Sessions : \A t \in sess[s].todo :
  /\ sess[s].mode = "sweep" => owner[t] = s
  /\ sess[s].mode = "drive" => adv[RunOf[t]] = s

FreshUnchanged == \A s \in Sessions : sess[s].fresh =>
  /\ sess[s].cur \in Tokens
  /\ \A t \in Tokens : RunOf[t] = RunOf[sess[s].cur] => ~Changed(t)

IdleIsClean == \A s \in Sessions : sess[s].mode = "idle" =>
  sess[s].cur = NoToken /\ sess[s].todo = {}

IInv == TypeOK /\ CurLocked /\ ChangedLocked /\ TodoLocked /\ FreshUnchanged /\ IdleIsClean

----------------------------------------------------------------------------
\* Where an advisory lock has one holder, its runs belong to one session.
LEMMA IInvGoal == IInv => OneAdvancerPerRun
<1> SUFFICES ASSUME IInv, NEW s \in Sessions, NEW x \in Sessions, s # x,
                    NEW r \in Advancing(s) \cap Advancing(x)
             PROVE  FALSE
  BY DEF OneAdvancerPerRun
<1>1. \A y \in Sessions : r \in Advancing(y) => adv[r] = y
  BY DEF IInv, Advancing, CurLocked, ChangedLocked, Changed
<1> QED
  BY <1>1

\* The invariant holds when every row is active or parked and nobody has a lock.
LEMMA InitIInv == Init => IInv
<1> SUFFICES ASSUME Init PROVE IInv
  OBVIOUS
<1>1. Idle \in Session /\ Idle.cur = NoToken /\ Idle.todo = {} /\ Idle.mode = "idle" /\ ~Idle.fresh
  BY DEF Idle, Session
<1>2. TypeOK
  BY <1>1, SweepAssumption DEF Init, TypeOK, Rows, Statuses
<1>3. \A s \in Sessions : sess[s] = Idle
  BY DEF Init
<1>4. \A t \in Tokens : ~Changed(t)
  BY DEF Init, Changed
<1> QED
  BY <1>1, <1>2, <1>3, <1>4, SweepAssumption
     DEF IInv, CurLocked, ChangedLocked, TodoLocked, FreshUnchanged, IdleIsClean

----------------------------------------------------------------------------
\* Leaving a savepoint keeps the batch and forgets the token.
LEMMA LeaveFields ==
  ASSUME TypeOK, NEW s \in Sessions, sess' = Leave(s)
  PROVE  /\ sess' \in [Sessions -> Session]
         /\ sess'[s].mode = sess[s].mode /\ sess'[s].todo = sess[s].todo
         /\ sess'[s].cur = NoToken /\ sess'[s].step = "none" /\ sess'[s].fresh = FALSE
         /\ \A x \in Sessions : x # s => sess'[x] = sess[x]
<1> DEFINE q == [sess[s] EXCEPT !.cur = NoToken, !.step = "none", !.fresh = FALSE]
<1>1. sess[s] \in Session /\ sess \in [Sessions -> Session]
  BY DEF TypeOK
<1>2. /\ q \in Session /\ q.mode = sess[s].mode /\ q.todo = sess[s].todo
      /\ q.cur = NoToken /\ q.step = "none" /\ q.fresh = FALSE
  BY <1>1 DEF Session
<1>3. sess' = [sess EXCEPT ![s] = q]
  BY <1>1 DEF Leave
<1> HIDE DEF q
<1> QED
  BY <1>1, <1>2, <1>3

\* Opening a transaction or moving to the next token: the session's record is
\* replaced and the other sessions are left alone.
LEMMA SessionFields ==
  ASSUME TypeOK, NEW s \in Sessions, NEW q \in Session, sess' = [sess EXCEPT ![s] = q]
  PROVE  /\ sess' \in [Sessions -> Session] /\ sess'[s] = q
         /\ \A x \in Sessions : x # s => sess'[x] = sess[x]
BY DEF TypeOK

\* Dropping a token from the batch.
LEMMA DropFields ==
  ASSUME TypeOK, NEW s \in Sessions, NEW t \in Tokens, sess' = [sess EXCEPT ![s].todo = @ \ {t}]
  PROVE  /\ sess' \in [Sessions -> Session]
         /\ sess'[s].mode = sess[s].mode /\ sess'[s].todo = sess[s].todo \ {t}
         /\ sess'[s].cur = sess[s].cur /\ sess'[s].step = sess[s].step
         /\ sess'[s].fresh = sess[s].fresh
         /\ \A x \in Sessions : x # s => sess'[x] = sess[x]
<1> DEFINE q == [sess[s] EXCEPT !.todo = sess[s].todo \ {t}]
<1>1. sess[s] \in Session /\ sess \in [Sessions -> Session]
  BY DEF TypeOK
<1>2. /\ q \in Session /\ q.mode = sess[s].mode /\ q.todo = sess[s].todo \ {t}
      /\ q.cur = sess[s].cur /\ q.step = sess[s].step /\ q.fresh = sess[s].fresh
  BY <1>1 DEF Session
<1>3. sess' = [sess EXCEPT ![s] = q]
  BY <1>1
<1> HIDE DEF q
<1> QED
  BY <1>1, <1>2, <1>3

\* Rewriting the status of a row keeps its count of advances.
LEMMA StatusFields ==
  ASSUME NEW r \in Rows, NEW st \in Statuses
  PROVE  [r EXCEPT !.status = st] \in Rows /\ [r EXCEPT !.status = st].advances = r.advances
BY DEF Rows

----------------------------------------------------------------------------
(***************************************************************************)
(* The invariant is preserved, action by action.                           *)
(***************************************************************************)

\* A claim locks rows and advances none.
LEMMA ClaimStep ==
  ASSUME IInv, NEW s \in Sessions, Claim(s)
  PROVE  IInv'
<1> DEFINE q == [Idle EXCEPT !.mode = "sweep", !.todo = Batch]
<1>1. Batch \in SUBSET Tokens /\ \A t \in Batch : owner[t] = NoSession
  BY DEF Batch, Unclaimed
<1>2. q \in Session /\ q.mode = "sweep" /\ q.todo = Batch /\ q.cur = NoToken /\ q.fresh = FALSE
  BY <1>1, SweepAssumption DEF Idle, Session
<1>3. /\ sess[s] = Idle /\ sess' = [sess EXCEPT ![s] = q] /\ UNCHANGED <<base, adv, errors, crashes>>
      /\ row' = [t \in Tokens |-> IF t \in Batch THEN [row[t] EXCEPT !.status = "running"] ELSE row[t]]
      /\ owner' = [t \in Tokens |-> IF t \in Batch THEN s ELSE owner[t]]
  BY DEF Claim
<1> HIDE DEF q
<1>4. sess' \in [Sessions -> Session] /\ sess'[s] = q /\ \A x \in Sessions : x # s => sess'[x] = sess[x]
  BY <1>2, <1>3, SessionFields DEF IInv
<1>5. /\ row' \in [Tokens -> Rows] /\ \A t \in Tokens : row'[t].advances = row[t].advances
  BY <1>3, StatusFields DEF IInv, TypeOK, Statuses
<1>6. \A t \in Tokens : Changed(t)' <=> Changed(t)
  BY <1>3, <1>5 DEF Changed
<1>7. sess[s].mode = "idle" /\ \A t \in Tokens : owner[t] # s
  <2>1. sess[s].mode = "idle"
    BY <1>3 DEF Idle
  <2> QED
    BY <2>1, SweepAssumption DEF IInv, TypeOK
<1>8. TypeOK'
  BY <1>1, <1>2, <1>3, <1>4, <1>5, <1>7, SweepAssumption DEF IInv, TypeOK
<1>9. CurLocked'
  BY <1>1, <1>2, <1>3, <1>4, SweepAssumption DEF IInv, CurLocked, TypeOK
<1>10. ChangedLocked'
  BY <1>1, <1>3, <1>6 DEF IInv, ChangedLocked
<1>11. TodoLocked'
  <2>1. ASSUME NEW x \in Sessions, NEW t \in sess'[x].todo
        PROVE  /\ sess'[x].mode = "sweep" => owner'[t] = x
               /\ sess'[x].mode = "drive" => adv'[RunOf[t]] = x
    <3>1. CASE x = s
      BY <1>1, <1>2, <1>3, <1>4, <2>1, <3>1
    <3>2. CASE x # s
      <4>1. t \in sess[x].todo /\ sess'[x] = sess[x] /\ t \in Tokens
        BY <1>4, <2>1, <3>2 DEF IInv, TypeOK, Session
      <4>2. sess[x].mode = "sweep" => t \notin Batch
        BY <1>1, <4>1, SweepAssumption DEF IInv, TodoLocked
      <4> QED
        BY <1>3, <4>1, <4>2 DEF IInv, TodoLocked
    <3> QED
      BY <3>1, <3>2
  <2> QED
    BY <2>1 DEF TodoLocked
<1>12. FreshUnchanged'
  BY <1>2, <1>4, <1>6 DEF IInv, FreshUnchanged
<1>13. IdleIsClean'
  BY <1>2, <1>4 DEF IInv, IdleIsClean
<1> QED
  BY <1>8, <1>9, <1>10, <1>11, <1>12, <1>13 DEF IInv

\* Opening the savepoint of a claimed token takes the run's advisory lock.
LEMMA EnterStep ==
  ASSUME IInv, NEW s \in Sessions, NEW t \in Tokens, Enter(s, t)
  PROVE  IInv'
<1> DEFINE f == (adv[RunOf[t]] = NoSession)
           rest == sess[s].todo \ {t}
<1>1. PICK step \in {"advance", "killing"} :
        sess' = [sess EXCEPT ![s].todo = @ \ {t}, ![s].cur = t, ![s].step = step, ![s].fresh = f]
  BY DEF Enter
<1>2. /\ sess[s].mode = "sweep" /\ t \in sess[s].todo /\ adv[RunOf[t]] \in {NoSession, s}
      /\ adv' = [adv EXCEPT ![RunOf[t]] = s] /\ UNCHANGED <<row, base, owner, errors, crashes>>
  BY DEF Enter
<1>3. f \in BOOLEAN /\ rest \in SUBSET Tokens /\ sess[s] \in Session /\ RunOf[t] \in Runs
  BY SweepAssumption DEF IInv, TypeOK, Session
<1> HIDE DEF f, rest
<1> DEFINE q == [sess[s] EXCEPT !.todo = rest, !.cur = t, !.step = step, !.fresh = f]
<1>4. /\ q \in Session /\ q.mode = "sweep" /\ q.todo = rest /\ q.cur = t /\ q.step = step
      /\ q.fresh = f
  BY <1>2, <1>3 DEF Session
<1>5. sess' = [sess EXCEPT ![s] = q]
  BY <1>1, <1>3 DEF rest, IInv, TypeOK
<1> HIDE DEF q
<1>6. sess' \in [Sessions -> Session] /\ sess'[s] = q /\ \A x \in Sessions : x # s => sess'[x] = sess[x]
  BY <1>4, <1>5, SessionFields DEF IInv
<1>7. \A u \in Tokens : Changed(u)' <=> Changed(u)
  BY <1>2 DEF Changed
<1>8. \A r \in Runs : /\ r # RunOf[t] => adv'[r] = adv[r]
                      /\ adv[r] \in Sessions => adv'[r] = adv[r]
                      /\ adv'[RunOf[t]] = s
  BY <1>2, <1>3, SweepAssumption DEF IInv, TypeOK
<1>9. TypeOK'
  BY <1>2, <1>3, <1>4, <1>6, <1>8 DEF IInv, TypeOK
<1>10. CurLocked'
  <2>1. owner[t] = s
    BY <1>2 DEF IInv, TodoLocked
  <2> QED
    BY <1>2, <1>4, <1>6, <1>8, <2>1, SweepAssumption DEF IInv, CurLocked
<1>11. ChangedLocked'
  <2>1. \A u \in Tokens : Changed(u) => owner[u] \in Sessions /\ RunOf[u] \in Runs
    BY SweepAssumption DEF IInv, ChangedLocked, TypeOK
  <2> QED
    BY <1>2, <1>7, <1>8, <2>1 DEF IInv, ChangedLocked
<1>12. TodoLocked'
  <2>1. \A x \in Sessions : \A u \in sess'[x].todo :
          u \in sess[x].todo /\ u \in Tokens /\ sess'[x].mode = sess[x].mode
    BY <1>2, <1>4, <1>6 DEF rest, IInv, TypeOK, Session
  <2> QED
    BY <1>2, <1>8, <2>1, SweepAssumption DEF IInv, TodoLocked
<1>13. FreshUnchanged'
  <2>1. f => \A u \in Tokens : RunOf[u] = RunOf[t] => ~Changed(u)
    BY DEF f, IInv, ChangedLocked
  <2> QED
    BY <1>4, <1>6, <1>7, <2>1 DEF IInv, FreshUnchanged
<1>14. IdleIsClean'
  BY <1>4, <1>6 DEF IInv, IdleIsClean
<1> QED
  BY <1>9, <1>10, <1>11, <1>12, <1>13, <1>14 DEF IInv

\* Giving a contended token back, or passing over a killed one.
LEMMA DropStep ==
  ASSUME IInv, NEW s \in Sessions, NEW t \in Tokens, Release(s, t) \/ SkipKilled(s, t)
  PROVE  IInv'
<1>1. /\ sess' = [sess EXCEPT ![s].todo = @ \ {t}] /\ t \in sess[s].todo
      /\ UNCHANGED <<base, owner, adv, errors, crashes>> /\ sess[s].mode = "sweep"
      /\ row' = row \/ row' = [row EXCEPT ![t].status = "active"]
  BY DEF Release, SkipKilled
<1>2. /\ sess' \in [Sessions -> Session]
      /\ sess'[s].mode = sess[s].mode /\ sess'[s].todo = sess[s].todo \ {t}
      /\ sess'[s].cur = sess[s].cur /\ sess'[s].step = sess[s].step
      /\ sess'[s].fresh = sess[s].fresh
      /\ \A x \in Sessions : x # s => sess'[x] = sess[x]
  BY <1>1, DropFields DEF IInv
<1>3. row' \in [Tokens -> Rows] /\ \A u \in Tokens : row'[u].advances = row[u].advances
  <2> DEFINE r == [row[t] EXCEPT !.status = "active"]
  <2>1. r \in Rows /\ r.advances = row[t].advances
    BY StatusFields DEF IInv, TypeOK, Statuses
  <2>2. row' = row \/ row' = [row EXCEPT ![t] = r]
    BY <1>1
  <2> HIDE DEF r
  <2> QED
    BY <2>1, <2>2 DEF IInv, TypeOK
<1>4. \A u \in Tokens : Changed(u)' <=> Changed(u)
  BY <1>1, <1>3 DEF Changed
<1>5. TypeOK'
  BY <1>1, <1>2, <1>3 DEF IInv, TypeOK
<1>6. CurLocked'
  BY <1>1, <1>2 DEF IInv, CurLocked
<1>7. ChangedLocked'
  BY <1>1, <1>4 DEF IInv, ChangedLocked
<1>8. TodoLocked'
  BY <1>1, <1>2 DEF IInv, TodoLocked
<1>9. FreshUnchanged'
  BY <1>2, <1>4 DEF IInv, FreshUnchanged
<1>10. IdleIsClean'
  BY <1>1, <1>2 DEF IInv, IdleIsClean
<1> QED
  BY <1>5, <1>6, <1>7, <1>8, <1>9, <1>10 DEF IInv

\* The end of a token's step: whatever it wrote, it wrote to rows it has locked
\* and under the run's advisory lock.
LEMMA FinishStep ==
  ASSUME IInv, NEW s \in Sessions, NEW t \in Tokens, sess[s].cur = t, sess' = Leave(s),
         row' \in [Tokens -> Rows], owner' \in [Tokens -> Sessions \cup {NoSession}],
         UNCHANGED <<base, adv, crashes>>, errors' \in Nat, owner[t] = s,
         \A u \in Tokens : u # t => row'[u].advances = row[u].advances,
         \A u \in Tokens : owner'[u] = owner[u] \/ (owner'[u] = s /\ owner[u] = NoSession)
  PROVE  IInv'
<1>1. /\ sess' \in [Sessions -> Session]
      /\ sess'[s].mode = sess[s].mode /\ sess'[s].todo = sess[s].todo
      /\ sess'[s].cur = NoToken /\ sess'[s].step = "none" /\ sess'[s].fresh = FALSE
      /\ \A x \in Sessions : x # s => sess'[x] = sess[x]
  BY LeaveFields DEF IInv
<1>2. adv[RunOf[t]] = s
  BY DEF IInv, CurLocked
<1>3. sess[s].mode # "idle"
  BY SweepAssumption DEF IInv, IdleIsClean
<1>4. \A u \in Tokens : u # t => (Changed(u)' <=> Changed(u))
  BY DEF Changed
<1>5. \A u \in Tokens : owner[u] # NoSession => owner'[u] = owner[u]
  BY SweepAssumption
<1>6. TypeOK'
  BY <1>1, <1>3 DEF IInv, TypeOK
<1>7. CurLocked'
  <2>1. ASSUME NEW x \in Sessions, sess'[x].cur \in Tokens
        PROVE  /\ adv'[RunOf[sess'[x].cur]] = x
               /\ sess'[x].step \in {"advance", "killing"} => owner'[sess'[x].cur] = x
    <3>1. x # s /\ sess'[x] = sess[x]
      BY <1>1, <2>1, SweepAssumption
    <3>2. /\ adv[RunOf[sess[x].cur]] = x
          /\ sess[x].step \in {"advance", "killing"} => owner[sess[x].cur] = x
      BY <2>1, <3>1 DEF IInv, CurLocked
    <3>3. x # NoSession
      BY SweepAssumption
    <3> QED
      BY <1>5, <2>1, <3>1, <3>2, <3>3
  <2> QED
    BY <2>1 DEF CurLocked
<1>8. ChangedLocked'
  BY <1>2, <1>4, <1>5, SweepAssumption DEF IInv, ChangedLocked
<1>9. TodoLocked'
  <2>1. \A x \in Sessions : \A u \in sess'[x].todo :
          u \in sess[x].todo /\ u \in Tokens /\ sess'[x].mode = sess[x].mode
    BY <1>1 DEF IInv, TypeOK, Session
  <2>2. ASSUME NEW x \in Sessions, NEW u \in sess'[x].todo
        PROVE  /\ sess'[x].mode = "sweep" => owner'[u] = x
               /\ sess'[x].mode = "drive" => adv'[RunOf[u]] = x
    <3>1. u \in sess[x].todo /\ u \in Tokens /\ sess'[x].mode = sess[x].mode
      BY <2>1, <2>2
    <3>2. /\ sess[x].mode = "sweep" => owner[u] = x
          /\ sess[x].mode = "drive" => adv[RunOf[u]] = x
      BY <3>1 DEF IInv, TodoLocked
    <3>3. owner[u] = x => owner'[u] = x
      BY <1>5, <3>1, SweepAssumption
    <3> QED BY <3>1, <3>2, <3>3
  <2> QED
    BY <2>2 DEF TodoLocked
<1>10. FreshUnchanged'
  <2>1. ASSUME NEW x \in Sessions, sess'[x].fresh, NEW u \in Tokens,
               RunOf[u] = RunOf[sess'[x].cur]
        PROVE  ~Changed(u)'
    <3>1. x # s /\ sess'[x] = sess[x]
      BY <1>1, <2>1
    <3>2. ~Changed(u)
      BY <2>1, <3>1 DEF IInv, FreshUnchanged
    <3>3. CASE u # t
      BY <1>4, <3>2, <3>3
    <3>4. CASE u = t
      <4>1. sess[x].cur \in Tokens
        BY <2>1, <3>1 DEF IInv, FreshUnchanged
      <4> QED
        BY <1>2, <2>1, <3>1, <3>4, <4>1 DEF IInv, CurLocked
    <3> QED
      BY <3>3, <3>4
  <2>2. \A x \in Sessions : sess'[x].fresh => sess'[x].cur \in Tokens
    BY <1>1 DEF IInv, FreshUnchanged
  <2> QED
    BY <2>1, <2>2 DEF FreshUnchanged
<1>11. IdleIsClean'
  BY <1>1, <1>3 DEF IInv, IdleIsClean
<1> QED
  BY <1>6, <1>7, <1>8, <1>9, <1>10, <1>11 DEF IInv

\* A plain advance writes the row of its own token.
LEMMA AdvanceStep ==
  ASSUME IInv, NEW s \in Sessions, NEW t \in Tokens,
         NEW status \in {"active", "waiting", "completed"}, Advance(s, t, status)
  PROVE  IInv'
<1>1. /\ sess[s].cur = t /\ sess' = Leave(s) /\ sess[s].step = "advance"
      /\ UNCHANGED <<base, owner, adv, errors, crashes>>
      /\ row' = [row EXCEPT ![t] = [status |-> status, advances |-> row[t].advances + 1]]
  BY DEF Advance, Inside
<1>2. owner[t] = s
  BY <1>1 DEF IInv, CurLocked
<1> DEFINE r == [status |-> status, advances |-> row[t].advances + 1]
<1>3. r \in Rows
  BY DEF IInv, TypeOK, Rows, Statuses
<1> HIDE DEF r
<1>4. row' \in [Tokens -> Rows] /\ \A u \in Tokens : u # t => row'[u].advances = row[u].advances
  BY <1>1, <1>3 DEF IInv, TypeOK, r
<1>5. owner' \in [Tokens -> Sessions \cup {NoSession}] /\ errors' \in Nat
  BY <1>1 DEF IInv, TypeOK
<1> QED
  BY <1>1, <1>2, <1>4, <1>5, FinishStep

\* A terminate end event kills rows that are free or its own.
LEMMA TerminateStep ==
  ASSUME IInv, NEW s \in Sessions, NEW t \in Tokens, Terminate(s, t)
  PROVE  IInv'
<1>1. /\ sess[s].cur = t /\ sess' = Leave(s) /\ sess[s].step = "killing" /\ Blockers(s) = {}
      /\ UNCHANGED <<base, adv, errors, crashes>>
      /\ row' = [u \in Tokens |->
           IF u = t THEN [status |-> "completed", advances |-> row[u].advances + 1]
           ELSE IF u \in ToKill(s) THEN [row[u] EXCEPT !.status = "dead"] ELSE row[u]]
      /\ owner' = [u \in Tokens |-> IF u \in ToKill(s) THEN s ELSE owner[u]]
  BY DEF Terminate, Inside
<1>2. owner[t] = s
  BY <1>1 DEF IInv, CurLocked
<1>3. \A u \in Tokens : u \in ToKill(s) => owner[u] \in {NoSession, s}
  BY <1>1 DEF Blockers
<1>4. \A u \in Tokens : owner'[u] = owner[u] \/ (owner'[u] = s /\ owner[u] = NoSession)
  BY <1>1, <1>3
<1>5. /\ \A u \in Tokens : [row[u] EXCEPT !.status = "dead"] \in Rows
                           /\ [row[u] EXCEPT !.status = "dead"].advances = row[u].advances
      /\ [status |-> "completed", advances |-> row[t].advances + 1] \in Rows
  BY DEF IInv, TypeOK, Rows, Statuses
<1>6. row' \in [Tokens -> Rows] /\ \A u \in Tokens : u # t => row'[u].advances = row[u].advances
  BY <1>1, <1>5 DEF IInv, TypeOK
<1>7. owner' \in [Tokens -> Sessions \cup {NoSession}] /\ errors' \in Nat
  BY <1>1 DEF IInv, TypeOK
<1> QED
  BY <1>1, <1>2, <1>4, <1>6, <1>7, FinishStep

\* An exception undoes the savepoint; the advisory lock goes only when it
\* protects nothing else.
LEMMA KillTokenStep ==
  ASSUME IInv, NEW s \in Sessions, NEW t \in Tokens, KillToken(s, t)
  PROVE  IInv'
<1>1. /\ sess[s].cur = t /\ sess' = Leave(s) /\ sess[s].mode = "sweep"
      /\ UNCHANGED <<base, owner, crashes>>
      /\ adv' = IF sess[s].fresh THEN [adv EXCEPT ![RunOf[t]] = NoSession] ELSE adv
      /\ row' = [row EXCEPT ![t].status = "dead"]
  BY DEF KillToken, Inside
<1>2. /\ sess' \in [Sessions -> Session]
      /\ sess'[s].mode = sess[s].mode /\ sess'[s].todo = sess[s].todo
      /\ sess'[s].cur = NoToken /\ sess'[s].step = "none" /\ sess'[s].fresh = FALSE
      /\ \A x \in Sessions : x # s => sess'[x] = sess[x]
  BY <1>1, LeaveFields DEF IInv
<1>3. row' \in [Tokens -> Rows] /\ \A u \in Tokens : row'[u].advances = row[u].advances
  <2> DEFINE r == [row[t] EXCEPT !.status = "dead"]
  <2>1. r \in Rows /\ r.advances = row[t].advances
    BY StatusFields DEF IInv, TypeOK, Statuses
  <2>2. row' = [row EXCEPT ![t] = r]
    BY <1>1
  <2> HIDE DEF r
  <2> QED
    BY <2>1, <2>2 DEF IInv, TypeOK
<1>4. \A u \in Tokens : Changed(u)' <=> Changed(u)
  BY <1>1, <1>3 DEF Changed
<1>5. adv[RunOf[t]] = s /\ RunOf[t] \in Runs
  BY <1>1, SweepAssumption DEF IInv, CurLocked
<1>6. /\ adv' \in [Runs -> Sessions \cup {NoSession}]
      /\ \A r \in Runs : adv'[r] = adv[r] \/ (r = RunOf[t] /\ sess[s].fresh /\ adv'[r] = NoSession)
  BY <1>1, <1>5 DEF IInv, TypeOK
<1>7. errors' \in Nat
  BY DEF KillToken, IInv, TypeOK
<1>8. TypeOK'
  BY <1>1, <1>2, <1>3, <1>6, <1>7 DEF IInv, TypeOK
<1>9. CurLocked'
  <2>1. ASSUME NEW x \in Sessions, sess'[x].cur \in Tokens
        PROVE  /\ adv'[RunOf[sess'[x].cur]] = x
               /\ sess'[x].step \in {"advance", "killing"} => owner'[sess'[x].cur] = x
    <3>1. x # s /\ sess'[x] = sess[x]
      BY <1>2, <2>1, SweepAssumption
    <3>2. /\ adv[RunOf[sess[x].cur]] = x /\ RunOf[sess[x].cur] \in Runs
          /\ sess[x].step \in {"advance", "killing"} => owner[sess[x].cur] = x
      BY <2>1, <3>1, SweepAssumption DEF IInv, CurLocked
    <3>3. RunOf[sess[x].cur] # RunOf[t]
      BY <1>5, <3>1, <3>2
    <3> QED
      BY <1>1, <1>6, <3>1, <3>2, <3>3
  <2> QED
    BY <2>1 DEF CurLocked
<1>10. ChangedLocked'
  <2>1. ASSUME NEW u \in Tokens, Changed(u)
        PROVE  adv'[RunOf[u]] = adv[RunOf[u]]
    <3>1. RunOf[u] \in Runs
      BY SweepAssumption
    <3>2. sess[s].fresh => RunOf[u] # RunOf[t]
      BY <1>1, <2>1 DEF IInv, FreshUnchanged
    <3> QED
      BY <1>6, <3>1, <3>2
  <2> QED
    BY <1>1, <1>4, <2>1 DEF IInv, ChangedLocked
<1>11. TodoLocked'
  <2>1. ASSUME NEW x \in Sessions, NEW u \in sess'[x].todo
        PROVE  /\ sess'[x].mode = "sweep" => owner'[u] = x
               /\ sess'[x].mode = "drive" => adv'[RunOf[u]] = x
    <3>1. u \in sess[x].todo /\ u \in Tokens /\ sess'[x].mode = sess[x].mode
      BY <1>2, <2>1 DEF IInv, TypeOK, Session
    <3>2. /\ sess[x].mode = "sweep" => owner[u] = x
          /\ sess[x].mode = "drive" => adv[RunOf[u]] = x /\ x # s
      BY <1>1, <3>1 DEF IInv, TodoLocked
    <3>3. RunOf[u] \in Runs
      BY <3>1, SweepAssumption
    <3> QED
      BY <1>1, <1>5, <1>6, <3>1, <3>2, <3>3
  <2> QED
    BY <2>1 DEF TodoLocked
<1>12. FreshUnchanged'
  BY <1>2, <1>4 DEF IInv, FreshUnchanged
<1>13. IdleIsClean'
  BY <1>1, <1>2 DEF IInv, IdleIsClean
<1> QED
  BY <1>8, <1>9, <1>10, <1>11, <1>12, <1>13 DEF IInv

\* drive_run begins only with the run's advisory lock.
LEMMA DriveBegins ==
  ASSUME IInv, NEW s \in Sessions, NEW r \in Runs, Drive(s, r)
  PROVE  IInv'
<1> DEFINE todo == ActiveIn(s, r)
           q == [Idle EXCEPT !.mode = "drive", !.todo = todo]
<1>1. todo \in SUBSET Tokens /\ \A t \in todo : RunOf[t] = r
  BY DEF ActiveIn, TokensOf
<1>2. /\ sess[s] = Idle /\ adv[r] = NoSession /\ adv' = [adv EXCEPT ![r] = s]
      /\ sess' = [sess EXCEPT ![s] = q] /\ UNCHANGED <<row, base, owner, errors, crashes>>
  BY DEF Drive
<1> HIDE DEF todo
<1>3. q \in Session /\ q.mode = "drive" /\ q.todo = todo /\ q.cur = NoToken /\ q.fresh = FALSE
  BY <1>1, SweepAssumption DEF Idle, Session
<1> HIDE DEF q
<1>4. sess' \in [Sessions -> Session] /\ sess'[s] = q /\ \A x \in Sessions : x # s => sess'[x] = sess[x]
  BY <1>2, <1>3, SessionFields DEF IInv
<1>5. \A t \in Tokens : Changed(t)' <=> Changed(t)
  BY <1>2 DEF Changed
<1>6. /\ adv' \in [Runs -> Sessions \cup {NoSession}] /\ adv'[r] = s
      /\ \A p \in Runs : adv[p] \in Sessions => adv'[p] = adv[p]
  BY <1>2, SweepAssumption DEF IInv, TypeOK
<1>7. TypeOK'
  BY <1>2, <1>3, <1>4, <1>6 DEF IInv, TypeOK
<1>8. CurLocked'
  BY <1>2, <1>3, <1>4, <1>6, SweepAssumption DEF IInv, CurLocked
<1>9. ChangedLocked'
  <2>1. \A t \in Tokens : Changed(t) => owner[t] \in Sessions /\ RunOf[t] \in Runs
    BY SweepAssumption DEF IInv, ChangedLocked, TypeOK
  <2> QED
    BY <1>2, <1>5, <1>6, <2>1 DEF IInv, ChangedLocked
<1>10. TodoLocked'
  <2>1. ASSUME NEW x \in Sessions, NEW u \in sess'[x].todo
        PROVE  /\ sess'[x].mode = "sweep" => owner'[u] = x
               /\ sess'[x].mode = "drive" => adv'[RunOf[u]] = x
    <3>1. CASE x = s
      BY <1>1, <1>3, <1>4, <1>6, <2>1, <3>1
    <3>2. CASE x # s
      <4>1. sess'[x] = sess[x] /\ u \in sess[x].todo /\ u \in Tokens /\ RunOf[u] \in Runs
        BY <1>4, <2>1, <3>2, SweepAssumption DEF IInv, TypeOK, Session
      <4> QED
        BY <1>2, <1>6, <4>1 DEF IInv, TodoLocked
    <3> QED
      BY <3>1, <3>2
  <2> QED
    BY <2>1 DEF TodoLocked
<1>11. FreshUnchanged'
  BY <1>3, <1>4, <1>5 DEF IInv, FreshUnchanged
<1>12. IdleIsClean'
  BY <1>3, <1>4 DEF IInv, IdleIsClean
<1> QED
  BY <1>7, <1>8, <1>9, <1>10, <1>11, <1>12 DEF IInv

\* The next token of a pass is one of the driven run.
LEMMA DriveNextStep ==
  ASSUME IInv, NEW s \in Sessions, NEW t \in Tokens, DriveNext(s, t)
  PROVE  IInv'
<1> DEFINE rest == sess[s].todo \ {t}
           q == [sess[s] EXCEPT !.todo = rest, !.cur = t, !.step = "lock"]
<1>1. /\ sess[s].mode = "drive" /\ sess[s].cur = NoToken /\ t \in sess[s].todo
      /\ sess' = [sess EXCEPT ![s].todo = @ \ {t}, ![s].cur = t, ![s].step = "lock"]
      /\ UNCHANGED <<row, base, owner, adv, errors, crashes>>
  BY DEF DriveNext, Between
<1>2. rest \in SUBSET Tokens /\ sess[s] \in Session /\ sess \in [Sessions -> Session]
  BY DEF IInv, TypeOK, Session
<1>3. sess' = [sess EXCEPT ![s] = q]
  BY <1>1, <1>2
<1> HIDE DEF rest
<1>4. /\ q \in Session /\ q.mode = "drive" /\ q.todo = rest /\ q.cur = t /\ q.step = "lock"
      /\ q.fresh = sess[s].fresh
  BY <1>1, <1>2 DEF Session
<1> HIDE DEF q
<1>5. sess' \in [Sessions -> Session] /\ sess'[s] = q /\ \A x \in Sessions : x # s => sess'[x] = sess[x]
  BY <1>3, <1>4, SessionFields DEF IInv
<1>6. \A u \in Tokens : Changed(u)' <=> Changed(u)
  BY <1>1 DEF Changed
<1>7. adv[RunOf[t]] = s
  BY <1>1 DEF IInv, TodoLocked
<1>8. TypeOK'
  BY <1>1, <1>4, <1>5 DEF IInv, TypeOK
<1>9. CurLocked'
  BY <1>1, <1>4, <1>5, <1>7 DEF IInv, CurLocked
<1>10. ChangedLocked'
  BY <1>1, <1>6 DEF IInv, ChangedLocked
<1>11. TodoLocked'
  BY <1>1, <1>4, <1>5 DEF IInv, TodoLocked, rest
<1>12. FreshUnchanged'
  <2>1. ~sess[s].fresh
    BY <1>1, SweepAssumption DEF IInv, FreshUnchanged
  <2> QED
    BY <1>4, <1>5, <1>6, <2>1 DEF IInv, FreshUnchanged
<1>13. IdleIsClean'
  BY <1>4, <1>5 DEF IInv, IdleIsClean
<1> QED
  BY <1>8, <1>9, <1>10, <1>11, <1>12, <1>13 DEF IInv

\* A drive takes the row lock of a free row.
LEMMA DriveLockStep ==
  ASSUME IInv, NEW s \in Sessions, NEW t \in Tokens, DriveLock(s, t)
  PROVE  IInv'
<1>1. PICK step \in {"advance", "killing"} : sess' = [sess EXCEPT ![s].step = step]
  BY DEF DriveLock
<1>2. /\ sess[s].cur = t /\ owner[t] \in {NoSession, s} /\ owner' = [owner EXCEPT ![t] = s]
      /\ row' = [row EXCEPT ![t].status = "running"]
      /\ UNCHANGED <<base, adv, errors, crashes>>
  BY DEF DriveLock, Inside
<1> DEFINE q == [sess[s] EXCEPT !.step = step]
           r == [row[t] EXCEPT !.status = "running"]
<1>3. sess[s] \in Session /\ sess' = [sess EXCEPT ![s] = q]
  BY <1>1 DEF IInv, TypeOK
<1>4. /\ q \in Session /\ q.mode = sess[s].mode /\ q.todo = sess[s].todo /\ q.cur = t
      /\ q.step = step /\ q.fresh = sess[s].fresh
  BY <1>2, <1>3 DEF Session
<1> HIDE DEF q
<1>5. sess' \in [Sessions -> Session] /\ sess'[s] = q /\ \A x \in Sessions : x # s => sess'[x] = sess[x]
  BY <1>3, <1>4, SessionFields DEF IInv
<1>6. r \in Rows /\ r.advances = row[t].advances /\ row' = [row EXCEPT ![t] = r]
  BY <1>2, StatusFields DEF IInv, TypeOK, Statuses
<1> HIDE DEF r
<1>7. row' \in [Tokens -> Rows] /\ \A u \in Tokens : row'[u].advances = row[u].advances
  BY <1>6 DEF IInv, TypeOK
<1>8. \A u \in Tokens : Changed(u)' <=> Changed(u)
  BY <1>2, <1>7 DEF Changed
<1>9. /\ owner' \in [Tokens -> Sessions \cup {NoSession}] /\ owner'[t] = s
      /\ \A u \in Tokens : owner[u] # NoSession => owner'[u] = owner[u]
  BY <1>2 DEF IInv, TypeOK
<1>10. sess[s].mode # "idle"
  BY <1>2, SweepAssumption DEF IInv, IdleIsClean
<1>11. TypeOK'
  BY <1>2, <1>4, <1>5, <1>7, <1>9, <1>10 DEF IInv, TypeOK
<1>12. CurLocked'
  BY <1>2, <1>4, <1>5, <1>9, SweepAssumption DEF IInv, CurLocked
<1>13. ChangedLocked'
  BY <1>2, <1>8, <1>9 DEF IInv, ChangedLocked
<1>14. TodoLocked'
  <2>1. \A x \in Sessions : \A u \in sess'[x].todo :
          u \in sess[x].todo /\ u \in Tokens /\ sess'[x].mode = sess[x].mode
    BY <1>4, <1>5 DEF IInv, TypeOK, Session
  <2> QED
    BY <1>2, <1>9, <2>1, SweepAssumption DEF IInv, TodoLocked
<1>15. FreshUnchanged'
  BY <1>2, <1>4, <1>5, <1>8 DEF IInv, FreshUnchanged
<1>16. IdleIsClean'
  BY <1>4, <1>5, <1>10 DEF IInv, IdleIsClean
<1> QED
  BY <1>11, <1>12, <1>13, <1>14, <1>15, <1>16 DEF IInv

\* A new pass lists tokens of the run whose lock the drive has.
LEMMA DrivePassStep ==
  ASSUME IInv, NEW s \in Sessions, NEW r \in Runs, DrivePass(s, r)
  PROVE  IInv'
<1> DEFINE todo == ActiveIn(s, r)
           q == [sess[s] EXCEPT !.todo = todo]
<1>1. todo \in SUBSET Tokens /\ \A t \in todo : RunOf[t] = r
  BY DEF ActiveIn, TokensOf
<1>2. /\ sess[s].mode = "drive" /\ adv[r] = s /\ sess' = [sess EXCEPT ![s].todo = todo]
      /\ UNCHANGED <<row, base, owner, adv, errors, crashes>>
  BY DEF DrivePass
<1> HIDE DEF todo
<1>3. sess[s] \in Session /\ sess' = [sess EXCEPT ![s] = q]
  BY <1>2 DEF IInv, TypeOK
<1>4. /\ q \in Session /\ q.mode = "drive" /\ q.todo = todo /\ q.cur = sess[s].cur
      /\ q.step = sess[s].step /\ q.fresh = sess[s].fresh
  BY <1>1, <1>2, <1>3 DEF Session
<1> HIDE DEF q
<1>5. sess' \in [Sessions -> Session] /\ sess'[s] = q /\ \A x \in Sessions : x # s => sess'[x] = sess[x]
  BY <1>3, <1>4, SessionFields DEF IInv
<1>6. \A u \in Tokens : Changed(u)' <=> Changed(u)
  BY <1>2 DEF Changed
<1>7. TypeOK'
  BY <1>2, <1>4, <1>5 DEF IInv, TypeOK
<1>8. CurLocked'
  BY <1>2, <1>4, <1>5 DEF IInv, CurLocked
<1>9. ChangedLocked'
  BY <1>2, <1>6 DEF IInv, ChangedLocked
<1>10. TodoLocked'
  BY <1>1, <1>2, <1>4, <1>5 DEF IInv, TodoLocked
<1>11. FreshUnchanged'
  BY <1>4, <1>5, <1>6 DEF IInv, FreshUnchanged
<1>12. IdleIsClean'
  BY <1>4, <1>5 DEF IInv, IdleIsClean
<1> QED
  BY <1>7, <1>8, <1>9, <1>10, <1>11, <1>12 DEF IInv

\* The end of a transaction publishes or discards the rows it has locked and
\* gives up its locks together.
LEMMA EndStep ==
  ASSUME IInv, NEW s \in Sessions, Commit(s) \/ Crash(s)
  PROVE  IInv'
<1>1. /\ owner' = [t \in Tokens |-> IF owner[t] = s THEN NoSession ELSE owner[t]]
      /\ adv' = [r \in Runs |-> IF adv[r] = s THEN NoSession ELSE adv[r]]
      /\ sess' = [sess EXCEPT ![s] = Idle]
  BY DEF Commit, Crash, EndTx
<1>2. /\ row' \in [Tokens -> Rows] /\ base' \in [Tokens -> Rows]
      /\ \A t \in Tokens : owner[t] = s => ~Changed(t)'
      /\ \A t \in Tokens : owner[t] # s => (Changed(t)' <=> Changed(t))
  <2>1. CASE Commit(s)
    <3>1. row' = row /\ base' = [t \in Tokens |-> IF owner[t] = s THEN row[t] ELSE base[t]]
      BY <2>1 DEF Commit
    <3> QED
      BY <3>1 DEF IInv, TypeOK, Changed
  <2>2. CASE Crash(s)
    <3>1. base' = base /\ row' = [t \in Tokens |-> IF owner[t] = s THEN base[t] ELSE row[t]]
      BY <2>2 DEF Crash
    <3> QED
      BY <3>1 DEF IInv, TypeOK, Changed
  <2> QED
    BY <2>1, <2>2
<1>3. errors' \in Nat /\ crashes' \in Nat
  BY DEF Commit, Crash, IInv, TypeOK
<1>4. Idle \in Session /\ Idle.cur = NoToken /\ Idle.todo = {} /\ Idle.mode = "idle" /\ ~Idle.fresh
  BY DEF Idle, Session
<1>5. sess' \in [Sessions -> Session] /\ sess'[s] = Idle /\ \A x \in Sessions : x # s => sess'[x] = sess[x]
  BY <1>1, <1>4, SessionFields DEF IInv
<1>6. TypeOK'
  BY <1>1, <1>2, <1>3, <1>5 DEF IInv, TypeOK
<1>7. CurLocked'
  <2>1. ASSUME NEW x \in Sessions, sess'[x].cur \in Tokens
        PROVE  /\ adv'[RunOf[sess'[x].cur]] = x
               /\ sess'[x].step \in {"advance", "killing"} => owner'[sess'[x].cur] = x
    <3>1. x # s /\ sess'[x] = sess[x]
      BY <1>4, <1>5, <2>1, SweepAssumption
    <3>2. /\ adv[RunOf[sess[x].cur]] = x /\ RunOf[sess[x].cur] \in Runs
          /\ sess[x].step \in {"advance", "killing"} => owner[sess[x].cur] = x
      BY <2>1, <3>1, SweepAssumption DEF IInv, CurLocked
    <3> QED
      BY <1>1, <2>1, <3>1, <3>2
  <2> QED
    BY <2>1 DEF CurLocked
<1>8. ChangedLocked'
  <2>1. ASSUME NEW t \in Tokens, Changed(t)'
        PROVE  owner'[t] # NoSession /\ adv'[RunOf[t]] = owner'[t]
    <3>1. owner[t] # s /\ Changed(t) /\ RunOf[t] \in Runs
      BY <1>2, <2>1, SweepAssumption
    <3>2. owner[t] # NoSession /\ adv[RunOf[t]] = owner[t]
      BY <3>1 DEF IInv, ChangedLocked
    <3> QED
      BY <1>1, <3>1, <3>2
  <2> QED
    BY <2>1 DEF ChangedLocked
<1>9. TodoLocked'
  <2>1. ASSUME NEW x \in Sessions, NEW u \in sess'[x].todo
        PROVE  /\ sess'[x].mode = "sweep" => owner'[u] = x
               /\ sess'[x].mode = "drive" => adv'[RunOf[u]] = x
    <3>1. x # s /\ sess'[x] = sess[x] /\ u \in sess[x].todo
      BY <1>4, <1>5, <2>1
    <3>2. u \in Tokens /\ RunOf[u] \in Runs
      BY <3>1, SweepAssumption DEF IInv, TypeOK, Session
    <3> QED
      BY <1>1, <3>1, <3>2 DEF IInv, TodoLocked
  <2> QED
    BY <2>1 DEF TodoLocked
<1>10. FreshUnchanged'
  <2>1. ASSUME NEW x \in Sessions, sess'[x].fresh
        PROVE  /\ sess'[x].cur \in Tokens
               /\ \A t \in Tokens : RunOf[t] = RunOf[sess'[x].cur] => ~Changed(t)'
    <3>1. sess'[x] = sess[x]
      BY <1>4, <1>5, <2>1
    <3> QED
      BY <1>2, <2>1, <3>1 DEF IInv, FreshUnchanged
  <2> QED
    BY <2>1 DEF FreshUnchanged
<1>11. IdleIsClean'
  BY <1>4, <1>5 DEF IInv, IdleIsClean
<1> QED
  BY <1>6, <1>7, <1>8, <1>9, <1>10, <1>11 DEF IInv

\* The reaper writes a row that nobody has locked, and commits at once.
LEMMA ResumeStep ==
  ASSUME IInv, NEW t \in Tokens, Resume(t)
  PROVE  IInv'
<1>1. /\ base' = [base EXCEPT ![t].status = "active"] /\ row' = [row EXCEPT ![t].status = "active"]
      /\ UNCHANGED <<owner, adv, sess, errors, crashes>>
  BY DEF Resume
<1> DEFINE r == [row[t] EXCEPT !.status = "active"]
           b == [base[t] EXCEPT !.status = "active"]
<1>2. /\ r \in Rows /\ r.advances = row[t].advances /\ row' = [row EXCEPT ![t] = r]
      /\ b \in Rows /\ b.advances = base[t].advances /\ base' = [base EXCEPT ![t] = b]
  BY <1>1, StatusFields DEF IInv, TypeOK, Statuses
<1> HIDE DEF r, b
<1>3. /\ row' \in [Tokens -> Rows] /\ base' \in [Tokens -> Rows]
      /\ \A u \in Tokens : Changed(u)' <=> Changed(u)
  BY <1>2 DEF IInv, TypeOK, Changed
<1>4. TypeOK'
  BY <1>1, <1>3 DEF IInv, TypeOK
<1>5. CurLocked' /\ TodoLocked' /\ IdleIsClean'
  BY <1>1 DEF IInv, CurLocked, TodoLocked, IdleIsClean
<1>6. ChangedLocked' /\ FreshUnchanged'
  BY <1>1, <1>3 DEF IInv, ChangedLocked, FreshUnchanged
<1> QED
  BY <1>4, <1>5, <1>6 DEF IInv

\* Every step preserves the invariant.
LEMMA IInvStep ==
  ASSUME IInv, [Next]_vars
  PROVE  IInv'
<1>1. CASE UNCHANGED vars
  BY <1>1 DEF vars, IInv, TypeOK, CurLocked, ChangedLocked, Changed, TodoLocked,
              FreshUnchanged, IdleIsClean
<1>2. ASSUME NEW s \in Sessions, Step(s)
      PROVE  IInv'
  BY <1>2, EnterStep, DropStep, AdvanceStep, TerminateStep, DriveNextStep, DriveLockStep,
     KillTokenStep, DrivePassStep, EndStep DEF Step
<1>3. CASE Next
  BY <1>2, <1>3, ClaimStep, DriveBegins, EndStep, ResumeStep DEF Next, Open
<1> QED
  BY <1>1, <1>3

\* Every lock is held by a session with an open transaction, and the columns
\* hold values of their vocabulary, for any number of sessions.
THEOREM SweepTypeCorrect == Spec => []TypeOK
<1>1. IInv => TypeOK
  BY DEF IInv
<1> QED
  BY <1>1, InitIInv, IInvStep, PTL DEF Spec

\* However many sweep workers and drives run, whatever they have claimed, crash
\* or fail on, the tokens of one run are advanced by one transaction at a time.
THEOREM OneAdvancer == Spec => []OneAdvancerPerRun
BY IInvGoal, InitIInv, IInvStep, PTL DEF Spec

----------------------------------------------------------------------------
(***************************************************************************)
(* TokenSweep implements RunOwner.  The inductive invariant of OneAdvancer *)
(* counts advances; here it must say what may become of a whole row.  What *)
(* a session has done to a row without the run's advisory lock is Plain:   *)
(* nothing, a death, or a claim it has still to work off.                  *)
(***************************************************************************)
With(r, status) == [r EXCEPT !.status = status]

Plain(s, t) ==
  \/ row[t] = base[t]
  \/ row[t] = With(base[t], "dead")
  \/ row[t] = With(base[t], "running") /\ t \in sess[s].todo \cup {sess[s].cur}

\* A row that nobody has locked has no uncommitted version.
FreeIsCommitted == \A t \in Tokens : owner[t] = NoSession => row[t] = base[t]

\* A locked row is its session's run's, or was treated plainly.
LockedIsPlain == \A s \in Sessions : \A t \in Tokens : owner[t] = s =>
  adv[RunOf[t]] = s \/ Plain(s, t)

\* A claimed row was active, so that giving it back restores it.
TodoActive == \A s \in Sessions : sess[s].mode = "sweep" =>
  \A t \in sess[s].todo : base[t].status = "active"

\* A savepoint that took the advisory lock itself has found and left plain rows.
FreshPlain == \A s \in Sessions : sess[s].fresh =>
  \A t \in Tokens : owner[t] = s /\ RunOf[t] = RunOf[sess[s].cur] => Plain(s, t)

\* Only a drive waits for the row lock of its token.
StepKind == \A s \in Sessions :
  /\ sess[s].step = "lock" => sess[s].mode = "drive" /\ ~sess[s].fresh
  /\ sess[s].cur \in Tokens => sess[s].step # "none"

RowInv == FreeIsCommitted /\ LockedIsPlain /\ TodoActive /\ FreshPlain /\ StepKind

RInv == IInv /\ RowInv

\* Statuses written one after the other.
LEMMA WithStatus ==
  ASSUME NEW r \in Rows, NEW a \in Statuses, NEW b \in Statuses
  PROVE  /\ With(r, a) \in Rows /\ With(r, a).status = a
         /\ With(With(r, a), b) = With(r, b)
         /\ r.status = a => With(r, a) = r
BY DEF With, Rows

\* The invariant holds at the start.
LEMMA InitRInv == Init => RInv
<1> SUFFICES ASSUME Init PROVE RInv
  OBVIOUS
<1>1. Idle.cur = NoToken /\ Idle.todo = {} /\ Idle.mode = "idle" /\ ~Idle.fresh /\ Idle.step = "none"
  BY DEF Idle
<1>2. \A s \in Sessions : sess[s] = Idle
  BY DEF Init
<1>3. \A t \in Tokens : owner[t] = NoSession /\ row[t] = base[t]
  BY DEF Init
<1>4. RowInv
  BY <1>1, <1>2, <1>3, SweepAssumption
     DEF RowInv, FreeIsCommitted, LockedIsPlain, TodoActive, FreshPlain, StepKind
<1> QED
  BY <1>4, InitIInv DEF RInv

----------------------------------------------------------------------------
\* What one session does to the rows it has locked leaves the others' part of
\* the invariant alone.
LEMMA FrameStep ==
  ASSUME RInv, NEW s \in Sessions,
         \A x \in Sessions : x # s => sess'[x] = sess[x],
         \A u \in Tokens : owner[u] \notin {NoSession, s} =>
           owner'[u] = owner[u] /\ row'[u] = row[u] /\ base'[u] = base[u],
         \A u \in Tokens : owner'[u] \in {NoSession, s} \/ owner'[u] = owner[u],
         owner' \in [Tokens -> Sessions \cup {NoSession}],
         \A r \in Runs : adv[r] \notin {NoSession, s} => adv'[r] = adv[r],
         \A u \in Tokens : owner'[u] = NoSession => row'[u] = base'[u],
         \A u \in Tokens : owner'[u] = s => adv'[RunOf[u]] = s \/ Plain(s, u)',
         sess'[s].mode = "sweep" => \A u \in sess'[s].todo : base'[u].status = "active",
         sess'[s].fresh => \A u \in Tokens : owner'[u] = s /\ RunOf[u] = RunOf[sess'[s].cur] => Plain(s, u)',
         sess'[s].step = "lock" => sess'[s].mode = "drive" /\ ~sess'[s].fresh,
         sess'[s].cur \in Tokens => sess'[s].step # "none"
  PROVE  RowInv'
<1>1. FreeIsCommitted'
  BY DEF FreeIsCommitted
<1>2. ASSUME NEW x \in Sessions, x # s, NEW u \in Tokens, owner'[u] = x
      PROVE  /\ owner[u] = x /\ x # NoSession /\ base'[u] = base[u]
             /\ adv[RunOf[u]] = x => adv'[RunOf[u]] = x
             /\ Plain(x, u) => Plain(x, u)'
  <2>1. x # NoSession /\ RunOf[u] \in Runs
    BY SweepAssumption
  <2>2. owner[u] = x /\ row'[u] = row[u] /\ base'[u] = base[u] /\ sess'[x] = sess[x]
    BY <1>2, <2>1
  <2>3. Plain(x, u) => Plain(x, u)'
    BY <2>2 DEF Plain
  <2> QED
    BY <1>2, <2>1, <2>2, <2>3
<1>3. LockedIsPlain'
  <2> SUFFICES ASSUME NEW x \in Sessions, x # s, NEW u \in Tokens, owner'[u] = x
               PROVE  adv'[RunOf[u]] = x \/ Plain(x, u)'
    BY DEF LockedIsPlain
  <2>1. adv[RunOf[u]] = x \/ Plain(x, u)
    BY <1>2 DEF RInv, RowInv, LockedIsPlain
  <2> QED
    BY <1>2, <2>1
<1>4. TodoActive'
  <2> SUFFICES ASSUME NEW x \in Sessions, x # s, sess'[x].mode = "sweep", NEW u \in sess'[x].todo
               PROVE  base'[u].status = "active"
    BY DEF TodoActive
  <2>1. sess'[x] = sess[x] /\ u \in Tokens /\ x # NoSession
    BY SweepAssumption DEF RInv, IInv, TypeOK, Session
  <2>2. owner[u] = x /\ base[u].status = "active"
    BY <2>1 DEF RInv, IInv, TodoLocked, RowInv, TodoActive
  <2> QED
    BY <2>1, <2>2
<1>5. FreshPlain'
  <2> SUFFICES ASSUME NEW x \in Sessions, x # s, sess'[x].fresh, NEW u \in Tokens, owner'[u] = x,
                      RunOf[u] = RunOf[sess'[x].cur]
               PROVE  Plain(x, u)'
    BY DEF FreshPlain
  <2>1. sess'[x] = sess[x]
    OBVIOUS
  <2>2. Plain(x, u)
    BY <1>2, <2>1 DEF RInv, RowInv, FreshPlain
  <2> QED
    BY <1>2, <2>2
<1>6. StepKind'
  BY DEF RInv, RowInv, StepKind
<1> QED
  BY <1>1, <1>3, <1>4, <1>5, <1>6 DEF RowInv

\* A session between two tokens has no fresh lock, and what it did plainly to a
\* row stays plain while the row is not touched and still to do.
LEMMA BetweenFacts ==
  ASSUME RInv, NEW s \in Sessions, sess[s].cur = NoToken
  PROVE  /\ ~sess[s].fresh
         /\ \A t \in Tokens : Plain(s, t) =>
              \/ row[t] = base[t] \/ row[t] = With(base[t], "dead")
              \/ row[t] = With(base[t], "running") /\ t \in sess[s].todo
<1>1. ~sess[s].fresh
  BY SweepAssumption DEF RInv, IInv, FreshUnchanged
<1>2. \A t \in Tokens : t # sess[s].cur
  BY SweepAssumption
<1> QED
  BY <1>1, <1>2 DEF Plain

\* An idle session has locked nothing.
LEMMA IdleFacts ==
  ASSUME RInv, NEW s \in Sessions, sess[s] = Idle
  PROVE  \A t \in Tokens : owner[t] # s
<1>1. sess[s].mode = "idle"
  BY DEF Idle
<1> QED
  BY <1>1, SweepAssumption DEF RInv, IInv, TypeOK

----------------------------------------------------------------------------
\* A claim writes committed rows that are active, and has them to work off.
LEMMA ClaimRows ==
  ASSUME RInv, NEW s \in Sessions, Claim(s)
  PROVE  RowInv'
<1> DEFINE q == [Idle EXCEPT !.mode = "sweep", !.todo = Batch]
<1>1. Batch \in SUBSET Tokens /\ \A t \in Batch : owner[t] = NoSession /\ base[t].status = "active"
  BY DEF Batch, Unclaimed
<1>2. q \in Session /\ q.todo = Batch /\ q.cur = NoToken /\ q.fresh = FALSE /\ q.step = "none"
  BY <1>1, SweepAssumption DEF Idle, Session
<1>3. /\ sess[s] = Idle /\ sess' = [sess EXCEPT ![s] = q] /\ UNCHANGED <<base, adv>>
      /\ row' = [t \in Tokens |-> IF t \in Batch THEN With(row[t], "running") ELSE row[t]]
      /\ owner' = [t \in Tokens |-> IF t \in Batch THEN s ELSE owner[t]]
  BY DEF Claim, With
<1> HIDE DEF q
<1>4. sess'[s] = q /\ \A x \in Sessions : x # s => sess'[x] = sess[x]
  BY <1>2, <1>3, SessionFields DEF RInv, IInv
<1>5. owner' \in [Tokens -> Sessions \cup {NoSession}]
  BY <1>3 DEF RInv, IInv, TypeOK
<1>6. \A t \in Tokens : owner[t] = NoSession => row[t] = base[t]
  BY DEF RInv, RowInv, FreeIsCommitted
<1>7. \A u \in Tokens : owner'[u] = NoSession => row'[u] = base'[u]
  BY <1>3, <1>6, SweepAssumption
<1>8. \A u \in Tokens : owner'[u] = s => Plain(s, u)'
  <2> SUFFICES ASSUME NEW u \in Tokens, owner'[u] = s PROVE Plain(s, u)'
    OBVIOUS
  <2>1. u \in Batch
    BY <1>3, IdleFacts
  <2>2. row'[u] = With(base'[u], "running") /\ u \in sess'[s].todo
    BY <1>1, <1>2, <1>3, <1>4, <1>6, <2>1
  <2> QED
    BY <2>2 DEF Plain
<1>9. \A u \in Tokens : owner[u] \notin {NoSession, s} =>
        owner'[u] = owner[u] /\ row'[u] = row[u] /\ base'[u] = base[u]
  BY <1>1, <1>3
<1>10. \A u \in Tokens : owner'[u] \in {NoSession, s} \/ owner'[u] = owner[u]
  BY <1>3
<1>11. \A u \in sess'[s].todo : base'[u].status = "active"
  BY <1>1, <1>2, <1>3, <1>4
<1>12. ~sess'[s].fresh /\ sess'[s].step = "none" /\ sess'[s].cur \notin Tokens
  BY <1>2, <1>4, SweepAssumption
<1> QED
  BY <1>3, <1>4, <1>5, <1>7, <1>8, <1>9, <1>10, <1>11, <1>12, FrameStep

\* Opening a savepoint touches no row.
LEMMA EnterRows ==
  ASSUME RInv, NEW s \in Sessions, NEW t \in Tokens, Enter(s, t)
  PROVE  RowInv'
<1> DEFINE f == (adv[RunOf[t]] = NoSession)
           rest == sess[s].todo \ {t}
<1>1. PICK step \in {"advance", "killing"} :
        sess' = [sess EXCEPT ![s].todo = @ \ {t}, ![s].cur = t, ![s].step = step, ![s].fresh = f]
  BY DEF Enter
<1>2. /\ sess[s].mode = "sweep" /\ sess[s].cur = NoToken /\ t \in sess[s].todo
      /\ adv[RunOf[t]] \in {NoSession, s}
      /\ adv' = [adv EXCEPT ![RunOf[t]] = s] /\ UNCHANGED <<row, base, owner>>
  BY DEF Enter, Between
<1>3. f \in BOOLEAN /\ rest \in SUBSET Tokens /\ sess[s] \in Session /\ RunOf[t] \in Runs
  BY SweepAssumption DEF RInv, IInv, TypeOK, Session
<1> HIDE DEF f, rest
<1> DEFINE q == [sess[s] EXCEPT !.todo = rest, !.cur = t, !.step = step, !.fresh = f]
<1>4. /\ q \in Session /\ q.mode = "sweep" /\ q.todo = rest /\ q.cur = t /\ q.step = step
      /\ q.fresh = f
  BY <1>2, <1>3 DEF Session
<1>5. sess' = [sess EXCEPT ![s] = q]
  BY <1>1, <1>3 DEF rest, RInv, IInv, TypeOK
<1> HIDE DEF q
<1>6. sess'[s] = q /\ \A x \in Sessions : x # s => sess'[x] = sess[x]
  BY <1>4, <1>5, SessionFields DEF RInv, IInv
<1>7. \A u \in Tokens : Plain(s, u) => Plain(s, u)'
  <2> SUFFICES ASSUME NEW u \in Tokens, Plain(s, u) PROVE Plain(s, u)'
    OBVIOUS
  <2>1. u \in sess[s].todo \cup {sess[s].cur} => u \in sess'[s].todo \cup {sess'[s].cur}
    BY <1>2, <1>4, <1>6, SweepAssumption DEF rest
  <2> QED
    BY <1>2, <2>1 DEF Plain
<1>8. \A u \in Tokens : owner[u] = s => adv[RunOf[u]] = s \/ Plain(s, u)
  BY SweepAssumption DEF RInv, RowInv, LockedIsPlain
<1>9. \A u \in Tokens : owner'[u] = s => adv'[RunOf[u]] = s \/ Plain(s, u)'
  <2> SUFFICES ASSUME NEW u \in Tokens, owner'[u] = s PROVE adv'[RunOf[u]] = s \/ Plain(s, u)'
    OBVIOUS
  <2>1. adv[RunOf[u]] = s => adv'[RunOf[u]] = s
    BY <1>2, <1>3, SweepAssumption DEF RInv, IInv, TypeOK
  <2> QED
    BY <1>2, <1>7, <1>8, <2>1
<1>10. sess'[s].fresh => \A u \in Tokens : owner'[u] = s /\ RunOf[u] = RunOf[sess'[s].cur] => Plain(s, u)'
  <2> SUFFICES ASSUME sess'[s].fresh, NEW u \in Tokens, owner'[u] = s, RunOf[u] = RunOf[sess'[s].cur]
               PROVE  Plain(s, u)'
    OBVIOUS
  <2>1. adv[RunOf[t]] = NoSession /\ RunOf[u] = RunOf[t]
    BY <1>4, <1>6 DEF f
  <2> QED
    BY <1>2, <1>7, <1>8, <2>1, SweepAssumption
<1>11. \A u \in sess'[s].todo : base'[u].status = "active"
  BY <1>2, <1>4, <1>6 DEF rest, RInv, RowInv, TodoActive
<1>12. /\ \A r \in Runs : adv[r] \notin {NoSession, s} => adv'[r] = adv[r]
       /\ owner' \in [Tokens -> Sessions \cup {NoSession}]
       /\ \A u \in Tokens : owner'[u] = NoSession => row'[u] = base'[u]
  BY <1>2 DEF RInv, IInv, TypeOK, RowInv, FreeIsCommitted
<1>13. sess'[s].step \in {"advance", "killing"}
  BY <1>4, <1>6
<1> QED
  BY <1>2, <1>6, <1>9, <1>10, <1>11, <1>12, <1>13, FrameStep

\* What is given back is as it was committed.
LEMMA DropRows ==
  ASSUME RInv, NEW s \in Sessions, NEW t \in Tokens, Release(s, t) \/ SkipKilled(s, t)
  PROVE  RowInv'
<1>1. /\ sess' = [sess EXCEPT ![s].todo = @ \ {t}] /\ t \in sess[s].todo
      /\ UNCHANGED <<base, owner, adv>> /\ sess[s].mode = "sweep" /\ sess[s].cur = NoToken
      /\ \/ row' = row /\ adv[RunOf[t]] = s
         \/ row' = [row EXCEPT ![t] = With(row[t], "active")] /\ adv[RunOf[t]] # s
  BY DEF Release, SkipKilled, Between, With
<1>2. /\ sess'[s].mode = sess[s].mode /\ sess'[s].todo = sess[s].todo \ {t}
      /\ sess'[s].cur = sess[s].cur /\ sess'[s].step = sess[s].step
      /\ sess'[s].fresh = sess[s].fresh
      /\ \A x \in Sessions : x # s => sess'[x] = sess[x]
  BY <1>1, DropFields DEF RInv, IInv
<1>3. owner[t] = s /\ base[t].status = "active" /\ s # NoSession
  BY <1>1, SweepAssumption DEF RInv, IInv, TodoLocked, RowInv, TodoActive
<1>4. row \in [Tokens -> Rows] /\ base \in [Tokens -> Rows]
      /\ owner' \in [Tokens -> Sessions \cup {NoSession}]
  BY <1>1 DEF RInv, IInv, TypeOK
<1>5. (row'[t] = row[t] /\ adv[RunOf[t]] = s) \/ row'[t] = base[t]
  <2>1. CASE adv[RunOf[t]] = s
    BY <1>1, <2>1
  <2>2. CASE adv[RunOf[t]] # s
    <3>1. Plain(s, t)
      BY <1>3, <2>2 DEF RInv, RowInv, LockedIsPlain
    <3>2. row[t] = base[t] \/ row[t] = With(base[t], "dead") \/ row[t] = With(base[t], "running")
      BY <3>1 DEF Plain
    <3>3. With(row[t], "active") = base[t]
      BY <1>3, <1>4, <3>2, WithStatus DEF Statuses
    <3> QED
      BY <1>1, <1>4, <2>2, <3>3
  <2> QED
    BY <2>1, <2>2
<1>6. \A u \in Tokens : u # t => row'[u] = row[u]
  BY <1>1, <1>4
<1>7. \A u \in Tokens : owner'[u] = s => adv'[RunOf[u]] = s \/ Plain(s, u)'
  <2> SUFFICES ASSUME NEW u \in Tokens, owner'[u] = s, adv'[RunOf[u]] # s PROVE Plain(s, u)'
    OBVIOUS
  <2>1. CASE u = t
    BY <1>1, <1>5, <2>1 DEF Plain
  <2>2. CASE u # t
    <3>1. Plain(s, u)
      BY <1>1, <1>3 DEF RInv, RowInv, LockedIsPlain
    <3> QED
      BY <1>1, <1>2, <1>6, <2>2, <3>1 DEF Plain
  <2> QED
    BY <2>1, <2>2
<1>8. ~sess'[s].fresh /\ sess'[s].cur \notin Tokens /\ sess'[s].step = sess[s].step
  BY <1>1, <1>2, BetweenFacts, SweepAssumption
<1>9. \A u \in sess'[s].todo : base'[u].status = "active"
  BY <1>1, <1>2 DEF RInv, RowInv, TodoActive
<1>10. \A u \in Tokens : owner'[u] = NoSession => row'[u] = base'[u]
  BY <1>1, <1>3, <1>6 DEF RInv, RowInv, FreeIsCommitted
<1>11. sess'[s].step = "lock" => sess'[s].mode = "drive"
  BY <1>2 DEF RInv, RowInv, StepKind
<1>12. \A u \in Tokens : owner[u] \notin {NoSession, s} =>
         owner'[u] = owner[u] /\ row'[u] = row[u] /\ base'[u] = base[u]
  BY <1>1, <1>3, <1>6
<1> QED
  BY <1>1, <1>2, <1>4, <1>7, <1>8, <1>9, <1>10, <1>11, <1>12, FrameStep

\* The end of a token's savepoint: it has written rows of its own run only.
LEMMA FinishRows ==
  ASSUME RInv, NEW s \in Sessions, NEW t \in Tokens, sess[s].cur = t, sess' = Leave(s),
         owner' \in [Tokens -> Sessions \cup {NoSession}], UNCHANGED <<base, adv>>,
         \A u \in Tokens : row'[u] # row[u] => RunOf[u] = RunOf[t] /\ owner'[u] = s,
         \A u \in Tokens : owner'[u] # owner[u] =>
           RunOf[u] = RunOf[t] /\ owner'[u] = s /\ owner[u] = NoSession
  PROVE  RowInv'
<1>1. /\ sess'[s].mode = sess[s].mode /\ sess'[s].todo = sess[s].todo
      /\ sess'[s].cur = NoToken /\ sess'[s].step = "none" /\ sess'[s].fresh = FALSE
      /\ \A x \in Sessions : x # s => sess'[x] = sess[x]
  BY LeaveFields DEF RInv, IInv
<1>2. adv[RunOf[t]] = s /\ s # NoSession /\ NoToken \notin Tokens
  BY SweepAssumption DEF RInv, IInv, CurLocked
<1>3. \A u \in Tokens : owner'[u] = s => adv'[RunOf[u]] = s \/ Plain(s, u)'
  <2> SUFFICES ASSUME NEW u \in Tokens, owner'[u] = s, adv'[RunOf[u]] # s PROVE Plain(s, u)'
    OBVIOUS
  <2>1. RunOf[u] # RunOf[t] /\ u # t
    BY <1>2
  <2>2. Plain(s, u) /\ row'[u] = row[u]
    BY <1>2, <2>1 DEF RInv, RowInv, LockedIsPlain
  <2> QED
    BY <1>1, <2>1, <2>2 DEF Plain
<1>4. sess'[s].mode = "sweep" => \A u \in sess'[s].todo : base'[u].status = "active"
  BY <1>1 DEF RInv, RowInv, TodoActive
<1>5. \A u \in Tokens : owner'[u] = NoSession => row'[u] = base'[u]
  BY <1>2 DEF RInv, RowInv, FreeIsCommitted
<1>6. \A u \in Tokens : owner[u] \notin {NoSession, s} =>
        owner'[u] = owner[u] /\ row'[u] = row[u] /\ base'[u] = base[u]
  OBVIOUS
<1> QED
  BY <1>1, <1>2, <1>3, <1>4, <1>5, <1>6, FrameStep

\* An advance writes the row of its token.
LEMMA AdvanceRows ==
  ASSUME RInv, NEW s \in Sessions, NEW t \in Tokens,
         NEW status \in {"active", "waiting", "completed"}, Advance(s, t, status)
  PROVE  RowInv'
<1>1. /\ sess[s].cur = t /\ sess' = Leave(s) /\ sess[s].step = "advance"
      /\ UNCHANGED <<base, owner, adv>>
      /\ row' = [row EXCEPT ![t] = [status |-> status, advances |-> row[t].advances + 1]]
  BY DEF Advance, Inside
<1>2. owner[t] = s /\ row \in [Tokens -> Rows] /\ owner \in [Tokens -> Sessions \cup {NoSession}]
  BY <1>1 DEF RInv, IInv, CurLocked, TypeOK
<1>3. \A u \in Tokens : row'[u] # row[u] => u = t
  BY <1>1, <1>2
<1> QED
  BY <1>1, <1>2, <1>3, FinishRows

\* kill_all writes rows of the terminated run, and locks them.
LEMMA TerminateRows ==
  ASSUME RInv, NEW s \in Sessions, NEW t \in Tokens, Terminate(s, t)
  PROVE  RowInv'
<1>1. /\ sess[s].cur = t /\ sess' = Leave(s) /\ sess[s].step = "killing" /\ Blockers(s) = {}
      /\ UNCHANGED <<base, adv>>
      /\ row' = [u \in Tokens |->
           IF u = t THEN [status |-> "completed", advances |-> row[u].advances + 1]
           ELSE IF u \in ToKill(s) THEN [row[u] EXCEPT !.status = "dead"] ELSE row[u]]
      /\ owner' = [u \in Tokens |-> IF u \in ToKill(s) THEN s ELSE owner[u]]
  BY DEF Terminate, Inside
<1>2. owner[t] = s /\ owner \in [Tokens -> Sessions \cup {NoSession}]
  BY <1>1 DEF RInv, IInv, CurLocked, TypeOK
<1>3. \A u \in ToKill(s) : u \in Tokens /\ RunOf[u] = RunOf[t]
  BY <1>1 DEF ToKill
<1>4. \A u \in ToKill(s) : owner[u] \in {NoSession, s}
  BY <1>1 DEF Blockers
<1>5. \A u \in Tokens : row'[u] # row[u] => u = t \/ u \in ToKill(s)
  BY <1>1
<1>6. \A u \in Tokens : row'[u] # row[u] => RunOf[u] = RunOf[t] /\ owner'[u] = s
  BY <1>1, <1>2, <1>3, <1>5
<1>7. \A u \in Tokens : owner'[u] # owner[u] =>
        RunOf[u] = RunOf[t] /\ owner'[u] = s /\ owner[u] = NoSession
  BY <1>1, <1>3, <1>4
<1>8. owner' \in [Tokens -> Sessions \cup {NoSession}]
  BY <1>1, <1>2
<1>9. sess[s].cur = t /\ sess' = Leave(s) /\ UNCHANGED <<base, adv>>
  BY <1>1
<1> QED
  BY <1>6, <1>7, <1>8, <1>9, FinishRows

\* A token that dies without the advisory lock changes its status only.
LEMMA KillTokenRows ==
  ASSUME RInv, NEW s \in Sessions, NEW t \in Tokens, KillToken(s, t)
  PROVE  RowInv'
<1>1. /\ sess[s].cur = t /\ sess' = Leave(s) /\ sess[s].mode = "sweep"
      /\ UNCHANGED <<base, owner>>
      /\ adv' = IF sess[s].fresh THEN [adv EXCEPT ![RunOf[t]] = NoSession] ELSE adv
      /\ row' = [row EXCEPT ![t] = With(row[t], "dead")]
  BY DEF KillToken, Inside, With
<1>2. /\ sess'[s].mode = sess[s].mode /\ sess'[s].todo = sess[s].todo
      /\ sess'[s].cur = NoToken /\ sess'[s].step = "none" /\ sess'[s].fresh = FALSE
      /\ \A x \in Sessions : x # s => sess'[x] = sess[x]
  BY <1>1, LeaveFields DEF RInv, IInv
<1>3. /\ row \in [Tokens -> Rows] /\ base \in [Tokens -> Rows] /\ sess[s] \in Session
      /\ owner' \in [Tokens -> Sessions \cup {NoSession}] /\ adv \in [Runs -> Sessions \cup {NoSession}]
      /\ RunOf[t] \in Runs /\ s # NoSession
  BY <1>1, SweepAssumption DEF RInv, IInv, TypeOK
<1>4. adv[RunOf[t]] = s /\ owner[t] = s
  <2>1. sess[s].step \in {"advance", "killing"}
    BY <1>1, <1>3 DEF RInv, RowInv, StepKind, Session
  <2> QED
    BY <1>1, <2>1 DEF RInv, IInv, CurLocked
<1>5. \A r \in Runs : r # RunOf[t] => adv'[r] = adv[r]
  BY <1>1, <1>3
<1>6. \A u \in Tokens : u # t => row'[u] = row[u]
  BY <1>1, <1>3
<1>7. \A u \in Tokens : u # t /\ Plain(s, u) => Plain(s, u)'
  BY <1>1, <1>2, <1>6 DEF Plain
<1>8. Plain(s, t) => Plain(s, t)'
  <2> SUFFICES ASSUME Plain(s, t) PROVE row'[t] = With(base[t], "dead")
    BY <1>1 DEF Plain
  <2>1. row[t] = base[t] \/ row[t] = With(base[t], "dead") \/ row[t] = With(base[t], "running")
    BY DEF Plain
  <2>2. With(row[t], "dead") = With(base[t], "dead")
    BY <1>3, <2>1, WithStatus DEF Statuses
  <2> QED
    BY <1>1, <1>3, <2>2
<1>9. \A u \in Tokens : owner'[u] = s => adv'[RunOf[u]] = s \/ Plain(s, u)'
  <2> SUFFICES ASSUME NEW u \in Tokens, owner'[u] = s PROVE adv'[RunOf[u]] = s \/ Plain(s, u)'
    OBVIOUS
  <2>1. owner[u] = s /\ RunOf[u] \in Runs
    BY <1>1, SweepAssumption
  <2>2. CASE RunOf[u] # RunOf[t]
    <3>1. adv[RunOf[u]] = s \/ Plain(s, u)
      BY <2>1 DEF RInv, RowInv, LockedIsPlain
    <3> QED
      BY <1>5, <1>7, <2>1, <2>2, <3>1
  <2>3. CASE RunOf[u] = RunOf[t] /\ ~sess[s].fresh
    BY <1>1, <1>4, <2>3
  <2>4. CASE RunOf[u] = RunOf[t] /\ sess[s].fresh
    <3>1. Plain(s, u)
      BY <1>1, <2>1, <2>4 DEF RInv, RowInv, FreshPlain
    <3> QED
      BY <1>7, <1>8, <3>1
  <2> QED
    BY <2>2, <2>3, <2>4
<1>10. \A u \in sess'[s].todo : base'[u].status = "active"
  BY <1>1, <1>2 DEF RInv, RowInv, TodoActive
<1>11. \A u \in Tokens : owner'[u] = NoSession => row'[u] = base'[u]
  BY <1>1, <1>3, <1>4, <1>6 DEF RInv, RowInv, FreeIsCommitted
<1>12. \A u \in Tokens : owner[u] \notin {NoSession, s} =>
         owner'[u] = owner[u] /\ row'[u] = row[u] /\ base'[u] = base[u]
  BY <1>1, <1>4, <1>6
<1>13. \A r \in Runs : adv[r] \notin {NoSession, s} => adv'[r] = adv[r]
  BY <1>4, <1>5
<1>14. ~sess'[s].fresh /\ sess'[s].step = "none" /\ sess'[s].cur \notin Tokens
  BY <1>2, SweepAssumption
<1>15. \A u \in Tokens : owner'[u] = owner[u]
  BY <1>1
<1> QED
  BY <1>2, <1>3, <1>9, <1>10, <1>11, <1>12, <1>13, <1>14, <1>15, FrameStep

\* The steps of a drive that lock no row.
LEMMA DriveRows ==
  ASSUME RInv, NEW s \in Sessions, NEW q \in Session, sess' = [sess EXCEPT ![s] = q],
         UNCHANGED <<row, base, owner>>, sess[s].cur = NoToken,
         q.mode = "drive", q.fresh = FALSE, q.cur \in Tokens => q.step # "none",
         sess[s].todo \cap Tokens \subseteq q.todo \cup {q.cur},
         \A r \in Runs : adv[r] # NoSession => adv'[r] = adv[r]
  PROVE  RowInv'
<1>1. sess'[s] = q /\ \A x \in Sessions : x # s => sess'[x] = sess[x]
  BY SessionFields DEF RInv, IInv
<1>2. \A u \in Tokens : owner'[u] = s => adv'[RunOf[u]] = s \/ Plain(s, u)'
  <2> SUFFICES ASSUME NEW u \in Tokens, owner'[u] = s PROVE adv'[RunOf[u]] = s \/ Plain(s, u)'
    OBVIOUS
  <2>1. adv[RunOf[u]] = s \/ Plain(s, u)
    BY DEF RInv, RowInv, LockedIsPlain
  <2>2. adv[RunOf[u]] = s => adv'[RunOf[u]] = s
    BY SweepAssumption
  <2>3. Plain(s, u) => Plain(s, u)'
    <3>1. u \in sess[s].todo \cup {sess[s].cur} => u \in sess'[s].todo \cup {sess'[s].cur}
      BY <1>1, SweepAssumption
    <3> QED
      BY <3>1 DEF Plain
  <2> QED
    BY <2>1, <2>2, <2>3
<1>3. /\ owner' \in [Tokens -> Sessions \cup {NoSession}]
      /\ \A u \in Tokens : owner'[u] = NoSession => row'[u] = base'[u]
  BY DEF RInv, IInv, TypeOK, RowInv, FreeIsCommitted
<1> QED
  BY <1>1, <1>2, <1>3, FrameStep

\* drive_run begins, goes to the next token or lists another pass.
LEMMA DriveMoveRows ==
  ASSUME RInv, NEW s \in Sessions,
         \/ \E r \in Runs : Drive(s, r) \/ DrivePass(s, r)
         \/ \E t \in Tokens : DriveNext(s, t)
  PROVE  RowInv'
<1>1. sess[s] \in Session /\ sess \in [Sessions -> Session] /\ adv \in [Runs -> Sessions \cup {NoSession}]
  BY DEF RInv, IInv, TypeOK
<1>2. ASSUME NEW r \in Runs, Drive(s, r) PROVE RowInv'
  <2> DEFINE q == [Idle EXCEPT !.mode = "drive", !.todo = ActiveIn(s, r)]
  <2>1. /\ sess[s] = Idle /\ sess' = [sess EXCEPT ![s] = q] /\ UNCHANGED <<row, base, owner>>
        /\ adv[r] = NoSession /\ adv' = [adv EXCEPT ![r] = s]
    BY <1>2 DEF Drive
  <2>2. q \in Session /\ q.mode = "drive" /\ q.fresh = FALSE /\ q.cur = NoToken
    BY DEF Idle, Session, ActiveIn, TokensOf
  <2>3. sess[s].cur = NoToken /\ sess[s].todo = {}
    BY <2>1 DEF Idle
  <2> HIDE DEF q
  <2>4. \A p \in Runs : adv[p] # NoSession => adv'[p] = adv[p]
    BY <1>1, <2>1
  <2> QED
    BY <2>1, <2>2, <2>3, <2>4, SweepAssumption, DriveRows
<1>3. ASSUME NEW r \in Runs, DrivePass(s, r) PROVE RowInv'
  <2> DEFINE q == [sess[s] EXCEPT !.todo = ActiveIn(s, r)]
  <2>1. /\ sess[s].mode = "drive" /\ sess[s].cur = NoToken /\ sess[s].todo = {}
        /\ sess' = [sess EXCEPT ![s] = q] /\ UNCHANGED <<row, base, owner, adv>>
    BY <1>1, <1>3 DEF DrivePass, Between
  <2>2. q \in Session /\ q.mode = "drive" /\ q.fresh = sess[s].fresh /\ q.cur = NoToken
    BY <1>1, <2>1 DEF Session, ActiveIn, TokensOf
  <2>3. sess[s].fresh = FALSE
    BY <1>1, <2>1, BetweenFacts DEF Session
  <2> HIDE DEF q
  <2> QED
    BY <2>1, <2>2, <2>3, SweepAssumption, DriveRows
<1>4. ASSUME NEW t \in Tokens, DriveNext(s, t) PROVE RowInv'
  <2> DEFINE rest == sess[s].todo \ {t}
             q == [sess[s] EXCEPT !.todo = rest, !.cur = t, !.step = "lock"]
  <2>1. /\ sess[s].mode = "drive" /\ sess[s].cur = NoToken
        /\ sess' = [sess EXCEPT ![s] = q] /\ UNCHANGED <<row, base, owner, adv>>
    BY <1>1, <1>4 DEF DriveNext, Between
  <2>2. rest \in SUBSET Tokens /\ sess[s].todo \cap Tokens \subseteq rest \cup {t}
    BY <1>1 DEF Session
  <2> HIDE DEF rest
  <2>3. /\ q \in Session /\ q.mode = "drive" /\ q.fresh = sess[s].fresh /\ q.cur = t
        /\ q.todo = rest /\ q.step = "lock"
    BY <1>1, <2>1, <2>2 DEF Session
  <2>4. sess[s].fresh = FALSE
    BY <1>1, <2>1, BetweenFacts DEF Session
  <2> HIDE DEF q
  <2> QED
    BY <2>1, <2>2, <2>3, <2>4, SweepAssumption, DriveRows
<1> QED
  BY <1>2, <1>3, <1>4

\* A drive locks and writes a row of the run whose advisory lock it has.
LEMMA DriveLockRows ==
  ASSUME RInv, NEW s \in Sessions, NEW t \in Tokens, DriveLock(s, t)
  PROVE  RowInv'
<1>1. PICK step \in {"advance", "killing"} : sess' = [sess EXCEPT ![s].step = step]
  BY DEF DriveLock
<1>2. /\ sess[s].cur = t /\ owner[t] \in {NoSession, s} /\ owner' = [owner EXCEPT ![t] = s]
      /\ row' = [row EXCEPT ![t] = With(row[t], "running")] /\ sess[s].step = "lock"
      /\ UNCHANGED <<base, adv>>
  BY DEF DriveLock, Inside, With
<1> DEFINE q == [sess[s] EXCEPT !.step = step]
<1>3. /\ sess[s] \in Session /\ sess' = [sess EXCEPT ![s] = q] /\ row \in [Tokens -> Rows]
      /\ owner \in [Tokens -> Sessions \cup {NoSession}]
  BY <1>1 DEF RInv, IInv, TypeOK
<1>4. /\ q \in Session /\ q.mode = sess[s].mode /\ q.todo = sess[s].todo /\ q.cur = t
      /\ q.step = step /\ q.fresh = sess[s].fresh
  BY <1>2, <1>3 DEF Session
<1> HIDE DEF q
<1>5. sess'[s] = q /\ \A x \in Sessions : x # s => sess'[x] = sess[x]
  BY <1>3, <1>4, SessionFields DEF RInv, IInv
<1>6. sess[s].fresh = FALSE /\ sess[s].mode = "drive" /\ adv[RunOf[t]] = s /\ s # NoSession
  BY <1>2, <1>3, SweepAssumption DEF RInv, RowInv, StepKind, Session, IInv, CurLocked
<1>7. \A u \in Tokens : owner'[u] = s => adv'[RunOf[u]] = s \/ Plain(s, u)'
  <2> SUFFICES ASSUME NEW u \in Tokens, owner'[u] = s, adv'[RunOf[u]] # s PROVE Plain(s, u)'
    OBVIOUS
  <2>1. u # t
    BY <1>2, <1>6
  <2>2. owner[u] = s /\ row'[u] = row[u]
    BY <1>2, <1>3, <2>1
  <2>3. Plain(s, u)
    BY <1>2, <2>2 DEF RInv, RowInv, LockedIsPlain
  <2> QED
    BY <1>2, <1>4, <1>5, <2>2, <2>3 DEF Plain
<1>8. \A u \in Tokens : owner'[u] = NoSession => row'[u] = base'[u]
  BY <1>2, <1>3, <1>6 DEF RInv, RowInv, FreeIsCommitted
<1>9. \A u \in Tokens : owner[u] \notin {NoSession, s} =>
        owner'[u] = owner[u] /\ row'[u] = row[u] /\ base'[u] = base[u]
  BY <1>2, <1>3
<1>10. /\ \A u \in Tokens : owner'[u] \in {NoSession, s} \/ owner'[u] = owner[u]
       /\ owner' \in [Tokens -> Sessions \cup {NoSession}]
  BY <1>2, <1>3
<1>11. ~sess'[s].fresh /\ sess'[s].mode = "drive" /\ sess'[s].step \in {"advance", "killing"}
  BY <1>4, <1>5, <1>6
<1> QED
  BY <1>2, <1>5, <1>7, <1>8, <1>9, <1>10, <1>11, FrameStep

\* A transaction that ends leaves no uncommitted version behind.
LEMMA EndRows ==
  ASSUME RInv, NEW s \in Sessions, Commit(s) \/ Crash(s)
  PROVE  RowInv'
<1>1. /\ owner' = [t \in Tokens |-> IF owner[t] = s THEN NoSession ELSE owner[t]]
      /\ adv' = [r \in Runs |-> IF adv[r] = s THEN NoSession ELSE adv[r]]
      /\ sess' = [sess EXCEPT ![s] = Idle]
  BY DEF Commit, Crash, EndTx
<1>2. \A t \in Tokens : /\ owner[t] = s => row'[t] = base'[t]
                        /\ owner[t] # s => row'[t] = row[t] /\ base'[t] = base[t]
  BY DEF Commit, Crash
<1>3. Idle \in Session /\ Idle.cur = NoToken /\ Idle.todo = {} /\ ~Idle.fresh /\ Idle.step = "none"
  BY DEF Idle, Session
<1>4. sess'[s] = Idle /\ \A x \in Sessions : x # s => sess'[x] = sess[x]
  BY <1>1, <1>3, SessionFields DEF RInv, IInv
<1>5. \A t \in Tokens : owner[t] = NoSession => row[t] = base[t]
  BY DEF RInv, RowInv, FreeIsCommitted
<1>6. \A t \in Tokens : owner'[t] = NoSession => row'[t] = base'[t]
  BY <1>1, <1>2, <1>5
<1>7. /\ owner' \in [Tokens -> Sessions \cup {NoSession}] /\ s # NoSession
      /\ \A t \in Tokens : owner'[t] # s /\ owner'[t] \in {NoSession, owner[t]}
  BY <1>1, SweepAssumption DEF RInv, IInv, TypeOK
<1>8. \A u \in Tokens : owner[u] \notin {NoSession, s} =>
        owner'[u] = owner[u] /\ row'[u] = row[u] /\ base'[u] = base[u]
  BY <1>1, <1>2
<1>9. \A r \in Runs : adv[r] \notin {NoSession, s} => adv'[r] = adv[r]
  BY <1>1
<1>10. /\ sess'[s].todo = {} /\ ~sess'[s].fresh /\ sess'[s].step = "none"
       /\ sess'[s].cur \notin Tokens
  BY <1>3, <1>4, SweepAssumption
<1> QED
  BY <1>4, <1>6, <1>7, <1>8, <1>9, <1>10, FrameStep

\* The reaper writes both versions of a row that nobody has locked.
LEMMA ResumeRows ==
  ASSUME RInv, NEW t \in Tokens, Resume(t)
  PROVE  RowInv'
<1>1. /\ owner[t] = NoSession /\ UNCHANGED <<owner, adv, sess>>
      /\ base' = [base EXCEPT ![t] = With(base[t], "active")]
      /\ row' = [row EXCEPT ![t] = With(row[t], "active")]
  BY DEF Resume, With
<1>2. row[t] = base[t] /\ row \in [Tokens -> Rows] /\ base \in [Tokens -> Rows]
  BY <1>1 DEF RInv, RowInv, FreeIsCommitted, IInv, TypeOK
<1>3. row'[t] = base'[t] /\ \A u \in Tokens : u # t => row'[u] = row[u] /\ base'[u] = base[u]
  BY <1>1, <1>2
<1>4. \A x \in Sessions : \A u \in Tokens : Plain(x, u) => Plain(x, u)'
  <2> SUFFICES ASSUME NEW x \in Sessions, NEW u \in Tokens, Plain(x, u) PROVE Plain(x, u)'
    OBVIOUS
  <2>1. CASE u = t
    BY <1>3, <2>1 DEF Plain
  <2>2. CASE u # t
    BY <1>1, <1>3, <2>2 DEF Plain
  <2> QED
    BY <2>1, <2>2
<1>5. FreeIsCommitted'
  BY <1>1, <1>3 DEF FreeIsCommitted, RInv, RowInv
<1>6. LockedIsPlain' /\ FreshPlain'
  BY <1>1, <1>4 DEF LockedIsPlain, FreshPlain, RInv, RowInv
<1>7. TodoActive'
  <2> SUFFICES ASSUME NEW x \in Sessions, sess'[x].mode = "sweep", NEW u \in sess'[x].todo
               PROVE  base'[u].status = "active"
    BY DEF TodoActive
  <2>1. sess[x].mode = "sweep" /\ u \in sess[x].todo /\ u \in Tokens
    BY <1>1 DEF RInv, IInv, TypeOK, Session
  <2>2. u # t /\ base[u].status = "active"
    BY <1>1, <2>1, SweepAssumption DEF RInv, IInv, TodoLocked, RowInv, TodoActive
  <2> QED
    BY <1>3, <2>1, <2>2
<1>8. StepKind'
  BY <1>1 DEF StepKind, RInv, RowInv
<1> QED
  BY <1>5, <1>6, <1>7, <1>8 DEF RowInv

\* Every step preserves the invariant.
LEMMA RInvStep ==
  ASSUME RInv, [Next]_vars
  PROVE  RInv'
<1>1. IInv'
  BY IInvStep DEF RInv
<1>2. CASE UNCHANGED vars
  <2>1. RowInv'
    BY <1>2 DEF vars, RInv, RowInv, FreeIsCommitted, LockedIsPlain, TodoActive, FreshPlain,
                StepKind, Plain
  <2> QED
    BY <1>1, <2>1 DEF RInv
<1>3. ASSUME NEW s \in Sessions, Step(s) \/ Open(s) \/ Crash(s)
      PROVE  RowInv'
  BY <1>3, ClaimRows, EnterRows, DropRows, AdvanceRows, TerminateRows, KillTokenRows,
     DriveMoveRows, DriveLockRows, EndRows DEF Step, Open
<1>4. CASE Next
  BY <1>1, <1>3, <1>4, ResumeRows DEF Next, RInv
<1> QED
  BY <1>2, <1>4

----------------------------------------------------------------------------
(***************************************************************************)
(* The refinement.  A session takes a run in Enter or Drive, gives it up   *)
(* in a KillToken that rolls its own savepoint back, and leaves all its    *)
(* runs in Commit or Crash; the reaper wakes; every other step changes     *)
(* neither an advisory lock nor a committed row.                           *)
(***************************************************************************)
\* The lock of a run is taken only when it is free, or is the session's own.
LEMMA TakeStep ==
  ASSUME RInv, NEW s \in Sessions, NEW r \in Runs, adv[r] \in {NoSession, s},
         adv' = [adv EXCEPT ![r] = s], base' = base
  PROVE  [Owned!Next]_(Owned!vars)
<1>1. CASE adv[r] = NoSession
  <2>1. Owned!Take(s, r)
    BY <1>1 DEF Owned!Take
  <2> QED
    BY <2>1 DEF Owned!Next
<1>2. CASE adv[r] = s
  <2>1. adv' = adv
    BY <1>2 DEF RInv, IInv, TypeOK
  <2> QED
    BY <2>1 DEF Owned!vars
<1> QED
  BY <1>1, <1>2

\* A failed token gives up at most the run it is of.
LEMMA GiveUpStep ==
  ASSUME RInv, NEW s \in Sessions, NEW t \in Tokens, KillToken(s, t)
  PROVE  [Owned!Next]_(Owned!vars)
<1>1. /\ sess[s].cur = t /\ base' = base
      /\ adv' = IF sess[s].fresh THEN [adv EXCEPT ![RunOf[t]] = NoSession] ELSE adv
  BY DEF KillToken, Inside
<1>2. adv[RunOf[t]] = s /\ RunOf[t] \in Runs
  BY <1>1, SweepAssumption DEF RInv, IInv, CurLocked
<1>3. CASE sess[s].fresh
  <2>1. Owned!GiveUp(s, RunOf[t])
    BY <1>1, <1>2, <1>3 DEF Owned!GiveUp
  <2> QED
    BY <1>2, <2>1 DEF Owned!Next
<1>4. CASE ~sess[s].fresh
  BY <1>1, <1>4 DEF Owned!vars
<1> QED
  BY <1>3, <1>4

\* What a transaction publishes is of its own runs, or a death.
LEMMA LeaveStep ==
  ASSUME RInv, NEW s \in Sessions, Commit(s) \/ Crash(s)
  PROVE  [Owned!Next]_(Owned!vars)
<1>1. adv' = [r \in Runs |-> IF adv[r] = s THEN NoSession ELSE adv[r]]
  BY DEF Commit, Crash, EndTx
<1>2. base' \in [Tokens -> Owned!Rows]
  BY DEF Commit, Crash, RInv, IInv, TypeOK, Rows, Statuses, Owned!Rows
<1>3. ASSUME NEW t \in Tokens, base'[t] # base[t]
      PROVE  adv[RunOf[t]] = s \/ base'[t] = [base[t] EXCEPT !.status = "dead"]
  <2>1. Commit(s)
    BY <1>3 DEF Crash
  <2>2. owner[t] = s /\ base'[t] = row[t]
    BY <1>3, <2>1 DEF Commit
  <2>3. adv[RunOf[t]] = s \/ Plain(s, t)
    BY <2>2 DEF RInv, RowInv, LockedIsPlain
  <2>4. sess[s].todo = {} /\ sess[s].cur = NoToken
    BY <2>1 DEF Commit, Between
  <2>5. t \notin sess[s].todo \cup {sess[s].cur}
    BY <2>4, SweepAssumption
  <2> QED
    BY <1>3, <2>2, <2>3, <2>5 DEF Plain, With
<1>4. Owned!Leave(s)
  BY <1>1, <1>2, <1>3 DEF Owned!Leave
<1> QED
  BY <1>4 DEF Owned!Next

\* The reaper wakes a committed row that waits.
LEMMA WakeStep ==
  ASSUME NEW t \in Tokens, Resume(t)
  PROVE  [Owned!Next]_(Owned!vars)
<1>1. Owned!Wake(t)
  BY DEF Resume, Owned!Wake
<1> QED
  BY <1>1 DEF Owned!Next

\* Every step of the sessions is a step of the owners, or none.
LEMMA RefineStep ==
  ASSUME RInv, [Next]_vars
  PROVE  [Owned!Next]_(Owned!vars)
<1>1. CASE UNCHANGED vars
  BY <1>1 DEF vars, Owned!vars
<1>2. ASSUME NEW s \in Sessions, NEW t \in Tokens, Enter(s, t)
      PROVE  [Owned!Next]_(Owned!vars)
  <2>1. RunOf[t] \in Runs /\ adv[RunOf[t]] \in {NoSession, s} /\ base' = base
        /\ adv' = [adv EXCEPT ![RunOf[t]] = s]
    BY <1>2, SweepAssumption DEF Enter
  <2> QED
    BY <2>1, TakeStep
<1>3. ASSUME NEW s \in Sessions, NEW r \in Runs, Drive(s, r)
      PROVE  [Owned!Next]_(Owned!vars)
  BY <1>3, TakeStep DEF Drive
<1>4. ASSUME NEW s \in Sessions, NEW t \in Tokens,
             \/ Release(s, t) \/ SkipKilled(s, t) \/ Terminate(s, t)
             \/ DriveNext(s, t) \/ DriveLock(s, t)
             \/ \E status \in {"active", "waiting", "completed"} : Advance(s, t, status)
      PROVE  UNCHANGED <<adv, base>>
  BY <1>4 DEF Release, SkipKilled, Terminate, DriveNext, DriveLock, Advance
<1>5. ASSUME NEW s \in Sessions, Claim(s) \/ \E r \in Runs : DrivePass(s, r)
      PROVE  UNCHANGED <<adv, base>>
  BY <1>5 DEF Claim, DrivePass
<1>6. UNCHANGED <<adv, base>> => UNCHANGED Owned!vars
  BY DEF Owned!vars
<1>7. ASSUME NEW s \in Sessions, Step(s) \/ Open(s) \/ Crash(s)
      PROVE  [Owned!Next]_(Owned!vars)
  BY <1>2, <1>3, <1>4, <1>5, <1>6, <1>7, GiveUpStep, LeaveStep DEF Step, Open
<1>8. CASE Next
  BY <1>7, <1>8, WakeStep DEF Next
<1> QED
  BY <1>1, <1>8

\* The locks of the sweep implement one owner per run, for any number of
\* sessions, runs and tokens: a committed row changes when the owner of its run
\* ends its transaction, when the reaper wakes it or when its token dies.
THEOREM SweepImplementsOwner == Spec => OwnersSerialise
<1>1. Init => Owned!Init
  <2> SUFFICES ASSUME Init PROVE Owned!Init
    OBVIOUS
  <2>1. adv = [r \in Runs |-> NoSession]
    BY DEF Init
  <2>2. base \in [Tokens -> Owned!Rows]
    BY DEF Init, Owned!Rows
  <2> QED
    BY <2>1, <2>2 DEF Owned!Init
<1> QED
  BY <1>1, InitRInv, RInvStep, RefineStep, PTL DEF Spec, OwnersSerialise, Owned!Spec

----------------------------------------------------------------------------
(***************************************************************************)
(* EntityCatalog.  Ids are given out once, so a row, a column and a key    *)
(* that have the same id belong together; what a request checked is what   *)
(* it will write; and each physical object has its row.                    *)
(***************************************************************************)
DefRow == [id : Nat, slug : Slugs]
FieldRow == [id : Nat \X Slugs, def : Nat, slug : Slugs]
RelRow == [id : Nat, source : Nat, target : Nat, slug : Slugs, card : {"many_to_one", "many_to_many"}]

\* What a request has passed its checks for.
DefinitionTx == [op : {"definition"}, id : Nat, slug : Slugs, fields : SUBSET Slugs]
FieldTx == [op : {"field"}, id : Nat, def : Nat, slug : Slugs]
RelationshipTx == [op : {"relationship"}, id : Nat, source : Nat, target : Nat, slug : Slugs, card : {"many_to_one", "many_to_many"}]
DropFieldTx == [op : {"drop_field"}, row : FieldRow]
DropDefinitionTx == [op : {"drop_definition"}, def : Nat, incoming : SUBSET RelRow]
DropOrgTx == [op : {"drop_org"}, names : SUBSET Nat]
Requested == {NoRequest} \cup DefinitionTx \cup FieldTx \cup RelationshipTx \cup DropFieldTx \cup DropDefinitionTx \cup DropOrgTx

CatalogTypes ==
  /\ org \in BOOLEAN /\ next \in Nat
  /\ defs \subseteq DefRow /\ fields \subseteq FieldRow /\ rels \subseteq RelRow
  /\ tables \subseteq Nat
  /\ tx \in [Requests -> Requested]
  /\ crossed \subseteq Requests

\* The requests that were given an id.
Makes(p) == tx[p].op \in {"definition", "field", "relationship"}

\* An id is given out once: to one row, or to a request that has not written yet.
IdsGiven ==
  /\ \A d \in defs : d.id < next
  /\ \A r \in rels : r.id < next
  /\ \A f \in fields : f.id[1] < next
  /\ \A p \in Requests : Makes(p) => tx[p].id < next
IdsUnique ==
  /\ \A d, e \in defs : d.id = e.id => d = e
  /\ \A r, s \in rels : r.id = s.id => r = s
  /\ \A f, g \in fields : f.id = g.id => f = g
  /\ \A d \in defs, r \in rels : d.id # r.id
  /\ \A f \in fields, r \in rels : f.id[1] # r.id
IdsAhead ==
  /\ \A p \in Requests : Makes(p) => /\ \A d \in defs : d.id # tx[p].id
                                     /\ \A r \in rels : r.id # tx[p].id
                                     /\ \A f \in fields : f.id[1] # tx[p].id
  /\ \A p, q \in Requests : Makes(p) /\ Makes(q) /\ tx[p].id = tx[q].id => p = q

\* Rows refer to rows that are there.
Referred ==
  /\ \A f \in fields : \E d \in defs : d.id = f.def
  /\ \A r \in rels : (\E d \in defs : d.id = r.source) /\ (\E d \in defs : d.id = r.target)

\* The physical objects, one by one.
TablesFit ==
  /\ \A d \in defs : d.id \in tables
  /\ \A r \in rels : ~ToOne(r) => r.id \in tables
  /\ \A t \in tables : (\E d \in defs : d.id = t) \/ (\E r \in rels : ~ToOne(r) /\ r.id = t)
FieldCol(f) == [table |-> f.def, col |-> f.id]
RelCol(r) == [table |-> r.source, col |-> Col(r)]
ColsFit ==
  /\ \A f \in fields : FieldCol(f) \in cols
  /\ \A r \in rels : ToOne(r) => RelCol(r) \in cols
  /\ \A c \in cols : (\E f \in fields : c = FieldCol(f)) \/ (\E r \in rels : ToOne(r) /\ c = RelCol(r))
\* A foreign key is that of a relationship: its column, or a column of its join table.
KeysFit == \A k \in fks : \E r \in rels :
  \/ ToOne(r) /\ k.table = r.source /\ k.col = Col(r) /\ k.to = r.target
  \/ ~ToOne(r) /\ k.table = r.id /\ k.to \in {r.source, r.target}

\* What a request read when it passed its checks.
ReadRight == \A p \in Requests :
  /\ tx[p].op = "drop_definition" => \A r \in tx[p].incoming : r.target = tx[p].def
  /\ tx[p].op = "drop_org" /\ p \notin crossed => tx[p].names = tables

\* Nothing is left of an organisation that is gone, nor can be made in it.
OrgGone == ~org => defs = {} /\ fields = {} /\ rels = {} /\ (tables = {} \/ crossed # {})

CatalogInv ==
  /\ CatalogTypes /\ IdsGiven /\ IdsUnique /\ IdsAhead /\ OrgGone
  /\ (org => Referred /\ TablesFit /\ ColsFit /\ KeysFit /\ ReadRight)

\* What a request has is that of its kind.
LEMMA Kinds ==
  ASSUME NEW t \in Requested
  PROVE  /\ t.op \in {"idle", "definition", "field", "relationship", "drop_field", "drop_definition", "drop_org"}
         /\ t.op = "definition" => t \in DefinitionTx
         /\ t.op = "field" => t \in FieldTx
         /\ t.op = "relationship" => t \in RelationshipTx
         /\ t.op = "drop_field" => t \in DropFieldTx
         /\ t.op = "drop_definition" => t \in DropDefinitionTx
         /\ t.op = "drop_org" => t \in DropOrgTx
<1>1. CASE t = NoRequest
  BY <1>1 DEF NoRequest
<1>2. CASE t \in DefinitionTx
  BY <1>2 DEF DefinitionTx
<1>3. CASE t \in FieldTx
  BY <1>3 DEF FieldTx
<1>4. CASE t \in RelationshipTx
  BY <1>4 DEF RelationshipTx
<1>5. CASE t \in DropFieldTx
  BY <1>5 DEF DropFieldTx
<1>6. CASE t \in DropDefinitionTx
  BY <1>6 DEF DropDefinitionTx
<1>7. CASE t \in DropOrgTx
  BY <1>7 DEF DropOrgTx
<1> QED BY <1>1, <1>2, <1>3, <1>4, <1>5, <1>6, <1>7 DEF Requested

\* A request that passes its checks: no row changes, and an id it is given is the next one.
LEMMA CheckKeeps ==
  ASSUME CatalogInv, NEW p \in Requests, NEW t \in Requested, Check(p, t),
         next' \in {next, next + 1},
         t.op \in {"definition", "field", "relationship"} => t.id = next /\ next' = next + 1,
         t.op = "drop_definition" => \A r \in t.incoming : r.target = t.def,
         t.op = "drop_org" => t.names = tables
  PROVE  CatalogInv'
<1> USE DEF CatalogInv
<1>1. /\ org /\ tx' = [tx EXCEPT ![p] = t] /\ crossed' = crossed \ {p}
      /\ UNCHANGED <<org, defs, fields, rels, tables, cols, fks>>
  BY DEF Check, rows
<1>2. CatalogTypes'
  BY <1>1 DEF CatalogTypes
<1>3. \A q \in Requests : tx'[q] = IF q = p THEN t ELSE tx[q]
  BY <1>1 DEF CatalogTypes
<1>4. IdsGiven' /\ IdsUnique'
  <2>1. next \in Nat /\ defs \subseteq DefRow /\ rels \subseteq RelRow /\ fields \subseteq FieldRow
    BY DEF CatalogTypes
  <2>2. \A q \in Requests : Makes(q)' => tx'[q].id < next'
    <3> SUFFICES ASSUME NEW q \in Requests, Makes(q)' PROVE tx'[q].id < next'
      OBVIOUS
    <3>1. CASE q = p
      BY <1>3, <2>1, <3>1 DEF Makes
    <3>2. CASE q # p
      <4>1. Makes(q) /\ tx[q] \in Requested
        BY <1>3, <3>2 DEF Makes, CatalogTypes
      <4>2. tx[q].id \in Nat
        BY <4>1, Kinds DEF Makes, DefinitionTx, FieldTx, RelationshipTx
      <4> QED BY <1>3, <2>1, <3>2, <4>1, <4>2 DEF IdsGiven
    <3> QED BY <3>1, <3>2
  <2> QED BY <1>1, <2>1, <2>2 DEF IdsGiven, IdsUnique, DefRow, RelRow, FieldRow
<1>5. IdsAhead'
  <2>1. \A q \in Requests : q # p => (Makes(q)' <=> Makes(q)) /\ tx'[q] = tx[q]
    BY <1>3 DEF Makes
  <2>2. ASSUME Makes(p)' PROVE tx'[p].id = next
    BY <1>3, <2>2 DEF Makes
  <2>3. /\ \A d \in defs : d.id # next
        /\ \A r \in rels : r.id # next
        /\ \A f \in fields : f.id[1] # next
        /\ \A q \in Requests : Makes(q) => tx[q].id # next
    BY DEF IdsGiven, CatalogTypes
  <2> QED BY <1>1, <2>1, <2>2, <2>3 DEF IdsAhead
<1>6. OrgGone' /\ Referred' /\ TablesFit'
  BY <1>1 DEF OrgGone, Referred, TablesFit, ToOne
<1>7. ColsFit' /\ KeysFit'
  BY <1>1 DEF ColsFit, KeysFit, ToOne, FieldCol, RelCol, Col
<1>8. ReadRight'
  BY <1>1, <1>3 DEF ReadRight
<1> QED BY <1>2, <1>4, <1>5, <1>6, <1>7, <1>8

\* A request that commits has nothing more to write, and was met by all the others.
Commits(p) ==
  /\ tx' = [tx EXCEPT ![p] = NoRequest]
  /\ crossed' = crossed \cup {q \in Requests \ {p} : tx[q].op # "idle"}
  /\ next' = next

\* What a commit does to the requests that go on.
LEMMA CommitLeaves ==
  ASSUME CatalogTypes, NEW p \in Requests, Commits(p)
  PROVE  /\ tx' \in [Requests -> Requested] /\ crossed' \subseteq Requests
         /\ \A q \in Requests : Makes(q)' => q # p /\ Makes(q) /\ tx'[q] = tx[q]
         /\ ReadRight => ReadRight'
<1>1. \A q \in Requests : tx'[q] = IF q = p THEN NoRequest ELSE tx[q]
  BY DEF Commits, CatalogTypes
<1>2. tx' \in [Requests -> Requested] /\ crossed' \subseteq Requests
  BY DEF Commits, CatalogTypes, Requested
<1>3. NoRequest.op = "idle"
  BY DEF NoRequest
<1>4. \A q \in Requests : q # p /\ tx[q].op = "drop_org" => q \in crossed'
  BY DEF Commits
<1>5. ReadRight => ReadRight'
  BY <1>1, <1>3, <1>4 DEF ReadRight
<1> QED BY <1>1, <1>2, <1>3, <1>5 DEF Makes

LEMMA CreateDefinitionKeeps ==
  ASSUME CatalogInv, NEW p \in Requests, tx[p].op = "definition", CreateDefinition(tx[p]), Commits(p)
  PROVE  CatalogInv'
<1> USE DEF CatalogInv
<1>t. tx[p] \in DefinitionTx /\ tx[p] \in Requested
  BY Kinds DEF CatalogTypes
<1>c. /\ tx' \in [Requests -> Requested] /\ crossed' \subseteq Requests
      /\ \A q \in Requests : Makes(q)' => q # p /\ Makes(q) /\ tx'[q] = tx[q]
      /\ (org => ReadRight')
  BY CommitLeaves
<1> DEFINE t == tx[p]
           d0 == [id |-> t.id, slug |-> t.slug]
           F0 == {[id |-> <<t.id, x>>, def |-> t.id, slug |-> x] : x \in t.fields}
<1>a. /\ defs' = defs \cup {d0} /\ fields' = fields \cup F0 /\ tables' = tables \cup {t.id}
      /\ cols' = cols \cup {[table |-> t.id, col |-> <<t.id, x>>] : x \in t.fields}
      /\ org /\ org' = org /\ rels' = rels /\ fks' = fks
  BY DEF CreateDefinition
<1>b. d0 \in DefRow /\ F0 \subseteq FieldRow /\ t.id \in Nat
  BY <1>t DEF DefinitionTx, DefRow, FieldRow
<1>d. Makes(p)
  BY DEF Makes
<1>1. CatalogTypes'
  BY <1>a, <1>b, <1>c DEF CatalogTypes, Commits
<1>2. IdsGiven'
  BY <1>t, <1>c DEF CreateDefinition, CatalogTypes, IdsGiven, Commits, Makes, Col, DefinitionTx, DefRow, FieldRow, RelRow
<1>3. IdsUnique'
  BY <1>t, <1>c DEF CreateDefinition, CatalogTypes, IdsUnique, IdsAhead, Makes, Col, DefinitionTx, DefRow, FieldRow, RelRow
<1>4. IdsAhead'
  BY <1>t, <1>c DEF CreateDefinition, CatalogTypes, IdsAhead, Makes, Col, DefinitionTx, DefRow, FieldRow, RelRow
<1>5. OrgGone'
  BY <1>t, <1>c DEF CreateDefinition, CatalogTypes, OrgGone, Commits, DefinitionTx
<1>6. org' => Referred'
  <2>1. \A d \in defs : d \in defs'
    BY <1>a
  <2>2. d0 \in defs' /\ d0.id = t.id
    BY <1>a
  <2>3. \A f \in F0 : f.def = t.id
    OBVIOUS
  <2>4. Referred
    BY <1>a
  <2> HIDE DEF F0, d0, t
  <2> QED BY <1>a, <2>1, <2>2, <2>3, <2>4 DEF Referred
<1>7. org' => TablesFit'
  <2>1. TablesFit
    BY <1>a
  <2>2. d0.id = t.id
    OBVIOUS
  <2> HIDE DEF F0, d0, t
  <2> QED BY <1>a, <2>1, <2>2 DEF TablesFit, ToOne
<1>8. org' => ColsFit'
  <2>1. ColsFit
    BY <1>a
  <2>2. \A f \in F0 : FieldCol(f) \in {[table |-> t.id, col |-> <<t.id, x>>] : x \in t.fields}
    BY DEF FieldCol
  <2>3. \A c \in {[table |-> t.id, col |-> <<t.id, x>>] : x \in t.fields} : \E f \in F0 : c = FieldCol(f)
    <3> SUFFICES ASSUME NEW x \in t.fields PROVE \E f \in F0 : [table |-> t.id, col |-> <<t.id, x>>] = FieldCol(f)
      OBVIOUS
    <3> DEFINE f0 == [id |-> <<t.id, x>>, def |-> t.id, slug |-> x]
    <3>1. f0 \in F0 /\ FieldCol(f0) = [table |-> t.id, col |-> <<t.id, x>>]
      BY DEF FieldCol
    <3> QED BY <3>1
  <2> HIDE DEF F0, d0
  <2> QED BY <1>a, <2>1, <2>2, <2>3 DEF ColsFit, ToOne, RelCol, Col
<1>9. org' => KeysFit'
  BY <1>t, <1>c DEF CreateDefinition, CatalogTypes, KeysFit, IdsUnique, IdsAhead, Makes, Col, ToOne, DefinitionTx, DefRow, FieldRow, RelRow
<1>10. org' => ReadRight'
  BY <1>c DEF CreateDefinition, OrgGone
<1> QED BY <1>1, <1>2, <1>3, <1>4, <1>5, <1>6, <1>7, <1>8, <1>9, <1>10

LEMMA AddFieldKeeps ==
  ASSUME CatalogInv, NEW p \in Requests, tx[p].op = "field", AddField(tx[p]), Commits(p)
  PROVE  CatalogInv'
<1> USE DEF CatalogInv
<1>t. tx[p] \in FieldTx /\ tx[p] \in Requested
  BY Kinds DEF CatalogTypes
<1>c. /\ tx' \in [Requests -> Requested] /\ crossed' \subseteq Requests
      /\ \A q \in Requests : Makes(q)' => q # p /\ Makes(q) /\ tx'[q] = tx[q]
      /\ (org => ReadRight')
  BY CommitLeaves
<1>1. CatalogTypes'
  BY <1>t, <1>c DEF AddField, Ids, Of, CatalogTypes, Commits, Col, FieldTx, DefRow, FieldRow, RelRow
<1>2. IdsGiven'
  BY <1>t, <1>c DEF AddField, Ids, Of, CatalogTypes, IdsGiven, Commits, Makes, Col, FieldTx, DefRow, FieldRow, RelRow
<1>3. IdsUnique'
  BY <1>t, <1>c DEF AddField, Ids, Of, CatalogTypes, IdsUnique, IdsAhead, Makes, Col, FieldTx, DefRow, FieldRow, RelRow
<1>4. IdsAhead'
  BY <1>t, <1>c DEF AddField, Ids, Of, CatalogTypes, IdsAhead, Makes, Col, FieldTx, DefRow, FieldRow, RelRow
<1>5. OrgGone'
  BY <1>t, <1>c DEF AddField, Ids, Of, CatalogTypes, OrgGone, Commits, FieldTx
<1>6. org' => Referred'
  BY <1>t, <1>c DEF AddField, Ids, Of, CatalogTypes, Referred, FieldTx, DefRow, FieldRow, RelRow
<1>7. org' => TablesFit'
  BY <1>t, <1>c DEF AddField, Ids, Of, CatalogTypes, TablesFit, IdsUnique, IdsAhead, Makes, ToOne, FieldTx, DefRow, FieldRow, RelRow
<1>8. org' => ColsFit'
  <2> DEFINE f0 == [id |-> Col(tx[p]), def |-> tx[p].def, slug |-> tx[p].slug]
  <2>1. /\ fields' = fields \cup {f0} /\ cols' = cols \cup {[table |-> tx[p].def, col |-> Col(tx[p])]}
        /\ rels' = rels /\ org' = org
    BY DEF AddField
  <2>2. FieldCol(f0) = [table |-> tx[p].def, col |-> Col(tx[p])]
    BY DEF FieldCol
  <2> HIDE DEF f0
  <2> QED BY <2>1, <2>2 DEF ColsFit, ToOne, RelCol, Col
<1>9. org' => KeysFit'
  BY <1>t, <1>c DEF AddField, Ids, Of, CatalogTypes, KeysFit, IdsUnique, IdsAhead, Makes, Col, ToOne, FieldTx, DefRow, FieldRow, RelRow
<1>10. org' => ReadRight'
  BY <1>c DEF AddField, Ids, Of, OrgGone
<1> QED BY <1>1, <1>2, <1>3, <1>4, <1>5, <1>6, <1>7, <1>8, <1>9, <1>10

LEMMA AddToOneKeeps ==
  ASSUME CatalogInv, NEW p \in Requests, tx[p].op = "relationship", AddRelationship(tx[p]), ToOne(tx[p]), Commits(p)
  PROVE  CatalogInv'
<1> USE DEF CatalogInv
<1>t. tx[p] \in RelationshipTx /\ tx[p] \in Requested
  BY Kinds DEF CatalogTypes
<1>c. /\ tx' \in [Requests -> Requested] /\ crossed' \subseteq Requests
      /\ \A q \in Requests : Makes(q)' => q # p /\ Makes(q) /\ tx'[q] = tx[q]
      /\ (org => ReadRight')
  BY CommitLeaves
<1> DEFINE t == tx[p]
           r0 == [id |-> t.id, source |-> t.source, target |-> t.target, slug |-> t.slug, card |-> t.card]
<1>a. /\ rels' = rels \cup {r0} /\ org' = org /\ defs' = defs /\ fields' = fields
      /\ \E d \in defs : d.id = t.source
      /\ \E d \in defs : d.id = t.target
      /\ tables' = tables /\ cols' = cols \cup {RelCol(r0)}
      /\ fks' = fks \cup {[table |-> t.source, col |-> Col(r0), to |-> t.target]}
  BY DEF AddRelationship, AddFkColumn, Ids, RelCol, Col
<1>b. r0 \in RelRow /\ t.id \in Nat /\ ToOne(r0) /\ r0.id = t.id /\ r0.source = t.source /\ r0.target = t.target
  BY <1>t DEF RelationshipTx, RelRow, ToOne
<1>1. CatalogTypes'
  BY <1>a, <1>b, <1>c DEF CatalogTypes, Commits
<1>2. IdsGiven'
  BY <1>t, <1>c DEF AddRelationship, AddFkColumn, Ids, From, CatalogTypes, IdsGiven, Commits, Makes, Col, RelationshipTx, DefRow, FieldRow, RelRow
<1>3. IdsUnique'
  BY <1>t, <1>c DEF AddRelationship, AddFkColumn, Ids, From, CatalogTypes, IdsUnique, IdsAhead, Makes, Col, RelationshipTx, DefRow, FieldRow, RelRow
<1>4. IdsAhead'
  BY <1>t, <1>c DEF AddRelationship, AddFkColumn, Ids, From, CatalogTypes, IdsAhead, Makes, Col, RelationshipTx, DefRow, FieldRow, RelRow
<1>5. OrgGone'
  BY <1>t, <1>c DEF AddRelationship, AddFkColumn, Ids, From, CatalogTypes, OrgGone, Commits, RelationshipTx
<1>6. org' => Referred'
  BY <1>t, <1>c DEF AddRelationship, AddFkColumn, Ids, From, CatalogTypes, Referred, RelationshipTx, DefRow, FieldRow, RelRow
<1>7. org' => TablesFit'
  <2> HIDE DEF r0, t
  <2> QED BY <1>a, <1>b DEF TablesFit
<1>8. org' => ColsFit'
  <2> HIDE DEF r0, t
  <2> QED BY <1>a, <1>b DEF ColsFit
<1>9. org' => KeysFit'
  <2>1. \A k \in fks' \ fks : \/ ToOne(r0) /\ k.table = r0.source /\ k.col = Col(r0) /\ k.to = r0.target
                              \/ ~ToOne(r0) /\ k.table = r0.id /\ k.to \in {r0.source, r0.target}
    BY <1>a, <1>b
  <2> HIDE DEF r0, t
  <2> QED BY <1>a, <2>1 DEF KeysFit
<1>10. org' => ReadRight'
  BY <1>c DEF AddRelationship, AddFkColumn, Ids, From, OrgGone
<1> QED BY <1>1, <1>2, <1>3, <1>4, <1>5, <1>6, <1>7, <1>8, <1>9, <1>10

LEMMA AddJoinKeeps ==
  ASSUME CatalogInv, NEW p \in Requests, tx[p].op = "relationship", AddRelationship(tx[p]), ~ToOne(tx[p]), Commits(p)
  PROVE  CatalogInv'
<1> USE DEF CatalogInv
<1>t. tx[p] \in RelationshipTx /\ tx[p] \in Requested
  BY Kinds DEF CatalogTypes
<1>c. /\ tx' \in [Requests -> Requested] /\ crossed' \subseteq Requests
      /\ \A q \in Requests : Makes(q)' => q # p /\ Makes(q) /\ tx'[q] = tx[q]
      /\ (org => ReadRight')
  BY CommitLeaves
<1> DEFINE t == tx[p]
           r0 == [id |-> t.id, source |-> t.source, target |-> t.target, slug |-> t.slug, card |-> t.card]
<1>a. /\ rels' = rels \cup {r0} /\ org' = org /\ defs' = defs /\ fields' = fields
      /\ \E d \in defs : d.id = t.source
      /\ \E d \in defs : d.id = t.target
      /\ tables' = tables \cup {t.id} /\ cols' = cols
      /\ fks' = fks \cup {[table |-> t.id, col |-> <<t.id, "source_id">>, to |-> t.source], [table |-> t.id, col |-> <<t.id, "target_id">>, to |-> t.target]}
  BY DEF AddRelationship, CreateJoinTable, Ids
<1>b. r0 \in RelRow /\ t.id \in Nat /\ ~ToOne(r0) /\ r0.id = t.id /\ r0.source = t.source /\ r0.target = t.target
  BY <1>t DEF RelationshipTx, RelRow, ToOne
<1>1. CatalogTypes'
  BY <1>a, <1>b, <1>c DEF CatalogTypes, Commits
<1>2. IdsGiven'
  BY <1>t, <1>c DEF AddRelationship, CreateJoinTable, Ids, From, CatalogTypes, IdsGiven, Commits, Makes, Col, RelationshipTx, DefRow, FieldRow, RelRow
<1>3. IdsUnique'
  BY <1>t, <1>c DEF AddRelationship, CreateJoinTable, Ids, From, CatalogTypes, IdsUnique, IdsAhead, Makes, Col, RelationshipTx, DefRow, FieldRow, RelRow
<1>4. IdsAhead'
  BY <1>t, <1>c DEF AddRelationship, CreateJoinTable, Ids, From, CatalogTypes, IdsAhead, Makes, Col, RelationshipTx, DefRow, FieldRow, RelRow
<1>5. OrgGone'
  BY <1>t, <1>c DEF AddRelationship, CreateJoinTable, Ids, From, CatalogTypes, OrgGone, Commits, RelationshipTx
<1>6. org' => Referred'
  BY <1>t, <1>c DEF AddRelationship, CreateJoinTable, Ids, From, CatalogTypes, Referred, RelationshipTx, DefRow, FieldRow, RelRow
<1>7. org' => TablesFit'
  <2> HIDE DEF r0, t
  <2> QED BY <1>a, <1>b DEF TablesFit
<1>8. org' => ColsFit'
  <2> HIDE DEF r0, t
  <2> QED BY <1>a, <1>b DEF ColsFit
<1>9. org' => KeysFit'
  <2>1. \A k \in fks' \ fks : \/ ToOne(r0) /\ k.table = r0.source /\ k.col = Col(r0) /\ k.to = r0.target
                              \/ ~ToOne(r0) /\ k.table = r0.id /\ k.to \in {r0.source, r0.target}
    BY <1>a, <1>b
  <2> HIDE DEF r0, t
  <2> QED BY <1>a, <2>1 DEF KeysFit
<1>10. org' => ReadRight'
  BY <1>c DEF AddRelationship, CreateJoinTable, Ids, From, OrgGone
<1> QED BY <1>1, <1>2, <1>3, <1>4, <1>5, <1>6, <1>7, <1>8, <1>9, <1>10

LEMMA DropFieldKeeps ==
  ASSUME CatalogInv, NEW p \in Requests, tx[p].op = "drop_field", DropField(tx[p]), Commits(p)
  PROVE  CatalogInv'
<1> USE DEF CatalogInv
<1>t. tx[p] \in DropFieldTx /\ tx[p] \in Requested
  BY Kinds DEF CatalogTypes
<1>c. /\ tx' \in [Requests -> Requested] /\ crossed' \subseteq Requests
      /\ \A q \in Requests : Makes(q)' => q # p /\ Makes(q) /\ tx'[q] = tx[q]
      /\ (org => ReadRight')
  BY CommitLeaves
<1>1. CatalogTypes'
  BY <1>t, <1>c DEF DropField, CatalogTypes, Commits, Col, DropFieldTx, DefRow, FieldRow, RelRow
<1>2. IdsGiven'
  BY <1>t, <1>c DEF DropField, CatalogTypes, IdsGiven, Commits, Makes, Col, DropFieldTx, DefRow, FieldRow, RelRow
<1>3. IdsUnique'
  BY <1>t, <1>c DEF DropField, CatalogTypes, IdsUnique, IdsAhead, Makes, Col, DropFieldTx, DefRow, FieldRow, RelRow
<1>4. IdsAhead'
  BY <1>t, <1>c DEF DropField, CatalogTypes, IdsAhead, Makes, Col, DropFieldTx, DefRow, FieldRow, RelRow
<1>5. OrgGone'
  BY <1>t, <1>c DEF DropField, CatalogTypes, OrgGone, Commits, DropFieldTx
<1>6. org' => Referred'
  BY <1>t, <1>c DEF DropField, CatalogTypes, Referred, DropFieldTx, DefRow, FieldRow, RelRow
<1>7. org' => TablesFit'
  BY <1>t, <1>c DEF DropField, CatalogTypes, TablesFit, IdsUnique, IdsAhead, Makes, ToOne, DropFieldTx, DefRow, FieldRow, RelRow
<1>8. org' => ColsFit'
  BY <1>t, <1>c DEF DropField, CatalogTypes, ColsFit, FieldCol, RelCol, IdsUnique, IdsAhead, Makes, Col, ToOne, DropFieldTx, DefRow, FieldRow, RelRow
<1>9. org' => KeysFit'
  BY <1>t, <1>c DEF DropField, CatalogTypes, KeysFit, IdsUnique, IdsAhead, Makes, Col, ToOne, DropFieldTx, DefRow, FieldRow, RelRow
<1>10. org' => ReadRight'
  BY <1>c DEF DropField, OrgGone
<1> QED BY <1>1, <1>2, <1>3, <1>4, <1>5, <1>6, <1>7, <1>8, <1>9, <1>10

LEMMA DropDefinitionKeeps ==
  ASSUME CatalogInv, NEW p \in Requests, tx[p].op = "drop_definition", DropDefinition(tx[p]), Commits(p)
  PROVE  CatalogInv'
<1> USE DEF CatalogInv
<1>t. tx[p] \in DropDefinitionTx /\ tx[p] \in Requested
  BY Kinds DEF CatalogTypes
<1>c. /\ tx' \in [Requests -> Requested] /\ crossed' \subseteq Requests
      /\ \A q \in Requests : Makes(q)' => q # p /\ Makes(q) /\ tx'[q] = tx[q]
      /\ (org => ReadRight')
  BY CommitLeaves
<1>1. CatalogTypes'
  BY <1>t, <1>c DEF DropDefinition, Incoming, Depends, Ids, CatalogTypes, Commits, Col, DropDefinitionTx, DefRow, FieldRow, RelRow
<1>2. IdsGiven'
  BY <1>t, <1>c DEF DropDefinition, Incoming, Depends, Ids, CatalogTypes, IdsGiven, Commits, Makes, Col, DropDefinitionTx, DefRow, FieldRow, RelRow
<1>3. IdsUnique'
  BY <1>t, <1>c DEF DropDefinition, Incoming, Depends, Ids, CatalogTypes, IdsUnique, IdsAhead, Makes, Col, DropDefinitionTx, DefRow, FieldRow, RelRow
<1>4. IdsAhead'
  BY <1>t, <1>c DEF DropDefinition, Incoming, Depends, Ids, CatalogTypes, IdsAhead, Makes, Col, DropDefinitionTx, DefRow, FieldRow, RelRow
<1>5. OrgGone'
  BY <1>t, <1>c DEF DropDefinition, Incoming, Depends, Ids, CatalogTypes, OrgGone, Commits, DropDefinitionTx
<1>6. org' => Referred'
  BY <1>t, <1>c DEF DropDefinition, Incoming, Depends, Ids, CatalogTypes, Referred, DropDefinitionTx, DefRow, FieldRow, RelRow
<1>7. org' => TablesFit'
  BY <1>t, <1>c DEF DropDefinition, Incoming, Depends, Ids, CatalogTypes, TablesFit, IdsUnique, IdsAhead, Makes, ToOne, DropDefinitionTx, DefRow, FieldRow, RelRow
<1>8. org' => ColsFit'
  BY <1>t, <1>c DEF DropDefinition, Incoming, Depends, Ids, CatalogTypes, ColsFit, FieldCol, RelCol, IdsUnique, IdsAhead, Makes, Col, ToOne, DropDefinitionTx, DefRow, FieldRow, RelRow
<1>9. org' => KeysFit'
  BY <1>t, <1>c DEF DropDefinition, Incoming, Depends, Ids, CatalogTypes, KeysFit, IdsUnique, IdsAhead, Makes, Col, ToOne, DropDefinitionTx, DefRow, FieldRow, RelRow
<1>10. org' => ReadRight'
  BY <1>c DEF DropDefinition, Incoming, Depends, Ids, OrgGone
<1> QED BY <1>1, <1>2, <1>3, <1>4, <1>5, <1>6, <1>7, <1>8, <1>9, <1>10

LEMMA DropOrgKeeps ==
  ASSUME CatalogInv, NEW p \in Requests, tx[p].op = "drop_org", DropOrg(tx[p]), Commits(p)
  PROVE  CatalogInv'
<1> USE DEF CatalogInv
<1>t. tx[p] \in DropOrgTx /\ tx[p] \in Requested
  BY Kinds DEF CatalogTypes
<1>c. /\ tx' \in [Requests -> Requested] /\ crossed' \subseteq Requests
      /\ \A q \in Requests : Makes(q)' => q # p /\ Makes(q) /\ tx'[q] = tx[q]
      /\ (org => ReadRight')
  BY CommitLeaves
<1>1. CatalogTypes'
  BY <1>t, <1>c DEF DropOrg, DropTables, Depends, CatalogTypes, Commits, Col, DropOrgTx, DefRow, FieldRow, RelRow
<1>2. IdsGiven'
  BY <1>t, <1>c DEF DropOrg, DropTables, Depends, CatalogTypes, IdsGiven, Commits, Makes, Col, DropOrgTx, DefRow, FieldRow, RelRow
<1>3. IdsUnique'
  BY <1>t, <1>c DEF DropOrg, DropTables, Depends, CatalogTypes, IdsUnique, IdsAhead, Makes, Col, DropOrgTx, DefRow, FieldRow, RelRow
<1>4. IdsAhead'
  BY <1>t, <1>c DEF DropOrg, DropTables, Depends, CatalogTypes, IdsAhead, Makes, Col, DropOrgTx, DefRow, FieldRow, RelRow
<1>5. OrgGone'
  <2>1. org /\ tables' = tables \ tx[p].names /\ defs' = {} /\ fields' = {} /\ rels' = {}
    BY DEF DropOrg, DropTables
  <2>2. p \notin crossed => tx[p].names = tables
    BY <2>1 DEF ReadRight
  <2>3. p \in crossed => crossed' # {}
    BY DEF Commits
  <2> QED BY <2>1, <2>2, <2>3 DEF OrgGone
<1>6. org' => Referred'
  BY <1>t, <1>c DEF DropOrg, DropTables, Depends, CatalogTypes, Referred, DropOrgTx, DefRow, FieldRow, RelRow
<1>7. org' => TablesFit'
  BY <1>t, <1>c DEF DropOrg, DropTables, Depends, CatalogTypes, TablesFit, IdsUnique, IdsAhead, Makes, ToOne, DropOrgTx, DefRow, FieldRow, RelRow
<1>8. org' => ColsFit'
  BY <1>t, <1>c DEF DropOrg, DropTables, Depends, CatalogTypes, ColsFit, FieldCol, RelCol, IdsUnique, IdsAhead, Makes, Col, ToOne, DropOrgTx, DefRow, FieldRow, RelRow
<1>9. org' => KeysFit'
  BY <1>t, <1>c DEF DropOrg, DropTables, Depends, CatalogTypes, KeysFit, IdsUnique, IdsAhead, Makes, Col, ToOne, DropOrgTx, DefRow, FieldRow, RelRow
<1>10. org' => ReadRight'
  BY <1>c DEF DropOrg, DropTables, Depends, OrgGone
<1> QED BY <1>1, <1>2, <1>3, <1>4, <1>5, <1>6, <1>7, <1>8, <1>9, <1>10

LEMMA CommitKeeps ==
  ASSUME CatalogInv, NEW p \in Requests, CommitRequest(p)
  PROVE  CatalogInv'
<1>1. Write(tx[p]) /\ Commits(p)
  BY DEF CommitRequest, Commits
<1> QED BY <1>1, CreateDefinitionKeeps, AddFieldKeeps, AddToOneKeeps, AddJoinKeeps, DropFieldKeeps, DropDefinitionKeeps, DropOrgKeeps DEF Write

\* The database takes nothing over from a request that it aborts.
LEMMA AbortKeeps ==
  ASSUME CatalogInv, NEW p \in Requests, Abort(p)
  PROVE  CatalogInv'
<1> USE DEF CatalogInv
<1>1. tx' = [tx EXCEPT ![p] = NoRequest] /\ UNCHANGED <<org, defs, fields, rels, tables, cols, fks, next, crossed>>
  BY DEF Abort, rows
<1>2. \A q \in Requests : tx'[q] = IF q = p THEN NoRequest ELSE tx[q]
  BY <1>1 DEF CatalogTypes
<1>3. NoRequest.op = "idle" /\ NoRequest \in Requested
  BY DEF NoRequest, Requested
<1>4. CatalogTypes'
  BY <1>1, <1>3 DEF CatalogTypes
<1>5. \A q \in Requests : Makes(q)' => Makes(q) /\ tx'[q] = tx[q]
  BY <1>2, <1>3 DEF Makes
<1>6. IdsGiven' /\ IdsUnique' /\ IdsAhead' /\ OrgGone'
  BY <1>1, <1>5 DEF IdsGiven, IdsUnique, IdsAhead, OrgGone
<1>7. org => Referred' /\ TablesFit' /\ ColsFit' /\ KeysFit'
  BY <1>1 DEF Referred, TablesFit, ColsFit, KeysFit, FieldCol, RelCol, Col, ToOne
<1>8. org => ReadRight'
  BY <1>1, <1>2, <1>3 DEF ReadRight
<1> QED BY <1>1, <1>4, <1>6, <1>7, <1>8

\* Every way into the service checks one of six requests.
LEMMA RequestKeeps ==
  ASSUME CatalogInv, NEW p \in Requests, RouteRequest(p) \/ ToolRequest(p) \/ CheckDropOrg(p)
  PROVE  CatalogInv'
<1>t. next \in Nat /\ defs \subseteq DefRow /\ fields \subseteq FieldRow /\ rels \subseteq RelRow /\ Ids(defs) \subseteq Nat
  BY DEF CatalogInv, CatalogTypes, Ids, DefRow
<1>1. ASSUME NEW s \in Slugs, NEW f \in {{}, {s}}, CheckDefinition(p, s, f) PROVE CatalogInv'
  <2> DEFINE t == [op |-> "definition", id |-> next, slug |-> s, fields |-> f]
  <2>1. t \in Requested
    BY <1>t DEF Requested, DefinitionTx
  <2>2. Check(p, t) /\ next' = next + 1
    BY <1>1 DEF CheckDefinition, Fresh
  <2> QED BY <2>1, <2>2, CheckKeeps
<1>2. ASSUME NEW d \in Ids(defs), NEW s \in Slugs, CheckField(p, d, s) PROVE CatalogInv'
  <2> DEFINE t == [op |-> "field", id |-> next, def |-> d, slug |-> s]
  <2>1. t \in Requested
    BY <1>t DEF Requested, FieldTx
  <2>2. Check(p, t) /\ next' = next + 1
    BY <1>2 DEF CheckField, Fresh
  <2> QED BY <2>1, <2>2, CheckKeeps
<1>3. ASSUME NEW d \in Ids(defs), NEW e \in Ids(defs), NEW s \in Slugs, NEW c \in {"many_to_one", "many_to_many"}, CheckRelationship(p, d, e, s, c)
      PROVE  CatalogInv'
  <2> DEFINE t == [op |-> "relationship", id |-> next, source |-> d, target |-> e, slug |-> s, card |-> c]
  <2>1. t \in Requested
    BY <1>t DEF Requested, RelationshipTx
  <2>2. Check(p, t) /\ next' = next + 1
    BY <1>3 DEF CheckRelationship, Fresh
  <2> QED BY <2>1, <2>2, CheckKeeps
<1>4. ASSUME NEW f \in fields, CheckDropField(p, f) PROVE CatalogInv'
  <2> DEFINE t == [op |-> "drop_field", row |-> f]
  <2>1. t \in Requested
    BY <1>t DEF Requested, DropFieldTx
  <2>2. Check(p, t) /\ next' = next
    BY <1>4 DEF CheckDropField
  <2> QED BY <2>1, <2>2, CheckKeeps
<1>5. ASSUME NEW d \in Ids(defs), NEW force \in BOOLEAN, CheckDropDefinition(p, d, force) PROVE CatalogInv'
  <2> DEFINE t == [op |-> "drop_definition", def |-> d, incoming |-> Targeting(d)]
  <2>1. t \in Requested
    BY <1>t DEF Requested, DropDefinitionTx, Targeting
  <2>2. Check(p, t) /\ next' = next
    BY <1>5 DEF CheckDropDefinition
  <2>3. \A r \in t.incoming : r.target = t.def
    BY DEF Targeting
  <2> QED BY <2>1, <2>2, <2>3, CheckKeeps
<1>6. ASSUME CheckDropOrg(p) PROVE CatalogInv'
  <2> DEFINE N == Ids(defs) \cup {r.id : r \in {r \in rels : ~ToOne(r)}}
             t == [op |-> "drop_org", names |-> N]
  <2>1. Check(p, t) /\ next' = next
    BY <1>6 DEF CheckDropOrg
  <2>2. org
    BY <2>1 DEF Check
  <2>3. N \subseteq Nat
    BY <1>t DEF RelRow
  <2>4. t \in Requested
    BY <2>3 DEF Requested, DropOrgTx
  <2>5. N = tables
    BY <2>2 DEF CatalogInv, TablesFit, Ids
  <2> HIDE DEF N
  <2> QED BY <2>1, <2>4, <2>5, CheckKeeps
<1> QED BY <1>1, <1>2, <1>3, <1>4, <1>5, <1>6 DEF RouteRequest, ToolRequest, MakeDefinition, MakeField, MakeRelationship

\* For any number of requests, entities, fields and relationships: as long as
\* the organisation is there, the tables and the columns are exactly those that
\* its rows name and every foreign key leads to a table that is there; and what
\* is left of a deleted organisation was being made when it was deleted.
THEOREM CatalogKept == CatalogSpec => [](CatalogIsPhysical /\ NoTableOutlives)
<1>1. CatalogInit => CatalogInv
  <2> SUFFICES ASSUME CatalogInit PROVE CatalogInv
    OBVIOUS
  <2> USE DEF CatalogInit
  <2>1. \A q \in Requests : tx[q].op = "idle"
    BY DEF NoRequest
  <2>2. CatalogTypes
    BY DEF CatalogTypes, Requested
  <2>3. ReadRight
    BY <2>1 DEF ReadRight
  <2>4. IdsGiven /\ IdsUnique /\ IdsAhead /\ OrgGone
    BY <2>1 DEF IdsGiven, IdsUnique, IdsAhead, OrgGone, Makes
  <2> QED BY <2>2, <2>3, <2>4 DEF CatalogInv, Referred, TablesFit, ColsFit, KeysFit
<1>2. CatalogInv /\ [CatalogNext]_catalog_vars => CatalogInv'
  <2> SUFFICES ASSUME CatalogInv, [CatalogNext]_catalog_vars PROVE CatalogInv'
    OBVIOUS
  <2>1. CASE CatalogNext
    BY <2>1, RequestKeeps, CommitKeeps, AbortKeeps DEF CatalogNext
  <2>2. CASE UNCHANGED catalog_vars
    <3> USE <2>2 DEF catalog_vars, CatalogInv
    <3>1. CatalogTypes' /\ IdsGiven' /\ IdsUnique' /\ IdsAhead' /\ OrgGone'
      BY DEF CatalogTypes, IdsGiven, IdsUnique, IdsAhead, OrgGone, Makes
    <3>2. org => Referred' /\ TablesFit' /\ ColsFit' /\ KeysFit' /\ ReadRight'
      BY DEF Referred, TablesFit, ColsFit, KeysFit, ReadRight, FieldCol, RelCol, Col, ToOne
    <3> QED BY <3>1, <3>2
  <2> QED BY <2>1, <2>2
<1>3. CatalogInv => CatalogIsPhysical /\ NoTableOutlives
  <2> SUFFICES ASSUME CatalogInv PROVE CatalogIsPhysical /\ NoTableOutlives
    OBVIOUS
  <2>1. NoTableOutlives
    BY DEF CatalogInv, OrgGone, NoTableOutlives
  <2>2. ASSUME org PROVE tables = Ids(defs) \cup {r.id : r \in {r \in rels : ~ToOne(r)}}
    BY <2>2 DEF CatalogInv, TablesFit, Ids
  <2>3. ASSUME org
        PROVE  cols = {[table |-> f.def, col |-> f.id] : f \in fields} \cup {[table |-> r.source, col |-> Col(r)] : r \in {r \in rels : ToOne(r)}}
    BY <2>3 DEF CatalogInv, ColsFit, FieldCol, RelCol
  <2>4. ASSUME org, NEW k \in fks PROVE k.to \in tables
    BY <2>4 DEF CatalogInv, KeysFit, Referred, TablesFit
  <2> QED BY <2>1, <2>2, <2>3, <2>4 DEF CatalogIsPhysical
<1> QED BY <1>1, <1>2, <1>3, PTL DEF CatalogSpec

----------------------------------------------------------------------------
(***************************************************************************)
(* KnowledgeWrite.  What overlaps here is kept apart by one row lock and   *)
(* by names: a new document's original has a key of its own, a replacement *)
(* the prefix of its hash, so no request takes away what another is served *)
(* from.                                                                   *)
(***************************************************************************)
Hashes == {v[1] : v \in Versions}
Titles == {v[2] : v \in Versions}

\* Nobody is no writer, a hash is not the empty prefix, and a key of the whole
\* organisation is not limited to folders.
WriteSetting ==
  /\ Nobody \notin Writers /\ 0 \notin Hashes /\ Keys # {} /\ \A k \in Keys : k.org => ~k.listed
  /\ Versions # {} /\ Versions \subseteq Hashes \X Titles

Objects == Nat \X (Hashes \cup {0})
Urls == Objects \cup {NoUrl}
WriteRows == [there : BOOLEAN, key : Nat \cup {Nobody}, hash : Hashes \cup {Nobody}, title : Titles \cup {Nobody},
              url : Urls, status : {"PENDING", "PROCESSING", "SUCCESS", "FAILED", "CANCELLED"},
              task : BOOLEAN, age : Nat,
              own : SUBSET Masks, edit : SUBSET Masks]
WriteRequests == [pc : {"idle", "upsert", "store", "commit", "retitle", "purge", "discard", "dispatch", "mark", "persist"},
                  n : Nat, key : Keys, hash : Hashes \cup {Nobody}, title : Titles \cup {Nobody},
                  file : BOOLEAN, new : BOOLEAN, stored : Urls, old : Urls]
Jobs == [kind : {"ingest", "title"}, n : Nat, title : Titles \cup {Nobody}, text : Hashes \cup {Nobody}, url : Urls,
         pc : {"queued", "running"}]

WriteTypes ==
  /\ doc \in WriteRows /\ req \in [Writers -> WriteRequests] /\ lock \in Writers \cup {Nobody}
  /\ obj \subseteq Objects /\ tasks \subseteq Jobs /\ index \subseteq [text : Hashes \cup {Nobody}, title : Titles \cup {Nobody}]
  /\ writes \in Nat /\ faults \in Nat /\ bare \in BOOLEAN /\ overrun \in BOOLEAN /\ strayed \in BOOLEAN

\* A request that has committed and has not yet handed on its task; one that
\* makes a document that is not there yet.
Committed(w) == req[w].pc \in {"discard", "dispatch", "mark"}
Creates(w) == req[w].pc \in {"store", "commit"} /\ lock # w

\* The row is held from the decision to the commit.
LockHeld ==
  /\ lock # Nobody => doc.there /\ req[lock].pc \in {"retitle", "purge", "store", "commit"}
  /\ \A w \in Writers : req[w].pc \in {"retitle", "purge"} => lock = w

\* A request has a number of its own, and a document keeps that of the request
\* that made it.
Numbered ==
  /\ doc.there => doc.key \in Nat /\ doc.key <= writes
  /\ \A w \in Writers :
       /\ req[w].pc # "idle" => req[w].n <= writes /\ req[w].n > 0 /\ req[w].hash \in Hashes
       /\ doc.there /\ (req[w].pc = "upsert" \/ Creates(w)) => req[w].n # doc.key
  /\ \A w, x \in Writers : w # x /\ req[w].pc # "idle" /\ req[x].pc # "idle" => req[w].n # req[x].n

\* Nothing is on its way for a document that is not there.
Absent == ~doc.there => doc = NoRow /\ tasks = {} /\ \A w \in Writers : ~Committed(w) /\ req[w].pc # "persist"

UrlForm == doc.there => doc.url \in {NoUrl, <<doc.key, 0>>, <<doc.key, doc.hash>>}

\* What a request has stored, and what it replaces: the version that the row
\* still names, as it holds the row.
Holder ==
  \A w \in Writers :
    LET r == req[w] IN
    /\ r.pc \in {"upsert", "purge", "store", "retitle"} => r.stored = NoUrl
    /\ Creates(w) => r.new /\ r.stored \in {NoUrl, <<r.n, 0>>}
    /\ lock = w /\ r.pc \in {"purge", "store", "commit"} => r.old = doc.url /\ (r.new <=> r.hash # doc.hash)
    /\ lock = w /\ r.pc = "store" => r.new
    /\ lock = w /\ r.pc = "commit" => r.stored = NoUrl \/ (r.new /\ r.stored = <<doc.key, r.hash>>)
    /\ lock = w /\ r.pc = "retitle" => r.hash = doc.hash
    /\ r.pc = "discard" => \E x \in Hashes \cup {0, Nobody} : r.old = <<doc.key, x>>

\* The original of a document that is being made is nobody else's to delete.
MineKept == \A w \in Writers : Creates(w) /\ req[w].stored # NoUrl => req[w].stored \in obj

\* As long as a row is only taken when the last version is done with: its
\* original is there, and is not the one that is going to be discarded.
Kept ==
  /\ lock # Nobody => ~Alive
  /\ doc.url # NoUrl => doc.url \in obj
  /\ lock # Nobody /\ req[lock].pc = "commit" /\ req[lock].stored # NoUrl => req[lock].stored \in obj
  /\ \A w \in Writers : req[w].pc = "discard" => req[w].old # doc.url

\* Each object is the document's, or a request's that will discard it.
Accounted ==
  \A o \in obj : \/ o = doc.url
                 \/ \E w \in Writers : (req[w].pc = "commit" /\ req[w].stored = o) \/ (req[w].pc = "discard" /\ req[w].old = o)

\* What is on its way is what the row says.
Matches ==
  /\ \A w \in Writers : Committed(w) => req[w].hash = doc.hash /\ req[w].title = doc.title
  /\ \A t \in tasks : t.title = doc.title /\ (t.kind = "ingest" => t.text = doc.hash)

\* The index is that of the row, but for a title on its way; or it was purged
\* by the request that holds the row.
Purged == lock # Nobody /\ req[lock].pc \in {"store", "commit"}
Found ==
  doc.status = "SUCCESS" /\ ~Purged =>
    \E i \in index : index = {i} /\ i.text = doc.hash /\ (i.title = doc.title \/ \E t \in tasks : t.kind = "title")

JobsFit == \A t \in tasks : t.pc = "running" => t.kind = "ingest"

WriteInv ==
  /\ WriteTypes /\ LockHeld /\ Numbered /\ Absent /\ UrlForm /\ Holder /\ MineKept /\ JobsFit
  /\ ~strayed => Accounted
  /\ ~overrun => Kept /\ Matches
  /\ ~overrun /\ ~bare /\ ~strayed => Found

----------------------------------------------------------------------------
\* The types of a writer with no request, and of an object.
LEMMA NoWriteIs ==
  ASSUME WriteSetting
  PROVE  /\ NoWrite \in WriteRequests /\ NoWrite.pc = "idle" /\ NoWrite.stored = NoUrl /\ NoWrite.old = NoUrl
         /\ NoUrl \notin Objects /\ \A a, b : <<a, b>> # NoUrl
<1>1. NoWrite.key \in Keys
  BY DEF NoWrite, WriteSetting
<1>2. \A a, b : <<a, b>> # NoUrl
  BY DEF NoUrl
<1>3. NoUrl \notin Objects
  BY <1>2 DEF Objects
<1> QED BY <1>1, <1>2, <1>3 DEF NoWrite, WriteRequests, Urls

\* A move is of one writer.
LEMMA MoveIs ==
  ASSUME WriteInv, NEW w \in Writers, NEW r, Move(w, r)
  PROVE  req'[w] = r /\ \A x \in Writers : x # w => req'[x] = req[x]
BY DEF Move, WriteInv, WriteTypes

\* A request that is over, whether it was answered or its process ended: what
\* it held is released, and what it had stored is gone or strayed.
LEMMA EndKeeps ==
  ASSUME WriteSetting, WriteInv, NEW w \in Writers, Move(w, NoWrite),
         lock' = (IF lock = w THEN Nobody ELSE lock),
         UNCHANGED <<doc, tasks, index, overrun>>, writes' \in Nat, writes' >= writes, faults' \in Nat,
         bare' \in BOOLEAN, strayed' \in BOOLEAN, bare => bare', strayed => strayed',
         obj' \subseteq obj, \A o \in obj : o \in obj' \/ (req[w].pc = "commit" /\ o = req[w].stored),
         ~strayed' => req[w].pc # "discard" /\ (req[w].pc = "commit" => req[w].stored \notin obj'),
         ~bare' => ~(lock = w /\ req[w].pc \in {"store", "commit"})
  PROVE  WriteInv'
<1>1. req'[w] = NoWrite /\ (\A x \in Writers : x # w => req'[x] = req[x]) /\ Nobody \notin Writers /\ NoWrite.pc = "idle"
  BY MoveIs, NoWriteIs DEF WriteSetting
<1>2. \A x \in Writers : req'[x].pc # "idle" => x # w /\ req'[x] = req[x] /\ (lock' = x <=> lock = x)
  BY <1>1
<1>3. lock' # Nobody => lock' = lock /\ lock # w /\ lock \in Writers
  BY <1>1 DEF WriteInv, WriteTypes
<1>4. WriteTypes'
  BY NoWriteIs, <1>1 DEF WriteInv, WriteTypes, Move
<1>5. LockHeld'
  BY <1>1, <1>2, <1>3 DEF WriteInv, LockHeld
<1>6. \A x \in Writers : Creates(x)' => x # w /\ Creates(x)
  BY <1>2 DEF Creates
<1>7. Numbered'
  <2>1. doc.there => doc.key \in Nat /\ doc.key <= writes'
    BY DEF WriteInv, Numbered, WriteTypes
  <2>2. ASSUME NEW x \in Writers, req'[x].pc # "idle"
        PROVE  req'[x].n <= writes' /\ req'[x].n > 0 /\ req'[x].hash \in Hashes
    <3>1. req[x].n <= writes /\ req[x].n > 0 /\ req[x].hash \in Hashes /\ req[x].n \in Nat /\ writes \in Nat
      BY <1>2, <2>2 DEF WriteInv, Numbered, WriteTypes, WriteRequests
    <3> QED BY <1>2, <2>2, <3>1
  <2>3. \A x \in Writers : doc.there /\ (req'[x].pc = "upsert" \/ Creates(x)') => req'[x].n # doc.key
    BY <1>2, <1>6 DEF WriteInv, Numbered, Creates
  <2>4. \A x, y \in Writers : x # y /\ req'[x].pc # "idle" /\ req'[y].pc # "idle" => req'[x].n # req'[y].n
    BY <1>2 DEF WriteInv, Numbered
  <2> QED BY <2>1, <2>2, <2>3, <2>4 DEF Numbered
<1>8. Absent' /\ UrlForm' /\ JobsFit'
  BY <1>2 DEF WriteInv, Absent, UrlForm, JobsFit, Committed
<1>9. Holder'
  BY <1>1, <1>2, <1>6 DEF WriteInv, Holder
<1>10. \A x \in Writers : x # w /\ Creates(x) => req[x].stored = NoUrl \/ req[x].stored # req[w].stored \/ req[w].pc # "commit"
  <2> SUFFICES ASSUME NEW x \in Writers, x # w, Creates(x), req[x].stored # NoUrl, req[w].pc = "commit" PROVE req[x].stored # req[w].stored
    OBVIOUS
  <2>1. req[x].stored = <<req[x].n, 0>>
    BY DEF WriteInv, Holder
  <2>2. CASE lock = w
    <3>1. req[x].n # doc.key
      BY <1>1, <2>2 DEF WriteInv, Numbered, LockHeld
    <3>2. req[w].stored = NoUrl \/ req[w].stored = <<doc.key, req[w].hash>>
      BY <2>2 DEF WriteInv, Holder
    <3>3. <<req[x].n, 0>> # <<doc.key, req[w].hash>>
      BY <3>1
    <3> QED BY <2>1, <3>2, <3>3
  <2>3. CASE lock # w
    <3>1. req[w].stored = NoUrl \/ req[w].stored = <<req[w].n, 0>>
      BY <2>3 DEF WriteInv, Holder, Creates
    <3>2. req[x].n # req[w].n
      BY DEF WriteInv, Numbered, Creates
    <3>3. <<req[x].n, 0>> # <<req[w].n, 0>>
      BY <3>2
    <3> QED BY <2>1, <3>1, <3>3
  <2> QED BY <2>2, <2>3
<1>11. MineKept'
  BY <1>1, <1>6, <1>10 DEF WriteInv, MineKept
<1>12. req[w].pc = "commit" /\ doc.url # NoUrl => req[w].stored # doc.url
  <2> SUFFICES ASSUME req[w].pc = "commit", doc.url # NoUrl, req[w].stored # NoUrl PROVE req[w].stored # doc.url
    OBVIOUS
  <2>1. doc.there /\ doc.url \in {<<doc.key, 0>>, <<doc.key, doc.hash>>}
    BY DEF WriteInv, Absent, UrlForm, NoRow
  <2>2. CASE lock = w
    <3>1. req[w].stored = <<doc.key, req[w].hash>> /\ req[w].hash # doc.hash /\ req[w].hash # 0
      BY <2>2 DEF WriteInv, Holder, Numbered, WriteSetting
    <3> QED BY <2>1, <3>1
  <2>3. CASE lock # w
    <3>1. req[w].stored = <<req[w].n, 0>> /\ req[w].n # doc.key
      BY <2>1, <2>3 DEF WriteInv, Holder, Numbered, Creates
    <3> QED BY <2>1, <3>1
  <2> QED BY <2>2, <2>3
<1>13. ASSUME lock' # Nobody, req[lock].pc = "commit", req[w].pc = "commit", req[lock].stored # NoUrl
       PROVE  req[lock].stored # req[w].stored
  <2>1. req[lock].stored = <<doc.key, req[lock].hash>> /\ doc.there
    BY <1>3, <1>13 DEF WriteInv, Holder, LockHeld
  <2>2. req[w].stored = NoUrl \/ (req[w].stored = <<req[w].n, 0>> /\ req[w].n # doc.key)
    BY <1>3, <1>13, <2>1 DEF WriteInv, Holder, Numbered, Creates
  <2> QED BY <2>1, <2>2, <1>13
<1>14. Kept => Kept'
  <2> SUFFICES ASSUME Kept PROVE Kept'
    OBVIOUS
  <2>1. lock' # Nobody => ~Alive'
    BY <1>2, <1>3 DEF Kept, Alive
  <2>2. doc.url # NoUrl => doc.url \in obj'
    BY <1>12 DEF Kept
  <2>3. lock' # Nobody /\ req'[lock'].pc = "commit" /\ req'[lock'].stored # NoUrl => req'[lock'].stored \in obj'
    BY <1>1, <1>3, <1>13 DEF Kept
  <2>4. \A x \in Writers : req'[x].pc = "discard" => req'[x].old # doc.url
    BY <1>2 DEF Kept
  <2> QED BY <2>1, <2>2, <2>3, <2>4 DEF Kept
<1>15. ~strayed' => Accounted'
  BY <1>1 DEF WriteInv, Accounted
<1>16. Matches => Matches'
  BY <1>2 DEF Matches, Committed
<1>17. ~bare' => (Purged => Purged')
  BY <1>1 DEF Purged, WriteInv, WriteTypes
<1>18. ~bare' /\ Found => Found'
  BY <1>17 DEF Found
<1> QED BY <1>4, <1>5, <1>7, <1>8, <1>9, <1>11, <1>14, <1>15, <1>16, <1>18 DEF WriteInv

\* The row is touched while nobody holds it, by the worker, the user interface
\* or the request that is about to end: not what was written to it.
LEMMA RowKeeps ==
  ASSUME WriteSetting, WriteInv, lock = Nobody, doc.there, doc' \in WriteRows, doc'.there, doc'.key = doc.key,
         doc'.hash = doc.hash, doc'.title = doc.title, doc'.url = doc.url, tasks' \subseteq Jobs,
         \A t \in tasks' : /\ t.pc = "running" => t.kind = "ingest"
                           /\ \E u \in tasks : u.kind = t.kind /\ u.title = t.title /\ u.text = t.text,
         UNCHANGED <<obj, lock, writes, bare, overrun, strayed>>, faults' \in Nat,
         index' \subseteq [text : Hashes \cup {Nobody}, title : Titles \cup {Nobody}],
         req' \in [Writers -> WriteRequests],
         \A x \in Writers : req'[x] = req[x] \/ (req'[x] = NoWrite /\ req[x].pc \in {"mark", "persist"}),
         ~overrun /\ ~bare /\ ~strayed => Found'
  PROVE  WriteInv'
<1>1. NoWrite.pc = "idle" /\ Nobody \notin Writers
  BY NoWriteIs DEF WriteSetting
<1>2. \A x \in Writers : req'[x].pc # "idle" => req'[x] = req[x]
  BY <1>1
<1>3. \A x \in Writers : (Creates(x)' => Creates(x)) /\ (Creates(x) => req'[x] = req[x])
  BY <1>1 DEF Creates
<1>4. WriteTypes'
  BY DEF WriteInv, WriteTypes
<1>5. LockHeld'
  BY <1>2 DEF WriteInv, LockHeld
<1>6. Numbered'
  BY <1>2, <1>3 DEF WriteInv, Numbered
<1>7. Absent' /\ UrlForm' /\ JobsFit'
  BY DEF WriteInv, Absent, UrlForm, JobsFit
<1>8. Holder'
  BY <1>1, <1>2, <1>3 DEF WriteInv, Holder
<1>9. MineKept'
  BY <1>3 DEF WriteInv, MineKept
<1>10. Accounted => Accounted'
  BY <1>1 DEF Accounted
<1>11. Kept => Kept'
  BY <1>2 DEF Kept
<1>12. Matches => Matches'
  BY <1>2 DEF Matches, Committed
<1> QED BY <1>4, <1>5, <1>6, <1>7, <1>8, <1>9, <1>10, <1>11, <1>12 DEF WriteInv

\* The fields of a request that only goes on.
LEMMA GotoIs ==
  ASSUME WriteInv, NEW w \in Writers, NEW p, Goto(w, p)
  PROVE  /\ \A x \in Writers : x # w => req'[x] = req[x]
         /\ req'[w].pc = p /\ req'[w].n = req[w].n /\ req'[w].hash = req[w].hash /\ req'[w].title = req[w].title
         /\ req'[w].file = req[w].file /\ req'[w].new = req[w].new /\ req'[w].stored = req[w].stored /\ req'[w].old = req[w].old
         /\ p \in {"idle", "upsert", "store", "commit", "retitle", "purge", "discard", "dispatch", "mark", "persist"} => req' \in [Writers -> WriteRequests]
<1>1. req \in [Writers -> WriteRequests] /\ req[w] \in WriteRequests
  BY DEF WriteInv, WriteTypes
<1>2. req'[w] = [req[w] EXCEPT !.pc = p] /\ \A x \in Writers : x # w => req'[x] = req[x]
  BY MoveIs DEF Goto
<1>3. /\ req'[w].pc = p /\ req'[w].n = req[w].n /\ req'[w].hash = req[w].hash /\ req'[w].title = req[w].title
      /\ req'[w].file = req[w].file /\ req'[w].new = req[w].new /\ req'[w].stored = req[w].stored /\ req'[w].old = req[w].old
      /\ p \in {"idle", "upsert", "store", "commit", "retitle", "purge", "discard", "dispatch", "mark", "persist"} => req'[w] \in WriteRequests
  BY <1>1, <1>2 DEF WriteRequests
<1>4. req'[w] \in WriteRequests => req' \in [Writers -> WriteRequests]
  BY <1>1, <1>2 DEF Goto, Move
<1> QED BY <1>2, <1>3, <1>4

\* A new request has a number of its own.
LEMMA BeginKeeps ==
  ASSUME WriteSetting, WriteInv, NEW w \in Writers, NEW k \in Keys, NEW b \in Bodies, NEW v \in Versions, write_document(w, k, b, v)
  PROVE  WriteInv'
<1> DEFINE m == writes + 1
           f == (b.kind = "multipart")
           a == [[NoWrite EXCEPT !.n = m, !.key = k, !.hash = v[1], !.title = v[2], !.file = f] EXCEPT !.pc = "upsert"]
<1>1. /\ req[w].pc = "idle" /\ writes' = writes + 1 /\ writes \in Nat
      /\ UNCHANGED <<doc, obj, lock, tasks, index, faults, bare, overrun, strayed>>
  BY DEF write_document, WriteInv, WriteTypes
<1>2. lock # w
  BY <1>1 DEF WriteInv, LockHeld, WriteSetting
<1>3. CASE Move(w, NoWrite)
  <2>1. faults \in Nat /\ bare \in BOOLEAN /\ strayed \in BOOLEAN
    BY DEF WriteInv, WriteTypes
  <2> QED BY <1>1, <1>2, <1>3, <2>1, EndKeeps
<1>4. CASE Move(w, a)
  <2>1. v[1] \in Hashes /\ v[2] \in Titles
    BY DEF Hashes, Titles
  <2>3. /\ a \in WriteRequests /\ a.pc = "upsert" /\ a.n = writes + 1 /\ a.hash = v[1] /\ a.stored = NoUrl
    <3>1. f \in BOOLEAN /\ m \in Nat /\ m = writes + 1
      BY <1>1
    <3> HIDE DEF f, m
    <3>2. NoWrite \in WriteRequests /\ NoWrite.stored = NoUrl
      BY NoWriteIs
    <3> QED BY <2>1, <3>1, <3>2 DEF WriteRequests
  <2> HIDE DEF a
  <2>4. req'[w] = a /\ \A x \in Writers : x # w => req'[x] = req[x]
    BY <1>4, MoveIs
  <2>5. \A x \in Writers : Creates(x)' <=> Creates(x)
    BY <1>1, <2>3, <2>4 DEF Creates
  <2>6. ~Creates(w)
    BY <1>1 DEF Creates
  <2>7. WriteTypes'
    BY <1>1, <1>4, <2>3 DEF WriteInv, WriteTypes, Move
  <2>8. LockHeld'
    BY <1>1, <1>2, <2>3, <2>4 DEF WriteInv, LockHeld, WriteTypes
  <2>9. Numbered'
    <3>1. doc.there => doc.key \in Nat /\ doc.key <= writes' /\ doc.key # writes + 1
      BY <1>1 DEF WriteInv, Numbered
    <3>2. ASSUME NEW x \in Writers, x # w, req[x].pc # "idle"
          PROVE  req[x].n <= writes' /\ req[x].n > 0 /\ req[x].hash \in Hashes /\ req[x].n # writes + 1
      <4>1. req[x].n \in Nat /\ req[x].n <= writes /\ req[x].n > 0 /\ req[x].hash \in Hashes
        BY <3>2 DEF WriteInv, WriteTypes, Numbered, WriteRequests
      <4> QED BY <1>1, <4>1
    <3>3. \A x \in Writers : /\ req'[x].pc # "idle" => req'[x].n <= writes' /\ req'[x].n > 0 /\ req'[x].hash \in Hashes
                             /\ doc.there /\ (req'[x].pc = "upsert" \/ Creates(x)) => req'[x].n # doc.key
      BY <1>1, <2>1, <2>3, <2>4, <3>1, <3>2 DEF WriteInv, Numbered, Creates
    <3>4. \A x, y \in Writers : x # y /\ req'[x].pc # "idle" /\ req'[y].pc # "idle" => req'[x].n # req'[y].n
      BY <2>3, <2>4, <3>2 DEF WriteInv, Numbered
    <3> QED BY <1>1, <2>5, <3>1, <3>3, <3>4 DEF Numbered
  <2>10. Absent' /\ UrlForm' /\ JobsFit'
    BY <1>1, <2>3, <2>4 DEF WriteInv, Absent, UrlForm, JobsFit, Committed
  <2>11. Holder'
    BY <1>1, <1>2, <2>3, <2>4, <2>5, <2>6 DEF WriteInv, Holder
  <2>12. MineKept'
    BY <1>1, <2>4, <2>5, <2>6 DEF WriteInv, MineKept
  <2>13. Kept => Kept'
    BY <1>1, <1>2, <2>3, <2>4 DEF Kept, Alive, WriteInv, WriteTypes
  <2>14. Accounted => Accounted'
    BY <1>1, <2>4 DEF Accounted
  <2>15. Matches => Matches'
    BY <1>1, <2>3, <2>4 DEF Matches, Committed
  <2>16. Found => Found'
    BY <1>1, <1>2, <2>3, <2>4 DEF Found, Purged, WriteInv, WriteTypes
  <2> QED BY <1>1, <2>7, <2>8, <2>9, <2>10, <2>11, <2>12, <2>13, <2>14, <2>15, <2>16 DEF WriteInv
<1> QED BY <1>3, <1>4 DEF write_document, Answer

\* Nobody waits for a row that is not there.
LEMMA CreateKeeps ==
  ASSUME WriteSetting, WriteInv, NEW w \in Writers, CreateStart(w)
  PROVE  WriteInv'
<1> DEFINE p == IF req[w].file THEN "store" ELSE "commit"
<1>1. /\ req[w].pc = "upsert" /\ ~doc.there /\ Move(w, [req[w] EXCEPT !.pc = p, !.new = TRUE])
      /\ UNCHANGED <<doc, obj, lock, tasks, index, writes, faults, bare, overrun, strayed>>
  BY DEF CreateStart
<1>2. p \in {"store", "commit"}
  OBVIOUS
<1> HIDE DEF p
<1>3. req'[w] = [req[w] EXCEPT !.pc = p, !.new = TRUE] /\ \A x \in Writers : x # w => req'[x] = req[x]
  BY <1>1, MoveIs
<1>4. req \in [Writers -> WriteRequests] /\ req[w] \in WriteRequests
  BY DEF WriteInv, WriteTypes
<1>5. /\ req'[w] \in WriteRequests /\ req'[w].pc = p /\ req'[w].new /\ req'[w].n = req[w].n /\ req'[w].hash = req[w].hash
      /\ req'[w].stored = req[w].stored
  BY <1>2, <1>3, <1>4 DEF WriteRequests
<1>6. lock = Nobody /\ lock # w /\ req[w].stored = NoUrl
  BY <1>1 DEF WriteInv, LockHeld, Holder, WriteTypes, WriteSetting
<1>7. \A x \in Writers : x # w => (Creates(x)' <=> Creates(x))
  BY <1>1, <1>3 DEF Creates
<1>8. WriteTypes'
  BY <1>1, <1>3, <1>4, <1>5 DEF WriteInv, WriteTypes, Move
<1>9. LockHeld'
  BY <1>1, <1>2, <1>3, <1>5, <1>6 DEF WriteInv, LockHeld
<1>10. Numbered'
  <2>1. \A x \in Writers : req'[x].n = req[x].n /\ req'[x].hash = req[x].hash /\ (req'[x].pc # "idle" => req[x].pc # "idle")
    BY <1>1, <1>3, <1>5
  <2> QED BY <1>1, <2>1 DEF WriteInv, Numbered
<1>11. Absent' /\ UrlForm' /\ JobsFit'
  BY <1>1, <1>2, <1>3, <1>5 DEF WriteInv, Absent, UrlForm, JobsFit, Committed
<1>12. Holder'
  <2>1. \A x \in Writers : x # w => LET r == req'[x] IN
          /\ r.pc \in {"upsert", "purge", "store", "retitle"} => r.stored = NoUrl
          /\ Creates(x)' => r.new /\ r.stored \in {NoUrl, <<r.n, 0>>}
          /\ r.pc = "discard" => \E y \in Hashes \cup {0, Nobody} : r.old = <<doc.key, y>>
    BY <1>3, <1>7 DEF WriteInv, Holder
  <2>2. \A x \in Writers : lock' # x
    BY <1>1, <1>6 DEF WriteSetting
  <2> QED BY <1>1, <1>2, <1>5, <1>6, <2>1, <2>2 DEF Holder
<1>13. MineKept'
  BY <1>1, <1>3, <1>5, <1>6, <1>7 DEF WriteInv, MineKept
<1>14. Kept => Kept'
  BY <1>1, <1>2, <1>3, <1>5, <1>6 DEF Kept
<1>15. Accounted => Accounted'
  BY <1>1, <1>3 DEF Accounted
<1>16. Matches => Matches'
  BY <1>1, <1>2, <1>3, <1>5 DEF Matches, Committed
<1>17. Found => Found'
  BY <1>1, <1>6 DEF Found, Purged
<1> QED BY <1>1, <1>8, <1>9, <1>10, <1>11, <1>12, <1>13, <1>14, <1>15, <1>16, <1>17 DEF WriteInv

\* The row is taken: to give it a title, or another version.
LEMMA TakeKeeps ==
  ASSUME WriteSetting, WriteInv, NEW w \in Writers, req[w].pc = "upsert", doc.there, lock = Nobody, lock' = w,
         NEW a \in WriteRequests, Move(w, a), a.n = req[w].n, a.hash = req[w].hash, a.stored = req[w].stored,
         \/ a.pc = "retitle" /\ a.hash = doc.hash
         \/ a.pc = "purge" /\ a.old = doc.url /\ (a.new <=> a.hash # doc.hash),
         overrun' = (overrun \/ Alive), UNCHANGED <<doc, obj, tasks, index, writes, faults, bare, strayed>>
  PROVE  WriteInv'
<1>1. Nobody \notin Writers /\ req \in [Writers -> WriteRequests] /\ req[w] \in WriteRequests /\ req[w].stored = NoUrl
  BY DEF WriteInv, WriteTypes, Holder, WriteSetting
<1>2. req'[w] = a /\ \A x \in Writers : x # w => req'[x] = req[x]
  BY MoveIs
<1>3. a.pc \in {"retitle", "purge"} /\ a.stored = NoUrl
  BY <1>1
<1>4. \A x \in Writers : x # w => (Creates(x)' <=> Creates(x)) /\ lock # x /\ lock' # x
  BY <1>1, <1>2 DEF Creates
<1>5. ~Creates(w)' /\ ~Creates(w)
  BY DEF Creates
<1>6. WriteTypes'
  BY <1>1, <1>2, <1>3 DEF WriteInv, WriteTypes, Move
<1>7. LockHeld'
  BY <1>1, <1>2, <1>3, <1>4 DEF WriteInv, LockHeld
<1>8. Numbered'
  <2>1. \A x \in Writers : req'[x].n = req[x].n /\ req'[x].hash = req[x].hash /\ (req'[x].pc # "idle" => req[x].pc # "idle")
    BY <1>2, <1>3
  <2>2. \A x \in Writers : req'[x].pc = "upsert" \/ Creates(x)' => req[x].pc = "upsert" \/ Creates(x)
    BY <1>2, <1>3, <1>4, <1>5
  <2> QED BY <2>1, <2>2 DEF WriteInv, Numbered
<1>9. Absent' /\ UrlForm' /\ JobsFit'
  BY <1>2, <1>3 DEF WriteInv, Absent, UrlForm, JobsFit, Committed
<1>10. Holder'
  <2>1. \A x \in Writers : x # w => LET r == req'[x] IN
          /\ r.pc \in {"upsert", "purge", "store", "retitle"} => r.stored = NoUrl
          /\ Creates(x)' => r.new /\ r.stored \in {NoUrl, <<r.n, 0>>}
          /\ r.pc = "discard" => \E y \in Hashes \cup {0, Nobody} : r.old = <<doc.key, y>>
    BY <1>2, <1>4 DEF WriteInv, Holder
  <2> QED BY <1>2, <1>3, <1>4, <1>5, <2>1 DEF Holder
<1>11. MineKept'
  BY <1>2, <1>4, <1>5 DEF WriteInv, MineKept
<1>12. ~overrun' => (Kept => Kept')
  BY <1>1, <1>2, <1>3 DEF Kept, Alive
<1>13. Accounted => Accounted'
  BY <1>2 DEF Accounted
<1>14. Matches => Matches'
  <2>1. \A x \in Writers : Committed(x)' => Committed(x) /\ req'[x] = req[x]
    BY <1>2, <1>3 DEF Committed
  <2> QED BY <2>1 DEF Matches
<1>15. Found => Found'
  BY DEF Found, Purged
<1> QED BY <1>6, <1>7, <1>8, <1>9, <1>10, <1>11, <1>12, <1>13, <1>14, <1>15 DEF WriteInv, WriteTypes

\* A replacement is refused, or takes the row.
LEMMA ReplaceKeeps ==
  ASSUME WriteSetting, WriteInv, NEW w \in Writers, Replace(w)
  PROVE  WriteInv'
<1> DEFINE r == req[w]
<1>1. /\ r.pc = "upsert" /\ doc.there /\ lock = Nobody /\ overrun' = (overrun \/ (lock' = w /\ Alive))
      /\ UNCHANGED <<doc, obj, tasks, index, writes, faults, bare, strayed>>
      /\ \/ Move(w, NoWrite) /\ lock' = lock
         \/ r.hash = doc.hash /\ Goto(w, "retitle") /\ lock' = w
         \/ lock' = w /\ Move(w, [r EXCEPT !.pc = "purge", !.new = ~(doc.hash = r.hash), !.old = doc.url])
  BY DEF Replace, Answer, Unlocked
<1>2. Nobody \notin Writers /\ r \in WriteRequests /\ doc.url \in Urls
  BY DEF WriteSetting, WriteInv, WriteTypes, WriteRows
<1>3. CASE Move(w, NoWrite) /\ lock' = lock
  <2>1. faults \in Nat /\ writes \in Nat /\ bare \in BOOLEAN /\ strayed \in BOOLEAN /\ overrun' = overrun
    BY <1>1, <1>2, <1>3 DEF WriteInv, WriteTypes
  <2> QED BY <1>1, <1>2, <1>3, <2>1, EndKeeps
<1>4. CASE r.hash = doc.hash /\ Goto(w, "retitle") /\ lock' = w
  <2> DEFINE a == [r EXCEPT !.pc = "retitle"]
  <2>1. a \in WriteRequests /\ a.pc = "retitle" /\ a.n = r.n /\ a.hash = r.hash /\ a.stored = r.stored
    BY <1>2 DEF WriteRequests
  <2>2. Move(w, a)
    BY <1>4 DEF Goto
  <2> HIDE DEF a
  <2> QED BY <1>1, <1>4, <2>1, <2>2, TakeKeeps
<1>5. CASE lock' = w /\ Move(w, [r EXCEPT !.pc = "purge", !.new = ~(doc.hash = r.hash), !.old = doc.url])
  <2> DEFINE b == ~(doc.hash = r.hash)
             a == [r EXCEPT !.pc = "purge", !.new = b, !.old = doc.url]
  <2>1. b \in BOOLEAN
    OBVIOUS
  <2>2. Move(w, a)
    BY <1>5
  <2>3. b <=> r.hash # doc.hash
    OBVIOUS
  <2> HIDE DEF b
  <2>4. a \in WriteRequests /\ a.pc = "purge" /\ a.new = b /\ a.old = doc.url /\ a.n = r.n /\ a.hash = r.hash /\ a.stored = r.stored
    BY <1>2, <2>1 DEF WriteRequests
  <2> HIDE DEF a
  <2> QED BY <1>1, <1>5, <2>2, <2>3, <2>4, TakeKeeps
<1> QED BY <1>1, <1>3, <1>4, <1>5

\* The index is purged under the row lock.
LEMMA PurgeKeeps ==
  ASSUME WriteSetting, WriteInv, NEW w \in Writers, NEW ok \in BOOLEAN, Purge(w, ok)
  PROVE  WriteInv'
<1>1. /\ req[w].pc = "purge" /\ lock = w /\ req[w].stored = NoUrl /\ faults \in Nat /\ Nobody \notin Writers /\ w # Nobody
      /\ UNCHANGED <<doc, obj, tasks, writes, bare, overrun, strayed>>
  BY DEF Purge, WriteInv, LockHeld, Holder, WriteTypes, WriteSetting
<1>2. CASE ~ok
  <2>1. lock' = Nobody /\ Move(w, NoWrite) /\ index' = index /\ faults' \in Nat
    BY <1>1, <1>2 DEF Purge, Answer, Fault
  <2>2. writes \in Nat /\ bare \in BOOLEAN /\ strayed \in BOOLEAN
    BY DEF WriteInv, WriteTypes
  <2> QED BY <1>1, <2>1, <2>2, EndKeeps
<1>3. ASSUME ok, NEW p \in {"store", "commit"}, p = "store" => req[w].new, Goto(w, p), index' = {}, UNCHANGED <<lock, faults>>
      PROVE  WriteInv'
  <2>1. /\ \A x \in Writers : x # w => req'[x] = req[x]
        /\ req'[w].pc = p /\ req'[w].n = req[w].n /\ req'[w].hash = req[w].hash /\ req'[w].title = req[w].title
        /\ req'[w].new = req[w].new /\ req'[w].stored = NoUrl /\ req'[w].old = req[w].old /\ req' \in [Writers -> WriteRequests]
    BY <1>1, <1>3, GotoIs
  <2>2. \A x \in Writers : x # w => (Creates(x)' <=> Creates(x)) /\ lock # x
    BY <1>1, <1>3, <2>1 DEF Creates
  <2>3. ~Creates(w)' /\ ~Creates(w)
    BY <1>1, <1>3 DEF Creates
  <2>4. WriteTypes'
    BY <1>1, <1>3, <2>1 DEF WriteInv, WriteTypes
  <2>5. LockHeld'
    BY <1>1, <1>3, <2>1, <2>2 DEF WriteInv, LockHeld
  <2>6. Numbered'
    <3>1. \A x \in Writers : req'[x].n = req[x].n /\ req'[x].hash = req[x].hash /\ (req'[x].pc # "idle" => req[x].pc # "idle")
      BY <1>1, <2>1
    <3>2. \A x \in Writers : req'[x].pc = "upsert" \/ Creates(x)' => req[x].pc = "upsert" \/ Creates(x)
      BY <1>3, <2>1, <2>2, <2>3
    <3> QED BY <1>1, <3>1, <3>2 DEF WriteInv, Numbered
  <2>7. Absent' /\ UrlForm' /\ JobsFit'
    BY <1>1, <1>3, <2>1 DEF WriteInv, Absent, UrlForm, JobsFit, Committed
  <2>8. Holder'
    <3>1. \A x \in Writers : x # w => LET r == req'[x] IN
            /\ r.pc \in {"upsert", "purge", "store", "retitle"} => r.stored = NoUrl
            /\ Creates(x)' => r.new /\ r.stored \in {NoUrl, <<r.n, 0>>}
            /\ r.pc = "discard" => \E y \in Hashes \cup {0, Nobody} : r.old = <<doc.key, y>>
      BY <2>1, <2>2 DEF WriteInv, Holder
    <3>2. req[w].old = doc.url /\ (req[w].new <=> req[w].hash # doc.hash)
      BY <1>1 DEF WriteInv, Holder
    <3> QED BY <1>1, <1>3, <2>1, <2>2, <2>3, <3>1, <3>2 DEF Holder
  <2>9. MineKept'
    BY <1>1, <2>1, <2>2, <2>3 DEF WriteInv, MineKept
  <2>10. Kept => Kept'
    BY <1>1, <1>3, <2>1 DEF Kept, Alive
  <2>11. Accounted => Accounted'
    BY <1>1, <2>1 DEF Accounted
  <2>12. Matches => Matches'
    <3>1. \A x \in Writers : Committed(x)' => Committed(x) /\ req'[x] = req[x]
      BY <1>3, <2>1 DEF Committed
    <3> QED BY <1>1, <3>1 DEF Matches
  <2>13. Found'
    BY <1>1, <1>3, <2>1 DEF Found, Purged
  <2> QED BY <1>1, <2>4, <2>5, <2>6, <2>7, <2>8, <2>9, <2>10, <2>11, <2>12, <2>13 DEF WriteInv
<1>4. CASE ok
  <2>1. CASE req[w].new /\ req[w].file
    BY <1>3, <1>4, <2>1 DEF Purge
  <2>2. CASE ~(req[w].new /\ req[w].file)
    BY <1>3, <1>4, <2>2 DEF Purge
  <2> QED BY <2>1, <2>2
<1> QED BY <1>2, <1>4

\* The original is stored under a name nobody else uses.
LEMMA StoreKeeps ==
  ASSUME WriteSetting, WriteInv, NEW w \in Writers, NEW ok \in BOOLEAN, Store(w, ok)
  PROVE  WriteInv'
<1> DEFINE o == ObjectKey(w)
           a == [req[w] EXCEPT !.pc = "commit", !.stored = o]
<1>1. /\ req[w].pc = "store" /\ UNCHANGED <<doc, tasks, index, writes, overrun, strayed>>
      /\ faults \in Nat /\ writes \in Nat /\ bare \in BOOLEAN /\ strayed \in BOOLEAN /\ Nobody \notin Writers
      /\ req \in [Writers -> WriteRequests] /\ req[w] \in WriteRequests /\ req[w].n > 0
  BY DEF Store, WriteInv, WriteTypes, WriteSetting, Numbered
<1>2. CASE ~ok
  <2>1. /\ lock' = (IF lock = w THEN Nobody ELSE lock) /\ bare' = (bare \/ lock = w) /\ Move(w, NoWrite) /\ obj' = obj
        /\ faults' \in Nat
    BY <1>1, <1>2 DEF Store, Answer, Fault
  <2>2. bare' \in BOOLEAN /\ (~bare' => lock # w) /\ (bare => bare')
    BY <1>1, <2>1
  <2> HIDE DEF o, a
  <2> QED BY <1>1, <2>1, <2>2, EndKeeps
<1>3. CASE ok
  <2>1. obj' = obj \cup {o} /\ Move(w, a) /\ UNCHANGED <<lock, faults, bare>>
    BY <1>3 DEF Store
  <2>2. /\ lock = w => doc.there /\ doc.key \in Nat /\ o = <<doc.key, req[w].hash>> /\ req[w].new
        /\ lock # w => o = <<req[w].n, 0>>
        /\ req[w].hash \in Hashes /\ o \in Objects /\ o # NoUrl /\ o \in Urls
    <3>1. lock = w => doc.there /\ doc.key \in Nat /\ req[w].new
      BY <1>1 DEF WriteInv, LockHeld, Numbered, Holder
    <3>2. req[w].hash \in Hashes /\ req[w].n \in Nat
      BY <1>1 DEF WriteInv, Numbered, WriteRequests
    <3> QED BY <3>1, <3>2, NoWriteIs DEF ObjectKey, Objects, Urls
  <2> HIDE DEF o
  <2>3. /\ a \in WriteRequests /\ a.pc = "commit" /\ a.stored = o /\ a.n = req[w].n /\ a.hash = req[w].hash /\ a.new = req[w].new /\ a.old = req[w].old
    BY <1>1, <2>2 DEF WriteRequests
  <2>4. req'[w] = a /\ \A x \in Writers : x # w => req'[x] = req[x]
    BY <2>1, MoveIs
  <2> HIDE DEF a
  <2>5. \A x \in Writers : Creates(x)' <=> Creates(x)
    BY <1>1, <2>1, <2>3, <2>4 DEF Creates
  <2>6. WriteTypes'
    <3>1. req' \in [Writers -> WriteRequests]
      BY <1>1, <2>1, <2>3 DEF Move
    <3>2. obj' \subseteq Objects
      BY <2>1, <2>2 DEF WriteInv, WriteTypes
    <3> QED BY <1>1, <2>1, <3>1, <3>2 DEF WriteInv, WriteTypes
  <2>7. LockHeld'
    BY <1>1, <2>1, <2>3, <2>4 DEF WriteInv, LockHeld, WriteTypes
  <2>8. Numbered'
    <3>1. \A x \in Writers : req'[x].n = req[x].n /\ req'[x].hash = req[x].hash /\ (req'[x].pc # "idle" => req[x].pc # "idle") /\ (req'[x].pc = "upsert" => req[x].pc = "upsert")
      BY <1>1, <2>3, <2>4
    <3> QED BY <1>1, <2>5, <3>1 DEF WriteInv, Numbered
  <2>9. Absent' /\ UrlForm' /\ JobsFit'
    BY <1>1, <2>1, <2>3, <2>4 DEF WriteInv, Absent, UrlForm, JobsFit, Committed
  <2>10. Holder'
    <3>1. \A x \in Writers : x # w => LET r == req'[x] IN
            /\ r.pc \in {"upsert", "purge", "store", "retitle"} => r.stored = NoUrl
            /\ Creates(x)' => r.new /\ r.stored \in {NoUrl, <<r.n, 0>>}
            /\ lock = x /\ r.pc \in {"purge", "store", "commit"} => r.old = doc.url /\ (r.new <=> r.hash # doc.hash)
            /\ lock = x /\ r.pc = "store" => r.new
            /\ lock = x /\ r.pc = "commit" => r.stored = NoUrl \/ (r.new /\ r.stored = <<doc.key, r.hash>>)
            /\ lock = x /\ r.pc = "retitle" => r.hash = doc.hash
            /\ r.pc = "discard" => \E y \in Hashes \cup {0, Nobody} : r.old = <<doc.key, y>>
      BY <2>4, <2>5 DEF WriteInv, Holder
    <3>2. lock = w => req[w].old = doc.url /\ (req[w].new <=> req[w].hash # doc.hash)
      BY <1>1 DEF WriteInv, Holder
    <3>3. Creates(w) => a.new
      BY <2>3 DEF WriteInv, Holder
    <3>4. Creates(w) => lock # w
      BY DEF Creates
    <3> QED BY <1>1, <2>1, <2>2, <2>3, <2>4, <2>5, <3>1, <3>2, <3>3, <3>4 DEF Holder
  <2>11. MineKept'
    BY <2>1, <2>3, <2>4, <2>5 DEF WriteInv, MineKept
  <2>12. Kept => Kept'
    BY <1>1, <2>1, <2>3, <2>4 DEF Kept, Alive, WriteInv, WriteTypes
  <2>13. Accounted => Accounted'
    BY <1>1, <2>1, <2>3, <2>4 DEF Accounted
  <2>14. Matches => Matches'
    <3>1. \A x \in Writers : Committed(x)' => Committed(x) /\ req'[x] = req[x]
      BY <2>3, <2>4 DEF Committed
    <3> QED BY <1>1, <3>1 DEF Matches
  <2>15. Found => Found'
    <3>1. Purged => Purged'
      BY <1>1, <2>1, <2>3, <2>4 DEF Purged, WriteInv, WriteTypes
    <3>2. Purged' => Purged
      BY <1>1, <2>1, <2>3, <2>4 DEF Purged, WriteInv, WriteTypes
    <3> QED BY <1>1, <3>1, <3>2 DEF Found
  <2> QED BY <1>1, <2>1, <2>6, <2>7, <2>8, <2>9, <2>10, <2>11, <2>12, <2>13, <2>14, <2>15 DEF WriteInv
<1> QED BY <1>2, <1>3

\* What a request does after its commit: the superseded original goes, and its
\* task is on its way or is not.
LEMMA AfterKeeps ==
  ASSUME WriteSetting, WriteInv, NEW w \in Writers, req[w].pc \in {"discard", "dispatch"},
         NEW p \in {"dispatch", "mark", "persist"}, Goto(w, p), obj' \subseteq obj,
         req[w].pc # "discard" => obj' = obj,
         \A u \in obj : u \in obj' \/ u = req[w].old,
         strayed' \in BOOLEAN, strayed => strayed',
         ~strayed' /\ req[w].pc = "discard" => req[w].old \notin obj',
         tasks' = tasks \/ \E t \in Jobs : /\ tasks' = tasks \cup {t} /\ t.kind = "ingest" /\ t.pc = "queued"
                                           /\ t.text = req[w].hash /\ t.title = req[w].title,
         faults' \in Nat, UNCHANGED <<doc, lock, index, writes, bare, overrun>>
  PROVE  WriteInv'
<1>1. /\ \A x \in Writers : x # w => req'[x] = req[x]
      /\ req'[w].pc = p /\ req'[w].n = req[w].n /\ req'[w].hash = req[w].hash /\ req'[w].title = req[w].title
      /\ req'[w].stored = req[w].stored /\ req'[w].old = req[w].old /\ req' \in [Writers -> WriteRequests]
  BY GotoIs
<1>2. Committed(w) /\ doc.there /\ lock # w /\ ~Creates(w) /\ ~Creates(w)'
  BY <1>1 DEF Committed, WriteInv, Absent, LockHeld, Creates, WriteSetting
<1>3. \A x \in Writers : Creates(x)' <=> Creates(x)
  BY <1>1, <1>2 DEF Creates
<1>4. WriteTypes'
  BY <1>1 DEF WriteInv, WriteTypes
<1>5. LockHeld'
  BY <1>1, <1>2 DEF WriteInv, LockHeld, WriteTypes
<1>6. Numbered'
  <2>1. \A x \in Writers : req'[x].n = req[x].n /\ req'[x].hash = req[x].hash /\ (req'[x].pc # "idle" => req[x].pc # "idle") /\ (req'[x].pc = "upsert" => req[x].pc = "upsert")
    BY <1>1
  <2> QED BY <1>3, <2>1 DEF WriteInv, Numbered
<1>7. Absent' /\ UrlForm' /\ JobsFit'
  BY <1>2 DEF WriteInv, Absent, UrlForm, JobsFit
<1>8. Holder'
  <2>1. \A x \in Writers : x # w => LET r == req'[x] IN
          /\ r.pc \in {"upsert", "purge", "store", "retitle"} => r.stored = NoUrl
          /\ Creates(x)' => r.new /\ r.stored \in {NoUrl, <<r.n, 0>>}
          /\ lock = x /\ r.pc \in {"purge", "store", "commit"} => r.old = doc.url /\ (r.new <=> r.hash # doc.hash)
          /\ lock = x /\ r.pc = "store" => r.new
          /\ lock = x /\ r.pc = "commit" => r.stored = NoUrl \/ (r.new /\ r.stored = <<doc.key, r.hash>>)
          /\ lock = x /\ r.pc = "retitle" => r.hash = doc.hash
          /\ r.pc = "discard" => \E y \in Hashes \cup {0, Nobody} : r.old = <<doc.key, y>>
    BY <1>1, <1>3 DEF WriteInv, Holder
  <2> QED BY <1>1, <1>2, <2>1 DEF Holder
<1>9. MineKept'
  <2> SUFFICES ASSUME NEW x \in Writers, Creates(x), req[x].stored # NoUrl, req[w].pc = "discard" PROVE req[x].stored # req[w].old
    BY <1>1, <1>2, <1>3 DEF WriteInv, MineKept
  <2>1. req[x].stored = <<req[x].n, 0>> /\ req[x].n # doc.key
    BY <1>2 DEF WriteInv, Holder, Numbered
  <2>2. \E y \in Hashes \cup {0, Nobody} : req[w].old = <<doc.key, y>>
    BY DEF WriteInv, Holder
  <2> QED BY <2>1, <2>2
<1>10. Kept => Kept'
  <2> SUFFICES ASSUME Kept PROVE Kept'
    OBVIOUS
  <2>1. lock = Nobody
    BY DEF Kept, Alive
  <2>2. doc.url # NoUrl => doc.url \in obj'
    BY DEF Kept
  <2>3. \A x \in Writers : req'[x].pc = "discard" => req'[x].old # doc.url
    BY <1>1 DEF Kept
  <2> QED BY <2>1, <2>2, <2>3 DEF Kept
<1>11. ~strayed' => Accounted'
  <2> SUFFICES ASSUME ~strayed', NEW u \in obj'
               PROVE  u = doc.url \/ \E x \in Writers : (req'[x].pc = "commit" /\ req'[x].stored = u) \/ (req'[x].pc = "discard" /\ req'[x].old = u)
    BY DEF Accounted
  <2>1. CASE u = doc.url
    BY <2>1
  <2>2. ASSUME NEW x \in Writers, (req[x].pc = "commit" /\ req[x].stored = u) \/ (req[x].pc = "discard" /\ req[x].old = u)
        PROVE  req'[x] = req[x]
    BY <1>1, <2>2
  <2> QED BY <2>1, <2>2 DEF WriteInv, Accounted
<1>12. Matches => Matches'
  <2>1. \A x \in Writers : Committed(x)' => Committed(x) /\ req'[x].hash = req[x].hash /\ req'[x].title = req[x].title
    BY <1>1, <1>2 DEF Committed
  <2>2. Matches => req[w].hash = doc.hash /\ req[w].title = doc.title
    BY <1>2 DEF Matches
  <2> QED BY <2>1, <2>2 DEF Matches
<1>13. Found => Found'
  <2>1. Purged' => Purged
    BY <1>1 DEF Purged, WriteInv, WriteTypes
  <2>2. Purged => Purged'
    BY <1>1, <1>2 DEF Purged, WriteInv, WriteTypes
  <2> QED BY <2>1, <2>2 DEF Found
<1> QED BY <1>4, <1>5, <1>6, <1>7, <1>8, <1>9, <1>10, <1>11, <1>12, <1>13 DEF WriteInv

\* The superseded original is discarded after the commit.
LEMMA DiscardOldKeeps ==
  ASSUME WriteSetting, WriteInv, NEW w \in Writers, NEW gone \in BOOLEAN, DiscardOld(w, gone)
  PROVE  WriteInv'
<1>1. /\ req[w].pc = "discard" /\ Goto(w, "dispatch") /\ UNCHANGED <<doc, lock, tasks, index, writes, bare, overrun>>
      /\ faults \in Nat /\ strayed \in BOOLEAN
  BY DEF DiscardOld, WriteInv, WriteTypes
<1>2. \/ obj' = obj \ {req[w].old} /\ UNCHANGED <<faults, strayed>>
      \/ faults' = faults + 1 /\ strayed' = TRUE /\ UNCHANGED obj
  BY DEF DiscardOld, Discard, Fault
<1>3. obj' \subseteq obj /\ faults' \in Nat /\ \A u \in obj : u \in obj' \/ u = req[w].old
  BY <1>1, <1>2
<1>4. strayed' \in BOOLEAN /\ (strayed => strayed')
  BY <1>1, <1>2, Zenon
<1>5. ~strayed' => req[w].old \notin obj'
  BY <1>2
<1> QED BY <1>1, <1>3, <1>4, <1>5, AfterKeeps

\* The task carries what was committed.
LEMMA DispatchKeeps ==
  ASSUME WriteSetting, WriteInv, NEW w \in Writers, NEW ok \in BOOLEAN, Dispatch(w, ok)
  PROVE  WriteInv'
<1> DEFINE t == [kind |-> "ingest", n |-> req[w].n, title |-> req[w].title, text |-> req[w].hash,
                 url |-> IF req[w].new THEN req[w].stored ELSE req[w].old, pc |-> "queued"]
<1>1. /\ req[w].pc = "dispatch" /\ UNCHANGED <<doc, obj, lock, index, writes, bare, overrun, strayed>>
      /\ faults \in Nat /\ strayed \in BOOLEAN /\ req[w] \in WriteRequests
  BY DEF Dispatch, WriteInv, WriteTypes
<1>2. CASE ~ok
  <2>1. Goto(w, "mark") /\ faults' \in Nat /\ tasks' = tasks
    BY <1>1, <1>2 DEF Dispatch, Fault
  <2> QED BY <1>1, <2>1, AfterKeeps
<1>3. CASE ok
  <2>1. Goto(w, "persist") /\ faults' = faults /\ tasks' = tasks \cup {t}
    BY <1>3 DEF Dispatch
  <2>2. t \in Jobs /\ t.kind = "ingest" /\ t.pc = "queued" /\ t.text = req[w].hash /\ t.title = req[w].title
    BY <1>1 DEF Jobs, WriteRequests
  <2> HIDE DEF t
  <2> QED BY <1>1, <2>1, <2>2, AfterKeeps
<1> QED BY <1>2, <1>3

\* The three commits.
LEMMA CommitCreateKeeps ==
  ASSUME WriteSetting, WriteInv, NEW w \in Writers, NEW gone \in BOOLEAN, CommitCreate(w, gone)
  PROVE  WriteInv'
<1> DEFINE r == req[w]
<1>1. /\ r.pc = "commit" /\ lock # w /\ UNCHANGED <<lock, tasks, index, writes, bare, overrun>>
      /\ faults \in Nat /\ writes \in Nat /\ bare \in BOOLEAN /\ strayed \in BOOLEAN /\ r \in WriteRequests /\ Creates(w)
  BY DEF CommitCreate, WriteInv, WriteTypes, Creates
<1>2. CASE doc.there
  <2>1. /\ Move(w, NoWrite) /\ doc' = doc
        /\ \/ obj' = obj \ {r.stored} /\ UNCHANGED <<faults, strayed>>
           \/ faults' = faults + 1 /\ strayed' = TRUE /\ UNCHANGED obj
    BY <1>2 DEF CommitCreate, Answer, Discard, Fault
  <2>2. obj' \subseteq obj /\ faults' \in Nat /\ \A u \in obj : u \in obj' \/ u = r.stored
    BY <1>1, <2>1
  <2>3. strayed' \in BOOLEAN /\ (strayed => strayed')
    <3>1. strayed' = strayed \/ strayed' = TRUE
      BY <2>1
    <3>2. strayed \in BOOLEAN
      BY <1>1
    <3>3. strayed' \in BOOLEAN
      BY <3>1, <3>2
    <3>4. strayed => strayed'
      BY <3>1
    <3> QED BY <3>3, <3>4
  <2>4. ~strayed' => r.stored \notin obj'
    BY <2>1
  <2> QED BY <1>1, <2>1, <2>2, <2>3, <2>4, EndKeeps
<1>3. CASE ~doc.there
  <2>1. /\ Goto(w, "dispatch") /\ UNCHANGED <<obj, faults, strayed>>
        /\ doc' = [NoRow EXCEPT !.there = TRUE, !.key = r.n, !.hash = r.hash, !.title = r.title, !.url = r.stored]
    BY <1>3 DEF CommitCreate
  <2>2. /\ doc = NoRow /\ tasks = {} /\ lock = Nobody /\ Nobody \notin Writers
        /\ \A x \in Writers : ~Committed(x) /\ req[x].pc # "persist"
    BY <1>3 DEF WriteInv, Absent, LockHeld, WriteSetting
  <2>3. /\ doc' \in WriteRows /\ doc'.there /\ doc'.key = r.n /\ doc'.hash = r.hash /\ doc'.title = r.title /\ doc'.url = r.stored
        /\ doc'.status = "PENDING"
    BY <1>1, <2>1, <2>2 DEF WriteRows, NoRow, WriteRequests, Urls
  <2>4. /\ \A x \in Writers : x # w => req'[x] = req[x]
        /\ req'[w].pc = "dispatch" /\ req'[w].n = r.n /\ req'[w].hash = r.hash /\ req'[w].title = r.title
        /\ req' \in [Writers -> WriteRequests]
    BY <2>1, GotoIs
  <2>5. ~Creates(w)' /\ \A x \in Writers : x # w => (Creates(x)' <=> Creates(x))
    BY <1>1, <2>4 DEF Creates
  <2>6. WriteTypes'
    BY <1>1, <2>1, <2>3, <2>4 DEF WriteInv, WriteTypes
  <2>7. LockHeld'
    BY <1>1, <2>2, <2>4 DEF WriteInv, LockHeld
  <2>8. Numbered'
    <3>1. r.n \in Nat /\ r.n <= writes
      BY <1>1 DEF WriteInv, Numbered, WriteRequests
    <3>2. \A x \in Writers : req'[x].n = req[x].n /\ req'[x].hash = req[x].hash /\ (req'[x].pc # "idle" => req[x].pc # "idle")
      BY <1>1, <2>4
    <3>3. \A x \in Writers : req'[x].pc = "upsert" \/ Creates(x)' => x # w /\ req[x].pc # "idle"
      BY <2>4, <2>5 DEF Creates
    <3>4. \A x \in Writers : req'[x].pc = "upsert" \/ Creates(x)' => req'[x].n # r.n
      BY <1>1, <3>2, <3>3 DEF WriteInv, Numbered
    <3> QED BY <1>1, <2>3, <3>1, <3>2, <3>4 DEF WriteInv, Numbered
  <2>9. Absent' /\ JobsFit'
    BY <1>1, <2>3 DEF WriteInv, Absent, JobsFit
  <2>10. UrlForm'
    BY <1>1, <2>3 DEF WriteInv, Holder, UrlForm
  <2>11. Holder'
    <3>1. \A x \in Writers : x # w => LET q == req'[x] IN
            /\ q.pc \in {"upsert", "purge", "store", "retitle"} => q.stored = NoUrl
            /\ Creates(x)' => q.new /\ q.stored \in {NoUrl, <<q.n, 0>>}
            /\ lock' # x /\ q.pc # "discard"
      BY <1>1, <2>2, <2>4, <2>5 DEF WriteInv, Holder, Committed
    <3> QED BY <1>1, <2>4, <2>5, <3>1 DEF Holder
  <2>12. MineKept'
    BY <2>1, <2>4, <2>5 DEF WriteInv, MineKept
  <2>13. Kept'
    <3>1. r.stored # NoUrl => r.stored \in obj
      BY <1>1 DEF WriteInv, MineKept
    <3>2. \A x \in Writers : req'[x].pc # "discard"
      BY <2>2, <2>4 DEF Committed
    <3> QED BY <1>1, <2>1, <2>2, <2>3, <3>1, <3>2 DEF Kept
  <2>14. Accounted => Accounted'
    <3>1. doc.url \notin obj
      BY <2>2, NoWriteIs DEF NoRow, WriteInv, WriteTypes
    <3>2. \A x \in Writers : req[x].pc # "discard"
      BY <2>2 DEF Committed
    <3> QED BY <2>1, <2>3, <2>4, <3>1, <3>2 DEF Accounted
  <2>15. Matches'
    <3>1. \A x \in Writers : Committed(x)' => x = w
      BY <2>2, <2>4 DEF Committed
    <3> QED BY <1>1, <2>2, <2>3, <2>4, <3>1 DEF Matches
  <2>16. Found'
    BY <2>3 DEF Found
  <2> QED BY <1>1, <2>1, <2>6, <2>7, <2>8, <2>9, <2>10, <2>11, <2>12, <2>13, <2>14, <2>15, <2>16 DEF WriteInv
<1> QED BY <1>2, <1>3

\* A replacement commits what it decided when it took the row.
LEMMA CommitReplaceKeeps ==
  ASSUME WriteSetting, WriteInv, NEW w \in Writers, CommitReplace(w)
  PROVE  WriteInv'
<1> DEFINE r == req[w]
           u == IF r.new THEN r.stored ELSE doc.url
           p == IF r.new /\ r.old # NoUrl /\ r.old # r.stored THEN "discard" ELSE "dispatch"
<1>1. /\ r.pc = "commit" /\ lock = w /\ lock' = Nobody /\ Goto(w, p)
      /\ doc' = [doc EXCEPT !.title = r.title, !.status = "PENDING", !.task = FALSE, !.age = 0, !.hash = r.hash, !.url = u]
      /\ UNCHANGED <<obj, tasks, index, writes, faults, bare, overrun, strayed>>
  BY DEF CommitReplace
<1>2. /\ doc \in WriteRows /\ r \in WriteRequests /\ doc.there /\ Nobody \notin Writers /\ r.old = doc.url /\ (r.new <=> r.hash # doc.hash)
      /\ r.stored = NoUrl \/ (r.new /\ r.stored = <<doc.key, r.hash>>)
  BY <1>1 DEF WriteInv, WriteTypes, LockHeld, Holder, WriteSetting
<1>3. u \in Urls /\ p \in {"discard", "dispatch"}
  BY <1>2 DEF WriteRequests, WriteRows
<1>4. /\ doc' \in WriteRows /\ doc'.there /\ doc'.key = doc.key /\ doc'.hash = r.hash /\ doc'.title = r.title /\ doc'.url = u
      /\ doc'.status = "PENDING"
  <2> HIDE DEF u
  <2> QED BY <1>1, <1>2, <1>3 DEF WriteRows, WriteRequests
<1>5. /\ \A x \in Writers : x # w => req'[x] = req[x]
      /\ req'[w].pc = p /\ req'[w].n = r.n /\ req'[w].hash = r.hash /\ req'[w].title = r.title /\ req'[w].old = r.old
      /\ req' \in [Writers -> WriteRequests]
  <2> HIDE DEF p
  <2> QED BY <1>1, <1>3, GotoIs
<1>6. (\A x \in Writers : x # w => (Creates(x)' <=> Creates(x)) /\ lock # x) /\ ~Creates(w)'
  BY <1>1, <1>2, <1>3, <1>5 DEF Creates
<1>7. WriteTypes'
  BY <1>1, <1>4, <1>5 DEF WriteInv, WriteTypes
<1>8. LockHeld'
  BY <1>1, <1>3, <1>5, <1>6 DEF WriteInv, LockHeld
<1>9. Numbered'
  <2>1. \A x \in Writers : req'[x].n = req[x].n /\ req'[x].hash = req[x].hash /\ (req'[x].pc # "idle" => req[x].pc # "idle")
    BY <1>1, <1>5
  <2>2. \A x \in Writers : req'[x].pc = "upsert" \/ Creates(x)' => req[x].pc = "upsert" \/ Creates(x)
    BY <1>3, <1>5, <1>6
  <2> QED BY <1>1, <1>2, <1>4, <2>1, <2>2 DEF WriteInv, Numbered
<1>10. Absent' /\ JobsFit'
  BY <1>1, <1>4 DEF WriteInv, Absent, JobsFit
<1>11. UrlForm'
  BY <1>2, <1>4 DEF WriteInv, UrlForm
<1>12. p = "discard" => \E y \in Hashes \cup {0, Nobody} : r.old = <<doc.key, y>>
  BY <1>2 DEF WriteInv, UrlForm, WriteRows
<1>13. Holder'
  <2>1. \A x \in Writers : x # w => LET q == req'[x] IN
          /\ q.pc \in {"upsert", "purge", "store", "retitle"} => q.stored = NoUrl
          /\ Creates(x)' => q.new /\ q.stored \in {NoUrl, <<q.n, 0>>}
          /\ q.pc = "discard" => \E y \in Hashes \cup {0, Nobody} : q.old = <<doc'.key, y>>
    BY <1>4, <1>5, <1>6 DEF WriteInv, Holder
  <2>2. \A x \in Writers : lock' # x
    BY <1>1, <1>2
  <2> HIDE DEF p
  <2> QED BY <1>3, <1>4, <1>5, <1>6, <1>12, <2>1, <2>2 DEF Holder
<1>14. MineKept'
  BY <1>1, <1>5, <1>6 DEF WriteInv, MineKept
<1>15. Kept => Kept'
  <2> SUFFICES ASSUME Kept PROVE Kept'
    OBVIOUS
  <2>1. u # NoUrl => u \in obj
    BY <1>1, <1>2 DEF Kept
  <2>2. \A x \in Writers : req'[x].pc = "discard" => x = w
    BY <1>1, <1>2, <1>5 DEF Kept, Alive
  <2>3. p = "discard" => r.old # u
    OBVIOUS
  <2> QED BY <1>1, <1>4, <1>5, <2>1, <2>2, <2>3 DEF Kept
<1>16. Accounted => Accounted'
  <2> SUFFICES ASSUME Accounted, NEW o \in obj
               PROVE  o = u \/ \E x \in Writers : (req'[x].pc = "commit" /\ req'[x].stored = o) \/ (req'[x].pc = "discard" /\ req'[x].old = o)
    BY <1>1, <1>4 DEF Accounted
  <2>1. o # NoUrl
    BY NoWriteIs DEF WriteInv, WriteTypes
  <2>2. CASE o = doc.url
    <3>1. CASE r.new /\ r.old # r.stored
      BY <1>2, <1>5, <2>1, <2>2, <3>1
    <3>2. CASE ~(r.new /\ r.old # r.stored)
      BY <1>2, <2>2, <3>2
    <3> QED BY <3>1, <3>2
  <2>3. CASE r.stored = o
    BY <1>2, <2>1, <2>3
  <2>4. ASSUME NEW x \in Writers, x # w, (req[x].pc = "commit" /\ req[x].stored = o) \/ (req[x].pc = "discard" /\ req[x].old = o)
        PROVE  req'[x] = req[x]
    BY <1>5, <2>4
  <2> QED BY <1>1, <2>2, <2>3, <2>4 DEF Accounted
<1>17. Kept => Matches'
  <2> SUFFICES ASSUME Kept PROVE Matches'
    OBVIOUS
  <2>1. tasks = {} /\ \A x \in Writers : ~Committed(x)
    BY <1>1, <1>2 DEF Kept, Alive, Committed
  <2>2. \A x \in Writers : Committed(x)' => x = w
    BY <1>5, <2>1 DEF Committed
  <2> QED BY <1>1, <1>4, <1>5, <2>1, <2>2 DEF Matches
<1>18. Found'
  BY <1>4 DEF Found
<1> QED BY <1>1, <1>7, <1>8, <1>9, <1>10, <1>11, <1>13, <1>14, <1>15, <1>16, <1>17, <1>18 DEF WriteInv

\* A title is committed, then enqueued.
LEMMA TitleKeeps ==
  ASSUME WriteSetting, WriteInv, NEW w \in Writers, NEW ok \in BOOLEAN, UpdateMetadataOnly(w, ok)
  PROVE  WriteInv'
<1> DEFINE r == req[w]
           t == [kind |-> "title", n |-> r.n, title |-> r.title, text |-> Nobody, url |-> NoUrl, pc |-> "queued"]
<1>1. /\ r.pc = "retitle" /\ lock = w /\ lock' = Nobody /\ doc' = [doc EXCEPT !.title = r.title, !.age = 0] /\ Move(w, NoWrite)
      /\ UNCHANGED <<obj, index, writes, bare, overrun>>
      /\ \/ tasks' = tasks \cup {t} /\ UNCHANGED <<faults, strayed>>
         \/ faults' = faults + 1 /\ strayed' = TRUE /\ UNCHANGED tasks
  BY DEF UpdateMetadataOnly, Answer, Fault
<1>2. /\ doc \in WriteRows /\ r \in WriteRequests /\ doc.there /\ Nobody \notin Writers /\ faults \in Nat /\ strayed \in BOOLEAN
      /\ tasks \subseteq Jobs /\ index \subseteq [text : Hashes \cup {Nobody}, title : Titles \cup {Nobody}]
  BY <1>1 DEF WriteInv, WriteTypes, LockHeld, WriteSetting
<1>3. /\ doc' \in WriteRows /\ doc'.there /\ doc'.key = doc.key /\ doc'.hash = doc.hash /\ doc'.title = r.title /\ doc'.url = doc.url
      /\ doc'.status = doc.status
  BY <1>1, <1>2 DEF WriteRows, WriteRequests
<1>4. t \in Jobs /\ t.kind = "title" /\ t.title = r.title /\ t.pc = "queued"
  BY <1>2 DEF Jobs, WriteRequests, Urls
<1> HIDE DEF t
<1>5. tasks' \subseteq Jobs /\ faults' \in Nat /\ tasks \subseteq tasks' /\ \A x \in tasks' : x \in tasks \/ x = t
  BY <1>1, <1>2, <1>4
<1>6. strayed' \in BOOLEAN /\ (strayed => strayed')
  <2>1. strayed' = strayed \/ strayed' = TRUE
    BY <1>1
  <2>2. strayed \in BOOLEAN
    BY <1>2
  <2>3. strayed' \in BOOLEAN
    BY <2>1, <2>2
  <2>4. strayed => strayed'
    BY <2>1
  <2> QED BY <2>3, <2>4
<1>7. req'[w] = NoWrite /\ (\A x \in Writers : x # w => req'[x] = req[x]) /\ NoWrite.pc = "idle" /\ req' \in [Writers -> WriteRequests]
  BY <1>1, MoveIs, NoWriteIs DEF WriteInv, WriteTypes, Move
<1>8. \A x \in Writers : req'[x].pc # "idle" => x # w /\ req'[x] = req[x]
  BY <1>7
<1>9. \A x \in Writers : Creates(x)' => x # w /\ Creates(x)
  BY <1>1, <1>7 DEF Creates
<1>10. WriteTypes'
  BY <1>1, <1>2, <1>3, <1>5, <1>6, <1>7 DEF WriteInv, WriteTypes
<1>11. LockHeld'
  BY <1>1, <1>2, <1>8 DEF WriteInv, LockHeld
<1>12. Numbered'
  <2>1. \A x \in Writers : req'[x].pc = "upsert" \/ Creates(x)' => x # w /\ req'[x] = req[x] /\ (req[x].pc = "upsert" \/ Creates(x))
    BY <1>7, <1>9
  <2> QED BY <1>1, <1>2, <1>3, <1>8, <2>1 DEF WriteInv, Numbered
<1>13. Absent' /\ JobsFit'
  BY <1>3, <1>4, <1>5 DEF WriteInv, Absent, JobsFit
<1>14. UrlForm'
  BY <1>2, <1>3 DEF WriteInv, UrlForm
<1>15. Holder'
  <2>1. \A x \in Writers : x # w => LET q == req'[x] IN
          /\ q.pc \in {"upsert", "purge", "store", "retitle"} => q.stored = NoUrl
          /\ Creates(x)' => q.new /\ q.stored \in {NoUrl, <<q.n, 0>>}
          /\ q.pc = "discard" => \E y \in Hashes \cup {0, Nobody} : q.old = <<doc'.key, y>>
    BY <1>3, <1>7, <1>9 DEF WriteInv, Holder
  <2>2. \A x \in Writers : lock' # x
    BY <1>1, <1>2
  <2> QED BY <1>7, <1>9, <2>1, <2>2 DEF Holder
<1>16. MineKept'
  BY <1>1, <1>7, <1>9 DEF WriteInv, MineKept
<1>17. Kept => Kept'
  BY <1>1, <1>3, <1>8 DEF Kept
<1>18. Accounted => Accounted'
  BY <1>1, <1>3, <1>7 DEF Accounted
<1>19. Kept => Matches'
  <2> SUFFICES ASSUME Kept PROVE Matches'
    OBVIOUS
  <2>1. tasks = {} /\ \A x \in Writers : ~Committed(x)
    BY <1>1, <1>2 DEF Kept, Alive, Committed
  <2>2. \A x \in Writers : ~Committed(x)'
    BY <1>8, <2>1 DEF Committed
  <2> QED BY <1>3, <1>4, <1>5, <2>1, <2>2 DEF Matches
<1>20. ~strayed' /\ Found => Found'
  <2> SUFFICES ASSUME ~strayed', Found, doc.status = "SUCCESS"
               PROVE  \E i \in index : index = {i} /\ i.text = doc.hash /\ \E x \in tasks' : x.kind = "title"
    BY <1>1, <1>3 DEF Found
  <2>1. ~Purged
    BY <1>1 DEF Purged
  <2>2. t \in tasks'
    BY <1>1
  <2> QED BY <1>4, <2>1, <2>2 DEF Found
<1> QED BY <1>1, <1>6, <1>10, <1>11, <1>12, <1>13, <1>14, <1>15, <1>16, <1>17, <1>18, <1>19, <1>20 DEF WriteInv

\* A request that fails to commit, or that ends where it is.
LEMMA CommitFailsKeeps ==
  ASSUME WriteSetting, WriteInv, NEW w \in Writers, NEW gone \in BOOLEAN, CommitFails(w, gone)
  PROVE  WriteInv'
<1>1. /\ req[w].pc = "commit" /\ lock' = (IF lock = w THEN Nobody ELSE lock) /\ bare' = (bare \/ lock = w) /\ Move(w, NoWrite)
      /\ faults' = faults + 1 /\ obj' = (IF gone THEN obj \ {req[w].stored} ELSE obj) /\ strayed' = (strayed \/ ~gone)
      /\ UNCHANGED <<doc, tasks, index, writes, overrun>>
  BY DEF CommitFails, Answer
<1>2. faults \in Nat /\ writes \in Nat
  BY DEF WriteInv, WriteTypes
<1>3. /\ bare' \in BOOLEAN /\ (bare => bare') /\ (~bare' => lock # w)
      /\ strayed' \in BOOLEAN /\ (strayed => strayed') /\ (~strayed' => gone)
  BY <1>1
<1>4. faults' \in Nat /\ obj' \subseteq obj /\ (\A o \in obj : o \in obj' \/ o = req[w].stored) /\ (gone => req[w].stored \notin obj')
  BY <1>1, <1>2
<1> QED BY <1>1, <1>2, <1>3, <1>4, EndKeeps

\* A process may end anywhere.
LEMMA CrashKeeps ==
  ASSUME WriteSetting, WriteInv, NEW w \in Writers, WriterDies(w)
  PROVE  WriteInv'
<1>1. /\ lock' = (IF lock = w THEN Nobody ELSE lock) /\ Move(w, NoWrite) /\ faults' = faults + 1
      /\ bare' = (bare \/ (lock = w /\ req[w].pc \in {"store", "commit"}))
      /\ strayed' = (strayed \/ req[w].pc = "discard" \/ (req[w].pc = "commit" /\ req[w].stored # NoUrl))
      /\ UNCHANGED <<doc, obj, tasks, index, writes, overrun>>
  BY DEF WriterDies, Answer, Fault
<1>2. faults \in Nat /\ writes \in Nat /\ NoUrl \notin obj
  BY NoWriteIs DEF WriteInv, WriteTypes
<1>3. /\ bare' \in BOOLEAN /\ (bare => bare') /\ (~bare' => ~(lock = w /\ req[w].pc \in {"store", "commit"}))
      /\ strayed' \in BOOLEAN /\ (strayed => strayed') /\ (~strayed' => req[w].pc # "discard" /\ (req[w].pc = "commit" => req[w].stored = NoUrl))
  BY <1>1
<1> QED BY <1>1, <1>2, <1>3, EndKeeps

----------------------------------------------------------------------------
\* What a request writes after its commit is not what it wrote.
LEMMA MarkKeeps ==
  ASSUME WriteSetting, WriteInv, NEW w \in Writers, MarkEnqueueFailed(w) \/ PersistTaskId(w)
  PROVE  WriteInv'
<1>1. /\ req[w].pc \in {"mark", "persist"} /\ lock = Nobody /\ Move(w, NoWrite)
      /\ UNCHANGED <<obj, lock, tasks, index, writes, faults, bare, overrun, strayed>>
      /\ \/ doc' = [doc EXCEPT !.status = "FAILED", !.age = 0]
         \/ doc' = [doc EXCEPT !.task = TRUE, !.age = 0]
  BY DEF MarkEnqueueFailed, PersistTaskId, Unlocked, Answer
<1>2. /\ doc \in WriteRows /\ doc.there /\ req \in [Writers -> WriteRequests] /\ faults \in Nat /\ tasks \subseteq Jobs
      /\ index \subseteq [text : Hashes \cup {Nobody}, title : Titles \cup {Nobody}]
      /\ \A t \in tasks : t.pc = "running" => t.kind = "ingest"
  BY <1>1 DEF WriteInv, WriteTypes, Absent, Committed, JobsFit
<1>3. /\ doc' \in WriteRows /\ doc'.there /\ doc'.key = doc.key /\ doc'.hash = doc.hash /\ doc'.title = doc.title /\ doc'.url = doc.url
      /\ doc'.status \in {doc.status, "FAILED"}
  <2>1. CASE doc' = [doc EXCEPT !.status = "FAILED", !.age = 0]
    BY <1>2, <2>1 DEF WriteRows
  <2>2. CASE doc' = [doc EXCEPT !.task = TRUE, !.age = 0]
    BY <1>2, <2>2 DEF WriteRows
  <2> QED BY <1>1, <2>1, <2>2
<1>4. req' \in [Writers -> WriteRequests] /\ \A x \in Writers : req'[x] = req[x] \/ (req'[x] = NoWrite /\ req[x].pc \in {"mark", "persist"})
  <2>1. req' \in [Writers -> WriteRequests]
    BY <1>1, <1>2, NoWriteIs DEF Move
  <2> QED BY <1>1, <2>1, MoveIs
<1>5. Found => Found'
  BY <1>1, <1>3 DEF Found, Purged
<1>6. ~overrun /\ ~bare /\ ~strayed => Found'
  BY <1>5 DEF WriteInv
<1> QED BY <1>1, <1>2, <1>3, <1>4, <1>6, RowKeeps

\* The worker, the user interface and the clock.
LEMMA OthersKeep ==
  ASSUME WriteSetting, WriteInv, Others
  PROVE  WriteInv'
<1>1. /\ doc \in WriteRows /\ req \in [Writers -> WriteRequests] /\ faults \in Nat /\ tasks \subseteq Jobs
      /\ index \subseteq [text : Hashes \cup {Nobody}, title : Titles \cup {Nobody}]
      /\ \A t \in tasks : t.pc = "running" => t.kind = "ingest"
      /\ tasks # {} => doc.there
  BY DEF WriteInv, WriteTypes, Absent, JobsFit
<1>2. ASSUME NEW t \in tasks, TaskBegins(t) PROVE WriteInv'
  <2>1. /\ t.kind = "ingest" /\ lock = Nobody /\ tasks' = (tasks \ {t}) \cup {[t EXCEPT !.pc = "running"]}
        /\ doc' = [doc EXCEPT !.status = "PROCESSING", !.age = 0]
        /\ UNCHANGED <<obj, req, lock, index, writes, faults, bare, overrun, strayed>>
    BY <1>2 DEF TaskBegins, Unlocked
  <2>2. /\ doc' \in WriteRows /\ doc'.there /\ doc'.key = doc.key /\ doc'.hash = doc.hash /\ doc'.title = doc.title /\ doc'.url = doc.url
        /\ doc'.status = "PROCESSING"
    BY <1>1, <2>1 DEF WriteRows
  <2>3. PICK u : u = [t EXCEPT !.pc = "running"]
    OBVIOUS
  <2>4. u \in Jobs /\ u.kind = t.kind /\ u.title = t.title /\ u.text = t.text
    BY <1>1, <2>3 DEF Jobs
  <2>5. tasks' \subseteq Jobs /\ \A x \in tasks' : x = u \/ x \in tasks
    BY <1>1, <2>1, <2>3, <2>4
  <2>6. \A x \in tasks' : (x.pc = "running" => x.kind = "ingest") /\ \E y \in tasks : y.kind = x.kind /\ y.title = x.title /\ y.text = x.text
    BY <1>1, <2>1, <2>4, <2>5
  <2>7. Found'
    BY <2>2 DEF Found
  <2> QED BY <1>1, <2>1, <2>2, <2>5, <2>6, <2>7, RowKeeps
<1>3. ASSUME NEW t \in tasks, NEW ok \in BOOLEAN, TaskEnds(t, ok) PROVE WriteInv'
  <2> DEFINE good == ok /\ (t.url = NoUrl \/ t.url \in obj)
             s == IF good THEN "SUCCESS" ELSE "FAILED"
  <2>1. /\ t.pc = "running" /\ lock = Nobody /\ tasks' = tasks \ {t} /\ doc' = [doc EXCEPT !.status = s, !.age = 0]
        /\ index' = (IF good THEN {[text |-> t.text, title |-> t.title]} ELSE index)
        /\ UNCHANGED <<obj, req, lock, writes, bare, overrun, strayed>> /\ faults' \in Nat
    BY <1>1, <1>3 DEF TaskEnds, Unlocked, Fault
  <2>2. s \in {"SUCCESS", "FAILED"} /\ (s = "SUCCESS" => good)
    OBVIOUS
  <2>3. /\ doc' \in WriteRows /\ doc'.there /\ doc'.key = doc.key /\ doc'.hash = doc.hash /\ doc'.title = doc.title /\ doc'.url = doc.url
        /\ doc'.status = s
    <3> HIDE DEF s
    <3> QED BY <1>1, <2>1, <2>2 DEF WriteRows
  <2>4. index' \subseteq [text : Hashes \cup {Nobody}, title : Titles \cup {Nobody}]
    BY <1>1, <2>1 DEF Jobs
  <2>5. ~overrun => t.title = doc.title /\ t.text = doc.hash
    BY <1>1, <2>1 DEF WriteInv, Matches
  <2>6. ~overrun => Found'
    <3> SUFFICES ASSUME ~overrun, s = "SUCCESS" PROVE \E i \in index' : index' = {i} /\ i.text = doc.hash /\ i.title = doc.title
      BY <2>3 DEF Found
    <3>1. index' = {[text |-> t.text, title |-> t.title]}
      BY <2>1, <2>2
    <3> QED BY <2>5, <3>1
  <2>7. tasks' \subseteq Jobs /\ \A x \in tasks' : x \in tasks
    BY <1>1, <2>1
  <2> HIDE DEF s, good
  <2> QED BY <1>1, <2>1, <2>3, <2>4, <2>6, <2>7, RowKeeps
<1>4. ASSUME NEW t \in tasks, TitleSet(t) PROVE WriteInv'
  <2>1. /\ t.kind = "title" /\ tasks' = tasks \ {t} /\ index' = {[i EXCEPT !.title = t.title] : i \in index}
        /\ UNCHANGED <<doc, obj, req, lock, writes, faults, bare, overrun, strayed>>
    BY <1>4 DEF TitleSet
  <2>2. t.title \in Titles \cup {Nobody}
    BY <1>1 DEF Jobs
  <2>3. \A i \in index : /\ [i EXCEPT !.title = t.title] \in [text : Hashes \cup {Nobody}, title : Titles \cup {Nobody}]
                         /\ [i EXCEPT !.title = t.title].text = i.text /\ [i EXCEPT !.title = t.title].title = t.title
    BY <1>1, <2>2
  <2>4. WriteTypes'
    BY <2>1, <2>3 DEF WriteInv, WriteTypes
  <2>5. /\ LockHeld' /\ Absent' /\ UrlForm' /\ MineKept' /\ JobsFit'
    BY <2>1 DEF WriteInv, LockHeld, Absent, UrlForm, MineKept, JobsFit, Creates, Committed
  <2>6. Numbered' /\ Holder'
    BY <2>1 DEF WriteInv, Numbered, Holder, Creates
  <2>7. (Kept => Kept') /\ (Accounted => Accounted') /\ (Matches => Matches')
    BY <2>1 DEF Kept, Alive, Accounted, Matches, Committed
  <2>8. Matches /\ Found => Found'
    <3> SUFFICES ASSUME Matches, Found, doc.status = "SUCCESS", ~Purged
                 PROVE  \E i \in index' : index' = {i} /\ i.text = doc.hash /\ i.title = doc.title
      BY <2>1 DEF Found, Purged
    <3>1. PICK i \in index : index = {i} /\ i.text = doc.hash
      BY DEF Found
    <3>2. PICK j : j = [i EXCEPT !.title = t.title]
      OBVIOUS
    <3>3. j.text = i.text /\ j.title = t.title
      BY <2>3, <3>2
    <3>4. index' = {j}
      BY <2>1, <3>1, <3>2
    <3>5. t.title = doc.title
      BY DEF Matches
    <3> QED BY <3>1, <3>3, <3>4, <3>5
  <2> QED BY <2>1, <2>4, <2>5, <2>6, <2>7, <2>8 DEF WriteInv
<1>5. ASSUME NEW left \in SUBSET tasks, Cancel(left) PROVE WriteInv'
  <2>1. /\ doc.there /\ lock = Nobody /\ faults' = faults + 1 /\ doc' = [doc EXCEPT !.status = "CANCELLED", !.age = 0] /\ tasks' = left
        /\ UNCHANGED <<obj, req, lock, index, writes, bare, overrun, strayed>>
    BY <1>5 DEF Cancel, Unlocked, Fault
  <2>2. /\ doc' \in WriteRows /\ doc'.there /\ doc'.key = doc.key /\ doc'.hash = doc.hash /\ doc'.title = doc.title /\ doc'.url = doc.url
        /\ doc'.status = "CANCELLED"
    BY <1>1, <2>1 DEF WriteRows
  <2>3. Found' /\ faults' \in Nat /\ tasks' \subseteq Jobs /\ \A x \in tasks' : x \in tasks
    BY <1>1, <2>1, <2>2 DEF Found
  <2> QED BY <1>1, <2>1, <2>2, <2>3, RowKeeps
<1>6. ASSUME Ages \/ \E own, edit \in SUBSET Masks : Limits(own, edit) PROVE WriteInv'
  <2> DEFINE Same == /\ doc.there /\ lock = Nobody /\ UNCHANGED <<obj, req, lock, tasks, index, writes, bare, overrun, strayed>> /\ faults' \in Nat
             Touched == /\ doc' \in WriteRows /\ doc'.there /\ doc'.key = doc.key /\ doc'.hash = doc.hash /\ doc'.title = doc.title
                        /\ doc'.url = doc.url /\ doc'.status = doc.status
  <2>1. ASSUME Ages PROVE Same /\ Touched
    <3>1. Same /\ doc' = [doc EXCEPT !.age = @ + 1]
      BY <1>1, <2>1 DEF Ages, Unlocked
    <3>2. Touched
      BY <1>1, <3>1 DEF WriteRows
    <3> QED BY <3>1, <3>2
  <2>2. ASSUME NEW own \in SUBSET Masks, NEW edit \in SUBSET Masks, Limits(own, edit) PROVE Same /\ Touched
    <3>1. Same /\ doc' = [doc EXCEPT !.own = own, !.edit = edit, !.age = 0]
      BY <1>1, <2>2 DEF Limits, Unlocked, Fault
    <3>2. Touched
      BY <1>1, <3>1 DEF WriteRows
    <3> QED BY <3>1, <3>2
  <2>3. Same /\ Touched
    BY <1>6, <2>1, <2>2
  <2>4. Found => Found'
    BY <2>3 DEF Found, Purged
  <2>5. ~overrun /\ ~bare /\ ~strayed => Found'
    BY <2>4 DEF WriteInv
  <2> QED BY <1>1, <2>3, <2>5, RowKeeps
<1> QED BY <1>2, <1>3, <1>4, <1>5, <1>6 DEF Others

LEMMA InitWriteInv == ASSUME WriteSetting, WriteInit PROVE WriteInv
<1>1. /\ req = [w \in Writers |-> NoWrite] /\ lock = Nobody /\ tasks = {} /\ writes = 0 /\ faults = 0
      /\ bare = FALSE /\ overrun = FALSE /\ strayed = FALSE /\ Nobody \notin Writers
  BY DEF WriteInit, WriteSetting
<1>2. (\A w \in Writers : req[w] = NoWrite) /\ NoWrite.pc = "idle" /\ req \in [Writers -> WriteRequests]
  BY <1>1, NoWriteIs
<1>3. LockHeld /\ MineKept /\ JobsFit /\ Holder /\ Matches /\ \A w \in Writers : ~Creates(w) /\ ~Committed(w)
  BY <1>1, <1>2 DEF LockHeld, MineKept, JobsFit, Holder, Matches, Creates, Committed
<1>4. CASE doc = NoRow /\ obj = {} /\ index = {}
  <2>1. doc \in WriteRows /\ ~doc.there /\ doc.url = NoUrl /\ doc.status = "PENDING"
    BY <1>4 DEF NoRow, WriteRows, Urls
  <2>2. WriteTypes
    <3>1. obj \subseteq Objects /\ index \subseteq [text : Hashes \cup {Nobody}, title : Titles \cup {Nobody}] /\ tasks \subseteq Jobs
      BY <1>1, <1>4
    <3> QED BY <1>1, <1>2, <2>1, <3>1 DEF WriteTypes
  <2>3. Numbered /\ Absent /\ UrlForm /\ Kept /\ Accounted /\ Found
    BY <1>1, <1>2, <1>3, <1>4, <2>1 DEF Numbered, Absent, UrlForm, Kept, Accounted, Found
  <2> QED BY <1>3, <2>2, <2>3 DEF WriteInv
<1>5. ASSUME NEW v \in Versions, NEW url \in {NoUrl, <<0, 0>>, <<0, v[1]>>}, Before(v, url) PROVE WriteInv
  <2>1. /\ doc = [NoRow EXCEPT !.there = TRUE, !.key = 0, !.hash = v[1], !.title = v[2], !.url = url, !.status = "SUCCESS", !.task = TRUE]
        /\ obj = {url} \ {NoUrl} /\ index = {[text |-> v[1], title |-> v[2]]}
    BY <1>5 DEF Before
  <2>2. v[1] \in Hashes /\ v[2] \in Titles
    BY DEF Hashes, Titles
  <2>3. url \in Urls /\ (url # NoUrl => url \in Objects)
    BY <2>2 DEF Urls, Objects
  <2>4. /\ doc \in WriteRows /\ doc.there /\ doc.key = 0 /\ doc.hash = v[1] /\ doc.title = v[2] /\ doc.url = url
    BY <2>1, <2>2, <2>3 DEF WriteRows, NoRow
  <2>5. WriteTypes
    <3>1. obj \subseteq Objects /\ tasks \subseteq Jobs
      BY <1>1, <2>1, <2>3
    <3>2. index \subseteq [text : Hashes \cup {Nobody}, title : Titles \cup {Nobody}]
      BY <2>1, <2>2
    <3> QED BY <1>1, <1>2, <2>4, <3>1, <3>2 DEF WriteTypes
  <2>6. Numbered /\ Absent /\ UrlForm
    BY <1>1, <1>2, <1>3, <1>5, <2>4 DEF Numbered, Absent, UrlForm
  <2>7. Kept /\ Accounted
    BY <1>1, <1>2, <2>1, <2>4 DEF Kept, Accounted
  <2>8. Found
    BY <2>1, <2>4 DEF Found
  <2> QED BY <1>3, <2>5, <2>6, <2>7, <2>8 DEF WriteInv
<1>6. (CHOOSE v \in Versions : TRUE) \in Versions
  BY DEF WriteSetting
<1> QED BY <1>4, <1>5, <1>6 DEF WriteInit

LEMMA StepWriteInv == WriteSetting /\ WriteInv /\ [WriteNext]_write_vars => WriteInv'
<1> SUFFICES ASSUME WriteSetting, WriteInv, [WriteNext]_write_vars PROVE WriteInv'
  OBVIOUS
<1>1. CASE UNCHANGED write_vars
  <2>1. UNCHANGED <<doc, obj, req, lock, tasks, index, writes, faults, bare, overrun, strayed>>
    BY <1>1 DEF write_vars
  <2> QED BY <2>1 DEF WriteInv, WriteTypes, LockHeld, Numbered, Absent, UrlForm, Holder, MineKept, JobsFit, Accounted,
              Kept, Alive, Matches, Found, Purged, Creates, Committed
<1>2. ASSUME NEW w \in Writers, WriterStep(w) PROVE WriteInv'
  <2>1. CASE WriteBegins(w)
    BY <2>1, BeginKeeps DEF WriteBegins
  <2>2. CASE CreateStart(w) \/ Replace(w) \/ CommitReplace(w) \/ MarkEnqueueFailed(w) \/ PersistTaskId(w) \/ WriterDies(w)
    BY <2>2, CreateKeeps, ReplaceKeeps, CommitReplaceKeeps, MarkKeeps, CrashKeeps
  <2>3. ASSUME NEW ok \in BOOLEAN, UpdateMetadataOnly(w, ok) \/ Purge(w, ok) \/ Store(w, ok) \/ CommitCreate(w, ok) \/ CommitFails(w, ok) \/ DiscardOld(w, ok) \/ Dispatch(w, ok)
        PROVE  WriteInv'
    BY <2>3, TitleKeeps, PurgeKeeps, StoreKeeps, CommitCreateKeeps, CommitFailsKeeps, DiscardOldKeeps, DispatchKeeps
  <2> QED BY <1>2, <2>1, <2>2, <2>3 DEF WriterStep
<1> QED BY <1>1, <1>2, OthersKeep DEF WriteNext

\* For any number of writers, keys and versions, whatever fails: the original a
\* document is served from is in the store, nothing else is left there, and a
\* document that says SUCCESS is found with its last content and title, but for
\* what the properties except (_replace, _store, _discard, _requeue).
THEOREM WritesKept ==
  ASSUME WriteSetting
  PROVE  WriteSpec => [](ObjectKept /\ NoOrphans /\ IndexFollows /\ ListAgrees)
<1>1. WriteInit => WriteInv
  BY InitWriteInv
<1>2. WriteInv /\ [WriteNext]_write_vars => WriteInv'
  BY StepWriteInv
<1>3. WriteInv => ObjectKept
  BY DEF WriteInv, Kept, ObjectKept
<1>4. WriteInv => NoOrphans
  BY DEF WriteInv, Accounted, NoOrphans, Quiet
<1>5. WriteInv => IndexFollows
  <2> SUFFICES ASSUME WriteInv, Quiet, doc.status = "SUCCESS", ~bare, ~overrun, ~strayed
               PROVE  index = {[text |-> doc.hash, title |-> doc.title]}
    BY DEF IndexFollows
  <2>1. ~Purged
    BY DEF Purged, Quiet, WriteInv, WriteTypes
  <2>2. PICK i \in index : index = {i} /\ i.text = doc.hash /\ i.title = doc.title
    BY <2>1 DEF WriteInv, Found, Quiet
  <2>3. i \in [text : Hashes \cup {Nobody}, title : Titles \cup {Nobody}]
    BY DEF WriteInv, WriteTypes
  <2>4. i = [text |-> doc.hash, title |-> doc.title]
    BY <2>2, <2>3
  <2> QED BY <2>2, <2>4
<1>6. ListAgrees
  BY DEF WriteSetting, ListAgrees, list_documents, load_document, folder_ids, folder_visible, document_visible
<1> QED BY <1>1, <1>2, <1>3, <1>4, <1>5, <1>6, PTL DEF WriteSpec

============================================================================
