----------------------------- MODULE TokenSweep -----------------------------
(***************************************************************************)
(* How concurrent sessions share the token table: the sweep workers of     *)
(* advance_tokens, the synchronous drive_run and the timer reaper          *)
(* resume_due_tokens, with the two kinds of lock they take.                *)
(*                                                                         *)
(* A sweep claims active rows with FOR UPDATE SKIP LOCKED, then takes the  *)
(* run's advisory lock for one claimed token at a time, and gives the      *)
(* token back when another session has that lock.  Both kinds of lock are  *)
(* held until the transaction ends, except that rolling a savepoint back   *)
(* gives up an advisory lock taken inside it.                              *)
(*                                                                         *)
(* What an advance computes is the business of TokenEngine; here it counts *)
(* one advance of the row and leaves it active, parked or completed.  base *)
(* is what other sessions see; row also has the uncommitted writes of the  *)
(* session that has the row lock.                                          *)
(***************************************************************************)
EXTENDS Naturals, FiniteSets

CONSTANTS
  Tokens,       \* token rows, numbered by their column seq
  Runs,         \* workflow runs
  RunOf,        \* the run of a token
  Terminating,  \* the runs with a terminate end event
  Parked,       \* the tokens that wait for a timer when the sessions begin
  Sessions,     \* database sessions: sweep workers and requests
  NoSession,    \* "nobody"
  NoToken,      \* "no row"
  Limit,        \* the LIMIT of a sweep's claim
  MaxAdvances,  \* bound: advances of one token
  MaxErrors,    \* bound: exceptions inside a token's savepoint
  MaxCrashes    \* bound: transactions lost to a crash

ASSUME SweepAssumption ==
  /\ Tokens \subseteq Nat /\ IsFiniteSet(Tokens)
  /\ RunOf \in [Tokens -> Runs]
  /\ Terminating \subseteq Runs
  /\ Parked \subseteq Tokens
  /\ NoSession \notin Sessions
  /\ NoToken \notin Tokens
  /\ Limit \in Nat
  /\ MaxAdvances \in Nat /\ MaxErrors \in Nat /\ MaxCrashes \in Nat

VARIABLES
  row,      \* row[t]: the newest version of a token row
  base,     \* base[t]: its committed version
  owner,    \* owner[t]: the session that has the row lock
  adv,      \* adv[r]: the session that has the run's advisory lock
  sess,     \* sess[s]: where a session's transaction is
  errors,   \* exceptions so far
  crashes   \* crashes so far

vars == <<row, base, owner, adv, sess, errors, crashes>>

----------------------------------------------------------------------------
Statuses == {"active", "running", "waiting", "completed", "dead"}
Live == {"active", "running", "waiting"}
Rows == [status : Statuses, advances : Nat]

(***************************************************************************)
(* A session is idle, sweeps a batch or drives a run.  todo are the tokens *)
(* of the batch or the pass it has not reached; cur is the token whose     *)
(* savepoint is open, step what its dispatch is doing, and fresh whether   *)
(* the advisory lock was taken inside this savepoint.                      *)
(***************************************************************************)
Idle == [mode |-> "idle", todo |-> {}, cur |-> NoToken, step |-> "none", fresh |-> FALSE]

TokensOf(r) == {t \in Tokens : RunOf[t] = r}

\* The version of a row that session s reads.
View(s, t) == IF owner[t] = s THEN row[t] ELSE base[t]

Between(s) == sess[s].cur = NoToken
Inside(s, t) == sess[s].cur = t /\ t \in Tokens

Leave(s) == [sess EXCEPT ![s].cur = NoToken, ![s].step = "none", ![s].fresh = FALSE]

----------------------------------------------------------------------------
(***************************************************************************)
(* advance_tokens.                                                         *)
(***************************************************************************)
\* The claim: UPDATE ... WHERE id IN (SELECT ... ORDER BY seq LIMIT ... FOR
\* UPDATE SKIP LOCKED), the first Limit active rows that nobody has locked.
Unclaimed == {t \in Tokens : base[t].status = "active" /\ owner[t] = NoSession}

\* Mutant: the limit counts the rows before the filter.
EarlyLimitBatch == {t \in Unclaimed : Cardinality({u \in Tokens : u < t}) < Limit}

Batch == {t \in Unclaimed : Cardinality({u \in Unclaimed : u < t}) < Limit}

Claim(s) ==
  /\ sess[s] = Idle
  /\ Batch # {}
  /\ row' = [t \in Tokens |-> IF t \in Batch THEN [row[t] EXCEPT !.status = "running"] ELSE row[t]]
  /\ owner' = [t \in Tokens |-> IF t \in Batch THEN s ELSE owner[t]]
  /\ sess' = [sess EXCEPT ![s] = [Idle EXCEPT !.mode = "sweep", !.todo = Batch]]
  /\ UNCHANGED <<base, adv, errors, crashes>>

\* Mutant: the advisory lock is not asked for.
UnlockedEnter(s, t) ==
  /\ sess[s].mode = "sweep" /\ Between(s) /\ t \in sess[s].todo
  /\ row[t].status = "running" /\ row[t].advances < MaxAdvances
  /\ sess' = [sess EXCEPT ![s].todo = @ \ {t}, ![s].cur = t, ![s].step = "advance"]
  /\ UNCHANGED <<row, base, owner, adv, errors, crashes>>

\* The savepoint of one claimed token, with the run's advisory lock.
Enter(s, t) ==
  /\ sess[s].mode = "sweep" /\ Between(s) /\ t \in sess[s].todo
  /\ row[t].status = "running" /\ row[t].advances < MaxAdvances
  /\ adv[RunOf[t]] \in {NoSession, s}
  /\ adv' = [adv EXCEPT ![RunOf[t]] = s]
  /\ \E step \in {"advance"} \cup {x \in {"killing"} : RunOf[t] \in Terminating} :
       sess' = [sess EXCEPT ![s].todo = @ \ {t}, ![s].cur = t, ![s].step = step,
                            ![s].fresh = adv[RunOf[t]] = NoSession]
  /\ UNCHANGED <<row, base, owner, errors, crashes>>

\* _release_token: another session has the run.
Release(s, t) ==
  /\ sess[s].mode = "sweep" /\ Between(s) /\ t \in sess[s].todo
  /\ adv[RunOf[t]] \notin {NoSession, s}
  /\ row' = [row EXCEPT ![t].status = "active"]
  /\ sess' = [sess EXCEPT ![s].todo = @ \ {t}]
  /\ UNCHANGED <<base, owner, adv, errors, crashes>>

\* _advance_claimed of a token that a terminate of this batch has killed.
SkipKilled(s, t) ==
  /\ sess[s].mode = "sweep" /\ Between(s) /\ t \in sess[s].todo
  /\ row[t].status # "running" /\ adv[RunOf[t]] = s
  /\ sess' = [sess EXCEPT ![s].todo = @ \ {t}]
  /\ UNCHANGED <<row, base, owner, adv, errors, crashes>>

----------------------------------------------------------------------------
(***************************************************************************)
(* _advance_one.  The token moves on, parks or completes; a terminate end  *)
(* event also kills every other live token of the run, whose row locks it  *)
(* waits for.                                                              *)
(***************************************************************************)
Advance(s, t, status) ==
  /\ Inside(s, t) /\ sess[s].step = "advance"
  /\ status = "active" => row[t].advances + 1 < MaxAdvances
  /\ row' = [row EXCEPT ![t] = [status |-> status, advances |-> @.advances + 1]]
  /\ sess' = Leave(s)
  /\ UNCHANGED <<base, owner, adv, errors, crashes>>

\* The live rows kill_all updates, apart from the terminating token's.
ToKill(s) ==
  {u \in Tokens : RunOf[u] = RunOf[sess[s].cur] /\ u # sess[s].cur /\ View(s, u).status \in Live}

\* The sessions whose row locks a session is waiting for.
Blockers(s) ==
  LET needed == IF sess[s].step = "killing" THEN ToKill(s)
                ELSE IF sess[s].step = "lock" THEN {sess[s].cur} ELSE {}
  IN {owner[u] : u \in needed} \ {NoSession, s}

\* kill_all, once every row it updates is free, and the end of the run.
Terminate(s, t) ==
  /\ Inside(s, t) /\ sess[s].step = "killing" /\ Blockers(s) = {}
  /\ row' = [u \in Tokens |->
       IF u = t THEN [status |-> "completed", advances |-> row[u].advances + 1]
       ELSE IF u \in ToKill(s) THEN [row[u] EXCEPT !.status = "dead"] ELSE row[u]]
  /\ owner' = [u \in Tokens |-> IF u \in ToKill(s) THEN s ELSE owner[u]]
  /\ sess' = Leave(s)
  /\ UNCHANGED <<base, adv, errors, crashes>>

----------------------------------------------------------------------------
(***************************************************************************)
(* Exceptions and deadlocks.  The savepoint rolls back, with the advisory  *)
(* lock if it was taken inside; then _kill_token fails token and run.      *)
(***************************************************************************)
Deadlocked(s) ==
  \E S \in SUBSET Sessions : s \in S /\ \A x \in S : Blockers(x) \cap S # {}

\* Mutant: a token whose advance raised is parked for another try.
ParkToken(s, t) ==
  /\ Inside(s, t) /\ sess[s].mode = "sweep"
  /\ \/ errors < MaxErrors /\ Blockers(s) = {} /\ errors' = errors + 1
     \/ Deadlocked(s) /\ errors' = errors
  /\ row' = [row EXCEPT ![t].status = "waiting"]
  /\ adv' = IF sess[s].fresh THEN [adv EXCEPT ![RunOf[t]] = NoSession] ELSE adv
  /\ sess' = Leave(s)
  /\ UNCHANGED <<base, owner, crashes>>

KillToken(s, t) ==
  /\ Inside(s, t) /\ sess[s].mode = "sweep"
  /\ \/ errors < MaxErrors /\ Blockers(s) = {} /\ errors' = errors + 1
     \/ Deadlocked(s) /\ errors' = errors
  /\ row' = [row EXCEPT ![t].status = "dead"]
  /\ adv' = IF sess[s].fresh THEN [adv EXCEPT ![RunOf[t]] = NoSession] ELSE adv
  /\ sess' = Leave(s)
  /\ UNCHANGED <<base, owner, crashes>>

----------------------------------------------------------------------------
(***************************************************************************)
(* drive_run: one run, in the caller's transaction, without a claim.  When *)
(* the advisory lock is taken it returns at once; otherwise each pass      *)
(* lists the active tokens and updates them in order, waiting for the row  *)
(* lock of a token that a sweep has claimed.                               *)
(***************************************************************************)
ActiveIn(s, r) == {t \in TokensOf(r) : View(s, t).status = "active" /\ View(s, t).advances < MaxAdvances}

Drive(s, r) ==
  /\ sess[s] = Idle
  /\ adv[r] = NoSession
  /\ ActiveIn(s, r) # {}
  /\ adv' = [adv EXCEPT ![r] = s]
  /\ sess' = [sess EXCEPT ![s] = [Idle EXCEPT !.mode = "drive", !.todo = ActiveIn(s, r)]]
  /\ UNCHANGED <<row, base, owner, errors, crashes>>

DriveNext(s, t) ==
  /\ sess[s].mode = "drive" /\ Between(s)
  /\ t \in sess[s].todo /\ \A u \in sess[s].todo : t <= u
  /\ sess' = [sess EXCEPT ![s].todo = @ \ {t}, ![s].cur = t, ![s].step = "lock"]
  /\ UNCHANGED <<row, base, owner, adv, errors, crashes>>

DriveLock(s, t) ==
  /\ Inside(s, t) /\ sess[s].step = "lock"
  /\ owner[t] \in {NoSession, s}
  /\ row' = [row EXCEPT ![t].status = "running"]
  /\ owner' = [owner EXCEPT ![t] = s]
  /\ \E step \in {"advance"} \cup {x \in {"killing"} : RunOf[t] \in Terminating} :
       sess' = [sess EXCEPT ![s].step = step]
  /\ UNCHANGED <<base, adv, errors, crashes>>

DrivePass(s, r) ==
  /\ sess[s].mode = "drive" /\ Between(s) /\ sess[s].todo = {}
  /\ adv[r] = s /\ ActiveIn(s, r) # {}
  /\ sess' = [sess EXCEPT ![s].todo = ActiveIn(s, r)]
  /\ UNCHANGED <<row, base, owner, adv, errors, crashes>>

----------------------------------------------------------------------------
\* The end of a transaction releases its row locks and its advisory locks.
EndTx(s) ==
  /\ owner' = [t \in Tokens |-> IF owner[t] = s THEN NoSession ELSE owner[t]]
  /\ adv' = [r \in Runs |-> IF adv[r] = s THEN NoSession ELSE adv[r]]
  /\ sess' = [sess EXCEPT ![s] = Idle]

Commit(s) ==
  /\ sess[s].mode # "idle" /\ Between(s) /\ sess[s].todo = {}
  /\ sess[s].mode = "drive" => \A r \in Runs : adv[r] = s => ActiveIn(s, r) = {}
  /\ base' = [t \in Tokens |-> IF owner[t] = s THEN row[t] ELSE base[t]]
  /\ EndTx(s)
  /\ UNCHANGED <<row, errors, crashes>>

Crash(s) ==
  /\ sess[s].mode # "idle"
  /\ crashes < MaxCrashes
  /\ row' = [t \in Tokens |-> IF owner[t] = s THEN base[t] ELSE row[t]]
  /\ EndTx(s)
  /\ crashes' = crashes + 1
  /\ UNCHANGED <<base, errors>>

\* resume_due_tokens takes the row lock and no advisory lock, and commits.
Resume(t) ==
  /\ owner[t] = NoSession
  /\ base[t].status = "waiting" /\ base[t].advances < MaxAdvances
  /\ base' = [base EXCEPT ![t].status = "active"]
  /\ row' = [row EXCEPT ![t].status = "active"]
  /\ UNCHANGED <<owner, adv, sess, errors, crashes>>

----------------------------------------------------------------------------
Init ==
  /\ row = [t \in Tokens |-> [status |-> IF t \in Parked THEN "waiting" ELSE "active", advances |-> 0]]
  /\ base = row
  /\ owner = [t \in Tokens |-> NoSession]
  /\ adv = [r \in Runs |-> NoSession]
  /\ sess = [s \in Sessions |-> Idle]
  /\ errors = 0
  /\ crashes = 0

\* What an open transaction does next.
Step(s) ==
  \/ \E t \in Tokens : \/ Enter(s, t) \/ Release(s, t) \/ SkipKilled(s, t)
                       \/ \E status \in {"active", "waiting", "completed"} : Advance(s, t, status)
                       \/ Terminate(s, t)
                       \/ DriveNext(s, t) \/ DriveLock(s, t)
                       \/ KillToken(s, t)
  \/ \E r \in Runs : DrivePass(s, r)
  \/ Commit(s)

Open(s) == Claim(s) \/ \E r \in Runs : Drive(s, r)

Next ==
  \/ \E s \in Sessions : Step(s) \/ Open(s) \/ Crash(s)
  \/ \E t \in Tokens : Resume(t)

Spec == Init /\ [][Next]_vars

(***************************************************************************)
(* Fairness.  An open transaction goes on, PostgreSQL gives a row lock to  *)
(* the session that waits for it, and the beat sweeps the table again and  *)
(* again.                                                                  *)
(***************************************************************************)
Fairness ==
  /\ \A s \in Sessions : WF_vars(Step(s))
  /\ \A s \in Sessions : SF_vars(\E t \in Tokens : DriveLock(s, t) \/ Terminate(s, t))
  /\ SF_vars(\E s \in Sessions : Claim(s))

FairSpec == Spec /\ Fairness

----------------------------------------------------------------------------
Session == [mode : {"idle", "sweep", "drive"}, todo : SUBSET Tokens,
            cur : Tokens \cup {NoToken}, step : {"none", "lock", "advance", "killing"},
            fresh : BOOLEAN]

\* The type invariant; and a row lock or an advisory lock is only ever held by
\* a session with an open transaction.
TypeOK ==
  /\ row \in [Tokens -> Rows] /\ base \in [Tokens -> Rows]
  /\ owner \in [Tokens -> Sessions \cup {NoSession}]
  /\ adv \in [Runs -> Sessions \cup {NoSession}]
  /\ sess \in [Sessions -> Session]
  /\ errors \in Nat /\ crashes \in Nat
  /\ \A t \in Tokens : owner[t] # NoSession => sess[owner[t]].mode # "idle"
  /\ \A r \in Runs : adv[r] # NoSession => sess[adv[r]].mode # "idle"

\* The runs a session is advancing a token of, or has advanced one of without
\* having committed it.
Advancing(s) ==
  {RunOf[t] : t \in {u \in Tokens : owner[u] = s /\ row[u].advances # base[u].advances}}
  \cup {RunOf[t] : t \in Tokens \cap {sess[s].cur}}

\* Two sessions never advance tokens of one run at the same time, in either
\* order of their claims, also when one of them has claimed rows of the run.
OneAdvancerPerRun ==
  \A s, x \in Sessions : s # x => Advancing(s) \cap Advancing(x) = {}

\* The advisory locks and the committed rows implement one owner per run: what
\* a join or _settle_run has read of a run stays true until its session ends,
\* but for the reaper's wake-ups and the death of a token whose exception gave
\* the lock up (_kill_token).
Owned == INSTANCE RunOwner WITH owner <- adv, row <- base, Nobody <- NoSession

OwnersSerialise == Owned!Spec

\* An active token is taken up by some sweep: the give-back of a contended
\* claim never starves it.
ActiveIsTaken ==
  \A t \in Tokens : base[t].status = "active" ~> base[t].status \in {"waiting", "completed", "dead"}

============================================================================
