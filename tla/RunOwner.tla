------------------------------ MODULE RunOwner ------------------------------
(***************************************************************************)
(* What the locks of TokenSweep promise, whatever the order in which       *)
(* sessions claim, wait, fail and commit: a run has one owner at a time,   *)
(* and the committed rows of its tokens change in the one step in which    *)
(* the owner leaves.                                                       *)
(*                                                                         *)
(* Two changes need no owner.  The reaper makes a parked token active, and *)
(* a token whose advance has raised dies although the rollback of its      *)
(* savepoint has given the run up.                                         *)
(***************************************************************************)
EXTENDS Naturals

CONSTANTS Tokens, Runs, RunOf, Sessions, Nobody

VARIABLES
  owner,   \* owner[r]: the session that owns run r
  row      \* row[t]: the committed version of token t

vars == <<owner, row>>

Rows == [status : {"active", "running", "waiting", "completed", "dead"}, advances : Nat]

Init ==
  /\ owner = [r \in Runs |-> Nobody]
  /\ row \in [Tokens -> Rows]

\* try_advance_lock: a free run gets an owner.
Take(s, r) ==
  /\ owner[r] = Nobody
  /\ owner' = [owner EXCEPT ![r] = s]
  /\ UNCHANGED row

\* The savepoint in which the run was taken rolls back.
GiveUp(s, r) ==
  /\ owner[r] = s
  /\ owner' = [owner EXCEPT ![r] = Nobody]
  /\ UNCHANGED row

\* The transaction ends: what it has written of its own runs is seen at once.
Leave(s) ==
  /\ owner' = [r \in Runs |-> IF owner[r] = s THEN Nobody ELSE owner[r]]
  /\ row' \in [Tokens -> Rows]
  /\ \A t \in Tokens : row'[t] # row[t] =>
       \/ owner[RunOf[t]] = s
       \/ row'[t] = [row[t] EXCEPT !.status = "dead"]

\* resume_due_tokens.
Wake(t) ==
  /\ row[t].status = "waiting"
  /\ row' = [row EXCEPT ![t].status = "active"]
  /\ UNCHANGED owner

Next ==
  \/ \E s \in Sessions : Leave(s) \/ \E r \in Runs : Take(s, r) \/ GiveUp(s, r)
  \/ \E t \in Tokens : Wake(t)

Spec == Init /\ [][Next]_vars

=============================================================================
