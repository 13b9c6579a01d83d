------------------------------- MODULE Admins -------------------------------
(***************************************************************************)
(* Who administers the instance: accounts made from claims (services/user_ *)
(* provisioning.py, auth/dependencies.py), the token that makes the first  *)
(* admin (services/setup_token.py, routers/setup.py) and the flags in the  *)
(* console of the site admins (routers/admin.py).                          *)
(***************************************************************************)
EXTENDS Naturals, FiniteSets

CONSTANTS
  Accounts,
  Requests,     \* requests in flight
  Emails,       \* addresses that may be asserted
  Listed,       \* SITE_ADMIN_EMAILS
  Settings,     \* changes of the flags that may be asked for
  MaxTokens,    \* setup tokens that are ever generated
  Nobody

VARIABLES
  row,      \* user -> [known, admin, active]
  token,    \* the setup token in Redis, 0 for none
  boot,     \* the lock of a boot's generation is held
  minted,   \* tokens generated so far: all of them may have been read in a log
  req,      \* request -> what it does and what it has read
  flags_lock, \* request that holds the lock of the admins' flags
  crossed,  \* history: flags were written over a row that had changed since it was read
  swapped,  \* history: a token was generated while a claim was on its way
  won       \* history: token -> users it made admin

admin_vars == <<row, token, boot, minted, req, flags_lock, crossed, swapped, won>>

NoAction == [kind |-> "free", by |-> Nobody, to |-> Nobody, set |-> [admin |-> "same", active |-> "same"], seen |-> [admin |-> FALSE, active |-> FALSE], tok |-> 0, pc |-> "free"]
New == [known |-> FALSE, admin |-> FALSE, active |-> TRUE]

AdminInit ==
  /\ row = [u \in Accounts |-> New] /\ token = 0 /\ boot = FALSE /\ minted = 0
  /\ req = [r \in Requests |-> NoAction] /\ flags_lock = Nobody /\ crossed = FALSE /\ swapped = FALSE
  /\ won = [t \in 1 .. MaxTokens |-> {}]

Rule(u) == row[u].admin /\ row[u].active
site_admin_exists == \E u \in Accounts : Rule(u)
Done(r) == req' = [req EXCEPT ![r] = NoAction]
At(r, k, p) == req[r].kind = k /\ req[r].pc = p
Go(r, p) == [req EXCEPT ![r].pc = p]

----------------------------------------------------------------------------
\* Nobody: the token carries no address.
should_be_site_admin(e) == e # Nobody /\ e \in Listed

\* Every request first makes the caller's account agree with the claims it carries.
provision_user_from_claims(u, e) ==
  /\ row[u].active
  /\ row' = [row EXCEPT ![u].known = TRUE, ![u].admin = @ \/ should_be_site_admin(e)]
  /\ UNCHANGED <<token, boot, minted, req, flags_lock, crossed, swapped, won>>

----------------------------------------------------------------------------
\* A worker boots; the lock of the generation lapses after a while.
ensure_setup_token ==
  /\ IF site_admin_exists THEN token' = 0 /\ UNCHANGED <<boot, minted, swapped>>
     ELSE /\ ~boot /\ boot' = TRUE
          /\ IF token = 0 THEN minted < MaxTokens /\ minted' = minted + 1 /\ token' = minted + 1
                          ELSE UNCHANGED <<token, minted>>
          /\ swapped' = (swapped \/ (token = 0 /\ \E r \in Requests : req[r].kind = "claim"))
  /\ UNCHANGED <<row, req, flags_lock, crossed, won>>

BootLapses == boot /\ boot' = FALSE /\ UNCHANGED <<row, token, minted, req, flags_lock, crossed, swapped, won>>

TokenExpires ==
  /\ token # 0 /\ token' = 0 /\ UNCHANGED <<row, boot, minted, req, flags_lock, crossed, swapped, won>>

\* claim_setup: is it done already
ClaimSetup(r, u, t) ==
  /\ req[r] = NoAction /\ row[u].known /\ row[u].active /\ t <= minted
  /\ IF site_admin_exists THEN token' = 0 /\ UNCHANGED req
     ELSE /\ req' = [req EXCEPT ![r] = [NoAction EXCEPT !.kind = "claim", !.by = u, !.tok = t, !.pc = "get"]]
          /\ UNCHANGED token
  /\ UNCHANGED <<row, boot, minted, flags_lock, crossed, swapped, won>>

\* consume_setup_token: the stored token is read and compared,
Compare(r) ==
  /\ At(r, "claim", "get") /\ IF token = req[r].tok THEN req' = Go(r, "del") ELSE Done(r)
  /\ UNCHANGED <<row, token, boot, minted, flags_lock, crossed, swapped, won>>

Removed == token # 0

\* and deleted by exactly one of those that read it.
Consume(r) ==
  /\ At(r, "claim", "del") /\ token' = 0 /\ IF Removed THEN req' = Go(r, "commit") ELSE Done(r)
  /\ UNCHANGED <<row, boot, minted, flags_lock, crossed, swapped, won>>

\* The promotion is committed, or the token is put back.
Promote(r) ==
  /\ At(r, "claim", "commit") /\ Done(r)
  /\ row' = [row EXCEPT ![req[r].by].admin = TRUE]
  /\ won' = [won EXCEPT ![req[r].tok] = @ \cup {req[r].by}]
  /\ UNCHANGED <<token, boot, minted, flags_lock, crossed, swapped>>

Restore(r) ==
  /\ At(r, "claim", "commit") /\ Done(r) /\ token' = req[r].tok
  /\ UNCHANGED <<row, boot, minted, flags_lock, crossed, swapped, won>>

----------------------------------------------------------------------------
Flag(old, set) == IF set = "same" THEN old ELSE set = "on"
Demoting(q) == q.set.admin = "off" /\ q.seen.admin
Deactivating(q) == q.set.active = "off" /\ q.seen.active
Loses(q) == Demoting(q) \/ Deactivating(q)

\* update_user_flags reads the row of the user,
ReadUser(r, u, v, set) ==
  /\ req[r] = NoAction /\ Rule(u) /\ row[v].known
  /\ LET q == [NoAction EXCEPT !.kind = "flags", !.by = u, !.to = v, !.set = set, !.seen = [admin |-> row[v].admin, active |-> row[v].active], !.pc = "check"]
     IN /\ ~ (u = v /\ Loses(q))
        /\ req' = [req EXCEPT ![r] = q]
  /\ UNCHANGED <<row, token, boot, minted, flags_lock, crossed, swapped, won>>

NeedsLock(q) == Loses(q) /\ q.seen.admin /\ q.seen.active

\* counts the admins under the lock, which the transaction keeps,
CountAdmins(r) ==
  /\ At(r, "flags", "check")
  /\ IF NeedsLock(req[r]) THEN flags_lock = Nobody /\ flags_lock' = r ELSE UNCHANGED flags_lock
  /\ IF Loses(req[r]) /\ req[r].seen.admin /\ req[r].seen.active /\ Cardinality({u \in Accounts : Rule(u)}) <= 1
     THEN req' = Go(r, "refused") ELSE req' = Go(r, "write")
  /\ UNCHANGED <<row, token, boot, minted, crossed, swapped, won>>

LockLeft(r) == IF flags_lock = r THEN Nobody ELSE flags_lock

\* and writes the flags that differ from the row as it was read.
WriteFlags(r) ==
  /\ At(r, "flags", "write") \/ At(r, "flags", "refused")
  /\ Done(r) /\ flags_lock' = LockLeft(r)
  /\ IF req[r].pc = "refused" THEN UNCHANGED <<row, crossed>>
     ELSE LET q == req[r]
              Put(f) == IF Flag(q.seen[f], q.set[f]) = q.seen[f] THEN row[q.to][f] ELSE Flag(q.seen[f], q.set[f])
          IN /\ row' = [row EXCEPT ![q.to].admin = Put("admin"), ![q.to].active = Put("active")]
             /\ crossed' = (crossed \/ <<row[q.to].admin, row[q.to].active>> # <<q.seen.admin, q.seen.active>>)
  /\ UNCHANGED <<token, boot, minted, swapped, won>>

----------------------------------------------------------------------------
AdminNext ==
  \/ \E u \in Accounts, e \in Emails \cup {Nobody} : provision_user_from_claims(u, e)
  \/ ensure_setup_token \/ BootLapses \/ TokenExpires
  \/ \E r \in Requests :
       \/ \E u \in Accounts, t \in 1 .. MaxTokens : ClaimSetup(r, u, t)
       \/ Compare(r) \/ Consume(r) \/ Promote(r) \/ Restore(r)
       \/ \E u, v \in Accounts, set \in Settings : ReadUser(r, u, v, set)
       \/ CountAdmins(r) \/ WriteFlags(r)

AdminSpec == AdminInit /\ [][AdminNext]_admin_vars

----------------------------------------------------------------------------
AdminTypeOK ==
  /\ \A u \in Accounts : row[u].admin => row[u].known
  /\ token \in 0 .. minted /\ minted <= MaxTokens /\ flags_lock \in Requests \cup {Nobody}
  /\ \A r \in Requests : req[r].pc \in {"free", "get", "del", "commit", "check", "write", "refused"}
  /\ flags_lock # Nobody => req[flags_lock].kind = "flags"

\* "Validate and atomically consume the token (single use)" (consume_setup_token).
SingleUse == \A t \in 1 .. MaxTokens : Cardinality(won[t]) <= 1

\* A setup token makes one admin at most, even when claims race or one of them fails and puts
\* the token back, unless a booting worker generates another between the comparison and the
\* DELETE, which then removes the wrong one (consume_setup_token, claim_setup).
OneClaim == ~swapped => SingleUse

\* While nobody writes flags over a row that changed since it was read, an instance that has
\* had an admin keeps one (update_user_flags).
AdminStays ==
  ~crossed => ((\E u \in Accounts : row[u].admin) => site_admin_exists)

\* "Never let the instance lose its last active site admin" (update_user_flags).
LastAdminKept == (\E u \in Accounts : row[u].admin) => site_admin_exists

\* "never overwritten while unclaimed": a token in Redis is deleted before there is another.
TokenKept == [][token # 0 => token' \in {0, token}]_admin_vars

----------------------------------------------------------------------------
(***************************************************************************)
(* The members of an organisation (routers/memberships.py, repositories/   *)
(* membership.py, require_org_access and require_org_admin of auth/        *)
(* dependencies.py).                                                       *)
(***************************************************************************)

CONSTANTS
  People,
  SiteAdmins,   \* users that are site admins
  Removals      \* removals in flight

VARIABLES
  member,   \* user -> "none", "user" or "admin"
  removal,      \* request -> [by, to], to = Nobody when it is free
  removals_met, \* history: two removals were in flight at a time
  demoted   \* history: somebody was made a plain member

member_vars == <<member, removal, removals_met, demoted>>

NoRemoval == [by |-> Nobody, to |-> Nobody]

MemberInit ==
  /\ \E u \in People : member = [v \in People |-> IF v = u THEN "admin" ELSE "none"]
  /\ removal = [r \in Removals |-> NoRemoval] /\ removals_met = FALSE /\ demoted = FALSE

Admins == {u \in People : member[u] = "admin"}

\* require_org_access, require_org_admin: a site admin acts as an admin of every organisation.
OrgAccess(u) == member[u] # "none" \/ u \in SiteAdmins
OrgAdmin(u) == member[u] = "admin" \/ u \in SiteAdmins

\* MembershipRepository.upsert: the membership that is there is written over.
create_membership(u, v, m) ==
  /\ OrgAdmin(u) /\ member' = [member EXCEPT ![v] = m]
  /\ demoted' = (demoted \/ (member[v] = "admin" /\ m = "user")) /\ UNCHANGED <<removal, removals_met>>

update_membership(u, v, m) ==
  /\ OrgAdmin(u) /\ member[v] # "none" /\ member' = [member EXCEPT ![v] = m]
  /\ demoted' = (demoted \/ (member[v] = "admin" /\ m = "user")) /\ UNCHANGED <<removal, removals_met>>

Others(v) == Cardinality(Admins) > 1

\* delete_membership: the guards, and the row that is read again and deleted.
delete_membership(r, u, v) ==
  /\ removal[r] = NoRemoval /\ OrgAdmin(u) /\ member[v] # "none" /\ (u = v => u \in SiteAdmins)
  /\ member[v] = "admin" => Others(v)
  /\ removal' = [removal EXCEPT ![r] = [by |-> u, to |-> v]]
  /\ removals_met' = (removals_met \/ \E q \in Removals : removal[q] # NoRemoval) /\ UNCHANGED <<member, demoted>>

\* Writes of memberships that come between are made before the row is read again.
Delete(r) ==
  /\ removal[r] # NoRemoval /\ member' = [member EXCEPT ![removal[r].to] = "none"]
  /\ removal' = [removal EXCEPT ![r] = NoRemoval] /\ UNCHANGED <<removals_met, demoted>>

MemberNext ==
  \/ \E u, v \in People, m \in {"user", "admin"} : create_membership(u, v, m) \/ update_membership(u, v, m)
  \/ \E r \in Removals : Delete(r) \/ \E u, v \in People : delete_membership(r, u, v)

MemberSpec == MemberInit /\ [][MemberNext]_member_vars

----------------------------------------------------------------------------
MemberTypeOK ==
  /\ \A u \in People : member[u] \in {"none", "user", "admin"}
  /\ \A r \in Removals : removal[r] \in [by : People \cup {Nobody}, to : People \cup {Nobody}]

\* Removals that come one at a time leave an admin, when nobody is demoted: the guard counts
\* the admins there are, site admins that remove themselves included (delete_membership).
RemovalsLeaveOne == ~removals_met /\ ~demoted => Admins # {}

\* "the last org admin cannot be removed" (delete_membership).
LastOrgAdminKept == Admins # {}
=============================================================================
