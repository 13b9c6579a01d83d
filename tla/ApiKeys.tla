------------------------------ MODULE ApiKeys -------------------------------
(***************************************************************************)
(* API keys: minting, revoking, expiry, the assignments that limit a       *)
(* scoped key, and what a key resolves to at a request (services/api_key_  *)
(* service.py, api_key_assignments.py, api_key_scope.py, api_key_scopes.py,*)
(* auth/api_key.py, search_access.py).  A mint holds what it validates FOR *)
(* SHARE until it commits; a delete of a dimension or folder takes the row *)
(* FOR UPDATE, releases what inactive keys hold of it, and is refused      *)
(* while an active key holds it.                                           *)
(***************************************************************************)
EXTENDS Naturals, FiniteSets, Sequences

CONSTANTS
  Keys,
  Dims, Folders,   \* what a key may be assigned
  Top,             \* the folder above all the others
  Grants,          \* sets of scopes a key may be asked for
  MAX_KEYS_PER_ORG,
  Expiries,        \* times at which keys may expire; Never is one of them
  Never

VARIABLES
  items,         \* dimension rows and folders that exist
  visible,       \* folders that the key's masks see
  key,           \* key -> its row, once minted
  mint,          \* key -> the request that mints it
  del,           \* item -> the request that deletes it
  now,
  mints_lapped   \* history: two mints overlapped

key_vars == <<items, visible, key, mint, del, now, mints_lapped>>

Items == Dims \cup Folders
Minted == DOMAIN key
Vacant == [pc |-> "idle"]
Domain(scope) == scope[1]
All == <<"*", "*">>

KeysInit ==
  /\ items = Items /\ visible \in SUBSET Folders
  /\ key = [k \in {} |-> Vacant] /\ mint = [k \in Keys |-> Vacant] /\ del = [i \in Items |-> Vacant]
  /\ now = 0 /\ mints_lapped = FALSE

----------------------------------------------------------------------------
(* Scopes: a domain and an action, or wildcards.                           *)

API_SCOPES == {<<"knowledge", "read">>, <<"knowledge", "write">>, <<"records", "read">>, <<"config", "write">>}
SENSITIVE_SCOPES == {<<"knowledge", "write">>, <<"config", "write">>}
SCOPED_KEY_SCOPES == {<<"knowledge", "read">>, <<"knowledge", "write">>}

normalize_scopes(ss) == ss \ (API_SCOPES \cup {All} \cup {<<Domain(s), "*">> : s \in API_SCOPES}) = {}
validate_scoped_key_scopes(ss) == ss \subseteq SCOPED_KEY_SCOPES

has_scope(granted, s) ==
  s \in granted \/ (s \notin SENSITIVE_SCOPES /\ (All \in granted \/ <<Domain(s), "*">> \in granted))

require_scope(k, s) == has_scope(key[k].scopes, s) /\ (key[k].mode = "scoped" => s \in SCOPED_KEY_SCOPES)

----------------------------------------------------------------------------
(* Minting.                                                                *)

Minting == {k \in Keys : mint[k].pc # "idle"}
is_expired(k) == key[k].expires # Never /\ now >= key[k].expires
Active(k) == ~key[k].revoked /\ ~is_expired(k)

\* The subfolders of a listed folder come with it.
visible_subtrees(fs) == {f \in items \cap Folders : (f \in fs \/ Top \in fs) /\ f \in visible}

HasRoom == Cardinality(Minted) < MAX_KEYS_PER_ORG

Validate(k, grant, expires, assigned) ==
  /\ mint[k].pc = "idle" /\ k \notin Minted
  /\ normalize_scopes(grant) /\ grant # {} /\ (expires = Never \/ expires > now)
  /\ HasRoom
  /\ assigned # {} => validate_scoped_key_scopes(grant)
  /\ assigned \subseteq items /\ \A i \in assigned : del[i].pc = "idle"      \* waits for a delete
  /\ assigned \cap Folders \subseteq visible_subtrees(assigned \cap Folders)
  /\ mint' = [mint EXCEPT ![k] = [pc |-> "save", scopes |-> grant, expires |-> expires, assigned |-> assigned]]
  /\ mints_lapped' = (mints_lapped \/ Minting # {})
  /\ UNCHANGED <<items, visible, key, del, now>>

\* Held FOR SHARE by a mint.
Shared(i) == \E k \in Minting : i \in mint[k].assigned

\* The row, its assignments and the check of their foreign keys.
create_key(k) ==
  /\ mint[k].pc = "save"
  /\ IF mint[k].assigned \subseteq items
       THEN key' = [j \in Minted \cup {k} |->
                      IF j # k THEN key[j]
                      ELSE [scopes |-> mint[k].scopes, expires |-> mint[k].expires, revoked |-> FALSE,
                            mode |-> IF mint[k].assigned = {} THEN "org" ELSE "scoped", rows |-> mint[k].assigned]]
       ELSE UNCHANGED key                                              \* ApiKeyConflictError
  /\ mint' = [mint EXCEPT ![k] = Vacant]
  /\ UNCHANGED <<items, visible, del, now, mints_lapped>>

revoke_key(k) ==
  /\ k \in Minted /\ key' = [key EXCEPT ![k].revoked = TRUE]
  /\ UNCHANGED <<items, visible, mint, del, now, mints_lapped>>

----------------------------------------------------------------------------
(* Deleting a dimension or a folder.                                       *)

\* A folder with children is not deleted.
lock_item(i) ==
  /\ i \in items /\ del[i].pc = "idle" /\ ~Shared(i)
  /\ i = Top => items \cap Folders = {Top}
  /\ del' = [del EXCEPT ![i] = [pc |-> "purge"]]
  /\ UNCHANGED <<items, visible, key, mint, now, mints_lapped>>

\* Mutant: keys that expire some time are released as well.
InactiveSoon == {k \in Minted : key[k].revoked \/ key[k].expires # Never}

\* What revoked keys hold, and expired ones.
Inactive == {k \in Minted : key[k].revoked \/ (key[k].expires # Never /\ key[k].expires <= now)}

purge_inactive_holders(i) ==
  /\ del[i].pc = "purge"
  /\ del' = [del EXCEPT ![i] = [pc |-> "check", purged |-> {k \in Inactive : i \in key[k].rows}]]
  /\ UNCHANGED <<items, visible, key, mint, now, mints_lapped>>

active_keys_holding(i) == {k \in Minted : i \in key[k].rows /\ Active(k)} \ del[i].purged

\* 409 for an active holder, or for a row that the foreign key still finds; nothing is released then.
delete_item(i) ==
  /\ del[i].pc = "check"
  /\ IF active_keys_holding(i) # {} \/ \E k \in Minted \ del[i].purged : i \in key[k].rows
       THEN UNCHANGED <<items, key>>
       ELSE /\ items' = items \ {i}
            /\ key' = [k \in Minted |-> IF k \in del[i].purged THEN [key[k] EXCEPT !.rows = @ \ {i}] ELSE key[k]]
  /\ del' = [del EXCEPT ![i] = Vacant]
  /\ UNCHANGED <<visible, mint, now, mints_lapped>>

Reconfigure(vs) == visible' = vs /\ UNCHANGED <<items, key, mint, del, now, mints_lapped>>
Tick == now < 2 /\ now' = now + 1 /\ UNCHANGED <<items, visible, key, mint, del, mints_lapped>>

----------------------------------------------------------------------------
(* A request with a key.                                                   *)

is_scoped(k) == key[k].mode = "scoped"

\* A row whose target is gone is refused, never dropped.
resolve_key_scope(k) ==
  IF key[k].rows = {} \/ ~(key[k].rows \subseteq items) THEN [ok |-> FALSE]
  ELSE [ok |-> TRUE, wide |-> FALSE, limited |-> key[k].rows \cap Folders # {},
        folders |-> visible_subtrees(key[k].rows \cap Folders)]

require_api_key(k) ==
  IF ~Active(k) THEN [ok |-> FALSE]
  ELSE IF is_scoped(k) THEN resolve_key_scope(k)
  ELSE [ok |-> TRUE, wide |-> TRUE, limited |-> FALSE, folders |-> {}]

\* The folders of a search: None is no filter.
api_key_folder_scope(p, requested) ==
  IF ~p.limited THEN [ok |-> TRUE, none |-> requested = {}, folders |-> requested]
  ELSE IF requested # {} THEN [ok |-> requested \subseteq p.folders, none |-> FALSE, folders |-> requested]
  ELSE [ok |-> TRUE, none |-> FALSE, folders |-> p.folders]

\* An empty scope is answered with nothing, before the tags.
Search(p, requested) ==
  LET s == api_key_folder_scope(p, requested)
  IN IF ~s.ok THEN {} ELSE IF s.none THEN Folders ELSE s.folders

KeysNext ==
  \/ \E k \in Keys : \/ \E g \in Grants, e \in Expiries, a \in SUBSET Items : Validate(k, g, e, a)
                     \/ create_key(k) \/ revoke_key(k)
  \/ \E i \in Items : lock_item(i) \/ purge_inactive_holders(i) \/ delete_item(i)
  \/ \E vs \in SUBSET Folders : Reconfigure(vs)
  \/ Tick

KeysSpec == KeysInit /\ [][KeysNext]_key_vars

----------------------------------------------------------------------------
KeysTypeOK ==
  /\ items \subseteq Items /\ Minted \subseteq Keys
  /\ \A k \in Minted : key[k].rows \subseteq Items /\ key[k].mode \in {"org", "scoped"}

\* A scoped key that is neither revoked nor expired keeps every assignment it was minted with,
\* and resolves: no delete takes one from it, however the two requests and the clock
\* interleave (lock_item, purge_inactive_holders, validate_assignments).
ActiveResolves == \A k \in Minted : Active(k) => require_api_key(k).ok

\* A key minted for some assignments never reads the whole organisation, whatever becomes of
\* its assignments (is_scoped, resolve_key_scope).
NeverOrgWide == \A k \in Minted : key[k].mode = "scoped" /\ require_api_key(k).ok => ~require_api_key(k).wide

\* A key limited to folders finds nothing outside the visible ones among them, also when it
\* has none left (api_key_folder_scope, folder_tags).
NarrowStays ==
  \A k \in Minted :
    LET p == require_api_key(k)
    IN p.ok /\ p.limited => \A requested \in SUBSET Folders : Search(p, requested) \subseteq p.folders

\* A sensitive operation is only done with a key that was asked for it by name, and a scoped
\* key does nothing that ignores its scope (has_scope, require_scope).
Explicit ==
  \A k \in Minted, s \in API_SCOPES :
    require_scope(k, s) => /\ s \in SENSITIVE_SCOPES => s \in key[k].scopes
                           /\ key[k].mode = "scoped" => s \in SCOPED_KEY_SCOPES \cap key[k].scopes

\* The limit of keys is kept, unless two mints overlapped (create_key counts without a lock).
CountKept == ~mints_lapped => Cardinality(Minted) <= MAX_KEYS_PER_ORG

----------------------------------------------------------------------------
(***************************************************************************)
(* Three limits on how often something is done: the fixed window in Redis  *)
(* that all processes share (services/api_rate_limit.py, used by auth/api_ *)
(* key.py), the look before and the hit after it that caps the documents a *)
(* key writes in a day (api_key_write_cap.py), and the sliding window of   *)
(* one process that guards public forms (rate_limit.py).                   *)
(***************************************************************************)

CONSTANTS
  Callers,   \* requests with one key
  Window,    \* length of a window
  Limit,
  MaxTime

VARIABLES
  limiter,         \* the limit that is looked at
  time,
  counted,         \* window -> hits counted in Redis
  up,              \* Redis answers
  passed,          \* times at which the fixed window let a request pass
  writes,          \* windows in which a document was written
  writer,          \* request -> what its look at the cap said
  writes_lapped,   \* history: two writers were between the look and the hit
  hits,            \* the sliding window's own list
  allowed          \* times at which the sliding window allowed something

rate_vars == <<limiter, time, counted, up, passed, writes, writer, writes_lapped, hits, allowed>>

Bucket(t) == t \div Window

RateInit ==
  /\ limiter \in {"window", "cap", "sliding"}
  /\ time = 0 /\ counted = [b \in {"hit", "write"} \X (0 .. Bucket(MaxTime)) |-> 0] /\ up = TRUE
  /\ passed = << >> /\ writes = << >> /\ writer = [r \in Callers |-> "idle"] /\ writes_lapped = FALSE
  /\ hits = << >> /\ allowed = << >>

RateTick ==
  /\ time < MaxTime /\ time' = time + 1
  /\ UNCHANGED <<limiter, counted, up, passed, writes, writer, writes_lapped, hits, allowed>>

Outage == up' = ~up /\ UNCHANGED <<limiter, time, counted, passed, writes, writer, writes_lapped, hits, allowed>>

Within(n) == n <= Limit

\* Counted first, then judged; without Redis everything passes.
check_rate_limit ==
  /\ limiter = "window" /\ up
  /\ LET b == <<"hit", Bucket(time)>>
     IN /\ counted[b] < Limit + 2    \* bound: two hits beyond the limit
        /\ counted' = [counted EXCEPT ![b] = @ + 1]
        /\ passed' = IF Within(counted'[b]) THEN Append(passed, time) ELSE passed
  /\ UNCHANGED <<limiter, time, up, writes, writer, writes_lapped, hits, allowed>>

WindowHasRoom(n) == n < Limit

\* A document is written when the look finds room; the hit is counted once it was written.
peek_rate_limit(r) ==
  /\ limiter = "cap" /\ writer[r] = "idle" /\ Len(writes) < 2 * Limit + 1
  /\ writer' = [writer EXCEPT ![r] = IF ~up \/ WindowHasRoom(counted[<<"write", Bucket(time)>>]) THEN "write" ELSE "refused"]
  /\ writes_lapped' = (writes_lapped \/ ~up \/ \E s \in Callers : writer[s] = "write")
  /\ UNCHANGED <<limiter, time, counted, up, passed, writes, hits, allowed>>

\* The hit is counted in the window of its own time.
Charge == <<"write", Bucket(time)>>

WriteDocument(r, done) ==
  /\ writer[r] = "write"
  /\ IF done THEN /\ writes' = Append(writes, Bucket(time))
                  /\ counted' = IF up THEN [counted EXCEPT ![Charge] = @ + 1] ELSE counted
                  /\ writes_lapped' = (writes_lapped \/ ~up)
             ELSE UNCHANGED <<writes, counted, writes_lapped>>
  /\ writer' = [writer EXCEPT ![r] = "idle"]
  /\ UNCHANGED <<limiter, time, up, passed, hits, allowed>>

Refused(r) ==
  /\ writer[r] = "refused" /\ writer' = [writer EXCEPT ![r] = "idle"]
  /\ UNCHANGED <<limiter, time, counted, up, passed, writes, writes_lapped, hits, allowed>>

Stale(t) == t + Window <= time

\* SlidingWindowLimiter.allow
allow ==
  /\ limiter = "sliding" /\ Len(allowed) < 2 * Limit + 1
  /\ LET fresh == SelectSeq(hits, LAMBDA t : ~Stale(t))
     IN IF Len(fresh) >= Limit THEN hits' = fresh /\ UNCHANGED allowed
        ELSE hits' = Append(fresh, time) /\ allowed' = Append(allowed, time)
  /\ UNCHANGED <<limiter, time, counted, up, passed, writes, writer, writes_lapped>>

RateNext ==
  \/ RateTick \/ Outage \/ check_rate_limit \/ allow
  \/ \E r \in Callers : peek_rate_limit(r) \/ Refused(r) \/ \E done \in BOOLEAN : WriteDocument(r, done)

RateSpec == RateInit /\ [][RateNext]_rate_vars

----------------------------------------------------------------------------
RateTypeOK ==
  /\ time \in 0 .. MaxTime /\ up \in BOOLEAN /\ writes_lapped \in BOOLEAN
  /\ \A r \in Callers : writer[r] \in {"idle", "write", "refused"}
  /\ Len(hits) <= Limit

In(s, lo, hi) == Cardinality({i \in DOMAIN s : s[i] \in lo .. hi})

\* "Fixed windows can admit up to 2x the limit across a window boundary", and never more: in
\* any span of a window's length (check_rate_limit).
TwiceAtMost ==
  \A t \in 0 .. MaxTime : /\ In(passed, t, t + Window - 1) <= 2 * Limit
                          /\ In(passed, Bucket(t) * Window, Bucket(t) * Window + Window - 1) <= Limit

\* A key writes no more documents in a window than its cap, as long as Redis answers and no
\* two writes are between the look and the hit (peek_rate_limit, check_rate_limit).
CapKept == ~writes_lapped => \A b \in 0 .. Bucket(MaxTime) : In(writes, b, b) <= Limit

\* The public forms' guard lets no more than the limit through in any span of a window's
\* length (SlidingWindowLimiter.allow).
SpanKept == \A t \in 0 .. MaxTime : In(allowed, t, t + Window - 1) <= Limit
=============================================================================
