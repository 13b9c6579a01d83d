----------------------------- MODULE Promotion -----------------------------
(***************************************************************************)
(* Releases, promoted to a target organisation and rolled back, by         *)
(* requests that overlap.  A promotion takes a snapshot of the target and  *)
(* decides what to delete, then applies the bundle.  A local target is     *)
(* changed in the transaction that records the promotion; a remote one     *)
(* commits on its own, and its answer may be lost.                         *)
(***************************************************************************)
EXTENDS Naturals, Sequences, FiniteSets, FiniteSetsExt, SequencesExt

(***************************************************************************)
(* Configuration bundles: what an export carries, what an import makes of  *)
(* it in another organisation, what a diff says of the two, and what a     *)
(* promotion deletes.                                                      *)
(*                                                                         *)
(* A row is [type, id, lin, name, body, ref]: lin is the lineage it was    *)
(* stamped with (0: its own), name its natural key, the slug or name and   *)
(* the number of a copy, body a set (the fields of an entity, the one      *)
(* content of anything else), ref the row it is bound to, or 0.  Secrets,  *)
(* selections, supervisors, records and documents are left out.            *)
(***************************************************************************)

RESOURCE_ORDER == <<"tags", "entities", "connections", "folders", "workflows", "inbound_endpoints",
                    "reports", "forms", "views", "mcp_servers", "agents">>

RowLineage(r) == IF r.lin = 0 THEN r.id ELSE r.lin
OfType(rows, t) == {r \in rows : r.type = t}
Ids(rows) == {r.id : r \in rows}

\* MigrationExporter.export, configuration only.
Export(rows) == {[r EXCEPT !.lin = RowLineage(r)] : r \in rows}

----------------------------------------------------------------------------
(***************************************************************************)
(* MigrationImporter.  st is [rows, ids, next, failed]: the rows of the    *)
(* organisation, the ids that became others, the next id, what failed.     *)
(***************************************************************************)
\* _match_lineage: the row of that lineage, else the row of that name.
Found(rows, item) ==
  LET same == OfType(rows, item.type)
      linked == {r \in same : RowLineage(r) = item.lin}
  IN IF linked # {} THEN linked ELSE {r \in same : r.name = item.name}

\* _adopt_lineage: a row that was found by its name.
Adopt(r, item) == IF r.lin = 0 /\ item.lin # r.id THEN [r EXCEPT !.lin = item.lin] ELSE r

Mapped(st, id) == id \in DOMAIN st.ids

\* IdMap.get.
MapRef(st, ref) == IF Mapped(st, ref) THEN st.ids[ref] ELSE 0

Put(st, item, id) == [st EXCEPT !.ids = [x \in DOMAIN @ \cup {item.id} |-> IF x = item.id THEN id ELSE @[x]]]
Replace(st, r, new) == [st EXCEPT !.rows = (@ \ {r}) \cup {new}]

\* suffix_name, suffix_slug: the first free number.
Suffix(rows, item) ==
  LET taken == {r.name[2] : r \in {r \in OfType(rows, item.type) : r.name[1] = item.name[1]}}
  IN <<item.name[1], CHOOSE k \in 1 .. Cardinality(taken) + 1 : k \notin taken>>

Reuse(st, item, r) == Put(Replace(st, r, Adopt(r, item)), item, r.id)

\* An overwrite leaves the natural key and the binding; an agent's references
\* are written anew, an entity only gains fields.
Overwrite(st, item, r) ==
  LET body == IF item.type = "entities" THEN r.body \cup item.body ELSE item.body
      ref == IF item.type = "agents" THEN MapRef(st, item.ref) ELSE r.ref
  IN Put(Replace(st, r, Adopt([r EXCEPT !.body = body, !.ref = ref], item)), item, r.id)

\* _stamp_new, unless the row is a copy made to avoid a collision.
Stamp(item, fork) == IF fork THEN 0 ELSE item.lin

Create(st, item, fork) ==
  LET row == [type |-> item.type, id |-> st.next, lin |-> Stamp(item, fork), body |-> item.body,
              name |-> IF fork THEN Suffix(st.rows, item) ELSE item.name,
              ref |-> IF item.type = "entities" THEN 0 ELSE MapRef(st, item.ref)]
  IN Put([st EXCEPT !.rows = @ \cup {row}, !.next = @ + 1], item, row.id)

Fail(st, item) == [st EXCEPT !.failed = @ \cup {item.id}]

\* What every handler does with a row that is found, by strategy.
Place(st, item, strategy) ==
  LET found == Found(st.rows, item)
  IN IF found = {} THEN Create(st, item, FALSE)
     ELSE LET r == CHOOSE r \in found : TRUE
          IN CASE strategy = "skip" -> Reuse(st, item, r)
               [] strategy = "overwrite" -> Overwrite(st, item, r)
               [] strategy = "rename" -> Create(st, item, TRUE)

ImportTag(st, item, strategy) == Place(st, item, "skip")
ImportConnection(st, item, strategy) == Place(st, item, strategy)
ImportMcpServer(st, item, strategy) == Place(st, item, strategy)
ImportAgent(st, item, strategy) == Place(st, item, strategy)
ImportWorkflow(st, item, strategy) == Place(st, item, strategy)
ImportEntity(st, item, strategy) == Place(st, item, strategy)

\* A folder has no body to overwrite.
ImportFolder(st, item, strategy) == Place(st, item, IF strategy = "overwrite" THEN "skip" ELSE strategy)

\* What is bound to a row that was not imported fails, unless it is skipped.
Unbound(st, item, strategy) == ~Mapped(st, item.ref) /\ (strategy # "skip" \/ Found(st.rows, item) = {})

\* A token cannot be carried over: what is not skipped is created.
ImportEndpoint(st, item, strategy) ==
  IF Unbound(st, item, strategy) THEN Fail(st, item)
  ELSE Place(st, item, IF strategy = "overwrite" THEN "rename" ELSE strategy)

ImportForm(st, item, strategy) ==
  IF Unbound(st, item, strategy) THEN Fail(st, item) ELSE Place(st, item, strategy)

ImportView(st, item, strategy) ==
  IF item.ref # 0 /\ Unbound(st, item, strategy) THEN Fail(st, item) ELSE Place(st, item, strategy)

\* A report that is found must be bound to the same entity.
ImportReport(st, item, strategy) ==
  IF strategy = "overwrite" /\ \E r \in Found(st.rows, item) : r.ref # MapRef(st, item.ref) THEN Fail(st, item)
  ELSE ImportForm(st, item, strategy)

ImportItem(st, item, strategy) ==
  CASE item.type = "tags" -> ImportTag(st, item, strategy)
    [] item.type = "entities" -> ImportEntity(st, item, strategy)
    [] item.type = "connections" -> ImportConnection(st, item, strategy)
    [] item.type = "folders" -> ImportFolder(st, item, strategy)
    [] item.type = "workflows" -> ImportWorkflow(st, item, strategy)
    [] item.type = "inbound_endpoints" -> ImportEndpoint(st, item, strategy)
    [] item.type = "reports" -> ImportReport(st, item, strategy)
    [] item.type = "forms" -> ImportForm(st, item, strategy)
    [] item.type = "views" -> ImportView(st, item, strategy)
    [] item.type = "mcp_servers" -> ImportMcpServer(st, item, strategy)
    [] item.type = "agents" -> ImportAgent(st, item, strategy)

\* The second pass over the entities: a relationship that is not there yet.
Relate(st, item) ==
  IF ~Mapped(st, item.id) \/ ~Mapped(st, item.ref) THEN st
  ELSE LET r == CHOOSE r \in st.rows : r.id = st.ids[item.id]
       IN IF r.ref = 0 THEN Replace(st, r, [r EXCEPT !.ref = st.ids[item.ref]]) ELSE st

\* import_bundle, in dependency order.
Import(rows, next, bundle, strategy) ==
  LET Pass(st, t) ==
        LET items == OfType(bundle, t)
            one == FoldSet(LAMBDA item, acc : ImportItem(acc, item, strategy), st, items)
        IN IF t = "entities" THEN FoldSet(LAMBDA item, acc : Relate(acc, item), one, items) ELSE one
  IN FoldLeft(Pass, [rows |-> rows, ids |-> [x \in {} |-> 0], next |-> next, failed |-> {}], RESOURCE_ORDER)

----------------------------------------------------------------------------
(***************************************************************************)
(* The diff and the deletions of a promotion.                              *)
(***************************************************************************)
\* _managed_delete_types.
ManagedTypes(bundle) == {item.type : item \in bundle}

\* _is_promotion_managed.
PromotionManaged(r) == r.lin # 0 /\ r.lin # r.id

\* compute_diff and deletion_set: the lineages that the bundle no longer has.
Deletions(bundle, rows, types) ==
  LET matched == UNION {Found(rows, item) : item \in bundle}
  IN {[type |-> r.type, lin |-> RowLineage(r)] :
        r \in {r \in rows \ matched : r.type \in types /\ PromotionManaged(r)}}

\* Mutant: the workflows of an entity to be deleted are not looked at.
BlockersDirect(deletions, rows, runs) ==
  {w \in OfType(rows, "workflows") : w.id \in runs /\ [type |-> "workflows", lin |-> RowLineage(w)] \in deletions}

\* InFlightGuard.check: workflows to be deleted, or on an entity to be
\* deleted, that have a run in flight.
Blockers(deletions, rows, runs) ==
  LET gone(t) == {r.id : r \in {r \in OfType(rows, t) : [type |-> t, lin |-> RowLineage(r)] \in deletions}}
  IN {w \in OfType(rows, "workflows") : w.id \in runs /\ (w.id \in gone("workflows") \/ w.ref \in gone("entities"))}

\* What goes with a row: what is bound to an entity or a workflow.
Cascaded(rows, gone) ==
  LET bound == {"workflows", "forms", "views", "reports"}
      first == gone \cup {r \in rows : r.type \in bound /\ r.ref \in Ids(OfType(gone, "entities"))}
  IN first \cup {r \in rows : r.type = "inbound_endpoints" /\ r.ref \in Ids(OfType(first, "workflows"))}

\* delete_lineages: never folders, entities only if their data may go; the
\* relationships to an entity are torn down.
Delete(rows, deletions, allow_data) ==
  LET types == ManagedTypes(deletions) \ ({"folders"} \cup IF allow_data THEN {} ELSE {"entities"})
      gone == Cascaded(rows, {r \in rows : r.type \in types /\ [type |-> r.type, lin |-> RowLineage(r)] \in deletions})
  IN {IF r.type = "entities" /\ r.ref \in Ids(gone) THEN [r EXCEPT !.ref = 0] ELSE r : r \in rows \ gone}

----------------------------------------------------------------------------

CONSTANTS
  Releases,       \* Releases[r]: the rows that release r freezes
  Own,            \* the rows of the target before any promotion
  Kind,           \* "local" or "remote"
  Options,        \* what an operator may choose: [strategy, deletes, data, override]
  Requests,
  MaxPromotions,  \* bound
  MaxEdits        \* bound: changes made in the target itself, and lost answers

VARIABLES
  release,   \* status of each release
  target,    \* the rows of the target
  next,      \* the next id given there
  runs,      \* its workflows with a run in flight
  promos,    \* ReleasePromotion rows
  tx,        \* tx[q]: the request q
  edits,
  clean      \* promotions since which nothing else changed the target

vars == <<release, target, next, runs, promos, tx, edits, clean>>

Idle == [pc |-> "idle", release |-> 0, promo |-> 0, bundle |-> {}, snap |-> {}, deletions |-> {},
         choice |-> [strategy |-> "skip", deletes |-> FALSE, data |-> FALSE, override |-> FALSE], seen |-> {}, at |-> 0]

Init ==
  /\ release = [r \in DOMAIN Releases |-> "draft"]
  /\ target = Own /\ next = 100 /\ runs = {} /\ promos = <<>>
  /\ tx = [q \in Requests |-> Idle] /\ edits = 0 /\ clean = {}

----------------------------------------------------------------------------
(***************************************************************************)
(* The review of a release.                                                *)
(***************************************************************************)
Decide(r, from, to) ==
  /\ release[r] \in from /\ release' = [release EXCEPT ![r] = to]
  /\ UNCHANGED <<target, next, runs, promos, tx, edits, clean>>

Submit(r) == Decide(r, {"draft", "rejected"}, "in_review")
Approve(r) == Decide(r, {"in_review"}, "approved")
Reject(r) == Decide(r, {"in_review"}, "rejected")

----------------------------------------------------------------------------
(***************************************************************************)
(* Promotion and rollback.                                                 *)
(***************************************************************************)
\* _lock_release and _lock_promotion: held to the end of a local promotion, let
\* go before the push of a remote one.
Locked(field, x) == Kind = "local" /\ \E q \in Requests : tx[q].pc # "idle" /\ tx[q][field] = x

\* PromotionExecutor.promote up to the import: the snapshot, the diff and the
\* guard, which refuses.
Plan(q, bundle, choice, types, r, k) ==
  LET deletions == IF choice.deletes THEN Deletions(bundle, target, types) ELSE {}
  IN /\ choice.override \/ Blockers(deletions, target, runs) = {}
     /\ tx' = [tx EXCEPT ![q] = [pc |-> "apply", release |-> r, promo |-> k, bundle |-> bundle, snap |-> Export(target),
                                 deletions |-> deletions, choice |-> choice, seen |-> runs, at |-> edits + Len(promos)]]

\* promote_release.
Promote(q, r, choice) ==
  /\ tx[q].pc = "idle" /\ Len(promos) < MaxPromotions
  /\ ~Locked("release", r) /\ release[r] = "approved"
  /\ LET bundle == Export(Releases[r]) IN Plan(q, bundle, choice, ManagedTypes(bundle), r, 0)
  /\ UNCHANGED <<release, target, next, runs, promos, edits, clean>>

\* Mutant: a rollback deletes only types that the snapshot has.
RestoreTypesOf(bundle) == ManagedTypes(bundle)

\* rollback: every type; a remote target is not told, and manages the types
\* that the snapshot has.
RestoreTypes(bundle) == IF Kind = "local" THEN Range(RESOURCE_ORDER) ELSE ManagedTypes(bundle)

\* rollback_promotion.
Rollback(q, k) ==
  /\ tx[q].pc = "idle" /\ Len(promos) < MaxPromotions
  /\ ~Locked("promo", k) /\ promos[k].status = "promoted" /\ ~promos[k].inverse
  /\ Plan(q, promos[k].snap, [strategy |-> "overwrite", deletes |-> TRUE, data |-> Kind = "local", override |-> TRUE],
          RestoreTypes(promos[k].snap), 0, k)
  /\ UNCHANGED <<release, target, next, runs, promos, edits, clean>>

\* The import, then the deletions.
ApplyBundle(q) ==
  /\ tx[q].pc = "apply"
  /\ LET t == tx[q]
         st == Import(target, next, t.bundle, t.choice.strategy)
     IN target' = Delete(st.rows, t.deletions, t.choice.data) /\ next' = st.next

\* The row that records a promotion, and the one that a rollback leaves.
Recorded(t) ==
  IF t.promo = 0
  THEN Append(promos, [release |-> t.release, status |-> "promoted", strategy |-> t.choice.strategy, inverse |-> FALSE,
                       snap |-> t.snap])
  ELSE Append([promos EXCEPT ![t.promo].status = "rolled_back"],
              [release |-> promos[t.promo].release, status |-> "promoted", strategy |-> "overwrite", inverse |-> TRUE,
               snap |-> {}])

ApplyLocal(q) ==
  /\ Kind = "local" /\ ApplyBundle(q)
  /\ promos' = Recorded(tx[q])
  /\ clean' = IF tx[q].at # edits + Len(promos) THEN {}
              ELSE IF tx[q].promo = 0 THEN {Len(promos) + 1} ELSE clean \cap {tx[q].promo}
  /\ tx' = [tx EXCEPT ![q] = Idle] /\ runs' = runs \cap Ids(target')
  /\ UNCHANGED <<release, edits>>

\* receive_promotion, on the other instance.
ApplyRemote(q) ==
  /\ Kind = "remote" /\ ApplyBundle(q) /\ runs' = runs \cap Ids(target')
  /\ tx' = [tx EXCEPT ![q].pc = "answer"] /\ clean' = {}
  /\ UNCHANGED <<release, promos, edits>>

\* The answer comes, and is recorded, if the promotion is still to be rolled
\* back.
Answer(q) ==
  /\ tx[q].pc = "answer" /\ tx' = [tx EXCEPT ![q] = Idle]
  /\ promos' = IF tx[q].promo # 0 /\ promos[tx[q].promo].status # "promoted" THEN promos ELSE Recorded(tx[q])
  /\ UNCHANGED <<release, target, next, runs, edits, clean>>

\* The answer, or the push, is lost: TransportError, and nothing is recorded.
Lose(q) ==
  /\ tx[q].pc \in {"apply", "answer"} /\ tx' = [tx EXCEPT ![q] = Idle]
  /\ edits < MaxEdits /\ edits' = edits + 1
  /\ UNCHANGED <<release, target, next, runs, promos, clean>>

----------------------------------------------------------------------------
(***************************************************************************)
(* The target lives on.                                                    *)
(***************************************************************************)
Edit(rows) == edits < MaxEdits /\ edits' = edits + 1 /\ target' = rows /\ clean' = {} /\ UNCHANGED <<release, promos, tx>>

\* A form of the target's own on one of its entities; a body changed by hand.
AddForm(e) ==
  /\ e \in OfType(target, "entities")
  /\ Edit(target \cup {[type |-> "forms", id |-> next, lin |-> 0, name |-> <<"own", next>>, body |-> {"own"}, ref |-> e.id]})
  /\ next' = next + 1 /\ UNCHANGED runs

Change(r) == r.type # "entities" /\ Edit((target \ {r}) \cup {[r EXCEPT !.body = {"own"}]}) /\ UNCHANGED <<next, runs>>

StartRun(w) ==
  /\ w \in OfType(target, "workflows") /\ edits < MaxEdits /\ edits' = edits + 1
  /\ runs' = runs \cup {w.id} /\ UNCHANGED <<release, target, next, promos, tx, clean>>

EndRun(w) == w \in runs /\ runs' = runs \ {w} /\ UNCHANGED <<release, target, next, promos, tx, edits, clean>>

Next ==
  \/ \E r \in DOMAIN release : Submit(r) \/ Approve(r) \/ Reject(r)
  \/ \E q \in Requests :
       \/ \E r \in DOMAIN release, c \in Options : Promote(q, r, c)
       \/ \E k \in DOMAIN promos : Rollback(q, k)
       \/ ApplyLocal(q) \/ ApplyRemote(q) \/ Answer(q) \/ Lose(q)
  \/ \E r \in target : AddForm(r) \/ Change(r) \/ StartRun(r)
  \/ \E w \in runs : EndRun(w)

Spec == Init /\ [][Next]_vars

----------------------------------------------------------------------------
TypeOK ==
  /\ \A r \in DOMAIN release : release[r] \in {"draft", "in_review", "approved", "rejected"}
  /\ \A r \in target : r.id < next /\ r.type \in Range(RESOURCE_ORDER)
  /\ \A a, b \in target : a.id = b.id => a = b
  /\ runs \subseteq Ids(OfType(target, "workflows"))

Same(r) == [type |-> r.type, name |-> r.name, body |-> r.body]

\* Undoing a promotion at once restores the target: every object that an
\* overwrite can restore has its body again and nothing that was created is
\* left, but for folders, which are never deleted, copies, which carry no
\* lineage, and the fields that an entity has gained.
RollbackRestores ==
  \A k \in clean : promos[k].status = "rolled_back" /\ promos[k].strategy # "rename" /\ Kind = "local" =>
    LET kept(rows) == {Same(r) : r \in {r \in rows : r.type \notin {"folders", "inbound_endpoints", "entities"}}}
        slugs(rows) == {r.name : r \in OfType(rows, "entities")}
    IN kept(target) = kept(promos[k].snap) /\ slugs(target) = slugs(promos[k].snap)

\* No two rows of the target are linked to one object of the source.
NoTwins == \A a, b \in target : a.type = b.type /\ RowLineage(a) = RowLineage(b) => a = b

\* What a row is bound to is there.
RefsLive == \A r \in target : r.ref # 0 /\ r.type # "agents" => r.ref \in Ids(target)

\* What the target wrote itself is deleted only together with what it is bound
\* to.
OwnKept ==
  \A r \in target : r.lin = 0 /\ r.id \notin Ids(target') => r.ref \in Ids(target) \ Ids(target')

\* A workflow with a run in flight goes only if an operator said so, in a
\* rollback, or if the run began after the guard looked.
GuardedRuns ==
  \A q \in Requests : tx[q].pc = "apply" /\ tx'[q].pc # "apply" =>
    \A w \in runs \ Ids(target') : tx[q].choice.override \/ w \notin tx[q].seen

\* "config apply with skip/overwrite is naturally idempotent": a bundle that is
\* applied again adds nothing.
ApplyIdempotent ==
  \A q \in Requests : tx[q].pc = "apply" /\ target' # target =>
    LET st == Import(target', next', tx[q].bundle, "overwrite")
    IN tx[q].choice.strategy = "overwrite" => Cardinality(st.rows) = Cardinality(target')
=============================================================================
