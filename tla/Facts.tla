------------------------------- MODULE Facts -------------------------------
(***************************************************************************)
(* The fact store: claims that documents support, the entities they name,  *)
(* who may see them, and the ingests, removals and changes of permissions  *)
(* that write them at the same time (brain_sdk/facts, brain_api/services/  *)
(* ingest_service.py).  Every query is atomic; a purge is six of them, an  *)
(* insert one transaction that reads before it writes.                     *)
(***************************************************************************)
EXTENDS Naturals, Sequences, FiniteSets, SequencesExt

CONSTANTS
  Docs, Jobs,
  Names,        \* what entities are called; an entity made for a name has the name as its id
  Score,        \* <<name, entity>> -> how close they are: 3 merges, 2 asks the model
  Phrases,      \* wordings of a predicate
  Known,        \* phrase -> the predicate it is a key or an alias of, or None
  Close,        \* phrase -> the predicate nearest in meaning, or None
  Functional,   \* predicates with one value at a time
  Texts,        \* what may be extracted from a document: sequences of [s, p, o]
  Masks, KeySets,
  MaxJobs, MaxFaults,
  None

VARIABLES
  claim,   \* claim -> [there, status, at, keys]
  src,     \* <<claim, document>>: a chunk of the document states the claim
  doc,     \* document -> [there, keys]: its node
  ent,     \* entity -> "none", "bare" (an id only) or "named"
  memo,    \* name -> the entity it was resolved to in this process, or None
  pmemo,   \* phrase -> predicate, likewise
  cur,     \* document -> the masks it has now
  job, jobs, clock, faults,
  torn,    \* history: a purge ended after it had dropped the chunks
  raced    \* history: two jobs of one document, or an insert that met another write

vars == <<claim, src, doc, ent, memo, pmemo, cur, job, jobs, clock, faults, torn, raced>>

Objects == Names \cup {t.o : t \in UNION {{x[i] : i \in 1 .. Len(x)} : x \in Texts}}
Preds == Phrases \cup {Known[p] : p \in Phrases} \cup {Close[p] : p \in Phrases}
Stated == UNION {{x[i] : i \in 1 .. Len(x)} : x \in Texts}
\* What a claim can be: an entity for its subject, and for its object if that is a name.
Claims == UNION {[s : Names, p : {Known[t.p], Close[t.p], t.p} \ {None}, o : IF t.o \in Names THEN Names ELSE {t.o}] : t \in Stated}
Touches(c) == {c.s, c.o} \cap Names

NoClaim == [there |-> FALSE, status |-> "none", at |-> 0, keys |-> {}]
Idle == [pc |-> "idle", kind |-> "none", d |-> None, keys |-> {}, pass |-> 0, ids |-> {}, eids |-> {}, built |-> <<>>, plan |-> None]

Init ==
  /\ claim = [c \in Claims |-> NoClaim] /\ src = {} /\ doc = [d \in Docs |-> [there |-> FALSE, keys |-> {}]]
  /\ ent = [n \in Names |-> "none"] /\ memo = [n \in Names |-> None] /\ pmemo = [p \in Phrases |-> None]
  /\ cur \in [Docs -> KeySets] /\ job = [j \in Jobs |-> Idle] /\ jobs = 0 /\ clock = 0 /\ faults = 0 /\ torn = FALSE /\ raced = FALSE

Move(j, r) == job' = [job EXCEPT ![j] = r]
Goto(j, pc) == Move(j, [job[j] EXCEPT !.pc = pc])
Fault == faults < MaxFaults /\ faults' = faults + 1
history == <<torn, raced>>
resolver == <<memo, pmemo>>

----------------------------------------------------------------------------
(* Who sees what. *)
query_claims(resource, keys) == resource = {} \/ resource \cap keys # {}

\* The union of what the sources have; public if one of them is.
RecomputeClaimMasks(c, s, ds) ==
  LET lists == {ds[d].keys : d \in {x \in Docs : <<c, x>> \in s}} IN
  IF lists = {} THEN claim[c].keys ELSE IF {} \in lists THEN {} ELSE UNION lists

----------------------------------------------------------------------------
(* A job begins. *)
Active(d) == \E k \in Jobs : job[k].pc # "idle" /\ job[k].d = d
Begin(j, kind, d, pc) ==
  /\ job[j].pc = "idle" /\ jobs < MaxJobs /\ jobs' = jobs + 1
  /\ Move(j, [Idle EXCEPT !.pc = pc, !.kind = kind, !.d = d, !.keys = cur[d], !.pass = 1]) /\ raced' = (raced \/ Active(d))

\* The masks are those the document had when the ingest was sent; its chunks are replaced first.
ingest_document(j, d) ==
  /\ Begin(j, "ingest", d, "collect") /\ UNCHANGED <<claim, src, doc, ent, resolver, cur, clock, faults, torn>>

remove_document(j, d) ==
  /\ Begin(j, "remove", d, "collect") /\ UNCHANGED <<claim, src, doc, ent, resolver, cur, clock, faults, torn>>

\* One query writes the node and finds the claims; a document without a node is left alone.
update_document_metadata(j, d, keys) ==
  /\ keys # cur[d] /\ cur' = [cur EXCEPT ![d] = keys] /\ job[j].pc = "idle" /\ jobs < MaxJobs /\ jobs' = jobs + 1 /\ raced' = (raced \/ Active(d))
  /\ doc' = [doc EXCEPT ![d].keys = IF doc[d].there THEN keys ELSE @]
  /\ Move(j, [Idle EXCEPT !.pc = "masks", !.kind = "meta", !.d = d, !.ids = IF doc[d].there THEN {c \in Claims : <<c, d>> \in src} ELSE {}])
  /\ UNCHANGED <<claim, src, ent, resolver, clock, faults, torn>>

----------------------------------------------------------------------------
(* delete_by_document_key, once by remove_document and once by the pipeline. *)
Collect(j) ==
  /\ job[j].pc = "collect"
  /\ LET ids == {c \in Claims : <<c, job[j].d>> \in src} IN
     Move(j, [job[j] EXCEPT !.pc = "chunks", !.ids = ids, !.eids = UNION {Touches(c) : c \in ids}])
  /\ UNCHANGED <<claim, src, doc, ent, resolver, cur, jobs, clock, faults, history>>

DropChunks(j) ==
  /\ job[j].pc = "chunks" /\ src' = {x \in src : x[2] # job[j].d} /\ Goto(j, "document")
  /\ UNCHANGED <<claim, doc, ent, resolver, cur, jobs, clock, faults, history>>

DropDocument(j) ==
  /\ job[j].pc = "document" /\ doc' = [doc EXCEPT ![job[j].d] = [there |-> FALSE, keys |-> {}]]
  /\ Goto(j, IF job[j].ids = {} THEN "entities" ELSE "claims")
  /\ UNCHANGED <<claim, src, ent, resolver, cur, jobs, clock, faults, history>>

\* Mutant: the claims of the document go with it, whoever else states them.
Every(ids) == ids

\* Those that nothing supports any more.
Unsupported(ids) == {c \in ids : ~\E d \in Docs : <<c, d>> \in src}

Reading(j) == \E k \in Jobs \ {j} : job[k].pc = "commit"

DropClaims(j) ==
  /\ job[j].pc = "claims" /\ claim' = [c \in Claims |-> IF c \in Unsupported(job[j].ids) THEN NoClaim ELSE claim[c]]
  /\ raced' = (raced \/ Reading(j)) /\ Goto(j, "masks")
  /\ UNCHANGED <<src, doc, ent, resolver, cur, jobs, clock, faults, torn>>

Recompute(j) ==
  /\ job[j].pc = "masks"
  /\ claim' = [c \in Claims |-> IF c \in job[j].ids /\ claim[c].there THEN [claim[c] EXCEPT !.keys = RecomputeClaimMasks(c, src, doc)] ELSE claim[c]]
  /\ (IF job[j].kind = "meta" THEN Move(j, Idle) ELSE Goto(j, "entities"))
  /\ UNCHANGED <<src, doc, ent, resolver, cur, jobs, clock, faults, history>>

Unreferenced(ids) == {e \in ids : ~\E c \in Claims : claim[c].there /\ e \in Touches(c)}

\* After a purge: the next one, the extraction, or the end.
Purged(j) ==
  CASE job[j].kind = "remove" -> Move(j, Idle)
    [] job[j].kind = "ingest" /\ job[j].pass = 1 -> Move(j, [job[j] EXCEPT !.pc = "collect", !.pass = 2, !.ids = {}, !.eids = {}])
    [] OTHER -> Move(j, [job[j] EXCEPT !.pc = "extract", !.ids = {}, !.eids = {}])

DropEntities(j) ==
  /\ job[j].pc = "entities" /\ ent' = [e \in Names |-> IF e \in Unreferenced(job[j].eids) THEN "none" ELSE ent[e]] /\ Purged(j)
  /\ UNCHANGED <<claim, src, doc, resolver, cur, jobs, clock, faults, history>>

\* The first purge is given up and logged; the second ends the ingest of facts, which is logged too.
PurgeFails(j) ==
  /\ job[j].pc \in {"collect", "chunks", "document", "claims", "masks", "entities"} /\ Fault
  /\ torn' = (torn \/ job[j].pc \in {"document", "claims", "masks"})
  /\ (IF job[j].kind = "ingest" /\ job[j].pass = 1 THEN Purged(j) ELSE Move(j, Idle))
  /\ UNCHANGED <<claim, src, doc, ent, resolver, cur, jobs, clock, raced>>

----------------------------------------------------------------------------
(* Extraction: names and wordings become entities and predicates. *)
\* The bands of the decision: the entities a name may come to be.
decide_resolution(n, known) ==
  LET best == {e \in known : Score[<<n, e>>] = 3}  band == {e \in known : Score[<<n, e>>] = 2} IN
  IF best # {} THEN best ELSE IF band # {} THEN band \cup {n} ELSE {n}

\* Only an entity with a name and an embedding is found, one made for an earlier name of the text
\* among them; what was resolved once is not looked up again.
resolve(n, res) ==
  IF memo[n] # None THEN res[n] = memo[n]
  ELSE LET known == {x \in Names : ent[x] = "named"}  made == {m \in DOMAIN res \ {n} : memo[m] = None /\ res[m] = m} IN
       res[n] \in decide_resolution(n, known) \cup decide_resolution(n, known \cup made)

\* The wording itself if nothing is close, or if the embedding failed.
resolve_predicate(p, ok) ==
  IF pmemo[p] # None THEN pmemo[p] ELSE IF Known[p] # None THEN Known[p] ELSE IF ok /\ Close[p] # None THEN Close[p] ELSE p

ToClaim(t, res, ok) == [s |-> res[t.s], p |-> resolve_predicate(t.p, ok), o |-> IF t.o \in Names THEN res[t.o] ELSE t.o]
Named(text) == UNION {{text[i].s, text[i].o} \cap Names : i \in 1 .. Len(text)}
Worded(text) == {text[i].p : i \in 1 .. Len(text)}

Extract(j, text, res, ok) ==
  /\ job[j].pc = "extract" /\ \A n \in Named(text) : resolve(n, res)
  /\ (IF ok THEN UNCHANGED faults ELSE Fault /\ \E p \in Worded(text) : pmemo[p] = None /\ Known[p] = None)
  /\ memo' = [n \in Names |-> IF n \in Named(text) THEN res[n] ELSE memo[n]]
  /\ pmemo' = [p \in Phrases |-> IF p \in Worded(text) THEN resolve_predicate(p, ok) ELSE pmemo[p]]
  /\ ent' = [e \in Names |-> IF \E n \in Named(text) : memo[n] = None /\ res[n] = e THEN "named" ELSE ent[e]]
  /\ clock' = clock + Len(text)
  /\ Move(j, [job[j] EXCEPT !.pc = "insert", !.built = [i \in 1 .. Len(text) |-> [c |-> ToClaim(text[i], res, ok), at |-> clock + i]]])
  /\ UNCHANGED <<claim, src, doc, cur, jobs, history>>

\* Every chunk failed: FactIngestError, after the purge.
ExtractFails(j) ==
  /\ job[j].pc = "extract" /\ Fault /\ Move(j, Idle)
  /\ UNCHANGED <<claim, src, doc, ent, resolver, cur, jobs, clock, history>>

----------------------------------------------------------------------------
(* insert_claims: one transaction.  What it decides is what it read. *)
reconcile(view, b) ==
  LET conflicts == {x \in Claims : b.c.p \in Functional /\ x.s = b.c.s /\ x.p = b.c.p /\ x # b.c /\ view.st[x] = "active"}
      unresolved == {x \in conflicts : ~(b.at > view.at[x])} IN
  IF view.st[b.c] # "none" THEN [view EXCEPT !.corr = @ \cup {b.c}]
  ELSE [view EXCEPT !.made = @ \cup {b.c}, !.at[b.c] = b.at,
          !.retired = @ \cup (IF unresolved = {} THEN conflicts ELSE unresolved),
          !.st = [x \in Claims |-> IF x = b.c THEN (IF unresolved = {} THEN "active" ELSE "contradicted")
                                   ELSE IF unresolved = {} /\ x \in conflicts THEN "superseded"
                                   ELSE IF x \in unresolved THEN "contradicted" ELSE view.st[x]]]

Plan(built) ==
  FoldLeft(reconcile, [st |-> [c \in Claims |-> claim[c].status], at |-> [c \in Claims |-> claim[c].at], made |-> {}, retired |-> {}, corr |-> {}], built)

InsertRead(j) ==
  /\ job[j].pc = "insert"
  /\ (IF job[j].built = <<>> THEN Move(j, Idle) ELSE Move(j, [job[j] EXCEPT !.pc = "commit", !.plan = Plan(job[j].built)]))
  /\ UNCHANGED <<claim, src, doc, ent, resolver, cur, jobs, clock, faults, history>>

\* A claim that is gone is not corroborated, one that was made in between is written over; missing entities are made bare.
Insert(j) ==
  LET p == job[j].plan  d == job[j].d
      written == [c \in Claims |-> IF c \in p.made THEN [there |-> TRUE, status |-> p.st[c], at |-> p.at[c], keys |-> job[j].keys]
                                   ELSE IF c \in p.retired /\ claim[c].there THEN [claim[c] EXCEPT !.status = p.st[c]] ELSE claim[c]]
      attached == p.made \cup {c \in p.corr : claim[c].there}
      s == src \cup (attached \X {d})
      ds == IF attached = {} THEN doc ELSE [doc EXCEPT ![d] = [there |-> TRUE, keys |-> job[j].keys]] IN
  /\ job[j].pc = "commit" /\ Move(j, Idle) /\ src' = s /\ doc' = ds /\ raced' = (raced \/ Reading(j))
  /\ claim' = [c \in Claims |-> IF c \in attached THEN [written[c] EXCEPT !.keys = RecomputeClaimMasks(c, s, ds)] ELSE written[c]]
  /\ ent' = [e \in Names |-> IF ent[e] = "none" /\ (\E c \in p.made : e \in Touches(c)) THEN "bare" ELSE ent[e]]
  /\ UNCHANGED <<resolver, cur, jobs, clock, faults, torn>>

InsertFails(j) ==
  /\ job[j].pc = "commit" /\ Fault /\ Move(j, Idle)
  /\ UNCHANGED <<claim, src, doc, ent, resolver, cur, jobs, clock, history>>

\* The service starts again: what was memoized is gone, and what was under way.
Restart ==
  /\ Fault /\ memo' = [n \in Names |-> None] /\ pmemo' = [p \in Phrases |-> None] /\ job' = [j \in Jobs |-> Idle]
  /\ torn' = (torn \/ \E j \in Jobs : job[j].pc \in {"document", "claims", "masks"})
  /\ UNCHANGED <<claim, src, doc, ent, cur, jobs, clock, raced>>

Next ==
  \/ Restart
  \/ \E j \in Jobs :
       \/ \E d \in Docs : ingest_document(j, d) \/ remove_document(j, d) \/ \E keys \in KeySets : update_document_metadata(j, d, keys)
       \/ Collect(j) \/ DropChunks(j) \/ DropDocument(j) \/ DropClaims(j) \/ Recompute(j) \/ DropEntities(j) \/ PurgeFails(j)
       \/ \E text \in Texts : \E res \in [Named(text) -> Names] : \E ok \in BOOLEAN : Extract(j, text, res, ok)
       \/ ExtractFails(j) \/ InsertRead(j) \/ Insert(j) \/ InsertFails(j)
Spec == Init /\ [][Next]_vars

----------------------------------------------------------------------------
TypeOK ==
  /\ \A c \in Claims : claim[c].status \in {"none", "active", "superseded", "contradicted"} /\ (claim[c].there <=> claim[c].status # "none")
  /\ src \subseteq Claims \X Docs /\ \A e \in Names : ent[e] \in {"none", "bare", "named"}

Settled == \A j \in Jobs : job[j].pc = "idle"

(* A claim is seen by whoever may see a document that states it, with the
   masks the documents have now, and by nobody else; a purge that ended half
   way, and jobs that met, are the exceptions (_RECOMPUTE_CLAIM_MASKS,
   update_document_metadata, delete_by_document_key). *)
FactsFollow == Settled /\ ~torn /\ ~raced => \A c \in Claims : claim[c].there =>
  \A keys \in SUBSET Masks : query_claims(claim[c].keys, keys) <=> \E d \in Docs : <<c, d>> \in src /\ query_claims(cur[d], keys)

(* A claim is only kept while a document states it, and only with a
   document's node (delete_by_document_key). *)
Supported == Settled /\ ~torn /\ ~raced => \A c \in Claims : claim[c].there => \E d \in Docs : <<c, d>> \in src /\ doc[d].there

(* What a document states is kept when another document is purged: a source
   never points at a claim that is gone (delete_by_document_key). *)
SourcesKept == ~raced => \A x \in src : claim[x[1]].there

(* A functional predicate has at most one current value for a subject
   (reconcile). *)
OneValue == ~raced => \A c, x \in Claims :
  c.p \in Functional /\ c.s = x.s /\ c.p = x.p /\ claim[c].status = "active" /\ claim[x].status = "active" => c = x

(* No claim is about an entity that was deleted (delete_by_document_key,
   _create_claim). *)
Linked == \A c \in Claims : claim[c].there => \A e \in Touches(c) : ent[e] # "none"

(* Every entity a claim is about has its name: it is what a query returns and
   what a lookup finds (query_claims, find_entities). *)
EntitiesNamed == \A c \in Claims : claim[c].there => \A e \in Touches(c) : ent[e] = "named"
=============================================================================
