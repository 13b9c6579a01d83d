----------------------------- MODULE Retrieval -----------------------------
(***************************************************************************)
(* The index of a tenant: chunks written by ingests, removed, and given    *)
(* other masks and folders while they are searched, expanded and read page *)
(* by page (brain_sdk/vector_store/qdrant_store.py, brain_sdk/             *)
(* document_text.py, brain_api/services/ingest_service.py and              *)
(* search_service.py).  Every request to the store is atomic.              *)
(***************************************************************************)
EXTENDS Naturals, Sequences, FiniteSets, SequencesExt

CONSTANTS
  Docs, Jobs,
  Versions,       \* what may be ingested: the sizes of the chunks, in order
  Scopings,       \* [keys, tag] a document may have; no keys: everybody
  Masks, Tags,
  Batch,          \* points of one upsert
  PageSize,       \* points of one scroll of update_metadata
  Window, MaxWindows, MaxChars,       \* of a read
  Fetch, Limit, ExpandMax, ExpandBudget,   \* of a search
  MaxJobs, MaxFaults,
  None            \* no filter

VARIABLES
  point,    \* the chunks: [id, d, order, size, keys, tag]
  record,   \* the documents that have a record of their own
  graph,    \* document -> the scoping its node of the fact graph has, or None
  cur,      \* document -> the scoping it has now
  job, next, jobs, faults,
  failed,   \* history: a delete or an upsert did not get through
  met       \* history: two jobs of one document at the same time

vars == <<point, record, graph, cur, job, next, jobs, faults, failed, met>>

Public == 0
Idle == [pc |-> "idle", d |-> None, text |-> <<>>, scope |-> None, at |-> 0, kind |-> "none"]

Init ==
  /\ point = {} /\ record = {} /\ graph = [d \in Docs |-> None] /\ cur \in [Docs -> Scopings] /\ job = [j \in Jobs |-> Idle]
  /\ next = 0 /\ jobs = 0 /\ faults = 0 /\ failed = FALSE /\ met = FALSE

----------------------------------------------------------------------------
(* Who may read: None is no filter, an empty set nothing. *)
\* Mutant: only the masks are looked at.
EmptyByKeys(keys, folders) == keys = {}

scope_is_empty(keys, folders) == keys = {} \/ folders = {}

\* Every condition that is given; an empty list gives none.
ChunkConditions(p, keys, folders) ==
  /\ keys \in {None, {}} \/ p.keys \cap keys # {}
  /\ folders \in {None, {}} \/ p.tag \in folders

Visible(keys, folders) == {p \in point : ChunkConditions(p, keys, folders)}
DocumentVisibility(d, keys, folders) == {p \in Visible(keys, folders) : p.d = d}

\* What is stored for a document: the sentinel for everybody.
StoredKeys(keys) == IF keys = {} THEN {Public} ELSE keys

----------------------------------------------------------------------------
(* Ranked search, and the rest of the best document. *)
Before(a, b) == a.order < b.order \/ (a.order = b.order /\ a.id < b.id)
InOrder(ps) == [i \in 1 .. Cardinality(ps) |-> CHOOSE p \in ps : Cardinality({q \in ps : Before(q, p)}) = i - 1]

\* Any ranking of the first few.
search(keys, folders, n) ==
  LET all == Visible(keys, folders)  k == IF Cardinality(all) < n THEN Cardinality(all) ELSE n IN
  {h \in [1 .. k -> all] : \A i, j \in 1 .. k : h[i] = h[j] => i = j}

\* The cross-encoder keeps the best, in its order, or the dense order is kept.
rerank_hits(h) == {[i \in 1 .. k |-> h[f[i]]] : k \in {IF Len(h) < Limit THEN Len(h) ELSE Limit}, f \in [1 .. Limit -> 1 .. Len(h)]}
Reranked(h) == {r \in rerank_hits(h) : \A i, j \in 1 .. Len(r) : r[i] = r[j] => i = j}

list_document_chunks(d, keys, folders) == LET all == InOrder(DocumentVisibility(d, keys, folders)) IN SubSeq(all, 1, IF Len(all) < ExpandMax THEN Len(all) ELSE ExpandMax)

\* Those that did not rank, until one does not fit.
Siblings(hits, siblings) ==
  LET fresh == SelectSeq(siblings, LAMBDA p : \A i \in 1 .. Len(hits) : hits[i].id # p.id)
      used(i) == FoldSeq(LAMBDA p, n : p.size + n, 0, SubSeq(fresh, 1, i))
      fits == {i \in 0 .. Len(fresh) : used(i) <= ExpandBudget} IN
  SubSeq(fresh, 1, CHOOSE i \in fits : \A k \in fits : k <= i)

expand_top_documents(hits, keys, folders) ==
  IF hits = <<>> THEN hits
  ELSE <<hits[1]>> \o Siblings(hits, list_document_chunks(hits[1].d, keys, folders)) \o Tail(hits)

vector_search(keys, folders, n) ==
  IF scope_is_empty(keys, folders) THEN {<<>>}
  ELSE {expand_top_documents(r, keys, folders) : r \in UNION {Reranked(h) : h \in search(keys, folders, n)}}

----------------------------------------------------------------------------
(* Words, and whole documents. *)
grep(keys, folders) == IF scope_is_empty(keys, folders) THEN {} ELSE {p.d : p \in Visible(keys, folders)}

\* The read goes on with the chunk that did not fit.
NextChunk(order) == order

has_chunks_from(ps, start) == \E p \in ps : p.order >= start
document_chunk_window(ps, start) == InOrder({p \in ps : p.order >= start /\ p.order < start + Window})

\* The chunks of a window, one of each order, until one does not fit; a first one always does.
Take(taken, window) ==
  FoldLeft(LAMBDA r, p :
      IF r.next # None \/ (\E i \in 1 .. Len(r.taken) : r.taken[i] = p.order) THEN r
      ELSE IF r.taken # <<>> /\ r.size + p.size > MaxChars THEN [r EXCEPT !.next = NextChunk(p.order)]
      ELSE [r EXCEPT !.taken = Append(@, p.order), !.size = @ + (IF p.size > MaxChars THEN MaxChars ELSE p.size)],
    taken, window)

\* One read: window after window from a place in the document.  The state after w windows.
Windows(ps, start) ==
  LET step[w \in 0 .. MaxWindows] ==
        IF w = 0 THEN [taken |-> <<>>, size |-> 0, next |-> None, end |-> FALSE]
        ELSE LET r == step[w - 1]  at == start + (w - 1) * Window  window == document_chunk_window(ps, at) IN
             IF r.end \/ r.next # None THEN r
             ELSE IF window = <<>> THEN [r EXCEPT !.end = ~has_chunks_from(ps, at + Window)]
             ELSE Take(r, window)
      r == step[MaxWindows]  cursor == start + MaxWindows * Window IN
  IF ~r.end /\ r.next = None /\ has_chunks_from(ps, cursor) THEN [r EXCEPT !.next = cursor] ELSE r

read(d, keys, folders, start) ==
  LET ps == DocumentVisibility(d, keys, folders) IN
  IF scope_is_empty(keys, folders) \/ ps = {} THEN [taken |-> <<>>, size |-> 0, next |-> None, end |-> TRUE] ELSE Windows(ps, start)

\* Reading on until nothing is left: at most a read for every chunk and every bound on windows.
Pages == 2 * Cardinality(point) + 2
ReadOn(d, keys, folders) ==
  LET page[n \in 0 .. Pages] ==
        IF n = 0 THEN [got |-> <<>>, at |-> 0]
        ELSE LET q == page[n - 1] IN
             IF q.at = None THEN q ELSE LET r == read(d, keys, folders, q.at) IN [got |-> q.got \o r.taken, at |-> r.next]
  IN page[Pages]

\* A page of the viewer: one scroll, of at most as many points as the page has orders.
get_document_chunks(d, offset, n) ==
  LET in == InOrder({p \in point : p.d = d /\ p.order >= offset /\ p.order < offset + n}) IN SubSeq(in, 1, IF Len(in) < n THEN Len(in) ELSE n)

----------------------------------------------------------------------------
(* Writers. *)
Move(j, r) == job' = [job EXCEPT ![j] = r]
Goto(j, pc) == Move(j, [job[j] EXCEPT !.pc = pc])
Fault == faults < MaxFaults /\ faults' = faults + 1
Active(d) == \E k \in Jobs : job[k].pc # "idle" /\ job[k].d = d
Begin(j, d) == job[j].pc = "idle" /\ jobs < MaxJobs /\ jobs' = jobs + 1 /\ met' = (met \/ Active(d))

\* Chunked, embedded and summarized before anything is removed.
ingest_document(j, d, text) ==
  /\ Begin(j, d) /\ Move(j, [Idle EXCEPT !.pc = "purge", !.kind = "ingest", !.d = d, !.text = text, !.scope = cur[d]])
  /\ UNCHANGED <<point, record, graph, cur, next, faults, failed>>

remove_document(j, d) ==
  /\ Begin(j, d) /\ Move(j, [Idle EXCEPT !.pc = "purge", !.kind = "remove", !.d = d])
  /\ UNCHANGED <<point, record, graph, cur, next, faults, failed>>

update_metadata(j, d, scope) ==
  /\ scope # cur[d] /\ cur' = [cur EXCEPT ![d] = scope]
  /\ Begin(j, d) /\ Move(j, [Idle EXCEPT !.pc = "page", !.kind = "meta", !.d = d, !.scope = scope])
  /\ UNCHANGED <<point, record, graph, next, faults, failed>>

Removed(j) == IF job[j].kind = "remove" THEN Move(j, Idle) ELSE Goto(j, "upsert")

Chunks(d) == {p \in point : p.d = d}

\* The filter of a delete.
Matched(d) == Chunks(d)

\* delete_document, one collection after the other; what fails is logged and the ingest goes on.
DeleteChunks(j, ok) ==
  /\ job[j].pc = "purge"
  /\ IF ok THEN point' = point \ Matched(job[j].d) /\ Goto(j, "records") /\ UNCHANGED <<faults, failed>>
           ELSE Fault /\ failed' = TRUE /\ Removed(j) /\ UNCHANGED point
  /\ UNCHANGED <<record, graph, cur, next, jobs, met>>

\* The graph and the facts are purged with the record.
DeleteRecord(j, ok) ==
  /\ job[j].pc = "records" /\ Removed(j) /\ UNCHANGED <<point, cur, next, jobs, met>>
  /\ IF ok THEN record' = record \ {job[j].d} /\ graph' = [graph EXCEPT ![job[j].d] = None] /\ UNCHANGED <<faults, failed>>
           ELSE Fault /\ failed' = TRUE /\ UNCHANGED <<record, graph>>

\* upsert_vectors, a batch at a time; then the record, then the facts.
UpsertBatch(j) ==
  LET r == job[j]  n == IF Len(r.text) - r.at < Batch THEN Len(r.text) - r.at ELSE Batch IN
  /\ r.pc = "upsert" /\ r.at < Len(r.text)
  /\ point' = point \cup {[id |-> next + i, d |-> r.d, order |-> r.at + i - 1, size |-> r.text[r.at + i], keys |-> StoredKeys(r.scope.keys), tag |-> r.scope.tag] : i \in 1 .. n}
  /\ next' = next + n /\ Move(j, [r EXCEPT !.at = @ + n])
  /\ UNCHANGED <<record, graph, cur, jobs, faults, failed, met>>

UpsertRecord(j) ==
  LET r == job[j] IN
  /\ r.pc = "upsert" /\ r.at = Len(r.text) /\ record' = record \cup {r.d} /\ Goto(j, "facts")
  /\ UNCHANGED <<point, graph, cur, next, jobs, faults, failed, met>>

\* Module Facts; a failure there is logged and the ingest is complete.
StoreFacts(j, ok) ==
  /\ job[j].pc = "facts" /\ Move(j, Idle) /\ UNCHANGED <<point, record, cur, next, jobs, met>>
  /\ IF ok THEN graph' = [graph EXCEPT ![job[j].d] = job[j].scope] /\ UNCHANGED <<faults, failed>>
           ELSE Fault /\ failed' = TRUE /\ UNCHANGED graph

\* A page of the scroll, by id; then the graph and the facts.
SetPayload(j) ==
  LET r == job[j]  rest == {p \in Chunks(r.d) : p.id > r.at}
      page == {p \in rest : Cardinality({x \in rest : x.id < p.id}) < PageSize} IN
  /\ r.pc = "page"
  /\ point' = (point \ page) \cup {[p EXCEPT !.keys = StoredKeys(r.scope.keys), !.tag = r.scope.tag] : p \in page}
  /\ IF rest = page THEN Goto(j, "nodes") ELSE Move(j, [r EXCEPT !.at = CHOOSE n \in {p.id : p \in page} : \A p \in page : p.id <= n])
  /\ UNCHANGED <<record, graph, cur, next, jobs, faults, failed, met>>

\* A document without a node is left alone.
SetNodes(j) ==
  /\ job[j].pc = "nodes" /\ Move(j, Idle)
  /\ graph' = [graph EXCEPT ![job[j].d] = IF @ = None THEN None ELSE job[j].scope]
  /\ UNCHANGED <<point, record, cur, next, jobs, faults, failed, met>>

\* Between two requests: the caller is told, and sends the whole again or does not.
JobFails(j) ==
  /\ job[j].pc \in {"upsert", "page", "nodes"} /\ Fault /\ failed' = TRUE /\ Move(j, Idle)
  /\ UNCHANGED <<point, record, graph, cur, next, jobs, met>>

\* A first chunk tells the scoping of its document.
HeadScoping(p) == [keys |-> IF p.keys = {Public} THEN {} ELSE p.keys, tag |-> p.tag]

Heads == {p \in point : p.order = 0 /\ graph[p.d] # None}

\* One document of the backfill.
backfill_document_graph_metadata(p) ==
  /\ p \in Heads /\ jobs < MaxJobs /\ jobs' = jobs + 1 /\ ~Active(p.d)
  /\ graph' = [graph EXCEPT ![p.d] = HeadScoping(p)]
  /\ UNCHANGED <<point, record, cur, job, next, faults, failed, met>>

Next ==
  \/ \E p \in point : backfill_document_graph_metadata(p)
  \/ \E j \in Jobs : \/ \E d \in Docs : remove_document(j, d) \/ (\E text \in Versions : ingest_document(j, d, text)) \/ (\E s \in Scopings : update_metadata(j, d, s))
                     \/ \E ok \in BOOLEAN : DeleteChunks(j, ok) \/ DeleteRecord(j, ok) \/ StoreFacts(j, ok)
                     \/ UpsertBatch(j) \/ UpsertRecord(j) \/ SetPayload(j) \/ SetNodes(j) \/ JobFails(j)
Spec == Init /\ [][Next]_vars

----------------------------------------------------------------------------
TypeOK ==
  /\ \A p \in point : p.id \in 1 .. next /\ p.d \in Docs /\ p.keys \subseteq Masks \cup {Public} /\ p.tag \in Tags
  /\ record \subseteq Docs /\ \A p, q \in point : p.id = q.id => p = q

Settled(d) == ~Active(d)
Callers == SUBSET Masks
Asked == {None} \cup {keys \cup {Public} : keys \in Callers} \cup {{}}
Folders == {None} \cup SUBSET Tags

(* An ingest replaces: what is left of a document is one version, whole and
   numbered without a gap, and its record (ingest_document, remove_document).
   A request that failed and jobs that met are the exceptions. *)
Replaced == ~failed /\ ~met => \A d \in Docs : Settled(d) =>
  /\ {p.order : p \in Chunks(d)} = 0 .. Cardinality(Chunks(d)) - 1 /\ (d \in record <=> Chunks(d) # {})

(* Who finds a chunk is who may see its document now, and its node in the
   fact graph says the same (update_metadata, backfill). *)
MasksFollow == ~failed /\ ~met => \A d \in Docs : Settled(d) =>
  /\ \A p \in Chunks(d), keys \in Callers : ChunkConditions(p, keys \cup {Public}, None) <=> (cur[d].keys = {} \/ cur[d].keys \cap keys # {})
  /\ \A p \in Chunks(d) : p.tag = cur[d].tag /\ (graph[d] # None => graph[d] = cur[d])

(* Nothing is found where nothing may be read, and every way of reading finds
   the same documents (_scope_is_empty, ReadScope). *)
WaysAgree == \A keys \in Asked, folders \in Folders :
  LET docs == grep(keys, folders) IN
  /\ keys = {} \/ folders = {} => docs = {}
  /\ \A d \in Docs : d \in docs <=> read(d, keys, folders, 0).taken # <<>>
  /\ \A h \in vector_search(keys, folders, 1) : \A i \in 1 .. Len(h) : h[i].d \in docs

(* A search gives no passage twice, and the passages that ranked stay in their
   order: the numbers of the citations (_expand_top_documents). *)
NoHitTwice == \A r \in UNION {Reranked(h) : h \in search(None, None, Fetch)} :
  LET h == expand_top_documents(r, None, None) IN
  /\ \A i, j \in 1 .. Len(h) : h[i].id = h[j].id => i = j
  /\ SelectSeq(h, LAMBDA p : \E i \in 1 .. Len(r) : r[i] = p) = r

(* Following next_chunk reads every chunk once, in order, and ends, with gaps
   and duplicates in the numbering too; so do the pages of the viewer where
   there are no duplicates (read, get_document_chunks). *)
ReadsWhole == \A d \in Docs :
  LET orders == {p.order : p \in Chunks(d)}  r == ReadOn(d, None, None)
      twice == \E p, q \in Chunks(d) : p # q /\ p.order = q.order IN
  /\ r.at = None /\ {r.got[i] : i \in 1 .. Len(r.got)} = orders /\ \A i \in 2 .. Len(r.got) : r.got[i - 1] < r.got[i]
  /\ ~twice => {p.order : p \in UNION {{c[i] : i \in 1 .. Len(c)} : c \in {get_document_chunks(d, k * Window, Window) : k \in 0 .. 3}}} = orders
=============================================================================
