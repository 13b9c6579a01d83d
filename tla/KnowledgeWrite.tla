--------------------------- MODULE KnowledgeWrite ---------------------------
(***************************************************************************)
(* Documents written and read through the public API: one external_ref of  *)
(* one folder, written by API keys at the same time (services/             *)
(* knowledge_write.py, routers/v1/knowledge.py).  The worker and the user  *)
(* interface, which change the same row, are reduced to what a writer can  *)
(* see of them; module DocumentIngest has them in full.                    *)
(***************************************************************************)
EXTENDS Naturals, Sequences, FiniteSets, SequencesExt

CONSTANTS
  Writers,      \* requests that may be in progress at once
  Keys,         \* API keys: [org, masks, listed (limited to folders), holds (the folder is one of them)]
  Masks,        \* masks a document may be restricted to
  FolderView,   \* the effective viewers of the folder, {} for everybody
  FolderAdd,    \* its effective contributors, {} for everybody
  Versions,     \* what may be written: <<content, told apart by its hash, title>>
  Bodies,       \* request bodies: [kind, declared (0: not), chunks, content, name]
  SizeLimit,    \* max_file_size_mb
  Allowance,    \* bytes of envelope around the content
  NameMax,      \* _FILENAME_MAX
  ExtMax,       \* what is kept of a file name's extension
  MaxWrites, MaxFaults,
  Nobody

VARIABLES
  doc,     \* the document: [there, key, hash, title, url, status, task, age, own, edit]
  obj,     \* the objects in the store: <<document key, version>>
  req,     \* writer -> its request and what it has read
  lock,    \* the writer that holds the row
  tasks,   \* ingests and metadata updates on their way
  index,   \* what is in the index: [text, title]
  writes, faults,
  bare,    \* history: a writer failed between its purge and its commit
  overrun, \* history: a version was replaced while its writer or its tasks were not done
  strayed  \* history: an object could not be deleted, or its writer died; a title was not enqueued

write_vars == <<doc, obj, req, lock, tasks, index, writes, faults, bare, overrun, strayed>>

NoUrl == <<>>
NoRow == [there |-> FALSE, key |-> Nobody, hash |-> Nobody, title |-> Nobody, url |-> NoUrl, status |-> "PENDING", task |-> FALSE, age |-> 0, own |-> {}, edit |-> {}]
NoWrite == [pc |-> "idle", n |-> 0, key |-> CHOOSE k \in Keys : TRUE, hash |-> Nobody, title |-> Nobody, file |-> FALSE, new |-> FALSE, stored |-> NoUrl, old |-> NoUrl]

\* Nothing yet, or a version that was written before: as text, as a file or as a replacement.
Before(v, url) ==
  /\ doc = [NoRow EXCEPT !.there = TRUE, !.key = 0, !.hash = v[1], !.title = v[2], !.url = url, !.status = "SUCCESS", !.task = TRUE]
  /\ obj = {url} \ {NoUrl} /\ index = {[text |-> v[1], title |-> v[2]]}

WriteInit ==
  /\ \/ doc = NoRow /\ obj = {} /\ index = {}
     \/ LET v == CHOOSE v \in Versions : TRUE IN \E url \in {NoUrl, <<0, 0>>, <<0, v[1]>>} : Before(v, url)
  /\ req = [w \in Writers |-> NoWrite] /\ lock = Nobody /\ tasks = {}
  /\ writes = 0 /\ faults = 0 /\ bare = FALSE /\ overrun = FALSE /\ strayed = FALSE

----------------------------------------------------------------------------
(* What a key may do.  A document with no viewers of its own has {}: the same as viewers that are nobody in particular. *)
overlaps(resource, masks) == resource = {} \/ resource \cap masks # {}
folder_visible(k) == k.org \/ overlaps(FolderView, k.masks)
folder_ids(k) == k.holds /\ folder_visible(k)                  \* resolved with the key
outside_folders(k) == k.listed /\ ~folder_ids(k)
can_add_to_folder(k) == k.org \/ (folder_visible(k) /\ overlaps(FolderAdd, k.masks))
document_visible(k, d) == k.org \/ (d.filed /\ folder_visible(k) /\ (overlaps(d.own, k.masks)))

list_documents(k, d) ==
  \/ k.org
  \/ /\ d.filed /\ IF k.listed THEN folder_ids(k) ELSE folder_visible(k)
     /\ overlaps(d.own, k.masks)

\* The gate of a document, its chunks and its summary.
load_document(k, d) == ~(k.listed /\ ~(d.filed /\ folder_ids(k))) /\ document_visible(k, d)

may_contribute_to_document(k) == k.org \/ overlaps(doc.edit, k.masks)
Seen(k) == document_visible(k, [filed |-> TRUE, own |-> doc.own])

----------------------------------------------------------------------------
(* The body of a write, and what it takes to read it. *)
Cap == SizeLimit + Allowance
Received(b, i) == FoldSeq(LAMBDA n, sum : n + sum, 0, SubSeq(b.chunks, 1, i))

\* Chunks taken in before the body is refused: the one that crosses the cap is the last.
bounded_request(b) ==
  IF b.kind = "multipart" /\ b.declared > Cap THEN 0
  ELSE LET over == {i \in 1 .. Len(b.chunks) : Received(b, i) > Cap} IN
       IF over = {} THEN Len(b.chunks) ELSE CHOOSE i \in over : \A j \in over : i <= j

check_size(n) == n <= SizeLimit
read_json_body_bounded(b) == Received(b, bounded_request(b)) <= Cap
parse_json(b) == read_json_body_bounded(b) /\ check_size(b.content)

\* The lengths of the stem and of the extension that are left.
safe_filename(stem, ext) ==
  IF stem + ext <= NameMax THEN <<stem, ext>>
  ELSE LET e == IF ext < ExtMax THEN ext ELSE ExtMax IN <<IF stem < NameMax - e THEN stem ELSE NameMax - e, e>>

\* One file of an allowed type, with a name, that is not empty.
form_to_input(b) == b.name.stem > 0 /\ b.name.allowed /\ b.name.ext <= ExtMax /\ b.content > 0 /\ check_size(b.content)
parse_multipart(b) ==
  ~(b.declared > Cap) /\ Received(b, bounded_request(b)) <= Cap /\ form_to_input(b)

parse_write(b) == IF b.kind = "json" THEN parse_json(b) ELSE b.kind = "multipart" /\ parse_multipart(b)

----------------------------------------------------------------------------
Move(w, r) == req' = [req EXCEPT ![w] = r]
Answer(w, code) == Move(w, NoWrite)
Goto(w, pc) == Move(w, [req[w] EXCEPT !.pc = pc])
Fault == faults < MaxFaults /\ faults' = faults + 1
Unlocked == lock = Nobody
Alive == tasks # {} \/ \E w \in Writers : req[w].pc \in {"discard", "dispatch", "mark"}

\* _authorised_folder; the body was parsed.
write_document(w, k, b, v) ==
  /\ req[w].pc = "idle" /\ writes < MaxWrites /\ parse_write(b) /\ writes' = writes + 1
  /\ LET asked == [NoWrite EXCEPT !.n = writes + 1, !.key = k, !.hash = v[1], !.title = v[2], !.file = (b.kind = "multipart")] IN
     IF outside_folders(k) \/ ~folder_visible(k) THEN Answer(w, "404")
     ELSE IF ~can_add_to_folder(k) THEN Answer(w, "403")
     ELSE Move(w, [asked EXCEPT !.pc = "upsert"])
  /\ UNCHANGED <<doc, obj, lock, tasks, index, faults, bare, overrun, strayed>>

\* No lock waits for a row that is not there.
CreateStart(w) ==
  /\ req[w].pc = "upsert" /\ ~doc.there
  /\ Move(w, [req[w] EXCEPT !.pc = IF req[w].file THEN "store" ELSE "commit", !.new = TRUE])
  /\ UNCHANGED <<doc, obj, lock, tasks, index, writes, faults, bare, overrun, strayed>>

is_stuck_pending == doc.status = "PENDING" /\ (doc.age = 2 \/ (~doc.task /\ doc.age = 1))
retryable == doc.status \in {"FAILED", "CANCELLED"} \/ is_stuck_pending
metadata_changed(r) == doc.title # r.title

\* _replace, up to its decision: the row is locked from here to the commit.
Replace(w) ==
  LET r == req[w]  same == doc.hash = r.hash  busy == doc.status \in {"PENDING", "PROCESSING"}
      may == Seen(r.key) /\ may_contribute_to_document(r.key) IN
  /\ r.pc = "upsert" /\ doc.there /\ Unlocked
  /\ \/ ~Seen(r.key) /\ Answer(w, "conflict") /\ UNCHANGED lock
     \/ Seen(r.key) /\ ~may_contribute_to_document(r.key) /\ Answer(w, "403") /\ UNCHANGED lock
     \/ may /\ same /\ ~retryable /\ ~metadata_changed(r) /\ Answer(w, "unchanged") /\ UNCHANGED lock
     \/ may /\ same /\ ~retryable /\ metadata_changed(r) /\ Goto(w, "retitle") /\ lock' = w
     \/ may /\ ~same /\ ~retryable /\ busy /\ Answer(w, "busy") /\ UNCHANGED lock
     \/ /\ may /\ (retryable \/ (~same /\ ~busy)) /\ lock' = w
        /\ Move(w, [r EXCEPT !.pc = "purge", !.new = ~same, !.old = doc.url])
  /\ overrun' = (overrun \/ (lock' = w /\ Alive))
  /\ UNCHANGED <<doc, obj, tasks, index, writes, faults, bare, strayed>>

\* _update_metadata_only: committed, then enqueued if the broker is there.
UpdateMetadataOnly(w, ok) ==
  /\ req[w].pc = "retitle" /\ lock = w /\ lock' = Nobody
  /\ doc' = [doc EXCEPT !.title = req[w].title, !.age = 0]
  /\ IF ok THEN tasks' = tasks \cup {[kind |-> "title", n |-> req[w].n, title |-> req[w].title, text |-> Nobody, url |-> NoUrl, pc |-> "queued"]} /\ UNCHANGED <<faults, strayed>>
           ELSE Fault /\ strayed' = TRUE /\ UNCHANGED tasks
  /\ Answer(w, "metadata_updated") /\ UNCHANGED <<obj, index, writes, bare, overrun>>

\* _requeue: the purge is first, and fatal.
Purge(w, ok) ==
  /\ req[w].pc = "purge"
  /\ IF ok THEN /\ index' = {} /\ Goto(w, IF req[w].new /\ req[w].file THEN "store" ELSE "commit") /\ UNCHANGED <<lock, faults>>
           ELSE Fault /\ lock' = Nobody /\ Answer(w, "503") /\ UNCHANGED index
  /\ UNCHANGED <<doc, obj, tasks, writes, bare, overrun, strayed>>

----------------------------------------------------------------------------
(* The original and the row. *)
\* A new document has a key of its own, a replacement a prefix of its hash.
ObjectKey(w) == IF doc.there /\ lock = w THEN <<doc.key, req[w].hash>> ELSE <<req[w].n, 0>>

Store(w, ok) ==
  /\ req[w].pc = "store"
  /\ IF ok THEN /\ obj' = obj \cup {ObjectKey(w)} /\ Move(w, [req[w] EXCEPT !.pc = "commit", !.stored = ObjectKey(w)]) /\ UNCHANGED <<lock, faults, bare>>
           ELSE Fault /\ lock' = (IF lock = w THEN Nobody ELSE lock) /\ bare' = (bare \/ lock = w) /\ Answer(w, "502") /\ UNCHANGED obj
  /\ UNCHANGED <<doc, tasks, index, writes, overrun, strayed>>

\* Mutant: what was stored for a row that was not committed is forgotten.
DiscardNone(o, gone) == gone /\ UNCHANGED <<obj, faults, strayed>>

\* Best effort.
Discard(o, gone) ==
  \/ gone /\ obj' = obj \ {o} /\ UNCHANGED <<faults, strayed>>
  \/ ~gone /\ o # NoUrl /\ Fault /\ strayed' = TRUE /\ UNCHANGED obj

\* The unique index decides between two that make the same ref.
CommitCreate(w, gone) ==
  LET r == req[w] IN
  /\ r.pc = "commit" /\ lock # w
  /\ IF doc.there THEN Answer(w, "conflict") /\ Discard(r.stored, gone) /\ UNCHANGED doc
     ELSE /\ gone /\ Goto(w, "dispatch") /\ UNCHANGED <<obj, faults, strayed>>
          /\ doc' = [NoRow EXCEPT !.there = TRUE, !.key = r.n, !.hash = r.hash, !.title = r.title, !.url = r.stored]
  /\ UNCHANGED <<lock, tasks, index, writes, bare, overrun>>

CommitReplace(w) ==
  LET r == req[w] IN
  /\ r.pc = "commit" /\ lock = w /\ lock' = Nobody
  /\ doc' = [doc EXCEPT !.title = r.title, !.status = "PENDING", !.task = FALSE, !.age = 0,
                        !.hash = r.hash, !.url = IF r.new THEN r.stored ELSE @]
  /\ Goto(w, IF r.new /\ r.old # NoUrl /\ r.old # r.stored THEN "discard" ELSE "dispatch")
  /\ UNCHANGED <<obj, tasks, index, writes, faults, bare, overrun, strayed>>

\* The commit fails: rolled back, and what was stored is taken away.
CommitFails(w, gone) ==
  /\ req[w].pc = "commit" /\ faults < MaxFaults
  /\ lock' = (IF lock = w THEN Nobody ELSE lock) /\ bare' = (bare \/ lock = w) /\ Answer(w, "500")
  /\ faults' = faults + 1 /\ obj' = (IF gone THEN obj \ {req[w].stored} ELSE obj) /\ strayed' = (strayed \/ ~gone)
  /\ UNCHANGED <<doc, tasks, index, writes, overrun>>

\* The superseded object, after the commit.
DiscardOld(w, gone) ==
  /\ req[w].pc = "discard" /\ Discard(req[w].old, gone) /\ Goto(w, "dispatch")
  /\ UNCHANGED <<doc, lock, tasks, index, writes, bare, overrun>>

\* The task carries what this writer committed, not what the row says now.
Dispatch(w, ok) ==
  LET r == req[w] IN
  /\ r.pc = "dispatch"
  /\ IF ok THEN /\ Goto(w, "persist") /\ UNCHANGED faults
                /\ tasks' = tasks \cup {[kind |-> "ingest", n |-> req[w].n, title |-> r.title, text |-> r.hash, url |-> IF r.new THEN r.stored ELSE r.old, pc |-> "queued"]}
           ELSE Fault /\ Goto(w, "mark") /\ UNCHANGED tasks
  /\ UNCHANGED <<doc, obj, lock, index, writes, bare, overrun, strayed>>

MarkEnqueueFailed(w) ==
  /\ req[w].pc = "mark" /\ Unlocked /\ doc' = [doc EXCEPT !.status = "FAILED", !.age = 0] /\ Answer(w, "503")
  /\ UNCHANGED <<obj, lock, tasks, index, writes, faults, bare, overrun, strayed>>

PersistTaskId(w) ==
  /\ req[w].pc = "persist" /\ Unlocked /\ doc' = [doc EXCEPT !.task = TRUE, !.age = 0] /\ Answer(w, "ok")
  /\ UNCHANGED <<obj, lock, tasks, index, writes, faults, bare, overrun, strayed>>

\* The process of a request ends where it is.
WriterDies(w) ==
  /\ req[w].pc # "idle" /\ Fault /\ lock' = (IF lock = w THEN Nobody ELSE lock) /\ Answer(w, "none")
  /\ bare' = (bare \/ (lock = w /\ req[w].pc \in {"store", "commit"}))
  /\ strayed' = (strayed \/ req[w].pc = "discard" \/ (req[w].pc = "commit" /\ req[w].stored # NoUrl))
  /\ UNCHANGED <<doc, obj, tasks, index, writes, overrun>>

----------------------------------------------------------------------------
(* The worker and the user interface, as a writer meets them. *)
TaskBegins(t) ==
  /\ t \in tasks /\ t.kind = "ingest" /\ t.pc = "queued" /\ Unlocked
  /\ tasks' = (tasks \ {t}) \cup {[t EXCEPT !.pc = "running"]} /\ doc' = [doc EXCEPT !.status = "PROCESSING", !.age = 0]
  /\ UNCHANGED <<obj, req, lock, index, writes, faults, bare, overrun, strayed>>

\* The index is replaced as a whole; an original that is gone, or a fault, fails.
TaskEnds(t, ok) ==
  /\ t \in tasks /\ t.pc = "running" /\ Unlocked /\ tasks' = tasks \ {t}
  /\ LET good == ok /\ (t.url = NoUrl \/ t.url \in obj) IN
     /\ doc' = [doc EXCEPT !.status = IF good THEN "SUCCESS" ELSE "FAILED", !.age = 0]
     /\ index' = IF good THEN {[text |-> t.text, title |-> t.title]} ELSE index
  /\ (IF ok THEN UNCHANGED faults ELSE Fault) /\ UNCHANGED <<obj, req, lock, writes, bare, overrun, strayed>>

TitleSet(t) ==
  /\ t \in tasks /\ t.kind = "title" /\ tasks' = tasks \ {t}
  /\ index' = {[i EXCEPT !.title = t.title] : i \in index}
  /\ UNCHANGED <<doc, obj, req, lock, writes, faults, bare, overrun, strayed>>

\* A task that was cancelled may be past the last place where it would notice.
Cancel(left) ==
  /\ doc.there /\ doc.task /\ doc.status \in {"PENDING", "PROCESSING"} /\ Unlocked /\ Fault
  /\ doc' = [doc EXCEPT !.status = "CANCELLED", !.age = 0] /\ tasks' = left
  /\ UNCHANGED <<obj, req, lock, index, writes, bare, overrun, strayed>>

Ages == /\ doc.there /\ doc.status = "PENDING" /\ doc.age < 2 /\ Unlocked /\ doc' = [doc EXCEPT !.age = @ + 1]
        /\ UNCHANGED <<obj, req, lock, tasks, index, writes, faults, bare, overrun, strayed>>

Limits(own, edit) ==
  /\ doc.there /\ Unlocked /\ <<own, edit>> # <<doc.own, doc.edit>> /\ Fault /\ doc' = [doc EXCEPT !.own = own, !.edit = edit, !.age = 0]
  /\ UNCHANGED <<obj, req, lock, tasks, index, writes, bare, overrun, strayed>>

----------------------------------------------------------------------------
WriteBegins(w) == \E k \in Keys, b \in Bodies, v \in Versions : write_document(w, k, b, v)
WriterStep(w) ==
  \/ WriteBegins(w) \/ CreateStart(w) \/ Replace(w) \/ CommitReplace(w) \/ MarkEnqueueFailed(w) \/ PersistTaskId(w) \/ WriterDies(w)
  \/ \E ok \in BOOLEAN : UpdateMetadataOnly(w, ok) \/ Purge(w, ok) \/ Store(w, ok) \/ CommitCreate(w, ok) \/ CommitFails(w, ok) \/ DiscardOld(w, ok) \/ Dispatch(w, ok)
Others == \/ \E t \in tasks : TaskBegins(t) \/ TitleSet(t) \/ \E ok \in BOOLEAN : TaskEnds(t, ok)
          \/ \E left \in SUBSET tasks : Cancel(left)
          \/ Ages \/ \E own, edit \in SUBSET Masks : Limits(own, edit)
WriteNext == (\E w \in Writers : WriterStep(w)) \/ Others
WriteSpec == WriteInit /\ [][WriteNext]_write_vars

----------------------------------------------------------------------------
WriteTypeOK ==
  /\ obj \subseteq ((0 .. MaxWrites) \X ({v[1] : v \in Versions} \cup {0})) /\ lock \in Writers \cup {Nobody} /\ Cardinality(index) <= 1
  /\ doc.status \in {"PENDING", "PROCESSING", "SUCCESS", "FAILED", "CANCELLED"} /\ lock # Nobody => doc.there

Quiet == tasks = {} /\ \A w \in Writers : req[w].pc = "idle"

(* The original a document is served from is in the store, whatever failed
   on the way; a version that is superseded while its own request still runs
   is the exception (_store, _discard). *)
ObjectKept == doc.there /\ doc.url # NoUrl /\ ~overrun => doc.url \in obj

(* Nothing is left behind in the store, unless a delete failed or a process
   ended (_discard). *)
NoOrphans == Quiet /\ ~strayed => obj \subseteq {doc.url}

(* A document that says SUCCESS is found with its last content and title;
   a failure between the purge and the commit, and a version replaced while
   its tasks were alive, are the exceptions (_requeue). *)
IndexFollows == Quiet /\ doc.status = "SUCCESS" /\ ~bare /\ ~overrun /\ ~strayed => index = {[text |-> doc.hash, title |-> doc.title]}

(* What a key finds in the list is what it may load (list_documents,
   _load_document). *)
ListAgrees == \A k \in Keys : \A d \in [filed : BOOLEAN, own : SUBSET Masks] : list_documents(k, d) = load_document(k, d)

(* No body is taken in past the cap by more than its last chunk, none that is
   too large is accepted, and a name fits with its extension
   (_bounded_request, _safe_filename). *)
BodyBounded == \A b \in Bodies :
  /\ LET n == bounded_request(b) IN n = 0 \/ Received(b, n - 1) <= Cap
  /\ parse_write(b) => b.content <= SizeLimit
  /\ LET s == safe_filename(b.name.stem, b.name.ext) IN s[1] + s[2] <= NameMax /\ (b.name.ext <= ExtMax => s[2] = b.name.ext)
=============================================================================
