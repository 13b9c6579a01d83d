--------------------------- MODULE DocumentIngest ---------------------------
(***************************************************************************)
(* One document on its way into the index.                                 *)
(*                                                                         *)
(* The api keeps the row; a Celery task on a worker extracts the text,     *)
(* submits it to brain-api and polls; brain-api runs one background job    *)
(* per document key and remembers it in memory; every report of the worker *)
(* is a callback that may be lost.  Workers and brain-api may restart; a   *)
(* task that was not acknowledged is delivered again.                      *)
(***************************************************************************)
EXTENDS Naturals, Sequences, FiniteSets

CONSTANTS
  Texts,                \* bodies a document may have; 0 is no text
  Blank,                \* the bodies of which no chunk is left
  MaxTasks,             \* bound: tasks dispatched for the document
  MaxRequests,          \* bound: requests after the first
  MaxFailures             \* bound: lost callbacks, outages and restarts

Cancellable == {"PENDING", "PROCESSING"}
Terminal == {"SUCCESS", "FAILED", "CANCELLED"}

VARIABLES
  doc,       \* the row: there, status, text and acl (counters of versions), task
  uploaded,  \* the text is extracted from a stored original by the worker
  req,       \* the request in progress: "none", or what it has left to do
  task,      \* task[k]: what the k-th task carries and where it is
  flag,      \* the tasks cancelled: flagged (ingest:cancel:{task_id}) and revoked
  asked,     \* requests made
  job,       \* brain-api's registry: what it says of the document
  thread,    \* the background thread: what it writes and its phase
  index,     \* the chunks in the vector store: a set of [text, acl]
  meta,      \* access keys on their way to the index
  failures,
  crossed,   \* a request met a task, a job or a metadata update in flight
  lost       \* a callback, an enqueue or a task was lost

ingest_vars == <<doc, uploaded, req, task, flag, asked, job, thread, index, meta, failures, crossed, lost>>

NoThread == [phase |-> "none", text |-> 0, acl |-> 0]
Live(k) == task[k].pc # "ended"
InFlight == (\E k \in DOMAIN task : Live(k)) \/ thread.phase # "none" \/ meta # <<>>
Ask == asked < MaxRequests /\ asked' = asked + 1
Fails == failures < MaxFailures /\ failures' = failures + 1

Row(text) == [there |-> TRUE, status |-> "PENDING", text |-> text, acl |-> 1, task |-> 0]

\* The row is committed; what has a body is still to be dispatched.
CreateDocument == uploaded = FALSE /\ \E t \in Texts : doc = Row(t) /\ req = IF t = 0 THEN "none" ELSE "dispatch"

\* The original is stored before the row is committed.
UploadDocument == uploaded = TRUE /\ \E t \in Texts : doc = Row(t) /\ req = "dispatch"

IngestInit ==
  /\ CreateDocument \/ UploadDocument
  /\ task = <<>> /\ flag = {} /\ asked = 0 /\ job = "unknown" /\ thread = NoThread
  /\ index = {} /\ meta = <<>> /\ failures = 0 /\ crossed = FALSE /\ lost = FALSE

----------------------------------------------------------------------------
(***************************************************************************)
(* Requests.                                                               *)
(***************************************************************************)
\* update_document_content: whatever the status; a row without a stored
\* original that is left without text is only purged.
Edit(text) ==
  /\ req = "none" /\ doc.there /\ text # doc.text
  /\ IF text = 0 /\ ~uploaded
     THEN doc' = [doc EXCEPT !.text = 0] /\ req' = "purge"
     ELSE doc' = [doc EXCEPT !.text = text, !.status = "PENDING"] /\ req' = "replace"
  /\ crossed' = (crossed \/ InFlight)
  /\ Ask /\ UNCHANGED <<uploaded, task, flag, job, thread, index, meta, failures, lost>>

\* reprocess_document refuses while an ingest is in flight.
Reprocessable == doc.status \notin Cancellable /\ (uploaded \/ doc.text # 0)

Reprocess ==
  /\ req = "none" /\ doc.there /\ Reprocessable
  /\ doc' = [doc EXCEPT !.status = "PENDING"] /\ req' = "replace"
  /\ crossed' = (crossed \/ InFlight)
  /\ Ask /\ UNCHANGED <<uploaded, task, flag, job, thread, index, meta, failures, lost>>

\* _purge_brain_vectors, best effort.
Purge(ok) ==
  /\ req \in {"replace", "purge"}
  /\ IF ok THEN index' = {} /\ UNCHANGED <<failures, lost>> ELSE Fails /\ lost' = TRUE /\ UNCHANGED index
  /\ req' = IF req = "replace" THEN "dispatch" ELSE "none"
  /\ UNCHANGED <<doc, uploaded, task, flag, asked, job, thread, meta, crossed>>

\* dispatch_ingest or dispatch_extract_ingest; without a broker the row stays
\* PENDING.
Dispatch(ok) ==
  /\ req = "dispatch"
  /\ IF ok
     THEN /\ Len(task) < MaxTasks
          /\ task' = Append(task, [pc |-> "queued", text |-> doc.text, acl |-> doc.acl])
          /\ req' = "persist" /\ crossed' = (crossed \/ InFlight) /\ UNCHANGED <<failures, lost>>
     ELSE Fails /\ lost' = TRUE /\ req' = "none" /\ UNCHANGED <<task, crossed>>
  /\ UNCHANGED <<doc, uploaded, flag, asked, job, thread, index, meta>>

\* persist_task_id.
Persist ==
  /\ req = "persist" /\ req' = "none" /\ doc' = [doc EXCEPT !.task = Len(task)]
  /\ UNCHANGED <<uploaded, task, flag, asked, job, thread, index, meta, failures, crossed, lost>>

\* cancel_document_ingest: flag and revoke the task that the row names, mark
\* the row, purge.
Cancel(ok) ==
  /\ doc.there /\ doc.status \in Cancellable
  /\ flag' = IF doc.task = 0 THEN flag ELSE flag \cup {doc.task}
  /\ doc' = [doc EXCEPT !.status = "CANCELLED"]
  /\ IF ok THEN index' = {} /\ UNCHANGED <<failures, lost>> ELSE Fails /\ lost' = TRUE /\ UNCHANGED index
  /\ crossed' = (crossed \/ InFlight \/ req # "none")
  /\ Ask /\ UNCHANGED <<uploaded, req, task, job, thread, meta>>

\* update_document: new access keys are stored and sent after the index.
Patch(ok) ==
  /\ req = "none" /\ doc.there /\ doc.acl = 1
  /\ doc' = [doc EXCEPT !.acl = 2]
  /\ crossed' = (crossed \/ InFlight)
  /\ IF ok THEN meta' = Append(meta, 2) /\ UNCHANGED <<failures, lost>> ELSE Fails /\ lost' = TRUE /\ UNCHANGED meta
  /\ Ask /\ UNCHANGED <<uploaded, req, task, flag, job, thread, index>>

\* delete_document: the row, and best effort the index.
Delete(ok) ==
  /\ req = "none" /\ doc.there /\ doc' = [doc EXCEPT !.there = FALSE]
  /\ IF ok THEN index' = {} /\ UNCHANGED <<failures, lost>> ELSE Fails /\ lost' = TRUE /\ UNCHANGED index
  /\ crossed' = (crossed \/ InFlight)
  /\ Ask /\ UNCHANGED <<uploaded, req, task, flag, job, thread, meta>>

----------------------------------------------------------------------------
(***************************************************************************)
(* The worker.                                                             *)
(***************************************************************************)
\* report_status and the endpoint that applies it: as it comes, whichever
\* task sends it; a deleted document is unknown.
Report(status, got) ==
  IF got THEN /\ doc' = IF doc.there THEN [doc EXCEPT !.status = status] ELSE doc
              /\ UNCHANGED <<failures, lost>>
  ELSE Fails /\ lost' = TRUE /\ UNCHANGED doc

Goto(k, pc) == task' = [task EXCEPT ![k].pc = pc]
Quietly == UNCHANGED <<doc, failures, lost>>
RestOfWorker == UNCHANGED <<uploaded, req, flag, asked, meta, crossed>>

\* A task begins by saying so.
Begin(k, got) ==
  /\ task[k].pc = "queued" /\ Goto(k, "check") /\ Report("PROCESSING", got)
  /\ RestOfWorker /\ UNCHANGED <<job, thread, index>>

\* raise_if_cancelled, at every stage boundary.
Cancelled(k, got) == k \in flag /\ Goto(k, "ended") /\ Report("CANCELLED", got)
Check(k, got) ==
  /\ task[k].pc \in {"submit", "poll"}
  /\ \/ Cancelled(k, got)
     \/ k \notin flag /\ got /\ Goto(k, IF task[k].pc = "submit" THEN "post" ELSE "get") /\ Quietly
  /\ RestOfWorker /\ UNCHANGED <<job, thread, index>>

\* task_extract_and_ingest reads the stored original as it is now; a blank or
\* illegible one fails.  task_ingest_document has its text.
Extract(k, ok, got) ==
  /\ task[k].pc = "check"
  /\ \/ ok /\ Cancelled(k, got)
     \/ /\ k \notin flag /\ ok /\ ~(uploaded /\ doc.text = 0) /\ Report("PROCESSING", got)
        /\ task' = [task EXCEPT ![k] = [pc |-> "submit", text |-> IF uploaded THEN doc.text ELSE task[k].text,
                                        acl |-> task[k].acl]]
     \/ k \notin flag /\ ~ok /\ uploaded /\ Goto(k, "ended") /\ Report("FAILED", got)
  /\ RestOfWorker /\ UNCHANGED <<job, thread, index>>

\* brain-api's ingest_document: a document whose job runs is left alone.
Accept(k) ==
  IF job = "running" THEN UNCHANGED <<job, thread>>
  ELSE job' = "running" /\ thread' = [phase |-> "embed", text |-> task[k].text, acl |-> task[k].acl]

\* _submit_ingest: accepted, refused, or timed out after it was accepted.  A
\* refusal is tried again, and reported when the tries are used up; the
\* number of tries is left open.
Post(k, answer, got) ==
  /\ task[k].pc = "post"
  /\ \/ answer = "accepted" /\ got /\ Accept(k) /\ Goto(k, "poll") /\ Quietly
     \/ answer = "again" /\ got /\ UNCHANGED <<job, thread>> /\ Goto(k, "submit") /\ Quietly
     \/ answer = "refused" /\ UNCHANGED <<job, thread>> /\ Goto(k, "ended") /\ Report("FAILED", got)
     \/ answer = "timeout" /\ Accept(k) /\ Goto(k, "ended") /\ Report("FAILED", got)
  /\ RestOfWorker /\ UNCHANGED index

\* _poll_until_complete: the registry's word for the document, whichever job
\* it is about.  No answer, and "unknown", are borne for a while.
Poll(k, answer, got) ==
  /\ task[k].pc = "get"
  /\ \/ answer = "state" /\ job = "done" /\ Goto(k, "ended") /\ Report("SUCCESS", got)
     \/ answer = "state" /\ job = "failed" /\ Goto(k, "ended") /\ Report("FAILED", got)
     \/ answer = "state" /\ job = "running" /\ Goto(k, "poll") /\ Report("PROCESSING", got)
     \/ answer = "again" /\ got /\ Goto(k, "poll") /\ Quietly
     \/ answer = "none" /\ Goto(k, "ended") /\ Report("FAILED", got)
  /\ RestOfWorker /\ UNCHANGED <<job, thread, index>>

\* The worker is restarted: a task that was not acknowledged is delivered
\* again, with its id.
Redeliver(k) ==
  /\ Live(k) /\ task[k].pc # "queued" /\ Fails
  /\ task' = [task EXCEPT ![k].pc = "queued"]
  /\ RestOfWorker /\ UNCHANGED <<doc, job, thread, index, lost>>

\* A revoked task is terminated, if the broadcast reaches its worker in time.
Kill(k) ==
  /\ k \in flag /\ Live(k) /\ Goto(k, "ended") /\ lost' = TRUE
  /\ RestOfWorker /\ UNCHANGED <<doc, failures, job, thread, index>>

\* task_update_metadata, which brain-api applies to what is indexed.
UpdateMetadata ==
  /\ meta # <<>> /\ meta' = Tail(meta)
  /\ index' = {[text |-> c.text, acl |-> Head(meta)] : c \in index}
  /\ UNCHANGED <<doc, uploaded, req, task, flag, asked, job, thread, failures, crossed, lost>>

----------------------------------------------------------------------------
(***************************************************************************)
(* brain-api's background job.                                             *)
(***************************************************************************)
RestOfBrain == UNCHANGED <<doc, uploaded, req, task, flag, asked, meta, crossed>>

\* Embedded and summarised; then the purge right before the write.
JobPurge == /\ thread.phase = "embed" /\ thread.text \notin Blank /\ thread' = [thread EXCEPT !.phase = "write"]
            /\ index' = {} /\ RestOfBrain /\ UNCHANGED <<job, failures, lost>>

\* Mutant: an empty document is written all the same.
JobEmptyHalf == /\ thread.phase = "embed" /\ thread.text \in Blank /\ thread' = [thread EXCEPT !.phase = "write"]
                /\ RestOfBrain /\ UNCHANGED <<job, index, failures, lost>>

\* No chunks: done, and nothing is touched.
JobEmpty == /\ thread.phase = "embed" /\ thread.text \in Blank /\ thread' = NoThread /\ job' = "done"
            /\ RestOfBrain /\ UNCHANGED <<index, failures, lost>>

JobWrite == /\ thread.phase = "write" /\ thread' = [thread EXCEPT !.phase = "facts"]
            /\ index' = index \cup {[text |-> thread.text, acl |-> thread.acl]}
            /\ RestOfBrain /\ UNCHANGED <<job, failures, lost>>

JobDone == /\ thread.phase = "facts" /\ thread' = NoThread /\ job' = "done"
           /\ RestOfBrain /\ UNCHANGED <<index, failures, lost>>

JobFail == /\ thread.phase # "none" /\ thread' = NoThread /\ job' = "failed"
           /\ RestOfBrain /\ UNCHANGED <<index, failures, lost>>

\* The registry and the thread are gone.
BrainRestart == /\ job # "unknown" /\ Fails /\ job' = "unknown" /\ thread' = NoThread
                /\ RestOfBrain /\ UNCHANGED <<index, lost>>

----------------------------------------------------------------------------
Worker(k, got) ==
  \/ Begin(k, got) \/ Check(k, got)
  \/ \E ok \in BOOLEAN : Extract(k, ok, got)
  \/ \E a \in {"accepted", "again", "refused", "timeout"} : Post(k, a, got)
  \/ \E a \in {"state", "again", "none"} : Poll(k, a, got)

IngestNext ==
  \/ (\E t \in Texts : Edit(t)) \/ Reprocess \/ Persist \/ UpdateMetadata
  \/ \E ok \in BOOLEAN : Purge(ok) \/ Dispatch(ok) \/ Cancel(ok) \/ Patch(ok) \/ Delete(ok)
  \/ \E k \in DOMAIN task : Redeliver(k) \/ Kill(k) \/ \E got \in BOOLEAN : Worker(k, got)
  \/ JobPurge \/ JobEmpty \/ JobWrite \/ JobDone \/ JobFail \/ BrainRestart

IngestSpec == IngestInit /\ [][IngestNext]_ingest_vars

----------------------------------------------------------------------------
Quiet == ~InFlight /\ req = "none"

IngestTypeOK ==
  /\ doc.status \in Cancellable \cup Terminal /\ doc.text \in Texts /\ doc.task \in 0 .. Len(task)
  /\ req \in {"none", "replace", "purge", "dispatch", "persist"}
  /\ \A k \in DOMAIN task : task[k].pc \in {"queued", "check", "submit", "post", "poll", "get", "ended"}
  /\ job \in {"unknown", "running", "done", "failed"} /\ failures \in 0 .. MaxFailures
  /\ thread.phase \in {"none", "embed", "write", "facts"} /\ (thread.phase # "none" => job = "running")
  /\ index \subseteq [text : Texts, acl : 1 .. 2]

\* A re-ingest, a retry or a redelivery replaces: the index never holds chunks
\* of two ingests.
OneVersion == Cardinality(index) <= 1

\* With nothing in flight, a document that says SUCCESS is indexed with its
\* present text and access keys, unless requests met work in flight or
\* something was lost.
OnlyOverlapIsStale ==
  Quiet /\ ~crossed /\ ~lost /\ doc.there /\ doc.status = "SUCCESS" =>
    index = IF doc.text \in Blank \cup {0} THEN {} ELSE {[text |-> doc.text, acl |-> doc.acl]}

\* A deleted document leaves the index, unless it was deleted in flight.
GhostOnlyInFlight == Quiet /\ ~crossed /\ ~lost /\ ~doc.there => index = {}

\* With nothing in flight, a document with a body is left PENDING or PROCESSING
\* only by something that was lost.
StuckOnlyIfLost == Quiet /\ doc.there /\ doc.text # 0 /\ doc.status \in Cancellable => lost

\* What an ingest keeps.
IngestHolds == OneVersion /\ OnlyOverlapIsStale /\ GhostOnlyInFlight /\ StuckOnlyIfLost

\* A cancelled ingest stays cancelled until a new request: a task "aborts
\* cleanly instead of finishing and clobbering the CANCELLED status".
CancelStands == doc.status = "CANCELLED" => doc'.status = "CANCELLED" \/ asked' # asked
=============================================================================
