----------------------------- MODULE Authoring -----------------------------
(***************************************************************************)
(* One workflow, its versions and its runs, under requests that overlap:   *)
(* the routes of the workflow router and the tools of the assistant, which *)
(* end in the same service.                                                *)
(*                                                                         *)
(* A request reads committed rows, one after the other, and keeps what it  *)
(* read; of a row it writes only the columns that differ from what it      *)
(* read.  The first write of a publish is flushed, and its row locked,     *)
(* before the version to archive is read.                                  *)
(***************************************************************************)
EXTENDS Naturals, Sequences, FiniteSets

CONSTANTS
  Requests,
  Graphs,         \* graphs that are saved: [errors, agents]
  MaxVersions,    \* bound
  MaxRuns,        \* bound
  MaxPublishes    \* bound

VARIABLES
  wf,         \* the workflow: there, enabled, the active version or 0
  ver,        \* ver[v]: status, the errors of its graph, whether it has agent tasks
  consent,    \* the agent is an enabled operator that opted in
  runs,       \* runs[r]: the version it is bound to, and its status
  req,        \* req[p]: the request p
  publishes,
  raced,      \* a publish met another publish in progress
  refused     \* a run was refused although a version is live

authoring_vars == <<wf, ver, consent, runs, req, publishes, raced, refused>>

NoRequest == [pc |-> "idle", v |-> 0, active |-> 0, status |-> "draft", prior |-> "draft"]

Draft(g) == [status |-> "draft", errors |-> g.errors, agents |-> g.agents]

\* The chain of actions that the assistant builds a first draft from has no
\* errors.
Chains == {g \in Graphs : g.errors = {} /\ ~g.agents}

\* create_workflow, in the assistant together with a first draft.
AuthoringInit ==
  /\ wf = [there |-> TRUE, enabled |-> TRUE, active |-> 0]
  /\ ver \in {<<>>} \cup {<<Draft(g)>> : g \in Chains}
  /\ consent \in BOOLEAN /\ runs = <<>> /\ req = [p \in Requests |-> NoRequest]
  /\ publishes = 0 /\ raced = FALSE /\ refused = FALSE

Exists(v) == wf.there /\ v \in DOMAIN ver
Done(p) == req' = [req EXCEPT ![p] = NoRequest]

\* Row locks: the version that a publish has flushed.
LockedBy(v) == {p \in Requests : req[p].pc = "flushed" /\ req[p].v = v}
Free(p, v) == LockedBy(v) \subseteq {p}

----------------------------------------------------------------------------
(***************************************************************************)
(* Drafts.                                                                 *)
(***************************************************************************)
\* save_draft: the next number is read first.
SaveDraft(p) ==
  /\ req[p].pc = "idle" /\ wf.there /\ Len(ver) < MaxVersions
  /\ req' = [req EXCEPT ![p] = [NoRequest EXCEPT !.pc = "insert", !.v = Len(ver) + 1]]
  /\ UNCHANGED <<wf, ver, consent, runs, publishes, raced, refused>>

\* WorkflowVersionRepository.create: a number that is taken is refused by
\* uq_workflow_version_number.
InsertDraft(p, g) ==
  /\ req[p].pc = "insert" /\ Done(p)
  /\ ver' = IF wf.there /\ req[p].v = Len(ver) + 1 THEN Append(ver, Draft(g)) ELSE ver
  /\ UNCHANGED <<wf, consent, runs, publishes, raced, refused>>

\* The assistant saves no graph with errors; the route saves any.
ToolSaveDefinition(p, g) == g.errors = {} /\ InsertDraft(p, g)

----------------------------------------------------------------------------
(***************************************************************************)
(* publish.                                                                *)
(***************************************************************************)
PublishStart(p) ==
  /\ req[p].pc = "idle" /\ wf.there /\ publishes < MaxPublishes /\ publishes' = publishes + 1
  /\ req' = [req EXCEPT ![p] = [NoRequest EXCEPT !.pc = "version", !.active = wf.active]]
  /\ raced' = (raced \/ \E o \in Requests : req[o].pc \in {"version", "flush", "flushed", "run"})
  /\ UNCHANGED <<wf, ver, consent, runs, refused>>

\* _preflight_agent_tasks: graphs with agent tasks, and no others.
Preflight(v) == ver[v].agents => "agent-task" \notin ver[v].errors /\ consent

\* The version is read and the preflight made.
PublishRead(p, v) ==
  /\ req[p].pc = "version"
  /\ IF Exists(v) /\ Preflight(v)
     THEN req' = [req EXCEPT ![p].pc = "flush", ![p].v = v, ![p].status = ver[v].status]
     ELSE Done(p)
  /\ UNCHANGED <<wf, ver, consent, runs, publishes, raced, refused>>

\* The assistant publishes no graph with errors.
ToolPublish(p, v) == v \in DOMAIN ver /\ ver[v].errors = {} /\ PublishRead(p, v)

\* The status of the version is flushed, and the version to archive is read.
PublishFlush(p) ==
  /\ req[p].pc = "flush" /\ Free(p, req[p].v)
  /\ req' = IF ~Exists(req[p].v) THEN [req EXCEPT ![p] = NoRequest]
           ELSE [req EXCEPT ![p].pc = "flushed", ![p].prior = IF Exists(req[p].active) THEN ver[req[p].active].status ELSE "draft"]
  /\ UNCHANGED <<wf, ver, consent, runs, publishes, raced, refused>>

Archives(t) == t.active \notin {0, t.v} /\ t.prior = "published"

\* The version before it is archived, the workflow is pointed at the version,
\* and the transaction commits.
PublishCommit(p) ==
  LET t == req[p]
  IN /\ t.pc = "flushed" /\ (Archives(t) => Free(p, t.active)) /\ Done(p)
     /\ ver' = [v \in DOMAIN ver |->
                  [ver[v] EXCEPT !.status = IF v = t.v /\ t.status # "published" THEN "published"
                                            ELSE IF v = t.active /\ Archives(t) THEN "archived" ELSE @]]
     /\ wf' = IF t.active # t.v THEN [wf EXCEPT !.active = t.v] ELSE wf
     /\ UNCHANGED <<consent, runs, publishes, raced, refused>>

\* Two publishes that wait for each other: one of them is aborted.
Waits(p, o) == req[p].pc = "flushed" /\ Archives(req[p]) /\ o \in LockedBy(req[p].active)
PublishAbort(p) ==
  /\ \E o \in Requests \ {p} : Waits(p, o) /\ Waits(o, p)
  /\ Done(p) /\ UNCHANGED <<wf, ver, consent, runs, publishes, raced, refused>>

----------------------------------------------------------------------------
(***************************************************************************)
(* The workflow itself, and its runs.                                      *)
(***************************************************************************)
\* update_workflow.
SetEnabled(b) == wf.there /\ wf.enabled # b /\ wf' = [wf EXCEPT !.enabled = b]
                 /\ UNCHANGED <<ver, consent, runs, req, publishes, raced, refused>>

\* delete_workflow: the versions go with it, the runs stay.
DeleteWorkflow ==
  /\ wf.there /\ \A v \in DOMAIN ver : LockedBy(v) = {}
  /\ wf' = [wf EXCEPT !.there = FALSE] /\ UNCHANGED <<ver, consent, runs, req, publishes, raced, refused>>

\* An administrator changes the agent.
ChangeAgent == consent' = ~consent /\ UNCHANGED <<wf, ver, runs, req, publishes, raced, refused>>

NewRun(v) == Append(runs, [ver |-> v, status |-> "waiting"])

\* run_workflow: the workflow is read ...
RunRead(p) ==
  /\ req[p].pc = "idle" /\ wf.there /\ Len(runs) < MaxRuns
  /\ IF wf.active = 0 THEN UNCHANGED req ELSE req' = [req EXCEPT ![p] = [NoRequest EXCEPT !.pc = "run", !.v = wf.active]]
  /\ raced' = (raced \/ \E o \in Requests : req[o].pc \in {"version", "flush", "flushed"})
  /\ UNCHANGED <<wf, ver, consent, runs, publishes, refused>>

\* Mutant: a workflow that is switched off cannot be run by hand either.
RunStartEnabled(p) ==
  /\ req[p].pc = "run" /\ Done(p)
  /\ IF Exists(req[p].v) /\ wf.enabled THEN runs' = NewRun(req[p].v) /\ UNCHANGED refused
     ELSE refused' = (refused \/ wf.there) /\ UNCHANGED runs
  /\ UNCHANGED <<wf, ver, consent, publishes, raced>>

\* ... then the version (resolve_published_version), and the run begins.
RunStart(p) ==
  /\ req[p].pc = "run" /\ Done(p)
  /\ IF Exists(req[p].v) /\ ver[req[p].v].status = "published"
     THEN Len(runs) < MaxRuns /\ runs' = NewRun(req[p].v) /\ UNCHANGED refused
     ELSE refused' = (refused \/ wf.there) /\ UNCHANGED runs
  /\ UNCHANGED <<wf, ver, consent, publishes, raced>>

\* list_enabled_for_entity: one statement reads both, for a trigger.
Trigger ==
  /\ wf.there /\ wf.enabled /\ wf.active # 0 /\ ver[wf.active].status = "published"
  /\ Len(runs) < MaxRuns /\ runs' = NewRun(wf.active)
  /\ UNCHANGED <<wf, ver, consent, req, publishes, raced, refused>>

\* complete_run_task and retry_workflow_run need the version of the run.
Move(r, from, to) ==
  /\ runs[r].status = from /\ Exists(runs[r].ver)
  /\ runs' = [runs EXCEPT ![r].status = to]
  /\ UNCHANGED <<wf, ver, consent, req, publishes, raced, refused>>

CompleteTask(r) == \E to \in {"succeeded", "failed"} : Move(r, "waiting", to)
ToolRetryRun(r) == Move(r, "failed", "waiting")

AuthoringNext ==
  \/ \E p \in Requests :
       \/ SaveDraft(p) \/ PublishStart(p) \/ PublishFlush(p) \/ PublishCommit(p) \/ PublishAbort(p) \/ RunRead(p) \/ RunStart(p)
       \/ \E g \in Graphs : InsertDraft(p, g) \/ ToolSaveDefinition(p, g)
       \/ \E v \in 1 .. MaxVersions : PublishRead(p, v) \/ ToolPublish(p, v)
  \/ (\E b \in BOOLEAN : SetEnabled(b)) \/ DeleteWorkflow \/ ChangeAgent \/ Trigger
  \/ \E r \in DOMAIN runs : CompleteTask(r) \/ ToolRetryRun(r)

AuthoringSpec == AuthoringInit /\ [][AuthoringNext]_authoring_vars

----------------------------------------------------------------------------
Published == {v \in DOMAIN ver : ver[v].status = "published"}

AuthoringTypeOK ==
  /\ wf.active \in 0 .. Len(ver) /\ Len(ver) <= MaxVersions
  /\ \A v \in DOMAIN ver : ver[v].status \in {"draft", "published", "archived"}
  /\ \A r \in DOMAIN runs : runs[r].ver \in DOMAIN ver /\ runs[r].status \in {"waiting", "succeeded", "failed"}
  /\ \A v \in DOMAIN ver : Cardinality(LockedBy(v)) <= 1

\* The version that a workflow points at can be run: a workflow is left
\* pointing at an archived version, which no trigger fires, only by publishes
\* that overlapped.
OnlyRaceStrands == wf.active # 0 /\ wf.active \notin Published => raced

\* Publishing archives what was live: two versions are published only after
\* publishes that overlapped.
OnlyRaceLeavesTwo == Published \subseteq {wf.active} \/ raced

\* A workflow with a live version refuses a run only if a publish came between
\* the two reads of the request.
OnlyRaceRefuses == refused => raced

\* "error issues block publish".
ErrorsBlockPublish == \A v \in Published : ver[v].errors = {}
=============================================================================
