----------------------------- MODULE ViewShare -----------------------------
(***************************************************************************)
(* The link that opens one view to anyone who holds it: the admins who     *)
(* enable, rotate and disable it, the visitors whose page shows a record   *)
(* and whose buttons start workflows.                                      *)
(*                                                                         *)
(* An admin's request loads the view, sets what was asked, and writes the  *)
(* columns that differ from what it loaded.                                *)
(***************************************************************************)
EXTENDS Naturals, FiniteSets

CONSTANTS
  Admins,
  Visitors,
  Workflows,
  MaxTokens,
  MaxRecords

VARIABLES
  view,          \* [token, record, follow, active, expired]
  page,          \* the workflows that the view's elements can start and that are enabled
  newest,        \* the record that was created last
  asked,         \* asked[k]: what the request that made token k asked for
  admin,         \* admin[a]: what it loaded and what it asks for
  visit,         \* visit[v]: [token, shown, pc, wf, record, touched]
  runs,          \* the runs that were started: [token, wf, record, ok, touched]
  raced          \* two admins overlapped

vars == <<view, page, newest, asked, admin, visit, runs, raced>>

None == 0
Private == [token |-> None, record |-> None, follow |-> FALSE, active |-> TRUE, expired |-> FALSE]
Share(r, f) == [record |-> r, follow |-> f, on |-> TRUE]
Shares == {Share(1, FALSE), Share(None, FALSE), Share(None, TRUE)}
NoShare == [record |-> None, follow |-> FALSE, on |-> FALSE]
NoAdmin == [pc |-> "idle", read |-> Private, want |-> NoShare]
NoVisit == [token |-> None, shown |-> None, pc |-> "idle", wf |-> None, touched |-> FALSE]

Init ==
  /\ view = Private
  /\ page = Workflows /\ newest = 1 /\ asked = <<>>
  /\ admin = [a \in Admins |-> NoAdmin] /\ visit = [v \in Visitors |-> NoVisit] /\ runs = {} /\ raced = FALSE

Touch == [v \in Visitors |-> [visit[v] EXCEPT !.touched = @ \/ visit[v].pc = "resolved"]]

----------------------------------------------------------------------------
(***************************************************************************)
(* Admins.                                                                 *)
(***************************************************************************)
\* enable_view_share: what is asked for; the schema takes a record, or follow.
Load(a, want) ==
  /\ admin[a].pc = "idle" /\ Cardinality(DOMAIN asked) < MaxTokens
  /\ admin' = [admin EXCEPT ![a] = [pc |-> "loaded", read |-> view, want |-> want]]
  /\ raced' = (raced \/ \E b \in Admins \ {a} : admin[b].pc # "idle")
  /\ UNCHANGED <<view, page, newest, asked, visit, runs>>

\* The columns that differ from those that were loaded.
Written(read, new) ==
  [c \in DOMAIN view |-> IF new[c] # read[c] THEN new[c] ELSE view[c]]

\* ViewShareAdminService.enable.
Enabled(read, k, w) == [read EXCEPT !.token = k, !.follow = w.follow, !.record = IF w.follow THEN None ELSE w.record, !.expired = FALSE]

Enable(a) ==
  LET k == Cardinality(DOMAIN asked) + 1
  IN /\ admin[a].pc = "loaded" /\ admin[a].want.on /\ k <= MaxTokens
     /\ view' = Written(admin[a].read, Enabled(admin[a].read, k, admin[a].want))
     /\ asked' = [j \in 1 .. k |-> IF j = k THEN admin[a].want ELSE asked[j]]
     /\ admin' = [admin EXCEPT ![a] = NoAdmin] /\ visit' = Touch
     /\ UNCHANGED <<page, newest, runs, raced>>

\* disable.
Disable(a) ==
  /\ admin[a].pc = "loaded" /\ ~admin[a].want.on
  /\ view' = Written(admin[a].read, [admin[a].read EXCEPT !.token = None, !.record = None, !.follow = FALSE, !.expired = FALSE])
  /\ admin' = [admin EXCEPT ![a] = NoAdmin] /\ visit' = Touch
  /\ UNCHANGED <<page, newest, asked, runs, raced>>

\* update_view switches it off or takes a button away, or its workflow is
\* disabled; the link expires.
UpdateView ==
  /\ \/ view' = [view EXCEPT !.active = FALSE] /\ UNCHANGED page
     \/ view' = [view EXCEPT !.expired = view.token # None] /\ UNCHANGED page
     \/ \E w \in page : page' = page \ {w} /\ UNCHANGED view
  /\ visit' = Touch /\ UNCHANGED <<newest, asked, admin, runs, raced>>

NewRecord ==
  /\ newest < MaxRecords /\ newest' = newest + 1
  /\ UNCHANGED <<view, page, asked, admin, visit, runs, raced>>

----------------------------------------------------------------------------
(***************************************************************************)
(* Visitors.                                                               *)
(***************************************************************************)
\* _resolve and share_is_live.
ShareIsLive(k) == view.token = k /\ view.active /\ ~view.expired

\* _record_id.
RecordId == IF view.follow THEN newest ELSE view.record

\* render.
Render(v, k) ==
  /\ visit[v].pc = "idle" /\ k \in DOMAIN asked /\ ShareIsLive(k)
  /\ visit' = [visit EXCEPT ![v] = [NoVisit EXCEPT !.token = k, !.shown = RecordId]]
  /\ UNCHANGED <<view, page, newest, asked, admin, runs, raced>>

\* run_workflow: the token, the allow-list of the view as it is now, the switch.
RunWorkflow(v, w) ==
  /\ visit[v].pc = "idle" /\ visit[v].token # None /\ ShareIsLive(visit[v].token)
  /\ w \in page
  /\ visit' = [visit EXCEPT ![v].pc = "resolved", ![v].wf = w, ![v].touched = FALSE]
  /\ UNCHANGED <<view, page, newest, asked, admin, runs, raced>>

\* The record is resolved again, and the run starts.
StartRun(v) ==
  LET t == visit[v]
  IN /\ t.pc = "resolved" /\ visit' = [visit EXCEPT ![v] = NoVisit]
     /\ runs' = {[token |-> t.token, wf |-> t.wf, record |-> RecordId, shown |-> t.shown, touched |-> t.touched,
                  ok |-> view.token = t.token /\ view.active /\ ~view.expired /\ t.wf \in page]}
     /\ UNCHANGED <<view, page, newest, asked, admin, raced>>

Next ==
  \/ \E a \in Admins : (\E w \in Shares \cup {NoShare} : Load(a, w)) \/ Enable(a) \/ Disable(a)
  \/ UpdateView \/ NewRecord
  \/ \E v \in Visitors : (\E k \in 1 .. MaxTokens : Render(v, k)) \/ (\E w \in Workflows : RunWorkflow(v, w)) \/ StartRun(v)

Spec == Init /\ [][Next]_vars

----------------------------------------------------------------------------
TypeOK == view.token \in 0 .. MaxTokens /\ view.record \in {None, 1} /\ page \subseteq Workflows

\* The live link is about what the request that made it asked for, unless
\* admins overlapped: a column that one loaded as it wants it is not written.
LinkAsAsked ==
  view.token # None /\ ~raced => Share(view.record, view.follow) = asked[view.token]

\* A visitor starts only what the page can start, with a link that works, unless
\* something was changed while the request was under way.
RunsBounded == \A r \in runs : r.ok \/ r.touched

\* "a button acts on the record the page is showing".
ActsOnShown == \A r \in runs : r.touched \/ r.record = r.shown
=============================================================================
