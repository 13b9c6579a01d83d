------------------------------ MODULE Actions ------------------------------
(***************************************************************************)
(* The actions of a workflow that write records or reach outside: each run *)
(* executes one task node.  A handler resolves its configuration against   *)
(* the run's context, writes in the transaction of the sweep, and calls    *)
(* the outside at once: when the transaction is rolled back its rows are   *)
(* gone, its mails and calls are not, and the node runs again.             *)
(*                                                                         *)
(* A value is [t, n]: a number, the text of a number, a blank text, a word *)
(* or null.  A configured value is [k, p, v]: a literal v, a "$ref" to the *)
(* path p, or a template with the token p.                                 *)
(***************************************************************************)
EXTENDS Integers, Sequences, FiniteSets

CONSTANTS
  Runs,
  Configs,        \* the nodes a run may execute
  Context,        \* the paths that exist, and their values
  Hosts,          \* Hosts[h] = [allowed, trusted, private, scheme]
  Connections,    \* the connections of the organisation, and their hosts
  MailOn,         \* whether mail is configured
  MaxTries        \* how often a node is tried

VARIABLES
  row,            \* the shared record: [exists, f]
  made,           \* how many records were created
  events,         \* the change events, as committed
  links,          \* links[r]: the form links of the run that are stored
  mails,          \* mails[r]: how many links of the run were mailed
  sent,           \* the calls that were made: [run, host, conn]
  st              \* st[r]: the run

vars == <<row, made, events, links, mails, sent, st>>

V(t, n) == [t |-> t, n |-> n]
Null == V("null", 0)
Blank == V("text", 0)
Num(n) == V("num", n)

(***************************************************************************)
(* Resolving a configuration.                                              *)
(***************************************************************************)
\* _trigger_context, _lookup: a path that does not exist is null.
Lookup(p) == IF p \in DOMAIN Context THEN Context[p] ELSE Null

\* _render_template: null renders as nothing, a value as its text.
RenderTemplate(p) ==
  LET v == Lookup(p) IN IF v = Null THEN Blank ELSE IF v.t = "num" THEN V("text", v.n) ELSE v

\* _resolve_ref: a template is not rendered, its text stays.
ResolveRef(s) == IF s.k = "ref" THEN Lookup(s.p) ELSE IF s.k = "tpl" THEN V("word", 9) ELSE s.v

\* _resolve_dynamic.
ResolveDynamic(s) ==
  CASE s.k = "ref" -> Lookup(s.p) [] s.k = "tpl" -> RenderTemplate(s.p) [] s.k = "lit" -> s.v

ResolveValueMap(values) == [f \in DOMAIN values |-> ResolveDynamic(values[f])]

\* _unresolved_ref_slugs: the references to what does not exist at all.
UnresolvedRefSlugs(values) == {f \in DOMAIN values : values[f].k = "ref" /\ values[f].p \notin DOMAIN Context}

\* _as_float: blank, null and words are nothing.
Numeric(v) == v.t = "num" \/ (v.t = "text" /\ v.n # 0)

\* _resolve_increments: a delta that is not numeric is dropped.
ResolveIncrements(incs) ==
  [f \in {g \in DOMAIN incs : Numeric(ResolveDynamic(incs[g]))} |-> ResolveDynamic(incs[f]).n]

(***************************************************************************)
(* The handlers.  An outcome says whether the step succeeded, what it      *)
(* writes to the shared record (None: no statement), and what it creates,  *)
(* mints and calls.                                                        *)
(***************************************************************************)
None == [none |-> TRUE]
Failed == [ok |-> FALSE, w |-> None, create |-> FALSE, link |-> FALSE, mail |-> FALSE, call |-> "none", conn |-> "none"]
Done == [Failed EXCEPT !.ok = TRUE]

\* assert_outbound_host_allowed, _is_private_host: listed, and not a private
\* address unless it is trusted.
Reachable(h) ==
  /\ h \in DOMAIN Hosts /\ Hosts[h].scheme \in {"http", "https"}
  /\ Hosts[h].allowed \/ Hosts[h].trusted
  /\ Hosts[h].trusted \/ ~Hosts[h].private

\* The statement, on a record that may have gone: then nothing is written.
Written(w) == IF row.exists THEN w ELSE None

\* UpdateRecordField: one field of the triggering record; only a reference is
\* resolved, and a reference to nothing is written as null.
UpdateRecordField(c) ==
  IF c.target = "none" THEN Failed
  ELSE [Done EXCEPT !.w = Written([f \in DOMAIN c.values |-> ResolveRef(c.values[f])])]

\* CreateRecord: what is unresolved is written as null.
CreateRecord(c) == IF c.target = "none" THEN Failed ELSE [Done EXCEPT !.create = TRUE]

\* GetRecord, and _jsonable: the record, or nothing; no effect.
GetRecord(c) == IF c.target = "none" THEN Failed ELSE Done

\* DynamicEntityRepository.increment with values: a literal wins over a delta,
\* and a null column counts as 0.
Incremented(deltas, values, clamp) ==
  [f \in DOMAIN deltas \cup DOMAIN values |->
     IF f \in DOMAIN values THEN values[f]
     ELSE LET n == (IF row.f[f].t = "num" THEN row.f[f].n ELSE 0) + deltas[f]
          IN Num(IF n < clamp.low THEN clamp.low ELSE IF n > clamp.high THEN clamp.high ELSE n)]

\* "Everything resolved to nothing."
Quiet(values, deltas) == DOMAIN values = {} /\ DOMAIN deltas = {}

\* _target_id, _resolve_record_id, _resolve_singleton_id: the newest record has
\* to be there, an id is taken as it is.
TargetFound(c) == c.target # "none" /\ (c.mode = "latest" => row.exists)

\* UpdateRecord: the fields that are said, with the deltas on the live row.
UpdateRecord(c) ==
  LET kept == DOMAIN c.values \ UnresolvedRefSlugs(c.values)
      values == [f \in kept |-> ResolveDynamic(c.values[f])]
      deltas == ResolveIncrements(c.increments)
  IN IF (DOMAIN c.values = {} /\ DOMAIN c.increments = {}) \/ ~TargetFound(c) THEN Failed
     ELSE IF Quiet(values, deltas) THEN Done
     ELSE IF DOMAIN deltas # {} /\ ~row.exists THEN Failed
     ELSE IF ~row.exists THEN Done
     ELSE [Done EXCEPT !.w = Incremented(deltas, values, c.clamp)]

\* SendForm, _mint_form_link: a link to the record is stored, and mailed when
\* there is a recipient and mail is configured; a mail that fails is not an error.
SendForm(c) ==
  IF ~row.exists THEN Failed
  ELSE [Done EXCEPT !.link = TRUE, !.mail = MailOn /\ ResolveRef(c.to) \notin {Null, Blank}]

\* SendEmail: a recipient that is no address fails the step before anything is sent.
SendEmail(c) ==
  LET to == ResolveDynamic(c.to)
  IN IF to = Null \/ to.t # "word" THEN Failed ELSE [Done EXCEPT !.mail = MailOn]

\* SendWebhook.
SendWebhook(c) == IF c.host = "none" \/ ~Reachable(c.host) THEN Failed ELSE [Done EXCEPT !.call = c.host]

\* call_connection, _resolve_connection and _auth_headers: a literal url, or the
\* connection's; the guard looks at the address that is really called.
CallConnection(c) ==
  LET target == IF c.host # "none" THEN c.host
                ELSE IF c.conn \in DOMAIN Connections THEN Connections[c.conn] ELSE "none"
  IN IF (c.conn # "none" /\ c.conn \notin DOMAIN Connections) \/ ~Reachable(target) THEN Failed
     ELSE [Done EXCEPT !.call = target, !.conn = c.conn]

\* HttpRequest, _render_deep: the body is rendered, the address never is.
HttpRequest(c) == CallConnection(c)

\* RandomAction and LogAction touch nothing.
RandomAction(c) == Done
LogAction(c) == Done

\* ACTION_REGISTRY; an unknown type fails the step.
Handle(c) ==
  CASE c.type = "update_record_field" -> UpdateRecordField(c)
    [] c.type = "create_record" -> CreateRecord(c)
    [] c.type = "get_record" -> GetRecord(c)
    [] c.type = "update_record" -> UpdateRecord(c)
    [] c.type = "send_form" -> SendForm(c)
    [] c.type = "send_email" -> SendEmail(c)
    [] c.type = "send_webhook" -> SendWebhook(c)
    [] c.type = "http_request" -> HttpRequest(c)
    [] c.type = "random" -> RandomAction(c)
    [] c.type = "log" -> LogAction(c)
    [] OTHER -> Failed

(***************************************************************************)
(* The runs.                                                               *)
(***************************************************************************)
Begin(c) == [cfg |-> c, pc |-> "idle", tries |-> 1, out |-> Failed]

Init ==
  /\ row = [exists |-> TRUE, f |-> [n |-> Num(1), c |-> V("word", 1)]]
  /\ made = 0 /\ events = <<>> /\ sent = {}
  /\ links = [r \in Runs |-> 0] /\ mails = [r \in Runs |-> 0]
  /\ \E cfg \in [Runs -> Configs] : st = [r \in Runs |-> Begin(cfg[r])]

\* The runs that hold the lock of the shared record.
Writers == {r \in Runs : st[r].pc = "acted" /\ st[r].out.w # None}

\* Mutant: a link is stored at once.
MintNow(r, o) == links' = [links EXCEPT ![r] = IF o.link THEN @ + 1 ELSE @]

\* The link is a row of the sweep's transaction.
Mint(r, o) == UNCHANGED links

\* ActionExecutor.execute: never raises; what fails is recorded on the step.  The
\* calls and the mails leave at once.
Execute(r) ==
  LET o == Handle(st[r].cfg)
  IN /\ st[r].pc = "idle" /\ (o.w # None => Writers = {})
     /\ st' = [st EXCEPT ![r].pc = IF o.ok THEN "acted" ELSE "failed", ![r].out = o]
     /\ mails' = [mails EXCEPT ![r] = IF o.mail THEN @ + 1 ELSE @]
     /\ sent' = IF o.call = "none" THEN sent ELSE sent \cup {[run |-> r, host |-> o.call, conn |-> o.conn]}
     /\ Mint(r, o) /\ UNCHANGED <<row, made, events>>

Overwritten(w) == [f \in DOMAIN row.f |-> IF f \in DOMAIN w THEN w[f] ELSE row.f[f]]

\* The sweep commits: the rows, and the change event of the record.
Commit(r) ==
  LET o == st[r].out
  IN /\ st[r].pc = "acted"
     /\ IF o.w = None THEN UNCHANGED <<row, events>>
        ELSE /\ row' = [row EXCEPT !.f = Overwritten(o.w)]
             /\ events' = Append(events, [run |-> r, before |-> row.f, after |-> Overwritten(o.w)])
     /\ made' = IF o.create THEN made + 1 ELSE made
     /\ links' = [links EXCEPT ![r] = IF o.link THEN @ + 1 ELSE @]
     /\ st' = [st EXCEPT ![r].pc = "done"] /\ UNCHANGED <<mails, sent>>

\* The sweep is lost, or another step of it fails: the event is delivered again.
Rollback(r) ==
  /\ st[r].pc = "acted" /\ st[r].tries < MaxTries
  /\ st' = [st EXCEPT ![r].pc = "idle", ![r].tries = @ + 1]
  /\ UNCHANGED <<row, made, events, links, mails, sent>>

\* A node with retries left.
Retry(r) ==
  /\ st[r].pc = "failed" /\ st[r].tries < MaxTries
  /\ st' = [st EXCEPT ![r].pc = "idle", ![r].tries = @ + 1]
  /\ UNCHANGED <<row, made, events, links, mails, sent>>

\* Somebody deletes the record.
Delete ==
  /\ row.exists /\ Writers = {} /\ row' = [row EXCEPT !.exists = FALSE]
  /\ UNCHANGED <<made, events, links, mails, sent, st>>

Next == Delete \/ \E r \in Runs : Execute(r) \/ Commit(r) \/ Rollback(r) \/ Retry(r)

Spec == Init /\ [][Next]_vars

(***************************************************************************)
(* Properties.                                                             *)
(***************************************************************************)
TypeOK ==
  /\ row.exists \in BOOLEAN /\ made \in 0 .. Cardinality(Runs) /\ Len(events) <= Cardinality(Runs)
  /\ \A r \in Runs : /\ st[r].pc \in {"idle", "acted", "failed", "done"} /\ st[r].tries \in 1 .. MaxTries
                     /\ links[r] \in 0 .. MaxTries /\ mails[r] \in 0 .. MaxTries
  /\ Cardinality(Writers) <= 1

\* What a node has something to say about: a literal, a template, a reference to
\* a path that exists, a number to add.
Said(c) ==
  {f \in DOMAIN c.values : c.values[f].k # "ref" \/ c.values[f].p \in DOMAIN Context}
    \cup {f \in DOMAIN c.increments : Numeric(ResolveDynamic(c.increments[f]))}

\* A reference to something that does not exist leaves its field alone, in an
\* update of several fields, whatever the other fields do (_unresolved_ref_slugs).
KeepsUnsaid ==
  \A i \in DOMAIN events :
     LET e == events[i] IN
       st[e.run].cfg.type = "update_record" =>
         \A f \in DOMAIN e.after : e.after[f] # e.before[f] => f \in Said(st[e.run].cfg)

\* No change event, which would start other workflows, comes from an update that
\* has nothing to say (UpdateRecord.execute).
EventSays ==
  \A i \in DOMAIN events :
     LET c == st[events[i].run].cfg IN c.type = "update_record" => Said(c) # {}

\* Two runs that add to one number both land: a commit adds what its node says to
\* the number as it is then (repo.increment).
DeltaLands ==
  \A r \in Runs :
       LET c == st[r].cfg IN
         st[r].pc = "acted" /\ st'[r].pc = "done" /\ c.type = "update_record" /\ row.f.n.t = "num"
           /\ st[r].out.w # None /\ "n" \in Said(c) /\ "n" \notin DOMAIN c.values
           /\ row.f.n.n + ResolveDynamic(c.increments["n"]).n \in c.clamp.low .. c.clamp.high
         => row'.f.n.n = row.f.n.n + ResolveDynamic(c.increments["n"]).n

\* Nothing outside is called but a trusted host, or a listed one that is not
\* private, whether the address comes from the node or from a connection.
OnlyListedCalled ==
  \A s \in sent : Hosts[s.host].trusted \/ (Hosts[s.host].allowed /\ ~Hosts[s.host].private)

\* However often a node is tried, one link of it is stored: those that were mailed
\* by a sweep that was lost work no longer (_mint_form_link).
OneLink == \A r \in Runs : links[r] <= 1

\* For the record: a reference to nothing erases no field, whichever action has it.
NoActionErases ==
  \A i \in DOMAIN events :
     LET e == events[i] IN
       \A f \in DOMAIN e.after :
          e.after[f] = Null /\ e.before[f] # Null => f \in Said(st[e.run].cfg)
=============================================================================
