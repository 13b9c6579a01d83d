----------------------------- MODULE FactAgent -----------------------------
(***************************************************************************)
(* Questions to the fact agent: the loop of thoughts and tools, what the   *)
(* tools may show the one who asks, and the log of the questions that the  *)
(* fact store could not answer (brain_sdk/facts/agent.py, gaps.py, the gap *)
(* queries of neo4j_fact_store.py, brain_api/routers/agent.py).  A gap is  *)
(* recorded with two queries.                                              *)
(***************************************************************************)
EXTENDS Naturals, FiniteSets, FiniteSetsExt, Sequences, SequencesExt

CONSTANTS
  Askers, Questions,
  Claims,          \* [q, keys]: the claims that answer a question, and who may see them
  Masks,
  MaxIterations, MaxAsks, MaxChanges,
  None             \* no filter, no gap

VARIABLES
  facts,    \* the claims that were extracted
  ask,      \* asker -> its request
  gap,      \* the gaps: [id, q, n, status]; a larger id is a later one
  ids, asks, changes,
  missed,   \* history: question -> misses that were recorded
  doubled   \* history: questions whose gap was reopened, or written between the two queries of another record

vars == <<facts, ask, gap, ids, asks, changes, missed, doubled>>

Idle == [pc |-> "idle", q |-> None, keys |-> None, iter |-> 0, tried |-> FALSE, rows |-> {}, found |-> None]

Init ==
  /\ facts = {} /\ ask = [a \in Askers |-> Idle] /\ gap = {} /\ ids = 0 /\ asks = 0 /\ changes = 0
  /\ missed = [q \in Questions |-> 0] /\ doubled = {}

Set(a, r) == ask' = [ask EXCEPT ![a] = r]
log == <<gap, ids, missed, doubled>>

----------------------------------------------------------------------------
(* A request. *)
\* Mutant: an empty list goes on to the agent.
NothingNever(keys) == FALSE

nothing_readable(keys) == keys # None /\ keys = {}

\* The context of the agent has one value for no list and for an empty one.
Context(keys) == IF keys = None THEN {} ELSE keys
ReadScope(ctx) == IF ctx = {} THEN None ELSE ctx

agent_ask(a, q, keys) ==
  /\ ask[a].pc \in {"idle", "answered"} /\ asks < MaxAsks /\ asks' = asks + 1
  /\ Set(a, [Idle EXCEPT !.pc = IF nothing_readable(keys) THEN "answered" ELSE "think", !.q = q, !.keys = keys])
  /\ UNCHANGED <<facts, log, changes>>

\* Nothing in JSON, or neither an action nor an answer: the turn is used up.
Nonsense(a) ==
  /\ ask[a].pc = "think" /\ ask[a].iter < MaxIterations /\ Set(a, [ask[a] EXCEPT !.iter = @ + 1])
  /\ UNCHANGED <<facts, log, asks, changes>>

query_claims(q, scope) == {c \in facts : c.q = q /\ (scope = None \/ c.keys = {} \/ c.keys \cap scope # {})}

\* A tool of the fact store; an entity that is not found and an error are no rows.
FactTool(a, hit) ==
  /\ ask[a].pc = "think" /\ ask[a].iter < MaxIterations
  /\ Set(a, [ask[a] EXCEPT !.iter = @ + 1, !.tried = TRUE, !.rows = @ \cup (IF hit THEN query_claims(ask[a].q, ReadScope(Context(ask[a].keys))) ELSE {})])
  /\ UNCHANGED <<facts, log, asks, changes>>

\* A passage, a word, a document or the overview: module Retrieval, and no fact.
OtherTool(a) == Nonsense(a)

\* An answer, or what is said when the budget is used up and none can be read.
Finalize(a) == /\ ask[a].pc = "think" /\ Set(a, [ask[a] EXCEPT !.pc = "capture"]) /\ UNCHANGED <<facts, log, asks, changes>>

\* The model cannot be reached, or the reader of the stream has gone: nothing is captured.
AskFails(a) == /\ ask[a].pc \in {"think", "capture"} /\ Set(a, Idle) /\ UNCHANGED <<facts, log, asks, changes>>

----------------------------------------------------------------------------
(* _capture_gap. *)
assess_gap(r) == r.tried /\ r.rows = {}

OpenOf(q) == {g \in gap : g.q = q /\ g.status = "open"}

Oldest(gs) == IF gs = {} THEN None ELSE Min({g.id : g \in gs})

\* The first query; a failure of the capture is not told.
FindOpen(a, ok) ==
  LET r == ask[a] IN
  /\ r.pc = "capture"
  /\ IF ok /\ assess_gap(r) THEN Set(a, [r EXCEPT !.pc = "record", !.found = Oldest(OpenOf(r.q))])
                            ELSE Set(a, [r EXCEPT !.pc = "answered"])
  /\ UNCHANGED <<facts, log, asks, changes>>

Meets(a, q) == \E b \in Askers \ {a} : ask[b].pc = "record" /\ ask[b].q = q

Folds(found) == found # None

Counted(g, found) == g.id = found

\* The second: the store adds one, or the gap is made.
record_gap(a) ==
  LET r == ask[a] IN
  /\ r.pc = "record" /\ Set(a, [r EXCEPT !.pc = "answered"])
  /\ IF Folds(r.found)
     THEN gap' = {IF Counted(g, r.found) THEN [g EXCEPT !.n = @ + 1] ELSE g : g \in gap} /\ UNCHANGED <<ids, doubled>>
     ELSE /\ gap' = gap \cup {[id |-> ids + 1, q |-> r.q, n |-> 1, status |-> "open"]} /\ ids' = ids + 1
          /\ doubled' = IF Meets(a, r.q) THEN doubled \cup {r.q} ELSE doubled
  /\ missed' = [missed EXCEPT ![r.q] = @ + 1]
  /\ UNCHANGED <<facts, asks, changes>>

\* Any status may be set, open too.
set_gap_status(g, s) ==
  /\ g \in gap /\ g.status # s /\ changes < MaxChanges /\ changes' = changes + 1
  /\ gap' = (gap \ {g}) \cup {[g EXCEPT !.status = s]}
  /\ doubled' = IF s = "open" \/ Meets(None, g.q) THEN doubled \cup {g.q} ELSE doubled
  /\ UNCHANGED <<facts, ask, ids, asks, missed>>

\* A document is ingested (module Facts).
Extracted(c) == /\ c \notin facts /\ facts' = facts \cup {c} /\ UNCHANGED <<ask, log, asks, changes>>

Next ==
  \/ \E c \in Claims : Extracted(c)
  \/ \E g \in gap, s \in {"open", "resolved", "dismissed"} : set_gap_status(g, s)
  \/ \E a \in Askers : \/ \E q \in Questions, keys \in {None} \cup SUBSET Masks : agent_ask(a, q, keys)
                       \/ \E b \in BOOLEAN : FactTool(a, b) \/ FindOpen(a, b)
                       \/ OtherTool(a) \/ Finalize(a) \/ AskFails(a) \/ record_gap(a)
Spec == Init /\ [][Next]_vars

----------------------------------------------------------------------------
TypeOK ==
  /\ \A g \in gap : g.id \in 1 .. ids /\ g.q \in Questions /\ g.n >= 1 /\ g.status \in {"open", "resolved", "dismissed"}
  /\ \A a \in Askers : ask[a].iter \in 0 .. MaxIterations /\ ask[a].rows \subseteq facts

(* No fact is shown to one whose masks do not allow it, and none at all to one
   who may read nothing: the empty list must not become the absent one. *)
OnlyReadable == \A a \in Askers : \A c \in ask[a].rows : ask[a].keys = None \/ (ask[a].keys # {} /\ c.keys = {}) \/ c.keys \cap ask[a].keys # {}

(* No miss is lost from the log, whatever is recorded, folded and decided at
   the same time (record_gap). *)
GapsCounted == \A q \in Questions : MapThenSumSet(LAMBDA g : g.n, {g \in gap : g.q = q}) = missed[q]

(* A question has at most one open gap, but for the race of two first misses
   and a gap that was reopened (record_gap, set_gap_status). *)
OneOpenGap == \A q \in Questions \ doubled : Cardinality({g \in gap : g.q = q /\ g.status = "open"}) <= 1

(* A miss is on the list of open gaps again though an older gap was resolved
   (record_gap, list_open_gaps). *)
MissIsOpenStep == \A a \in Askers : ask[a].pc = "record" /\ ask'[a].pc = "answered" /\ ask[a].q \notin doubled =>
                    \E g \in gap' : g.q = ask[a].q /\ g.status = "open"
MissIsOpen == [][MissIsOpenStep]_vars

----------------------------------------------------------------------------
(***************************************************************************)
(* The digest of a tenant's facts: entities that claims link form          *)
(* communities, each with a summary stored under the least of its members  *)
(* (brain_sdk/facts/digest.py, the community queries of                    *)
(* neo4j_fact_store.py).  Communities are written one by one while the     *)
(* facts change.                                                           *)
(***************************************************************************)

CONSTANTS Entities, Links, MaxLinks, MinSize, MaxRelinks

VARIABLES
  links,     \* the pairs that active claims link, in the order the store gives them
  community, \* representative -> the members stored for it
  todo,      \* the communities a build has still to write
  relinks,
  fresh      \* history: the last build ended, wrote all it found, and no link changed since it read them

digest_vars == <<links, community, todo, relinks, fresh>>

DigestInit == links = <<>> /\ community = [e \in Entities |-> {}] /\ todo = {} /\ relinks = 0 /\ fresh = TRUE

----------------------------------------------------------------------------
\* The root of an entity: paths are compressed, which no root can tell.
find(parent, x) ==
  LET up[n \in 0 .. Cardinality(Entities)] == IF n = 0 THEN x ELSE parent[up[n - 1]] IN up[Cardinality(Entities)]

union(parent, a, b) ==
  LET ra == find(parent, a)  rb == find(parent, b) IN
  [parent EXCEPT ![IF ra < rb THEN rb ELSE ra] = IF ra < rb THEN ra ELSE rb]

detect_communities(edges) ==
  LET parent == FoldLeft(LAMBDA p, e : IF find(p, e[1]) = find(p, e[2]) THEN p ELSE union(p, e[1], e[2]), [e \in Entities |-> e], edges) IN
  [e \in Entities |-> find(parent, e)]

Groups(edges) ==
  LET of == detect_communities(edges) IN
  {g \in {[rep |-> r, members |-> {e \in Entities : of[e] = r}] : r \in {of[e] : e \in Entities}} : Cardinality(g.members) >= MinSize}

\* iter_entities and entity_relationships.
build == /\ todo = {} /\ todo' = Groups(links) /\ fresh' = TRUE /\ UNCHANGED <<links, community, relinks>>

\* upsert_community; a summary that fails or is empty skips one community.
Summarise(g, ok) ==
  /\ g \in todo /\ todo' = todo \ {g} /\ fresh' = (fresh /\ ok)
  /\ community' = IF ok THEN [community EXCEPT ![g.rep] = g.members] ELSE community
  /\ UNCHANGED <<links, relinks>>

\* Facts are written (module Facts).
Relink(edges) == /\ edges # links /\ relinks < MaxRelinks /\ relinks' = relinks + 1 /\ links' = edges /\ fresh' = FALSE /\ UNCHANGED <<community, todo>>

DigestNext == build \/ (\E g \in todo, ok \in BOOLEAN : Summarise(g, ok)) \/ (\E edges \in BoundedSeq(Links, MaxLinks) : Relink(edges))
DigestSpec == DigestInit /\ [][DigestNext]_digest_vars

----------------------------------------------------------------------------
DigestTypeOK == community \in [Entities -> SUBSET Entities] /\ \A g \in todo : g.rep \in g.members

\* Two entities are related when links lead from one to the other.
Reach(x) ==
  LET near(s) == s \cup {y \in Entities : \E i \in 1 .. Len(links) : \E a \in s : {links[i][1], links[i][2]} = {a, y}}
      go[n \in 0 .. Cardinality(Entities)] == IF n = 0 THEN {x} ELSE near(go[n - 1]) IN go[Cardinality(Entities)]

(* After a build the related entities are together in the community of the
   least of them, and in no other of this build (detect_communities,
   DigestBuilder.build).  What an older build left is not looked at. *)
DigestFollows == fresh /\ todo = {} /\ relinks > 0 => \A x \in Entities : Cardinality(Reach(x)) >= MinSize =>
  community[CHOOSE m \in Reach(x) : \A y \in Reach(x) : m <= y] = Reach(x)
=============================================================================
