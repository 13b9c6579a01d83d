------------------------------ MODULE MCData --------------------------------
(****************************************************************************)
(* What is kept and who may see it, one component at a time: records and    *)
(* forms, access, accounts, knowledge. The components have no state in      *)
(* common: a behaviour is about the component that "which" names, and its   *)
(* variables are v1, v2, ... in the order the component's module declares   *)
(* them. A configuration chooses its components with Parts.                 *)
(****************************************************************************)
EXTENDS Integers, Sequences, FiniteSets, TLC

CONSTANTS
  Parts,        \* the components a run is about
  a1, a2,       \* requests, or those who make them
  r1, r2, r3,   \* rows and folders
  u1, u2,       \* users and keys
  d1, d2,       \* documents
  none

Processes == {a1, a2}

VARIABLES which,
  v1, v2, v3, v4, v5, v6, v7, v8, v9, v10, v11, v12, v13, v14, v15, v16,
  v17

vars == <<which, v1, v2, v3, v4, v5, v6, v7, v8, v9, v10, v11, v12, v13,
          v14, v15, v16, v17>>

----------------------------------------------------------------------------
Ec == INSTANCE EntityCatalog WITH
     Requests <- Processes, Slugs <- {"a", "b"},
     MAX_DEFINITIONS_PER_ORG <- 2, MAX_FIELDS_PER_ENTITY <- 1,
     MAX_RELATIONSHIPS_PER_ENTITY <- 1, MaxIds <- 4, org <- v1, defs <- v2,
     fields <- v3, rels <- v4, tables <- v5, cols <- v6, fks <- v7,
     next <- v8, tx <- v9, crossed <- v10, aborted <- v11

Choice(a, c, d, r) == [access |-> a, card |-> c, on_delete |-> d, required |-> r]
Choices == {Choice(a, "many_to_one", d, r) : a \in {"member", "workflow_only"}, d \in {"CASCADE", "SET NULL", "RESTRICT"}, r \in BOOLEAN}
           \cup {Choice("member", "one_to_many", "SET NULL", TRUE)}
Rc == INSTANCE Records WITH
     Requests <- Processes, Recs <- {1}, Targets <- {11}, Foreign <- {21},
     Low <- 0, High <- 2, schema <- v1, rec <- v2, live <- v3, tx <- v4,
     outbox <- v5, ledger <- v6, fk <- v7

\* A count by day; the latest date per number; the same with a sum; two metrics of
\* one name; a group by what cannot be grouped; a bucket of a number.
G(f, b, n) == [field |-> f, bucket |-> b, name |-> n]
Me(o, f, n) == [op |-> o, field |-> f, name |-> n]
Query(g, m, h, o) == [groups |-> g, metrics |-> m, having |-> h, order |-> o]
Asks ==
  <<Query(<<G("d", TRUE, "day")>>, <<Me("count", "", "count")>>, {}, {"day"}),
    Query(<<G("n", FALSE, "n")>>, <<Me("max", "d", "last")>>, {"last"}, {}),
    Query(<<G("n", FALSE, "n")>>, <<Me("max", "d", "last"), Me("sum", "n", "sum")>>, {"sum"}, {}),
    Query(<<>>, <<Me("count_distinct", "j", "n"), Me("avg", "n", "n")>>, {}, {}),
    Query(<<G("j", FALSE, "j")>>, <<Me("count", "", "count")>>, {"count"}, {"sum"}),
    Query(<<G("n", TRUE, "x")>>, <<Me("sum", "d", "y")>>, {}, {})>>
Rp == INSTANCE Reports WITH
     Ids <- 1 .. 3, Values <- {1, 2}, Limits <- {1, 2}, MaxChanges <- 2,
     Requests <- Processes,
     Types <- [n |-> "number", d |-> "date", j |-> "json"], Queries <- Asks,
     Drawings <- {{}, {"day"}, {"n", "last"}, {"count"}}, table <- v1,
     hidden <- v2, desc <- v3, limit <- v4, cursor <- v5, read <- v6,
     touched <- v7, changes <- v8, schema <- v1, active <- v2, report <- v3,
     tx <- v4, moved <- v5, raced <- v6

\* Trees of three elements.
El(t, s, r, l, w) == [type |-> t, slug |-> s, rel |-> r, locked |-> l, workflow |-> w]
Kinds ==
  {El("card", "none", "none", FALSE, "none"), El("section", "none", "party", FALSE, "none"), El("block", "none", "items", FALSE, "none"),
   El("table", "none", "items", TRUE, "none"), El("field", "name", "none", TRUE, "none"), El("field", "name", "none", FALSE, "none"),
   El("field", "note", "none", FALSE, "none"), El("calculated", "total", "none", FALSE, "none"), El("button", "none", "none", FALSE, "w1"),
   El("keypad", "none", "none", FALSE, "w2"), El("puzzle_pad", "name", "none", FALSE, "w1"), El("column", "name", "none", FALSE, "none"),
   El("related_column", "name", "part", FALSE, "none"), El("progress", "gone", "none", FALSE, "none"), El("approval_queue", "none", "none", FALSE, "none")}
Put(k, p) == [type |-> k.type, slug |-> k.slug, rel |-> k.rel, locked |-> k.locked, workflow |-> k.workflow, parent |-> p]
Drawn == {<<Put(a, 0), Put(b, p), Put(c, q)>> : a \in Kinds, b \in Kinds, c \in Kinds, p \in 0 .. 1, q \in 0 .. 2}
Joins == [party |-> [source |-> "case", target |-> "party"], items |-> [source |-> "item", target |-> "case"],
          part |-> [source |-> "item", target |-> "part"]]
Fl == INSTANCE FormLayout WITH
     Trees <- Drawn,
     Fields <- [case |-> {"name", "total"}, party |-> {"name", "note"}, item |-> {"name"}, part |-> {"name"}],
     Rels <- Joins, Root <- "case", MAX_TREE_DEPTH <- 1, tree <- v1,
     pc <- v2, fields <- v3, rels <- v4, shown <- v5, written <- v6

Fo == INSTANCE Forms WITH
     Requests <- Processes, Parties <- {1, 2},
     Layouts <- {{"calc", "section"}, {"table"}}, Years <- {2023, 2024},
     Amounts <- {0 - 13, 0 - 12, 0 - 1, 1, 3, 12}, form <- v1, open <- v2,
     link <- v3, rec <- v4, made <- v5, row <- v6, tx <- v7, applied <- v8,
     crossed <- v9, base <- v1, months <- v2, out <- v3, preview <- v4

Vs == INSTANCE ViewShare WITH
     Admins <- Processes, Visitors <- {"v"}, Workflows <- {"w"},
     MaxTokens <- 2, MaxRecords <- 1, view <- v1, page <- v2, newest <- v3,
     asked <- v4, admin <- v5, visit <- v6, runs <- v7, raced <- v8

Dm == INSTANCE Dimensions WITH
     Bits <- [org |-> 1, region |-> 2, role |-> 1, group |-> 1, dept |-> 2],
     Admins <- {a1, a2}, Ids <- {r1, r2, "d1"},
     Kind <- [i \in {r1, r2, "d1"} |-> IF i = "d1" THEN "dept" ELSE "region"],
     Names <- {"n", "m"}, OrgNumber <- 1, MaxKeys <- 20, rows <- v1,
     req <- v2, lock <- v3, member <- v4, config <- v5, masks <- v6,
     meant <- v7, raced <- v8, freed <- v9

Tr == INSTANCE FolderTree WITH
     Admins <- {a1, a2}, Folders <- {r1, r2, r3}, Names <- {"n", "m"},
     Root <- none, MaxRequests <- 3, rows <- v1, req <- v2, gone <- v3,
     raced <- v4, count <- v5

Fa == INSTANCE FolderAccess WITH
     Folders <- {r1, r2, r3}, Masks <- {1}, Root <- none,
     ViewConfigs <- {{}, {1}}, MaxRequests <- 2, parent <- v1, view <- v2,
     contrib <- v3, doc <- v4, index <- v5, tasks <- v6, count <- v7,
     last <- v8, astray <- v9

Ak == INSTANCE ApiKeys WITH
     Keys <- {u1, u2}, Dims <- {"r"}, Folders <- {"f", "g"}, Top <- "f",
     Grants <- {{<<"knowledge", "read">>}, {<<"*", "*">>}},
     MAX_KEYS_PER_ORG <- 1, Expiries <- {1, 9}, Never <- 9,
     Callers <- {a1, a2}, Window <- 2, Limit <- 2, MaxTime <- 3,
     items <- v1, visible <- v2, key <- v3, mint <- v4, del <- v5,
     now <- v6, mints_lapped <- v7, limiter <- v1, time <- v2, counted <- v3, up <- v4,
     passed <- v5, writes <- v6, writer <- v7, writes_lapped <- v8,
     hits <- v9, allowed <- v10

Set(a, b) == [admin |-> a, active |-> b]
Ad == INSTANCE Admins WITH
     Accounts <- {u1, u2}, Requests <- {a1, a2}, Emails <- {"boss"},
     Listed <- {"boss"},
     Settings <- {Set("on", "same"), Set("off", "same"), Set("same", "off")},
     MaxTokens <- 2, Nobody <- none, People <- {u1, u2, "s"},
     SiteAdmins <- {"s"}, Removals <- {a1, a2}, row <- v1, token <- v2,
     boot <- v3, minted <- v4, req <- v5, flags_lock <- v6, crossed <- v7,
     swapped <- v8, won <- v9, member <- v1, removal <- v2, removals_met <- v3,
     demoted <- v4

Key(o, m, l, h) == [org |-> o, masks |-> m, listed |-> l, holds |-> h]
Body(k, d, c, n, s, e) == [kind |-> k, declared |-> d, chunks |-> c, content |-> n, name |-> [stem |-> s, ext |-> e, allowed |-> TRUE]]
Bodies == {Body("json", 0, <<2, 1>>, 2, 0, 0), Body("json", 0, <<4, 2>>, 6, 0, 0), Body("multipart", 5, <<3, 2>>, 4, 3, 1),
           Body("multipart", 0, <<3, 4, 3>>, 9, 5, 3), Body("multipart", 9, <<5, 4>>, 8, 1, 1)}
Kw == INSTANCE KnowledgeWrite WITH
     Writers <- {a1, a2},
     Keys <- {Key(TRUE, {}, FALSE, FALSE), Key(FALSE, {1}, TRUE, TRUE)},
     Masks <- {2}, FolderView <- {1}, FolderAdd <- {},
     Versions <- {<<1, 1>>, <<2, 1>>, <<1, 2>>}, SizeLimit <- 4, Allowance <- 2,
     NameMax <- 4, ExtMax <- 2, MaxWrites <- 2, MaxFaults <- 1,
     Nobody <- none, doc <- v1, obj <- v2, req <- v3, lock <- v4,
     tasks <- v5, index <- v6, writes <- v7, faults <- v8, bare <- v9,
     overrun <- v10, strayed <- v11

Mo == INSTANCE McpOAuth WITH
     Users <- {u1, u2}, Runs <- {a1, a2}, Org <- none, MaxGrants <- 3,
     MaxClients <- 2, MaxFlows <- 2, MaxChanges <- 1, server <- v1,
     slot <- v2, flows <- v3, starting <- v4, landing <- v5, run <- v6,
     slot_lock <- v7, issued <- v8, owner <- v9, live <- v10, clients <- v11,
     changes <- v12, started <- v13, lapped <- v14, lost <- v15,
     switched <- v16, gone <- v17

\* Two documents that give one subject different values for its one headquarters.
T(s, p, o) == [s |-> s, p |-> p, o |-> o]
Names == {"n1", "n2"}
Fc == INSTANCE Facts WITH
     Docs <- {d1, d2}, Jobs <- {a1, a2},
     Score <- [x \in Names \X Names |-> IF x[1] = x[2] THEN 3 ELSE IF x[1] = "n2" THEN 2 ELSE 1],
     Phrases <- {"based in"}, Known <- [p \in {"based in"} |-> none],
     Close <- [p \in {"based in"} |-> "hq"], Functional <- {"hq"},
     Texts <- {<<T("n1", "based in", "v1")>>, <<T("n1", "based in", "n2")>>},
     Masks <- {1}, KeySets <- {{}, {1}}, MaxJobs <- 3, MaxFaults <- 1,
     None <- none, claim <- v1, src <- v2, doc <- v3, ent <- v4, memo <- v5,
     pmemo <- v6, cur <- v7, job <- v8, jobs <- v9, clock <- v10,
     faults <- v11, torn <- v12, raced <- v13

Scope(k, t) == [keys |-> k, tag |-> t]
Rt == INSTANCE Retrieval WITH
     Docs <- {d1}, Jobs <- {a1, a2}, Versions <- {<<2, 1, 1>>, <<4>>},
     Scopings <- {Scope({}, 1), Scope({1}, 2)}, Masks <- {1},
     Tags <- {1, 2}, Batch <- 2, PageSize <- 2, Window <- 2,
     MaxWindows <- 2, MaxChars <- 3, Fetch <- 2, Limit <- 2, ExpandMax <- 3,
     ExpandBudget <- 3, MaxJobs <- 3, MaxFaults <- 1, None <- none,
     point <- v1, record <- v2, graph <- v3, cur <- v4, job <- v5,
     next <- v6, jobs <- v7, faults <- v8, failed <- v9, met <- v10

Fq == INSTANCE FactAgent WITH
     Askers <- {a1, a2}, Questions <- {"q"},
     Claims <- {[q |-> "q", keys |-> {1}], [q |-> "q", keys |-> {}]},
     Masks <- {1, 2}, MaxIterations <- 2, MaxAsks <- 3, MaxChanges <- 1,
     None <- none, Entities <- 1 .. 4,
     Links <- {<<1, 2>>, <<3, 2>>, <<3, 4>>, <<4, 1>>, <<2, 4>>, <<1, 3>>},
     MaxLinks <- 3, MinSize <- 2, MaxRelinks <- 2, facts <- v1, ask <- v2,
     gap <- v3, ids <- v4, asks <- v5, changes <- v6, missed <- v7,
     doubled <- v8, links <- v1, community <- v2, todo <- v3, relinks <- v4,
     fresh <- v5

\* What is interchangeable, by run.
SymmetricRequests == Permutations(Processes)
SymmetricFolders == Permutations(Processes) \cup Permutations({r1, r2, r3})
SymmetricUsers == Permutations(Processes) \cup Permutations({u1, u2})
SymmetricDocuments == Permutations(Processes) \cup Permutations({d1, d2})

----------------------------------------------------------------------------
\* A component with k variables leaves the others off.
Off13 == v14 = "off" /\ v15 = "off" /\ v16 = "off" /\ v17 = "off"
Off11 == v12 = "off" /\ v13 = "off" /\ Off13
Off10 == v11 = "off" /\ Off11
Off9 == v10 = "off" /\ Off10
Off8 == v9 = "off" /\ Off9
Off7 == v8 = "off" /\ Off8
Off6 == v7 = "off" /\ Off7
Off5 == v6 = "off" /\ Off6
Off4 == v5 = "off" /\ Off5
Same13 == UNCHANGED <<v14, v15, v16, v17>>
Same11 == UNCHANGED <<v12, v13>> /\ Same13
Same10 == UNCHANGED <<v11>> /\ Same11
Same9 == UNCHANGED <<v10>> /\ Same10
Same8 == UNCHANGED <<v9>> /\ Same9
Same7 == UNCHANGED <<v8>> /\ Same8
Same6 == UNCHANGED <<v7>> /\ Same7
Same5 == UNCHANGED <<v6>> /\ Same6
Same4 == UNCHANGED <<v5>> /\ Same5

Init ==
  /\ which \in Parts
  /\ \/ which = "catalog" /\ Ec!CatalogInit /\ Off11
     \/ which = "records" /\ Rc!Init /\ Off7
     \/ which = "pages" /\ Rp!ListInit /\ Off8
     \/ which = "report" /\ Rp!Init /\ Off6
     \/ which = "layout" /\ Fl!Init /\ Off6
     \/ which = "form" /\ Fo!Init /\ Off9
     \/ which = "share" /\ Vs!Init /\ Off8
     \/ which = "dates" /\ Fo!DateInit /\ Off4
     \/ which = "dims" /\ Dm!Init /\ Off9
     \/ which = "tree" /\ Tr!Init /\ Off5
     \/ which = "folders" /\ Fa!Init /\ Off9
     \/ which = "keys" /\ Ak!KeysInit /\ Off7
     \/ which = "rates" /\ Ak!RateInit /\ Off10
     \/ which = "admins" /\ Ad!AdminInit /\ Off9
     \/ which = "members" /\ Ad!MemberInit /\ Off4
     \/ which = "write" /\ Kw!WriteInit /\ Off11
     \/ which = "oauth" /\ Mo!McpInit
     \/ which = "facts" /\ Fc!Init /\ Off13
     \/ which = "index" /\ Rt!Init /\ Off10
     \/ which = "ask" /\ Fq!Init /\ Off8
     \/ which = "digest" /\ Fq!DigestInit /\ Off5

Next ==
  /\ UNCHANGED which
  /\ \/ which = "catalog" /\ Ec!CatalogNext /\ Same11
     \/ which = "records" /\ Rc!Next /\ Same7
     \/ which = "pages" /\ Rp!ListNext /\ Same8
     \/ which = "report" /\ Rp!Next /\ Same6
     \/ which = "layout" /\ Fl!Next /\ Same6
     \/ which = "form" /\ Fo!Next /\ Same9
     \/ which = "share" /\ Vs!Next /\ Same8
     \/ which = "dates" /\ Fo!DateNext /\ Same4
     \/ which = "dims" /\ Dm!Next /\ Same9
     \/ which = "tree" /\ Tr!Next /\ Same5
     \/ which = "folders" /\ Fa!Next /\ Same9
     \/ which = "keys" /\ Ak!KeysNext /\ Same7
     \/ which = "rates" /\ Ak!RateNext /\ Same10
     \/ which = "admins" /\ Ad!AdminNext /\ Same9
     \/ which = "members" /\ Ad!MemberNext /\ Same4
     \/ which = "write" /\ Kw!WriteNext /\ Same11
     \/ which = "oauth" /\ Mo!McpNext
     \/ which = "facts" /\ Fc!Next /\ Same13
     \/ which = "index" /\ Rt!Next /\ Same10
     \/ which = "ask" /\ Fq!Next /\ Same8
     \/ which = "digest" /\ Fq!DigestNext /\ Same5

Spec == Init /\ [][Next]_vars

----------------------------------------------------------------------------
\* EntityCatalog, Records, Reports: the tables, columns and foreign keys are
\* those of the catalog, whatever requests overlap (EntityService,
\* SchemaManager), the database carries out what the checks let through, and
\* no table outlives its organisation; writers that bump one number each land
\* (increment), the last event of a record says what the record is
\* (_capture), a required relationship stays set and no record refers to
\* another organisation's; a record that is not touched is read once and in
\* order whatever is written meanwhile (_keyset_after); a saved report runs
\* (_validate_report).
RecordsHold ==
  /\ which = "catalog" => Ec!CatalogIsPhysical /\ Ec!OnlyRaceAborts /\ Ec!NoTableOutlives
  /\ which = "records" => Rc!IncrementsLand /\ Rc!LastEventTells /\ Rc!RequiredKept /\ Rc!RefsOwn
  /\ which = "pages" => Rp!ReadOnce
  /\ which = "report" => Rp!SavedReportRuns

\* FormLayout, Forms, ViewShare: a submission writes only what some element
\* of the layout offers, every field is fetched however it is nested, and a
\* shared page may start what its buttons start (flatten,
\* collect_workflow_ids); one submission of a link is applied however many
\* are sent, calculated values are those of the record's own fields, no
\* linked record is made and lost (PublicFormService.submit); the live link
\* is about what its maker asked for, and a visitor starts only what the page
\* can start (enable, run_workflow); adding months gives the right month
\* (_add_months).
FormsHold ==
  /\ which = "layout" => Fl!WritesOffered /\ Fl!FieldsShown /\ Fl!ButtonsAllowed
  /\ which = "form" => Fo!OneSubmission /\ Fo!UsedNotRevoked /\ Fo!TotalHonest /\ Fo!PartyKept
  /\ which = "share" => Vs!LinkAsAsked /\ Vs!RunsBounded
  /\ which = "dates" => Fo!RightMonth

\* Forms, Records: a row of another record is not written, unless it was
\* moved meanwhile (_write_rows); what a member may not write, no member's
\* request changes (_guard_writable, _to_row).
RecordSteps ==
  [][ /\ which = "form" => Fo!RowsOwned
      /\ which = "records" => Rc!PolicyHolds ]_vars

\* Dimensions, FolderTree, FolderAccess: a member's masks are the expansion
\* of its base masks, and contain a folder's mask exactly when it matches
\* (member_masks, expand_wildcards); no row is given the number of the
\* wildcard; while no number has stood for two rows, a folder is seen by
\* exactly the members its entries name (with_unrestricted). Requests that do
\* not overlap leave no folder above itself (would_create_cycle), and the
\* stored path of every folder says the names above it
\* (_rewrite_subtree_paths). The walks and the query that say who sees a
\* folder or a document agree (nearest_configured_ancestor); who may add to a
\* folder sees it; when its tasks are done, and none was lost or overtaken,
\* the index has the keys and the folder of the document
\* (_collect_subtree_propagation).
AccessHolds ==
  /\ which = "dims" => Dm!ExpansionExact /\ Dm!NoWildcard /\ Dm!GrantsExact
  /\ which = "tree" => Tr!Tree /\ Tr!PathsTrue
  /\ which = "folders" => Fa!WaysAgree /\ Fa!AddIsSeen /\ Fa!IndexFollows

\* ApiKeys, Admins: no delete takes an assignment from an active key
\* (purge_inactive_holders), a key minted for assignments never reads the
\* whole organisation, one limited to folders finds nothing outside them, a
\* sensitive operation needs a key that names its scope, mints that do not
\* overlap keep the limit; fixed windows let at most twice the limit pass, a
\* cap on writes and the sliding window hold; a setup token makes one admin
\* at most, the instance keeps an active admin and an organisation an admin,
\* but for the overlaps named (consume_setup_token, update_user_flags,
\* delete_membership).
AccountsHold ==
  /\ which = "keys" => Ak!ActiveResolves /\ Ak!NeverOrgWide /\ Ak!NarrowStays /\ Ak!Explicit /\ Ak!CountKept
  /\ which = "rates" => Ak!TwiceAtMost /\ Ak!CapKept /\ Ak!SpanKept
  /\ which = "admins" => Ad!OneClaim /\ Ad!AdminStays
  /\ which = "members" => Ad!RemovalsLeaveOne

\* KnowledgeWrite: the original a document is served from is in the store,
\* and nothing is left behind in it, but for the failures named (_store,
\* _discard); a document that says SUCCESS is found with its last content and
\* title (_requeue); what a key finds in the list is what it may load
\* (_load_document); no body is read past its cap by more than a chunk
\* (_bounded_request).
DocumentsWritten ==
  /\ which = "write" => Kw!ObjectKept /\ Kw!NoOrphans /\ Kw!IndexFollows /\ Kw!ListAgrees /\ Kw!BodyBounded

\* McpOAuth: a run uses the token of the person it acts for, or the shared
\* one where the server is shared (resolve_for_call); a connection that was
\* made still refreshes, unless it was disconnected, overtaken, or its turn
\* rolled back after the provider had answered (ensure_access_token); a
\* holder that disconnected has no token until it connects again; a started
\* authorization can be completed with its client (start).
ConnectionsHold ==
  /\ which = "oauth" => Mo!ConnectionsStand

\* Facts: a claim is seen by exactly those who may see a document that states
\* it (_RECOMPUTE_CLAIM_MASKS) and kept only while a document states it; no
\* source points at a claim that a purge of another document removed, and no
\* claim is about an entity that was deleted (delete_by_document_key); a
\* functional predicate has at most one current value for a subject
\* (reconcile).
FactsHold ==
  /\ which = "facts" => Fc!FactsFollow /\ Fc!Supported /\ Fc!SourcesKept /\ Fc!OneValue /\ Fc!Linked

\* Retrieval: an ingest leaves one whole version of a document, unless a
\* request failed or jobs met (ingest_document); a chunk is found by who may
\* see its document now (update_metadata); search, grep and read find the
\* same documents (_scope_is_empty); a search gives no passage twice
\* (_expand_top_documents); following next_chunk reads every chunk once, in
\* order, and ends (DocumentTextReader.read).
IndexHolds ==
  /\ which = "index" => Rt!Replaced /\ Rt!MasksFollow /\ Rt!WaysAgree /\ Rt!NoHitTwice /\ Rt!ReadsWhole

\* FactAgent: no fact is shown to one whose masks do not allow it
\* (_nothing_readable); no miss is lost from the log of gaps and a question
\* has one open gap at most, but for two first misses that race and a gap
\* that was reopened (record_gap); after a build related entities are
\* together in the community of the least of them (detect_communities).
AskHolds ==
  /\ which = "ask" => Fq!OnlyReadable /\ Fq!GapsCounted /\ Fq!OneOpenGap
  /\ which = "digest" => Fq!DigestFollows
=============================================================================
