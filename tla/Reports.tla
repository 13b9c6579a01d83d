------------------------------ MODULE Reports ------------------------------
(***************************************************************************)
(* One saved report over an entity: an aggregate query and a drawing that  *)
(* names columns of its result.  A query is checked when it is saved, by   *)
(* building the statement without running it; the schema of the entity and *)
(* the two halves of the report may be changed by other requests.          *)
(***************************************************************************)
EXTENDS Sequences, FiniteSets, SequencesExt, Integers

CONSTANTS
  Requests,
  Types,          \* Types[f]: the type that field f is created with
  Queries,        \* a sequence of queries: [groups, metrics, having, order]
  Drawings        \* sets of names of columns that a drawing refers to

VARIABLES
  schema,         \* the fields that are there
  active,         \* the entity is active
  report,         \* the saved row: query, drawing, active; or NoReport
  tx,             \* tx[p]: an update that was validated and is not yet committed
  moved,          \* the schema lost something since the report was checked
  raced           \* an update was validated against a half that another one changed

vars == <<schema, active, report, tx, moved, raced>>

\* A query is named by its place in Queries; 0 is none.
None == 0
Unset == {"-"}
NoReport == [query |-> None, drawing |-> {}, active |-> FALSE, there |-> FALSE]
Idle == [pc |-> "idle", query |-> None, drawing |-> Unset]

Init == /\ schema = DOMAIN Types /\ active = TRUE /\ report = NoReport /\ tx = [p \in Requests |-> Idle]
        /\ moved = FALSE /\ raced = FALSE

----------------------------------------------------------------------------
(***************************************************************************)
(* build_aggregate.                                                        *)
(***************************************************************************)
\* _aggregate_expr: the operator and the type of its field go together.
MetricOk(m) ==
  \/ m.op = "count"
  \/ /\ m.field \in schema
     /\ \/ m.op = "count_distinct"
        \/ m.op \in {"sum", "avg"} /\ Types[m.field] = "number"
        \/ m.op \in {"min", "max"} /\ Types[m.field] \in {"number", "date"}

GroupOk(g) ==
  /\ g.field \in schema
  /\ IF g.bucket THEN Types[g.field] = "date" ELSE Types[g.field] # "json"

GroupNames(q) == [k \in DOMAIN q.groups |-> q.groups[k].name]
MetricNames(q) == [k \in DOMAIN q.metrics |-> q.metrics[k].name]
Names(q) == GroupNames(q) \o MetricNames(q)

\* A HAVING compares a metric with a number: a metric over a date is refused,
\* whatever its operator.
HavingOk(q) ==
  \A h \in q.having : \E k \in DOMAIN q.metrics :
    /\ q.metrics[k].name = h
    /\ q.metrics[k].op # "count" => Types[q.metrics[k].field] # "date"

Build(q) ==
  /\ \A k \in DOMAIN q.groups : GroupOk(q.groups[k])
  /\ \A k \in DOMAIN q.metrics : MetricOk(q.metrics[k])
  /\ IsInjective(Names(q)) /\ HavingOk(q) /\ q.order \subseteq ToSet(Names(q))

\* _validate_report.
Valid(k, d) == active /\ Build(Queries[k]) /\ d \subseteq ToSet(Names(Queries[k]))

----------------------------------------------------------------------------
(***************************************************************************)
(* The requests.                                                           *)
(***************************************************************************)
Create(k, d) ==
  /\ ~report.there /\ Valid(k, d) /\ moved' = FALSE /\ raced' = FALSE
  /\ report' = [query |-> k, drawing |-> d, active |-> TRUE, there |-> TRUE]
  /\ UNCHANGED <<schema, active, tx>>

\* update_report: the half that is given is checked with the other as it was
\* read.  A half that is not given is not written.
UpdateCheck(p, k, d) ==
  /\ tx[p].pc = "idle" /\ report.there /\ <<k, d>> # <<None, Unset>>
  /\ Valid(IF k = None THEN report.query ELSE k, IF d = Unset THEN report.drawing ELSE d)
  /\ tx' = [tx EXCEPT ![p] = [pc |-> "checked", query |-> k, drawing |-> d]]
  /\ UNCHANGED <<schema, active, report, moved, raced>>

UpdateWrite(p) ==
  LET t == tx[p]
  IN /\ t.pc = "checked" /\ tx' = [tx EXCEPT ![p] = Idle]
     /\ report' = IF ~report.there THEN report
                  ELSE [report EXCEPT !.query = IF t.query = None THEN @ ELSE t.query,
                                      !.drawing = IF t.drawing = Unset THEN @ ELSE t.drawing]
     /\ raced' = (raced \/ \E r \in Requests \ {p} : tx[r].pc = "checked")
     /\ UNCHANGED <<schema, active, moved>>

SetActive == report.there /\ report' = [report EXCEPT !.active = ~@] /\ UNCHANGED <<schema, active, tx, moved, raced>>

\* Nothing is checked for updates that are under way: they fail.
Delete == report.there /\ report' = NoReport /\ tx' = [p \in Requests |-> Idle] /\ UNCHANGED <<schema, active, moved, raced>>

\* The schema is changed, whatever reports read it.
DropField(f) == f \in schema /\ schema' = schema \ {f} /\ moved' = TRUE /\ UNCHANGED <<active, report, tx, raced>>
SetEntityActive(b) ==
  active # b /\ active' = b /\ moved' = (moved \/ ~b) /\ UNCHANGED <<schema, report, tx, raced>>

Next ==
  \/ \E k \in DOMAIN Queries, d \in Drawings : Create(k, d)
  \/ \E p \in Requests : UpdateWrite(p) \/ \E k \in DOMAIN Queries \cup {None}, d \in Drawings \cup {Unset} : UpdateCheck(p, k, d)
  \/ SetActive \/ Delete \/ (\E f \in schema : DropField(f)) \/ (\E b \in BOOLEAN : SetEntityActive(b))

Spec == Init /\ [][Next]_vars

----------------------------------------------------------------------------
TypeOK == /\ schema \subseteq DOMAIN Types /\ report.there => report.query \in DOMAIN Queries
          /\ \A p \in Requests : tx[p].pc \in {"idle", "checked"}

\* Reference: the database runs the statement, and its result has what the
\* drawing names.
Number(m) == m.op \in {"count", "count_distinct"} \/ Types[m.field] = "number"
Runs(r) ==
  LET q == Queries[r.query]
      metrics == ToSet(q.metrics)
      columns == {g.name : g \in ToSet(q.groups)} \cup {m.name : m \in metrics}
  IN /\ active /\ {g.field : g \in ToSet(q.groups)} \cup {m.field : m \in {m \in metrics : m.op # "count"}} \subseteq schema
     /\ \A g \in ToSet(q.groups) : g.bucket => Types[g.field] = "date"
     /\ \A m \in metrics : m.op \in {"sum", "avg"} => Types[m.field] = "number"
     /\ \A m \in metrics : m.name \in q.having => Number(m)
     /\ Cardinality(columns) = Len(q.groups) + Len(q.metrics)
     /\ q.having \cup q.order \cup r.drawing \subseteq columns

\* A saved report can be run and drawn, unless the entity lost something since,
\* or two updates, of the query and of the drawing, passed each other.
SavedReportRuns == report.there /\ ~moved /\ ~raced => Runs(report)

----------------------------------------------------------------------------
(***************************************************************************)
(* Reading the records of an entity page by page, under any sort and with  *)
(* a filter, while other requests change them.  A page carries the key of  *)
(* its last row; the next page is selected by a predicate that has to      *)
(* agree with the order of the database, NULL included: NULLs come first   *)
(* in descending order and last in ascending order, and the id descends in *)
(* both.                                                                   *)
(***************************************************************************)

CONSTANTS
  Ids,            \* record ids, numbers
  Values,         \* values of the sort column
  Limits,         \* page sizes that are asked for
  MaxChanges      \* bound: changes while the pages are read

VARIABLES
  table,          \* table[i]: a value, Null, or Gone
  hidden,         \* the records that the filter excludes
  desc, limit,    \* the request
  cursor,         \* the key of the last row, or Start, or End
  read,           \* the ids that were returned
  touched,        \* the records that were changed since the first page
  changes

list_vars == <<table, hidden, desc, limit, cursor, read, touched, changes>>

Null == -1
Gone == -2
Start == [value |-> Null, id |-> 0]
End == [value |-> Null, id |-> -1]

There == {i \in Ids : table[i] # Gone}

ListInit ==
  /\ table \in [Ids -> Values \cup {Null, Gone}] /\ hidden \in SUBSET Ids /\ desc \in BOOLEAN /\ limit \in Limits
  /\ cursor = Start /\ read = <<>> /\ touched = {} /\ changes = 0

\* ORDER BY the column, id DESC, with the natural place of NULL.
Before(i, j) ==
  LET a == table[i]
      b == table[j]
  IN IF a = b THEN i > j
     ELSE IF desc THEN a = Null \/ (b # Null /\ a > b)
     ELSE b = Null \/ (a # Null /\ a < b)

\* _keyset_after; a comparison with NULL is not true.
After(i, k) ==
  LET a == table[i]
      tie == a = k.value /\ i < k.id
  IN IF k.value = Null THEN tie \/ (desc /\ a # Null)
     ELSE IF desc THEN tie \/ (a # Null /\ a < k.value)
     ELSE tie \/ a = Null \/ a > k.value

\* One row more than the page is asked for.
HasMore(rows) == Len(rows) > limit

\* list: one page.
List ==
  /\ cursor # End
  /\ LET found == {i \in There \ hidden : cursor = Start \/ After(i, cursor)}
         sorted == SetToSortSeq(found, Before)
         rows == SubSeq(sorted, 1, IF Len(sorted) > limit + 1 THEN limit + 1 ELSE Len(sorted))
         page == SubSeq(rows, 1, IF Len(rows) > limit THEN limit ELSE Len(rows))
     IN /\ read' = read \o page
        /\ cursor' = IF HasMore(rows) THEN [value |-> table[page[Len(page)]], id |-> page[Len(page)]] ELSE End
  /\ UNCHANGED <<table, hidden, desc, limit, touched, changes>>

\* A record is created, changed or deleted by another request.
Change(i, v) ==
  /\ cursor \notin {Start, End} /\ changes < MaxChanges /\ v # table[i]
  /\ table' = [table EXCEPT ![i] = v] /\ touched' = touched \cup {i} /\ changes' = changes + 1
  /\ UNCHANGED <<hidden, desc, limit, cursor, read>>

ListNext == List \/ \E i \in Ids, v \in Values \cup {Null, Gone} : Change(i, v)

ListSpec == ListInit /\ [][ListNext]_list_vars

----------------------------------------------------------------------------
ListTypeOK == /\ table \in [Ids -> Values \cup {Null, Gone}] /\ changes \in 0 .. MaxChanges /\ ToSet(read) \subseteq Ids
          /\ Len(read) <= Cardinality(Ids) + changes

Still(i) == i \notin touched \cup hidden /\ table[i] # Gone

\* Whatever else is written meanwhile, a record that is not touched is read
\* once, and the records that are not touched are read in order.
ReadOnce ==
  /\ cursor = End => \A i \in Ids : Still(i) => Cardinality({k \in DOMAIN read : read[k] = i}) = 1
  /\ \A j, k \in DOMAIN read : j < k /\ Still(read[j]) /\ Still(read[k]) => Before(read[j], read[k])
=============================================================================
