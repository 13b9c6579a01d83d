--------------------------- MODULE EntityCatalog ---------------------------
(***************************************************************************)
(* The entities of one organisation: the rows of the catalog, and the      *)
(* physical tables, columns and foreign keys that are made for them at run *)
(* time.                                                                   *)
(*                                                                         *)
(* A request is one transaction, DDL included.  It checks what it read,    *)
(* and writes later; what was committed in between is met by the           *)
(* constraints of the database alone, which abort the request.             *)
(***************************************************************************)
EXTENDS Naturals, FiniteSets

CONSTANTS
  Requests,
  Slugs,            \* slugs of entities, fields and relationships
  MAX_DEFINITIONS_PER_ORG, MAX_FIELDS_PER_ENTITY, MAX_RELATIONSHIPS_PER_ENTITY,
  MaxIds            \* bound: ids that are given out

VARIABLES
  org,              \* the organisation is there
  defs,             \* entity_definitions: [id, slug]
  fields,           \* entity_fields: [id, def, slug]
  rels,             \* entity_relationships: [id, source, target, slug, card]
  tables,           \* the physical tables, named by an id
  cols,             \* the physical columns: [table, col]
  fks,              \* foreign keys: [table, col, to]
  next,             \* the next id
  tx,               \* tx[p]: what request p checked and is going to write
  crossed,          \* the requests another request committed under
  aborted           \* a request that met nobody was aborted by the database

catalog_vars == <<org, defs, fields, rels, tables, cols, fks, next, tx, crossed, aborted>>
rows == <<org, defs, fields, rels, tables, cols, fks>>

NoRequest == [op |-> "idle"]

CatalogInit ==
  /\ org = TRUE /\ defs = {} /\ fields = {} /\ rels = {} /\ tables = {} /\ cols = {} /\ fks = {}
  /\ next = 1 /\ tx = [p \in Requests |-> NoRequest] /\ crossed = {} /\ aborted = FALSE

Ids(S) == {r.id : r \in S}
Of(S, d) == {r \in S : r.def = d}
From(d) == {r \in rels : r.source = d}
Targeting(d) == {r \in rels : r.target = d}
ToOne(r) == r.card # "many_to_many"
Col(r) == <<r.id, r.slug>>

\* A request passes its checks.  A request that fails them is answered with an
\* error and changes nothing.
Check(p, t) ==
  /\ tx[p].op = "idle" /\ org /\ tx' = [tx EXCEPT ![p] = t]
  /\ crossed' = crossed \ {p} /\ UNCHANGED <<rows, aborted>>

Fresh == next <= MaxIds /\ next' = next + 1

CheckDefinition(p, s, f) ==
  /\ Fresh /\ Cardinality(defs) < MAX_DEFINITIONS_PER_ORG /\ Cardinality(f) <= MAX_FIELDS_PER_ENTITY
  /\ \A d \in defs : d.slug # s
  /\ Check(p, [op |-> "definition", id |-> next, slug |-> s, fields |-> f])

CheckField(p, d, s) ==
  /\ Fresh /\ Cardinality(Of(fields, d)) < MAX_FIELDS_PER_ENTITY
  /\ \A f \in Of(fields, d) : f.slug # s
  /\ Check(p, [op |-> "field", id |-> next, def |-> d, slug |-> s])

CheckRelationship(p, d, e, s, c) ==
  /\ Fresh /\ Cardinality(From(d)) < MAX_RELATIONSHIPS_PER_ENTITY
  /\ \A r \in From(d) : r.slug # s
  /\ Check(p, [op |-> "relationship", id |-> next, source |-> d, target |-> e, slug |-> s, card |-> c])

CheckDropField(p, f) == UNCHANGED next /\ Check(p, [op |-> "drop_field", row |-> f])

\* Without force an entity that relationships point at is kept.
CheckDropDefinition(p, d, force) ==
  /\ UNCHANGED next /\ (Targeting(d) # {} => force)
  /\ Check(p, [op |-> "drop_definition", def |-> d, incoming |-> Targeting(d)])

\* physical_table_names, before the organisation goes.
CheckDropOrg(p) ==
  /\ UNCHANGED next
  /\ Check(p, [op |-> "drop_org", names |-> Ids(defs) \cup {r.id : r \in {r \in rels : ~ToOne(r)}}])

----------------------------------------------------------------------------
(***************************************************************************)
(* The writes.                                                             *)
(***************************************************************************)
\* Foreign keys into the tables T from tables outside of them: DROP TABLE
\* without CASCADE fails.
Depends(T, F) == {k \in F : k.to \in T /\ k.table \notin T}

\* The rows and the physical objects that are left.
DropTables(T) ==
  /\ tables' = tables \ T
  /\ cols' = {c \in cols : c.table \notin T} /\ fks' = {k \in fks : k.table \notin T}

\* create_entity_table.
CreateDefinition(t) ==
  /\ org /\ \A d \in defs : d.slug # t.slug
  /\ defs' = defs \cup {[id |-> t.id, slug |-> t.slug]}
  /\ fields' = fields \cup {[id |-> <<t.id, s>>, def |-> t.id, slug |-> s] : s \in t.fields}
  /\ tables' = tables \cup {t.id} /\ cols' = cols \cup {[table |-> t.id, col |-> <<t.id, s>>] : s \in t.fields}
  /\ UNCHANGED <<org, rels, fks>>

\* add_field_column.
AddField(t) ==
  /\ t.def \in Ids(defs) \cap tables /\ \A f \in Of(fields, t.def) : f.slug # t.slug
  /\ fields' = fields \cup {[id |-> Col(t), def |-> t.def, slug |-> t.slug]}
  /\ cols' = cols \cup {[table |-> t.def, col |-> Col(t)]}
  /\ UNCHANGED <<org, defs, rels, tables, fks>>

\* _add_fk_column: every cardinality but many_to_many has its column on the
\* table of the source.
AddFkColumn(t) ==
  /\ cols' = cols \cup {[table |-> t.source, col |-> Col(t)]}
  /\ fks' = fks \cup {[table |-> t.source, col |-> Col(t), to |-> t.target]}
  /\ UNCHANGED tables

\* _create_join_table.
CreateJoinTable(t) ==
  /\ tables' = tables \cup {t.id} /\ UNCHANGED cols
  /\ fks' = fks \cup {[table |-> t.id, col |-> <<t.id, "source_id">>, to |-> t.source], [table |-> t.id, col |-> <<t.id, "target_id">>, to |-> t.target]}

AddRelationship(t) ==
  /\ {t.source, t.target} \subseteq Ids(defs) \cap tables /\ \A r \in From(t.source) : r.slug # t.slug
  /\ rels' = rels \cup {[id |-> t.id, source |-> t.source, target |-> t.target, slug |-> t.slug, card |-> t.card]}
  /\ IF ToOne(t) THEN AddFkColumn(t) ELSE CreateJoinTable(t)
  /\ UNCHANGED <<org, defs, fields>>

\* Mutant: the row goes, the column stays.
DropFieldRow(t) ==
  /\ t.row \in fields /\ fields' = fields \ {t.row} /\ UNCHANGED <<org, defs, rels, tables, cols, fks>>

\* drop_field_column: the table is there, the row is deleted after the column.
DropField(t) ==
  /\ t.row \in fields /\ t.row.def \in tables
  /\ fields' = fields \ {t.row} /\ cols' = cols \ {[table |-> t.row.def, col |-> t.row.id]}
  /\ UNCHANGED <<org, defs, rels, tables, fks>>

\* _drop_incoming_relationship, for what was read.
Incoming(t) == t.incoming

\* The relationships that point at the entity, the join tables it owns, its
\* table, its rows.  target_definition_id is ON DELETE RESTRICT.
DropDefinition(t) ==
  LET in == Incoming(t)
      left == rels \ in
      owned == {r \in left : r.source = t.def}
      gone == {r.id : r \in {r \in in \cup owned : ~ToOne(r)}}
      free == {k \in fks : k.table \notin gone /\ \A r \in in : k.col # Col(r)}
  IN /\ t.def \in Ids(defs) /\ in \subseteq rels
     /\ Depends({t.def}, free) = {} /\ \A r \in left : r.target # t.def
     /\ defs' = {d \in defs : d.id # t.def} /\ fields' = {f \in fields : f.def # t.def} /\ rels' = left \ owned
     /\ tables' = tables \ (gone \cup {t.def})
     /\ cols' = {c \in cols : c.table # t.def /\ \A r \in in : c.col # Col(r)}
     /\ fks' = {k \in free : k.table # t.def}
     /\ UNCHANGED org

\* drop_all_tables, in one statement, and the deletion of the organisation.
DropOrg(t) ==
  /\ org /\ Depends(t.names, fks) = {} /\ DropTables(t.names)
  /\ org' = FALSE /\ defs' = {} /\ fields' = {} /\ rels' = {}

Write(t) ==
  \/ t.op = "definition" /\ CreateDefinition(t)
  \/ t.op = "field" /\ AddField(t)
  \/ t.op = "relationship" /\ AddRelationship(t)
  \/ t.op = "drop_field" /\ DropField(t)
  \/ t.op = "drop_definition" /\ DropDefinition(t)
  \/ t.op = "drop_org" /\ DropOrg(t)

CommitRequest(p) ==
  /\ tx[p].op # "idle" /\ Write(tx[p]) /\ tx' = [tx EXCEPT ![p] = NoRequest]
  /\ crossed' = crossed \cup {q \in Requests \ {p} : tx[q].op # "idle"} /\ UNCHANGED <<next, aborted>>

\* A constraint fails: the transaction, DDL included, is rolled back.
Abort(p) ==
  /\ tx[p].op # "idle" /\ ~ENABLED Write(tx[p]) /\ tx' = [tx EXCEPT ![p] = NoRequest]
  /\ aborted' = (aborted \/ p \notin crossed) /\ UNCHANGED <<rows, next, crossed>>

----------------------------------------------------------------------------
\* The doors: the routes, and the tools of the assistant, which drop nothing.
MakeDefinition(p) == \E s \in Slugs : \E f \in {{}, {s}} : CheckDefinition(p, s, f)
MakeField(p) == \E d \in Ids(defs), s \in Slugs : CheckField(p, d, s)
MakeRelationship(p) ==
  \E d, e \in Ids(defs), s \in Slugs, c \in {"many_to_one", "many_to_many"} : CheckRelationship(p, d, e, s, c)
RouteRequest(p) ==
  \/ MakeDefinition(p) \/ MakeField(p) \/ MakeRelationship(p)
  \/ \E f \in fields : CheckDropField(p, f)
  \/ \E d \in Ids(defs), force \in BOOLEAN : CheckDropDefinition(p, d, force)
ToolRequest(p) == MakeDefinition(p) \/ MakeField(p) \/ MakeRelationship(p)

CatalogNext == \E p \in Requests : RouteRequest(p) \/ ToolRequest(p) \/ CheckDropOrg(p) \/ CommitRequest(p) \/ Abort(p)

CatalogSpec == CatalogInit /\ [][CatalogNext]_catalog_vars

----------------------------------------------------------------------------
CatalogTypeOK ==
  /\ Ids(defs) \subseteq 1 .. MaxIds /\ next \in 1 .. MaxIds + 1
  /\ \A f \in fields : f.def \in Ids(defs) /\ \A r \in rels : {r.source, r.target} \subseteq Ids(defs)
  /\ {c.table : c \in cols} \subseteq tables

\* The catalog and the database agree: every table and every column that a row
\* names is there, and no other, unless one was made while the organisation
\* was being deleted.
CatalogIsPhysical ==
  org =>
    /\ tables = Ids(defs) \cup {r.id : r \in {r \in rels : ~ToOne(r)}}
    /\ cols = {[table |-> f.def, col |-> f.id] : f \in fields}
              \cup {[table |-> r.source, col |-> Col(r)] : r \in {r \in rels : ToOne(r)}}
    /\ \A k \in fks : k.to \in tables

\* What the checks of a request let through, the database carries out: a
\* request is aborted only if another one committed in between.
OnlyRaceAborts == ~aborted

\* No table of an organisation outlives it, unless a request was under way
\* when it was deleted.
NoTableOutlives == ~org => tables = {} \/ crossed # {}
=============================================================================
