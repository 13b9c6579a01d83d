---------------------------- MODULE FormLayout ----------------------------
(***************************************************************************)
(* The layout of a form or a view: a tree of elements that is checked      *)
(* against the entities when it is saved, and flattened into the fields it *)
(* shows and writes when it is rendered and submitted, against the         *)
(* entities as they are by then.                                           *)
(*                                                                         *)
(* A tree is a sequence of nodes, each after its parent; the columns of a  *)
(* table are nodes under it that the walkers of elements do not visit.     *)
(***************************************************************************)
EXTENDS Naturals, Sequences, FiniteSets

CONSTANTS
  Trees,            \* sequences of [type, parent, slug, rel, locked, workflow]
  Fields,           \* Fields[e]: the slugs of the fields of entity e
  Rels,             \* Rels[r]: [source, target]
  Root,             \* the entity the form is about
  MAX_TREE_DEPTH

VARIABLES
  tree,             \* the tree that is being saved
  pc,               \* "draft", "refused", "saved", "bound", "broken"
  fields, rels,     \* the schema: [entity, slug], and relationships
  shown,            \* what a render fetched: [entity, slug]
  written           \* what a submission wrote: [entity, slug]

vars == <<tree, pc, fields, rels, shown, written>>

None == "none"
Layouts == {"tab_group", "accordion", "columns", "panel", "card"}
Scoped == {"section", "block"}
Collections == {"table", "block"}
Columns == {"column", "related_column", "link_column"}
SectionChild == {"field", "calculated", "label", "puzzle_pad"}

\* The elements that show or do something: those that read fields which are
\* checked, those that read fields which are not, and those that read none.
Readers == {"puzzle_pad", "countdown", "qr_code"}
Fetching == {"progress", "slides"}
Labels == {"label", "image", "live_value", "input"}
Pictures == {"plot", "model_3d"}
Figures == {"report", "stat"}
Buttons == {"button", "keypad"}
Lists == {"record_list"}
Chats == {"chat", "form_ref"}
Unbound == Fetching \cup Labels \cup Pictures \cup Figures \cup Buttons \cup Lists \cup Chats

\* The elements of the agent desk, which no layout over an entity may have.
Panels ==
  {"agent_timeline", "agent_diary", "agent_activity", "work_order_create", "work_order_tasks", "work_order_list",
   "work_order_actions", "work_order_documents", "approval_queue"}

Nodes == DOMAIN tree
Kind(n) == IF n = 0 THEN None ELSE tree[n].type
Kids(n) == {m \in Nodes : tree[m].parent = n}

\* The schema of a tree: what may be put where.
WellFormed(t) ==
  \A n \in DOMAIN t :
    LET p == t[n].parent
    IN /\ p < n
       /\ IF p = 0 THEN t[n].type \notin Columns
          ELSE CASE t[p].type \in Layouts -> t[n].type \notin Columns
                 [] t[p].type \in Scoped -> t[n].type \in SectionChild
                 [] t[p].type = "table" -> t[n].type \in Columns
                 [] OTHER -> FALSE

AllFields == UNION {{[entity |-> e, slug |-> s] : s \in Fields[e]} : e \in DOMAIN Fields}

Init ==
  /\ tree \in {t \in Trees : WellFormed(t)} /\ pc = "draft" /\ fields = AllFields
  /\ rels = DOMAIN Rels /\ shown = {} /\ written = {}

----------------------------------------------------------------------------
(***************************************************************************)
(* The walkers.                                                            *)
(***************************************************************************)
\* Mutant: the elements of a section are taken for the form's own.
OpensAny(type, layoutOnly) == type \in Layouts \cup Scoped

\* container_child_lists: whether the walkers descend.
Opens(type, layoutOnly) == type \in Layouts \/ (~layoutOnly /\ type \in Scoped)

\* iter_elements: the nodes that are visited.
Visited(layoutOnly) ==
  LET on[n \in Nodes] == LET p == tree[n].parent IN p = 0 \/ (on[p] /\ Opens(Kind(p), layoutOnly))
  IN {n \in Nodes : on[n]}

\* tree_depth.
Depth ==
  LET depth[n \in Nodes] == IF tree[n].parent = 0 THEN 0 ELSE depth[tree[n].parent] + 1
  IN {depth[n] : n \in Visited(FALSE)}

\* collect_relationship_ids.
CollectRelationships ==
  {tree[n].rel : n \in {n \in Nodes : Kind(n) = "related_column" \/ (n \in Visited(FALSE) /\ Kind(n) \in Scoped \cup {"table"})}}

\* _load_layout_context: the relationships of the tree that there are.
Loaded == CollectRelationships \cap rels

\* The entity that the children of a node are bound to.
Context ==
  LET ctx[n \in Nodes \cup {0}] ==
        CASE n = 0 -> Root
          [] Kind(n) = "section" /\ tree[n].rel \in Loaded -> Rels[tree[n].rel].target
          [] Kind(n) \in Collections /\ tree[n].rel \in Loaded -> Rels[tree[n].rel].source
          [] OTHER -> ctx[tree[n].parent]
  IN ctx
At(n) == Context[tree[n].parent]

----------------------------------------------------------------------------
(***************************************************************************)
(* validate.                                                               *)
(***************************************************************************)
RequireField(slug, e) == [entity |-> e, slug |-> slug] \in fields

\* _validate_table_columns.
ValidColumns(n) ==
  \A c \in Kids(n) :
    CASE Kind(c) = "column" -> RequireField(tree[c].slug, Context[n])
      [] Kind(c) = "link_column" -> TRUE
      [] Kind(c) = "related_column" ->
         /\ tree[c].rel \in Loaded /\ Rels[tree[c].rel].source = Context[n]
         /\ RequireField(tree[c].slug, Rels[tree[c].rel].target)

\* _validate_element.
ValidElement(n) ==
  LET el == tree[n]
  IN CASE el.type \in {"field"} \cup Readers -> RequireField(el.slug, At(n))
       [] el.type = "calculated" -> el.slug = None \/ RequireField(el.slug, At(n))
       [] el.type \in Unbound \cup Layouts -> TRUE
       [] el.type = "section" -> el.rel \in Loaded /\ Rels[el.rel].source = At(n)
       [] el.type = "block" -> el.rel \in Loaded /\ Rels[el.rel].target = At(n)
       [] el.type = "table" -> el.rel \in Loaded /\ Rels[el.rel].target = At(n) /\ ValidColumns(n)
       [] el.type \in Panels -> FALSE

Validate == (\A d \in Depth : d <= MAX_TREE_DEPTH) /\ \A n \in Visited(FALSE) : ValidElement(n)

Save ==
  /\ pc = "draft" /\ pc' = IF Validate THEN "saved" ELSE "refused"
  /\ UNCHANGED <<tree, fields, rels, shown, written>>

----------------------------------------------------------------------------
(***************************************************************************)
(* flatten, for rendering and for a submission.                            *)
(***************************************************************************)
\* The containers of the tree that carry data.
Containers == {n \in Visited(TRUE) : Kind(n) \in Scoped \cup {"table"}}

\* A relationship that is no longer there is looked up all the same.
Lookups == {tree[n].rel : n \in Containers} \cup {tree[c].rel : c \in {c \in UNION {Kids(n) : n \in Containers} : Kind(c) = "related_column"}}

\* The elements that are bound to the form's own record.
Leaves == Visited(TRUE)

Bound(e, S) == {[entity |-> e, slug |-> tree[n].slug] : n \in S}

\* _leaf_slugs and flatten: what is displayed, and what may be written.
DisplayOf(e, S) == Bound(e, {n \in S : Kind(n) \in {"field", "column", "link_column"} \cup Readers \cup Fetching /\ tree[n].slug # None})

WriteOf(e, S) ==
  Bound(e, {n \in S : (Kind(n) \in {"field", "column"} /\ ~tree[n].locked) \/ (Kind(n) = "calculated" /\ tree[n].slug # None)})

\* The columns of the entities that the rows of a table point at.
RelatedOf(n, S) == UNION {Bound(Rels[tree[c].rel].target, {c}) : c \in {c \in Kids(n) : Kind(c) = "related_column" /\ c \in S}}

Displayed == DisplayOf(Root, Leaves) \cup UNION {DisplayOf(Context[n], Kids(n)) \cup RelatedOf(n, Nodes) : n \in Containers}
Writable == WriteOf(Root, Leaves) \cup UNION {WriteOf(Context[n], Kids(n)) \cup RelatedOf(n, {c \in Nodes : ~tree[c].locked}) : n \in Containers}

\* build_render: values that are not there are empty.
Render ==
  /\ pc \in {"saved", "bound"}
  /\ IF Lookups \subseteq Loaded THEN pc' = "bound" /\ shown' = Displayed ELSE pc' = "broken" /\ UNCHANGED shown
  /\ UNCHANGED <<tree, fields, rels, written>>

\* apply_submit: any payload, filtered; a slug that is not there fails the
\* submission.
Submit(payload) ==
  /\ pc \in {"saved", "bound"} /\ Lookups \subseteq Loaded
  /\ payload \cap Writable \subseteq fields /\ written' = written \cup (payload \cap Writable)
  /\ UNCHANGED <<tree, pc, fields, rels, shown>>

\* drop_field, drop_definition: no layout is looked at.
\* At most one thing is dropped.
Whole == rels = DOMAIN Rels /\ fields = AllFields
DropField(f) == Whole /\ fields' = fields \ {f} /\ UNCHANGED <<tree, pc, rels, shown, written>>
DropRelationship(r) == Whole /\ rels' = rels \ {r} /\ UNCHANGED <<tree, pc, fields, shown, written>>

Next == /\ pc # "refused"
        /\ \/ Save \/ Render \/ Submit(fields) \/ Submit(AllFields)
           \/ pc = "saved" /\ ((\E f \in fields : DropField(f)) \/ (\E r \in rels : DropRelationship(r)))

Spec == Init /\ [][Next]_vars

----------------------------------------------------------------------------
(***************************************************************************)
(* collect_workflow_ids: what a shared page may start.                     *)
(***************************************************************************)
Starting == {"button", "puzzle_pad", "record_list", "chat"}

\* Not a keypad.
Allowed == {tree[n].workflow : n \in {n \in Visited(FALSE) : Kind(n) \in Starting}} \ {None}

----------------------------------------------------------------------------
TypeOK == /\ pc \in {"draft", "refused", "saved", "bound", "broken"} /\ rels \subseteq DOMAIN Rels
          /\ fields \subseteq AllFields /\ written \subseteq AllFields


\* Reference: the entity a node is about, from the tree alone.
About(n) == LET p == tree[n].parent
            IN IF Kind(n) = "related_column" THEN Rels[tree[n].rel].target
               ELSE CASE Kind(p) = "section" -> Rels[tree[p].rel].target
                      [] Kind(p) \in Collections -> Rels[tree[p].rel].source
                      [] OTHER -> Root

\* What a submission writes, some element of the layout offers to write, on the
\* same entity: a field that is not locked, or a calculation.
WritesOffered ==
  \A w \in written : \E n \in Nodes :
    /\ Kind(n) \in {"field", "calculated", "column", "related_column"} /\ tree[n].slug = w.slug /\ ~tree[n].locked /\ About(n) = w.entity

\* Every field that the layout shows is fetched, however deep it is nested.
FieldsShown ==
  pc = "bound" => \A n \in Nodes : Kind(n) \in {"field"} \cup Columns \cup Readers \cup Fetching => [entity |-> About(n), slug |-> tree[n].slug] \in shown

\* Every button of the page is allowed on the shared page, wherever it is, and
\* so is what a puzzle in a section starts.
ButtonsAllowed == \A n \in Nodes : Kind(n) \in {"button", "puzzle_pad"} => tree[n].workflow \in Allowed \cup {None}

\* "Every workflow the tree can start, from anywhere it can be started".
AllowListComplete == \A n \in Nodes : tree[n].workflow \in Allowed \cup {None}

\* "whole grid non-editable in fill mode".
LockedGridsKept ==
  \A w \in written : \E n \in Nodes : tree[n].slug = w.slug /\ About(n) = w.entity /\ (Kind(tree[n].parent) = "table" => ~tree[tree[n].parent].locked)
=============================================================================
