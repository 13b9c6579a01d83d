---------------------------- MODULE FolderAccess ----------------------------
(***************************************************************************)
(* Who may see a folder and a document, in the lists, by id, for a key,    *)
(* and in the search index (repositories/folder.py, routers/folders.py,    *)
(* routers/documents.py, services/knowledge_visibility.py).  A folder      *)
(* without a configuration of its own inherits the nearest one above it, a *)
(* document without one its folder's.  The index is told by tasks of the   *)
(* worker, which are retried, lost and out of order (worker metadata.py).  *)
(* Masks are the ones of module Dimensions; a configuration may resolve to *)
(* none, which restricts nobody.                                           *)
(***************************************************************************)
EXTENDS Naturals, FiniteSets, Sequences

CONSTANTS
  Folders, Masks,
  Root,         \* no folder
  ViewConfigs,  \* the mask sets viewer configurations resolve to
  MaxRequests   \* bound: requests

VARIABLES
  parent,       \* folder -> its parent; the deleted ones are not in its domain
  view,         \* folder -> its own viewer configuration
  contrib,      \* folder -> its own contributor configuration
  doc,          \* the document: its folder and its own viewer configuration
  index,        \* what the index has of it: keys and folder tag
  tasks,        \* tasks for the index
  count,        \* requests so far; a task has the number of its request
  last,         \* the newest task that was applied
  astray        \* history: what a task did not do, or nobody asked one for: lost, late, moved, deleted

vars == <<parent, view, contrib, doc, index, tasks, count, last, astray>>

Live == DOMAIN parent
Inherit == [own |-> FALSE, masks |-> {}]
Own(ms) == [own |-> TRUE, masks |-> ms]
UNRESTRICTED_MASK == 0

----------------------------------------------------------------------------
(* Effective configurations, by two walks.                                 *)

Above(f) == IF f = Root THEN Root ELSE parent[f]
Up(f) == LET up[n \in 0 .. Cardinality(Live)] == IF n = 0 THEN f ELSE Above(up[n - 1]) IN up

\* In memory, over all folders: the first one with a configuration, itself included.
EffectiveMasksByParent(f) ==
  LET up == Up(f)
      configured == {n \in DOMAIN up : up[n] # Root /\ view[up[n]].own}
  IN IF configured = {} THEN {} ELSE view[up[CHOOSE n \in configured : \A m \in configured : n <= m]].masks

Ancestors(f) == LET up == Up(f) IN SelectSeq([n \in 1 .. Cardinality(Live) |-> up[n]], LAMBDA g : g # Root)

nearest_configured_ancestor(f, conf) == SelectSeq(Ancestors(f), LAMBDA g : conf[g].own)

Effective(f, conf) ==
  LET above == nearest_configured_ancestor(f, conf)
  IN IF conf[f].own THEN conf[f].masks ELSE IF above # << >> THEN conf[above[1]].masks ELSE {}

effective_view_masks(f) == IF f = Root THEN {} ELSE Effective(f, view)
effective_contributor_masks(f) == Effective(f, contrib)

Overlaps(ms, own) == ms = {} \/ ms \cap own # {}

IsVisible(f, own) == Overlaps(EffectiveMasksByParent(f), own)
list_visible_to_masks(own) == {f \in Live : IsVisible(f, own)}
folder_visible(f, own) == Overlaps(effective_view_masks(f), own)
can_add_to_folder(f, own) == folder_visible(f, own) /\ Overlaps(effective_contributor_masks(f), own)

\* The subtree of one folder, with what the masks see of it (a key's folders).
SubtreeIds(f) == {g \in Live : LET up == Up(g) IN \E n \in DOMAIN up : up[n] = f}
visible_subtrees(f, own) == [g \in SubtreeIds(f) |-> IsVisible(g, own)]

\* By id; a document that is not filed is seen by its owner and administrators only.
document_visible(own) ==
  doc.folder # Root /\ folder_visible(doc.folder, own) /\ (doc.view.own => Overlaps(doc.view.masks, own))

\* In the list: the folder is among the visible ones, the override in the query.
list_documents(own) ==
  doc.folder \in list_visible_to_masks(own)
    /\ (~doc.view.own \/ doc.view.masks = {} \/ doc.view.masks \cap ({UNRESTRICTED_MASK} \cup own) # {})

\* What the document is to be indexed with.
AccessKeys == IF doc.view.own THEN doc.view.masks ELSE effective_view_masks(doc.folder)
Scoping == [keys |-> AccessKeys, tag |-> doc.folder]
Searched(own) == index.keys = {} \/ index.keys \cap own # {}

----------------------------------------------------------------------------
Init ==
  /\ \E fs \in SUBSET Folders : parent \in [fs -> fs \cup {Root}]
  /\ \E rank \in [Live -> 0 .. Cardinality(Live)] : \A f \in Live : parent[f] # Root => rank[parent[f]] < rank[f]
  /\ view \in [Live -> {Inherit, Own(Masks)}]
  /\ contrib = [f \in Live |-> Inherit]
  /\ doc \in [folder : Live \cup {Root}, view : {Inherit}]
  /\ index = Scoping
  /\ tasks = {} /\ count = 0 /\ last = 0 /\ astray = {}

\* A task is queued after the commit, or the broker is away and only the log says so.
Dispatch(s) ==
  \/ tasks' = tasks \cup {[n |-> count + 1, scope |-> s]} /\ UNCHANGED astray
  \/ astray' = astray \cup {"lost"} /\ UNCHANGED tasks
Quiet == UNCHANGED <<tasks, astray>>
Request == count < MaxRequests /\ count' = count + 1

IsUnderBoundary(g, f) ==
  LET up == Up(g)
      k == CHOOSE n \in DOMAIN up : up[n] = f
  IN \E n \in 0 .. k - 1 : view[up[n]].own

CollectSubtreePropagation(f) ==
  /\ ~doc.view.own /\ doc.folder \in SubtreeIds(f)
  /\ ~IsUnderBoundary(doc.folder, f)

update_viewers(f, c) ==
  /\ Request /\ f \in Live
  /\ view' = [view EXCEPT ![f] = c] /\ UNCHANGED <<parent, contrib, doc, index, last>>
  /\ IF CollectSubtreePropagation(f)
       THEN Dispatch([keys |-> Effective(f, view)', tag |-> doc.folder])
       ELSE Quiet

\* A contributor's change concerns no reader.
update_contributors(f, c) ==
  /\ Request /\ f \in Live /\ contrib' = [contrib EXCEPT ![f] = c]
  /\ UNCHANGED <<parent, view, doc, index, tasks, last, astray>>

\* A move tells the index nothing.
move_folder(f, p) ==
  /\ Request /\ f \in Live /\ p \in (Live \cup {Root}) \ SubtreeIds(f)
  /\ parent' = [parent EXCEPT ![f] = p]
  /\ UNCHANGED <<view, contrib, doc, index, tasks, last>>
  /\ astray' = IF AccessKeys' # AccessKeys THEN astray \cup {"moved"} ELSE astray

create_folder(f, p, c) ==
  /\ Request /\ f \notin Live /\ p \in Live \cup {Root}
  /\ parent' = [g \in Live \cup {f} |-> IF g = f THEN p ELSE parent[g]]
  /\ view' = [g \in Live \cup {f} |-> IF g = f THEN c ELSE view[g]]
  /\ contrib' = [g \in Live \cup {f} |-> IF g = f THEN Inherit ELSE contrib[g]]
  /\ UNCHANGED <<doc, index, tasks, last, astray>>

\* Its documents are unfiled by the database; the index is not told.
delete_folder(f) ==
  /\ Request /\ f \in Live /\ \A g \in Live : parent[g] # f
  /\ parent' = [g \in Live \ {f} |-> parent[g]] /\ view' = [g \in Live \ {f} |-> view[g]]
  /\ contrib' = [g \in Live \ {f} |-> contrib[g]]
  /\ doc' = IF doc.folder = f THEN [doc EXCEPT !.folder = Root] ELSE doc
  /\ astray' = IF doc' # doc THEN astray \cup {"deleted"} ELSE astray
  /\ UNCHANGED <<index, tasks, last>>

Retag == Scoping'

update_document(f, c) ==
  /\ Request /\ f \in Live \cup {Root}
  /\ doc' = [folder |-> f, view |-> c] /\ UNCHANGED <<parent, view, contrib, index, last>>
  /\ Dispatch(Retag)

\* Saving the text indexes the document again, with the scoping it has now.
update_document_content ==
  /\ Request
  /\ Dispatch(Scoping)
  /\ UNCHANGED <<parent, view, contrib, doc, index, last>>

\* A task may run again after it was done (acks_late), or be given up.
task_update_document_metadata(t) ==
  /\ t \in tasks
  /\ index' = t.scope /\ last' = (IF t.n > last THEN t.n ELSE last)
  /\ tasks' \in {tasks, tasks \ {t}}
  /\ astray' = IF t.n < last THEN astray \cup {"late"} ELSE astray
  /\ UNCHANGED <<parent, view, contrib, doc, count>>

GiveUp(t) ==
  /\ t \in tasks /\ tasks' = tasks \ {t} /\ astray' = astray \cup {"lost"}
  /\ UNCHANGED <<parent, view, contrib, doc, index, count, last>>

Configs == {Inherit} \cup {Own(ms) : ms \in ViewConfigs}

Next ==
  \/ \E f \in Folders : \/ \E c \in Configs : update_viewers(f, c)
                        \/ \E c \in {Inherit, Own(Masks)} : update_contributors(f, c)
                        \/ \E p \in Live \cup {Root} : move_folder(f, p)
                        \/ \E p \in Live \cup {Root} : create_folder(f, p, Inherit)
                        \/ delete_folder(f)
  \/ \E f \in Live \cup {Root}, c \in Configs : update_document(f, c)
  \/ update_document_content
  \/ \E t \in tasks : task_update_document_metadata(t) \/ GiveUp(t)

Spec == Init /\ [][Next]_vars

----------------------------------------------------------------------------
TypeOK ==
  /\ Live \subseteq Folders /\ doc.folder \in Live \cup {Root}
  /\ DOMAIN view = Live /\ DOMAIN contrib = Live /\ last <= count
  /\ index.keys \subseteq Masks

\* The list, the page of one folder and a key's subtree agree on every folder, and the list
\* of documents with the page of one: two walks and a query say the same.
WaysAgree ==
  \A own \in SUBSET Masks :
    /\ list_visible_to_masks(own) = {f \in Live : folder_visible(f, own)}
    /\ \A f \in Live : visible_subtrees(f, own) = [g \in SubtreeIds(f) |-> folder_visible(g, own)]
    /\ list_documents(own) <=> document_visible(own)

\* Who may add to a folder sees it, and a folder without contributors of its own admits
\* whom the folder above admits (effective_contributor_masks).
AddIsSeen ==
  \A own \in SUBSET Masks, f \in Live :
    can_add_to_folder(f, own) => /\ IsVisible(f, own)
                                 /\ (contrib[f].own => Overlaps(contrib[f].masks, own))
                                 /\ (~contrib[f].own /\ parent[f] # Root => Overlaps(effective_contributor_masks(parent[f]), own))

\* When the last task is done, and none was lost or overtaken and no folder moved above the
\* document, the index holds the keys and the folder the document has (update_folder,
\* _collect_subtree_propagation, update_document).
IndexFollows == tasks = {} /\ astray = {} => index = Scoping

\* "so folder-scoped chat/search and entitlement filtering stay correct after a move"
\* (update_document): however tasks are retried, a quiet index has the document's scoping.
\* Lost tasks are excused, and folders that moved or are gone.
IndexFollowsFolder == tasks = {} /\ astray \subseteq {"late"} => index = Scoping

\* "A document's own viewer override applies on top of its folder (as it does in search and
\* on the read-by-id routes)" (list_documents): who finds a document may open it.
FoundIsReadable ==
  tasks = {} /\ astray = {} /\ doc.folder # Root => \A own \in SUBSET Masks : Searched(own) => document_visible(own)
=============================================================================
