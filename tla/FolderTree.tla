----------------------------- MODULE FolderTree -----------------------------
(***************************************************************************)
(* The tree of folders (repositories/folder.py, services/folder_service.py *)
(* and the handlers of routers/folders.py): every folder has a parent, a   *)
(* name and a path made of names, which is for display only.  A request    *)
(* reads and checks, then writes; two requests of administrators overlap.  *)
(* Only a delete locks the row it has checked; a row that gets a new       *)
(* parent waits for that lock (the foreign key's own lock).                *)
(***************************************************************************)
EXTENDS Naturals, Sequences, FiniteSets, TLC

CONSTANTS
  Admins, Folders, Names,
  Root,         \* no parent
  MaxRequests   \* bound: requests

VARIABLES
  rows,     \* folder -> its parent, name and path
  req,      \* request -> what it will write
  gone,     \* folders deleted by a request
  raced,    \* history: two requests have overlapped
  count     \* requests so far

vars == <<rows, req, gone, raced, count>>

Idle == [op |-> "idle"]
Live == DOMAIN rows
Busy == {a \in Admins : req[a].op # "idle"}

----------------------------------------------------------------------------
(* Walks by parent.  Their bound guards a cycle.                           *)

Up(f) ==
  LET up[n \in 0 .. Cardinality(Live)] ==
        IF n = 0 THEN f ELSE IF up[n - 1] \in Live THEN rows[up[n - 1]].parent ELSE Root
  IN up

AncestorIds(f) == {Up(f)[n] : n \in DOMAIN Up(f)} \ {Root}

SubtreeIds(f) == {g \in Live : f \in AncestorIds(g)}

ListChildren(f) == {g \in Live : rows[g].parent = f}

\* The names on the way from f, itself not included, down to g.
Below(f, g) ==
  LET up == Up(g)
      k == CHOOSE n \in DOMAIN up : up[n] = f /\ \A m \in 0 .. n - 1 : up[m] # f
  IN [i \in 1 .. k |-> rows[up[k - i]].name]

\* Mutant: only the folder's own path.
RewriteOwn(prefix, f) == f :> prefix

RewriteSubtreePaths(prefix, f) == [g \in SubtreeIds(f) |-> IF g = f THEN prefix ELSE prefix \o Below(f, g)]

build_dot_path(n, p) == IF p \in Live THEN Append(rows[p].path, n) ELSE <<n>>

would_create_cycle(f, p) == p # Root /\ f \in AncestorIds(p)

\* Any tree whose paths are right and whose siblings have different names.
Path(t, n, f) ==
  LET p[k \in 0 .. Cardinality(DOMAIN t)] ==
        [g \in DOMAIN t |-> IF t[g] \notin DOMAIN t \/ k = 0 THEN <<n[g]>> ELSE Append(p[k - 1][t[g]], n[g])]
  IN p[Cardinality(DOMAIN t)][f]
Init ==
  /\ \E fs \in SUBSET Folders : \E t \in [fs -> fs \cup {Root}], n \in [fs -> Names] :
       /\ \A f, g \in fs : t[f] = t[g] /\ t[f] # Root /\ n[f] = n[g] => f = g
       /\ \E rank \in [fs -> 0 .. Cardinality(fs)] : \A f \in fs : t[f] # Root => rank[t[f]] < rank[f]
       /\ rows = [f \in fs |-> [parent |-> t[f], name |-> n[f], path |-> Path(t, n, f)]]
  /\ req = [a \in Admins |-> Idle] /\ gone = {} /\ raced = FALSE /\ count = 0

----------------------------------------------------------------------------
(* The handlers read, and then write.                                      *)

Begin(a, r) ==
  /\ count < MaxRequests /\ count' = count + 1
  /\ req' = [req EXCEPT ![a] = r] /\ raced' = (raced \/ Busy # {})
  /\ UNCHANGED <<rows, gone>>

create_folder(a, f, n, p) ==
  /\ req[a].op = "idle" /\ f \notin Live \cup gone /\ \A b \in Busy : req[b].folder # f
  /\ Begin(a, [op |-> "write", folder |-> f, sets |-> [name |-> n, parent |-> p], paths |-> f :> build_dot_path(n, p)])

rename(a, f, n) ==
  /\ req[a].op = "idle" /\ f \in Live /\ rows[f].name # n
  /\ Begin(a, [op |-> "write", folder |-> f, sets |-> [name |-> n],
               paths |-> RewriteSubtreePaths(build_dot_path(n, rows[f].parent), f)])

move_folder(a, f, p) ==
  /\ req[a].op = "idle" /\ f \in Live /\ p \in Live \cup {Root} /\ ~would_create_cycle(f, p)
  /\ Begin(a, [op |-> "write", folder |-> f, sets |-> [parent |-> p],
               paths |-> RewriteSubtreePaths(build_dot_path(rows[f].name, p), f)])

\* The row is locked before its children are looked for.
delete_folder(a, f) ==
  /\ req[a].op = "idle" /\ f \in Live /\ \A b \in Busy : req[b].folder # f \/ req[b].op # "delete"
  /\ ListChildren(f) = {}
  /\ Begin(a, [op |-> "delete", folder |-> f])

Locked(f, a) == \E b \in Admins \ {a} : req[b].op = "delete" /\ req[b].folder = f

\* One name for one folder among the children of a folder, not among the roots.
Unique(f, n, p) == p = Root \/ \A g \in ListChildren(p) \ {f} : rows[g].name # n

\* Only the changed columns are written, and no row that is gone; a parent that is gone, or a name that is taken, fails the request.
Write(a) ==
  /\ req[a].op = "write"
  /\ LET r == req[a]
         new == [path |-> r.paths[r.folder]] @@ r.sets @@ (IF r.folder \in Live THEN rows[r.folder] ELSE [name |-> "", parent |-> Root])
     IN /\ \A g \in DOMAIN r.paths \cup {new.parent} : ~Locked(g, a)
        /\ IF new.parent \in Live \cup {Root} /\ r.folder \notin gone /\ Unique(r.folder, new.name, new.parent)
             THEN rows' = [g \in Live \cup {r.folder} |->
                             IF g = r.folder THEN new
                             ELSE IF g \in DOMAIN r.paths THEN [rows[g] EXCEPT !.path = r.paths[g]] ELSE rows[g]]
             ELSE UNCHANGED rows
  /\ req' = [req EXCEPT ![a] = Idle]
  /\ UNCHANGED <<gone, raced, count>>

\* Children that came in the meantime go with it (ON DELETE CASCADE).
Delete(a) ==
  /\ req[a].op = "delete"
  /\ LET f == req[a].folder
     IN rows' = [g \in Live \ SubtreeIds(f) |-> rows[g]] /\ gone' = gone \cup {f}
  /\ req' = [req EXCEPT ![a] = Idle]
  /\ UNCHANGED <<raced, count>>

Next ==
  \E a \in Admins :
    \/ \E f \in Folders, n \in Names, p \in Live \cup {Root} : create_folder(a, f, n, p)
    \/ \E f \in Folders, n \in Names : rename(a, f, n)
    \/ \E f \in Folders, p \in Live \cup {Root} : move_folder(a, f, p)
    \/ \E f \in Folders : delete_folder(a, f)
    \/ Write(a)
    \/ Delete(a)

Spec == Init /\ [][Next]_vars

----------------------------------------------------------------------------
TypeOK ==
  /\ Live \subseteq Folders /\ gone \subseteq Folders /\ Live \cap gone = {}
  /\ \A f \in Live : rows[f].parent \in Live \cup {Root} /\ rows[f].name \in Names

\* Following parents from a folder ends at no parent.
Grounded(f) == \E n \in DOMAIN Up(f) : Up(f)[n] = Root

\* No folder is above itself, unless two requests overlapped (would_create_cycle).
Tree == ~raced => \A f \in Live : Grounded(f)

\* The path of a folder says the names above it, also when two roots have one name, unless
\* two requests overlapped (_rewrite_subtree_paths).
PathsTrue == ~raced => \A f \in Live : rows[f].path = build_dot_path(rows[f].name, rows[f].parent)

\* A folder is only deleted by a request for it: one that came under a folder while that was
\* being deleted is refused or kept (delete_folder, lock_item).
OnlyAsked == \A f \in Live : f \in DOMAIN rows' \/ f \in gone'

\* "Raises FolderCycleError if the move would create a cycle" (move_folder).
NoCycle == \A f \in Live : Grounded(f)
=============================================================================
