------------------------------ MODULE Records ------------------------------
(***************************************************************************)
(* The records of one entity, with a number, a field that only the server  *)
(* reads, and a relationship to the records of another entity, under       *)
(* requests that overlap; and the change events that are written with      *)
(* them.                                                                   *)
(*                                                                         *)
(* A request checks its payload, reads the record for the event, then      *)
(* writes: the UPDATE waits for the lock on the row and works on the row   *)
(* it then finds.  Locks are held, and the write stays invisible, until    *)
(* the request commits.                                                    *)
(***************************************************************************)
EXTENDS Integers, Sequences, FiniteSets

CONSTANTS
  Requests,
  Recs,           \* ids of records
  Targets,        \* ids of records of the other entity
  Foreign,        \* ids of records of another organisation
  Low, High,      \* the clamps of an increment
  Choices         \* the schemas that are asked for: [access, card, on_delete, required]

VARIABLES
  schema,         \* the schema of the entity
  rec,            \* rec[i]: the committed row, or Absent
  live,           \* the records of the other entity
  tx,             \* tx[p]
  outbox,         \* outbox[i]: the last committed event of the record
  ledger,         \* ledger[i]: what the committed writes add up to
  fk              \* the records a foreign key changed since their last event

vars == <<schema, rec, live, tx, outbox, ledger, fk>>

None == 0
Absent == [n |-> None, key |-> "-", ref |-> None, there |-> FALSE]
NoEvent == [priv |-> TRUE, after |-> Absent]
Idle == [pc |-> "idle", op |-> "-", i |-> None, priv |-> FALSE, arg |-> None, before |-> Absent, row |-> Absent]

\* _on_delete_consistent: a required to-one relationship is not SET NULL.
OnDeleteConsistent(s) == ~(s.required /\ s.on_delete = "SET NULL" /\ s.card = "many_to_one")

Schemas == {s \in Choices : OnDeleteConsistent(s)}

Init ==
  /\ schema \in Schemas /\ live = Targets
  /\ rec = [i \in Recs |-> Absent] /\ ledger = [i \in Recs |-> None] /\ fk = {}
  /\ tx = [p \in Requests |-> Idle] /\ outbox = [i \in Recs |-> NoEvent]

\* _guard_writable.
Writable(priv) == priv \/ schema.access = "member"

\* _validate_relationships: a record of this organisation, as it is read now;
\* the foreign key alone would take any.
RelationValid(ref) == ref \in live

\* The checks, and the record as it is committed, which the event is to say as
\* its before: it may be stale.
Enter(p, op, i, priv, arg) ==
  /\ tx[p].pc = "idle" /\ Writable(priv)
  /\ tx' = [tx EXCEPT ![p] = [Idle EXCEPT !.pc = "read", !.op = op, !.i = i, !.priv = priv, !.arg = arg, !.before = rec[i]]]
  /\ UNCHANGED <<schema, rec, live, outbox, ledger, fk>>

\* Who holds the lock of the row.
Holder(i) == {p \in Requests : tx[p].pc = "written" /\ tx[p].i = i}

Free(i) == Holder(i) = {}

\* create, update, increment and delete, as far as the checks of _to_row.
BeginCreate(p, i, priv, ref) ==
  /\ ~rec[i].there /\ \A q \in Requests : tx[q].i # i
  /\ IF ref = None THEN ~schema.required ELSE RelationValid(ref)
  /\ Enter(p, "create", i, priv, ref)
BeginUpdate(p, i, priv, ref) ==
  /\ IF ref = None THEN ~schema.required ELSE RelationValid(ref)
  /\ Enter(p, "update", i, priv, ref)
BeginIncrement(p, i, priv, d) == Enter(p, "increment", i, priv, d)
BeginDelete(p, i, priv) == Enter(p, "delete", i, priv, None)

Clamp(n) == IF n < Low THEN Low ELSE IF n > High THEN High ELSE n

\* increment: in SQL, on the row that is found.
Incremented(t, row) == [row EXCEPT !.n = Clamp(row.n + t.arg)]

\* Mutant: a member's payload is taken as it is.
KeyAny(t, row) == IF t.priv THEN "k" ELSE "m"

\* _to_row: a member's value for the server's field is dropped.
Key(t, row) == IF t.priv THEN "k" ELSE row.key

\* The new row.
Result(t, row) ==
  CASE t.op = "create" -> [n |-> 0, key |-> Key(t, row), ref |-> t.arg, there |-> TRUE]
    [] t.op = "update" -> [row EXCEPT !.ref = t.arg, !.key = Key(t, row), !.n = 0]
    [] t.op = "increment" -> Incremented(t, row)
    [] t.op = "delete" -> Absent

\* The write, and the lock.  The foreign key is checked: a target that has gone
\* fails the request, as a unique value that is taken does.
Execute(p) ==
  LET t == tx[p]
  IN /\ t.pc = "read" /\ Free(t.i)
     /\ tx' = IF \/ t.op # "create" /\ ~rec[t.i].there
                 \/ t.op \in {"create", "update"} /\ t.arg \notin live \cup Foreign \cup {None}
              THEN [tx EXCEPT ![p] = Idle]
              ELSE [tx EXCEPT ![p].pc = "written", ![p].row = Result(t, rec[t.i])]
     /\ UNCHANGED <<schema, rec, live, outbox, ledger, fk>>

\* _to_public: what the writer may see.
Public(row, priv) == IF priv THEN row ELSE [row EXCEPT !.key = "-"]

\* _capture: the row that RETURNING gave.
Capture(t) ==
  [priv |-> t.priv, after |-> Public(t.row, t.priv)]

Expect(t, n) == IF t.op = "increment" THEN Clamp(n + t.arg) ELSE 0

Commit(p) ==
  LET t == tx[p]
  IN /\ t.pc = "written"
     /\ rec' = [rec EXCEPT ![t.i] = t.row] /\ outbox' = [outbox EXCEPT ![t.i] = Capture(t)]
     /\ ledger' = [ledger EXCEPT ![t.i] = Expect(t, @)] /\ fk' = fk \ {t.i}
     /\ tx' = [tx EXCEPT ![p] = Idle] /\ UNCHANGED <<schema, live>>

\* A unique value that is taken, an error of the request: the savepoint or the
\* transaction is rolled back.
Rollback(p) ==
  /\ tx[p].pc = "written" /\ tx' = [tx EXCEPT ![p] = Idle]
  /\ UNCHANGED <<schema, rec, live, outbox, ledger, fk>>

\* A record of the other entity is deleted: the foreign key acts on the rows
\* that refer to it, and writes no event.
DeleteTarget(x) ==
  LET hit == {i \in Recs : rec[i].there /\ rec[i].ref = x}
  IN /\ x \in live /\ \A p \in Requests : tx[p].pc = "written" => tx[p].i \notin hit /\ tx[p].row.ref # x
     /\ (schema.on_delete = "RESTRICT" => hit = {})
     /\ live' = live \ {x} /\ fk' = fk \cup hit
     /\ rec' = [i \in Recs |-> IF i \notin hit THEN rec[i]
                               ELSE IF schema.on_delete = "CASCADE" THEN Absent ELSE [rec[i] EXCEPT !.ref = None]]
     /\ UNCHANGED <<schema, tx, outbox, ledger>>

----------------------------------------------------------------------------
(***************************************************************************)
(* Who writes, and with which rights.                                      *)
(***************************************************************************)
Refs == Targets \cup Foreign \cup {None}
Insert(p, priv) == \E i \in Recs, ref \in Refs : BeginCreate(p, i, priv, ref)
Patch(p, priv) == \E i \in Recs, ref \in Refs : BeginUpdate(p, i, priv, ref)
Remove(p, priv) == \E i \in Recs : BeginDelete(p, i, priv)

\* The routes of the application: an admin of the organisation is not held to
\* the policy.
RouteWrite(p) == \E admin \in BOOLEAN : Insert(p, admin) \/ Patch(p, admin) \/ Remove(p, admin)

\* The public API, the tools of an agent, and the assistant: held to it.
V1Write(p) == Insert(p, FALSE) \/ Patch(p, FALSE) \/ Remove(p, FALSE)
ToolWrite(p) == Insert(p, FALSE) \/ Patch(p, FALSE)
AssistantWrite(p) == Insert(p, FALSE)

\* A workflow's actions, and the generation of a course: not.
WorkflowWrite(p) == Insert(p, TRUE) \/ Patch(p, TRUE) \/ \E i \in Recs, d \in {-1, 1} : BeginIncrement(p, i, TRUE, d)
CourseWrite(p) == Insert(p, TRUE) \/ Patch(p, TRUE)

Next ==
  \/ \E p \in Requests :
       \/ RouteWrite(p) \/ V1Write(p) \/ ToolWrite(p) \/ AssistantWrite(p) \/ WorkflowWrite(p) \/ CourseWrite(p)
       \/ Execute(p) \/ Commit(p) \/ Rollback(p)
  \/ \E x \in Targets : DeleteTarget(x)

Spec == Init /\ [][Next]_vars

----------------------------------------------------------------------------
TypeOK ==
  /\ schema \in Schemas /\ live \subseteq Targets
  /\ \A i \in Recs : Cardinality(Holder(i)) <= 1

\* No record comes to refer to a record of another organisation, though the
\* foreign key would take it.
RefsOwn == \A i \in Recs : rec[i].ref \notin Foreign

\* Writers that bump one number each land their change.
IncrementsLand == \A i \in Recs : rec[i].there => rec[i].n = ledger[i]

\* The last event of a record says what the record is, as far as its writer may
\* see it, unless a foreign key acted since: it writes no event.
LastEventTells == \A i \in Recs \ fk : outbox[i].after = Public(rec[i], outbox[i].priv)

\* A required relationship stays set, but for one_to_many, which has its column
\* on this side too and may be emptied.
RequiredKept ==
  schema.required /\ schema.card # "one_to_many" => \A i \in Recs : rec[i].there => rec[i].ref # None

\* What a member may not write, no member's request changes.
PolicyHolds ==
  \A i \in Recs : rec[i].there /\ rec'[i].there /\ rec'[i] # rec[i] /\ fk' \subseteq fk =>
    \/ outbox'[i].priv
    \/ schema.access = "member" /\ rec'[i].key = rec[i].key
=============================================================================
