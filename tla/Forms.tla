------------------------------- MODULE Forms -------------------------------
(***************************************************************************)
(* An intake link to one record, and the submissions of its form: through  *)
(* the link, which is good for one, or by a member, who needs none.  A     *)
(* submission writes the record, a calculated value, a linked record that  *)
(* it creates when there is none, and a row of a table.                    *)
(*                                                                         *)
(* Requests overlap: each is a transaction that reads what is committed    *)
(* and holds the rows that it wrote until it ends.                         *)
(***************************************************************************)
EXTENDS FiniteSets, Integers

CONSTANTS
  Requests,
  Parties,         \* ids of the linked records that can be created
  Layouts          \* what forms have: subsets of {"calc", "section", "table"}

VARIABLES
  form,            \* what the form has
  open,            \* the form is active and the link's time is not up
  link,            \* "none", "pending", "submitted", "revoked"
  rec,             \* the record: [f, ro, total, party]
  made,            \* the linked records there are
  row,             \* a row of the table: [mine, v]
  tx,              \* tx[p]
  applied,         \* submissions through the link that were committed
  crossed          \* what overlapped: "revoke", "calc", "party", "row"

vars == <<form, open, link, rec, made, row, tx, applied, crossed>>

None == 0
NoRec == [f |-> 0, ro |-> 0, total |-> 0, party |-> None]
Idle == [pc |-> "idle", via |-> "-", body |-> [f |-> None, section |-> FALSE, row |-> FALSE], read |-> NoRec,
         rec |-> NoRec, locked |-> FALSE, party |-> None, row |-> FALSE]

\* What a client sends that the form takes.
Bodies == [f : {None, 1}, section : {FALSE, "section" \in form}, row : {FALSE, "table" \in form}]

\* A client sends a value for the read-only field as well.
Forged == 1

Init ==
  /\ form \in Layouts /\ open = TRUE /\ link = "none"
  /\ rec = NoRec /\ made = {} /\ row = [mine |-> TRUE, v |-> 0]
  /\ tx = [p \in Requests |-> Idle] /\ applied = 0 /\ crossed = {}

Active(p) == tx[p].pc # "idle"
Set(p, t) == tx' = [tx EXCEPT ![p] = t]

----------------------------------------------------------------------------
(***************************************************************************)
(* Links.                                                                  *)
(***************************************************************************)
\* generate_link.
GenerateLink ==
  /\ link = "none" /\ link' = "pending"
  /\ UNCHANGED <<form, open, rec, made, row, tx, applied, crossed>>

\* update_form switches it off; or the link's time is up.
Close ==
  /\ link # "none" /\ open /\ open' = FALSE
  /\ UNCHANGED <<form, link, rec, made, row, tx, applied, crossed>>

\* Who holds the row of the link, uncommitted.
Claimers == {p \in Requests : tx[p].via = "link" /\ tx[p].pc \in {"read", "updated", "rows", "row", "done"}}

\* revoke_link: a submitted link cannot be.
Revocable(status) == status = "pending"

RevokeRead(p) ==
  /\ ~Active(p) /\ Revocable(link) /\ Set(p, [Idle EXCEPT !.pc = "revoking", !.via = "revoke"])
  /\ UNCHANGED <<form, open, link, rec, made, row, applied, crossed>>

\* The flush waits for the row, and does not look at the status again.
RevokeWrite(p) ==
  /\ tx[p].pc = "revoking" /\ Claimers = {} /\ Set(p, Idle) /\ link' = "revoked"
  /\ UNCHANGED <<form, open, rec, made, row, applied, crossed>>

----------------------------------------------------------------------------
(***************************************************************************)
(* A submission.                                                           *)
(***************************************************************************)
\* unusable_reason.
Usable == link = "pending" /\ open

\* PublicFormService.submit, as far as the claim.
PublicSubmit(p, b) ==
  /\ ~Active(p) /\ Usable
  /\ Set(p, [Idle EXCEPT !.pc = "resolved", !.via = "link", !.body = b])
  /\ UNCHANGED <<form, open, link, rec, made, row, applied, crossed>>

\* submit_form: no link, and the form need not be active; apply_submit reads the
\* record.
MemberSubmit(p, b) ==
  /\ ~Active(p) /\ Set(p, [Idle EXCEPT !.pc = "read", !.via = "member", !.body = b, !.read = rec])
  /\ UNCHANGED <<form, open, link, rec, made, row, applied, crossed>>

\* UPDATE ... WHERE status = 'pending'; apply_submit reads the record.
Claimable == link = "pending"

Claim(p) ==
  /\ tx[p].pc = "resolved" /\ Claimers = {}
  /\ Set(p, IF Claimable THEN [tx[p] EXCEPT !.pc = "read", !.read = rec] ELSE Idle)
  /\ UNCHANGED <<form, open, link, rec, made, row, applied, crossed>>

Locked == \E p \in Requests : tx[p].locked

\* _apply_calc: the record that was read, overlaid with what may be written.
Calc(read, f) == read.ro + f

\* The patch: the filtered values, and the calculation.
Patch(t, old) ==
  LET f == IF t.body.f = None THEN t.read.f ELSE t.body.f
  IN [old EXCEPT !.f = IF t.body.f = None THEN @ ELSE t.body.f, !.total = IF "calc" \in form THEN Calc(t.read, f) ELSE @]
Empty(t) == t.body.f = None /\ "calc" \notin form

\* root_repo.update: the row that is found under the lock; an empty patch only
\* reads it again.
UpdateRoot(p) ==
  LET t == tx[p]
  IN /\ t.pc = "read" /\ (Empty(t) \/ ~Locked)
     /\ Set(p, [t EXCEPT !.pc = "updated", !.read = [NoRec EXCEPT !.party = t.read.party],
                      !.rec = Patch(t, rec), !.locked = ~Empty(t)])
     /\ crossed' = crossed \cup (IF "calc" \in form /\ rec # t.read THEN {"calc"} ELSE {})
     /\ UNCHANGED <<form, open, link, rec, made, row, applied>>

\* _write_section: from the record that the update returned.
Linked(t) == t.rec.party

Taken == made \cup {tx[p].party : p \in Requests}

\* No linked record: one is created, and the record is pointed at it, which takes
\* its lock when the patch did not.
WriteSection(p) ==
  LET t == tx[p]
  IN /\ t.pc = "updated"
     /\ IF t.body.section /\ Linked(t) = None
        THEN /\ t.locked \/ ~Locked
             /\ \E id \in Parties \ Taken :
                  Set(p, [t EXCEPT !.pc = "rows", !.read = NoRec, !.party = id, !.locked = TRUE,
                                   !.rec = [IF t.locked THEN t.rec ELSE rec EXCEPT !.party = id]])
             /\ crossed' = crossed \cup (IF ~t.locked /\ rec.party # None THEN {"party"} ELSE {})
        ELSE Set(p, [t EXCEPT !.pc = "rows", !.read = NoRec]) /\ UNCHANGED crossed
     /\ UNCHANGED <<form, open, link, rec, made, row, applied>>

\* _write_rows: a row of this record, as it is read; another is skipped.
Owned == row.mine

CheckRow(p) ==
  /\ tx[p].pc = "rows" /\ Set(p, [tx[p] EXCEPT !.pc = "row", !.row = tx[p].body.row /\ Owned, !.body = Idle.body])
  /\ UNCHANGED <<form, open, link, rec, made, row, applied, crossed>>

RowLocked == \E p \in Requests : tx[p].pc = "done" /\ tx[p].row

\* The update names the row's id alone.
WriteRow(p) ==
  /\ tx[p].pc = "row" /\ (tx[p].row => ~RowLocked) /\ Set(p, [tx[p] EXCEPT !.pc = "done"])
  /\ UNCHANGED <<form, open, link, rec, made, row, applied, crossed>>

\* What waits to overwrite the link's status.
Revoking == \E q \in Requests : tx[q].pc = "revoking"

Commit(p) ==
  LET t == tx[p]
  IN /\ t.pc = "done" /\ Set(p, Idle)
     /\ rec' = IF t.locked THEN t.rec ELSE rec
     /\ made' = IF t.party = None THEN made ELSE made \cup {t.party}
     /\ row' = IF t.row THEN [row EXCEPT !.v = 1] ELSE row
     /\ link' = IF t.via = "link" THEN "submitted" ELSE link
     /\ applied' = applied + (IF t.via = "link" THEN 1 ELSE 0)
     /\ crossed' = crossed \cup (IF t.via = "link" /\ Revoking THEN {"revoke"} ELSE {})
     /\ UNCHANGED <<form, open>>

\* A value that is refused, a lost connection: the claim goes with the rest.
Rollback(p) ==
  /\ tx[p].pc \in {"updated", "rows", "row", "done"} /\ Set(p, Idle)
  /\ UNCHANGED <<form, open, link, rec, made, row, applied, crossed>>

----------------------------------------------------------------------------
\* The records API: another field, a row that is moved to another record.
EditRecord ==
  /\ "calc" \in form /\ ~Locked /\ rec.ro = 0 /\ rec' = [rec EXCEPT !.ro = 1]
  /\ crossed' = crossed \cup {"calc"}
  /\ UNCHANGED <<form, open, link, made, row, tx, applied>>
MoveRow ==
  /\ "table" \in form /\ ~RowLocked /\ row.mine /\ row' = [row EXCEPT !.mine = FALSE]
  /\ crossed' = crossed \cup (IF \E p \in Requests : tx[p].pc = "row" /\ tx[p].row THEN {"row"} ELSE {})
  /\ UNCHANGED <<form, open, link, rec, made, tx, applied>>

Next ==
  \/ GenerateLink \/ Close \/ EditRecord \/ MoveRow
  \/ \E p \in Requests :
       \/ RevokeRead(p) \/ RevokeWrite(p) \/ (\E b \in Bodies : PublicSubmit(p, b) \/ MemberSubmit(p, b))
       \/ Claim(p) \/ UpdateRoot(p) \/ WriteSection(p) \/ CheckRow(p) \/ WriteRow(p) \/ Commit(p) \/ Rollback(p)

Spec == Init /\ [][Next]_vars

----------------------------------------------------------------------------
TypeOK ==
  /\ link \in {"none", "pending", "submitted", "revoked"} /\ made \subseteq Parties
  /\ Cardinality({p \in Requests : tx[p].locked}) <= 1 /\ Cardinality(Claimers) <= 1

\* However many send it and however they overlap, one submission of a link
\* is applied.
OneSubmission == applied <= 1

\* A link that was used is said to be revoked only if the two overlapped.
UsedNotRevoked == applied > 0 /\ "revoke" \notin crossed => link = "submitted"

\* The calculated value is that of the record's fields, whatever the client
\* claims, unless the record was changed in between or elsewhere.
TotalHonest == "calc" \in form /\ "calc" \notin crossed => rec.total \in {0, rec.f + rec.ro}

\* No linked record is made and then lost, unless submissions with nothing to
\* write on the record itself overlapped.
PartyKept == "party" \notin crossed => made \subseteq {rec.party}

\* A row of another record is not written, unless it was moved in between.
RowsOwned == row'.v # row.v => row.mine \/ "row" \in crossed

----------------------------------------------------------------------------
(***************************************************************************)
(* Adding months to a date in a calculated field: on the server, which     *)
(* decides, and in the browser, which previews.                            *)
(***************************************************************************)

CONSTANTS
  Years,
  Amounts       \* months to add, and to take away

VARIABLES
  base, months, \* the date and the amount
  out,          \* what the server computes
  preview       \* what the browser shows

date_vars == <<base, months, out, preview>>

Leap(y) == y % 4 = 0 /\ (y % 100 # 0 \/ y % 400 = 0)
Length(y, m) == IF m = 2 THEN IF Leap(y) THEN 29 ELSE 28 ELSE IF m \in {4, 6, 9, 11} THEN 30 ELSE 31
Date(y, m, d) == [year |-> y, month |-> m, day |-> d]
Valid(d) == d.day <= Length(d.year, d.month)
NoDate == Date(0, 0, 0)

DateInit ==
  /\ base \in {d \in [year : Years, month : 1 .. 12, day : 1 .. 31] : Valid(d)}
  /\ months \in Amounts /\ out = NoDate /\ preview = NoDate

\* The month, counted from zero; the division rounds down.
Target(d, n) == LET total == d.month - 1 + n IN [year |-> d.year + total \div 12, month |-> (total % 12) + 1]

\* _add_months: the first of these days that is a day of the month.
Candidates(d) == <<d.day, 28, 29, 30, 31>>
AddMonths(d, n) ==
  LET t == Target(d, n)
      fits == {i \in 1 .. 5 : Candidates(d)[i] <= Length(t.year, t.month)}
  IN Date(t.year, t.month, Candidates(d)[CHOOSE i \in fits : \A j \in fits : i <= j])

\* addMonths: the day, or the last day of the month.
AddMonthsClient(d, n) ==
  LET month == d.month - 1 + n
      year == d.year + month \div 12
      target == (((month % 12) + 12) % 12) + 1
      last == Length(year, target)
  IN Date(year, target, IF d.day < last THEN d.day ELSE last)

\* _date_add, dateAdd.
Evaluate ==
  /\ out = NoDate /\ out' = AddMonths(base, months) /\ preview' = AddMonthsClient(base, months)
  /\ UNCHANGED <<base, months>>

DateNext == Evaluate

DateSpec == DateInit /\ [][DateNext]_date_vars

----------------------------------------------------------------------------
Done == out # NoDate
Count(d) == 12 * d.year + d.month

DateTypeOK == Done => Valid(out) /\ Valid(preview)

\* The result is a date of the month that many months away, no later in it than
\* the date was, and what the browser showed, when the month has the day.
RightMonth ==
  Done => /\ Count(out) = Count(base) + months /\ out.day <= base.day
          /\ base.day <= Length(out.year, out.month) => out = preview

\* "so a value previews identically on the client": the same date.
PreviewAgrees == Done => out = preview
=============================================================================
