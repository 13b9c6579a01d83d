---------------------------- MODULE ReviewGate ----------------------------
(***************************************************************************)
(* Peer review of a plan (submit_plan) and of a deliverable                *)
(* (request_review).  The state of a board is not kept anywhere: it is     *)
(* read back from marker lines in the diary of the work order.             *)
(*                                                                         *)
(* A tool call of the author is one action; while a board sits the author  *)
(* is parked.  Reviewers answer in any order, or their runs end without an *)
(* answer.  Meanwhile another run of the order may consult an agent that   *)
(* also has a seat.                                                        *)
(***************************************************************************)
EXTENDS Naturals, Sequences, FiniteSets

CONSTANTS
  AuthorName,
  Boards,        \* Boards[kind]: the configured seats, a sequence of agent names
  Staff,         \* the agents that exist and are enabled
  Levels,        \* LEVEL_SIZES: the number of seats of each review level
  Submissions,   \* digests of what may be submitted
  MAX_ROUNDS,
  MaxSide,       \* bound: consults of seated agents by other runs, and changes of the level
  MaxLines       \* bound: lines in the diary

VARIABLES
  diary,    \* the marker lines
  level,    \* the review level of the order
  sitting,  \* the seats whose questions are open
  gate,     \* the gate and the submission the author has before it
  sub,
  pc,       \* the author: "working", "parked", "asked" (a person), "cleared"
  side      \* how many of those there were

gate_vars == <<diary, level, sitting, gate, sub, pc, side>>

Gates == {"plan", "delivery"}

SeatNames == UNION {{Boards[k][i] : i \in 1..Len(Boards[k])} : k \in DOMAIN Boards}

----------------------------------------------------------------------------
(***************************************************************************)
(* review_board: pure functions of the configuration and of the diary.     *)
(***************************************************************************)
\* resolve_board: the first seats of the level, without the author.
ResolveBoard(seats, size) ==
  LET others == SelectSeq(seats, LAMBDA s : s # AuthorName)
  IN SubSeq(others, 1, IF size < Len(others) THEN size ELSE Len(others))

BoardAt(l) == ResolveBoard(Boards["engineering"], Levels[l])
Board == BoardAt(level)
SetOf(seq) == {seq[i] : i \in 1..Len(seq)}

\* _seat_agents: seats the organisation does not staff are dropped.
StaffedAt(l) == SelectSeq(BoardAt(l), LAMBDA s : s \in Staff)
Staffed == StaffedAt(level)

Convened(g) == {i \in 1..Len(diary) : diary[i].mark = "convened" /\ diary[i].gate = g}
Latest(S) == CHOOSE i \in S : \A j \in S : j <= i

RoundsRun(g) == Cardinality(Convened(g))
LastDigest(g) == IF Convened(g) = {} THEN "none" ELSE diary[Latest(Convened(g))].sub
CurrentSeats(g) == IF Convened(g) = {} THEN {} ELSE SetOf(diary[Latest(Convened(g))].seats)

\* outcome counts the lines after the latest convening.
Since(g) == IF Convened(g) = {} THEN Len(diary) ELSE Latest(Convened(g))

\* outcome: the latest verdict of each seat since then.  A verdict line does
\* not say which gate, or whether any, it was given for.
VerdictLines(g, s) ==
  {i \in 1..Len(diary) : i > Since(g) /\ diary[i].mark = "verdict" /\ diary[i].who = s}
Verdict(g, s) == IF VerdictLines(g, s) = {} THEN "none" ELSE diary[Latest(VerdictLines(g, s))].says
Settled(g) == \A s \in CurrentSeats(g) : Verdict(g, s) # "none"
Failed(g) == {s \in CurrentSeats(g) : Verdict(g, s) = "FAIL"}
Approved(g) == Settled(g) /\ Failed(g) = {}

HasPassed(g, d) ==
  \E i \in 1..Len(diary) : diary[i].mark \in {"passed", "released"} /\ diary[i].gate = g /\ diary[i].sub = d

\* A marker line.
Line(mark, g, d, seats, who, says, board) ==
  [mark |-> mark, gate |-> g, sub |-> d, seats |-> seats, who |-> who, says |-> says, board |-> board]
Write(line) == Len(diary) < MaxLines /\ diary' = Append(diary, line)

----------------------------------------------------------------------------
GateInit ==
  /\ diary = <<>>
  /\ level \in DOMAIN Levels
  /\ sitting = {} /\ gate = "plan" /\ sub = "none" /\ pc = "working" /\ side = 0

\* submit_plan asks a person; request_review notifies one.
ToPerson == pc' = IF gate' = "plan" THEN "asked" ELSE "cleared"

(***************************************************************************)
(* _clear_the_board and _peer_review_delivery, with the call that follows. *)
(***************************************************************************)
AlreadyPassed(g, d) == HasPassed(g, d) \/ Len(Board) = 0

Skip(g, d) ==
  /\ AlreadyPassed(g, d)
  /\ ToPerson
  /\ UNCHANGED <<diary, sitting>>

Judged(g, d) == LastDigest(g) = d /\ Settled(g)

\* The board is content, or the round cap lets the work through.
Release(g) == Approved(g) \/ RoundsRun(g) >= MAX_ROUNDS

Mark(g, d) ==
  /\ ~AlreadyPassed(g, d) /\ Judged(g, d) /\ Release(g)
  /\ Write(Line(IF Approved(g) THEN "passed" ELSE "released", g, d, <<>>, "none", "none", FALSE))
  /\ ToPerson
  /\ UNCHANGED sitting

ChangesRequested(g, d) ==
  /\ ~AlreadyPassed(g, d) /\ Judged(g, d) /\ ~Release(g)
  /\ pc' = "working"
  /\ UNCHANGED <<diary, sitting>>

\* convene: a line with the staffed seats, a question to each; with nobody to
\* ask it returns, and the caller goes on to the person.
ConveneBoard(g, d) ==
  /\ ~AlreadyPassed(g, d) /\ ~Judged(g, d)
  /\ IF Staffed = <<>>
     THEN ToPerson /\ UNCHANGED <<diary, sitting>>
     ELSE /\ Write(Line("convened", g, d, Staffed, "none", "none", TRUE))
          /\ sitting' = SetOf(Staffed)
          /\ pc' = "parked"

Submit(g, d) ==
  /\ pc = "working"
  /\ gate' = g /\ sub' = d
  /\ Skip(g, d) \/ Mark(g, d) \/ ChangesRequested(g, d) \/ ConveneBoard(g, d)
  /\ UNCHANGED <<level, side>>

\* reply_to_peer of a reviewer: record_verdict writes what parse_verdict reads.
\* The last answer resumes the author.
Rest(s) == /\ sitting' = sitting \ {s}
           /\ pc' = IF sitting = {s} THEN "working" ELSE pc

Review(s, says) ==
  /\ s \in sitting
  /\ Write(Line("verdict", "none", "none", <<>>, s, says, TRUE))
  /\ Rest(s)
  /\ UNCHANGED <<level, gate, sub, side>>

\* A reviewer's run ends without an answer: its question is declined.
Decline(s) ==
  /\ s \in sitting
  /\ Rest(s)
  /\ UNCHANGED <<diary, level, gate, sub, side>>

\* Another run of the order consulted s: the answer is an ordinary one, in
\* which parse_verdict mostly finds no verdict, and that reads as FAIL.
SideConsult(s, says) ==
  /\ side < MaxSide /\ pc = "parked"
  /\ s \in SeatNames \cap Staff
  /\ Write(Line("verdict", "none", "none", <<>>, s, says, FALSE))
  /\ side' = side + 1
  /\ UNCHANGED <<level, sitting, gate, sub, pc>>

\* The person: an approved plan is worked, a denied one ends the run; a later
\* run of the order plans again.
DecidePlan(approved) ==
  /\ pc = "asked"
  /\ pc' = IF approved THEN "cleared" ELSE "working"
  /\ UNCHANGED <<diary, level, sitting, gate, sub, side>>

\* The work goes on: the next call may be for the other gate.
GoOn ==
  /\ pc = "cleared" /\ gate = "plan"
  /\ pc' = "working"
  /\ UNCHANGED <<diary, level, sitting, gate, sub, side>>

\* set_review_level.
SetLevel(l) ==
  /\ level' = l /\ l # level
  /\ side < MaxSide /\ side' = side + 1
  /\ UNCHANGED <<diary, sitting, gate, sub, pc>>

GateNext ==
  \/ \E g \in Gates, d \in Submissions : Submit(g, d)
  \/ \E s \in SeatNames, v \in {"PASS", "FAIL"} : Review(s, v) \/ SideConsult(s, v)
  \/ \E s \in SeatNames : Decline(s)
  \/ \E b \in BOOLEAN : DecidePlan(b)
  \/ GoOn
  \/ \E l \in DOMAIN Levels : SetLevel(l)

GateSpec == GateInit /\ [][GateNext]_gate_vars

----------------------------------------------------------------------------
GateTypeOK ==
  /\ level \in DOMAIN Levels /\ sitting \subseteq SeatNames /\ gate \in Gates
  /\ pc \in {"working", "parked", "asked", "cleared"}
  /\ \A i \in 1..Len(diary) : diary[i].mark \in {"convened", "verdict", "passed", "released"}

\* The author never sits on its own board, and dropping it does not shrink the
\* board below the size of the level while there are other seats (resolve_board).
BoardIsWhole ==
  /\ \A i \in 1..Len(diary) : AuthorName \notin SetOf(diary[i].seats)
  /\ \A k \in DOMAIN Boards :
       LET others == SetOf(Boards[k]) \ {AuthorName}
           size == Levels[level]
       IN Len(ResolveBoard(Boards[k], size)) = (IF size < Cardinality(others) THEN size ELSE Cardinality(others))

\* What seat s of the board of round i (a convened line of the log) last said by line n.
Given(log, i, n, s) ==
  LET lines == {j \in i..n : log[j].mark = "verdict" /\ log[j].who = s}
  IN IF lines = {} THEN "none" ELSE log[Latest(lines)].says

\* The rounds of gate g by line n.
Rounds(log, g, n) == {i \in 1..n : log[i].mark = "convened" /\ log[i].gate = g}

\* Every seat of a board convened for the submission of line n last said PASS.
Cleared(log, n) ==
  \E i \in Rounds(log, log[n].gate, n) :
    log[i].sub = log[n].sub /\ \A s \in SetOf(log[i].seats) : Given(log, i, n, s) = "PASS"

\* The board before line n has not judged its submission.
Unjudged(log, n) ==
  LET last == Latest(Rounds(log, log[n].gate, n - 1))
  IN log[last].sub # log[n].sub \/ \E s \in SetOf(log[last].seats) : Given(log, last, n, s) = "none"

\* A submission that is marked as passed was read by every seat of a board
\* convened for this very submission, and each of them last said PASS: an
\* earlier round's verdict, or one about another text, opens no gate.
PassedWasRead ==
  \A n \in 1..Len(diary) : diary[n].mark = "passed" => Cleared(diary, n)

\* Work goes past its reviewers' objections only after MAX_ROUNDS rounds.
ReleasedAfterCap ==
  \A n \in 1..Len(diary) :
    diary[n].mark = "released" => Cardinality(Rounds(diary, diary[n].gate, n)) >= MAX_ROUNDS

\* A round beyond MAX_ROUNDS is only convened for a text the last board has not
\* judged: a revised one, or one a reviewer left without answering.
RoundsAfterCap ==
  \A n \in 1..Len(diary) :
    diary[n].mark = "convened" /\ Cardinality(Rounds(diary, diary[n].gate, n - 1)) >= MAX_ROUNDS
      => Unjudged(diary, n)

\* "Ordinary consults are untouched" (reply_to_peer): a verdict the gate counts
\* was given by the board.
OnlyTheBoardJudges ==
  \A g \in Gates : \A s \in CurrentSeats(g) :
    VerdictLines(g, s) # {} => diary[Latest(VerdictLines(g, s))].board

\* "After this many failed rounds the work goes to the human anyway" (MAX_ROUNDS).
CapHolds == \A g \in Gates : RoundsRun(g) <= MAX_ROUNDS

=============================================================================
