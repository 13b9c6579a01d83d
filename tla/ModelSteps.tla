----------------------------- MODULE ModelSteps -----------------------------
(***************************************************************************)
(* The steps of a workflow that ask a language model, or the knowledge     *)
(* base.  What comes back is anything: a step captures a result that a     *)
(* gateway can branch on, or fails.  The tokens of a step are shown to a   *)
(* viewer only when its node says so, and the viewer may come late, lose   *)
(* messages, or leave.                                                     *)
(***************************************************************************)
EXTENDS Integers, Sequences, FiniteSets, SequencesExt

CONSTANTS
  Gestures, Moods,   \* the vocabulary of the node
  Thresholds,
  Tokens,            \* how many pieces an answer has
  Deadline           \* STREAM_TIMEOUT_SECONDS, in ticks of a second

VARIABLES
  node,              \* the configuration of the step, and what the run is wired with
  state,             \* "idle", "writing", "captured", "failed", "ended"
  result,            \* what the step captured
  written,           \* how many pieces were written
  wire,              \* the messages the viewer has not read
  viewer,            \* [on, frames, at, end]
  lost               \* whether the end of the stream was lost

vars == <<node, state, result, written, wire, viewer, lost>>

Types == {"knowledge_search", "llm_decide", "llm_grade", "llm_question", "llm_respond"}
Nodes ==
  {n \in [type : Types, filled : BOOLEAN, settings : BOOLEAN, key : BOOLEAN, required : BOOLEAN, stream : BOOLEAN,
          synthesize : BOOLEAN, threshold : Thresholds] :
     /\ (n.type # "llm_grade" => n.threshold = CHOOSE t \in Thresholds : TRUE)
     /\ (n.type # "knowledge_search" => n.synthesize)
     /\ (n.stream => n.type \in {"llm_decide", "llm_respond"})}

\* What a model may send: a word of the vocabulary or another, a score out of
\* range or no number, a letter or a word, or no JSON at all.
Reply ==
  [json : {"object", "other", "bad"}, gesture : Gestures \cup {"leap", "none"}, mood : Moods \cup {"none"},
   score : {0 - 5, 0, 60, 70, 130}, number : BOOLEAN, letter : {"B", "banana"}, done : BOOLEAN]

NoResult == [kind |-> "none", gesture |-> "none", mood |-> "none", score |-> 0, passed |-> FALSE, letter |-> "A", done |-> FALSE]

Init ==
  /\ node \in Nodes /\ state = "idle" /\ result = NoResult /\ written = 0
  /\ wire = <<>> /\ viewer = [on |-> FALSE, frames |-> <<>>, at |-> 0, end |-> "none"] /\ lost = FALSE

\* _decide, _grade, _question, _respond, _org_openai_key, _org_default_model: the
\* model is chosen first, as it may need no key.
Wired(n) == n.settings /\ (n.key \/ ~n.required)

\* decide_action: the reply as it is; one that is no JSON raises, and so does its
\* caller when it is no object.
DecideAction(m) == [ok |-> m.json = "object", gesture |-> m.gesture, mood |-> m.mood, done |-> m.done]

\* LlmDecide.execute: what is outside the vocabulary becomes no gesture, no mood.
LlmDecide(n, m) ==
  LET d == DecideAction(m)
  IN [ok |-> d.ok,
      out |-> [NoResult EXCEPT !.kind = "decision", !.done = d.done, !.gesture = IF d.gesture \in Gestures THEN d.gesture ELSE "none",
                               !.mood = IF d.mood \in Moods THEN d.mood ELSE "none"]]

\* _clamp_score, and again in the handler.
ClampScore(m) == IF ~m.number \/ m.score < 0 THEN 0 ELSE IF m.score > 100 THEN 100 ELSE m.score

\* grade_answer: the model judges.
GradeAnswer(m) == [ok |-> m.json = "object", score |-> ClampScore(m)]

\* LlmGrade.execute: the node has the threshold.
LlmGrade(n, m) ==
  LET g == GradeAnswer(m)
  IN [ok |-> g.ok, out |-> [NoResult EXCEPT !.kind = "grade", !.score = g.score, !.passed = g.score >= n.threshold]]

\* _letter: a word is not a letter.
Letter(m) == IF m.letter = "B" THEN "B" ELSE "A"

\* generate_question.
GenerateQuestion(m) == [ok |-> m.json = "object", letter |-> Letter(m)]

\* LlmQuestion.execute.
LlmQuestion(n, m) ==
  LET q == GenerateQuestion(m) IN [ok |-> q.ok, out |-> [NoResult EXCEPT !.kind = "question", !.letter = q.letter]]

\* respond_action: a reply that is no object is an empty turn.
RespondAction(m) == [done |-> m.json = "object" /\ m.done]

\* LlmRespond.execute.
LlmRespond(n, m) == [ok |-> TRUE, out |-> [NoResult EXCEPT !.kind = "turn", !.done = RespondAction(m).done]]

\* KnowledgeSearch.execute, _search_knowledge, _retrieve_knowledge: the passages, or
\* an answer made from them.
KnowledgeSearch(n, m) == [ok |-> TRUE, out |-> [NoResult EXCEPT !.kind = IF n.synthesize THEN "answer" ELSE "passages"]]

Step(n, m) ==
  CASE n.type = "knowledge_search" -> KnowledgeSearch(n, m)
    [] n.type = "llm_decide" -> LlmDecide(n, m)
    [] n.type = "llm_grade" -> LlmGrade(n, m)
    [] n.type = "llm_question" -> LlmQuestion(n, m)
    [] n.type = "llm_respond" -> LlmRespond(n, m)

\* The text of the node is there, and the run is wired for it.
Ready == node.filled /\ (IF node.type = "knowledge_search" THEN node.settings ELSE Wired(node))

\* ActionExecutor.execute: without either the step fails, and nobody is asked.
Begin ==
  /\ state = "idle" /\ state' = IF Ready THEN "writing" ELSE "failed"
  /\ UNCHANGED <<node, result, written, wire, viewer, lost>>

\* RunStreamPublisher._publish: a message without a viewer is dropped, and so is
\* one that Redis refuses.
Published(m, ok) == IF viewer.on /\ ok THEN Append(wire, m) ELSE wire

\* _on_delta: only when the node says so.
Shown == node.stream

\* _emit, delta: a piece of the answer; a sink that fails is ignored.
Write(ok) ==
  /\ state = "writing" /\ written < Tokens /\ written' = written + 1
  /\ wire' = IF Shown THEN Published(written + 1, ok) ELSE wire
  /\ UNCHANGED <<node, state, result, viewer, lost>>

\* The handler shapes what came back, or the step fails.
Capture(m) ==
  LET s == Step(node, m)
  IN /\ state = "writing" /\ written = Tokens
     /\ state' = (IF s.ok THEN "captured" ELSE "failed") /\ result' = (IF s.ok THEN s.out ELSE result)
     /\ UNCHANGED <<node, written, wire, viewer, lost>>

\* execute_workflow_run: the stream is closed on every exit of the run.
End(ok) ==
  /\ state \in {"captured", "failed"} /\ state' = "ended" /\ wire' = Published(0, ok)
  /\ lost' = ~(viewer.on /\ ok) /\ UNCHANGED <<node, result, written, viewer>>

\* sse_frames: subscribe; read a message, or wait a second.
Subscribe ==
  /\ ~viewer.on /\ viewer.end = "none" /\ viewer' = [viewer EXCEPT !.on = TRUE]
  /\ UNCHANGED <<node, state, result, written, wire, lost>>
Frame ==
  /\ viewer.on /\ wire # <<>> /\ wire' = Tail(wire)
  /\ viewer' = [viewer EXCEPT !.frames = Append(@, Head(wire)), !.on = Head(wire) # 0, !.end = IF Head(wire) = 0 THEN "done" ELSE @]
  /\ UNCHANGED <<node, state, result, written, lost>>

\* A second without a message.
Keepalive ==
  /\ viewer.on /\ wire = <<>>
  /\ viewer' = [viewer EXCEPT !.at = @ + 1, !.on = viewer.at + 1 < Deadline, !.end = IF viewer.at + 1 < Deadline THEN @ ELSE "timeout"]
  /\ UNCHANGED <<node, state, result, written, wire, lost>>

\* The client goes away.
Disconnect ==
  /\ viewer.on /\ viewer' = [viewer EXCEPT !.on = FALSE, !.end = "left"] /\ wire' = <<>>
  /\ UNCHANGED <<node, state, result, written, lost>>

Next ==
  \/ Begin \/ (\E m \in Reply : Capture(m)) \/ Subscribe \/ Frame \/ Keepalive \/ Disconnect
  \/ \E ok \in BOOLEAN : Write(ok) \/ End(ok)

Spec == Init /\ [][Next]_vars

(***************************************************************************)
(* Properties.                                                             *)
(***************************************************************************)
TypeOK ==
  /\ state \in {"idle", "writing", "captured", "failed", "ended"} /\ written \in 0 .. Tokens
  /\ viewer.on \in BOOLEAN /\ viewer.at \in 0 .. Deadline /\ viewer.end \in {"none", "done", "timeout", "left"}

\* Whatever the model sends, what is captured is something a gateway can branch on
\* and a robot can do: a gesture of its vocabulary, a score of 0 .. 100 that passed
\* if and only if it reaches the threshold, one of the letters.
Branchable ==
  result.kind # "none" =>
    /\ result.gesture \in Gestures \cup {"none"} /\ result.mood \in Moods \cup {"none"}
    /\ result.score \in 0 .. 100 /\ (result.passed <=> result.kind = "grade" /\ result.score >= node.threshold)
    /\ result.letter \in {"A", "B", "C", "D"}

\* A model is asked only with a key, or where none is needed.
Keyed == written > 0 /\ node.type # "knowledge_search" => node.key \/ ~node.required

\* The viewer of a step that is not to be shown sees nothing of it, and the viewer
\* of one that is sees pieces of it in order, and nothing after the end.
ViewInOrder ==
  LET f == viewer.frames
  IN /\ \A i \in DOMAIN f : f[i] # 0 => node.stream /\ f[i] <= written
     /\ \A i, j \in DOMAIN f : i < j => f[i] # 0 /\ (f[j] # 0 => f[i] < f[j])

\* A viewer that was there when the run ended is told so, unless the message was
\* lost: it does not wait for its time to run out.
ToldTheEnd == state = "ended" /\ ~lost /\ viewer.on => wire # <<>> /\ wire[Len(wire)] = 0

----------------------------------------------------------------------------
(***************************************************************************)
(* A quiz is graded on the server: the questions are read page by page, in *)
(* their order, and compared with the answers, which come by the id of the *)
(* question or by its position.  The author of the quiz may move, add and  *)
(* remove questions at any time.                                           *)
(***************************************************************************)

CONSTANTS
  Questions,      \* ids, which are numbers
  Orders,         \* the values of order_field
  Key,            \* Key[q]: the correct answer
  Marks,        \* what a learner may answer; "" leaves the question out
  Page, MaxPages, \* _list_all
  PassMarks,
  MaxEdits

VARIABLES
  quiz,           \* quiz[q]: the order of the question, or 0 when it is not in the quiz
  edits,
  byId,           \* how the answers come
  shown,          \* the questions in the order the view listed them
  answers,        \* answers[q]: what was chosen
  read,           \* the rows that were read
  pages, cursor, out,
  pc,
  moved           \* "shown": the quiz changed since it was shown; "reading": while it was graded

quiz_vars == <<quiz, edits, byId, shown, answers, read, pages, cursor, out, pc, moved>>

None == [order |-> 0, id |-> 0]
NoScore == [score |-> 0, passed |-> FALSE, correct |-> 0, total |-> 0, answered |-> 0]

Listed == {q \in Questions : quiz[q] # 0}

\* (order_field asc, id desc).
Before(a, b) == quiz[a] < quiz[b] \/ (quiz[a] = quiz[b] /\ a > b)
InOrder(S) == SetToSortSeq(S, Before)

\* The rows behind the cursor (_keyset_after).
After(q) == cursor = None \/ quiz[q] > cursor.order \/ (quiz[q] = cursor.order /\ q < cursor.id)

QuizInit ==
  /\ quiz \in [Questions -> Orders \cup {0}] /\ edits = 0 /\ byId \in BOOLEAN
  /\ shown = <<>> /\ answers = [q \in Questions |-> ""] /\ read = <<>> /\ pages = 0 /\ cursor = None
  /\ out = NoScore /\ pc = "asking" /\ moved = {}

\* The author adds, moves or removes a question.
Edit(q, o) ==
  /\ pc # "graded" /\ edits < MaxEdits /\ edits' = edits + 1 /\ quiz' = [quiz EXCEPT ![q] = o] /\ quiz[q] # o
  /\ moved' = moved \cup (IF pc \in {"answering", "grading"} THEN {"shown"} ELSE {})
                    \cup (IF pc = "grading" /\ pages > 0 THEN {"reading"} ELSE {})
  /\ UNCHANGED <<byId, shown, answers, read, pages, cursor, out, pc>>

\* The view lists the questions in their order.
Show ==
  /\ pc = "asking" /\ shown' = InOrder(Listed) /\ pc' = "answering"
  /\ UNCHANGED <<quiz, edits, byId, answers, read, pages, cursor, out, moved>>

\* The learner answers what is shown.
Answer(a) ==
  /\ pc = "answering" /\ \A q \in Questions : a[q] # "" => q \in Range(shown)
  /\ answers' = a /\ pc' = "grading"
  /\ UNCHANGED <<quiz, edits, byId, shown, read, pages, cursor, out, moved>>

\* _list_all: one page; the loop ends when there is no cursor, or at the limit.
ReadPage ==
  LET rest == InOrder({q \in Listed : After(q)})
      rows == SubSeq(rest, 1, IF Len(rest) < Page THEN Len(rest) ELSE Page)
  IN /\ pc = "grading" /\ pages < MaxPages /\ (pages = 0 \/ cursor # None)
     /\ read' = read \o rows /\ pages' = pages + 1
     /\ cursor' = IF Len(rest) > Page THEN [order |-> quiz[Last(rows)], id |-> Last(rows)] ELSE None
     /\ UNCHANGED <<quiz, edits, byId, shown, answers, out, pc, moved>>

\* The answer to the i-th question that was read: by id, or the i-th input.
Chosen(i) == IF byId THEN answers[read[i]] ELSE IF i \in DOMAIN shown THEN answers[shown[i]] ELSE ""

\* round(100 * correct / total), a half to the even number.
Percent(c, t) ==
  IF t = 0 THEN 0
  ELSE LET n == (200 * c + t) \div (2 * t)
       IN IF (200 * c + t) % (2 * t) = 0 /\ n % 2 = 1 THEN n - 1 ELSE n

\* GradeQuiz.execute.
Grade(threshold) ==
  LET answered == {i \in DOMAIN read : Chosen(i) # ""}
      correct == {i \in answered : Chosen(i) = Key[read[i]]}
      score == Percent(Cardinality(correct), Len(read))
  IN /\ pc = "grading" /\ pages > 0 /\ (cursor = None \/ pages = MaxPages)
     /\ out' = [score |-> score, passed |-> score >= threshold, correct |-> Cardinality(correct),
                total |-> Len(read), answered |-> Cardinality(answered)]
     /\ pc' = "graded" /\ UNCHANGED <<quiz, edits, byId, shown, answers, read, pages, cursor, moved>>

QuizNext ==
  \/ Show \/ ReadPage \/ (\E t \in PassMarks : Grade(t))
  \/ \E a \in [Questions -> Marks] : Answer(a)
  \/ \E q \in Questions, o \in Orders \cup {0} : Edit(q, o)

QuizSpec == QuizInit /\ [][QuizNext]_quiz_vars

QuizTypeOK ==
  /\ quiz \in [Questions -> Orders \cup {0}] /\ pc \in {"asking", "answering", "grading", "graded"}
  /\ pages \in 0 .. MaxPages /\ Range(read) \subseteq Questions /\ out.score \in 0 .. 100

Right == {q \in Questions : answers[q] # "" /\ answers[q] = Key[q]}

\* Answers by id are graded right however the quiz was changed since it was shown:
\* every question counts once, a question that was taken out does not count.
ByIdExact ==
  pc = "graded" /\ byId /\ moved \cap {"reading"} = {} =>
    out.correct = Cardinality(Right \cap Listed) /\ out.total = Cardinality(Listed)

\* Answers by position are graded right as long as the quiz is as it was shown.
PositionExact == pc = "graded" /\ ~byId /\ moved = {} => out.correct = Cardinality(Right)

\* A better result never has a lower score, all right is 100, and a half is not
\* given away: the score is within half a percent of the share.
ScoreFair ==
  pc = "graded" /\ out.total > 0 =>
    /\ 2 * (out.score * out.total - 100 * out.correct) \in (0 - out.total) .. out.total
    /\ out.correct <= out.answered /\ out.answered <= out.total
=============================================================================
