------------------------------ MODULE MCWork --------------------------------
(****************************************************************************)
(* The work of agents and workflows, one component at a time: what starts   *)
(* runs, the desk of the agents, documents and configuration on their way,  *)
(* authoring, and the steps of a workflow. The components have no state in  *)
(* common: a behaviour is about the component that "which" names, and its   *)
(* variables are v1, v2, ... in the order the component's module declares   *)
(* them. A configuration chooses its components with Parts.                 *)
(****************************************************************************)
EXTENDS Integers, Sequences, FiniteSets, TLC

CONSTANTS
  Parts,     \* the components a run is about
  r1, r2     \* two transactions, requests or runs

Processes == {r1, r2}

VARIABLES which,
  v1, v2, v3, v4, v5, v6, v7, v8, v9, v10, v11, v12, v13

vars == <<which, v1, v2, v3, v4, v5, v6, v7, v8, v9, v10, v11, v12, v13>>

----------------------------------------------------------------------------
Seats == {"s1", "s2"}
Qu == INSTANCE Questions WITH
     Author <- "author", Person <- "person", Admin <- "admin",
     MaxFaults <- 1, run <- v1, q <- v2, tx <- v3, notice <- v4,
     answered <- v5, missed <- v6, faults <- v7

\* Two agents that supervise each other, one of them an adviser, and another
\* adviser.
Agents == {"chief", "lead", "expert"}
Starters == {"lead"}
Enabled == Agents
Supervisor == "chief" :> "lead" @@ "lead" :> "chief" @@ "expert" :> "chief"
Kind == "chief" :> "advisory" @@ "lead" :> "operator" @@ "expert" :> "advisory"
Grants == [a \in Agents |-> {"create_record", "send_message"}]
De == INSTANCE Delegation WITH
     Nobody <- "nobody", Actor <- "ann", NoActor <- "none",
     MAX_ESCALATION_HOPS <- 1, MAX_HUMAN_QUESTIONS_PER_RUN <- 1,
     MaxRuns <- 3, MaxActs <- 1, tree <- v1, mode <- v2, loose <- v3,
     key <- v4, did <- v5

\* A board that the author has a seat on.
Boards == "engineering" :> <<"author", "arch", "sec">>
Staff == {"arch", "sec"}
Levels == "none" :> 0 @@ "standard" :> 2
Submissions == {"d1", "d2"}
Rv == INSTANCE ReviewGate WITH
     AuthorName <- "author", MAX_ROUNDS <- 1, MaxSide <- 1, MaxLines <- 4,
     diary <- v1, level <- v2, sitting <- v3, gate <- v4, sub <- v5,
     pc <- v6, side <- v7

OrderTasks == {"t1", "t2"}
Checklists == {"t1" :> a @@ "t2" :> b : <<a, b>> \in {<<"open", "open">>, <<"done", "blocked">>}}
Wo == INSTANCE WorkOrder WITH
     Owes <- TRUE, MAX_CONTINUATIONS <- 2, MaxRuns <- 3, MaxEdits <- 1,
     Tasks <- OrderTasks, status <- v1, agent <- v2, task <- v3,
     output <- v4, alert <- v5, dismissed <- v6, runs <- v7, fresh <- v8,
     req <- v9, lost <- v10, raced <- v11, edits <- v12

Block2(c, s, m) == [cron |-> c, every_seconds |-> s, every_minutes |-> m]
Block == "seconds" :> Block2(0, 2, 1) @@ "cron" :> Block2(2, 1, 0)
Sc == INSTANCE ScheduleSweep WITH
     Workflows <- DOMAIN Block, Sweeps <- Processes, Failing <- {},
     Minute <- 3, Limit <- 2, MaxTime <- 3, MaxAborts <- 1,
     Agents <- ("a1" :> 1 @@ "a2" :> 2), AgentSweeps <- Processes,
     AgentLimit <- 2, AgentMaxTime <- 3, clock <- v1, fired <- v2, tx <- v3,
     aborts <- v4, agent_clock <- v1, enabled <- v2, last_run_at <- v3,
     enqueued <- v4, agent_tx <- v5, overlapped <- v6

\* A caller with an error boundary, a child that waits for a person, and a
\* workflow that calls itself.
Call(w, b, go) == [kind |-> "call", to |-> w, boundary |-> b, continue_on_error |-> go]
Plain(k) == [kind |-> k, to |-> "none", boundary |-> 0, continue_on_error |-> FALSE]
Body == "main" :> <<Call("child", 3, FALSE), Call("lost", 0, FALSE), Plain("user")>>
     @@ "child" :> <<Plain("task"), Plain("user"), Plain("task")>>
     @@ "self" :> <<Call("self", 0, TRUE)>>
Ca == INSTANCE CallActivity WITH
     Roots <- {"main", "self"}, MAX_TOKEN_DEPTH <- 2, MaxRuns <- 4,
     MaxRaises <- 1, runs <- v1, stack <- v2, savepoint <- v3, raises <- v4

In == INSTANCE DocumentIngest WITH
     Texts <- 0 .. 2, Blank <- {2}, MaxTasks <- 2, MaxRequests <- 2,
     MaxFailures <- 1, doc <- v1, uploaded <- v2, req <- v3, task <- v4,
     flag <- v5, asked <- v6, job <- v7, thread <- v8, index <- v9,
     meta <- v10, failures <- v11, crossed <- v12, lost <- v13

\* Two releases and a target with rows of its own: a form whose name the first
\* release has too, an entity that only the second has, an endpoint.
Row(t, i, n, b, f) == [type |-> t, id |-> i, lin |-> 0, name |-> <<n, 0>>, body |-> {b}, ref |-> f]
First == {Row("entities", 1, "case", "f1", 0), Row("workflows", 2, "flow", "v1", 1), Row("forms", 3, "form", "v1", 1),
          Row("inbound_endpoints", 4, "hook", "v1", 2), Row("folders", 5, "dir", "v1", 0)}
Second == {Row("entities", 6, "party", "f1", 0), Row("forms", 3, "sheet", "v2", 6), Row("agents", 7, "bot", "v1", 0)}
Releases == <<First, Second>>
OwnRows == {Row("forms", 21, "form", "o", 22), Row("entities", 22, "local", "f2", 0)}
Choice(s, d, a, o) == [strategy |-> s, deletes |-> d, data |-> a, override |-> o]
Options == {Choice("overwrite", TRUE, TRUE, FALSE), Choice("rename", FALSE, FALSE, FALSE), Choice("overwrite", TRUE, FALSE, TRUE)}
Lo == INSTANCE Promotion WITH
     Own <- OwnRows, Kind <- "local", Requests <- Processes,
     MaxPromotions <- 2, MaxEdits <- 1, release <- v1, target <- v2,
     next <- v3, runs <- v4, promos <- v5, tx <- v6, edits <- v7,
     clean <- v8

RemoteOptions == {Choice("overwrite", TRUE, TRUE, FALSE)}
Re == INSTANCE Promotion WITH
     Own <- OwnRows, Kind <- "remote", Requests <- Processes,
     MaxPromotions <- 2, MaxEdits <- 1, Options <- RemoteOptions,
     release <- v1, target <- v2, next <- v3, runs <- v4, promos <- v5,
     tx <- v6, edits <- v7, clean <- v8

\* A clean graph, one with an error, one whose agent task is wrong, one with an
\* agent task.
Drawn(e, a) == [errors |-> e, agents |-> a]
Graphs == {Drawn({}, FALSE), Drawn({"other"}, FALSE), Drawn({"agent-task"}, TRUE), Drawn({}, TRUE)}
Au == INSTANCE Authoring WITH
     Requests <- Processes, MaxVersions <- 2, MaxRuns <- 1,
     MaxPublishes <- 3, wf <- v1, ver <- v2, consent <- v3, runs <- v4,
     req <- v5, publishes <- v6, raced <- v7, refused <- v8

Kinds == <<{"trigger", "parallel"}, {"event_based", "task"}, {"boundary", "end"}>>
Outs == {<<>>, <<2>>, <<3, 1>>, <<2, 3>>, <<1>>}
Gr == INSTANCE GraphValidation WITH
     Hosts <- {0, 2, 9}, kind <- v1, out <- v2, host <- v3, pc <- v4,
     queue <- v5, seen <- v6, index <- v7, low <- v8, onstack <- v9,
     stack <- v10, work <- v11, sccs <- v12, issues <- v13

As == INSTANCE Assistant WITH
     Tools <- {"run_workflow", "create_folder", "publish_workflow", "unknown"},
     Handlers <- {"run_workflow", "create_folder", "publish_workflow"},
     AdminOnly <- {"publish_workflow", "create_folder"},
     UserContext <- {"create_folder"}, MAX_ITERATIONS <- 2, MaxCalls <- 2,
     who <- v1, pc <- v2, rounds <- v3, calls <- v4, messages <- v5,
     events <- v6, wrote <- v7

\* Nodes: a configured value, a node's own fields.
Src(k, p, v) == [k |-> k, p |-> p, v |-> v]
NumV(n) == [t |-> "num", n |-> n]
Word(n) == [t |-> "word", n |-> n]
NullV == [t |-> "null", n |-> 0]
Lit(v) == Src("lit", "-", v)
Ref(p) == Src("ref", p, NullV)
Tpl(p) == Src("tpl", p, NullV)
NoMap == [x \in {} |-> Lit(NullV)]
Wide == [low |-> 0, high |-> 3]
Node(t) == [type |-> t, target |-> "case", mode |-> "latest", values |-> NoMap, increments |-> NoMap, clamp |-> Wide, host |-> "none",
            conn |-> "none", to |-> Lit(NullV)]
Writes ==
  {[Node("update_record") EXCEPT !.values = v, !.increments = i] :
     v \in {NoMap, [c |-> Ref("gone")], [c |-> Ref("nul")], [c |-> Tpl("gone")], [n |-> Lit(NumV(2)), c |-> Ref("gone")]},
     i \in {NoMap, [n |-> Lit(NumV(1))], [n |-> Tpl("gone")]}}
  \cup {[Node("update_record") EXCEPT !.increments = [n |-> Ref("two")], !.mode = "by_id"]}
Others ==
  {[Node("update_record_field") EXCEPT !.values = [c |-> s], !.target = g] : s \in {Ref("gone"), Tpl("two")}, g \in {"case", "none"}}
  \cup {Node(t) : t \in {"create_record", "get_record", "random", "log", "unheard"}}
  \cup {[Node(t) EXCEPT !.target = "none"] : t \in {"create_record", "get_record", "update_record"}}
  \cup {[Node(t) EXCEPT !.to = s] : t \in {"send_form", "send_email"}, s \in {Ref("gone"), Lit(Word(2)), Tpl("two")}}
  \cup {[Node("send_webhook") EXCEPT !.host = h] : h \in {"none", "open", "inner", "ftp", "other"}}
  \cup {[Node("http_request") EXCEPT !.host = h, !.conn = k] : h \in {"none", "open", "inner"}, k \in {"none", "robot", "wrong", "gone"}}
Host(a, t, p, s) == [allowed |-> a, trusted |-> t, private |-> p, scheme |-> s]
Ac == INSTANCE Actions WITH
     Runs <- Processes, Configs <- Writes \cup Others,
     Context <- [nul |-> NullV, two |-> NumV(2)],
     Hosts <- [open |-> Host(TRUE, FALSE, FALSE, "https"), inner |-> Host(TRUE, FALSE, TRUE, "http"), robot |-> Host(FALSE, TRUE, TRUE, "http"), ftp |-> Host(TRUE, FALSE, FALSE, "ftp")],
     Connections <- [robot |-> "robot", wrong |-> "inner"], MailOn <- TRUE,
     MaxTries <- 2, row <- v1, made <- v2, events <- v3, links <- v4,
     mails <- v5, sent <- v6, st <- v7

\* Documents of two properties, with the value that is to be shown.
Quoted(s) == <<"\"">> \o s \o <<"\"">>
Str(raw, dec) == [raw |-> Quoted(raw), dec |-> dec]
Nothing == <<"-">>
HalfPair == Str(<<"w", "\\", "h">>, <<"w">>)    \* half of a pair: reading stops
JsonValues ==
  {Str(<<>>, <<>>), Str(<<"w", "x">>, <<"w", "x">>), Str(<<"\\", "\"", "_", "}">>, <<"\"", "_", "}">>), Str(<<"\\", "n", "\\", "\\">>, <<"N", "\\">>),
   Str(<<"\\", "h", "\\", "l", "w">>, <<"P", "w">>), HalfPair, Str(<<",", "{", "a", ":">>, <<",", "{", "a", ":">>),
   [raw |-> <<"1">>, dec |-> Nothing], [raw |-> <<"{">> \o Quoted(<<"a">>) \o <<":">> \o Quoted(<<"x">>) \o <<"}">>, dec |-> Nothing],
   [raw |-> <<"[", "1", ",">> \o Quoted(<<"a", "\\", "\"">>) \o <<",", "{", "}", "]">>, dec |-> Nothing]}
Shown(k, v, l, w) == IF k = <<"a">> THEN v.dec ELSE IF l = <<"a">> /\ v # HalfPair THEN w.dec ELSE Nothing
JsonDocs ==
  {[chars |-> <<"{">> \o Quoted(k) \o <<"_", ":">> \o v.raw \o <<",", "_">> \o Quoted(l) \o <<":">> \o w.raw \o <<"}">>, value |-> Shown(k, v, l, w)] :
     k \in {<<"a">>, <<"b">>, <<"a", "b">>}, v \in JsonValues, l \in {<<"a">>, <<"b">>}, w \in JsonValues}
Sp == INSTANCE SpokenAnswer WITH
     Deltas <- {<<"w">>, <<"_">>, <<".">>, <<"q">>, <<",">>, <<".", "_", "w", ".", "_">>, <<"w", ",", "_">>},
     MaxLength <- 5, MIN_FIRST_CHARS <- 1, MIN_CHARS <- 2, MAX_CHARS <- 4,
     Documents <- JsonDocs, Field <- <<"a">>, MaxCut <- 30, text <- v1,
     buf <- v2, chunks <- v3, calls <- v4, voice <- v5, pc <- v6, doc <- v1,
     at <- v2, depth <- v3, phase <- v4, role <- v5, key <- v6,
     selected <- v7, escape <- v8, high <- v9, done <- v10, out <- v11

Ml == INSTANCE ModelSteps WITH
     Questions <- 1 .. 3, Orders <- {1, 2},
     Key <- [q \in 1 .. 3 |-> IF q = 2 THEN "x" ELSE "y"],
     Marks <- {"", "x", "y"}, Page <- 1, MaxPages <- 3, PassMarks <- {67},
     MaxEdits <- 2, Gestures <- {"wave"}, Moods <- {"happy"},
     Thresholds <- {0, 70}, Tokens <- 2, Deadline <- 1, quiz <- v1,
     edits <- v2, byId <- v3, shown <- v4, answers <- v5, read <- v6,
     pages <- v7, cursor <- v8, out <- v9, pc <- v10, moved <- v11,
     node <- v1, state <- v2, result <- v3, written <- v4, wire <- v5,
     viewer <- v6, lost <- v7

\* Two runs of two tokens each, one of them parked: the batches of two sweeps
\* can cross in both runs and wait for each other.
Ts == INSTANCE TokenSweep WITH
     Tokens <- 1 .. 4, Runs <- {"r1", "r2"},
     RunOf <- [t \in 1 .. 4 |-> IF t % 2 = 1 THEN "r1" ELSE "r2"],
     Terminating <- {"r1", "r2"}, Parked <- {4}, Sessions <- Processes,
     NoSession <- "nobody", NoToken <- 0, Limit <- 2, MaxAdvances <- 1,
     MaxErrors <- 0, MaxCrashes <- 0, row <- v1, base <- v2, owner <- v3,
     adv <- v4, sess <- v5, errors <- v6, crashes <- v7

\* The two processes are interchangeable.
SymmetricProcesses == Permutations(Processes)

----------------------------------------------------------------------------
\* A component with k variables leaves the others off.
Off12 == v13 = "off"
Off11 == v12 = "off" /\ Off12
Off8 == v9 = "off" /\ v10 = "off" /\ v11 = "off" /\ Off11
Off7 == v8 = "off" /\ Off8
Off6 == v7 = "off" /\ Off7
Off5 == v6 = "off" /\ Off6
Off4 == v5 = "off" /\ Off5
Same12 == UNCHANGED <<v13>>
Same11 == UNCHANGED <<v12>> /\ Same12
Same8 == UNCHANGED <<v9, v10, v11>> /\ Same11
Same7 == UNCHANGED <<v8>> /\ Same8
Same6 == UNCHANGED <<v7>> /\ Same7
Same5 == UNCHANGED <<v6>> /\ Same6
Same4 == UNCHANGED <<v5>> /\ Same5

Init ==
  /\ which \in Parts
  /\ \/ which = "questions" /\ Qu!Init /\ Off7
     \/ which = "delegation" /\ De!Init /\ Off5
     \/ which = "review" /\ Rv!GateInit /\ Off7
     \/ which = "order" /\ Wo!Init /\ Off12
     \/ which = "schedule" /\ Sc!Init /\ Off4
     \/ which = "agents" /\ Sc!AgentInit /\ Off6
     \/ which = "call" /\ Ca!CallInit /\ Off4
     \/ which = "sweeps" /\ Ts!Init /\ Off7
     \/ which = "ingest" /\ In!IngestInit
     \/ which = "local" /\ Lo!Init /\ Off8
     \/ which = "remote" /\ Re!Init /\ Off8
     \/ which = "versions" /\ Au!AuthoringInit /\ Off8
     \/ which = "graph" /\ Gr!Init
     \/ which = "turn" /\ As!Init /\ Off7
     \/ which = "actions" /\ Ac!Init /\ Off7
     \/ which = "spoken" /\ Sp!Init /\ Off6
     \/ which = "json" /\ Sp!JsonInit /\ Off11
     \/ which = "quiz" /\ Ml!QuizInit /\ Off11
     \/ which = "model" /\ Ml!Init /\ Off7

Next ==
  /\ UNCHANGED which
  /\ \/ which = "questions" /\ Qu!Next /\ Same7
     \/ which = "delegation" /\ De!Next /\ Same5
     \/ which = "review" /\ Rv!GateNext /\ Same7
     \/ which = "order" /\ Wo!Next /\ Same12
     \/ which = "schedule" /\ Sc!Next /\ Same4
     \/ which = "agents" /\ Sc!AgentNext /\ Same6
     \/ which = "call" /\ Ca!CallNext /\ Same4
     \/ which = "sweeps" /\ Ts!Next /\ Same7
     \/ which = "ingest" /\ In!IngestNext
     \/ which = "local" /\ Lo!Next /\ Same8
     \/ which = "remote" /\ Re!Next /\ Same8
     \/ which = "versions" /\ Au!AuthoringNext /\ Same8
     \/ which = "graph" /\ Gr!Next
     \/ which = "turn" /\ As!Next /\ Same7
     \/ which = "actions" /\ Ac!Next /\ Same7
     \/ which = "spoken" /\ Sp!Next /\ Same6
     \/ which = "json" /\ Sp!JsonNext /\ Same11
     \/ which = "quiz" /\ Ml!QuizNext /\ Same11
     \/ which = "model" /\ Ml!Next /\ Same7

Spec == Init /\ [][Next]_vars

----------------------------------------------------------------------------
\* Questions, ReviewGate: a run that has ended leaves no open question of its
\* own (void_open_questions); a board resumes its author when every seat has
\* spoken, and only seats that answered inside each other's transactions
\* strand it (_inject_answer, _siblings); a notice asks for an answer that
\* somebody waits for (_close_the_notice). The author does not shrink its own
\* board (resolve_board); what is marked as passed was passed by every seat
\* of a board convened for it (outcome); objections are passed over, and a
\* round beyond the cap is held, only as MAX_ROUNDS allows (convene).
BoardsHold ==
  /\ which = "questions" => Qu!NoTrap /\ Qu!BoardComplete /\ Qu!OnlyOverlapStrands /\ Qu!NoticeIsOpen
  /\ which = "review" => Rv!BoardIsWhole /\ Rv!PassedWasRead /\ Rv!ReleasedAfterCap /\ Rv!RoundsAfterCap

\* Delegation: every run of an order reads as the one who started it
\* (create_run); a consult is never asked for by a consult (_consult_peer); a
\* chain of escalations ends at a person, even where the chart has a cycle
\* (_escalate); an order that has only been in plan mode has changed nothing
\* (decide, posture_for).
AuthorityHolds ==
  /\ which = "delegation" => De!AuthorityHolds

\* WorkOrder: only overlapping transactions put two agents on an order
\* (_has_live_run); pickups are limited, and each found more settled
\* (_continued); an open alert is about a blocked step, and a blocked step
\* has one (report_blocked, clear_blocked_alert); a reply is handed to a run
\* or said not to be (reply).
OrdersHold ==
  /\ which = "order" => Wo!OrdersHold

\* Questions, Delegation, WorkOrder: an answer on its way never queues an
\* ended run (_inject_answer); nothing acts for a key that is gone
\* (_run_tool); only a stale decision leaves the edges of _TRANSITIONS
\* (set_status); the step that closes an order that owes a document finds one
\* attached (_require_evidence).
WorkSteps ==
  [][ /\ which = "questions" => Qu!KeepsEnded
      /\ which = "delegation" => De!KeyStops
      /\ which = "order" => Wo!MovesAlongEdges /\ Wo!ClosesWithOutput ]_vars

\* ScheduleSweep, CallActivity, TokenSweep: no period of a workflow's schedule fires
\* twice, whatever sweeps overlap or crash (run_due_schedules); an agent's
\* schedule is queued twice for one boundary only by sweeps that overlapped;
\* a caller that is parked waits for a child that will wake it, unless the
\* child died of an exception (_signal_parent); a run never ends before the
\* children it called (_dispatch_call); the failure of a child is passed over
\* only when the child had waited (_dispatch_task). Two sweeps never advance
\* one run, also when PostgreSQL has to break their waiting for each other
\* (advance_tokens, kill_all).
StartsHold ==
  /\ which = "schedule" => Sc!FiredWhenDue
  /\ which = "agents" => Sc!OnlyOverlapDoubles
  /\ which = "call" => Ca!OnlyKilledStrands /\ Ca!NoOrphans /\ Ca!OnlyLateFailureIgnored
  /\ which = "sweeps" => Ts!OneAdvancerPerRun

\* DocumentIngest: a re-ingest, a retry or a redelivery replaces what is
\* indexed (ingest_document); a document that says SUCCESS is indexed as it
\* is, unless requests met work in flight or something was lost; a deleted
\* document leaves the index unless it was deleted in flight
\* (delete_document); a document is left PENDING or PROCESSING only by
\* something that was lost (_submit_ingest, _poll_until_complete).
IngestHolds ==
  /\ which = "ingest" => In!IngestHolds

\* Promotion: undoing a promotion at once restores the target (rollback); no
\* two rows of the target are linked to one object of the source
\* (_stamp_new); what a row of a remote target is bound to is there, whatever
\* pushes overlap or are lost (IdMap, _delete_row).
PromotionHolds ==
  /\ which = "local" => Lo!RollbackRestores /\ Lo!NoTwins
  /\ which = "remote" => Re!RefsLive

\* Authoring, GraphValidation, Assistant: a workflow points at an archived
\* version, has two live versions, or refuses a run though a version is live
\* only after publishes that overlapped (publish, resolve_published_version);
\* a node is called unreachable exactly when it is, the iterative search
\* finds the strongly connected components, and a loop without a task or a
\* wait is warned about (_check_reachability, _strongly_connected,
\* _check_loops); the assistant answers every tool call once, ends a turn
\* once, and writes only for those who may (run_stream, _dispatch).
PublishingHolds ==
  /\ which = "versions" => Au!OnlyRaceStrands /\ Au!OnlyRaceLeavesTwo /\ Au!OnlyRaceRefuses
  /\ which = "graph" => Gr!ReachIsExact /\ Gr!ComponentsExact /\ Gr!IdleLoopsWarned
  /\ which = "turn" => As!EveryCallAnswered /\ As!OneEnding /\ As!WritesPermitted

\* Actions, ModelSteps, SpokenAnswer: a reference to something that does not
\* exist leaves its field alone (_unresolved_ref_slugs), an update with
\* nothing to say makes no event, only trusted hosts and listed ones that are
\* not private are called (assert_outbound_host_allowed), and a node tried
\* again stores one form link (_mint_form_link). However the stream is cut,
\* no character of the answer is lost or moved, no word split, and the voice
\* says the clauses in order (SentenceChunker, _speak_sink); the viewer sees
\* the property's value and nothing else (StringFieldParser); answers are
\* graded right however the quiz was changed (GradeQuiz); whatever the model
\* sends, a gateway can branch on what is captured (LlmDecide, LlmGrade), and
\* a viewer sees the shown step in order and is told the end (_on_delta,
\* execute_workflow_run).
StepsHold ==
  /\ which = "actions" => Ac!KeepsUnsaid /\ Ac!EventSays /\ Ac!OnlyListedCalled /\ Ac!OneLink
  /\ which = "spoken" => Sp!NothingLost /\ Sp!WordsWhole /\ Sp!VoiceInOrder
  /\ which = "json" => Sp!OnlyTheField
  /\ which = "quiz" => Ml!ByIdExact /\ Ml!PositionExact /\ Ml!ScoreFair
  /\ which = "model" => Ml!Branchable /\ Ml!Keyed /\ Ml!ViewInOrder /\ Ml!ToldTheEnd

\* Promotion, Actions, TokenSweep: what the target wrote itself goes only with what it is
\* bound to (_is_promotion_managed); a workflow with a run in flight goes
\* only by an operator's word or if the run began behind the guard
\* (InFlightGuard); two runs that add to one number both land (increment);
\* crossing sweeps implement one owner per run (RunOwner).
ContentSteps ==
  [][ /\ which = "local" => Lo!OwnKept /\ Lo!GuardedRuns
      /\ which = "actions" => Ac!DeltaLands
      /\ which = "sweeps" => Ts!Owned!Next \/ UNCHANGED Ts!Owned!vars ]_vars
=============================================================================
