--------------------------- MODULE MCTokenEngine ---------------------------
(***************************************************************************)
(* Small workflow definitions for model checking TokenEngine.  A graph is  *)
(* given by its edge list; the constants of WorkflowGraph are derived from *)
(* it the way the engine reads a definition.                               *)
(***************************************************************************)
EXTENDS TokenEngine, TLC

\* An edge without a handle, and an edge with one.
Edge(s, d) == <<s, [node |-> d, via |-> "default"]>>
On(s, h, d) == <<s, [node |-> d, via |-> h]>>

OutOf(nodes, edges) ==
  [n \in nodes |-> LET mine == SelectSeq(edges, LAMBDA e : e[1] = n)
                   IN [i \in 1..Len(mine) |-> mine[i][2]]]

None(nodes) == [n \in nodes |-> "NoNode"]
Once(nodes) == [n \in nodes |-> 1]
TrueFalse(nodes) == [n \in nodes |-> {"true", "false"}]

----------------------------------------------------------------------------
(***************************************************************************)
(* Approval: a decision picks one of two paths.  The first forks into a    *)
(* service task with a retry and an error boundary and a human task with   *)
(* an SLA timer boundary; both branches merge into an AND-join, behind     *)
(* which a last service task closes the run.  The second is a task with a  *)
(* decision that may loop back to it, where only the step budget bounds    *)
(* the rounds, or fork a side path that leads back to the task, where only *)
(* the token budget does, reaches an error end or stops.                   *)
(***************************************************************************)
ApprovalKind ==
  "trig" :> "trigger" @@ "pick" :> "exclusive" @@
  "fork" :> "parallel" @@ "svc" :> "service" @@
  "caught" :> "pass" @@ "m1" :> "merge" @@ "ask" :> "user" @@ "sla" :> "pass" @@
  "m2" :> "merge" @@ "join" :> "parallel" @@ "close" :> "service" @@ "end" :> "end" @@
  "work" :> "rule" @@ "again" :> "exclusive" @@ "split" :> "parallel" @@
  "side" :> "exclusive" @@ "err" :> "errorEnd"
ApprovalNodes == DOMAIN ApprovalKind
ApprovalOut == OutOf(ApprovalNodes,
  <<Edge("trig", "pick"), On("pick", "true", "fork"), On("pick", "false", "work"),
    Edge("fork", "svc"), Edge("fork", "ask"),
    Edge("svc", "m1"), Edge("caught", "m1"), Edge("ask", "m2"), Edge("sla", "m2"),
    Edge("m1", "join"), Edge("m2", "join"), Edge("join", "close"), Edge("close", "end"),
    Edge("work", "again"), On("again", "true", "work"), On("again", "false", "split"),
    Edge("split", "side"), Edge("split", "end"),
    On("side", "true", "err"), On("side", "false", "work")>>)
ApprovalNone == None(ApprovalNodes)
ApprovalTimer == [ApprovalNone EXCEPT !["ask"] = "sla"]
ApprovalError == [ApprovalNone EXCEPT !["svc"] = "caught"]
ApprovalAttempts == [Once(ApprovalNodes) EXCEPT !["svc"] = 2]
ApprovalChoices == [TrueFalse(ApprovalNodes) EXCEPT !["side"] = {"true", "false", "default"}]
TrigOnly == <<"trig">>

----------------------------------------------------------------------------
(***************************************************************************)
(* Review: a fork whose first two branches (an exclusive split with a task *)
(* that may fail and go on, and a decision followed by a timer) meet in an *)
(* OR-join; an AND-join then waits for the third branch, a human task.     *)
(***************************************************************************)
ReviewKind ==
  "trig" :> "trigger" @@ "fork" :> "parallel" @@ "gate" :> "exclusive" @@ "a" :> "service" @@
  "b" :> "unwired" @@ "rule" :> "rule" @@ "timer" :> "timer" @@ "orj" :> "inclusive" @@
  "ask" :> "user" @@ "join" :> "parallel" @@ "close" :> "service" @@ "end" :> "end"
ReviewNodes == DOMAIN ReviewKind
ReviewOut == OutOf(ReviewNodes,
  <<Edge("trig", "fork"), Edge("fork", "gate"), Edge("fork", "rule"), Edge("fork", "ask"),
    On("gate", "true", "a"), Edge("gate", "b"), Edge("a", "orj"), Edge("b", "orj"),
    Edge("rule", "timer"), Edge("timer", "orj"), Edge("orj", "join"),
    Edge("ask", "join"), Edge("join", "close"), Edge("close", "end")>>)
ReviewNone == None(ReviewNodes)
ReviewOnce == Once(ReviewNodes)
ReviewContinue == {"a"}
ReviewChoices == TrueFalse(ReviewNodes)

----------------------------------------------------------------------------
\* The task behind a join runs once per drive of the run: the join merges the
\* branches that forked, and a retry of a failed run re-runs only the step that
\* failed.
CloseOnce == exec["close"] <= 1 + run.retries

============================================================================
