--------------------------- MODULE WorkflowGraph ---------------------------
(***************************************************************************)
(* A published workflow definition (schema_version 2), as the token engine *)
(* reads it: nodes, ordered outgoing edges and the boundary events that    *)
(* are attached to tasks.  A version is immutable once published, so the   *)
(* graph is a constant of the specification.                               *)
(***************************************************************************)
EXTENDS Naturals, Sequences, FiniteSets

CONSTANTS
  Nodes,            \* node ids of the definition
  NoNode,           \* "no such node": None in the code
  Triggers,         \* the trigger nodes in definition order
  Kind,             \* what _dispatch does at a node
  OutEdges,         \* OutEdges[n]: the out-edges of n, in definition order
  TimerBoundary,    \* the timer boundary event attached to a node, or NoNode
  ErrorBoundary,    \* the catch-all error boundary event, or NoNode
  MaxAttempts,      \* read_policy(node.data).max_attempts
  ContinueOnError,  \* the nodes with data.continue_on_error
  Choices           \* the handles the data of an exclusive gateway may choose

(***************************************************************************)
(* Node kinds.  "service" is a task with a wired action, "unwired" one     *)
(* without an action_type, "rule" a businessRule or script task, "user" a  *)
(* user, manual or receive task; "exclusive" routes on data, "merge" is an *)
(* exclusive gateway without a condition; "catch" is a message or signal   *)
(* catch; "pass" is every node that only forwards (a boundary event, a     *)
(* throw event).                                                           *)
(***************************************************************************)
Kinds == {"trigger", "service", "unwired", "rule", "user", "parallel",
          "inclusive", "exclusive", "merge", "end", "terminate", "errorEnd",
          "timer", "catch", "pass"}

\* Edge handles; "default" stands for an edge without a source handle.
Handles == {"default", "true", "false", "boundary"}

\* An out-edge (target, via_handle).
Target == [node : Nodes, via : Handles]

ASSUME GraphAssumption ==
  /\ NoNode \notin Nodes
  /\ IsFiniteSet(Nodes)
  /\ Triggers \in Seq(Nodes)
  /\ Kind \in [Nodes -> Kinds]
  /\ OutEdges \in [Nodes -> Seq(Target)]
  /\ TimerBoundary \in [Nodes -> Nodes \cup {NoNode}]
  /\ ErrorBoundary \in [Nodes -> Nodes \cup {NoNode}]
  /\ MaxAttempts \in [Nodes -> Nat \ {0}]
  /\ ContinueOnError \subseteq Nodes
  /\ Choices \in [Nodes -> SUBSET Handles]

----------------------------------------------------------------------------
\* The edges as (source, position) pairs: parallel edges count separately.
EdgeRefs == UNION {{<<m, i>> : i \in DOMAIN OutEdges[m]} : m \in Nodes}

\* The incoming edges of n, as references and as (source, handle) pairs.
IncomingRefs(n) == {e \in EdgeRefs : OutEdges[e[1]][e[2]].node = n}
Incoming(n) == {<<e[1], OutEdges[e[1]][e[2]].via>> : e \in IncomingRefs(n)}

\* A forking gateway with two or more incoming edges is a join.
IsJoin(n) == /\ Kind[n] \in {"parallel", "inclusive"}
             /\ Cardinality(IncomingRefs(n)) >= 2

Successors(n) == {OutEdges[n][i].node : i \in DOMAIN OutEdges[n]}

\* Forward reachability over edges only, the start nodes included.  Boundary
\* events hang off a node without an edge and are not followed.
ForwardReachable(S) ==
  LET within[k \in 0..Cardinality(Nodes)] ==
        IF k = 0 THEN S
        ELSE within[k - 1] \cup UNION {Successors(n) : n \in within[k - 1]}
  IN within[Cardinality(Nodes)]

(***************************************************************************)
(* The edge an exclusive gateway takes when its data chooses handle h: the *)
(* first edge with that handle, else the first default edge, else none.    *)
(* The result is a sequence of at most one target.                         *)
(***************************************************************************)
FirstVia(n, h) ==
  {OutEdges[n][i] : i \in {j \in DOMAIN OutEdges[n] :
     /\ OutEdges[n][j].via = h
     /\ \A k \in 1..(j - 1) : OutEdges[n][k].via # h}}

Routes(n, h) == IF FirstVia(n, h) # {} THEN FirstVia(n, h) ELSE FirstVia(n, "default")

============================================================================
