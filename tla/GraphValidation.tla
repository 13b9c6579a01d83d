-------------------------- MODULE GraphValidation --------------------------
(***************************************************************************)
(* validate_definition: the semantic rules for a workflow graph.  The two  *)
(* searches, breadth first from the start events and Tarjan's for strongly *)
(* connected components without recursion, are run step by step on every   *)
(* graph over a few nodes; the rules read their results.                   *)
(***************************************************************************)
EXTENDS Naturals, Sequences, FiniteSets, FiniteSetsExt, SequencesExt

CONSTANTS
  Kinds,      \* Kinds[n]: what node n may be
  Outs,       \* the sequences of targets a node may have
  Hosts       \* the nodes a boundary event may be attached to; 0 is none

VARIABLES
  kind, out, host,             \* the graph
  pc,                          \* "reach", "scc", "done", or "reported"
  queue, seen,                 \* _check_reachability
  index, low, onstack, stack, work, sccs,   \* _strongly_connected
  issues                       \* [severity, code, node]

vars == <<kind, out, host, pc, queue, seen, index, low, onstack, stack, work, sccs, issues>>

Nodes == DOMAIN Kinds
Tasks == {"task", "receive", "agent"}
None == 0

Init ==
  /\ kind \in {k \in [Nodes -> UNION {Kinds[n] : n \in Nodes}] : \A n \in Nodes : k[n] \in Kinds[n]}
  /\ out \in [Nodes -> Outs] /\ host \in [Nodes -> Hosts]
  /\ \A n \in Nodes : kind[n] # "boundary" => host[n] = None
  /\ pc = "reach" /\ seen = {} /\ queue = SetToSortSeq({n \in Nodes : kind[n] = "trigger"}, <)
  /\ index = [n \in Nodes |-> None] /\ low = [n \in Nodes |-> None]
  /\ onstack = {} /\ stack = <<>> /\ work = <<>> /\ sccs = {} /\ issues = {}

Graph == <<kind, out, host>>
BoundaryMap(n) == SetToSortSeq({b \in Nodes : kind[b] = "boundary" /\ host[b] = n}, <)

\* One node of the breadth-first search.
Visit ==
  /\ pc = "reach" /\ queue # <<>> /\ UNCHANGED <<Graph, pc, index, low, onstack, stack, work, sccs, issues>>
  /\ LET n == Head(queue)
     IN IF n \in seen THEN queue' = Tail(queue) /\ UNCHANGED seen
        ELSE seen' = seen \cup {n} /\ queue' = Tail(queue) \o out[n] \o BoundaryMap(n)

Counter == Cardinality({n \in Nodes : index[n] # None})
Enter(n) == work' = Append(work, <<n, 0>>)

\* The next root without an index, or the end.
NextRoot ==
  /\ (pc = "reach" /\ queue = <<>>) \/ (pc = "scc" /\ work = <<>>)
  /\ LET roots == {n \in Nodes : index[n] = None}
     IN IF roots = {} THEN pc' = "done" /\ UNCHANGED work ELSE pc' = "scc" /\ Enter(Min(roots))
  /\ UNCHANGED <<Graph, queue, seen, index, low, onstack, stack, sccs, issues>>

Top == work[Len(work)]
Least(a, b) == IF a < b THEN a ELSE b

\* A node that is new gets its index; then its next target is looked at.
Descend ==
  /\ pc = "scc" /\ work # <<>> /\ Top[2] < Len(out[Top[1]])
  /\ LET n == Top[1]
         t == out[n][Top[2] + 1]
         new == Top[2] = 0
         i == IF new THEN [index EXCEPT ![n] = Counter + 1] ELSE index
         l == IF new THEN [low EXCEPT ![n] = Counter + 1] ELSE low
         s == IF new THEN onstack \cup {n} ELSE onstack
         moved == [work EXCEPT ![Len(work)] = <<n, Top[2] + 1>>]
     IN /\ index' = i /\ onstack' = s /\ stack' = IF new THEN Append(stack, n) ELSE stack
        /\ work' = IF i[t] = None THEN Append(moved, <<t, 0>>) ELSE moved
        /\ low' = IF i[t] # None /\ t \in s THEN [l EXCEPT ![n] = Least(@, i[t])] ELSE l
  /\ UNCHANGED <<Graph, pc, queue, seen, sccs, issues>>

\* The node it was reached from learns how far back it reaches.
HandUp(l, n) ==
  IF Len(work) = 1 THEN l ELSE LET p == work[Len(work) - 1][1] IN [l EXCEPT ![p] = Least(@, l[n])]

Popped(component) == onstack \ component

\* A node whose targets are exhausted; if it is a root, its component is
\* popped.
Ascend ==
  /\ pc = "scc" /\ work # <<>> /\ Top[2] = Len(out[Top[1]])
  /\ LET n == Top[1]
         new == Top[2] = 0
         i == IF new THEN [index EXCEPT ![n] = Counter + 1] ELSE index
         l == IF new THEN [low EXCEPT ![n] = Counter + 1] ELSE low
         s == IF new THEN Append(stack, n) ELSE stack
         at == CHOOSE k \in DOMAIN s : s[k] = n
         component == {s[k] : k \in at .. Len(s)}
     IN /\ index' = i /\ low' = HandUp(l, n) /\ work' = Front(work)
        /\ IF l[n] = i[n]
           THEN sccs' = sccs \cup {component} /\ stack' = SubSeq(s, 1, at - 1) /\ onstack' = Popped(component)
           ELSE stack' = s /\ onstack' = (onstack \cup {n}) /\ UNCHANGED sccs
  /\ UNCHANGED <<Graph, pc, queue, seen, issues>>

----------------------------------------------------------------------------
(***************************************************************************)
(* The rules.                                                              *)
(***************************************************************************)
Issue(severity, code, n) == [severity |-> severity, code |-> code, node |-> n]
When(condition, issue) == IF condition THEN {issue} ELSE {}
Incoming(n) == Cardinality({e \in UNION {{<<m, k>> : k \in DOMAIN out[m]} : m \in Nodes} : out[e[1]][e[2]] = n})
MakesProgress(n) == kind[n] \in Tasks \cup {"wait"}
IsCatchTarget(n) == kind[n] \in {"wait", "receive"}

CheckTriggers ==
  LET triggers == {n \in Nodes : kind[n] = "trigger"}
  IN When(triggers = {}, Issue("error", "no-trigger", None)) \cup When(Cardinality(triggers) > 1, Issue("warning", "multiple-triggers", None))

CheckReachability == {Issue("warning", "unreachable", n) : n \in {n \in Nodes \ seen : kind[n] # "trigger"}}

CheckGateways == {Issue("warning", "degenerate-gateway", n) :
                    n \in {n \in Nodes : kind[n] = "parallel" /\ Len(out[n]) < 2 /\ Incoming(n) < 2}}

CheckBoundaryEvents ==
  UNION {When(host[n] = None, Issue("error", "boundary-unattached", n))
           \cup When(host[n] # None /\ host[n] \notin Nodes, Issue("error", "boundary-bad-attach", n))
           \cup When(host[n] \in Nodes /\ kind[host[n]] \notin Tasks, Issue("warning", "boundary-nonactivity", n)) :
         n \in {n \in Nodes : kind[n] = "boundary"}}

CheckAgentTasks == {Issue("error", "agent-task-no-escalation", n) : n \in {n \in Nodes : kind[n] = "agent" /\ BoundaryMap(n) = <<>>}}

CheckEventGateways ==
  {Issue("error", "event-gateway-target", n) :
     n \in {n \in Nodes : kind[n] = "event_based" /\ \E t \in Range(out[n]) : ~IsCatchTarget(t)}}

Loop(c) == Cardinality(c) > 1 \/ \E n \in c : n \in Range(out[n])

CheckLoops ==
  {Issue("warning", "loop-no-progress", Min(c)) : c \in {c \in sccs : Loop(c) /\ \A n \in c : ~MakesProgress(n)}}

CheckEnd == When(\A n \in Nodes : kind[n] # "end", Issue("warning", "no-end-event", None))

Report ==
  /\ pc = "done" /\ pc' = "reported" /\ UNCHANGED <<Graph, queue, seen, index, low, onstack, stack, work, sccs>>
  /\ issues' = UNION {CheckTriggers, CheckReachability, CheckGateways, CheckBoundaryEvents, CheckAgentTasks,
                      CheckEventGateways, CheckLoops, CheckEnd}

Next == Visit \/ NextRoot \/ Descend \/ Ascend \/ Report

Spec == Init /\ [][Next]_vars

----------------------------------------------------------------------------
\* Reference: the nodes reached from a set, along edges in S and boundaries.
RECURSIVE Closure(_, _)
Closure(S, succ) ==
  LET more == S \cup UNION {succ[n] : n \in S} IN IF more = S THEN S ELSE Closure(more, succ)

Edges(S) == [n \in Nodes |-> IF n \in S THEN Range(out[n]) \cap S ELSE {}]
Beyond(n, S) == Closure(Edges(S)[n], Edges(S))
Checked == pc = "reported"

TypeOK == /\ pc \in {"reach", "scc", "done", "reported"} /\ onstack = Range(stack) /\ Len(work) <= Cardinality(Nodes)
          /\ \A n \in Nodes : low[n] <= index[n]

\* A node is called unreachable exactly when no path of edges and boundary
\* attachments leads to it from a start event.
ReachIsExact ==
  Checked =>
    LET succ == [n \in Nodes |-> Range(out[n]) \cup Range(BoundaryMap(n))]
        starts == {n \in Nodes : kind[n] = "trigger"}
    IN {i.node : i \in {i \in issues : i.code = "unreachable"}} = Nodes \ Closure(starts, succ)

\* The components are the classes of nodes that reach each other.
ComponentsExact ==
  Checked => sccs = {{m \in Nodes : m = n \/ (m \in Beyond(n, Nodes) /\ n \in Beyond(m, Nodes))} : n \in Nodes}

\* A graph in which no loop can be left for a task or a wait is warned about,
\* and a warning names a node that spins.
IdleLoopsWarned ==
  Checked =>
    LET idle == {n \in Nodes : ~MakesProgress(n)}
        warned == {i.node : i \in {i \in issues : i.code = "loop-no-progress"}}
    IN /\ \A n \in warned : n \in Beyond(n, idle)
       /\ \A n \in idle : n \in Beyond(n, idle) /\ Beyond(n, Nodes) \subseteq idle => warned \cap Beyond(n, Nodes) # {}

\* "a loop with no task/wait node can spin without progress - warn on those".
SpinsWarned ==
  Checked =>
    LET idle == {n \in Nodes : ~MakesProgress(n)}
    IN \A n \in idle : n \in Beyond(n, idle) => \E i \in issues : i.code = "loop-no-progress" /\ i.node \in Beyond(n, idle)
=============================================================================
