---------------------------- MODULE Delegation ----------------------------
(***************************************************************************)
(* The coordination tools of agents on one work order, along the chart of  *)
(* supervisors: delegate_task, escalate, consult_peer and ask_human, each  *)
(* behind the authority decision and the check of the API key that started *)
(* the first run.  A tool call is one action; a run that parks or ends is  *)
(* not running any more.  How a question is answered is in Questions.      *)
(***************************************************************************)
EXTENDS Naturals, Sequences, FiniteSets, TLAPS

CONSTANTS
  Agents, Nobody,
  Starters,     \* the agents an order may be assigned to
  Supervisor,   \* Supervisor[a]: an agent or Nobody; a chart drawn by hand may have cycles
  Kind,         \* Kind[a]: coordinator, advisory or operator
  Enabled,      \* the agents that are enabled
  Grants,       \* Grants[a]: the tools the grants of a name
  Actor,        \* the person the first run acts for
  NoActor,
  MAX_ESCALATION_HOPS,
  MAX_HUMAN_QUESTIONS_PER_RUN,
  MaxRuns,      \* bound: runs of the tree
  MaxActs       \* bound: effects on the business

VARIABLES
  tree,   \* the agent_runs rows of the order, in the order of their creation
  mode,   \* the mode of the work order
  loose,  \* the order has not been in plan mode all the time
  key,    \* the API key that started the first run, or "none"
  did     \* how many effects the runs have had

vars == <<tree, mode, loose, key, did>>

----------------------------------------------------------------------------
(***************************************************************************)
(* kind_gate and decide.                                                   *)
(***************************************************************************)
Allowed(kind) ==
  CASE kind = "coordinator" -> {"READ", "PLAN", "DELEGATE", "ESCALATE"}
    [] kind = "advisory" -> {"READ", "PLAN", "ESCALATE"}
    [] OTHER -> {"READ", "WRITE", "EXECUTE", "DELEGATE", "ESCALATE", "PLAN"}

\* The tools of the model: their category, and whether they leave the company.
Tools == {"create_record", "send_message"}
Coordination == {"delegate_task", "escalate", "consult_peer", "ask_human"}
Category(tool) ==
  CASE tool = "create_record" -> "WRITE" [] tool = "send_message" -> "EXECUTE"
    [] tool = "delegate_task" -> "DELEGATE" [] OTHER -> "ESCALATE"
SideEffecting(tool) == tool \in {"send_message", "delegate_task"}
RoleProvided == {"DELEGATE", "ESCALATE", "PLAN"}

Available(a, tool) == Category(tool) \in RoleProvided \/ tool \in Grants[a]

\* An approval is a person's decision and may be given, so ASK counts as allowed.
Denied(a, tool, posture) ==
  \/ Category(tool) \notin Allowed(Kind[a])
  \/ /\ posture = "plan"
     /\ Category(tool) \notin {"READ", "PLAN", "DELEGATE", "ESCALATE"} \/ SideEffecting(tool)
  \/ ~Available(a, tool)

\* posture_for: fixed when the execution of a run starts.
PostureFor == mode

\* scoped_key_refusal: a tool that a run of a scoped key may use.
ScopedKeyTools == Coordination
Refused(i, tool) ==
  /\ tree[i].viaKey
  /\ key = "gone" \/ (key = "scoped" /\ tool \notin ScopedKeyTools)

----------------------------------------------------------------------------
Run == [agent : Agents, trigger : {"work_order", "delegation", "escalation", "consult"},
        parent : 0..MaxRuns, hops : Nat, climbed : Nat, actor : {Actor, NoActor}, viaKey : BOOLEAN,
        status : {"queued", "running", "waiting", "ended"}, posture : {"plan", "manual"},
        asked : Nat]

First(a, viaKey) ==
  [agent |-> a, trigger |-> "work_order", parent |-> 0, hops |-> 0, climbed |-> 0,
   actor |-> IF viaKey THEN NoActor ELSE Actor, viaKey |-> viaKey, status |-> "queued",
   posture |-> "plan", asked |-> 0]

\* create_run for a child: the actor and the key are inherited, the hops are
\* what the caller puts into the input.  climbed counts the escalations above.
Child(i, a, trigger, hops) ==
  [agent |-> a, trigger |-> trigger, parent |-> i, hops |-> hops,
   climbed |-> tree[i].climbed + (IF trigger = "escalation" THEN 1 ELSE 0),
   actor |-> tree[i].actor, viaKey |-> tree[i].viaKey, status |-> "queued",
   posture |-> "plan", asked |-> 0]

Init ==
  /\ \E a \in Starters, k \in {"none", "org", "scoped"} :
       /\ key = k
       /\ tree = <<First(a, k # "none")>>
  /\ mode \in {"plan", "manual"} /\ loose = (mode # "plan")
  /\ did = 0

Room == Len(tree) < MaxRuns
Ids == 1..Len(tree)
Running(i) == tree[i].status = "running"

\* The executor starts a run, unless its key is gone.
Start(i) ==
  /\ tree[i].status = "queued"
  /\ tree' = [tree EXCEPT ![i].status = IF tree[i].viaKey /\ key = "gone" THEN "ended" ELSE "running",
                          ![i].posture = PostureFor]
  /\ UNCHANGED <<mode, loose, key, did>>

\* Mutant: the key is checked when the run starts, and not again.
PermittedAtStart(i, tool) == Running(i) /\ ~Denied(tree[i].agent, tool, tree[i].posture)

\* _run_tool re-checks the key on every call.
Permitted(i, tool) ==
  /\ Running(i)
  /\ ~Denied(tree[i].agent, tool, tree[i].posture)
  /\ ~Refused(i, tool)

\* delegate: a direct report; the child's input holds the task only.
Delegate(i, b) ==
  /\ Permitted(i, "delegate_task") /\ Room
  /\ Supervisor[b] = tree[i].agent
  /\ tree' = Append(tree, Child(i, b, "delegation", 0))
  /\ UNCHANGED <<mode, loose, key, did>>

\* Mutant: the hops are not counted.
AnyHandler(i) ==
  LET s == Supervisor[tree[i].agent] IN IF s \in Enabled THEN s ELSE Nobody

\* _escalate: the supervisor, if there is one that is enabled and the hops are
\* not used up; a person is notified otherwise.
Handler(i) ==
  LET s == Supervisor[tree[i].agent]
  IN IF s \in Enabled /\ tree[i].hops < MAX_ESCALATION_HOPS THEN s ELSE Nobody

Escalate(i) ==
  /\ Permitted(i, "escalate") /\ Room
  /\ Handler(i) # Nobody
  /\ tree' = Append(tree, Child(i, Handler(i), "escalation", tree[i].hops + 1))
  /\ UNCHANGED <<mode, loose, key, did>>

\* _consult_peer: an enabled advisory agent, never from inside a consult; the
\* caller parks.
Consultable(i, b) ==
  b # tree[i].agent /\ Kind[b] = "advisory" /\ b \in Enabled /\ tree[i].trigger # "consult"

Consult(i, b) ==
  /\ Permitted(i, "consult_peer") /\ Room
  /\ Consultable(i, b)
  /\ tree' = Append([tree EXCEPT ![i].status = "waiting"], Child(i, b, "consult", 0))
  /\ UNCHANGED <<mode, loose, key, did>>

\* ask_human: the budget of questions of a run; the caller parks.
AskHuman(i) ==
  /\ Permitted(i, "ask_human")
  /\ tree[i].asked < MAX_HUMAN_QUESTIONS_PER_RUN
  /\ tree' = [tree EXCEPT ![i].status = "waiting", ![i].asked = @ + 1]
  /\ UNCHANGED <<mode, loose, key, did>>

\* A tool that acts on the business.
Act(i, tool) ==
  /\ Permitted(i, tool) /\ did < MaxActs
  /\ did' = did + 1
  /\ UNCHANGED <<tree, mode, loose, key>>

\* An answer, from outside or from the end of the consult, resumes a run: it is
\* queued and starts again with the posture of that moment.
Resume(i) ==
  /\ tree[i].status = "waiting"
  /\ tree' = [tree EXCEPT ![i].status = "queued"]
  /\ UNCHANGED <<mode, loose, key, did>>

\* The loop ends, or a call finds the key gone and ends the run.
End(i) ==
  /\ Running(i)
  /\ tree' = [tree EXCEPT ![i].status = "ended"]
  /\ UNCHANGED <<mode, loose, key, did>>

\* set_mode, by a person or by an approved plan; a run that is going keeps its posture.
SetMode(m) ==
  /\ mode' = m /\ m # mode
  /\ loose' = (loose \/ m # "plan")
  /\ UNCHANGED <<tree, key, did>>

RevokeKey == key \in {"org", "scoped"} /\ key' = "gone" /\ UNCHANGED <<tree, mode, loose, did>>

Next ==
  \/ \E i \in Ids :
       \/ Start(i) \/ Escalate(i) \/ AskHuman(i) \/ Resume(i) \/ End(i)
       \/ \E b \in Agents : Delegate(i, b) \/ Consult(i, b)
       \/ \E tool \in Tools : Act(i, tool)
  \/ \E m \in {"plan", "manual"} : SetMode(m)
  \/ RevokeKey

Spec == Init /\ [][Next]_vars

----------------------------------------------------------------------------
TypeOK ==
  /\ \A i \in Ids : tree[i] \in Run
  /\ Len(tree) <= MaxRuns /\ mode \in {"plan", "manual"} /\ key \in {"none", "org", "scoped", "gone"}
  /\ loose \in BOOLEAN /\ did \in 0..MaxActs

\* Runs that were started or escalated to, with all the runs above them.
Climb(S) ==
  \A j \in S : /\ tree[j].trigger \in {"work_order", "escalation"}
               /\ tree[j].parent = 0 \/ tree[j].parent \in S

\* Whatever was handed down, up or across, every run of the order reads with
\* the entitlement of the one who started it, never wider.
ReadsAsStarter ==
  \A i \in Ids : tree[i].actor = tree[1].actor /\ tree[i].viaKey = tree[1].viaKey

\* Consults never nest: no consult was asked for by a consult, however many
\* runs lie between a consult and its asker.
ConsultsEnd == \A i \in Ids : tree[i].trigger = "consult" => tree[tree[i].parent].trigger # "consult"

\* A chain of escalations ends at a person, even where the chart has a cycle.
ClimbEnds ==
  \A S \in SUBSET Ids : Climb(S) => \A i \in S : tree[i].climbed <= MAX_ESCALATION_HOPS

\* As long as the order has only been in plan mode, nothing that any of its
\* runs reaches has acted; and nothing acts for a key that is gone.
PlanChangesNothing == ~loose => did = 0
KeyStops == key = "gone" => did' = did
GoneKeyStops == [][KeyStops]_vars

\* What an order and its runs never lose, whatever is delegated.
AuthorityHolds == ReadsAsStarter /\ ConsultsEnd /\ ClimbEnds /\ PlanChangesNothing

\* "The count survives however the chain is shaped" (MAX_ESCALATION_HOPS).
HopsSurvive == \A i \in Ids : tree[i].climbed <= MAX_ESCALATION_HOPS

----------------------------------------------------------------------------
(***************************************************************************)
(* Proofs.  The chart is drawn by hand: nothing is assumed of Supervisor.  *)
(***************************************************************************)
Limits ==
  /\ Starters \subseteq Agents /\ Enabled \subseteq Agents
  /\ MaxRuns \in Nat \ {0} /\ MaxActs \in Nat /\ MAX_ESCALATION_HOPS \in Nat

Types ==
  /\ tree \in Seq(Run) /\ Len(tree) \in 1 .. MaxRuns
  /\ mode \in {"plan", "manual"} /\ key \in {"none", "org", "scoped", "gone"}
  /\ loose \in BOOLEAN /\ did \in 0 .. MaxActs

\* A run is made after its parent, and only the first has none.
ParentsFirst ==
  \A i \in Ids : tree[i].parent < i /\ (tree[i].trigger # "work_order" => tree[i].parent # 0)

\* The hops count what was climbed, as long as nothing but escalations lies
\* between, and stay within the limit.
HopsCount ==
  /\ \A i \in Ids : tree[i].hops <= MAX_ESCALATION_HOPS
  /\ \A S \in SUBSET Ids : Climb(S) => \A i \in S : tree[i].climbed = tree[i].hops

\* The order was in plan mode all the time, and so was every run of it.
PlanOnly == ~loose => mode = "plan" /\ did = 0 /\ \A i \in Ids : tree[i].posture = "plan"

\* A key has started the first run, or none has.
KeyKnown == tree[1].viaKey = (key # "none")

DInv == Types /\ ParentsFirst /\ ReadsAsStarter /\ ConsultsEnd /\ HopsCount /\ PlanOnly /\ KeyKnown

\* What no later step changes in a row.
SameRun(r, s) ==
  /\ s.agent = r.agent /\ s.trigger = r.trigger /\ s.parent = r.parent /\ s.hops = r.hops
  /\ s.climbed = r.climbed /\ s.actor = r.actor /\ s.viaKey = r.viaKey

\* What a row made by run i has from it.
MadeBy(i, r) ==
  /\ r.parent = i /\ r.actor = tree[i].actor /\ r.viaKey = tree[i].viaKey /\ r.posture = "plan"
  /\ \/ r.trigger = "delegation" /\ r.hops = 0
     \/ r.trigger = "consult" /\ r.hops = 0 /\ tree[i].trigger # "consult"
     \/ /\ r.trigger = "escalation" /\ r.hops = tree[i].hops + 1
        /\ r.hops <= MAX_ESCALATION_HOPS /\ r.climbed = tree[i].climbed + 1

\* What a step does to the tree: rows keep what they were made with, and at
\* most one is added, by a run of the tree.
TreeStep ==
  /\ tree' \in Seq(Run) /\ Len(tree') \in 1 .. MaxRuns
  /\ \A j \in Ids : j \in 1 .. Len(tree') /\ SameRun(tree[j], tree'[j])
  /\ \/ Len(tree') = Len(tree)
     \/ Len(tree') = Len(tree) + 1 /\ \E i \in Ids : MadeBy(i, tree'[Len(tree')])

\* A change of status, posture or questions keeps a row a row.
LEMMA RowChange ==
  ASSUME Types, NEW i \in Ids, NEW r \in Run, SameRun(tree[i], r), tree' = [tree EXCEPT ![i] = r]
  PROVE  TreeStep
<1>1. tree' \in Seq(Run) /\ Len(tree') = Len(tree) /\ \A j \in Ids : tree'[j] = IF j = i THEN r ELSE tree[j]
  BY DEF Types, Ids
<1>2. QED
  BY <1>1 DEF TreeStep, Types, Ids, SameRun

\* A row that is appended, after a change of another.
LEMMA RowAdded ==
  ASSUME Limits, Types, Room, NEW i \in Ids, NEW t \in Seq(Run), NEW r \in Run, MadeBy(i, r),
         Len(t) = Len(tree), \A j \in Ids : SameRun(tree[j], t[j]), tree' = Append(t, r)
  PROVE  TreeStep
<1>1. /\ tree' \in Seq(Run) /\ Len(tree') = Len(tree) + 1 /\ tree'[Len(tree')] = r
      /\ \A j \in Ids : tree'[j] = t[j]
  BY DEF Types, Ids
<1>2. QED
  BY <1>1 DEF TreeStep, Types, Ids, Room, Limits

\* create_run yields a row of the table.
LEMMA ChildType ==
  ASSUME Limits, Types, NEW i \in Ids, NEW a \in Agents, NEW h \in Nat,
         NEW trigger \in {"delegation", "escalation", "consult"}
  PROVE  /\ Child(i, a, trigger, h) \in Run
         /\ Child(i, a, trigger, h).parent = i
         /\ Child(i, a, trigger, h).trigger = trigger
         /\ Child(i, a, trigger, h).hops = h
         /\ Child(i, a, trigger, h).actor = tree[i].actor
         /\ Child(i, a, trigger, h).viaKey = tree[i].viaKey
         /\ Child(i, a, trigger, h).posture = "plan"
         /\ trigger = "escalation" => Child(i, a, trigger, h).climbed = tree[i].climbed + 1
<1>1. tree[i] \in Run /\ i \in 0 .. MaxRuns
  BY DEF Types, Ids, Limits
<1>2. tree[i].climbed \in Nat /\ tree[i].actor \in {Actor, NoActor} /\ tree[i].viaKey \in BOOLEAN
  BY <1>1 DEF Run
<1>3. QED
  BY <1>1, <1>2 DEF Child, Run

\* Every action changes the tree as TreeStep says, or not at all.
LEMMA TreeSteps ==
  ASSUME Limits, Types, Next
  PROVE  TreeStep \/ tree' = tree
<1>1. ASSUME NEW i \in Ids, Start(i) PROVE TreeStep
  <2> DEFINE r == [tree[i] EXCEPT !.status = IF tree[i].viaKey /\ key = "gone" THEN "ended" ELSE "running",
                                  !.posture = PostureFor]
  <2>1. tree[i] \in Run
    BY DEF Types, Ids
  <2>2. r \in Run /\ SameRun(tree[i], r)
    BY <2>1 DEF Run, SameRun, PostureFor, Types
  <2>3. tree' = [tree EXCEPT ![i] = r]
    BY <1>1 DEF Start
  <2>4. QED
    BY <2>2, <2>3, RowChange
<1>2. ASSUME NEW i \in Ids, AskHuman(i) PROVE TreeStep
  <2> DEFINE r == [tree[i] EXCEPT !.status = "waiting", !.asked = @ + 1]
  <2>1. tree[i] \in Run
    BY DEF Types, Ids
  <2>2. tree[i].asked + 1 \in Nat
    BY <2>1 DEF Run
  <2>a. r \in Run /\ SameRun(tree[i], r)
    BY <2>1, <2>2 DEF Run, SameRun
  <2>3. tree' = [tree EXCEPT ![i] = r]
    BY <1>2 DEF AskHuman
  <2>4. QED
    BY <2>a, <2>3, RowChange
<1>3. ASSUME NEW i \in Ids, NEW s \in {"queued", "ended", "waiting"}
      PROVE  [tree[i] EXCEPT !.status = s] \in Run /\ SameRun(tree[i], [tree[i] EXCEPT !.status = s])
  <2>1. tree[i] \in Run
    BY DEF Types, Ids
  <2>2. QED
    BY <2>1 DEF Run, SameRun
<1>4. ASSUME NEW i \in Ids, Resume(i) \/ End(i) PROVE TreeStep
  <2>1. PICK s \in {"queued", "ended", "waiting"} : tree' = [tree EXCEPT ![i] = [tree[i] EXCEPT !.status = s]]
    BY <1>4 DEF Resume, End
  <2>2. QED
    BY <2>1, <1>3, RowChange
<1>5. ASSUME NEW i \in Ids, NEW b \in Agents, Delegate(i, b) PROVE TreeStep
  <2> DEFINE r == Child(i, b, "delegation", 0)
  <2>1. r \in Run /\ MadeBy(i, r)
    BY ChildType DEF MadeBy
  <2>2. tree \in Seq(Run) /\ \A j \in Ids : SameRun(tree[j], tree[j])
    BY DEF Types, SameRun
  <2>3. tree' = Append(tree, r) /\ Room
    BY <1>5 DEF Delegate
  <2>4. QED
    BY <2>1, <2>2, <2>3, RowAdded
<1>6. ASSUME NEW i \in Ids, Escalate(i) PROVE TreeStep
  <2> DEFINE h == tree[i].hops + 1
             r == Child(i, Handler(i), "escalation", h)
  <2>1. tree[i] \in Run
    BY DEF Types, Ids
  <2>2. Handler(i) \in Agents /\ tree[i].hops < MAX_ESCALATION_HOPS
    BY <1>6 DEF Escalate, Handler, Limits
  <2>3. h \in Nat /\ h <= MAX_ESCALATION_HOPS
    BY <2>1, <2>2 DEF Run, Limits
  <2>4. r \in Run /\ MadeBy(i, r)
    BY <2>2, <2>3, ChildType DEF MadeBy
  <2>5. tree \in Seq(Run) /\ \A j \in Ids : SameRun(tree[j], tree[j])
    BY DEF Types, SameRun
  <2>6. tree' = Append(tree, r) /\ Room
    BY <1>6 DEF Escalate
  <2>7. QED
    BY <2>4, <2>5, <2>6, RowAdded
<1>7. ASSUME NEW i \in Ids, NEW b \in Agents, Consult(i, b) PROVE TreeStep
  <2> DEFINE r == Child(i, b, "consult", 0)
             w == [tree[i] EXCEPT !.status = "waiting"]
             t == [tree EXCEPT ![i] = w]
  <2>1. tree[i].trigger # "consult"
    BY <1>7 DEF Consult, Consultable
  <2>2. r \in Run /\ MadeBy(i, r)
    BY <2>1, ChildType DEF MadeBy
  <2>a. w \in Run /\ SameRun(tree[i], w)
    BY <1>3
  <2>5. tree' = Append(t, r) /\ Room
    BY <1>7 DEF Consult
  <2> HIDE DEF w
  <2>3. t \in Seq(Run) /\ Len(t) = Len(tree)
    BY <2>a DEF Types, Ids
  <2>4. \A j \in Ids : SameRun(tree[j], t[j])
    BY <2>a DEF Types, Ids, SameRun
  <2>6. QED
    BY <2>2, <2>3, <2>4, <2>5, RowAdded
<1>8. QED
  BY <1>1, <1>2, <1>4, <1>5, <1>6, <1>7 DEF Next, Act, SetMode, RevokeKey

\* The parts of the invariant that are about how the tree was made.
LEMMA TreeKept ==
  ASSUME Limits, DInv, TreeStep
  PROVE  ParentsFirst' /\ ReadsAsStarter' /\ ConsultsEnd' /\ HopsCount' /\ tree'[1].viaKey = tree[1].viaKey
<1> DEFINE n == Len(tree) + 1
<1>1. /\ Len(tree) \in Nat /\ Len(tree) >= 1 /\ Len(tree') \in Nat /\ 1 \in Ids
      /\ Ids = 1 .. Len(tree) /\ Ids' = 1 .. Len(tree')
      /\ tree \in Seq(Run) /\ tree' \in Seq(Run)
  BY DEF DInv, Types, TreeStep, Ids, Limits
<1>2. \A j \in Ids : j \in Ids' /\ SameRun(tree[j], tree'[j])
  BY <1>1 DEF TreeStep
<1>3. \A j \in Ids' : j \in Ids \/ (j = n /\ \E i \in Ids : MadeBy(i, tree'[n]))
  <2>1. CASE Len(tree') = Len(tree)
    BY <2>1, <1>1
  <2>2. CASE Len(tree') = n /\ \E i \in Ids : MadeBy(i, tree'[n])
    BY <2>2, <1>1
  <2>3. QED
    BY <2>1, <2>2 DEF TreeStep
<1>4. \A j \in Ids : tree[j].parent \in Nat
  <2>1. \A j \in Ids : tree[j] \in Run
    BY <1>1
  <2>2. QED
    BY <2>1 DEF Run, Limits
<1>a. n \in Nat /\ n \notin Ids /\ \A j \in Ids : j < n /\ j # 0 /\ j \in Nat
  BY <1>1
<1> HIDE DEF n
<1>5. ASSUME NEW j \in Ids'
      PROVE  tree'[j].parent < j /\ (tree'[j].trigger # "work_order" => tree'[j].parent # 0)
  <2>1. CASE j \in Ids
    BY <2>1, <1>2 DEF DInv, ParentsFirst, SameRun
  <2>2. CASE j = n /\ \E i \in Ids : MadeBy(i, tree'[n])
    BY <2>2, <1>a DEF MadeBy
  <2>3. QED
    BY <2>1, <2>2, <1>3
<1>b. ParentsFirst'
  BY <1>5 DEF ParentsFirst
<1>6. ASSUME NEW j \in Ids'
      PROVE  tree'[j].actor = tree'[1].actor /\ tree'[j].viaKey = tree'[1].viaKey
  <2>1. CASE j \in Ids
    BY <2>1, <1>1, <1>2 DEF DInv, ReadsAsStarter, SameRun
  <2>2. CASE j = n /\ \E i \in Ids : MadeBy(i, tree'[n])
    BY <2>2, <1>1, <1>2 DEF DInv, ReadsAsStarter, SameRun, MadeBy
  <2>3. QED
    BY <2>1, <2>2, <1>3
<1>c. ReadsAsStarter'
  BY <1>6 DEF ReadsAsStarter
<1>7. ConsultsEnd'
  <2> SUFFICES ASSUME NEW j \in Ids', tree'[j].trigger = "consult"
               PROVE  tree'[tree'[j].parent].trigger # "consult"
    BY DEF ConsultsEnd
  <2>1. CASE j \in Ids
    <3>1. tree[j].trigger = "consult" /\ tree'[j].parent = tree[j].parent
      BY <2>1, <1>2 DEF SameRun
    <3>2. tree[j].parent \in Ids /\ tree[tree[j].parent].trigger # "consult"
      BY <2>1, <3>1, <1>1, <1>4 DEF DInv, ParentsFirst, ConsultsEnd
    <3>3. QED
      BY <3>1, <3>2, <1>2 DEF SameRun
  <2>2. CASE j = n /\ \E i \in Ids : MadeBy(i, tree'[n])
    BY <2>2, <1>2 DEF MadeBy, SameRun
  <2>3. QED
    BY <2>1, <2>2, <1>3
<1>8. \A j \in Ids' : tree'[j].hops <= MAX_ESCALATION_HOPS
  BY <1>2, <1>3 DEF DInv, HopsCount, SameRun, MadeBy, Limits
<1>9. ASSUME NEW S \in SUBSET Ids', Climb(S)', NEW i \in S
      PROVE  tree'[i].climbed = tree'[i].hops
  <2> DEFINE T == S \cap Ids
  <2>0. \A j \in S : /\ tree'[j].trigger \in {"work_order", "escalation"}
                     /\ tree'[j].parent = 0 \/ tree'[j].parent \in S
    BY <1>9 DEF Climb
  <2>1. ASSUME NEW j \in T PROVE tree'[j].parent \in T \/ tree'[j].parent = 0
    <3>1. tree'[j].parent = tree[j].parent /\ tree[j].parent < j /\ tree[j].parent \in Nat
      BY <1>2, <1>4 DEF SameRun, DInv, ParentsFirst
    <3>2. tree[j].parent # 0 => tree[j].parent \in Ids
      BY <3>1, <1>1
    <3>3. QED
      BY <3>1, <3>2, <2>0
  <2>2. Climb(T)
    BY <2>0, <2>1, <1>2 DEF Climb, SameRun
  <2>3. \A j \in T : tree[j].climbed = tree[j].hops
    BY <2>2 DEF DInv, HopsCount
  <2>4. CASE i \in Ids
    BY <2>3, <2>4, <1>2 DEF SameRun
  <2>5. ASSUME i = n, NEW k \in Ids, MadeBy(k, tree'[n])
        PROVE  tree'[i].climbed = tree'[i].hops
    <3>1. tree'[n].trigger = "escalation" /\ tree'[n].parent = k
      BY <2>5, <2>0 DEF MadeBy
    <3>2. k # 0 /\ k \in S
      BY <3>1, <2>5, <2>0, <1>a
    <3>3. QED
      BY <3>1, <3>2, <2>3, <2>5 DEF MadeBy
  <2>6. QED
    BY <2>4, <2>5, <1>3
<1>10. HopsCount'
  BY <1>8, <1>9 DEF HopsCount
<1>11. QED
  BY <1>1, <1>2, <1>b, <1>c, <1>7, <1>10 DEF SameRun

\* What the steps do besides: an effect needs a posture that allows it, and a
\* run starts with the posture of its order.
LEMMA PlanKept ==
  ASSUME Limits, DInv, Next, TreeStep \/ tree' = tree
  PROVE  PlanOnly' /\ loose' \in BOOLEAN /\ mode' \in {"plan", "manual"} /\ did' \in 0 .. MaxActs
<1> USE DEF DInv, Types
<1>1. ASSUME NEW i \in Ids, NEW tool \in Tools, Act(i, tool)
      PROVE  loose /\ did' \in 0 .. MaxActs /\ UNCHANGED <<tree, mode, loose>>
  <2>1. tree[i].posture = "plan" => Denied(tree[i].agent, tool, tree[i].posture)
    BY DEF Denied, Category, Tools
  <2>2. tree[i].posture # "plan"
    BY <2>1, <1>1 DEF Act, Permitted
  <2>3. loose
    BY <2>2 DEF PlanOnly
  <2>4. QED
    BY <2>3, <1>1 DEF Act, Limits
<1>2. CASE \E i \in Ids, tool \in Tools : Act(i, tool)
  BY <1>1, <1>2 DEF PlanOnly
<1>3. CASE (\E m \in {"plan", "manual"} : SetMode(m)) \/ RevokeKey
  BY <1>3 DEF SetMode, RevokeKey, PlanOnly, Ids
<1>4. ASSUME UNCHANGED <<mode, loose, did>>, TreeStep,
             \A j \in Ids : tree'[j].posture = tree[j].posture \/ tree'[j].posture = mode
      PROVE  PlanOnly'
  <2>1. ASSUME ~loose, NEW j \in Ids' PROVE tree'[j].posture = "plan"
    <3>1. CASE j \in Ids
      BY <3>1, <2>1, <1>4 DEF PlanOnly
    <3>2. CASE j \notin Ids
      <4>1. \E i \in Ids : MadeBy(i, tree'[j])
        BY <3>2, <2>1, <1>4 DEF TreeStep, Ids
      <4>2. QED
        BY <4>1 DEF MadeBy
    <3>3. QED
      BY <3>1, <3>2
  <2>2. QED
    BY <2>1, <1>4 DEF PlanOnly
<1>5. ASSUME NEW i \in Ids,
             \/ Start(i) \/ Escalate(i) \/ AskHuman(i) \/ Resume(i) \/ End(i)
             \/ \E b \in Agents : Delegate(i, b) \/ Consult(i, b)
      PROVE  /\ UNCHANGED <<mode, loose, did>>
             /\ tree' # tree => \A j \in Ids : tree'[j].posture = tree[j].posture \/ tree'[j].posture = mode
  <2>1. tree \in Seq(Run) /\ \A j \in Ids : tree[j] \in Run /\ j \in DOMAIN tree
    BY DEF Ids
  <2>2. CASE Start(i)
    BY <2>1, <2>2 DEF Start, Run, PostureFor
  <2>3. CASE AskHuman(i) \/ Resume(i) \/ End(i)
    BY <2>1, <2>3 DEF AskHuman, Resume, End, Run
  <2>4. CASE Escalate(i) \/ \E b \in Agents : Delegate(i, b)
    BY <2>1, <2>4 DEF Escalate, Delegate, Ids
  <2>5. ASSUME NEW b \in Agents, Consult(i, b)
        PROVE  UNCHANGED <<mode, loose, did>> /\ \A j \in Ids : tree'[j].posture = tree[j].posture
    <3> DEFINE w == [tree[i] EXCEPT !.status = "waiting"]
    <3>1. w.posture = tree[i].posture
      BY <2>1 DEF Run
    <3>2. tree' = Append([tree EXCEPT ![i] = w], Child(i, b, "consult", 0)) /\ UNCHANGED <<mode, loose, did>>
      BY <2>5 DEF Consult
    <3> HIDE DEF w
    <3>3. QED
      BY <3>1, <3>2, <2>1 DEF Ids
  <2>6. QED
    BY <2>2, <2>3, <2>4, <2>5, <1>5
<1>6. QED
  <2>1. CASE \E i \in Ids : \/ Start(i) \/ Escalate(i) \/ AskHuman(i) \/ Resume(i) \/ End(i)
                            \/ \E b \in Agents : Delegate(i, b) \/ Consult(i, b)
    <3>1. UNCHANGED <<mode, loose, did>>
      BY <2>1, <1>5
    <3>2. CASE tree' = tree
      BY <3>1, <3>2 DEF PlanOnly, Ids
    <3>3. CASE tree' # tree /\ TreeStep
      BY <3>1, <3>3, <2>1, <1>4, <1>5
    <3>4. QED
      BY <3>2, <3>3
  <2>2. QED
    BY <1>2, <1>3, <2>1 DEF Next

\* The invariant holds at the start and is kept by every step.
THEOREM TreeInvariant ==
  ASSUME Limits PROVE Spec => []DInv
<1>1. ASSUME Init PROVE DInv
  <2>1. PICK a \in Starters, k \in {"none", "org", "scoped"} :
          key = k /\ tree = <<First(a, k # "none")>>
    BY <1>1 DEF Init
  <2>2. First(a, k # "none") \in Run
    BY <1>1 DEF First, Run, Limits
  <2>3. /\ tree \in Seq(Run) /\ Len(tree) = 1 /\ Ids = {1} /\ tree[1] = First(a, k # "none")
    BY <2>1, <2>2 DEF Ids
  <2>4. /\ tree[1].trigger = "work_order" /\ tree[1].parent = 0 /\ tree[1].hops = 0 /\ tree[1].climbed = 0
        /\ tree[1].viaKey = (k # "none") /\ tree[1].posture = "plan"
    BY <2>3 DEF First
  <2>5. Types
    BY <1>1, <2>1, <2>3 DEF Types, Limits, Init
  <2>6. ParentsFirst /\ ReadsAsStarter /\ ConsultsEnd /\ KeyKnown
    BY <2>1, <2>3, <2>4 DEF ParentsFirst, ReadsAsStarter, ConsultsEnd, KeyKnown
  <2>7. HopsCount
    BY <1>1, <2>3, <2>4 DEF HopsCount, Limits
  <2>8. PlanOnly
    BY <1>1, <2>3, <2>4 DEF PlanOnly, Init
  <2>9. QED
    BY <2>5, <2>6, <2>7, <2>8 DEF DInv
<1>2. ASSUME DInv, [Next]_vars PROVE DInv'
  <2>1. CASE UNCHANGED vars
    BY <2>1, <1>2 DEF vars, DInv, Types, ParentsFirst, ReadsAsStarter, ConsultsEnd, HopsCount, Climb,
                 PlanOnly, KeyKnown, Ids
  <2>2. CASE Next
    <3>1. TreeStep \/ tree' = tree
      BY <1>2, <2>2, TreeSteps DEF DInv
    <3>2. PlanOnly' /\ loose' \in BOOLEAN /\ mode' \in {"plan", "manual"} /\ did' \in 0 .. MaxActs
      BY <1>2, <2>2, <3>1, PlanKept
    <3>3. ParentsFirst' /\ ReadsAsStarter' /\ ConsultsEnd' /\ HopsCount' /\ tree'[1].viaKey = tree[1].viaKey
      <4>1. CASE TreeStep
        BY <1>2, <4>1, TreeKept
      <4>2. CASE tree' = tree
        BY <1>2, <4>2 DEF DInv, ParentsFirst, ReadsAsStarter, ConsultsEnd, HopsCount, Climb, Ids
      <4>3. QED
        BY <3>1, <4>1, <4>2
    <3>4. key' \in {"none", "org", "scoped", "gone"} /\ (key' # "none") = (key # "none")
      BY <1>2, <2>2 DEF Next, Start, Escalate, AskHuman, Resume, End, Delegate, Consult, Act, SetMode, RevokeKey,
                   DInv, Types
    <3>5. Types'
      BY <1>2, <3>1, <3>2, <3>4 DEF DInv, Types, TreeStep
    <3>6. KeyKnown'
      BY <1>2, <3>3, <3>4 DEF DInv, KeyKnown
    <3>7. QED
      BY <3>2, <3>3, <3>5, <3>6 DEF DInv
  <2>3. QED
    BY <1>2, <2>1, <2>2
<1>3. QED
  BY <1>1, <1>2, PTL DEF Spec

\* Whatever agents hand down, up or across, and whatever chart people draw:
\* every run reads as the one who started the order (create_run), no consult
\* asks for a consult (_consult_peer), a chain of escalations ends within
\* MAX_ESCALATION_HOPS (_escalate), and an order that has only been in plan
\* mode has changed nothing (decide).
THEOREM AuthorityKept == ASSUME Limits PROVE Spec => []AuthorityHolds
<1>1. ASSUME DInv PROVE AuthorityHolds
  <2>1. ClimbEnds
    BY <1>1 DEF DInv, HopsCount, ClimbEnds
  <2>2. QED
    BY <1>1, <2>1 DEF DInv, PlanOnly, PlanChangesNothing, AuthorityHolds
<1>2. QED
  BY <1>1, TreeInvariant, PTL

\* Once the key that started an order is gone, no run of the order, however
\* far down the tree, has another effect (_run_tool checks on every call).
THEOREM NothingForGoneKey ==
  ASSUME Limits PROVE Spec => GoneKeyStops
<1>1. ASSUME DInv, [Next]_vars PROVE [KeyStops]_vars
  <2>1. ASSUME key = "gone", NEW i \in Ids, NEW tool \in Tools, Act(i, tool) PROVE FALSE
    <3>1. tree[i].viaKey
      BY <1>1, <2>1 DEF DInv, ReadsAsStarter, KeyKnown, Types, Ids
    <3>2. QED
      BY <2>1, <3>1 DEF Act, Permitted, Refused
  <2>2. CASE Next
    BY <2>1, <2>2 DEF Next, Start, Escalate, AskHuman, Resume, End, Delegate, Consult, SetMode, RevokeKey, KeyStops
  <2>3. QED
    BY <1>1, <2>2
<1>2. QED
  BY <1>1, TreeInvariant, PTL DEF Spec, GoneKeyStops
=============================================================================
