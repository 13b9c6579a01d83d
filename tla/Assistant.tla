----------------------------- MODULE Assistant -----------------------------
(***************************************************************************)
(* One turn of the configuration assistant: the model is asked, its tool   *)
(* calls are made one after the other, each in a transaction of its own,   *)
(* and the answers go back to the model, until it calls no tool or the     *)
(* budget of the turn is used up.                                          *)
(***************************************************************************)
EXTENDS Naturals, Sequences, FiniteSets, SequencesExt

CONSTANTS
  Tools,             \* the names a model may call; not all of them are tools
  Handlers,          \* the tools there are
  AdminOnly,         \* _ADMIN_ONLY_TOOLS
  UserContext,       \* _USER_CONTEXT_TOOLS
  MAX_ITERATIONS,
  MaxCalls           \* bound: calls in one answer of the model

VARIABLES
  who,       \* "admin", "member", or "none": no user context
  pc,        \* "ask", "call", "wrap", or "ended"
  rounds,    \* answers of the model so far
  calls,     \* calls of the last answer that are still to be made
  messages,  \* what the model is sent: [role, id]
  events,    \* what the client is sent
  wrote      \* the committed writes: [tool, by]

vars == <<who, pc, rounds, calls, messages, events, wrote>>

Init ==
  /\ who \in {"admin", "member", "none"} /\ pc = "ask" /\ rounds = 0 /\ calls = <<>>
  /\ messages = <<>> /\ events = <<>> /\ wrote = {}

Yield(e) == events' = Append(events, e)
Call(k, t) == [id |-> <<rounds, k>>, tool |-> t]

\* No key, a model that cannot be reached, any exception: one error, and the
\* end.
Broken ==
  /\ pc \in {"ask", "call"} /\ pc' = "ended" /\ Yield("error")
  /\ UNCHANGED <<who, rounds, calls, messages, wrote>>

\* An answer without tool calls ends the turn.
Answer ==
  /\ pc = "ask" /\ pc' = "ended" /\ events' = events \o <<"delta", "done">>
  /\ UNCHANGED <<who, rounds, calls, messages, wrote>>

AnswerWithCalls(tools) ==
  /\ pc = "ask" /\ pc' = "call" /\ rounds' = rounds + 1
  /\ calls' = [k \in DOMAIN tools |-> Call(k, tools[k])]
  /\ messages' = Append(messages, [role |-> "assistant", ids |-> {<<rounds, k>> : k \in DOMAIN tools}])
  /\ UNCHANGED <<who, events, wrote>>

\* _dispatch: without a user context _is_admin holds, so the first test comes
\* before the second.
Permitted(t) ==
  /\ t \in Handlers
  /\ ~(t \in UserContext /\ who = "none")
  /\ ~(t \in AdminOnly /\ who = "member")

\* A tool call: refused, failed and rolled back, or committed; answered in any
\* case.
ToolCall(ok) ==
  /\ pc = "call" /\ calls # <<>> /\ calls' = Tail(calls)
  /\ LET c == Head(calls)
     IN /\ wrote' = IF ok /\ Permitted(c.tool) THEN wrote \cup {[tool |-> c.tool, by |-> who]} ELSE wrote
        /\ events' = events \o <<"tool_call", "tool_result">>
        /\ messages' = Append(messages, [role |-> "tool", ids |-> {c.id}])
  /\ UNCHANGED <<who, pc, rounds>>

Round ==
  /\ pc = "call" /\ calls = <<>>
  /\ pc' = IF rounds < MAX_ITERATIONS THEN "ask" ELSE "wrap"
  /\ UNCHANGED <<who, rounds, calls, messages, events, wrote>>

\* The budget is used up: one more answer, without tools, or a fixed text.
WrapUp ==
  /\ pc = "wrap" /\ pc' = "ended" /\ events' = events \o <<"delta", "done">>
  /\ messages' = Append(messages, [role |-> "system", ids |-> {}])
  /\ UNCHANGED <<who, rounds, calls, wrote>>

Next ==
  \/ Broken \/ Answer \/ Round \/ WrapUp
  \/ \E n \in 1 .. MaxCalls : \E tools \in [1 .. n -> Tools] : AnswerWithCalls(tools)
  \/ \E ok \in BOOLEAN : ToolCall(ok)

Spec == Init /\ [][Next]_vars

----------------------------------------------------------------------------
Asked(from, to) == UNION {messages[i].ids : i \in {i \in from .. to : messages[i].role = "assistant"}}
Answered == {messages[i].ids : i \in {i \in DOMAIN messages : messages[i].role = "tool"}}

TypeOK ==
  /\ pc \in {"ask", "call", "wrap", "ended"} /\ rounds \in 0 .. MAX_ITERATIONS
  /\ Len(calls) <= MaxCalls /\ \A w \in wrote : w.tool \in Handlers

\* What the model is asked with is a conversation it accepts: every call it
\* made has been answered once, before it is asked again or wraps up.
EveryCallAnswered ==
  pc \in {"ask", "wrap"} =>
    /\ Asked(1, Len(messages)) = UNION Answered
    /\ \A i, j \in DOMAIN messages : messages[i] = messages[j] /\ messages[i].role = "tool" => i = j
    /\ \A i \in DOMAIN messages : messages[i].role = "tool" => messages[i].ids \subseteq Asked(1, i)

\* The client is sent the end of the turn once, and nothing after it; every
\* tool_call it was sent has its tool_result.
OneEnding ==
  LET ends == {i \in DOMAIN events : events[i] \in {"done", "error"}}
      count(e) == Cardinality({i \in DOMAIN events : events[i] = e})
  IN /\ ends = IF pc = "ended" THEN {Len(events)} ELSE {}
     /\ count("tool_call") = count("tool_result")

\* What needs an administrator is written by one, or, when it needs no user
\* either, without a user; what needs a user is written by one.
WritesPermitted ==
  \A w \in wrote : (w.tool \in AdminOnly => w.by # "member") /\ (w.tool \in UserContext => w.by # "none")
=============================================================================
