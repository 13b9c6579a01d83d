------------------------------ MODULE McpOAuth ------------------------------
(***************************************************************************)
(* The connection of an agent's runs to an MCP server that asks for OAuth: *)
(* authorization flows, their callbacks, tokens refreshed by runs that use *)
(* them, disconnects and changes of the server (services/agents/mcp/*.py,  *)
(* routers/mcp_servers.py).  The provider is external: a refresh token is  *)
(* honoured until it is replaced or its grant is revoked.                  *)
(***************************************************************************)
EXTENDS Naturals, FiniteSets

CONSTANTS
  Users, Runs,
  Org,          \* the shared install, and the actor of a run without a person
  MaxGrants,    \* tokens the provider ever issues
  MaxClients,   \* registrations of a client
  MaxFlows,
  MaxChanges    \* changes by administrators

VARIABLES
  server,   \* the row: [identity, client, enabled]
  slot,     \* holder -> the tokens kept for it: [row, token, refresh, due]
  flows,    \* authorizations that were started: [state, user, client]
  starting, \* starts that wait for the provider: what they read
  landing,  \* callbacks that have exchanged their code: [state, user, token, identity]
  run,      \* run -> what it does with the connection
  slot_lock,     \* holder -> the run whose turn has written its tokens
  issued, owner, live,        \* provider: tokens issued, for whom, and which still refresh
  clients, changes, started,
  lapped,   \* history: a disconnect, a flow or a refresh met another one of its holder
  lost,     \* history: a turn was rolled back after the provider had answered
  switched, \* history: identity or client changed while a flow was open
  gone      \* history: holders that disconnected and did not connect again

mcp_vars == <<server, slot, flows, starting, landing, run, slot_lock, issued, owner, live, clients, changes, started, lapped, lost, switched, gone>>
provider == <<issued, owner, live>>
history == <<lapped, lost, switched, gone>>

Holders == Users \cup {Org}
Slot(row, t, r, due) == [row |-> row, token |-> t, refresh |-> r, due |-> due]
Empty(h) == Slot(h = Org, 0, 0, FALSE)      \* the shared tokens are columns of the server's row
Does(pc, h, refresh, t, next) == [pc |-> pc, holder |-> h, refresh |-> refresh, token |-> t, next |-> next]
Idle == Does("idle", Org, 0, 0, 0)

McpInit ==
  /\ server \in [identity : {"org", "user"}, client : {0, 1}, enabled : {TRUE}] /\ clients = server.client
  /\ slot = [h \in Holders |-> Empty(h)] /\ flows = {} /\ starting = {} /\ landing = {} /\ run = [r \in Runs |-> Idle]
  /\ slot_lock = [h \in Holders |-> Org] /\ issued = 0 /\ owner = [t \in 1 .. MaxGrants |-> Org] /\ live = {} /\ changes = 0 /\ started = 0
  /\ lapped = FALSE /\ lost = FALSE /\ switched = FALSE /\ gone = {}

\* _slot: whose tokens these are.
Holder(identity, user) == IF identity = "user" THEN user ELSE Org
Open == flows # {} \/ landing # {} \/ starting # {}
Busy(h) == \E r \in Runs : run[r].pc # "idle" /\ run[r].holder = h

----------------------------------------------------------------------------
(* An administrator connects. *)
oauth_start(u) ==
  /\ started < MaxFlows /\ started' = started + 1
  /\ starting' = starting \cup {[state |-> started, user |-> Holder(server.identity, u), client |-> server.client]}
  /\ UNCHANGED <<server, slot, flows, landing, run, slot_lock, provider, clients, changes, history>>

\* A client that is known is not registered again.
NeedsClient(known) == known = 0

\* start, after discovery and registration: the configuration is written as a whole.
StartEnds(f) ==
  /\ starting' = starting \ {f}
  /\ LET c == IF NeedsClient(f.client) THEN clients + 1 ELSE f.client IN
     /\ c <= MaxClients /\ clients' = (IF c > clients THEN c ELSE clients)
     /\ server' = [server EXCEPT !.client = c] /\ flows' = flows \cup {[state |-> f.state, user |-> f.user, client |-> c]}
     /\ switched' = (switched \/ server.client \notin {f.client, c})
  /\ UNCHANGED <<slot, landing, run, slot_lock, provider, changes, started, lapped, lost, gone>>

StartFails(f) ==
  /\ starting' = starting \ {f}
  /\ UNCHANGED <<server, slot, flows, landing, run, slot_lock, provider, clients, changes, started, history>>

\* complete_authorization: the code of the client the flow was started with is
\* exchanged with the client the server has now.
Exchange(f) ==
  /\ f \in flows /\ ~(\E l \in landing : l.state = f.state)
  /\ f.client = server.client /\ issued < MaxGrants
  /\ issued' = issued + 1 /\ owner' = [owner EXCEPT ![issued + 1] = f.user] /\ live' = live \cup {issued + 1}
  /\ landing' = landing \cup {[state |-> f.state, user |-> f.user, token |-> issued + 1, identity |-> server.identity]}
  /\ UNCHANGED <<server, slot, flows, starting, run, slot_lock, clients, changes, started, history>>

\* _slot raises for a flow without a user; the browser is only told connected=0.
LandFails(l) ==
  /\ l \in landing /\ l.identity = "user" /\ l.user = Org
  /\ landing' = landing \ {l} /\ UNCHANGED <<server, slot, flows, starting, run, slot_lock, provider, clients, changes, started, history>>

Tokens(t, r) == Slot(TRUE, t, r, FALSE)

\* store_exchanged; the flow is deleted with it.
Land(l) ==
  LET h == Holder(l.identity, l.user) IN
  /\ l \in landing /\ h \in Holders /\ ~(l.identity = "user" /\ l.user = Org) /\ slot_lock[h] = Org
  /\ slot' = [slot EXCEPT ![h] = Tokens(l.token, l.token)]
  /\ flows' = {f \in flows : f.state # l.state} /\ landing' = landing \ {l}
  /\ lapped' = (lapped \/ Busy(h)) /\ gone' = gone \ {h}
  /\ UNCHANGED <<server, starting, run, slot_lock, provider, clients, changes, started, lost, switched>>

----------------------------------------------------------------------------
(* A run asks for a token: resolve_for_call, ensure_access_token. *)
Valid(h) == slot[h].token # 0 /\ ~slot[h].due

\* A person who is not connected is given an empty row by being looked up.
NotConnected(r, u) ==
  LET h == Holder(server.identity, u) IN
  /\ run[r].pc = "idle" /\ server.enabled /\ ~Valid(h) /\ slot[h].refresh = 0
  /\ slot' = IF server.identity = "user" /\ u # Org THEN [slot EXCEPT ![h] = Slot(TRUE, @.token, @.refresh, @.due)] ELSE slot
  /\ slot' # slot
  /\ UNCHANGED <<server, flows, starting, landing, run, slot_lock, provider, clients, changes, started, history>>

ensure_access_token(r, u) ==
  LET h == Holder(server.identity, u) IN
  /\ run[r].pc = "idle" /\ server.enabled /\ ~(server.identity = "user" /\ u = Org)
  /\ \/ Valid(h) /\ run' = [run EXCEPT ![r] = Does("use", h, 0, slot[h].token, 0)]
     \/ ~Valid(h) /\ slot[h].refresh # 0 /\ run' = [run EXCEPT ![r] = Does("refresh", h, slot[h].refresh, 0, 0)]
  /\ lapped' = (lapped \/ Busy(h))
  /\ UNCHANGED <<server, slot, flows, starting, landing, slot_lock, provider, clients, changes, started, lost, switched, gone>>

\* Mutant: what the provider left out is stored as missing.
KeptRefresh(old, new) == new

\* Some providers send no refresh token on a refresh: the prior one is kept.
refresh_tokens(old, new) == IF new = 0 THEN old ELSE new

\* The provider answers: with a token that replaces the one it was shown, or without one.
Refresh(r, rotates) ==
  LET q == run[r] IN
  /\ q.pc = "refresh" /\ q.refresh \in live /\ issued < MaxGrants
  /\ issued' = issued + 1 /\ owner' = [owner EXCEPT ![issued + 1] = owner[q.refresh]]
  /\ live' = IF rotates THEN (live \ {q.refresh}) \cup {issued + 1} ELSE live
  /\ run' = [run EXCEPT ![r] = Does("flush", q.holder, q.refresh, issued + 1, refresh_tokens(q.refresh, IF rotates THEN issued + 1 ELSE 0))]
  /\ UNCHANGED <<server, slot, flows, starting, landing, slot_lock, clients, changes, started, history>>

\* Refused, or not reachable: the run goes without the tools of the server.
RefreshFails(r) ==
  /\ run[r].pc = "refresh" /\ run' = [run EXCEPT ![r] = Idle]
  /\ UNCHANGED <<server, slot, flows, starting, landing, slot_lock, provider, clients, changes, started, history>>

\* The row is written, and locked until the turn is committed.
Flush(r) ==
  LET q == run[r] IN
  /\ q.pc = "flush" /\ slot_lock[q.holder] = Org
  /\ IF slot[q.holder].row THEN run' = [run EXCEPT ![r] = Does("turn", q.holder, q.refresh, q.token, q.next)] /\ slot_lock' = [slot_lock EXCEPT ![q.holder] = r] /\ UNCHANGED lost
     ELSE run' = [run EXCEPT ![r] = Idle] /\ lost' = TRUE /\ UNCHANGED slot_lock      \* the row of a person is gone: the turn fails
  /\ UNCHANGED <<server, slot, flows, starting, landing, provider, clients, changes, started, lapped, switched, gone>>

TurnCommits(r) ==
  LET q == run[r] IN
  /\ q.pc = "turn" /\ slot' = [slot EXCEPT ![q.holder] = Tokens(q.token, q.next)] /\ slot_lock' = [slot_lock EXCEPT ![q.holder] = Org]
  /\ run' = [run EXCEPT ![r] = Does("use", q.holder, 0, q.token, 0)]
  /\ UNCHANGED <<server, flows, starting, landing, provider, clients, changes, started, history>>

TurnRollsBack(r) ==
  /\ run[r].pc = "turn" /\ slot_lock' = [slot_lock EXCEPT ![run[r].holder] = Org] /\ run' = [run EXCEPT ![r] = Idle] /\ lost' = TRUE
  /\ UNCHANGED <<server, slot, flows, starting, landing, provider, clients, changes, started, lapped, switched, gone>>

RunEnds(r) ==
  /\ run[r].pc = "use" /\ run' = [run EXCEPT ![r] = Idle]
  /\ UNCHANGED <<server, slot, flows, starting, landing, slot_lock, provider, clients, changes, started, history>>

\* A minute before the token expires.
FallsDue(h) ==
  /\ slot[h].token # 0 /\ ~slot[h].due /\ slot' = [slot EXCEPT ![h] = Slot(@.row, @.token, @.refresh, TRUE)]
  /\ UNCHANGED <<server, flows, starting, landing, run, slot_lock, provider, clients, changes, started, history>>

----------------------------------------------------------------------------
(* Administrators. *)
Change == changes < MaxChanges /\ changes' = changes + 1

\* The columns of the shared install are emptied, the row of a person is deleted.
Emptied(h) == Empty(h)

disconnect(u) ==
  LET h == Holder(server.identity, u) IN
  /\ Change /\ slot_lock[h] = Org /\ slot[h].token # 0 /\ slot' = [slot EXCEPT ![h] = Emptied(h)]
  /\ lapped' = (lapped \/ Busy(h) \/ landing # {}) /\ gone' = gone \cup {h}
  /\ UNCHANGED <<server, flows, starting, landing, run, slot_lock, provider, clients, started, lost, switched>>

\* _apply_auth: another identity, or a client that was registered by hand.
update_mcp_server(identity, client) ==
  /\ Change /\ <<identity, client>> # <<server.identity, server.client>>
  /\ server' = [server EXCEPT !.identity = identity, !.client = client]
  /\ clients' = (IF client > clients THEN client ELSE clients) /\ switched' = (switched \/ Open)
  /\ UNCHANGED <<slot, flows, starting, landing, run, slot_lock, provider, started, lapped, lost, gone>>

\* With it go its tokens and its flows.
delete_mcp_server ==
  /\ Change /\ server.enabled /\ server' = [server EXCEPT !.enabled = FALSE] /\ \A h \in Holders : slot_lock[h] = Org
  /\ slot' = [h \in Holders |-> Slot(FALSE, 0, 0, FALSE)] /\ flows' = {} /\ landing' = {} /\ starting' = {} /\ gone' = Holders
  /\ UNCHANGED <<run, slot_lock, provider, clients, started, lapped, lost, switched>>

McpNext ==
  \/ \E u \in Users : server.enabled /\ (oauth_start(u) \/ disconnect(u))
  \/ (\E f \in starting : StartEnds(f) \/ StartFails(f)) \/ (\E f \in flows : Exchange(f)) \/ (\E l \in landing : Land(l) \/ LandFails(l))
  \/ \E r \in Runs : \/ \E u \in Holders : NotConnected(r, u) \/ ensure_access_token(r, u)
                     \/ \E rotates \in BOOLEAN : Refresh(r, rotates)
                     \/ RefreshFails(r) \/ Flush(r) \/ TurnCommits(r) \/ TurnRollsBack(r) \/ RunEnds(r)
  \/ \E h \in Holders : FallsDue(h)
  \/ server.enabled /\ \E i \in {"org", "user"}, c \in 1 .. MaxClients : update_mcp_server(i, c)
  \/ delete_mcp_server
McpSpec == McpInit /\ [][McpNext]_mcp_vars

----------------------------------------------------------------------------
McpTypeOK ==
  /\ server.identity \in {"org", "user"} /\ live \subseteq 1 .. MaxGrants /\ \A h \in Holders : slot_lock[h] \in Runs \cup {Org}
  /\ \A r \in Runs : run[r].pc \in {"idle", "refresh", "flush", "turn", "use"} /\ \A h \in Holders : slot[h].token \in 0 .. issued

(* A run acts with a token of the person it acts for, or with the shared one;
   never with a token somebody authorized for themselves (_slot). *)
OwnToken == ~switched => \A r \in Runs : run[r].token # 0 => owner[run[r].token] = run[r].holder

(* What is kept can be refreshed: as long as no turn is rolled back after the
   provider replaced the token, and no two are refreshed at once, a holder
   that connected stays connected (ensure_access_token, refresh_tokens). *)
StaysConnected == ~lapped /\ ~lost => \A h \in Holders : slot[h].token # 0 /\ ~Busy(h) => slot[h].refresh \in live

(* Once disconnected, nothing is kept until somebody connects again; a run
   that was refreshing, or a callback on its way, is the exception
   (disconnect). *)
DisconnectStands == ~lapped => \A h \in gone : slot[h].token = 0 /\ slot[h].refresh = 0

(* Every open flow can be completed: its code is for the client the server
   has, unless a start overlapped or somebody changed the server (start). *)
FlowsComplete == ~switched => \A f \in flows : f.client = server.client

ConnectionsStand == OwnToken /\ StaysConnected /\ DisconnectStands /\ FlowsComplete
=============================================================================
