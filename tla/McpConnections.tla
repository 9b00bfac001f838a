--------------------------- MODULE McpConnections --------------------------
(***************************************************************************)
(* The connection to one MCP server: McpConnectionManager                  *)
(* (mcpCore/connection-manager.ts) with the agent's tools that follow its  *)
(* status events (agent/mcp/mcpService.ts).                                *)
(*                                                                         *)
(* Reconnects come from tool calls, from the user and from OAuth events    *)
(* and overlap freely; connect, remove and markRemoved come one after      *)
(* another (WorkspaceMcpService.mutate, or one user).  Every await is a    *)
(* step boundary; an operation makes at most one client, so that a client  *)
(* is known by the number of its operation.                                *)
(***************************************************************************)
EXTENDS Naturals, FiniteSets

CONSTANTS Configs, Off,       \* the configurations of the server; Off has enabled: false
          MaxOps, MaxEntries  \* bounds

Ops == 1 .. MaxOps
Statuses == {"pending", "connected", "failed", "disabled", "needs-auth", "removed"}
Mutations == {"connect", "remove", "markRemoved"}
InConnectOne == {"create", "discover"}

VARIABLES
  ops,      \* ops[o]: kind k, entry e, attempt a, place pc, config, the client it blames
  ent,      \* ent[e]: attemptId, status, client, config
  cur,      \* entries.get(name), 0 when there is none
  clients,  \* clients[o]: "none", "open", "closed" by the manager, "died" by itself
  joined,   \* inFlightReconnects.get(name), 0 when there is none
  shown,    \* the status last emitted
  tools,    \* the client of the tools the agent has registered, 0 when there are none
  odd       \* history: "clobber", "lost", "late"

vars == <<ops, ent, cur, clients, joined, shown, tools, odd>>

NoOp == [k |-> "none", e |-> 0, a |-> 0, pc |-> "idle", cfg |-> Off, on |-> 0]
NoEntry == [a |-> 0, status |-> "none", client |-> 0, cfg |-> Off]

Init ==
  /\ ops = [o \in Ops |-> NoOp] /\ ent = [e \in 1 .. MaxEntries |-> NoEntry] /\ cur = 0
  /\ clients = [o \in Ops |-> "none"] /\ joined = 0 /\ shown = "none" /\ tools = 0 /\ odd = {}

TypeOK ==
  /\ cur \in 0 .. MaxEntries /\ joined \in 0 .. MaxOps /\ tools \in 0 .. MaxOps
  /\ shown \in Statuses \cup {"none"} /\ odd \subseteq {"clobber", "lost", "late"}
  /\ \A e \in 1 .. MaxEntries : ent[e].status \in Statuses \cup {"none"} /\ ent[e].client \in 0 .. MaxOps
  /\ \A o \in Ops : clients[o] \in {"none", "open", "closed", "died"}
  /\ joined # 0 => ops[joined].k = "join" /\ ops[joined].pc # "done"

Live(o) == ops[o].pc \notin {"idle", "done"}
Next1(o) == ops[o].pc = "idle" /\ \A p \in 1 .. o - 1 : ops[p].pc # "idle"
At(o, pc) == ops' = [ops EXCEPT ![o].pc = pc]

isCurrent(e, a) == cur = e /\ ent[e].a = a

\* emit, and handleMcpServerStatusChange of the agent.
emit(r) ==
  /\ shown' = r.status
  /\ tools' = CASE r.status = "connected" -> IF r.client = 0 THEN tools ELSE r.client
                [] r.status \in {"needs-auth", "disabled", "removed"} -> 0
                [] OTHER -> tools

Silent == UNCHANGED <<shown, tools>>
Closed(c) == IF c = 0 THEN clients ELSE [clients EXCEPT ![c] = "closed"]

\* An operation that is over leaves inFlightReconnects.
Over(o) == At(o, "done") /\ joined' = IF joined = o THEN 0 ELSE joined

----------------------------------------------------------------------------
(* connect, remove, markRemoved.                                           *)

Serial == \A o \in Ops : ops[o].k \in Mutations => ~Live(o)

Entries == Cardinality({f \in 1 .. MaxEntries : ent[f] # NoEntry})

\* A reconnect that ended while the old client was being closed has put a client in the entry.
Lost(e) == IF e # 0 /\ ent[e].client # 0 THEN odd \cup {"lost"} ELSE odd

\* The new entry, and its first attempt unless it is disabled.
NewEntry(o, cfg) ==
  LET e == Entries + 1
      r == [a |-> IF cfg = Off THEN 0 ELSE 1, status |-> IF cfg = Off THEN "disabled" ELSE "pending",
            client |-> 0, cfg |-> cfg]
  IN /\ ent' = [ent EXCEPT ![e] = r] /\ cur' = e /\ emit(r)
     /\ ops' = [ops EXCEPT ![o] = [k |-> "connect", e |-> e, a |-> 1, cfg |-> cfg, on |-> 0,
                                   pc |-> IF cfg = Off THEN "done" ELSE "create"]]
     /\ odd' = Lost(cur) /\ UNCHANGED joined

connect(o, cfg) ==
  /\ Next1(o) /\ Serial /\ Entries < MaxEntries
  /\ cur # 0 => ~(ent[cur].status \in {"pending", "connected"} /\ ent[cur].cfg = cfg)
  /\ IF cur = 0 THEN NewEntry(o, cfg) /\ UNCHANGED clients
     ELSE /\ ops' = [ops EXCEPT ![o] = [NoOp EXCEPT !.k = "connect", !.pc = "close", !.cfg = cfg]]
          /\ clients' = Closed(ent[cur].client) /\ ent' = [ent EXCEPT ![cur].client = 0]
          /\ Silent /\ UNCHANGED <<cur, joined, odd>>

ConnectGoesOn(o) ==
  /\ ops[o].k = "connect" /\ ops[o].pc = "close"
  /\ NewEntry(o, ops[o].cfg) /\ UNCHANGED clients

\* An attempt, or its client, that stays current when its entry is marked removed.
Late(e) == IF ent[e].client # 0 \/ \E p \in Ops : Live(p) /\ ops[p].k \notin Mutations /\ ops[p].e = e THEN odd \cup {"late"} ELSE odd

\* Both close the client first.
removal(o, k) ==
  /\ k \in {"remove", "markRemoved"} /\ Next1(o) /\ Serial /\ cur # 0
  /\ ops' = [ops EXCEPT ![o] = [NoOp EXCEPT !.k = k, !.e = cur, !.pc = "close"]]
  /\ clients' = Closed(ent[cur].client) /\ ent' = [ent EXCEPT ![cur].client = 0]
  /\ Silent /\ UNCHANGED <<cur, joined, odd>>

remove(o) ==
  LET e == ops[o].e IN
  /\ ops[o].k = "remove" /\ ops[o].pc = "close"
  /\ ent' = [ent EXCEPT ![e].status = "disabled"] /\ emit(ent'[e]) /\ cur' = 0
  /\ odd' = Lost(e) /\ At(o, "done") /\ UNCHANGED <<clients, joined>>

markRemoved(o) ==
  LET e == ops[o].e IN
  /\ ops[o].k = "markRemoved" /\ ops[o].pc = "close"
  /\ ent' = [ent EXCEPT ![e].status = "removed"] /\ emit(ent'[e])
  /\ odd' = Late(e)
  /\ At(o, "done") /\ UNCHANGED <<cur, clients, joined>>

----------------------------------------------------------------------------
(* reconnect and reconnectAndJoin.                                         *)

Pending(e) == [ent[e] EXCEPT !.status = "pending"]

\* k is "join" for reconnectAndJoin when nobody is to be joined.
reconnect(o, k) ==
  /\ k \in {"reconnect", "join"} /\ (k = "join" => joined = 0) /\ Next1(o) /\ cur # 0
  /\ ent[cur].status # "removed" /\ ent[cur].cfg # Off
  /\ joined' = IF k = "join" THEN o ELSE joined
  /\ ops' = [ops EXCEPT ![o] = [k |-> k, e |-> cur, a |-> ent[cur].a + 1, pc |-> "close", cfg |-> Off, on |-> 0]]
  /\ ent' = [ent EXCEPT ![cur].a = @ + 1, ![cur].client = 0] /\ clients' = Closed(ent[cur].client)
  /\ Silent /\ UNCHANGED <<cur, odd>>

\* The old client is closed.
ReconnectGoesOn(o) ==
  LET e == ops[o].e IN
  /\ ops[o].k \in {"reconnect", "join"} /\ ops[o].pc = "close"
  /\ IF isCurrent(e, ops[o].a)
     THEN ent' = [ent EXCEPT ![e] = Pending(e)] /\ emit(ent'[e]) /\ At(o, "create") /\ UNCHANGED joined
     ELSE Over(o) /\ Silent /\ UNCHANGED ent
  /\ UNCHANGED <<cur, clients, odd>>

----------------------------------------------------------------------------
(* connectOne.                                                             *)

\* createClient has resolved: the client goes into the entry unasked.
createClient(o) ==
  LET e == ops[o].e IN
  /\ ops[o].pc = "create" /\ At(o, "discover")
  /\ clients' = [clients EXCEPT ![o] = "open"] /\ ent' = [ent EXCEPT ![e].client = o]
  /\ odd' = IF ops[o].a < ent[e].a /\ \E p \in Ops : p # o /\ ops[p].e = e /\ ops[p].a > ops[o].a /\ clients[p] # "none"
            THEN odd \cup {"clobber"} ELSE odd
  /\ Silent /\ UNCHANGED <<cur, joined>>

\* Mutant: an attempt that was overtaken leaves its client open.
ForgetStale(o) == clients

\* closeRuntimeClient of an attempt that was overtaken.
CloseStale(o) == Closed(o)

connected(o) ==
  LET e == ops[o].e IN
  /\ ops[o].pc = "discover" /\ clients[o] = "open"
  /\ IF isCurrent(e, ops[o].a)
     THEN ent' = [ent EXCEPT ![e].status = "connected"] /\ emit(ent'[e]) /\ Over(o) /\ UNCHANGED clients
     ELSE clients' = CloseStale(o) /\ At(o, "stale") /\ Silent /\ UNCHANGED <<ent, joined>>
  /\ UNCHANGED <<cur, odd>>

\* The connection, the discovery or createClient fails, or the timeout has closed the client.
ConnectFails(o, status) ==
  LET e == ops[o].e IN
  /\ ops[o].pc \in InConnectOne /\ status \in {"failed", "needs-auth"}
  /\ IF isCurrent(e, ops[o].a)
     THEN /\ ent' = [ent EXCEPT ![e].status = status, ![e].client = 0]
          /\ clients' = IF ent[e].client = 0 THEN clients ELSE Closed(ent[e].client)
          /\ At(o, "report")
     ELSE /\ clients' = IF clients[o] = "none" THEN clients ELSE CloseStale(o)
          /\ At(o, "stale") /\ UNCHANGED ent
  /\ Silent /\ UNCHANGED <<cur, joined, odd>>

\* The client is closed: the attempt reports, if it is still current, and ends.
ConnectEnds(o) ==
  /\ ops[o].pc \in {"report", "stale"} /\ Over(o)
  /\ IF ops[o].pc = "report" /\ isCurrent(ops[o].e, ops[o].a) THEN emit(ent[ops[o].e]) ELSE Silent
  /\ UNCHANGED <<ent, cur, clients, odd>>

\* The server goes away; watchForUnexpectedClose.
UnexpectedClose(c) ==
  LET e == ops[c].e IN
  /\ clients[c] = "open" /\ clients' = [clients EXCEPT ![c] = "died"]
  /\ IF ops[c].pc = "done" /\ isCurrent(e, ops[c].a) /\ ent[e].client = c
     THEN ent' = [ent EXCEPT ![e].status = "failed", ![e].client = 0] /\ emit(ent'[e])
     ELSE Silent /\ UNCHANGED ent
  /\ UNCHANGED <<ops, cur, joined, odd>>

----------------------------------------------------------------------------
(* markNeedsAuth: a tool call was refused on client c.                     *)

markNeedsAuth(o) ==
  /\ Next1(o) /\ cur # 0 /\ tools # 0 /\ ent[cur].status = "connected" /\ ent[cur].client = tools
  /\ ops' = [ops EXCEPT ![o] = [k |-> "auth", e |-> cur, a |-> ent[cur].a, pc |-> "peek", cfg |-> Off, on |-> tools]]
  /\ Silent /\ UNCHANGED <<ent, cur, clients, joined, odd>>

\* peekRejectedGrant has answered; concurrent when the grant is new.
Peeked(o) ==
  LET e == ops[o].e IN
  /\ ops[o].k = "auth" /\ ops[o].pc = "peek"
  /\ \/ At(o, "done") /\ UNCHANGED <<ent, clients>>
     \/ /\ isCurrent(e, ops[o].a) /\ At(o, "authClose")
        /\ clients' = Closed(ent[e].client) /\ ent' = [ent EXCEPT ![e].client = 0]
  /\ Silent /\ UNCHANGED <<cur, joined, odd>>

AuthClosed(o) ==
  LET e == ops[o].e IN
  /\ ops[o].pc = "authClose"
  /\ IF isCurrent(e, ops[o].a) THEN ent' = [ent EXCEPT ![e].status = "needs-auth"] /\ At(o, "invalidate")
     ELSE At(o, "done") /\ UNCHANGED ent
  /\ Silent /\ UNCHANGED <<cur, clients, joined, odd>>

\* The tokens are invalidated, or that failed.
Invalidated(o) ==
  /\ ops[o].pc = "invalidate" /\ At(o, "done")
  /\ IF isCurrent(ops[o].e, ops[o].a) THEN emit(ent[ops[o].e]) ELSE Silent
  /\ UNCHANGED <<ent, cur, clients, joined, odd>>

----------------------------------------------------------------------------
Step(o) ==
  \/ ConnectGoesOn(o) \/ remove(o) \/ markRemoved(o) \/ ReconnectGoesOn(o) \/ createClient(o)
  \/ connected(o) \/ (\E s \in {"failed", "needs-auth"} : ConnectFails(o, s)) \/ ConnectEnds(o)
  \/ Peeked(o) \/ AuthClosed(o) \/ Invalidated(o)

Quiet == \A o \in Ops : ~Live(o)

Next ==
  \/ \E o \in Ops :
       \/ Step(o) \/ markNeedsAuth(o) \/ UnexpectedClose(o)
       \/ \E cfg \in Configs : connect(o, cfg)
       \/ \E k \in {"remove", "markRemoved"} : removal(o, k)
       \/ \E k \in {"reconnect", "join"} : reconnect(o, k)
  \/ Quiet /\ UNCHANGED vars

Spec == Init /\ [][Next]_vars

----------------------------------------------------------------------------
Entry == IF cur = 0 THEN NoEntry ELSE ent[cur]

(* Once nothing is under way, every client that is open is the one of the  *)
(* current entry: attempts that were overtaken close their own.  The       *)
(* exceptions are an overtaken attempt whose createClient ends after the   *)
(* one of its successor and replaces the successor's client in the entry,  *)
(* and a reconnect inside a connect or remove that waits for the old       *)
(* client's close and then drops the entry without a look at it.           *)
NoneLeftOpen == Quiet /\ odd \subseteq {"late"} => \A c \in Ops : clients[c] = "open" => Entry.client = c

(* A server that is connected has a client that the manager has not        *)
(* closed, whatever reconnects, failures and refusals overlapped.          *)
ConnectedIsOpen == Entry.status = "connected" /\ Quiet /\ "clobber" \notin odd => Entry.client # 0 /\ clients[Entry.client] = "open"

(* Nobody waits for a server in vain: a pending server has an attempt of   *)
(* its current number under way.                                           *)
PendingIsServed == Entry.status = "pending" => \E o \in Ops : Live(o) /\ ops[o].e = cur /\ ops[o].a = Entry.a

(* The agent follows: once nothing is under way the status it was last     *)
(* told is the entry's, the tools of a connected server use its client,    *)
(* and a removed, disabled or refused server has none.  Same exception.    *)
AgentFollows ==
  Quiet /\ cur # 0 /\ "clobber" \notin odd =>
    /\ shown = Entry.status
    /\ Entry.status = "connected" => tools = Entry.client
    /\ Entry.status \in {"removed", "disabled", "needs-auth"} => tools = 0

=============================================================================
