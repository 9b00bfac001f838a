---------------------------- MODULE MCConnections ----------------------------
(***************************************************************************)
(* The two components that keep connections to servers usable and share no *)
(* state: the manager of an MCP server's connection, and the manager of    *)
(* the OAuth token of the model provider in two processes.  A behaviour    *)
(* belongs to one of them, `part`; the other stays in its initial state.   *)
(***************************************************************************)
EXTENDS OAuthManager, TLC

CONSTANTS Configs, Off, MaxOps, MaxEntries

VARIABLES part,
          ops, ent, cur, clients, joined, shown, tools, mcpOdd

Mcp == INSTANCE McpConnections WITH odd <- mcpOdd

ASSUME OAuthAssumption == ConstantsApart
ASSUME ConnectionBounds == MaxOps \in Nat /\ MaxEntries \in Nat

AllFaults == {"lost", "error", "save", "lock", "crash", "suspend", "revoke", "login", "logout"}

----------------------------------------------------------------------------
mcpVars == <<ops, ent, cur, clients, joined, shown, tools, mcpOdd>>
partVars == <<part, mcpVars, vars>>

PartInit == part \in {"mcp", "oauth"} /\ Mcp!Init /\ Init

PartNext ==
  \/ part = "mcp" /\ Mcp!Next /\ UNCHANGED <<part, vars>>
  \/ part = "oauth" /\ Next /\ UNCHANGED <<part, mcpVars>>

PartSpec == PartInit /\ [][PartNext]_partVars

Symmetry == Permutations(Procs) \cup Permutations(Calls)

----------------------------------------------------------------------------
\* Once the calls have ended no client is left open but the server's current
\* one, its status is true, and the agent's tools follow it; and a pending
\* server always has somebody who connects it (McpConnectionManager,
\* AgentMcpService).
ServerIsAsShown == part = "mcp" =>
  /\ Mcp!TypeOK
  /\ Mcp!NoneLeftOpen
  /\ Mcp!ConnectedIsOpen
  /\ Mcp!PendingIsServed
  /\ Mcp!AgentFollows
==============================================================================
