------------------------------ MODULE Inventory ------------------------------
(***************************************************************************)
(* What an agent sees of docker, as the server knows it.  Once a minute    *)
(* the agent lists its containers and services and posts them, with its    *)
(* token; the server resolves the token to an agent and then replaces that *)
(* agent's inventory, in two queries.  The agent gives a post up after     *)
(* 30 s while the server goes on with it, so that an older inventory may   *)
(* overtake a newer one; and the admin may hand out a new token, or delete *)
(* the agent, between any two steps.                                       *)
(***************************************************************************)
EXTENDS Naturals

CONSTANTS
  Posts,       \* posts that may be under way at once
  MaxChanges,  \* how often docker changes
  MaxTokens,   \* how many tokens are handed out
  MaxFaults,   \* database errors and lost requests
  None         \* "no post", "no agent"

VARIABLES
  docker,     \* the version of what docker has to list
  row,        \* the agents table: the agent's token and inventory, or None
  tokens,     \* how many tokens were handed out; the newest has this number
  token,      \* the token the agent process was started with, or 0
  listed,     \* what the agent has listed and not yet posted, or None
  post,       \* post[p]: a request and where the server is with it
  waitingFor, \* the post the agent waits for, or None
  faults

agent == <<token, listed, waitingFor>>
vars  == <<docker, row, tokens, agent, post, faults>>

\* What docker lists, version by version, and what is none of it: the inventory of a
\* new agent, one without services, one of two versions.
Other    == 0
Versions == 0..MaxChanges + 1

TypeOK ==
  /\ docker \in Versions \ {Other}
  /\ row \in [token : 1..MaxTokens, inv : Versions] \cup {None}
  /\ tokens \in 0..MaxTokens /\ token \in 0..tokens
  /\ listed \in Versions \cup {None}
  /\ post \in [Posts -> [inv : Versions, token : 1..MaxTokens, at : {"sent", "resolved"}] \cup {None}]
  /\ waitingFor \in Posts \cup {None}
  /\ faults \in 0..MaxFaults

Init ==
  /\ docker = 1
  /\ row = None
  /\ tokens = 0 /\ token = 0
  /\ listed = None
  /\ post = [p \in Posts |-> None]
  /\ waitingFor = None
  /\ faults = 0

Fault == faults < MaxFaults /\ faults' = faults + 1

-----------------------------------------------------------------------------
(* The agent                                                               *)

Changes == docker <= MaxChanges /\ docker' = docker + 1

DockerChanges ==
  /\ Changes
  /\ UNCHANGED <<row, tokens, agent, post, faults>>

\* The agent is back at its ticker.
AtTicker == token > 0 /\ listed = None /\ waitingFor = None

\* inventoryLoop: the agent lists containers and services.
List ==
  /\ AtTicker
  /\ listed' = docker
  /\ UNCHANGED <<docker, row, tokens, token, waitingFor, post, faults>>

\* Docker changes between the two requests, or the second one fails, which is taken
\* for "no services".
ListTorn ==
  /\ AtTicker
  /\ \/ Changes /\ UNCHANGED faults
     \/ Fault /\ UNCHANGED docker
  /\ listed' = Other
  /\ UNCHANGED <<row, tokens, token, waitingFor, post>>

Send(p) ==
  /\ listed # None /\ post[p] = None
  /\ post' = [post EXCEPT ![p] = [inv |-> listed, token |-> token, at |-> "sent"]]
  /\ listed' = None
  /\ waitingFor' = p
  /\ UNCHANGED <<docker, row, tokens, token, faults>>

\* Mutant: a client without a timeout goes on waiting.
Bug_GiveUp == waitingFor # None /\ UNCHANGED vars

\* The agent has waited for 30 s.  The server goes on.
GiveUp ==
  /\ waitingFor # None
  /\ waitingFor' = None
  /\ UNCHANGED <<docker, row, tokens, token, listed, post, faults>>

\* The agent is started, or started again, with the newest token.
StartAgent ==
  /\ token # tokens
  /\ token' = tokens
  /\ listed' = None
  /\ waitingFor' = None
  /\ UNCHANGED <<docker, row, tokens, post, faults>>

-----------------------------------------------------------------------------
(* The server                                                              *)

\* The post is over, and answered if the agent still waits for it.
Over(p) ==
  /\ post' = [post EXCEPT ![p] = None]
  /\ waitingFor' = IF waitingFor = p THEN None ELSE waitingFor
  /\ UNCHANGED <<docker, tokens, token, listed>>

\* agentAuth
Resolve(p) ==
  /\ post[p] # None /\ post[p].at = "sent"
  /\ row # None /\ row.token = post[p].token
  /\ post' = [post EXCEPT ![p].at = "resolved"]
  /\ UNCHANGED <<docker, row, tokens, agent, faults>>

\* 401: no agent has this token.
Refuse(p) ==
  /\ post[p] # None /\ post[p].at = "sent"
  /\ row # None => row.token # post[p].token
  /\ Over(p)
  /\ UNCHANGED <<row, faults>>

\* UpdateAgentInventory, by the agent's id: of a deleted agent there is nothing to update.
Store(p) ==
  /\ post[p] # None /\ post[p].at = "resolved"
  /\ row' = IF row = None THEN None ELSE [row EXCEPT !.inv = post[p].inv]
  /\ Over(p)
  /\ UNCHANGED faults

\* A query fails.
Fails(p) ==
  /\ post[p] # None
  /\ Fault
  /\ Over(p)
  /\ UNCHANGED row

\* The request, or the answer to it, is lost, and the agent hears nothing of it.
Lose(p) ==
  /\ post[p] # None
  /\ Fault
  /\ post' = [post EXCEPT ![p] = None]
  /\ UNCHANGED <<docker, row, tokens, agent>>

\* CreateAgent: a row without an inventory.
CreateAgent ==
  /\ row = None /\ tokens = 0 /\ tokens < MaxTokens
  /\ tokens' = 1
  /\ row' = [token |-> 1, inv |-> Other]
  /\ UNCHANGED <<docker, agent, post, faults>>

\* RegenerateAgentToken
Regenerate ==
  /\ row # None
  /\ tokens < MaxTokens
  /\ tokens' = tokens + 1
  /\ row' = [row EXCEPT !.token = tokens + 1]
  /\ UNCHANGED <<docker, agent, post, faults>>

DeleteAgent ==
  /\ row # None
  /\ row' = None
  /\ UNCHANGED <<docker, tokens, agent, post, faults>>

Serve(p) == Resolve(p) \/ Refuse(p) \/ Store(p)

Next ==
  \/ DockerChanges \/ List \/ ListTorn \/ GiveUp \/ StartAgent \/ CreateAgent \/ Regenerate \/ DeleteAgent
  \/ \E p \in Posts : Send(p) \/ Serve(p) \/ Fails(p) \/ Lose(p)

Spec == Init /\ [][Next]_vars

\* The loop's ticker goes on, posts are sent, the agent's patience ends, and the
\* server comes to an end with each post.
Fairness ==
  /\ WF_vars(List)
  /\ WF_vars(GiveUp)
  /\ WF_vars(\E p \in Posts : Send(p))
  /\ \A p \in Posts : WF_vars(Serve(p))

-----------------------------------------------------------------------------

\* The agent exists and was started with its present token.
Linked == row # None /\ row.token = token

\* While the agent has the right token and docker is left alone, the server ends up
\* with what docker lists, whatever was lost or overtook what: the agent posts every
\* minute, waits 30 s at most, and posts what is not new as well (agent.go:65, 190-211).
InventoryArrives == <>[]Linked => <>[](row # None /\ row.inv = docker)
=============================================================================
