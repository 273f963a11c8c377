------------------------------- MODULE MCHost -------------------------------
(***************************************************************************)
(* What happens on, and to, a monitored host: its web site's certificate   *)
(* (HttpsCheck), its containers (DockerCheck), the agent's polls and its   *)
(* inventory (Presence, Inventory).  The four share no state in the code,  *)
(* and each has states of its own here: a behaviour is one of HttpsCheck,  *)
(* or one of DockerCheck, ..., with the other three at rest, so that TLC   *)
(* looks at the sum and not at the product of their states.                *)
(***************************************************************************)
EXTENDS HttpsCheck

CONSTANTS MaxReplicas, MaxLost, Posts, MaxChanges, MaxTokens, MaxFaults, None

\* With two polls in a row lost, an agent is shown offline: 90 s are three intervals.
ASSUME HostAssumption ==
  /\ MaxReplicas \in Nat
  /\ MaxLost \in 0..1
  /\ MaxChanges \in Nat /\ MaxTokens \in Nat /\ MaxFaults \in Nat

VARIABLES
  component,                                            \* the one that moves
  type, target, pc, desired, verdict,                   \* DockerCheck
  ticker, polling, request, fate, lost, seen,           \* Presence
  docker, row, tokens, token, listed, post, waitingFor, faults  \* Inventory

D == INSTANCE DockerCheck
P == INSTANCE Presence WITH due <- polling
I == INSTANCE Inventory

dockerVars    == <<type, target, pc, desired, verdict>>
presenceVars  == <<ticker, polling, request, fate, lost, seen>>
inventoryVars == <<docker, row, tokens, token, listed, post, waitingFor, faults>>

Gone == -30

HostInit ==
  /\ component \in {"https", "docker", "presence", "inventory"}
  /\ IF component = "https" THEN Init ELSE Init /\ ~skipTLS /\ site = "good"
  /\ IF component = "docker" THEN D!Init ELSE D!Init /\ type = "service" /\ target = D!Missing
  /\ P!Init
  /\ I!Init

HttpsMoves     == component = "https" /\ Next
DockerMoves    == component = "docker" /\ D!Next
PresenceMoves  == component = "presence" /\ P!Next
InventoryMoves == component = "inventory" /\ I!Next

HostNext ==
  \/ HttpsMoves     /\ UNCHANGED <<component, dockerVars, presenceVars, inventoryVars>>
  \/ DockerMoves    /\ UNCHANGED <<component, vars, presenceVars, inventoryVars>>
  \/ PresenceMoves  /\ UNCHANGED <<component, vars, dockerVars, inventoryVars>>
  \/ InventoryMoves /\ UNCHANGED <<component, vars, dockerVars, presenceVars>>

\* Where Inventory does not move, nothing that its fairness speaks of is enabled.
HostSpec ==
  /\ HostInit
  /\ [][HostNext]_<<component, vars, dockerVars, presenceVars, inventoryVars>>
  /\ I!Fairness

-----------------------------------------------------------------------------
(* The properties of the components                                        *)

HostTypeOK          == TypeOK /\ D!TypeOK /\ P!TypeOK /\ I!TypeOK
VerdictHeld         == D!VerdictHeld
NeverFalselyOffline == P!NeverFalselyOffline
InventoryArrives    == I!InventoryArrives
=============================================================================
