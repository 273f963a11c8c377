------------------------------ MODULE MCServer ------------------------------
(***************************************************************************)
(* Parts of the server that meet in the one database connection only: the  *)
(* connection itself (ConnPool), alerts and settings (Notifier), sessions  *)
(* and API keys (Access), and the age of the newest heartbeat of a live    *)
(* monitor (Silence).  ConnPool shows that the calls which the others take *)
(* as steps do not interfere.  Apart from that they share no state, and    *)
(* each has states of its own here: a behaviour is one of one component,   *)
(* with the others at rest.                                                *)
(***************************************************************************)
EXTENDS Silence, ConnPool

CONSTANTS
  Forms, Unset, Admins, Jobs, MaxSaves,                    \* Notifier
  Logins, Browsers, Keys, Readers, TTL, MaxStarts,         \* Access
  MaxFaults, None

VARIABLES
  component,                                               \* the one that moves
  stored, save, job, saves, faults, whole, tested,         \* Notifier
  secret, made, loaded, admins, starts, flow, cookie, key, request, lookups, unread  \* Access

ASSUME ServerAssumption ==
  TTL \in Nat /\ MaxStarts \in Nat /\ MaxSaves \in Nat /\ MaxFaults \in Nat

N == INSTANCE Notifier
A == INSTANCE Access WITH stored <- secret, faults <- lookups

\* A form has a value for every setting.
ASSUME FormsAssumption ==
  \A f \in Forms : f \in [N!ToSet(N!SettableKeys) -> {f[k] : k \in DOMAIN f}]

notifierVars  == <<stored, save, job, saves, faults, whole, tested>>
accessVars    == <<secret, made, loaded, admins, starts, flow, cookie, key, request, lookups, unread>>

ServerInit ==
  /\ component \in {"silence", "pool", "notifier", "access"}
  /\ SilenceInit /\ Init /\ N!Init /\ A!Init

SilenceMoves  == component = "silence" /\ SilenceNext
PoolMoves     == component = "pool" /\ Next
NotifierMoves == component = "notifier" /\ N!Next
AccessMoves   == component = "access" /\ A!Next

ServerNext ==
  \/ SilenceMoves   /\ UNCHANGED <<component, vars, notifierVars, accessVars>>
  \/ PoolMoves      /\ UNCHANGED <<component, silenceVars, notifierVars, accessVars>>
  \/ NotifierMoves  /\ UNCHANGED <<component, silenceVars, vars, accessVars>>
  \/ AccessMoves    /\ UNCHANGED <<component, silenceVars, vars, notifierVars>>

\* Where a component does not move, nothing that its fairness speaks of is enabled.
ServerSpec ==
  /\ ServerInit
  /\ [][ServerNext]_<<component, silenceVars, vars, notifierVars, accessVars>>
  /\ Fairness /\ N!Fairness

-----------------------------------------------------------------------------
(* Values of constants: a form with everything in it, and one without user *)

Filled(v) == [k \in {"webhook", "host", "user", "from", "to"} |-> v]
SomeForms == {Filled(1), [Filled(2) EXCEPT !["user"] = Unset]}

-----------------------------------------------------------------------------
(* The properties of Notifier and Access; those of Silence and ConnPool have  *)
(* their names from there.                                                    *)

ServerTypeOK == SilenceTypeOK /\ TypeOK /\ N!TypeOK /\ A!TypeOK

OneForm               == N!OneForm
TestedIsUsed          == N!TestedIsUsed
EveryAlertGetsThrough == N!EveryAlertGetsThrough

SessionsLast == A!SessionsLast
KeysLast     == A!KeysLast
=============================================================================
