------------------------------ MODULE Presence ------------------------------
(***************************************************************************)
(* Whether an agent is shown online: the agent polls its configuration     *)
(* every 30 s, one request after another and each for 30 s at most; the    *)
(* server notes when it last authenticated a request, and shows the agent  *)
(* as online for 90 s after that.                                          *)
(*                                                                         *)
(* Time passes in units of ten seconds, and only when nothing is due.      *)
(* Results and inventories, which also count as a sign of life, are left   *)
(* out: they can only help.                                                *)
(***************************************************************************)
EXTENDS Naturals

CONSTANTS
  MaxLost  \* how many polls in a row may be lost

Interval == 3  \* of the polls' ticker
Timeout  == 3  \* of the agent's HTTP client
Window   == 9  \* agentOnlineWindow
Never    == Window + 2

VARIABLES
  ticker,   \* time until the ticker fires
  due,      \* the ticker has fired and the loop has not come back to it
  request,  \* how long the poll has been on its way, or "none"
  fate,     \* whether it will reach the server, has reached it, or never will
  lost,     \* polls lost since the last one that did
  seen      \* the age of last_seen

vars == <<ticker, due, request, fate, lost, seen>>

TypeOK ==
  /\ ticker \in 1..Interval
  /\ due \in BOOLEAN
  /\ request \in 0..Timeout \cup {Never}
  /\ fate \in {"coming", "here", "lost"}
  /\ lost \in 0..MaxLost
  /\ seen \in 0..Never

\* The loop polls at once when the agent starts.
Init ==
  /\ ticker = Interval
  /\ due = TRUE
  /\ request = Never
  /\ fate = "lost"
  /\ lost = 0
  /\ seen = Never

Waiting == request # Never

\* A poll is sent as soon as the loop is back at its ticker.
Send ==
  /\ ~Waiting /\ due
  /\ due' = FALSE
  /\ request' = 0
  /\ \/ fate' = "coming" /\ lost' = 0
     \/ fate' = "lost" /\ lost < MaxLost /\ lost' = lost + 1
  /\ UNCHANGED <<ticker, seen>>

\* agentAuth: TouchAgent
Touch ==
  /\ Waiting /\ fate = "coming"
  /\ fate' = "here"
  /\ seen' = 0
  /\ UNCHANGED <<ticker, due, request, lost>>

\* The answer arrives, the connection is refused, or the timeout is over.
Return ==
  /\ Waiting /\ fate # "coming"
  /\ request' = Never
  /\ UNCHANGED <<ticker, due, fate, lost, seen>>

\* Ten seconds later.  The ticker's channel holds one tick; more are dropped.
Tick ==
  /\ IF Waiting THEN request < Timeout ELSE ~due
  /\ request' = IF Waiting THEN request + 1 ELSE request
  /\ ticker' = IF ticker = 1 THEN Interval ELSE ticker - 1
  /\ due' = (due \/ ticker = 1)
  /\ seen' = IF seen = Never THEN Never ELSE seen + 1
  /\ UNCHANGED <<fate, lost>>

Next == Send \/ Touch \/ Return \/ Tick

Spec == Init /\ [][Next]_vars

\* Mutant: the last second of the window does not count.
Bug_Online == seen < Window

\* scanAgent
Online == seen <= Window

\* An agent that runs, and of whose polls at most MaxLost in a row are lost, is
\* never shown offline once it was online (db.go:216, 254; agent.go:65, 79).
NeverFalselyOffline == [][Online => Online']_vars
=============================================================================
