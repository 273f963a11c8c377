---------------------------- MODULE StatusBoard ----------------------------
(***************************************************************************)
(* What the status engine promises, with no trace of how results are       *)
(* processed: a board shows one status per monitor; whenever it turns over *)
(* from up to down or back, and only then, one announcement is owed, which *)
(* is either made or dropped because the monitor is in maintenance.        *)
(*                                                                         *)
(* The promise is weaker while results of a monitor cross: a turnover may  *)
(* be announced more than once, and one of a monitor that has crossed ever *)
(* since its first result not at all.  And when something fails, an        *)
(* announcement may be owed, or made, for no reason, or all be lost.       *)
(***************************************************************************)
CONSTANTS
  Monitors,   \* monitor ids
  Reported,   \* the two statuses a result may have
  Pending,    \* shown before the first result
  Unborn,     \* the id has not been handed out
  Gone        \* the monitor was deleted

VARIABLES
  shown,    \* shown[m]: the status of m on the board, Pending, Unborn or Gone
  owed,     \* turnovers not yet announced or dropped: [mon, status]
  covered,  \* monitors in maintenance
  outbox,   \* announcements on their way
  \* Inputs, which the board looks at and does not move:
  crossed,  \* monitors with results that cross each other
  settled,  \* monitors whose first results are over
  faults    \* what has failed so far

vars == <<shown, owed, covered, outbox>>

OnBoard  == {m \in Monitors : shown[m] \in Reported \cup {Pending}}
Owing(m) == \E o \in owed : o.mon = m
Owe(m, s) == owed' = owed \cup {[mon |-> m, status |-> s]}
Failing   == faults' # faults

Init ==
  /\ shown = [m \in Monitors |-> Unborn]
  /\ owed = {}
  /\ covered = {}
  /\ outbox = {}

Appear(m) ==
  /\ shown[m] = Unborn
  /\ shown' = [shown EXCEPT ![m] = Pending]
  /\ UNCHANGED <<owed, covered, outbox>>

Disappear(S) ==
  /\ covered' = covered \ S
  /\ S # {} /\ S \subseteq OnBoard
  /\ shown' = [m \in Monitors |-> IF m \in S THEN Gone ELSE shown[m]]
  /\ UNCHANGED <<owed, outbox>>

\* The first result of a monitor is shown and never announced.
First(m, s) ==
  /\ shown[m] = Pending
  /\ shown' = [shown EXCEPT ![m] = s]
  /\ UNCHANGED <<owed, covered, outbox>>

\* Turnovers of one monitor are settled one after the other, unless they cross.
Turn(m, s) ==
  /\ shown[m] \in Reported \ {s}
  /\ Owing(m) => m \in crossed
  /\ shown' = [shown EXCEPT ![m] = s]
  /\ Owe(m, s)
  /\ UNCHANGED <<covered, outbox>>

\* A first result that crosses a later one turns the board without a word.
SilentTurn(m, s) ==
  /\ m \in crossed \ settled
  /\ shown[m] \in Reported \ {s}
  /\ shown' = [shown EXCEPT ![m] = s]
  /\ UNCHANGED <<owed, covered, outbox>>

\* A monitor deleted while its turnover was being recorded may be announced.
TurnOfDeleted(m, s) ==
  /\ shown[m] = Gone
  /\ Owing(m) => m \in crossed
  /\ Owe(m, s)
  /\ UNCHANGED <<shown, covered, outbox>>

\* Of two results that cross, the second owes what the board already shows; and
\* the turnover of a board that cannot be written is owed all the same.
Repeat(m, s) ==
  /\ shown[m] \in Reported
  /\ \/ m \in crossed /\ shown[m] = s
     \/ Failing /\ (Owing(m) => m \in crossed)
  /\ Owe(m, s)
  /\ UNCHANGED <<shown, covered, outbox>>

\* What two results owe at once stays owed when the first of them is settled.
Settled(o) ==
  \/ owed' = owed \ {o}
  \/ o.mon \in crossed /\ UNCHANGED owed

Announce(o) ==
  /\ o \in owed
  /\ o.mon \notin covered \/ Failing
  /\ Settled(o)
  /\ outbox' = outbox \cup {o}
  /\ UNCHANGED <<shown, covered>>

Suppress(o) ==
  /\ o \in owed /\ o.mon \in covered
  /\ Settled(o)
  /\ UNCHANGED <<shown, covered, outbox>>

Deliver(o) ==
  /\ o \in outbox
  /\ outbox' = outbox \ {o}
  /\ UNCHANGED <<shown, owed, covered>>

Cover(S) ==
  /\ covered' = S
  /\ S \subseteq OnBoard
  /\ UNCHANGED <<shown, owed, outbox>>

\* Announcements are not kept anywhere.
Forget ==
  /\ Failing
  /\ owed' = {} /\ outbox' = {}
  /\ UNCHANGED <<shown, covered>>

Settle(o) == Announce(o) \/ Suppress(o)

Next ==
  \/ \E m \in Monitors : Appear(m)
  \/ \E S \in SUBSET Monitors : Disappear(S) \/ Cover(S)
  \/ \E m \in Monitors, s \in Reported :
       First(m, s) \/ Turn(m, s) \/ SilentTurn(m, s) \/ TurnOfDeleted(m, s) \/ Repeat(m, s)
  \/ \E o \in owed : Settle(o)
  \/ \E o \in outbox : Deliver(o)
  \/ Forget

Spec == Init /\ [][Next]_vars
=============================================================================
