------------------------------- MODULE Silence -------------------------------
(***************************************************************************)
(* How old the newest heartbeat of a monitor gets while its agent works:   *)
(* the runner checks, posts the result, waits for the interval to pass,    *)
(* and checks again, so that the time between two results is the interval  *)
(* and whatever check and post take; a new monitor waits for the next poll *)
(* of its agent first.  The server gives a monitor up for silent after two *)
(* intervals and 30 s.                                                     *)
(*                                                                         *)
(* The stale scan may come at any moment.  What it does then is in module  *)
(* Engine; here it is about whether it has any reason to.                  *)
(***************************************************************************)
EXTENDS Integers

CONSTANTS
  Interval,  \* interval_sec
  Grace,     \* the 30 s of the staleness query
  Pickup,    \* how long a new monitor waits for its runner
  MaxCheck,  \* how long a check may take: its timeout
  MaxPost    \* how long a post may take, with success or without: its timeout

ASSUME TimesAssumption ==
  /\ Interval \in Nat /\ Grace \in Nat /\ Pickup \in Nat
  /\ MaxCheck \in Nat /\ MaxPost \in Nat

VARIABLES
  phase,   \* what the runner is doing
  spent,   \* for how long it has been doing so
  fate,    \* whether its post will reach the server, has reached it, or never will
  missed,  \* results lost since the last one that arrived: at most one
  age,     \* of the newest heartbeat, or of the row
  worked   \* how much of that time the agent did not spend resting (history)

silenceVars == <<phase, spent, fate, missed, age, worked>>

Longest ==
  IF phase = "starting" THEN Pickup
  ELSE IF phase = "checking" THEN MaxCheck
  ELSE IF phase = "posting" THEN MaxPost
  ELSE Interval

SilenceTypeOK ==
  /\ phase \in {"starting", "checking", "posting", "resting"}
  /\ spent \in Nat /\ spent <= Longest
  /\ fate \in {"coming", "stored", "lost"}
  /\ missed \in {0, 1}
  /\ age \in Nat /\ worked \in Nat

\* CreateMonitor has just stored the row.
SilenceInit ==
  /\ phase = "starting"
  /\ spent = 0
  /\ fate = "lost"
  /\ missed = 0
  /\ age = 0 /\ worked = 0

-----------------------------------------------------------------------------

Enter(p) == phase' = p /\ spent' = 0

Tick ==
  /\ spent < Longest
  /\ spent' = spent + 1
  /\ age' = age + 1
  /\ worked' = IF phase = "resting" THEN worked ELSE worked + 1
  /\ UNCHANGED <<phase, fate, missed>>

\* syncConfig starts the runner, which checks at once.
PickedUp ==
  /\ phase = "starting"
  /\ Enter("checking")
  /\ UNCHANGED <<fate, missed, age, worked>>

\* The result is stamped with the time and posted.  Not two in a row are lost.
Checked ==
  /\ phase = "checking"
  /\ Enter("posting")
  /\ \/ fate' = "coming" /\ UNCHANGED missed
     \/ fate' = "lost" /\ missed = 0 /\ missed' = 1
  /\ UNCHANGED <<age, worked>>

\* ProcessResult stores the heartbeat, with the time of the check.
Arrive ==
  /\ phase = "posting" /\ fate = "coming"
  /\ fate' = "stored"
  /\ missed' = 0
  /\ age' = spent /\ worked' = spent
  /\ UNCHANGED <<phase, spent>>

\* The post is answered, or has failed.
Posted ==
  /\ phase = "posting" /\ fate # "coming"
  /\ Enter("resting")
  /\ UNCHANGED <<fate, missed, age, worked>>

\* The interval counts from here, not from the last check.
Rested ==
  /\ phase = "resting" /\ spent = Interval
  /\ Enter("checking")
  /\ UNCHANGED <<fate, missed, age, worked>>

SilenceNext == Tick \/ PickedUp \/ Checked \/ Arrive \/ Posted \/ Rested

SilenceSpec == SilenceInit /\ [][SilenceNext]_silenceVars

-----------------------------------------------------------------------------

\* Mutant: no grace.
Bug_Limit == 2 * Interval

\* StaleMonitorCandidates
Limit == 2 * Interval + Grace

\* A monitor whose agent is at work is taken for silent only because of what its
\* checks, its posts and the wait for its runner took since the newest heartbeat:
\* more than the grace, if a result was lost, and more than an interval and the
\* grace, if none was (db.go:573-579, agent.go:136-150).  The timeouts allow for
\* that; resting, and one lost result, are never enough.
StaleOnlyIfSlow ==
  age > Limit => worked > Grace + (IF missed = 0 THEN Interval ELSE 0)

\* How much of the age the runner may have spent resting.
Earlier == IF missed = 0 THEN 0 ELSE Interval
Rests ==
  IF phase = "starting" \/ (phase = "posting" /\ fate = "stored") THEN 0
  ELSE IF phase = "resting" THEN Earlier + spent
  ELSE IF phase = "posting" /\ fate = "lost" THEN Earlier
  ELSE Earlier + Interval

\* What keeps StaleOnlyIfSlow.
RestsInv ==
  /\ SilenceTypeOK
  /\ (phase = "posting" /\ fate = "lost") => missed = 1
  /\ age <= worked + Rests
=============================================================================
