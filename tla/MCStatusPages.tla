---------------------------- MODULE MCStatusPages ----------------------------
(***************************************************************************)
(* What the public is told: the verdict of a status page (StatusPages), and *)
(* the bars, uptimes and histories made of heartbeats (Heartbeats).  One   *)
(* request asks for both, but they come from queries of their own and no   *)
(* property relates them: a behaviour is one of StatusPages or one of      *)
(* Heartbeats, with the other at rest.                                     *)
(***************************************************************************)
EXTENDS StatusPages, TLC

CONSTANTS
  Bucket, BarCount, Day, Month, Quarter, Overdue, Lags, Stay, MaxBeats, Horizon

\* A day, the bars of a page, and a request are short against 90 days.  So are the
\* silence allowed to a monitor and the delay of its results together, though the code
\* sets no upper limit to the interval: from about 45 days on, heartbeats would be pruned
\* before they are overdue.
ASSUME MomentsAssumption ==
  /\ Day \in Nat /\ Month \in Nat /\ Quarter \in Nat /\ Overdue \in Nat
  /\ Stay \in Nat /\ Horizon \in Nat /\ MaxBeats \in Nat
  /\ Bucket \in Nat \ {0} /\ BarCount \in Nat \ {0}
  /\ Day + Stay <= Quarter
  /\ BarCount * Bucket + Stay <= Quarter
  /\ Overdue <= Quarter
  /\ \A lag \in Lags : lag \in Nat /\ Overdue + lag <= Quarter

VARIABLES
  component,                             \* the one that moves
  now, row, beats, storing, asking, stored  \* Heartbeats

H == INSTANCE Heartbeats WITH jobs <- storing, view <- asking, ever <- stored

heartbeatVars == <<now, row, beats, storing, asking, stored>>

PublicInit ==
  /\ component \in {"pages", "heartbeats"}
  /\ Init /\ H!Init

PagesMove      == component = "pages" /\ Next
HeartbeatsMove == component = "heartbeats" /\ H!Next

PublicNext ==
  \/ PagesMove      /\ UNCHANGED <<component, heartbeatVars>>
  \/ HeartbeatsMove /\ UNCHANGED <<component, vars>>

PublicSpec == PublicInit /\ [][PublicNext]_<<component, vars, heartbeatVars>>

\* No property distinguishes one monitor from another.
MonitorSymmetry == Permutations(Monitors)

-----------------------------------------------------------------------------
(* The properties of Heartbeats                                            *)

PublicTypeOK        == TypeOK /\ H!TypeOK
BarsTellTheWorst    == H!BarsTellTheWorst
StatusHasBar        == H!StatusHasBar
MetricsAgree        == H!MetricsAgree
HistoryComplete     == H!HistoryComplete
PruningHidesNothing == H!PruningHidesNothing
=============================================================================
