----------------------------- MODULE Maintenance -----------------------------
(***************************************************************************)
(* Maintenance windows: how the schedule admins save becomes the set of    *)
(* monitors whose alerts are paused.                                       *)
(*                                                                         *)
(* Saving a window is two database steps with nothing held between them:   *)
(* the row with the schedule, then one transaction that replaces the list  *)
(* of picked monitors.  The second is refused when a picked monitor, or    *)
(* the window itself, has been deleted meanwhile, and lost when the server *)
(* restarts.  Any other request may run in between.                        *)
(*                                                                         *)
(* The engine's variable "covered" (module Engine) is Covered here.        *)
(***************************************************************************)
EXTENDS Integers, FiniteSets

CONSTANTS
  Monitors,   \* monitor ids
  Windows,    \* window ids the AUTOINCREMENT column may ever hand out
  Admins,     \* concurrent admin requests
  Spans,      \* schedules an admin may choose: [start, end]
  Horizon,    \* by then every schedule is over, and the clock may stand still
  MaxFaults,  \* how many database errors and server restarts may happen
  Deletions,  \* may monitors be deleted?
  None        \* "no such row", "no request"

\* After validateMaintenance.
ASSUME SpansAssumption ==
  \A s \in Spans : /\ s \in [start : Nat, end : Nat]
                   /\ s.start < s.end /\ s.end < Horizon
ASSUME BoundsAssumption == Horizon \in Nat /\ MaxFaults \in Nat /\ Deletions \in BOOLEAN

VARIABLES
  now,    \* the server's clock
  alive,  \* monitors not deleted
  fresh,  \* window ids never handed out
  span,   \* the maintenances table: span[w] is a schedule, or None
  links,  \* the maintenance_monitors table: links[w] is a set of monitors
  req,    \* req[a]: the save a has begun and not finished, or None
  asked,  \* history: the versions of an existing window admins asked for
  whole,  \* history: windows of which one version's monitors were stored
  faults  \* database errors and restarts so far

vars == <<now, alive, fresh, span, links, req, asked, whole, faults>>

Version == [span : Spans, mons : SUBSET Monitors]

\* What the second step of a save still needs.
Request == [win : Windows, mons : SUBSET Monitors]

ASSUME NoneAssumption == None \notin Spans \cup Request

ActiveAt(s, t) == s.start <= t /\ s.end >= t

\* MonitorInActiveMaintenance
Covered(m) == \E w \in Windows : span[w] # None /\ m \in links[w] /\ ActiveAt(span[w], now)

Init ==
  /\ now = 0
  /\ alive = Monitors
  /\ fresh = Windows
  /\ span = [w \in Windows |-> None]
  /\ links = [w \in Windows |-> {}]
  /\ req = [a \in Admins |-> None]
  /\ asked = [w \in Windows |-> {}]
  /\ whole = {}
  /\ faults = 0

-----------------------------------------------------------------------------
(* Saving a window                                                         *)

\* The row is written; the list of monitors is still to come.
WriteRow(a, w, v) ==
  /\ req[a] = None
  /\ span' = [span EXCEPT ![w] = v.span]
  /\ req' = [req EXCEPT ![a] = [win |-> w, mons |-> v.mons]]
  /\ asked' = [asked EXCEPT ![w] = @ \cup {v}]

\* POST /api/admin/maintenances, the INSERT of CreateMaintenance
CreateRow(a, w, v) ==
  /\ w \in fresh
  /\ fresh' = fresh \ {w}
  /\ WriteRow(a, w, v)
  /\ UNCHANGED <<now, alive, links, whole, faults>>

\* PUT /api/admin/maintenances/{id}, the UPDATE of UpdateMaintenance
UpdateRow(a, w, v) ==
  /\ span[w] # None
  /\ WriteRow(a, w, v)
  /\ UNCHANGED <<now, alive, fresh, links, whole, faults>>

Answer(a) == req' = [req EXCEPT ![a] = None]

\* The foreign keys of maintenance_monitors.  (An empty list for a deleted window
\* breaks none, and stores as little as one that is refused.)
Acceptable(r) == span[r.win] # None /\ r.mons \subseteq alive

\* Mutant: the old list is not deleted first.
Bug_SetLinks(a) ==
  /\ req[a] # None /\ Acceptable(req[a])
  /\ links' = [links EXCEPT ![req[a].win] = @ \cup req[a].mons]
  /\ whole' = whole \cup {req[a].win}
  /\ Answer(a)
  /\ UNCHANGED <<now, alive, fresh, span, asked, faults>>

\* setMaintenanceMonitors: one transaction.
SetLinks(a) ==
  /\ req[a] # None /\ Acceptable(req[a])
  /\ links' = [links EXCEPT ![req[a].win] = req[a].mons]
  /\ whole' = whole \cup {req[a].win}
  /\ Answer(a)
  /\ UNCHANGED <<now, alive, fresh, span, asked, faults>>

\* Mutant: the DELETE is not rolled back with the refused INSERT.
Bug_SetLinksRefused(a) ==
  /\ req[a] # None /\ ~Acceptable(req[a])
  /\ links' = [links EXCEPT ![req[a].win] = {}]
  /\ Answer(a)
  /\ UNCHANGED <<now, alive, fresh, span, asked, whole, faults>>

\* A foreign key refuses the list; the transaction is rolled back and the admin
\* gets an error.
SetLinksRefused(a) ==
  /\ req[a] # None /\ ~Acceptable(req[a])
  /\ Answer(a)
  /\ UNCHANGED <<now, alive, fresh, span, links, asked, whole, faults>>

Fault == faults < MaxFaults /\ faults' = faults + 1

SetLinksFails(a) ==
  /\ req[a] # None
  /\ Fault
  /\ Answer(a)
  /\ UNCHANGED <<now, alive, fresh, span, links, asked, whole>>

-----------------------------------------------------------------------------
(* Everything else                                                         *)

\* DELETE /api/admin/maintenances/{id}; its links go with it.
DeleteWindow(w) ==
  /\ span[w] # None
  /\ span' = [span EXCEPT ![w] = None]
  /\ links' = [links EXCEPT ![w] = {}]
  /\ asked' = [asked EXCEPT ![w] = {}]
  /\ whole' = whole \ {w}
  /\ UNCHANGED <<now, alive, fresh, req, faults>>

\* DELETE /api/admin/monitors/{id}
DeleteMonitor(m) ==
  /\ Deletions
  /\ m \in alive
  /\ alive' = alive \ {m}
  /\ links' = [w \in Windows |-> links[w] \ {m}]
  /\ UNCHANGED <<now, fresh, span, req, asked, whole, faults>>

Tick ==
  /\ now' = IF now < Horizon THEN now + 1 ELSE now
  /\ UNCHANGED <<alive, fresh, span, links, req, asked, whole, faults>>

\* The server process dies and starts again: saves begun are not finished.
Restart ==
  /\ Fault
  /\ req' = [a \in Admins |-> None]
  /\ UNCHANGED <<now, alive, fresh, span, links, asked, whole>>

Next ==
  \/ \E a \in Admins :
       \/ \E w \in Windows, v \in Version : CreateRow(a, w, v) \/ UpdateRow(a, w, v)
       \/ SetLinks(a) \/ SetLinksRefused(a) \/ SetLinksFails(a)
  \/ \E w \in Windows : DeleteWindow(w)
  \/ \E m \in Monitors : DeleteMonitor(m)
  \/ Tick \/ Restart

Spec == Init /\ [][Next]_vars

-----------------------------------------------------------------------------
(* Properties                                                              *)

TypeOK ==
  /\ now \in 0..Horizon
  /\ alive \subseteq Monitors
  /\ fresh \subseteq Windows
  /\ span \in [Windows -> Spans \cup {None}]
  /\ links \in [Windows -> SUBSET Monitors]
  /\ req \in [Admins -> Request \cup {None}]
  /\ asked \in [Windows -> SUBSET Version]
  /\ whole \subseteq Windows
  /\ faults \in 0..MaxFaults

\* Editing a window never opens a gap: a monitor that every version of a window
\* picks, at a time inside the schedule of every version, is in maintenance from
\* the moment the first version is stored, through concurrent, refused, failing
\* and half-finished saves (db.go:816-856).
NoGap ==
  \A w \in whole, m \in alive :
    (\A v \in asked[w] : m \in v.mons /\ ActiveAt(v.span, now)) => Covered(m)

\* "schedule them, pick the affected monitors; their alerts are paused during the
\* window" (README:30-31): once every save has been answered, alerts are paused only
\* for monitors picked together with a schedule that is now active.
PausedOnlyAsPicked ==
  (\A a \in Admins : req[a] = None) => \A m \in alive : Covered(m) =>
    \E w \in Windows : \E v \in asked[w] : m \in v.mons /\ ActiveAt(v.span, now)

\* What keeps NoGap: the schedule and the monitors of a window are those of
\* versions asked for, though perhaps of different ones.
VersionInv ==
  /\ \A w \in Windows : /\ w \in fresh => span[w] = None
                        /\ span[w] = None => w \notin whole
                        /\ span[w] # None => \E v \in asked[w] : v.span = span[w]
  /\ \A w \in whole : \E v \in asked[w] : links[w] = v.mons \cap alive
  /\ \A a \in Admins : req[a] # None =>
       /\ req[a].win \notin fresh
       /\ span[req[a].win] # None => \E v \in asked[req[a].win] : v.mons = req[a].mons
=============================================================================
