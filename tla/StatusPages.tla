----------------------------- MODULE StatusPages -----------------------------
(***************************************************************************)
(* Status pages: how admins save them, and how one public request puts its *)
(* answer together from several queries while monitors, maintenance        *)
(* windows, incidents and the page itself change.                          *)
(*                                                                         *)
(* Saving a page is, like saving a maintenance window (module Maintenance),*)
(* a row first and one transaction with the list of picked monitors after  *)
(* it.  A public request reads the page's row, its list, the windows one   *)
(* by one, the monitors and at last the incidents, with nothing held in    *)
(* between.  Requests only read, so one of them stands for any number.     *)
(***************************************************************************)
EXTENDS Naturals, FiniteSets

CONSTANTS
  Monitors,   \* monitor ids
  Windows,    \* maintenance windows
  Pages,      \* page ids the AUTOINCREMENT column may ever hand out
  Slugs,      \* a page's address
  Incidents,  \* incident ids
  Admins,     \* concurrent admin requests
  MaxMoves,   \* how many changes happen while pages are read
  MaxFaults,  \* how many database errors and server restarts may happen
  None        \* "no such row", "no request"

Row     == [slug : Slugs, published : BOOLEAN]
Version == [row : Row, mons : SUBSET Monitors]
Save    == [page : Pages, mons : SUBSET Monitors]
Window  == [active : BOOLEAN, mons : SUBSET Monitors]

ASSUME NoneAssumption   == None \notin Row \cup Save \cup Pages
ASSUME BoundsAssumption == MaxMoves \in Nat /\ MaxFaults \in Nat

VARIABLES
  page,      \* the status_pages table: page[p] is a row, or None
  picks,     \* the status_page_monitors table
  unused,    \* page ids never handed out
  status,    \* the monitors table: last_status, or "deleted"
  window,    \* the maintenances and maintenance_monitors tables, at this moment
  incident,  \* the incidents table: the page of an open incident, or None
  save,      \* save[a]: the page a is saving and has not yet picked monitors for
  view,      \* the public request and what it has read so far
  moves,     \* changes so far
  faults,    \* database errors and restarts so far
  asked,     \* history: the versions of an existing page admins asked for
  whole,     \* history: pages of which one version's list was stored
  lasting,   \* history: what has been so since the request began
  ever       \* history: monitors that were down at some moment since it began

tables == <<page, picks, unused, status, window, incident>>
vars   == <<tables, save, view, moves, faults, asked, whole, lasting, ever>>

Statuses == {"down", "up", "pending"}
Overall  == {"down", "maintenance", "degraded", "up"}

\* at: the next query, or the end.
View == [at : {"idle", "list", "windows", "window", "monitors", "incidents", "answered"},
         page : Pages \cup {None}, mons : SUBSET Monitors,
         todo : SUBSET Windows, maint : SUBSET Monitors, overall : Overall]

Idle == [at |-> "idle", page |-> None, mons |-> {}, todo |-> {}, maint |-> {}, overall |-> "up"]

Alive      == {m \in Monitors : status[m] # "deleted"}
Planned(m) == \E w \in Windows : m \in window[w].mons

Init ==
  /\ page = [p \in Pages |-> None]
  /\ picks = [p \in Pages |-> {}]
  /\ unused = Pages
  /\ status = [m \in Monitors |-> "pending"]
  /\ window = [w \in Windows |-> [active |-> FALSE, mons |-> {}]]
  /\ incident = [i \in Incidents |-> None]
  /\ save = [a \in Admins |-> None]
  /\ view = Idle
  /\ moves = 0 /\ faults = 0
  /\ asked = [p \in Pages |-> {}]
  /\ whole = {}
  /\ lasting = [down |-> {}, open |-> {}]
  /\ ever = {}

-----------------------------------------------------------------------------
(* Saving a page                                                           *)

Move  == moves < MaxMoves /\ moves' = moves + 1 /\ UNCHANGED faults
Fault == faults < MaxFaults /\ faults' = faults + 1 /\ UNCHANGED moves

\* The row is written, if no other page has the slug (UNIQUE); the list of
\* monitors is still to come.
WriteRow(a, p, v) ==
  /\ save[a] = None
  /\ \A q \in Pages \ {p} : page[q] # None => page[q].slug # v.row.slug
  /\ page' = [page EXCEPT ![p] = v.row]
  /\ save' = [save EXCEPT ![a] = [page |-> p, mons |-> v.mons]]
  /\ asked' = [asked EXCEPT ![p] = @ \cup {v}]

\* POST /api/admin/status-pages, the INSERT of CreateStatusPage
CreateRow(a, p, v) ==
  /\ p \in unused
  /\ Move
  /\ WriteRow(a, p, v)
  /\ unused' = unused \ {p}
  /\ UNCHANGED <<picks, status, window, incident, view, whole>>

\* PUT /api/admin/status-pages/{id}, the UPDATE of UpdateStatusPage
UpdateRow(a, p, v) ==
  /\ page[p] # None
  /\ Move
  /\ WriteRow(a, p, v)
  /\ UNCHANGED <<picks, unused, status, window, incident, view, whole>>

\* The foreign keys of status_page_monitors.  (An empty list for a deleted page
\* breaks none, and stores as little as one that is refused.)
Acceptable(r) == page[r.page] # None /\ r.mons \subseteq Alive

Answer(a) == save' = [save EXCEPT ![a] = None]

\* setPageMonitors: one transaction.
SetPicks(a) ==
  /\ save[a] # None /\ Acceptable(save[a])
  /\ picks' = [picks EXCEPT ![save[a].page] = save[a].mons]
  /\ whole' = whole \cup {save[a].page}
  /\ Answer(a)
  /\ UNCHANGED <<page, unused, status, window, incident, view, moves, faults, asked>>

\* Mutant: the DELETE is not rolled back with the refused INSERT.
Bug_SetPicksRefused(a) ==
  /\ save[a] # None /\ ~Acceptable(save[a])
  /\ picks' = [picks EXCEPT ![save[a].page] = {}]
  /\ Answer(a)
  /\ UNCHANGED <<page, unused, status, window, incident, view, moves, faults, asked, whole>>

\* A foreign key refuses the list: it is rolled back, the row stays.
SetPicksRefused(a) ==
  /\ save[a] # None /\ ~Acceptable(save[a])
  /\ Answer(a)
  /\ UNCHANGED <<tables, view, moves, faults, asked, whole>>

SetPicksFails(a) ==
  /\ save[a] # None
  /\ Fault
  /\ Answer(a)
  /\ UNCHANGED <<tables, view, asked, whole>>

\* DELETE /api/admin/status-pages/{id}; its list and its incidents go with it.
DeletePage(p) ==
  /\ page[p] # None
  /\ Move
  /\ page' = [page EXCEPT ![p] = None]
  /\ picks' = [picks EXCEPT ![p] = {}]
  /\ incident' = [i \in Incidents |-> IF incident[i] = p THEN None ELSE incident[i]]
  /\ asked' = [asked EXCEPT ![p] = {}]
  /\ whole' = whole \ {p}
  /\ UNCHANGED <<unused, status, window, save, view>>

-----------------------------------------------------------------------------
(* Incidents, monitors and windows                                         *)

\* POST /api/admin/incidents: the foreign key wants a page.
OpenIncident(i, p) ==
  /\ incident[i] = None /\ page[p] # None
  /\ Move
  /\ incident' = [incident EXCEPT ![i] = p]
  /\ UNCHANGED <<page, picks, unused, status, window, save, view, asked, whole>>

\* Mutant: the incident is resolved, but belongs to no page any more.
Bug_CloseIncident(i) ==
  /\ incident[i] # None
  /\ Move
  /\ incident' = [incident EXCEPT ![i] = {}]
  /\ UNCHANGED <<page, picks, unused, status, window, save, view, asked, whole>>

\* Resolved or deleted; a resolved incident is not opened again.
CloseIncident(i) ==
  /\ incident[i] # None
  /\ Move
  /\ incident' = [incident EXCEPT ![i] = None]
  /\ UNCHANGED <<page, picks, unused, status, window, save, view, asked, whole>>

\* The engine stores a status (module Engine).
StatusMoves(m, s) ==
  /\ status[m] \notin {s, "deleted"} /\ s # "pending"
  /\ Move
  /\ status' = [status EXCEPT ![m] = s]
  /\ UNCHANGED <<page, picks, unused, window, incident, save, view, asked, whole>>

DeleteMonitor(m) ==
  /\ m \in Alive
  /\ Move
  /\ status' = [status EXCEPT ![m] = "deleted"]
  /\ picks' = [p \in Pages |-> picks[p] \ {m}]
  /\ window' = [w \in Windows |-> [window[w] EXCEPT !.mons = @ \ {m}]]
  /\ UNCHANGED <<page, unused, incident, save, view, asked, whole>>

\* A window begins, ends, or gets other monitors (module Maintenance).
WindowMoves(w, x) ==
  /\ x # window[w] /\ x.mons \subseteq Alive
  /\ Move
  /\ window' = [window EXCEPT ![w] = x]
  /\ UNCHANGED <<page, picks, unused, status, incident, save, view, asked, whole>>

-----------------------------------------------------------------------------
(* GET /api/status/{slug}                                                  *)

Reading == UNCHANGED <<tables, save, moves, faults, asked, whole>>

Public(s) == {p \in Pages : page[p] # None /\ page[p].slug = s /\ page[p].published}

\* A request for an unknown slug, or for a page not published, is answered 404.
NotFound(s) == Public(s) = {} /\ UNCHANGED vars

ReadPage(p) ==
  /\ view.at \in {"idle", "answered"}
  /\ \E s \in Slugs : p \in Public(s)
  /\ view' = [Idle EXCEPT !.at = "list", !.page = p]
  /\ Reading

\* pageMonitorIDs
ReadList ==
  /\ view.at = "list"
  /\ view' = [view EXCEPT !.at = "windows", !.mons = picks[view.page]]
  /\ Reading

\* ListMaintenances: first the rows, of which those active now count, ...
ReadWindows ==
  /\ view.at = "windows"
  /\ view' = [view EXCEPT !.at = "window", !.todo = {w \in Windows : window[w].active}]
  /\ Reading

\* ... then the monitors of one window after the other.
ReadWindow(w) ==
  /\ view.at = "window" /\ w \in view.todo
  /\ view' = [view EXCEPT !.todo = @ \ {w}, !.maint = @ \cup (window[w].mons \cap view.mons)]
  /\ Reading

WindowsRead ==
  /\ view.at = "window" /\ view.todo = {}
  /\ view' = [view EXCEPT !.at = "monitors"]
  /\ Reading

\* Mutant: the zero value of an absent monitor, whose status is "down", counts.
Bug_Down(v) == {m \in v.mons : status[m] \in {"down", "deleted"}} \ v.maint

\* The monitors that make the page "down".
Down(v) == {m \in v.mons : status[m] = "down"} \ v.maint

\* A monitor deleted since the list was read is left out.
Verdict(v) ==
  IF Down(v) # {} THEN "down"
  ELSE IF v.mons \cap Alive \cap v.maint # {} THEN "maintenance" ELSE "up"

\* MonitorsByIDs; the two queries for bars and uptimes change nothing of it.
ReadMonitors ==
  /\ view.at = "monitors"
  /\ view' = [view EXCEPT !.at = "incidents", !.overall = Verdict(view)]
  /\ Reading

OpenOn(p) == {i \in Incidents : incident[i] = p}

\* Mutant: incidents are not looked at.
Bug_ReadIncidents ==
  /\ view.at = "incidents"
  /\ view' = [view EXCEPT !.at = "answered"]
  /\ Reading

\* ListIncidents: an open incident degrades a page that is otherwise up.
ReadIncidents ==
  /\ view.at = "incidents"
  /\ view' = [view EXCEPT !.at = "answered",
                !.overall = IF @ = "up" /\ OpenOn(view.page) # {} THEN "degraded" ELSE @]
  /\ Reading

\* A query fails, and the request with it.
ReadFails ==
  /\ view.at \notin {"idle", "answered"}
  /\ Fault
  /\ view' = Idle
  /\ UNCHANGED <<tables, save, asked, whole>>

\* The server process dies and starts again: saves begun are not finished.
Restart ==
  /\ Fault
  /\ save' = [a \in Admins |-> None]
  /\ view' = Idle
  /\ UNCHANGED <<tables, asked, whole>>

-----------------------------------------------------------------------------
(* Specification                                                           *)

\* Monitors that every version of the page picks, that are down and that no window
\* picks; and the page's open incidents.
Lasting ==
  [down |-> {m \in Alive : /\ status[m] = "down" /\ ~Planned(m)
                           /\ view.page \in whole /\ \A v \in asked[view.page] : m \in v.mons},
   open |-> OpenOn(view.page)]

DownNow == {m \in Alive : status[m] = "down"}

\* History: "lasting" shrinks and "ever" grows while a request is under way.
Watch ==
  CASE view'.at = "idle" -> lasting' = [down |-> {}, open |-> {}] /\ ever' = {}
    [] view'.at = "list" /\ view.at # "list" -> lasting' = Lasting' /\ ever' = DownNow'
    [] OTHER -> /\ lasting' = [down |-> lasting.down \cap Lasting'.down,
                               open |-> lasting.open \cap Lasting'.open]
                /\ ever' = ever \cup DownNow'

Admin ==
  \/ \E a \in Admins, p \in Pages, v \in Version : CreateRow(a, p, v) \/ UpdateRow(a, p, v)
  \/ \E a \in Admins : SetPicks(a) \/ SetPicksRefused(a) \/ SetPicksFails(a)
  \/ \E p \in Pages : DeletePage(p)
  \/ \E i \in Incidents : CloseIncident(i) \/ \E p \in Pages : OpenIncident(i, p)

World ==
  \/ \E m \in Monitors : DeleteMonitor(m) \/ \E s \in Statuses : StatusMoves(m, s)
  \/ \E w \in Windows, x \in Window : WindowMoves(w, x)

Read ==
  \/ \E s \in Slugs : NotFound(s)
  \/ \E p \in Pages : ReadPage(p)
  \/ ReadList \/ ReadWindows \/ WindowsRead \/ ReadMonitors \/ ReadIncidents \/ ReadFails
  \/ \E w \in Windows : ReadWindow(w)

Next == (Admin \/ World \/ Read \/ Restart) /\ Watch

Spec == Init /\ [][Next]_vars

-----------------------------------------------------------------------------
(* Properties                                                              *)

TypeOK ==
  /\ page \in [Pages -> Row \cup {None}]
  /\ picks \in [Pages -> SUBSET Monitors]
  /\ unused \subseteq Pages
  /\ status \in [Monitors -> Statuses \cup {"deleted"}]
  /\ window \in [Windows -> Window]
  /\ incident \in [Incidents -> Pages \cup {None}]
  /\ save \in [Admins -> Save \cup {None}]
  /\ view \in View
  /\ moves \in 0..MaxMoves /\ faults \in 0..MaxFaults

Answered == view.at = "answered"

\* A page is "down" if a monitor that all its versions pick was down, and picked by
\* no maintenance window, for as long as the request took, whatever else was saved,
\* refused, resolved or deleted meanwhile (statuspage.go:38-147).  "Not covered"
\* would not do: a window may leave the present after its row was read and get the
\* monitor before its list is.
NoFalseGreen == Answered /\ lasting.down # {} => view.overall = "down"

\* A page is "down" only if a monitor really was down at some moment of the
\* request: not because one was deleted while it was under way
\* (statuspage.go:103-106).
NoFalseAlarm == Answered /\ view.overall = "down" => ever # {}

\* An incident open for as long as the request took is never passed over: the
\* page is not "up" (statuspage.go:149-168).
IncidentShows == Answered /\ lasting.open # {} => view.overall # "up"
=============================================================================
