---------------------------- MODULE PublicProofs ----------------------------
(* Proofs about what the public is told, for any number of monitors, windows, *)
(* pages, incidents, admins, changes and faults.                              *)
EXTENDS MCStatusPages, Sequences, FiniteSetTheorems, FunctionTheorems, WellFoundedInduction, TLAPS

(***************************************************************************)
(* Status pages                                                            *)
(***************************************************************************)

\* The history variables.
HistoryOK ==
  /\ asked \in [Pages -> SUBSET Version]
  /\ whole \subseteq Pages
  /\ lasting \in [down : SUBSET Monitors, open : SUBSET Incidents]
  /\ ever \subseteq Monitors
  /\ view.at # "idle" => view.page \in Pages

LEMMA InitTyped == Init => TypeOK /\ HistoryOK
<1> USE BoundsAssumption DEF Init
<1>1. Init => TypeOK
  BY DEF TypeOK, Statuses, Window, View, Idle, Overall
<1>2. Init => HistoryOK
  BY DEF HistoryOK, Idle
<1>3. QED
  BY <1>1, <1>2

\* A change, or a fault, keeps within its bound.
LEMMA CountersTyped ==
  ASSUME TypeOK, Move \/ Fault \/ UNCHANGED <<moves, faults>>
  PROVE  moves' \in 0..MaxMoves /\ faults' \in 0..MaxFaults
  BY BoundsAssumption DEF TypeOK, Move, Fault

\* Statuses, windows and lists change; nothing else does.
TablesTyped ==
  /\ TypeOK
  /\ asked \in [Pages -> SUBSET Version]
  /\ whole \subseteq Pages

LEMMA AdminTyped == TypeOK /\ HistoryOK /\ Admin => TablesTyped' /\ view' = view
<1> SUFFICES ASSUME TypeOK, HistoryOK, Admin
             PROVE  TablesTyped' /\ view' = view
  OBVIOUS
<1> USE DEF TypeOK, HistoryOK, TablesTyped
<1>1. ASSUME NEW a \in Admins, NEW p \in Pages, NEW v \in Version,
             CreateRow(a, p, v) \/ UpdateRow(a, p, v)
      PROVE  TablesTyped' /\ view' = view
  BY <1>1, CountersTyped DEF CreateRow, UpdateRow, WriteRow, Version, Save
<1>2. ASSUME NEW a \in Admins, SetPicks(a) \/ SetPicksRefused(a) \/ SetPicksFails(a)
      PROVE  TablesTyped' /\ view' = view
  BY <1>2, CountersTyped DEF SetPicks, SetPicksRefused, SetPicksFails, Answer, tables, Save, Acceptable
<1>3. ASSUME NEW p \in Pages, DeletePage(p)
      PROVE  TablesTyped' /\ view' = view
  BY <1>3, CountersTyped DEF DeletePage
<1>4. ASSUME NEW i \in Incidents, CloseIncident(i) \/ \E p \in Pages : OpenIncident(i, p)
      PROVE  TablesTyped' /\ view' = view
  BY <1>4, CountersTyped DEF CloseIncident, OpenIncident
<1>5. QED
  BY <1>1, <1>2, <1>3, <1>4 DEF Admin

LEMMA WorldTyped == TypeOK /\ HistoryOK /\ World => TablesTyped' /\ view' = view
<1> SUFFICES ASSUME TypeOK, HistoryOK, World
             PROVE  TablesTyped' /\ view' = view
  OBVIOUS
<1> USE DEF TypeOK, HistoryOK, TablesTyped
<1>1. ASSUME NEW m \in Monitors, DeleteMonitor(m)
      PROVE  TablesTyped' /\ view' = view
  BY <1>1, CountersTyped DEF DeleteMonitor, Alive, Window
<1>2. ASSUME NEW m \in Monitors, NEW s \in Statuses, StatusMoves(m, s)
      PROVE  TablesTyped' /\ view' = view
  BY <1>2, CountersTyped DEF StatusMoves
<1>3. ASSUME NEW w \in Windows, NEW x \in Window, WindowMoves(w, x)
      PROVE  TablesTyped' /\ view' = view
  BY <1>3, CountersTyped DEF WindowMoves
<1>4. QED
  BY <1>1, <1>2, <1>3 DEF World

LEMMA ReadTyped ==
  TypeOK /\ HistoryOK /\ Read => TablesTyped' /\ (view.at # "idle" => view.page \in Pages)'
<1> SUFFICES ASSUME TypeOK, HistoryOK, Read
             PROVE  TablesTyped' /\ (view'.at # "idle" => view'.page \in Pages)
  OBVIOUS
<1> USE DEF TypeOK, HistoryOK, TablesTyped
<1>1. CASE \E s \in Slugs : NotFound(s)
  BY <1>1 DEF NotFound, vars, tables
<1>2. ASSUME NEW p \in Pages, ReadPage(p)
      PROVE  TablesTyped' /\ (view'.at # "idle" => view'.page \in Pages)
  BY <1>2 DEF ReadPage, Reading, tables, Idle, View, Overall
<1>3. CASE ReadList
  BY <1>3 DEF ReadList, Reading, tables, View
<1>4. CASE ReadWindows
  BY <1>4 DEF ReadWindows, Reading, tables, View
<1>5. CASE WindowsRead
  BY <1>5 DEF WindowsRead, Reading, tables, View
<1>6. CASE ReadMonitors
  BY <1>6 DEF ReadMonitors, Reading, tables, View, Verdict, Overall
<1>7. CASE ReadIncidents
  BY <1>7 DEF ReadIncidents, Reading, tables, View, Overall
<1>8. CASE ReadFails
  BY <1>8, CountersTyped DEF ReadFails, tables, View, Idle, Overall
<1>9. ASSUME NEW w \in Windows, ReadWindow(w)
      PROVE  TablesTyped' /\ (view'.at # "idle" => view'.page \in Pages)
  BY <1>9 DEF ReadWindow, Reading, tables, View
<1>10. QED
  BY <1>1, <1>2, <1>3, <1>4, <1>5, <1>6, <1>7, <1>8, <1>9 DEF Read

\* What is watched are monitors and incidents.
LEMMA WatchTyped ==
  ASSUME TypeOK, HistoryOK, Watch
  PROVE  lasting' \in [down : SUBSET Monitors, open : SUBSET Incidents] /\ ever' \subseteq Monitors
  BY DEF HistoryOK, Watch, Lasting, DownNow, Alive, OpenOn

LEMMA StepTyped == TypeOK /\ HistoryOK /\ [Next]_vars => TypeOK' /\ HistoryOK'
<1> SUFFICES ASSUME TypeOK, HistoryOK, [Next]_vars
             PROVE  TypeOK' /\ HistoryOK'
  OBVIOUS
<1>1. CASE Admin /\ Watch
  BY <1>1, AdminTyped, WatchTyped DEF TablesTyped, HistoryOK
<1>2. CASE World /\ Watch
  BY <1>2, WorldTyped, WatchTyped DEF TablesTyped, HistoryOK
<1>3. CASE Read /\ Watch
  BY <1>3, ReadTyped, WatchTyped DEF TablesTyped, HistoryOK
<1>4. CASE Restart /\ Watch
  <2>1. TypeOK' /\ asked' = asked /\ whole' = whole /\ view' = Idle
    BY <1>4, CountersTyped DEF Restart, tables, TypeOK, View, Idle, Overall
  <2>2. QED
    BY <1>4, <2>1, WatchTyped DEF HistoryOK, Idle
<1>5. CASE UNCHANGED vars
  BY <1>5 DEF vars, tables, TypeOK, HistoryOK
<1>6. QED
  BY <1>1, <1>2, <1>3, <1>4, <1>5 DEF Next

\* The tables, the saves under way, the public request and the history variables are
\* well typed, for every number of them.
THEOREM TypeCorrect == Spec => [](TypeOK /\ HistoryOK)
  BY InitTyped, StepTyped, PTL DEF Spec

\* Page ids are handed out once: no save under way, and no history, is of an unused one.
IdsOnce ==
  /\ \A p \in unused : page[p] = None /\ p \notin whole
  /\ \A a \in Admins : save[a] # None => save[a].page \notin unused

\* A list to be stored, and a list stored whole, is that of a version asked for, but
\* for monitors deleted since.
ListsAsked ==
  /\ \A a \in Admins : save[a] # None /\ page[save[a].page] # None =>
       \E v \in asked[save[a].page] : v.mons = save[a].mons
  /\ \A p \in whole : \E v \in asked[p] : v.mons \cap Alive \subseteq picks[p]

\* What has been so all along is so now.
WatchedHolds ==
  lasting.down \subseteq Lasting.down /\ lasting.open \subseteq Lasting.open

\* What the request has read so far leaves it no way round a lasting outage.
RequestSees ==
  /\ view.at \in {"idle", "list"} => view.maint = {}
  /\ view.at \notin {"idle", "list"} => lasting.down \subseteq view.mons
  /\ lasting.down \cap view.maint = {}
  /\ view.at \in {"incidents", "answered"} /\ lasting.down # {} => view.overall = "down"
  /\ view.at \in {"incidents", "answered"} /\ view.overall = "down" => ever # {}
  /\ view.at = "answered" /\ lasting.open # {} => view.overall # "up"

RequestInv == IdsOnce /\ ListsAsked /\ WatchedHolds /\ RequestSees

LEMMA InitRequest == Init => RequestInv
  BY DEF Init, Idle, RequestInv, IdsOnce, ListsAsked, WatchedHolds, RequestSees

\* Neither tables nor saves.
LEMMA TablesKept ==
  ASSUME IdsOnce, ListsAsked, UNCHANGED <<tables, asked, whole>>,
         UNCHANGED save \/ save' = [a \in Admins |-> None]
  PROVE  IdsOnce' /\ ListsAsked'
  BY DEF IdsOnce, ListsAsked, tables, Alive

\* Saving.
LEMMA AdminAsks ==
  TypeOK /\ HistoryOK /\ IdsOnce /\ ListsAsked /\ Admin => IdsOnce' /\ ListsAsked'
<1> SUFFICES ASSUME TypeOK, HistoryOK, IdsOnce, ListsAsked, Admin
             PROVE  IdsOnce' /\ ListsAsked'
  OBVIOUS
<1> USE NoneAssumption DEF TypeOK, HistoryOK
<1>1. ASSUME NEW a \in Admins, NEW p \in Pages, NEW v \in Version,
             CreateRow(a, p, v) \/ UpdateRow(a, p, v)
      PROVE  IdsOnce' /\ ListsAsked'
  <2>1. /\ save' = [save EXCEPT ![a] = [page |-> p, mons |-> v.mons]]
        /\ asked' = [asked EXCEPT ![p] = @ \cup {v}]
        /\ page' = [page EXCEPT ![p] = v.row]
        /\ UNCHANGED <<picks, status, whole>>
    BY <1>1 DEF CreateRow, UpdateRow, WriteRow
  <2>2. p \notin unused' /\ unused' \subseteq unused
    BY <1>1 DEF CreateRow, UpdateRow, IdsOnce
  <2>3. IdsOnce'
    BY <2>1, <2>2 DEF IdsOnce
  <2>4. \A q \in Pages : asked[q] \subseteq asked'[q]
    BY <2>1
  <2>5. ASSUME NEW b \in Admins, save'[b] # None, page'[save'[b].page] # None
        PROVE  \E x \in asked'[save'[b].page] : x.mons = save'[b].mons
    <3>1. CASE b = a
      BY <2>1, <3>1
    <3>2. CASE b # a
      <4>1. save'[b] = save[b] /\ save[b] \in Save
        BY <2>1, <2>5, <3>2
      <4>2. CASE save[b].page = p /\ page[p] = None
        BY <1>1, <2>5, <4>1, <4>2 DEF CreateRow, UpdateRow, IdsOnce
      <4>3. CASE ~(save[b].page = p /\ page[p] = None)
        <5>1. page[save[b].page] # None
          BY <2>1, <2>5, <4>1, <4>3 DEF Save
        <5>2. QED
          BY <2>4, <2>5, <4>1, <5>1 DEF ListsAsked, Save
      <4>4. QED
        BY <4>2, <4>3
    <3>3. QED
      BY <3>1, <3>2
  <2>6. \A q \in whole' : \E x \in asked'[q] : x.mons \cap Alive' \subseteq picks'[q]
    BY <2>1, <2>4 DEF ListsAsked, Alive
  <2>7. QED
    BY <2>3, <2>5, <2>6 DEF ListsAsked
<1>2. ASSUME NEW a \in Admins, SetPicks(a)
      PROVE  IdsOnce' /\ ListsAsked'
  <2>1. /\ save[a] # None /\ save[a] \in Save /\ page[save[a].page] # None
        /\ picks' = [picks EXCEPT ![save[a].page] = save[a].mons]
        /\ whole' = whole \cup {save[a].page}
        /\ save' = [save EXCEPT ![a] = None]
        /\ UNCHANGED <<page, unused, status, asked>>
    BY <1>2 DEF SetPicks, Answer, Acceptable
  <2>2. IdsOnce'
    BY <2>1 DEF IdsOnce, Save
  <2>3. \A q \in whole' : \E x \in asked'[q] : x.mons \cap Alive' \subseteq picks'[q]
    BY <2>1 DEF ListsAsked, Alive, Save
  <2>4. QED
    BY <2>1, <2>2, <2>3 DEF ListsAsked
<1>3. ASSUME NEW a \in Admins, SetPicksRefused(a) \/ SetPicksFails(a)
      PROVE  IdsOnce' /\ ListsAsked'
  BY <1>3 DEF SetPicksRefused, SetPicksFails, Answer, tables, IdsOnce, ListsAsked, Alive
<1>4. ASSUME NEW p \in Pages, DeletePage(p)
      PROVE  IdsOnce' /\ ListsAsked'
  <2>1. /\ page' = [page EXCEPT ![p] = None]
        /\ picks' = [picks EXCEPT ![p] = {}]
        /\ asked' = [asked EXCEPT ![p] = {}]
        /\ whole' = whole \ {p}
        /\ UNCHANGED <<unused, status, save>>
    BY <1>4 DEF DeletePage
  <2>2. IdsOnce'
    BY <2>1 DEF IdsOnce
  <2>3. QED
    BY <2>1, <2>2 DEF ListsAsked, Alive, Save
<1>5. ASSUME NEW i \in Incidents, CloseIncident(i) \/ \E p \in Pages : OpenIncident(i, p)
      PROVE  IdsOnce' /\ ListsAsked'
  BY <1>5 DEF CloseIncident, OpenIncident, IdsOnce, ListsAsked, Alive
<1>6. QED
  BY <1>1, <1>2, <1>3, <1>4, <1>5 DEF Admin

\* Monitors and windows change; deleting a monitor takes it from every list.
LEMMA WorldAsks ==
  TypeOK /\ HistoryOK /\ IdsOnce /\ ListsAsked /\ World => IdsOnce' /\ ListsAsked'
<1> SUFFICES ASSUME TypeOK, HistoryOK, IdsOnce, ListsAsked, World
             PROVE  IdsOnce' /\ ListsAsked'
  OBVIOUS
<1> USE DEF TypeOK, HistoryOK, IdsOnce, ListsAsked, Alive
<1>1. ASSUME NEW m \in Monitors, DeleteMonitor(m)
      PROVE  IdsOnce' /\ ListsAsked'
  <2>1. /\ status' = [status EXCEPT ![m] = "deleted"]
        /\ picks' = [p \in Pages |-> picks[p] \ {m}]
        /\ UNCHANGED <<page, unused, save, asked, whole>>
    BY <1>1 DEF DeleteMonitor
  <2>2. Alive' = Alive \ {m}
    BY <2>1
  <2>3. QED
    BY <2>1, <2>2
<1>2. ASSUME NEW m \in Monitors, NEW s \in Statuses, StatusMoves(m, s)
      PROVE  IdsOnce' /\ ListsAsked'
  BY <1>2 DEF StatusMoves, Statuses
<1>3. ASSUME NEW w \in Windows, NEW x \in Window, WindowMoves(w, x)
      PROVE  IdsOnce' /\ ListsAsked'
  BY <1>3 DEF WindowMoves
<1>4. QED
  BY <1>1, <1>2, <1>3 DEF World

\* What is watched from now on, or still, holds now.
LEMMA WatchHolds == Watch => WatchedHolds'
  BY DEF Watch, WatchedHolds

\* While a request goes on, what is watched shrinks and what was seen grows.
LEMMA WatchGoesOn ==
  ASSUME Watch, view'.at \notin {"idle", "list"}
  PROVE  /\ lasting'.down \subseteq lasting.down
         /\ lasting'.open \subseteq lasting.open
         /\ ever \cup DownNow' \subseteq ever'
  BY DEF Watch

\* Steps that are not the request's.
LEMMA RequestWaits ==
  ASSUME RequestSees, Watch, view' = view
  PROVE  RequestSees'
<1>1. CASE view.at \in {"idle", "list"}
  BY <1>1 DEF RequestSees
<1>2. CASE view.at \notin {"idle", "list"}
  BY <1>2, WatchGoesOn DEF RequestSees
<1>3. QED
  BY <1>1, <1>2

\* The queries of the request.
LEMMA RequestReads ==
  TypeOK /\ HistoryOK /\ RequestInv /\ Read /\ Watch => RequestSees'
<1> SUFFICES ASSUME TypeOK, HistoryOK, RequestInv, Read, Watch
             PROVE  RequestSees'
  OBVIOUS
<1> USE DEF TypeOK, HistoryOK, RequestInv, View
<1>1. CASE \E s \in Slugs : NotFound(s)
  BY <1>1, RequestWaits DEF NotFound, vars
<1>2. ASSUME NEW p \in Pages, ReadPage(p)
      PROVE  RequestSees'
  BY <1>2 DEF ReadPage, Idle, RequestSees
<1>3. CASE ReadList
  <2>1. view.at = "list" /\ view' = [view EXCEPT !.at = "windows", !.mons = picks[view.page]]
    BY <1>3 DEF ReadList
  <2>2. lasting'.down \subseteq Lasting.down
    BY <2>1, WatchGoesOn DEF WatchedHolds
  <2>3. Lasting.down \subseteq picks[view.page]
    BY <2>1 DEF Lasting, ListsAsked
  <2>4. QED
    BY <2>1, <2>2, <2>3 DEF RequestSees
<1>4. CASE ReadWindows
  BY <1>4, WatchGoesOn DEF ReadWindows, RequestSees
<1>5. CASE WindowsRead
  BY <1>5, WatchGoesOn DEF WindowsRead, RequestSees
<1>6. ASSUME NEW w \in Windows, ReadWindow(w)
      PROVE  RequestSees'
  <2>1. /\ view.at = "window"
        /\ view' = [view EXCEPT !.todo = @ \ {w}, !.maint = @ \cup (window[w].mons \cap view.mons)]
    BY <1>6 DEF ReadWindow
  <2>2. lasting.down \cap window[w].mons = {}
    BY DEF WatchedHolds, Lasting, Planned
  <2>3. QED
    BY <2>1, <2>2, WatchGoesOn DEF RequestSees
<1>7. CASE ReadMonitors
  <2>1. /\ view.at = "monitors"
        /\ view' = [view EXCEPT !.at = "incidents", !.overall = Verdict(view)]
        /\ status' = status
    BY <1>7 DEF ReadMonitors, Reading, tables
  <2>2. lasting.down \subseteq Down(view)
    BY <2>1 DEF RequestSees, WatchedHolds, Lasting, Down
  <2>3. Verdict(view) = "down" <=> Down(view) # {}
    BY DEF Verdict
  <2>4. Down(view) \subseteq DownNow'
    BY <2>1 DEF Down, DownNow, Alive
  <2>5. QED
    BY <2>1, <2>2, <2>3, <2>4, WatchGoesOn DEF RequestSees
<1>8. CASE ReadIncidents
  <2>1. /\ view.at = "incidents"
        /\ view' = [view EXCEPT !.at = "answered",
                      !.overall = IF @ = "up" /\ OpenOn(view.page) # {} THEN "degraded" ELSE @]
    BY <1>8 DEF ReadIncidents
  <2>2. lasting.open \subseteq OpenOn(view.page)
    BY DEF WatchedHolds, Lasting
  <2>3. QED
    BY <2>1, <2>2, WatchGoesOn DEF RequestSees
<1>9. CASE ReadFails
  BY <1>9 DEF ReadFails, Idle, Watch, RequestSees
<1>10. QED
  BY <1>1, <1>2, <1>3, <1>4, <1>5, <1>6, <1>7, <1>8, <1>9 DEF Read

LEMMA StepRequest ==
  TypeOK /\ HistoryOK /\ RequestInv /\ [Next]_vars => RequestInv'
<1> SUFFICES ASSUME TypeOK, HistoryOK, RequestInv, [Next]_vars
             PROVE  RequestInv'
  OBVIOUS
<1>1. CASE Admin /\ Watch
  BY <1>1, AdminTyped, AdminAsks, WatchHolds, RequestWaits DEF RequestInv
<1>2. CASE World /\ Watch
  BY <1>2, WorldTyped, WorldAsks, WatchHolds, RequestWaits DEF RequestInv
<1>3. CASE Read /\ Watch
  <2>1. UNCHANGED <<tables, save, asked, whole>>
    BY <1>3 DEF Read, NotFound, vars, ReadPage, ReadList, ReadWindows, WindowsRead, ReadMonitors,
                ReadIncidents, ReadFails, ReadWindow, Reading
  <2>2. QED
    BY <1>3, <2>1, TablesKept, WatchHolds, RequestReads DEF RequestInv
<1>4. CASE Restart /\ Watch
  <2>1. UNCHANGED <<tables, asked, whole>> /\ save' = [a \in Admins |-> None] /\ view' = Idle
    BY <1>4 DEF Restart
  <2>2. RequestSees'
    BY <1>4, <2>1 DEF Idle, Watch, RequestSees
  <2>3. QED
    BY <1>4, <2>1, <2>2, TablesKept, WatchHolds DEF RequestInv
<1>5. CASE UNCHANGED vars
  BY <1>5 DEF vars, tables, RequestInv, IdsOnce, ListsAsked, WatchedHolds, RequestSees, Lasting,
              Alive, Planned, OpenOn
<1>6. QED
  BY <1>1, <1>2, <1>3, <1>4, <1>5 DEF Next

LEMMA RequestInvariant == Spec => []RequestInv
  BY InitRequest, StepRequest, TypeCorrect, PTL DEF Spec

\* An outage that lasted as long as a request, of a monitor that all versions of the
\* page pick and no window does, is in its answer (statuspage.go:38-147).
THEOREM OutagesShow == Spec => []NoFalseGreen
<1>1. RequestInv => NoFalseGreen
  BY DEF RequestInv, RequestSees, NoFalseGreen, Answered
<1>2. QED
  BY <1>1, RequestInvariant, PTL

\* No answer makes up an outage (statuspage.go:103-106).
THEOREM OutagesAreReal == Spec => []NoFalseAlarm
<1>1. RequestInv => NoFalseAlarm
  BY DEF RequestInv, RequestSees, NoFalseAlarm, Answered
<1>2. QED
  BY <1>1, RequestInvariant, PTL

\* An incident open for as long as a request is in its answer (statuspage.go:149-168).
THEOREM IncidentsShow == Spec => []IncidentShows
<1>1. RequestInv => IncidentShows
  BY DEF RequestInv, RequestSees, IncidentShows, Answered
<1>2. QED
  BY <1>1, RequestInvariant, PTL

(***************************************************************************)
(* Least and largest numbers                                               *)
(***************************************************************************)

\* The set of pairs of numbers the first of which is the smaller one.
Smaller == {ss \in Nat \X Nat : ss[1] < ss[2]}

\* A set of numbers that is not empty has a least one, ...
LEMMA LeastNumber ==
  ASSUME NEW S \in SUBSET Nat, S # {}
  PROVE  \E m \in S : \A k \in S : m <= k
<1>1. IsWellFoundedOn(Smaller, Nat)
  BY NatLessThanWellFounded, Zenon DEF OpToRel, Smaller
<1>2. PICK m \in S : \A k \in S : ~(<<k, m>> \in Smaller)
  BY <1>1, WFMin
<1>3. ASSUME NEW k \in S PROVE m <= k
  <2>1. <<k, m>> \notin Smaller /\ k \in Nat /\ m \in Nat
    BY <1>2
  <2>2. QED
    BY <2>1 DEF Smaller
<1>4. QED
  BY <1>3

\* ... and one that is bounded from above a largest one.
LEMMA LargestNumber ==
  ASSUME NEW S \in SUBSET Int, S # {}, NEW bound \in Int, \A k \in S : k <= bound
  PROVE  \E m \in S : \A k \in S : k <= m
<1> DEFINE Below == {bound - k : k \in S}
<1>0. \A k \in S : bound - k \in Nat
  OBVIOUS
<1>1. Below \in SUBSET Nat /\ Below # {}
  BY <1>0
<1>2. PICK d \in Below : \A e \in Below : d <= e
  BY <1>1, LeastNumber
<1>3. PICK m \in S : d = bound - m
  OBVIOUS
<1>4. ASSUME NEW k \in S PROVE k <= m
  <2>1. bound - k \in Below
    OBVIOUS
  <2>2. d <= bound - k
    BY <1>2, <2>1
  <2>3. QED
    BY <1>3, <2>2
<1>5. QED
  BY <1>4


\* The module Heartbeats counts as the theorems on finite sets do.
LEMMA SameCardinality == \A S : H!Cardinality(S) = Cardinality(S)
  BY DEF H!Cardinality, Cardinality

(***************************************************************************)
(* Heartbeats                                                              *)
(***************************************************************************)

\* Heartbeats come with times near the present and ids within the bound.
BeatsOK ==
  /\ H!TypeOK
  /\ IsFiniteSet(stored)
  /\ \A b \in stored : b.at <= now /\ b.at >= Overdue - Quarter

\* As long as the monitor is there, pruning has taken nothing of the last 90 days.
KeptLong == row # None => \A b \in stored : b \in beats \/ b.at < now - Quarter

MetricsLeft == {<<"monitor", "last", "uptime">>, <<"last", "uptime">>, <<"uptime">>, <<>>}

\* A request for metrics is young, and the heartbeat it names has been stored.
MetricsInv ==
  /\ asking.kind # "none" => asking.t \in Nat /\ now <= asking.t + Stay
  /\ asking.last # None => asking.last \in stored
  /\ asking.kind = "metrics" => asking.left \in MetricsLeft
  /\ MetricsAgree

\* A result's status follows its heartbeat.
SetsStatus == \E hb \in storing : H!SetMonitorStatus(hb)

HeartbeatInv == BeatsOK /\ KeptLong /\ MetricsInv

USE DEF H!Beat, H!Row, H!View

LEMMA InitBeats == H!Init => HeartbeatInv
  BY MomentsAssumption, FS_EmptySet
  DEF H!Init, H!Created, H!Idle, HeartbeatInv, BeatsOK, H!TypeOK, KeptLong, MetricsInv, MetricsAgree,
      H!MetricsAgree, H!Answered

\* A set of heartbeats that is not empty has a newest one.
LEMMA NewestExists ==
  ASSUME BeatsOK, beats # {}
  PROVE  H!Newest(beats) \in beats
<1>1. beats \subseteq stored /\ beats \subseteq H!Beat
  BY DEF BeatsOK, H!TypeOK
<1>2. now \in Int /\ \A b \in beats : b.at \in Int /\ b.at <= now /\ b.id \in Int /\ b.id <= MaxBeats
  BY <1>1, MomentsAssumption DEF BeatsOK, H!TypeOK
<1> DEFINE Times == {b.at : b \in beats}
<1>3. Times \in SUBSET Int /\ Times # {} /\ \A t \in Times : t <= now
  BY <1>2
<1>4. PICK t \in Times : \A u \in Times : u <= t
  BY <1>2, <1>3, LargestNumber
<1> DEFINE Ids == {b.id : b \in {c \in beats : c.at = t}}
<1>5. Ids \in SUBSET Int /\ Ids # {} /\ (\A n \in Ids : n <= MaxBeats) /\ MaxBeats \in Int
  BY <1>2, MomentsAssumption
<1>6. PICK n \in Ids : \A k \in Ids : k <= n
  BY <1>5, LargestNumber
<1>7. PICK b \in beats : b.at = t /\ b.id = n
  OBVIOUS
<1>8. ASSUME NEW c \in beats
      PROVE  c.at < b.at \/ (c.at = b.at /\ c.id <= b.id)
  <2>1. c.at <= t /\ c.at \in Int /\ t \in Int
    BY <1>2, <1>4
  <2>2. CASE c.at = t
    BY <1>6, <1>7, <2>2
  <2>3. CASE c.at < t
    BY <1>7, <2>3
  <2>4. QED
    BY <2>1, <2>2, <2>3
<1>9. QED
  BY <1>8 DEF H!Newest

LEMMA TickKeeps == HeartbeatInv /\ H!Tick => HeartbeatInv'
<1> SUFFICES ASSUME HeartbeatInv, H!Tick PROVE HeartbeatInv'
  OBVIOUS
<1> USE MomentsAssumption DEF HeartbeatInv
<1>1. /\ now \in Int /\ now' = now + 1 /\ now' \in 0..Horizon
      /\ asking.kind # "none" => now < asking.t + Stay
      /\ UNCHANGED <<row, beats, storing, asking, stored>>
  BY DEF H!Tick, BeatsOK, H!TypeOK
<1>2. \A b \in stored : b.at \in Int
  BY DEF BeatsOK, H!TypeOK
<1>3. BeatsOK'
  BY <1>1, <1>2 DEF BeatsOK, H!TypeOK
<1>4. KeptLong'
  BY <1>1, <1>2 DEF KeptLong
<1>5. MetricsInv'
  BY <1>1 DEF MetricsInv, MetricsAgree, H!MetricsAgree, H!Answered
<1>6. QED
  BY <1>3, <1>4, <1>5

LEMMA InsertKeeps ==
  ASSUME HeartbeatInv, NEW lag \in Lags, NEW s \in {"up", "down"}, H!InsertHeartbeat(lag, s)
  PROVE  HeartbeatInv'
<1> DEFINE hb == [id |-> Cardinality(stored) + 1, at |-> now - lag, status |-> s]
<1>1. /\ beats' = beats \cup {hb} /\ stored' = stored \cup {hb}
      /\ storing' \subseteq storing \cup {hb}
      /\ Cardinality(stored) < MaxBeats
      /\ UNCHANGED <<now, row, asking>>
  BY SameCardinality DEF H!InsertHeartbeat
<1>2. Cardinality(stored) \in Nat /\ IsFiniteSet(stored')
  BY <1>1, FS_CardinalityType, FS_AddElement DEF HeartbeatInv, BeatsOK
<1>3. hb \in H!Beat /\ hb.at <= now /\ hb.at >= Overdue - Quarter
  BY <1>1, <1>2, MomentsAssumption DEF HeartbeatInv, BeatsOK, H!TypeOK
<1>4. BeatsOK'
  BY <1>1, <1>2, <1>3 DEF HeartbeatInv, BeatsOK, H!TypeOK
<1>5. KeptLong' /\ MetricsInv'
  BY <1>1 DEF HeartbeatInv, KeptLong, MetricsInv, MetricsAgree, H!MetricsAgree, H!Answered
<1>6. QED
  BY <1>4, <1>5 DEF HeartbeatInv

LEMMA TablesKeep ==
  HeartbeatInv /\ (SetsStatus \/ H!DeleteMonitor \/ H!Prune) => HeartbeatInv'
<1> SUFFICES ASSUME HeartbeatInv, SetsStatus \/ H!DeleteMonitor \/ H!Prune
             PROVE  HeartbeatInv'
  OBVIOUS
<1> USE DEF HeartbeatInv
<1>1. /\ UNCHANGED <<now, asking, stored>> /\ beats' \subseteq beats
      /\ row' # None => row # None
      /\ row' \in H!Row \cup {None} /\ storing' \subseteq stored
  BY DEF SetsStatus, H!SetMonitorStatus, H!DeleteMonitor, H!Prune, BeatsOK, H!TypeOK
<1>2. BeatsOK' /\ MetricsInv'
  BY <1>1 DEF BeatsOK, H!TypeOK, MetricsInv, MetricsAgree, H!MetricsAgree, H!Answered
<1>3. CASE SetsStatus \/ H!DeleteMonitor
  BY <1>1, <1>2, <1>3 DEF SetsStatus, H!SetMonitorStatus, H!DeleteMonitor, KeptLong
<1>4. CASE H!Prune
  <2>1. beats' = {b \in beats : b.at >= now - Quarter} /\ row' = row /\ now' = now
    BY <1>4 DEF H!Prune, H!Cutoff
  <2>2. now \in Int /\ Quarter \in Int /\ \A b \in stored : b.at \in Int
    BY MomentsAssumption DEF BeatsOK, H!TypeOK
  <2>3. KeptLong'
    BY <1>1, <2>1, <2>2 DEF KeptLong
  <2>4. QED
    BY <1>2, <2>3
<1>5. QED
  BY <1>3, <1>4

\* What only the request changes.
LEMMA AskingKeeps ==
  ASSUME HeartbeatInv, UNCHANGED <<now, row, beats, storing, stored>>, H!TypeOK', MetricsInv'
  PROVE  HeartbeatInv'
  BY DEF HeartbeatInv, BeatsOK, KeptLong

\* A request is over, or not begun.
LEMMA IdleKeeps ==
  ASSUME HeartbeatInv, UNCHANGED <<now, row, beats, storing, stored>>, asking' = H!Idle
  PROVE  HeartbeatInv'
<1>1. H!TypeOK' /\ MetricsInv'
  BY DEF H!Idle, HeartbeatInv, BeatsOK, H!TypeOK, MetricsInv, MetricsAgree, H!MetricsAgree, H!Answered
<1>2. QED
  BY <1>1, AskingKeeps

\* Every kind of request asks for something.
LEMMA QueriesAsk ==
  ASSUME NEW kind \in {"page", "metrics", "series", "history"}
  PROVE  /\ H!Queries(kind) \in Seq({"monitor", "beats", "last", "uptime"})
         /\ H!Queries(kind) # <<>>
<1>1. CASE kind = "page"
  BY <1>1 DEF H!Queries
<1>2. CASE kind = "metrics"
  BY <1>2 DEF H!Queries
<1>3. CASE kind = "series"
  BY <1>3 DEF H!Queries
<1>4. CASE kind = "history"
  BY <1>4 DEF H!Queries
<1>5. QED
  BY <1>1, <1>2, <1>3, <1>4

LEMMA AskKeeps ==
  ASSUME HeartbeatInv, NEW kind \in {"page", "metrics", "series", "history"}, NEW h \in Nat, H!Ask(kind, h)
  PROVE  HeartbeatInv'
<1>1. /\ asking' = [H!Idle EXCEPT !.kind = kind, !.left = H!Queries(kind), !.t = now, !.age = H!Hours(h)]
      /\ UNCHANGED <<now, row, beats, storing, stored>>
  BY DEF H!Ask
<1>2. now \in Nat /\ H!Hours(h) \in Nat
  BY MomentsAssumption DEF H!Hours, HeartbeatInv, BeatsOK, H!TypeOK
<1>4. asking' \in H!View
  BY <1>1, <1>2, QueriesAsk DEF H!Idle
<1>5. kind = "metrics" => asking'.left = <<"monitor", "last", "uptime">>
  BY <1>1 DEF H!Idle, H!Queries
<1>6. MetricsInv'
  BY <1>1, <1>2, <1>5, MomentsAssumption
  DEF H!Idle, MetricsInv, MetricsLeft, MetricsAgree, H!MetricsAgree, H!Answered
<1>7. QED
  BY <1>1, <1>4, <1>6, AskingKeeps DEF HeartbeatInv, BeatsOK, H!TypeOK

\* The queries of metrics are asked in their order.
LEMMA MetricsOrder ==
  ASSUME MetricsInv, asking.kind = "metrics"
  PROVE  /\ H!Asks("monitor") => Tail(asking.left) = <<"last", "uptime">>
         /\ H!Asks("last") => Tail(asking.left) = <<"uptime">>
         /\ H!Asks("uptime") => Tail(asking.left) = <<>>
         /\ ~H!Asks("beats")
         /\ asking.left # <<>> => Tail(asking.left) \in MetricsLeft
<1>1. CASE asking.left = <<"monitor", "last", "uptime">>
  BY <1>1 DEF H!Asks, MetricsLeft
<1>2. CASE asking.left = <<"last", "uptime">>
  BY <1>2 DEF H!Asks, MetricsLeft
<1>3. CASE asking.left = <<"uptime">>
  BY <1>3 DEF H!Asks, MetricsLeft
<1>4. CASE asking.left = <<>>
  BY <1>4 DEF H!Asks, MetricsLeft
<1>5. QED
  BY <1>1, <1>2, <1>3, <1>4 DEF MetricsInv, MetricsLeft

\* A query and what it tells: the row, the heartbeats, the newest of them, or the uptime.
LEMMA QueryKeeps ==
  ASSUME HeartbeatInv, H!ReadMonitor \/ H!ReadBeats \/ H!ReadLast \/ H!ReadUptime
  PROVE  HeartbeatInv'
<1> USE DEF HeartbeatInv
<1>1. UNCHANGED <<now, row, beats, storing, stored>>
  BY DEF H!ReadMonitor, H!ReadBeats, H!ReadLast, H!ReadUptime, H!Step
<1>2. /\ now \in Int /\ row \in H!Row \cup {None} /\ beats \subseteq H!Beat /\ beats \subseteq stored
      /\ asking \in H!View
  BY DEF BeatsOK, H!TypeOK
<1>3. asking.left # <<>> =>
        Tail(asking.left) \in Seq({"monitor", "beats", "last", "uptime"})
  BY <1>2
<1>4. CASE H!ReadMonitor
  <2>1. CASE row = None
    BY <1>1, <1>4, <2>1, IdleKeeps DEF H!ReadMonitor
  <2>2. CASE row # None
    <3>1. /\ asking' = [asking EXCEPT !.row = row, !.left = Tail(asking.left)]
          /\ asking.left # <<>>
      BY <1>2, <1>4, <2>2 DEF H!ReadMonitor, H!Step, H!Asks
    <3>2. asking' \in H!View
      BY <1>2, <1>3, <3>1
    <3>3. asking.kind = "metrics" => Tail(asking.left) = <<"last", "uptime">>
      BY <1>4, MetricsOrder DEF H!ReadMonitor
    <3>4. /\ asking'.kind = asking.kind /\ asking'.t = asking.t /\ asking'.last = asking.last
          /\ asking'.left = Tail(asking.left)
      BY <1>2, <3>1
    <3>5. asking.kind = "metrics" => asking'.left \in MetricsLeft /\ asking'.left # <<>>
      <4>1. <<"last", "uptime">> \in MetricsLeft /\ <<"last", "uptime">> # <<>>
        BY DEF MetricsLeft
      <4>2. QED
        BY <3>3, <3>4, <4>1
    <3>6. MetricsAgree'
      BY <3>4, <3>5 DEF MetricsAgree, H!MetricsAgree, H!Answered
    <3>7. MetricsInv'
      BY <1>1, <3>4, <3>5, <3>6 DEF MetricsInv
    <3>8. QED
      BY <1>1, <3>2, <3>7, AskingKeeps DEF H!TypeOK, BeatsOK
  <2>3. QED
    BY <2>1, <2>2
<1>5. CASE H!ReadBeats
  <2> DEFINE from == IF asking.kind = "page" THEN H!WindowStart(asking.t) ELSE asking.t - asking.age
  <2>1. /\ asking' = [asking EXCEPT !.read = H!Since(from), !.left = Tail(asking.left)]
        /\ asking.left # <<>>
    BY <1>2, <1>5 DEF H!ReadBeats, H!Step, H!Asks
  <2>2. asking.kind # "metrics"
    BY <1>5, MetricsOrder DEF H!ReadBeats
  <2>3. asking' \in H!View
    BY <1>2, <1>3, <2>1 DEF H!Since
  <2>4. MetricsInv'
    BY <1>1, <1>2, <2>1, <2>2 DEF MetricsInv, MetricsAgree, H!MetricsAgree, H!Answered
  <2>5. QED
    BY <1>1, <2>3, <2>4, AskingKeeps DEF H!TypeOK, BeatsOK
<1>6. CASE H!ReadLast
  <2> DEFINE newest == IF beats = {} THEN None ELSE H!Newest(beats)
  <2>1. /\ asking' = [asking EXCEPT !.last = newest, !.left = Tail(asking.left)]
        /\ asking.left # <<>>
    BY <1>2, <1>6 DEF H!ReadLast, H!Step, H!Asks
  <2>2. newest # None => newest \in beats
    BY NewestExists
  <2>3. asking.kind = "metrics" => Tail(asking.left) = <<"uptime">>
    BY <1>6, MetricsOrder DEF H!ReadLast
  <2>4. asking' \in H!View
    BY <1>2, <1>3, <2>1, <2>2
  <2>5. asking'.kind = "metrics" => asking'.left = <<"uptime">>
    BY <1>2, <2>1, <2>3
  <2>6. MetricsAgree'
    BY <2>5 DEF MetricsAgree, H!MetricsAgree, H!Answered
  <2>7. MetricsInv'
    BY <1>1, <1>2, <2>1, <2>2, <2>5, <2>6 DEF MetricsInv, MetricsLeft
  <2>8. QED
    BY <1>1, <2>4, <2>7, AskingKeeps DEF H!TypeOK, BeatsOK
<1>7. CASE H!ReadUptime
  <2>1. /\ asking' = [asking EXCEPT !.day = H!Since(asking.t - Day), !.left = Tail(asking.left)]
        /\ asking.left # <<>>
    BY <1>2, <1>7 DEF H!ReadUptime, H!Step, H!Asks
  <2>2. asking.kind = "metrics" => Tail(asking.left) = <<>>
    BY <1>7, MetricsOrder DEF H!ReadUptime
  <2>3. asking' \in H!View
    BY <1>2, <1>3, <2>1 DEF H!Since
  <2>4. ASSUME asking.kind = "metrics", row # None, asking.last # None, asking.last.at >= asking.t - Day
        PROVE  asking.last \in H!Since(asking.t - Day)
    <3>1. asking.last \in stored /\ now <= asking.t + Stay /\ asking.t \in Int
      BY <2>4 DEF MetricsInv
    <3>2. asking.last \in beats \/ asking.last.at < now - Quarter
      BY <2>4, <3>1 DEF KeptLong
    <3>3. asking.last.at \in Int
      BY <1>2, <2>4
    <3>4. ~(asking.last.at < now - Quarter)
      BY <1>2, <2>4, <3>1, <3>3, MomentsAssumption
    <3>5. QED
      BY <2>4, <3>2, <3>4 DEF H!Since
  <2>5. MetricsInv'
    BY <1>1, <1>2, <2>1, <2>2, <2>4 DEF MetricsInv, MetricsLeft, MetricsAgree, H!MetricsAgree, H!Answered
  <2>6. QED
    BY <1>1, <2>3, <2>5, AskingKeeps DEF H!TypeOK, BeatsOK
<1>8. QED
  BY <1>4, <1>5, <1>6, <1>7

LEMMA QueryFailsKeeps ==
  ASSUME HeartbeatInv, H!QueryFails
  PROVE  HeartbeatInv'
<1> USE DEF HeartbeatInv
<1>1. UNCHANGED <<now, row, beats, storing, stored>>
  BY DEF H!QueryFails
<1>2. asking \in H!View
  BY DEF BeatsOK, H!TypeOK
<1>7. asking.left # <<>> =>
        Tail(asking.left) \in Seq({"monitor", "beats", "last", "uptime"})
  BY <1>2
<1>3. CASE asking' = H!Idle
  BY <1>1, <1>3, IdleKeeps
<1>4. CASE H!Asks("last") /\ asking' = [asking EXCEPT !.left = Tail(@)]
  <2>1. asking' \in H!View
    BY <1>2, <1>4, <1>7 DEF H!Asks
  <2>2. asking'.kind = "metrics" => asking'.left = <<"uptime">>
    BY <1>2, <1>4, MetricsOrder
  <2>3. MetricsAgree'
    BY <2>2 DEF MetricsAgree, H!MetricsAgree, H!Answered
  <2>4. MetricsInv'
    BY <1>1, <1>2, <1>4, <2>2, <2>3 DEF MetricsInv, MetricsLeft
  <2>5. QED
    BY <1>1, <2>1, <2>4, AskingKeeps DEF H!TypeOK, BeatsOK
<1>5. CASE H!Asks("uptime") /\ asking' = [asking EXCEPT !.left = Tail(@), !.known = FALSE]
  <2>1. asking' \in H!View
    BY <1>2, <1>5, <1>7 DEF H!Asks
  <2>2. asking.kind = "metrics" => asking'.left = <<>>
    BY <1>2, <1>5, MetricsOrder
  <2>3. MetricsInv'
    BY <1>1, <1>2, <1>5, <2>2 DEF MetricsInv, MetricsLeft, MetricsAgree, H!MetricsAgree, H!Answered
  <2>4. QED
    BY <1>1, <2>1, <2>3, AskingKeeps DEF H!TypeOK, BeatsOK
<1>6. QED
  BY <1>3, <1>4, <1>5 DEF H!QueryFails

LEMMA StepBeats == HeartbeatInv /\ [H!Next]_(H!vars) => HeartbeatInv'
<1> SUFFICES ASSUME HeartbeatInv, [H!Next]_(H!vars) PROVE HeartbeatInv'
  OBVIOUS
<1>1. CASE \E kind \in {"page", "metrics"} : H!Ask(kind, 0)
  BY <1>1, AskKeeps
<1>2. CASE \E kind \in H!Histories, h \in H!Ages : H!Ask(kind, h)
  <2>1. H!Ages \subseteq Nat
    BY MomentsAssumption DEF H!Ages
  <2>2. QED
    BY <1>2, <2>1, AskKeeps DEF H!Histories
<1>3. CASE H!Forget
  BY <1>3, IdleKeeps DEF H!Forget
<1>4. CASE UNCHANGED H!vars
  BY <1>4 DEF H!vars, HeartbeatInv, BeatsOK, H!TypeOK, KeptLong, MetricsInv, MetricsAgree,
              H!MetricsAgree, H!Answered
<1>5. QED
  BY <1>1, <1>2, <1>3, <1>4, TickKeeps, InsertKeeps, TablesKeep, QueryKeeps, QueryFailsKeeps
  DEF H!Next, SetsStatus

LEMMA HeartbeatInvariant == H!Spec => []HeartbeatInv
  BY InitBeats, StepBeats, PTL DEF H!Spec

\* Metrics whose newest heartbeat is of the last 24 hours have counted it in the
\* uptime, though results, prunings and failures come in between (publicapi.go:188-196).
THEOREM UptimeCountsNewest == H!Spec => []MetricsAgree
<1>1. HeartbeatInv => MetricsAgree
  BY DEF HeartbeatInv, MetricsInv
<1>2. QED
  BY <1>1, HeartbeatInvariant, PTL

\* A history of any length misses nothing of the last 90 days (api.go:265-271,
\* publicapi.go:205-215, engine.go:96).
THEOREM HistoriesAreComplete == H!Spec => HistoryComplete
<1>1. ASSUME HeartbeatInv, [H!Next]_(H!vars),
             H!Asks("beats"), row # None, asking'.kind \in H!Histories, asking'.left = <<>>
      PROVE  {b \in stored : b.at >= asking.t - asking.age /\ b.at >= now - Quarter} \subseteq asking'.read
  <2>1. asking.left # <<>> /\ asking \in H!View /\ beats \subseteq stored
    BY <1>1 DEF H!Asks, HeartbeatInv, BeatsOK, H!TypeOK
  <2>2. ~(asking' = asking) /\ ~(asking' = H!Idle)
    BY <1>1, <2>1 DEF H!Idle, H!Histories
  <2>3. \A q \in {"monitor", "last", "uptime"} : ~H!Asks(q)
    BY <1>1 DEF H!Asks
  <2>4. CASE H!ReadBeats
    <3>1. asking' = [asking EXCEPT !.read =
                       H!Since(IF asking.kind = "page" THEN H!WindowStart(asking.t) ELSE asking.t - asking.age),
                     !.left = Tail(asking.left)]
      BY <2>1, <2>4 DEF H!ReadBeats, H!Step
    <3>2. asking'.read = {b \in beats : b.at >= asking.t - asking.age}
      BY <1>1, <2>1, <3>1 DEF H!Since, H!Histories
    <3>3. \A b \in stored : b.at \in Int
      BY <1>1 DEF HeartbeatInv, BeatsOK, H!TypeOK
    <3>4. now \in Int /\ Quarter \in Int
      BY <1>1, MomentsAssumption DEF HeartbeatInv, BeatsOK, H!TypeOK
    <3>5. QED
      BY <1>1, <3>2, <3>3, <3>4 DEF HeartbeatInv, KeptLong
  <2>5. CASE ~H!ReadBeats
    <3>1. ~H!Ask("page", 0) /\ ~H!Ask("metrics", 0) /\ \A kind \in H!Histories, h \in H!Ages : ~H!Ask(kind, h)
      BY <1>1, QueriesAsk DEF H!Ask, H!Idle, H!Histories
    <3>2. QED
      BY <1>1, <2>2, <2>3, <2>5, <3>1
      DEF H!Next, H!vars, H!Tick, H!SetMonitorStatus, H!DeleteMonitor, H!Prune, H!InsertHeartbeat,
          H!ReadMonitor, H!ReadLast, H!ReadUptime, H!QueryFails, H!Forget
  <2>6. QED
    BY <2>4, <2>5
<1>2. QED
  BY <1>1, HeartbeatInvariant, PTL DEF H!Spec, HistoryComplete, H!HistoryComplete

\* The last sign of a monitor with heartbeats is the time of one of them, and none
\* has a later one.
LEMMA LastSignIsLast ==
  ASSUME BeatsOK, NEW S \in SUBSET stored, S # {}
  PROVE  /\ \E b \in S : H!LastSign(S) = b.at
         /\ \A b \in S : b.at <= H!LastSign(S)
<1> DEFINE Times == {b.at : b \in S}
<1>1. Times \in SUBSET Int /\ Times # {} /\ now \in Int /\ \A t \in Times : t <= now
  BY DEF BeatsOK, H!TypeOK
<1>2. \E t \in Times : \A u \in Times : u <= t
  BY <1>1, LargestNumber
<1>3. H!Max(Times) \in Times /\ \A u \in Times : u <= H!Max(Times)
  BY <1>1, <1>2 DEF H!Max
<1>4. H!LastSign(S) = H!Max(Times)
  BY DEF H!LastSign
<1>5. QED
  BY <1>3, <1>4

\* Whether a monitor is silent does not depend on what was pruned of it
\* (db.go:575-579, engine.go:92-103).
THEOREM PruningChangesNoVerdict == H!Spec => []PruningHidesNothing
<1>1. ASSUME HeartbeatInv, row # None
      PROVE  H!Stale(beats) = H!Stale(stored)
  <2> USE MomentsAssumption DEF HeartbeatInv
  <2>1. /\ beats \subseteq stored /\ now \in Nat
        /\ \A b \in stored : b.at \in Int /\ b.at >= Overdue - Quarter
        /\ \A b \in stored : b \in beats \/ b.at < now - Quarter
    BY <1>1 DEF BeatsOK, H!TypeOK, KeptLong
  <2>2. CASE beats = stored
    BY <2>2
  <2>3. CASE \E p \in stored : p \notin beats
    <3>1. now > Overdue
      BY <2>1, <2>3
    <3>2. PICK d \in stored : H!LastSign(stored) = d.at
      BY <2>3, LastSignIsLast, <1>1
    <3>3. \A b \in stored : b.at <= d.at
      BY <2>3, <3>2, LastSignIsLast, <1>1
    <3>4. CASE beats = {}
      BY <2>1, <3>1, <3>2, <3>4 DEF H!Stale, H!LastSign, H!Created
    <3>5. CASE beats # {}
      <4>1. PICK c \in beats : H!LastSign(beats) = c.at
        BY <2>1, <3>5, LastSignIsLast, <1>1
      <4>2. \A b \in beats : b.at <= c.at
        BY <2>1, <3>5, <4>1, LastSignIsLast, <1>1
      <4>3. CASE d \in beats
        BY <2>1, <3>2, <3>3, <4>1, <4>2, <4>3 DEF H!Stale
      <4>4. CASE d \notin beats
        BY <2>1, <3>2, <3>3, <4>1, <4>4 DEF H!Stale
      <4>5. QED
        BY <4>3, <4>4
    <3>6. QED
      BY <3>4, <3>5
  <2>4. QED
    BY <2>1, <2>2, <2>3
<1>2. QED
  BY <1>1, HeartbeatInvariant, PTL DEF PruningHidesNothing, H!PruningHidesNothing

(***************************************************************************)
(* Bars                                                                    *)
(***************************************************************************)

\* The bars after the heartbeats of a sequence at the places in s.
Painted(seq, s) ==
  [i \in 0..BarCount - 1 |->
     IF \E k \in s : H!Index(seq[k].at) = i /\ seq[k].status = "down" THEN "down"
     ELSE IF \E k \in s : H!Index(seq[k].at) = i THEN "up" ELSE "no data"]

LEMMA PaintedMore ==
  ASSUME NEW seq, NEW s, NEW x \in s, \A k \in s : seq[k].status \in {"up", "down"}
  PROVE  H!Tainted(Painted(seq, s \ {x}), seq[x]) = Painted(seq, s)
<1> DEFINE before == Painted(seq, s \ {x})
           after  == Painted(seq, s)
           j      == H!Index(seq[x].at)
           bars   == 0..BarCount - 1
           tainted == H!Tainted(before, seq[x])
<1>1. /\ before = [i \in bars |-> before[i]] /\ after = [i \in bars |-> after[i]]
      /\ tainted = [i \in bars |-> tainted[i]]
  BY DEF Painted, H!Tainted
<1>2. ASSUME NEW i \in bars, i # j PROVE tainted[i] = after[i]
  <2>1. tainted[i] = before[i]
    BY <1>2 DEF Painted, H!Tainted
  <2>2. before[i] = after[i]
    BY <1>2 DEF Painted
  <2>3. QED
    BY <2>1, <2>2
<1>3. ASSUME j \in bars PROVE tainted[j] = after[j]
  <2>1. tainted[j] = IF before[j] = "down" THEN "down" ELSE seq[x].status
    BY <1>3 DEF Painted, H!Tainted
  <2>2. before[j] = "down" <=> \E k \in s \ {x} : H!Index(seq[k].at) = j /\ seq[k].status = "down"
    BY <1>3 DEF Painted
  <2>3. after[j] = IF \E k \in s : H!Index(seq[k].at) = j /\ seq[k].status = "down"
                   THEN "down" ELSE "up"
    BY <1>3 DEF Painted
  <2>4. QED
    BY <2>1, <2>2, <2>3
<1>4. \A i \in bars : tainted[i] = after[i]
  BY <1>2, <1>3
<1>5. QED
  BY <1>1, <1>4

\* The recursion of the fold, with the heartbeat at the largest place taken last.
Fold(seq, iter) ==
  [s \in SUBSET DOMAIN seq |->
     IF s = {} THEN [i \in 0..BarCount - 1 |-> "no data"]
     ELSE LET x == H!Max(s) IN H!Tainted(iter[s \ {x}], seq[x])]

LEMMA FoldLeftIsFold ==
  ASSUME NEW seq
  PROVE  H!FoldLeft(H!Tainted, [i \in 0..BarCount - 1 |-> "no data"], seq)
           = (CHOOSE iter : iter = Fold(seq, iter))[DOMAIN seq]
  BY DEF H!FoldLeft, H!MapThenFoldSet, Fold

\* Whatever the places, the last of them is one, and the fold is what Painted says.
LEMMA FoldPaints ==
  ASSUME NEW n \in Nat, NEW seq, DOMAIN seq = 1..n, \A k \in 1..n : seq[k].status \in {"up", "down"}
  PROVE  H!FoldLeft(H!Tainted, [i \in 0..BarCount - 1 |-> "no data"], seq) = Painted(seq, 1..n)
<1> DEFINE Places == SUBSET (1..n)
           G      == [s \in Places |-> Painted(seq, s)]
           F      == CHOOSE iter : iter = Fold(seq, iter)
<1>1. ASSUME NEW s \in Places, s # {} PROVE H!Max(s) \in s
  <2>1. \E m \in s : \A k \in s : k <= m
    <3>1. s \in SUBSET Int /\ n \in Int /\ \A k \in s : k <= n
      OBVIOUS
    <3>2. QED
      BY <1>1, <3>1, LargestNumber
  <2>2. QED
    BY <1>1, <2>1 DEF H!Max
<1>2. Painted(seq, {}) = [i \in 0..BarCount - 1 |-> "no data"]
  BY DEF Painted
<1>3. ASSUME NEW s \in Places, s # {}
      PROVE  Painted(seq, s) = H!Tainted(Painted(seq, s \ {H!Max(s)}), seq[H!Max(s)])
  <2>1. \A k \in s : seq[k].status \in {"up", "down"}
    OBVIOUS
  <2>2. QED
    BY <1>1, <1>3, <2>1, PaintedMore
<1>4. G = Fold(seq, G)
  <2>1. \A s \in Places : s \ {H!Max(s)} \in Places
    OBVIOUS
  <2>2. \A s \in Places :
          G[s] = IF s = {} THEN [i \in 0..BarCount - 1 |-> "no data"]
                 ELSE H!Tainted(G[s \ {H!Max(s)}], seq[H!Max(s)])
    BY <1>2, <1>3, <2>1
  <2>3. QED
    BY <2>2 DEF Fold
<1>5. F = Fold(seq, F)
  BY <1>4
<1>6. \A s \in Places :
        F[s] = IF s = {} THEN [i \in 0..BarCount - 1 |-> "no data"]
               ELSE H!Tainted(F[s \ {H!Max(s)}], seq[H!Max(s)])
  <2> HIDE DEF F
  <2>1. QED
    BY <1>5 DEF Fold
<1> DEFINE Wrong == {s \in Places : F[s] # Painted(seq, s)}
           Sizes == {Cardinality(s) : s \in Wrong}
<1>7. \A s \in Places : IsFiniteSet(s) /\ Cardinality(s) \in Nat
  <2>1. IsFiniteSet(1..n)
    BY FS_Interval
  <2>2. QED
    BY <2>1, FS_Subset, FS_CardinalityType
<1>8. Wrong = {}
  <2> SUFFICES ASSUME Wrong # {} PROVE FALSE
    OBVIOUS
  <2> HIDE DEF F
  <2>1. Sizes \in SUBSET Nat /\ Sizes # {}
    BY <1>7
  <2>2. PICK least \in Sizes : \A k \in Sizes : least <= k
    BY <2>1, LeastNumber
  <2>3. PICK s \in Wrong : least = Cardinality(s)
    OBVIOUS
  <2>4. s # {}
    BY <1>2, <1>6
  <2> DEFINE x == H!Max(s)
             smaller == s \ {x}
  <2>5. x \in s /\ smaller \in Places
    BY <1>1, <2>4
  <2>6. Cardinality(smaller) = Cardinality(s) - 1
    BY <1>7, <2>5, FS_RemoveElement
  <2>7. Cardinality(smaller) \notin Sizes
    <3>1. ~(least <= Cardinality(smaller))
      BY <1>7, <2>3, <2>6
    <3>2. QED
      BY <2>2, <3>1
  <2>8. F[smaller] = Painted(seq, smaller)
    BY <2>5, <2>7
  <2>9. F[s] = Painted(seq, s)
    BY <1>3, <1>6, <2>4, <2>8
  <2>10. QED
    BY <2>9
<1>9. F[1..n] = Painted(seq, 1..n)
  BY <1>8
<1>10. QED
  BY <1>9, FoldLeftIsFold

\* Heartbeats can be put in the order of their times.
LEMMA CanBeSorted ==
  ASSUME NEW S, IsFiniteSet(S), \A b \in S : b.at \in Int
  PROVE  /\ H!ByTime(S) \in [1..Cardinality(S) -> S]
         /\ \A b \in S : \E k \in 1..Cardinality(S) : H!ByTime(S)[k] = b
<1> DEFINE n == Cardinality(S)
           D == 1..n
<1>1. n \in Nat /\ IsFiniteSet(D) /\ Cardinality(D) = n
  BY FS_CardinalityType, FS_Interval
<1>2. PICK f \in Bijection(D, S) : TRUE
  BY FS_CardinalityType, Fun_ExistsBij
<1>3. f \in [D -> S] /\ \A i, j \in D : f[i] = f[j] => i = j
  BY <1>2, Fun_BijectionProperties
<1> DEFINE Before(i, j) == f[i].at < f[j].at \/ (f[i].at = f[j].at /\ i <= j)
           Lower(j) == {i \in D : Before(i, j)}
           rank == [j \in D |-> Cardinality(Lower(j))]
<1>4. \A i \in D : f[i].at \in Int /\ i \in Int
  BY <1>1, <1>3
<1>5. \A j \in D : Lower(j) \in SUBSET D /\ IsFiniteSet(Lower(j)) /\ j \in Lower(j)
  BY <1>1, <1>4, FS_Subset
<1>6. ASSUME NEW i \in D, NEW j \in D, i # j, Before(i, j)
      PROVE  rank[i] < rank[j]
  <2>1. Lower(i) \in SUBSET Lower(j) /\ j \notin Lower(i)
    BY <1>4, <1>6
  <2>2. Lower(i) # Lower(j)
    BY <1>5, <2>1
  <2>3. Cardinality(Lower(i)) <= Cardinality(Lower(j)) /\ Cardinality(Lower(i)) # Cardinality(Lower(j))
    BY <1>5, <2>1, <2>2, FS_Subset
  <2>4. Cardinality(Lower(i)) \in Nat /\ Cardinality(Lower(j)) \in Nat
    BY <1>5, FS_CardinalityType
  <2>5. QED
    BY <2>3, <2>4
<1>7. \A i, j \in D : i = j \/ Before(i, j) \/ Before(j, i)
  BY <1>4
<1>8. \A j \in D : rank[j] \in D
  <2> SUFFICES ASSUME NEW j \in D PROVE Cardinality(Lower(j)) \in D
    OBVIOUS
  <2>1. Cardinality(Lower(j)) \in Nat /\ Cardinality(Lower(j)) <= n
    BY <1>1, <1>5, FS_Subset, FS_CardinalityType
  <2>2. Cardinality(Lower(j)) # 0
    BY <1>5, FS_EmptySet
  <2>3. QED
    BY <1>1, <2>1, <2>2
<1>9. rank \in [D -> D] /\ \A i, j \in D : rank[i] = rank[j] => i = j
  <2>1. rank \in [D -> D]
    BY <1>8
  <2>2. ASSUME NEW i \in D, NEW j \in D, rank[i] = rank[j] PROVE i = j
    <3>1. rank[i] \in Int /\ ~(rank[i] < rank[j]) /\ ~(rank[j] < rank[i])
      BY <1>1, <1>8, <2>2
    <3>2. QED
      BY <1>6, <1>7, <3>1
  <2>3. QED
    BY <2>1, <2>2
<1> HIDE DEF rank
<1>10. rank \in Surjection(D, D)
  BY <1>1, <1>9, Fun_IsInj, FS_Injection
<1>11. \A r \in D : \E i \in D : rank[i] = r
  BY <1>10, Fun_SurjectionProperties
<1> DEFINE at == [r \in D |-> CHOOSE i \in D : rank[i] = r]
<1>12. at \in [D -> D] /\ \A r \in D : rank[at[r]] = r
  BY <1>11
<1> HIDE DEF at
<1> DEFINE s == [r \in D |-> f[at[r]]]
<1>13. s \in [D -> S] /\ \A q, r \in D : q # r => s[q] # s[r]
  BY <1>3, <1>12
<1>14. ASSUME NEW q \in D, NEW r \in D, q < r PROVE s[q].at <= s[r].at
  <2>1. ~(rank[at[r]] < rank[at[q]]) /\ at[r] # at[q] /\ at[r] \in D /\ at[q] \in D
    BY <1>12, <1>14
  <2>2. Before(at[q], at[r])
    BY <1>6, <1>7, <2>1
  <2>3. QED
    BY <1>4, <2>1, <2>2
<1>15. s \in H!SetToSeqs(S) /\ \A q, r \in DOMAIN s : q < r => s[q].at <= s[r].at
  BY <1>13, <1>14, SameCardinality DEF H!SetToSeqs
<1> DEFINE t == H!ByTime(S)
<1>16. t \in H!SetToSeqs(S)
  BY <1>15 DEF H!ByTime
<1>17. t \in [D -> S] /\ \A q, r \in D : t[q] = t[r] => q = r
  BY <1>16, SameCardinality DEF H!SetToSeqs
<1>18. t \in Surjection(D, S)
  BY <1>1, <1>17, Fun_IsInj, FS_Injection
<1>19. \A b \in S : \E k \in D : t[k] = b
  <2> HIDE DEF t, D
  <2>1. QED
    BY <1>18, Fun_SurjectionProperties
<1>20. QED
  BY <1>17, <1>19

\* What the bars of a page are, whatever order the heartbeats were gone through in.
LEMMA BarsAre ==
  ASSUME BeatsOK, asking.read \subseteq stored, NEW i \in 0..BarCount - 1
  PROVE  H!Bars[i] = IF \E b \in asking.read : H!Index(b.at) = i /\ b.status = "down" THEN "down"
                     ELSE IF \E b \in asking.read : H!Index(b.at) = i THEN "up" ELSE "no data"
<1> DEFINE S == asking.read
           n == Cardinality(S)
           seq == H!ByTime(S)
<1>1. IsFiniteSet(S) /\ n \in Nat /\ \A b \in S : b.at \in Int /\ b.status \in {"up", "down"}
  <2>1. IsFiniteSet(S)
    BY FS_Subset DEF BeatsOK
  <2>2. \A b \in S : b.at \in Int /\ b.status \in {"up", "down"}
    BY DEF BeatsOK, H!TypeOK
  <2>3. QED
    BY <2>1, <2>2, FS_CardinalityType
<1>2. seq \in [1..n -> S] /\ \A b \in S : \E k \in 1..n : seq[k] = b
  BY <1>1, CanBeSorted
<1> HIDE DEF seq, n
<1>3. DOMAIN seq = 1..n /\ \A k \in 1..n : seq[k] \in S
  BY <1>2
<1>4. H!Bars = Painted(seq, 1..n)
  BY <1>1, <1>3, FoldPaints DEF H!Bars, seq
<1>5. \A P \in {"up", "down"} :
        (\E b \in S : H!Index(b.at) = i /\ b.status = P)
          <=> (\E k \in 1..n : H!Index(seq[k].at) = i /\ seq[k].status = P)
  BY <1>2, <1>3
<1>6. (\E b \in S : H!Index(b.at) = i) <=> (\E k \in 1..n : H!Index(seq[k].at) = i)
  BY <1>2, <1>3
<1>7. QED
  BY <1>4, <1>5, <1>6 DEF Painted

\* A moment is in the bar of its index.
LEMMA InItsBar ==
  ASSUME asking \in H!View, NEW t \in Int, NEW i \in Int
  PROVE  H!Index(t) = i <=> /\ t >= H!WindowStart(asking.t) + i * Bucket
                            /\ t < H!WindowStart(asking.t) + (i + 1) * Bucket
<1> DEFINE start == H!WindowStart(asking.t)
<1>1. start \in Int
  <2>1. asking.t \in Int
    OBVIOUS
  <2>2. BarCount * Bucket \in Int
    BY MomentsAssumption
  <2>3. QED
    BY <2>1, <2>2 DEF H!WindowStart
<1> HIDE DEF start
<1>2. ASSUME NEW a \in Int, NEW B \in Nat \ {0}
      PROVE  a \div B = i <=> (i * B <= a /\ a < (i + 1) * B)
  OBVIOUS
<1>3. t - start \in Int /\ Bucket \in Nat \ {0}
  BY <1>1, MomentsAssumption
<1>4. (t - start) \div Bucket = i <=> (i * Bucket <= t - start /\ t - start < (i + 1) * Bucket)
  BY <1>2, <1>3
<1> DEFINE p == i * Bucket
           q == (i + 1) * Bucket
<1>5. p \in Int /\ q \in Int
  BY <1>3
<1>6. H!Index(t) = (t - start) \div Bucket
  BY DEF H!Index, start
<1> HIDE DEF p, q
<1>7. H!Index(t) = i <=> (p <= t - start /\ t - start < q)
  BY <1>4, <1>6 DEF p, q
<1>8. H!Index(t) = i <=> (t >= start + p /\ t < start + q)
  BY <1>1, <1>5, <1>7
<1>9. QED
  BY <1>8 DEF p, q, start

PageLeft == {<<"monitor", "beats">>, <<"beats">>, <<>>}

\* The status of the row, once it has one, is that of a stored heartbeat, which a page
\* finds if it lies within the page's bars.
PageInv ==
  /\ row # None /\ row.status # "pending" =>
       \E b \in stored : b.at = row.changed /\ b.status = row.status
  /\ asking.read \subseteq stored
  /\ asking.kind = "page" =>
       /\ asking.left \in PageLeft
       /\ asking.row = None <=> asking.left = <<"monitor", "beats">>
       /\ asking.row # None /\ asking.row.status # "pending" =>
            \E b \in stored : /\ b.at = asking.row.changed /\ b.status = asking.row.status
                              /\ asking.left = <<>> /\ row # None /\ b.at >= H!WindowStart(asking.t)
                                   => b \in asking.read

LEMMA BarsTell ==
  ASSUME HeartbeatInv, PageInv, NEW i \in 0..BarCount - 1
  PROVE  H!Bars[i] = H!Bar(i)
<1> DEFINE seen == {b \in asking.read : /\ b.at >= H!WindowStart(asking.t) + i * Bucket
                                        /\ b.at < H!WindowStart(asking.t) + (i + 1) * Bucket}
<1>1. /\ asking \in H!View /\ i \in Int /\ BeatsOK /\ asking.read \subseteq stored
      /\ \A b \in asking.read : b.at \in Int /\ b.status \in {"up", "down"}
  <2>1. asking \in H!View /\ stored \subseteq H!Beat /\ BeatsOK
    BY DEF HeartbeatInv, BeatsOK, H!TypeOK
  <2>2. asking.read \subseteq stored
    BY DEF PageInv
  <2>3. i \in Int
    BY MomentsAssumption
  <2>4. QED
    BY <2>1, <2>2, <2>3
<1>2. \A b \in asking.read : H!Index(b.at) = i <=> b \in seen
  BY <1>1, InItsBar
<1>3. H!Bars[i] = IF \E b \in seen : b.status = "down" THEN "down"
                 ELSE IF seen # {} THEN "up" ELSE "no data"
  <2>1. (\E b \in asking.read : H!Index(b.at) = i /\ b.status = "down") <=> \E b \in seen : b.status = "down"
    BY <1>2
  <2>2. (\E b \in asking.read : H!Index(b.at) = i) <=> seen # {}
    BY <1>2
  <2> HIDE DEF seen
  <2>3. QED
    BY <1>1, <2>1, <2>2, BarsAre
<1>4. H!Bar(i) = IF \E b \in seen : b.status = "down" THEN "down"
                ELSE IF seen # {} THEN "up" ELSE "no data"
  BY Zenon DEF H!Bar
<1>5. QED
  BY <1>3, <1>4

LEMMA InitPage == H!Init => PageInv
  BY DEF H!Init, H!Idle, H!Created, PageInv

\* The queries of a page are asked in their order.
LEMMA PageOrder ==
  ASSUME PageInv, asking.kind = "page"
  PROVE  /\ H!Asks("monitor") => asking.left = <<"monitor", "beats">> /\ Tail(asking.left) = <<"beats">>
         /\ H!Asks("beats") => asking.left = <<"beats">> /\ Tail(asking.left) = <<>>
         /\ ~H!Asks("last") /\ ~H!Asks("uptime")
<1>1. CASE asking.left = <<"monitor", "beats">>
  BY <1>1 DEF H!Asks
<1>2. CASE asking.left = <<"beats">>
  BY <1>2 DEF H!Asks
<1>3. CASE asking.left = <<>>
  BY <1>3 DEF H!Asks
<1>4. QED
  BY <1>1, <1>2, <1>3 DEF PageInv, PageLeft

\* The engine's steps, and those of time, leave a page that has been read as it is.
LEMMA EnginePage ==
  ASSUME HeartbeatInv, PageInv,
         \/ H!Tick \/ SetsStatus \/ H!DeleteMonitor \/ H!Prune \/ UNCHANGED H!vars
         \/ \E lag \in Lags, s \in {"up", "down"} : H!InsertHeartbeat(lag, s)
  PROVE  PageInv'
<1>1. asking' = asking /\ stored \subseteq stored' /\ (row' # None => row # None)
  BY DEF H!Tick, SetsStatus, H!SetMonitorStatus, H!DeleteMonitor, H!Prune, H!vars, H!InsertHeartbeat
<1>2. row' # None /\ row'.status # "pending" =>
        \E b \in stored' : b.at = row'.changed /\ b.status = row'.status
  <2>1. CASE SetsStatus
    BY <2>1 DEF SetsStatus, PageInv, HeartbeatInv, BeatsOK, H!TypeOK, H!SetMonitorStatus
  <2>2. CASE row' = row \/ row' = None
    BY <1>1, <2>2 DEF PageInv
  <2>3. QED
    BY <2>1, <2>2 DEF H!Tick, H!DeleteMonitor, H!Prune, H!vars, H!InsertHeartbeat
<1>3. QED
  BY <1>1, <1>2 DEF PageInv, H!WindowStart

\* No page is asked for.
LEMMA NoPage ==
  ASSUME PageInv, UNCHANGED <<now, row, beats, storing, stored>>,
         asking'.read \subseteq stored, asking'.kind # "page"
  PROVE  PageInv'
  BY DEF PageInv

LEMMA QueryPage ==
  ASSUME HeartbeatInv, PageInv, H!ReadMonitor \/ H!ReadBeats \/ H!ReadLast \/ H!ReadUptime
  PROVE  PageInv'
<1>1. UNCHANGED <<now, row, beats, storing, stored>>
  BY DEF H!ReadMonitor, H!ReadBeats, H!ReadLast, H!ReadUptime, H!Step
<1>2. asking \in H!View /\ now \in Int /\ beats \subseteq stored /\ stored \subseteq H!Beat
  BY DEF HeartbeatInv, BeatsOK, H!TypeOK
<1>3. asking.read \subseteq stored
  BY DEF PageInv
<1>4. CASE H!ReadMonitor
  <2>1. CASE row = None
    BY <1>1, <1>4, <2>1, NoPage DEF H!ReadMonitor, H!Idle
  <2>2. CASE row # None
    <3>1. asking' = [asking EXCEPT !.row = row, !.left = Tail(asking.left)]
      BY <1>2, <1>4, <2>2 DEF H!ReadMonitor, H!Step
    <3>2. asking.kind = "page" => Tail(asking.left) = <<"beats">>
      BY <1>4, PageOrder DEF H!ReadMonitor
    <3>3. /\ asking'.kind = asking.kind /\ asking'.read = asking.read
          /\ asking'.row = row /\ asking'.left = Tail(asking.left)
      BY <1>2, <3>1
    <3>4. QED
      <4>1. CASE asking.kind # "page"
        BY <1>1, <1>3, <3>3, <4>1, NoPage
      <4>2. CASE asking.kind = "page"
        <5>1. /\ asking'.left \in PageLeft /\ asking'.left # <<>>
              /\ asking'.left # <<"monitor", "beats">>
          <6>1. asking'.left = <<"beats">>
            BY <3>2, <3>3, <4>2
          <6>2. <<"beats">> # <<>> /\ <<"beats">> # <<"monitor", "beats">>
            OBVIOUS
          <6>3. QED
            BY <6>1, <6>2 DEF PageLeft
        <5>2. asking'.row.status # "pending" =>
                \E b \in stored : b.at = asking'.row.changed /\ b.status = asking'.row.status
          BY <2>2, <3>3 DEF PageInv
        <5>3. QED
          BY <1>1, <1>3, <2>2, <3>3, <5>1, <5>2 DEF PageInv
      <4>3. QED
        BY <4>1, <4>2
  <2>3. QED
    BY <2>1, <2>2
<1>5. CASE H!ReadBeats
  <2> DEFINE from == IF asking.kind = "page" THEN H!WindowStart(asking.t) ELSE asking.t - asking.age
  <2>1. asking' = [asking EXCEPT !.read = H!Since(from), !.left = Tail(asking.left)]
    BY <1>2, <1>5 DEF H!ReadBeats, H!Step
  <2>2. /\ asking'.kind = asking.kind /\ asking'.read = H!Since(from) /\ asking'.t = asking.t
        /\ asking'.row = asking.row /\ asking'.left = Tail(asking.left)
    BY <1>2, <2>1
  <2>3. H!Since(from) \subseteq stored
    BY <1>2 DEF H!Since
  <2>4. CASE asking.kind # "page"
    BY <1>1, <2>2, <2>3, <2>4, NoPage
  <2>5. CASE asking.kind = "page"
    <3>1. asking.left = <<"beats">> /\ asking'.left = <<>>
      BY <1>5, <2>2, <2>5, PageOrder DEF H!ReadBeats
    <3>2. asking.row # None /\ asking'.row # None
      BY <2>2, <2>5, <3>1 DEF PageInv
    <3>3. ASSUME NEW b \in stored, row # None, b.at >= H!WindowStart(asking.t)
          PROVE  b \in asking'.read
      <4>1. b.at \in Int /\ asking.t \in Int /\ now <= asking.t + Stay
        BY <1>2, <2>5 DEF HeartbeatInv, MetricsInv
      <4>2. b \in beats \/ b.at < now - Quarter
        BY <3>3 DEF HeartbeatInv, KeptLong
      <4> DEFINE length == BarCount * Bucket
      <4>3. length \in Int /\ length + Stay <= Quarter /\ Stay \in Int /\ Quarter \in Int
        BY MomentsAssumption
      <4>4. b.at >= asking.t - length
        BY <3>3 DEF H!WindowStart
      <4> HIDE DEF length
      <4>5. ~(b.at < now - Quarter)
        BY <1>2, <4>1, <4>3, <4>4
      <4>6. QED
        BY <2>2, <2>5, <3>3, <4>2, <4>5 DEF H!Since
    <3>4. asking'.row.status # "pending" =>
            \E b \in stored : /\ b.at = asking'.row.changed /\ b.status = asking'.row.status
                              /\ row # None /\ b.at >= H!WindowStart(asking.t) => b \in asking'.read
      BY <2>2, <2>5, <3>2, <3>3 DEF PageInv
    <3>5. QED
      BY <1>1, <2>2, <2>3, <3>1, <3>2, <3>4 DEF PageInv, PageLeft, H!WindowStart
  <2>6. QED
    BY <2>4, <2>5
<1>6. CASE H!ReadLast \/ H!ReadUptime
  <2>1. asking.kind # "page"
    BY <1>6, PageOrder DEF H!ReadLast, H!ReadUptime
  <2>2. asking'.kind = asking.kind /\ asking'.read = asking.read
    BY <1>2, <1>6 DEF H!ReadLast, H!ReadUptime, H!Step
  <2>3. QED
    BY <1>1, <1>3, <2>1, <2>2, NoPage
<1>7. QED
  BY <1>4, <1>5, <1>6

LEMMA StepPage == HeartbeatInv /\ PageInv /\ [H!Next]_(H!vars) => PageInv'
<1> SUFFICES ASSUME HeartbeatInv, PageInv, [H!Next]_(H!vars) PROVE PageInv'
  OBVIOUS
<1>1. ASSUME NEW kind \in {"page", "metrics", "series", "history"}, NEW h \in Nat, H!Ask(kind, h)
      PROVE  PageInv'
  <2>1. UNCHANGED <<now, row, beats, storing, stored>>
    BY <1>1 DEF H!Ask
  <2>2. /\ asking'.kind = kind /\ asking'.left = H!Queries(kind)
        /\ asking'.row = None /\ asking'.read = {}
    BY <1>1 DEF H!Ask, H!Idle
  <2>3. CASE kind # "page"
    BY <2>1, <2>2, <2>3, NoPage
  <2>4. CASE kind = "page"
    BY <2>1, <2>2, <2>4 DEF PageInv, PageLeft, H!Queries
  <2>5. QED
    BY <2>3, <2>4
<1>2. CASE \E kind \in {"page", "metrics"} : H!Ask(kind, 0)
  BY <1>1, <1>2
<1>3. CASE \E kind \in H!Histories, h \in H!Ages : H!Ask(kind, h)
  <2>1. H!Ages \subseteq Nat
    BY MomentsAssumption DEF H!Ages
  <2>2. QED
    BY <1>1, <1>3, <2>1 DEF H!Histories
<1>4. CASE H!QueryFails \/ H!Forget
  <2>1. UNCHANGED <<now, row, beats, storing, stored>> /\ asking \in H!View
    BY <1>4 DEF H!QueryFails, H!Forget, HeartbeatInv, BeatsOK, H!TypeOK
  <2>2. CASE asking' = H!Idle
    BY <2>1, <2>2, NoPage DEF H!Idle
  <2>3. CASE H!QueryFails /\ (H!Asks("last") \/ H!Asks("uptime")) /\ asking' # H!Idle
    <3>1. asking.kind # "page"
      BY <2>3, PageOrder
    <3>2. asking'.kind = asking.kind /\ asking'.read = asking.read
      BY <2>1, <2>3 DEF H!QueryFails
    <3>3. asking.read \subseteq stored
      BY DEF PageInv
    <3>4. QED
      BY <2>1, <3>1, <3>2, <3>3, NoPage
  <2>4. QED
    BY <1>4, <2>2, <2>3 DEF H!QueryFails, H!Forget
<1>5. QED
  BY <1>2, <1>3, <1>4, EnginePage, QueryPage DEF H!Next, SetsStatus

LEMMA PageInvariant == H!Spec => []PageInv
  BY InitPage, StepPage, HeartbeatInvariant, PTL DEF H!Spec

\* Each bar of a page tells the worst of its minute, in whatever order heartbeats of
\* one second come, and for any number of bars and heartbeats (statuspage.go:104-124).
THEOREM BarsAreTrue == H!Spec => []BarsTellTheWorst
<1>1. HeartbeatInv /\ PageInv => BarsTellTheWorst
  BY BarsTell DEF BarsTellTheWorst, H!BarsTellTheWorst
<1>2. QED
  BY <1>1, HeartbeatInvariant, PageInvariant, PTL

\* A status that a page shows since a moment within its bars has that moment's bar to
\* show for it (statuspage.go:82-91, engine.go:37-47).
THEOREM StatusesHaveBars == H!Spec => []StatusHasBar
<1>1. ASSUME HeartbeatInv, PageInv, H!Answered("page"), row # None, asking.row.status # "pending",
             asking.row.changed \in H!WindowStart(asking.t)..asking.t - 1
      PROVE  LET bar == H!Bars[H!Index(asking.row.changed)]
             IN IF asking.row.status = "down" THEN bar = "down" ELSE bar # "no data"
  <2> DEFINE start == H!WindowStart(asking.t)
             i == H!Index(asking.row.changed)
  <2>1. /\ asking \in H!View /\ asking.kind = "page" /\ asking.left = <<>> /\ BeatsOK
        /\ asking.read \subseteq stored
    BY <1>1 DEF HeartbeatInv, BeatsOK, H!TypeOK, H!Answered, PageInv
  <2>2. asking.row # None /\ asking.row \in H!Row
    BY <1>1, <2>1 DEF PageInv
  <2>3. asking.row.changed \in Int /\ asking.row.changed < asking.t /\ asking.row.changed >= start
        /\ asking.t \in Int /\ start \in Int
    <3>1. BarCount * Bucket \in Int /\ asking.t \in Int
      BY <2>1, MomentsAssumption
    <3>2. start \in Int
      BY <3>1 DEF H!WindowStart
    <3> HIDE DEF start
    <3>3. QED
      BY <1>1, <2>2, <3>1, <3>2 DEF start
  <2>4. PICK b \in asking.read : b.at = asking.row.changed /\ b.status = asking.row.status
    BY <1>1, <2>1, <2>2, <2>3 DEF PageInv
  <2>5. i \in 0..BarCount - 1
    <3>1. start = asking.t - BarCount * Bucket
      BY DEF H!WindowStart
    <3> DEFINE d == asking.row.changed - start
    <3>2. ASSUME NEW e \in Nat, NEW B \in Nat \ {0}, NEW n \in Nat, e < n * B
          PROVE  e \div B \in 0..n - 1
      <4> DEFINE k == e \div B
      <4>1. k \in Int /\ k * B <= e /\ e < (k + 1) * B
        OBVIOUS
      <4> HIDE DEF k
      <4>2. k >= 0
        <5>1. ASSUME k + 1 <= 0 PROVE (k + 1) * B <= 0
          BY <4>1, <5>1
        <5>2. QED
          BY <4>1, <5>1
      <4>3. k < n
        <5>1. ASSUME n <= k PROVE n * B <= k * B
          BY <4>1, <5>1
        <5>2. QED
          BY <3>2, <4>1, <5>1
      <4>4. QED
        BY <4>2, <4>3 DEF k
    <3>3. d \in Nat /\ d < BarCount * Bucket
      <4> DEFINE length == BarCount * Bucket
      <4>1. length \in Int
        BY MomentsAssumption
      <4> HIDE DEF length
      <4>2. start = asking.t - length
        BY <3>1 DEF length
      <4> HIDE DEF start
      <4>3. d \in Nat /\ d < length
        BY <2>3, <4>1, <4>2
      <4>4. QED
        BY <4>3 DEF length
    <3>4. i = d \div Bucket
      BY DEF H!Index
    <3> HIDE DEF d, i, start
    <3>5. QED
      BY <3>2, <3>3, <3>4, MomentsAssumption
  <2>6. H!Index(b.at) = i
    BY <2>4
  <2> HIDE DEF i
  <2>7. H!Bars[i] = IF \E c \in asking.read : H!Index(c.at) = i /\ c.status = "down" THEN "down"
                    ELSE IF \E c \in asking.read : H!Index(c.at) = i THEN "up" ELSE "no data"
    BY <2>1, <2>5, BarsAre
  <2>8. IF asking.row.status = "down" THEN H!Bars[i] = "down" ELSE H!Bars[i] # "no data"
    BY <2>4, <2>6, <2>7
  <2>9. QED
    BY <2>8 DEF i
<1>2. HeartbeatInv /\ PageInv => StatusHasBar
  BY <1>1 DEF StatusHasBar, H!StatusHasBar
<1>3. QED
  BY <1>2, HeartbeatInvariant, PageInvariant, PTL

(***************************************************************************)
(* Both                                                                    *)
(***************************************************************************)

\* A behaviour is one of StatusPages, and one of Heartbeats.
LEMMA PublicIsBoth == PublicSpec => Spec /\ H!Spec
<1>1. PublicInit => Init /\ H!Init
  BY DEF PublicInit
<1>2. [PublicNext]_<<component, vars, heartbeatVars>> => [Next]_vars /\ [H!Next]_(H!vars)
  BY DEF PublicNext, PagesMove, HeartbeatsMove, vars, heartbeatVars, H!vars
<1>3. QED
  BY <1>1, <1>2, PTL DEF PublicSpec, Spec, H!Spec

\* The tables, saves and requests of status pages (statuspage.go, db.go), and the
\* heartbeats and the requests for them (db.go, statuspage.go, publicapi.go), have the
\* types they are declared with.
THEOREM PublicTypes == PublicSpec => []PublicTypeOK
<1>1. TypeOK /\ HeartbeatInv => PublicTypeOK
  BY DEF PublicTypeOK, HeartbeatInv, BeatsOK
<1>2. QED
  BY <1>1, PublicIsBoth, TypeCorrect, HeartbeatInvariant, PTL
=============================================================================
