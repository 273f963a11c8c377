----------------------------- MODULE Heartbeats -----------------------------
(***************************************************************************)
(* The heartbeats of one monitor and the answers made of them: the bars of *)
(* a public page, the v1 API's metrics, and the history of a monitor.  An  *)
(* answer is put together from several queries, while the engine stores a  *)
(* heartbeat first and the status it leads to after it, the hourly pruning *)
(* deletes what is older than 90 days, and the monitor may be deleted.     *)
(*                                                                         *)
(* A moment of the model is as long as the instance likes: minutes, days   *)
(* and the 90 days keep their order, not their proportions.                *)
(***************************************************************************)
EXTENDS Integers, Sequences, FiniteSets, FiniteSetsExt, SequencesExt

CONSTANTS
  Bucket, BarCount,     \* moments of a bar, bars of a page
  Day, Month, Quarter,  \* 24 hours, 30 days and 90 days, in moments
  Overdue,              \* how long a monitor may be silent
  Lags,                 \* how old a result is when it arrives
  Stay,                 \* how long a request may take
  MaxBeats,             \* heartbeats
  Horizon,              \* the last moment
  None                  \* "no such monitor", "no heartbeat"

VARIABLES
  now,
  row,    \* the monitors table: last_status and last_change, or None
  beats,  \* the heartbeats table
  jobs,   \* results that are stored, and whose status is not yet
  view,   \* the request under way
  ever    \* history: all heartbeats stored since the monitor was created

vars == <<now, row, beats, jobs, view, ever>>

\* The v1 API's history of a monitor, and the one of the dashboard.
Histories == {"series", "history"}

Beat == [id : 1..MaxBeats, at : Int, status : {"up", "down"}]
Row  == [status : {"up", "down", "pending"}, changed : Int]

\* left: the queries still to be made; t: when it was asked for; age: how far a
\* history goes back; known: the uptime could be read.
View == [kind : {"none", "page", "metrics", "series", "history"},
         left : Seq({"monitor", "beats", "last", "uptime"}), t : Nat, age : Nat,
         row : Row \cup {None}, read : SUBSET Beat, last : Beat \cup {None},
         day : SUBSET Beat, known : BOOLEAN]

Idle == [kind |-> "none", left |-> <<>>, t |-> 0, age |-> 0, row |-> None,
         read |-> {}, last |-> None, day |-> {}, known |-> TRUE]

TypeOK ==
  /\ now \in 0..Horizon
  /\ row \in Row \cup {None}
  /\ beats \subseteq ever /\ ever \subseteq Beat
  /\ jobs \subseteq ever
  /\ view \in View

Created == 0

Init ==
  /\ now = Created
  /\ row = [status |-> "pending", changed |-> Created]
  /\ beats = {} /\ ever = {}
  /\ jobs = {}
  /\ view = Idle

-----------------------------------------------------------------------------
(* The engine                                                              *)

\* Time passes; it does not outrun a request.
Tick ==
  /\ now < Horizon
  /\ view.kind # "none" => now < view.t + Stay
  /\ now' = now + 1
  /\ UNCHANGED <<row, beats, jobs, view, ever>>

\* ProcessResult: the heartbeat is stored first.  The status goes after it if it is not
\* the loaded one, which may be an old one by now, and the call does not end before.
InsertHeartbeat(lag, status) ==
  /\ row # None
  /\ Cardinality(ever) < MaxBeats
  /\ LET hb == [id |-> Cardinality(ever) + 1, at |-> now - lag, status |-> status]
     IN /\ beats' = beats \cup {hb}
        /\ ever' = ever \cup {hb}
        /\ jobs' \in {jobs, jobs \cup {hb}}
  /\ UNCHANGED <<now, row, view>>

SetMonitorStatus(hb) ==
  /\ row' = IF row = None THEN None ELSE [status |-> hb.status, changed |-> hb.at]
  /\ jobs' = jobs \ {hb}
  /\ UNCHANGED <<now, beats, view, ever>>

\* The heartbeats go with the monitor.
DeleteMonitor ==
  /\ row # None
  /\ row' = None
  /\ beats' = {}
  /\ UNCHANGED <<now, jobs, view, ever>>

\* Mutant: the heartbeats are kept for 30 days.
Bug_Cutoff == now - Month

\* pruneLoop
Cutoff == now - Quarter

Prune ==
  /\ beats' = {b \in beats : b.at >= Cutoff}
  /\ beats' # beats
  /\ UNCHANGED <<now, row, jobs, view, ever>>

\* Mutant: no COALESCE: a monitor without heartbeats is compared with NULL.
Bug_LastSign(stored) == IF stored = {} THEN now ELSE Max({b.at : b \in stored})

\* The newest heartbeat, or else the creation of the monitor.
LastSign(stored) == IF stored = {} THEN Created ELSE Max({b.at : b \in stored})

\* StaleMonitorCandidates
Stale(stored) == LastSign(stored) < now - Overdue

-----------------------------------------------------------------------------
(* The answers                                                             *)

\* The newest heartbeat: by time, then by id.
Newest(stored) ==
  CHOOSE b \in stored : \A c \in stored : c.at < b.at \/ (c.at = b.at /\ c.id <= b.id)

Since(t) == {b \in beats : b.at >= t}

WindowStart(t) == t - BarCount * Bucket

\* Mutant: the heartbeats of a page are read before its monitors.
Bug_Queries(kind) ==
  CASE kind = "page" -> <<"beats", "monitor">>
    [] kind = "metrics" -> <<"monitor", "last", "uptime">>
    [] kind = "series" -> <<"monitor", "beats">>
    [] kind = "history" -> <<"beats">>

\* Mutant: the uptime is asked for before the newest heartbeat.
Bug_MetricsQueries(kind) ==
  CASE kind = "page" -> <<"monitor", "beats">>
    [] kind = "metrics" -> <<"monitor", "uptime", "last">>
    [] kind = "series" -> <<"monitor", "beats">>
    [] kind = "history" -> <<"beats">>

\* handlePublicStatus, handleV1Metrics, handleV1Heartbeats, handleMonitorHeartbeats
Queries(kind) ==
  CASE kind = "page" -> <<"monitor", "beats">>
    [] kind = "metrics" -> <<"monitor", "last", "uptime">>
    [] kind = "series" -> <<"monitor", "beats">>
    [] kind = "history" -> <<"beats">>

\* An age in hours that is out of range stands for a day.
Hours(h) == IF h <= 0 \/ h > Quarter THEN Day ELSE h

Ages == {0, Month, Quarter, Quarter + 1}

Ask(kind, h) ==
  /\ view.kind = "none"
  /\ view' = [Idle EXCEPT !.kind = kind, !.left = Queries(kind), !.t = now, !.age = Hours(h)]
  /\ UNCHANGED <<now, row, beats, jobs, ever>>

Asks(query) == view.left # <<>> /\ Head(view.left) = query

Step(v) ==
  /\ view' = [v EXCEPT !.left = Tail(view.left)]
  /\ UNCHANGED <<now, row, beats, jobs, ever>>

\* GetMonitor, ListMonitors, MonitorsByIDs: without its monitor there is no answer.
ReadMonitor ==
  /\ Asks("monitor")
  /\ IF row = None
     THEN view' = Idle /\ UNCHANGED <<now, row, beats, jobs, ever>>
     ELSE Step([view EXCEPT !.row = row])

\* HeartbeatsSince, HeartbeatsForMonitorsSince
ReadBeats ==
  /\ Asks("beats")
  /\ Step([view EXCEPT !.read =
       Since(IF view.kind = "page" THEN WindowStart(view.t) ELSE view.t - view.age)])

\* LastHeartbeat
ReadLast ==
  /\ Asks("last")
  /\ Step([view EXCEPT !.last = IF beats = {} THEN None ELSE Newest(beats)])

\* Uptime, of the last 24 hours
ReadUptime ==
  /\ Asks("uptime")
  /\ Step([view EXCEPT !.day = Since(view.t - Day)])

\* A query fails: metrics go on without what it was to tell, anything else is over.
QueryFails ==
  /\ \/ Asks("last")   /\ view' = [view EXCEPT !.left = Tail(@)]
     \/ Asks("uptime") /\ view' = [view EXCEPT !.left = Tail(@), !.known = FALSE]
     \/ (Asks("monitor") \/ Asks("beats")) /\ view' = Idle
  /\ UNCHANGED <<now, row, beats, jobs, ever>>

Answered(kind) == view.kind = kind /\ view.left = <<>>

Forget ==
  /\ \E kind \in {"page", "metrics", "series", "history"} : Answered(kind)
  /\ view' = Idle
  /\ UNCHANGED <<now, row, beats, jobs, ever>>

Next ==
  \/ Tick \/ DeleteMonitor \/ Prune
  \/ \E lag \in Lags, status \in {"up", "down"} : InsertHeartbeat(lag, status)
  \/ \E hb \in jobs : SetMonitorStatus(hb)
  \/ \E kind \in {"page", "metrics"} : Ask(kind, 0)
  \/ \E kind \in Histories, h \in Ages : Ask(kind, h)
  \/ ReadMonitor \/ ReadBeats \/ ReadLast \/ ReadUptime \/ QueryFails \/ Forget

Spec == Init /\ [][Next]_vars

-----------------------------------------------------------------------------
(* The bars                                                                *)

Index(t) == (t - WindowStart(view.t)) \div Bucket

\* Mutant: the last heartbeat of a bar decides.
Bug_Tainted(bars, b) ==
  IF Index(b.at) \in 0..BarCount - 1 THEN [bars EXCEPT ![Index(b.at)] = b.status] ELSE bars

\* One heartbeat more; a bar that was down once stays down.
Tainted(bars, b) ==
  IF Index(b.at) \in 0..BarCount - 1 /\ bars[Index(b.at)] # "down"
  THEN [bars EXCEPT ![Index(b.at)] = b.status]
  ELSE bars

\* ORDER BY checked_at: heartbeats of one second come in any order.
ByTime(hbs) ==
  CHOOSE s \in SetToSeqs(hbs) : \A i, j \in DOMAIN s : i < j => s[i].at <= s[j].at

Bars == FoldLeft(Tainted, [i \in 0..BarCount - 1 |-> "no data"], ByTime(view.read))

\* The bar of the minute i: down if the monitor was ever down in it.
Bar(i) ==
  LET seen == {b \in view.read : /\ b.at >= WindowStart(view.t) + i * Bucket
                                 /\ b.at < WindowStart(view.t) + (i + 1) * Bucket}
  IN CASE \E b \in seen : b.status = "down" -> "down"
       [] seen = {}                         -> "no data"
       [] OTHER                             -> "up"

-----------------------------------------------------------------------------

\* Each bar of an answered page tells the worst of its minute, in whatever order the
\* heartbeats arrived (statuspage.go:104-124).
BarsTellTheWorst ==
  Answered("page") => \A i \in 0..BarCount - 1 : Bars[i] = Bar(i)

\* A page that shows a monitor up or down since a moment within its bars has that
\* moment's bar to show for it: the status is read before the heartbeats
\* (statuspage.go:82-91) and written after them (engine.go:37-47).  A heartbeat of the
\* very second of the request is behind the last bar and left out (statuspage.go:114).
StatusHasBar ==
  Answered("page") /\ row # None /\ view.row.status # "pending"
    /\ view.row.changed \in WindowStart(view.t)..view.t - 1
  => LET bar == Bars[Index(view.row.changed)]
     IN IF view.row.status = "down" THEN bar = "down" ELSE bar # "no data"

\* Metrics that name a heartbeat of the last 24 hours have counted it in the uptime of
\* these hours, if that could be read: it is not "no data", and not 0 % when the
\* heartbeat was a good one (publicapi.go:188-196).
MetricsAgree ==
  Answered("metrics") /\ row # None /\ view.last # None /\ view.known
    /\ view.last.at >= view.t - Day
  => view.last \in view.day

\* A history of any length that may be asked for, 90 days included, has all that is
\* not older than 90 days when it is read: pruning keeps no shorter time than may be
\* asked for (api.go:265-271, publicapi.go:205-215, engine.go:96).
HistoryComplete ==
  [][Asks("beats") /\ row # None /\ view'.kind \in Histories /\ view'.left = <<>> =>
       {b \in ever : b.at >= view.t - view.age /\ b.at >= now - Quarter} \subseteq view'.read]_vars

\* Pruning neither hides a silent monitor nor makes a live one look silent: without a
\* heartbeat left the age is that of the row (db.go:575-579, engine.go:92-103).
PruningHidesNothing == row # None => Stale(beats) = Stale(ever)
=============================================================================
