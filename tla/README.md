# TSUNDERE in TLA+

A formal model of the TSUNDERE monitoring system: TLA+ modules translated from
the Go source under `src/`, TLC configurations that model-check small instances
of them, and TLAPS proofs of the properties that matter most for every instance.
`PROJECT.json` lists, for every definition, the source lines it stands for.

## 1. The system

Agents on monitored hosts poll the server for their monitor list, run the checks
and post the results.  The server stores them in one SQLite database, keeps a
status per monitor, alerts on up/down transitions, and serves public status pages.

| Component | State | Operations | Modelled in |
|---|---|---|---|
| Status engine (`server/engine.go`) | `monitors.last_status`, heartbeats; goroutines in the middle of `ProcessResult` | `ProcessResult`, `staleLoop`, `pruneLoop` | `Engine`, `StatusBoard`, `Silence`, `Heartbeats` |
| Agent API (`server/agentapi.go`) | agents' `last_seen`, inventory | config, results, inventory | `Engine`, `Agent`, `Presence`, `Inventory` |
| Agent process (`agent/agent.go`) | `runners` map, one goroutine per monitor | poll, reconcile, check, post, list docker, restart | `Agent`, `Silence`, `Presence`, `Inventory` |
| Docker check (`checks/docker.go`) | none between checks; two API requests within one | container and service check | `DockerCheck` |
| HTTPS check (`checks/https.go`) | none; the certificate's clock runs outside | status, keyword, certificate expiry | `HttpsCheck` |
| DNS, ping checks | none | one call, one parse | - |
| Maintenance windows (`api.go`, `db.go`) | `maintenances`, `maintenance_monitors` | create, update, delete, coverage query | `Maintenance` |
| Monitor and agent administration | `monitors`, `agents` (with token hashes) | create, update, pause, reassign, delete, new token | `Engine`, `Agent`, `Inventory` |
| Heartbeat store (`db.go`) | `heartbeats` | insert, newest, since, uptime, prune | `Engine`, `Heartbeats` |
| Status pages and incidents (`statuspage.go`, `api.go`, `db.go`) | `status_pages`, `status_page_monitors`, `incidents` | save, delete, open, resolve, the public request | `StatusPages`, `Heartbeats` (bars) |
| Notifier and settings (`alerts.go`, `api.go`) | `settings`; goroutines sending | Discord, SMTP, tests, saving settings | `Notifier` |
| Database connection (`db.go:25-40`) | the one connection of the pool | every query and transaction | `ConnPool` |
| Sign-in and sessions (`auth.go`, `config.go`) | signed cookies; the secret in `settings`; the admin list in the environment | sign in, check, sign out | `Access` |
| Read-only API, API keys (`publicapi.go`, `readonly.go`) | `api_keys` | keys and their lookup; metrics, histories | `Access`, `Heartbeats` |
| Routing, web UI | none | - | - |

How they interact.  An agent's `GET /api/agent/config` reads what the admin's
requests write; its `POST /api/agent/results` runs `ProcessResult` in the handler's
goroutine, concurrently with other handlers and with the stale loop, and nothing
but the single statements of the database is atomic.  `ProcessResult` asks the
maintenance tables whether to alert, and starts a goroutine for the alert.  The
public page reads what the engine, the maintenance and the page handlers write.
The server's state is the database: a restart loses goroutines and nothing else.

Hard to get right, and to test:
* stale reads: the status is loaded by the caller of `ProcessResult`, and compared
  and overwritten several statements later (`engine.go:41-50`);
* two-step writes: a heartbeat then a status; a window's or page's row, then its
  monitors (`db.go:631-656`, `db.go:833-856`), with deletions, foreign keys,
  failures and restarts in between;
* torn reads: a public page out of nine or more queries; a docker service out of two;
* agents that work with old answers, whose posts time out while the server goes on
  with them, that lose answers, restart, or are deleted;
* things that must happen some time: a silent monitor goes down, a recovered one
  comes up, agents follow the table;
* one database connection for everybody: whoever asks for it while holding it stops
  the server, and so would a transaction or cursor open across a network call;
* settings read and stored one by one, with no lock and no transaction around them;
* what errors are taken for: an unreadable setting for an empty one, an unreadable
  secret for a first start;
* boundaries: exactly two intervals, an online window that just fits two polls and a
  timeout, the last second of a page's bars, whole days of certificates, zero replicas.

`PROJECT.json` lists every such hazard at its line, with the properties for it or
the reason why there is none.

## 2. The modules

**Engine** models one `ProcessResult` call as the up to four database calls it is.
`Accept` is the handler's `GetMonitor` with the ownership check; `StaleScan` and
`StaleTake` are the scan's query and its loop; `InsertHeartbeat`, `SetMonitorStatus`,
`CheckMaintenance` are the calls, each with its failing twin (`InsertFails`,
`SetStatusFails`, `MaintLookupFails`, and `InsertRefused` for the foreign key of a
deleted monitor).  `job[p]` is what a goroutine holds between two calls: above all
`snap`, the status that was loaded.  Time is the *age* of a monitor's newest
heartbeat, as the staleness query sees it; ages stop at `AgeCap`, above every
limit, so time never ends and the state space does.  Nothing keeps two goroutines
from holding one monitor at once, here as in the code.  Two history variables say for
whom that happened: `crossed` has the monitors with more than one goroutine or scan
entry at work on them since there last was none, `settled` those that have been up or
down with nobody at work on them.  `Remember` updates them in each action that begins
or ends somebody's work; no guard reads them.

**StatusBoard** is what the engine promises: a board of statuses, where every
turnover, and nothing else, owes one announcement, made unless the monitor is in
maintenance.  The promise is weaker where the code is: results that cross may repeat an
announcement, or, while the first ones do, leave one out; a failing write may owe one
for nothing, and a restart forgets all.  `Engine!ImplementsBoard` maps the stored
statuses to the board, calls before their maintenance lookup to what is owed, and alert
goroutines to the outbox; `crossed`, `settled` and `faults` are inputs of the board.

**Agent** models the agents: `FetchConfig`, `LoseAnswer`, `Reconcile` are
`syncConfig`; `Report`, `PostReturns`, `Wake`, `Abandon`, `Stop` are the steps of a
`runMonitor` goroutine; `Accept`, `Discard`, `Done` what the server does with a
post, which goes on when the agent has given it up.  A definition is an owner, the
enabled flag, and a version that stands for all `sameDef` compares.

**Maintenance** models saving a window as its two database steps, with refusals,
failures and restarts between, and the coverage query.  Its `Covered` is what
`Engine` has as the variable `covered`, which may take any value at any time there.

**StatusPages** models saving a page in the same two steps, incidents, and the
public request one query after the other (`ReadPage`, `ReadList`, `ReadWindows`,
`ReadWindow` per window, `ReadMonitors`, `ReadIncidents`).  Engine and maintenance
appear as arbitrary changes of statuses and windows.  Requests only read: one
stands for any number.  Uptimes, texts and resolved incidents are left out: no
property is about them.

**Heartbeats** models one monitor's heartbeats and the four kinds of answer made of
them - a page's bars, the v1 metrics, the v1 and the dashboard's history - query by
query, while results are stored (heartbeat first, status after it, any number at a
time), pruned, or deleted with their monitor.  Whether a result differs from the status
its caller loaded is left open: `Engine` has what is loaded when.
`Bars` folds the heartbeats into bars as the code's loop does; `Bar` is the reference.

**DockerCheck** and **HttpsCheck** model one monitor's check while the container,
the service or the certificate changes.

**Presence** and **Inventory** model what else an agent tells the server: that it is
alive, by its polls, on a clock of ten-second units; and what docker lists, posted
with a token that the admin may replace, by an agent that gives posts up while the
server goes on with them.

**Silence** models the pace of one monitor's results - check, post, rest - against
the limit of the staleness query that `Engine` uses.  The history variable `worked`
is how much of the newest heartbeat's age the agent did not spend resting.

**ConnPool** models `database/sql` with one connection.  A store method is a program
of calls (`GetPage`, `ListPages`, `CreatePage`, ...); methods of a single call are
parts of these.  The other modules take single calls, and the transaction that
replaces a list, as steps; `HeldOnlyInside` and `TransactionAlone` are why they may.

**Notifier** models alerts, tests and saves, one setting at a time, with Discord's
timeout and a mail server that need never answer.

**Access** models the session secret and the admin list across starts, signed
cookies, and API keys between lookup and the note of their use.

Some components share no state in the code, or meet in the database connection only.
`MCHost` (certificate, docker check, presence, inventory), `MCServer` (silence,
connection, notifier, access) and `MCStatusPages` (pages, heartbeats) check such
components side by side: the variable `component` says which one moves, the others
rest, and the states add up where a free product would multiply them.

`MC*.tla` hold the small constants, symmetries and views of the instances.
Operators called `Bug_...` are mutations of the definition that follows them; they
are used by nothing but the check that each property notices the bug.

## 3. What is checked

| Run | Question | Instance |
|---|---|---|
| `races` | Under free overlap, with a failing call or a restart: is a shown status backed by a stored heartbeat (`StatusHasEvidence`); does nobody get an alert for a first result (`AlertJustified`)? | 1 monitor, 2 handlers and the stale loop, 1 fault |
| `overlap` | Under free overlap: does a call that had its monitor to itself leave status and newest heartbeat in agreement (`EndsAsHeard`); does only a flip lead to an alert decision, unless results cross (`FalseOnlyWhenCrossed`); is a flip silent only while first results cross (`SilentOnlyAtFirst`)? | 1 monitor, 2 handlers and the stale loop, 1 fault |
| `live` | Is the engine a `StatusBoard` (`ImplementsBoard`)?  Does a silent monitor go down, and a reported one come up again? | 1 monitor, 1 handler and the stale loop overlapping, clocks 1 ahead to 3 behind, 1 fault |
| `agent` | Do goroutines and the runners map agree (`OneLoopPerRunner`); do checks and results become those of the table (`Converges`); is an enabled monitor reported for ever (`KeepsReporting`)? | 2 agents, 1 monitor, 1 edit, 1 restart, lost answers, timeouts |
| `host` | Is a monitor shown up without a warning safe until its next check (`WarnedInTime`)?  Is a docker verdict that of the target at the last request, unless it was scaled in between (`VerdictHeld`)?  Is an agent that polls ever shown offline (`NeverFalselyOffline`)?  Does the server end up with what docker lists (`InventoryArrives`)? | 16-day certificate, checks every 2 days; up to 3 replicas; every second poll lost; 2 posts at once, 2 tokens, 1 fault |
| `server` | Does anybody hold the connection while waiting (`HeldOnlyInside`), get between the statements of a transaction (`TransactionAlone`), or wait for ever (`EveryCallReturns`)?  Are mails sent with settings that a finished save replaced (`OneForm`), are tested channels used (`TestedIsUsed`), does every alert get to the mail server (`EveryAlertGetsThrough`)?  Do sessions and keys last (`SessionsLast`, `KeysLast`)?  Is a reported monitor ever taken for silent but for what checks, posts and the start of its runner took (`StaleOnlyIfSlow`)? | 3 goroutines; 2 saves, 1 alert or test; 2 logins, 3 starts, 1 key; 1 fault; a 30 s interval with the agent's timeouts, in units of 10 s |
| `maint_edits` | Does editing a window ever uncover a monitor that all versions pick (`NoGap`)? | 2 overlapping admins, 2 monitors, 1 fault, deletions |
| `pages` | Does a public request ever hide an outage or an open incident that lasted as long as it, or make one up?  Do the bars tell the worst of their minute (`BarsTellTheWorst`), fit the status shown (`StatusHasBar`), and uptimes the newest heartbeat (`MetricsAgree`)?  Does pruning touch what may be asked for (`HistoryComplete`) or what silence is judged by (`PruningHidesNothing`)? | 1 page, 2 monitors, 1 window, 4 changes, 1 fault; 2 heartbeats, 2 bars of 2 moments |

Bounds.  Nothing but the order of a scan's list relates two monitors, and any order is
allowed, so one with three goroutines shows the races (the theorems are about any number
of monitors, and any clocks); a third handler would repeat the second (handlers are symmetric).  One interval and a grace of 0 keep the distances that matter: below,
at, and above the limit.  One fault is enough to break each call at each place.
The agent's single edit may be any change (pause, resume, move, new version,
deletion of monitor or agent) at any point of a poll, and a stale answer needs only
one.  The hours of `host` cover every day boundary between 16 days and the expiry,
and its tens of seconds are those of the code: interval, timeout and window in full.  Four changes of `pages` allow: create a page, an outage, a deletion, and
a save that is refused.  Three goroutines of `server` are a holder and two that wait;
its two saves overlap, or one follows the other, around one alert.  Three starts are
a first one and restarts before and after a cookie is given out.  Of heartbeats and
bars, two of each show order, ties and boundaries; moments keep the order of minutes,
days and the 90 days, not their proportions.  The 30 s interval of `server` with the
timeouts in full lets an agent be slow enough to be taken for silent, and the bound of
`StaleOnlyIfSlow` is reached there.  `races` and `overlap` view states
without the history, the windows and alerts, or the newest heartbeat's status, that no
property of the run reads and that decides nothing the properties read.

Fairness.  `Engine!Fairness`: the Go scheduler runs goroutines that can run
(`Process`, `StaleTake`), the ticker ticks (`StaleScan`) and time passes.
Admins, agents and faults owe nothing, and nor does `Deliver`, since `net/smtp` has no
timeout.  `Agent!Fairness`: polls go on for ever and an answer, or a
post, gets through again and again (`SF` on `Reconcile` and `Accept`), which is all
that a network that loses some requests grants; goroutines and handlers that can
run do.  `ConnPool!Fairness`: `database/sql` hands a free connection to a waiter picked
at random (`SF` on `Grant`), and SQLite comes to an end with each call; network calls
owe nothing.  `Notifier!Fairness`: queries are answered and Discord is given up after
10 s; mail servers owe nothing.  `Inventory!Fairness`: the loop ticks, posts are sent,
the client's patience ends, the server serves; losses are bounded, tokens and docker
change finitely often.

## 4. Where code and documents disagree

Each is a run whose property states what a document or comment promises:

* `silent` (`NoSilentFlip`): when the stale scan loaded "pending" and a first "up"
  is stored before the scan gets to the monitor, it turns up to down without an
  alert.  `SilentOnlyAtFirst`, which holds, says that a transition is silent only
  while results have crossed ever since the first one.  The same unguarded write lets two goroutines that loaded one status
  both alert for one transition; `FalseOnlyWhenCrossed` says that they must overlap.
* `resume` (`PausedTimeIsNotMissed`): a monitor paused for more than two intervals
  is a stale candidate the moment it is resumed, and goes down with an alert unless
  its agent reports before the next scan.
* `https_expired` (`ExpiredIsDown`): with verification off, a certificate that ran
  out less than 24 hours ago has "0 days" left and counts as up.
* `maint_mixed` (`PausedOnlyAsPicked`): two overlapping saves of one window leave the
  schedule of one with the monitors of the other, for good.

Met on the way, without a document that promises otherwise: a page or window whose
list is refused keeps its new row; a docker service scaled between the two requests
of a check is judged by its old size for one check; a window that changes its time
and its monitors between the two queries of `ListMaintenances` may cover a monitor
on one page view that neither version covers; a heartbeat of the very second of a page
request is behind the last bar and left out (`statuspage.go:114`); a stored session
secret that cannot be read at a start is replaced, and all sessions end
(`db.go:155-197`); a monitor whose checks and posts together take longer than the 30 s
of grace can be taken for silent while it is reported (`Silence`).

## 5. What is proved

The theorems hold for every value of the constants that satisfies the named
assumptions of the modules (a stale loop that is no handler, positive intervals,
`AgeCap` above every limit, ...).

* `EngineProofs`: `TypeCorrect`; `ShownHasEvidence` and `AlertsJustified`, both for
  any overlap and any faults.  Neither property is inductive: a status is written
  from a job, and an alert raised from one.  `EvidenceInv` adds that what goroutines
  and the scan's list have loaded is backed by a heartbeat, and that a job past its
  insert has its own status in `seen`, different from the loaded one; at the
  maintenance lookup the loaded one is not "pending", so both statuses were seen.
* `EngineOverlapProofs`: `CallsEndAsHeard`, `FlipsAreRaised`, `OnlyFlipsAreRaised`, for
  any overlap, any faults and any lag.  `AloneInv` says that a monitor with more than
  one goroutine or scan entry at work is marked (`CrossedMarked`), that the loaded status
  of an unmarked one is the stored one (`SnapshotCurrent`), that its stored result is the
  newest or there is a newer one (`NewestLast`), and that nobody has loaded "pending" of
  a monitor that is settled, or finds "pending" where something else was loaded
  (`NeverBack`).  A silent flip would need a loaded "pending" of a monitor that is not.
* `EngineRefinement`: `EngineImplementsBoard`, under the same freedom: initial states map
  to an empty board and every step to a step of the board or a stutter.
* `MaintenanceProofs`: `TypeCorrect`, `VersionInvariant` and `EditingOpensNoGap`.
  `VersionInv` says that the stored schedule is that of some version asked for, and the
  stored list that of some version, though perhaps of another; a monitor common to all
  is in both.
* `HostProofs`.  `NoUnannouncedExpiry` for every pause between checks of up to 15
  days, by `WarningInvariant`: 15 days were left at the last check without a warning.
  `VerdictsHold`: what the first request of a docker check read is still true at the
  second, but for the size of a service, because a container never turns into a service
  (`TargetInv`).  `OnlineStaysOnline`: `SeenInTime` adds to the time since the last poll
  what can still pass until the next one that arrives, lost polls and timeouts included;
  it stays within the 90 s only while no two polls in a row are lost, which is why
  `HostAssumption` has `MaxLost \in 0..1`.  `HostTypes` for all four components, the certificate's out of
  `WarningInvariant`.
* `ServerProofs`.
  `OnlySlowIsStale`, for all timeouts: `RestsInv` says that the age of the newest
  heartbeat is at most what the agent worked and what it can have rested since, which is
  one interval more after a lost result, and never more than two.
  `NobodyHoldsAndWaits` and `TransactionsAreAlone`, for any number of goroutines: whoever
  holds is inside a call, and there is one connection (`PoolInv`).
  `SessionsOutliveRestarts`: as long as no stored secret was overlooked there has been
  one secret only (`SessionInv`).  `KeysAreNotRefused`: a key that was there all along
  is there for the lookup (`KeyInv`).
  `MailsCarryOneForm` and `AlertsUseWhatWasTested` rest on `NotifierInv`: a table stored
  whole is the form it came from (`TableOK`); of a save that overlaps no other, the
  settings not left to store are stored (`SavesOK`); what a job has read is what the
  table had when the job began, or the job is blind to it, and what passed its test
  before has been tried by now (`JobsOK`).  `ServerTypes` for all four components.
* `PublicProofs`.  `OutagesShow`, `OutagesAreReal` and `IncidentsShow`, for any number of
  pages, monitors, windows, admins and changes.  An answer is made of reads at different
  times, so `RequestInv` relates what has been read so far to what has lasted since the
  request began (`RequestSees`): a lasting outage is among the monitors read, in none of
  the windows read, and once statuses are read the verdict is "down".  `ListsAsked` makes
  the stored list of a page that of a version, and `IdsOnce` keeps a save that comes late
  from hitting a new page of the same id.
  `UptimeCountsNewest`, `HistoriesAreComplete` and `PruningChangesNoVerdict` rest on
  `HeartbeatInv`: of a living monitor nothing younger than 90 days is missing
  (`KeptLong`).  `BarsAreTrue` and `StatusesHaveBars` add `PageInv`: a status that is no
  longer "pending" is that of a stored heartbeat, and a page that has read both has it
  among its heartbeats if it is recent enough.  The fold over the sorted heartbeats is
  known by what it makes of any set of places (`Painted`), which solves its recursion;
  that nothing else does follows from a smallest counterexample (`FoldPaints`), and that
  heartbeats can be sorted from counting those before each (`CanBeSorted`).
  `MomentsAssumption` puts a day, the bars, a request, and the silence allowed to a
  monitor below the 90 days of pruning.  The code has no upper limit for an interval
  (`api.go:181` has a minimum): from about 45 days on, a monitor's heartbeats would be
  pruned before it is overdue, and be judged by its creation.
* `AgentProofs`: `TypeCorrect` and `RunnersAreRun`.  `RunnersInv` says without counting
  what `OneLoopPerRunner` says: live goroutines are in the map, no two for one entry,
  and each entry has one.

Every invariant of the runs is a theorem, and every action property is.  Components that
`MCHost`, `MCServer` and `MCStatusPages` check side by side are proved one by one: a
behaviour of the whole is one of each component (`PublicIsBoth`, and its like in the other
two), so a theorem about a component holds of the whole.

`TLC` checks the same properties on the instances above, and was the first test of the
inductive invariants too.  Only model-checked: liveness (`SilentMonitorGoesDown`,
`RecoveryShows`, `Converges`, `KeepsReporting`, `InventoryArrives`, `EveryCallReturns`,
`EveryAlertGetsThrough`), which needs fairness and ENABLED and is out of the prover's reach;
and what must be violated (section 4).

## 6. What is not modelled

* DNS and ping checks: one call without state, and a parse of its output.
* The OAuth exchange, the SMTP dialogue, docker and `database/sql` are external; the
  modules have what the code does with their answers and errors.
* Routing, static files, and the browser UI; wording, HTML and JSON.
* Plain reads passed on: lists, overview counts, nodes, logs (`RecentEvents`); writes of
  a name or a text that nothing depends on: `RenameAgent`, `handleUpdateIncident`.
* `TSUNDERE_DEV_NO_AUTH`, which lets everybody in.
* The order in which two alerts arrive: goroutines of their own, no order promised.
* Checks of a target without TLS, which have no certificate to warn about.
* Saves of some settings only: the settings page sends them all (`admin.js:720-725`).
  What becomes of two overlapping saves is in the model, and `OneForm` leaves it out:
  settings are stored one by one, and no document promises more.
* What comes after a failed write of a new session secret: the server does not start.

Components are composed through what one module assumes of another, not in one state
space: `covered` of `Engine` is free where `Maintenance` has `Covered`, statuses of
`StatusPages` are free where `Engine` writes them, and handlers of `Engine` overlap as
posts may that `Agent` has given up (a post outlives its runner's patience).
