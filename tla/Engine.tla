------------------------------- MODULE Engine -------------------------------
(***************************************************************************)
(* The status engine of the monitoring server: what happens to the stored  *)
(* status of a monitor between a check result arriving from an agent (or   *)
(* the stale detector losing patience) and an alert being sent.            *)
(*                                                                         *)
(* One result is processed in up to four database calls with nothing held  *)
(* between them: the monitor row is loaded (by the HTTP handler, or by the *)
(* stale scan for all its candidates at once), a heartbeat is inserted,    *)
(* the new status is written if it differs from the LOADED one, and the    *)
(* maintenance table is consulted.  Each call is a step of its own here,   *)
(* because every other handler may run in between.                         *)
(*                                                                         *)
(* Time is kept as the age of the newest heartbeat of each monitor.  Ages  *)
(* stop growing at AgeCap, beyond every staleness limit, so that time is   *)
(* unbounded while the state space is finite.                              *)
(***************************************************************************)
EXTENDS Integers, FiniteSets

CONSTANTS
  Monitors,    \* every monitor id the AUTOINCREMENT column may ever hand out
  Agents,      \* the registered agents
  Handlers,    \* the server's concurrent POST /api/agent/results handlers
  StaleLoop,   \* the goroutine of Engine.staleLoop
  None,        \* "no such row", "nothing in progress"
  Intervals,   \* check intervals an admin may choose, after validateMonitor
  Grace,       \* the 30 s added to two intervals before a monitor is stale
  Lags,        \* how old checked_at may be on arrival; negative: clock ahead
  AgeCap,      \* ages saturate here
  MaxFaults    \* how many database errors and server restarts may happen

StatusDown    == 0
StatusUp      == 1
StatusPending == 2

Reported == {StatusDown, StatusUp}
Statuses == Reported \cup {StatusPending}

Procs == Handlers \cup {StaleLoop}
Ages  == Int

ASSUME ProcsAssumption     == StaleLoop \notin Handlers
ASSUME IntervalsAssumption == Intervals \subseteq Nat \ {0}
ASSUME GraceAssumption     == Grace \in Nat
ASSUME LagsAssumption      == Lags \subseteq Int
ASSUME AgeCapAssumption    ==
  /\ AgeCap \in Nat
  /\ \A i \in Intervals : 2 * i + Grace < AgeCap
  /\ \A l \in Lags : l <= AgeCap
ASSUME BoundsAssumption    == MaxFaults \in Nat

VARIABLES
  fresh,    \* ids never handed out; a deleted id is never used again
  row,      \* the monitors table: row[m] is a record, or None
  agents,   \* agents not deleted
  covered,  \* monitors inside an active maintenance window at this moment
  job,      \* job[p]: the ProcessResult call p is executing, or None
  todo,     \* rows of the current stale scan not yet processed: [mon, snap]
  outbox,   \* goroutines started for NotifyStatusChange and not finished
  faults,   \* database errors and restarts so far
  \* History, read by properties and by the abstraction only:
  seen,     \* the statuses ever inserted as heartbeats of a monitor
  crossed,  \* monitors that two goroutines have been busy with at a time, as
            \* long as anybody is busy with them
  settled   \* monitors that were once up or down with nobody busy with them

vars == <<fresh, row, agents, covered, job, todo, outbox, faults, seen, crossed, settled>>
history == <<seen, crossed, settled>>

-----------------------------------------------------------------------------
(* Types                                                                   *)

\* The columns of a monitor that the engine reads or writes.  "age" is that of
\* COALESCE(MAX(checked_at), created_at); "heard" is the status LastHeartbeat
\* returns, None while there is no heartbeat.
MonitorRow == [agent : Agents, enabled : BOOLEAN, interval : Intervals,
               status : Statuses, age : Ages, heard : Reported \cup {None}]

\* A ProcessResult call in progress: the next database call it will make, the
\* monitor, the status the caller loaded, the status and age of the result.
Job == [at : {"insert", "set", "maint"}, mon : Monitors,
        snap : Statuses, status : Reported, age : Ages]

Loaded == [mon : Monitors, snap : Statuses]
Alert  == [mon : Monitors, status : Reported]

ASSUME NoneAssumption == None \notin Statuses \cup MonitorRow \cup Job

-----------------------------------------------------------------------------
(* Helpers                                                                 *)

Exists(m)   == row[m] # None
Live        == {m \in Monitors : Exists(m)}
Older(a)    == IF a < AgeCap THEN a + 1 ELSE a
Fault       == faults < MaxFaults /\ faults' = faults + 1

\* A goroutine is busy with m as long as it holds a loaded copy of its row.
On(p, m)   == job[p] # None /\ job[p].mon = m
Scanned(m) == \E t \in todo : t.mon = m
Busy(m)    == Scanned(m) \/ \E p \in Procs : On(p, m)
Crowded(m) == \E p \in Procs : On(p, m) /\ (Scanned(m) \/ \E q \in Procs \ {p} : On(q, m))

\* What the history variables make of a step that begins or ends a copy.
Remember ==
  /\ crossed' = {m \in Monitors : Busy(m)' /\ (m \in crossed \/ Crowded(m)')}
  /\ settled' = settled \cup {m \in Monitors : /\ Exists(m)' /\ ~Busy(m)'
                                               /\ row'[m].status # StatusPending}

Limit(r)    == 2 * r.interval + Grace

\* Mutant: only monitors shown up are watched.
Bug_Overdue(r) == r.enabled /\ r.status = StatusUp /\ r.age > Limit(r)

\* StaleMonitorCandidates, the WHERE clause.
Overdue(r)  == r.enabled /\ r.status # StatusDown /\ r.age > Limit(r)
Candidates  == {m \in Live : Overdue(row[m])}

\* Mutant: the reported status taken as it is.
Bug_Normalise(raw) == raw

\* Any status but "up" counts as down.
Normalise(raw) == IF raw = StatusUp THEN StatusUp ELSE StatusDown

\* The heartbeat table after one more insert, seen through the two queries the
\* server makes of it: MAX(checked_at) and the newest row (ties to the last id).
WithHeartbeat(r, s, a) ==
  LET newest == r.heard = None \/ a <= r.age
  IN  [r EXCEPT !.age = IF newest THEN a ELSE r.age,
                !.heard = IF newest THEN s ELSE r.heard]

NewMonitor(a, i, e) == [agent |-> a, enabled |-> e, interval |-> i,
                        status |-> StatusPending, age |-> 0, heard |-> None]

NewJob(m, snap, s, a) == [at |-> "insert", mon |-> m, snap |-> snap,
                          status |-> s, age |-> a]

-----------------------------------------------------------------------------
(* Admin and clock                                                         *)

Init ==
  /\ fresh = Monitors
  /\ row = [m \in Monitors |-> None]
  /\ agents = Agents
  /\ covered = {}
  /\ job = [p \in Procs |-> None]
  /\ todo = {}
  /\ outbox = {}
  /\ faults = 0
  /\ seen = [m \in Monitors |-> {}]
  /\ crossed = {} /\ settled = {}

\* POST /api/admin/monitors
CreateMonitor(m, a, i, e) ==
  /\ m \in fresh
  /\ a \in agents
  /\ fresh' = fresh \ {m}
  /\ row' = [row EXCEPT ![m] = NewMonitor(a, i, e)]
  /\ UNCHANGED <<agents, covered, job, todo, outbox, faults, history>>

\* PUT /api/admin/monitors/{id}: the status columns keep their values.
UpdateMonitor(m, a, i, e) ==
  /\ Exists(m)
  /\ a \in agents
  /\ row' = [row EXCEPT ![m].agent = a, ![m].interval = i, ![m].enabled = e]
  /\ UNCHANGED <<fresh, agents, covered, job, todo, outbox, faults, history>>

\* Rows of maintenance_monitors and heartbeats go with the monitor's.
DeleteRows(S) ==
  /\ row' = [m \in Monitors |-> IF m \in S THEN None ELSE row[m]]
  /\ covered' = covered \ S

\* DELETE /api/admin/monitors/{id}
DeleteMonitor(m) ==
  /\ Exists(m)
  /\ DeleteRows({m})
  /\ UNCHANGED <<fresh, agents, job, todo, outbox, faults, history>>

\* DELETE /api/admin/agents/{id}: ON DELETE CASCADE takes the agent's monitors too.
DeleteAgent(a) ==
  /\ a \in agents
  /\ agents' = agents \ {a}
  /\ DeleteRows({m \in Live : row[m].agent = a})
  /\ UNCHANGED <<fresh, job, todo, outbox, faults, history>>

\* Windows begin, end, and are edited by the admin.
MaintenanceMoves(S) ==
  /\ S # covered
  /\ S \subseteq Live
  /\ covered' = S
  /\ UNCHANGED <<fresh, row, agents, job, todo, outbox, faults, history>>

\* One unit of time passes, for stored heartbeats and results in flight alike.
Tick ==
  /\ row' = [m \in Monitors |->
               IF Exists(m) THEN [row[m] EXCEPT !.age = Older(row[m].age)] ELSE None]
  /\ job' = [p \in Procs |->
               IF job[p] # None THEN [job[p] EXCEPT !.age = Older(job[p].age)] ELSE None]
  /\ UNCHANGED <<fresh, agents, covered, todo, outbox, faults, history>>

-----------------------------------------------------------------------------
(* Results enter the engine                                                *)

\* handleAgentResults: the caller is a known agent, the monitor exists and is
\* the agent's own.  A paused monitor's result is accepted like any other.
Accept(h, a, m, raw, lag) ==
  /\ job[h] = None
  /\ a \in agents
  /\ Exists(m) /\ row[m].agent = a
  /\ job' = [job EXCEPT ![h] = NewJob(m, row[m].status, Normalise(raw), lag)]
  /\ UNCHANGED <<fresh, row, agents, covered, todo, outbox, seen, faults>>
  /\ Remember

\* staleLoop on its ticker: one query loads every candidate.  (A scan that
\* finds nothing, or fails, changes nothing.)
StaleScan ==
  /\ job[StaleLoop] = None /\ todo = {}
  /\ Candidates # {}
  /\ todo' = {[mon |-> m, snap |-> row[m].status] : m \in Candidates}
  /\ UNCHANGED <<fresh, row, agents, covered, job, outbox, seen, faults>>
  /\ Remember

\* The next candidate of the scan, with the status loaded by the scan.
StaleTake(t) ==
  /\ job[StaleLoop] = None
  /\ t \in todo
  /\ todo' = todo \ {t}
  /\ job' = [job EXCEPT ![StaleLoop] = NewJob(t.mon, t.snap, StatusDown, 0)]
  /\ UNCHANGED <<fresh, row, agents, covered, outbox, seen, faults>>
  /\ Remember

-----------------------------------------------------------------------------
(* ProcessResult, one action per database call and outcome                 *)

At(p, pc)     == job[p] # None /\ job[p].at = pc
Finish(p)     == job' = [job EXCEPT ![p] = None]
Goto(p, pc)   == job' = [job EXCEPT ![p].at = pc]

\* Mutants: the early return of first results moved before the status write; the
\* comparison with the loaded status dropped; "down" taken as final.
Bug_AfterInsertFirst(p) ==
  IF job[p].snap \in {job[p].status, StatusPending} THEN Finish(p) ELSE Goto(p, "set")
Bug_AfterInsertAlways(p) == Goto(p, "set")
Bug_AfterInsertStuck(p) ==
  IF job[p].snap \in {job[p].status, StatusDown} THEN Finish(p) ELSE Goto(p, "set")

\* Nothing more to do when the result confirms the loaded status.
AfterInsert(p) == IF job[p].snap = job[p].status THEN Finish(p) ELSE Goto(p, "set")

\* Mutants: first results alert too; recoveries never do.
Bug_AfterSet(p) == Goto(p, "maint")
Bug_AfterSetSilent(p) == IF job[p].status = StatusUp THEN Finish(p) ELSE Goto(p, "maint")

\* Whatever became of the status write, a first result ends here without alert.
AfterSet(p) == IF job[p].snap = StatusPending THEN Finish(p) ELSE Goto(p, "maint")

\* NotifyStatusChange runs in a goroutine of its own.
Announce(p) == outbox' = outbox \cup {[mon |-> job[p].mon, status |-> job[p].status]}

InsertHeartbeat(p) ==
  /\ At(p, "insert")
  /\ LET j == job[p] IN
       /\ Exists(j.mon)
       /\ row' = [row EXCEPT ![j.mon] = WithHeartbeat(@, j.status, j.age)]
       /\ seen' = [seen EXCEPT ![j.mon] = @ \cup {j.status}]
  /\ AfterInsert(p)
  /\ UNCHANGED <<fresh, agents, covered, todo, outbox, faults>>
  /\ Remember

\* The foreign key refuses a heartbeat of a deleted monitor: the call returns.
InsertRefused(p) ==
  /\ At(p, "insert")
  /\ ~Exists(job[p].mon)
  /\ Finish(p)
  /\ UNCHANGED <<fresh, row, agents, covered, todo, outbox, seen, faults>>
  /\ Remember

\* Mutant: the error of the insert is logged and not returned.
Bug_InsertFails(p) ==
  /\ At(p, "insert")
  /\ Fault
  /\ Goto(p, "set")
  /\ UNCHANGED <<fresh, row, agents, covered, todo, outbox, seen>>
  /\ Remember

InsertFails(p) ==
  /\ At(p, "insert")
  /\ Fault
  /\ Finish(p)
  /\ UNCHANGED <<fresh, row, agents, covered, todo, outbox, seen>>
  /\ Remember

\* UPDATE ... WHERE id = ?: unconditional, and no error when no row matches.
SetMonitorStatus(p) ==
  /\ At(p, "set")
  /\ row' = [m \in Monitors |->
               IF m = job[p].mon /\ Exists(m)
               THEN [row[m] EXCEPT !.status = job[p].status] ELSE row[m]]
  /\ AfterSet(p)
  /\ UNCHANGED <<fresh, agents, covered, todo, outbox, seen, faults>>
  /\ Remember

\* The error is logged and the call goes on as if the status had been stored.
SetStatusFails(p) ==
  /\ At(p, "set")
  /\ Fault
  /\ AfterSet(p)
  /\ UNCHANGED <<fresh, row, agents, covered, todo, outbox, seen>>
  /\ Remember

\* Mutant: the lookup's answer is ignored.
Bug_CheckMaintenance(p) ==
  /\ At(p, "maint")
  /\ Announce(p)
  /\ Finish(p)
  /\ UNCHANGED <<fresh, row, agents, covered, todo, seen, faults>>
  /\ Remember

CheckMaintenance(p) ==
  /\ At(p, "maint")
  /\ IF job[p].mon \in covered THEN UNCHANGED outbox ELSE Announce(p)
  /\ Finish(p)
  /\ UNCHANGED <<fresh, row, agents, covered, todo, seen, faults>>
  /\ Remember

\* A failed lookup counts as "not in maintenance".
MaintLookupFails(p) ==
  /\ At(p, "maint")
  /\ Fault
  /\ Announce(p)
  /\ Finish(p)
  /\ UNCHANGED <<fresh, row, agents, covered, todo, seen>>
  /\ Remember

\* The alert goroutine has tried its channels, with or without success.
Deliver(al) ==
  /\ al \in outbox
  /\ outbox' = outbox \ {al}
  /\ UNCHANGED <<fresh, row, agents, covered, job, todo, faults, history>>

\* The server process dies and starts again: only the database survives.
Restart ==
  /\ Fault
  /\ job' = [p \in Procs |-> None]
  /\ todo' = {}
  /\ outbox' = {}
  /\ UNCHANGED <<fresh, row, agents, covered, seen>>
  /\ Remember

-----------------------------------------------------------------------------
(* Specification                                                           *)

Admin ==
  \/ \E m \in Monitors, a \in Agents, i \in Intervals, e \in BOOLEAN :
       CreateMonitor(m, a, i, e) \/ UpdateMonitor(m, a, i, e)
  \/ \E m \in Monitors : DeleteMonitor(m)
  \/ \E a \in Agents : DeleteAgent(a)
  \/ \E S \in SUBSET Monitors : MaintenanceMoves(S)

Process(p) ==
  \/ InsertHeartbeat(p) \/ InsertRefused(p) \/ InsertFails(p)
  \/ SetMonitorStatus(p) \/ SetStatusFails(p)
  \/ CheckMaintenance(p) \/ MaintLookupFails(p)

Next ==
  \/ Admin
  \/ Tick
  \/ \E h \in Handlers, a \in Agents, m \in Monitors, raw \in Statuses, lag \in Lags :
       Accept(h, a, m, raw, lag)
  \/ StaleScan
  \/ \E t \in Loaded : StaleTake(t)
  \/ \E p \in Procs : Process(p)
  \/ \E al \in Alert : Deliver(al)
  \/ Restart

Spec == Init /\ [][Next]_vars

\* The Go scheduler runs every goroutine that can run, the ticker keeps
\* ticking and time passes.  Admins, agents and faults owe nothing, and nor
\* do mail servers, so that an alert may stay on its way.
Fairness ==
  /\ WF_vars(Tick)
  /\ WF_vars(StaleScan)
  /\ \A t \in Loaded : WF_vars(StaleTake(t))
  /\ \A p \in Procs : WF_vars(Process(p))

FairSpec == Spec /\ Fairness

-----------------------------------------------------------------------------
(* Properties                                                              *)

TypeOK ==
  /\ fresh \subseteq Monitors
  /\ row \in [Monitors -> MonitorRow \cup {None}]
  /\ agents \subseteq Agents
  /\ covered \subseteq Monitors
  /\ job \in [Procs -> Job \cup {None}]
  /\ todo \subseteq Loaded
  /\ outbox \subseteq Alert
  /\ faults \in 0..MaxFaults
  /\ seen \in [Monitors -> SUBSET Reported]
  /\ crossed \subseteq Monitors
  /\ settled \subseteq Monitors

\* Whatever the interleaving, and whichever calls fail, a monitor is shown up or
\* down only if a heartbeat of it with that status was stored: the heartbeat
\* goes in before the status (engine.go:37-45), and ids are never reused.
StatusHasEvidence ==
  \A m \in Live : row[m].status # StatusPending => row[m].status \in seen[m]

\* An alert goes out only for a monitor that has been seen both up and down: the
\* first result of a monitor alerts nobody (engine.go:49), under every
\* interleaving, even if several first results are processed at once, the
\* monitor is deleted meanwhile, or the status write fails.
AlertJustified ==
  \A al \in outbox : seen[al.mon] = Reported

\* p is done with the writes of its result, and none of them has failed.
Concludes(p) == /\ At(p, "insert") \/ At(p, "set")
                /\ job'[p] = None \/ At(p, "maint")'
                /\ faults' = faults

\* The status page and the overview show the stored status beside the newest
\* heartbeat.  Whatever was lost, deleted or overlapping before, a call that had
\* its monitor to itself leaves the two in agreement, if its result is the newest
\* one (engine.go:37-47): it counts on the loaded status still being the stored one.
EndsAsHeard ==
  [][\A p \in Procs, m \in Monitors :
       (/\ Concludes(p) /\ job[p].mon = m /\ m \notin crossed
        /\ Exists(m)' /\ row'[m].age = job[p].age /\ job[p].age < AgeCap)
         => row'[m].heard = row'[m].status]_vars

\* The stored status of a monitor that stays turns from up to down or back.
Flips(m) == /\ Exists(m) /\ Exists(m)'
            /\ {row[m].status, row'[m].status} = Reported

\* p wrote its result and goes on to decide about an alert.
Raises(p) == At(p, "set") /\ At(p, "maint")'

\* "only real flips" (engine.go:49): a result is carried on towards an alert only
\* by the very write that turned the stored status over.  Otherwise the monitor was
\* deleted, or the write failed, or another goroutine was busy with the monitor
\* some time since there last was nobody: snapshots outlive the call beside them.
FalseOnlyWhenCrossed ==
  [][\A p \in Procs, m \in Monitors :
       Raises(p) /\ job[p].mon = m
         => Flips(m) \/ ~Exists(m) \/ faults' # faults \/ m \in crossed]_vars

\* "every up/down transition" (README:32) is carried on towards an alert.
NoSilentFlip ==
  [][\A m \in Monitors : Flips(m) =>
       \E p \in Procs : Raises(p) /\ job[p].mon = m]_vars

\* What is true of README:32 under every overlap, fault and lag: a transition goes
\* unnoticed only if results of the monitor have overlapped ever since its first
\* one.  Once a monitor has been up or down with nobody busy with it, no order of
\* results, scans, failures and restarts makes one of its transitions silent.
SilentOnlyAtFirst ==
  [][\A m \in Monitors :
       Flips(m) => \/ \E p \in Procs : Raises(p) /\ job[p].mon = m
                   \/ m \in crossed \ settled]_vars

\* "after ~2 missed intervals" (README:99-100): a paused monitor is due no
\* results, so resuming it must not make it overdue on the spot.
PausedTimeIsNotMissed ==
  [][\A m \in Live : Exists(m)' /\ ~row[m].enabled /\ row'[m].enabled
       => m \notin Candidates']_vars

\* An agent's result about m is accepted in this step.
Accepted(m, s) ==
  \E h \in Handlers : /\ job[h] = None /\ job'[h] # None
                       /\ job'[h].mon = m /\ job'[h].status \in s

\* README:99-100: once nothing is accepted for an enabled monitor any more, it is
\* shown down, and stays so, in spite of results still in flight, of failing
\* database calls and of restarts that lose a scan half-way.
SilentMonitorGoesDown ==
  \A m \in Monitors :
    /\ <>[](Exists(m) /\ row[m].enabled)
    /\ <>[][~Accepted(m, Reported)]_vars
    => <>[](Exists(m) /\ row[m].status = StatusDown)

\* A monitor whose agent goes on reporting it up, and never down, is again and
\* again shown up: no stale verdict or lost write keeps it down for good.
RecoveryShows ==
  \A m \in Monitors :
    /\ <>[]Exists(m)
    /\ []<><<Accepted(m, {StatusUp})>>_vars
    /\ <>[][~Accepted(m, {StatusDown})]_vars
    => []<>(Exists(m) /\ row[m].status = StatusUp)

-----------------------------------------------------------------------------
(* Inductive invariants                                                    *)

\* A loaded or stored status other than "pending" comes from a heartbeat.
Backed(m, s) == s # StatusPending => s \in seen[m]

\* Holds under every interleaving and every fault.
EvidenceInv ==
  /\ StatusHasEvidence
  /\ AlertJustified
  /\ \A t \in todo : Backed(t.mon, t.snap)
  /\ \A p \in Procs : job[p] # None =>
       /\ Backed(job[p].mon, job[p].snap)
       /\ job[p].at # "insert" => /\ job[p].status \in seen[job[p].mon]
                                 /\ job[p].status # job[p].snap
       /\ job[p].at = "maint" => job[p].snap # StatusPending

\* Ids never handed out have no row and nobody busy with them.
FreshUnused == \A m \in fresh : ~Exists(m) /\ ~Busy(m) /\ m \notin settled

CrossedMarked == \A m \in Monitors : Crowded(m) => m \in crossed

\* The loaded status is the stored one, until the call itself has rewritten it, if
\* nobody else has been busy with the monitor.
SnapshotCurrent ==
  /\ \A t \in todo : Exists(t.mon) /\ t.mon \notin crossed => row[t.mon].status = t.snap
  /\ \A p \in Procs :
       job[p] # None /\ job[p].at # "maint" /\ Exists(job[p].mon) /\ job[p].mon \notin crossed
         => row[job[p].mon].status = job[p].snap

\* A stored result that is about to change the status is the newest one, or there
\* is a newer one by the agent's clock.
NewestLast ==
  \A p \in Procs :
    At(p, "set") /\ Exists(job[p].mon) /\ job[p].mon \notin crossed =>
      LET r == row[job[p].mon] IN
      \/ job[p].age = r.age /\ r.heard = job[p].status
      \/ job[p].age > r.age
      \/ job[p].age >= AgeCap

\* No way back to "pending": nobody has loaded it of a monitor that is settled, and
\* a monitor of which anything else was loaded is not pending.
NeverBack ==
  /\ \A m \in settled : Exists(m) => row[m].status # StatusPending
  /\ \A t \in todo :
       /\ t.mon \in settled => t.snap # StatusPending
       /\ Exists(t.mon) /\ t.snap # StatusPending => row[t.mon].status # StatusPending
  /\ \A p \in Procs : job[p] # None =>
       /\ job[p].mon \in settled => job[p].snap # StatusPending
       /\ Exists(job[p].mon) /\ job[p].snap # StatusPending
            => row[job[p].mon].status # StatusPending

\* Holds under every interleaving and every fault, too.
AloneInv == FreshUnused /\ CrossedMarked /\ SnapshotCurrent /\ NewestLast /\ NeverBack

-----------------------------------------------------------------------------
(* The abstract specification                                              *)

\* What the board shows, and which turnovers are between the write that made
\* them and the maintenance lookup.
Unborn == -1
Gone   == -2
Shown  == [m \in Monitors |-> IF m \in fresh THEN Unborn
                             ELSE IF Exists(m) THEN row[m].status ELSE Gone]
Owed   == {[mon |-> job[p].mon, status |-> job[p].status] :
             p \in {q \in Procs : At(q, "maint")}}

Board == INSTANCE StatusBoard WITH
           Pending <- StatusPending, shown <- Shown, owed <- Owed

\* Under every interleaving and every fault the engine is such a board.
ImplementsBoard == Board!Spec
=============================================================================
