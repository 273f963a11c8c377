---------------------------- MODULE EngineProofs ----------------------------
(* Theorems about Engine, for every value of its constants. *)
EXTENDS Engine, TLAPS

-----------------------------------------------------------------------------
(* Type correctness                                                        *)

\* What a heartbeat, a tick or a status write makes of a row is a row.
LEMMA RowType ==
  ASSUME NEW r \in MonitorRow
  PROVE  /\ \A s \in Reported, a \in Ages : WithHeartbeat(r, s, a) \in MonitorRow
         /\ [r EXCEPT !.age = Older(r.age)] \in MonitorRow
         /\ \A s \in Reported : [r EXCEPT !.status = s] \in MonitorRow
  <1>1. ASSUME NEW s \in Reported, NEW a \in Ages
        PROVE  WithHeartbeat(r, s, a) \in MonitorRow
    <2>1. CASE r.heard = None \/ a <= r.age
      BY <2>1 DEF WithHeartbeat, MonitorRow
    <2>2. CASE ~(r.heard = None \/ a <= r.age)
      BY <2>2 DEF WithHeartbeat, MonitorRow
    <2>3. QED
      BY <2>1, <2>2
  <1>2. Older(r.age) \in Ages
    BY AgeCapAssumption DEF MonitorRow, Older, Ages
  <1>3. [r EXCEPT !.age = Older(r.age)] \in MonitorRow
    BY <1>2 DEF MonitorRow
  <1>4. ASSUME NEW s \in Reported
        PROVE  [r EXCEPT !.status = s] \in MonitorRow
    BY DEF MonitorRow, Statuses
  <1>5. QED
    BY <1>1, <1>3, <1>4

\* A new row, and a new call of ProcessResult, have the right types.
LEMMA NewType ==
  /\ \A a \in Agents, i \in Intervals, e \in BOOLEAN : NewMonitor(a, i, e) \in MonitorRow
  /\ \A m \in Monitors, c \in Statuses, s \in Reported, a \in Ages : NewJob(m, c, s, a) \in Job
  BY DEF NewMonitor, MonitorRow, NewJob, Job, Ages, Statuses

\* Whatever an agent sends, what is stored is "up" or "down".
LEMMA NormaliseType == \A raw : Normalise(raw) \in Reported
  BY DEF Normalise, Reported

\* How the helpers that end or advance a call change "job".
LEMMA JobType ==
  ASSUME TypeOK, NEW p \in Procs, job[p] # None
  PROVE  /\ job[p] \in Job
         /\ Finish(p) => job' \in [Procs -> Job \cup {None}]
         /\ \A pc \in {"insert", "set", "maint"} :
              Goto(p, pc) => job' \in [Procs -> Job \cup {None}]
  <1>1. job \in [Procs -> Job \cup {None}] /\ job[p] \in Job
    BY DEF TypeOK
  <1>2. \A pc \in {"insert", "set", "maint"} : [job[p] EXCEPT !.at = pc] \in Job
    BY <1>1 DEF Job
  <1>3. QED
    BY <1>1, <1>2 DEF Finish, Goto

\* The state the server starts in with an empty database is well typed.
LEMMA TypeInit == Init => TypeOK
  BY BoundsAssumption DEF Init, TypeOK

\* A step records what it does to the copies of a row, or leaves all copies alone.
LEMMA HistoryMoves == [Next]_vars => Remember \/ UNCHANGED <<crossed, settled>>
  BY DEF Next, Admin, CreateMonitor, UpdateMonitor, DeleteMonitor, DeleteAgent, MaintenanceMoves,
         Tick, Accept, StaleScan, StaleTake, Process, InsertHeartbeat, InsertRefused, InsertFails,
         SetMonitorStatus, SetStatusFails, CheckMaintenance, MaintLookupFails, Deliver, Restart,
         history, vars

LEMMA HistoryType ==
  TypeOK /\ [Next]_vars => crossed' \subseteq Monitors /\ settled' \subseteq Monitors
  BY HistoryMoves DEF TypeOK, Remember

\* Every action keeps the types: the inductive step of TypeCorrect.
LEMMA TypeStep == TypeOK /\ [Next]_vars => TypeOK'
  <1> SUFFICES ASSUME TypeOK, [Next]_vars PROVE TypeOK'
    OBVIOUS
  <1> USE HistoryType DEF TypeOK, history
  <1>1. ASSUME NEW m \in Monitors, NEW a \in Agents, NEW i \in Intervals, NEW e \in BOOLEAN,
               CreateMonitor(m, a, i, e)
        PROVE  TypeOK'
    BY <1>1, NewType DEF CreateMonitor
  <1>2. ASSUME NEW m \in Monitors, NEW a \in Agents, NEW i \in Intervals, NEW e \in BOOLEAN,
               UpdateMonitor(m, a, i, e)
        PROVE  TypeOK'
    <2>1. row[m] \in MonitorRow
      BY <1>2 DEF UpdateMonitor, Exists
    <2>2. [row[m] EXCEPT !.agent = a, !.interval = i, !.enabled = e] \in MonitorRow
      BY <2>1 DEF MonitorRow
    <2>3. row' = [row EXCEPT ![m] = [row[m] EXCEPT !.agent = a, !.interval = i, !.enabled = e]]
      BY <1>2, <2>1 DEF UpdateMonitor, MonitorRow
    <2>4. QED
      BY <1>2, <2>2, <2>3 DEF UpdateMonitor
  <1>3. ASSUME NEW m \in Monitors, DeleteMonitor(m)
        PROVE  TypeOK'
    BY <1>3 DEF DeleteMonitor, DeleteRows
  <1>4. ASSUME NEW a \in Agents, DeleteAgent(a)
        PROVE  TypeOK'
    BY <1>4 DEF DeleteAgent, DeleteRows
  <1>5. ASSUME NEW S \in SUBSET Monitors, MaintenanceMoves(S)
        PROVE  TypeOK'
    BY <1>5 DEF MaintenanceMoves
  <1>6. CASE Tick
    <2>1. \A m \in Monitors : row[m] # None =>
            row[m] \in MonitorRow /\ [row[m] EXCEPT !.age = Older(row[m].age)] \in MonitorRow
      BY RowType
    <2>2. \A p \in Procs : job[p] # None =>
            job[p] \in Job /\ [job[p] EXCEPT !.age = Older(job[p].age)] \in Job
      BY AgeCapAssumption DEF Job, Older, Ages
    <2>3. QED
      BY <1>6, <2>1, <2>2 DEF Tick, Exists
  <1>7. ASSUME NEW h \in Handlers, NEW a \in Agents, NEW m \in Monitors, NEW raw \in Statuses,
               NEW lag \in Lags, Accept(h, a, m, raw, lag)
        PROVE  TypeOK'
    <2>1. row[m].status \in Statuses /\ lag \in Ages
      BY <1>7, LagsAssumption DEF Accept, Exists, MonitorRow, Ages
    <2>2. NewJob(m, row[m].status, Normalise(raw), lag) \in Job
      BY <2>1, NewType, NormaliseType
    <2>3. QED
      BY <1>7, <2>2 DEF Accept, Procs
  <1>8. CASE StaleScan
    <2>1. \A m \in Candidates : m \in Monitors /\ row[m].status \in Statuses
      BY DEF Candidates, Live, Exists, MonitorRow
    <2>2. QED
      BY <1>8, <2>1 DEF StaleScan, Loaded
  <1>9. ASSUME NEW t \in Loaded, StaleTake(t)
        PROVE  TypeOK'
    <2>1. NewJob(t.mon, t.snap, StatusDown, 0) \in Job
      BY NewType DEF Loaded, Reported, Ages
    <2>2. QED
      BY <1>9, <2>1 DEF StaleTake, Procs
  <1>10. ASSUME NEW p \in Procs, Process(p)
         PROVE  TypeOK'
    <2>1. job[p] # None
      BY <1>10 DEF Process, InsertHeartbeat, InsertRefused, InsertFails, SetMonitorStatus,
                  SetStatusFails, CheckMaintenance, MaintLookupFails, At
    <2>2. job[p] \in Job /\ job[p].mon \in Monitors /\ job[p].status \in Reported
      BY <2>1 DEF Job
    <2>3. CASE InsertHeartbeat(p)
      <3>1. job' \in [Procs -> Job \cup {None}]
        BY <2>1, <2>3, JobType DEF InsertHeartbeat, AfterInsert
      <3>2. row[job[p].mon] \in MonitorRow
        BY <2>2, <2>3 DEF InsertHeartbeat, Exists
      <3>3. WithHeartbeat(row[job[p].mon], job[p].status, job[p].age) \in MonitorRow
        BY <2>2, <3>2, RowType DEF Job
      <3>4. QED
        BY <2>2, <2>3, <3>1, <3>3 DEF InsertHeartbeat
    <2>4. CASE InsertRefused(p)
      BY <2>1, <2>4, JobType DEF InsertRefused
    <2>5. CASE InsertFails(p)
      BY <2>1, <2>5, JobType, BoundsAssumption DEF InsertFails, Fault
    <2>6. CASE SetMonitorStatus(p)
      <3>1. job' \in [Procs -> Job \cup {None}]
        BY <2>1, <2>6, JobType DEF SetMonitorStatus, AfterSet
      <3>2. \A m \in Monitors : row[m] # None =>
              [row[m] EXCEPT !.status = job[p].status] \in MonitorRow
        <4> TAKE m \in Monitors
        <4> HAVE row[m] # None
        <4>1. row[m] \in MonitorRow
          OBVIOUS
        <4>2. QED
          BY <2>2, <4>1, RowType
      <3>3. QED
        BY <2>6, <3>1, <3>2 DEF SetMonitorStatus, Exists
    <2>7. CASE SetStatusFails(p)
      <3>1. job' \in [Procs -> Job \cup {None}]
        BY <2>1, <2>7, JobType DEF SetStatusFails, AfterSet
      <3>2. QED
        BY <2>7, <3>1, BoundsAssumption DEF SetStatusFails, Fault
    <2>8. CASE CheckMaintenance(p)
      BY <2>1, <2>2, <2>8, JobType DEF CheckMaintenance, Announce, Alert
    <2>9. CASE MaintLookupFails(p)
      BY <2>1, <2>2, <2>9, JobType, BoundsAssumption DEF MaintLookupFails, Announce, Alert, Fault
    <2>10. QED
      BY <1>10, <2>3, <2>4, <2>5, <2>6, <2>7, <2>8, <2>9 DEF Process
  <1>11. ASSUME NEW al \in Alert, Deliver(al)
         PROVE  TypeOK'
    BY <1>11 DEF Deliver
  <1>12. CASE Restart
    BY <1>12, BoundsAssumption DEF Restart, Fault
  <1>13. CASE UNCHANGED vars
    BY <1>13 DEF vars
  <1>14. QED
    BY <1>1, <1>2, <1>3, <1>4, <1>5, <1>6, <1>7, <1>8, <1>9, <1>10, <1>11, <1>12, <1>13
       DEF Next, Admin

\* The state has the types of its columns and fields in every reachable state.
THEOREM TypeCorrect == Spec => []TypeOK
  BY TypeInit, TypeStep, PTL DEF Spec

-----------------------------------------------------------------------------
(* Evidence for every shown status and every alert                         *)

\* Before the first result there is nothing to account for.
LEMMA EvidenceInit == Init => EvidenceInv
  BY DEF Init, EvidenceInv, StatusHasEvidence, AlertJustified, Live, Exists

\* Ages and the admin's columns are no part of the evidence: a step that keeps
\* "seen", and adds no call, no scan entry, no alert and no shown status to
\* those it found, keeps the invariant.
LEMMA EvidenceKept ==
  ASSUME TypeOK, EvidenceInv, seen' = seen, outbox' \subseteq outbox, todo' \subseteq todo,
         \A m \in Monitors : Exists(m)' =>
            \/ row'[m].status = StatusPending
            \/ Exists(m) /\ row'[m].status = row[m].status,
         \A p \in Procs : job'[p] # None =>
            /\ job[p] # None
            /\ job'[p].mon = job[p].mon /\ job'[p].snap = job[p].snap
            /\ job'[p].at = job[p].at /\ job'[p].status = job[p].status
  PROVE  EvidenceInv'
  <1>1. StatusHasEvidence'
    BY DEF EvidenceInv, StatusHasEvidence, Live, Exists
  <1>2. AlertJustified'
    BY DEF EvidenceInv, AlertJustified
  <1>3. \A t \in todo' : Backed(t.mon, t.snap)'
    BY DEF EvidenceInv, Backed
  <1>4. ASSUME NEW p \in Procs, job'[p] # None
        PROVE  /\ Backed(job[p].mon, job[p].snap)'
               /\ job'[p].at # "insert" => /\ job'[p].status \in seen'[job'[p].mon]
                                          /\ job'[p].status # job'[p].snap
               /\ job'[p].at = "maint" => job'[p].snap # StatusPending
    BY <1>4 DEF EvidenceInv, Backed
  <1>5. QED
    BY <1>1, <1>2, <1>3, <1>4 DEF EvidenceInv

\* A new call, in the stage "insert", whose loaded status has evidence.
LEMMA EvidenceNewJob ==
  ASSUME TypeOK, EvidenceInv, NEW p \in Procs, NEW m \in Monitors,
         NEW c \in Statuses, NEW s \in Reported, NEW a \in Ages, Backed(m, c),
         job' = [job EXCEPT ![p] = NewJob(m, c, s, a)],
         todo' \subseteq todo, UNCHANGED <<row, seen, outbox>>
  PROVE  EvidenceInv'
  <1>1. StatusHasEvidence' /\ AlertJustified'
    BY DEF EvidenceInv, StatusHasEvidence, AlertJustified, Live, Exists
  <1>2. \A t \in todo' : Backed(t.mon, t.snap)'
    BY DEF EvidenceInv, Backed
  <1>3. job'[p].at = "insert" /\ job'[p].mon = m /\ job'[p].snap = c
    BY DEF TypeOK, NewJob
  <1>4. \A q \in Procs : q # p => job'[q] = job[q]
    BY DEF TypeOK
  <1>5. QED
    BY <1>1, <1>2, <1>3, <1>4 DEF EvidenceInv, Backed

\* A call ends, or moves on to a stage whose conditions it meets, while the
\* evidence, the shown statuses and the alerts stay sound by themselves.
LEMMA EvidenceAdvance ==
  ASSUME TypeOK, EvidenceInv, NEW p \in Procs, job[p] # None, todo' = todo,
         StatusHasEvidence', AlertJustified',
         \A m \in Monitors : seen[m] \subseteq seen'[m],
         \/ Finish(p)
         \/ \E pc \in {"set", "maint"} :
              /\ Goto(p, pc)
              /\ job[p].status \in seen'[job[p].mon] /\ job[p].status # job[p].snap
              /\ pc = "maint" => job[p].snap # StatusPending
  PROVE  EvidenceInv'
  <1>1. \A t \in todo : t.mon \in Monitors
    BY DEF TypeOK, Loaded
  <1>2. \A t \in todo' : Backed(t.mon, t.snap)'
    BY <1>1 DEF EvidenceInv, Backed
  <1>3. \A q \in Procs : job[q] # None => job[q] \in Job /\ job[q].mon \in Monitors
    BY DEF TypeOK, Job
  <1>4. \A q \in Procs : q # p => job'[q] = job[q]
    BY DEF TypeOK, Finish, Goto
  <1>5. \A q \in Procs : job[q] # None => Backed(job[q].mon, job[q].snap)
    BY DEF EvidenceInv
  <1>6. CASE Finish(p)
    <2>1. job'[p] = None
      BY <1>6 DEF TypeOK, Finish
    <2>2. QED
      BY <1>2, <1>3, <1>4, <2>1 DEF EvidenceInv, Backed
  <1>7. ASSUME NEW pc \in {"set", "maint"}, Goto(p, pc),
               job[p].status \in seen'[job[p].mon], job[p].status # job[p].snap,
               pc = "maint" => job[p].snap # StatusPending
        PROVE  EvidenceInv'
    <2>1. /\ job'[p].at = pc /\ job'[p].mon = job[p].mon
          /\ job'[p].snap = job[p].snap /\ job'[p].status = job[p].status
      BY <1>3, <1>7 DEF TypeOK, Goto, Job
    <2>2. Backed(job[p].mon, job[p].snap)'
      BY <1>3, <1>5, <2>1 DEF Backed
    <2>3. QED
      BY <1>2, <1>3, <1>4, <1>7, <2>1, <2>2 DEF EvidenceInv, Backed
  <1>8. QED
    BY <1>6, <1>7

\* The inductive step of EvidenceInv, one action at a time.
LEMMA EvidenceStep == TypeOK /\ EvidenceInv /\ [Next]_vars => EvidenceInv'
  <1> SUFFICES ASSUME TypeOK, EvidenceInv, [Next]_vars PROVE EvidenceInv'
    OBVIOUS
  <1> USE DEF history
  <1>1. ASSUME NEW m \in Monitors, NEW a \in Agents, NEW i \in Intervals, NEW e \in BOOLEAN,
               CreateMonitor(m, a, i, e) \/ UpdateMonitor(m, a, i, e)
        PROVE  EvidenceInv'
    <2>1. CASE CreateMonitor(m, a, i, e)
      <3>1. row'[m].status = StatusPending /\ \A n \in Monitors : n # m => row'[n] = row[n]
        BY <2>1 DEF CreateMonitor, TypeOK, NewMonitor
      <3>2. QED
        BY <2>1, <3>1, EvidenceKept DEF CreateMonitor, Exists
    <2>2. CASE UpdateMonitor(m, a, i, e)
      <3>1. row[m] \in MonitorRow /\ row[m] # None
        BY <2>2 DEF UpdateMonitor, TypeOK, Exists
      <3>2. row'[m].status = row[m].status /\ \A n \in Monitors : n # m => row'[n] = row[n]
        BY <2>2, <3>1 DEF UpdateMonitor, TypeOK, MonitorRow
      <3>3. QED
        BY <2>2, <3>1, <3>2, EvidenceKept DEF UpdateMonitor, Exists
    <2>3. QED
      BY <1>1, <2>1, <2>2
  <1>2. ASSUME NEW m \in Monitors, DeleteMonitor(m)
        PROVE  EvidenceInv'
    BY <1>2, EvidenceKept DEF DeleteMonitor, DeleteRows, Exists
  <1>3. ASSUME NEW a \in Agents, DeleteAgent(a)
        PROVE  EvidenceInv'
    BY <1>3, EvidenceKept DEF DeleteAgent, DeleteRows, Exists
  <1>4. ASSUME NEW S \in SUBSET Monitors, MaintenanceMoves(S)
        PROVE  EvidenceInv'
    BY <1>4, EvidenceKept DEF MaintenanceMoves, Exists
  <1>5. CASE Tick
    <2>1. \A m \in Monitors : Exists(m)' => Exists(m) /\ row'[m].status = row[m].status
      BY <1>5 DEF Tick, Exists, TypeOK, MonitorRow
    <2>2. \A p \in Procs : job'[p] # None =>
            /\ job[p] # None
            /\ job'[p].mon = job[p].mon /\ job'[p].snap = job[p].snap
            /\ job'[p].at = job[p].at /\ job'[p].status = job[p].status
      BY <1>5 DEF Tick, TypeOK, Job
    <2>3. QED
      BY <1>5, <2>1, <2>2, EvidenceKept DEF Tick
  <1>6. ASSUME NEW h \in Handlers, NEW a \in Agents, NEW m \in Monitors, NEW raw \in Statuses,
               NEW lag \in Lags, Accept(h, a, m, raw, lag)
        PROVE  EvidenceInv'
    <2>1. row[m].status \in Statuses /\ lag \in Ages /\ h \in Procs
      BY <1>6, LagsAssumption DEF Accept, Exists, TypeOK, MonitorRow, Ages, Procs
    <2>2. Backed(m, row[m].status)
      BY <1>6 DEF Accept, EvidenceInv, StatusHasEvidence, Live, Backed
    <2>3. QED
      BY <1>6, <2>1, <2>2, NormaliseType, EvidenceNewJob DEF Accept
  <1>7. CASE StaleScan
    <2>1. \A t \in todo' : Backed(t.mon, t.snap)'
      BY <1>7 DEF StaleScan, Candidates, EvidenceInv, StatusHasEvidence, Backed
    <2>2. QED
      BY <1>7, <2>1 DEF StaleScan, EvidenceInv, StatusHasEvidence, AlertJustified, Backed,
                        Live, Exists
  <1>8. ASSUME NEW t \in Loaded, StaleTake(t)
        PROVE  EvidenceInv'
    <2>1. t.mon \in Monitors /\ t.snap \in Statuses /\ StaleLoop \in Procs
          /\ StatusDown \in Reported /\ 0 \in Ages /\ Backed(t.mon, t.snap)
      BY <1>8 DEF StaleTake, Loaded, Procs, Reported, Ages, EvidenceInv
    <2>2. todo' \subseteq todo /\ UNCHANGED <<row, seen, outbox>>
      BY <1>8 DEF StaleTake
    <2>3. job' = [job EXCEPT ![StaleLoop] = NewJob(t.mon, t.snap, StatusDown, 0)]
      BY <1>8 DEF StaleTake
    <2>4. QED
      BY <2>1, <2>2, <2>3, EvidenceNewJob
  <1>9. ASSUME NEW p \in Procs, Process(p)
        PROVE  EvidenceInv'
    <2>1. job[p] # None
      BY <1>9 DEF Process, InsertHeartbeat, InsertRefused, InsertFails, SetMonitorStatus,
                  SetStatusFails, CheckMaintenance, MaintLookupFails, At
    <2>2. job[p] \in Job /\ job[p].mon \in Monitors /\ job[p].status \in Reported
          /\ job[p].snap \in Statuses
      BY <2>1 DEF TypeOK, Job
    <2>3. CASE InsertHeartbeat(p)
      <3>1. seen' = [seen EXCEPT ![job[p].mon] = @ \cup {job[p].status}]
        BY <2>3 DEF InsertHeartbeat
      <3>2. /\ \A m \in Monitors : seen[m] \subseteq seen'[m] /\ seen'[m] \subseteq Reported
            /\ job[p].status \in seen'[job[p].mon]
        BY <2>2, <3>1 DEF TypeOK
      <3>3. \A m \in Monitors : Exists(m)' => Exists(m) /\ row'[m].status = row[m].status
        BY <2>2, <2>3 DEF InsertHeartbeat, Exists, TypeOK, WithHeartbeat, MonitorRow
      <3>4. StatusHasEvidence'
        BY <3>2, <3>3 DEF EvidenceInv, StatusHasEvidence, Live
      <3>5. outbox' = outbox /\ todo' = todo
        BY <2>3 DEF InsertHeartbeat
      <3>6. AlertJustified'
        <4>1. \A al \in outbox : al.mon \in Monitors /\ seen[al.mon] = Reported
          BY DEF EvidenceInv, AlertJustified, TypeOK, Alert
        <4>2. \A al \in outbox : seen'[al.mon] = Reported
          BY <3>2, <4>1
        <4>3. QED
          BY <3>5, <4>2 DEF AlertJustified
      <3>7. \/ Finish(p)
            \/ Goto(p, "set") /\ job[p].status # job[p].snap
        BY <2>3 DEF InsertHeartbeat, AfterInsert
      <3>8. QED
        BY <2>1, <3>2, <3>4, <3>5, <3>6, <3>7, EvidenceAdvance
    <2>4. CASE InsertRefused(p) \/ InsertFails(p)
      <3>1. Finish(p) /\ UNCHANGED <<row, seen, outbox, todo>>
        BY <2>4 DEF InsertRefused, InsertFails
      <3>2. StatusHasEvidence' /\ AlertJustified'
        BY <3>1 DEF EvidenceInv, StatusHasEvidence, AlertJustified, Live, Exists
      <3>3. QED
        BY <2>1, <3>1, <3>2, EvidenceAdvance
    <2>5. CASE SetMonitorStatus(p) \/ SetStatusFails(p)
      <3>1. At(p, "set") /\ AfterSet(p) /\ UNCHANGED <<seen, outbox, todo>>
        BY <2>5 DEF SetMonitorStatus, SetStatusFails
      <3>2. job[p].status \in seen[job[p].mon] /\ job[p].status # job[p].snap
        BY <2>1, <3>1 DEF EvidenceInv, At
      <3>3. \A m \in Monitors : Exists(m)' =>
              /\ Exists(m)
              /\ \/ row'[m].status = row[m].status
                 \/ m = job[p].mon /\ row'[m].status = job[p].status
        <4>1. \A m \in Monitors : Exists(m) =>
                [row[m] EXCEPT !.status = job[p].status].status = job[p].status
          BY DEF Exists, TypeOK, MonitorRow
        <4>2. CASE SetMonitorStatus(p)
          BY <4>1, <4>2 DEF SetMonitorStatus, Exists
        <4>3. CASE SetStatusFails(p)
          BY <4>3 DEF SetStatusFails, Exists
        <4>4. QED
          BY <2>5, <4>2, <4>3
      <3>4. StatusHasEvidence' /\ AlertJustified'
        BY <3>1, <3>2, <3>3 DEF EvidenceInv, StatusHasEvidence, AlertJustified, Live
      <3>5. \/ Finish(p)
            \/ Goto(p, "maint") /\ job[p].snap # StatusPending
        BY <3>1 DEF AfterSet
      <3>6. QED
        BY <2>1, <3>1, <3>2, <3>4, <3>5, EvidenceAdvance
    <2>6. CASE CheckMaintenance(p) \/ MaintLookupFails(p)
      <3>1. At(p, "maint") /\ Finish(p) /\ UNCHANGED <<row, seen, todo>>
        BY <2>6 DEF CheckMaintenance, MaintLookupFails
      <3>2. outbox' = outbox \/ Announce(p)
        BY <2>6 DEF CheckMaintenance, MaintLookupFails
      <3>3. /\ job[p].status \in seen[job[p].mon] /\ job[p].snap \in seen[job[p].mon]
            /\ job[p].status # job[p].snap
        BY <2>1, <3>1 DEF EvidenceInv, At, Backed
      <3>4. seen[job[p].mon] = Reported
        BY <2>2, <3>3 DEF TypeOK, Reported
      <3>5. StatusHasEvidence' /\ AlertJustified'
        BY <3>1, <3>2, <3>4 DEF EvidenceInv, StatusHasEvidence, AlertJustified, Live, Exists,
                                Announce
      <3>6. QED
        BY <2>1, <3>1, <3>5, EvidenceAdvance
    <2>7. QED
      BY <1>9, <2>3, <2>4, <2>5, <2>6 DEF Process
  <1>10. ASSUME NEW al \in Alert, Deliver(al)
         PROVE  EvidenceInv'
    BY <1>10, EvidenceKept DEF Deliver, Exists
  <1>11. CASE Restart
    BY <1>11, EvidenceKept DEF Restart, Exists, TypeOK
  <1>12. CASE UNCHANGED vars
    BY <1>12, EvidenceKept DEF vars, Exists
  <1>13. QED
    BY <1>1, <1>2, <1>3, <1>4, <1>5, <1>6, <1>7, <1>8, <1>9, <1>10, <1>11, <1>12
       DEF Next, Admin

\* EvidenceInv holds in every reachable state, faults and overlaps included.
LEMMA Evidence == Spec => []EvidenceInv
  BY EvidenceInit, EvidenceStep, TypeCorrect, PTL DEF Spec

\* Under every interleaving and every fault, a monitor is shown up or down only
\* if a heartbeat of it with that status was stored.
THEOREM ShownHasEvidence == Spec => []StatusHasEvidence
  <1>1. EvidenceInv => StatusHasEvidence
    BY DEF EvidenceInv
  <1>2. QED
    BY <1>1, Evidence, PTL

\* Under every interleaving and every fault, alerts concern only monitors that
\* have been seen both up and down.
THEOREM AlertsJustified == Spec => []AlertJustified
  <1>1. EvidenceInv => AlertJustified
    BY DEF EvidenceInv
  <1>2. QED
    BY <1>1, Evidence, PTL
=============================================================================
