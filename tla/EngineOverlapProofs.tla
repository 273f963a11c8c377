------------------------ MODULE EngineOverlapProofs ------------------------
(***************************************************************************)
(* Theorems about what Engine keeps while handlers and the stale loop      *)
(* overlap on a monitor, and what once they no longer do, under every      *)
(* fault and for every value of the constants.                             *)
(***************************************************************************)
EXTENDS EngineProofs

-----------------------------------------------------------------------------
(* The shape of a step                                                     *)

\* q goes on with the call it was executing, if it still executes one.
SameCall(q) ==
  job'[q] # None => /\ job[q] # None
                    /\ job'[q].mon = job[q].mon /\ job'[q].snap = job[q].snap
                    /\ job'[q].status = job[q].status

\* A processing step advances one call and creates or deletes no monitor.
LEMMA ProcessShape ==
  ASSUME TypeOK, NEW p \in Procs, Process(p)
  PROVE  /\ job[p] \in Job /\ job[p] # None
         /\ \A q \in Procs : SameCall(q) /\ (q # p => job'[q] = job[q])
         /\ job'[p] # None => job'[p].age = job[p].age
         /\ fresh' = fresh /\ todo' = todo
         /\ \A m \in Monitors : Exists(m)' <=> Exists(m)
  <1>1. job[p] # None
    BY DEF Process, InsertHeartbeat, InsertRefused, InsertFails, SetMonitorStatus,
           SetStatusFails, CheckMaintenance, MaintLookupFails, At
  <1>2. job[p] \in Job
    BY <1>1 DEF TypeOK
  <1>3. Finish(p) \/ \E pc \in {"set", "maint"} : Goto(p, pc)
    BY DEF Process, InsertHeartbeat, InsertRefused, InsertFails, SetMonitorStatus,
           SetStatusFails, CheckMaintenance, MaintLookupFails, AfterInsert, AfterSet
  <1>4. /\ \A q \in Procs : SameCall(q) /\ (q # p => job'[q] = job[q])
        /\ job'[p] # None => job'[p].age = job[p].age
    <2>1. CASE Finish(p)
      BY <2>1 DEF Finish, SameCall, TypeOK
    <2>2. ASSUME NEW pc \in {"set", "maint"}, Goto(p, pc)
          PROVE  /\ \A q \in Procs : SameCall(q) /\ (q # p => job'[q] = job[q])
                 /\ job'[p] # None => job'[p].age = job[p].age
      BY <1>1, <1>2, <2>2 DEF Goto, SameCall, TypeOK, Job
    <2>3. QED
      BY <1>3, <2>1, <2>2
  <1>5. fresh' = fresh /\ todo' = todo
    BY DEF Process, InsertHeartbeat, InsertRefused, InsertFails, SetMonitorStatus,
           SetStatusFails, CheckMaintenance, MaintLookupFails
  <1>6. \A m \in Monitors : Exists(m)' <=> Exists(m)
    <2>1. CASE InsertHeartbeat(p)
      <3>1. row[job[p].mon] \in MonitorRow /\ job[p].mon \in Monitors
        BY <1>2, <2>1 DEF InsertHeartbeat, TypeOK, Exists, Job
      <3>2. WithHeartbeat(row[job[p].mon], job[p].status, job[p].age) \in MonitorRow
        BY <1>2, <3>1, RowType DEF Job
      <3>3. WithHeartbeat(row[job[p].mon], job[p].status, job[p].age) # None
        BY <3>2, NoneAssumption
      <3>4. QED
        BY <2>1, <3>1, <3>3 DEF InsertHeartbeat, Exists, TypeOK
    <2>2. CASE SetMonitorStatus(p)
      <3>1. \A m \in Monitors : Exists(m) => [row[m] EXCEPT !.status = job[p].status] # None
        <4> TAKE m \in Monitors
        <4> HAVE Exists(m)
        <4>1. row[m] \in MonitorRow /\ job[p].status \in Reported
          BY <1>2 DEF TypeOK, Exists, Job
        <4>2. QED
          BY <4>1, RowType, NoneAssumption
      <3>2. QED
        BY <2>2, <3>1 DEF SetMonitorStatus, Exists
    <2>3. CASE ~InsertHeartbeat(p) /\ ~SetMonitorStatus(p)
      BY <2>3 DEF Process, InsertRefused, InsertFails, SetStatusFails, CheckMaintenance,
                  MaintLookupFails, Exists
    <2>4. QED
      BY <2>1, <2>2, <2>3
  <1>7. QED
    BY <1>1, <1>2, <1>4, <1>5, <1>6

\* Time passes: ages grow together, and nothing else moves.
LEMMA TickShape ==
  ASSUME TypeOK, Tick
  PROVE  /\ \A m \in Monitors :
              /\ Exists(m)' <=> Exists(m)
              /\ Exists(m) => /\ row'[m].status = row[m].status
                              /\ row'[m].heard = row[m].heard
                              /\ row'[m].age = Older(row[m].age)
         /\ \A q \in Procs :
              /\ job'[q] # None <=> job[q] # None
              /\ SameCall(q)
              /\ job[q] # None => /\ job'[q].at = job[q].at
                                  /\ job'[q].age = Older(job[q].age)
  <1>1. ASSUME NEW m \in Monitors
        PROVE  /\ Exists(m)' <=> Exists(m)
               /\ Exists(m) => /\ row'[m].status = row[m].status
                               /\ row'[m].heard = row[m].heard
                               /\ row'[m].age = Older(row[m].age)
    <2>1. CASE Exists(m)
      <3>1. row[m] \in MonitorRow /\ [row[m] EXCEPT !.age = Older(row[m].age)] \in MonitorRow
        BY <2>1, RowType DEF TypeOK, Exists
      <3>2. row'[m] = [row[m] EXCEPT !.age = Older(row[m].age)]
        BY <2>1 DEF Tick
      <3>3. QED
        BY <2>1, <3>1, <3>2, NoneAssumption DEF Exists, MonitorRow
    <2>2. CASE ~Exists(m)
      BY <2>2 DEF Tick, Exists
    <2>3. QED
      BY <2>1, <2>2
  <1>2. ASSUME NEW q \in Procs
        PROVE  /\ job'[q] # None <=> job[q] # None
               /\ SameCall(q)
               /\ job[q] # None => /\ job'[q].at = job[q].at
                                   /\ job'[q].age = Older(job[q].age)
    <2>1. CASE job[q] # None
      <3>1. job[q] \in Job
        BY <2>1 DEF TypeOK
      <3>2. [job[q] EXCEPT !.age = Older(job[q].age)] \in Job
        BY <3>1, AgeCapAssumption DEF Job, Older, Ages
      <3>3. job'[q] = [job[q] EXCEPT !.age = Older(job[q].age)]
        BY <2>1 DEF Tick
      <3>4. QED
        BY <2>1, <3>1, <3>2, <3>3, NoneAssumption DEF Job, SameCall
    <2>2. CASE job[q] = None
      BY <2>2 DEF Tick, SameCall
    <2>3. QED
      BY <2>1, <2>2
  <1>3. QED
    BY <1>1, <1>2

\* Editing a monitor leaves its status, its heartbeats and the others alone.
LEMMA UpdateShape ==
  ASSUME TypeOK, NEW m \in Monitors, NEW a \in Agents, NEW i \in Intervals, NEW e \in BOOLEAN,
         UpdateMonitor(m, a, i, e)
  PROVE  \A n \in Monitors :
           /\ Exists(n)' <=> Exists(n)
           /\ Exists(n) => /\ row'[n].status = row[n].status
                           /\ row'[n].heard = row[n].heard
                           /\ row'[n].age = row[n].age
  <1>1. row[m] \in MonitorRow /\ row[m] # None
    BY DEF UpdateMonitor, TypeOK, Exists
  <1>2. /\ row'[m] \in MonitorRow
        /\ row'[m].status = row[m].status /\ row'[m].heard = row[m].heard
        /\ row'[m].age = row[m].age
    BY <1>1 DEF UpdateMonitor, TypeOK, MonitorRow
  <1>3. \A n \in Monitors : n # m => row'[n] = row[n]
    BY DEF UpdateMonitor, TypeOK
  <1>4. QED
    BY <1>1, <1>2, <1>3, NoneAssumption DEF Exists

-----------------------------------------------------------------------------
(* History                                                                 *)

\* What a step may do to the history: a monitor stays crossed as long as anybody is
\* busy with it, and settles only with nobody busy with it.
HistoryShape ==
  /\ \A m \in Monitors : Busy(m)' /\ m \in crossed => m \in crossed'
  /\ \A m \in settled' \ settled :
       m \in Monitors /\ Exists(m)' /\ row'[m].status # StatusPending /\ ~Busy(m)'

LEMMA HistoryStep == [Next]_vars => HistoryShape
  BY HistoryMoves DEF Remember, HistoryShape

\* A fresh id stays without row, calls and history until it is handed out.
LEMMA FreshKept ==
  ASSUME FreshUnused, HistoryShape, fresh \subseteq Monitors, fresh' \subseteq fresh,
         \A m \in fresh' : /\ Exists(m)' => Exists(m)
                           /\ Busy(m)' => Busy(m) \/ Exists(m)
  PROVE  FreshUnused'
  BY DEF FreshUnused, HistoryShape

\* Calls that go on, and scans that are worked off, make nobody busier.
LEMMA BusyKept ==
  ASSUME todo' \subseteq todo, \A q \in Procs : SameCall(q), NEW m
  PROVE  Busy(m)' => Busy(m)
  BY DEF Busy, On, Scanned, SameCall

\* The inductive step of FreshUnused.
LEMMA FreshStep ==
  ASSUME TypeOK, FreshUnused, [Next]_vars
  PROVE  FreshUnused'
  <1> USE HistoryStep DEF TypeOK, history
  <1>1. ASSUME NEW m \in Monitors, NEW a \in Agents, NEW i \in Intervals, NEW e \in BOOLEAN,
               CreateMonitor(m, a, i, e)
        PROVE  FreshUnused'
    BY <1>1, FreshKept, BusyKept DEF CreateMonitor, Exists, SameCall
  <1>2. ASSUME NEW m \in Monitors, NEW a \in Agents, NEW i \in Intervals, NEW e \in BOOLEAN,
               UpdateMonitor(m, a, i, e)
        PROVE  FreshUnused'
    <2>1. \A n \in Monitors : Exists(n)' <=> Exists(n)
      BY <1>2, UpdateShape
    <2>2. QED
      BY <1>2, <2>1, FreshKept, BusyKept DEF UpdateMonitor, SameCall
  <1>3. ASSUME NEW S \in SUBSET Monitors, DeleteRows(S), UNCHANGED <<fresh, job, todo>>
        PROVE  FreshUnused'
    BY <1>3, FreshKept, BusyKept DEF DeleteRows, Exists, SameCall
  <1>4. CASE Tick
    <2>1. fresh' = fresh /\ todo' = todo
      BY <1>4 DEF Tick
    <2>2. QED
      BY <1>4, <2>1, TickShape, FreshKept, BusyKept
  <1>5. ASSUME NEW p \in Procs, NEW m \in Monitors, NEW c, NEW s, NEW a,
               Exists(m) \/ Busy(m), job' = [job EXCEPT ![p] = NewJob(m, c, s, a)],
               todo' \subseteq todo, UNCHANGED <<fresh, row>>
        PROVE  FreshUnused'
    <2>1. job'[p].mon = m /\ \A q \in Procs : q # p => job'[q] = job[q]
      BY <1>5 DEF NewJob
    <2>2. \A n \in Monitors : Busy(n)' => Busy(n) \/ n = m
      BY <1>5, <2>1 DEF Busy, On, Scanned
    <2>3. QED
      BY <1>5, <2>2, FreshKept DEF FreshUnused, Exists
  <1>6. ASSUME NEW h \in Handlers, NEW a \in Agents, NEW m \in Monitors, NEW raw \in Statuses,
               NEW lag \in Lags, Accept(h, a, m, raw, lag)
        PROVE  FreshUnused'
    BY <1>5, <1>6 DEF Accept, Procs
  <1>7. CASE StaleScan
    <2>1. \A m \in Monitors : Busy(m)' => Busy(m) \/ Exists(m)
      BY <1>7 DEF StaleScan, Busy, On, Scanned, Candidates, Live
    <2>2. QED
      BY <1>7, <2>1, FreshKept DEF StaleScan, Exists
  <1>8. ASSUME NEW t \in Loaded, StaleTake(t)
        PROVE  FreshUnused'
    BY <1>5, <1>8 DEF StaleTake, Loaded, Procs, Busy, Scanned
  <1>9. ASSUME NEW p \in Procs, Process(p)
        PROVE  FreshUnused'
    BY <1>9, ProcessShape, FreshKept, BusyKept
  <1>10. CASE Restart
    BY <1>10, FreshKept, BusyKept DEF Restart, SameCall, Exists
  <1>11. ASSUME UNCHANGED <<fresh, row, job, todo>>
         PROVE  FreshUnused'
    BY <1>11, FreshKept, BusyKept DEF SameCall, Exists
  <1>12. CASE Admin
    <2>1. ASSUME NEW m \in Monitors, DeleteMonitor(m)
          PROVE  FreshUnused'
      BY <1>3, <2>1 DEF DeleteMonitor
    <2>2. ASSUME NEW a \in Agents, DeleteAgent(a)
          PROVE  FreshUnused'
      BY <1>3, <2>2 DEF DeleteAgent, Live
    <2>3. ASSUME NEW S \in SUBSET Monitors, MaintenanceMoves(S)
          PROVE  FreshUnused'
      BY <1>11, <2>3 DEF MaintenanceMoves
    <2>4. QED
      BY <1>1, <1>2, <1>12, <2>1, <2>2, <2>3 DEF Admin
  <1>13. CASE UNCHANGED vars \/ \E al \in Alert : Deliver(al)
    BY <1>11, <1>13 DEF vars, Deliver
  <1>14. QED
    BY <1>4, <1>6, <1>7, <1>8, <1>9, <1>10, <1>12, <1>13 DEF Next

\* The inductive step of CrossedMarked: whoever comes upon another marks it.
LEMMA CrossedStep ==
  ASSUME TypeOK, CrossedMarked, [Next]_vars
  PROVE  CrossedMarked'
  <1>1. CASE Remember
    BY <1>1 DEF Remember, CrossedMarked, Crowded, Busy
  <1>2. ASSUME UNCHANGED crossed, todo' = todo,
               \A q \in Procs : job'[q] # None => job[q] # None /\ job'[q].mon = job[q].mon
        PROVE  CrossedMarked'
    BY <1>2 DEF CrossedMarked, Crowded, On, Scanned
  <1>3. CASE Tick
    BY <1>2, <1>3, TickShape DEF Tick, history, SameCall
  <1>4. Admin => UNCHANGED <<crossed, todo, job>>
    BY DEF Admin, CreateMonitor, UpdateMonitor, DeleteMonitor, DeleteAgent, MaintenanceMoves, history
  <1>5. (\E al \in Alert : Deliver(al)) \/ UNCHANGED vars => UNCHANGED <<crossed, todo, job>>
    BY DEF Deliver, vars, history
  <1>6. Remember \/ Tick \/ UNCHANGED <<crossed, todo, job>>
    <2>1. \A p \in Procs : Process(p) => Remember
      BY DEF Process, InsertHeartbeat, InsertRefused, InsertFails, SetMonitorStatus,
             SetStatusFails, CheckMaintenance, MaintLookupFails
    <2>2. QED
      BY <1>4, <1>5, <2>1 DEF Next, Accept, StaleScan, StaleTake, Restart
  <1>7. QED
    BY <1>1, <1>2, <1>3, <1>6

-----------------------------------------------------------------------------
(* The stored status, the loaded one and the newest heartbeat              *)

Agreement == SnapshotCurrent /\ NewestLast /\ NeverBack

\* What happens to statuses and ids never leads back to "pending".
LEMMA NeverBackKept ==
  ASSUME TypeOK, FreshUnused, NeverBack, HistoryShape,
         todo' \subseteq todo, \A q \in Procs : SameCall(q),
         \A m \in Monitors : Exists(m)' =>
           \/ m \in fresh /\ ~Busy(m)
           \/ Exists(m) /\ row'[m].status \in {row[m].status} \cup Reported
  PROVE  NeverBack'
  <1> USE DEF HistoryShape, NeverBack, Reported, StatusDown, StatusUp, StatusPending
  <1>1. \A m \in settled' : Exists(m)' => row'[m].status # StatusPending
    BY DEF FreshUnused, TypeOK
  <1>2. ASSUME NEW t \in todo'
        PROVE  /\ t.mon \in settled' => t.snap # StatusPending
               /\ Exists(t.mon)' /\ t.snap # StatusPending => row'[t.mon].status # StatusPending
    <2>1. t \in todo /\ t.mon \in Monitors /\ Busy(t.mon)' /\ Busy(t.mon)
      BY <1>2 DEF TypeOK, Loaded, Busy, Scanned
    <2>2. QED
      BY <2>1
  <1>3. ASSUME NEW p \in Procs, job'[p] # None
        PROVE  /\ job'[p].mon \in settled' => job'[p].snap # StatusPending
               /\ row'[job'[p].mon] # None /\ job'[p].snap # StatusPending
                    => row'[job'[p].mon].status # StatusPending
    <2>1. /\ job[p] # None /\ job[p].mon \in Monitors
          /\ job'[p].mon = job[p].mon /\ job'[p].snap = job[p].snap
      BY <1>3 DEF SameCall, TypeOK, Job
    <2>2. Busy(job[p].mon)' /\ Busy(job[p].mon)
      BY <1>3, <2>1 DEF Busy, On
    <2>3. QED
      BY <2>1, <2>2 DEF Exists
  <1>4. QED
    BY <1>1, <1>2, <1>3 DEF Exists

\* A monitor that is uncrossed and busy was so before, or nobody was busy with it.
LEMMA Uncrossed ==
  ASSUME HistoryShape, NEW m \in Monitors, Busy(m)', m \notin crossed'
  PROVE  m \notin crossed
  BY DEF HistoryShape

\* Calls end, or go on to the maintenance lookup, and nothing stored changes.
LEMMA AgreementAdvance ==
  ASSUME TypeOK, FreshUnused, Agreement, HistoryShape,
         row' = row, todo' \subseteq todo,
         \A q \in Procs : SameCall(q) /\ (job'[q] # None => job'[q] = job[q] \/ job'[q].at = "maint")
  PROVE  Agreement'
  <1>1. NeverBack'
    BY NeverBackKept DEF Agreement, Exists
  <1>2. \A t \in todo' : Busy(t.mon)' /\ t.mon \in Monitors /\ t \in todo
    BY DEF Busy, Scanned, TypeOK, Loaded
  <1>3. \A q \in Procs : job'[q] # None =>
          /\ job[q] # None /\ job'[q].mon = job[q].mon /\ job[q].mon \in Monitors
          /\ Busy(job[q].mon)'
    BY DEF SameCall, Busy, On, TypeOK, Job
  <1>4. SnapshotCurrent'
    BY <1>2, <1>3, Uncrossed DEF Agreement, SnapshotCurrent, Exists
  <1>5. NewestLast'
    BY <1>3, Uncrossed DEF Agreement, NewestLast, Exists, At
  <1>6. QED
    BY <1>1, <1>4, <1>5 DEF Agreement

\* The calls stay as they are, and so does every monitor, apart from new ones.
LEMMA AgreementKept ==
  ASSUME TypeOK, FreshUnused, Agreement, job' = job, todo' = todo,
         UNCHANGED <<crossed, settled>>,
         \A m \in Monitors : Exists(m)' =>
           \/ m \in fresh
           \/ /\ Exists(m) /\ row'[m].status = row[m].status
              /\ row'[m].heard = row[m].heard /\ row'[m].age = row[m].age
  PROVE  Agreement'
  <1>1. NeverBack'
    BY NeverBackKept DEF Agreement, HistoryShape, SameCall, FreshUnused
  <1>2. \A t \in todo : t.mon \in Monitors /\ t.mon \notin fresh
    BY DEF TypeOK, Loaded, FreshUnused, Busy, Scanned
  <1>3. \A q \in Procs : job[q] # None => job[q].mon \in Monitors /\ job[q].mon \notin fresh
    BY DEF TypeOK, Job, FreshUnused, Busy, On
  <1>4. SnapshotCurrent'
    BY <1>2, <1>3 DEF Agreement, SnapshotCurrent, Exists
  <1>5. NewestLast'
    <2>1. ASSUME NEW q \in Procs, job[q] # None, job[q].at = "set", row'[job[q].mon] # None,
                 job[q].mon \notin crossed
          PROVE  LET r == row'[job[q].mon] IN
                 \/ job[q].age = r.age /\ r.heard = job[q].status
                 \/ job[q].age > r.age
                 \/ job[q].age >= AgeCap
      BY <1>3, <2>1 DEF Agreement, NewestLast, Exists, At
    <2>2. QED
      BY <2>1 DEF NewestLast, Exists, At
  <1>6. QED
    BY <1>1, <1>4, <1>5 DEF Agreement

\* Results and heartbeats grow older together, until they are too old to compare.
LEMMA AgreementTick ==
  ASSUME TypeOK, FreshUnused, Agreement, Tick
  PROVE  Agreement'
  <1>1. UNCHANGED <<todo, crossed, settled>>
    BY DEF Tick, history
  <1>2. NeverBack'
    BY <1>1, TickShape, NeverBackKept DEF Agreement, HistoryShape
  <1>3. \A q \in Procs : job'[q] # None =>
          /\ job[q] \in Job /\ job[q] # None /\ job'[q].at = job[q].at
          /\ job'[q].mon = job[q].mon /\ job'[q].snap = job[q].snap
          /\ job'[q].status = job[q].status /\ job'[q].age = Older(job[q].age)
    BY TickShape DEF SameCall, TypeOK
  <1>4. SnapshotCurrent'
    BY <1>1, <1>3, TickShape DEF Agreement, SnapshotCurrent, TypeOK, Loaded, Job
  <1>5. NewestLast'
    <2>1. ASSUME NEW q \in Procs, job'[q] # None, job[q].at = "set", row'[job[q].mon] # None,
                 job[q].mon \notin crossed
          PROVE  LET r == row'[job[q].mon] IN
                 \/ job'[q].age = r.age /\ r.heard = job[q].status
                 \/ job'[q].age > r.age
                 \/ job'[q].age >= AgeCap
      <3>1. /\ job[q].mon \in Monitors /\ job[q].age \in Int /\ Exists(job[q].mon)
            /\ row[job[q].mon] \in MonitorRow
        BY <1>3, <2>1, TickShape DEF Job, Ages, TypeOK, Exists
      <3>2. row[job[q].mon].age \in Int
        BY <3>1 DEF MonitorRow, Ages
      <3>3. /\ row'[job[q].mon].age = Older(row[job[q].mon].age)
            /\ row'[job[q].mon].heard = row[job[q].mon].heard
        BY <3>1, TickShape
      <3>4. \/ job[q].age = row[job[q].mon].age /\ row[job[q].mon].heard = job[q].status
            \/ job[q].age > row[job[q].mon].age
            \/ job[q].age >= AgeCap
        BY <1>3, <2>1, <3>1 DEF Agreement, NewestLast, At
      <3>5. QED
        BY <1>3, <2>1, <3>1, <3>2, <3>3, <3>4, AgeCapAssumption DEF Older
    <2>2. QED
      BY <1>1, <1>3, <2>1 DEF NewestLast, Exists, At
  <1>6. QED
    BY <1>2, <1>4, <1>5 DEF Agreement

\* p starts a call with the status the monitor has, unless somebody else is busy
\* with it.
LEMMA AgreementNewJob ==
  ASSUME TypeOK, Agreement, HistoryShape, NEW p \in Procs, NEW m \in Monitors,
         NEW c \in Statuses, NEW s \in Reported, NEW a \in Ages,
         job' = [job EXCEPT ![p] = NewJob(m, c, s, a)], todo' \subseteq todo, row' = row,
         Exists(m) /\ m \notin crossed => row[m].status = c,
         m \in settled => c # StatusPending,
         Exists(m) /\ c # StatusPending => row[m].status # StatusPending
  PROVE  Agreement'
  <1>1. /\ job'[p].at = "insert" /\ job'[p].mon = m /\ job'[p].snap = c
        /\ \A q \in Procs : q # p => job'[q] = job[q]
    BY DEF TypeOK, NewJob
  <1>2. \A t \in todo' : Busy(t.mon)' /\ t.mon \in Monitors /\ t \in todo
    BY DEF Busy, Scanned, TypeOK, Loaded
  <1>3. \A q \in Procs : q # p /\ job[q] # None => Busy(job[q].mon)' /\ job[q].mon \in Monitors
    BY <1>1 DEF Busy, On, TypeOK, Job
  <1>4. Busy(m)'
    <2>1. NewJob(m, c, s, a) # None
      BY NewType, NoneAssumption
    <2>2. QED
      BY <1>1, <2>1 DEF Busy, On, TypeOK
  <1>5. NeverBack'
    <2> USE DEF Agreement, NeverBack, HistoryShape
    <2>1. \A n \in settled' : Exists(n)' => row'[n].status # StatusPending
      BY DEF Exists
    <2>2. \A t \in todo' :
            /\ t.mon \in settled' => t.snap # StatusPending
            /\ Exists(t.mon)' /\ t.snap # StatusPending => row'[t.mon].status # StatusPending
      BY <1>2 DEF Exists
    <2>3. ASSUME NEW q \in Procs, job'[q] # None
          PROVE  /\ job'[q].mon \in settled' => job'[q].snap # StatusPending
                 /\ row'[job'[q].mon] # None /\ job'[q].snap # StatusPending
                      => row'[job'[q].mon].status # StatusPending
      <3>1. CASE q = p
        BY <1>1, <1>4, <3>1 DEF Exists
      <3>2. CASE q # p
        BY <1>1, <1>3, <2>3, <3>2 DEF Exists
      <3>3. QED
        BY <3>1, <3>2
    <2>4. QED
      BY <2>1, <2>2, <2>3 DEF Exists
  <1>6. SnapshotCurrent'
    BY <1>1, <1>2, <1>3, <1>4, Uncrossed DEF Agreement, SnapshotCurrent, Exists
  <1>7. NewestLast'
    BY <1>1, <1>3, Uncrossed DEF Agreement, NewestLast, Exists, At
  <1>8. QED
    BY <1>5, <1>6, <1>7 DEF Agreement

\* A scan loads every candidate with the status it has.
LEMMA AgreementScan ==
  ASSUME TypeOK, Agreement, HistoryShape, StaleScan
  PROVE  Agreement'
  <1>1. /\ job' = job /\ row' = row
        /\ \A t \in todo' : t.snap = row[t.mon].status /\ t.mon \in Monitors /\ Exists(t.mon)
    BY DEF StaleScan, Candidates, Live
  <1>2. \A t \in todo' : Busy(t.mon)'
    BY DEF Busy, Scanned
  <1>3. \A q \in Procs : job[q] # None => Busy(job[q].mon)' /\ job[q].mon \in Monitors
    BY <1>1 DEF Busy, On, TypeOK, Job
  <1>4. NeverBack'
    <2> USE DEF Agreement, NeverBack, HistoryShape
    <2>1. \A n \in settled' : Exists(n)' => row'[n].status # StatusPending
      BY <1>1 DEF Exists
    <2>2. \A t \in todo' :
            /\ t.mon \in settled' => t.snap # StatusPending
            /\ Exists(t.mon)' /\ t.snap # StatusPending => row'[t.mon].status # StatusPending
      BY <1>1, <1>2 DEF Exists
    <2>3. \A q \in Procs : job'[q] # None =>
            /\ job'[q].mon \in settled' => job'[q].snap # StatusPending
            /\ row'[job'[q].mon] # None /\ job'[q].snap # StatusPending
                 => row'[job'[q].mon].status # StatusPending
      BY <1>1, <1>3 DEF Exists
    <2>4. QED
      BY <2>1, <2>2, <2>3 DEF Exists
  <1>5. SnapshotCurrent'
    BY <1>1, <1>3, Uncrossed DEF Agreement, SnapshotCurrent, Exists
  <1>6. NewestLast'
    BY <1>1, <1>3, Uncrossed DEF Agreement, NewestLast, Exists, At
  <1>7. QED
    BY <1>4, <1>5, <1>6 DEF Agreement

\* A call that has m to itself meets nobody else there after the step either.
LEMMA AloneOn ==
  ASSUME CrossedMarked, HistoryShape, NEW p \in Procs, NEW m \in Monitors, On(p, m),
         todo' \subseteq todo, \A q \in Procs : SameCall(q), m \notin crossed'
  PROVE  /\ \A q \in Procs : q # p /\ job'[q] # None => job'[q].mon # m
         /\ \A t \in todo' : t.mon # m
  <1>1. Busy(m)' => ~Crowded(m)
    BY Uncrossed DEF CrossedMarked
  <1>2. ASSUME NEW q \in Procs, q # p, job'[q] # None, job'[q].mon = m PROVE FALSE
    BY <1>1, <1>2 DEF Busy, On, Crowded, SameCall
  <1>3. ASSUME NEW t \in todo', t.mon = m PROVE FALSE
    BY <1>1, <1>3 DEF Busy, Scanned, Crowded
  <1>4. QED
    BY <1>2, <1>3

\* A heartbeat is stored: it is the newest one, or there is a newer one.
LEMMA AgreementInsert ==
  ASSUME TypeOK, FreshUnused, CrossedMarked, Agreement, HistoryShape,
         NEW p \in Procs, InsertHeartbeat(p)
  PROVE  Agreement'
  <1> DEFINE m == job[p].mon
             r == row[m]
  <1>1. /\ job[p] \in Job /\ job[p] # None /\ m \in Monitors
        /\ Exists(m) /\ r \in MonitorRow /\ job[p].age \in Int /\ r.age \in Int
    BY DEF InsertHeartbeat, At, TypeOK, Exists, Job, MonitorRow, Ages
  <1>2. /\ row'[m] = WithHeartbeat(r, job[p].status, job[p].age)
        /\ \A n \in Monitors : n # m => row'[n] = row[n]
    BY <1>1 DEF InsertHeartbeat, TypeOK
  <1>3. /\ row'[m].status = r.status
        /\ \/ row'[m].age = job[p].age /\ row'[m].heard = job[p].status
           \/ row'[m].age = r.age /\ job[p].age > r.age
    <2>1. CASE r.heard = None \/ job[p].age <= r.age
      BY <1>1, <1>2, <2>1 DEF WithHeartbeat, MonitorRow
    <2>2. CASE ~(r.heard = None \/ job[p].age <= r.age)
      BY <1>1, <1>2, <2>2 DEF WithHeartbeat, MonitorRow
    <2>3. QED
      BY <2>1, <2>2
  <1>4. /\ \A q \in Procs : SameCall(q) /\ (q # p => job'[q] = job[q])
        /\ job'[p] # None => job'[p].age = job[p].age
        /\ todo' = todo
        /\ \A n \in Monitors : Exists(n)' <=> Exists(n)
    BY ProcessShape DEF Process
  <1>5. NeverBack'
    BY <1>2, <1>3, <1>4, NeverBackKept DEF Agreement
  <1>6. \A n \in Monitors : Exists(n)' => row'[n].status = row[n].status
    BY <1>2, <1>3
  <1>7. \A t \in todo' : Busy(t.mon)' /\ t.mon \in Monitors /\ t \in todo
    BY <1>4 DEF Busy, Scanned, TypeOK, Loaded
  <1>8. \A q \in Procs : job'[q] # None =>
          /\ job[q] # None /\ job'[q].mon = job[q].mon /\ job'[q].snap = job[q].snap
          /\ job[q].mon \in Monitors /\ Busy(job[q].mon)'
    BY <1>4 DEF SameCall, Busy, On, TypeOK, Job
  <1>9. SnapshotCurrent'
    <2>1. \A t \in todo' : Exists(t.mon)' /\ t.mon \notin crossed' => row'[t.mon].status = t.snap
      BY <1>4, <1>6, <1>7, Uncrossed DEF Agreement, SnapshotCurrent
    <2>2. ASSUME NEW q \in Procs, job'[q] # None, job'[q].at # "maint",
                 row'[job'[q].mon] # None, job'[q].mon \notin crossed'
          PROVE  row'[job'[q].mon].status = job'[q].snap
      <3>1. /\ Exists(job[q].mon) /\ job[q].mon \notin crossed
            /\ row'[job'[q].mon].status = row[job[q].mon].status
        BY <1>4, <1>6, <1>8, <2>2, Uncrossed DEF Exists
      <3>2. job[q].at # "maint"
        BY <1>4, <2>2 DEF InsertHeartbeat, At
      <3>3. QED
        BY <1>8, <2>2, <3>1, <3>2 DEF Agreement, SnapshotCurrent
    <2>3. QED
      BY <2>1, <2>2 DEF SnapshotCurrent, Exists
  <1>10. NewestLast'
    <2>1. ASSUME NEW q \in Procs, job'[q] # None, job'[q].at = "set",
                 row'[job'[q].mon] # None, job'[q].mon \notin crossed'
          PROVE  LET rr == row'[job'[q].mon] IN
                 \/ job'[q].age = rr.age /\ rr.heard = job'[q].status
                 \/ job'[q].age > rr.age
                 \/ job'[q].age >= AgeCap
      <3>1. CASE q = p
        BY <1>1, <1>3, <1>4, <2>1, <3>1 DEF SameCall
      <3>2. CASE q # p
        <4>1. job'[q] = job[q] /\ job[q].mon # m
          <5>1. job'[q] = job[q]
            BY <1>4, <3>2
          <5>2. ASSUME job[q].mon = m PROVE FALSE
            BY <1>1, <1>4, <2>1, <3>2, <5>1, <5>2, AloneOn DEF On
          <5>3. QED
            BY <5>1, <5>2
        <4>2. row'[job[q].mon] = row[job[q].mon] /\ job[q].mon \notin crossed
          BY <1>2, <1>8, <2>1, <4>1, Uncrossed
        <4>3. QED
          BY <2>1, <4>1, <4>2 DEF Agreement, NewestLast, Exists, At
      <3>3. QED
        BY <3>1, <3>2
    <2>2. QED
      BY <2>1 DEF NewestLast, Exists, At
  <1>11. QED
    BY <1>5, <1>9, <1>10 DEF Agreement

\* The status is stored: nobody else has loaded the old one, or the monitor is crossed.
LEMMA AgreementSet ==
  ASSUME TypeOK, FreshUnused, CrossedMarked, Agreement, HistoryShape,
         NEW p \in Procs, SetMonitorStatus(p)
  PROVE  Agreement'
  <1> DEFINE m == job[p].mon
  <1>1. job[p] \in Job /\ job[p] # None /\ m \in Monitors /\ job[p].status \in Reported
    BY DEF SetMonitorStatus, At, TypeOK, Job
  <1>2. /\ \A n \in Monitors : n # m => row'[n] = row[n]
        /\ Exists(m) => row'[m].status = job[p].status
    BY <1>1 DEF SetMonitorStatus, Exists, TypeOK, MonitorRow
  <1>3. /\ \A q \in Procs : SameCall(q) /\ (q # p => job'[q] = job[q])
        /\ todo' = todo
        /\ \A n \in Monitors : Exists(n)' <=> Exists(n)
    BY ProcessShape DEF Process
  <1>4. job'[p] = None \/ job'[p].at = "maint"
    BY <1>1 DEF SetMonitorStatus, AfterSet, Finish, Goto, TypeOK, Job
  <1>5. NeverBack'
    BY <1>1, <1>2, <1>3, NeverBackKept DEF Agreement
  <1>6. \A t \in todo' : Busy(t.mon)' /\ t.mon \in Monitors /\ t \in todo
    BY <1>3 DEF Busy, Scanned, TypeOK, Loaded
  <1>7. ASSUME NEW q \in Procs, job'[q] # None, job'[q].at # "maint", job'[q].mon \notin crossed'
        PROVE  /\ q # p /\ job'[q] = job[q] /\ job[q].mon \in Monitors
               /\ row'[job[q].mon] = row[job[q].mon] /\ job[q].mon \notin crossed
    <2>1. q # p /\ job'[q] = job[q] /\ job[q].mon \in Monitors /\ Busy(job[q].mon)'
      BY <1>3, <1>4, <1>7 DEF TypeOK, Job, Busy, On
    <2>2. ASSUME job[q].mon = m PROVE FALSE
      BY <1>1, <1>3, <1>7, <2>1, <2>2, AloneOn DEF On
    <2>3. QED
      BY <1>2, <1>7, <2>1, <2>2, Uncrossed
  <1>8. SnapshotCurrent'
    <2>1. ASSUME NEW t \in todo', row'[t.mon] # None, t.mon \notin crossed'
          PROVE  row'[t.mon].status = t.snap
      <3>1. ASSUME t.mon = m PROVE FALSE
        BY <1>1, <1>3, <2>1, <3>1, AloneOn DEF On
      <3>2. row'[t.mon] = row[t.mon] /\ t.mon \notin crossed
        BY <1>2, <1>6, <2>1, <3>1, Uncrossed
      <3>3. QED
        BY <1>6, <2>1, <3>2 DEF Agreement, SnapshotCurrent, Exists
    <2>2. QED
      BY <1>7, <2>1 DEF Agreement, SnapshotCurrent, Exists
  <1>9. NewestLast'
    BY <1>7 DEF Agreement, NewestLast, Exists, At
  <1>10. QED
    BY <1>5, <1>8, <1>9 DEF Agreement

\* The inductive step of what relates statuses, snapshots and heartbeats.
LEMMA AgreementStep ==
  ASSUME TypeOK, FreshUnused, CrossedMarked, Agreement, [Next]_vars
  PROVE  Agreement'
  <1>0. HistoryShape
    BY HistoryStep
  <1>1. ASSUME NEW m \in Monitors, NEW a \in Agents, NEW i \in Intervals, NEW e \in BOOLEAN,
               CreateMonitor(m, a, i, e)
        PROVE  Agreement'
    <2>1. m \in fresh /\ \A n \in Monitors : n # m => row'[n] = row[n]
      BY <1>1 DEF CreateMonitor, TypeOK
    <2>2. job' = job /\ todo' = todo /\ UNCHANGED <<crossed, settled>>
      BY <1>1 DEF CreateMonitor, history
    <2>3. QED
      BY <2>1, <2>2, AgreementKept DEF Exists
  <1>2. ASSUME NEW m \in Monitors, NEW a \in Agents, NEW i \in Intervals, NEW e \in BOOLEAN,
               UpdateMonitor(m, a, i, e)
        PROVE  Agreement'
    <2>1. job' = job /\ todo' = todo /\ UNCHANGED <<crossed, settled>>
      BY <1>2 DEF UpdateMonitor, history
    <2>2. QED
      BY <1>2, <2>1, UpdateShape, AgreementKept
  <1>3. ASSUME NEW m \in Monitors, DeleteMonitor(m)
        PROVE  Agreement'
    BY <1>3, AgreementKept DEF DeleteMonitor, DeleteRows, Exists, history
  <1>4. ASSUME NEW a \in Agents, DeleteAgent(a)
        PROVE  Agreement'
    BY <1>4, AgreementKept DEF DeleteAgent, DeleteRows, Exists, history
  <1>5. ASSUME NEW S \in SUBSET Monitors, MaintenanceMoves(S)
        PROVE  Agreement'
    BY <1>5, AgreementKept DEF MaintenanceMoves, Exists, history
  <1>6. CASE Tick
    BY <1>6, AgreementTick
  <1>7. ASSUME NEW h \in Handlers, NEW a \in Agents, NEW m \in Monitors, NEW raw \in Statuses,
               NEW lag \in Lags, Accept(h, a, m, raw, lag)
        PROVE  Agreement'
    <2>1. /\ h \in Procs /\ lag \in Ages /\ Normalise(raw) \in Reported
          /\ row[m].status \in Statuses
      BY <1>7, NormaliseType, LagsAssumption DEF Procs, Ages, Accept, Exists, TypeOK, MonitorRow
    <2>2. m \in settled => row[m].status # StatusPending
      BY <1>7 DEF Accept, Agreement, NeverBack
    <2>3. /\ todo' = todo /\ row' = row
          /\ job' = [job EXCEPT ![h] = NewJob(m, row[m].status, Normalise(raw), lag)]
      BY <1>7 DEF Accept
    <2>4. QED
      BY <1>0, <2>1, <2>2, <2>3, AgreementNewJob
  <1>8. CASE StaleScan
    BY <1>0, <1>8, AgreementScan
  <1>9. ASSUME NEW t \in Loaded, StaleTake(t)
        PROVE  Agreement'
    <2>1. /\ t \in todo /\ t.mon \in Monitors /\ t.snap \in Statuses /\ StaleLoop \in Procs
          /\ StatusDown \in Reported /\ 0 \in Ages
      BY <1>9 DEF StaleTake, Loaded, Procs, Reported, Ages
    <2>2. /\ Exists(t.mon) /\ t.mon \notin crossed => row[t.mon].status = t.snap
          /\ t.mon \in settled => t.snap # StatusPending
          /\ Exists(t.mon) /\ t.snap # StatusPending => row[t.mon].status # StatusPending
      BY <2>1 DEF Agreement, SnapshotCurrent, NeverBack
    <2>3. /\ todo' \subseteq todo /\ row' = row
          /\ job' = [job EXCEPT ![StaleLoop] = NewJob(t.mon, t.snap, StatusDown, 0)]
      BY <1>9 DEF StaleTake
    <2>4. QED
      BY <1>0, <2>1, <2>2, <2>3, AgreementNewJob
  <1>10. ASSUME NEW p \in Procs, Process(p)
         PROVE  Agreement'
    <2>1. CASE InsertHeartbeat(p)
      BY <1>0, <2>1, AgreementInsert
    <2>2. CASE SetMonitorStatus(p)
      BY <1>0, <2>2, AgreementSet
    <2>3. CASE InsertRefused(p) \/ InsertFails(p) \/ SetStatusFails(p)
               \/ CheckMaintenance(p) \/ MaintLookupFails(p)
      <3>1. row' = row /\ (Finish(p) \/ Goto(p, "maint"))
        BY <2>3 DEF InsertRefused, InsertFails, SetStatusFails, CheckMaintenance, MaintLookupFails,
                    AfterSet
      <3>2. job'[p] = None \/ job'[p].at = "maint"
        BY <1>10, <3>1, ProcessShape DEF Finish, Goto, TypeOK, Job
      <3>3. QED
        BY <1>0, <1>10, <3>1, <3>2, ProcessShape, AgreementAdvance
    <2>4. QED
      BY <1>10, <2>1, <2>2, <2>3 DEF Process
  <1>11. ASSUME NEW al \in Alert, Deliver(al)
         PROVE  Agreement'
    BY <1>11, AgreementKept DEF Deliver, Exists, history
  <1>12. CASE Restart
    BY <1>0, <1>12, AgreementAdvance DEF Restart, SameCall
  <1>13. CASE UNCHANGED vars
    BY <1>13, AgreementKept DEF vars, Exists
  <1>14. QED
    BY <1>1, <1>2, <1>3, <1>4, <1>5, <1>6, <1>7, <1>8, <1>9, <1>10, <1>11, <1>12, <1>13
       DEF Next, Admin

\* AloneInv holds in every reachable state.
LEMMA AloneInvariant == Spec => []AloneInv
  <1>1. Init => AloneInv
    BY DEF Init, AloneInv, FreshUnused, CrossedMarked, SnapshotCurrent, NewestLast, NeverBack,
           Busy, Crowded, On, Scanned, Exists, At
  <1>2. TypeOK /\ AloneInv /\ [Next]_vars => AloneInv'
    BY FreshStep, CrossedStep, AgreementStep DEF AloneInv, Agreement
  <1>3. QED
    BY <1>1, <1>2, TypeCorrect, PTL DEF Spec

-----------------------------------------------------------------------------
(* Whose step it is                                                        *)

\* Which steps write a status: SetMonitorStatus alone.
LEMMA StatusWriters ==
  ASSUME TypeOK, FreshUnused, NEW m \in Monitors, Next, Exists(m), Exists(m)',
         row'[m].status # row[m].status
  PROVE  \E p \in Procs : SetMonitorStatus(p) /\ job[p].mon = m
  <1>1. ASSUME NEW n \in Monitors, NEW a \in Agents, NEW i \in Intervals, NEW e \in BOOLEAN,
               CreateMonitor(n, a, i, e)
        PROVE  FALSE
    BY <1>1 DEF CreateMonitor, TypeOK, FreshUnused
  <1>2. ASSUME NEW n \in Monitors, NEW a \in Agents, NEW i \in Intervals, NEW e \in BOOLEAN,
               UpdateMonitor(n, a, i, e)
        PROVE  FALSE
    BY <1>2, UpdateShape
  <1>3. ASSUME NEW n \in Monitors, DeleteMonitor(n)
        PROVE  FALSE
    BY <1>3 DEF DeleteMonitor, DeleteRows, Exists
  <1>4. ASSUME NEW a \in Agents, DeleteAgent(a)
        PROVE  FALSE
    BY <1>4 DEF DeleteAgent, DeleteRows, Exists
  <1>5. CASE Tick
    BY <1>5, TickShape
  <1>6. ASSUME row' = row
        PROVE  FALSE
    BY <1>6
  <1>7. ASSUME NEW p \in Procs, InsertHeartbeat(p)
        PROVE  FALSE
    <2>1. job[p].mon \in Monitors /\ row[job[p].mon] \in MonitorRow
      BY <1>7 DEF InsertHeartbeat, At, TypeOK, Job, Exists
    <2>2. QED
      BY <1>7, <2>1 DEF InsertHeartbeat, TypeOK, WithHeartbeat, MonitorRow
  <1>8. ASSUME NEW p \in Procs, SetMonitorStatus(p), job[p].mon # m
        PROVE  FALSE
    BY <1>8 DEF SetMonitorStatus
  <1>9. QED
    BY <1>1, <1>2, <1>3, <1>4, <1>5, <1>6, <1>7, <1>8
       DEF Next, Admin, Process, MaintenanceMoves, Accept, StaleScan, StaleTake, InsertRefused,
           InsertFails, SetStatusFails, CheckMaintenance, MaintLookupFails, Deliver, Restart

\* A call moves on, or ends, by a step of its own, or by the end of the process.
LEMMA OwnStep ==
  ASSUME TypeOK, [Next]_vars, NEW p \in Procs, job[p] # None,
         job'[p] = None \/ job'[p].at # job[p].at
  PROVE  Process(p) \/ Restart
  <1>1. ~Tick
    BY TickShape
  <1>2. \A h \in Handlers, a \in Agents, n \in Monitors, raw \in Statuses, lag \in Lags :
          ~Accept(h, a, n, raw, lag)
    BY DEF Accept, TypeOK
  <1>3. \A t \in Loaded : ~StaleTake(t)
    BY DEF StaleTake, TypeOK
  <1>4. job' # job
    OBVIOUS
  <1>5. Restart \/ \E q \in Procs : Process(q)
    BY <1>1, <1>2, <1>3, <1>4
       DEF Next, Admin, CreateMonitor, UpdateMonitor, DeleteMonitor, DeleteAgent,
           MaintenanceMoves, StaleScan, Deliver, vars
  <1>6. QED
    BY <1>5, ProcessShape

\* A call whose error is counted is no fault-free one.
LEMMA FaultCounts == TypeOK /\ Fault => faults' # faults
  BY BoundsAssumption DEF TypeOK, Fault

-----------------------------------------------------------------------------
(* Theorems                                                                *)

\* Whatever happened before, and to whatever other monitor at the same time: a call
\* that had its monitor to itself, and the newest result, leaves the stored status
\* in agreement with the newest heartbeat.
THEOREM CallsEndAsHeard == Spec => EndsAsHeard
  <1>1. ASSUME TypeOK, AloneInv, [Next]_vars, NEW p \in Procs, NEW m \in Monitors,
               Concludes(p), job[p].mon = m, m \notin crossed, Exists(m)',
               row'[m].age = job[p].age, job[p].age < AgeCap
        PROVE  row'[m].heard = row'[m].status
    <2> USE <1>1
    <2>1. /\ job[p] # None /\ job[p] \in Job /\ job[p].at \in {"insert", "set"}
          /\ job'[p] = None \/ job'[p].at = "maint"
      BY DEF Concludes, At, TypeOK
    <2>2. Process(p)
      BY <2>1, OwnStep, FaultCounts DEF Restart, Concludes
    <2>3. Exists(m) /\ row[m] \in MonitorRow /\ row[m].age \in Int /\ job[p].age \in Int
      BY <2>1, <2>2, ProcessShape DEF TypeOK, Exists, MonitorRow, Job, Ages
    <2>4. CASE InsertHeartbeat(p)
      <3>1. job[p].snap = job[p].status
        <4>1. [job[p] EXCEPT !.at = "set"] # None /\ [job[p] EXCEPT !.at = "set"].at = "set"
          BY <2>1, NoneAssumption DEF Job
        <4>2. job'[p] # [job[p] EXCEPT !.at = "set"]
          BY <2>1, <4>1
        <4>3. QED
          BY <2>4, <4>2 DEF InsertHeartbeat, AfterInsert, Goto, TypeOK
      <3>2. row[m].status = job[p].snap
        BY <2>1, <2>3, <2>4 DEF InsertHeartbeat, At, AloneInv, SnapshotCurrent
      <3>3. row'[m] = WithHeartbeat(row[m], job[p].status, job[p].age)
        BY <2>4 DEF InsertHeartbeat, TypeOK
      <3>4. CASE row[m].heard = None \/ job[p].age <= row[m].age
        BY <2>3, <3>1, <3>2, <3>3, <3>4 DEF WithHeartbeat, MonitorRow
      <3>5. CASE ~(row[m].heard = None \/ job[p].age <= row[m].age)
        <4>1. row'[m].age = row[m].age
          BY <2>3, <3>3, <3>5 DEF WithHeartbeat, MonitorRow
        <4>2. QED
          BY <2>3, <3>5, <4>1
      <3>6. QED
        BY <3>4, <3>5
    <2>5. CASE SetMonitorStatus(p)
      <3>1. /\ row'[m].status = job[p].status /\ row'[m].heard = row[m].heard
            /\ row'[m].age = row[m].age
        BY <2>3, <2>5 DEF SetMonitorStatus, MonitorRow
      <3>2. row[m].heard = job[p].status
        BY <2>3, <2>5, <3>1, AgeCapAssumption DEF SetMonitorStatus, AloneInv, NewestLast
      <3>3. QED
        BY <3>1, <3>2
    <2>6. ~InsertRefused(p) /\ ~CheckMaintenance(p)
      BY <2>1, <2>3 DEF InsertRefused, CheckMaintenance, At
    <2>7. ~InsertFails(p) /\ ~SetStatusFails(p) /\ ~MaintLookupFails(p)
      BY FaultCounts DEF InsertFails, SetStatusFails, MaintLookupFails, Concludes
    <2>8. QED
      BY <2>2, <2>4, <2>5, <2>6, <2>7 DEF Process
  <1>2. TypeOK /\ AloneInv /\ [Next]_vars =>
          \A p \in Procs, m \in Monitors :
            (/\ Concludes(p) /\ job[p].mon = m /\ m \notin crossed
             /\ Exists(m)' /\ row'[m].age = job[p].age /\ job[p].age < AgeCap)
              => row'[m].heard = row'[m].status
    BY <1>1
  <1>3. QED
    BY <1>2, AloneInvariant, TypeCorrect, PTL DEF Spec, EndsAsHeard

\* Every turn of the stored status of a monitor that was once at rest is carried on
\* towards an alert by the call that made it, under every overlap and every fault.
THEOREM FlipsAreRaised == Spec => SilentOnlyAtFirst
  <1>1. TypeOK /\ AloneInv /\ [Next]_vars =>
          \A m \in Monitors :
            Flips(m) => \/ \E p \in Procs : Raises(p) /\ job[p].mon = m
                        \/ m \in crossed \ settled
    <2> SUFFICES ASSUME TypeOK, AloneInv, [Next]_vars, NEW m \in Monitors, Flips(m)
                 PROVE  \/ \E p \in Procs : Raises(p) /\ job[p].mon = m
                        \/ m \in crossed \ settled
      OBVIOUS
    <2>1. /\ Exists(m) /\ Exists(m)' /\ row'[m].status # row[m].status
          /\ row[m].status # StatusPending
      BY DEF Flips, Reported, StatusDown, StatusUp, StatusPending
    <2>2. Next
      BY <2>1 DEF vars
    <2>3. PICK p \in Procs : SetMonitorStatus(p) /\ job[p].mon = m
      BY <2>1, <2>2, StatusWriters DEF AloneInv
    <2>4. job[p] \in Job /\ job[p] # None /\ job[p].at = "set"
      BY <2>3 DEF SetMonitorStatus, At, TypeOK
    <2>5. CASE job[p].snap = StatusPending
      BY <2>1, <2>3, <2>4, <2>5 DEF AloneInv, NeverBack, SnapshotCurrent
    <2>6. CASE job[p].snap # StatusPending
      <3>1. job'[p] = [job[p] EXCEPT !.at = "maint"] /\ [job[p] EXCEPT !.at = "maint"] \in Job
        BY <2>3, <2>4, <2>6 DEF SetMonitorStatus, AfterSet, Goto, TypeOK, Job
      <3>2. Raises(p)
        BY <2>4, <3>1, NoneAssumption DEF Raises, At, Job
      <3>3. QED
        BY <2>3, <3>2
    <2>7. QED
      BY <2>5, <2>6
  <1>2. QED
    BY <1>1, AloneInvariant, TypeCorrect, PTL DEF Spec, SilentOnlyAtFirst

\* A call goes on towards an alert only by the write that turned the stored status,
\* unless the monitor was deleted, the write failed, or somebody else was busy with
\* the monitor.
THEOREM OnlyFlipsAreRaised == Spec => FalseOnlyWhenCrossed
  <1>1. TypeOK /\ EvidenceInv /\ AloneInv /\ [Next]_vars =>
          \A p \in Procs, m \in Monitors :
            Raises(p) /\ job[p].mon = m
              => Flips(m) \/ ~Exists(m) \/ faults' # faults \/ m \in crossed
    <2> SUFFICES ASSUME TypeOK, EvidenceInv, AloneInv, [Next]_vars, NEW p \in Procs, Raises(p),
                        NEW m \in Monitors, job[p].mon = m, Exists(m), faults' = faults,
                        m \notin crossed
                 PROVE  Flips(m)
      OBVIOUS
    <2>1. /\ job[p] \in Job /\ job[p] # None /\ job[p].at = "set"
          /\ job'[p] # None /\ job'[p].at = "maint"
      BY DEF Raises, At, TypeOK
    <2>2. SetMonitorStatus(p) /\ job[p].snap # StatusPending
      <3>1. Process(p)
        BY <2>1, OwnStep, FaultCounts DEF Restart
      <3>2. SetMonitorStatus(p)
        BY <2>1, <3>1, FaultCounts
           DEF Process, InsertHeartbeat, InsertRefused, InsertFails, SetStatusFails,
               CheckMaintenance, MaintLookupFails, At
      <3>3. QED
        BY <2>1, <3>2 DEF SetMonitorStatus, AfterSet, Finish, TypeOK
    <2>3. row[m].status = job[p].snap /\ job[p].snap # job[p].status
      BY <2>1 DEF AloneInv, SnapshotCurrent, EvidenceInv
    <2>4. row[m] \in MonitorRow
      BY DEF TypeOK, Exists
    <2>5. row'[m].status = job[p].status /\ Exists(m)'
      <3>1. row'[m] = [row[m] EXCEPT !.status = job[p].status]
        BY <2>2 DEF SetMonitorStatus
      <3>2. QED
        BY <2>2, <2>4, <3>1, ProcessShape DEF Process, MonitorRow
    <2>6. job[p].snap \in Reported /\ job[p].status \in Reported
      BY <2>1, <2>2 DEF Job, Statuses, Reported
    <2>7. QED
      BY <2>3, <2>5, <2>6 DEF Flips, Reported
  <1>2. QED
    BY <1>1, AloneInvariant, Evidence, TypeCorrect, PTL DEF Spec, FalseOnlyWhenCrossed
=============================================================================
