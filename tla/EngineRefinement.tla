-------------------------- MODULE EngineRefinement --------------------------
(***************************************************************************)
(* Engine implements StatusBoard under every interleaving, every database  *)
(* error, every restart and every clock skew, for all values of the        *)
(* constants.                                                              *)
(***************************************************************************)
EXTENDS EngineOverlapProofs

USE DEF Unborn, Gone

\* The turnover that the call of p is about.
Turnover(p) == [mon |-> job[p].mon, status |-> job[p].status]

\* What the board shows of a monitor of each kind.
LEMMA ShownValue ==
  ASSUME TypeOK, FreshUnused, NEW m \in Monitors
  PROVE  /\ m \in fresh => Shown[m] = Unborn /\ ~Exists(m)
         /\ Exists(m) => Shown[m] = row[m].status /\ row[m].status \in Statuses
         /\ m \notin fresh /\ ~Exists(m) => Shown[m] = Gone
         /\ Shown[m] \in Statuses <=> Exists(m)
  <1>1. Exists(m) => row[m].status \in Statuses /\ m \notin fresh
    BY DEF TypeOK, Exists, MonitorRow, FreshUnused
  <1>2. QED
    BY <1>1 DEF Shown, Exists, Statuses, Reported, StatusDown, StatusUp, StatusPending

\* No call enters or leaves the stage "maint".
LEMMA OwedKept ==
  ASSUME \A q \in Procs : /\ At(q, "maint")' <=> At(q, "maint")
                          /\ At(q, "maint") => Turnover(q)' = Turnover(q)
  PROVE  Owed' = Owed
  BY DEF Owed, Turnover

\* A step that touches no status, no id and no existence shows the same board.
LEMMA ShownKept ==
  ASSUME fresh' = fresh,
         \A m \in Monitors : /\ Exists(m)' <=> Exists(m)
                             /\ Exists(m) => row'[m].status = row[m].status
  PROVE  Shown' = Shown
  BY DEF Shown

\* p, alone in owing for its monitor, enters the stage "maint".
LEMMA OwedGrows ==
  ASSUME TypeOK, NEW p \in Procs, At(p, "set"), Goto(p, "maint")
  PROVE  Owed' = Owed \cup {Turnover(p)}
  <1>1. job[p] \in Job /\ job[p].at = "set" /\ job' = [job EXCEPT ![p].at = "maint"]
    BY DEF At, TypeOK, Goto
  <1>2. job'[p] = [job[p] EXCEPT !.at = "maint"] /\ [job[p] EXCEPT !.at = "maint"] \in Job
    BY <1>1 DEF TypeOK, Job
  <1>3. At(p, "maint")' /\ Turnover(p)' = Turnover(p) /\ ~At(p, "maint")
    BY <1>1, <1>2, NoneAssumption DEF At, Turnover, Job
  <1>4. \A q \in Procs : q # p => job'[q] = job[q]
    BY <1>1 DEF TypeOK
  <1>5. \A q \in Procs : At(q, "maint")' <=> At(q, "maint") \/ q = p
    BY <1>3, <1>4 DEF At
  <1>6. \A q \in Procs : At(q, "maint")' => Turnover(q)' = Turnover(q)
    BY <1>3, <1>4 DEF Turnover
  <1>7. QED
    BY <1>5, <1>6 DEF Owed, Turnover

\* Two calls that owe about one monitor have crossed.
LEMMA OwedTwice ==
  ASSUME CrossedMarked, NEW p \in Procs, NEW q \in Procs, p # q, job[p] # None, job[q] # None,
         job[p].mon = job[q].mon, job[p].mon \in Monitors
  PROVE  job[p].mon \in crossed
  BY DEF CrossedMarked, Crowded, On

\* p settles its turnover, or leaves it owed by another call that has crossed it.
LEMMA OwedShrinks ==
  ASSUME TypeOK, CrossedMarked, NEW p \in Procs, At(p, "maint"), Finish(p)
  PROVE  Turnover(p) \in Owed /\ Board!Settled(Turnover(p))
  <1>1. job'[p] = None /\ \A q \in Procs : q # p => job'[q] = job[q]
    BY DEF Finish, TypeOK
  <1>2. \A q \in Procs : At(q, "maint")' <=> At(q, "maint") /\ q # p
    BY <1>1 DEF At
  <1>3. \A q \in Procs : At(q, "maint")' => Turnover(q)' = Turnover(q)
    BY <1>1, <1>2 DEF Turnover
  <1>4. Turnover(p) \in Owed /\ Turnover(p).mon = job[p].mon /\ job[p].mon \in Monitors
    BY DEF Owed, Turnover, At, TypeOK, Job
  <1>5. ASSUME NEW o \in Owed' PROVE o \in Owed
    BY <1>2, <1>3, <1>5 DEF Owed, Turnover
  <1>6. ASSUME NEW o \in Owed, o # Turnover(p) PROVE o \in Owed'
    <2>1. PICK q \in Procs : At(q, "maint") /\ o = Turnover(q)
      BY <1>6 DEF Owed, Turnover
    <2>2. At(q, "maint")' /\ o = Turnover(q)'
      BY <1>2, <1>3, <1>6, <2>1
    <2>3. QED
      BY <2>2 DEF Owed, Turnover
  <1>7. CASE Turnover(p) \notin Owed'
    BY <1>4, <1>5, <1>6, <1>7 DEF Board!Settled
  <1>8. CASE Turnover(p) \in Owed'
    <2>1. PICK q \in Procs : At(q, "maint")' /\ Turnover(p) = Turnover(q)'
      BY <1>8 DEF Owed, Turnover
    <2>2. At(q, "maint") /\ q # p /\ job[q].mon = job[p].mon
      BY <1>2, <1>3, <2>1 DEF Turnover
    <2>3. Turnover(p).mon \in crossed
      BY <1>4, <2>2, OwedTwice DEF At
    <2>4. Owed' = Owed
      BY <1>5, <1>6, <1>8
    <2>5. QED
      BY <1>4, <2>3, <2>4 DEF Board!Settled
  <1>9. QED
    BY <1>7, <1>8

\* The engine starts as an empty board.
LEMMA BoardInit == Init => Board!Init
  BY DEF Init, Board!Init, Shown, Owed, At

\* A call at its status write, and what is left of its turnover afterwards.
LEMMA BoardOwes ==
  ASSUME TypeOK, AloneInv, NEW p \in Procs, At(p, "set"), AfterSet(p)
  PROVE  /\ job[p].mon \in Monitors \ fresh /\ job[p].status \in Reported
         /\ job[p].snap = StatusPending => Owed' = Owed
         /\ job[p].snap # StatusPending => Board!Owe(job[p].mon, job[p].status)
         /\ Board!Owing(job[p].mon) => job[p].mon \in crossed
  <1>1. job[p] \in Job /\ job[p] # None /\ job[p].at = "set"
    BY DEF At, TypeOK
  <1>2. job[p].mon \in Monitors /\ job[p].mon \notin fresh /\ job[p].status \in Reported
    BY <1>1 DEF Job, AloneInv, FreshUnused, Busy, On
  <1>3. ASSUME job[p].snap = StatusPending PROVE Owed' = Owed
    BY <1>1, <1>3, OwedKept DEF AfterSet, Finish, TypeOK, At, Turnover
  <1>4. ASSUME job[p].snap # StatusPending PROVE Board!Owe(job[p].mon, job[p].status)
    BY <1>4, OwedGrows DEF AfterSet, Board!Owe, Turnover
  <1>5. ASSUME Board!Owing(job[p].mon) PROVE job[p].mon \in crossed
    <2>1. PICK q \in Procs : At(q, "maint") /\ job[q].mon = job[p].mon
      BY <1>5 DEF Board!Owing, Owed
    <2>2. QED
      BY <1>1, <1>2, <2>1, OwedTwice DEF At, AloneInv
  <1>6. QED
    BY <1>2, <1>3, <1>4, <1>5

\* A call that writes a status: the board shows a first result, a turnover with or
\* without a word, or nothing new, or owes the turnover of a deleted monitor.
LEMMA BoardSet ==
  ASSUME TypeOK, EvidenceInv, AloneInv, NEW p \in Procs, SetMonitorStatus(p)
  PROVE  [Board!Next]_(Board!vars)
  <1> DEFINE m == job[p].mon
             s == job[p].status
  <1>1. /\ job[p] \in Job /\ job[p] # None /\ job[p].at = "set"
        /\ m \in Monitors \ fresh /\ s \in Reported /\ s # job[p].snap
        /\ Board!Owing(m) => m \in crossed
    BY BoardOwes DEF SetMonitorStatus, At, TypeOK, EvidenceInv
  <1>2. UNCHANGED <<fresh, covered, outbox>>
    BY DEF SetMonitorStatus
  <1>3. \A n \in Monitors : Exists(n)' <=> Exists(n)
    BY ProcessShape DEF Process
  <1>4. \A n \in Monitors : n # m => row'[n] = row[n]
    BY DEF SetMonitorStatus
  <1>5. CASE Exists(m)
    <2>1. Shown[m] = row[m].status /\ Shown[m] \in Statuses
      BY <1>1, <1>5, ShownValue DEF AloneInv
    <2>2. row'[m].status = s
      BY <1>1, <1>5 DEF SetMonitorStatus, Exists, TypeOK, MonitorRow
    <2>3. Shown' = [Shown EXCEPT ![m] = s]
      BY <1>1, <1>2, <1>3, <1>4, <1>5, <2>2 DEF Shown
    <2>4. Shown[m] # job[p].snap => m \in crossed
      BY <1>1, <1>5, <2>1 DEF AloneInv, SnapshotCurrent
    <2>5. CASE job[p].snap = StatusPending
      <3>1. Owed' = Owed /\ m \notin settled
        BY <1>1, <2>5, BoardOwes DEF SetMonitorStatus, AloneInv, NeverBack
      <3>2. CASE Shown[m] = StatusPending
        BY <1>1, <1>2, <2>3, <3>1, <3>2 DEF Board!First, Board!Next
      <3>3. CASE Shown[m] = s
        <4>1. Shown' = Shown
          BY <2>3, <3>3 DEF Shown
        <4>2. QED
          BY <1>2, <3>1, <4>1 DEF Board!vars
      <3>4. CASE Shown[m] # StatusPending /\ Shown[m] # s
        <4>1. Board!SilentTurn(m, s)
          BY <1>2, <2>1, <2>3, <2>4, <2>5, <3>1, <3>4 DEF Board!SilentTurn, Statuses
        <4>2. QED
          BY <1>1, <4>1 DEF Board!Next
      <3>5. QED
        BY <3>2, <3>3, <3>4
    <2>6. CASE job[p].snap # StatusPending
      <3>1. Board!Owe(m, s) /\ Shown[m] # StatusPending
        BY <1>1, <1>5, <2>1, <2>6, BoardOwes DEF SetMonitorStatus, AloneInv, NeverBack
      <3>2. Shown[m] \in Reported
        BY <2>1, <3>1 DEF Statuses
      <3>3. CASE Shown[m] = s
        <4>1. Shown' = Shown
          BY <2>3, <3>3 DEF Shown
        <4>2. Board!Repeat(m, s)
          BY <1>1, <1>2, <2>4, <3>1, <3>2, <3>3, <4>1 DEF Board!Repeat
        <4>3. QED
          BY <1>1, <4>2 DEF Board!Next
      <3>4. CASE Shown[m] # s
        <4>1. Board!Turn(m, s)
          BY <1>1, <1>2, <2>3, <3>1, <3>2, <3>4 DEF Board!Turn
        <4>2. QED
          BY <1>1, <4>1 DEF Board!Next
      <3>5. QED
        BY <3>3, <3>4
    <2>7. QED
      BY <2>5, <2>6
  <1>6. CASE ~Exists(m)
    <2>1. Shown' = Shown /\ Shown[m] = Gone
      BY <1>1, <1>2, <1>3, <1>4, <1>6, ShownKept, ShownValue DEF AloneInv
    <2>2. QED
      BY <1>1, <1>2, <2>1, BoardOwes
         DEF SetMonitorStatus, Board!TurnOfDeleted, Board!Next, Board!vars
  <1>7. QED
    BY <1>5, <1>6

\* A call whose status write fails goes on as if it had succeeded.
LEMMA BoardSetFails ==
  ASSUME TypeOK, EvidenceInv, AloneInv, NEW p \in Procs, SetStatusFails(p)
  PROVE  [Board!Next]_(Board!vars)
  <1> DEFINE m == job[p].mon
             s == job[p].status
  <1>1. /\ job[p] # None /\ m \in Monitors \ fresh /\ s \in Reported
        /\ Board!Owing(m) => m \in crossed
    BY BoardOwes DEF SetStatusFails, At
  <1>2. UNCHANGED <<fresh, row, covered, outbox>> /\ Board!Failing
    BY FaultCounts DEF SetStatusFails, Board!Failing
  <1>3. Shown' = Shown
    BY <1>2 DEF Shown, Exists
  <1>4. CASE job[p].snap = StatusPending
    BY <1>2, <1>3, <1>4, BoardOwes DEF SetStatusFails, Board!vars
  <1>5. CASE job[p].snap # StatusPending
    <2>1. Board!Owe(m, s)
      BY <1>5, BoardOwes DEF SetStatusFails
    <2>2. CASE Exists(m)
      <3>1. Shown[m] \in Statuses /\ Shown[m] # StatusPending
        BY <1>1, <1>5, <2>2, ShownValue DEF AloneInv, NeverBack
      <3>2. Board!Repeat(m, s)
        BY <1>1, <1>2, <1>3, <2>1, <3>1 DEF Board!Repeat, Statuses
      <3>3. QED
        BY <1>1, <3>2 DEF Board!Next
    <2>3. CASE ~Exists(m)
      <3>1. Shown[m] = Gone
        BY <1>1, <2>3, ShownValue DEF AloneInv
      <3>2. Board!TurnOfDeleted(m, s)
        BY <1>1, <1>2, <1>3, <2>1, <3>1 DEF Board!TurnOfDeleted
      <3>3. QED
        BY <1>1, <3>2 DEF Board!Next
    <2>4. QED
      BY <2>2, <2>3
  <1>6. QED
    BY <1>4, <1>5

\* Every step of the engine is a step of the board or leaves it unchanged.
LEMMA BoardStep ==
  ASSUME TypeOK, EvidenceInv, AloneInv, [Next]_vars
  PROVE  [Board!Next]_(Board!vars)
  <1>0. FreshUnused /\ CrossedMarked
    BY DEF AloneInv
  <1>1. ASSUME NEW m \in Monitors, NEW a \in Agents, NEW i \in Intervals, NEW e \in BOOLEAN,
               CreateMonitor(m, a, i, e)
        PROVE  Board!Appear(m)
    <2>1. Owed' = Owed
      BY <1>1 DEF CreateMonitor, Owed, At
    <2>2. row'[m] = NewMonitor(a, i, e) /\ \A n \in Monitors : n # m => row'[n] = row[n]
      BY <1>1 DEF CreateMonitor, TypeOK
    <2>3. row'[m].status = StatusPending /\ row'[m] # None
      BY <2>2, NewType, NoneAssumption DEF NewMonitor
    <2>4. Shown[m] = Unborn
      BY <1>0, <1>1, ShownValue DEF CreateMonitor
    <2>5. Shown' = [Shown EXCEPT ![m] = StatusPending]
      <3>1. m \notin fresh' /\ \A n \in Monitors : n # m => (n \in fresh' <=> n \in fresh)
        BY <1>1 DEF CreateMonitor
      <3>2. QED
        BY <2>2, <2>3, <3>1 DEF Shown, Exists
    <2>6. QED
      BY <1>1, <2>1, <2>4, <2>5 DEF CreateMonitor, Board!Appear
  <1>2. ASSUME NEW m \in Monitors, NEW a \in Agents, NEW i \in Intervals, NEW e \in BOOLEAN,
               UpdateMonitor(m, a, i, e)
        PROVE  UNCHANGED Board!vars
    <2>1. Owed' = Owed
      BY <1>2 DEF UpdateMonitor, Owed, At
    <2>2. fresh' = fresh
      BY <1>2 DEF UpdateMonitor
    <2>3. Shown' = Shown
      BY <1>2, <2>2, UpdateShape, ShownKept
    <2>4. QED
      BY <1>2, <2>1, <2>3 DEF UpdateMonitor, Board!vars
  <1>3. ASSUME NEW S \in SUBSET Live, DeleteRows(S), UNCHANGED <<fresh, job, outbox>>
        PROVE  [Board!Next]_(Board!vars)
    <2>1. Owed' = Owed
      BY <1>3 DEF Owed, At
    <2>2. S \in SUBSET Monitors /\ \A m \in S : Exists(m) /\ m \notin fresh
      BY <1>0 DEF Live, FreshUnused
    <2>3. Shown' = [m \in Monitors |-> IF m \in S THEN Gone ELSE Shown[m]]
      BY <1>3, <2>2 DEF DeleteRows, Shown, Exists
    <2>4. CASE S = {}
      <3>1. Shown' = Shown
        BY <2>3, <2>4 DEF Shown
      <3>2. QED
        BY <1>3, <2>1, <2>4, <3>1 DEF DeleteRows, Board!vars
    <2>5. CASE S # {}
      <3>1. S \subseteq Board!OnBoard
        BY <1>0, <2>2, ShownValue DEF Board!OnBoard, Statuses
      <3>2. Board!Disappear(S)
        BY <1>3, <2>1, <2>3, <2>5, <3>1 DEF DeleteRows, Board!Disappear
      <3>3. QED
        BY <2>2, <3>2 DEF Board!Next
    <2>6. QED
      BY <2>4, <2>5
  <1>4. ASSUME NEW S \in SUBSET Monitors, MaintenanceMoves(S)
        PROVE  Board!Cover(S)
    <2>1. S \subseteq Board!OnBoard
      BY <1>0, <1>4, ShownValue DEF MaintenanceMoves, Live, Board!OnBoard, Statuses
    <2>2. Shown' = Shown /\ Owed' = Owed
      BY <1>4 DEF MaintenanceMoves, Shown, Owed, Exists, At
    <2>3. QED
      BY <1>4, <2>1, <2>2 DEF MaintenanceMoves, Board!Cover
  <1>5. CASE Tick
    <2>1. fresh' = fresh /\ UNCHANGED <<covered, outbox>>
      BY <1>5 DEF Tick
    <2>2. Shown' = Shown
      BY <1>5, <2>1, TickShape, ShownKept
    <2>3. Owed' = Owed
      BY <1>5, TickShape, OwedKept DEF At, SameCall, Turnover
    <2>4. QED
      BY <2>1, <2>2, <2>3 DEF Board!vars
  <1>6. ASSUME NEW p \in Procs, NEW m, NEW c, NEW s, NEW a, job[p] = None,
               job' = [job EXCEPT ![p] = NewJob(m, c, s, a)],
               UNCHANGED <<fresh, row, covered, outbox>>
        PROVE  UNCHANGED Board!vars
    <2>1. job'[p].at = "insert" /\ \A q \in Procs : q # p => job'[q] = job[q]
      BY <1>6 DEF TypeOK, NewJob
    <2>2. Owed' = Owed
      BY <1>6, <2>1, OwedKept DEF At, Turnover
    <2>3. Shown' = Shown
      BY <1>6 DEF Shown, Exists
    <2>4. QED
      BY <1>6, <2>2, <2>3 DEF Board!vars
  <1>7. ASSUME UNCHANGED <<fresh, row, covered, job, outbox>>
        PROVE  UNCHANGED Board!vars
    BY <1>7 DEF Board!vars, Shown, Owed, Exists, At
  <1>8. ASSUME NEW p \in Procs, Process(p)
        PROVE  [Board!Next]_(Board!vars)
    <2>1. CASE InsertHeartbeat(p)
      <3>1. UNCHANGED <<fresh, covered, outbox>>
        BY <2>1 DEF InsertHeartbeat
      <3>2. \A m \in Monitors : Exists(m) => row'[m].status = row[m].status
        <4>1. job[p].mon \in Monitors /\ row[job[p].mon] \in MonitorRow
          BY <2>1 DEF InsertHeartbeat, At, TypeOK, Job, Exists
        <4>2. QED
          BY <2>1, <4>1 DEF InsertHeartbeat, TypeOK, WithHeartbeat, MonitorRow
      <3>3. Shown' = Shown
        BY <1>8, <3>1, <3>2, ProcessShape, ShownKept
      <3>4. ~At(p, "maint")' /\ ~At(p, "maint")
        BY <2>1 DEF InsertHeartbeat, AfterInsert, Finish, Goto, At, TypeOK, Job
      <3>5. Owed' = Owed
        BY <1>8, <3>4, ProcessShape, OwedKept DEF At, Turnover
      <3>6. QED
        BY <3>1, <3>3, <3>5 DEF Board!vars
    <2>2. CASE InsertRefused(p)
      <3>1. ~At(p, "maint")' /\ ~At(p, "maint")
        BY <2>2 DEF InsertRefused, Finish, At, TypeOK
      <3>2. Owed' = Owed
        BY <1>8, <3>1, ProcessShape, OwedKept DEF At, Turnover
      <3>3. QED
        BY <2>2, <3>2 DEF InsertRefused, Board!vars, Shown, Exists
    <2>3. CASE SetMonitorStatus(p)
      BY <2>3, BoardSet
    <2>4. CASE CheckMaintenance(p)
      <3>1. Turnover(p) \in Owed /\ Board!Settled(Turnover(p))
        BY <1>0, <2>4, OwedShrinks DEF CheckMaintenance
      <3>2. Shown' = Shown /\ covered' = covered
        BY <2>4 DEF CheckMaintenance, Shown, Exists
      <3>3. Board!Settle(Turnover(p))
        BY <2>4, <3>1, <3>2
           DEF CheckMaintenance, Announce, Turnover, Board!Settle, Board!Announce, Board!Suppress
      <3>4. QED
        BY <3>1, <3>3 DEF Board!Next
    <2>5. CASE MaintLookupFails(p)
      <3>1. Turnover(p) \in Owed /\ Board!Settled(Turnover(p))
        BY <1>0, <2>5, OwedShrinks DEF MaintLookupFails
      <3>2. Shown' = Shown /\ covered' = covered /\ Board!Failing
        BY <2>5, FaultCounts DEF MaintLookupFails, Shown, Exists, Board!Failing
      <3>3. Board!Settle(Turnover(p))
        BY <2>5, <3>1, <3>2
           DEF MaintLookupFails, Announce, Turnover, Board!Settle, Board!Announce
      <3>4. QED
        BY <3>1, <3>3 DEF Board!Next
    <2>6. CASE InsertFails(p)
      <3>1. ~At(p, "maint")' /\ ~At(p, "maint")
        BY <2>6 DEF InsertFails, Finish, At, TypeOK
      <3>2. Owed' = Owed
        BY <1>8, <3>1, ProcessShape, OwedKept DEF At, Turnover
      <3>3. QED
        BY <2>6, <3>2 DEF InsertFails, Board!vars, Shown, Exists
    <2>7. CASE SetStatusFails(p)
      BY <2>7, BoardSetFails
    <2>8. QED
      BY <1>8, <2>1, <2>2, <2>3, <2>4, <2>5, <2>6, <2>7 DEF Process
  <1>9. ASSUME NEW al \in Alert, Deliver(al)
        PROVE  [Board!Next]_(Board!vars)
    <2>1. Shown' = Shown /\ Owed' = Owed /\ al \in outbox
      BY <1>9 DEF Deliver, Shown, Owed, Exists, At
    <2>2. Board!Deliver(al)
      BY <1>9, <2>1 DEF Deliver, Board!Deliver
    <2>3. QED
      BY <2>1, <2>2 DEF Board!Next
  <1>10. CASE Admin
    <2>1. ASSUME NEW m \in Monitors, DeleteMonitor(m)
          PROVE  [Board!Next]_(Board!vars)
      BY <1>3, <2>1 DEF DeleteMonitor, Live
    <2>2. ASSUME NEW a \in Agents, DeleteAgent(a)
          PROVE  [Board!Next]_(Board!vars)
      BY <1>3, <2>2 DEF DeleteAgent
    <2>3. QED
      BY <1>1, <1>2, <1>4, <1>10, <2>1, <2>2 DEF Admin, Board!Next
  <1>11. ASSUME NEW h \in Handlers, NEW a \in Agents, NEW m \in Monitors, NEW raw \in Statuses,
                NEW lag \in Lags, Accept(h, a, m, raw, lag)
         PROVE  UNCHANGED Board!vars
    BY <1>6, <1>11 DEF Accept, Procs
  <1>12. ASSUME NEW t \in Loaded, StaleTake(t)
         PROVE  UNCHANGED Board!vars
    BY <1>6, <1>12 DEF StaleTake, Procs
  <1>13. CASE StaleScan \/ UNCHANGED vars
    BY <1>7, <1>13 DEF StaleScan, vars
  <1>14. CASE Restart
    <2>1. Owed' = {} /\ Shown' = Shown
      BY <1>14 DEF Restart, Owed, At, Shown, Exists
    <2>2. Board!Forget
      BY <1>14, <2>1, FaultCounts DEF Restart, Board!Forget, Board!Failing
    <2>3. QED
      BY <2>2 DEF Board!Next
  <1>15. QED
    BY <1>5, <1>8, <1>9, <1>10, <1>11, <1>12, <1>13, <1>14 DEF Next

\* Every behaviour of the engine is one of the status board, whatever overlaps,
\* fails, restarts or arrives late.  The board shows "pending" before the first
\* result; each later turn of the stored status is owed one announcement, made
\* unless the monitor is then in maintenance; and what else may be owed or lost is
\* tied to its cause: results of that monitor that cross, a deletion, a fault.
THEOREM EngineImplementsBoard == Spec => ImplementsBoard
  BY BoardInit, BoardStep, AloneInvariant, Evidence, TypeCorrect, PTL
     DEF Spec, ImplementsBoard, Board!Spec
=============================================================================
