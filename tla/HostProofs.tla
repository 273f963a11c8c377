----------------------------- MODULE HostProofs -----------------------------
(***************************************************************************)
(* Proofs about what happens on, and to, a monitored host: its web site's  *)
(* certificate (HttpsCheck), its containers and services (DockerCheck),    *)
(* whether its agent is shown online (Presence), and the types of its      *)
(* inventory (Inventory).                                                  *)
(***************************************************************************)
EXTENDS MCHost, TLAPS

(***************************************************************************)
(* HttpsCheck, for certificates of any age and any pause up to 15 days     *)
(* between two checks                                                      *)
(***************************************************************************)

\* What the check tells without a warning it tells 15 days ahead.
LEMMA UpMeansFifteenDays ==
  ASSUME left \in Int, Verdict = "up"
  PROVE  left >= 360
<1>1. ~Soon(DaysLeft) /\ ~(DaysLeft < 0)
  BY DEF Verdict
<1>2. QED
  BY <1>1 DEF Soon, DaysLeft

\* The inductive invariant behind WarnedInTime: what the last check left of the
\* certificate's 15 days (https.go:64-70) is still left, less the time since.
THEOREM WarningInvariant == Spec => []WarningInv
<1> USE HoursAssumption
<1>1. Init => WarningInv
  BY DEF Init, WarningInv, TypeOK, Results
<1>2. ASSUME WarningInv, [Next]_vars PROVE WarningInv'
  <2> USE DEF WarningInv, TypeOK
  <2>1. CASE Hour
    BY <1>2, <2>1 DEF Hour
  <2>2. CASE Renew
    BY <1>2, <2>2 DEF Renew
  <2>3. CASE SiteChanges
    BY <1>2, <2>3 DEF SiteChanges
  <2>4. CASE Check
    <3>1. Verdict \in Results
      BY DEF Verdict, Results
    <3>2. result' = "up" => left' >= 360
      BY <1>2, <2>4, UpMeansFifteenDays DEF Check
    <3>3. QED
      BY <1>2, <2>4, <3>1, <3>2 DEF Check
  <2>5. CASE UNCHANGED vars
    BY <1>2, <2>5 DEF vars
  <2>6. QED
    BY <1>2, <2>1, <2>2, <2>3, <2>4, <2>5 DEF Next
<1>3. QED
  BY <1>1, <1>2, PTL DEF Spec

\* A monitor shown up without a warning has a good certificate until it is checked
\* again, whatever pause up to 15 days lies between (https.go:64-70).
THEOREM NoUnannouncedExpiry == Spec => []WarnedInTime
<1>1. WarningInv => WarnedInTime
  BY HoursAssumption DEF WarningInv, WarnedInTime, TypeOK
<1>2. QED
  BY <1>1, WarningInvariant, PTL

(***************************************************************************)
(* DockerCheck, for any number of replicas                                 *)
(***************************************************************************)

\* A container never turns into a service, nor a service into a container, and
\* only a service's check has a second request.
TargetInv ==
  /\ D!TypeOK
  /\ type = "container" => target \in {D!Missing} \cup D!Container
  /\ type = "service" => target \in {D!Missing} \cup D!Service
  /\ pc = "spec" => type = "service"

LEMMA StepTarget == TargetInv /\ [D!Next]_(D!vars) => TargetInv'
<1> SUFFICES ASSUME TargetInv, [D!Next]_(D!vars) PROVE TargetInv'
  OBVIOUS
<1> USE HostAssumption DEF TargetInv, D!TypeOK, D!Global, D!Missing, D!Container, D!Service
<1>1. CASE D!ContainerChanges
  BY <1>1 DEF D!ContainerChanges, D!Becomes
<1>2. CASE D!TaskStarts
  BY <1>2 DEF D!TaskStarts, D!Becomes
<1>3. CASE D!TaskFails
  BY <1>3 DEF D!TaskFails, D!Becomes
<1>4. CASE D!Removed
  BY <1>4 DEF D!Removed, D!Becomes
<1>5. ASSUME NEW n \in 0..MaxReplicas, D!Scale(n) PROVE TargetInv'
  <2> DEFINE running == IF target.running > n THEN n ELSE target.running
  <2>1. target \in D!Service /\ type = "service" /\ running \in 0..MaxReplicas /\ running <= n
    BY <1>5 DEF D!Scale
  <2>2. target' = [kind |-> "service", replicas |-> n, running |-> running]
    BY <1>5, <2>1 DEF D!Scale, D!Becomes
  <2>3. target' \in D!Service
    BY <2>1, <2>2
  <2>4. QED
    BY <1>5, <2>1, <2>3 DEF D!Scale, D!Becomes
<1>6. CASE D!CheckContainer
  BY <1>6 DEF D!CheckContainer, D!Conclude
<1>7. CASE D!ReadSpec
  BY <1>7 DEF D!ReadSpec, D!Conclude
<1>8. CASE D!ReadTasks
  BY <1>8 DEF D!ReadTasks, D!Conclude
<1>9. CASE D!ApiFails
  BY <1>9 DEF D!ApiFails
<1>10. CASE D!Named
  BY <1>10 DEF D!Named, D!Targets, D!Becomes
<1>11. CASE UNCHANGED D!vars
  BY <1>11 DEF D!vars
<1>12. QED
  BY <1>1, <1>2, <1>3, <1>4, <1>5, <1>6, <1>7, <1>8, <1>9, <1>10, <1>11 DEF D!Next

LEMMA TargetInvariant == D!Spec => []TargetInv
<1>1. D!Init => TargetInv
  BY HostAssumption
  DEF D!Init, D!Targets, TargetInv, D!TypeOK, D!Global, D!Missing, D!Container, D!Service
<1>2. QED
  BY <1>1, StepTarget, PTL DEF D!Spec

\* The three places where a check ends with a verdict.
LEMMA ConcludesRight ==
  ASSUME TargetInv, D!CheckContainer \/ D!ReadSpec \/ D!ReadTasks, pc' = "done", D!NotScaled
  PROVE  (verdict' = "up") = D!Healthy(target)
<1> USE HostAssumption
    DEF TargetInv, D!TypeOK, D!Global, D!Missing, D!Container, D!Service
<1>1. CASE D!CheckContainer
  <2>1. (verdict' = "up") <=> (target # D!Missing /\ target.running /\ target.health \in {"none", "healthy"})
    BY <1>1 DEF D!CheckContainer, D!Conclude
  <2>2. target \in {D!Missing} \cup D!Container
    BY <1>1 DEF D!CheckContainer
  <2>3. (verdict' = "up") <=> D!Healthy(target)
    BY <2>1, <2>2 DEF D!Healthy
  <2>4. QED
    BY <2>3 DEF D!Healthy
<1>2. CASE D!ReadSpec
  <2>1. target = D!Missing /\ verdict' = "down"
    BY <1>2 DEF D!ReadSpec, D!Conclude
  <2>2. ~D!Healthy(target)
    BY <2>1 DEF D!Healthy
  <2>3. (verdict' = "up") <=> D!Healthy(target)
    BY <2>1, <2>2
  <2>4. QED
    BY <2>3 DEF D!Healthy
<1>3. CASE D!ReadTasks
  <2>1. pc = "spec" /\ ((verdict' = "up") <=> D!Enough(D!Running))
    BY <1>3 DEF D!ReadTasks, D!Conclude
  <2>2. ASSUME target = D!Missing PROVE (verdict' = "up") <=> D!Healthy(target)
    <3>1. D!Running = 0 /\ desired \in Nat
      BY <2>2 DEF D!Running
    <3>2. ~D!Enough(0)
      BY <3>1 DEF D!Enough
    <3>3. ~D!Healthy(target)
      BY <2>2 DEF D!Healthy
    <3>4. QED
      BY <2>1, <3>1, <3>2, <3>3
  <2>3. ASSUME target \in D!Service PROVE (verdict' = "up") <=> D!Healthy(target)
    <3>1. target.replicas = desired /\ target # D!Missing
      BY <2>1, <2>3 DEF D!NotScaled
    <3>2. /\ target.running \in Nat /\ target.running <= MaxReplicas /\ desired \in Nat
          /\ target.kind = "service"
      BY <2>3
    <3>3. D!Enough(target.running) <=> D!Healthy(target)
      BY <3>1, <3>2 DEF D!Enough, D!Healthy
    <3>4. QED
      BY <2>1, <3>1, <3>3 DEF D!Running
  <2>4. (verdict' = "up") <=> D!Healthy(target)
    BY <2>1, <2>2, <2>3
  <2>5. QED
    BY <2>4 DEF D!Healthy
<1>4. QED
  BY <1>1, <1>2, <1>3

\* Whatever happens between the two requests of a service's check but scaling, its
\* verdict is the target's health at the last one (docker.go:96-215).
THEOREM VerdictsHold == D!Spec => VerdictHeld
<1>1. TargetInv => (((D!CheckContainer \/ D!ReadSpec \/ D!ReadTasks) /\ pc' = "done" /\ D!NotScaled)
                      => (verdict' = "up") = D!Healthy(target))
  BY ConcludesRight
<1>2. QED
  BY <1>1, TargetInvariant, PTL DEF VerdictHeld, D!VerdictHeld

(***************************************************************************)
(* Presence                                                                *)
(***************************************************************************)

\* Time until the loop sends its next poll, at the latest.
TicksLeft == IF polling THEN 0 ELSE ticker
NextSend  == IF P!Waiting /\ P!Timeout - request > TicksLeft THEN P!Timeout - request ELSE TicksLeft

\* An agent that was seen will be seen again before its window is over: by the poll
\* on its way, or by the last of those that may still be lost.
SeenInTime ==
  seen # P!Never =>
    IF P!Waiting /\ fate = "coming"
    THEN seen + (P!Timeout - request) <= P!Window
    ELSE seen + NextSend + P!Interval * (MaxLost - lost) + P!Timeout <= P!Window

PresenceInv == P!TypeOK /\ SeenInTime

LEMMA StepPresence == PresenceInv /\ [P!Next]_(P!vars) => PresenceInv'
<1> SUFFICES ASSUME PresenceInv, [P!Next]_(P!vars) PROVE PresenceInv'
  OBVIOUS
<1> USE DEF P!Waiting, P!Never, P!Window, P!Timeout, P!Interval
<1> DEFINE spare == 3 * (MaxLost - lost)
<1>1. /\ ticker \in 1..3 /\ polling \in BOOLEAN /\ request \in 0..3 \cup {11}
      /\ fate \in {"coming", "here", "lost"} /\ seen \in 0..11
      /\ lost \in Int /\ lost >= 0 /\ lost <= MaxLost /\ MaxLost \in Int /\ MaxLost <= 1
      /\ spare \in Int /\ spare >= 0
  BY HostAssumption DEF PresenceInv, P!TypeOK
<1>2. SeenInTime
  BY DEF PresenceInv
<1>3. CASE P!Send
  <2>1. request = 11 /\ request' = 0 /\ polling /\ ~polling' /\ ticker' = ticker /\ seen' = seen
    BY <1>3 DEF P!Send
  <2>0. polling' \in BOOLEAN
    BY <1>3 DEF P!Send
  <2>2. seen # 11 => seen + spare + 3 <= 9
    BY <1>1, <1>2, <2>1 DEF SeenInTime, NextSend, TicksLeft
  <2>3. CASE fate' = "coming" /\ lost' = 0
    <3>1. P!TypeOK'
      BY <1>1, <2>0, <2>1, <2>3 DEF P!TypeOK
    <3>2. SeenInTime'
      BY <1>1, <2>1, <2>2, <2>3 DEF SeenInTime
    <3>3. QED
      BY <3>1, <3>2 DEF PresenceInv
  <2>4. CASE fate' = "lost" /\ lost < MaxLost /\ lost' = lost + 1
    <3>1. P!TypeOK'
      BY <1>1, <2>0, <2>1, <2>4 DEF P!TypeOK
    <3>2. spare' = spare - 3 /\ spare' \in Int
      BY <1>1, <2>4
    <3>3. NextSend' = 3
      BY <1>1, <2>1 DEF NextSend, TicksLeft
    <3>4. seen' # 11 => seen' + NextSend' + spare' + 3 <= 9
      BY <1>1, <2>0, <2>1, <2>2, <3>2, <3>3
    <3>5. SeenInTime'
      BY <2>1, <2>4, <3>4 DEF SeenInTime
    <3>6. QED
      BY <3>1, <3>5 DEF PresenceInv
  <2>5. QED
    BY <1>3, <2>3, <2>4 DEF P!Send
<1>4. CASE P!Touch
  BY <1>1, <1>2, <1>4, HostAssumption DEF P!Touch, PresenceInv, P!TypeOK, SeenInTime, NextSend, TicksLeft
<1>5. CASE P!Return
  BY <1>1, <1>2, <1>5, HostAssumption DEF P!Return, PresenceInv, P!TypeOK, SeenInTime, NextSend, TicksLeft
<1>6. CASE P!Tick
  <2>1. /\ ticker' = (IF ticker = 1 THEN 3 ELSE ticker - 1) /\ fate' = fate /\ lost' = lost
        /\ seen' = IF seen = 11 THEN 11 ELSE seen + 1
    BY <1>6 DEF P!Tick
  <2>0. polling' \in BOOLEAN /\ (polling' <=> (polling \/ ticker = 1))
    BY <1>6, Zenon DEF P!Tick
  <2>2. IF request = 11 THEN ~polling /\ request' = request
                        ELSE request \in 0..2 /\ request' = request + 1
    BY <1>1, <1>6 DEF P!Tick
  <2>3. P!TypeOK'
    <3>1. ticker' \in 1..3 /\ seen' \in 0..11
      BY <1>1, <2>1
    <3>2. request' \in 0..3 \cup {11}
      BY <1>1, <2>2
    <3>3. QED
      BY <1>1, <2>0, <2>1, <3>1, <3>2 DEF P!TypeOK
  <2>4. NextSend' = NextSend - 1 /\ NextSend \in Int
    <3>1. CASE request = 11
      BY <1>1, <2>0, <2>1, <2>2, <3>1 DEF NextSend, TicksLeft
    <3>2. CASE request # 11 /\ polling
      BY <1>1, <2>0, <2>1, <2>2, <3>2 DEF NextSend, TicksLeft
    <3>3. CASE request # 11 /\ ~polling
      BY <1>1, <2>0, <2>1, <2>2, <3>3 DEF NextSend, TicksLeft
    <3>4. QED
      BY <3>1, <3>2, <3>3
  <2>5. CASE request # 11 /\ fate = "coming"
    BY <1>1, <1>2, <2>1, <2>2, <2>3, <2>5 DEF PresenceInv, SeenInTime
  <2>6. CASE ~(request # 11 /\ fate = "coming")
    <3>1. seen # 11 => seen + NextSend + spare + 3 <= 9
      BY <1>2, <2>6 DEF SeenInTime
    <3>2. seen' # 11 => seen' + NextSend' + spare' + 3 <= 9
      BY <1>1, <2>1, <2>4, <3>1
    <3>3. SeenInTime'
      BY <2>1, <2>2, <2>6, <3>2, <1>1 DEF SeenInTime
    <3>4. QED
      BY <2>3, <3>3 DEF PresenceInv
  <2>7. QED
    BY <2>5, <2>6
<1>7. CASE UNCHANGED P!vars
  BY <1>1, <1>2, <1>7, HostAssumption DEF P!vars, PresenceInv, P!TypeOK, SeenInTime, NextSend, TicksLeft
<1>8. QED
  BY <1>3, <1>4, <1>5, <1>6, <1>7 DEF P!Next

LEMMA PresenceInvariant == P!Spec => []PresenceInv
<1>1. P!Init => PresenceInv
  BY HostAssumption
  DEF P!Init, PresenceInv, P!TypeOK, SeenInTime, P!Never, P!Window, P!Timeout, P!Interval
<1>2. QED
  BY <1>1, StepPresence, PTL DEF P!Spec

\* A running agent whose polls are not lost twice in a row is never shown offline
\* once it was online (db.go:216, 254; agent.go:65, 79).
THEOREM OnlineStaysOnline == P!Spec => NeverFalselyOffline
<1>1. PresenceInv /\ PresenceInv' /\ [P!Next]_(P!vars) => (P!Online => P!Online')
  BY HostAssumption
  DEF PresenceInv, P!TypeOK, SeenInTime, NextSend, TicksLeft, P!Waiting, P!Online, P!Next, P!vars,
      P!Send, P!Touch, P!Return, P!Tick, P!Never, P!Window, P!Timeout, P!Interval
<1>2. QED
  BY <1>1, PresenceInvariant, PTL DEF P!Spec, NeverFalselyOffline, P!NeverFalselyOffline

(***************************************************************************)
(* Inventory                                                               *)
(***************************************************************************)

\* An agent that has listed something has a token to post it with.
InventoryInv == I!TypeOK /\ (listed # None => token > 0)

LEMMA StepInventory == InventoryInv /\ [I!Next]_(I!vars) => InventoryInv'
<1> SUFFICES ASSUME InventoryInv, [I!Next]_(I!vars) PROVE InventoryInv'
  OBVIOUS
<1> USE HostAssumption DEF InventoryInv, I!TypeOK, I!Versions, I!Other, I!agent
<1>1. CASE I!DockerChanges
  BY <1>1 DEF I!DockerChanges, I!Changes
<1>2. CASE I!List \/ I!ListTorn
  BY <1>2 DEF I!List, I!ListTorn, I!AtTicker, I!Changes, I!Fault
<1>3. CASE I!GiveUp
  BY <1>3 DEF I!GiveUp
<1>4. CASE I!StartAgent
  BY <1>4 DEF I!StartAgent
<1>5. CASE I!CreateAgent
  BY <1>5 DEF I!CreateAgent
<1>6. CASE I!Regenerate
  BY <1>6 DEF I!Regenerate
<1>7. CASE I!DeleteAgent
  BY <1>7 DEF I!DeleteAgent
<1>8. ASSUME NEW p \in Posts, I!Send(p) PROVE InventoryInv'
  BY <1>8 DEF I!Send
<1>9. ASSUME NEW p \in Posts, I!Resolve(p) PROVE InventoryInv'
  BY <1>9 DEF I!Resolve
<1>10. ASSUME NEW p \in Posts, I!Refuse(p) PROVE InventoryInv'
  BY <1>10 DEF I!Refuse, I!Over
<1>11. ASSUME NEW p \in Posts, I!Store(p) PROVE InventoryInv'
  BY <1>11 DEF I!Store, I!Over
<1>12. ASSUME NEW p \in Posts, I!Fails(p) \/ I!Lose(p) PROVE InventoryInv'
  BY <1>12 DEF I!Fails, I!Lose, I!Over, I!Fault
<1>13. CASE UNCHANGED I!vars
  BY <1>13 DEF I!vars
<1>14. QED
  BY <1>1, <1>2, <1>3, <1>4, <1>5, <1>6, <1>7, <1>8, <1>9, <1>10, <1>11, <1>12, <1>13
  DEF I!Next, I!Serve

LEMMA InventoryInvariant == I!Spec => []InventoryInv
<1>1. I!Init => InventoryInv
  BY HostAssumption DEF I!Init, InventoryInv, I!TypeOK, I!Versions, I!Other
<1>2. QED
  BY <1>1, StepInventory, PTL DEF I!Spec

(***************************************************************************)
(* The host as a whole                                                     *)
(***************************************************************************)

\* A behaviour of the host is one of each of its components.
LEMMA HostIsAll ==
  HostSpec => Spec /\ D!Spec /\ P!Spec /\ I!Spec
<1>1. HostInit => Init /\ D!Init /\ P!Init /\ I!Init
  BY DEF HostInit
<1> DEFINE all == <<component, vars, dockerVars, presenceVars, inventoryVars>>
<1>2. [HostNext]_all => [Next]_vars
  BY DEF HostNext, HttpsMoves
<1>3. [HostNext]_all => [D!Next]_(D!vars)
  BY DEF HostNext, DockerMoves, dockerVars, D!vars
<1>4. [HostNext]_all => [P!Next]_(P!vars)
  BY DEF HostNext, PresenceMoves, presenceVars, P!vars
<1>5. [HostNext]_all => [I!Next]_(I!vars)
  BY DEF HostNext, InventoryMoves, inventoryVars, I!vars, I!agent
<1>6. QED
  BY <1>1, <1>2, <1>3, <1>4, <1>5, PTL DEF HostSpec, Spec, D!Spec, P!Spec, I!Spec

\* The states of the https check (https.go), of the docker check (docker.go), of an
\* agent's polls and last_seen (agent.go, db.go), and of an inventory on its way have
\* the types they are declared with.
THEOREM HostTypes == HostSpec => []HostTypeOK
<1>1. WarningInv /\ TargetInv /\ PresenceInv /\ InventoryInv => HostTypeOK
  BY DEF WarningInv, TargetInv, PresenceInv, InventoryInv, HostTypeOK
<1>2. QED
  BY <1>1, HostIsAll, WarningInvariant, TargetInvariant, PresenceInvariant, InventoryInvariant, PTL
=============================================================================
