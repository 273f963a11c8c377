----------------------------- MODULE AgentProofs -----------------------------
(***************************************************************************)
(* Proofs about Agent, for every number of agents, monitors, versions,     *)
(* edits and restarts: the state is well typed, and each agent runs the    *)
(* goroutines that its runners map promises.                               *)
(***************************************************************************)
EXTENDS Agent, FiniteSetTheorems, TLAPS

THEOREM InitTyped == Init => TypeOK
  BY NoneAssumption, BoundsAssumption DEF Init, TypeOK, Answers

\* The goroutine that syncConfig starts for m.
Runner(a, m) == [agent |-> a, mon |-> m, ver |-> answer[a][m], pc |-> "check", live |-> TRUE]

LEMMA StartedAre ==
  ASSUME NEW a \in Agents
  PROVE  \A l : l \in Started(a) <=>
                 \E m \in Monitors \ Unchanged(a) : answer[a][m] # None /\ l = Runner(a, m)
  BY DEF Started, Runner

\* What an agent keeps of its goroutines, and what it starts, are goroutines.
LEMMA ReconcileTyped ==
  ASSUME TypeOK, NEW a \in Agents, answer[a] # None
  PROVE  /\ Cancelled(a) \subseteq Loop
         /\ Started(a) \subseteq Loop
         /\ [m \in Monitors |-> IF m \in Unchanged(a) THEN runner[a][m] ELSE answer[a][m]] \in Answers
<1>1. answer[a] \in Answers /\ runner[a] \in Answers
  BY DEF TypeOK
<1>2. Cancelled(a) \subseteq Loop
  <2> SUFFICES ASSUME NEW k \in loops
               PROVE  [k EXCEPT !.live = k.live /\ k.mon \in Unchanged(a)] \in Loop
    BY DEF Cancelled
  <2>1. k \in Loop
    BY DEF TypeOK
  <2>2. (k.live /\ k.mon \in Unchanged(a)) \in BOOLEAN
    OBVIOUS
  <2> QED
    BY <2>1, <2>2 DEF Loop
<1>3. Started(a) \subseteq Loop
  <2> SUFFICES ASSUME NEW l \in Started(a) PROVE l \in Loop
    OBVIOUS
  <2>1. PICK m \in Monitors \ Unchanged(a) : answer[a][m] # None /\ l = Runner(a, m)
    BY StartedAre
  <2>2. answer[a][m] \in Versions
    BY <1>1, <2>1 DEF Answers
  <2> QED
    BY <2>1, <2>2 DEF Runner, Loop
<1> QED
  BY <1>1, <1>2, <1>3 DEF Answers

\* A goroutine that goes from one stage to another is a goroutine still.
LEMMA MoveTyped ==
  ASSUME loops \subseteq Loop, NEW l \in loops, NEW pc \in {"check", "post", "sleep"}, Move(l, pc)
  PROVE  loops' \subseteq Loop
  BY DEF Move, Loop

LEMMA StepTyped == TypeOK /\ [Next]_vars => TypeOK'
<1> SUFFICES ASSUME TypeOK, [Next]_vars PROVE TypeOK'
  OBVIOUS
<1> USE BoundsAssumption
<1>1. ASSUME NEW m \in Monitors, NEW d \in Definition, UpdateMonitor(m, d) PROVE TypeOK'
  BY <1>1 DEF UpdateMonitor, Edited, TypeOK
<1>2. ASSUME NEW m \in Monitors, DeleteMonitor(m) PROVE TypeOK'
  BY <1>2 DEF DeleteMonitor, Edited, TypeOK
<1>3. ASSUME NEW a \in Agents, DeleteAgent(a) PROVE TypeOK'
  BY <1>3 DEF DeleteAgent, Edited, TypeOK
<1>4. ASSUME NEW a \in Agents, FetchConfig(a) PROVE TypeOK'
  <2>1. ConfigFor(a) \in Answers
    BY DEF ConfigFor, Answers, TypeOK, Definition
  <2> QED
    BY <1>4, <2>1 DEF FetchConfig, TypeOK
<1>5. ASSUME NEW a \in Agents, RefuseConfig(a) PROVE TypeOK'
  BY <1>5 DEF RefuseConfig, vars, TypeOK
<1>6. ASSUME NEW a \in Agents, LoseAnswer(a) PROVE TypeOK'
  BY <1>6 DEF LoseAnswer, TypeOK
<1>7. ASSUME NEW a \in Agents, Reconcile(a) PROVE TypeOK'
  BY <1>7, ReconcileTyped DEF Reconcile, TypeOK
<1>8. ASSUME NEW a \in Agents, RestartAgent(a) PROVE TypeOK'
  BY <1>8 DEF RestartAgent, TypeOK, Answers
<1>9. ASSUME NEW l \in Loop, Run(l) PROVE TypeOK'
  <2>1. CASE Report(l)
    <3>1. PostOf(l, "wire") \in Post
      BY DEF PostOf, Loop, Post
    <3>2. loops' \subseteq Loop
      BY <2>1, MoveTyped DEF Report, TypeOK
    <3> QED
      BY <2>1, <3>1, <3>2 DEF Report, TypeOK
  <2>2. CASE Abandon(l) \/ Stop(l)
    BY <2>2 DEF Abandon, Stop, End, TypeOK
  <2>3. CASE PostReturns(l) \/ Wake(l)
    <3>1. loops' \subseteq Loop
      BY <2>3, MoveTyped DEF PostReturns, Wake, TypeOK
    <3> QED
      BY <2>3, <3>1 DEF PostReturns, Wake, TypeOK
  <2> QED
    BY <1>9, <2>1, <2>2, <2>3 DEF Run
<1>10. ASSUME NEW x \in Post, Accept(x) \/ Discard(x) \/ Done(x) PROVE TypeOK'
  <2>1. [x EXCEPT !.at = "server"] \in Post
    BY DEF Post
  <2> QED
    BY <1>10, <2>1 DEF Accept, Discard, Done, TypeOK
<1>11. CASE UNCHANGED vars
  BY <1>11 DEF vars, TypeOK
<1> QED
  BY <1>1, <1>2, <1>3, <1>4, <1>5, <1>6, <1>7, <1>8, <1>9, <1>10, <1>11 DEF Next

\* Agents, answers, runners, goroutines and posts are well typed (module Agent),
\* whatever is edited, lost or restarted.
THEOREM TypeCorrect == Spec => []TypeOK
  BY InitTyped, StepTyped, PTL DEF Spec

-----------------------------------------------------------------------------
(* One goroutine per runner                                                *)

\* What makes OneLoopPerRunner inductive, without counting: a live goroutine is in
\* the map with its version, no two of them are for one entry, and each entry has one.
Mapped == \A l \in loops : l.live => runner[l.agent][l.mon] = l.ver

Single ==
  \A l, k \in loops : l.live /\ k.live /\ l.agent = k.agent /\ l.mon = k.mon => l = k

Backed ==
  \A a \in Agents, m \in Monitors :
    runner[a][m] # None => \E l \in loops : l.live /\ l.agent = a /\ l.mon = m

RunnersInv == Mapped /\ Single /\ Backed

LEMMA InitRunners == Init => RunnersInv
  BY DEF Init, RunnersInv, Mapped, Single, Backed

\* A goroutine that moves on keeps its agent, monitor, version and life.
LEMMA MoveKeeps ==
  ASSUME TypeOK, RunnersInv, NEW l \in loops, NEW pc \in {"check", "post", "sleep"},
         Move(l, pc), UNCHANGED runner
  PROVE  RunnersInv'
<1> DEFINE n == [l EXCEPT !.pc = pc]
<1>1. l \in Loop /\ loops \subseteq Loop
  BY DEF TypeOK
<1>2. n.agent = l.agent /\ n.mon = l.mon /\ n.ver = l.ver /\ n.live = l.live
  BY <1>1 DEF Loop
<1>3. loops' = (loops \ {l}) \cup {n}
  BY DEF Move
<1> HIDE DEF n
<1>4. Mapped'
  BY <1>2, <1>3 DEF RunnersInv, Mapped
<1>5. Single'
  BY <1>2, <1>3 DEF RunnersInv, Single
<1>6. Backed'
  BY <1>2, <1>3 DEF RunnersInv, Backed
<1> QED
  BY <1>4, <1>5, <1>6 DEF RunnersInv

\* syncConfig stops the goroutines of changed and removed monitors, and of no
\* other, and starts one for each entry that has none left.
LEMMA ReconcileKeeps ==
  ASSUME TypeOK, RunnersInv, NEW a \in Agents, Reconcile(a)
  PROVE  RunnersInv'
<1> DEFINE Kept == {l \in loops : l.agent # a}
<1>1. /\ loops \subseteq Loop
      /\ runner \in [Agents -> Answers]
      /\ answer[a] \in Answers
  BY DEF Reconcile, TypeOK
<1>2. loops' = Kept \cup Cancelled(a) \cup Started(a)
  BY DEF Reconcile
<1>3. /\ \A b \in Agents \ {a} : runner'[b] = runner[b]
      /\ \A m \in Unchanged(a) : runner'[a][m] = runner[a][m] /\ runner[a][m] # None
      /\ \A m \in Monitors \ Unchanged(a) : runner'[a][m] = answer[a][m]
  BY <1>1 DEF Reconcile, Unchanged
\* A live goroutine that a keeps is one from before, of an unchanged monitor.
<1>4. ASSUME NEW l \in Cancelled(a), l.live
      PROVE  l \in loops /\ l.agent = a /\ l.mon \in Unchanged(a)
  <2>1. PICK k \in loops : k.agent = a /\ l = [k EXCEPT !.live = k.live /\ k.mon \in Unchanged(a)]
    BY DEF Cancelled
  <2>2. k \in [agent : Agents, mon : Monitors, ver : Versions, pc : {"check", "post", "sleep"}, live : BOOLEAN]
    BY <1>1 DEF Loop
  <2>3. k.live /\ k.mon \in Unchanged(a)
    BY <1>4, <2>1, <2>2
  <2>4. l = k
    BY <2>1, <2>2, <2>3
  <2> QED
    BY <2>1, <2>3, <2>4
\* What it starts is for the changed and the new ones.
<1>5. ASSUME NEW l \in Started(a)
      PROVE  /\ l.agent = a /\ l.mon \in Monitors \ Unchanged(a) /\ l.ver = answer[a][l.mon]
             /\ \A k \in Started(a) : k.mon = l.mon => k = l
  <2>1. PICK m \in Monitors \ Unchanged(a) : l = Runner(a, m)
    BY StartedAre
  <2>2. ASSUME NEW k \in Started(a), k.mon = l.mon PROVE k = l
    <3>1. PICK n \in Monitors \ Unchanged(a) : k = Runner(a, n)
      BY StartedAre
    <3>2. n = m
      BY <2>1, <2>2, <3>1 DEF Runner
    <3> QED
      BY <2>1, <3>1, <3>2
  <2>3. l.agent = a /\ l.mon = m /\ l.ver = answer[a][m]
    BY <2>1 DEF Runner
  <2> QED
    BY <2>2, <2>3
<1>6. Mapped'
  <2> SUFFICES ASSUME NEW l \in loops', l.live PROVE runner'[l.agent][l.mon] = l.ver
    BY DEF Mapped
  <2>1. CASE l \in Kept
    BY <2>1, <1>1, <1>3 DEF RunnersInv, Mapped, Loop
  <2>2. CASE l \in Cancelled(a)
    BY <2>2, <1>3, <1>4 DEF RunnersInv, Mapped
  <2>3. CASE l \in Started(a)
    BY <2>3, <1>3, <1>5
  <2> QED
    BY <1>2, <2>1, <2>2, <2>3
<1>7. Single'
  <2> SUFFICES ASSUME NEW l \in loops', NEW k \in loops', l.live, k.live,
                      l.agent = k.agent, l.mon = k.mon
               PROVE  l = k
    BY DEF Single
  <2>1. CASE l.agent # a
    BY <2>1, <1>2, <1>4, <1>5 DEF RunnersInv, Single
  <2>2. CASE l.agent = a /\ l.mon \in Unchanged(a)
    BY <2>2, <1>2, <1>4, <1>5 DEF RunnersInv, Single
  <2>3. CASE l.agent = a /\ l.mon \notin Unchanged(a)
    BY <2>3, <1>2, <1>4, <1>5
  <2> QED
    BY <2>1, <2>2, <2>3
<1>8. Backed'
  <2> SUFFICES ASSUME NEW b \in Agents, NEW m \in Monitors, runner'[b][m] # None
               PROVE  \E l \in loops' : l.live /\ l.agent = b /\ l.mon = m
    BY DEF Backed
  <2>1. CASE b # a
    BY <2>1, <1>2, <1>3 DEF RunnersInv, Backed
  <2>2. CASE b = a /\ m \in Unchanged(a)
    <3>1. PICK l \in loops : l.live /\ l.agent = a /\ l.mon = m
      BY <2>2, <1>3 DEF RunnersInv, Backed
    <3>2. l \in [agent : Agents, mon : Monitors, ver : Versions, pc : {"check", "post", "sleep"}, live : BOOLEAN]
      BY <1>1 DEF Loop
    <3>3. [l EXCEPT !.live = l.live /\ l.mon \in Unchanged(a)] = l
      BY <2>2, <3>1, <3>2
    <3>4. l \in Cancelled(a)
      BY <3>1, <3>3 DEF Cancelled
    <3> QED
      BY <2>2, <3>1, <3>4, <1>2
  <2>3. CASE b = a /\ m \notin Unchanged(a)
    <3>1. Runner(a, m) \in Started(a)
      BY <2>3, <1>3, StartedAre
    <3> QED
      BY <2>3, <3>1, <1>2 DEF Runner
  <2> QED
    BY <2>1, <2>2, <2>3
<1> QED
  BY <1>6, <1>7, <1>8 DEF RunnersInv

LEMMA StepRunners == TypeOK /\ RunnersInv /\ [Next]_vars => RunnersInv'
<1> SUFFICES ASSUME TypeOK, RunnersInv, [Next]_vars PROVE RunnersInv'
  OBVIOUS
<1>1. CASE UNCHANGED <<loops, runner>>
  BY <1>1 DEF RunnersInv, Mapped, Single, Backed
<1>2. ASSUME NEW a \in Agents, Reconcile(a) PROVE RunnersInv'
  BY <1>2, ReconcileKeeps
<1>3. ASSUME NEW a \in Agents, RestartAgent(a) PROVE RunnersInv'
  <2>1. /\ \A b \in Agents \ {a} : runner'[b] = runner[b]
        /\ \A m \in Monitors : runner'[a][m] = None
        /\ loops' = {l \in loops : l.agent # a}
    BY <1>3 DEF RestartAgent, TypeOK
  <2>2. \A l \in loops : l.agent \in Agents
    BY DEF TypeOK, Loop
  <2> QED
    BY <2>1, <2>2 DEF RunnersInv, Mapped, Single, Backed
<1>4. ASSUME NEW l \in Loop, Run(l) PROVE RunnersInv'
  <2>1. CASE Report(l) \/ PostReturns(l) \/ Wake(l)
    BY <2>1, MoveKeeps DEF Report, PostReturns, Wake
  <2>2. CASE Abandon(l) \/ Stop(l)
    BY <2>2 DEF Abandon, Stop, End, RunnersInv, Mapped, Single, Backed
  <2> QED
    BY <1>4, <2>1, <2>2 DEF Run
<1>5. ASSUME NEW a \in Agents, DeleteAgent(a) \/ FetchConfig(a) \/ RefuseConfig(a) \/ LoseAnswer(a)
      PROVE  UNCHANGED <<loops, runner>>
  BY <1>5 DEF DeleteAgent, FetchConfig, RefuseConfig, LoseAnswer, vars
<1>6. ASSUME NEW m \in Monitors,
             DeleteMonitor(m) \/ \E d \in Definition : UpdateMonitor(m, d)
      PROVE  UNCHANGED <<loops, runner>>
  BY <1>6 DEF DeleteMonitor, UpdateMonitor
<1>7. ASSUME NEW x \in Post, Accept(x) \/ Discard(x) \/ Done(x)
      PROVE  UNCHANGED <<loops, runner>>
  BY <1>7 DEF Accept, Discard, Done
<1> QED
  BY <1>1, <1>2, <1>3, <1>4, <1>5, <1>6, <1>7 DEF Next, vars

LEMMA RunnersCount == TypeOK /\ RunnersInv => OneLoopPerRunner
<1> SUFFICES ASSUME TypeOK, RunnersInv, NEW a \in Agents, NEW m \in Monitors
             PROVE  /\ \A l \in LiveLoops(a, m) : l.ver = runner[a][m]
                    /\ Cardinality(LiveLoops(a, m)) = IF runner[a][m] = None THEN 0 ELSE 1
  BY DEF OneLoopPerRunner
<1>1. \A l \in LiveLoops(a, m) : l.ver = runner[a][m]
  BY DEF LiveLoops, RunnersInv, Mapped
<1>2. CASE runner[a][m] = None
  <2>1. \A l \in loops : l.ver # None
    BY NoneAssumption DEF TypeOK, Loop
  <2>2. LiveLoops(a, m) = {}
    BY <1>1, <1>2, <2>1 DEF LiveLoops
  <2> QED
    BY <1>1, <1>2, <2>2, FS_EmptySet
<1>3. CASE runner[a][m] # None
  <2>1. PICK l \in loops : l.live /\ l.agent = a /\ l.mon = m
    BY <1>3 DEF RunnersInv, Backed
  <2>2. LiveLoops(a, m) = {l}
    BY <2>1 DEF LiveLoops, RunnersInv, Single
  <2> QED
    BY <1>1, <1>3, <2>2, FS_Singleton
<1> QED
  BY <1>2, <1>3

\* An agent runs exactly the goroutines of its runners map (agent.go:94-130), for
\* any number of agents and monitors, and whatever answers it was given.
THEOREM RunnersAreRun == Spec => []OneLoopPerRunner
<1>1. TypeOK /\ RunnersInv => OneLoopPerRunner
  BY RunnersCount
<1>2. TypeOK /\ RunnersInv /\ [Next]_vars => RunnersInv'
  BY StepRunners
<1> QED
  BY <1>1, <1>2, TypeCorrect, InitRunners, PTL DEF Spec
=============================================================================
