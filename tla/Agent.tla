-------------------------------- MODULE Agent --------------------------------
(***************************************************************************)
(* The agents: every agent polls the server for its monitor list,          *)
(* reconciles its runners with it, and each runner checks its monitor and  *)
(* posts one result at a time.  The server's side is here only as far as   *)
(* the agents see it: the monitor table as the admin edits it, the config  *)
(* answer, and the acceptance and processing of posted results.            *)
(*                                                                         *)
(* The question is which runners are alive and whose results reach the     *)
(* server while definitions change, answers are stale or lost, requests    *)
(* time out and agents restart.                                            *)
(***************************************************************************)
EXTENDS Integers, FiniteSets

CONSTANTS
  Agents,       \* agent processes, one per registered agent
  Monitors,     \* monitor ids
  Versions,     \* what sameDef compares: type, interval and config together
  None,         \* "no row", "no runner", "no answer"
  MaxEdits,     \* how many edits the admin makes
  MaxRestarts   \* how many times an agent process restarts

Definition == [owner : Agents, enabled : BOOLEAN, ver : Versions]

ASSUME NoneAssumption   == None \notin Versions \cup Definition
ASSUME BoundsAssumption == MaxEdits \in Nat /\ MaxRestarts \in Nat

VARIABLES
  known,     \* agents the server still has a row (and token) for
  def,       \* the monitors table: a definition, or None
  answer,    \* answer[a]: the config answer a is waiting for or about to apply
  runner,    \* runner[a][m]: the version in a's runners map, or None
  loops,     \* running runMonitor goroutines
  posts,     \* results on the wire or being processed by the server
  edits,     \* admin edits so far
  restarts   \* agent restarts so far

vars == <<known, def, answer, runner, loops, posts, edits, restarts>>

\* A goroutine of runMonitor: running its check, waiting for its post, asleep
\* until the next interval; "live" until its context is cancelled.  Cancelled
\* goroutines of one agent, monitor and version in one stage count as one.
Loop == [agent : Agents, mon : Monitors, ver : Versions,
         pc : {"check", "post", "sleep"}, live : BOOLEAN]

Post == [agent : Agents, mon : Monitors, ver : Versions, at : {"wire", "server"}]

Answers == [Monitors -> Versions \cup {None}]

-----------------------------------------------------------------------------
(* The admin                                                               *)

Init ==
  /\ known = Agents
  /\ def \in [Monitors -> Definition \cup {None}]
  /\ answer = [a \in Agents |-> None]
  /\ runner = [a \in Agents |-> [m \in Monitors |-> None]]
  /\ loops = {}
  /\ posts = {}
  /\ edits = 0
  /\ restarts = 0

Edited == edits < MaxEdits /\ edits' = edits + 1

\* Pause, resume, reassign, or change what sameDef compares.
UpdateMonitor(m, d) ==
  /\ Edited
  /\ def[m] # None /\ d # def[m]
  /\ d.owner \in known
  /\ def' = [def EXCEPT ![m] = d]
  /\ UNCHANGED <<known, answer, runner, loops, posts, restarts>>

DeleteMonitor(m) ==
  /\ Edited
  /\ def[m] # None
  /\ def' = [def EXCEPT ![m] = None]
  /\ UNCHANGED <<known, answer, runner, loops, posts, restarts>>

\* The agent's monitors go with it; its process does not notice.
DeleteAgent(a) ==
  /\ Edited
  /\ a \in known
  /\ known' = known \ {a}
  /\ def' = [m \in Monitors |->
               IF def[m] # None /\ def[m].owner = a THEN None ELSE def[m]]
  /\ UNCHANGED <<answer, runner, loops, posts, restarts>>

-----------------------------------------------------------------------------
(* Config polling                                                          *)

Bug_ConfigFor(a) ==
  [m \in Monitors |-> IF def[m] # None /\ def[m].owner = a THEN def[m].ver ELSE None]

\* ListMonitorsForAgent: the agent's own monitors that are not paused.
ConfigFor(a) ==
  [m \in Monitors |-> IF def[m] # None /\ def[m].owner = a /\ def[m].enabled
                      THEN def[m].ver ELSE None]

\* The server answers GET /api/agent/config.
FetchConfig(a) ==
  /\ answer[a] = None
  /\ a \in known
  /\ answer' = [answer EXCEPT ![a] = ConfigFor(a)]
  /\ UNCHANGED <<known, def, runner, loops, posts, edits, restarts>>

\* A deleted agent gets 401 and, like one whose request fails, leaves its runners
\* as they are.
RefuseConfig(a) == answer[a] = None /\ a \notin known /\ UNCHANGED vars

LoseAnswer(a) ==
  /\ answer[a] # None
  /\ answer' = [answer EXCEPT ![a] = None]
  /\ UNCHANGED <<known, def, runner, loops, posts, edits, restarts>>

\* Mutant: only the monitor's id is compared, not its definition.
Bug_Unchanged(a) ==
  {m \in Monitors : runner[a][m] # None /\ answer[a][m] # None}

\* sameDef
Unchanged(a) == {m \in Monitors : runner[a][m] # None /\ answer[a][m] = runner[a][m]}

\* Mutant: the old runner is forgotten but not cancelled.
Bug_Cancelled(a) == {l \in loops : l.agent = a}

\* The loops of a after the runners of removed and changed monitors were stopped.
Cancelled(a) ==
  {[l EXCEPT !.live = l.live /\ l.mon \in Unchanged(a)] : l \in {k \in loops : k.agent = a}}

\* Mutant: a runner is started for every monitor it has ever heard of.
Bug_Started(a) ==
  {[agent |-> a, mon |-> m, ver |-> answer[a][m], pc |-> "check", live |-> TRUE] :
     m \in Monitors \ Unchanged(a)}

\* A goroutine for every wanted monitor that has no runner (any more).
Started(a) ==
  {[agent |-> a, mon |-> m, ver |-> answer[a][m], pc |-> "check", live |-> TRUE] :
     m \in {n \in Monitors \ Unchanged(a) : answer[a][n] # None}}

\* syncConfig, after the answer has arrived: one critical section.
Reconcile(a) ==
  /\ answer[a] # None
  /\ loops' = {l \in loops : l.agent # a} \cup Cancelled(a) \cup Started(a)
  /\ runner' = [runner EXCEPT ![a] =
                  [m \in Monitors |-> IF m \in Unchanged(a) THEN runner[a][m] ELSE answer[a][m]]]
  /\ answer' = [answer EXCEPT ![a] = None]
  /\ UNCHANGED <<known, def, posts, edits, restarts>>

-----------------------------------------------------------------------------
(* Runners                                                                 *)

Move(l, pc) == loops' = (loops \ {l}) \cup {[l EXCEPT !.pc = pc]}
End(l)      == loops' = loops \ {l}

PostOf(l, at) == [agent |-> l.agent, mon |-> l.mon, ver |-> l.ver, at |-> at]

\* The check is over (or timed out: then the result is "down"), and its result
\* is posted.
Report(l) ==
  /\ l \in loops /\ l.pc = "check" /\ l.live
  /\ posts' = posts \cup {PostOf(l, "wire")}
  /\ Move(l, "post")
  /\ UNCHANGED <<known, def, answer, runner, edits, restarts>>

\* A check whose context was cancelled reports nothing: the post's context is
\* cancelled with it.
Abandon(l) ==
  /\ l \in loops /\ l.pc = "check" /\ ~l.live
  /\ End(l)
  /\ UNCHANGED <<known, def, answer, runner, posts, edits, restarts>>

\* Mutant: the runner ends when its post times out.
Bug_PostReturnsEnds(l) ==
  /\ l \in loops /\ l.pc = "post" /\ l.live
  /\ IF \E at \in {"wire", "server"} : PostOf(l, at) \in posts
     THEN End(l) ELSE Move(l, "sleep")
  /\ UNCHANGED <<known, def, answer, runner, posts, edits, restarts>>

\* The post has been answered or lost, or has timed out while the server is still
\* to receive or to process it; a result that could not be delivered is not sent
\* again.
PostReturns(l) ==
  /\ l \in loops /\ l.pc = "post" /\ l.live
  /\ Move(l, "sleep")
  /\ UNCHANGED <<known, def, answer, runner, posts, edits, restarts>>

\* Cancelled while posting: the request may still be under way.
Stop(l) ==
  /\ l \in loops /\ l.pc \in {"post", "sleep"} /\ ~l.live
  /\ End(l)
  /\ UNCHANGED <<known, def, answer, runner, posts, edits, restarts>>

\* The interval is over; a goroutine cancelled at the same moment may start one
\* more check, and abandon it.
Wake(l) ==
  /\ l \in loops /\ l.pc = "sleep"
  /\ Move(l, "check")
  /\ UNCHANGED <<known, def, answer, runner, posts, edits, restarts>>

\* The agent process restarts; what it sent may still arrive.
RestartAgent(a) ==
  /\ restarts < MaxRestarts /\ restarts' = restarts + 1
  /\ answer' = [answer EXCEPT ![a] = None]
  /\ runner' = [runner EXCEPT ![a] = [m \in Monitors |-> None]]
  /\ loops' = {l \in loops : l.agent # a}
  /\ UNCHANGED <<known, def, posts, edits>>

-----------------------------------------------------------------------------
(* Results at the server                                                   *)

Owned(x) == /\ x.agent \in known
            /\ def[x.mon] # None /\ def[x.mon].owner = x.agent

\* handleAgentResults accepts the result and starts to process it.
Accept(x) ==
  /\ x \in posts /\ x.at = "wire"
  /\ Owned(x)
  /\ posts' = (posts \ {x}) \cup {[x EXCEPT !.at = "server"]}
  /\ UNCHANGED <<known, def, answer, runner, loops, edits, restarts>>

\* Refused (unknown agent, foreign or deleted monitor), or lost on the way.
Discard(x) ==
  /\ x \in posts /\ x.at = "wire"
  /\ posts' = posts \ {x}
  /\ UNCHANGED <<known, def, answer, runner, loops, edits, restarts>>

\* The handler has processed the result and answers.
Done(x) ==
  /\ x \in posts /\ x.at = "server"
  /\ posts' = posts \ {x}
  /\ UNCHANGED <<known, def, answer, runner, loops, edits, restarts>>

-----------------------------------------------------------------------------
(* Specification                                                           *)

Run(l) == Report(l) \/ Abandon(l) \/ PostReturns(l) \/ Stop(l) \/ Wake(l)

Next ==
  \/ \E m \in Monitors, d \in Definition : UpdateMonitor(m, d)
  \/ \E m \in Monitors : DeleteMonitor(m)
  \/ \E a \in Agents : \/ DeleteAgent(a) \/ FetchConfig(a) \/ RefuseConfig(a)
                       \/ LoseAnswer(a) \/ Reconcile(a) \/ RestartAgent(a)
  \/ \E l \in Loop : Run(l)
  \/ \E x \in Post : Accept(x) \/ Discard(x) \/ Done(x)

Spec == Init /\ [][Next]_vars

\* Agents keep polling and the network lets an answer, or a post, through again
\* and again; goroutines and handlers that can run, run.
Fairness ==
  /\ \A a \in Agents : WF_vars(FetchConfig(a)) /\ SF_vars(Reconcile(a))
  /\ \A l \in Loop : WF_vars(Run(l))
  /\ \A x \in Post : WF_vars(Discard(x) \/ Done(x))
  /\ \A x \in {y \in Post : y.at = "wire"} : SF_vars(Accept(x))

FairSpec == Spec /\ Fairness

-----------------------------------------------------------------------------
(* Properties                                                              *)

TypeOK ==
  /\ known \subseteq Agents
  /\ def \in [Monitors -> Definition \cup {None}]
  /\ answer \in [Agents -> Answers \cup {None}]
  /\ runner \in [Agents -> Answers]
  /\ loops \subseteq Loop
  /\ posts \subseteq Post
  /\ edits \in 0..MaxEdits
  /\ restarts \in 0..MaxRestarts

LiveLoops(a, m) == {l \in loops : l.agent = a /\ l.mon = m /\ l.live}

\* An agent runs exactly the goroutines its runners map promises: one live
\* goroutine per entry, of that version, and no live one that the map forgot,
\* however stale the answers it was reconciled with (agent.go:94-130).
OneLoopPerRunner ==
  \A a \in Agents, m \in Monitors :
    /\ \A l \in LiveLoops(a, m) : l.ver = runner[a][m]
    /\ Cardinality(LiveLoops(a, m)) = IF runner[a][m] = None THEN 0 ELSE 1

\* What should be running for m, and all that is still on its way, once the
\* agents have caught up with the table.  A deleted agent never catches up: it
\* keeps its runners, and the server refuses their results.
Wanted(a, m) == def[m] # None /\ def[m].owner = a /\ def[m].enabled
Settled ==
  /\ \A l \in loops : l.agent \in known =>
       l.live /\ Wanted(l.agent, l.mon) /\ l.ver = def[l.mon].ver
  /\ \A m \in Monitors : def[m] # None /\ def[m].enabled =>
       LiveLoops(def[m].owner, m) # {}
  /\ \A x \in posts : x.agent \in known =>
       Wanted(x.agent, x.mon) /\ x.ver = def[x.mon].ver

\* "new/edited monitors are picked up automatically" (README:98-99): after the
\* last edit and restart the running goroutines and the results under way
\* become, and stay, exactly those of the monitor table.
Converges == <>[]Settled

\* An enabled monitor is reported, and its result accepted, over and over.
KeepsReporting ==
  \A m \in Monitors :
    <>[](def[m] # None /\ def[m].enabled)
      => []<>(/\ def[m] # None
              /\ PostOf([agent |-> def[m].owner, mon |-> m, ver |-> def[m].ver], "server") \in posts)
=============================================================================
