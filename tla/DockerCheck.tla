----------------------------- MODULE DockerCheck -----------------------------
(***************************************************************************)
(* The docker check of an agent while the thing it looks at changes.       *)
(*                                                                         *)
(* A container is judged from one answer of the docker API.  A swarm       *)
(* service takes two: the service's spec, then its tasks.  The service may *)
(* be scaled, and its tasks may start and fail, between the two.           *)
(***************************************************************************)
EXTENDS Naturals

CONSTANT MaxReplicas  \* largest number of replicas

VARIABLES
  type,     \* the monitor's target_type
  target,   \* the container or service, as the docker API would report it
  pc,       \* "idle", "spec" read and tasks not yet, or "done"
  desired,  \* replicas according to the spec that was read; Global in global mode
  verdict   \* the last result: "up" or "down"

vars == <<type, target, pc, desired, verdict>>

Global   == MaxReplicas + 1
Missing  == [kind |-> "missing"]
Health   == {"none", "healthy", "starting", "unhealthy"}
Container == [kind : {"container"}, running : BOOLEAN, health : Health]
\* Only tasks meant to run are counted: never more than there are replicas.
Service  == {s \in [kind : {"service"}, replicas : 0..Global, running : 0..MaxReplicas] :
               s.running <= s.replicas}

\* What the monitor is meant to tell: README:17, "Container running/healthy, or
\* Swarm service task count vs. desired replicas".
Healthy(t) ==
  \/ t.kind = "container" /\ t.running /\ t.health \in {"none", "healthy"}
  \/ t.kind = "service" /\ t.replicas = Global /\ t.running > 0
  \/ t.kind = "service" /\ t.replicas \in 1..t.running

Targets == IF type = "container" THEN Container ELSE Service

Init ==
  /\ type \in {"container", "service"}
  /\ target \in {Missing} \cup Targets
  /\ pc = "idle" /\ desired = 0 /\ verdict = "down"

-----------------------------------------------------------------------------
(* The world: docker as the check sees it                                  *)

Becomes(t) ==
  /\ target' = t
  /\ UNCHANGED <<type, pc, desired, verdict>>

ContainerChanges ==
  /\ target.kind = "container"
  /\ \E t \in Container \ {target} : Becomes(t)

\* Surplus tasks leave the desired state "running" with the scaling itself.
Scale(n) ==
  /\ target.kind = "service" /\ target.replicas \notin {n, Global}
  /\ Becomes([target EXCEPT !.replicas = n,
                            !.running = IF target.running > n THEN n ELSE target.running])

TaskStarts ==
  /\ target.kind = "service"
  /\ target.running < target.replicas /\ target.running < MaxReplicas
  /\ Becomes([target EXCEPT !.running = target.running + 1])

TaskFails ==
  /\ target.kind = "service" /\ target.running > 0
  /\ Becomes([target EXCEPT !.running = target.running - 1])

Removed == target # Missing /\ Becomes(Missing)

\* Something is started under the monitored name, perhaps again.
Named == target = Missing /\ \E t \in Targets : Becomes(t)

-----------------------------------------------------------------------------
(* The check                                                               *)

Conclude(up) == pc' = "done" /\ verdict' = (IF up THEN "up" ELSE "down")

\* Mutant: a container whose health check is still starting counts as up.
Bug_CheckContainer ==
  /\ pc # "spec" /\ type = "container"
  /\ Conclude(target # Missing /\ target.running /\ target.health # "unhealthy")
  /\ UNCHANGED <<type, target, desired>>

\* checkContainer: running, and healthy if it has a health check at all.
CheckContainer ==
  /\ pc # "spec" /\ type = "container"
  /\ Conclude(target # Missing /\ target.running /\ target.health \in {"none", "healthy"})
  /\ UNCHANGED <<type, target, desired>>

\* Mutant: one replica more than the spec says.
Bug_ReadSpec ==
  /\ pc # "spec" /\ type = "service"
  /\ IF target = Missing
     THEN Conclude(FALSE) /\ UNCHANGED desired
     ELSE /\ pc' = "spec" /\ desired' = target.replicas + 1
          /\ UNCHANGED verdict
  /\ UNCHANGED <<type, target>>

\* checkService, the first request; 404 ends the check.
ReadSpec ==
  /\ pc # "spec" /\ type = "service"
  /\ IF target = Missing
     THEN Conclude(FALSE) /\ UNCHANGED desired
     ELSE /\ pc' = "spec" /\ desired' = target.replicas
          /\ UNCHANGED verdict
  /\ UNCHANGED <<type, target>>

\* A service removed meanwhile has no tasks left.
Running == IF target = Missing THEN 0 ELSE target.running

\* Mutant: any running task will do.
Bug_Enough(n) == n > 0

\* checkService's conclusion from "desired" and the number of running tasks: a
\* service scaled to 0 is down, a global one needs one task.
Enough(n) == IF desired = Global THEN n > 0 ELSE desired > 0 /\ n >= desired

\* checkService, the second request.
ReadTasks ==
  /\ pc = "spec"
  /\ Conclude(Enough(Running))
  /\ UNCHANGED <<type, target, desired>>

\* The API, or the check's context, gives up: down, whatever the target is.
ApiFails ==
  /\ pc' = "idle" /\ verdict' = "down"
  /\ UNCHANGED <<type, target, desired>>

Next ==
  \/ ContainerChanges \/ TaskStarts \/ TaskFails \/ Removed \/ Named
  \/ \E n \in 0..MaxReplicas : Scale(n)
  \/ CheckContainer \/ ReadSpec \/ ReadTasks \/ ApiFails

Spec == Init /\ [][Next]_vars

-----------------------------------------------------------------------------
(* Properties                                                              *)

TypeOK ==
  /\ type \in {"container", "service"}
  /\ target \in {Missing} \cup Container \cup Service
  /\ pc \in {"idle", "spec", "done"}
  /\ desired \in 0..Global
  /\ verdict \in {"up", "down"}

\* The service still is what it was when its spec was read.
NotScaled == pc = "spec" /\ target.kind = "service" => target.replicas = desired

\* README:17: whatever tasks start and fail, and whatever is removed, between the
\* two requests, the verdict is that of the target at the last one, unless the
\* service was scaled in between.  (A check the docker API does not answer says
\* "down" of the target all the same: ApiFails.)
VerdictHeld ==
  [][(CheckContainer \/ ReadSpec \/ ReadTasks) /\ pc' = "done" /\ NotScaled
       => (verdict' = "up") = Healthy(target)]_vars
=============================================================================
