------------------------------ MODULE MCEngine ------------------------------
(* Small instances of Engine for TLC. *)
EXTENDS Engine, TLC

\* No property distinguishes one handler from another.
HandlerSymmetry == Permutations(Handlers)

\* History decides nothing the engine does, windows and alerts on their way nothing
\* about statuses, and of the newest heartbeat only its age matters, and whether there
\* is one: for properties that do not mention some of these, states that differ in them
\* alone are the same.  Of an alert, AlertJustified mentions the monitor.
Heard          == {m \in Live : row[m].heard # None}
Unheard        == [m \in Monitors |-> IF Exists(m) THEN [row[m] EXCEPT !.heard = None] ELSE None]
Alerted        == {al.mon : al \in outbox}
WithoutCrossed == <<fresh, Heard, Unheard, agents, covered, job, todo, Alerted, faults, seen>>
WithoutAlerts  == <<fresh, row, agents, job, todo, faults, crossed, settled>>

MCIntervals == {1}
NoLag  == {0}
SkewedLags == {-1, 3}
=============================================================================
