---------------------------- MODULE MCMaintenance ----------------------------
(* Small instances of Maintenance for TLC. *)
EXTENDS Maintenance, TLC

\* An early and a late schedule that overlap for one moment.
MCSpans == {[start |-> 0, end |-> 1], [start |-> 1, end |-> 2]}

\* A schedule that is over before the other begins.
ApartSpans == {[start |-> 0, end |-> 1], [start |-> 2, end |-> 3]}

\* No property distinguishes one monitor, admin request or window from another.
AdminSymmetry == Permutations(Admins) \cup Permutations(Monitors)
=============================================================================
