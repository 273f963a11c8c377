-------------------------- MODULE MaintenanceProofs --------------------------
(***************************************************************************)
(* Theorems about Maintenance, for any number of windows, monitors and     *)
(* overlapping requests, with refused and failing saves, restarts and      *)
(* deletions.                                                              *)
(***************************************************************************)
EXTENDS Maintenance, TLAPS

\* The state has the types of its columns in every reachable state.
THEOREM TypeCorrect == Spec => []TypeOK
<1> USE SpansAssumption, BoundsAssumption, NoneAssumption
<1>1. Init => TypeOK
  BY DEF Init, TypeOK
<1>2. TypeOK /\ [Next]_vars => TypeOK'
  <2> SUFFICES ASSUME TypeOK, [Next]_vars PROVE TypeOK'
    OBVIOUS
  <2> USE DEF TypeOK
  <2>1. ASSUME NEW a \in Admins, NEW w \in Windows, NEW v \in Version,
               CreateRow(a, w, v) \/ UpdateRow(a, w, v)
        PROVE  TypeOK'
    <3>1. v.span \in Spans /\ v.mons \in SUBSET Monitors
      BY DEF Version
    <3>2. [win |-> w, mons |-> v.mons] \in Request
      BY <3>1 DEF Request
    <3>3. QED
      BY <2>1, <3>1, <3>2 DEF CreateRow, UpdateRow, WriteRow
  <2>2. ASSUME NEW a \in Admins, SetLinks(a) \/ SetLinksRefused(a) \/ SetLinksFails(a)
        PROVE  TypeOK'
    <3>1. req[a] \in Request
      BY <2>2 DEF SetLinks, SetLinksRefused, SetLinksFails
    <3>2. QED
      BY <2>2, <3>1 DEF SetLinks, SetLinksRefused, SetLinksFails, Answer, Fault, Request
  <2>3. ASSUME NEW w \in Windows, DeleteWindow(w) PROVE TypeOK'
    BY <2>3 DEF DeleteWindow
  <2>4. ASSUME NEW m \in Monitors, DeleteMonitor(m) PROVE TypeOK'
    BY <2>4 DEF DeleteMonitor
  <2>5. CASE Tick
    BY <2>5 DEF Tick
  <2>6. CASE Restart
    BY <2>6 DEF Restart, Fault
  <2>7. CASE UNCHANGED vars
    BY <2>7 DEF vars
  <2>8. QED
    BY <2>1, <2>2, <2>3, <2>4, <2>5, <2>6, <2>7 DEF Next
<1>3. QED
  BY <1>1, <1>2, PTL DEF Spec

-----------------------------------------------------------------------------
(* Stored schedules and lists are those of versions                        *)

\* A save's first step adds the version it stores the schedule of.
LEMMA VersionWrite ==
  ASSUME TypeOK, VersionInv,
         NEW a \in Admins, NEW w \in Windows, NEW v \in Version,
         CreateRow(a, w, v) \/ UpdateRow(a, w, v)
  PROVE  VersionInv'
<1> USE NoneAssumption DEF TypeOK
<1>1. v.span \in Spans /\ v.span # None
  BY DEF Version
<1>2. /\ WriteRow(a, w, v) /\ UNCHANGED <<alive, links, whole>>
      /\ fresh' = fresh \/ fresh' = fresh \ {w}
      /\ w \in fresh \/ span[w] # None
      /\ w \in fresh => fresh' = fresh \ {w}
  BY DEF CreateRow, UpdateRow, VersionInv
<1>3. /\ span'[w] = v.span /\ v \in asked'[w]
      /\ \A x \in Windows : asked[x] \subseteq asked'[x] /\ (x # w => span'[x] = span[x])
  BY <1>2 DEF WriteRow
<1>4. \A x \in Windows : /\ x \in fresh' => span'[x] = None
                         /\ span'[x] = None => x \notin whole'
                         /\ span'[x] # None => \E u \in asked'[x] : u.span = span'[x]
  <2> SUFFICES ASSUME NEW x \in Windows
               PROVE  /\ x \in fresh' => span'[x] = None
                      /\ span'[x] = None => x \notin whole'
                      /\ span'[x] # None => \E u \in asked'[x] : u.span = span'[x]
    OBVIOUS
  <2>1. CASE x = w
    BY <1>1, <1>2, <1>3, <2>1 DEF VersionInv
  <2>2. CASE x # w
    BY <1>2, <1>3, <2>2 DEF VersionInv
  <2>3. QED
    BY <2>1, <2>2
<1>5. \A x \in whole' : \E u \in asked'[x] : links'[x] = u.mons \cap alive'
  BY <1>2, <1>3 DEF VersionInv
<1>6. ASSUME NEW b \in Admins, req'[b] # None
      PROVE  /\ req'[b].win \notin fresh'
             /\ span'[req'[b].win] # None =>
                  \E u \in asked'[req'[b].win] : u.mons = req'[b].mons
  <2>1. CASE b = a
    <3>1. req'[b].win = w /\ req'[b].mons = v.mons
      BY <1>2, <2>1 DEF WriteRow
    <3>2. w \notin fresh'
      BY <1>1, <1>2, <1>3, <1>4
    <3>3. QED
      BY <1>3, <3>1, <3>2
  <2>2. CASE b # a
    <3>1. req'[b] = req[b] /\ req[b] \in Request
      BY <1>2, <1>6, <2>2 DEF WriteRow
    <3>2. req[b].win \in Windows /\ req[b].win \notin fresh /\ req[b].win \notin fresh'
      BY <1>2, <1>6, <3>1 DEF VersionInv, Request
    <3>3. ASSUME span'[req[b].win] # None
          PROVE  \E u \in asked'[req[b].win] : u.mons = req[b].mons
      <4>1. span[req[b].win] # None
        BY <1>2, <1>3, <3>2, <3>3
      <4>2. QED
        BY <1>3, <1>6, <3>1, <3>2, <4>1 DEF VersionInv
    <3>4. QED
      BY <3>1, <3>2, <3>3
  <2>3. QED
    BY <2>1, <2>2
<1>7. QED
  BY <1>4, <1>5, <1>6 DEF VersionInv

\* A save's second step stores a version's list, or nothing.
LEMMA VersionAnswer ==
  ASSUME TypeOK, VersionInv,
         NEW a \in Admins, SetLinks(a) \/ SetLinksRefused(a) \/ SetLinksFails(a)
  PROVE  VersionInv'
<1> USE NoneAssumption DEF TypeOK
<1>1. /\ req[a] # None /\ req[a] \in Request
      /\ Answer(a) /\ UNCHANGED <<alive, fresh, span, asked>>
  BY DEF SetLinks, SetLinksRefused, SetLinksFails
<1>2. \A b \in Admins : req'[b] # None => req'[b] = req[b]
  BY <1>1 DEF Answer
<1>3. CASE SetLinks(a)
  <2>1. /\ req[a].win \in Windows /\ span[req[a].win] # None
        /\ req[a].mons \subseteq alive
        /\ links' = [links EXCEPT ![req[a].win] = req[a].mons]
        /\ whole' = whole \cup {req[a].win}
    BY <1>1, <1>3 DEF SetLinks, Acceptable, Request
  <2>2. \E u \in asked[req[a].win] : links'[req[a].win] = u.mons \cap alive
    BY <1>1, <2>1 DEF VersionInv
  <2>3. \A x \in whole : x # req[a].win => links'[x] = links[x]
    BY <2>1
  <2>4. \A x \in whole' : \E u \in asked[x] : links'[x] = u.mons \cap alive
    BY <2>1, <2>2, <2>3 DEF VersionInv
  <2>5. QED
    BY <1>1, <1>2, <2>1, <2>4 DEF VersionInv
<1>4. CASE UNCHANGED <<links, whole>>
  BY <1>1, <1>2, <1>4 DEF VersionInv
<1>5. QED
  BY <1>3, <1>4 DEF SetLinksRefused, SetLinksFails

\* The inductive step of VersionInv.
LEMMA VersionStep == TypeOK /\ VersionInv /\ [Next]_vars => VersionInv'
<1> SUFFICES ASSUME TypeOK, VersionInv, [Next]_vars PROVE VersionInv'
  OBVIOUS
<1> USE NoneAssumption DEF TypeOK
<1>1. ASSUME NEW w \in Windows, DeleteWindow(w) PROVE VersionInv'
  <2>1. /\ UNCHANGED <<alive, fresh, req>> /\ whole' = whole \ {w} /\ span'[w] = None
        /\ \A x \in Windows : x # w => /\ span'[x] = span[x] /\ links'[x] = links[x]
                                       /\ asked'[x] = asked[x]
    BY <1>1 DEF DeleteWindow
  <2>2. \A x \in Windows : /\ x \in fresh' => span'[x] = None
                           /\ span'[x] = None => x \notin whole'
                           /\ span'[x] # None => \E u \in asked'[x] : u.span = span'[x]
    BY <2>1 DEF VersionInv
  <2>3. \A x \in whole' : \E u \in asked'[x] : links'[x] = u.mons \cap alive'
    BY <2>1 DEF VersionInv
  <2>4. \A b \in Admins : req[b] # None => req[b].win \in Windows
    BY DEF Request
  <2>5. QED
    BY <2>1, <2>2, <2>3, <2>4 DEF VersionInv
<1>2. ASSUME NEW m \in Monitors, DeleteMonitor(m) PROVE VersionInv'
  <2>1. /\ UNCHANGED <<fresh, span, req, asked, whole>> /\ alive' = alive \ {m}
        /\ \A x \in Windows : links'[x] = links[x] \ {m}
    BY <1>2 DEF DeleteMonitor
  <2>2. ASSUME NEW x \in whole PROVE \E u \in asked[x] : links'[x] = u.mons \cap alive'
    BY <2>1 DEF VersionInv
  <2>3. QED
    BY <2>1, <2>2 DEF VersionInv
<1>3. CASE Tick \/ UNCHANGED vars
  BY <1>3 DEF Tick, vars, VersionInv
<1>4. CASE Restart
  BY <1>4 DEF Restart, VersionInv
<1>5. QED
  BY <1>1, <1>2, <1>3, <1>4, VersionWrite, VersionAnswer DEF Next

\* What is stored of a window comes from versions that admins asked for (db.go:816-856):
\* its schedule from one of them, and its list, once it is whole, from one of them too,
\* less the monitors deleted since; not necessarily from the same one.
THEOREM VersionInvariant == Spec => []VersionInv
<1>1. Init => VersionInv
  BY DEF Init, VersionInv
<1>2. QED
  BY <1>1, VersionStep, TypeCorrect, PTL DEF Spec

\* A monitor that every version of a window picks, inside every version's
\* schedule, stays in maintenance while the window is edited, whatever the
\* requests do to each other and whichever fail (db.go:816-856).
THEOREM EditingOpensNoGap == Spec => []NoGap
<1>1. TypeOK /\ VersionInv => NoGap
  BY DEF TypeOK, VersionInv, NoGap, Covered
<1>2. QED
  BY <1>1, VersionInvariant, TypeCorrect, PTL
=============================================================================
