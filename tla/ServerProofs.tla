---------------------------- MODULE ServerProofs ----------------------------
(***************************************************************************)
(* Proofs about the parts of the server that meet in the one database      *)
(* connection: the age of a live monitor's newest heartbeat (Silence), the *)
(* connection (ConnPool), sessions and API keys (Access), alerts and       *)
(* settings (Notifier), for any number of goroutines, admins, jobs,        *)
(* browsers and requests.                                                  *)
(***************************************************************************)
EXTENDS MCServer, SequenceTheorems, TLAPS

(***************************************************************************)
(* Silence, for every interval, grace and timeout                          *)
(***************************************************************************)

\* RestsInv is inductive: time adds to the age what it adds to work or rest, and a
\* second rest follows a stored heartbeat only if a result was lost.
LEMMA RestsInvariant == SilenceSpec => []RestsInv
<1> USE TimesAssumption
<1>1. SilenceInit => RestsInv
  BY DEF SilenceInit, RestsInv, SilenceTypeOK, Rests, Earlier, Longest
<1>2. ASSUME RestsInv, [SilenceNext]_silenceVars PROVE RestsInv'
  <2> USE <1>2 DEF RestsInv, SilenceTypeOK, Rests, Earlier, Longest
  <2>1. CASE Tick
    BY <2>1 DEF Tick
  <2>2. CASE PickedUp
    BY <2>2 DEF PickedUp, Enter
  <2>3. CASE Checked
    BY <2>3 DEF Checked, Enter
  <2>4. CASE Arrive
    BY <2>4 DEF Arrive
  <2>5. CASE Posted
    BY <2>5 DEF Posted, Enter
  <2>6. CASE Rested
    BY <2>6 DEF Rested, Enter
  <2>7. CASE UNCHANGED silenceVars
    BY <2>7 DEF silenceVars
  <2>8. QED
    BY <2>1, <2>2, <2>3, <2>4, <2>5, <2>6, <2>7 DEF SilenceNext
<1>3. QED
  BY <1>1, <1>2, PTL DEF SilenceSpec

\* Whatever the interval, the grace and the timeouts: an agent that loses no two
\* results of a monitor in a row has it taken for silent only by the time its checks,
\* posts and first pickup take (db.go:573-579, agent.go:136-150).
THEOREM OnlySlowIsStale == SilenceSpec => []StaleOnlyIfSlow
<1>1. RestsInv => StaleOnlyIfSlow
  BY TimesAssumption
     DEF RestsInv, SilenceTypeOK, Longest, Rests, Earlier, Limit, StaleOnlyIfSlow
<1>2. QED
  BY <1>1, RestsInvariant, PTL

(***************************************************************************)
(* ConnPool                                                                *)
(***************************************************************************)

Busy == {"asking", "inside", "away"}

\* The inductive invariant: a goroutine that is not idle has calls left, and the
\* connection is held by those inside a call, of which there is at most one, and
\* what is not committed was written by a transaction that is still open.
PoolInv ==
  /\ TypeOK
  /\ \A g \in Goroutines : at[g] \in Busy => todo[g] # <<>>
  /\ HeldOnlyInside
  /\ \A g, h \in held : g = h
  /\ \A g \in dirty : In(g, "tx")

\* Going on with some calls, or with none, leaves todo and at as they should be, and
\* g outside of every call.
LEMMA TurnKeeps ==
  ASSUME NEW g \in Goroutines, NEW calls \in Seq(Calls), Turn(g, calls),
         todo \in [Goroutines -> Seq(Calls)],
         at \in [Goroutines -> {"idle"} \cup Busy],
         \A h \in Goroutines : at[h] \in Busy => todo[h] # <<>>
  PROVE  /\ todo' \in [Goroutines -> Seq(Calls)]
         /\ at' \in [Goroutines -> {"idle"} \cup Busy]
         /\ \A h \in Goroutines : at'[h] \in Busy => todo'[h] # <<>>
         /\ at'[g] # "inside"
         /\ \A h \in Goroutines \ {g} : at'[h] = at[h] /\ todo'[h] = todo[h]
  BY DEF Turn, Start, Busy

\* Every program is a sequence of calls, and so is what is left of one.
LEMMA ProgramsAreCalls ==
  /\ \A p \in Programs : p \in Seq(Calls)
  /\ AlertMail \in Seq(Calls) /\ <<>> \in Seq(Calls)
  BY DEF Programs, GetPage, ListPages, CreatePage, UpdatePage, Result, Alert, AlertMail, Calls

\* What is left of a program that is not over is a sequence of calls.
LEMMA TailIsCalls ==
  ASSUME PoolInv, NEW g \in Goroutines, at[g] \in Busy
  PROVE  Tail(todo[g]) \in Seq(Calls)
  BY DEF PoolInv, TypeOK

\* The end of a call: the connection is given back, and nobody holds it.
LEMMA CallEnds ==
  ASSUME PoolInv, NEW g \in Goroutines, at[g] = "inside", Release(g),
         NEW calls \in Seq(Calls), Turn(g, calls), dirty' = dirty \ {g}
  PROVE  PoolInv'
<1>1. g \in held /\ \A h \in held : h = g
  BY DEF PoolInv, HeldOnlyInside
<1>2. held' = {} /\ dirty' = {}
  BY <1>1 DEF Release, PoolInv, TypeOK
<1>3. /\ todo' \in [Goroutines -> Seq(Calls)]
      /\ at' \in [Goroutines -> {"idle"} \cup Busy]
      /\ \A h \in Goroutines : at'[h] \in Busy => todo'[h] # <<>>
      /\ at'[g] # "inside"
      /\ \A h \in Goroutines \ {g} : at'[h] = at[h] /\ todo'[h] = todo[h]
  BY TurnKeeps DEF PoolInv, TypeOK, Busy
<1>4. \A h \in Goroutines : at'[h] # "inside"
  BY <1>1, <1>3 DEF PoolInv, HeldOnlyInside
<1>5. QED
  BY <1>2, <1>3, <1>4 DEF PoolInv, TypeOK, HeldOnlyInside, Busy

LEMMA InitPool == Init => PoolInv
  BY DEF Init, PoolInv, TypeOK, HeldOnlyInside, Busy, Calls

\* A program begins, or goes on, without the connection.
LEMMA OutsideTurn ==
  ASSUME PoolInv, NEW g \in Goroutines, at[g] # "inside",
         NEW calls \in Seq(Calls), Turn(g, calls), UNCHANGED <<held, dirty>>
  PROVE  PoolInv'
<1>1. /\ todo' \in [Goroutines -> Seq(Calls)]
      /\ at' \in [Goroutines -> {"idle"} \cup Busy]
      /\ \A h \in Goroutines : at'[h] \in Busy => todo'[h] # <<>>
      /\ at'[g] # "inside"
      /\ \A h \in Goroutines \ {g} : at'[h] = at[h] /\ todo'[h] = todo[h]
  BY TurnKeeps DEF PoolInv, TypeOK, Busy
<1>2. {h \in Goroutines : at'[h] = "inside"} = {h \in Goroutines : at[h] = "inside"}
  BY <1>1
<1>3. QED
  BY <1>1, <1>2 DEF PoolInv, TypeOK, HeldOnlyInside, Busy, In

\* One step of one goroutine.
LEMMA StepPool ==
  ASSUME PoolInv, NEW g \in Goroutines, Step(g)
  PROVE  PoolInv'
<1>1. CASE Begin(g)
  <2>1. PICK p \in Programs : Turn(g, p)
    BY <1>1 DEF Begin
  <2>2. QED
    BY <1>1, <2>1, ProgramsAreCalls, OutsideTurn DEF Begin
<1>2. CASE Grant(g)
  <2>1. held = {} /\ dirty = {}
    BY <1>2 DEF Grant, Free, PoolInv, TypeOK
  <2>2. at' = [at EXCEPT ![g] = "inside"] /\ held' = {g} /\ UNCHANGED <<todo, dirty>>
    BY <1>2, <2>1 DEF Grant
  <2>3. \A h \in Goroutines : at[h] # "inside"
    BY <2>1 DEF PoolInv, HeldOnlyInside
  <2>4. at[g] = "asking"
    BY <1>2 DEF Grant
  <2>5. TypeOK'
    BY <2>1, <2>2 DEF PoolInv, TypeOK
  <2>6. \A h \in Goroutines : at'[h] \in Busy => todo'[h] # <<>>
    BY <2>2, <2>4 DEF PoolInv, TypeOK, Busy
  <2>7. held' = {h \in Goroutines : at'[h] = "inside"}
    BY <2>2, <2>3 DEF PoolInv, TypeOK
  <2>8. QED
    BY <2>1, <2>2, <2>5, <2>6, <2>7 DEF PoolInv, HeldOnlyInside
<1>3. CASE Inside(g)
  <2>1. at[g] = "inside"
    BY <1>3 DEF Inside, Returns, RowsRead, RowsFail, TxExec, TxCommit, TxFails, In
  <2>2. Tail(todo[g]) \in Seq(Calls)
    BY <2>1, TailIsCalls DEF Busy
  <2>3. g \in held /\ \A h \in held : h = g
    BY <2>1 DEF PoolInv, HeldOnlyInside
  <2>4. dirty \subseteq {g}
    BY <2>3 DEF PoolInv, TypeOK
  <2>5. CASE TxExec(g)
    BY <2>3, <2>5 DEF TxExec, PoolInv, TypeOK, HeldOnlyInside, In
  <2>6. CASE Returns(g) \/ RowsRead(g) \/ RowsFail(g) \/ TxCommit(g) \/ TxFails(g)
    <3>1. Release(g)
      BY <2>6 DEF Returns, RowsRead, RowsFail, TxCommit, TxFails
    <3>2. \E calls \in Seq(Calls) : Turn(g, calls)
      BY <2>2, <2>6, ProgramsAreCalls
      DEF Returns, RowsRead, RowsFail, TxCommit, TxFails, GoOn, GiveUp
    <3>3. dirty' = dirty \ {g}
      <4>1. CASE TxCommit(g) \/ TxFails(g)
        BY <4>1 DEF TxCommit, TxFails
      <4>2. CASE Returns(g) \/ RowsRead(g) \/ RowsFail(g)
        <5>1. g \notin dirty
          BY <4>2 DEF Returns, RowsRead, RowsFail, PoolInv, In
        <5>2. QED
          BY <4>2, <5>1 DEF Returns, RowsRead, RowsFail
      <4>3. QED
        BY <2>6, <4>1, <4>2
    <3>4. QED
      BY <2>1, <3>1, <3>2, <3>3, CallEnds
  <2>7. QED
    BY <1>3, <2>5, <2>6 DEF Inside
<1>4. CASE NetReturns(g)
  <2>1. at[g] = "away" /\ Turn(g, Tail(todo[g])) /\ UNCHANGED <<held, dirty>>
    BY <1>4 DEF NetReturns, GoOn
  <2>2. Tail(todo[g]) \in Seq(Calls)
    BY <2>1, TailIsCalls DEF Busy
  <2>3. QED
    BY <2>1, <2>2, OutsideTurn
<1>5. QED
  BY <1>1, <1>2, <1>3, <1>4 DEF Step

LEMMA PoolInvariant == Spec => []PoolInv
<1>1. PoolInv /\ UNCHANGED vars => PoolInv'
  BY DEF PoolInv, TypeOK, HeldOnlyInside, In, vars
<1>2. PoolInv /\ [Next]_vars => PoolInv'
  BY <1>1, StepPool DEF Next
<1>3. QED
  BY InitPool, <1>2, PTL DEF Spec

\* No goroutine waits for the connection, or for the network, while it holds it
\* (db.go:33, 615-629, 688, 704).
THEOREM NobodyHoldsAndWaits == Spec => []HeldOnlyInside
  BY PoolInvariant, PTL DEF PoolInv

\* A list of monitors that is being replaced is seen by nobody else (db.go:620, 822).
THEOREM TransactionsAreAlone == Spec => []TransactionAlone
<1>1. PoolInv => TransactionAlone
  BY DEF PoolInv, TypeOK, HeldOnlyInside, TransactionAlone
<1>2. QED
  BY <1>1, PoolInvariant, PTL

(***************************************************************************)
(* Access                                                                  *)
(***************************************************************************)

\* As long as no stored secret was overlooked, there has been one secret only, and all
\* sessions are signed with it.
SessionInv ==
  /\ A!TypeOK
  /\ made <= starts
  /\ loaded \in {0, secret}
  /\ ~unread => \A b \in Browsers : cookie[b] # None => cookie[b].secret = secret

\* A request whose key has been there all along will find it.
KeyInv ==
  \A r \in Readers : request[r] # None /\ request[r].kept =>
    /\ request[r].at # "refused"
    /\ request[r].at = "received" => key[request[r].key] = "minted"

AccessInv == SessionInv /\ KeyInv

\* What leaves keys and requests alone, and what leaves secrets and sessions alone.
LEMMA KeysRest == KeyInv /\ UNCHANGED A!apiKeys => KeyInv'
  BY DEF KeyInv, A!apiKeys

LEMMA SessionsRest ==
  ASSUME SessionInv, UNCHANGED <<A!server, cookie>>, A!TypeOK'
  PROVE  SessionInv'
  BY DEF SessionInv, A!server

LEMMA StartKeeps ==
  ASSUME AccessInv, NEW list \in SUBSET Logins, A!StartUp(list) \/ A!StartUpUnread(list)
  PROVE  AccessInv'
<1> USE ServerAssumption DEF AccessInv, SessionInv, A!TypeOK
<1>1. /\ starts' = starts + 1 /\ starts < MaxStarts /\ admins' = list
      /\ UNCHANGED <<flow, cookie, key, request>>
  BY DEF A!StartUp, A!StartUpUnread, A!Start, A!signIn, A!apiKeys
<1>2. lookups' \in 0..MaxFaults
  BY DEF A!StartUp, A!StartUpUnread, A!Fault
<1>3. unread' \in BOOLEAN
  BY DEF A!StartUp, A!StartUpUnread
<1>4. CASE secret # 0 /\ loaded' = secret /\ UNCHANGED <<secret, made, unread>>
  BY <1>1, <1>2, <1>3, <1>4, KeysRest DEF A!apiKeys
<1>5. CASE /\ made' = made + 1 /\ secret' = made + 1 /\ loaded' = made + 1
           /\ unread' <=> (unread \/ secret # 0)
  <2>1. A!TypeOK' /\ made' <= starts' /\ loaded' \in {0, secret'}
    BY <1>1, <1>2, <1>3, <1>5
  <2>2. ASSUME ~unread', NEW b \in Browsers, cookie'[b] # None PROVE FALSE
    <3>1. ~unread /\ secret = 0 /\ cookie[b] # None
      BY <1>1, <1>5, <2>2
    <3>2. cookie[b].secret = 0 /\ cookie[b].secret \in 1..MaxStarts
      BY <3>1
    <3>3. QED
      BY <3>2
  <2>3. QED
    BY <1>1, <2>1, <2>2, KeysRest DEF A!apiKeys
<1>6. CASE A!StartUp(list)
  <2>1. UNCHANGED unread
    BY <1>6 DEF A!StartUp
  <2>2. CASE secret # 0
    BY <1>4, <1>6, <2>1, <2>2 DEF A!StartUp
  <2>3. CASE secret = 0
    BY <1>5, <1>6, <2>1, <2>3 DEF A!StartUp, A!NewSecret
  <2>4. QED
    BY <2>2, <2>3
<1>7. CASE A!StartUpUnread(list)
  <2>1. unread' <=> (unread \/ secret # 0)
    BY <1>7, Zenon DEF A!StartUpUnread
  <2>2. QED
    BY <1>5, <1>7, <2>1 DEF A!StartUpUnread, A!NewSecret
<1>8. QED
  BY <1>6, <1>7

LEMMA StopKeeps == AccessInv /\ A!Stop => AccessInv'
  BY ServerAssumption DEF AccessInv, SessionInv, KeyInv, A!TypeOK, A!Stop, A!signIn

LEMMA SessionsKeep ==
  ASSUME AccessInv, NEW b \in Browsers,
         A!Login(b) \/ A!Callback(b) \/ A!Logout(b) \/ \E l \in Logins : A!GitHubAnswers(b, l)
  PROVE  AccessInv'
<1> USE ServerAssumption DEF AccessInv, SessionInv, A!TypeOK, A!server
<1>1. UNCHANGED A!apiKeys
  BY DEF A!Login, A!Callback, A!Logout, A!GitHubAnswers
<1>2. CASE A!Login(b) \/ \E l \in Logins : A!GitHubAnswers(b, l)
  BY <1>1, <1>2, KeysRest DEF A!Login, A!GitHubAnswers, A!apiKeys
<1>3. CASE A!Callback(b)
  <2>1. loaded = secret /\ loaded \in 1..MaxStarts
    BY <1>3 DEF A!Callback, A!Running
  <2>2. CASE flow[b] \in admins
    BY <1>1, <1>3, <2>1, <2>2, KeysRest DEF A!Callback, A!apiKeys
  <2>3. CASE flow[b] \notin admins
    BY <1>1, <1>3, <2>3, KeysRest DEF A!Callback, A!apiKeys
  <2>4. QED
    BY <2>2, <2>3
<1>4. CASE A!Logout(b)
  BY <1>1, <1>4, KeysRest DEF A!Logout, A!apiKeys
<1>5. QED
  BY <1>2, <1>3, <1>4

LEMMA TickKeeps == AccessInv /\ A!Tick => AccessInv'
<1> SUFFICES ASSUME AccessInv, A!Tick PROVE AccessInv'
  OBVIOUS
<1> USE ServerAssumption DEF AccessInv, SessionInv, A!TypeOK, A!server
<1>1. ASSUME NEW b \in Browsers, cookie'[b] # None
      PROVE  /\ cookie[b] # None /\ cookie[b].left \in 1..TTL
             /\ cookie'[b] = [cookie[b] EXCEPT !.left = @ - 1]
  BY <1>1 DEF A!Tick
<1>2. ASSUME NEW b \in Browsers, cookie'[b] # None
      PROVE  /\ cookie'[b] \in [login : Logins, secret : 1..MaxStarts, left : 0..TTL]
             /\ cookie'[b].secret = cookie[b].secret
  <2>1. cookie[b] \in [login : Logins, secret : 1..MaxStarts, left : 0..TTL]
    BY <1>1, <1>2
  <2>2. cookie'[b] = [login |-> cookie[b].login, secret |-> cookie[b].secret, left |-> cookie[b].left - 1]
    BY <1>1, <1>2, <2>1
  <2>3. QED
    BY <1>1, <1>2, <2>1, <2>2
<1>3. cookie' \in [Browsers -> [login : Logins, secret : 1..MaxStarts, left : 0..TTL] \cup {None}]
  <2>1. DOMAIN cookie' = Browsers /\ cookie' = [b \in Browsers |-> cookie'[b]]
    BY DEF A!Tick
  <2>2. QED
    BY <1>2, <2>1
<1>4. UNCHANGED <<flow, key, request, lookups, secret, made, loaded, admins, starts, unread>>
  BY DEF A!Tick, A!apiKeys
<1>5. QED
  BY <1>1, <1>2, <1>3, <1>4, KeysRest DEF A!apiKeys

LEMMA KeysKeep ==
  ASSUME AccessInv, NEW k \in Keys, A!CreateKey(k) \/ A!DeleteKey(k)
  PROVE  AccessInv'
<1> USE DEF AccessInv, SessionInv, A!TypeOK
<1>1. UNCHANGED <<A!server, flow, cookie, lookups>>
  BY DEF A!CreateKey, A!DeleteKey, A!signIn
<1>2. CASE A!CreateKey(k)
  BY <1>1, <1>2, SessionsRest DEF A!CreateKey, KeyInv, A!server
<1>3. CASE A!DeleteKey(k)
  <2>1. key' = [key EXCEPT ![k] = "deleted"]
    BY <1>3 DEF A!DeleteKey
  <2>2. ASSUME NEW r \in Readers, request[r] # None
        PROVE  IF request[r].key = k THEN request'[r] = [request[r] EXCEPT !.kept = FALSE]
                                     ELSE request'[r] = request[r]
    BY <1>3, <2>2 DEF A!DeleteKey
  <2>3. ASSUME NEW r \in Readers, request[r] = None PROVE request'[r] = None
    BY <1>3, <2>3 DEF A!DeleteKey
  <2>4. ASSUME NEW r \in Readers, request[r] # None
        PROVE  /\ request'[r] \in [key : Keys, at : A!Stages, kept : BOOLEAN]
               /\ request'[r].kept => request'[r] = request[r] /\ request[r].key # k
    <3>1. request[r] \in [key : Keys, at : A!Stages, kept : BOOLEAN]
      BY <2>4
    <3>2. CASE request[r].key = k
      <4>1. request'[r] = [key |-> request[r].key, at |-> request[r].at, kept |-> FALSE]
        BY <2>2, <2>4, <3>1, <3>2
      <4>2. QED
        BY <3>1, <4>1
    <3>3. QED
      BY <2>2, <2>4, <3>1, <3>2
  <2>5. request' \in [Readers -> [key : Keys, at : A!Stages, kept : BOOLEAN] \cup {None}]
    <3>1. request' = [r \in Readers |-> request'[r]]
      BY <1>3 DEF A!DeleteKey
    <3>2. QED
      BY <2>3, <2>4, <3>1
  <2>6. KeyInv'
    BY <2>1, <2>3, <2>4 DEF KeyInv
  <2>7. A!TypeOK'
    BY <1>1, <2>1, <2>5 DEF A!server
  <2>8. QED
    BY <1>1, <2>6, <2>7, SessionsRest
<1>4. QED
  BY <1>2, <1>3

LEMMA RequestsKeep ==
  ASSUME AccessInv, NEW r \in Readers,
         \/ \E k \in Keys : A!Receive(r, k)
         \/ A!LookUp(r) \/ A!LookUpFails(r) \/ A!Touch(r) \/ A!TouchFails(r) \/ A!Forget(r)
  PROVE  AccessInv'
<1> USE ServerAssumption DEF AccessInv, SessionInv, A!TypeOK
<1>1. UNCHANGED <<A!server, flow, cookie, key>> /\ lookups' \in 0..MaxFaults
  BY DEF A!Receive, A!LookUp, A!LookUpFails, A!Touch, A!TouchFails, A!Forget, A!signIn, A!Fault
<1> DEFINE Request == [key : Keys, at : A!Stages, kept : BOOLEAN]
<1>2. ASSUME NEW q \in Request \cup {None}, request' = [request EXCEPT ![r] = q],
             q # None /\ q.kept => q.at # "refused" /\ (q.at = "received" => key[q.key] = "minted")
      PROVE  AccessInv'
  <2>1. A!TypeOK'
    BY <1>1, <1>2 DEF A!server
  <2>2. KeyInv'
    BY <1>1, <1>2 DEF KeyInv
  <2>3. QED
    BY <1>1, <2>1, <2>2, SessionsRest
<1>3. ASSUME NEW k \in Keys, A!Receive(r, k) PROVE AccessInv'
  <2>1. [key |-> k, at |-> "received", kept |-> key[k] = "minted"] \in Request
    BY DEF A!Stages
  <2>2. QED
    BY <1>2, <1>3, <2>1 DEF A!Receive
<1>4. ASSUME request[r] # None
      PROVE  request[r] \in Request
  BY <1>4
<1>5. ASSUME request[r] # None
      PROVE  /\ [request[r] EXCEPT !.at = "refused", !.kept = FALSE] \in Request
             /\ ~[request[r] EXCEPT !.at = "refused", !.kept = FALSE].kept
  <2>1. "refused" \in A!Stages /\ FALSE \in BOOLEAN
    BY DEF A!Stages
  <2>2. QED
    BY <1>4, <1>5, <2>1
<1>6. ASSUME request[r] # None, NEW s \in A!Stages
      PROVE  [request[r] EXCEPT !.at = s] = [key |-> request[r].key, at |-> s, kept |-> request[r].kept]
  BY <1>4, <1>6
<1>7. CASE A!LookUp(r)
  <2> DEFINE s == IF key[request[r].key] = "minted" THEN "found" ELSE "refused"
  <2>1. request[r] # None /\ request[r].at = "received" /\ s \in A!Stages
    BY <1>7 DEF A!LookUp, A!Stages
  <2>2. request' = [request EXCEPT ![r] = [request[r] EXCEPT !.at = s]]
    BY <1>7 DEF A!LookUp
  <2>3. request[r].kept => s = "found"
    BY <2>1 DEF KeyInv
  <2>4. QED
    BY <1>2, <1>4, <1>6, <2>1, <2>2, <2>3
<1>8. CASE A!LookUpFails(r)
  <2>1. request[r] # None /\ "refused" \in A!Stages
    BY <1>8 DEF A!LookUpFails, A!Stages
  <2>2. request' = [request EXCEPT ![r] = [request[r] EXCEPT !.at = "refused", !.kept = FALSE]]
    BY <1>4, <1>8, <2>1 DEF A!LookUpFails
  <2>3. QED
    BY <1>2, <1>4, <1>5, <2>1, <2>2
<1>9. CASE A!Touch(r) \/ A!TouchFails(r)
  <2>1. request[r] # None /\ "answered" \in A!Stages
    BY <1>9 DEF A!Touch, A!TouchFails, A!Stages
  <2>2. request' = [request EXCEPT ![r] = [request[r] EXCEPT !.at = "answered"]]
    BY <1>9 DEF A!Touch, A!TouchFails
  <2>3. QED
    BY <1>2, <1>4, <1>6, <2>1, <2>2
<1>10. CASE A!Forget(r)
  BY <1>2, <1>10 DEF A!Forget
<1>11. QED
  BY <1>3, <1>7, <1>8, <1>9, <1>10

LEMMA AccessInvariant == A!Spec => []AccessInv
<1>1. ASSUME A!Init PROVE AccessInv
  <2>1. A!TypeOK
    <3>1. 0 \in 0..MaxStarts /\ 0 \in 0..MaxFaults /\ 0 \in 0..0
      BY ServerAssumption
    <3>2. secret \in 0..made /\ made \in 0..MaxStarts /\ loaded \in 0..made /\ starts \in 0..MaxStarts
          /\ lookups \in 0..MaxFaults
      BY <1>1, <3>1 DEF A!Init
    <3>3. flow \in [Browsers -> Logins \cup {None, "redirected"}]
      BY <1>1 DEF A!Init
    <3>4. QED
      BY <1>1, <3>2, <3>3 DEF A!Init, A!TypeOK
  <2>2. (\A b \in Browsers : cookie[b] = None) /\ (\A r \in Readers : request[r] = None)
    BY <1>1 DEF A!Init
  <2>3. made <= starts /\ loaded \in {0, secret}
    BY <1>1 DEF A!Init
  <2>4. QED
    BY <2>1, <2>2, <2>3 DEF AccessInv, SessionInv, KeyInv
<1>2. AccessInv /\ UNCHANGED A!vars => AccessInv'
  <2>1. UNCHANGED A!vars => UNCHANGED <<A!server, A!signIn, flow, cookie, A!apiKeys, key, request, lookups>>
    BY DEF A!vars, A!signIn, A!apiKeys
  <2>2. A!TypeOK /\ UNCHANGED A!vars => A!TypeOK'
    BY <2>1 DEF A!server, A!TypeOK
  <2>3. QED
    BY <2>1, <2>2, KeysRest, SessionsRest DEF AccessInv, SessionInv
<1>3. AccessInv /\ [A!Next]_(A!vars) => AccessInv'
  BY <1>2, StartKeeps, StopKeeps, SessionsKeep, TickKeeps, KeysKeep, RequestsKeep DEF A!Next
<1>4. QED
  BY <1>1, <1>3, PTL DEF A!Spec

\* A server lets in whom its list names for as long as their cookie lasts, however
\* often it was restarted (db.go:184-197, auth.go:61-74).
THEOREM SessionsOutliveRestarts == A!Spec => []SessionsLast
<1>1. AccessInv => SessionsLast
  BY DEF AccessInv, SessionInv, SessionsLast, A!SessionsLast, A!Admitted, A!Running
<1>2. QED
  BY <1>1, AccessInvariant, PTL

\* No request is refused whose key was there throughout (readonly.go:85-96).
THEOREM KeysAreNotRefused == A!Spec => []KeysLast
<1>1. AccessInv => KeysLast
  BY DEF AccessInv, KeyInv, KeysLast, A!KeysLast
<1>2. QED
  BY <1>1, AccessInvariant, PTL

(***************************************************************************)
(* Notifier                                                                *)
(***************************************************************************)

Settings == {"webhook", "host", "user", "from", "to"}

Values == {Unset} \cup UNION {{f[k] : k \in DOMAIN f} : f \in Forms}

\* What may be left of the mail settings while they are read, and of a form while it
\* is stored: a suffix of the list.
MailLefts == {<<"host", "user", "from", "to">>, <<"user", "from", "to">>, <<"from", "to">>,
              <<"to">>, <<>>}
SaveLefts == {<<"webhook", "host", "user", "from", "to">>} \cup MailLefts

LEMMA KeyLists ==
  /\ N!SettableKeys = <<"webhook", "host", "user", "from", "to">>
  /\ N!MailKeys = <<"host", "user", "from", "to">>
  /\ N!ToSet(N!SettableKeys) = Settings
  /\ N!ToSet(N!MailKeys) = Settings \ {"webhook"}
<1>1. /\ N!SettableKeys = <<"webhook", "host", "user", "from", "to">>
      /\ N!MailKeys = <<"host", "user", "from", "to">>
  BY DEF N!SettableKeys, N!MailKeys
<1>2. N!ToSet(N!SettableKeys) = Settings
  BY <1>1 DEF N!ToSet, Settings
<1>3. N!ToSet(N!MailKeys) = Settings \ {"webhook"}
  BY <1>1 DEF N!ToSet, Settings
<1>4. QED
  BY <1>1, <1>2, <1>3

\* A sequence is a suffix of itself, and the tail of a suffix is one.
LEMMA SuffixesOfSuffixes ==
  ASSUME NEW S, NEW s \in Seq(S), s # <<>>
  PROVE  /\ s \in N!Suffixes(s)
         /\ \A t \in N!Suffixes(s) : t # <<>> => Tail(t) \in N!Suffixes(s)
<1>1. 1 \in 1..Len(s)
  OBVIOUS
<1>2. s \in N!Suffixes(s)
  BY <1>1, SubSeqFull DEF N!Suffixes
<1>3. ASSUME NEW t \in N!Suffixes(s), t # <<>> PROVE Tail(t) \in N!Suffixes(s)
  <2>1. PICK l \in 1..Len(s) : t = SubSeq(s, l, Len(s))
    BY <1>3 DEF N!Suffixes
  <2>2. Tail(t) = SubSeq(s, l + 1, Len(s))
    BY <2>1, HeadTailOfSubSeq
  <2>3. CASE l + 1 \in 1..Len(s)
    BY <2>2, <2>3 DEF N!Suffixes
  <2>4. CASE Len(s) < l + 1
    BY <2>2, <2>4, SubSeqEmpty DEF N!Suffixes
  <2>5. QED
    BY <2>3, <2>4
<1>4. QED
  BY <1>2, <1>3

LEMMA ListsAreSuffixes ==
  /\ \A left \in SaveLefts : left \in N!Suffixes(N!SettableKeys)
  /\ \A left \in MailLefts : left \in N!Suffixes(N!MailKeys)
<1> DEFINE s == <<"webhook", "host", "user", "from", "to">>
           m == <<"host", "user", "from", "to">>
<1>1. s \in Seq(Settings) /\ m \in Seq(Settings)
  BY DEF Settings
<1>2. /\ Tail(s) = m /\ Tail(m) = <<"user", "from", "to">>
      /\ Tail(<<"user", "from", "to">>) = <<"from", "to">>
      /\ Tail(<<"from", "to">>) = <<"to">> /\ Tail(<<"to">>) = <<>>
  OBVIOUS
<1>3. ASSUME NEW z \in {s, m} PROVE \A left \in MailLefts : left \in N!Suffixes(z)
  <2>1. z \in N!Suffixes(z) /\ \A t \in N!Suffixes(z) : t # <<>> => Tail(t) \in N!Suffixes(z)
    BY <1>1, SuffixesOfSuffixes
  <2>2. m \in N!Suffixes(z)
    BY <1>2, <2>1
  <2>3. <<"user", "from", "to">> \in N!Suffixes(z)
    BY <1>2, <2>1, <2>2
  <2>4. <<"from", "to">> \in N!Suffixes(z)
    BY <1>2, <2>1, <2>3
  <2>5. <<"to">> \in N!Suffixes(z)
    BY <1>2, <2>1, <2>4
  <2>6. <<>> \in N!Suffixes(z)
    BY <1>2, <2>1, <2>5
  <2>7. QED
    BY <2>2, <2>3, <2>4, <2>5, <2>6 DEF MailLefts
<1>4. s \in N!Suffixes(s)
  BY <1>1, SuffixesOfSuffixes
<1>5. QED
  BY <1>3, <1>4, KeyLists DEF SaveLefts

\* The next setting of a list, and what is left after it.
LEMMA NextOfList ==
  ASSUME NEW left \in SaveLefts, left # <<>>
  PROVE  /\ Head(left) \in Settings
         /\ Tail(left) \in MailLefts
         /\ N!ToSet(left) = {Head(left)} \cup N!ToSet(Tail(left))
         /\ left \in MailLefts => Head(left) # "webhook"
         /\ Tail(left) = <<>> => N!ToSet(Tail(left)) = {}
<1> USE DEF Settings, MailLefts, N!ToSet
<1>1. CASE left = <<"webhook", "host", "user", "from", "to">>
  <2>1. Tail(left) = <<"host", "user", "from", "to">> /\ Head(left) = "webhook"
    BY <1>1
  <2>2. QED
    BY <1>1, <2>1
<1>2. CASE left = <<"host", "user", "from", "to">>
  <2>1. Tail(left) = <<"user", "from", "to">> /\ Head(left) = "host"
    BY <1>2
  <2>2. QED
    BY <1>2, <2>1
<1>3. CASE left = <<"user", "from", "to">>
  <2>1. Tail(left) = <<"from", "to">> /\ Head(left) = "user"
    BY <1>3
  <2>2. QED
    BY <1>3, <2>1
<1>4. CASE left = <<"from", "to">>
  <2>1. Tail(left) = <<"to">> /\ Head(left) = "from"
    BY <1>4
  <2>2. QED
    BY <1>4, <2>1
<1>5. CASE left = <<"to">>
  <2>1. Tail(left) = <<>> /\ Head(left) = "to"
    BY <1>5
  <2>2. QED
    BY <1>5, <2>1
<1>6. QED
  BY <1>1, <1>2, <1>3, <1>4, <1>5 DEF SaveLefts

\* What a job may be, what is known of the table and of the saves, ...
Job == [kind : {"none", "alert", "test discord", "test mail"},
        at : {"idle", "webhook", "discord", "host", "to", "mail", "sending", "done"},
        got : [Settings -> Values], left : MailLefts, tried : SUBSET N!Channels,
        base : Forms \cup {N!Empty, None}, due : SUBSET N!Channels]

Save == [form : Forms, left : SaveLefts \ {<<>>}, alone : BOOLEAN]

\* The table is the last form, if that is stored whole; and a channel that passed its
\* test has what the alert asks for.
TableOK ==
  /\ stored \in [Settings -> Values]
  /\ whole \in Forms \cup {N!Empty, None}
  /\ whole # None => \A k \in Settings : stored[k] = whole[k]
  /\ tested \subseteq N!Channels
  /\ tested # {} => whole # None
  /\ "discord" \in tested => stored["webhook"] # Unset
  /\ "mail" \in tested => N!Complete(stored)

\* A save that nobody overlaps has no other beside it, and what it has written is there.
SavesOK ==
  /\ save \in [Admins -> Save \cup {None}]
  /\ \A a \in Admins : save[a] # None /\ save[a].alone =>
       /\ \A b \in Admins \ {a} : save[b] = None
       /\ \A k \in Settings \ N!ToSet(save[a].left) : stored[k] = save[a].form[k]

\* ... and what a job knows: the settings it has read are those of the table, if that
\* is what it was when the job began; and what was tested by then it has tried by now.
Shaped(r) ==
  /\ r.at \in {"webhook", "discord", "host", "to"} => r.left = N!MailKeys
  /\ r.at = "mail" => r.left # <<>>
  /\ r.at = "sending" => r.left = <<>> /\ N!Complete(r.got) /\ "mail" \in r.tried

Fits(r, table, form, passed) ==
  /\ Shaped(r)
  /\ r.base # None => /\ r.base = form
                      /\ \A k \in (Settings \ {"webhook"}) \ N!ToSet(r.left) : r.got[k] = table[k]
                      /\ r.at = "discord" => table["webhook"] # Unset
  /\ r.due # {} => r.base # None
  /\ r.due \subseteq passed
  /\ r.kind = "alert" /\ r.at # "webhook" /\ "discord" \in r.due => "discord" \in r.tried
  /\ r.kind = "alert" /\ r.at = "done" /\ "mail" \in r.due => "mail" \in r.tried

JobsOK == job \in [Jobs -> Job] /\ \A j \in Jobs : Fits(job[j], stored, whole, tested)

NotifierInv == TableOK /\ SavesOK /\ JobsOK /\ saves \in 0..MaxSaves /\ faults \in 0..MaxFaults

LEMMA FormsFit == N!Empty \in [Settings -> Values] /\ Forms \subseteq [Settings -> Values]
  BY FormsAssumption, KeyLists DEF N!Empty, Values

\* A blinded job fits any table.
LEMMA BlindFits ==
  ASSUME NEW r \in Job, Shaped(r), NEW table, NEW form, NEW passed
  PROVE  N!Blind(r) \in Job /\ Fits(N!Blind(r), table, form, passed)
<1> DEFINE b == N!Blind(r)
<1>1. b \in Job
  BY DEF N!Blind, Job
<1>2. /\ b.at = r.at /\ b.left = r.left /\ b.got = r.got /\ b.tried = r.tried
      /\ b.base = None /\ b.due = {}
  BY DEF N!Blind, Job
<1>3. QED
  BY <1>1, <1>2 DEF Fits, Shaped

\* Two tables with the same mail settings are both complete, or neither is.
LEMMA SameMail ==
  ASSUME NEW f, NEW g, \A k \in Settings \ {"webhook"} : f[k] = g[k], N!Complete(f)
  PROVE  N!Complete(g)
  BY DEF N!Complete, N!From, Settings

\* A job goes on, and perhaps one more channel has passed its test.
LEMMA JobGoesOn ==
  ASSUME NotifierInv, NEW j \in Jobs, NEW r \in Job, job' = [job EXCEPT ![j] = r],
         Fits(r, stored, whole, tested'), tested \subseteq tested', TableOK',
         UNCHANGED <<stored, save, saves, whole>>, faults' \in 0..MaxFaults
  PROVE  NotifierInv'
<1>1. JobsOK'
  BY DEF NotifierInv, JobsOK, Fits
<1>2. SavesOK'
  BY DEF NotifierInv, SavesOK
<1>3. QED
  BY <1>1, <1>2 DEF NotifierInv

LEMMA ProceedKeeps ==
  ASSUME NotifierInv, NEW j \in Jobs, NEW t, t.ok \in BOOLEAN, NEW r \in Job, N!Proceed(j, t, r),
         Shaped(r), t.ok => Fits(r, stored, whole, tested)
  PROVE  NotifierInv'
<1>1. UNCHANGED <<stored, save, saves, whole, tested>> /\ faults' \in 0..MaxFaults /\ TableOK'
  BY ServerAssumption DEF N!Proceed, N!Fault, NotifierInv, TableOK
<1>2. CASE t.ok
  BY <1>1, <1>2, JobGoesOn DEF N!Proceed
<1>3. CASE ~t.ok
  BY <1>1, <1>3, JobGoesOn, BlindFits DEF N!Proceed
<1>4. QED
  BY <1>2, <1>3

LEMMA InitNotifier == N!Init => NotifierInv
<1> SUFFICES ASSUME N!Init PROVE NotifierInv
  OBVIOUS
<1>1. TableOK
  BY FormsFit DEF N!Init, TableOK
<1>2. SavesOK
  BY DEF N!Init, SavesOK
<1>3. N!Idle \in Job /\ Fits(N!Idle, stored, whole, tested)
  BY FormsFit DEF N!Idle, Job, Fits, Shaped, MailLefts, N!Channels
<1>4. JobsOK
  BY <1>3 DEF N!Init, JobsOK
<1>5. QED
  BY <1>1, <1>2, <1>4, ServerAssumption DEF N!Init, NotifierInv

LEMMA BeginKeeps ==
  ASSUME NotifierInv, NEW j \in Jobs, NEW kind \in {"alert", "test discord", "test mail"},
         N!Begin(j, kind)
  PROVE  NotifierInv'
<1> DEFINE r == [kind |-> kind, at |-> IF kind = "test mail" THEN "mail" ELSE "webhook",
                 got |-> N!Empty, left |-> N!MailKeys, tried |-> {}, base |-> whole, due |-> tested]
<1>1. r \in Job
  <2>1. N!MailKeys \in MailLefts /\ N!Empty \in [Settings -> Values]
    BY FormsFit, KeyLists DEF MailLefts
  <2>2. whole \in Forms \cup {N!Empty, None} /\ tested \in SUBSET N!Channels
    BY DEF NotifierInv, TableOK
  <2>3. QED
    BY <2>1, <2>2 DEF Job
<1>2. N!MailKeys # <<>> /\ N!ToSet(N!MailKeys) = Settings \ {"webhook"}
  BY KeyLists
<1>3. Fits(r, stored, whole, tested)
  <2>1. Shaped(r)
    BY <1>2 DEF Shaped
  <2>2. \A k \in (Settings \ {"webhook"}) \ N!ToSet(r.left) : r.got[k] = stored[k]
    BY <1>2
  <2>3. r.at # "discord" /\ r.at # "done" /\ (r.kind = "alert" => r.at = "webhook")
    OBVIOUS
  <2>4. tested # {} => whole # None
    BY DEF NotifierInv, TableOK
  <2>5. QED
    BY <2>1, <2>2, <2>3, <2>4 DEF Fits
<1>4. job' = [job EXCEPT ![j] = r] /\ UNCHANGED <<stored, save, saves, faults, whole, tested>>
  BY DEF N!Begin
<1>5. TableOK' /\ faults' \in 0..MaxFaults
  BY <1>4 DEF NotifierInv, TableOK
<1>6. QED
  BY <1>1, <1>3, <1>4, <1>5, JobGoesOn

\* Past Discord.
LEMMA MailingFits ==
  ASSUME NEW r \in Job, Fits(r, stored, whole, tested), r.at \in {"webhook", "discord"},
         r.at = "webhook" /\ r.kind = "alert" => "discord" \notin r.due
  PROVE  N!Mailing(r) \in Job /\ Fits(N!Mailing(r), stored, whole, tested)
<1> DEFINE m == N!Mailing(r)
<1>1. m \in Job /\ m.at = IF r.kind = "alert" THEN "host" ELSE "done"
  BY DEF N!Mailing, Job
<1>2. /\ m.kind = r.kind /\ m.left = r.left /\ m.got = r.got /\ m.tried = r.tried
      /\ m.base = r.base /\ m.due = r.due
  BY DEF N!Mailing, Job
<1> HIDE DEF m
<1>3. Shaped(m)
  BY <1>1, <1>2 DEF Fits, Shaped
<1>4. Fits(m, stored, whole, tested)
  <2>1. m.at # "discord"
    BY <1>1
  <2>2. CASE r.kind = "alert"
    BY <1>1, <1>2, <1>3, <2>1, <2>2 DEF Fits
  <2>3. CASE r.kind # "alert"
    BY <1>1, <1>2, <1>3, <2>1, <2>3 DEF Fits
  <2>4. QED
    BY <2>2, <2>3
<1>5. QED
  BY <1>1, <1>4 DEF m

\* What a query tells is the setting, or nothing.
LEMMA ToldValue ==
  ASSUME NotifierInv, NEW k \in Settings, NEW t \in N!Told(k)
  PROVE  t.ok \in BOOLEAN /\ t.value \in Values /\ (t.ok => t.value = stored[k])
<1>1. stored[k] \in Values /\ Unset \in Values
  BY DEF NotifierInv, TableOK, Values
<1>2. CASE t = [value |-> stored[k], ok |-> TRUE]
  BY <1>1, <1>2
<1>3. CASE t = [value |-> Unset, ok |-> FALSE]
  BY <1>1, <1>3
<1>4. QED
  BY <1>2, <1>3 DEF N!Told

LEMMA ReadWebhookKeeps ==
  ASSUME NotifierInv, NEW j \in Jobs, N!ReadWebhook(j)
  PROVE  NotifierInv'
<1>1. PICK t \in N!Told("webhook") : N!Proceed(j, t,
        IF t.value = Unset THEN N!Mailing(job[j])
        ELSE [job[j] EXCEPT !.at = "discord", !.got["webhook"] = t.value, !.tried = {"discord"}])
  BY DEF N!ReadWebhook
<1>2. t.ok \in BOOLEAN /\ t.value \in Values /\ (t.ok => t.value = stored["webhook"])
  BY ToldValue DEF Settings
<1>3. job[j] \in Job /\ job[j].at = "webhook" /\ Fits(job[j], stored, whole, tested)
  BY DEF N!ReadWebhook, NotifierInv, JobsOK
<1>4. CASE t.value = Unset
  <2>1. Shaped(N!Mailing(job[j])) /\ N!Mailing(job[j]) \in Job
    <3> DEFINE m == N!Mailing(job[j])
    <3>1. m \in Job /\ m.at \in {"host", "done"} /\ m.left = job[j].left
      BY <1>3 DEF N!Mailing, Job
    <3>2. job[j].left = N!MailKeys
      BY <1>3 DEF Fits, Shaped
    <3>3. QED
      BY <3>1, <3>2 DEF Shaped
  <2>2. t.ok => "discord" \notin job[j].due
    BY <1>2, <1>3, <1>4 DEF Fits, NotifierInv, TableOK
  <2>3. t.ok => Fits(N!Mailing(job[j]), stored, whole, tested)
    BY <1>3, <2>2, MailingFits
  <2>4. QED
    BY <1>1, <1>2, <1>4, <2>1, <2>3, ProceedKeeps
<1>5. CASE t.value # Unset
  <2> DEFINE r == [job[j] EXCEPT !.at = "discord", !.got["webhook"] = t.value, !.tried = {"discord"}]
  <2>1. r \in Job
    <3>1. [job[j].got EXCEPT !["webhook"] = t.value] \in [Settings -> Values]
      BY <1>2, <1>3 DEF Job, Settings
    <3>2. {"discord"} \in SUBSET N!Channels
      BY DEF N!Channels
    <3>3. QED
      BY <1>3, <3>1, <3>2 DEF Job
  <2>2. /\ r.at = "discord" /\ r.left = job[j].left /\ r.tried = {"discord"} /\ r.base = job[j].base
        /\ r.due = job[j].due /\ r.kind = job[j].kind
        /\ \A k \in Settings \ {"webhook"} : r.got[k] = job[j].got[k]
    BY <1>3 DEF Job
  <2> HIDE DEF r
  <2>3. Shaped(r)
    BY <1>3, <2>2 DEF Fits, Shaped
  <2>4. t.ok => Fits(r, stored, whole, tested)
    BY <1>2, <1>3, <1>5, <2>2, <2>3 DEF Fits
  <2>5. N!Proceed(j, t, r)
    BY <1>1, <1>5 DEF r
  <2>6. QED
    BY <1>2, <2>1, <2>3, <2>4, <2>5, ProceedKeeps
<1>6. QED
  BY <1>4, <1>5

\* Two questions before the mail: is there a server, and anybody to write to?
LEMMA QuestionKeeps ==
  ASSUME NotifierInv, NEW j \in Jobs, N!ReadHost(j) \/ N!ReadTo(j)
  PROVE  NotifierInv'
<1> DEFINE k == IF job[j].at = "host" THEN "host" ELSE "to"
           next == IF job[j].at = "host" THEN "to" ELSE "mail"
<1>1. PICK t \in N!Told(k) :
        N!Proceed(j, t, [job[j] EXCEPT !.at = IF t.value = Unset THEN "done" ELSE next])
  BY DEF N!ReadHost, N!ReadTo
<1>2. t.ok \in BOOLEAN /\ (t.ok => t.value = stored[k])
  BY ToldValue DEF Settings
<1>3. job[j] \in Job /\ job[j].at \in {"host", "to"} /\ Fits(job[j], stored, whole, tested)
  BY DEF N!ReadHost, N!ReadTo, NotifierInv, JobsOK
<1> DEFINE r == [job[j] EXCEPT !.at = IF t.value = Unset THEN "done" ELSE next]
<1>4. r \in Job
  BY <1>3 DEF Job
<1>5. /\ r.at = (IF t.value = Unset THEN "done" ELSE next) /\ r.left = job[j].left
      /\ r.tried = job[j].tried /\ r.base = job[j].base /\ r.got = job[j].got
      /\ r.due = job[j].due /\ r.kind = job[j].kind
  BY <1>3 DEF Job
<1> HIDE DEF r
<1>6. r.left = N!MailKeys /\ N!MailKeys # <<>>
  BY <1>3, <1>5, KeyLists DEF Fits, Shaped
<1>7. Shaped(r)
  BY <1>5, <1>6 DEF Shaped
<1>8. t.ok /\ t.value = Unset => "mail" \notin tested
  BY <1>2 DEF NotifierInv, TableOK, N!Complete
<1>9. t.ok => Fits(r, stored, whole, tested)
  BY <1>3, <1>5, <1>7, <1>8 DEF Fits
<1>10. QED
  BY <1>1, <1>2, <1>4, <1>7, <1>9, ProceedKeeps DEF r

\* One setting more, or the last one.
LEMMA ReadMailKeeps ==
  ASSUME NotifierInv, NEW j \in Jobs, N!ReadMailSetting(j)
  PROVE  NotifierInv'
<1> DEFINE k == Head(job[j].left)
           rest == Tail(job[j].left)
<1>1. job[j] \in Job /\ job[j].at = "mail" /\ Fits(job[j], stored, whole, tested)
  BY DEF N!ReadMailSetting, NotifierInv, JobsOK
<1>2. job[j].left \in MailLefts /\ job[j].left # <<>> /\ job[j].got \in [Settings -> Values]
  BY <1>1 DEF Job, Fits, Shaped
<1>3. /\ k \in Settings \ {"webhook"} /\ rest \in MailLefts
      /\ N!ToSet(job[j].left) = {k} \cup N!ToSet(rest)
      /\ rest = <<>> => N!ToSet(rest) = {}
  BY <1>2, NextOfList DEF SaveLefts
<1> HIDE DEF k, rest
<1>4. PICK t \in N!Told(k) :
        LET got == [job[j].got EXCEPT ![k] = t.value]
            r   == [job[j] EXCEPT !.got = got, !.left = rest]
        IN N!Proceed(j, t,
             CASE rest # <<>>                        -> r
               [] rest = <<>> /\ N!Complete(got)  -> [r EXCEPT !.at = "sending", !.tried = @ \cup {"mail"}]
               [] rest = <<>> /\ ~N!Complete(got) -> [r EXCEPT !.at = "done"])
  BY DEF N!ReadMailSetting, k, rest
<1>5. t.ok \in BOOLEAN /\ t.value \in Values /\ (t.ok => t.value = stored[k])
  BY <1>3, ToldValue
<1> DEFINE got == [job[j].got EXCEPT ![k] = t.value]
           q == [job[j] EXCEPT !.got = got, !.left = rest]
           r == CASE rest # <<>>                        -> q
                  [] rest = <<>> /\ N!Complete(got)  -> [q EXCEPT !.at = "sending", !.tried = @ \cup {"mail"}]
                  [] rest = <<>> /\ ~N!Complete(got) -> [q EXCEPT !.at = "done"]
<1>6. got \in [Settings -> Values]
  BY <1>2, <1>5
<1>7. t.ok /\ job[j].base # None =>
        \A x \in (Settings \ {"webhook"}) \ N!ToSet(rest) : got[x] = stored[x]
  BY <1>1, <1>2, <1>3, <1>5 DEF Fits
<1> HIDE DEF got
<1>8. /\ q \in Job /\ q.at = "mail" /\ q.got = got /\ q.left = rest /\ q.tried = job[j].tried
      /\ q.base = job[j].base /\ q.due = job[j].due /\ q.kind = job[j].kind
  BY <1>1, <1>3, <1>6 DEF Job
<1> HIDE DEF q
<1>9. /\ r \in Job /\ r.got = got /\ r.left = rest
      /\ r.base = job[j].base /\ r.due = job[j].due /\ r.kind = job[j].kind
      /\ job[j].tried \subseteq r.tried
  <2>1. CASE rest # <<>>
    BY <1>8, <2>1
  <2>2. CASE rest = <<>> /\ N!Complete(got)
    BY <1>8, <2>2 DEF Job, N!Channels
  <2>3. CASE rest = <<>> /\ ~N!Complete(got)
    BY <1>8, <2>3 DEF Job
  <2>4. QED
    BY <2>1, <2>2, <2>3
<1>10. /\ rest # <<>> => r.at = "mail"
       /\ rest = <<>> /\ N!Complete(got) => r.at = "sending" /\ "mail" \in r.tried
       /\ rest = <<>> /\ ~N!Complete(got) => r.at = "done"
  BY <1>8 DEF Job
<1>11. N!Proceed(j, t, r)
  BY <1>4 DEF r, q, got
<1> HIDE DEF r
<1>12. Shaped(r)
  BY <1>9, <1>10 DEF Shaped
<1>13. ASSUME t.ok PROVE Fits(r, stored, whole, tested)
  <2>1. r.at # "discord" /\ r.at # "webhook"
    BY <1>10
  <2>2. r.base # None => r.base = whole /\ \A x \in (Settings \ {"webhook"}) \ N!ToSet(r.left) : r.got[x] = stored[x]
    BY <1>1, <1>7, <1>9, <1>13 DEF Fits
  <2>3. ASSUME r.at = "done", "mail" \in r.due PROVE FALSE
    <3>1. rest = <<>> /\ ~N!Complete(got) /\ job[j].base # None /\ "mail" \in tested
      BY <1>1, <1>9, <1>10, <2>3 DEF Fits
    <3>2. \A x \in Settings \ {"webhook"} : stored[x] = got[x]
      BY <1>3, <1>7, <1>13, <3>1
    <3>3. N!Complete(stored)
      BY <3>1 DEF NotifierInv, TableOK
    <3>4. QED
      BY <3>1, <3>2, <3>3, SameMail
  <2>4. QED
    BY <1>1, <1>9, <1>12, <2>1, <2>2, <2>3 DEF Fits
<1>14. QED
  BY <1>5, <1>9, <1>11, <1>12, <1>13, ProceedKeeps

LEMMA AnswersKeep ==
  ASSUME NotifierInv, NEW j \in Jobs, NEW ok \in BOOLEAN,
         N!DiscordAnswers(j, ok) \/ N!MailAnswers(j, ok)
  PROVE  NotifierInv'
<1>1. job[j] \in Job /\ Fits(job[j], stored, whole, tested)
  BY DEF NotifierInv, JobsOK
<1>2. TableOK /\ faults \in 0..MaxFaults
  BY DEF NotifierInv
<1>3. CASE N!DiscordAnswers(j, ok)
  <2>1. /\ job[j].at = "discord" /\ job' = [job EXCEPT ![j] = N!Mailing(job[j])]
        /\ UNCHANGED <<stored, save, saves, faults, whole>>
    BY <1>3 DEF N!DiscordAnswers
  <2>2. \/ tested' = tested
        \/ tested' = tested \cup {"discord"} /\ job[j].base # None
    BY <1>3 DEF N!DiscordAnswers, N!Passed
  <2>3. job[j].base # None => whole # None /\ stored["webhook"] # Unset
    BY <1>1, <2>1 DEF Fits
  <2>4. TableOK' /\ tested \subseteq tested'
    <3>1. "mail" \in tested' => "mail" \in tested
      BY <2>2
    <3>2. N!Complete(stored)' = N!Complete(stored)
      BY <2>1 DEF N!Complete, N!From
    <3>3. tested' \subseteq N!Channels
      BY <1>2, <2>2 DEF TableOK, N!Channels
    <3>4. QED
      BY <1>2, <2>1, <2>2, <2>3, <3>1, <3>2, <3>3 DEF TableOK
  <2>5. N!Mailing(job[j]) \in Job /\ Fits(N!Mailing(job[j]), stored, whole, tested)
    BY <1>1, <2>1, MailingFits
  <2>6. Fits(N!Mailing(job[j]), stored, whole, tested')
    BY <2>4, <2>5 DEF Fits
  <2>7. QED
    BY <1>2, <2>1, <2>4, <2>5, <2>6, JobGoesOn
<1>4. CASE N!MailAnswers(j, ok)
  <2> DEFINE r == [job[j] EXCEPT !.at = "done"]
  <2>1. /\ job[j].at = "sending" /\ job' = [job EXCEPT ![j] = r]
        /\ UNCHANGED <<stored, save, saves, faults, whole>>
    BY <1>4 DEF N!MailAnswers
  <2>2. \/ tested' = tested
        \/ tested' = tested \cup {"mail"} /\ job[j].base # None
    BY <1>4 DEF N!MailAnswers, N!Passed
  <2>3. job[j].base # None => whole # None /\ N!Complete(stored)
    <3>1. job[j].left = <<>> /\ N!Complete(job[j].got) /\ N!ToSet(<<>>) = {}
      BY <1>1, <2>1 DEF Fits, Shaped, N!ToSet
    <3>2. job[j].base # None => \A k \in Settings \ {"webhook"} : job[j].got[k] = stored[k]
      BY <1>1, <3>1 DEF Fits
    <3>3. QED
      BY <1>1, <3>1, <3>2, SameMail DEF Fits
  <2>4. TableOK' /\ tested \subseteq tested'
    <3>1. "discord" \in tested' => "discord" \in tested
      BY <2>2
    <3>2. N!Complete(stored)' = N!Complete(stored)
      BY <2>1 DEF N!Complete, N!From
    <3>3. tested' \subseteq N!Channels
      BY <1>2, <2>2 DEF TableOK, N!Channels
    <3>4. QED
      BY <1>2, <2>1, <2>2, <2>3, <3>1, <3>2, <3>3 DEF TableOK
  <2>5. /\ r \in Job /\ r.at = "done" /\ r.left = job[j].left /\ r.tried = job[j].tried
        /\ r.base = job[j].base /\ r.got = job[j].got /\ r.due = job[j].due /\ r.kind = job[j].kind
    BY <1>1 DEF Job
  <2> HIDE DEF r
  <2>6. Fits(r, stored, whole, tested')
    BY <1>1, <2>1, <2>4, <2>5 DEF Fits, Shaped
  <2>7. QED
    BY <1>2, <2>1, <2>4, <2>5, <2>6, JobGoesOn
<1>5. QED
  BY <1>3, <1>4

LEMMA EndKeeps ==
  ASSUME NotifierInv, NEW j \in Jobs, N!End(j)
  PROVE  NotifierInv'
<1>1. N!Idle \in Job /\ Fits(N!Idle, stored, whole, tested)
  BY FormsFit DEF N!Idle, Job, Fits, Shaped, MailLefts, N!Channels
<1>2. job' = [job EXCEPT ![j] = N!Idle] /\ UNCHANGED <<stored, save, saves, faults, whole, tested>>
  BY DEF N!End
<1>3. TableOK' /\ faults' \in 0..MaxFaults
  BY <1>2 DEF NotifierInv, TableOK
<1>4. QED
  BY <1>1, <1>2, <1>3, JobGoesOn

\* Whoever begins to save takes the others' solitude, and has it only if there are none.
LEMMA BeginSaveKeeps ==
  ASSUME NotifierInv, NEW a \in Admins, NEW f \in Forms, N!BeginSave(a, f)
  PROVE  NotifierInv'
<1> DEFINE alone == \A b \in Admins : save[b] = None
           s == [form |-> f, left |-> N!SettableKeys, alone |-> alone]
<1>1. /\ save[a] = None /\ saves' \in 0..MaxSaves
      /\ save' = [b \in Admins |-> IF b = a THEN s ELSE N!Overlapped(save[b])]
      /\ UNCHANGED <<stored, job, faults, whole, tested>>
  BY ServerAssumption DEF N!BeginSave, NotifierInv
<1>2. s \in Save /\ N!ToSet(s.left) = Settings
  <2>1. N!SettableKeys \in SaveLefts \ {<<>>}
    BY KeyLists DEF SaveLefts
  <2>2. QED
    BY <2>1, KeyLists DEF Save
<1>3. ASSUME NEW b \in Admins, b # a, save[b] # None
      PROVE  save'[b] \in Save /\ ~save'[b].alone
  <2>1. save[b] \in Save /\ save'[b] = [save[b] EXCEPT !.alone = FALSE]
    BY <1>1, <1>3 DEF N!Overlapped, NotifierInv, SavesOK
  <2>2. QED
    BY <2>1 DEF Save
<1>4. ASSUME NEW b \in Admins, b # a, save[b] = None PROVE save'[b] = None
  BY <1>1, <1>4 DEF N!Overlapped
<1>5. save' \in [Admins -> Save \cup {None}] /\ save'[a] = s
  BY <1>1, <1>2, <1>3, <1>4
<1>6. SavesOK'
  <2>1. ASSUME NEW b \in Admins, save'[b] # None, save'[b].alone
        PROVE  b = a /\ alone
    BY <1>2, <1>3, <1>4, <1>5, <2>1
  <2>2. QED
    BY <1>2, <1>4, <1>5, <2>1 DEF SavesOK
<1>7. QED
  BY <1>1, <1>6 DEF NotifierInv, TableOK, JobsOK, Fits, Shaped

LEMMA PutFailsKeeps ==
  ASSUME NotifierInv, NEW a \in Admins, N!PutFails(a)
  PROVE  NotifierInv'
<1>1. /\ save' = [save EXCEPT ![a] = None] /\ faults' \in 0..MaxFaults
      /\ UNCHANGED <<stored, job, saves, whole, tested>>
  BY ServerAssumption DEF N!PutFails, N!Fault, NotifierInv
<1>2. SavesOK'
  BY <1>1 DEF NotifierInv, SavesOK
<1>3. QED
  BY <1>1, <1>2 DEF NotifierInv, TableOK, JobsOK, Fits, Shaped

\* One field is written: the jobs know no more, and the form is stored whole with the
\* last field of a save that was alone.
LEMMA PutKeeps ==
  ASSUME NotifierInv, NEW a \in Admins, N!Put(a)
  PROVE  NotifierInv'
<1> DEFINE s == save[a]
           k == Head(s.left)
           rest == Tail(s.left)
<1>1. s \in Save /\ s # None
  BY DEF N!Put, NotifierInv, SavesOK
<1>2. /\ s.form \in [Settings -> Values] /\ s.form \in Forms
      /\ k \in Settings /\ rest \in MailLefts
      /\ N!ToSet(s.left) = {k} \cup N!ToSet(rest)
      /\ rest = <<>> => N!ToSet(rest) = {}
  BY <1>1, FormsFit, NextOfList DEF Save
<1> HIDE DEF k, rest
<1>3. /\ stored' = [stored EXCEPT ![k] = s.form[k]]
      /\ save' = [save EXCEPT ![a] = IF rest = <<>> THEN None ELSE [s EXCEPT !.left = rest]]
      /\ whole' = IF rest = <<>> /\ s.alone THEN s.form ELSE None
      /\ job' = [j \in Jobs |-> N!Blind(job[j])]
      /\ tested' = {} /\ UNCHANGED <<saves, faults>>
  BY DEF N!Put, N!Written, k, rest
<1>4. stored \in [Settings -> Values] /\ stored' \in [Settings -> Values]
  BY <1>2, <1>3 DEF NotifierInv, TableOK
<1>5. s.alone => \A x \in Settings \ N!ToSet(rest) : stored'[x] = s.form[x]
  <2>1. s.alone => \A x \in Settings \ N!ToSet(s.left) : stored[x] = s.form[x]
    BY <1>1 DEF NotifierInv, SavesOK
  <2>2. QED
    BY <1>2, <1>3, <1>4, <2>1
<1>6. TableOK'
  <2>1. whole' # None => \A x \in Settings : stored'[x] = whole'[x]
    BY <1>2, <1>3, <1>5
  <2>2. whole' \in Forms \cup {N!Empty, None}
    BY <1>2, <1>3
  <2>3. QED
    BY <1>3, <1>4, <2>1, <2>2 DEF TableOK
<1>7. SavesOK'
  <2> DEFINE q == [s EXCEPT !.left = rest]
  <2>1. rest # <<>> => q \in Save /\ q.form = s.form /\ q.alone = s.alone /\ q.left = rest
    BY <1>1, <1>2 DEF Save, SaveLefts
  <2> HIDE DEF q
  <2>2. save' = [save EXCEPT ![a] = IF rest = <<>> THEN None ELSE q]
    BY <1>3 DEF q
  <2>3. save' \in [Admins -> Save \cup {None}]
    BY <2>1, <2>2 DEF NotifierInv, SavesOK
  <2>4. ASSUME NEW b \in Admins, save'[b] # None, save'[b].alone
        PROVE  /\ \A c \in Admins \ {b} : save'[c] = None
               /\ \A x \in Settings \ N!ToSet(save'[b].left) : stored'[x] = save'[b].form[x]
    <3>1. CASE b = a
      <4>1. rest # <<>> /\ save'[a] = q /\ s.alone
        BY <2>1, <2>2, <2>4, <3>1 DEF NotifierInv, SavesOK
      <4>2. \A c \in Admins \ {a} : save[c] = None
        BY <1>1, <4>1 DEF NotifierInv, SavesOK
      <4>3. QED
        BY <1>5, <2>1, <2>2, <3>1, <4>1, <4>2 DEF NotifierInv, SavesOK
    <3>2. CASE b # a
      <4>1. save[b] # None /\ save[b].alone
        BY <2>2, <2>4, <3>2 DEF NotifierInv, SavesOK
      <4>2. save[a] = None
        BY <4>1, <3>2 DEF NotifierInv, SavesOK
      <4>3. QED
        BY <1>1, <4>2
    <3>3. QED
      BY <3>1, <3>2
  <2>5. QED
    BY <2>3, <2>4 DEF SavesOK
<1>8. JobsOK'
  <2>1. ASSUME NEW j \in Jobs
        PROVE  job'[j] \in Job /\ Fits(job'[j], stored', whole', tested')
    <3>1. job[j] \in Job /\ Shaped(job[j]) /\ job'[j] = N!Blind(job[j])
      BY <1>3 DEF NotifierInv, JobsOK, Fits
    <3>2. QED
      BY <3>1, BlindFits
  <2>2. job' = [j \in Jobs |-> job'[j]]
    BY <1>3
  <2>3. job' \in [Jobs -> Job]
    BY <2>1, <2>2
  <2>4. QED
    BY <2>1, <2>3 DEF JobsOK
<1>9. QED
  BY <1>3, <1>6, <1>7, <1>8 DEF NotifierInv

LEMMA NotifierInvariant == N!Spec => []NotifierInv
<1>1. ASSUME NotifierInv, [N!Next]_(N!vars) PROVE NotifierInv'
  <2>1. ASSUME NEW a \in Admins, (\E f \in Forms : N!BeginSave(a, f)) \/ N!Put(a) \/ N!PutFails(a)
        PROVE  NotifierInv'
    BY <1>1, <2>1, BeginSaveKeeps, PutKeeps, PutFailsKeeps
  <2>2. ASSUME NEW j \in Jobs, N!Reads(j) \/ N!End(j) PROVE NotifierInv'
    BY <1>1, <2>2, ReadWebhookKeeps, QuestionKeeps, ReadMailKeeps, EndKeeps DEF N!Reads
  <2>3. ASSUME NEW j \in Jobs, NEW kind \in {"alert", "test discord", "test mail"}, N!Begin(j, kind)
        PROVE  NotifierInv'
    BY <1>1, <2>3, BeginKeeps
  <2>4. ASSUME NEW j \in Jobs, N!DiscordTimesOut(j) PROVE NotifierInv'
    BY <1>1, <2>4, AnswersKeep DEF N!DiscordTimesOut
  <2>5. ASSUME NEW j \in Jobs, NEW ok \in BOOLEAN, N!DiscordAnswers(j, ok) \/ N!MailAnswers(j, ok)
        PROVE  NotifierInv'
    BY <1>1, <2>5, AnswersKeep
  <2>6. CASE UNCHANGED N!vars
    BY <1>1, <2>6 DEF N!vars, NotifierInv, TableOK, SavesOK, JobsOK, Fits, Shaped, N!Complete, N!From
  <2>7. QED
    BY <1>1, <2>1, <2>2, <2>3, <2>4, <2>5, <2>6 DEF N!Next
<1>2. QED
  BY <1>1, InitNotifier, PTL DEF N!Spec

\* A mail carries one form, the one the table held (alerts.go:80-173).
THEOREM MailsCarryOneForm == N!Spec => []OneForm
<1>1. ASSUME NotifierInv, NEW j \in Jobs, job[j].at = "sending", job[j].base # None,
             NEW k \in N!ToSet(N!MailKeys)
      PROVE  job[j].got[k] = job[j].base[k]
  <2>1. Fits(job[j], stored, whole, tested) /\ k \in Settings \ {"webhook"}
    BY <1>1, KeyLists DEF NotifierInv, JobsOK
  <2>2. job[j].left = <<>> /\ N!ToSet(<<>>) = {} /\ job[j].base = whole
    BY <1>1, <2>1 DEF Fits, Shaped, N!ToSet
  <2>3. job[j].got[k] = stored[k]
    BY <1>1, <2>1, <2>2 DEF Fits
  <2>4. stored[k] = whole[k]
    BY <1>1, <2>1, <2>2 DEF NotifierInv, TableOK
  <2>5. QED
    BY <2>2, <2>3, <2>4
<1>2. NotifierInv => OneForm
  BY <1>1 DEF OneForm, N!OneForm
<1>3. QED
  BY <1>2, NotifierInvariant, PTL

\* What was tested is what is used (alerts.go:57-68, api.go:571-595).
THEOREM AlertsUseWhatWasTested == N!Spec => []TestedIsUsed
<1>1. ASSUME NotifierInv, NEW j \in Jobs, job[j].kind = "alert", job[j].at = "done"
      PROVE  job[j].due \subseteq job[j].tried
  <2>1. Fits(job[j], stored, whole, tested) /\ job[j] \in Job
    BY <1>1 DEF NotifierInv, JobsOK
  <2>2. job[j].due \subseteq {"discord", "mail"}
    BY <2>1 DEF Job, N!Channels
  <2>3. QED
    BY <1>1, <2>1, <2>2 DEF Fits
<1>2. NotifierInv => TestedIsUsed
  BY <1>1 DEF TestedIsUsed, N!TestedIsUsed
<1>3. QED
  BY <1>2, NotifierInvariant, PTL

(***************************************************************************)
(* The server as a whole                                                   *)
(***************************************************************************)

\* A behaviour of the server is one of each of its components.
LEMMA ServerIsAll == ServerSpec => SilenceSpec /\ Spec /\ N!Spec /\ A!Spec
<1>1. ServerInit => SilenceInit /\ Init /\ N!Init /\ A!Init
  BY DEF ServerInit
<1> DEFINE all == <<component, silenceVars, vars, notifierVars, accessVars>>
<1>2. [ServerNext]_all => [SilenceNext]_silenceVars /\ [Next]_vars
  BY DEF ServerNext, SilenceMoves, PoolMoves
<1>3. [ServerNext]_all => [N!Next]_(N!vars)
  BY DEF ServerNext, NotifierMoves, notifierVars, N!vars
<1>4. [ServerNext]_all => [A!Next]_(A!vars)
  BY DEF ServerNext, AccessMoves, accessVars, A!vars, A!server, A!signIn, A!apiKeys
<1>5. QED
  BY <1>1, <1>2, <1>3, <1>4, PTL DEF ServerSpec, SilenceSpec, Spec, N!Spec, A!Spec

\* The runner's phases (agent.go), the calls of a goroutine (db.go), alerts and saves
\* (alerts.go, api.go), sessions and keys (auth.go, readonly.go) have the types they are
\* declared with.
THEOREM ServerTypes == ServerSpec => []ServerTypeOK
<1>1. NotifierInv => N!TypeOK
  <2>1. ASSUME NotifierInv PROVE N!TypeOK
    <3>1. DOMAIN stored = N!ToSet(N!SettableKeys)
      BY <2>1, KeyLists DEF NotifierInv, TableOK
    <3>2. ASSUME NEW a \in Admins, save[a] # None
          PROVE  /\ save[a].form \in Forms /\ save[a].left \in N!Suffixes(N!SettableKeys)
                 /\ save[a].alone \in BOOLEAN
      BY <2>1, <3>2, ListsAreSuffixes DEF NotifierInv, SavesOK, Save
    <3>3. ASSUME NEW j \in Jobs
          PROVE  /\ job[j].at \in {"idle", "webhook", "discord", "host", "to", "mail", "sending", "done"}
                 /\ job[j].left \in N!Suffixes(N!MailKeys)
                 /\ job[j].tried \subseteq N!Channels /\ job[j].due \subseteq N!Channels
      <4>1. job[j] \in Job
        BY <2>1 DEF NotifierInv, JobsOK
      <4>2. QED
        BY <4>1, ListsAreSuffixes DEF Job
    <3>4. QED
      BY <2>1, <3>1, <3>2, <3>3 DEF N!TypeOK, NotifierInv, TableOK
  <2>2. QED
    BY <2>1
<1>2. RestsInv /\ PoolInv /\ NotifierInv /\ AccessInv => ServerTypeOK
  BY <1>1 DEF ServerTypeOK, RestsInv, PoolInv, AccessInv, SessionInv
<1>3. QED
  BY <1>2, ServerIsAll, RestsInvariant, PoolInvariant, NotifierInvariant, AccessInvariant, PTL
=============================================================================
