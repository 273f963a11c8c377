------------------------------ MODULE ConnPool ------------------------------
(***************************************************************************)
(* The database connection.  database/sql hands out at most one connection *)
(* at a time (SetMaxOpenConns(1)), to HTTP handlers, the engine's loops    *)
(* and alert goroutines alike.  A statement holds it until it is done, a   *)
(* QueryRow until its Scan, a Query until its last row or its Close, and a *)
(* transaction until Commit or Rollback; whoever asks meanwhile waits,     *)
(* without a timeout.                                                      *)
(*                                                                         *)
(* Every store method is thus a program of calls.  The module shows that   *)
(* the programs of the code never wait for a connection they hold, give it *)
(* back on every path, and never hold it while they wait for the network:  *)
(* the steps that the other modules take as atomic are so, and each        *)
(* request is answered even while a mail server never is.                  *)
(***************************************************************************)
EXTENDS Naturals, Sequences, FiniteSets

CONSTANTS
  Goroutines  \* request handlers, loops and alerts

VARIABLES
  todo,  \* todo[g]: the calls left of g's program, the current one first
  at,    \* at[g]: where g is in its current call
  held,  \* goroutines that hold a connection
  dirty  \* goroutines with statements that are not committed

vars == <<todo, at, held, dirty>>

\* One call: a statement, a single row, rows, a transaction, or the network.
Calls == {"exec", "row", "rows", "tx", "net"}

\* One status page with its monitors; two pages and then the monitors of each.
GetPage   == <<"row", "rows">>
ListPages == <<"rows", "rows", "rows">>

\* A new page or window is read back, a changed one is not.
CreatePage == <<"exec", "tx">> \o GetPage
UpdatePage == <<"exec", "tx">>

\* A result: its monitor, the heartbeat, the status, the maintenance lookup.
Result == <<"row", "exec", "exec", "row">>

\* An alert: webhook setting, Discord, mail settings (two for all eight), mail server.
AlertMail == <<"row", "row", "net">>
Alert     == <<"row", "net">> \o AlertMail

Programs == {GetPage, ListPages, CreatePage, UpdatePage, Result, Alert}

TypeOK ==
  /\ todo \in [Goroutines -> Seq(Calls)]
  /\ at \in [Goroutines -> {"idle", "asking", "inside", "away"}]
  /\ held \subseteq Goroutines
  /\ dirty \subseteq held

Init ==
  /\ todo = [g \in Goroutines |-> <<>>]
  /\ at = [g \in Goroutines |-> "idle"]
  /\ held = {}
  /\ dirty = {}

-----------------------------------------------------------------------------

\* Mutant: a second connection.
Bug_Free == Cardinality(held) < 2

\* SetMaxOpenConns(1): there is one connection, and nobody holds it.
Free == held = {}

Start(calls) ==
  IF calls = <<>> THEN "idle" ELSE IF Head(calls) = "net" THEN "away" ELSE "asking"

\* g goes on with these calls.
Turn(g, calls) ==
  /\ todo' = [todo EXCEPT ![g] = calls]
  /\ at' = [at EXCEPT ![g] = Start(calls)]

Begin(g) ==
  /\ at[g] = "idle"
  /\ \E p \in Programs : Turn(g, p)
  /\ UNCHANGED <<held, dirty>>

\* A connection is free: the caller is given it.
Grant(g) ==
  /\ at[g] = "asking"
  /\ Free
  /\ held' = held \cup {g}
  /\ at' = [at EXCEPT ![g] = "inside"]
  /\ UNCHANGED <<todo, dirty>>

In(g, call) == at[g] = "inside" /\ Head(todo[g]) = call

Release(g) == held' = held \ {g}

GoOn(g)   == Turn(g, Tail(todo[g]))
GiveUp(g) == Turn(g, <<>>)

\* Exec, and QueryRow followed by its Scan, return: what they say, or their
\* error, may end the program; without a webhook, Discord is passed over.
Returns(g) ==
  /\ In(g, "exec") \/ In(g, "row")
  /\ Release(g)
  /\ \/ GoOn(g)
     \/ GiveUp(g)
     \/ todo[g] = Alert /\ Turn(g, AlertMail)
  /\ UNCHANGED dirty

\* Mutant: the lists of monitors are asked for row by row, before the Close.
Bug_RowsRead(g) ==
  /\ In(g, "rows")
  /\ IF todo[g] = ListPages THEN held' = held ELSE Release(g)
  /\ GoOn(g)
  /\ UNCHANGED dirty

\* The last row has been read, and the rows are closed.
RowsRead(g) ==
  /\ In(g, "rows")
  /\ Release(g)
  /\ GoOn(g)
  /\ UNCHANGED dirty

\* The query, or the Scan of one of its rows, fails: the deferred Close.
RowsFail(g) ==
  /\ In(g, "rows")
  /\ Release(g)
  /\ GiveUp(g)
  /\ UNCHANGED dirty

\* The DELETE, or an INSERT, of a list of monitors.
TxExec(g) ==
  /\ In(g, "tx")
  /\ g \notin dirty
  /\ dirty' = dirty \cup {g}
  /\ UNCHANGED <<todo, at, held>>

\* Mutant: the connection goes back with statements that are not committed.
Bug_TxCommit(g) ==
  /\ In(g, "tx")
  /\ g \in dirty
  /\ Release(g)
  /\ GoOn(g)
  /\ UNCHANGED dirty

TxCommit(g) ==
  /\ In(g, "tx")
  /\ g \in dirty
  /\ dirty' = dirty \ {g}
  /\ Release(g)
  /\ GoOn(g)

\* Mutant: a transaction that fails is tried again until it succeeds.
Bug_TxFails(g) ==
  /\ In(g, "tx")
  /\ dirty' = dirty \ {g}
  /\ UNCHANGED <<todo, at, held>>

\* Begin, a statement or the Commit fails: the deferred Rollback.
TxFails(g) ==
  /\ In(g, "tx")
  /\ dirty' = dirty \ {g}
  /\ Release(g)
  /\ GiveUp(g)

\* Discord answers, or its ten seconds are over; a mail server answers.
NetReturns(g) ==
  /\ at[g] = "away"
  /\ GoOn(g)
  /\ UNCHANGED <<held, dirty>>

Inside(g) == Returns(g) \/ RowsRead(g) \/ RowsFail(g) \/ TxExec(g) \/ TxCommit(g) \/ TxFails(g)

Step(g) == Begin(g) \/ Grant(g) \/ Inside(g) \/ NetReturns(g)

Next == \E g \in Goroutines : Step(g)

Spec == Init /\ [][Next]_vars

\* database/sql hands a free connection to a waiting goroutine picked at random, so
\* that nobody is passed over for ever, and the database comes to an end with each call.
Fairness == \A g \in Goroutines : SF_vars(Grant(g)) /\ WF_vars(Inside(g))

-----------------------------------------------------------------------------

\* A goroutine that holds a connection is inside a call, and one that waits for
\* a connection, or for the network, holds none: no statement, row cursor or
\* transaction outlives its call (the deferred Close and Rollback, db.go:615-629)
\* and no list of monitors is asked for under an open cursor (db.go:688, 704).
HeldOnlyInside == held = {g \in Goroutines : at[g] = "inside"}

\* From the DELETE of a list of monitors (db.go:620, 822) to its Commit or Rollback
\* no other goroutine is inside a call: nobody reads or stores a list half replaced.
TransactionAlone == \A g \in dirty : \A o \in Goroutines \ {g} : at[o] # "inside"

\* Whoever asks for the connection gets it and is done with the call, whatever
\* alerts wait for mail servers that never answer (db.go:33, alerts.go:164).
EveryCallReturns ==
  \A g \in Goroutines : at[g] \in {"asking", "inside"} ~> at[g] \in {"idle", "away"}
=============================================================================
