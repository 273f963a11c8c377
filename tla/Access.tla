------------------------------- MODULE Access -------------------------------
(***************************************************************************)
(* Who is let in: admins, by a signed cookie of which the server keeps     *)
(* nothing but the secret it is signed with, and readers of the v1 API, by *)
(* a key whose row is looked up with every request.  The list of admins is *)
(* read from the environment when the server starts; the secret is read    *)
(* from the settings table then, or made and stored.  GitHub, which says   *)
(* who somebody is, is external.  The mode without sign-in is left out.    *)
(***************************************************************************)
EXTENDS Naturals

CONSTANTS
  Logins,     \* GitHub logins
  Browsers,   \* each with one cookie
  Keys,       \* API keys, as they are minted one after another
  Readers,    \* requests to the v1 API
  TTL,        \* how long a session lasts
  MaxStarts,  \* how often the server starts
  MaxFaults,  \* how many database errors may happen
  None        \* "no cookie", "no request"

VARIABLES
  stored,   \* the session_secret setting: a number, or 0
  made,     \* secrets made so far
  loaded,   \* the running server's secret, or 0 when it does not run
  admins,   \* the running server's list of admins
  starts,   \* starts so far
  flow,     \* flow[b]: the sign-in b is in the middle of, and who GitHub says it is
  cookie,   \* cookie[b]: login, secret and the time it has left
  key,      \* the api_keys table: what became of each key
  request,  \* request[r]: its key and how far it is
  faults,
  unread    \* history: a stored secret could not be read at a start

server  == <<stored, made, loaded, admins, starts, unread>>
signIn  == <<flow, cookie>>
apiKeys == <<key, request>>
vars    == <<server, signIn, apiKeys, faults>>

Stages == {"received", "found", "answered", "refused"}

TypeOK ==
  /\ stored \in 0..made /\ made \in 0..MaxStarts /\ loaded \in 0..made
  /\ admins \subseteq Logins
  /\ starts \in 0..MaxStarts
  /\ flow \in [Browsers -> Logins \cup {None, "redirected"}]
  /\ cookie \in [Browsers -> [login : Logins, secret : 1..MaxStarts, left : 0..TTL] \cup {None}]
  /\ key \in [Keys -> {"unknown", "minted", "deleted"}]
  /\ request \in [Readers -> [key : Keys, at : Stages, kept : BOOLEAN] \cup {None}]
  /\ faults \in 0..MaxFaults
  /\ unread \in BOOLEAN

Init ==
  /\ stored = 0 /\ made = 0 /\ loaded = 0
  /\ admins = {}
  /\ starts = 0
  /\ flow = [b \in Browsers |-> None]
  /\ cookie = [b \in Browsers |-> None]
  /\ key = [k \in Keys |-> "unknown"]
  /\ request = [r \in Readers |-> None]
  /\ faults = 0
  /\ unread = FALSE

Running == loaded # 0
Fault   == faults < MaxFaults /\ faults' = faults + 1

-----------------------------------------------------------------------------
(* Starting and stopping                                                   *)

\* Mutant: the new secret is used but not stored.
Bug_NewSecret ==
  /\ made' = made + 1
  /\ loaded' = made + 1
  /\ UNCHANGED stored

\* A new secret is made and stored.
NewSecret ==
  /\ made' = made + 1
  /\ stored' = made + 1
  /\ loaded' = made + 1

Start(list) ==
  /\ ~Running
  /\ starts < MaxStarts
  /\ starts' = starts + 1
  /\ admins' = list
  /\ UNCHANGED <<signIn, apiKeys>>

\* SessionSecret: the stored secret, or a new one.
StartUp(list) ==
  /\ Start(list)
  /\ IF stored # 0 THEN loaded' = stored /\ UNCHANGED <<stored, made>> ELSE NewSecret
  /\ UNCHANGED <<faults, unread>>

\* The stored secret cannot be read, which GetSetting does not tell from a first run.
StartUpUnread(list) ==
  /\ Start(list)
  /\ Fault
  /\ NewSecret
  /\ unread' = (unread \/ stored # 0)

\* The last start is for good.
Stop ==
  /\ Running /\ starts < MaxStarts
  /\ loaded' = 0
  /\ admins' = {}
  /\ request' = [r \in Readers |-> None]
  /\ UNCHANGED <<stored, made, starts, unread, signIn, key, faults>>

-----------------------------------------------------------------------------
(* Sessions                                                                *)

\* handleLogin: the browser is sent to GitHub, with a state to come back with.
Login(b) ==
  /\ Running
  /\ flow' = [flow EXCEPT ![b] = "redirected"]
  /\ UNCHANGED <<server, cookie, apiKeys, faults>>

\* GitHub says who it is.
GitHubAnswers(b, l) ==
  /\ flow[b] = "redirected"
  /\ flow' = [flow EXCEPT ![b] = l]
  /\ UNCHANGED <<server, cookie, apiKeys, faults>>

\* handleCallback: only admins are given a cookie.
Callback(b) ==
  /\ Running
  /\ flow[b] \in Logins
  /\ flow' = [flow EXCEPT ![b] = None]
  /\ cookie' = IF flow[b] \in admins
               THEN [cookie EXCEPT ![b] = [login |-> flow[b], secret |-> loaded, left |-> TTL]]
               ELSE cookie
  /\ UNCHANGED <<server, apiKeys, faults>>

\* handleLogout
Logout(b) ==
  /\ Running
  /\ cookie' = [cookie EXCEPT ![b] = None]
  /\ UNCHANGED <<server, flow, apiKeys, faults>>

\* Time passes; a cookie that is over is dropped by its browser.
Tick ==
  /\ \E b \in Browsers : cookie[b] # None
  /\ cookie' = [b \in Browsers |->
       IF cookie[b] = None \/ cookie[b].left = 0 THEN None
       ELSE [cookie[b] EXCEPT !.left = @ - 1]]
  /\ UNCHANGED <<server, flow, apiKeys, faults>>

\* currentUser: verifySession and IsAdmin.
Admitted(b) ==
  /\ Running
  /\ cookie[b] # None
  /\ cookie[b].secret = loaded
  /\ cookie[b].login \in admins

-----------------------------------------------------------------------------
(* API keys                                                                *)

CreateKey(k) ==
  /\ Running
  /\ key[k] = "unknown"
  /\ key' = [key EXCEPT ![k] = "minted"]
  /\ UNCHANGED <<server, signIn, request, faults>>

\* The requests with this key have not had it all along.
DeleteKey(k) ==
  /\ Running
  /\ key[k] = "minted"
  /\ key' = [key EXCEPT ![k] = "deleted"]
  /\ request' = [r \in Readers |->
       IF request[r] # None /\ request[r].key = k THEN [request[r] EXCEPT !.kept = FALSE]
       ELSE request[r]]
  /\ UNCHANGED <<server, signIn, faults>>

\* requireAPIKey: a request arrives; kept: its key has been there ever since and
\* could be looked up.
Receive(r, k) ==
  /\ Running
  /\ request[r] = None
  /\ request' = [request EXCEPT ![r] = [key |-> k, at |-> "received", kept |-> key[k] = "minted"]]
  /\ UNCHANGED <<server, signIn, key, faults>>

\* ValidateAPIKey: the row with the hash of the key, if there is one.
LookUp(r) ==
  /\ request[r] # None /\ request[r].at = "received"
  /\ request' = [request EXCEPT ![r].at = IF key[request[r].key] = "minted" THEN "found" ELSE "refused"]
  /\ UNCHANGED <<server, signIn, key, faults>>

LookUpFails(r) ==
  /\ request[r] # None /\ request[r].at = "received"
  /\ Fault
  /\ request' = [request EXCEPT ![r].at = "refused", ![r].kept = FALSE]
  /\ UNCHANGED <<server, signIn, key>>

\* ValidateAPIKey: last_used is written, of a key that may be gone by now.
Touch(r) ==
  /\ request[r] # None /\ request[r].at = "found"
  /\ request' = [request EXCEPT ![r].at = "answered"]
  /\ UNCHANGED <<server, signIn, key, faults>>

\* Mutant: a key whose last use cannot be noted is refused.
Bug_TouchFails(r) ==
  /\ request[r] # None /\ request[r].at = "found"
  /\ Fault
  /\ request' = [request EXCEPT ![r].at = "refused"]
  /\ UNCHANGED <<server, signIn, key>>

\* It could not be written, and the request goes on.
TouchFails(r) ==
  /\ request[r] # None /\ request[r].at = "found"
  /\ Fault
  /\ request' = [request EXCEPT ![r].at = "answered"]
  /\ UNCHANGED <<server, signIn, key>>

Forget(r) ==
  /\ request[r] # None /\ request[r].at \in {"answered", "refused"}
  /\ request' = [request EXCEPT ![r] = None]
  /\ UNCHANGED <<server, signIn, key, faults>>

Next ==
  \/ \E list \in SUBSET Logins : StartUp(list) \/ StartUpUnread(list)
  \/ Stop \/ Tick
  \/ \E b \in Browsers : \/ Login(b) \/ Callback(b) \/ Logout(b)
                         \/ \E l \in Logins : GitHubAnswers(b, l)
  \/ \E k \in Keys : CreateKey(k) \/ DeleteKey(k)
  \/ \E r \in Readers : \/ \E k \in Keys : Receive(r, k)
                        \/ LookUp(r) \/ LookUpFails(r) \/ Touch(r) \/ TouchFails(r) \/ Forget(r)

Spec == Init /\ [][Next]_vars

-----------------------------------------------------------------------------

\* A session lasts as long as its cookie: whatever restarts come in between, a
\* server that has its login on the list lets it in, unless the stored secret could
\* not be read at a start and was replaced (db.go:184-197, auth.go:61-74).
SessionsLast ==
  \A b \in Browsers :
    Running /\ cookie[b] # None /\ cookie[b].login \in admins /\ ~unread => Admitted(b)

\* A v1 request whose key has been there all along, and could be looked up, is not
\* refused, though the note of the key's use could not be written (readonly.go:85-96).
KeysLast ==
  \A r \in Readers : request[r] # None /\ request[r].kept => request[r].at # "refused"
=============================================================================
