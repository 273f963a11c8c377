------------------------------ MODULE Notifier ------------------------------
(***************************************************************************)
(* Alerts and the settings they are sent with.  Nothing is cached: every   *)
(* alert, and every test that an admin asks for, reads the settings it     *)
(* needs one by one, while admins store the fields of the settings form    *)
(* one by one.  A setting that cannot be read counts as empty.             *)
(*                                                                         *)
(* An alert is a goroutine of its own: first Discord, with a timeout of    *)
(* ten seconds, then the mail server, with none.                           *)
(***************************************************************************)
EXTENDS Naturals, Sequences, SequencesExt

CONSTANTS
  Forms,      \* filled-in settings forms: functions from keys to values
  Unset,      \* an empty setting
  Admins,     \* concurrent saves
  Jobs,       \* concurrent alerts and tests
  MaxSaves,   \* how many forms are saved
  MaxFaults,  \* how many database errors may happen
  None        \* "no form", "no save"

\* In the order they are stored in, without the title of the site; port
\* and password are read and passed on like the host.  SendMail reads in this order too.
SettableKeys     == <<"webhook", "host", "user", "from", "to">>
MailKeys         == Tail(SettableKeys)
Channels         == {"discord", "mail"}
Empty            == [k \in ToSet(SettableKeys) |-> Unset]

VARIABLES
  stored,  \* the settings table
  save,    \* save[a]: the form a's request is storing, and the keys left
  job,     \* job[j]: an alert or test, what it has read and tried
  saves,   \* forms saved so far
  faults,  \* database errors so far
  whole,   \* history: the form that is stored, of which no part was overlapped or lost
  tested   \* history: channels tested with success since the table last changed

vars == <<stored, save, job, saves, faults, whole, tested>>

\* base: the form that has been stored, and whole, ever since the job began;
\* due: the channels whose test had succeeded by then, and nothing happened since.
Idle == [kind |-> "none", at |-> "idle", got |-> Empty, left |-> <<>>,
         tried |-> {}, base |-> None, due |-> {}]

TypeOK ==
  /\ DOMAIN stored = ToSet(SettableKeys)
  /\ \A a \in Admins : save[a] # None =>
       save[a].form \in Forms /\ save[a].left \in Suffixes(SettableKeys) /\ save[a].alone \in BOOLEAN
  /\ \A j \in Jobs :
       /\ job[j].at \in {"idle", "webhook", "discord", "host", "to", "mail", "sending", "done"}
       /\ job[j].left \in Suffixes(MailKeys)
       /\ job[j].tried \subseteq Channels /\ job[j].due \subseteq Channels
  /\ saves \in 0..MaxSaves /\ faults \in 0..MaxFaults
  /\ whole \in Forms \cup {Empty, None}
  /\ tested \subseteq Channels

Init ==
  /\ stored = Empty
  /\ save = [a \in Admins |-> None]
  /\ job = [j \in Jobs |-> Idle]
  /\ saves = 0 /\ faults = 0
  /\ whole = Empty
  /\ tested = {}

Fault == faults < MaxFaults /\ faults' = faults + 1

\* Nothing is certain any more about what this job will use.
Blind(r) == [r EXCEPT !.base = None, !.due = {}]

-----------------------------------------------------------------------------
(* PUT /api/admin/settings                                                 *)

Overlapped(s) == IF s = None THEN None ELSE [s EXCEPT !.alone = FALSE]

\* A form has every setting, as the settings page sends it (webfs/admin.js:720-725).
BeginSave(a, f) ==
  /\ save[a] = None
  /\ saves < MaxSaves
  /\ saves' = saves + 1
  /\ LET alone == \A b \in Admins : save[b] = None
     IN save' = [b \in Admins |->
                  IF b = a THEN [form |-> f, left |-> SettableKeys, alone |-> alone]
                  ELSE Overlapped(save[b])]
  /\ UNCHANGED <<stored, job, faults, whole, tested>>

\* Mutant: empty fields are not stored.
Bug_Written(k, v) == IF v = Unset THEN stored ELSE [stored EXCEPT ![k] = v]

\* SetSetting
Written(k, v) == [stored EXCEPT ![k] = v]

\* One field is stored; after the last one the request is answered.
Put(a) ==
  /\ save[a] # None
  /\ LET s == save[a]
         last == Tail(s.left) = <<>>
     IN /\ stored' = Written(Head(s.left), s.form[Head(s.left)])
        /\ save' = [save EXCEPT ![a] = IF last THEN None ELSE [s EXCEPT !.left = Tail(s.left)]]
        /\ whole' = IF last /\ s.alone THEN s.form ELSE None
  /\ job' = [j \in Jobs |-> Blind(job[j])]
  /\ tested' = {}
  /\ UNCHANGED <<saves, faults>>

\* A field cannot be stored: those before it stay, those after it are left out.
PutFails(a) ==
  /\ save[a] # None
  /\ Fault
  /\ save' = [save EXCEPT ![a] = None]
  /\ UNCHANGED <<stored, job, saves, whole, tested>>

-----------------------------------------------------------------------------
(* Alerts and tests                                                        *)

Begin(j, kind) ==
  /\ job[j] = Idle
  /\ job' = [job EXCEPT ![j] =
       [kind |-> kind, at |-> IF kind = "test mail" THEN "mail" ELSE "webhook",
        got |-> Empty, left |-> MailKeys, tried |-> {}, base |-> whole, due |-> tested]]
  /\ UNCHANGED <<stored, save, saves, faults, whole, tested>>

\* GetSetting: the setting, or nothing when it cannot be read.
Told(k) == {[value |-> stored[k], ok |-> TRUE], [value |-> Unset, ok |-> FALSE]}

\* j has been told t and goes on as r.
Proceed(j, t, r) ==
  /\ IF t.ok THEN UNCHANGED faults ELSE Fault
  /\ job' = [job EXCEPT ![j] = IF t.ok THEN r ELSE Blind(r)]
  /\ UNCHANGED <<stored, save, saves, whole, tested>>

\* What follows Discord: the mail, unless only Discord was to be tested.
Mailing(r) == [r EXCEPT !.at = IF r.kind = "alert" THEN "host" ELSE "done"]

ReadWebhook(j) ==
  /\ job[j].at = "webhook"
  /\ \E t \in Told("webhook") : Proceed(j, t,
       IF t.value = Unset THEN Mailing(job[j])
       ELSE [job[j] EXCEPT !.at = "discord", !.got["webhook"] = t.value, !.tried = {"discord"}])

\* A test that succeeds, with the table as it was when it began.
Passed(r, channel) ==
  tested' = IF r.kind # "alert" /\ r.base # None THEN tested \cup {channel} ELSE tested

\* Discord answers: whatever it says, the mail comes next.
DiscordAnswers(j, ok) ==
  /\ job[j].at = "discord"
  /\ job' = [job EXCEPT ![j] = Mailing(@)]
  /\ IF ok THEN Passed(job[j], "discord") ELSE UNCHANGED tested
  /\ UNCHANGED <<stored, save, saves, faults, whole>>

\* Mutant: a client without a timeout goes on waiting.
Bug_DiscordTimesOut(j) == job[j].at = "discord" /\ UNCHANGED vars

DiscordTimesOut(j) == DiscordAnswers(j, FALSE)

\* dispatch: is there a mail server at all, and anybody to write to?
ReadHost(j) ==
  /\ job[j].at = "host"
  /\ \E t \in Told("host") : Proceed(j, t, [job[j] EXCEPT !.at = IF t.value = Unset THEN "done" ELSE "to"])

\* Mutant: the alert asks for a user, which mail servers without sign-in do not need.
Bug_ReadTo(j) ==
  /\ job[j].at = "to"
  /\ \E t \in Told("user") : Proceed(j, t, [job[j] EXCEPT !.at = IF t.value = Unset THEN "done" ELSE "mail"])

ReadTo(j) ==
  /\ job[j].at = "to"
  /\ \E t \in Told("to") : Proceed(j, t, [job[j] EXCEPT !.at = IF t.value = Unset THEN "done" ELSE "mail"])

From(got) == IF got["from"] = Unset THEN got["user"] ELSE got["from"]

Complete(got) == got["host"] # Unset /\ From(got) # Unset /\ got["to"] # Unset

\* SendMail reads the next of its settings; after the last one it calls the mail
\* server or gives up.
ReadMailSetting(j) ==
  /\ job[j].at = "mail"
  /\ \E t \in Told(Head(job[j].left)) :
       LET got  == [job[j].got EXCEPT ![Head(job[j].left)] = t.value]
           left == Tail(job[j].left)
           r    == [job[j] EXCEPT !.got = got, !.left = left]
       IN Proceed(j, t,
            CASE left # <<>>                   -> r
              [] left = <<>> /\ Complete(got)  -> [r EXCEPT !.at = "sending", !.tried = @ \cup {"mail"}]
              [] left = <<>> /\ ~Complete(got) -> [r EXCEPT !.at = "done"])

\* The mail server answers, if it ever does.
MailAnswers(j, ok) ==
  /\ job[j].at = "sending"
  /\ job' = [job EXCEPT ![j].at = "done"]
  /\ IF ok THEN Passed(job[j], "mail") ELSE UNCHANGED tested
  /\ UNCHANGED <<stored, save, saves, faults, whole>>

End(j) ==
  /\ job[j].at = "done"
  /\ job' = [job EXCEPT ![j] = Idle]
  /\ UNCHANGED <<stored, save, saves, faults, whole, tested>>

Reads(j) == ReadWebhook(j) \/ ReadHost(j) \/ ReadTo(j) \/ ReadMailSetting(j)

Next ==
  \/ \E a \in Admins : \/ \E f \in Forms : BeginSave(a, f)
                       \/ Put(a)
                       \/ PutFails(a)
  \/ \E j \in Jobs : \/ \E kind \in {"alert", "test discord", "test mail"} : Begin(j, kind)
                     \/ Reads(j)
                     \/ DiscordTimesOut(j)
                     \/ \E ok \in BOOLEAN : DiscordAnswers(j, ok) \/ MailAnswers(j, ok)
                     \/ End(j)

Spec == Init /\ [][Next]_vars

\* A job's queries are answered (module ConnPool) and Discord is given up after ten
\* seconds; nothing makes a mail server answer, an admin save or an alert begin.
Fairness == \A j \in Jobs : WF_vars(Reads(j)) /\ WF_vars(DiscordTimesOut(j))

-----------------------------------------------------------------------------

\* A mail sent while the table held one form, stored whole and untouched ever since
\* the job began, is sent with that form's settings and no older ones: an emptied
\* field counts as much as a new one, and no restart is needed (alerts.go:16-18).
OneForm ==
  \A j \in Jobs :
    job[j].at = "sending" /\ job[j].base # None =>
      \A k \in ToSet(MailKeys) : job[j].got[k] = job[j].base[k]

\* A channel that passed its test while the table held one form, stored whole, is used
\* by every alert from then on, until a save begins or a setting cannot be read:
\* dispatch (alerts.go:57-68) asks for no more than the tests do (api.go:571-595), and
\* no failure of Discord keeps the mail back.
TestedIsUsed ==
  \A j \in Jobs : job[j].kind = "alert" /\ job[j].at = "done" => job[j].due \subseteq job[j].tried

\* An alert gets as far as the mail server, or finds nothing configured, however
\* Discord behaves, and whatever is saved, tested or fails meanwhile (alerts.go:58-68,
\* 82).  From there on nothing makes a mail server answer (alerts.go:164).
EveryAlertGetsThrough ==
  \A j \in Jobs : job[j].at = "webhook" ~> job[j].at \in {"sending", "done"}
=============================================================================
