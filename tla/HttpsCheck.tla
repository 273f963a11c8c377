----------------------------- MODULE HttpsCheck -----------------------------
(***************************************************************************)
(* The https check over the life of a certificate: time passes between     *)
(* checks, the certificate runs out and is renewed, the site changes its   *)
(* answers.  Time is counted in hours, because the check turns the time    *)
(* left into days with an integer conversion.  A target without TLS has no *)
(* certificate and no part in this.                                        *)
(***************************************************************************)
EXTENDS Integers

CONSTANTS
  MaxLeft,    \* a new certificate's validity, in hours
  MinLeft,    \* certificates that ran out long ago all look alike
  MaxPause    \* longest time between two checks, in hours; at most 15 days

ASSUME HoursAssumption ==
  MaxLeft \in Nat /\ MinLeft \in Int /\ MinLeft <= 0 /\ MaxPause \in 1..360

VARIABLES
  skipTLS,  \* the monitor's skip_tls_verify
  left,     \* hours until the certificate's NotAfter; negative: it ran out
  site,     \* "refuses", or what it answers with, the status code and keyword taken together
  result,   \* the last check result
  due       \* hours that may pass before the next check

vars == <<skipTLS, left, site, result, due>>

\* An answer may have a status code above max_status, or be served well with or
\* without the keyword in the first MiB of its body.
Sites   == {"refuses", "bad status", "no keyword", "good"}
Results == {"none", "failed", "expired", "expires soon", "up"}
IsUp(r) == r \in {"up", "expires soon"}

Init ==
  /\ skipTLS \in BOOLEAN
  /\ left = MaxLeft
  /\ site \in Sites
  /\ result = "none"
  /\ due = 0

-----------------------------------------------------------------------------

\* An hour passes; checks come at least every MaxPause hours.
Hour ==
  /\ due > 0
  /\ due' = due - 1
  /\ left' = IF left > MinLeft THEN left - 1 ELSE left
  /\ UNCHANGED <<skipTLS, site, result>>

Renew == left' = MaxLeft /\ UNCHANGED <<skipTLS, site, result, due>>

SiteChanges ==
  /\ site' \in Sites \ {site}
  /\ UNCHANGED <<skipTLS, left, result, due>>

\* Mutant: the warning starts only on the last day.
Bug_Soon(d) == d <= 0

Soon(d) == d <= 14

\* Mutant: rounded up to whole days.
Bug_DaysLeft == IF left >= 0 THEN (left + 23) \div 24 ELSE -((23 - left) \div 24)

\* int(hours / 24) in Go drops the fraction: towards zero on either side of it.
DaysLeft == IF left >= 0 THEN left \div 24 ELSE -((-left) \div 24)

\* HTTPS: the request fails on a certificate that has run out unless verification
\* is switched off; then status code, certificate and keyword, in this order.
Verdict ==
  CASE site = "refuses" \/ (left < 0 /\ ~skipTLS) -> "failed"
    [] site = "bad status" -> "failed"
    [] DaysLeft < 0 -> "expired"
    [] site = "no keyword" -> "failed"
    [] Soon(DaysLeft) -> "expires soon"
    [] OTHER -> "up"

Check ==
  /\ result' = Verdict
  /\ due' = MaxPause
  /\ UNCHANGED <<skipTLS, left, site>>

Next == Hour \/ Renew \/ SiteChanges \/ Check

Spec == Init /\ [][Next]_vars

-----------------------------------------------------------------------------
(* Properties                                                              *)

TypeOK ==
  /\ skipTLS \in BOOLEAN
  /\ left \in MinLeft..MaxLeft
  /\ site \in Sites
  /\ result \in Results
  /\ due \in 0..MaxPause

\* "TLS certificate expiry detection" (README:20): while a monitor is shown up and
\* its message warns of nothing, its certificate is good, up to the next check.
WarnedInTime == result = "up" => left >= 0

\* "an expired cert counts as down even if the request technically succeeds with
\* verification disabled" (https.go:22-23).
ExpiredIsDown == [][Check /\ left < 0 => ~IsUp(result')]_vars

\* What keeps WarnedInTime: 15 days were left at the last check.
WarningInv == TypeOK /\ (result = "up" => left >= 360 - (MaxPause - due))
=============================================================================
