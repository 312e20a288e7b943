---------------------------- MODULE PortalAccess -----------------------------
(* One customer's way into the portal: the codes sent to an e-mail address,   *)
(* the identity of that address and its sessions (PortalAuthService and       *)
(* PortalSessionsService).  Nothing in them crosses e-mail addresses.  Every  *)
(* await is a step of its own.  Two codes of one address are taken to differ. *)
EXTENDS Integers, FiniteSets

CONSTANTS
  PortalRequests,     \* requests there can be at a time
  MaxPerHour,         \* OTP_MAX_ATTEMPTS_PER_HOUR
  MaxCodes, MaxPortalSessions,  \* bounds: rows
  MaxPortalFaults     \* bound: requests that fail half-way

ASSUME PortalAssumption ==
  /\ MaxPerHour \in Nat \ {0} /\ MaxPortalFaults \in Nat
  /\ MaxCodes \in Nat /\ MaxPortalSessions \in Nat
  /\ IsFiniteSet(PortalRequests)

Codes == 1 .. MaxCodes  \* rows, in the order they are stored
PortalSessions == 1 .. MaxPortalSessions

VARIABLES
  identity,       \* the row of the address: none, active or inactive
  age, used,      \* of a code
  login,          \* of a session: the code it descends from, 0 for no session
  ended,          \* of a session: no, revoked or lapsed
  step, item,     \* of a request: where it is, and the code or session it has in hand
  portalRaced, portalFaults  \* two requests overlapped; requests that failed

portalVars == <<identity, age, used, login, ended, step, item, portalRaced, portalFaults>>

\* createdAt: within the cooldown, before expiresAt, within the hour, before that.
Ages == {"none", "fresh", "valid", "expired", "old"}
Steps == {"idle", "cooled", "counted", "cleared",
          "matched", "marked", "unknown", "welcome", "found", "allowed", "leaving"}

PortalTypeOK ==
  /\ identity \in {"none", "active", "inactive"}
  /\ age \in [Codes -> Ages] /\ used \in [Codes -> BOOLEAN]
  /\ login \in [PortalSessions -> Codes \cup {0}]
  /\ ended \in [PortalSessions -> {"no", "revoked", "lapsed"}]
  /\ step \in [PortalRequests -> Steps] /\ item \in [PortalRequests -> Nat]
  /\ portalRaced \in BOOLEAN /\ portalFaults \in 0 .. MaxPortalFaults

PortalInit ==
  /\ identity \in {"none", "active", "inactive"}
  /\ age = [c \in Codes |-> "none"] /\ used = [c \in Codes |-> FALSE]
  /\ login = [s \in PortalSessions |-> 0] /\ ended = [s \in PortalSessions |-> "no"]
  /\ step = [h \in PortalRequests |-> "idle"] /\ item = [h \in PortalRequests |-> 0]
  /\ portalRaced = FALSE /\ portalFaults = 0

Stored == {c \in Codes : age[c] # "none"}
Recent == {c \in Codes : age[c] \in {"fresh", "valid", "expired"}}
Usable(c) == age[c] \in {"fresh", "valid"} /\ ~used[c]
Live(s) == login[s] # 0 /\ ended[s] = "no"

\* A request arrives, finds x and goes on from step p.
Enter(h, p, x) ==
  /\ step[h] = "idle"
  /\ step' = [step EXCEPT ![h] = p] /\ item' = [item EXCEPT ![h] = x]
  /\ portalRaced' = (portalRaced \/ \E g \in PortalRequests : step[g] # "idle")
  /\ UNCHANGED portalFaults

Move(h, p) ==
  /\ step' = [step EXCEPT ![h] = p]
  /\ item' = [item EXCEPT ![h] = IF p = "idle" THEN 0 ELSE @]
  /\ UNCHANGED <<portalRaced, portalFaults>>

-----------------------------------------------------------------------------
(* sendOtp.                                                                   *)

CheckResendCooldown(h) ==
  /\ \A c \in Codes : age[c] # "fresh"
  /\ Enter(h, "cooled", 0)
  /\ UNCHANGED <<identity, age, used, login, ended>>

CheckHourlyRateLimit_OffByOne(h) ==
  /\ step[h] = "cooled"
  /\ IF Cardinality(Recent) > MaxPerHour THEN Move(h, "idle") ELSE Move(h, "counted")
  /\ UNCHANGED <<identity, age, used, login, ended>>

CheckHourlyRateLimit(h) ==
  /\ step[h] = "cooled"
  /\ IF Cardinality(Recent) >= MaxPerHour THEN Move(h, "idle") ELSE Move(h, "counted")
  /\ UNCHANGED <<identity, age, used, login, ended>>

InvalidateCodes_Recent(h) ==
  /\ step[h] = "counted"
  /\ used' = [c \in Codes |-> used[c] \/ age[c] = "fresh"]
  /\ Move(h, "cleared")
  /\ UNCHANGED <<identity, age, login, ended>>

\* Every code that is not used, expired ones too.
InvalidateCodes(h) ==
  /\ step[h] = "counted"
  /\ used' = [c \in Codes |-> used[c] \/ c \in Stored]
  /\ Move(h, "cleared")
  /\ UNCHANGED <<identity, age, login, ended>>

StoreCode(h) ==
  /\ step[h] = "cleared"
  /\ \E c \in Codes \ Stored :
       /\ \A d \in Codes \ Stored : c <= d
       /\ age' = [age EXCEPT ![c] = "fresh"]
  /\ Move(h, "idle")
  /\ UNCHANGED <<identity, used, login, ended>>

-----------------------------------------------------------------------------
(* verifyOtp.                                                                 *)

FindCode(h) ==
  /\ \E c \in Codes : Usable(c) /\ Enter(h, "matched", c)
  /\ UNCHANGED <<identity, age, used, login, ended>>

\* An update by id, whatever became of the code since it was read.
MarkUsed(h) ==
  /\ step[h] = "matched"
  /\ used' = [used EXCEPT ![item[h]] = TRUE]
  /\ Move(h, "marked")
  /\ UNCHANGED <<identity, age, login, ended>>

FindIdentity(h) ==
  /\ step[h] = "marked"
  /\ Move(h, IF identity = "none" THEN "unknown"
             ELSE IF identity = "active" THEN "welcome" ELSE "idle")
  /\ UNCHANGED <<identity, age, used, login, ended>>

\* The unique e-mail makes the second of two first logins fail.
CreateIdentity(h) ==
  /\ step[h] = "unknown"
  /\ identity' = IF identity = "none" THEN "active" ELSE identity
  /\ Move(h, IF identity = "none" THEN "welcome" ELSE "idle")
  /\ UNCHANGED <<age, used, login, ended>>

\* Also the last step of refreshToken.
CreateSession(h) ==
  /\ step[h] = "welcome"
  /\ \E s \in PortalSessions :
       /\ login[s] = 0
       /\ \A r \in PortalSessions : login[r] = 0 => s <= r
       /\ login' = [login EXCEPT ![s] = item[h]]
  /\ Move(h, "idle")
  /\ UNCHANGED <<identity, age, used, ended>>

-----------------------------------------------------------------------------
(* refreshToken and logout.                                                   *)

FindSession(h) ==
  /\ \E s \in PortalSessions : Live(s) /\ \E p \in {"found", "leaving"} : Enter(h, p, s)
  /\ UNCHANGED <<identity, age, used, login, ended>>

CheckIdentity(h) ==
  /\ step[h] = "found"
  /\ Move(h, IF identity = "active" THEN "allowed" ELSE "idle")
  /\ UNCHANGED <<identity, age, used, login, ended>>

\* An update by id; the new session descends from the same code.
RevokeOld_Kept(h) ==
  /\ step[h] = "allowed"
  /\ item' = [item EXCEPT ![h] = login[item[h]]]
  /\ step' = [step EXCEPT ![h] = "welcome"]
  /\ UNCHANGED <<identity, age, used, login, ended, portalRaced, portalFaults>>

RevokeOld(h) ==
  /\ step[h] = "allowed"
  /\ ended' = [ended EXCEPT ![item[h]] = "revoked"]
  /\ item' = [item EXCEPT ![h] = login[item[h]]]
  /\ step' = [step EXCEPT ![h] = "welcome"]
  /\ UNCHANGED <<identity, age, used, login, portalRaced, portalFaults>>

PortalLogout(h) ==
  /\ step[h] = "leaving"
  /\ ended' = [ended EXCEPT ![item[h]] = "revoked"]
  /\ Move(h, "idle")
  /\ UNCHANGED <<identity, age, used, login>>

-----------------------------------------------------------------------------
(* Time and failures.                                                         *)

Older == [none |-> "none", fresh |-> "valid", valid |-> "expired", expired |-> "old", old |-> "old"]

\* Codes age in the order they were stored.
CodeAges ==
  /\ \E c \in Stored :
       /\ age[c] # "old" /\ \A d \in Stored : d < c => age[d] # age[c]
       /\ age' = [age EXCEPT ![c] = Older[@]]
  /\ UNCHANGED <<identity, used, login, ended, step, item, portalRaced, portalFaults>>

PortalSessionLapses ==
  /\ \E s \in PortalSessions : Live(s) /\ ended' = [ended EXCEPT ![s] = "lapsed"]
  /\ UNCHANGED <<identity, age, used, login, step, item, portalRaced, portalFaults>>

\* A query fails or the process stops.  (A request that has written nothing yet might
\* as well not have come.)
PortalRequestFails(h) ==
  /\ portalFaults < MaxPortalFaults
  /\ step[h] \in {"cleared", "marked", "unknown", "welcome"}
  /\ step' = [step EXCEPT ![h] = "idle"] /\ item' = [item EXCEPT ![h] = 0]
  /\ portalFaults' = portalFaults + 1
  /\ UNCHANGED <<identity, age, used, login, ended, portalRaced>>

SendOtp(h) ==
  CheckResendCooldown(h) \/ CheckHourlyRateLimit(h) \/ InvalidateCodes(h) \/ StoreCode(h)
VerifyOtp(h) ==
  FindCode(h) \/ MarkUsed(h) \/ FindIdentity(h) \/ CreateIdentity(h) \/ CreateSession(h)
UseSession(h) ==
  FindSession(h) \/ CheckIdentity(h) \/ RevokeOld(h) \/ PortalLogout(h)

PortalNext ==
  \/ \E h \in PortalRequests : SendOtp(h) \/ VerifyOtp(h) \/ UseSession(h) \/ PortalRequestFails(h)
  \/ CodeAges \/ PortalSessionLapses

PortalSpec == PortalInit /\ [][PortalNext]_portalVars

-----------------------------------------------------------------------------
\* The hourly limit is checked before the code is stored, so requests that
\* overlap exceed it; but by fewer than there are requests at a time, those about
\* to store a code included.
HourlyBounded ==
  Cardinality(Recent) + Cardinality({h \in PortalRequests : step[h] \in {"counted", "cleared"}})
    < MaxPerHour + Cardinality(PortalRequests)

\* One request at a time: from one code, however often the session it opened is
\* refreshed and wherever a refresh stops, at most one session is open.
OneSessionPerCode ==
  ~portalRaced =>
    \A r, s \in PortalSessions : Live(r) /\ Live(s) /\ login[r] = login[s] => r = s

\* One request at a time: only the code sent last opens the portal.
OnlyNewestCode ==
  ~portalRaced => \A c \in Codes : Usable(c) => \A d \in Stored : d <= c
=============================================================================
