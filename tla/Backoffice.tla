----------------------------- MODULE Backoffice ------------------------------
(* Small services of the back office.  Settings: one row, of which the        *)
(* maintenance mode is cached in memory for a while.  Notifications and jobs: *)
(* rows that are processed and retried a limited number of times.             *)
(* A request reads and checks in one step and writes in a later one.          *)
(* (X_Bug is X with a plausible mistake.)                                     *)
EXTENDS Integers, FiniteSets, Sequences, SequencesExt

CONSTANTS
  BackRequests,   \* requests there can be at a time
  MaxRows,        \* bound: rows of settings there can be
  CacheTTL,       \* how long a cached mode is good for
  MaxClock,       \* bound: time
  Letters, Jobs,  \* notifications and jobs
  MaxRetryCount,  \* retries of one of them
  MaxRestarts,    \* bound: restarts of the process
  BackOffers      \* the sets of operations to explore, one per behaviour

ASSUME BackofficeAssumption ==
  /\ MaxRows \in Nat \ {0} /\ CacheTTL \in Nat \ {0} /\ MaxClock \in Nat
  /\ MaxRetryCount \in Nat /\ MaxRestarts \in Nat
  /\ IsFiniteSet(BackRequests) /\ Letters \cap Jobs = {}

VARIABLES
  settings,   \* the maintenance mode in every row, the newest last
  cache,      \* the cached mode and since when, or nothing
  clock,
  current,    \* when a mode was last the one in force
  missed,     \* a change of it went past the cache
  parcel,     \* notifications and jobs: status, retryCount
  mails,      \* how often a notification was handed to its channel
  run,        \* of a notification: the sendings under way, by their next step
  errand,     \* requests in flight
  backOffer, restarts

settingVars == <<settings, cache, clock, current, missed>>
parcelVars == <<parcel, mails, run>>
backVars == <<settingVars, parcelVars, errand, backOffer, restarts>>

Parcels == Letters \cup Jobs
BackOps == {"readMode", "getSettings", "updateSettings", "send", "queue", "retry", "createJob", "cancel"}
NoErrand == [op |-> "none", at |-> 0, row |-> 0, mode |-> FALSE, of |-> {}]
Errands == [op : BackOps \cup {"none"}, at : 0 .. MaxClock, row : 0 .. MaxRows, mode : BOOLEAN,
            of : SUBSET Parcels]
NoCache == [mode |-> FALSE, at |-> 0, filled |-> FALSE]
LetterStatus == {"none", "PENDING", "PROCESSING", "SENT", "FAILED"}
JobStatus == {"none", "PENDING", "PROCESSING", "COMPLETED", "FAILED", "CANCELLED"}

BackTypeOK ==
  /\ settings \in Seq(BOOLEAN) /\ Len(settings) <= MaxRows
  /\ cache \in [mode : BOOLEAN, at : 0 .. MaxClock, filled : BOOLEAN]
  /\ clock \in 0 .. MaxClock
  /\ current \in [BOOLEAN -> 0 .. MaxClock] /\ missed \in BOOLEAN
  /\ parcel \in [Parcels -> [status : LetterStatus \cup JobStatus, retryCount : Nat]]
  /\ mails \in [Letters -> Nat]
  /\ run \in [Letters -> [fetch : Nat, mark : Nat, mail : Nat, fate : Nat]]
  /\ errand \in [BackRequests -> Errands]
  /\ backOffer \in BackOffers /\ restarts \in 0 .. MaxRestarts

NoRun == [fetch |-> 0, mark |-> 0, mail |-> 0, fate |-> 0]

BackInit ==
  /\ settings \in {<< >>, <<FALSE>>, <<TRUE>>}
  /\ cache = NoCache /\ clock = 0 /\ current = [m \in BOOLEAN |-> 0]
  /\ missed = FALSE
  /\ parcel = [n \in Parcels |-> [status |-> "none", retryCount |-> 0]]
  /\ mails = [n \in Letters |-> 0] /\ run = [n \in Letters |-> NoRun]
  /\ errand = [h \in BackRequests |-> NoErrand]
  /\ backOffer \in BackOffers /\ restarts = 0

Start(h, e) ==
  /\ e.op \in backOffer
  /\ errand[h] = NoErrand
  /\ errand' = [errand EXCEPT ![h] = e]
  /\ UNCHANGED <<backOffer, restarts>>

Return(h) == errand' = [errand EXCEPT ![h] = NoErrand] /\ UNCHANGED <<backOffer, restarts>>

-----------------------------------------------------------------------------
(* SettingsService.                                                           *)

\* findFirst, the newest first; without a row, maintenance is off.
InForce(rows) == IF rows = << >> THEN FALSE ELSE Last(rows)

\* The rows become rows; from then on the mode they say is in force.
Store(rows) ==
  /\ settings' = rows
  /\ current' = [current EXCEPT ![InForce(settings)] = clock, ![InForce(rows)] = clock]

Fresh == cache.filled /\ clock - cache.at < CacheTTL

\* getMaintenanceState, where the cache does not answer.
ReadMode(h) ==
  /\ ~Fresh
  /\ Start(h, [NoErrand EXCEPT !.op = "readMode", !.at = clock])
  /\ UNCHANGED <<settingVars, parcelVars>>

\* The query; its answer is on the way.
FetchMode(h) ==
  /\ errand[h].op = "readMode" /\ errand[h].row = 0
  /\ errand' = [errand EXCEPT ![h].mode = InForce(settings), ![h].row = 1]
  /\ UNCHANGED <<settingVars, parcelVars, backOffer, restarts>>

\* It counts from before the query.
FillCache(h) ==
  /\ errand[h].op = "readMode" /\ errand[h].row = 1
  /\ cache' = [mode |-> errand[h].mode, at |-> errand[h].at, filled |-> TRUE]
  /\ Return(h)
  /\ UNCHANGED <<settings, clock, current, missed, parcelVars>>

\* getSettings, and updateSettings with a mode: the row found, or 0.
FindSettings(h) ==
  \E op \in {"getSettings", "updateSettings"}, m \in BOOLEAN :
    /\ op = "getSettings" => settings = << >> /\ ~m
    /\ Start(h, [NoErrand EXCEPT !.op = op, !.row = Len(settings), !.mode = m])
    /\ UNCHANGED <<settingVars, parcelVars>>

\* None was found: a row is made, whoever made one in the meantime; the cache stays.
CreateSettings(h) ==
  /\ errand[h].op \in {"getSettings", "updateSettings"} /\ errand[h].row = 0
  /\ Len(settings) < MaxRows
  /\ Store(Append(settings, errand[h].mode))
  /\ missed' = (missed \/ errand[h].mode # InForce(settings))
  /\ Return(h)
  /\ UNCHANGED <<cache, clock, parcelVars>>

\* A read that fetched and has not filled the cache yet.
Fetched(h) == errand[h].op = "readMode" /\ errand[h].row = 1

UpdateSettings_KeepsCache(h) ==
  /\ errand[h].op = "updateSettings" /\ errand[h].row # 0
  /\ Store([settings EXCEPT ![errand[h].row] = errand[h].mode])
  /\ missed' = (missed \/ \E g \in BackRequests : Fetched(g))
  /\ Return(h)
  /\ UNCHANGED <<cache, clock, parcelVars>>

\* The row found is changed, and the cache dropped afterwards.
UpdateSettings(h) ==
  /\ errand[h].op = "updateSettings" /\ errand[h].row # 0
  /\ Store([settings EXCEPT ![errand[h].row] = errand[h].mode])
  /\ missed' = (missed \/ \E g \in BackRequests : Fetched(g))
  /\ cache' = NoCache
  /\ Return(h)
  /\ UNCHANGED <<clock, parcelVars>>

Tick ==
  /\ clock < MaxClock
  /\ clock' = clock + 1
  /\ current' = [current EXCEPT ![InForce(settings)] = clock + 1]
  /\ UNCHANGED <<settings, cache, missed, parcelVars, errand, backOffer, restarts>>

-----------------------------------------------------------------------------
(* NotificationsService and JobsService.                                      *)

\* send and queue; jobs are created pending, or found in any state (nothing in the
\* program executes them).
CreateParcel(h) ==
  \E n \in Parcels, op \in {"send", "queue", "createJob"} :
    /\ op \in backOffer /\ op = "createJob" <=> n \in Jobs
    /\ errand[h] = NoErrand
    /\ parcel[n].status = "none"
    /\ \E s \in IF n \in Jobs THEN JobStatus \ {"none"} ELSE {"PENDING"} :
         parcel' = [parcel EXCEPT ![n].status = s]
    /\ run' = IF op = "send" THEN [run EXCEPT ![n].fetch = @ + 1] ELSE run
    /\ UNCHANGED <<settingVars, mails, errand, backOffer, restarts>>

Retryable(n) ==
  /\ parcel[n].status \in {"FAILED"} \cup (IF n \in Jobs THEN {"CANCELLED"} ELSE {})
  /\ parcel[n].retryCount < MaxRetryCount

Retry_OffByOne(h) ==
  \E n \in Parcels :
    /\ parcel[n].status \in {"FAILED"} \cup (IF n \in Jobs THEN {"CANCELLED"} ELSE {})
    /\ parcel[n].retryCount <= MaxRetryCount
    /\ Start(h, [NoErrand EXCEPT !.op = "retry", !.of = {n}])
    /\ UNCHANGED <<settingVars, parcelVars>>

Retry(h) ==
  \E n \in Parcels :
    /\ Retryable(n)
    /\ Start(h, [NoErrand EXCEPT !.op = "retry", !.of = {n}])
    /\ UNCHANGED <<settingVars, parcelVars>>

\* An update by id, and for a notification another sending.
Requeue(h) ==
  \E n \in Parcels :
    /\ errand[h].op = "retry" /\ errand[h].of = {n}
    /\ parcel' = [parcel EXCEPT ![n] = [status |-> "PENDING", retryCount |-> @.retryCount + 1]]
    /\ run' = IF n \in Letters THEN [run EXCEPT ![n].fetch = @ + 1] ELSE run
    /\ Return(h)
    /\ UNCHANGED <<settingVars, mails>>

Cancel(h) ==
  \E n \in Jobs :
    /\ parcel[n].status \notin {"none", "COMPLETED", "CANCELLED"}
    /\ Start(h, [NoErrand EXCEPT !.op = "cancel", !.of = {n}])
    /\ UNCHANGED <<settingVars, parcelVars>>

SaveCancelled(h) ==
  \E n \in Jobs :
    /\ errand[h].op = "cancel" /\ errand[h].of = {n}
    /\ parcel' = [parcel EXCEPT ![n].status = "CANCELLED"]
    /\ Return(h)
    /\ UNCHANGED <<settingVars, mails, run>>

\* One sending goes from one step to the next, or ends.
Advance(n, from, to) ==
  /\ run[n][from] > 0
  /\ run' = [run EXCEPT ![n] = [s \in DOMAIN @ |->
       @[s] + (IF s = to THEN 1 ELSE 0) - (IF s = from THEN 1 ELSE 0)]]
  /\ UNCHANGED <<settingVars, errand, backOffer, restarts>>

\* processNotification: a pending one goes on.
ProcessNotification(n) ==
  /\ Advance(n, "fetch", IF parcel[n].status = "PENDING" THEN "mark" ELSE "end")
  /\ UNCHANGED <<parcel, mails>>

MarkProcessing(n) ==
  /\ Advance(n, "mark", "mail")
  /\ parcel' = [parcel EXCEPT ![n].status = "PROCESSING"]
  /\ UNCHANGED mails

SendMail(n) ==
  /\ Advance(n, "mail", "fate")
  /\ mails' = [mails EXCEPT ![n] = @ + 1]
  /\ UNCHANGED parcel

\* SENT, or markNotificationFailed.
SaveFate(n) ==
  /\ Advance(n, "fate", "end")
  /\ \E s \in {"SENT", "FAILED"} : parcel' = [parcel EXCEPT ![n].status = s]
  /\ UNCHANGED mails

-----------------------------------------------------------------------------
\* What was in memory is gone: the cache, requests, sendings.
Restart ==
  /\ "restart" \in backOffer /\ restarts < MaxRestarts
  /\ restarts' = restarts + 1
  /\ cache' = NoCache
  /\ run' = [n \in Letters |-> NoRun]
  /\ errand' = [h \in BackRequests |-> NoErrand]
  /\ UNCHANGED <<settings, clock, current, missed, parcel, mails, backOffer>>

BackStep(h) ==
  \/ ReadMode(h) \/ FetchMode(h) \/ FillCache(h) \/ FindSettings(h) \/ CreateSettings(h) \/ UpdateSettings(h)
  \/ CreateParcel(h) \/ Retry(h) \/ Requeue(h) \/ Cancel(h) \/ SaveCancelled(h)

BackNext ==
  \/ \E h \in BackRequests : BackStep(h)
  \/ \E n \in Letters : ProcessNotification(n) \/ MarkProcessing(n) \/ SendMail(n) \/ SaveFate(n)
  \/ Tick \/ Restart

BackSpec == BackInit /\ [][BackNext]_backVars

-----------------------------------------------------------------------------
\* The cache never answers with a mode that has been out of force for the time it is
\* good for, however slow a read was and whatever was saved during it.  It answers with
\* the mode in force, as the comment on getMaintenanceState promises of every change,
\* until one went past it: the row was made when there was none, which drops no cache,
\* or a read had fetched the mode before the change and filled the cache after it.
MaintenanceIsFresh ==
  Fresh => /\ clock - current[cache.mode] < CacheTTL
           /\ ~missed => cache.mode = InForce(settings)

\* Requests that overlap retry a notification or a job once more than allowed each, and
\* no more; every mail is the first one or due to a retry that was counted.
RetriesBounded ==
  /\ \A n \in Parcels : parcel[n].retryCount > 0 =>
       parcel[n].retryCount < MaxRetryCount + Cardinality(BackRequests)
  /\ \A n \in Letters : mails[n] <= 1 + parcel[n].retryCount
=============================================================================
