--------------------------- MODULE BackofficeProofs ---------------------------
(* Proofs about Backoffice: for any number of requests, rows and restarts, and *)
(* however long a read takes, the cached maintenance mode is never older than *)
(* it may be; and overlapping retries exceed the limit by fewer than there    *)
(* are requests, each mail being the first or due to a retry.  Then about     *)
(* Correspondence: for any addresses, templates, overlaps and failures, the   *)
(* letter of an occasion goes out once and is accounted for, and there is an  *)
(* occasion again only behind a write on what was no longer so.               *)
EXTENDS Backoffice, Correspondence, FiniteSetTheorems, TLAPS

\* Errands stay what they are when one of their parts is replaced.
LEMMA PartsOfErrands ==
  ASSUME NEW e \in Errands
  PROVE  /\ \A op \in BackOps : [e EXCEPT !.op = op] \in Errands
         /\ \A at \in 0 .. MaxClock : [e EXCEPT !.at = at] \in Errands
         /\ \A row \in 0 .. MaxRows : [e EXCEPT !.row = row] \in Errands
         /\ \A mode \in BOOLEAN : [e EXCEPT !.mode = mode] \in Errands
         /\ \A of \in SUBSET Parcels : [e EXCEPT !.of = of] \in Errands
<1>1. \A op \in BackOps : [e EXCEPT !.op = op] \in Errands
  BY DEF Errands
<1>2. \A at \in 0 .. MaxClock : [e EXCEPT !.at = at] \in Errands
  BY DEF Errands
<1>3. \A row \in 0 .. MaxRows : [e EXCEPT !.row = row] \in Errands
  BY DEF Errands
<1>4. \A mode \in BOOLEAN : [e EXCEPT !.mode = mode] \in Errands
  BY DEF Errands
<1>5. \A of \in SUBSET Parcels : [e EXCEPT !.of = of] \in Errands
  BY DEF Errands
<1> QED
  BY <1>1, <1>2, <1>3, <1>4, <1>5

LEMMA ErrandIs == NoErrand \in Errands
BY BackofficeAssumption DEF NoErrand, Errands

LEMMA InForceIs == ASSUME NEW rows \in Seq(BOOLEAN) PROVE InForce(rows) \in BOOLEAN
<1>1. CASE rows = << >>
  BY <1>1 DEF InForce
<1>2. CASE rows # << >>
  BY <1>2 DEF InForce, Last
<1> QED
  BY <1>1, <1>2

LEMMA InForceGrows == ASSUME NEW rows \in Seq(BOOLEAN), NEW m \in BOOLEAN PROVE InForce(Append(rows, m)) = m
<1>1. Append(rows, m) # << >> /\ Last(Append(rows, m)) = m
  BY DEF Last
<1> QED
  BY <1>1 DEF InForce

-----------------------------------------------------------------------------
(* Types.                                                                     *)

LEMMA StartTypes ==
  ASSUME BackTypeOK, NEW h \in BackRequests, NEW e \in Errands, Start(h, e)
  PROVE  errand' \in [BackRequests -> Errands] /\ UNCHANGED <<backOffer, restarts>>
BY DEF BackTypeOK, Start

LEMMA ReturnTypes ==
  ASSUME BackTypeOK, NEW h \in BackRequests, Return(h)
  PROVE  errand' \in [BackRequests -> Errands] /\ UNCHANGED <<backOffer, restarts>>
BY ErrandIs DEF BackTypeOK, Return

LEMMA SettingTypes ==
  ASSUME BackTypeOK, NEW h \in BackRequests,
         \/ ReadMode(h) \/ FetchMode(h) \/ FillCache(h) \/ FindSettings(h)
         \/ CreateSettings(h) \/ UpdateSettings(h)
  PROVE  BackTypeOK'
<1> USE BackofficeAssumption
<1>1. CASE ReadMode(h)
  <2>0. [NoErrand EXCEPT !.op = "readMode"] \in Errands /\ clock \in 0 .. MaxClock
    BY ErrandIs, PartsOfErrands DEF BackOps, BackTypeOK
  <2>1. [NoErrand EXCEPT !.op = "readMode", !.at = clock] \in Errands
    BY <2>0, PartsOfErrands
  <2> QED
    BY <1>1, <2>1, StartTypes DEF ReadMode, BackTypeOK, settingVars, parcelVars
<1>2. CASE FetchMode(h)
  <2>1. InForce(settings) \in BOOLEAN
    BY InForceIs DEF BackTypeOK
  <2>2. [errand[h] EXCEPT !.mode = InForce(settings), !.row = 1] \in Errands
    <3>1. [errand[h] EXCEPT !.mode = InForce(settings)] \in Errands /\ 1 \in 0 .. MaxRows
      BY <2>1, PartsOfErrands DEF BackTypeOK
    <3> QED
      BY <3>1, PartsOfErrands
  <2>3. errand' = [errand EXCEPT ![h] = [errand[h] EXCEPT !.mode = InForce(settings), !.row = 1]]
    BY <1>2 DEF FetchMode
  <2> QED
    BY <1>2, <2>2, <2>3 DEF FetchMode, BackTypeOK, settingVars, parcelVars
<1>3. CASE FillCache(h)
  <2>1. cache' \in [mode : BOOLEAN, at : 0 .. MaxClock, filled : BOOLEAN]
    BY <1>3 DEF FillCache, BackTypeOK, Errands
  <2> QED
    BY <1>3, <2>1, ReturnTypes DEF FillCache, BackTypeOK, parcelVars
<1>4. CASE FindSettings(h)
  <2>1. PICK op \in {"getSettings", "updateSettings"}, m \in BOOLEAN :
          Start(h, [NoErrand EXCEPT !.op = op, !.row = Len(settings), !.mode = m])
    BY <1>4 DEF FindSettings
  <2>2. [NoErrand EXCEPT !.op = op, !.row = Len(settings), !.mode = m] \in Errands
    <3>1. [NoErrand EXCEPT !.op = op] \in Errands
      BY ErrandIs, PartsOfErrands DEF BackOps
    <3>2. Len(settings) \in 0 .. MaxRows
      BY DEF BackTypeOK
    <3>3. [[NoErrand EXCEPT !.op = op] EXCEPT !.row = Len(settings)] \in Errands
      BY <3>1, <3>2, PartsOfErrands
    <3> QED
      BY <3>3, PartsOfErrands
  <2> QED
    BY <1>4, <2>1, <2>2, StartTypes DEF FindSettings, BackTypeOK, settingVars, parcelVars
<1>5. ASSUME NEW rows \in Seq(BOOLEAN), Len(rows) <= MaxRows, Store(rows)
      PROVE  /\ settings' \in Seq(BOOLEAN) /\ Len(settings') <= MaxRows
             /\ current' \in [BOOLEAN -> 0 .. MaxClock]
  BY <1>5 DEF Store, BackTypeOK
<1>6. CASE CreateSettings(h)
  <2>1. /\ Append(settings, errand[h].mode) \in Seq(BOOLEAN)
        /\ Len(Append(settings, errand[h].mode)) <= MaxRows
    BY <1>6 DEF CreateSettings, BackTypeOK, Errands
  <2> QED
    BY <1>5, <1>6, <2>1, ReturnTypes DEF CreateSettings, BackTypeOK, parcelVars
<1>7. CASE UpdateSettings(h)
  <2> DEFINE rows == [settings EXCEPT ![errand[h].row] = errand[h].mode]
  <2>1. errand[h].mode \in BOOLEAN
    BY DEF BackTypeOK, Errands
  <2>2. rows \in Seq(BOOLEAN) /\ Len(rows) <= MaxRows
    <3>1. settings \in [1 .. Len(settings) -> BOOLEAN] /\ Len(settings) \in Nat
      BY DEF BackTypeOK
    <3>2. rows \in [1 .. Len(settings) -> BOOLEAN]
      BY <2>1, <3>1
    <3>3. Len(rows) = Len(settings) /\ rows \in Seq(BOOLEAN)
      BY <3>1, <3>2
    <3> QED
      BY <3>3 DEF BackTypeOK
  <2>3. NoCache \in [mode : BOOLEAN, at : 0 .. MaxClock, filled : BOOLEAN]
    BY DEF NoCache
  <2> QED
    BY <1>5, <1>7, <2>2, <2>3, ReturnTypes DEF UpdateSettings, BackTypeOK, parcelVars
<1> QED
  BY <1>1, <1>2, <1>3, <1>4, <1>6, <1>7

LEMMA TickTypes == ASSUME BackTypeOK, Tick PROVE BackTypeOK'
<1>1. clock + 1 \in 0 .. MaxClock
  BY BackofficeAssumption DEF BackTypeOK, Tick
<1>2. current' \in [BOOLEAN -> 0 .. MaxClock] /\ clock' \in 0 .. MaxClock
  BY <1>1 DEF BackTypeOK, Tick
<1> QED
  BY <1>2 DEF Tick, BackTypeOK, parcelVars

LEMMA RunTypes ==
  ASSUME BackTypeOK, NEW n \in Letters
  PROVE  [run EXCEPT ![n].fetch = @ + 1] \in [Letters -> [fetch : Nat, mark : Nat, mail : Nat, fate : Nat]]
<1>1. [run[n] EXCEPT !.fetch = @ + 1] \in [fetch : Nat, mark : Nat, mail : Nat, fate : Nat]
  <2>1. run[n] \in [fetch : Nat, mark : Nat, mail : Nat, fate : Nat]
    BY DEF BackTypeOK
  <2>2. run[n].fetch + 1 \in Nat
    BY <2>1
  <2> QED
    BY <2>1, <2>2
<1> QED
  BY <1>1 DEF BackTypeOK

\* A parcel with another status, or rewritten, is a parcel.
ParcelRecord == [status : LetterStatus \cup JobStatus, retryCount : Nat]

LEMMA ParcelPut ==
  ASSUME parcel \in [Parcels -> ParcelRecord], NEW n \in Parcels, NEW s \in LetterStatus \cup JobStatus, NEW k \in Nat
  PROVE  [parcel EXCEPT ![n] = [status |-> s, retryCount |-> k]] \in [Parcels -> ParcelRecord]
<1>1. [status |-> s, retryCount |-> k] \in ParcelRecord
  BY DEF ParcelRecord
<1> HIDE DEF ParcelRecord
<1> QED
  BY <1>1

LEMMA StatusPut ==
  ASSUME parcel \in [Parcels -> ParcelRecord], NEW n \in Parcels, NEW s \in LetterStatus \cup JobStatus
  PROVE  [parcel EXCEPT ![n].status = s] \in [Parcels -> ParcelRecord]
<1>1. PICK x \in ParcelRecord : x = parcel[n]
  OBVIOUS
<1>2. [x EXCEPT !.status = s] \in ParcelRecord
  BY DEF ParcelRecord
<1>3. [parcel EXCEPT ![n].status = s] = [parcel EXCEPT ![n] = [x EXCEPT !.status = s]]
  BY <1>1
<1> QED
  BY <1>2, <1>3

LEMMA ParcelTyped == BackTypeOK => parcel \in [Parcels -> ParcelRecord]
BY DEF BackTypeOK, ParcelRecord

LEMMA ParcelTypes ==
  ASSUME BackTypeOK, NEW h \in BackRequests,
         CreateParcel(h) \/ Retry(h) \/ Requeue(h) \/ Cancel(h) \/ SaveCancelled(h)
  PROVE  BackTypeOK'
<1>1. CASE CreateParcel(h)
  <2>1. PICK n \in Parcels, op \in {"send", "queue", "createJob"}, s \in LetterStatus \cup JobStatus :
          /\ parcel' = [parcel EXCEPT ![n].status = s]
          /\ run' = IF op = "send" THEN [run EXCEPT ![n].fetch = @ + 1] ELSE run
          /\ op = "send" => n \in Letters
    BY <1>1 DEF CreateParcel, LetterStatus, Parcels
  <2>2. parcel' \in [Parcels -> [status : LetterStatus \cup JobStatus, retryCount : Nat]]
    BY <2>1, ParcelTyped, StatusPut DEF ParcelRecord
  <2>3. run' \in [Letters -> [fetch : Nat, mark : Nat, mail : Nat, fate : Nat]]
    BY <2>1, RunTypes DEF BackTypeOK
  <2> QED
    BY <1>1, <2>2, <2>3 DEF CreateParcel, BackTypeOK, settingVars
<1>2. ASSUME NEW n \in Parcels, NEW op \in BackOps
      PROVE  [NoErrand EXCEPT !.op = op, !.of = {n}] \in Errands
  <2>1. [NoErrand EXCEPT !.op = op] \in Errands
    BY ErrandIs, PartsOfErrands
  <2> QED
    BY <2>1, PartsOfErrands
<1>3. CASE Retry(h)
  <2>1. PICK n \in Parcels : Start(h, [NoErrand EXCEPT !.op = "retry", !.of = {n}])
    BY <1>3 DEF Retry
  <2> QED
    BY <1>2, <1>3, <2>1, StartTypes DEF Retry, BackOps, BackTypeOK, settingVars, parcelVars
<1>4. CASE Requeue(h)
  <2>1. PICK n \in Parcels :
          /\ parcel' = [parcel EXCEPT ![n] = [status |-> "PENDING", retryCount |-> @.retryCount + 1]]
          /\ run' = IF n \in Letters THEN [run EXCEPT ![n].fetch = @ + 1] ELSE run
    BY <1>4 DEF Requeue
  <2>2. parcel' \in [Parcels -> [status : LetterStatus \cup JobStatus, retryCount : Nat]]
    <3>1. "PENDING" \in LetterStatus /\ parcel[n].retryCount + 1 \in Nat
      BY <2>1, ParcelTyped DEF LetterStatus, ParcelRecord
    <3> QED
      BY <2>1, <3>1, ParcelTyped, ParcelPut DEF ParcelRecord
  <2>3. run' \in [Letters -> [fetch : Nat, mark : Nat, mail : Nat, fate : Nat]]
    BY <2>1, RunTypes DEF BackTypeOK
  <2> QED
    BY <1>4, <2>2, <2>3, ReturnTypes DEF Requeue, BackTypeOK, settingVars
<1>5. CASE Cancel(h)
  <2>1. PICK n \in Parcels : Start(h, [NoErrand EXCEPT !.op = "cancel", !.of = {n}])
    BY <1>5 DEF Cancel, Parcels
  <2> QED
    BY <1>2, <1>5, <2>1, StartTypes DEF Cancel, BackOps, BackTypeOK, settingVars, parcelVars
<1>6. CASE SaveCancelled(h)
  <2>1. PICK n \in Parcels : parcel' = [parcel EXCEPT ![n].status = "CANCELLED"]
    BY <1>6 DEF SaveCancelled, Parcels
  <2>2. parcel' \in [Parcels -> [status : LetterStatus \cup JobStatus, retryCount : Nat]]
    <3>1. "CANCELLED" \in JobStatus
      BY DEF JobStatus
    <3> QED
      BY <2>1, <3>1, ParcelTyped, StatusPut DEF ParcelRecord
  <2> QED
    BY <1>6, <2>2, ReturnTypes DEF SaveCancelled, BackTypeOK, settingVars
<1> QED
  BY <1>1, <1>3, <1>4, <1>5, <1>6

\* One sending goes on: what is counted at each of its steps.
LEMMA AdvanceIs ==
  ASSUME BackTypeOK, NEW n \in Letters, NEW from \in {"fetch", "mark", "mail", "fate"},
         NEW to \in {"mark", "mail", "fate", "end"}, from # to, Advance(n, from, to)
  PROVE  /\ run' \in [Letters -> [fetch : Nat, mark : Nat, mail : Nat, fate : Nat]]
         /\ \A m \in Letters : m # n => run'[m] = run[m]
         /\ run[n][from] > 0
         /\ \A s \in {"fetch", "mark", "mail", "fate"} :
              run'[n][s] = run[n][s] + (IF s = to THEN 1 ELSE 0) - (IF s = from THEN 1 ELSE 0)
         /\ UNCHANGED <<settingVars, errand, backOffer, restarts>>
<1> DEFINE Points == {"fetch", "mark", "mail", "fate"}
           after == [s \in DOMAIN run[n] |->
                       run[n][s] + (IF s = to THEN 1 ELSE 0) - (IF s = from THEN 1 ELSE 0)]
<1>1. run[n] \in [fetch : Nat, mark : Nat, mail : Nat, fate : Nat]
  BY DEF BackTypeOK
<1>2. DOMAIN run[n] = Points /\ \A s \in Points : run[n][s] \in Nat
  BY <1>1
<1>3. run' = [run EXCEPT ![n] = after] /\ run[n][from] > 0
  BY DEF Advance
<1>4. after = [fetch |-> after.fetch, mark |-> after.mark, mail |-> after.mail, fate |-> after.fate]
  BY <1>2
<1>5. \A s \in Points : after[s] \in Nat
  BY <1>2, <1>3
<1>6. after \in [fetch : Nat, mark : Nat, mail : Nat, fate : Nat]
  BY <1>4, <1>5
<1>7. run'[n] = after /\ \A m \in Letters : m # n => run'[m] = run[m]
  BY <1>3 DEF BackTypeOK
<1>8. run' \in [Letters -> [fetch : Nat, mark : Nat, mail : Nat, fate : Nat]]
  BY <1>3, <1>6 DEF BackTypeOK
<1>9. \A s \in Points : after[s] = run[n][s] + (IF s = to THEN 1 ELSE 0) - (IF s = from THEN 1 ELSE 0)
  BY <1>2
<1> HIDE DEF after
<1> QED
  BY <1>3, <1>7, <1>8, <1>9 DEF Advance

\* What the four steps of a sending do.
Sending(n) ==
  \/ \E to \in {"mark", "end"} : Advance(n, "fetch", to) /\ UNCHANGED <<parcel, mails>>
  \/ Advance(n, "mark", "mail") /\ parcel' = [parcel EXCEPT ![n].status = "PROCESSING"] /\ UNCHANGED mails
  \/ Advance(n, "mail", "fate") /\ mails' = [mails EXCEPT ![n] = @ + 1] /\ UNCHANGED parcel
  \/ /\ Advance(n, "fate", "end") /\ UNCHANGED mails
     /\ \E s \in {"SENT", "FAILED"} : parcel' = [parcel EXCEPT ![n].status = s]

LEMMA SendingIs ==
  ASSUME NEW n \in Letters, ProcessNotification(n) \/ MarkProcessing(n) \/ SendMail(n) \/ SaveFate(n)
  PROVE  Sending(n)
BY DEF Sending, ProcessNotification, MarkProcessing, SendMail, SaveFate

LEMMA SendingTypes ==
  ASSUME BackTypeOK, NEW n \in Letters, Sending(n)
  PROVE  BackTypeOK'
<1>1. /\ run' \in [Letters -> [fetch : Nat, mark : Nat, mail : Nat, fate : Nat]]
      /\ UNCHANGED <<settingVars, errand, backOffer, restarts>>
  BY AdvanceIs DEF Sending
<1>2. parcel' = parcel \/ \E s \in LetterStatus : parcel' = [parcel EXCEPT ![n].status = s]
  BY DEF Sending, LetterStatus
<1>3. parcel' \in [Parcels -> [status : LetterStatus \cup JobStatus, retryCount : Nat]]
  BY <1>2, ParcelTyped, StatusPut DEF ParcelRecord, Parcels
<1>4. mails' = mails \/ mails' = [mails EXCEPT ![n] = @ + 1]
  BY DEF Sending
<1>5. mails' \in [Letters -> Nat]
  <2>1. mails \in [Letters -> Nat] /\ mails[n] + 1 \in Nat
    BY DEF BackTypeOK
  <2> QED
    BY <1>4, <2>1
<1> QED
  BY <1>1, <1>3, <1>5 DEF BackTypeOK, settingVars

LEMMA RestartTypes == ASSUME BackTypeOK, Restart PROVE BackTypeOK'
<1>1. NoCache \in [mode : BOOLEAN, at : 0 .. MaxClock, filled : BOOLEAN]
  BY BackofficeAssumption DEF NoCache
<1>2. NoRun \in [fetch : Nat, mark : Nat, mail : Nat, fate : Nat]
  BY DEF NoRun
<1>3. restarts' \in 0 .. MaxRestarts
  BY BackofficeAssumption DEF BackTypeOK, Restart
<1> QED
  BY <1>1, <1>2, <1>3, ErrandIs DEF BackTypeOK, Restart

LEMMA InitTypes == BackInit => BackTypeOK
<1> SUFFICES ASSUME BackInit PROVE BackTypeOK
  OBVIOUS
<1>1. settings \in Seq(BOOLEAN) /\ Len(settings) \in Nat /\ Len(settings) <= 1
  <2>1. \/ settings = << >>
        \/ settings = <<FALSE>>
        \/ settings = <<TRUE>>
    BY DEF BackInit
  <2>2. << >> \in Seq(BOOLEAN) /\ <<FALSE>> \in Seq(BOOLEAN) /\ <<TRUE>> \in Seq(BOOLEAN)
    OBVIOUS
  <2>3. Len(<< >>) = 0 /\ Len(<<FALSE>>) = 1 /\ Len(<<TRUE>>) = 1
    OBVIOUS
  <2>4. settings \in Seq(BOOLEAN) /\ (Len(settings) = 0 \/ Len(settings) = 1)
    BY <2>1, <2>2, <2>3, Zenon
  <2>5. \A k : k = 0 \/ k = 1 => k \in Nat /\ k <= 1
    OBVIOUS
  <2> QED
    BY <2>4, <2>5, Zenon
<1>2. NoCache \in [mode : BOOLEAN, at : 0 .. MaxClock, filled : BOOLEAN]
  BY BackofficeAssumption DEF NoCache
<1>3. NoRun \in [fetch : Nat, mark : Nat, mail : Nat, fate : Nat]
  BY DEF NoRun
<1>4. /\ missed = FALSE /\ restarts = 0 /\ clock = 0
      /\ backOffer \in BackOffers /\ cache = NoCache
  BY Zenon DEF BackInit
<1>5. missed \in BOOLEAN
  BY <1>4, Zenon
<1>6. restarts \in 0 .. MaxRestarts /\ clock \in 0 .. MaxClock
  BY <1>4, BackofficeAssumption
<1>7. /\ current \in [BOOLEAN -> 0 .. MaxClock]
      /\ mails \in [Letters -> Nat] /\ run \in [Letters -> [fetch : Nat, mark : Nat, mail : Nat, fate : Nat]]
  BY <1>3, BackofficeAssumption DEF BackInit
<1>8. parcel \in [Parcels -> [status : LetterStatus \cup JobStatus, retryCount : Nat]]
  BY DEF BackInit, LetterStatus
<1>9. errand \in [BackRequests -> Errands]
  BY ErrandIs DEF BackInit
<1>10. Len(settings) <= MaxRows
  BY <1>1, BackofficeAssumption
<1> QED
  BY <1>1, <1>2, <1>4, <1>7, <1>8, <1>9, <1>10, <1>5, <1>6, Zenon DEF BackTypeOK

LEMMA NextTypes == BackTypeOK /\ [BackNext]_backVars => BackTypeOK'
<1> SUFFICES ASSUME BackTypeOK, [BackNext]_backVars PROVE BackTypeOK'
  OBVIOUS
<1>1. ASSUME NEW h \in BackRequests, BackStep(h) PROVE BackTypeOK'
  BY <1>1, SettingTypes, ParcelTypes DEF BackStep
<1>2. ASSUME NEW n \in Letters, ProcessNotification(n) \/ MarkProcessing(n) \/ SendMail(n) \/ SaveFate(n)
      PROVE  BackTypeOK'
  BY <1>2, SendingIs, SendingTypes
<1>3. CASE Tick
  BY <1>3, TickTypes
<1>4. CASE UNCHANGED backVars
  BY <1>4 DEF backVars, settingVars, parcelVars, BackTypeOK
<1> QED
  BY <1>1, <1>2, <1>3, <1>4, RestartTypes DEF BackNext

\* Whatever requests overlap and whatever a restart interrupts, the rows keep to their types.
THEOREM BackTypes == BackSpec => []BackTypeOK
BY InitTypes, NextTypes, PTL DEF BackSpec

-----------------------------------------------------------------------------
(* The cached maintenance mode.                                               *)

\* The mode in force is current; what the cache holds, and what a read has fetched, was
\* in force when the read began or later.
ModeInv ==
  /\ current[InForce(settings)] = clock
  /\ \A m \in BOOLEAN : current[m] <= clock
  /\ cache.filled => cache.at <= current[cache.mode]
  /\ \A h \in BackRequests : errand[h].op = "readMode" =>
       /\ errand[h].at <= clock
       /\ errand[h].row = 1 => errand[h].at <= current[errand[h].mode]

\* Time and saved settings bring modes forward only; a read that is not new keeps what it has.
LEMMA LaterModes ==
  ASSUME BackTypeOK, BackTypeOK', ModeInv,
         clock <= clock', \A m \in BOOLEAN : current[m] <= current'[m] /\ current'[m] <= clock',
         current'[InForce(settings')] = clock',
         cache' = cache \/ ~cache'.filled,
         \A h \in BackRequests : errand'[h] = errand[h] \/ errand'[h].op # "readMode"
  PROVE  ModeInv'
<1> USE BackofficeAssumption
<1>1. clock \in Nat /\ clock' \in Nat
  BY DEF BackTypeOK
<1>2. \A m \in BOOLEAN : current[m] \in Nat /\ current'[m] \in Nat
  BY DEF BackTypeOK
<1>3. cache.mode \in BOOLEAN /\ cache.at \in Nat
  BY DEF BackTypeOK
<1>4. \A h \in BackRequests : errand[h].mode \in BOOLEAN /\ errand[h].at \in Nat
  <2>1. \A h \in BackRequests : errand[h] \in Errands
    BY DEF BackTypeOK
  <2> QED
    BY <2>1 DEF Errands
<1>5. cache'.filled => cache'.at <= current'[cache'.mode]
  BY <1>2, <1>3 DEF ModeInv
<1>6. ASSUME NEW h \in BackRequests, errand'[h].op = "readMode"
      PROVE  /\ errand'[h].at <= clock'
             /\ errand'[h].row = 1 => errand'[h].at <= current'[errand'[h].mode]
  <2>1. errand'[h] = errand[h] /\ errand[h].op = "readMode"
    BY <1>6
  <2> QED
    BY <1>1, <1>2, <1>4, <2>1 DEF ModeInv
<1> QED
  BY <1>5, <1>6 DEF ModeInv

LEMMA ErrandsEnd ==
  ASSUME BackTypeOK, NEW h \in BackRequests, Return(h)
  PROVE  \A g \in BackRequests : errand'[g] = errand[g] \/ errand'[g].op # "readMode"
BY DEF BackTypeOK, Return, NoErrand

LEMMA ErrandsStart ==
  ASSUME BackTypeOK, NEW h \in BackRequests, NEW e \in Errands, e.op # "readMode", Start(h, e)
  PROVE  \A g \in BackRequests : errand'[g] = errand[g] \/ errand'[g].op # "readMode"
BY DEF BackTypeOK, Start

\* What is stored is in force from now on.
LEMMA StoreKeeps ==
  ASSUME BackTypeOK, BackTypeOK', ModeInv, NEW h \in BackRequests, NEW rows \in Seq(BOOLEAN),
         Store(rows), Return(h), cache' = cache \/ cache' = NoCache, UNCHANGED clock
  PROVE  ModeInv'
<1>1. InForce(settings) \in BOOLEAN /\ InForce(rows) \in BOOLEAN
  BY InForceIs DEF BackTypeOK
<1>2. current' = [current EXCEPT ![InForce(settings)] = clock, ![InForce(rows)] = clock]
  BY DEF Store
<1>3. current \in [BOOLEAN -> Nat] /\ clock \in Nat
  BY BackofficeAssumption DEF BackTypeOK
<1>4. \A m \in BOOLEAN : current'[m] = clock \/ current'[m] = current[m]
  BY <1>2, <1>3
<1>5. \A m \in BOOLEAN : current[m] <= current'[m] /\ current'[m] <= clock'
  BY <1>3, <1>4 DEF ModeInv
<1>6. current'[InForce(settings')] = clock'
  BY <1>1, <1>2, <1>3 DEF Store
<1>7. cache' = cache \/ ~cache'.filled
  BY DEF NoCache
<1> QED
  BY <1>3, <1>5, <1>6, <1>7, ErrandsEnd, LaterModes

LEMMA SettingKeeps ==
  ASSUME BackTypeOK, BackTypeOK', ModeInv, NEW h \in BackRequests,
         \/ ReadMode(h) \/ FetchMode(h) \/ FillCache(h) \/ FindSettings(h)
         \/ CreateSettings(h) \/ UpdateSettings(h)
  PROVE  ModeInv'
<1>1. CASE ReadMode(h)
  <2>1. errand' = [errand EXCEPT ![h] = [NoErrand EXCEPT !.op = "readMode", !.at = clock]]
    BY <1>1 DEF ReadMode, Start
  <2>2. errand'[h].at = clock /\ errand'[h].row = 0
    BY <2>1 DEF BackTypeOK, NoErrand
  <2>3. \A g \in BackRequests : g # h => errand'[g] = errand[g]
    BY <2>1 DEF BackTypeOK
  <2>4. UNCHANGED settingVars /\ clock \in Nat
    BY <1>1, BackofficeAssumption DEF ReadMode, BackTypeOK
  <2>5. clock <= clock
    BY <2>4
  <2> QED
    BY <2>2, <2>3, <2>4, <2>5 DEF ModeInv, settingVars
<1>2. CASE FetchMode(h)
  <2>1. InForce(settings) \in BOOLEAN /\ errand[h] \in Errands
    BY InForceIs DEF BackTypeOK
  <2>2. errand' = [errand EXCEPT ![h] = [errand[h] EXCEPT !.mode = InForce(settings), !.row = 1]]
    BY <1>2 DEF FetchMode
  <2>3. /\ errand'[h].mode = InForce(settings) /\ errand'[h].at = errand[h].at
        /\ errand[h].op = "readMode"
    BY <1>2, <2>1, <2>2 DEF BackTypeOK, Errands, FetchMode
  <2>4. \A g \in BackRequests : g # h => errand'[g] = errand[g]
    BY <2>2 DEF BackTypeOK
  <2>5. UNCHANGED settingVars
    BY <1>2 DEF FetchMode
  <2> QED
    BY <2>3, <2>4, <2>5 DEF ModeInv, settingVars
<1>3. CASE FillCache(h)
  <2>1. /\ errand[h].op = "readMode" /\ errand[h].row = 1
        /\ cache' = [mode |-> errand[h].mode, at |-> errand[h].at, filled |-> TRUE]
        /\ UNCHANGED <<settings, clock, current>> /\ Return(h)
    BY <1>3 DEF FillCache
  <2>2. cache'.mode = errand[h].mode /\ cache'.at = errand[h].at
    BY <2>1
  <2>3. cache'.at <= current'[cache'.mode]
    BY <2>1, <2>2 DEF ModeInv
  <2>4. \A g \in BackRequests : errand'[g] = errand[g] \/ errand'[g].op # "readMode"
    BY <2>1, ErrandsEnd
  <2> QED
    BY <2>1, <2>3, <2>4 DEF ModeInv
<1>4. CASE FindSettings(h)
  <2>1. PICK op \in {"getSettings", "updateSettings"}, m \in BOOLEAN :
          Start(h, [NoErrand EXCEPT !.op = op, !.row = Len(settings), !.mode = m])
    BY <1>4 DEF FindSettings
  <2>2. \A g \in BackRequests : errand'[g] = errand[g] \/ errand'[g].op # "readMode"
    <3>1. [NoErrand EXCEPT !.op = op, !.row = Len(settings), !.mode = m].op = op
      BY DEF NoErrand
    <3>2. errand'[h].op = op
      BY <2>1, <3>1 DEF Start, BackTypeOK
    <3>3. \A g \in BackRequests : g # h => errand'[g] = errand[g]
      BY <2>1 DEF Start, BackTypeOK
    <3> QED
      BY <3>2, <3>3
  <2>3. UNCHANGED settingVars
    BY <1>4 DEF FindSettings
  <2> QED
    BY <2>2, <2>3 DEF ModeInv, settingVars
<1>5. CASE CreateSettings(h)
  <2>1. Append(settings, errand[h].mode) \in Seq(BOOLEAN)
    BY DEF BackTypeOK, Errands
  <2> QED
    BY <1>5, <2>1, StoreKeeps DEF CreateSettings
<1>6. CASE UpdateSettings(h)
  <2>1. settings' = [settings EXCEPT ![errand[h].row] = errand[h].mode] /\ settings' \in Seq(BOOLEAN)
    BY <1>6 DEF UpdateSettings, Store, BackTypeOK
  <2> QED
    BY <1>6, <2>1, StoreKeeps DEF UpdateSettings
<1> QED
  BY <1>1, <1>2, <1>3, <1>4, <1>5, <1>6

LEMMA TickKeeps == ASSUME BackTypeOK, BackTypeOK', ModeInv, Tick PROVE ModeInv'
<1>1. InForce(settings) \in BOOLEAN /\ UNCHANGED <<settings, cache, errand>>
  BY InForceIs DEF BackTypeOK, Tick
<1>2. clock' = clock + 1 /\ current' = [current EXCEPT ![InForce(settings)] = clock + 1]
  BY DEF Tick
<1>3. current \in [BOOLEAN -> Nat] /\ clock \in Nat
  BY BackofficeAssumption DEF BackTypeOK
<1>4. \A m \in BOOLEAN : current'[m] = clock + 1 \/ current'[m] = current[m]
  BY <1>2, <1>3
<1>5. \A m \in BOOLEAN : current[m] <= current'[m] /\ current'[m] <= clock'
  BY <1>2, <1>3, <1>4 DEF ModeInv
<1>6. current'[InForce(settings')] = clock'
  BY <1>1, <1>2, <1>3
<1>7. clock <= clock'
  BY <1>2, <1>3
<1> QED
  BY <1>1, <1>5, <1>6, <1>7, LaterModes

\* What is not about settings leaves the mode and the reads of it alone.
LEMMA OthersKeepMode ==
  ASSUME BackTypeOK, BackTypeOK', ModeInv, UNCHANGED <<settings, clock, current>>,
         cache' = cache \/ cache' = NoCache,
         \A h \in BackRequests : errand'[h] = errand[h] \/ errand'[h].op # "readMode"
  PROVE  ModeInv'
<1>1. clock \in Nat /\ \A m \in BOOLEAN : current[m] \in Nat
  BY BackofficeAssumption DEF BackTypeOK
<1>2. cache' = cache \/ ~cache'.filled
  BY DEF NoCache
<1>3. clock <= clock' /\ \A m \in BOOLEAN : current[m] <= current'[m] /\ current'[m] <= clock'
  BY <1>1 DEF ModeInv
<1>4. current'[InForce(settings')] = clock'
  BY DEF ModeInv
<1> QED
  BY <1>2, <1>3, <1>4, LaterModes

LEMMA MaintenanceKeeps ==
  BackTypeOK /\ BackTypeOK' /\ ModeInv /\ [BackNext]_backVars => ModeInv'
<1> SUFFICES ASSUME BackTypeOK, BackTypeOK', ModeInv, [BackNext]_backVars PROVE ModeInv'
  OBVIOUS
<1>1. ASSUME NEW h \in BackRequests,
             \/ ReadMode(h) \/ FetchMode(h) \/ FillCache(h) \/ FindSettings(h)
             \/ CreateSettings(h) \/ UpdateSettings(h)
      PROVE  ModeInv'
  BY <1>1, SettingKeeps
<1>2. ASSUME NEW h \in BackRequests, CreateParcel(h) PROVE ModeInv'
  BY <1>2, OthersKeepMode DEF CreateParcel, settingVars
<1>3. ASSUME NEW h \in BackRequests, Requeue(h) \/ SaveCancelled(h) PROVE ModeInv'
  BY <1>3, ErrandsEnd, OthersKeepMode DEF Requeue, SaveCancelled, settingVars
<1>4. ASSUME NEW h \in BackRequests, Retry(h) \/ Cancel(h) PROVE ModeInv'
  <2>1. PICK n \in Parcels, op \in {"retry", "cancel"} :
          Start(h, [NoErrand EXCEPT !.op = op, !.of = {n}])
    BY <1>4 DEF Retry, Cancel, Parcels
  <2>2. [NoErrand EXCEPT !.op = op, !.of = {n}] \in Errands
    <3>1. [NoErrand EXCEPT !.op = op] \in Errands
      BY ErrandIs, PartsOfErrands DEF BackOps
    <3> QED
      BY <3>1, PartsOfErrands
  <2>3. [NoErrand EXCEPT !.op = op, !.of = {n}].op = op
    BY DEF NoErrand
  <2>4. \A g \in BackRequests : errand'[g] = errand[g] \/ errand'[g].op # "readMode"
    BY <2>1, <2>2, <2>3, ErrandsStart
  <2>5. UNCHANGED settingVars
    BY <1>4 DEF Retry, Cancel
  <2> QED
    BY <2>4, <2>5, OthersKeepMode DEF settingVars
<1>5. ASSUME NEW n \in Letters, ProcessNotification(n) \/ MarkProcessing(n) \/ SendMail(n) \/ SaveFate(n)
      PROVE  ModeInv'
  <2>1. UNCHANGED settingVars /\ UNCHANGED errand
    BY <1>5, SendingIs, AdvanceIs DEF Sending
  <2> QED
    BY <2>1, OthersKeepMode DEF settingVars
<1>6. CASE Restart
  <2>1. \A g \in BackRequests : errand'[g].op # "readMode"
    BY <1>6 DEF Restart, NoErrand
  <2> QED
    BY <1>6, <2>1, OthersKeepMode DEF Restart
<1>7. CASE UNCHANGED backVars
  BY <1>7, OthersKeepMode DEF backVars, settingVars
<1> QED
  BY <1>1, <1>2, <1>3, <1>4, <1>5, <1>6, <1>7, TickKeeps DEF BackNext, BackStep

\* Until a change went past the cache, it holds the mode in force, and reads have fetched it.
InTime ==
  ~missed =>
    /\ cache.filled => cache.mode = InForce(settings)
    /\ \A h \in BackRequests : Fetched(h) => errand[h].mode = InForce(settings)

LEMMA ChangesReachTheCache ==
  ASSUME BackTypeOK, InTime, NEW h \in BackRequests,
         FetchMode(h) \/ FillCache(h) \/ CreateSettings(h) \/ UpdateSettings(h), ~missed'
  PROVE  InTime'
<1>1. CASE FetchMode(h)
  <2>1. InForce(settings) \in BOOLEAN /\ errand[h] \in Errands
    BY InForceIs DEF BackTypeOK
  <2>2. errand' = [errand EXCEPT ![h] = [errand[h] EXCEPT !.mode = InForce(settings), !.row = 1]]
    BY <1>1 DEF FetchMode
  <2>3. errand'[h].mode = InForce(settings)
    BY <2>1, <2>2 DEF BackTypeOK, Errands
  <2>4. \A g \in BackRequests : g # h => errand'[g] = errand[g]
    BY <2>2 DEF BackTypeOK
  <2>5. UNCHANGED settingVars
    BY <1>1 DEF FetchMode
  <2> QED
    BY <2>3, <2>4, <2>5 DEF InTime, settingVars, Fetched
<1>2. CASE FillCache(h)
  <2>1. /\ Fetched(h) /\ cache' = [mode |-> errand[h].mode, at |-> errand[h].at, filled |-> TRUE]
        /\ UNCHANGED <<settings, missed>> /\ Return(h)
    BY <1>2 DEF FillCache, Fetched
  <2>2. cache'.mode = InForce(settings)
    BY <2>1 DEF InTime
  <2>3. \A g \in BackRequests : errand'[g] = errand[g] \/ errand'[g].op # "readMode"
    BY <2>1, ErrandsEnd
  <2> QED
    BY <2>1, <2>2, <2>3 DEF InTime, Fetched
<1>3. CASE CreateSettings(h)
  <2>1. /\ settings' = Append(settings, errand[h].mode) /\ cache' = cache /\ Return(h)
        /\ ~missed /\ errand[h].mode = InForce(settings)
    BY <1>3 DEF CreateSettings, Store
  <2>2. InForce(settings') = InForce(settings)
    BY <2>1, InForceGrows DEF BackTypeOK, Errands
  <2>3. \A g \in BackRequests : errand'[g] = errand[g] \/ errand'[g].op # "readMode"
    BY <2>1, ErrandsEnd
  <2> QED
    BY <2>1, <2>2, <2>3 DEF InTime, Fetched
<1>4. CASE UpdateSettings(h)
  <2>1. cache' = NoCache /\ Return(h) /\ \A g \in BackRequests : ~Fetched(g)
    BY <1>4 DEF UpdateSettings
  <2>2. \A g \in BackRequests : errand'[g] = errand[g] \/ errand'[g].op # "readMode"
    BY <2>1, ErrandsEnd
  <2> QED
    BY <2>1, <2>2 DEF InTime, Fetched, NoCache
<1> QED
  BY <1>1, <1>2, <1>3, <1>4

\* What changes neither the settings nor the cache, and fetches nothing.
LEMMA OthersStayInTime ==
  ASSUME InTime, UNCHANGED <<settings, missed>>, cache' = cache \/ cache' = NoCache,
         \A h \in BackRequests : errand'[h] = errand[h] \/ ~Fetched(h)'
  PROVE  InTime'
BY DEF InTime, Fetched, NoCache

LEMMA InTimeKept == BackTypeOK /\ InTime /\ [BackNext]_backVars => InTime'
<1> SUFFICES ASSUME BackTypeOK, InTime, [BackNext]_backVars, ~missed' PROVE InTime'
  BY DEF InTime
<1>1. ASSUME NEW h \in BackRequests,
             FetchMode(h) \/ FillCache(h) \/ CreateSettings(h) \/ UpdateSettings(h)
      PROVE  InTime'
  BY <1>1, ChangesReachTheCache
<1>2. ASSUME NEW h \in BackRequests, NEW e, Start(h, e), e.op # "readMode" \/ e.row # 1, UNCHANGED settingVars
      PROVE  InTime'
  <2>1. \A g \in BackRequests : errand'[g] = errand[g] \/ ~Fetched(g)'
    BY <1>2 DEF Start, Fetched, BackTypeOK
  <2> QED
    BY <1>2, <2>1, OthersStayInTime DEF settingVars
<1>3. ASSUME NEW h \in BackRequests, ReadMode(h) PROVE InTime'
  <2>1. [NoErrand EXCEPT !.op = "readMode", !.at = clock].row # 1
    BY DEF NoErrand
  <2> QED
    BY <1>2, <1>3, <2>1 DEF ReadMode
<1>4. ASSUME NEW h \in BackRequests, FindSettings(h) PROVE InTime'
  <2>1. PICK op \in {"getSettings", "updateSettings"}, m \in BOOLEAN :
          Start(h, [NoErrand EXCEPT !.op = op, !.row = Len(settings), !.mode = m])
    BY <1>4 DEF FindSettings
  <2>2. [NoErrand EXCEPT !.op = op, !.row = Len(settings), !.mode = m].op # "readMode"
    BY DEF NoErrand
  <2>3. UNCHANGED settingVars
    BY <1>4 DEF FindSettings
  <2> QED
    BY <1>2, <2>1, <2>2, <2>3
<1>5. ASSUME NEW h \in BackRequests, CreateParcel(h) PROVE InTime'
  BY <1>5, OthersStayInTime DEF CreateParcel, settingVars
<1>6. ASSUME NEW h \in BackRequests, Requeue(h) \/ SaveCancelled(h) PROVE InTime'
  <2>1. \A g \in BackRequests : errand'[g] = errand[g] \/ ~Fetched(g)'
    BY <1>6, ErrandsEnd DEF Requeue, SaveCancelled, Fetched
  <2> QED
    BY <1>6, <2>1, OthersStayInTime DEF Requeue, SaveCancelled, settingVars
<1>7. ASSUME NEW h \in BackRequests, Retry(h) \/ Cancel(h) PROVE InTime'
  <2>1. PICK n \in Parcels, op \in {"retry", "cancel"} :
          Start(h, [NoErrand EXCEPT !.op = op, !.of = {n}])
    BY <1>7 DEF Retry, Cancel, Parcels
  <2>2. [NoErrand EXCEPT !.op = op, !.of = {n}].op # "readMode"
    BY DEF NoErrand
  <2>3. UNCHANGED settingVars
    BY <1>7 DEF Retry, Cancel
  <2> QED
    BY <1>2, <2>1, <2>2, <2>3
<1>8. ASSUME NEW n \in Letters, ProcessNotification(n) \/ MarkProcessing(n) \/ SendMail(n) \/ SaveFate(n)
      PROVE  InTime'
  <2>1. UNCHANGED settingVars /\ UNCHANGED errand
    BY <1>8, SendingIs, AdvanceIs DEF Sending
  <2> QED
    BY <2>1, OthersStayInTime DEF settingVars
<1>9. CASE Restart
  <2>1. \A g \in BackRequests : ~Fetched(g)'
    BY <1>9 DEF Restart, NoErrand, Fetched
  <2> QED
    BY <1>9, <2>1, OthersStayInTime DEF Restart
<1>10. CASE Tick
  BY <1>10, OthersStayInTime DEF Tick
<1>11. CASE UNCHANGED backVars
  BY <1>11, OthersStayInTime DEF backVars, settingVars
<1> QED
  BY <1>1, <1>3, <1>4, <1>5, <1>6, <1>7, <1>8, <1>9, <1>10, <1>11 DEF BackNext, BackStep

\* MaintenanceIsFresh is not inductive: it says nothing of the reads that are under way,
\* one of which will fill the cache with what it has fetched by then.
THEOREM MaintenanceStaysFresh == BackSpec => []MaintenanceIsFresh
<1>1. BackInit => ModeInv
  <2> SUFFICES ASSUME BackInit PROVE ModeInv
    OBVIOUS
  <2>1. InForce(settings) \in BOOLEAN
    BY InitTypes, InForceIs DEF BackTypeOK
  <2> QED
    BY <2>1 DEF BackInit, ModeInv, NoCache, NoErrand
<1>2. BackTypeOK /\ ModeInv /\ InTime => MaintenanceIsFresh
  <2> SUFFICES ASSUME BackTypeOK, ModeInv, InTime, Fresh PROVE clock - current[cache.mode] < CacheTTL
    BY DEF MaintenanceIsFresh, InTime, Fresh
  <2>1. cache.mode \in BOOLEAN /\ cache.at \in Nat /\ clock \in Nat /\ current[cache.mode] \in Nat
    BY BackofficeAssumption DEF BackTypeOK
  <2>2. cache.at <= current[cache.mode] /\ clock - cache.at < CacheTTL
    BY DEF ModeInv, Fresh
  <2> QED
    BY <2>1, <2>2, BackofficeAssumption
<1>3. BackInit => InTime
  BY DEF BackInit, InTime, Fetched, NoCache, NoErrand
<1> QED
  BY <1>1, <1>2, <1>3, InitTypes, NextTypes, MaintenanceKeeps, InTimeKept, PTL DEF BackSpec

-----------------------------------------------------------------------------
(* Retries and mails.                                                         *)

PendingOn(n) == {h \in BackRequests : errand[h].op = "retry" /\ errand[h].of = {n}}

\* The mails of a notification, and those its sendings may still make.
MailsDue(n) == mails[n] + run[n].fetch + run[n].mark + run[n].mail

\* A retry in flight is counted as if it were done already.
RetryInv ==
  /\ \A n \in Parcels : parcel[n].retryCount > 0 \/ PendingOn(n) # {} =>
       parcel[n].retryCount + Cardinality(PendingOn(n)) < MaxRetryCount + Cardinality(BackRequests)
  /\ \A n \in Letters :
       /\ MailsDue(n) <= 1 + parcel[n].retryCount
       /\ parcel[n].status = "none" => MailsDue(n) = 0

LEMMA PendingIsFinite ==
  /\ Cardinality(BackRequests) \in Nat
  /\ \A n : IsFiniteSet(PendingOn(n)) /\ Cardinality(PendingOn(n)) \in Nat
            /\ Cardinality(PendingOn(n)) <= Cardinality(BackRequests)
<1>1. IsFiniteSet(BackRequests)
  BY BackofficeAssumption
<1>2. \A n : PendingOn(n) \subseteq BackRequests
  BY DEF PendingOn
<1> QED
  BY <1>1, <1>2, FS_Subset, FS_CardinalityType

LEMMA ParcelIs ==
  ASSUME BackTypeOK
  PROVE  /\ \A n \in Parcels : parcel[n].retryCount \in Nat
         /\ \A n \in Letters : MailsDue(n) \in Nat
<1>1. \A n \in Parcels : parcel[n] \in [status : LetterStatus \cup JobStatus, retryCount : Nat]
  BY DEF BackTypeOK
<1>2. \A n \in Letters : mails[n] \in Nat /\ run[n] \in [fetch : Nat, mark : Nat, mail : Nat, fate : Nat]
  BY DEF BackTypeOK
<1>3. \A n \in Parcels : parcel[n].retryCount \in Nat
  BY <1>1
<1>4. \A n \in Letters : run[n].fetch \in Nat /\ run[n].mark \in Nat /\ run[n].mail \in Nat
  BY <1>2
<1> QED
  BY <1>2, <1>3, <1>4 DEF MailsDue

LEMMA DueIsNatural == ASSUME BackTypeOK' PROVE \A n \in Letters : MailsDue(n)' \in Nat
<1>1. \A n \in Letters : mails'[n] \in Nat /\ run'[n] \in [fetch : Nat, mark : Nat, mail : Nat, fate : Nat]
  BY DEF BackTypeOK
<1>2. \A n \in Letters : run'[n].fetch \in Nat /\ run'[n].mark \in Nat /\ run'[n].mail \in Nat
  BY <1>1
<1> QED
  BY <1>1, <1>2 DEF MailsDue

\* No retry begins or is counted.
LEMMA QuietKeeps ==
  ASSUME BackTypeOK, BackTypeOK', RetryInv,
         \A n \in Parcels : /\ parcel'[n].retryCount = parcel[n].retryCount
                            /\ parcel'[n].status = "none" => parcel[n].status = "none",
         \A n : PendingOn(n)' \subseteq PendingOn(n),
         \A n \in Letters : MailsDue(n)' <= MailsDue(n)
  PROVE  RetryInv'
<1>1. ASSUME NEW n \in Parcels, parcel'[n].retryCount > 0 \/ PendingOn(n)' # {}
      PROVE  parcel'[n].retryCount + Cardinality(PendingOn(n)') < MaxRetryCount + Cardinality(BackRequests)
  <2>1. parcel[n].retryCount + Cardinality(PendingOn(n)) < MaxRetryCount + Cardinality(BackRequests)
    BY <1>1 DEF RetryInv
  <2>2. Cardinality(PendingOn(n)') <= Cardinality(PendingOn(n)) /\ Cardinality(PendingOn(n)') \in Nat
    BY PendingIsFinite, FS_Subset, FS_CardinalityType
  <2> QED
    BY <2>1, <2>2, PendingIsFinite, ParcelIs, BackofficeAssumption
<1>2. ASSUME NEW n \in Letters
      PROVE  MailsDue(n)' <= 1 + parcel'[n].retryCount /\ (parcel'[n].status = "none" => MailsDue(n)' = 0)
  <2>1. MailsDue(n) \in Nat /\ MailsDue(n)' \in Nat /\ n \in Parcels
    BY ParcelIs, DueIsNatural DEF Parcels
  <2> QED
    BY <2>1, ParcelIs DEF RetryInv
<1> QED
  BY <1>1, <1>2 DEF RetryInv

LEMMA PendingEnds ==
  ASSUME BackTypeOK, NEW h \in BackRequests, Return(h)
  PROVE  \A n : PendingOn(n)' \subseteq PendingOn(n) \ {h}
BY DEF BackTypeOK, Return, NoErrand, PendingOn

LEMMA PendingSame ==
  ASSUME UNCHANGED errand PROVE \A n : PendingOn(n)' = PendingOn(n)
BY DEF PendingOn

LEMMA DueSame ==
  ASSUME UNCHANGED <<mails, run>> PROVE \A n : MailsDue(n)' = MailsDue(n)
BY DEF MailsDue

LEMMA CreateKeepsRetries ==
  ASSUME BackTypeOK, BackTypeOK', RetryInv, NEW h \in BackRequests, CreateParcel(h)
  PROVE  RetryInv'
<1>1. PICK n \in Parcels, op \in {"send", "queue", "createJob"}, s \in LetterStatus \cup JobStatus :
        /\ op = "createJob" <=> n \in Jobs
        /\ parcel[n].status = "none" /\ s # "none"
        /\ parcel' = [parcel EXCEPT ![n].status = s]
        /\ run' = IF op = "send" THEN [run EXCEPT ![n].fetch = @ + 1] ELSE run
        /\ UNCHANGED <<mails, errand>>
  BY DEF CreateParcel, LetterStatus
<1>2. /\ \A m \in Parcels : parcel'[m].retryCount = parcel[m].retryCount
      /\ \A m \in Parcels : m # n => parcel'[m] = parcel[m]
      /\ parcel'[n].status = s
  BY <1>1 DEF BackTypeOK
<1>3. \A m : PendingOn(m)' = PendingOn(m)
  BY <1>1, PendingSame
<1>4. ASSUME NEW m \in Letters
      PROVE  MailsDue(m)' <= 1 + parcel'[m].retryCount /\ (parcel'[m].status = "none" => MailsDue(m)' = 0)
  <2>1. m \in Parcels /\ MailsDue(m) \in Nat /\ parcel[m].retryCount \in Nat
    BY ParcelIs DEF Parcels
  <2>2. CASE m = n
    <3>1. MailsDue(m) = 0
      BY <1>1, <2>2 DEF RetryInv
    <3>2. run[m].fetch \in Nat /\ run[m].mark \in Nat /\ run[m].mail \in Nat /\ mails[m] \in Nat
      BY DEF BackTypeOK
    <3>3. \/ run'[m] = run[m]
          \/ /\ run'[m].fetch = run[m].fetch + 1
             /\ run'[m].mark = run[m].mark /\ run'[m].mail = run[m].mail
      BY <1>1, <2>2 DEF BackTypeOK
    <3>4. MailsDue(m)' = 0 \/ MailsDue(m)' = 1
      BY <1>1, <3>1, <3>2, <3>3 DEF MailsDue
    <3> QED
      BY <1>1, <1>2, <2>1, <2>2, <3>4
  <2>3. CASE m # n
    <3>1. run'[m] = run[m] /\ mails'[m] = mails[m]
      BY <1>1, <2>3 DEF BackTypeOK
    <3>2. MailsDue(m)' = MailsDue(m)
      BY <3>1 DEF MailsDue
    <3> QED
      BY <1>2, <2>1, <2>3, <3>2 DEF RetryInv
  <2> QED
    BY <2>2, <2>3
<1>5. \A m \in Parcels : parcel'[m].retryCount > 0 \/ PendingOn(m)' # {} =>
        parcel'[m].retryCount + Cardinality(PendingOn(m)') < MaxRetryCount + Cardinality(BackRequests)
  BY <1>2, <1>3 DEF RetryInv
<1> QED
  BY <1>4, <1>5 DEF RetryInv

\* A retry begins while there is one left; no more requests than there are can do so.
LEMMA RetryKeeps ==
  ASSUME BackTypeOK, BackTypeOK', RetryInv, NEW h \in BackRequests, Retry(h)
  PROVE  RetryInv'
<1>1. PICK n \in Parcels :
        /\ parcel[n].retryCount < MaxRetryCount
        /\ errand' = [errand EXCEPT ![h] = [NoErrand EXCEPT !.op = "retry", !.of = {n}]]
        /\ UNCHANGED parcelVars
  BY DEF Retry, Retryable, Start
<1>2. \A m \in Parcels : m # n => PendingOn(m)' \subseteq PendingOn(m)
  <2>1. SUFFICES ASSUME NEW m \in Parcels, m # n, NEW g \in PendingOn(m)' PROVE g \in PendingOn(m)
    OBVIOUS
  <2>2. g \in BackRequests /\ errand'[g].op = "retry" /\ errand'[g].of = {m}
    BY DEF PendingOn
  <2>3. g # h
    BY <1>1, <2>1, <2>2 DEF BackTypeOK, NoErrand
  <2> QED
    BY <1>1, <2>2, <2>3 DEF BackTypeOK, PendingOn
<1>3. ASSUME NEW m \in Parcels, parcel'[m].retryCount > 0 \/ PendingOn(m)' # {}
      PROVE  parcel'[m].retryCount + Cardinality(PendingOn(m)') < MaxRetryCount + Cardinality(BackRequests)
  <2>1. parcel' = parcel /\ parcel[m].retryCount \in Nat
    BY <1>1, ParcelIs DEF parcelVars
  <2>2. /\ Cardinality(PendingOn(m)') \in Nat
        /\ Cardinality(PendingOn(m)') <= Cardinality(BackRequests)
    <3>1. PendingOn(m)' \subseteq BackRequests
      BY DEF PendingOn
    <3> QED
      BY <3>1, BackofficeAssumption, FS_Subset, FS_CardinalityType
  <2>3. CASE m = n
    BY <1>1, <2>1, <2>2, <2>3, PendingIsFinite, BackofficeAssumption
  <2>4. CASE m # n
    <3>1. Cardinality(PendingOn(m)') <= Cardinality(PendingOn(m))
      BY <1>2, <2>4, PendingIsFinite, FS_Subset, FS_CardinalityType
    <3>2. parcel[m].retryCount + Cardinality(PendingOn(m)) < MaxRetryCount + Cardinality(BackRequests)
      BY <1>2, <1>3, <2>1, <2>4 DEF RetryInv
    <3> QED
      BY <2>1, <2>2, <3>1, <3>2, PendingIsFinite, BackofficeAssumption
  <2> QED
    BY <2>3, <2>4
<1>4. \A m \in Letters : MailsDue(m)' <= 1 + parcel'[m].retryCount /\ (parcel'[m].status = "none" => MailsDue(m)' = 0)
  <2>1. parcel' = parcel /\ UNCHANGED <<mails, run>>
    BY <1>1 DEF parcelVars
  <2> QED
    BY <2>1, DueSame DEF RetryInv
<1> QED
  BY <1>3, <1>4 DEF RetryInv

\* A retry is counted and sent: from in flight to done.
LEMMA RequeueKeeps ==
  ASSUME BackTypeOK, BackTypeOK', RetryInv, NEW h \in BackRequests, Requeue(h)
  PROVE  RetryInv'
<1>1. PICK n \in Parcels :
        /\ errand[h].op = "retry" /\ errand[h].of = {n}
        /\ parcel' = [parcel EXCEPT ![n] = [status |-> "PENDING", retryCount |-> @.retryCount + 1]]
        /\ run' = IF n \in Letters THEN [run EXCEPT ![n].fetch = @ + 1] ELSE run
        /\ Return(h) /\ UNCHANGED mails
  BY DEF Requeue
<1>2. /\ parcel'[n].retryCount = parcel[n].retryCount + 1 /\ parcel'[n].status = "PENDING"
      /\ \A m \in Parcels : m # n => parcel'[m] = parcel[m]
  BY <1>1 DEF BackTypeOK
<1>3. \A m : PendingOn(m)' \subseteq PendingOn(m) \ {h}
  BY <1>1, PendingEnds
<1>4. h \in PendingOn(n)
  BY <1>1 DEF PendingOn
<1>5. ASSUME NEW m \in Parcels, parcel'[m].retryCount > 0 \/ PendingOn(m)' # {}
      PROVE  parcel'[m].retryCount + Cardinality(PendingOn(m)') < MaxRetryCount + Cardinality(BackRequests)
  <2>1. parcel[m].retryCount \in Nat
    BY ParcelIs
  <2>2. CASE m = n
    <3>1. parcel[n].retryCount + Cardinality(PendingOn(n)) < MaxRetryCount + Cardinality(BackRequests)
      BY <1>4 DEF RetryInv
    <3>2. Cardinality(PendingOn(n) \ {h}) = Cardinality(PendingOn(n)) - 1 /\ IsFiniteSet(PendingOn(n) \ {h})
      BY <1>4, PendingIsFinite, FS_RemoveElement
    <3>3. /\ Cardinality(PendingOn(n)') <= Cardinality(PendingOn(n) \ {h})
          /\ Cardinality(PendingOn(n)') \in Nat
      BY <1>3, <3>2, FS_Subset, FS_CardinalityType
    <3> QED
      BY <1>2, <2>1, <2>2, <3>1, <3>2, <3>3, PendingIsFinite, BackofficeAssumption
  <2>3. CASE m # n
    <3>1. PendingOn(m)' \subseteq PendingOn(m) /\ parcel'[m] = parcel[m]
      BY <1>2, <1>3, <2>3
    <3>2. /\ Cardinality(PendingOn(m)') <= Cardinality(PendingOn(m))
          /\ Cardinality(PendingOn(m)') \in Nat
      BY <3>1, PendingIsFinite, FS_Subset, FS_CardinalityType
    <3>3. parcel[m].retryCount + Cardinality(PendingOn(m)) < MaxRetryCount + Cardinality(BackRequests)
      BY <1>5, <3>1 DEF RetryInv
    <3> QED
      BY <2>1, <3>1, <3>2, <3>3, PendingIsFinite, BackofficeAssumption
  <2> QED
    BY <2>2, <2>3
<1>6. ASSUME NEW m \in Letters
      PROVE  MailsDue(m)' <= 1 + parcel'[m].retryCount /\ (parcel'[m].status = "none" => MailsDue(m)' = 0)
  <2>1. m \in Parcels /\ MailsDue(m) \in Nat /\ parcel[m].retryCount \in Nat /\ MailsDue(m) <= 1 + parcel[m].retryCount
    BY ParcelIs DEF Parcels, RetryInv
  <2>2. CASE m = n
    <3>1. run[m].fetch \in Nat /\ run[m].mark \in Nat /\ run[m].mail \in Nat /\ mails[m] \in Nat
      BY DEF BackTypeOK
    <3>2. /\ run'[m].fetch = run[m].fetch + 1
          /\ run'[m].mark = run[m].mark /\ run'[m].mail = run[m].mail
      BY <1>1, <2>2 DEF BackTypeOK
    <3>3. MailsDue(m)' = MailsDue(m) + 1
      BY <1>1, <3>1, <3>2 DEF MailsDue
    <3> QED
      BY <1>2, <2>1, <2>2, <3>3
  <2>3. CASE m # n
    <3>1. run'[m] = run[m] /\ mails'[m] = mails[m] /\ parcel'[m] = parcel[m]
      BY <1>1, <1>2, <2>1, <2>3 DEF BackTypeOK
    <3>2. MailsDue(m)' = MailsDue(m)
      BY <3>1 DEF MailsDue
    <3> QED
      BY <2>1, <3>1, <3>2 DEF RetryInv
  <2> QED
    BY <2>2, <2>3
<1> QED
  BY <1>5, <1>6 DEF RetryInv

LEMMA SendingKeepsRetries ==
  ASSUME BackTypeOK, BackTypeOK', RetryInv, NEW n \in Letters, Sending(n)
  PROVE  RetryInv'
<1>1. UNCHANGED errand /\ \A m \in Letters : m # n => run'[m] = run[m] /\ mails'[m] = mails[m]
  BY AdvanceIs DEF Sending, BackTypeOK
<1>2. ASSUME NEW m \in Parcels
      PROVE  /\ parcel'[m].retryCount = parcel[m].retryCount
             /\ parcel'[m].status = "none" => parcel[m].status = "none"
  <2>1. parcel' = parcel \/ \E s \in {"PROCESSING", "SENT", "FAILED"} : parcel' = [parcel EXCEPT ![n].status = s]
    BY DEF Sending
  <2>2. CASE parcel' = parcel
    BY <2>2
  <2>3. ASSUME NEW s \in {"PROCESSING", "SENT", "FAILED"}, parcel' = [parcel EXCEPT ![n].status = s]
        PROVE  /\ parcel'[m].retryCount = parcel[m].retryCount
               /\ parcel'[m].status = "none" => parcel[m].status = "none"
    <3>1. CASE m = n
      BY <2>3, <3>1 DEF BackTypeOK
    <3>2. CASE m # n
      BY <2>3, <3>2 DEF BackTypeOK
    <3> QED
      BY <3>1, <3>2
  <2> QED
    BY <2>1, <2>2, <2>3
<1>3. MailsDue(n)' <= MailsDue(n)
  <2>1. run[n].fetch \in Nat /\ run[n].mark \in Nat /\ run[n].mail \in Nat /\ mails[n] \in Nat
    BY DEF BackTypeOK
  <2>2. ASSUME NEW to \in {"mark", "end"}, Advance(n, "fetch", to), UNCHANGED mails
        PROVE  MailsDue(n)' <= MailsDue(n)
    BY <2>1, <2>2, AdvanceIs DEF MailsDue
  <2>3. ASSUME Advance(n, "mark", "mail"), UNCHANGED mails PROVE MailsDue(n)' <= MailsDue(n)
    BY <2>1, <2>3, AdvanceIs DEF MailsDue
  <2>4. ASSUME Advance(n, "mail", "fate"), mails' = [mails EXCEPT ![n] = @ + 1]
        PROVE  MailsDue(n)' <= MailsDue(n)
    <3>1. mails'[n] = mails[n] + 1
      BY <2>4 DEF BackTypeOK
    <3> QED
      BY <2>1, <2>4, <3>1, AdvanceIs DEF MailsDue
  <2>5. ASSUME Advance(n, "fate", "end"), UNCHANGED mails PROVE MailsDue(n)' <= MailsDue(n)
    BY <2>1, <2>5, AdvanceIs DEF MailsDue
  <2> QED
    BY <2>2, <2>3, <2>4, <2>5 DEF Sending
<1>4. \A m \in Letters : MailsDue(m)' <= MailsDue(m)
  <2>1. ASSUME NEW m \in Letters, m # n PROVE MailsDue(m)' <= MailsDue(m)
    BY <1>1, <2>1, ParcelIs DEF MailsDue
  <2> QED
    BY <1>3, <2>1
<1>5. \A m : PendingOn(m)' \subseteq PendingOn(m)
  BY <1>1, PendingSame
<1> QED
  BY <1>2, <1>4, <1>5, QuietKeeps

\* A request for something else neither begins a retry nor sends.
LEMMA OthersKeepRetries ==
  ASSUME BackTypeOK, BackTypeOK', RetryInv, UNCHANGED parcelVars,
         \A n : PendingOn(n)' \subseteq PendingOn(n)
  PROVE  RetryInv'
<1>1. \A n \in Letters : MailsDue(n)' <= MailsDue(n)
  BY ParcelIs, DueSame DEF parcelVars
<1> QED
  BY <1>1, QuietKeeps DEF parcelVars

LEMMA OtherStarts ==
  ASSUME BackTypeOK, NEW h \in BackRequests, NEW e, e.op # "retry", Start(h, e)
  PROVE  \A n : PendingOn(n)' \subseteq PendingOn(n)
BY DEF BackTypeOK, Start, PendingOn

LEMMA RetriesKeep ==
  BackTypeOK /\ BackTypeOK' /\ RetryInv /\ [BackNext]_backVars => RetryInv'
<1> SUFFICES ASSUME BackTypeOK, BackTypeOK', RetryInv, [BackNext]_backVars PROVE RetryInv'
  OBVIOUS
<1>1. ASSUME NEW h \in BackRequests, ReadMode(h) \/ FindSettings(h) \/ Cancel(h) PROVE RetryInv'
  <2>1. PICK e : e.op # "retry" /\ Start(h, e)
    <3>1. CASE ReadMode(h)
      <4>1. [NoErrand EXCEPT !.op = "readMode", !.at = clock].op = "readMode"
        BY DEF NoErrand
      <4> QED
        BY <3>1, <4>1 DEF ReadMode
    <3>2. CASE FindSettings(h)
      <4>1. PICK op \in {"getSettings", "updateSettings"}, m \in BOOLEAN :
              Start(h, [NoErrand EXCEPT !.op = op, !.row = Len(settings), !.mode = m])
        BY <3>2 DEF FindSettings
      <4>2. [NoErrand EXCEPT !.op = op, !.row = Len(settings), !.mode = m].op = op
        BY DEF NoErrand
      <4> QED
        BY <4>1, <4>2
    <3>3. CASE Cancel(h)
      <4>1. PICK n \in Jobs : Start(h, [NoErrand EXCEPT !.op = "cancel", !.of = {n}])
        BY <3>3 DEF Cancel
      <4>2. [NoErrand EXCEPT !.op = "cancel", !.of = {n}].op = "cancel"
        BY DEF NoErrand
      <4> QED
        BY <4>1, <4>2
    <3> QED
      BY <1>1, <3>1, <3>2, <3>3
  <2>2. UNCHANGED parcelVars
    BY <1>1 DEF ReadMode, FindSettings, Cancel
  <2> QED
    BY <2>1, <2>2, OtherStarts, OthersKeepRetries
<1>2. ASSUME NEW h \in BackRequests, FillCache(h) \/ CreateSettings(h) \/ UpdateSettings(h) PROVE RetryInv'
  BY <1>2, PendingEnds, OthersKeepRetries DEF FillCache, CreateSettings, UpdateSettings
<1>3. ASSUME NEW h \in BackRequests, FetchMode(h) PROVE RetryInv'
  <2>1. /\ errand' = [errand EXCEPT ![h] = [errand[h] EXCEPT !.mode = InForce(settings), !.row = 1]]
        /\ errand[h].op = "readMode" /\ UNCHANGED parcelVars
    BY <1>3 DEF FetchMode
  <2>2. errand[h] \in Errands
    BY DEF BackTypeOK
  <2>3. errand'[h].op = "readMode" /\ \A g \in BackRequests : g # h => errand'[g] = errand[g]
    BY <2>1, <2>2 DEF BackTypeOK, Errands
  <2>4. \A n : PendingOn(n)' \subseteq PendingOn(n)
    BY <2>3 DEF PendingOn
  <2> QED
    BY <2>1, <2>4, OthersKeepRetries
<1>4. ASSUME NEW h \in BackRequests, SaveCancelled(h) PROVE RetryInv'
  <2>1. PICK n \in Jobs : parcel' = [parcel EXCEPT ![n].status = "CANCELLED"]
    BY <1>4 DEF SaveCancelled
  <2>2. ASSUME NEW m \in Parcels
        PROVE  /\ parcel'[m].retryCount = parcel[m].retryCount
               /\ parcel'[m].status = "none" => parcel[m].status = "none"
    <3>1. CASE m = n
      BY <2>1, <3>1 DEF BackTypeOK
    <3>2. CASE m # n
      BY <2>1, <3>2 DEF BackTypeOK
    <3> QED
      BY <3>1, <3>2
  <2>3. UNCHANGED <<mails, run>> /\ Return(h)
    BY <1>4 DEF SaveCancelled
  <2>4. \A m \in Letters : MailsDue(m)' <= MailsDue(m)
    BY <2>3, ParcelIs, DueSame
  <2>5. \A m : PendingOn(m)' \subseteq PendingOn(m)
    BY <2>3, PendingEnds
  <2> QED
    BY <2>2, <2>4, <2>5, QuietKeeps
<1>5. ASSUME NEW n \in Letters, ProcessNotification(n) \/ MarkProcessing(n) \/ SendMail(n) \/ SaveFate(n)
      PROVE  RetryInv'
  BY <1>5, SendingIs, SendingKeepsRetries
<1>6. CASE Restart
  <2>1. \A n : PendingOn(n)' \subseteq PendingOn(n)
    BY <1>6 DEF Restart, PendingOn, NoErrand
  <2>2. ASSUME NEW m \in Letters PROVE MailsDue(m)' <= MailsDue(m)
    <3>1. run[m].fetch \in Nat /\ run[m].mark \in Nat /\ run[m].mail \in Nat /\ mails[m] \in Nat
      BY DEF BackTypeOK
    <3>2. /\ run'[m].fetch = 0 /\ run'[m].mark = 0 /\ run'[m].mail = 0
          /\ mails'[m] = mails[m]
      BY <1>6 DEF Restart, NoRun
    <3> QED
      BY <3>1, <3>2 DEF MailsDue
  <2>3. UNCHANGED parcel
    BY <1>6 DEF Restart
  <2> QED
    BY <2>1, <2>2, <2>3, QuietKeeps
<1>7. CASE Tick \/ UNCHANGED backVars
  <2>1. UNCHANGED <<parcelVars, errand>>
    BY <1>7 DEF Tick, backVars
  <2> QED
    BY <2>1, PendingSame, OthersKeepRetries
<1> QED
  BY <1>1, <1>2, <1>3, <1>4, <1>5, <1>6, <1>7, CreateKeepsRetries, RetryKeeps, RequeueKeeps
     DEF BackNext, BackStep

\* RetriesBounded is not inductive: two requests may both have found a retry left, and a
\* sending that is under way will mail without asking again.
THEOREM RetriesStayBounded == BackSpec => []RetriesBounded
<1>1. BackInit => RetryInv
  <2> SUFFICES ASSUME BackInit PROVE RetryInv
    OBVIOUS
  <2>1. \A n : PendingOn(n) = {}
    BY DEF BackInit, PendingOn, NoErrand
  <2>2. \A n \in Parcels : parcel[n].retryCount = 0
    BY DEF BackInit
  <2>3. \A n \in Letters : n \in Parcels /\ MailsDue(n) = 0
    BY DEF BackInit, MailsDue, NoRun, Parcels
  <2> QED
    BY <2>1, <2>2, <2>3 DEF RetryInv
<1>2. BackTypeOK /\ RetryInv => RetriesBounded
  <2> SUFFICES ASSUME BackTypeOK, RetryInv PROVE RetriesBounded
    OBVIOUS
  <2>1. ASSUME NEW n \in Parcels, parcel[n].retryCount > 0
        PROVE  parcel[n].retryCount < MaxRetryCount + Cardinality(BackRequests)
    <3>1. parcel[n].retryCount + Cardinality(PendingOn(n)) < MaxRetryCount + Cardinality(BackRequests)
      BY <2>1 DEF RetryInv
    <3> QED
      BY <3>1, PendingIsFinite, ParcelIs, BackofficeAssumption
  <2>2. ASSUME NEW n \in Letters PROVE mails[n] <= 1 + parcel[n].retryCount
    <3>1. run[n].fetch \in Nat /\ run[n].mark \in Nat /\ run[n].mail \in Nat /\ mails[n] \in Nat
      BY DEF BackTypeOK
    <3>2. parcel[n].retryCount \in Nat /\ MailsDue(n) <= 1 + parcel[n].retryCount
      BY ParcelIs DEF Parcels, RetryInv
    <3> QED
      BY <3>1, <3>2 DEF MailsDue
  <2> QED
    BY <2>1, <2>2 DEF RetriesBounded
<1> QED
  BY <1>1, <1>2, InitTypes, NextTypes, RetriesKeep, PTL DEF BackSpec

-----------------------------------------------------------------------------
(* Correspondence: every letter goes out once.                                *)

LetterPost == [op : {"letter"}, at : {"start", "render", "unrendered", "pend", "hand", "sent", "failed", "again"},
               letter : Occasions, left : SUBSET Addresses, to : SUBSET Addresses]

IsLetter(p) == p.op = "letter"

\* What is under way; a letter is written to one address at a time.
PostOK(p) ==
  /\ p.op \in MailOps \cup {"still"}
  /\ p.op = "create" => p.key \in TemplateKeys
  /\ p.op = "update" => /\ p.row \in TemplateRows
                        /\ IF "key" \in DOMAIN p.set THEN p.set.key \in TemplateKeys ELSE p.set.active \in BOOLEAN
  /\ p.op = "delete" => p.row \in TemplateRows
  /\ p.op = "occasion" => p.kind \in Requested /\ p.saw \in Allowing(p.kind)
  /\ IsLetter(p) => /\ p \in LetterPost
                    /\ p.at \in {"start", "render"} => p.to = {}
                    /\ p.at \notin {"start", "render"} => \E a \in Addresses \ p.left : p.to = {a}

TemplateRecord == [state : {"none", "live", "deleted"}, key : TemplateKeys, active : BOOLEAN]
EntryStates == {"none", "pending", "sent", "failed", "twice"}

BooksOK ==
  /\ progress \in {"draft", "unpaid", "submitted", "processing", "decided", "expired"}
  /\ pay \in {"none", "open", "held", "captured", "over"}
  /\ window \in {"open", "closing", "over"} /\ warned \in BOOLEAN
  /\ calls \in [LetterKinds -> 0 .. MaxCalls] /\ stale \subseteq LetterKinds
  /\ sweep \in {"idle", "stamp", "warn", "look", "expire", "tell"}
  /\ mailOffer \in MailOffers /\ mailFaults \in 0 .. MaxMailFaults

\* An occasion that is not stale leaves the application where there is no other.
OccasionsOK ==
  /\ \A l \in LetterKinds : calls[l] > 1 => stale \cap Reopens(l) # {}
  /\ calls["created"] > 0 => progress # "draft"
  /\ calls["paid"] > 0 => pay \notin {"none", "open"}
  /\ calls["status"] > 0 /\ stale \cap Reopens("status") = {} => pay \in {"captured", "over"}
  /\ calls["custom"] > 0 /\ stale \cap Reopens("custom") = {} => progress \in {"decided", "expired"}
  /\ calls["expired"] > 0 /\ "created" \notin stale => progress \notin {"draft", "unpaid"}
  /\ calls["warning"] > 0 => warned

MailboxOK ==
  /\ entry \in [Pairs -> EntryStates]
  /\ handed \in [Pairs -> Nat]
  /\ excused \subseteq Pairs

PostsOK == DOMAIN post = Senders /\ \A h \in Senders : PostOK(post[h])

\* The letter of an occasion is on its way once, and only after the occasion.
Apart == \A g, h \in Senders : IsLetter(post[g]) /\ IsLetter(post[h]) /\ post[g].letter = post[h].letter => g = h

NotYet(l) == ~(l[2] <= calls[l[1]])

Blank(l, a) == entry[<<l, a>>] = "none" /\ handed[<<l, a>>] = 0

Untold == \A l \in Occasions : NotYet(l) =>
            /\ \A h \in Senders : ~(IsLetter(post[h]) /\ post[h].letter = l)
            /\ \A a \in Addresses : Blank(l, a)

\* Where a letter is on its way, and what the log and the mail server have of it.
Reached(p) ==
  IsLetter(p) =>
    /\ \A a \in p.left : Blank(p.letter, a)
    /\ \A a \in p.to :
         /\ p.at \in {"unrendered", "pend"} => Blank(p.letter, a)
         /\ p.at \in {"hand", "failed", "sent", "again"} => entry[<<p.letter, a>>] = "pending"
         /\ p.at \in {"hand", "failed"} => handed[<<p.letter, a>>] = 0
         /\ p.at = "sent" => handed[<<p.letter, a>>] = 1
         /\ p.at = "again" => <<p.letter, a>> \in excused

Underway == \A h \in Senders : Reached(post[h])

Once == \A l \in Occasions, a \in Addresses : handed[<<l, a>>] <= 1 /\ entry[<<l, a>>] # "twice"

AtRest(l, a) == \A h \in Senders : IsLetter(post[h]) /\ post[h].letter = l => a \notin post[h].left \cup post[h].to

Finished == \A l \in Occasions, a \in Addresses :
              ~NotYet(l) /\ AtRest(l, a) /\ <<l, a>> \notin excused => Accounted(<<l, a>>)

\* The sweep's reading is good still where it decides that a letter is sent once.
SweepOK ==
  /\ sweep = "stamp" => ~warned
  /\ sweep = "expire" /\ "created" \notin stale => calls["expired"] = 0
  /\ sweep \notin {"warn", "tell"} => post[Sweeper] = Still

\* No request is about to delete an installed template or to take its key away.
Installed ==
  /\ \A k \in InstalledKeys : \E r \in TemplateRows : template[r].state = "live" /\ template[r].key = k
  /\ \A h \in Senders :
       post[h].op = "delete" \/ (post[h].op = "update" /\ "key" \in DOMAIN post[h].set) =>
         template[post[h].row].key \notin InstalledKeys /\ template[post[h].row].state # "none"

LettersOK == MailboxOK /\ Apart /\ Untold /\ Underway /\ Once /\ Finished
MailOK ==
  /\ template \in [TemplateRows -> TemplateRecord]
  /\ BooksOK /\ OccasionsOK /\ PostsOK /\ SweepOK /\ Installed /\ LettersOK

-----------------------------------------------------------------------------

LEMMA StillOK == PostOK(Still) /\ ~IsLetter(Still) /\ Reached(Still)
BY DEF PostOK, IsLetter, Still, MailOps, Reached

\* Requests that are not letters leave the letters alone.
LEMMA LettersStay ==
  ASSUME LettersOK, PostsOK, NEW h \in Senders, NEW p, post' = [post EXCEPT ![h] = p],
         ~IsLetter(post[h]), ~IsLetter(p), UNCHANGED <<calls, mailbox>>
  PROVE  LettersOK'
<1>1. DOMAIN post' = Senders /\ post'[h] = p /\ \A g \in Senders \ {h} : post'[g] = post[g]
  BY DEF PostsOK
<1>2. calls' = calls /\ entry' = entry /\ handed' = handed /\ excused' = excused
  BY DEF mailbox
<1>3. \A g \in Senders : (IsLetter(post'[g]) <=> IsLetter(post[g])) /\ (IsLetter(post[g]) => post'[g] = post[g])
  BY <1>1
<1>4. MailboxOK'
  BY <1>2 DEF LettersOK, MailboxOK
<1>5. Apart'
  BY <1>3 DEF LettersOK, Apart, IsLetter
<1>6. Untold'
  BY <1>2, <1>3 DEF LettersOK, Untold, NotYet, Blank, IsLetter
<1>7. Underway'
  BY <1>2, <1>3 DEF LettersOK, Underway, Reached, Blank, IsLetter
<1>8. Once'
  BY <1>2 DEF LettersOK, Once
<1>9. Finished'
  <2>1. \A l, a : AtRest(l, a)' => AtRest(l, a)
    BY <1>3 DEF AtRest, IsLetter
  <2> QED
    BY <1>2, <2>1 DEF LettersOK, Finished, Accounted, NotYet
<1> QED
  BY <1>4, <1>5, <1>6, <1>7, <1>8, <1>9 DEF LettersOK

\* An occasion comes for one letter, that of no other.
LEMMA CallCounts ==
  ASSUME BooksOK, NEW h, NEW k \in LetterKinds, NEW at, Comes(h, k, at)
  PROVE  /\ calls' \in [LetterKinds -> 0 .. MaxCalls] /\ calls'[k] = calls[k] + 1
         /\ \A j \in LetterKinds \ {k} : calls'[j] = calls[j]
         /\ calls[k] < MaxCalls /\ calls[k] \in 0 .. MaxCalls /\ MaxCalls \in Nat
<1>1. /\ calls \in [LetterKinds -> 0 .. MaxCalls] /\ calls[k] < MaxCalls /\ calls[k] \in 0 .. MaxCalls
      /\ calls' = [calls EXCEPT ![k] = @ + 1] /\ MaxCalls \in Nat
  BY CorrespondenceAssumption DEF BooksOK, Comes
<1> QED
  BY <1>1

LEMMA CallIs ==
  ASSUME BooksOK, NEW h, NEW k \in LetterKinds, NEW at, Comes(h, k, at)
  PROVE  \E l \in Occasions :
           /\ NotYet(l) /\ post' = [post EXCEPT ![h] = Writing(l, at, Addresses)]
           /\ \A m \in Occasions : (NotYet(m)' => NotYet(m) /\ m # l) /\ (~NotYet(m)' => ~NotYet(m) \/ m = l)
<1>1. /\ calls'[k] = calls[k] + 1 /\ calls[k] < MaxCalls /\ calls[k] \in 0 .. MaxCalls /\ MaxCalls \in Nat
      /\ \A j \in LetterKinds \ {k} : calls'[j] = calls[j]
  BY CallCounts
<1>2. PICK l : l = <<k, calls[k] + 1>>
  OBVIOUS
<1>3. l \in Occasions /\ l[1] = k /\ l[2] = calls[k] + 1
  BY <1>1, <1>2 DEF Occasions
<1>4. ASSUME NEW m \in Occasions
      PROVE  (NotYet(m)' => NotYet(m) /\ m # l) /\ (~NotYet(m)' => ~NotYet(m) \/ m = l)
  <2>1. m[1] \in LetterKinds /\ m[2] \in 1 .. MaxCalls /\ m = <<m[1], m[2]>>
    BY DEF Occasions
  <2>2. CASE m[1] = k
    BY <1>1, <1>2, <1>3, <2>1, <2>2 DEF NotYet
  <2>3. CASE m[1] # k
    BY <1>1, <1>3, <2>1, <2>3 DEF NotYet
  <2> QED
    BY <2>2, <2>3
<1>5. NotYet(l)
  BY <1>1, <1>3 DEF NotYet
<1> QED
  BY <1>2, <1>3, <1>4, <1>5 DEF Comes, Go

\* Its letter starts at all addresses.
LEMMA LetterBegins ==
  ASSUME LettersOK, PostsOK, NEW h \in Senders, ~IsLetter(post[h]), NEW l \in Occasions, NotYet(l),
         NEW at \in {"start", "render"},
         post' = [post EXCEPT ![h] = Writing(l, at, Addresses)], UNCHANGED mailbox,
         \A k \in Occasions : (NotYet(k)' => NotYet(k) /\ k # l) /\ (~NotYet(k)' => ~NotYet(k) \/ k = l)
  PROVE  LettersOK' /\ PostsOK'
<1> DEFINE w == [op |-> "letter", at |-> at, letter |-> l, left |-> Addresses, to |-> {}]
<1>1. DOMAIN post' = Senders /\ post'[h] = w /\ \A g \in Senders \ {h} : post'[g] = post[g]
  BY DEF PostsOK, Writing
<1>2. entry' = entry /\ handed' = handed /\ excused' = excused
  BY DEF mailbox
<1>3. IsLetter(w) /\ w.letter = l /\ w.left = Addresses /\ w.to = {} /\ w.at = at /\ w.op = "letter" /\ w \in LetterPost
  BY DEF IsLetter, LetterPost
<1> HIDE DEF w
<1>4. \A g \in Senders : ~(IsLetter(post[g]) /\ post[g].letter = l)
  BY DEF LettersOK, Untold
<1>5. \A a \in Addresses : Blank(l, a)
  BY DEF LettersOK, Untold
<1>6. PostsOK'
  <2>1. PostOK(w)
    BY <1>3 DEF PostOK, MailOps, IsLetter
  <2>2. \A g \in Senders : PostOK(post'[g])
    BY <1>1, <2>1 DEF PostsOK
  <2> QED
    BY <1>1, <2>2 DEF PostsOK, PostOK, IsLetter
<1>7. MailboxOK'
  BY <1>2 DEF LettersOK, MailboxOK
<1>8. Apart'
  <2>1. \A g, i \in Senders : IsLetter(post'[g]) /\ IsLetter(post'[i]) /\ post'[g].letter = post'[i].letter => g = i
    BY <1>1, <1>3, <1>4 DEF LettersOK, Apart
  <2> QED
    BY <2>1 DEF Apart, IsLetter
<1>9. Untold'
  <2>1. ASSUME NEW k \in Occasions, NotYet(k)'
        PROVE  /\ \A g \in Senders : ~(IsLetter(post'[g]) /\ post'[g].letter = k)
               /\ \A a \in Addresses : Blank(k, a)'
    BY <1>1, <1>2, <1>3, <2>1 DEF LettersOK, Untold, Blank
  <2> QED
    BY <2>1 DEF Untold, IsLetter
<1>10. Underway'
  <2>1. \A g \in Senders : Reached(post'[g])
    BY <1>1, <1>3, <1>5 DEF LettersOK, Underway, Reached
  <2> QED
    BY <1>2, <2>1 DEF Underway, Reached, Blank, IsLetter
<1>11. Once'
  BY <1>2 DEF LettersOK, Once
<1>12. Finished'
  <2>1. ASSUME NEW k \in Occasions, ~NotYet(k)', NEW a \in Addresses, AtRest(k, a)', <<k, a>> \notin excused'
        PROVE  Accounted(<<k, a>>)'
    <3>1. \A g \in Senders : IsLetter(post'[g]) /\ post'[g].letter = k => a \notin post'[g].left \cup post'[g].to
      BY <2>1 DEF AtRest, IsLetter
    <3>2. k # l
      BY <1>1, <1>3, <3>1
    <3>3. \A g \in Senders : IsLetter(post[g]) => post'[g] = post[g]
      BY <1>1
    <3>4. AtRest(k, a) /\ ~NotYet(k)
      BY <3>1, <3>2, <3>3, <2>1 DEF AtRest
    <3> QED
      BY <1>2, <2>1, <3>4 DEF LettersOK, Finished, Accounted
  <2> QED
    BY <2>1 DEF Finished
<1> QED
  BY <1>6, <1>7, <1>8, <1>9, <1>10, <1>11, <1>12 DEF LettersOK

\* A step of one letter: it leaves what the others are about alone.
LEMMA LetterGoes ==
  ASSUME LettersOK, PostsOK, NEW h \in Senders, IsLetter(post[h]),
         NEW l \in Occasions, l = post[h].letter,
         NEW p, PostOK(p), p = Still \/ (IsLetter(p) /\ p.letter = l),
         post' = [post EXCEPT ![h] = p], UNCHANGED books,
         MailboxOK', excused \subseteq excused',
         \A k \in Occasions, a \in Addresses :
           k # l => entry'[<<k, a>>] = entry[<<k, a>>] /\ handed'[<<k, a>>] = handed[<<k, a>>],
         \A a \in Addresses : handed'[<<l, a>>] <= 1 /\ entry'[<<l, a>>] # "twice",
         Reached(p)',
         \A a \in Addresses :
           \/ IsLetter(p) /\ a \in p.left \cup p.to
           \/ <<l, a>> \in excused'
           \/ Accounted(<<l, a>>)'
           \/ /\ a \notin post[h].left \cup post[h].to
              /\ entry'[<<l, a>>] = entry[<<l, a>>]
              /\ handed'[<<l, a>>] = handed[<<l, a>>]
  PROVE  LettersOK' /\ PostsOK'
<1>1. DOMAIN post' = Senders /\ post'[h] = p /\ \A g \in Senders \ {h} : post'[g] = post[g]
  BY DEF PostsOK
<1>2. calls' = calls
  BY DEF books
<1>3. l \in Occasions /\ l = post[h].letter
  OBVIOUS
<1>4. IsLetter(p) => p.letter = l
  BY <1>3, StillOK
<1>5. \A g \in Senders \ {h} : IsLetter(post[g]) => post[g].letter # l /\ post[g] \in LetterPost
  BY <1>3 DEF LettersOK, Apart, PostsOK, PostOK
<1>6. PostsOK'
  BY <1>1 DEF PostsOK, PostOK, IsLetter
<1>7. Apart'
  <2>1. \A g, i \in Senders : IsLetter(post'[g]) /\ IsLetter(post'[i]) /\ post'[g].letter = post'[i].letter => g = i
    BY <1>1, <1>4, <1>5 DEF LettersOK, Apart
  <2> QED
    BY <2>1 DEF Apart, IsLetter
<1>8. Untold'
  <2>1. ASSUME NEW k \in Occasions, NotYet(k)
        PROVE  /\ \A g \in Senders : ~(IsLetter(post'[g]) /\ post'[g].letter = k)
               /\ \A a \in Addresses : entry'[<<k, a>>] = "none" /\ handed'[<<k, a>>] = 0
    <3>1. k # l
      BY <1>3, <2>1 DEF LettersOK, Untold
    <3> QED
      BY <1>1, <1>3, <1>4, <2>1, <3>1 DEF LettersOK, Untold, Blank
  <2> QED
    BY <1>2, <2>1 DEF Untold, NotYet, Blank, IsLetter
<1>9. Underway'
  <2>1. ASSUME NEW g \in Senders \ {h}, IsLetter(post[g]) PROVE Reached(post[g])'
    <3>1. post'[g] = post[g] /\ post[g].letter # l /\ post[g] \in LetterPost
      BY <1>1, <1>5, <2>1
    <3>2. PICK q : q = post[g]
      OBVIOUS
    <3>3. Reached(q) /\ q.letter # l /\ q \in LetterPost
      BY <3>1, <3>2 DEF LettersOK, Underway
    <3>4. \A a \in Addresses : /\ entry'[<<q.letter, a>>] = entry[<<q.letter, a>>]
                               /\ handed'[<<q.letter, a>>] = handed[<<q.letter, a>>]
      BY <1>3, <3>3 DEF LetterPost
    <3>5. q.left \subseteq Addresses /\ q.to \subseteq Addresses
      BY <3>3 DEF LetterPost
    <3>6. Reached(q)'
      BY <3>3, <3>4, <3>5 DEF Reached, Blank
    <3> QED
      BY <3>1, <3>2, <3>6 DEF Reached, IsLetter, Blank
  <2>2. Reached(post[h])'
    BY <1>1 DEF Reached, IsLetter, Blank
  <2>3. ASSUME NEW g \in Senders \ {h}, ~IsLetter(post[g]) PROVE Reached(post[g])'
    BY <1>1, <2>3 DEF Reached, IsLetter
  <2> QED
    BY <2>1, <2>2, <2>3 DEF Underway
<1>10. Once'
  BY <1>3 DEF LettersOK, Once
<1>11. Finished'
  <2>1. ASSUME NEW k \in Occasions, ~NotYet(k), NEW a \in Addresses, <<k, a>> \notin excused',
               \A g \in Senders : IsLetter(post'[g]) /\ post'[g].letter = k => a \notin post'[g].left \cup post'[g].to
        PROVE  Accounted(<<k, a>>)'
    <3>2. CASE k # l
      <4>1. AtRest(k, a)
        BY <1>1, <1>3, <2>1, <3>2 DEF AtRest
      <4>2. Accounted(<<k, a>>)
        BY <2>1, <4>1 DEF LettersOK, Finished
      <4> QED
        BY <1>3, <3>2, <4>2 DEF Accounted, Pairs
    <3>3. CASE k = l
      <4>1. ~(IsLetter(p) /\ a \in p.left \cup p.to)
        BY <1>1, <1>4, <2>1, <3>3
      <4>2. CASE Accounted(<<l, a>>)'
        BY <3>3, <4>2
      <4>3. CASE /\ a \notin post[h].left \cup post[h].to
                 /\ entry'[<<l, a>>] = entry[<<l, a>>] /\ handed'[<<l, a>>] = handed[<<l, a>>]
        <5>1. AtRest(l, a)
          BY <1>5, <4>3 DEF AtRest
        <5>2. Accounted(<<l, a>>)
          BY <2>1, <3>3, <5>1 DEF LettersOK, Finished
        <5> QED
          BY <3>3, <4>3, <5>2 DEF Accounted
      <4> QED
        BY <1>3, <2>1, <3>3, <4>1, <4>2, <4>3
    <3> QED
      BY <3>2, <3>3
  <2> QED
    BY <1>2, <2>1 DEF Finished, AtRest, IsLetter, NotYet
<1> QED
  BY <1>6, <1>7, <1>8, <1>9, <1>10, <1>11 DEF LettersOK

\* The letter, and the address it is written to.
LEMMA LetterIs ==
  ASSUME PostsOK, NEW h \in Senders, IsLetter(post[h])
  PROVE  /\ post[h] \in LetterPost /\ post[h].letter \in Occasions /\ post[h].left \subseteq Addresses
         /\ post[h].at \in {"start", "render"} => post[h].to = {}
         /\ post[h].at \notin {"start", "render"} => \E a \in Addresses \ post[h].left : post[h].to = {a} /\ Pair(h) = <<post[h].letter, a>>
<1>1. \A a : (CHOOSE b \in {a} : TRUE) = a
  OBVIOUS
<1>2. PostOK(post[h])
  BY DEF PostsOK
<1> QED
  BY <1>1, <1>2 DEF PostOK, LetterPost, Pair

\* Nothing else is written in the log or handed over.
OthersAlone(x) == \A y \in (Pairs) \ {x} : entry'[y] = entry[y] /\ handed'[y] = handed[y]

\* Its next place at the same address.
LEMMA LetterMoves ==
  ASSUME LettersOK, PostsOK, NEW h \in Senders, IsLetter(post[h]),
         NEW l, l = post[h].letter, NEW a \in Addresses \ post[h].left, NEW L, L = post[h].left,
         post[h].to = {a} \/ (post[h].to = {} /\ a \in Addresses),
         NEW p, p \in LetterPost, p.letter = l, p.left = L, p.to = {a}, p.at \notin {"start", "render"},
         post' = [post EXCEPT ![h] = p], UNCHANGED books,
         MailboxOK', excused \subseteq excused',
         OthersAlone(<<l, a>>),
         handed'[<<l, a>>] <= 1 /\ entry'[<<l, a>>] # "twice",
         /\ p.at \in {"unrendered", "pend"} => Blank(l, a)'
         /\ p.at \in {"hand", "failed", "sent", "again"} => entry'[<<l, a>>] = "pending"
         /\ p.at \in {"hand", "failed"} => handed'[<<l, a>>] = 0
         /\ p.at = "sent" => handed'[<<l, a>>] = 1
         /\ p.at = "again" => <<l, a>> \in excused'
  PROVE  LettersOK' /\ PostsOK'
<1>1. l \in Occasions /\ L \subseteq Addresses /\ a \notin L
  BY LetterIs
<1>2. IsLetter(p) /\ PostOK(p)
  BY <1>1 DEF PostOK, LetterPost, IsLetter, MailOps
<1>3. \A b \in L : Blank(l, b)
  BY DEF LettersOK, Underway, Reached
<1>4. \A k \in Occasions, b \in Addresses :
         k # l \/ b # a => entry'[<<k, b>>] = entry[<<k, b>>] /\ handed'[<<k, b>>] = handed[<<k, b>>]
  BY DEF OthersAlone, Pairs
<1>5. Reached(p)'
  <2>1. \A b \in L : Blank(l, b)'
    BY <1>1, <1>3, <1>4 DEF Blank
  <2> QED
    BY <2>1 DEF Reached
<1>6. \A b \in Addresses : handed'[<<l, b>>] <= 1 /\ entry'[<<l, b>>] # "twice"
  BY <1>1, <1>4 DEF LettersOK, Once
<1>7. \A b \in Addresses :
        \/ IsLetter(p) /\ b \in p.left \cup p.to
        \/ <<l, b>> \in excused'
        \/ Accounted(<<l, b>>)'
        \/ /\ b \notin post[h].left \cup post[h].to
           /\ entry'[<<l, b>>] = entry[<<l, b>>] /\ handed'[<<l, b>>] = handed[<<l, b>>]
  BY <1>1, <1>2, <1>4
<1>8. \A k \in Occasions, b \in Addresses :
        k # l => entry'[<<k, b>>] = entry[<<k, b>>] /\ handed'[<<k, b>>] = handed[<<k, b>>]
  BY <1>4
<1> QED
  BY <1>1, <1>2, <1>5, <1>6, <1>7, <1>8, LetterGoes

LEMMA OnwardIs ==
  ASSUME PostsOK, NEW h \in Senders, IsLetter(post[h])
  PROVE  /\ PostOK(Onward(h)) /\ (Onward(h) = Still \/ (IsLetter(Onward(h)) /\ Onward(h).letter = post[h].letter))
         /\ IsLetter(Onward(h)) => Onward(h).left = post[h].left /\ Onward(h).to = {} /\ Onward(h).at = "render"
         /\ ~IsLetter(Onward(h)) => post[h].left = {}
<1>1. CASE post[h].left = {}
  BY <1>1, StillOK DEF Onward
<1>2. CASE post[h].left # {}
  <2>1. Onward(h) = [op |-> "letter", at |-> "render", letter |-> post[h].letter, left |-> post[h].left, to |-> {}]
    BY <1>2 DEF Onward, Writing
  <2> QED
    BY <2>1, LetterIs DEF PostOK, IsLetter, LetterPost, MailOps
<1> QED
  BY <1>1, <1>2

\* On to the next address, when one is done with.
LEMMA LetterOnward ==
  ASSUME LettersOK, PostsOK, NEW h \in Senders, IsLetter(post[h]),
         NEW l, l = post[h].letter, NEW a \in Addresses \ post[h].left, post[h].to = {a},
         post' = [post EXCEPT ![h] = Onward(h)], UNCHANGED books,
         MailboxOK', excused \subseteq excused',
         OthersAlone(<<l, a>>),
         handed'[<<l, a>>] <= 1 /\ entry'[<<l, a>>] # "twice",
         <<l, a>> \in excused' \/ Accounted(<<l, a>>)'
  PROVE  LettersOK' /\ PostsOK'
<1>1. PICK p : p = Onward(h)
  OBVIOUS
<1>2. PICK L : L = post[h].left
  OBVIOUS
<1>3. /\ PostOK(p) /\ (p = Still \/ (IsLetter(p) /\ p.letter = l))
      /\ IsLetter(p) => p.left = L /\ p.to = {} /\ p.at = "render"
      /\ ~IsLetter(p) => L = {}
  BY <1>1, <1>2, OnwardIs
<1>4. l \in Occasions /\ L \subseteq Addresses /\ a \notin L
  BY <1>2, LetterIs
<1>5. \A k \in Occasions, b \in Addresses :
         k # l \/ b # a => entry'[<<k, b>>] = entry[<<k, b>>] /\ handed'[<<k, b>>] = handed[<<k, b>>]
  BY DEF OthersAlone, Pairs
<1>6. \A b \in L : Blank(l, b)
  BY <1>2 DEF LettersOK, Underway, Reached
<1>7. Reached(p)'
  <2>1. \A b \in L : Blank(l, b)'
    BY <1>4, <1>5, <1>6 DEF Blank
  <2>2. IsLetter(p) => p.letter = l /\ p.left = L /\ p.to = {}
    BY <1>3, StillOK
  <2> QED
    BY <2>1, <2>2 DEF Reached
<1>8. \A b \in Addresses : handed'[<<l, b>>] <= 1 /\ entry'[<<l, b>>] # "twice"
  BY <1>4, <1>5 DEF LettersOK, Once
<1>9. \A b \in Addresses :
        \/ IsLetter(p) /\ b \in p.left \cup p.to
        \/ <<l, b>> \in excused'
        \/ Accounted(<<l, b>>)'
        \/ /\ b \notin post[h].left \cup post[h].to
           /\ entry'[<<l, b>>] = entry[<<l, b>>] /\ handed'[<<l, b>>] = handed[<<l, b>>]
  BY <1>2, <1>3, <1>4, <1>5
<1>10. \A k \in Occasions, b \in Addresses :
        k # l => entry'[<<k, b>>] = entry[<<k, b>>] /\ handed'[<<k, b>>] = handed[<<k, b>>]
  BY <1>5
<1>11. post' = [post EXCEPT ![h] = p]
  BY <1>1
<1> QED
  BY <1>3, <1>4, <1>7, <1>8, <1>9, <1>10, <1>11, LetterGoes

\* What the log and the mail server get.
LEMMA EntryIs ==
  ASSUME MailboxOK, NEW h, NEW x \in Pairs, Pair(h) = x, NEW status \in {"pending", "sent", "failed"}
  PROVE  /\ NewEntry(h, status) /\ entry[x] = "none" =>
              /\ entry' \in [Pairs -> EntryStates] /\ entry'[x] = status
              /\ \A y \in Pairs \ {x} : entry'[y] = entry[y]
         /\ Mark(h, status) /\ entry[x] = "pending" =>
              /\ entry' \in [Pairs -> EntryStates] /\ entry'[x] = status
              /\ \A y \in Pairs \ {x} : entry'[y] = entry[y]
         /\ handed' = [handed EXCEPT ![Pair(h)] = @ + 1] =>
              /\ handed' \in [Pairs -> Nat] /\ handed'[x] = handed[x] + 1
              /\ \A y \in Pairs \ {x} : handed'[y] = handed[y]
<1>1. entry \in [Pairs -> EntryStates] /\ handed \in [Pairs -> Nat] /\ status \in EntryStates
  BY DEF MailboxOK, EntryStates
<1>2. ASSUME NewEntry(h, status), entry[x] = "none" PROVE entry' = [entry EXCEPT ![x] = status]
  BY <1>1, <1>2 DEF NewEntry
<1>3. ASSUME Mark(h, status), entry[x] = "pending" PROVE entry' = [entry EXCEPT ![x] = status]
  BY <1>1, <1>3 DEF Mark
<1>4. ASSUME entry' = [entry EXCEPT ![x] = status]
      PROVE  /\ entry' \in [Pairs -> EntryStates] /\ entry'[x] = status
             /\ \A y \in Pairs \ {x} : entry'[y] = entry[y]
  BY <1>1, <1>4
<1>5. ASSUME handed' = [handed EXCEPT ![Pair(h)] = @ + 1]
      PROVE  /\ handed' \in [Pairs -> Nat] /\ handed'[x] = handed[x] + 1
             /\ \A y \in Pairs \ {x} : handed'[y] = handed[y]
  BY <1>1, <1>5
<1> QED
  BY <1>2, <1>3, <1>4, <1>5

LettersKept == LettersOK' /\ PostsOK'

LEMMA RenderKeeps ==
  ASSUME LettersOK, PostsOK, NEW h \in Senders, AtWork(h, "render"), NEW a \in post[h].left,
         NEW at \in {"pend", "unrendered"},
         post' = [post EXCEPT ![h] = [post[h] EXCEPT !.left = @ \ {a}, !.to = {a}, !.at = at]],
         UNCHANGED <<books, sweep, entry, handed>>, MailboxOK', excused \subseteq excused'
  PROVE  LettersKept
<1>1. IsLetter(post[h]) /\ post[h].at = "render"
  BY DEF AtWork, IsLetter
<1>2. post[h] \in LetterPost /\ post[h].letter \in Occasions /\ post[h].left \subseteq Addresses /\ post[h].to = {}
  BY <1>1, LetterIs
<1>3. PICK p : p = [post[h] EXCEPT !.left = @ \ {a}, !.to = {a}, !.at = at]
  OBVIOUS
<1>4. p \in LetterPost /\ p.letter = post[h].letter /\ p.left = post[h].left \ {a} /\ p.to = {a} /\ p.at = at
  BY <1>2, <1>3 DEF LetterPost
<1>5. PICK l, L : l = post[h].letter /\ L = post[h].left
  OBVIOUS
<1>6. IsLetter(p) /\ PostOK(p)
  BY <1>2, <1>4 DEF PostOK, LetterPost, IsLetter, MailOps
<1>7. entry' = entry /\ handed' = handed
  OBVIOUS
<1>8. \A b \in L : Blank(l, b)'
  BY <1>1, <1>5, <1>7 DEF LettersOK, Underway, Reached, Blank
<1>9. Reached(p)'
  BY <1>4, <1>5, <1>8 DEF Reached
<1>10. \A b \in Addresses : handed'[<<l, b>>] <= 1 /\ entry'[<<l, b>>] # "twice"
  BY <1>2, <1>5, <1>7 DEF LettersOK, Once
<1>11. \A b \in Addresses : (IsLetter(p) /\ b \in p.left \cup p.to) \/ b \notin post[h].left \cup post[h].to
  BY <1>2, <1>4, <1>6
<1>12. post' = [post EXCEPT ![h] = p] /\ l \in Occasions /\ p.letter = l
  BY <1>2, <1>3, <1>4, <1>5
<1> QED
  BY <1>1, <1>5, <1>6, <1>7, <1>9, <1>10, <1>11, <1>12, LetterGoes DEF LettersKept

LEMMA UnrenderedKeeps ==
  ASSUME LettersOK, PostsOK, NEW h \in Senders, LogUnrendered(h)
  PROVE  LettersKept
<1>1. IsLetter(post[h]) /\ post[h].at = "unrendered" /\ NewEntry(h, "failed") /\ post' = [post EXCEPT ![h] = Onward(h)]
  BY DEF LogUnrendered, AtWork, IsLetter, Go
<1>2. PICK l \in Occasions, a \in Addresses \ post[h].left :
        l = post[h].letter /\ post[h].to = {a} /\ Pair(h) = <<l, a>> /\ <<l, a>> \in Pairs
  BY <1>1, LetterIs DEF Pairs
<1>3. UNCHANGED <<books, sweep, handed, excused>>
  BY DEF LogUnrendered
<1>4. Blank(l, a)
  BY <1>1, <1>2 DEF LettersOK, Underway, Reached
<1>5. MailboxOK
  BY DEF LettersOK
<1>6. /\ entry' \in [Pairs -> EntryStates] /\ entry'[<<l, a>>] = "failed"
      /\ \A y \in (Pairs) \ {<<l, a>>} : entry'[y] = entry[y]
  BY <1>1, <1>2, <1>4, <1>5, EntryIs DEF Blank
<1>7. MailboxOK' /\ Accounted(<<l, a>>)' /\ handed'[<<l, a>>] = 0
  BY <1>3, <1>4, <1>5, <1>6 DEF MailboxOK, Accounted, Blank
<1>8. OthersAlone(<<l, a>>) /\ excused \subseteq excused' /\ handed'[<<l, a>>] <= 1 /\ entry'[<<l, a>>] # "twice"
  BY <1>1, <1>3, <1>6, <1>7 DEF OthersAlone
<1> QED
  BY <1>1, <1>2, <1>3, <1>7, <1>8, LetterOnward DEF LettersKept

LEMMA PendingKeeps ==
  ASSUME LettersOK, PostsOK, NEW h \in Senders, LogPending(h)
  PROVE  LettersKept
<1>1. IsLetter(post[h]) /\ post[h].at = "pend" /\ NewEntry(h, "pending")
  BY DEF LogPending, AtWork, IsLetter
<1>2. PICK l \in Occasions, a \in Addresses \ post[h].left :
        l = post[h].letter /\ post[h].to = {a} /\ Pair(h) = <<l, a>> /\ <<l, a>> \in Pairs
  BY <1>1, LetterIs DEF Pairs
<1>3. UNCHANGED <<books, sweep, handed, excused>>
  BY DEF LogPending
<1>4. Blank(l, a)
  BY <1>1, <1>2 DEF LettersOK, Underway, Reached
<1>5. MailboxOK
  BY DEF LettersOK
<1>6. /\ entry' \in [Pairs -> EntryStates] /\ entry'[<<l, a>>] = "pending"
      /\ \A y \in (Pairs) \ {<<l, a>>} : entry'[y] = entry[y]
  BY <1>1, <1>2, <1>4, <1>5, EntryIs DEF Blank
<1>7. MailboxOK' /\ entry'[<<l, a>>] = "pending" /\ handed'[<<l, a>>] = 0
  BY <1>3, <1>4, <1>5, <1>6 DEF MailboxOK, Blank
<1>8. PICK p, L : p = [post[h] EXCEPT !.at = "hand"] /\ L = post[h].left
  OBVIOUS
<1>9. p \in LetterPost /\ p.letter = l /\ p.left = L /\ p.to = {a} /\ p.at = "hand" /\ post' = [post EXCEPT ![h] = p]
  BY <1>1, <1>2, <1>8, LetterIs DEF LetterPost, LogPending, Go
<1>10. OthersAlone(<<l, a>>) /\ excused \subseteq excused' /\ handed'[<<l, a>>] <= 1 /\ entry'[<<l, a>>] # "twice"
  BY <1>3, <1>6, <1>7 DEF OthersAlone
<1> QED
  BY <1>1, <1>2, <1>3, <1>7, <1>8, <1>9, <1>10, LetterMoves DEF LettersKept

LEMMA HandKeeps ==
  ASSUME LettersOK, PostsOK, NEW h \in Senders, HandOver(h)
  PROVE  LettersKept
<1>1. IsLetter(post[h]) /\ post[h].at = "hand" /\ UNCHANGED <<books, sweep, entry, excused>>
  BY DEF HandOver, AtWork, IsLetter
<1>2. PICK l \in Occasions, a \in Addresses \ post[h].left :
        l = post[h].letter /\ post[h].to = {a} /\ Pair(h) = <<l, a>> /\ <<l, a>> \in Pairs
  BY <1>1, LetterIs DEF Pairs
<1>3. entry[<<l, a>>] = "pending" /\ handed[<<l, a>>] = 0
  BY <1>1, <1>2 DEF LettersOK, Underway, Reached
<1>4. MailboxOK
  BY DEF LettersOK
<1>5. PICK at \in {"sent", "failed"} :
        /\ handed' = IF at = "sent" THEN [handed EXCEPT ![Pair(h)] = @ + 1] ELSE handed
        /\ post' = [post EXCEPT ![h] = [post[h] EXCEPT !.at = at]]
  BY DEF HandOver, Go
<1>6. /\ handed' \in [Pairs -> Nat]
      /\ handed'[<<l, a>>] = IF at = "sent" THEN 1 ELSE 0
      /\ \A y \in (Pairs) \ {<<l, a>>} : handed'[y] = handed[y]
  <2>1. handed' = [handed EXCEPT ![Pair(h)] = @ + 1] =>
          /\ handed' \in [Pairs -> Nat] /\ handed'[<<l, a>>] = handed[<<l, a>>] + 1
          /\ \A y \in (Pairs) \ {<<l, a>>} : handed'[y] = handed[y]
    BY <1>2, <1>4, EntryIs
  <2> QED
    BY <1>3, <1>4, <1>5, <2>1 DEF MailboxOK
<1>7. MailboxOK' /\ entry'[<<l, a>>] = "pending"
  BY <1>1, <1>3, <1>4, <1>6 DEF MailboxOK
<1>8. PICK p, L : p = [post[h] EXCEPT !.at = at] /\ L = post[h].left
  OBVIOUS
<1>9. p \in LetterPost /\ p.letter = l /\ p.left = L /\ p.to = {a} /\ p.at = at /\ post' = [post EXCEPT ![h] = p]
  BY <1>1, <1>2, <1>5, <1>8, LetterIs DEF LetterPost
<1>10. OthersAlone(<<l, a>>) /\ excused \subseteq excused' /\ handed'[<<l, a>>] <= 1 /\ entry'[<<l, a>>] # "twice"
  BY <1>1, <1>6, <1>7 DEF OthersAlone
<1> QED
  BY <1>1, <1>2, <1>6, <1>7, <1>8, <1>9, <1>10, LetterMoves DEF LettersKept

LEMMA MarkKeeps ==
  ASSUME LettersOK, PostsOK, NEW h \in Senders, MarkEntry(h)
  PROVE  LettersKept
<1>1. PICK at \in {"sent", "failed", "again"} :
        /\ IsLetter(post[h]) /\ post[h].at = at
        /\ Mark(h, IF at = "again" THEN "failed" ELSE at)
        /\ post' = [post EXCEPT ![h] = Onward(h)] /\ UNCHANGED <<books, handed, excused, sweep>>
  BY DEF MarkEntry, AtWork, IsLetter, Go
<1>2. PICK l \in Occasions, a \in Addresses \ post[h].left :
        l = post[h].letter /\ post[h].to = {a} /\ Pair(h) = <<l, a>> /\ <<l, a>> \in Pairs
  BY <1>1, LetterIs DEF Pairs
<1>3. /\ entry[<<l, a>>] = "pending" /\ handed[<<l, a>>] <= 1
      /\ at = "sent" => handed[<<l, a>>] = 1
      /\ at = "failed" => handed[<<l, a>>] = 0
      /\ at = "again" => <<l, a>> \in excused
  BY <1>1, <1>2 DEF LettersOK, Underway, Reached, Once
<1>4. MailboxOK
  BY DEF LettersOK
<1>5. PICK status \in {"pending", "sent", "failed"} : status = IF at = "again" THEN "failed" ELSE at
  OBVIOUS
<1>6. /\ entry' \in [Pairs -> EntryStates] /\ entry'[<<l, a>>] = status
      /\ \A y \in Pairs \ {<<l, a>>} : entry'[y] = entry[y]
  <2>1. Mark(h, status)
    BY <1>1, <1>5
  <2> QED
    BY <1>2, <1>3, <1>4, <2>1, EntryIs
<1>7. MailboxOK' /\ (<<l, a>> \in excused' \/ Accounted(<<l, a>>)')
  BY <1>1, <1>3, <1>4, <1>5, <1>6 DEF MailboxOK, Accounted
<1>8. OthersAlone(<<l, a>>) /\ excused \subseteq excused' /\ handed'[<<l, a>>] <= 1 /\ entry'[<<l, a>>] # "twice"
  BY <1>1, <1>3, <1>6, <1>7 DEF OthersAlone
<1> QED
  BY <1>1, <1>2, <1>3, <1>7, <1>8, LetterOnward DEF LettersKept

LEMMA QueryKeeps ==
  ASSUME LettersOK, PostsOK, NEW h \in Senders, QueryFails(h)
  PROVE  LettersKept
<1>1. IsLetter(post[h]) /\ UNCHANGED <<books, entry, handed, sweep>>
  BY DEF QueryFails, IsLetter
<1>2. entry' = entry /\ handed' = handed
  BY <1>1
<1>3. /\ post[h] \in LetterPost /\ post[h].letter \in Occasions /\ post[h].left \subseteq Addresses
      /\ post[h].to \subseteq Addresses
  BY <1>1, LetterIs DEF LetterPost
<1>4. \A X : X \subseteq Pairs /\ excused' = excused \cup X => MailboxOK' /\ excused \subseteq excused'
  BY <1>2 DEF LettersOK, MailboxOK
<1>5. CASE post[h].at = "render"
  <2>1. PICK a \in post[h].left, at \in {"pend", "unrendered"} :
          /\ post' = [post EXCEPT ![h] = [post[h] EXCEPT !.left = @ \ {a}, !.to = {a}, !.at = at]]
          /\ excused' = excused \cup {<<post[h].letter, a>>}
    BY <1>5 DEF QueryFails
  <2>2. MailboxOK' /\ excused \subseteq excused'
    <3>1. {<<post[h].letter, a>>} \subseteq Pairs
      BY <1>3, <2>1 DEF Pairs
    <3> QED
      BY <1>4, <2>1, <3>1
  <2> QED
    BY <1>1, <1>5, <2>1, <2>2, RenderKeeps DEF AtWork, IsLetter
<1>6. CASE post[h].at # "render" /\ (Marking(h) \/ PassesOver(h))
  <2>1. PICK l \in Occasions, a \in Addresses \ post[h].left :
          l = post[h].letter /\ post[h].to = {a} /\ Pair(h) = <<l, a>> /\ <<l, a>> \in Pairs
    BY <1>1, <1>6, LetterIs DEF Marking, PassesOver, Pairs
  <2>2. handed'[<<l, a>>] <= 1 /\ entry'[<<l, a>>] # "twice" /\ OthersAlone(<<l, a>>)
    BY <1>2, <2>1 DEF LettersOK, Once, OthersAlone
  <2>3. CASE Marking(h)
    <3>1. excused' = excused \cup {<<l, a>>} /\ post' = [post EXCEPT ![h] = [post[h] EXCEPT !.at = "again"]]
      BY <1>6, <2>1, <2>3 DEF QueryFails
    <3>2. MailboxOK' /\ excused \subseteq excused' /\ <<l, a>> \in excused'
      BY <1>4, <2>1, <3>1
    <3>3. entry'[<<l, a>>] = "pending"
      BY <1>1, <1>2, <2>1, <2>3 DEF LettersOK, Underway, Reached, Marking
    <3>4. PICK p, L : p = [post[h] EXCEPT !.at = "again"] /\ L = post[h].left
      OBVIOUS
    <3>5. p \in LetterPost /\ p.letter = l /\ p.left = L /\ p.to = {a} /\ p.at = "again" /\ post' = [post EXCEPT ![h] = p]
      BY <1>3, <2>1, <3>1, <3>4 DEF LetterPost
    <3> QED
      BY <1>1, <2>1, <2>2, <3>2, <3>3, <3>4, <3>5, LetterMoves DEF LettersKept
  <2>4. CASE ~Marking(h)
    <3>1. excused' = excused \cup {<<l, a>>} /\ post' = [post EXCEPT ![h] = Onward(h)]
      BY <1>6, <2>1, <2>4 DEF QueryFails
    <3>2. MailboxOK' /\ excused \subseteq excused' /\ <<l, a>> \in excused'
      BY <1>4, <2>1, <3>1
    <3> QED
      BY <1>1, <2>1, <2>2, <3>1, <3>2, LetterOnward DEF LettersKept
  <2> QED
    BY <2>3, <2>4
<1>7. CASE post[h].at # "render" /\ ~Marking(h) /\ ~PassesOver(h)
  <2>1. excused' = excused \cup Cut(h) /\ post' = [post EXCEPT ![h] = Still]
    BY <1>7 DEF QueryFails
  <2>2. PICK l \in Occasions : l = post[h].letter
    BY <1>3
  <2>3. \A b \in post[h].left \cup post[h].to : <<l, b>> \in Cut(h)
    BY <2>2 DEF Cut
  <2>4. Cut(h) \subseteq Pairs
    BY <1>3 DEF Cut, Pairs
  <2>5. MailboxOK' /\ excused \subseteq excused'
    BY <1>4, <2>1, <2>4
  <2>6. \A b \in Addresses : handed'[<<l, b>>] <= 1 /\ entry'[<<l, b>>] # "twice"
    BY <1>2, <2>2 DEF LettersOK, Once
  <2>7. \A b \in Addresses : <<l, b>> \in excused' \/ b \notin post[h].left \cup post[h].to
    BY <2>1, <2>3
  <2>8. PICK p : p = Still
    OBVIOUS
  <2>9. PostOK(p) /\ Reached(p)' /\ post' = [post EXCEPT ![h] = p]
    BY <2>1, <2>8, StillOK DEF Reached, IsLetter, Still
  <2> QED
    BY <1>1, <1>2, <2>2, <2>5, <2>6, <2>7, <2>8, <2>9, LetterGoes DEF LettersKept
<1> QED
  BY <1>5, <1>6, <1>7

\* What a step of a letter leaves alone, and that it is of that letter alone.
LEMMA LetterFrame ==
  ASSUME BooksOK, PostsOK, NEW h \in Senders, LetterStep(h)
  PROVE  /\ UNCHANGED <<template, books, sweep, mailOffer>> /\ mailFaults' \in 0 .. MaxMailFaults
         /\ IsLetter(post[h]) /\ \E p : post' = [post EXCEPT ![h] = p] /\ p.op \in {"letter", "still"}
<1>1. IsLetter(post[h])
  BY DEF LetterStep, RenderLetter, LogUnrendered, LogPending, HandOver, MarkEntry, QueryFails, AtWork, IsLetter
<1>2. post[h] \in LetterPost
  BY <1>1, LetterIs
<1>3. Onward(h).op \in {"letter", "still"} /\ Still.op = "still"
  BY DEF Onward, Writing, Still
<1>4. \A at : [post[h] EXCEPT !.at = at].op = "letter"
  BY <1>2 DEF LetterPost
<1>5. mailFaults \in 0 .. MaxMailFaults
  BY DEF BooksOK
<1>6. CASE RenderLetter(h)
  <2>1. PICK a, at : post' = [post EXCEPT ![h] = [post[h] EXCEPT !.left = post[h].left \ {a}, !.to = {a}, !.at = at]]
    BY <1>6 DEF RenderLetter, Go
  <2>2. PICK p : p = [post[h] EXCEPT !.left = post[h].left \ {a}, !.to = {a}, !.at = at]
    OBVIOUS
  <2>3. p.op = "letter" /\ post' = [post EXCEPT ![h] = p]
    BY <1>2, <2>1, <2>2 DEF LetterPost
  <2> QED
    BY <1>1, <1>5, <1>6, <2>3 DEF RenderLetter, Go
<1>7. CASE LogUnrendered(h)
  BY <1>1, <1>3, <1>5, <1>7 DEF LogUnrendered, Go
<1>8. CASE LogPending(h)
  BY <1>1, <1>4, <1>5, <1>8 DEF LogPending, Go
<1>9. CASE HandOver(h)
  BY <1>1, <1>4, <1>5, <1>9 DEF HandOver, Go
<1>10. CASE MarkEntry(h)
  BY <1>1, <1>3, <1>5, <1>10 DEF MarkEntry, Go
<1>11. CASE QueryFails(h)
  <2>1. UNCHANGED <<template, books, sweep, mailOffer>> /\ mailFaults' \in 0 .. MaxMailFaults
    <3>1. mailFaults' = mailFaults + 1 /\ mailFaults < MaxMailFaults /\ UNCHANGED <<template, books, sweep, mailOffer>>
      BY <1>11 DEF QueryFails
    <3> QED
      BY <1>5, <3>1, CorrespondenceAssumption
  <2>2. CASE post[h].at = "render"
    <3>1. PICK a, at : post' = [post EXCEPT ![h] = [post[h] EXCEPT !.left = post[h].left \ {a}, !.to = {a}, !.at = at]]
      BY <1>11, <2>2 DEF QueryFails
    <3>2. PICK p : p = [post[h] EXCEPT !.left = post[h].left \ {a}, !.to = {a}, !.at = at]
      OBVIOUS
    <3>3. p.op = "letter" /\ post' = [post EXCEPT ![h] = p]
      BY <1>2, <3>1, <3>2 DEF LetterPost
    <3> QED
      BY <1>1, <2>1, <3>3
  <2>3. CASE post[h].at # "render"
    BY <1>1, <1>3, <1>4, <1>11, <2>1, <2>3 DEF QueryFails
  <2> QED
    BY <2>2, <2>3
<1> QED
  BY <1>1, <1>6, <1>7, <1>8, <1>9, <1>10, <1>11 DEF LetterStep

\* Letters have no part in the templates.
LEMMA LetterStepKeeps ==
  ASSUME MailOK, NEW h \in Senders, LetterStep(h)
  PROVE  MailOK'
<1>1. LettersOK /\ PostsOK
  BY DEF MailOK
<1>2. LettersKept
  <2>1. CASE RenderLetter(h)
    <3>1. PICK a \in post[h].left, at \in {"pend", "unrendered"} :
            post' = [post EXCEPT ![h] = [post[h] EXCEPT !.left = @ \ {a}, !.to = {a}, !.at = at]]
      BY <2>1 DEF RenderLetter, Go
    <3>2. UNCHANGED <<books, sweep, entry, handed, excused>> /\ AtWork(h, "render")
      BY <2>1 DEF RenderLetter, mailbox
    <3>3. MailboxOK' /\ excused \subseteq excused'
      BY <1>1, <3>2 DEF LettersOK, MailboxOK
    <3> QED
      BY <1>1, <3>1, <3>2, <3>3, RenderKeeps
  <2>2. CASE LogUnrendered(h)
    BY <1>1, <2>2, UnrenderedKeeps
  <2>3. CASE LogPending(h)
    BY <1>1, <2>3, PendingKeeps
  <2>4. CASE HandOver(h)
    BY <1>1, <2>4, HandKeeps
  <2>5. CASE MarkEntry(h)
    BY <1>1, <2>5, MarkKeeps
  <2>6. CASE QueryFails(h)
    BY <1>1, <2>6, QueryKeeps
  <2> QED
    BY <2>1, <2>2, <2>3, <2>4, <2>5, <2>6 DEF LetterStep
<1>3. UNCHANGED <<template, books, sweep, mailOffer>> /\ mailFaults' \in 0 .. MaxMailFaults
  BY LetterFrame DEF MailOK
<1>4. UNCHANGED <<progress, pay, window, warned, calls, stale>>
  BY <1>3 DEF books
<1>5. IsLetter(post[h]) /\ \E p : post' = [post EXCEPT ![h] = p] /\ p.op \in {"letter", "still"}
  BY LetterFrame DEF MailOK
<1>6. Installed'
  BY <1>1, <1>3, <1>5 DEF MailOK, Installed, PostsOK
<1>7. BooksOK' /\ OccasionsOK'
  BY <1>3, <1>4 DEF MailOK, BooksOK, OccasionsOK, Reopens
<1>8. SweepOK'
  <2>1. post[Sweeper] = Still => h # Sweeper
    BY <1>5, StillOK
  <2>2. post[Sweeper] = Still => post'[Sweeper] = Still
    BY <1>1, <1>5, <2>1 DEF PostsOK, Senders
  <2> QED
    BY <1>3, <1>4, <2>2 DEF MailOK, SweepOK, Still
<1>9. template' \in [TemplateRows -> TemplateRecord]
  BY <1>3 DEF MailOK
<1> QED
  BY <1>2, <1>6, <1>7, <1>8, <1>9 DEF MailOK, LettersKept

\* What a request is about to do to a template.
Takes(p) == p.op = "delete" \/ (p.op = "update" /\ "key" \in DOMAIN p.set)

LEMMA RequestsAre == \A h \in MailRequests : h \in Senders /\ h # Sweeper
BY CorrespondenceAssumption DEF Senders

LEMMA TemplatesGo ==
  ASSUME MailOK, NEW h \in MailRequests, ~IsLetter(post[h]),
         NEW p, PostOK(p), ~IsLetter(p), post' = [post EXCEPT ![h] = p],
         UNCHANGED <<books, mailbox, sweep, mailOffer, mailFaults>>,
         template' \in [TemplateRows -> TemplateRecord],
         \A r \in TemplateRows :
           template[r].state = "live" /\ template[r].key \in InstalledKeys =>
             template'[r].state = "live" /\ template'[r].key = template[r].key,
         \A r \in TemplateRows :
           template[r].state # "none" /\ template[r].key \notin InstalledKeys =>
             template'[r].state # "none" /\ template'[r].key \notin InstalledKeys,
         Takes(p) => template[p.row].state # "none" /\ template[p.row].key \notin InstalledKeys
  PROVE  MailOK'
<1>1. DOMAIN post' = Senders /\ post'[h] = p /\ \A g \in Senders \ {h} : post'[g] = post[g]
  BY RequestsAre DEF MailOK, PostsOK
<1>2. LettersOK'
  BY LettersStay, RequestsAre DEF MailOK, books
<1>3. PostsOK'
  BY <1>1 DEF MailOK, PostsOK, PostOK, IsLetter
<1>4. BooksOK' /\ OccasionsOK' /\ SweepOK'
  <2>1. UNCHANGED <<progress, pay, window, warned, calls, stale>>
    BY DEF books
  <2>2. post'[Sweeper] = post[Sweeper]
    BY <1>1, RequestsAre DEF Senders
  <2> QED
    BY <2>1, <2>2 DEF MailOK, BooksOK, OccasionsOK, SweepOK, Reopens, Still
<1>5. Installed'
  <2>1. \A k \in InstalledKeys : \E r \in TemplateRows : template'[r].state = "live" /\ template'[r].key = k
    BY DEF MailOK, Installed
  <2>2. \A g \in Senders : Takes(post'[g]) =>
          /\ template[post'[g].row].key \notin InstalledKeys /\ template[post'[g].row].state # "none"
          /\ post'[g].row \in TemplateRows
    BY <1>1 DEF MailOK, Installed, PostsOK, PostOK, Takes
  <2>3. \A g \in Senders : Takes(post'[g]) =>
          template'[post'[g].row].key \notin InstalledKeys /\ template'[post'[g].row].state # "none"
    BY <2>2
  <2> QED
    BY <2>1, <2>3 DEF Installed, Takes
<1> QED
  BY <1>2, <1>3, <1>4, <1>5 DEF MailOK

LEMMA InstalledTaken == MailOK => \A k \in InstalledKeys : KeyTaken(k)
BY DEF MailOK, Installed, KeyTaken

LEMMA TemplateRequestKeeps ==
  ASSUME MailOK, NEW h \in MailRequests, CreateTemplate(h) \/ UpdateTemplate(h) \/ DeleteTemplate(h)
  PROVE  MailOK'
<1>1. PICK p : /\ PostOK(p) /\ ~IsLetter(p) /\ Occupy(h, p)
               /\ Takes(p) => template[p.row].state # "none" /\ template[p.row].key \notin InstalledKeys
  <2>1. CASE CreateTemplate(h)
    BY <2>1 DEF CreateTemplate, PostOK, IsLetter, Takes, MailOps
  <2>2. CASE UpdateTemplate(h)
    <3>1. PICK r \in TemplateRows :
            /\ template[r].state = "live"
            /\ \/ \E k \in TemplateKeys :
                    /\ template[r].key \notin MailSystemKeys
                    /\ Occupy(h, [op |-> "update", row |-> r, set |-> [key |-> k]])
               \/ \E on \in BOOLEAN : Occupy(h, [op |-> "update", row |-> r, set |-> [active |-> on]])
      BY <2>2 DEF UpdateTemplate
    <3>2. CASE \E k \in TemplateKeys :
                 /\ template[r].key \notin MailSystemKeys
                 /\ Occupy(h, [op |-> "update", row |-> r, set |-> [key |-> k]])
      <4>1. PICK k \in TemplateKeys :
              /\ template[r].key \notin MailSystemKeys
              /\ Occupy(h, [op |-> "update", row |-> r, set |-> [key |-> k]])
        BY <3>2
      <4>2. template[r].key \notin InstalledKeys
        BY <4>1, CorrespondenceAssumption
      <4> QED
        BY <3>1, <4>1, <4>2 DEF PostOK, IsLetter, MailOps
    <3>3. CASE \E on \in BOOLEAN : Occupy(h, [op |-> "update", row |-> r, set |-> [active |-> on]])
      <4>1. PICK on \in BOOLEAN : Occupy(h, [op |-> "update", row |-> r, set |-> [active |-> on]])
        BY <3>3
      <4>2. "key" \notin DOMAIN [active |-> on]
        OBVIOUS
      <4> QED
        BY <4>1, <4>2 DEF PostOK, IsLetter, MailOps, Takes
    <3> QED
      BY <3>1, <3>2, <3>3
  <2>3. CASE DeleteTemplate(h)
    <3>1. PICK r \in TemplateRows :
            template[r].state = "live" /\ template[r].key \notin MailSystemKeys /\ Occupy(h, [op |-> "delete", row |-> r])
      BY <2>3 DEF DeleteTemplate
    <3>2. template[r].key \notin InstalledKeys
      BY <3>1, CorrespondenceAssumption
    <3> QED
      BY <3>1, <3>2 DEF PostOK, IsLetter, MailOps
  <2> QED
    BY <2>1, <2>2, <2>3
<1>2. ~IsLetter(post[h]) /\ post' = [post EXCEPT ![h] = p]
  BY <1>1, StillOK DEF Occupy
<1>3. UNCHANGED <<template, books, mailbox, sweep, mailOffer, mailFaults>>
  BY <1>1 DEF Occupy, CreateTemplate, UpdateTemplate, DeleteTemplate
<1>4. template' \in [TemplateRows -> TemplateRecord]
  BY <1>3 DEF MailOK
<1> QED
  BY <1>1, <1>2, <1>3, <1>4, TemplatesGo

LEMMA TemplateWriteKeeps ==
  ASSUME MailOK, NEW h \in MailRequests, InsertTemplate(h) \/ SaveTemplate(h) \/ DropTemplate(h)
  PROVE  MailOK'
<1>1. /\ PostOK(post[h]) /\ ~IsLetter(post[h]) /\ post' = [post EXCEPT ![h] = Still]
      /\ UNCHANGED <<books, mailbox, sweep, mailOffer, mailFaults>>
  BY RequestsAre DEF MailOK, PostsOK, InsertTemplate, SaveTemplate, DropTemplate, Go, IsLetter
<1>2. PICK p : p = Still /\ PostOK(p) /\ ~IsLetter(p) /\ ~Takes(p)
  BY StillOK DEF Takes, Still
<1>3. template \in [TemplateRows -> TemplateRecord]
  BY DEF MailOK
<1>4. ASSUME template' = template PROVE MailOK'
  BY <1>1, <1>2, <1>3, <1>4, TemplatesGo
<1>5. ASSUME NEW r \in TemplateRows, NEW new \in TemplateRecord, template' = [template EXCEPT ![r] = new],
             template[r].state = "live" /\ template[r].key \in InstalledKeys => new.state = "live" /\ new.key = template[r].key,
             template[r].state # "none" /\ template[r].key \notin InstalledKeys => new.state # "none" /\ new.key \notin InstalledKeys
      PROVE  MailOK'
  <2>1. template'[r] = new /\ \A s \in TemplateRows \ {r} : template'[s] = template[s]
    BY <1>3, <1>5
  <2>2. template' \in [TemplateRows -> TemplateRecord]
    BY <1>3, <1>5
  <2> QED
    BY <1>1, <1>2, <1>5, <2>1, <2>2, TemplatesGo
<1>6. CASE InsertTemplate(h) /\ template' # template
  <2>1. PICK r \in TemplateRows :
          /\ template[r].state = "none"
          /\ template' = [template EXCEPT ![r] = [state |-> "live", key |-> post[h].key, active |-> TRUE]]
    BY <1>6 DEF InsertTemplate
  <2>2. [state |-> "live", key |-> post[h].key, active |-> TRUE] \in TemplateRecord
    BY <1>1, <1>6 DEF InsertTemplate, PostOK, TemplateRecord
  <2> QED
    BY <1>5, <2>1, <2>2
<1>7. CASE SaveTemplate(h) /\ template' # template
  <2>1. post[h].op = "update" /\ post[h].row \in TemplateRows /\ template[post[h].row] \in TemplateRecord
    BY <1>1, <1>3, <1>7 DEF SaveTemplate, PostOK
  <2>2. CASE "key" \in DOMAIN post[h].set
    <3>1. /\ ~KeyTaken(post[h].set.key)
          /\ template' = [template EXCEPT ![post[h].row] = [template[post[h].row] EXCEPT !.key = post[h].set.key]]
      BY <1>7, <2>2 DEF SaveTemplate
    <3>2. post[h].set.key \in TemplateKeys \ InstalledKeys
      BY <1>1, <2>1, <2>2, <3>1, InstalledTaken DEF PostOK
    <3>3. template[post[h].row].key \notin InstalledKeys /\ template[post[h].row].state # "none"
      BY <2>1, <2>2, RequestsAre DEF MailOK, Installed
    <3>4. PICK new : new = [template[post[h].row] EXCEPT !.key = post[h].set.key]
      OBVIOUS
    <3>5. new \in TemplateRecord /\ new.key = post[h].set.key /\ new.state = template[post[h].row].state
      BY <2>1, <3>2, <3>4 DEF TemplateRecord
    <3> QED
      BY <1>5, <2>1, <3>1, <3>2, <3>3, <3>4, <3>5
  <2>3. CASE "key" \notin DOMAIN post[h].set
    <3>1. template' = [template EXCEPT ![post[h].row] = [template[post[h].row] EXCEPT !.active = post[h].set.active]]
      BY <1>7, <2>3 DEF SaveTemplate
    <3>2. post[h].set.active \in BOOLEAN
      BY <1>1, <2>1, <2>3 DEF PostOK
    <3>3. PICK new : new = [template[post[h].row] EXCEPT !.active = post[h].set.active]
      OBVIOUS
    <3>4. new \in TemplateRecord /\ new.key = template[post[h].row].key /\ new.state = template[post[h].row].state
      BY <2>1, <3>2, <3>3 DEF TemplateRecord
    <3> QED
      BY <1>5, <2>1, <3>1, <3>3, <3>4
  <2> QED
    BY <2>2, <2>3
<1>8. CASE DropTemplate(h)
  <2>1. post[h].op = "delete" /\ post[h].row \in TemplateRows /\ template[post[h].row] \in TemplateRecord
    BY <1>1, <1>3, <1>8 DEF DropTemplate, PostOK
  <2>2. template' = [template EXCEPT ![post[h].row] = [template[post[h].row] EXCEPT !.state = "deleted"]]
    BY <1>8 DEF DropTemplate
  <2>3. template[post[h].row].key \notin InstalledKeys
    BY <2>1, RequestsAre DEF MailOK, Installed
  <2>4. PICK new : new = [template[post[h].row] EXCEPT !.state = "deleted"]
    OBVIOUS
  <2>5. new \in TemplateRecord /\ new.key = template[post[h].row].key /\ new.state = "deleted"
    BY <2>1, <2>4 DEF TemplateRecord
  <2> QED
    BY <1>5, <2>1, <2>2, <2>3, <2>4, <2>5
<1> QED
  BY <1>4, <1>6, <1>7, <1>8

-----------------------------------------------------------------------------
(* The occasions.                                                             *)

\* Where the templates are left alone, and no request takes one up.
LEMMA InstalledStays ==
  ASSUME MailOK, template' = template, \A g \in Senders : Takes(post'[g]) => post'[g] = post[g]
  PROVE  Installed'
BY DEF MailOK, Installed, Takes

\* A request that is no letter, and calls for none.
LEMMA RequestGoes ==
  ASSUME MailOK, NEW h \in MailRequests, ~IsLetter(post[h]),
         NEW p, PostOK(p), ~IsLetter(p), ~Takes(p), post' = [post EXCEPT ![h] = p],
         UNCHANGED <<template, warned, calls, mailbox, sweep>>, stale \subseteq stale', BooksOK', OccasionsOK'
  PROVE  MailOK'
<1>1. DOMAIN post' = Senders /\ post'[h] = p /\ \A g \in Senders \ {h} : post'[g] = post[g]
  BY RequestsAre DEF MailOK, PostsOK
<1>2. LettersOK'
  BY LettersStay, RequestsAre DEF MailOK
<1>3. PostsOK'
  <2>1. \A g \in Senders : PostOK(post'[g])
    BY <1>1 DEF MailOK, PostsOK
  <2> QED
    BY <1>1, <2>1 DEF PostsOK, PostOK, IsLetter
<1>4. SweepOK'
  <2>1. post'[Sweeper] = post[Sweeper]
    BY <1>1, RequestsAre DEF Senders
  <2> QED
    BY <2>1, StillOK DEF MailOK, SweepOK
<1>5. Installed'
  BY <1>1, InstalledStays
<1>6. template' \in [TemplateRows -> TemplateRecord]
  BY DEF MailOK
<1> QED
  BY <1>2, <1>3, <1>4, <1>5, <1>6 DEF MailOK

LEMMA OccasionIsChecked ==
  ASSUME MailOK, NEW h \in MailRequests, CheckOccasion(h) \/ Declined(h) \/ WriteFails(h)
  PROVE  MailOK'
<1>1. PICK p : /\ post' = [post EXCEPT ![h] = p] /\ PostOK(p) /\ ~IsLetter(p) /\ ~Takes(p)
               /\ ~IsLetter(post[h])
  <2>1. CASE CheckOccasion(h)
    <3>1. PICK l \in Requested : Read(l) \in Allowing(l) /\ Occupy(h, [op |-> "occasion", kind |-> l, saw |-> Read(l)])
      BY <2>1 DEF CheckOccasion
    <3>2. PICK p : p = [op |-> "occasion", kind |-> l, saw |-> Read(l)]
      OBVIOUS
    <3>3. p.op = "occasion" /\ p.kind = l /\ p.saw = Read(l)
      BY <3>2
    <3>4. PostOK(p) /\ ~IsLetter(p) /\ ~Takes(p)
      BY <3>1, <3>3 DEF PostOK, IsLetter, Takes, MailOps
    <3>5. post[h] = Still /\ post' = [post EXCEPT ![h] = p]
      BY <3>1, <3>2 DEF Occupy
    <3> QED
      BY <3>4, <3>5, StillOK
  <2>2. CASE Declined(h) \/ WriteFails(h)
    <3>1. ~Takes(Still)
      BY DEF Takes, Still
    <3> QED
      BY <2>2, <3>1, StillOK DEF Declined, WriteFails, Go, IsLetter
  <2> QED
    BY <2>1, <2>2
<1>2. UNCHANGED <<template, books, mailbox, sweep, mailOffer>>
  BY DEF CheckOccasion, Declined, WriteFails, Occupy, Go
<1>3. UNCHANGED <<progress, pay, window, warned, calls, stale>>
  BY <1>2 DEF books
<1>4. mailFaults' \in 0 .. MaxMailFaults
  <2>1. mailFaults \in 0 .. MaxMailFaults
    BY DEF MailOK, BooksOK
  <2>2. mailFaults' = mailFaults \/ (mailFaults' = mailFaults + 1 /\ mailFaults < MaxMailFaults)
    BY DEF CheckOccasion, Declined, WriteFails, Occupy, Go
  <2> QED
    BY <2>1, <2>2, CorrespondenceAssumption
<1>5. BooksOK' /\ OccasionsOK'
  BY <1>2, <1>3, <1>4 DEF MailOK, BooksOK, OccasionsOK, Reopens
<1> QED
  BY <1>1, <1>2, <1>3, <1>5, RequestGoes

\* What a request writes on: what it had read, or something else, and then it is stale.
LEMMA WritesOn ==
  ASSUME MailOK, NEW h \in MailRequests, NEW k, Writes(h, k)
  PROVE  /\ k \in Requested /\ k \in LetterKinds /\ ~IsLetter(post[h]) /\ stale \subseteq stale' /\ stale' \subseteq LetterKinds
         /\ k \in stale' \/ (Read(k) \in Allowing(k) /\ stale' = stale)
         /\ UNCHANGED <<template, warned, mailbox, sweep>>
<1>1. post[h].op = "occasion" /\ post[h].kind = k /\ k \in Requested /\ post[h].saw \in Allowing(k)
  BY RequestsAre DEF Writes, MailOK, PostsOK, PostOK
<1>2. k \in LetterKinds
  BY <1>1 DEF Requested, LetterKinds
<1>3. stale \subseteq LetterKinds
  BY DEF MailOK, BooksOK
<1> QED
  BY <1>1, <1>2, <1>3 DEF Writes, IsLetter

LEMMA AllowedIs ==
  /\ Read("created") \in Allowing("created") => progress = "draft"
  /\ Read("paid") \in Allowing("paid") => pay = "open"
  /\ Read("status") \in Allowing("status") => progress = "submitted" /\ pay = "held"
  /\ Read("custom") \in Allowing("custom") => progress \in {"draft", "unpaid", "processing"}
BY DEF Read, Allowing

LEMMA ReopensAre ==
  /\ Reopens("created") = {"created"} /\ Reopens("paid") = {"paid"}
  /\ Reopens("status") = {"status", "paid"} /\ Reopens("custom") = {"custom", "status", "created"}
  /\ Reopens("warning") = {} /\ Reopens("expired") = {"created"}
BY DEF Reopens

\* How often there was an occasion for a letter, after one more for k.
LEMMA OneMoreCall ==
  ASSUME MailOK, NEW k \in LetterKinds, calls'[k] = calls[k] + 1, \A j \in LetterKinds \ {k} : calls'[j] = calls[j],
         stale \subseteq stale', calls[k] > 0 => stale' \cap Reopens(k) # {}
  PROVE  \A l \in LetterKinds : calls'[l] > 1 => stale' \cap Reopens(l) # {}
<1>1. ASSUME NEW l \in LetterKinds, calls'[l] > 1 PROVE stale' \cap Reopens(l) # {}
  <2>1. calls[k] \in Nat
    BY CorrespondenceAssumption DEF MailOK, BooksOK
  <2>2. CASE l = k
    BY <1>1, <2>1, <2>2
  <2>3. CASE l # k
    BY <1>1, <2>3 DEF MailOK, OccasionsOK
  <2> QED
    BY <2>2, <2>3
<1> QED
  BY <1>1

\* A write that comes with a letter.
LEMMA WriteStarts ==
  ASSUME MailOK, NEW h \in MailRequests, NEW k \in LetterKinds, Writes(h, k), Comes(h, k, "start"),
         progress' \in {"draft", "unpaid", "submitted", "processing", "decided", "expired"},
         pay' \in {"none", "open", "held", "captured", "over"}, window' \in {"open", "closing", "over"},
         OccasionsOK'
  PROVE  MailOK'
<1>1. BooksOK /\ PostsOK /\ LettersOK /\ h \in Senders /\ h # Sweeper
  BY RequestsAre DEF MailOK
<1>2. /\ ~IsLetter(post[h]) /\ stale \subseteq stale' /\ stale' \subseteq LetterKinds
      /\ UNCHANGED <<template, warned, mailbox, sweep>>
  BY WritesOn
<1>3. PICK l \in Occasions :
        /\ NotYet(l) /\ post' = [post EXCEPT ![h] = Writing(l, "start", Addresses)]
        /\ \A m \in Occasions : (NotYet(m)' => NotYet(m) /\ m # l) /\ (~NotYet(m)' => ~NotYet(m) \/ m = l)
  BY <1>1, CallIs
<1>4. /\ calls' \in [LetterKinds -> 0 .. MaxCalls] /\ \A j \in LetterKinds \ {k} : calls'[j] = calls[j]
      /\ mailOffer' = mailOffer /\ mailFaults' = mailFaults
  BY <1>1, CallCounts DEF Comes, Go
<1>5. LettersOK' /\ PostsOK'
  BY <1>1, <1>2, <1>3, LetterBegins
<1>6. BooksOK'
  <2>1. /\ warned' \in BOOLEAN /\ sweep' \in {"idle", "stamp", "warn", "look", "expire", "tell"}
        /\ mailOffer' \in MailOffers /\ mailFaults' \in 0 .. MaxMailFaults
    <3>1. warned' = warned /\ sweep' = sweep /\ mailOffer' = mailOffer /\ mailFaults' = mailFaults
      BY <1>2, <1>4
    <3> QED
      BY <1>1, <3>1 DEF BooksOK
  <2>2. calls' \in [LetterKinds -> 0 .. MaxCalls] /\ stale' \subseteq LetterKinds
    BY <1>2, <1>4
  <2> QED
    BY <2>1, <2>2 DEF BooksOK
<1>7. \A g \in Senders \ {h} : post'[g] = post[g]
  BY <1>1, <1>3 DEF PostsOK
<1>8. SweepOK'
  <2>1. post'[Sweeper] = post[Sweeper]
    BY <1>1, <1>7 DEF Senders
  <2>2. calls'["expired"] = calls["expired"] \/ k = "expired"
    BY <1>4 DEF LetterKinds
  <2>3. k # "expired"
    BY WritesOn DEF Requested
  <2> QED
    BY <1>2, <2>1, <2>2, <2>3, StillOK DEF MailOK, SweepOK
<1>9. Installed'
  <2>1. post'[h].op = "letter"
    BY <1>1, <1>3 DEF PostsOK, Writing
  <2>2. \A g \in Senders : Takes(post'[g]) => post'[g] = post[g]
    BY <1>7, <2>1 DEF Takes
  <2> QED
    BY <1>2, <2>2, InstalledStays
<1>10. template' \in [TemplateRows -> TemplateRecord]
  BY <1>2 DEF MailOK
<1> QED
  BY <1>5, <1>6, <1>8, <1>9, <1>10 DEF MailOK

LEMMA CreatedKeeps ==
  ASSUME MailOK, NEW h \in MailRequests, ApplicationCreated(h)
  PROVE  MailOK'
<1>1. /\ Writes(h, "created") /\ Comes(h, "created", "start")
      /\ progress' = "unpaid" /\ window' = "open" /\ pay' = pay
  BY DEF ApplicationCreated
<1>2. /\ "created" \in LetterKinds /\ stale \subseteq stale' /\ warned' = warned
      /\ "created" \in stale' \/ progress = "draft"
  BY <1>1, WritesOn, AllowedIs
<1>3. calls'["created"] = calls["created"] + 1 /\ \A j \in LetterKinds \ {"created"} : calls'[j] = calls[j]
  BY <1>1, <1>2, CallCounts DEF MailOK
<1>4. /\ calls'["paid"] = calls["paid"] /\ calls'["status"] = calls["status"] /\ calls'["custom"] = calls["custom"]
      /\ calls'["warning"] = calls["warning"] /\ calls'["expired"] = calls["expired"]
  BY <1>3 DEF LetterKinds
<1>5. calls["created"] > 0 => stale' \cap Reopens("created") # {}
  BY <1>2, ReopensAre DEF MailOK, OccasionsOK
<1>6. OccasionsOK'
  <2>1. \A l \in LetterKinds : calls'[l] > 1 => stale' \cap Reopens(l) # {}
    BY <1>2, <1>3, <1>5, OneMoreCall
  <2>2. /\ calls'["custom"] > 0 /\ stale' \cap Reopens("custom") = {} => progress' \in {"decided", "expired"}
        /\ calls'["expired"] > 0 /\ "created" \notin stale' => progress' \notin {"draft", "unpaid"}
    BY <1>2, <1>4, ReopensAre DEF MailOK, OccasionsOK
  <2>3. /\ calls'["created"] > 0 => progress' # "draft"
        /\ calls'["paid"] > 0 => pay' \notin {"none", "open"}
        /\ calls'["status"] > 0 /\ stale' \cap Reopens("status") = {} => pay' \in {"captured", "over"}
        /\ calls'["warning"] > 0 => warned'
    BY <1>1, <1>2, <1>4, ReopensAre DEF MailOK, OccasionsOK
  <2> QED
    BY <2>1, <2>2, <2>3, ReopensAre DEF OccasionsOK, Reopens
<1>7. pay' \in {"none", "open", "held", "captured", "over"} /\ progress' = "unpaid" /\ window' = "open"
  BY <1>1 DEF MailOK, BooksOK
<1> QED
  BY <1>1, <1>2, <1>6, <1>7, WriteStarts

LEMMA PaidKeeps ==
  ASSUME MailOK, NEW h \in MailRequests, PaymentSucceeded(h)
  PROVE  MailOK'
<1>1. /\ Writes(h, "paid") /\ Comes(h, "paid", "start")
      /\ pay' = "held" /\ window' = window
      /\ progress' = IF progress = "unpaid" THEN "submitted" ELSE progress
  BY DEF PaymentSucceeded
<1>2. /\ "paid" \in LetterKinds /\ stale \subseteq stale' /\ warned' = warned
      /\ "paid" \in stale' \/ pay = "open"
  BY <1>1, WritesOn, AllowedIs
<1>3. calls'["paid"] = calls["paid"] + 1 /\ \A j \in LetterKinds \ {"paid"} : calls'[j] = calls[j]
  BY <1>1, <1>2, CallCounts DEF MailOK
<1>4. /\ calls'["created"] = calls["created"] /\ calls'["status"] = calls["status"] /\ calls'["custom"] = calls["custom"]
      /\ calls'["warning"] = calls["warning"] /\ calls'["expired"] = calls["expired"]
  BY <1>3 DEF LetterKinds
<1>5. calls["paid"] > 0 => stale' \cap Reopens("paid") # {}
  BY <1>2, ReopensAre DEF MailOK, OccasionsOK
<1>6. OccasionsOK'
  <2>1. \A l \in LetterKinds : calls'[l] > 1 => stale' \cap Reopens(l) # {}
    BY <1>2, <1>3, <1>5, OneMoreCall
  <2>2. /\ calls'["custom"] > 0 /\ stale' \cap Reopens("custom") = {} => progress' \in {"decided", "expired"}
        /\ calls'["expired"] > 0 /\ "created" \notin stale' => progress' \notin {"draft", "unpaid"}
        /\ calls'["created"] > 0 => progress' # "draft"
    BY <1>1, <1>2, <1>4, ReopensAre DEF MailOK, OccasionsOK
  <2>3. /\ calls'["paid"] > 0 => pay' \notin {"none", "open"}
        /\ calls'["status"] > 0 /\ stale' \cap Reopens("status") = {} => pay' \in {"captured", "over"}
        /\ calls'["warning"] > 0 => warned'
    BY <1>1, <1>2, <1>4, ReopensAre DEF MailOK, OccasionsOK
  <2> QED
    BY <2>1, <2>2, <2>3, ReopensAre DEF OccasionsOK, Reopens
<1>7. /\ progress' \in {"draft", "unpaid", "submitted", "processing", "decided", "expired"}
      /\ window' \in {"open", "closing", "over"} /\ pay' \in {"none", "open", "held", "captured", "over"}
  BY <1>1 DEF MailOK, BooksOK
<1> QED
  BY <1>1, <1>2, <1>6, <1>7, WriteStarts

LEMMA StatusKeeps ==
  ASSUME MailOK, NEW h \in MailRequests, StatusChanged(h)
  PROVE  MailOK'
<1>1. /\ Writes(h, "status") /\ Comes(h, "status", "start") /\ window' = window
      /\ pay' \in {"captured", "over"} /\ progress' \in {"processing", "decided"}
  BY DEF StatusChanged
<1>2. /\ "status" \in LetterKinds /\ stale \subseteq stale' /\ warned' = warned
      /\ "status" \in stale' \/ (progress = "submitted" /\ pay = "held")
  BY <1>1, WritesOn, AllowedIs
<1>3. calls'["status"] = calls["status"] + 1 /\ \A j \in LetterKinds \ {"status"} : calls'[j] = calls[j]
  BY <1>1, <1>2, CallCounts DEF MailOK
<1>4. /\ calls'["created"] = calls["created"] /\ calls'["paid"] = calls["paid"] /\ calls'["custom"] = calls["custom"]
      /\ calls'["warning"] = calls["warning"] /\ calls'["expired"] = calls["expired"]
  BY <1>3 DEF LetterKinds
<1>5. calls["status"] > 0 => stale' \cap Reopens("status") # {}
  BY <1>2, ReopensAre DEF MailOK, OccasionsOK
<1>6. OccasionsOK'
  <2>1. \A l \in LetterKinds : calls'[l] > 1 => stale' \cap Reopens(l) # {}
    BY <1>2, <1>3, <1>5, OneMoreCall
  <2>2. /\ calls'["custom"] > 0 /\ stale' \cap Reopens("custom") = {} => progress' \in {"decided", "expired"}
        /\ calls'["expired"] > 0 /\ "created" \notin stale' => progress' \notin {"draft", "unpaid"}
        /\ calls'["created"] > 0 => progress' # "draft"
    BY <1>1, <1>2, <1>4, ReopensAre DEF MailOK, OccasionsOK
  <2>3. /\ calls'["paid"] > 0 => pay' \notin {"none", "open"}
        /\ calls'["status"] > 0 /\ stale' \cap Reopens("status") = {} => pay' \in {"captured", "over"}
        /\ calls'["warning"] > 0 => warned'
    BY <1>1, <1>2, <1>4 DEF MailOK, OccasionsOK
  <2> QED
    BY <2>1, <2>2, <2>3, ReopensAre DEF OccasionsOK, Reopens
<1>7. /\ progress' \in {"draft", "unpaid", "submitted", "processing", "decided", "expired"}
      /\ window' \in {"open", "closing", "over"} /\ pay' \in {"none", "open", "held", "captured", "over"}
  BY <1>1 DEF MailOK, BooksOK
<1> QED
  BY <1>1, <1>2, <1>6, <1>7, WriteStarts

LEMMA OperatorKeeps ==
  ASSUME MailOK, NEW h \in MailRequests, OperatorWrites(h)
  PROVE  MailOK'
<1>1. Writes(h, "custom") /\ progress' = "decided" /\ pay' = pay /\ window' = window
  BY DEF OperatorWrites
<1>2. /\ "custom" \in LetterKinds /\ stale \subseteq stale' /\ stale' \subseteq LetterKinds
      /\ "custom" \in stale' \/ progress \in {"draft", "unpaid", "processing"}
      /\ ~IsLetter(post[h]) /\ UNCHANGED <<template, warned, mailbox, sweep>>
  BY <1>1, WritesOn, AllowedIs
<1>3. /\ progress' \in {"draft", "unpaid", "submitted", "processing", "decided", "expired"}
      /\ window' \in {"open", "closing", "over"} /\ pay' \in {"none", "open", "held", "captured", "over"}
  BY <1>1 DEF MailOK, BooksOK
<1>4. CASE Comes(h, "custom", "start")
  <2>1. calls'["custom"] = calls["custom"] + 1 /\ \A j \in LetterKinds \ {"custom"} : calls'[j] = calls[j]
    BY <1>2, <1>4, CallCounts DEF MailOK
  <2>2. /\ calls'["created"] = calls["created"] /\ calls'["paid"] = calls["paid"] /\ calls'["status"] = calls["status"]
        /\ calls'["warning"] = calls["warning"] /\ calls'["expired"] = calls["expired"]
    BY <2>1 DEF LetterKinds
  <2>3. calls["custom"] > 0 => stale' \cap Reopens("custom") # {}
    BY <1>2, ReopensAre DEF MailOK, OccasionsOK
  <2>4. \A l \in LetterKinds : calls'[l] > 1 => stale' \cap Reopens(l) # {}
    BY <1>2, <2>1, <2>3, OneMoreCall
  <2>5. /\ calls'["paid"] > 0 => pay' \notin {"none", "open"}
        /\ calls'["status"] > 0 /\ stale' \cap Reopens("status") = {} => pay' \in {"captured", "over"}
        /\ calls'["warning"] > 0 => warned'
    BY <1>1, <1>2, <2>2 DEF MailOK, OccasionsOK
  <2>6. OccasionsOK'
    BY <1>1, <2>4, <2>5 DEF OccasionsOK, Reopens
  <2> QED
    BY <1>1, <1>2, <1>3, <1>4, <2>6, WriteStarts
<1>5. CASE Go(h, Still) /\ calls' = calls
  <2>1. PICK p : p = Still /\ PostOK(p) /\ ~IsLetter(p) /\ ~Takes(p)
    BY StillOK DEF Takes, Still
  <2>2. post' = [post EXCEPT ![h] = p] /\ mailOffer' = mailOffer /\ mailFaults' = mailFaults
    BY <1>5, <2>1 DEF Go
  <2>3. BooksOK'
    BY <1>2, <1>3, <1>5, <2>2 DEF MailOK, BooksOK
  <2>4. \A l \in LetterKinds : calls[l] > 1 => stale' \cap Reopens(l) # {}
    BY <1>2 DEF MailOK, OccasionsOK
  <2>5. /\ calls["paid"] > 0 => pay' \notin {"none", "open"}
        /\ calls["status"] > 0 /\ stale' \cap Reopens("status") = {} => pay' \in {"captured", "over"}
        /\ calls["warning"] > 0 => warned'
    BY <1>1, <1>2 DEF MailOK, OccasionsOK
  <2>6. OccasionsOK'
    BY <1>1, <1>5, <2>4, <2>5 DEF OccasionsOK, Reopens
  <2> QED
    BY <1>2, <1>5, <2>1, <2>2, <2>3, <2>6, RequestGoes
<1> QED
  BY <1>4, <1>5 DEF OperatorWrites

\* So do the warning and the end of the payment window.
LEMMA SweeperStarts ==
  ASSUME MailOK, NEW k \in {"warning", "expired"}, Comes(Sweeper, k, "render"), post[Sweeper] = Still,
         UNCHANGED <<template, window, stale, mailbox>>,
         progress' \in {"draft", "unpaid", "submitted", "processing", "decided", "expired"},
         pay' \in {"none", "open", "held", "captured", "over"}, warned' \in BOOLEAN,
         sweep' \in {"warn", "tell"}, OccasionsOK'
  PROVE  MailOK'
<1>1. BooksOK /\ PostsOK /\ LettersOK /\ Sweeper \in Senders /\ k \in LetterKinds /\ ~IsLetter(post[Sweeper])
  BY StillOK DEF MailOK, Senders, LetterKinds
<1>2. PICK l \in Occasions :
        /\ NotYet(l) /\ post' = [post EXCEPT ![Sweeper] = Writing(l, "render", Addresses)]
        /\ \A m \in Occasions : (NotYet(m)' => NotYet(m) /\ m # l) /\ (~NotYet(m)' => ~NotYet(m) \/ m = l)
  BY <1>1, CallIs
<1>3. calls' \in [LetterKinds -> 0 .. MaxCalls] /\ mailOffer' = mailOffer /\ mailFaults' = mailFaults
  BY <1>1, CallCounts DEF Comes, Go
<1>4. LettersOK' /\ PostsOK'
  BY <1>1, <1>2, LetterBegins
<1>5. BooksOK' /\ SweepOK'
  BY <1>1, <1>3 DEF BooksOK, SweepOK
<1>6. Installed'
  <2>1. post'[Sweeper].op = "letter" /\ \A g \in Senders \ {Sweeper} : post'[g] = post[g]
    BY <1>1, <1>2 DEF PostsOK, Writing
  <2>2. \A g \in Senders : Takes(post'[g]) => post'[g] = post[g]
    BY <2>1 DEF Takes
  <2> QED
    BY <2>2, InstalledStays
<1>7. template' \in [TemplateRows -> TemplateRecord]
  BY DEF MailOK
<1> QED
  BY <1>4, <1>5, <1>6, <1>7 DEF MailOK

LEMMA StampKeeps ==
  ASSUME MailOK, StampWarning
  PROVE  MailOK'
<1>1. /\ warned' = TRUE /\ ~warned /\ sweep' = "warn" /\ post[Sweeper] = Still
      /\ Comes(Sweeper, "warning", "render") /\ UNCHANGED <<template, progress, pay, window, stale, mailbox>>
  BY DEF StampWarning, MailOK, SweepOK
<1>2. "warning" \in LetterKinds
  BY DEF LetterKinds
<1>3. calls'["warning"] = calls["warning"] + 1 /\ \A j \in LetterKinds \ {"warning"} : calls'[j] = calls[j]
  BY <1>1, <1>2, CallCounts DEF MailOK
<1>4. /\ calls'["created"] = calls["created"] /\ calls'["paid"] = calls["paid"] /\ calls'["status"] = calls["status"]
      /\ calls'["custom"] = calls["custom"] /\ calls'["expired"] = calls["expired"]
  BY <1>3 DEF LetterKinds
<1>5. ~(calls["warning"] > 0)
  BY <1>1 DEF MailOK, OccasionsOK
<1>6. \A l \in LetterKinds : calls'[l] > 1 => stale' \cap Reopens(l) # {}
  BY <1>1, <1>2, <1>3, <1>5, OneMoreCall
<1>7. OccasionsOK'
  BY <1>1, <1>4, <1>6 DEF MailOK, OccasionsOK, Reopens
<1>8. /\ progress' \in {"draft", "unpaid", "submitted", "processing", "decided", "expired"}
      /\ pay' \in {"none", "open", "held", "captured", "over"} /\ warned' \in BOOLEAN
  BY <1>1 DEF MailOK, BooksOK
<1> QED
  BY <1>1, <1>7, <1>8, SweeperStarts

LEMMA ExpireKeeps ==
  ASSUME MailOK, Expire
  PROVE  MailOK'
<1>1. /\ progress' = "expired" /\ sweep' = "tell" /\ post[Sweeper] = Still /\ sweep = "expire"
      /\ pay' = IF pay = "open" THEN "over" ELSE pay
      /\ Comes(Sweeper, "expired", "render") /\ UNCHANGED <<template, warned, window, stale, mailbox>>
  BY DEF Expire, MailOK, SweepOK
<1>2. "expired" \in LetterKinds
  BY DEF LetterKinds
<1>3. calls'["expired"] = calls["expired"] + 1 /\ \A j \in LetterKinds \ {"expired"} : calls'[j] = calls[j]
  BY <1>1, <1>2, CallCounts DEF MailOK
<1>4. /\ calls'["created"] = calls["created"] /\ calls'["paid"] = calls["paid"] /\ calls'["status"] = calls["status"]
      /\ calls'["custom"] = calls["custom"] /\ calls'["warning"] = calls["warning"]
  BY <1>3 DEF LetterKinds
<1>5. calls["expired"] > 0 => stale' \cap Reopens("expired") # {}
  BY <1>1, ReopensAre DEF MailOK, SweepOK
<1>6. \A l \in LetterKinds : calls'[l] > 1 => stale' \cap Reopens(l) # {}
  BY <1>1, <1>2, <1>3, <1>5, OneMoreCall
<1>7. OccasionsOK'
  BY <1>1, <1>4, <1>6 DEF MailOK, OccasionsOK, Reopens
<1>8. /\ progress' \in {"draft", "unpaid", "submitted", "processing", "decided", "expired"}
      /\ pay' \in {"none", "open", "held", "captured", "over"} /\ warned' \in BOOLEAN
  BY <1>1 DEF MailOK, BooksOK
<1> QED
  BY <1>1, <1>7, <1>8, SweeperStarts

\* The letter of a request goes from its write to the first address.
LEMMA StartsKeeps ==
  ASSUME MailOK, NEW h \in MailRequests, LetterStarts(h)
  PROVE  MailOK'
<1>1. /\ h \in Senders /\ h # Sweeper /\ IsLetter(post[h]) /\ post[h].at = "start"
      /\ post' = [post EXCEPT ![h] = [post[h] EXCEPT !.at = "render"]]
      /\ UNCHANGED <<template, books, mailbox, sweep, mailOffer, mailFaults>>
  BY RequestsAre DEF LetterStarts, AtWork, Go, IsLetter
<1>2. UNCHANGED <<progress, pay, window, warned, calls, stale, entry, handed, excused>>
  BY <1>1 DEF books, mailbox
<1>3. LettersOK /\ PostsOK
  BY DEF MailOK
<1>4. PICK l, L : l = post[h].letter /\ L = post[h].left
  OBVIOUS
<1>5. post[h] \in LetterPost /\ l \in Occasions /\ L \subseteq Addresses /\ post[h].to = {}
  BY <1>1, <1>3, <1>4, LetterIs
<1>6. PICK p : p = [post[h] EXCEPT !.at = "render"]
  OBVIOUS
<1>7. /\ p \in LetterPost /\ p.letter = l /\ p.left = L /\ p.to = {} /\ p.at = "render" /\ p.op = "letter"
      /\ post' = [post EXCEPT ![h] = p]
  BY <1>1, <1>4, <1>5, <1>6 DEF LetterPost
<1>8. PostOK(p) /\ IsLetter(p)
  BY <1>7 DEF PostOK, IsLetter, MailOps
<1>9. \A b \in L : Blank(l, b)'
  BY <1>1, <1>2, <1>3, <1>4 DEF LettersOK, Underway, Reached, Blank
<1>10. Reached(p)'
  BY <1>7, <1>9 DEF Reached
<1>11. \A b \in Addresses : handed'[<<l, b>>] <= 1 /\ entry'[<<l, b>>] # "twice"
  BY <1>2, <1>3, <1>5 DEF LettersOK, Once
<1>12. \A b \in Addresses : (IsLetter(p) /\ b \in p.left \cup p.to) \/ b \notin post[h].left \cup post[h].to
  BY <1>4, <1>5, <1>7, <1>8
<1>13. MailboxOK'
  BY <1>2, <1>3 DEF LettersOK, MailboxOK
<1>14. LettersOK' /\ PostsOK'
  BY <1>1, <1>2, <1>3, <1>4, <1>5, <1>7, <1>8, <1>10, <1>11, <1>12, <1>13, LetterGoes
<1>15. \A g \in Senders \ {h} : post'[g] = post[g]
  BY <1>1, <1>3 DEF PostsOK
<1>16. BooksOK' /\ OccasionsOK'
  BY <1>1, <1>2 DEF MailOK, BooksOK, OccasionsOK, Reopens
<1>17. SweepOK'
  <2>1. post'[Sweeper] = post[Sweeper]
    BY <1>1, <1>15 DEF Senders
  <2> QED
    BY <1>1, <1>2, <2>1, StillOK DEF MailOK, SweepOK
<1>18. Installed'
  <2>1. \A g \in Senders : Takes(post'[g]) => post'[g] = post[g]
    <3>1. post'[h] = p
      BY <1>1, <1>3, <1>7 DEF PostsOK
    <3> QED
      BY <1>7, <1>15, <3>1 DEF Takes
  <2> QED
    BY <1>1, <2>1, InstalledStays
<1>19. template' \in [TemplateRows -> TemplateRecord]
  BY <1>1 DEF MailOK
<1> QED
  BY <1>14, <1>16, <1>17, <1>18, <1>19 DEF MailOK

-----------------------------------------------------------------------------

\* Where no letter starts, moves or ends.
LEMMA QuietMail ==
  ASSUME MailOK, UNCHANGED <<template, calls, mailbox, post>>, BooksOK', OccasionsOK', SweepOK'
  PROVE  MailOK'
<1>1. entry' = entry /\ handed' = handed /\ excused' = excused
  BY DEF mailbox
<1>2. MailboxOK' /\ Apart' /\ Once'
  BY <1>1 DEF MailOK, LettersOK, MailboxOK, Apart, Once, IsLetter
<1>3. Untold'
  BY <1>1 DEF MailOK, LettersOK, Untold, NotYet, Blank, IsLetter
<1>4. Underway'
  BY <1>1 DEF MailOK, LettersOK, Underway, Reached, Blank, IsLetter
<1>5. Finished'
  BY <1>1 DEF MailOK, LettersOK, Finished, AtRest, Accounted, IsLetter, NotYet
<1>6. PostsOK' /\ Installed'
  BY DEF MailOK, PostsOK, Installed, PostOK, IsLetter
<1> QED
  BY <1>2, <1>3, <1>4, <1>5, <1>6 DEF MailOK, LettersOK

Quietly ==
  SweepStarts \/ Warned \/ FindOverdue \/ SweepEnds \/ SweepQueryFails \/ PaymentOpens \/ TimePasses

LEMMA QuietlyIs ==
  Quietly => /\ UNCHANGED <<template, progress, warned, calls, stale, mailbox, post, mailOffer>>
             /\ mailFaults' = mailFaults \/ (mailFaults' = mailFaults + 1 /\ mailFaults < MaxMailFaults)
             /\ pay' = pay \/ (pay = "none" /\ pay' = "open")
             /\ window' \in {window, "closing", "over"}
             /\ sweep' \in {sweep, "idle", "stamp", "look", "expire"}
BY DEF Quietly, SweepStarts, Warned, FindOverdue, SweepEnds, SweepQueryFails, PaymentOpens, TimePasses, books

LEMMA SweepKeeps ==
  ASSUME MailOK, Quietly
  PROVE  MailOK'
<1>1. /\ UNCHANGED <<template, progress, warned, calls, stale, mailbox, post, mailOffer>>
      /\ pay' = pay \/ (pay = "none" /\ pay' = "open")
      /\ window' \in {window, "closing", "over"} /\ sweep' \in {sweep, "idle", "stamp", "look", "expire"}
  BY QuietlyIs
<1>2. SweepOK'
  <2>1. sweep' = "stamp" => ~warned
    BY <1>1 DEF MailOK, SweepOK, Quietly, SweepStarts, Warned, FindOverdue, SweepEnds, SweepQueryFails,
                PaymentOpens, TimePasses
  <2>2. sweep' = "expire" /\ "created" \notin stale => calls["expired"] = 0
    <3>1. calls["expired"] \in Nat
      BY CorrespondenceAssumption DEF MailOK, BooksOK, LetterKinds
    <3>2. CASE sweep' = sweep
      BY <3>2 DEF MailOK, SweepOK
    <3>3. CASE sweep' = "expire" /\ sweep' # sweep
      <4>1. progress = "unpaid"
        BY <3>3 DEF Quietly, SweepStarts, Warned, FindOverdue, SweepEnds, SweepQueryFails, PaymentOpens, TimePasses, Unpaid
      <4> QED
        BY <3>1, <4>1 DEF MailOK, OccasionsOK
    <3> QED
      BY <3>2, <3>3
  <2>3. sweep' \notin {"warn", "tell"} => post[Sweeper] = Still
    BY DEF MailOK, SweepOK, Quietly, SweepStarts, Warned, FindOverdue, SweepEnds, SweepQueryFails, PaymentOpens, TimePasses
  <2> QED
    BY <1>1, <2>1, <2>2, <2>3, StillOK DEF SweepOK
<1>3. mailFaults' \in 0 .. MaxMailFaults
  <2>1. mailFaults \in 0 .. MaxMailFaults
    BY DEF MailOK, BooksOK
  <2> QED
    BY <2>1, QuietlyIs, CorrespondenceAssumption
<1>4. BooksOK'
  BY <1>1, <1>3 DEF MailOK, BooksOK
<1>5. OccasionsOK'
  BY <1>1 DEF MailOK, OccasionsOK, Reopens
<1> QED
  BY <1>1, <1>2, <1>4, <1>5, QuietMail

LEMMA RestartKeeps ==
  ASSUME MailOK, MailRestart
  PROVE  MailOK'
<1>1. /\ UNCHANGED <<template, books, entry, handed, mailOffer>> /\ sweep' = "idle"
      /\ post' = [h \in Senders |-> Still]
      /\ excused' = excused \cup UNION {Cut(h) : h \in {g \in Senders : post[g].op = "letter"}}
      /\ mailFaults' = mailFaults + 1 /\ mailFaults < MaxMailFaults
  BY DEF MailRestart
<1>2. UNCHANGED <<progress, pay, window, warned, calls, stale>>
  BY <1>1 DEF books
<1>3. DOMAIN post' = Senders /\ \A h \in Senders : post'[h] = Still /\ ~IsLetter(post'[h])
  BY <1>1, StillOK
<1>4. \A h \in Senders : IsLetter(post[h]) =>
        /\ Cut(h) \subseteq Pairs
        /\ Cut(h) \subseteq excused'
        /\ \A a \in post[h].left \cup post[h].to : <<post[h].letter, a>> \in Cut(h)
  BY <1>1, LetterIs DEF MailOK, Cut, IsLetter, LetterPost, Pairs
<1>5. excused \subseteq excused' /\ excused' \subseteq Pairs
  <2>1. excused \subseteq Pairs
    BY DEF MailOK, LettersOK, MailboxOK
  <2> QED
    BY <1>1, <1>4, <2>1 DEF IsLetter
<1>6. MailboxOK' /\ Once'
  BY <1>1, <1>5 DEF MailOK, LettersOK, MailboxOK, Once
<1>7. PostsOK' /\ Apart'
  BY <1>3, StillOK DEF PostsOK, PostOK, Apart, IsLetter
<1>8. Untold' /\ Underway'
  BY <1>1, <1>2, <1>3 DEF MailOK, LettersOK, Untold, Underway, Reached, NotYet, Blank, IsLetter
<1>9. Finished'
  <2>1. ASSUME NEW l \in Occasions, ~NotYet(l)', NEW a \in Addresses, <<l, a>> \notin excused' PROVE Accounted(<<l, a>>)'
    <3>1. ~NotYet(l)
      BY <1>2, <2>1 DEF NotYet
    <3>2. AtRest(l, a)
      BY <1>4, <2>1 DEF AtRest
    <3> QED
      BY <1>1, <1>5, <2>1, <3>1, <3>2 DEF MailOK, LettersOK, Finished, Accounted
  <2> QED
    BY <2>1 DEF Finished
<1>10. BooksOK' /\ OccasionsOK'
  BY <1>1, <1>2, CorrespondenceAssumption DEF MailOK, BooksOK, OccasionsOK, Reopens
<1>11. SweepOK'
  BY <1>1, <1>3 DEF SweepOK, Senders
<1>12. Installed'
  BY <1>1, <1>3 DEF MailOK, Installed, Still
<1> QED
  BY <1>1, <1>6, <1>7, <1>8, <1>9, <1>10, <1>11, <1>12 DEF MailOK, LettersOK

LEMMA CorrespondenceGoes == MailOK /\ [CorrespondenceNext]_mailVars => MailOK'
<1> SUFFICES ASSUME MailOK, [CorrespondenceNext]_mailVars PROVE MailOK'
  OBVIOUS
<1>1. ASSUME NEW h \in MailRequests, CorrespondenceStep(h) PROVE MailOK'
  BY <1>1, TemplateRequestKeeps, TemplateWriteKeeps, OccasionIsChecked, CreatedKeeps, PaidKeeps, StatusKeeps,
     OperatorKeeps, StartsKeeps DEF CorrespondenceStep
<1>2. ASSUME NEW h \in Senders, LetterStep(h) PROVE MailOK'
  BY <1>2, LetterStepKeeps
<1>3. CASE Quietly
  BY <1>3, SweepKeeps
<1>4. CASE StampWarning
  BY <1>4, StampKeeps
<1>5. CASE Expire
  BY <1>5, ExpireKeeps
<1>6. CASE MailRestart
  BY <1>6, RestartKeeps
<1>7. CASE UNCHANGED mailVars
  <2>1. UNCHANGED <<template, progress, pay, window, warned, calls, stale, mailbox, post, sweep, mailOffer, mailFaults>>
    BY <1>7 DEF mailVars, books
  <2>2. BooksOK' /\ OccasionsOK' /\ SweepOK'
    BY <2>1 DEF MailOK, BooksOK, OccasionsOK, SweepOK, Reopens, Still
  <2> QED
    BY <2>1, <2>2, QuietMail
<1> QED
  BY <1>1, <1>2, <1>3, <1>4, <1>5, <1>6, <1>7 DEF CorrespondenceNext, Quietly

\* There are rows enough for the installed templates.
LEMMA RowsSuffice ==
  \E f \in [InstalledKeys -> TemplateRows] : \A j, k \in InstalledKeys : f[j] = f[k] => j = k
<1>1. PICK m, n : /\ m = Cardinality(InstalledKeys) /\ n = Cardinality(TemplateRows)
                  /\ m \in Nat /\ n \in Nat /\ m <= n
                  /\ ExistsBijection(1 .. m, InstalledKeys) /\ ExistsBijection(1 .. n, TemplateRows)
  BY CorrespondenceAssumption, FS_CardinalityType
<1>2. PICK g \in Bijection(1 .. m, InstalledKeys) : TRUE
  BY <1>1 DEF ExistsBijection
<1>3. PICK e \in Bijection(1 .. n, TemplateRows) : TRUE
  BY <1>1 DEF ExistsBijection
<1>4. /\ g \in [1 .. m -> InstalledKeys] /\ \A k \in InstalledKeys : \E i \in 1 .. m : g[i] = k
      /\ e \in [1 .. n -> TemplateRows] /\ \A i, j \in 1 .. n : e[i] = e[j] => i = j
  BY <1>2, <1>3 DEF Bijection, Injection, Surjection, IsInjective
<1> DEFINE at(k) == CHOOSE i \in 1 .. m : g[i] = k
           f == [k \in InstalledKeys |-> e[at(k)]]
<1>5. \A k \in InstalledKeys : at(k) \in 1 .. n /\ g[at(k)] = k
  <2>1. ASSUME NEW k \in InstalledKeys PROVE at(k) \in 1 .. m /\ g[at(k)] = k
    BY <1>4
  <2> QED
    BY <1>1, <2>1
<1> HIDE DEF at
<1>6. f \in [InstalledKeys -> TemplateRows]
  BY <1>4, <1>5
<1>7. \A j, k \in InstalledKeys : f[j] = f[k] => j = k
  BY <1>4, <1>5
<1> QED
  BY <1>6, <1>7

LEMMA CorrespondenceStarts == CorrespondenceInit => MailOK
<1> SUFFICES ASSUME CorrespondenceInit PROVE MailOK
  OBVIOUS
<1>1. PICK row \in [InstalledKeys -> TemplateRows] :
        /\ \A j, k \in InstalledKeys : row[j] = row[k] => j = k
        /\ template = [r \in TemplateRows |->
             IF \E k \in InstalledKeys : row[k] = r
             THEN [state |-> "live", key |-> CHOOSE k \in InstalledKeys : row[k] = r, active |-> TRUE]
             ELSE [state |-> "none", key |-> CHOOSE k \in TemplateKeys : TRUE, active |-> TRUE]]
  BY RowsSuffice DEF CorrespondenceInit
<1>2. InstalledKeys \subseteq TemplateKeys /\ (CHOOSE k \in TemplateKeys : TRUE) \in TemplateKeys
  <2>1. KeyOf["paid"] \in TemplateKeys
    BY CorrespondenceAssumption DEF TemplateKeys, LetterKinds
  <2> QED
    BY <2>1, CorrespondenceAssumption DEF TemplateKeys
<1>3. template \in [TemplateRows -> TemplateRecord]
  BY <1>1, <1>2 DEF TemplateRecord
<1>4. \A k \in InstalledKeys : template[row[k]].state = "live" /\ template[row[k]].key = k
  <2>1. ASSUME NEW k \in InstalledKeys PROVE (CHOOSE j \in InstalledKeys : row[j] = row[k]) = k
    BY <1>1
  <2> QED
    BY <1>1, <2>1
<1>5. /\ window = "open" /\ warned = FALSE /\ stale = {}
      /\ Told \in {{}, {"created"}, {"created", "paid"}, {"created", "paid", "status"}}
      /\ progress = IF Told = {} THEN "draft" ELSE IF "paid" \notin Told THEN "unpaid"
                    ELSE IF "status" \notin Told THEN "submitted" ELSE "processing"
      /\ pay = IF "paid" \notin Told THEN "none" ELSE IF "status" \notin Told THEN "held" ELSE "captured"
      /\ calls = [l \in LetterKinds |-> IF l \in Told THEN 1 ELSE 0]
      /\ sweep = "idle" /\ mailFaults = 0 /\ mailOffer \in MailOffers
      /\ excused = {} /\ post = [h \in Senders |-> Still]
  BY DEF CorrespondenceInit, Told
<1>6. \A l \in LetterKinds : calls[l] = IF l \in Told THEN 1 ELSE 0
  BY <1>5
<1>7. BooksOK
  <2>1. mailFaults \in 0 .. MaxMailFaults /\ 1 \in 0 .. MaxCalls /\ 0 \in 0 .. MaxCalls
    BY <1>5, CorrespondenceAssumption
  <2>2. calls \in [LetterKinds -> 0 .. MaxCalls]
    BY <1>5, <2>1
  <2>3. /\ progress \in {"draft", "unpaid", "submitted", "processing", "decided", "expired"}
        /\ pay \in {"none", "open", "held", "captured", "over"}
    BY <1>5
  <2> QED
    BY <1>5, <2>1, <2>2, <2>3 DEF BooksOK
<1>8. OccasionsOK
  <2>1. /\ calls["created"] = IF "created" \in Told THEN 1 ELSE 0
        /\ calls["paid"] = IF "paid" \in Told THEN 1 ELSE 0
        /\ calls["status"] = IF "status" \in Told THEN 1 ELSE 0
        /\ calls["custom"] = 0 /\ calls["expired"] = 0 /\ calls["warning"] = 0
    BY <1>5, <1>6 DEF LetterKinds
  <2>2. \A l \in LetterKinds : ~(calls[l] > 1)
    BY <1>6
  <2> QED
    BY <1>5, <2>1, <2>2 DEF OccasionsOK
<1>9. \A l \in Occasions, a \in Addresses :
        /\ entry[<<l, a>>] = IF NotYet(l) THEN "none" ELSE "sent"
        /\ handed[<<l, a>>] = IF NotYet(l) THEN 0 ELSE 1
  BY DEF CorrespondenceInit, NotYet, Pairs
<1>10. MailboxOK
  BY <1>5 DEF CorrespondenceInit, MailboxOK, EntryStates
<1>11. DOMAIN post = Senders /\ \A h \in Senders : post[h] = Still /\ ~IsLetter(post[h]) /\ post[h].op = "still"
  BY <1>5, StillOK DEF Still
<1>12. PostsOK /\ Apart /\ Underway
  BY <1>11, StillOK DEF PostsOK, Apart, Underway
<1>13. Once
  <2>1. ASSUME NEW l \in Occasions, NEW a \in Addresses PROVE handed[<<l, a>>] <= 1 /\ entry[<<l, a>>] # "twice"
    <3>1. CASE NotYet(l)
      BY <1>9, <3>1
    <3>2. CASE ~NotYet(l)
      BY <1>9, <3>2
    <3> QED
      BY <3>1, <3>2
  <2> QED
    BY <2>1 DEF Once
<1>14. Untold
  BY <1>9, <1>11 DEF Untold, Blank
<1>15. Finished
  BY <1>9 DEF Finished, Accounted
<1>16. SweepOK
  BY <1>5, <1>11 DEF SweepOK, Senders
<1>17. Installed
  BY <1>1, <1>4, <1>11 DEF Installed
<1> QED
  BY <1>3, <1>7, <1>8, <1>10, <1>12, <1>13, <1>14, <1>15, <1>16, <1>17 DEF MailOK, LettersOK

\* The templates, the log and what is on its way have their types.
THEOREM LetterTypes == CorrespondenceSpec => []CorrespondenceTypeOK
<1>1. MailOK => CorrespondenceTypeOK
  BY DEF MailOK, BooksOK, LettersOK, MailboxOK, PostsOK, PostOK, CorrespondenceTypeOK, TemplateRecord, EntryStates
<1> QED
  BY <1>1, CorrespondenceStarts, CorrespondenceGoes, PTL DEF CorrespondenceSpec

\* Whatever is interleaved, fails or stops: there is an occasion for a letter again only
\* where a request wrote on what another had changed, and never for the warning; no address
\* is given the letter of one occasion twice; what is under way no more has its one row with
\* the outcome, unless a failure or a stop came between; and no request takes an installed
\* template away (EmailService, its callers, and the stamp before the warning).
THEOREM EveryoneIsToldOnce == CorrespondenceSpec => []ToldOnce
<1>1. MailOK => ToldOnce
  <2> SUFFICES ASSUME MailOK PROVE ToldOnce
    OBVIOUS
  <2>1. \A l \in LetterKinds : calls[l] > 1 => stale \cap Reopens(l) # {}
    BY DEF MailOK, OccasionsOK
  <2>2. ASSUME NEW x \in Pairs PROVE handed[x] <= 1 /\ entry[x] # "twice"
    <3>1. PICK l \in Occasions, a \in Addresses : x = <<l, a>>
      BY DEF Pairs
    <3> QED
      BY <3>1 DEF MailOK, LettersOK, Once
  <2>3. ASSUME NEW l \in LetterKinds, NEW a \in Addresses, NEW n \in Given(l),
               ~UnderWay(<<<<l, n>>, a>>), <<<<l, n>>, a>> \notin excused
        PROVE  Accounted(<<<<l, n>>, a>>)
    <3>1. calls[l] \in 0 .. MaxCalls /\ n \in 1 .. calls[l]
      BY <2>3 DEF MailOK, BooksOK, Given
    <3>2. PICK x : x = <<l, n>> /\ x \in Occasions /\ ~NotYet(x)
      <4>1. n \in 1 .. MaxCalls /\ n <= calls[l]
        BY <3>1, CorrespondenceAssumption
      <4>2. <<l, n>> \in Occasions /\ ~NotYet(<<l, n>>)
        BY <4>1 DEF Occasions, NotYet
      <4> QED
        BY <4>2
    <3>3. AtRest(x, a)
      BY <2>3, <3>2 DEF AtRest, UnderWay, Cut, IsLetter
    <3>4. <<x, a>> \notin excused
      BY <2>3, <3>2
    <3>5. Accounted(<<x, a>>)
      BY <3>2, <3>3, <3>4 DEF MailOK, LettersOK, Finished
    <3> QED
      BY <3>2, <3>5
  <2>4. \A k \in InstalledKeys : \E r \in TemplateRows : template[r].state = "live" /\ template[r].key = k
    BY DEF MailOK, Installed
  <2> QED
    BY <2>1, <2>2, <2>3, <2>4 DEF ToldOnce
<1> QED
  BY <1>1, CorrespondenceStarts, CorrespondenceGoes, PTL DEF CorrespondenceSpec

-----------------------------------------------------------------------------
(* Correspondence implements LetterLog.                                       *)

\* A letter on its way was called for.
LEMMA UnderwayIsCalled ==
  ASSUME MailOK, NEW h \in Senders, IsLetter(post[h])
  PROVE  post[h].letter \in Called
<1>1. post[h].letter \in Occasions
  BY LetterIs DEF MailOK
<1>2. ~NotYet(post[h].letter)
  BY <1>1 DEF MailOK, LettersOK, Untold
<1> QED
  BY <1>1, <1>2 DEF Called, NotYet

LEMMA EntersLog ==
  ASSUME MailOK, NEW h \in Senders, LogUnrendered(h) \/ LogPending(h)
  PROVE  Log!Next
<1>1. PICK says \in {"pending", "failed"} :
        /\ IsLetter(post[h]) /\ post[h].at \in {"pend", "unrendered"} /\ NewEntry(h, says)
        /\ UNCHANGED <<books, handed, excused>>
  BY DEF LogUnrendered, LogPending, AtWork, IsLetter
<1>2. PICK l \in Occasions, a \in Addresses \ post[h].left :
        IsLetter(post[h]) /\ l = post[h].letter /\ post[h].to = {a} /\ Pair(h) = <<l, a>>
  BY <1>1, LetterIs DEF MailOK
<1>3. PICK x \in Pairs : x = <<l, a>> /\ x[1] = l
  BY <1>2 DEF Pairs
<1>4. entry[x] = "none"
  BY <1>1, <1>2, <1>3 DEF MailOK, LettersOK, Underway, Reached, Blank
<1>5. entry' = [entry EXCEPT ![x] = says]
  BY <1>1, <1>2, <1>3, <1>4 DEF NewEntry, MailOK, LettersOK, MailboxOK
<1>6. x[1] \in Called /\ Called' = Called
  BY <1>1, <1>2, <1>3, UnderwayIsCalled DEF Called, books
<1>7. Log!Enter(x, says)
  BY <1>1, <1>4, <1>5, <1>6 DEF Log!Enter
<1> QED
  BY <1>7 DEF Log!Next, Log!Pairs, Pairs

LEMMA GivesLetter ==
  ASSUME MailOK, NEW h \in Senders, HandOver(h)
  PROVE  [Log!Next]_(Log!vars)
<1>1. IsLetter(post[h]) /\ post[h].at = "hand" /\ UNCHANGED <<books, entry, excused>>
  BY DEF HandOver, AtWork, IsLetter
<1>2. PICK l \in Occasions, a \in Addresses \ post[h].left :
        l = post[h].letter /\ post[h].to = {a} /\ Pair(h) = <<l, a>>
  BY <1>1, LetterIs DEF MailOK
<1>3. PICK x \in Pairs : x = <<l, a>>
  BY <1>2 DEF Pairs
<1>4. PICK at \in {"sent", "failed"} : handed' = IF at = "sent" THEN [handed EXCEPT ![Pair(h)] = @ + 1] ELSE handed
  BY DEF HandOver
<1>5. handed[x] = 0 /\ entry[x] = "pending"
  BY <1>1, <1>2, <1>3 DEF MailOK, LettersOK, Underway, Reached
<1>6. Called' = Called
  BY <1>1 DEF Called, books
<1>7. CASE at = "sent"
  <2>1. handed' = [handed EXCEPT ![x] = 1]
    BY <1>2, <1>3, <1>4, <1>5, <1>7
  <2>2. Log!Give(x)
    BY <1>1, <1>5, <1>6, <2>1 DEF Log!Give
  <2> QED
    BY <2>2 DEF Log!Next, Log!Pairs, Pairs
<1>8. CASE at = "failed"
  BY <1>1, <1>4, <1>6, <1>8 DEF Log!vars
<1> QED
  BY <1>7, <1>8

LEMMA ClosesRow ==
  ASSUME MailOK, NEW h \in Senders, MarkEntry(h)
  PROVE  Log!Next
<1>1. PICK at \in {"sent", "failed", "again"} :
        /\ IsLetter(post[h]) /\ post[h].at = at /\ Mark(h, IF at = "again" THEN "failed" ELSE at)
        /\ UNCHANGED <<books, handed, excused>>
  BY DEF MarkEntry, AtWork, IsLetter
<1>2. PICK l \in Occasions, a \in Addresses \ post[h].left :
        l = post[h].letter /\ post[h].to = {a} /\ Pair(h) = <<l, a>>
  BY <1>1, LetterIs DEF MailOK
<1>3. PICK x \in Pairs : x = <<l, a>>
  BY <1>2 DEF Pairs
<1>4. /\ entry[x] = "pending"
      /\ at = "sent" => handed[x] = 1
      /\ at = "failed" => handed[x] = 0
      /\ at = "again" => x \in excused
  BY <1>1, <1>2, <1>3 DEF MailOK, LettersOK, Underway, Reached
<1>5. entry' = [entry EXCEPT ![x] = IF at = "again" THEN "failed" ELSE at]
  BY <1>1, <1>2, <1>3, <1>4 DEF Mark, MailOK, LettersOK, MailboxOK
<1>6. Called' = Called
  BY <1>1 DEF Called, books
<1>7. Log!Close(x)
  <2>1. CASE at = "sent"
    BY <1>1, <1>4, <1>5, <1>6, <2>1 DEF Log!Close
  <2>2. CASE at # "sent"
    BY <1>1, <1>4, <1>5, <1>6, <2>2 DEF Log!Close
  <2> QED
    BY <2>1, <2>2
<1> QED
  BY <1>7 DEF Log!Next, Log!Pairs, Pairs

\* Nothing is written in the log or handed over: at most an occasion comes, or a failure.
LEMMA OnlyCallsOrLapses ==
  ASSUME MailOK', entry' = entry, handed' = handed,
         \/ excused' = excused /\ Called \subseteq Called'
         \/ Called' = Called /\ excused \subseteq excused'
  PROVE  [Log!Next]_(Log!vars)
<1>1. Called' \subseteq Occasions /\ excused' \subseteq Pairs
  BY DEF Called, MailOK, LettersOK, MailboxOK
<1> QED
  BY <1>1 DEF Log!Next, Log!Call, Log!Lapse, Log!Pairs, Pairs

\* What was called for stays so.
LEMMA CallsGrow ==
  ASSUME MailOK, NEW h, NEW k \in LetterKinds, NEW at, Comes(h, k, at)
  PROVE  Called \subseteq Called'
<1>1. PICK l : \A m \in Occasions : (NotYet(m)' => NotYet(m) /\ m # l)
  BY CallIs DEF MailOK
<1>2. \A m \in Occasions : m[2] <= calls[m[1]] => m[2] <= calls'[m[1]]
  BY <1>1 DEF NotYet
<1> QED
  BY <1>2 DEF Called

LEMMA StepsKeepLog ==
  MailOK /\ MailOK' /\ [CorrespondenceNext]_mailVars => [Log!Next]_(Log!vars)
<1> SUFFICES ASSUME MailOK, MailOK', [CorrespondenceNext]_mailVars
             PROVE  [Log!Next]_(Log!vars)
  OBVIOUS
<1>1. calls' = calls => Called' = Called
  BY DEF Called
<1>2. ASSUME calls' = calls, UNCHANGED mailbox PROVE [Log!Next]_(Log!vars)
  BY <1>1, <1>2, OnlyCallsOrLapses DEF mailbox
<1>3. ASSUME NEW h, NEW k \in LetterKinds, NEW at, Comes(h, k, at), UNCHANGED mailbox PROVE [Log!Next]_(Log!vars)
  BY <1>3, CallsGrow, OnlyCallsOrLapses DEF mailbox
<1>4. ASSUME NEW h \in MailRequests,
             \/ CreateTemplate(h) \/ InsertTemplate(h) \/ UpdateTemplate(h)
             \/ SaveTemplate(h) \/ DeleteTemplate(h) \/ DropTemplate(h)
             \/ CheckOccasion(h) \/ Declined(h) \/ LetterStarts(h) \/ WriteFails(h)
      PROVE  [Log!Next]_(Log!vars)
  <2>1. UNCHANGED <<books, mailbox>>
    BY <1>4 DEF CreateTemplate, InsertTemplate, UpdateTemplate, SaveTemplate, DeleteTemplate, DropTemplate,
                CheckOccasion, Declined, LetterStarts, WriteFails
  <2> QED
    BY <1>2, <2>1 DEF books
<1>5. ASSUME NEW h \in MailRequests,
             ApplicationCreated(h) \/ PaymentSucceeded(h) \/ StatusChanged(h) \/ OperatorWrites(h)
      PROVE  [Log!Next]_(Log!vars)
  <2>1. UNCHANGED mailbox
    BY <1>5 DEF ApplicationCreated, PaymentSucceeded, StatusChanged, OperatorWrites, Writes
  <2>2. \/ calls' = calls
        \/ \E k \in {"created", "paid", "status", "custom"} : Comes(h, k, "start")
    BY <1>5 DEF ApplicationCreated, PaymentSucceeded, StatusChanged, OperatorWrites
  <2>3. {"created", "paid", "status", "custom"} \subseteq LetterKinds
    BY DEF LetterKinds
  <2> QED
    BY <1>2, <1>3, <2>1, <2>2, <2>3
<1>6. ASSUME NEW h \in Senders, LetterStep(h)
      PROVE  [Log!Next]_(Log!vars)
  <2>1. CASE RenderLetter(h) \/ QueryFails(h)
    <3>1. UNCHANGED <<books, entry, handed>> /\ excused \subseteq excused'
      BY <2>1 DEF RenderLetter, QueryFails, mailbox
    <3> QED
      BY <1>1, <3>1, OnlyCallsOrLapses DEF books
  <2> QED
    BY <1>6, <2>1, EntersLog, GivesLetter, ClosesRow DEF LetterStep
<1>7. CASE Quietly
  BY <1>2, <1>7, QuietlyIs
<1>8. CASE StampWarning \/ Expire
  <2>1. UNCHANGED mailbox /\ \E k \in {"warning", "expired"} : Comes(Sweeper, k, "render")
    BY <1>8 DEF StampWarning, Expire
  <2>2. {"warning", "expired"} \subseteq LetterKinds
    BY DEF LetterKinds
  <2> QED
    BY <1>3, <2>1, <2>2
<1>9. CASE MailRestart
  <2>1. excused \subseteq excused' /\ UNCHANGED <<books, entry, handed>>
    BY <1>9 DEF MailRestart
  <2> QED
    BY <1>1, <2>1, OnlyCallsOrLapses DEF books
<1>10. CASE UNCHANGED mailVars
  BY <1>2, <1>10 DEF mailVars, books
<1> QED
  BY <1>4, <1>5, <1>6, <1>7, <1>8, <1>9, <1>10 DEF CorrespondenceNext, CorrespondenceStep, Quietly

LEMMA LogStarts == CorrespondenceInit => Log!Init
<1> SUFFICES ASSUME CorrespondenceInit PROVE Log!Init
  OBVIOUS
<1>1. /\ excused = {} /\ handed = [x \in Pairs |-> IF x[1][2] <= calls[x[1][1]] THEN 1 ELSE 0]
      /\ entry = [x \in Pairs |-> IF x[1][2] <= calls[x[1][1]] THEN "sent" ELSE "none"]
  BY DEF CorrespondenceInit
<1>2. \A x \in Pairs : x[1] \in Called <=> x[1][2] <= calls[x[1][1]]
  BY DEF Called, Pairs
<1>3. Called \subseteq Occasions
  BY DEF Called
<1> QED
  BY <1>1, <1>2, <1>3 DEF Log!Init, Log!Pairs, Pairs

\* For any templates, addresses and requests, however they overlap, fail or stop: the letter
\* of an occasion is given to the mail server for an address at most once, after the occasion
\* and between its row in the log and the mark in it, which is final (EmailService).
THEOREM LogHolds == CorrespondenceSpec => ImplementsLetterLog
BY CorrespondenceStarts, CorrespondenceGoes, LogStarts, StepsKeepLog, PTL
   DEF CorrespondenceSpec, ImplementsLetterLog, Log!Spec
=============================================================================
