-------------------------- MODULE TelegramDelivery --------------------------
(* Delivery of operator notifications: TelegramNotificationService with the   *)
(* switch of NotificationEmitterService in front of it.  Every event is a row *)
(* of notification_events.  send() makes the first attempt itself; every 30   *)
(* seconds a tick of processRetryQueue takes the pending rows and attempts    *)
(* them again.  Nothing keeps a tick from running beside another tick, or     *)
(* beside the first attempt: each of them is a runner here, cut where the     *)
(* code awaits Telegram or the database.                                      *)
(*                                                                            *)
(* An operator named X_Bug is X with a plausible mistake; no specification    *)
(* uses it (see PROJECT.json).                                                *)
EXTENDS Integers, FiniteSets

CONSTANTS
  Runners,      \* executions of send() and processRetryQueue there can be at a time
  NumEvents,    \* bound: events there can be
  MaxAttempts,  \* MAX_ATTEMPTS
  BatchSize,    \* rows a tick takes
  MaxFaults     \* bound: failed queries and restarts

Events == 1 .. NumEvents   \* in the order of their createdAt
NoEvent == 0

ASSUME RunnersAssumption == IsFiniteSet(Runners) /\ Runners # {}
ASSUME NumbersAssumption ==
  /\ NumEvents \in Nat
  /\ MaxAttempts \in Nat \ {0}
  /\ BatchSize \in Nat \ {0}
  /\ MaxFaults \in Nat

VARIABLES
  status,    \* status of the row; "none" before it is created
  attempts,  \* attemptCount
  age,       \* how many of the delays since createdAt are over
  accepted,  \* Telegram: the message was taken, at least once
  refused,   \* Telegram (or a missing bot) refused it for good
  run,       \* the runners
  faults     \* failures so far

rows == <<status, attempts, age>>
bot  == <<accepted, refused>>
vars == <<rows, bot, run, faults>>

Statuses == {"none", "skipped", "pending", "sent", "failed"}
Answers == {"ok", "retryable", "final"}

\* A runner: the row it attempts, the answer it got, the rows of its batch it
\* has still to visit and the attemptCount it read of each.
Runs == [step : {"idle", "next", "post", "record", "giveUp"},
         ev : Events \cup {NoEvent}, answer : Answers,
         todo : SUBSET Events, seen : [Events -> 0 .. MaxAttempts - 1]]

Idle == [step |-> "idle", ev |-> NoEvent, answer |-> "ok",
         todo |-> {}, seen |-> [e \in Events |-> 0]]

TypeOK ==
  /\ status \in [Events -> Statuses]
  /\ attempts \in [Events -> Nat]
  /\ age \in [Events -> 0 .. MaxAttempts]
  /\ accepted \in [Events -> BOOLEAN]
  /\ refused \in [Events -> BOOLEAN]
  /\ run \in [Runners -> Runs]
  /\ faults \in 0 .. MaxFaults

Init ==
  /\ status = [e \in Events |-> "none"]
  /\ attempts = [e \in Events |-> 0]
  /\ age = [e \in Events |-> 0]
  /\ accepted = [e \in Events |-> FALSE]
  /\ refused = [e \in Events |-> FALSE]
  /\ run = [r \in Runners |-> Idle]
  /\ faults = 0

-----------------------------------------------------------------------------
(* Where the events come from.                                                *)

\* The next event to be created.
Fresh(e) == status[e] = "none" /\ \A d \in Events : d < e => status[d] # "none"

\* Switched off (for the event type, for all, or for want of a token): the row
\* is for the feed only.
Skip(e) ==
  /\ Fresh(e)
  /\ status' = [status EXCEPT ![e] = "skipped"]
  /\ UNCHANGED <<attempts, age, bot, run, faults>>

\* The row first, then the first attempt.
Send(r, e) ==
  /\ Fresh(e)
  /\ run[r].step = "idle"
  /\ status' = [status EXCEPT ![e] = "pending"]
  /\ run' = [run EXCEPT ![r] = [Idle EXCEPT !.step = "post", !.ev = e]]
  /\ UNCHANGED <<attempts, age, bot, faults>>

\* The next of the RETRY_DELAYS_MS, which all count from createdAt, is over.
Older(e) ==
  /\ status[e] # "none"
  /\ age[e] < MaxAttempts
  /\ age' = [age EXCEPT ![e] = @ + 1]
  /\ UNCHANGED <<status, attempts, bot, run, faults>>

-----------------------------------------------------------------------------
(* processRetryQueue.                                                         *)

Candidates == {e \in Events : status[e] = "pending" /\ attempts[e] < MaxAttempts}

\* The oldest BatchSize of a set of rows.
Batch(S) == {e \in S : Cardinality({d \in S : d < e}) < BatchSize}

Fetch(r, S) ==
  /\ run[r].step = "idle"
  /\ S # {}
  /\ run' = [run EXCEPT ![r] =
       [Idle EXCEPT !.step = "next", !.todo = Batch(S),
                    !.seen = [e \in Events |-> IF e \in Batch(S) THEN attempts[e] ELSE 0]]]
  /\ UNCHANGED <<rows, bot, faults>>

Tick_AnyPending(r) == Fetch(r, {e \in Events : status[e] = "pending"})

Tick_AnyRow(r) == Fetch(r, {e \in Events : status[e] # "none" /\ attempts[e] < MaxAttempts})

Tick_Attempted(r) == Fetch(r, {e \in Candidates : attempts[e] > 0})

Tick(r) == Fetch(r, Candidates)

\* RETRY_DELAYS_MS[n - 1], and for want of it the first delay.
Due(e, n) == age[e] >= (IF n = 0 THEN 1 ELSE n)

\* The rest of the batch, or nothing more to do.
Rest(c) ==
  IF c.todo = {} THEN Idle
  ELSE [c EXCEPT !.step = "next", !.ev = NoEvent, !.answer = "ok"]

\* The loop comes to its next row and attempts it, if the count that was read
\* with the batch says that it is time.
NextRow(r) ==
  LET c == run[r]
  IN /\ c.step = "next"
     /\ \E e \in c.todo :
          /\ \A d \in c.todo : e <= d
          /\ run' = [run EXCEPT ![r] =
               IF Due(e, c.seen[e])
               THEN [c EXCEPT !.step = "post", !.ev = e, !.todo = @ \ {e},
                              !.seen = [@ EXCEPT ![e] = 0]]
               ELSE Rest([c EXCEPT !.todo = @ \ {e}, !.seen = [@ EXCEPT ![e] = 0]])]
     /\ UNCHANGED <<rows, bot, faults>>

-----------------------------------------------------------------------------
(* attemptSend.                                                               *)

\* The call to sendMessage, which ends at the latest with its timeout.  When
\* the answer is a timeout or a 5xx the message may have been taken all the
\* same; a missing bot or chat counts as a final refusal.
Post(r) ==
  LET e == run[r].ev
  IN /\ run[r].step = "post"
     /\ \E answer \in Answers, taken \in BOOLEAN :
          /\ answer = "ok" => taken
          /\ answer = "final" => ~taken
          /\ accepted' = [accepted EXCEPT ![e] = @ \/ taken]
          /\ refused' = [refused EXCEPT ![e] = @ \/ answer = "final"]
          /\ run' = [run EXCEPT ![r] = [@ EXCEPT !.step = "record", !.answer = answer]]
     /\ UNCHANGED <<rows, faults>>

RecordSent(r) ==
  LET e == run[r].ev
  IN /\ run[r].step = "record"
     /\ run[r].answer = "ok"
     /\ status' = [status EXCEPT ![e] = "sent"]
     /\ run' = [run EXCEPT ![r] = Rest(@)]
     /\ UNCHANGED <<attempts, age, bot, faults>>

\* markPendingRetry counts the attempt with one update ...
RecordRetry(r) ==
  LET e == run[r].ev
  IN /\ run[r].step = "record"
     /\ run[r].answer = "retryable"
     /\ attempts' = [attempts EXCEPT ![e] = @ + 1]
     /\ run' = [run EXCEPT ![r] = IF attempts[e] + 1 >= MaxAttempts
                                  THEN [@ EXCEPT !.step = "giveUp"] ELSE Rest(@)]
     /\ UNCHANGED <<status, age, bot, faults>>

\* ... and gives up with another.
GiveUp(r) ==
  /\ run[r].step = "giveUp"
  /\ status' = [status EXCEPT ![run[r].ev] = "failed"]
  /\ run' = [run EXCEPT ![r] = Rest(@)]
  /\ UNCHANGED <<attempts, age, bot, faults>>

\* markFailed
RecordFailed(r) ==
  LET e == run[r].ev
  IN /\ run[r].step = "record"
     /\ run[r].answer = "final"
     /\ status' = [status EXCEPT ![e] = "failed"]
     /\ attempts' = [attempts EXCEPT ![e] = @ + 1]
     /\ run' = [run EXCEPT ![r] = Rest(@)]
     /\ UNCHANGED <<age, bot, faults>>

-----------------------------------------------------------------------------
(* What can fail.                                                             *)

\* A query fails: the exception ends the send, or the tick with its batch.
RunFails(r) ==
  /\ faults < MaxFaults
  /\ faults' = faults + 1
  /\ run[r].step # "idle"
  /\ run' = [run EXCEPT ![r] = Idle]
  /\ UNCHANGED <<rows, bot>>

Restart ==
  /\ faults < MaxFaults
  /\ faults' = faults + 1
  /\ \E r \in Runners : run[r].step # "idle"
  /\ run' = [r \in Runners |-> Idle]
  /\ UNCHANGED <<rows, bot>>

Step(r) ==
  NextRow(r) \/ Post(r) \/ RecordSent(r) \/ RecordRetry(r) \/ GiveUp(r) \/ RecordFailed(r)

Next ==
  \/ \E e \in Events : Skip(e) \/ Older(e)
  \/ \E r \in Runners : (\E e \in Events : Send(r, e)) \/ Tick(r) \/ Step(r) \/ RunFails(r)
  \/ Restart

Spec == Init /\ [][Next]_vars

\* The timer keeps firing, time passes, and every await ends: the call to
\* Telegram has a timeout of ten seconds.  Telegram may refuse for ever.
Fairness ==
  /\ \A r \in Runners : WF_vars(Tick(r)) /\ WF_vars(Step(r))
  /\ \A e \in Events : WF_vars(Older(e))

FairSpec == Spec /\ Fairness

-----------------------------------------------------------------------------
\* A row that reads sent was taken by Telegram, whatever attempts of it overlap.
SentWasAccepted == \A e \in Events : status[e] = "sent" => accepted[e]

\* A row is given up only after MAX_ATTEMPTS attempts were counted or one was
\* refused for good ("gave up after ... attempts").
FailedWasTried ==
  \A e \in Events : status[e] = "failed" => refused[e] \/ attempts[e] >= MaxAttempts

\* The runners that may still count an attempt of e.
Holds(c, e) == (c.step \in {"post", "record"} /\ c.ev = e) \/ e \in c.todo
Holders(e) == {r \in Runners : Holds(run[r], e)}

\* MAX_ATTEMPTS is not a limit when runners overlap, but it is exceeded by fewer
\* attempts than there are runners: those that had the row in their batch, or in
\* their hands, when the last one was counted.
AttemptsBounded ==
  \A e \in Events :
    attempts[e] + Cardinality(Holders(e)) <= MaxAttempts - 1 + Cardinality(Runners)

\* A pending row whose attempts are used up is about to be given up:
\* processRetryQueue no longer looks at it.
PendingIsRetried ==
  \A e \in Events : status[e] = "pending" =>
    \/ attempts[e] < MaxAttempts
    \/ \E r \in Runners : run[r].step = "giveUp" /\ run[r].ev = e

\* Every event is attempted until it is sent, failed, or out of attempts, also
\* when the process stops before the first attempt has an answer.
PendingIsTried ==
  \A e \in Events :
    status[e] = "pending" ~> status[e] # "pending" \/ attempts[e] >= MaxAttempts

Delivery == INSTANCE EventDelivery WITH
  row <- status, count <- attempts, arrived <- accepted, barred <- refused, Limit <- MaxAttempts

\* However the runs overlap, fail or are cut off, the rows are an EventDelivery:
\* what was skipped never reaches Telegram, a row is closed only on an answer
\* or a count that is there, and none is pending again.
ImplementsEventDelivery == Delivery!Spec
=============================================================================
