--------------------------- MODULE TelegramProofs ---------------------------
(* Proofs about TelegramDelivery: for any number of runners, events, attempts *)
(* and faults, rows tell the truth about Telegram and MAX_ATTEMPTS is exceeded *)
(* by fewer attempts than there are runners.                                  *)
EXTENDS TelegramDelivery, FiniteSetTheorems, TLAPS

\* Rows the bot has to do with: created, and not skipped.
Announced == {"pending", "sent", "failed"}

\* What a runner relies on between two awaits: the rows it holds exist, the one
\* in its hands is no longer in its batch, and it has Telegram's answer, or the
\* count, for the status it is about to write.
Backed(c) ==
  /\ c.step \in {"post", "record", "giveUp"} => c.ev \in Events /\ status[c.ev] \in Announced
  /\ c.ev \notin c.todo
  /\ \A e \in c.todo : status[e] \in Announced
  /\ c.step = "record" /\ c.answer = "ok" => accepted[c.ev]
  /\ c.step = "record" /\ c.answer = "final" => refused[c.ev]
  /\ c.step = "giveUp" => attempts[c.ev] >= MaxAttempts

RunnersBacked == \A r \in Runners : Backed(run[r])

\* A row is created with no attempt counted.
NewRowsUntried == \A e \in Events : status[e] = "none" => attempts[e] = 0

IInv ==
  /\ TypeOK
  /\ RunnersBacked
  /\ NewRowsUntried
  /\ SentWasAccepted
  /\ FailedWasTried
  /\ AttemptsBounded

\* What no step takes back.
Grows ==
  \A e \in Events :
    /\ status[e] \in Announced => status'[e] \in Announced
    /\ accepted[e] => accepted'[e]
    /\ refused[e] => refused'[e]
    /\ attempts[e] <= attempts'[e]

-----------------------------------------------------------------------------
(* Runners.                                                                   *)

\* Event numbers start at 1.
LEMMA NoEventIsNone == NoEvent \notin Events
BY NumbersAssumption DEF NoEvent, Events

\* An idle runner is a runner, backed and holding nothing.
LEMMA IdleRuns ==
  /\ Idle \in Runs
  /\ Idle.step = "idle" /\ Idle.todo = {}
  /\ Backed(Idle)
  /\ Backed(Idle)'
  /\ \A e \in Events : ~Holds(Idle, e)
BY NoEventIsNone, NumbersAssumption DEF Idle, Runs, Answers, Backed, Holds

\* What is left of a batch is a run; it holds the batch's rows and no other.
LEMMA RestRuns ==
  ASSUME NEW c \in Runs
  PROVE  /\ Rest(c) \in Runs
         /\ \A e \in Events : Holds(Rest(c), e) => e \in c.todo
         /\ (\A e \in c.todo : status'[e] \in Announced) => Backed(Rest(c))'
<1>1. CASE c.todo = {}
  BY <1>1, IdleRuns DEF Rest
<1>2. CASE c.todo # {}
  <2> DEFINE d == [c EXCEPT !.step = "next", !.ev = NoEvent, !.answer = "ok"]
  <2>1. Rest(c) = d
    BY <1>2 DEF Rest
  <2>2. d \in Runs /\ d.step = "next" /\ d.ev = NoEvent /\ d.todo = c.todo
    BY DEF Runs, Answers
  <2>3. NoEvent \notin c.todo
    BY NoEventIsNone DEF Runs
  <2> QED
    BY <2>1, <2>2, <2>3 DEF Holds, Backed
<1> QED
  BY <1>1, <1>2

\* A runner that does not move stays backed.
LEMMA KeptBacked ==
  ASSUME TypeOK, TypeOK', Grows, NEW c \in Runs, Backed(c)
  PROVE  Backed(c)'
<1>1. c.todo \subseteq Events
  BY DEF Runs
<1>2. c.step \in {"post", "record", "giveUp"} => c.ev \in Events
  BY DEF Backed
<1>3. attempts \in [Events -> Nat] /\ attempts' \in [Events -> Nat] /\ MaxAttempts \in Nat
  BY NumbersAssumption DEF TypeOK
<1>4. c.step = "giveUp" => attempts'[c.ev] >= MaxAttempts
  BY <1>2, <1>3 DEF Grows, Backed
<1> QED
  BY <1>1, <1>2, <1>4 DEF Backed, Grows

\* One runner moves, to where it is backed.
LEMMA MovesBacked ==
  ASSUME IInv, TypeOK', Grows, NEW r \in Runners, NEW c \in Runs,
         run' = [run EXCEPT ![r] = c], Backed(c)'
  PROVE  RunnersBacked'
<1> SUFFICES ASSUME NEW q \in Runners
             PROVE  Backed(run[q])'
  BY DEF RunnersBacked
<1>1. CASE q = r
  <2>1. run'[q] = c
    BY <1>1 DEF IInv, TypeOK
  <2> QED
    BY <2>1 DEF Backed
<1>2. CASE q # r
  <2>1. PICK d \in Runs : d = run[q]
    BY DEF IInv, TypeOK
  <2>2. run'[q] = d
    BY <1>2, <2>1 DEF IInv, TypeOK
  <2>3. Backed(d)
    BY <2>1 DEF IInv, RunnersBacked
  <2>4. Backed(d)'
    BY <2>3, KeptBacked DEF IInv
  <2> QED
    BY <2>2, <2>4 DEF Backed
<1> QED
  BY <1>1, <1>2

-----------------------------------------------------------------------------
(* The bound on the attempts.                                                 *)

\* There are finitely many holders, at most as many as runners, now and next.
LEMMA HoldersFinite ==
  ASSUME NEW e
  PROVE  /\ IsFiniteSet(Holders(e)) /\ IsFiniteSet(Holders(e)')
         /\ Cardinality(Holders(e)) \in Nat /\ Cardinality(Holders(e)') \in Nat
         /\ Cardinality(Runners) \in Nat
         /\ Cardinality(Holders(e)') <= Cardinality(Runners)
<1>1. Holders(e) \subseteq Runners /\ Holders(e)' \subseteq Runners
  BY DEF Holders
<1> QED
  BY <1>1, RunnersAssumption, FS_Subset, FS_CardinalityType

\* A runner that moves without counting an attempt may let rows go, and take
\* rows whose attempts are not used up.
LEMMA BoundKept ==
  ASSUME IInv, TypeOK', attempts' = attempts, NEW r \in Runners, NEW c \in Runs,
         run' = [run EXCEPT ![r] = c],
         \A e \in Events : Holds(c, e) => Holds(run[r], e) \/ attempts[e] < MaxAttempts
  PROVE  AttemptsBounded'
<1> SUFFICES ASSUME NEW e \in Events
             PROVE  attempts[e] + Cardinality(Holders(e)') <= MaxAttempts - 1 + Cardinality(Runners)
  BY DEF AttemptsBounded
<1>1. attempts[e] \in Nat /\ MaxAttempts \in Nat
  BY NumbersAssumption DEF IInv, TypeOK
<1>2. CASE attempts[e] < MaxAttempts
  BY <1>1, <1>2, HoldersFinite
<1>3. CASE ~(attempts[e] < MaxAttempts)
  <2>1. Holders(e)' \subseteq Holders(e)
    <3> SUFFICES ASSUME NEW q \in Runners, Holds(run'[q], e)
                 PROVE  Holds(run[q], e)
      BY DEF Holders, Holds
    <3>1. run'[q] = IF q = r THEN c ELSE run[q]
      BY DEF IInv, TypeOK
    <3> QED
      BY <1>3, <3>1
  <2>2. Cardinality(Holders(e)') <= Cardinality(Holders(e))
    BY <2>1, HoldersFinite, FS_Subset
  <2>3. attempts[e] + Cardinality(Holders(e)) <= MaxAttempts - 1 + Cardinality(Runners)
    BY DEF IInv, AttemptsBounded
  <2> QED
    BY <1>1, <2>2, <2>3, HoldersFinite
<1> QED
  BY <1>2, <1>3

\* A runner that counts an attempt of a row lets the row go.
LEMMA BoundCounted ==
  ASSUME IInv, TypeOK', NEW r \in Runners, NEW v \in Events, NEW c \in Runs,
         attempts' = [attempts EXCEPT ![v] = @ + 1],
         run' = [run EXCEPT ![r] = c],
         Holds(run[r], v), ~Holds(c, v),
         \A e \in Events : Holds(c, e) => Holds(run[r], e)
  PROVE  AttemptsBounded'
<1> SUFFICES ASSUME NEW e \in Events
             PROVE  attempts'[e] + Cardinality(Holders(e)') <= MaxAttempts - 1 + Cardinality(Runners)
  BY DEF AttemptsBounded
<1>1. attempts[e] \in Nat /\ MaxAttempts \in Nat
  BY NumbersAssumption DEF IInv, TypeOK
<1>2. Holders(e)' \subseteq Holders(e) /\ (e = v => Holders(e)' \subseteq Holders(e) \ {r})
  <2> SUFFICES ASSUME NEW q \in Runners, Holds(run'[q], e)
               PROVE  Holds(run[q], e) /\ (e = v => q # r)
    BY DEF Holders, Holds
  <2>1. run'[q] = IF q = r THEN c ELSE run[q]
    BY DEF IInv, TypeOK
  <2> QED
    BY <2>1
<1>3. attempts[e] + Cardinality(Holders(e)) <= MaxAttempts - 1 + Cardinality(Runners)
  BY DEF IInv, AttemptsBounded
<1>4. CASE e = v
  <2>1. attempts'[e] = attempts[e] + 1
    BY <1>4 DEF IInv, TypeOK
  <2>2. r \in Holders(e)
    BY <1>4 DEF Holders
  <2>3. /\ IsFiniteSet(Holders(e) \ {r})
        /\ Cardinality(Holders(e) \ {r}) = Cardinality(Holders(e)) - 1
    BY <2>2, HoldersFinite, FS_RemoveElement
  <2>4. Cardinality(Holders(e)') <= Cardinality(Holders(e) \ {r})
    BY <1>2, <1>4, <2>3, FS_Subset
  <2> QED
    BY <1>1, <1>3, <2>1, <2>3, <2>4, HoldersFinite
<1>5. CASE e # v
  <2>1. attempts'[e] = attempts[e]
    BY <1>5 DEF IInv, TypeOK
  <2>2. Cardinality(Holders(e)') <= Cardinality(Holders(e))
    BY <1>2, HoldersFinite, FS_Subset
  <2> QED
    BY <1>1, <1>3, <2>1, <2>2, HoldersFinite
<1> QED
  BY <1>4, <1>5

\* What a row reads stays true when a step changes it to sent or failed only
\* with a reason.
LEMMA TruthKept ==
  ASSUME IInv, TypeOK', Grows,
         \A e \in Events : status'[e] = "sent" => status[e] = "sent" \/ accepted'[e],
         \A e \in Events : status'[e] = "failed" =>
           status[e] = "failed" \/ refused'[e] \/ attempts'[e] >= MaxAttempts
  PROVE  SentWasAccepted' /\ FailedWasTried'
<1>1. \A e \in Events : attempts[e] \in Nat /\ attempts'[e] \in Nat
  BY DEF IInv, TypeOK
<1>2. SentWasAccepted'
  BY DEF IInv, SentWasAccepted, Grows
<1>3. FailedWasTried'
  BY <1>1, NumbersAssumption DEF IInv, FailedWasTried, Grows
<1> QED
  BY <1>2, <1>3

-----------------------------------------------------------------------------
(* Each action keeps the invariant.                                           *)

\* A row for the feed only is never held and never attempted.
LEMMA SkipKeeps ==
  ASSUME IInv, NEW v \in Events, Skip(v)
  PROVE  IInv'
<1> USE DEF Skip, Fresh, rows, bot
<1>1. TypeOK'
  BY DEF IInv, TypeOK, Statuses
<1>2. Grows
  BY DEF Announced, Grows, IInv, TypeOK
<1>3. RunnersBacked'
  <2> SUFFICES ASSUME NEW q \in Runners
               PROVE  Backed(run[q])'
    BY DEF RunnersBacked
  <2>1. PICK d \in Runs : d = run[q]
    BY DEF IInv, TypeOK
  <2>2. Backed(d)'
    BY <1>1, <1>2, <2>1, KeptBacked DEF IInv, RunnersBacked
  <2> QED
    BY <2>1, <2>2 DEF Backed
<1>4. NewRowsUntried'
  BY DEF IInv, NewRowsUntried, TypeOK
<1>5. SentWasAccepted' /\ FailedWasTried'
  BY <1>1, <1>2, TruthKept DEF IInv, TypeOK
<1>6. AttemptsBounded'
  BY DEF IInv, AttemptsBounded, Holders, Holds
<1> QED
  BY <1>1, <1>3, <1>4, <1>5, <1>6 DEF IInv

\* Time changes nothing the invariant looks at.
LEMMA OlderKeeps ==
  ASSUME IInv, NEW v \in Events, Older(v)
  PROVE  IInv'
<1>1. TypeOK'
  BY NumbersAssumption DEF Older, bot, IInv, TypeOK
<1> QED
  BY <1>1 DEF Older, bot, IInv, RunnersBacked, Backed, NewRowsUntried, SentWasAccepted,
              FailedWasTried, AttemptsBounded, Holders, Holds

\* The first attempt takes a row with no attempt counted.
LEMMA SendKeeps ==
  ASSUME IInv, NEW r \in Runners, NEW v \in Events, Send(r, v)
  PROVE  IInv'
<1> DEFINE c == [Idle EXCEPT !.step = "post", !.ev = v]
<1>1. c \in Runs /\ c.step = "post" /\ c.ev = v /\ c.todo = {}
  BY IdleRuns DEF Runs
<1>2. TypeOK'
  BY <1>1 DEF Send, bot, IInv, TypeOK, Statuses
<1>3. Grows
  BY DEF Announced, Send, bot, Grows, IInv, TypeOK
<1>4. Backed(c)'
  BY <1>1 DEF Announced, Send, Backed, IInv, TypeOK
<1>5. RunnersBacked'
  <2> HIDE DEF c
  <2>1. run' = [run EXCEPT ![r] = c]
    BY DEF Send, c
  <2> QED
    BY <1>1, <1>2, <1>3, <1>4, <2>1, MovesBacked
<1>6. NewRowsUntried'
  BY DEF Send, IInv, NewRowsUntried, TypeOK
<1>7. SentWasAccepted' /\ FailedWasTried'
  BY <1>2, <1>3, TruthKept DEF Send, IInv, TypeOK
<1>8. AttemptsBounded'
  <2>1. attempts[v] < MaxAttempts
    BY NumbersAssumption DEF Send, Fresh, IInv, NewRowsUntried
  <2>2. \A e \in Events : Holds(c, e) => attempts[e] < MaxAttempts
    BY <1>1, <2>1 DEF Holds
  <2> HIDE DEF c
  <2>3. run' = [run EXCEPT ![r] = c] /\ attempts' = attempts
    BY DEF Send, c
  <2> QED
    BY <1>1, <1>2, <2>2, <2>3, BoundKept
<1> QED
  BY <1>2, <1>5, <1>6, <1>7, <1>8 DEF IInv

\* One runner moves and nothing else changes: it is enough that it is backed
\* where it goes and takes no row whose attempts are used up.
LEMMA MoveKeeps ==
  ASSUME IInv, NEW r \in Runners, NEW c \in Runs,
         run' = [run EXCEPT ![r] = c], UNCHANGED <<rows, bot>>, faults' \in 0 .. MaxFaults,
         Backed(c),
         \A e \in Events : Holds(c, e) => Holds(run[r], e) \/ attempts[e] < MaxAttempts
  PROVE  IInv'
<1> USE DEF rows, bot
<1>1. TypeOK'
  BY DEF IInv, TypeOK
<1>2. Grows
  BY DEF Grows, IInv, TypeOK
<1>3. Backed(c)'
  BY DEF Backed
<1>4. RunnersBacked'
  BY <1>1, <1>2, <1>3, MovesBacked
<1>5. AttemptsBounded'
  BY <1>1, BoundKept
<1> QED
  BY <1>1, <1>4, <1>5 DEF IInv, NewRowsUntried, SentWasAccepted, FailedWasTried

\* A tick takes rows whose attempts are not used up.
LEMMA TickKeeps ==
  ASSUME IInv, NEW r \in Runners, Tick(r)
  PROVE  IInv'
<1> DEFINE B == Batch(Candidates)
           c == [Idle EXCEPT !.step = "next", !.todo = B,
                             !.seen = [e \in Events |-> IF e \in B THEN attempts[e] ELSE 0]]
<1>1. B \subseteq Candidates
  BY DEF Batch
<1>2. \A e \in B : e \in Events /\ status[e] \in Announced /\ attempts[e] \in 0 .. MaxAttempts - 1
  BY <1>1, NumbersAssumption DEF Announced, Candidates, IInv, TypeOK
<1> HIDE DEF B
<1>3. [e \in Events |-> IF e \in B THEN attempts[e] ELSE 0] \in [Events -> 0 .. MaxAttempts - 1]
  BY <1>2, NumbersAssumption
<1>4. c \in Runs /\ c.step = "next" /\ c.todo = B /\ c.ev = NoEvent
  BY <1>2, <1>3, IdleRuns DEF Runs, Idle
<1>5. Backed(c)
  BY <1>2, <1>4, NoEventIsNone DEF Backed
<1>6. \A e \in Events : Holds(c, e) => attempts[e] < MaxAttempts
  BY <1>2, <1>4, NumbersAssumption DEF Holds
<1>7. run' = [run EXCEPT ![r] = c] /\ UNCHANGED <<rows, bot>> /\ faults' \in 0 .. MaxFaults
  BY DEF Tick, Fetch, B, IInv, TypeOK
<1> HIDE DEF c
<1> QED
  BY <1>4, <1>5, <1>6, <1>7, MoveKeeps

\* The row a runner visits leaves its batch, for its hands or for good.
LEMMA NextRowKeeps ==
  ASSUME IInv, NEW r \in Runners, NextRow(r)
  PROVE  IInv'
<1>1. PICK b \in Runs : b = run[r]
  BY DEF IInv, TypeOK
<1>2. PICK v \in b.todo :
        run' = [run EXCEPT ![r] =
          IF Due(v, b.seen[v])
          THEN [b EXCEPT !.step = "post", !.ev = v, !.todo = @ \ {v},
                         !.seen = [@ EXCEPT ![v] = 0]]
          ELSE Rest([b EXCEPT !.todo = @ \ {v}, !.seen = [@ EXCEPT ![v] = 0]])]
  BY <1>1 DEF NextRow
<1>3. Backed(b)
  BY <1>1 DEF IInv, RunnersBacked
<1>4. UNCHANGED <<rows, bot>> /\ faults' \in 0 .. MaxFaults
  BY DEF NextRow, IInv, TypeOK
<1> DEFINE z == [b.seen EXCEPT ![v] = 0]
           p == [b EXCEPT !.step = "post", !.ev = v, !.todo = @ \ {v},
                          !.seen = [@ EXCEPT ![v] = 0]]
           d == [b EXCEPT !.todo = @ \ {v}, !.seen = [@ EXCEPT ![v] = 0]]
<1>5. v \in Events
  BY DEF Runs
<1>6. z \in [Events -> 0 .. MaxAttempts - 1]
  BY <1>5, NumbersAssumption DEF Runs
<1>7. p \in Runs /\ p.step = "post" /\ p.ev = v /\ p.todo = b.todo \ {v}
  BY <1>5, <1>6 DEF Runs
<1>8. d \in Runs /\ d.todo = b.todo \ {v}
  BY <1>5, <1>6 DEF Runs
<1>9. Backed(p) /\ \A e \in Events : Holds(p, e) => Holds(b, e)
  BY <1>3, <1>5, <1>7 DEF Backed, Holds
<1> HIDE DEF p, d
<1>10. /\ Rest(d) \in Runs
       /\ \A e \in Events : Holds(Rest(d), e) => Holds(b, e)
       /\ Backed(Rest(d))'
  BY <1>3, <1>4, <1>8, RestRuns DEF Backed, Holds, rows
<1>11. Backed(Rest(d))
  BY <1>4, <1>10 DEF Backed, rows, bot
<1>12. run' = [run EXCEPT ![r] = p] \/ run' = [run EXCEPT ![r] = Rest(d)]
  BY <1>2 DEF p, d
<1>13. CASE run' = [run EXCEPT ![r] = p]
  BY <1>1, <1>4, <1>7, <1>9, <1>13, MoveKeeps
<1>14. CASE run' = [run EXCEPT ![r] = Rest(d)]
  BY <1>1, <1>4, <1>10, <1>11, <1>14, MoveKeeps
<1> QED
  BY <1>12, <1>13, <1>14

\* Telegram's answer is remembered with what it did.
LEMMA PostKeeps ==
  ASSUME IInv, NEW r \in Runners, Post(r)
  PROVE  IInv'
<1>1. PICK b \in Runs : b = run[r]
  BY DEF IInv, TypeOK
<1>2. Backed(b)
  BY <1>1 DEF IInv, RunnersBacked
<1>3. PICK a \in Answers, taken \in BOOLEAN :
        /\ a = "ok" => taken
        /\ accepted' = [accepted EXCEPT ![b.ev] = @ \/ taken]
        /\ refused' = [refused EXCEPT ![b.ev] = @ \/ a = "final"]
        /\ run' = [run EXCEPT ![r] = [b EXCEPT !.step = "record", !.answer = a]]
  BY <1>1 DEF Post
<1>4. b.step = "post" /\ b.ev \in Events /\ UNCHANGED <<rows, faults>>
  BY <1>1, <1>2 DEF Post, Backed
<1> DEFINE c == [b EXCEPT !.step = "record", !.answer = a]
<1>5. /\ c \in Runs
      /\ c.step = "record" /\ c.answer = a /\ c.ev = b.ev /\ c.todo = b.todo
  BY DEF Runs
<1>6. run' = [run EXCEPT ![r] = c]
  BY <1>3
<1> HIDE DEF c
<1>7. TypeOK'
  BY <1>3, <1>4, <1>5, <1>6 DEF rows, IInv, TypeOK
<1>8. Grows
  BY <1>3, <1>4 DEF rows, Grows, IInv, TypeOK
<1>9. Backed(c)'
  <2>1. (a = "ok" => accepted'[b.ev]) /\ (a = "final" => refused'[b.ev])
    BY <1>3, <1>4 DEF IInv, TypeOK
  <2> QED
    BY <1>2, <1>4, <1>5, <2>1 DEF Backed, rows
<1>10. RunnersBacked'
  BY <1>5, <1>6, <1>7, <1>8, <1>9, MovesBacked
<1>11. SentWasAccepted' /\ FailedWasTried'
  BY <1>4, <1>7, <1>8, TruthKept DEF rows
<1>12. AttemptsBounded'
  <2>1. \A e \in Events : Holds(c, e) => Holds(run[r], e)
    BY <1>1, <1>4, <1>5 DEF Holds
  <2> QED
    BY <1>4, <1>5, <1>6, <1>7, <2>1, BoundKept DEF rows
<1>13. NewRowsUntried'
  BY <1>4 DEF rows, IInv, NewRowsUntried
<1> QED
  BY <1>7, <1>10, <1>11, <1>12, <1>13 DEF IInv

\* A runner that is done with its row in one write: sent for what Telegram
\* took, failed for what it refused or what was counted to the limit.
LEMMA WriteKeeps ==
  ASSUME IInv, NEW r \in Runners, NEW b \in Runs, b = run[r],
         b.step \in {"record", "giveUp"}, NEW s \in {"sent", "failed"},
         status' = [status EXCEPT ![b.ev] = s], run' = [run EXCEPT ![r] = Rest(b)],
         UNCHANGED <<age, bot, faults>>,
         \/ attempts' = attempts
         \/ b.step = "record" /\ attempts' = [attempts EXCEPT ![b.ev] = @ + 1],
         s = "sent" => accepted[b.ev],
         s = "failed" => refused[b.ev] \/ attempts[b.ev] >= MaxAttempts
  PROVE  IInv'
<1>1. Backed(b) /\ b.ev \in Events /\ status[b.ev] \in Announced
  BY DEF IInv, RunnersBacked, Backed
<1>2. status' \in [Events -> Statuses] /\ attempts' \in [Events -> Nat]
  BY <1>1 DEF IInv, TypeOK, Statuses
<1>3. Grows
  BY <1>1 DEF Announced, Grows, IInv, TypeOK, bot
<1>4. \A e \in b.todo : status'[e] \in Announced
  BY <1>1, <1>3 DEF Backed, Runs, Grows
<1>5. /\ Rest(b) \in Runs /\ Backed(Rest(b))'
      /\ \A e \in Events : Holds(Rest(b), e) => e \in b.todo
  BY <1>4, RestRuns
<1>6. TypeOK'
  BY <1>2, <1>5 DEF IInv, TypeOK, bot
<1>7. RunnersBacked'
  BY <1>3, <1>5, <1>6, MovesBacked
<1>8. SentWasAccepted' /\ FailedWasTried'
  <2>1. \A e \in Events : attempts[e] \in Nat /\ attempts'[e] \in Nat
    BY <1>2 DEF IInv, TypeOK
  <2>2. \A e \in Events : status'[e] # status[e] => e = b.ev /\ status'[e] = s
    BY <1>1 DEF IInv, TypeOK
  <2>3. attempts[b.ev] >= MaxAttempts => attempts'[b.ev] >= MaxAttempts
    BY <1>1, <1>3, <2>1, NumbersAssumption DEF Grows
  <2>4. \A e \in Events : status'[e] = "sent" => status[e] = "sent" \/ accepted'[e]
    BY <2>2 DEF bot
  <2>5. \A e \in Events : status'[e] = "failed" =>
          status[e] = "failed" \/ refused'[e] \/ attempts'[e] >= MaxAttempts
    BY <2>2, <2>3 DEF bot
  <2> QED
    BY <1>3, <1>6, <2>4, <2>5, TruthKept
<1>9. AttemptsBounded'
  <2>1. \A e \in Events : Holds(Rest(b), e) => Holds(run[r], e)
    BY <1>5 DEF Holds
  <2>2. CASE attempts' = attempts
    BY <1>5, <1>6, <2>1, <2>2, BoundKept
  <2>3. CASE b.step = "record" /\ attempts' = [attempts EXCEPT ![b.ev] = @ + 1]
    <3>1. Holds(run[r], b.ev)
      BY <1>1, <2>3 DEF Holds
    <3>2. ~Holds(Rest(b), b.ev)
      BY <1>1, <1>5 DEF Backed
    <3> QED
      BY <1>1, <1>5, <1>6, <2>1, <2>3, <3>1, <3>2, BoundCounted
  <2> QED
    BY <2>2, <2>3
<1>10. NewRowsUntried'
  BY <1>1 DEF IInv, NewRowsUntried, TypeOK
<1> QED
  BY <1>6, <1>7, <1>8, <1>9, <1>10 DEF IInv

\* A row is marked sent by a runner that Telegram answered ok.
LEMMA RecordSentKeeps ==
  ASSUME IInv, NEW r \in Runners, RecordSent(r)
  PROVE  IInv'
<1>1. PICK b \in Runs : b = run[r]
  BY DEF IInv, TypeOK
<1>2. b.step = "record" /\ accepted[b.ev]
  BY <1>1 DEF RecordSent, IInv, RunnersBacked, Backed
<1>3. /\ status' = [status EXCEPT ![b.ev] = "sent"]
      /\ run' = [run EXCEPT ![r] = Rest(b)]
      /\ attempts' = attempts /\ UNCHANGED <<age, bot, faults>>
  BY <1>1 DEF RecordSent
<1> QED
  BY <1>1, <1>2, <1>3, WriteKeeps

\* A row is given up by a runner that counted it to the limit.
LEMMA GiveUpKeeps ==
  ASSUME IInv, NEW r \in Runners, GiveUp(r)
  PROVE  IInv'
<1>1. PICK b \in Runs : b = run[r]
  BY DEF IInv, TypeOK
<1>2. b.step = "giveUp" /\ attempts[b.ev] >= MaxAttempts
  BY <1>1 DEF GiveUp, IInv, RunnersBacked, Backed
<1>3. /\ status' = [status EXCEPT ![b.ev] = "failed"]
      /\ run' = [run EXCEPT ![r] = Rest(b)]
      /\ attempts' = attempts /\ UNCHANGED <<age, bot, faults>>
  BY <1>1 DEF GiveUp
<1> QED
  BY <1>1, <1>2, <1>3, WriteKeeps

\* A row is marked failed by a runner that Telegram refused for good.
LEMMA RecordFailedKeeps ==
  ASSUME IInv, NEW r \in Runners, RecordFailed(r)
  PROVE  IInv'
<1>1. PICK b \in Runs : b = run[r]
  BY DEF IInv, TypeOK
<1>2. b.step = "record" /\ refused[b.ev]
  BY <1>1 DEF RecordFailed, IInv, RunnersBacked, Backed
<1>3. /\ status' = [status EXCEPT ![b.ev] = "failed"]
      /\ run' = [run EXCEPT ![r] = Rest(b)]
      /\ attempts' = [attempts EXCEPT ![b.ev] = @ + 1] /\ UNCHANGED <<age, bot, faults>>
  BY <1>1 DEF RecordFailed
<1> QED
  BY <1>1, <1>2, <1>3, WriteKeeps

\* A runner counts the attempt and goes on, or gives up when it was the last.
LEMMA RecordRetryKeeps ==
  ASSUME IInv, NEW r \in Runners, RecordRetry(r)
  PROVE  IInv'
<1>1. PICK b \in Runs : b = run[r]
  BY DEF IInv, TypeOK
<1>2. Backed(b) /\ b.step = "record" /\ b.ev \in Events /\ status[b.ev] \in Announced
  BY <1>1 DEF RecordRetry, IInv, RunnersBacked, Backed
<1>3. attempts' = [attempts EXCEPT ![b.ev] = @ + 1] /\ UNCHANGED <<status, age, bot, faults>>
  BY <1>1 DEF RecordRetry
<1> DEFINE c == [b EXCEPT !.step = "giveUp"]
<1>4. \/ run' = [run EXCEPT ![r] = c] /\ attempts[b.ev] + 1 >= MaxAttempts
      \/ run' = [run EXCEPT ![r] = Rest(b)]
  BY <1>1 DEF RecordRetry
<1>5. attempts' \in [Events -> Nat] /\ attempts'[b.ev] = attempts[b.ev] + 1
  BY <1>2, <1>3 DEF IInv, TypeOK
<1>6. Grows
  BY <1>2, <1>3 DEF Grows, IInv, TypeOK, bot
<1>7. c \in Runs /\ c.step = "giveUp" /\ c.ev = b.ev /\ c.todo = b.todo
  BY DEF Runs
<1>8. \A e \in b.todo : status'[e] \in Announced
  BY <1>2, <1>3 DEF Backed
<1>9. /\ Rest(b) \in Runs /\ Backed(Rest(b))'
      /\ \A e \in Events : Holds(Rest(b), e) => e \in b.todo
  BY <1>8, RestRuns
<1>10. attempts'[b.ev] >= MaxAttempts => Backed(c)'
  BY <1>2, <1>3, <1>7 DEF Backed
<1>11. \A e \in Events : Holds(c, e) => e \in b.todo
  BY <1>7 DEF Holds
<1> HIDE DEF c
<1>12. ASSUME NEW d \in Runs, run' = [run EXCEPT ![r] = d], Backed(d)',
              \A e \in Events : Holds(d, e) => e \in b.todo
       PROVE  IInv'
  <2>1. TypeOK'
    BY <1>3, <1>5, <1>12 DEF IInv, TypeOK, bot
  <2>2. RunnersBacked'
    BY <1>6, <1>12, <2>1, MovesBacked
  <2>3. SentWasAccepted' /\ FailedWasTried'
    BY <1>3, <1>6, <2>1, TruthKept
  <2>4. AttemptsBounded'
    <3>1. \A e \in Events : Holds(d, e) => Holds(run[r], e)
      BY <1>1, <1>12 DEF Holds
    <3>2. Holds(run[r], b.ev) /\ ~Holds(d, b.ev)
      BY <1>1, <1>2, <1>12 DEF Holds, Backed
    <3> QED
      BY <1>2, <1>3, <1>12, <2>1, <3>1, <3>2, BoundCounted
  <2>5. NewRowsUntried'
    BY <1>2, <1>3 DEF Announced, IInv, NewRowsUntried, TypeOK
  <2> QED
    BY <2>1, <2>2, <2>3, <2>4, <2>5 DEF IInv
<1>13. CASE run' = [run EXCEPT ![r] = c] /\ attempts[b.ev] + 1 >= MaxAttempts
  BY <1>5, <1>7, <1>10, <1>11, <1>12, <1>13
<1>14. CASE run' = [run EXCEPT ![r] = Rest(b)]
  BY <1>9, <1>12, <1>14
<1> QED
  BY <1>4, <1>13, <1>14

\* A failed query leaves the rows as they are and ends the runner.
LEMMA RunFailsKeeps ==
  ASSUME IInv, NEW r \in Runners, RunFails(r)
  PROVE  IInv'
<1>1. run' = [run EXCEPT ![r] = Idle] /\ UNCHANGED <<rows, bot>> /\ faults' \in 0 .. MaxFaults
  BY NumbersAssumption DEF RunFails, IInv, TypeOK
<1> QED
  BY <1>1, IdleRuns, MoveKeeps

\* A restart leaves the rows as they are and ends every runner.
LEMMA RestartKeeps ==
  ASSUME IInv, Restart
  PROVE  IInv'
<1>1. TypeOK'
  BY IdleRuns, NumbersAssumption DEF Restart, rows, bot, IInv, TypeOK
<1>2. \A q \in Runners : run'[q] = Idle
  BY DEF Restart
<1>3. RunnersBacked'
  <2> SUFFICES ASSUME NEW q \in Runners
               PROVE  Backed(run[q])'
    BY DEF RunnersBacked
  <2> QED
    BY <1>2, IdleRuns DEF Backed
<1>4. AttemptsBounded'
  <2> SUFFICES ASSUME NEW e \in Events
               PROVE  attempts[e] + Cardinality(Holders(e)') <= MaxAttempts - 1 + Cardinality(Runners)
    BY DEF AttemptsBounded, Restart, rows
  <2>1. Holders(e)' = {}
    BY <1>2, IdleRuns DEF Holders, Holds
  <2>2. Cardinality(Holders(e)') = 0
    BY <2>1, FS_EmptySet
  <2>3. attempts[e] + Cardinality(Holders(e)) <= MaxAttempts - 1 + Cardinality(Runners)
    BY DEF IInv, AttemptsBounded
  <2> QED
    BY <2>2, <2>3, HoldersFinite, NumbersAssumption DEF IInv, TypeOK
<1> QED
  BY <1>1, <1>3, <1>4 DEF Restart, rows, bot, IInv, NewRowsUntried, SentWasAccepted, FailedWasTried

-----------------------------------------------------------------------------
(* The invariant.                                                             *)

LEMMA InitIInv == Init => IInv
<1> SUFFICES ASSUME Init
             PROVE  IInv
  OBVIOUS
<1>1. TypeOK
  BY IdleRuns, NumbersAssumption DEF Init, TypeOK, Statuses
<1>2. \A q \in Runners : run[q] = Idle
  BY DEF Init
<1>3. RunnersBacked
  BY <1>2, IdleRuns DEF RunnersBacked
<1>4. AttemptsBounded
  <2> SUFFICES ASSUME NEW e \in Events
               PROVE  attempts[e] + Cardinality(Holders(e)) <= MaxAttempts - 1 + Cardinality(Runners)
    BY DEF AttemptsBounded
  <2>1. Holders(e) = {}
    BY <1>2, IdleRuns DEF Holders
  <2>2. Cardinality(Holders(e)) = 0 /\ Cardinality(Runners) \in Nat /\ Cardinality(Runners) # 0
    BY <2>1, FS_EmptySet, FS_CardinalityType, RunnersAssumption
  <2> QED
    BY <2>2, NumbersAssumption DEF Init
<1> QED
  BY <1>1, <1>3, <1>4 DEF Init, IInv, NewRowsUntried, SentWasAccepted, FailedWasTried

LEMMA NextIInv == IInv /\ [Next]_vars => IInv'
<1> SUFFICES ASSUME IInv, [Next]_vars
             PROVE  IInv'
  OBVIOUS
<1>1. CASE \E e \in Events : Skip(e) \/ Older(e)
  BY <1>1, SkipKeeps, OlderKeeps
<1>2. ASSUME NEW r \in Runners,
             (\E e \in Events : Send(r, e)) \/ Tick(r) \/ Step(r) \/ RunFails(r)
      PROVE  IInv'
  BY <1>2, SendKeeps, TickKeeps, NextRowKeeps, PostKeeps, RecordSentKeeps, RecordRetryKeeps,
     GiveUpKeeps, RecordFailedKeeps, RunFailsKeeps DEF Step
<1>3. CASE Restart
  BY <1>3, RestartKeeps
<1>4. CASE UNCHANGED vars
  BY <1>4 DEF vars, rows, bot, IInv, TypeOK, RunnersBacked, Backed, NewRowsUntried,
              SentWasAccepted, FailedWasTried, AttemptsBounded, Holders, Holds
<1> QED
  BY <1>1, <1>2, <1>3, <1>4 DEF Next

LEMMA SpecIInv == Spec => []IInv
BY InitIInv, NextIInv, PTL DEF Spec

\* The variables keep their types, for any number of runners and events.
THEOREM TelegramTypes == Spec => []TypeOK
<1>1. IInv => TypeOK
  BY DEF IInv
<1> QED
  BY <1>1, SpecIInv, PTL

\* Whatever attempts overlap, fail or are cut off by a restart, no row says sent
\* of a message Telegram did not take.
THEOREM SentIsTrue == Spec => []SentWasAccepted
<1>1. IInv => SentWasAccepted
  BY DEF IInv
<1> QED
  BY <1>1, SpecIInv, PTL

\* ... and none says failed before it was refused or attempted to the limit.
THEOREM FailedIsTrue == Spec => []FailedWasTried
<1>1. IInv => FailedWasTried
  BY DEF IInv
<1> QED
  BY <1>1, SpecIInv, PTL

\* Overlapping runners exceed MAX_ATTEMPTS by fewer attempts than they are.
THEOREM AttemptsStayBounded == Spec => []AttemptsBounded
<1>1. IInv => AttemptsBounded
  BY DEF IInv
<1> QED
  BY <1>1, SpecIInv, PTL

-----------------------------------------------------------------------------
(* TelegramDelivery implements EventDelivery.                                 *)

\* What the rows and the bot do not take part in is a stutter.
LEMMA RunnersStutter ==
  ASSUME UNCHANGED <<status, attempts, bot>>
  PROVE  UNCHANGED Delivery!vars
BY DEF bot, Delivery!vars

\* A row is created, for the feed only or for the bot.
LEMMA HappensRefine ==
  ASSUME NEW e \in Events, \/ Skip(e) \/ \E r \in Runners : Send(r, e)
  PROVE  Delivery!Happen(e)
BY DEF Skip, Send, Fresh, bot, Delivery!Happen

\* Telegram takes a message, refuses it, or does neither again.
LEMMA PostRefines ==
  ASSUME IInv, NEW r \in Runners, Post(r)
  PROVE  [Delivery!Next]_(Delivery!vars)
<1> DEFINE e == run[r].ev
<1>1. e \in Events /\ Delivery!Open(e)
  BY DEF Post, IInv, RunnersBacked, Backed, Announced, Delivery!Open
<1>2. PICK answer \in Answers, taken \in BOOLEAN :
        /\ answer = "final" => ~taken
        /\ accepted' = [accepted EXCEPT ![e] = @ \/ taken]
        /\ refused' = [refused EXCEPT ![e] = @ \/ answer = "final"]
  BY DEF Post
<1>3. status' = status /\ attempts' = attempts
  BY DEF Post, rows
<1> HIDE DEF e
<1>4. accepted \in [Events -> BOOLEAN] /\ refused \in [Events -> BOOLEAN]
  BY DEF IInv, TypeOK
<1>5. CASE taken
  <2>1. accepted' = [accepted EXCEPT ![e] = TRUE] /\ refused' = refused
    BY <1>1, <1>2, <1>4, <1>5
  <2> QED
    BY <1>1, <1>3, <2>1 DEF Delivery!Arrive, Delivery!Next
<1>6. CASE ~taken /\ answer = "final"
  <2>1. refused' = [refused EXCEPT ![e] = TRUE] /\ accepted' = accepted
    BY <1>1, <1>2, <1>4, <1>6
  <2> QED
    BY <1>1, <1>3, <2>1 DEF Delivery!Bar, Delivery!Next
<1>7. CASE ~taken /\ answer # "final"
  <2>1. accepted' = accepted /\ refused' = refused
    BY <1>1, <1>2, <1>4, <1>7
  <2> QED
    BY <1>3, <2>1 DEF Delivery!vars
<1> QED
  BY <1>5, <1>6, <1>7

\* A row is written, or counted, by a runner that has the reason for it.
LEMMA RecordsRefine ==
  ASSUME IInv, NEW r \in Runners, RecordSent(r) \/ RecordRetry(r) \/ GiveUp(r) \/ RecordFailed(r)
  PROVE  Delivery!Next
<1> DEFINE e == run[r].ev
<1>1. e \in Events /\ Delivery!Open(e)
  BY DEF RecordSent, RecordRetry, GiveUp, RecordFailed, IInv, RunnersBacked, Backed, Announced, Delivery!Open
<1>2. CASE RecordSent(r)
  <2>1. accepted[e]
    BY <1>2 DEF RecordSent, IInv, RunnersBacked, Backed
  <2>2. status' = [status EXCEPT ![e] = "sent"] /\ UNCHANGED <<attempts, bot>>
    BY <1>2 DEF RecordSent
  <2> QED
    BY <1>1, <2>1, <2>2 DEF bot, Delivery!Confirm, Delivery!Next
<1>3. CASE RecordRetry(r)
  <2>1. attempts' = [attempts EXCEPT ![e] = @ + 1] /\ UNCHANGED <<status, bot>>
    BY <1>3 DEF RecordRetry
  <2> QED
    BY <1>1, <2>1 DEF bot, Delivery!Count, Delivery!Next
<1>4. CASE GiveUp(r)
  <2>1. attempts[e] >= MaxAttempts
    BY <1>4 DEF GiveUp, IInv, RunnersBacked, Backed
  <2>2. status' = [status EXCEPT ![e] = "failed"] /\ UNCHANGED <<attempts, bot>>
    BY <1>4 DEF GiveUp
  <2> QED
    BY <1>1, <2>1, <2>2 DEF bot, Delivery!GiveUp, Delivery!Next
<1>5. CASE RecordFailed(r)
  <2>1. refused[e]
    BY <1>5 DEF RecordFailed, IInv, RunnersBacked, Backed
  <2>2. status' = [status EXCEPT ![e] = "failed"] /\ attempts' = [attempts EXCEPT ![e] = @ + 1] /\ bot' = bot
    BY <1>5 DEF RecordFailed
  <2> QED
    BY <1>1, <2>1, <2>2 DEF bot, Delivery!Reject, Delivery!Next
<1> QED
  BY <1>2, <1>3, <1>4, <1>5

LEMMA StepsDeliver == IInv /\ [Next]_vars => [Delivery!Next]_(Delivery!vars)
<1> SUFFICES ASSUME IInv, [Next]_vars
             PROVE  [Delivery!Next]_(Delivery!vars)
  OBVIOUS
<1>1. ASSUME NEW e \in Events, Skip(e) \/ \E r \in Runners : Send(r, e)
      PROVE  Delivery!Next
  BY <1>1, HappensRefine DEF Delivery!Next
<1>2. ASSUME NEW e \in Events, Older(e)
      PROVE  UNCHANGED Delivery!vars
  BY <1>2, RunnersStutter DEF Older
<1>3. ASSUME NEW r \in Runners, Tick(r) \/ NextRow(r) \/ RunFails(r)
      PROVE  UNCHANGED Delivery!vars
  BY <1>3, RunnersStutter DEF Tick, Fetch, NextRow, RunFails, rows
<1>4. ASSUME NEW r \in Runners, Step(r), ~NextRow(r)
      PROVE  [Delivery!Next]_(Delivery!vars)
  BY <1>4, PostRefines, RecordsRefine DEF Step
<1>5. CASE Restart
  BY <1>5, RunnersStutter DEF Restart, rows
<1>6. CASE UNCHANGED vars
  BY <1>6, RunnersStutter DEF vars, rows
<1> QED
  BY <1>1, <1>2, <1>3, <1>4, <1>5, <1>6 DEF Next

\* For any number of runs, events, attempts and failures, the rows are an
\* EventDelivery: what was skipped never reaches Telegram, a row is closed only
\* on an answer or a count that is there, and none is pending again.
THEOREM DeliveryHolds == Spec => ImplementsEventDelivery
<1>1. Init => Delivery!Init
  BY DEF Init, Delivery!Init
<1> QED
  BY <1>1, StepsDeliver, SpecIInv, PTL DEF Spec, ImplementsEventDelivery, Delivery!Spec
=============================================================================
