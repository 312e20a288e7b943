--------------------------- MODULE EventDelivery ---------------------------
(* What an operator may rely on when reading the rows of notification_events, *)
(* whatever runs of the bot are behind them: an event that was skipped        *)
(* never leaves the portal, a row says what became of its message only after  *)
(* that has become of it, and no row that was closed is pending again.        *)
(* TelegramDelivery is shown to implement it.                                 *)
EXTENDS Integers

CONSTANTS Events, Limit

VARIABLES
  row,      \* what the row says
  count,    \* the attempts it says there were
  arrived,  \* the message is in the operators' chat
  barred    \* it was refused for good

vars == <<row, count, arrived, barred>>

\* The rows that the bot has to do with.
Open(e) == row[e] \in {"pending", "sent", "failed"}

Init ==
  /\ row = [e \in Events |-> "none"]
  /\ count = [e \in Events |-> 0]
  /\ arrived = [e \in Events |-> FALSE]
  /\ barred = [e \in Events |-> FALSE]

Happen(e) ==
  /\ row[e] = "none"
  /\ \E says \in {"skipped", "pending"} : row' = [row EXCEPT ![e] = says]
  /\ UNCHANGED <<count, arrived, barred>>

Arrive(e) ==
  /\ Open(e)
  /\ arrived' = [arrived EXCEPT ![e] = TRUE]
  /\ UNCHANGED <<row, count, barred>>

Bar(e) ==
  /\ Open(e)
  /\ barred' = [barred EXCEPT ![e] = TRUE]
  /\ UNCHANGED <<row, count, arrived>>

Count(e) ==
  /\ Open(e)
  /\ count' = [count EXCEPT ![e] = @ + 1]
  /\ UNCHANGED <<row, arrived, barred>>

Confirm(e) ==
  /\ Open(e) /\ arrived[e]
  /\ row' = [row EXCEPT ![e] = "sent"]
  /\ UNCHANGED <<count, arrived, barred>>

\* The refusal counts as an attempt; giving up after Limit of them does not.
Reject(e) ==
  /\ Open(e) /\ barred[e]
  /\ row' = [row EXCEPT ![e] = "failed"]
  /\ count' = [count EXCEPT ![e] = @ + 1]
  /\ UNCHANGED <<arrived, barred>>

GiveUp(e) ==
  /\ Open(e) /\ count[e] >= Limit
  /\ row' = [row EXCEPT ![e] = "failed"]
  /\ UNCHANGED <<count, arrived, barred>>

Next ==
  \E e \in Events :
    Happen(e) \/ Arrive(e) \/ Bar(e) \/ Count(e) \/ Confirm(e) \/ Reject(e) \/ GiveUp(e)

Spec == Init /\ [][Next]_vars
=============================================================================
