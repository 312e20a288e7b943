--------------------------- MODULE CaseLifecycle ---------------------------
(* What the portal promises of one visa case, whatever the database and the   *)
(* provider look like: the order of its statuses, and which of them may go    *)
(* with money that is held or taken.  MoneyPath is shown to implement it.     *)
EXTENDS VisaStatus

CONSTANT Cases

VARIABLES
  status,   \* the case's status
  held,     \* an authorization was granted for the case
  charged   \* money was taken for the case

vars == <<status, held, charged>>

Init ==
  /\ status = [c \in Cases |-> "DRAFT"]
  /\ held = [c \in Cases |-> FALSE]
  /\ charged = [c \in Cases |-> FALSE]

Move(c, from, to) ==
  /\ status[c] \in from
  /\ status' = [status EXCEPT ![c] = to]
  /\ UNCHANGED <<held, charged>>

RequestReview(c) == Move(c, {"DRAFT"}, "UNPAID")

\* A case counts as submitted only with its money held.
Pay(c) == held[c] /\ Move(c, {"UNPAID"}, "SUBMITTED")

\* Work starts only on a case whose money was taken, and stays work.
Accept(c) == charged[c] /\ Move(c, {"SUBMITTED"}, "PROCESSING")
Work(c) == \E to \in WorkedOn : Move(c, WorkedOn, to)

\* A case is given up before it is paid, or refused before it is charged.
GiveUp(c) == ~held[c] /\ Move(c, {"DRAFT", "UNPAID"}, "CANCELLED")
Refuse(c) == ~charged[c] /\ Move(c, {"SUBMITTED"}, "CANCELLED")

\* A case runs out of time only with nothing held.
RunOut(c) == ~held[c] /\ Move(c, {"UNPAID"}, "EXPIRED")

\* Nothing is held for a draft or for a case that ran out of time, and nothing
\* is taken before the case is submitted.
Hold(c) ==
  /\ status[c] \notin {"DRAFT", "EXPIRED"}
  /\ held' = [held EXCEPT ![c] = TRUE]
  /\ UNCHANGED <<status, charged>>

Charge(c) ==
  /\ held[c]
  /\ status[c] \notin {"DRAFT", "UNPAID", "EXPIRED"}
  /\ charged' = [charged EXCEPT ![c] = TRUE]
  /\ UNCHANGED <<status, held>>

Next ==
  \E c \in Cases :
    \/ RequestReview(c) \/ Pay(c) \/ Accept(c) \/ Work(c)
    \/ GiveUp(c) \/ Refuse(c) \/ RunOut(c)
    \/ Hold(c) \/ Charge(c)

Spec == Init /\ [][Next]_vars
=============================================================================
