------------------------------ MODULE LetterLog ------------------------------
(* What a reader of the e-mail log may rely on, whatever requests, sweeps and *)
(* failures are behind it: nobody is written to before there is an occasion,  *)
(* the mail server gets a letter for an address at most once and only while   *)
(* its one row is pending, and a row that was closed stays as it is.          *)
(* Correspondence is shown to implement it.                                   *)
EXTENDS Integers

CONSTANTS Kinds, Addresses

VARIABLES
  called,  \* the letters for which there was an occasion
  row,     \* what the log says of a letter to an address
  given,   \* how often the mail server was given it
  lapsed   \* pairs at which a failure or a stop came between

vars == <<called, row, given, lapsed>>

Pairs == Kinds \X Addresses

Init ==
  /\ called \subseteq Kinds
  /\ row = [x \in Pairs |-> IF x[1] \in called THEN "sent" ELSE "none"]
  /\ given = [x \in Pairs |-> IF x[1] \in called THEN 1 ELSE 0]
  /\ lapsed = {}

Call ==
  /\ called \subseteq called' /\ called' \subseteq Kinds
  /\ UNCHANGED <<row, given, lapsed>>

\* A letter that has no template is logged as failed, and goes nowhere.
Enter(x, says) ==
  /\ x[1] \in called /\ row[x] = "none"
  /\ row' = [row EXCEPT ![x] = says]
  /\ UNCHANGED <<called, given, lapsed>>

Give(x) ==
  /\ row[x] = "pending" /\ given[x] = 0
  /\ given' = [given EXCEPT ![x] = 1]
  /\ UNCHANGED <<called, row, lapsed>>

\* Closed with the outcome; as failed also where the outcome could not be written.
Close(x) ==
  /\ row[x] = "pending"
  /\ \/ given[x] = 1 /\ row' = [row EXCEPT ![x] = "sent"]
     \/ (given[x] = 0 \/ x \in lapsed) /\ row' = [row EXCEPT ![x] = "failed"]
  /\ UNCHANGED <<called, given, lapsed>>

Lapse ==
  /\ lapsed \subseteq lapsed' /\ lapsed' \subseteq Pairs
  /\ UNCHANGED <<called, row, given>>

Next ==
  \/ Call \/ Lapse
  \/ \E x \in Pairs : (\E says \in {"pending", "failed"} : Enter(x, says)) \/ Give(x) \/ Close(x)

Spec == Init /\ [][Next]_vars
=============================================================================
