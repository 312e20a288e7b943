---------------------------- MODULE MCMoneyPath ----------------------------
(* Instances of MoneyPath for TLC.                                            *)
EXTENDS MoneyPath, TLC

\* Requests are interchangeable: no property names a handler.
AnyHandler == Permutations(Handlers)
=============================================================================
