------------------------- MODULE MCTelegramDelivery -------------------------
(* TelegramDelivery with named runners, for TLC.                              *)
EXTENDS TelegramDelivery

CONSTANTS r1, r2
=============================================================================
