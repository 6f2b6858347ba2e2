----------------------------- MODULE MCAlertSink -----------------------------
(***************************************************************************)
(* The instance of AlertSink for TLC: three keys in a dedupe table capped  *)
(* at one, one of them without URL, and a queue with room for one.         *)
(***************************************************************************)
EXTENDS AlertSink

CONSTANTS k1, k2, k3
=============================================================================
