----------------------------- MODULE MCSessions -----------------------------
(* Sessions on a small instance: its constants are numbers.                 *)
EXTENDS Sessions
=============================================================================
