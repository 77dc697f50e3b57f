-------------------------- MODULE MCReplayLibrary --------------------------
(* ReplayLibrary on a small instance: one response of two bytes, which use   *)
(* both digits.                                                             *)
EXTENDS ReplayLibrary

MCReply == {<<9, 240>>}
=============================================================================
