----------------------------- MODULE MCPractice -----------------------------
(* The instances of Practice that are model-checked: short duels in which  *)
(* the player and the opponent answer in turn, with an automatic pass      *)
(* between them; in which a message handler answers, or would in a         *)
(* rebuild; and that run into an unsupported request or a refused answer.  *)
EXTENDS Practice

MCTurns == {<<"human", "pass", "human">>, <<"ai", "human">>}
MCRaw   == {<<"human", "raw">>}
MCInline == {<<"auto", "human">>, <<"pick", "refused">>}
MCRoots == MCTurns \cup MCInline \cup MCRaw

\* What follows once engine and timeline have parted is not explored.
Together == ~strayed
=============================================================================
