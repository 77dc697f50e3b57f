----------------------------- MODULE DuelReferee -----------------------------
(***************************************************************************)
(* What the host-authoritative protocol promises, without snapshots,       *)
(* sequence numbers or frames: the referee (the host's engine) raises      *)
(* numbered prompts, each answered at most once, by its owner; the client  *)
(* answers only a prompt it was shown; the result is announced once, no    *)
(* prompt is raised after it, and the client is told that result and no    *)
(* other.                                                                  *)
(***************************************************************************)
EXTENDS Naturals

CONSTANTS Host, Client, Draw, NoWinner, MaxPrompts

VARIABLES
    raised,     \* number of prompts raised so far
    asked,      \* [no, owner] of the open prompt; no = 0 when none is open
    shown,      \* the client's prompt on its screen, 0 for none
    picked,     \* prompts with a pick of the client's under way or applied
    log,        \* answers taken: [prompt, by]
    result,     \* the winner announced, NoWinner before that
    told        \* the winner the client was told

vars == <<raised, asked, shown, picked, log, result, told>>

Nobody == [no |-> 0, owner |-> Host]

Init ==
    /\ raised = 0 /\ asked = Nobody /\ shown = 0 /\ picked = {} /\ log = {}
    /\ result = NoWinner /\ told = NoWinner

Ask ==
    /\ result = NoWinner /\ asked.no = 0 /\ raised < MaxPrompts
    /\ raised' = raised + 1
    /\ \E owner \in {Host, Client} :
         asked' = [no |-> raised + 1, owner |-> owner]
    /\ UNCHANGED <<shown, picked, log, result, told>>

\* The open prompt appears on, or disappears from, the client's screen.
Show ==
    /\ asked.no # 0 /\ asked.owner = Client /\ asked.no \notin picked
    /\ shown' = asked.no
    /\ UNCHANGED <<raised, asked, picked, log, result, told>>

Hide ==
    /\ shown' = 0
    /\ UNCHANGED <<raised, asked, picked, log, result, told>>

\* The client picks; the pick may be lost on the way.
Pick ==
    /\ shown # 0
    /\ shown' = 0
    /\ picked' \in {picked, picked \cup {shown}}
    /\ UNCHANGED <<raised, asked, log, result, told>>

Lose ==
    /\ picked' \in SUBSET picked
    /\ UNCHANGED <<raised, asked, shown, log, result, told>>

Answer ==
    /\ asked.no # 0
    /\ asked.owner = Client => asked.no \in picked
    /\ log' = log \cup {[prompt |-> asked.no, by |-> asked.owner]}
    /\ asked' = Nobody
    /\ UNCHANGED <<raised, shown, picked, result, told>>

End ==
    /\ result = NoWinner
    /\ result' \in {Host, Client, Draw}
    /\ UNCHANGED <<raised, asked, shown, picked, log, told>>

Tell ==
    /\ result # NoWinner /\ told = NoWinner
    /\ told' = result
    /\ UNCHANGED <<raised, asked, shown, picked, log, result>>

Next == Ask \/ Show \/ Hide \/ Pick \/ Lose \/ Answer \/ End \/ Tell

Spec == Init /\ [][Next]_vars
=============================================================================
