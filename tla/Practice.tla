------------------------------ MODULE Practice ------------------------------
(***************************************************************************)
(* The offline practice duel: the pump of DuelManager (process,            *)
(* submitResponse, src/src/DuelManager.cpp) driven once per frame by       *)
(* Game::run, the automatic opponent, the pacing holds that make its moves *)
(* watchable, and the Testing Mode timeline of src/src/UI.cpp that rewinds *)
(* the duel by rebuilding it: a fresh engine with the same seed is fed the *)
(* recorded responses.                                                     *)
(*                                                                         *)
(* Everything here runs on one thread.  What interleaves is the player's   *)
(* input, the pacing deadline and the frames of the program.               *)
(***************************************************************************)
EXTENDS Naturals, Sequences, FiniteSets

CONSTANTS
    Roots,          \* seed and decks of a duel, as the requests they lead to
    Answers,        \* what a player can answer
    MaxRetries,     \* kMaxRetries
    MaxRefusals,    \* bound: how often one answer is counted as refused again
    CapReached,     \* whether frames may end at kMaxStepsPerFrame
    MaxBeats,       \* bound: engine steps between two requests
    MaxJumps,       \* bound: rewinds in a run
    MaxDuels        \* bound: duels in a run

\* Whom a request addresses.  Some the message handler answers itself: "pass" is
\* a chain window without an option; "auto" the opponent's zones, positions and
\* announcements, and either seat's sorting, counters and sums; "refused" one of
\* these whose answer the engine does not take (a card name, a sum without
\* solution).  "pick" is a position or an announcement of the player, which is
\* shown in local mode only; "raw" a request that is not parsed.
Kinds == {"human", "ai", "pass", "auto", "refused", "pick", "raw"}
ASSUME RootsAssumption == Roots \subseteq Seq(Kinds) /\ Roots # {}
ASSUME BoundsAssumption ==
    /\ MaxRetries \in Nat /\ MaxRefusals \in Nat \ {0} /\ MaxBeats \in Nat
    /\ CapReached \in BOOLEAN
    /\ MaxJumps \in Nat /\ MaxDuels \in Nat

\* A response: who gave it and whether the engine accepts it where it is given.
\* "auto" is the message handler, whose answers are recorded like any other, but
\* for the pass; "engine" marks what lies in the engine's buffer when nobody gave a
\* response.
Responses == [by : {"human"}, ok : {TRUE}, v : Answers]
               \cup [by : {"ai", "auto"}, ok : BOOLEAN, v : {0}]
Pass == [by |-> "pass", ok |-> TRUE, v |-> 0]
Stray(ok) == [by |-> "engine", ok |-> ok, v |-> 0]
Buffered == Responses \cup {Pass, Stray(TRUE), Stray(FALSE)}

VARIABLES
    pc,         \* where the thread is: frame, pump, advance, feed, draw
    dm,         \* DuelManager's flags
    eng,        \* the engine (ocgcore)
    tl,         \* TestingTimeline
    replay,     \* m_replayRecording with the recorder, and m_replay.responses; the
                \* ghost whole: no jump has gone past its end
    rb,         \* the rebuild in progress: testingJumpTo's locals
    fast,       \* m_settings.fastTurns
    jumps, duels,   \* ghosts, for the bounds
    strayed     \* ghost: engine and timeline have parted (see Program notes)
vars == <<pc, dm, eng, tl, replay, rb, fast, jumps, duels, strayed>>

-----------------------------------------------------------------------------
(* The engine.  Duels of one root differ only in the responses read, so the *)
(* request it waits at is a function of those: rejected ones do not count.  *)

Accepted(h) == Cardinality({i \in DOMAIN h : h[i].ok})
Asked(e) == e.root[Accepted(e.hist) + 1]
NoEngine == [root |-> <<>>, hist |-> <<>>, given |-> <<>>, beats |-> 0, st |-> "none",
             resp |-> Stray(FALSE)]
CreateDuel(r) == [NoEngine EXCEPT !.root = r, !.st = "run"]

\* OCG_DuelProcess first reads its buffer if it stands at a request.  (The ghost
\* given leaves out the passes, which nobody records.)
Read(e, t) ==
    [e EXCEPT !.hist = Append(@, t), !.beats = 0,
              !.given = IF t.by = "pass" THEN @ ELSE Append(@, t),
              !.st = IF t.ok THEN "run" ELSE "ask"]
ReadBuffer(e, queued) ==
    IF e.st # "ask" THEN {e}
    ELSE {Read(e, t) : t \in IF queued THEN {e.resp} ELSE {Stray(TRUE), Stray(FALSE)}}

-----------------------------------------------------------------------------
(* DuelManager                                                              *)

Idle == [running |-> FALSE, done |-> FALSE, awaiting |-> FALSE,
         queued |-> FALSE, blocked |-> FALSE, retry |-> 0, sel |-> "none",
         seat |-> 0, local |-> TRUE, hold |-> FALSE, paced |-> FALSE, phase |-> FALSE,
         delay |-> FALSE, beat |-> TRUE]

\* endDuel: the pacing deadline and the two pacing flags are not reset.
EndDuel(d) ==
    [d EXCEPT !.running = FALSE, !.done = FALSE, !.awaiting = FALSE,
              !.queued = FALSE, !.blocked = FALSE, !.retry = 0, !.sel = "none"]
StartDuel(d) == [EndDuel(d) EXCEPT !.running = TRUE]

\* submitResponse, without the recorder.
Submit(d) == [d EXCEPT !.queued = TRUE, !.blocked = FALSE, !.sel = "none"]

\* A request is answered where it is parsed, or shown (parseMessages).
Inline(d, kind) == kind \in {"pass", "auto", "refused"} \/ (kind = "pick" /\ ~d.local)
InlineAnswer(kind) ==
    IF kind = "pass" THEN Pass ELSE [by |-> "auto", ok |-> kind # "refused", v |-> 0]
ParseRequest(d, kind) ==
    IF Inline(d, kind) THEN Submit(d)
    ELSE IF kind = "raw" THEN d
    ELSE [d EXCEPT !.sel = IF kind = "pick" THEN "human" ELSE kind]

CardBeat(d) == ~d.done /\ d.beat /\ d.paced
PhaseBeat(d) == ~d.done /\ ~CardBeat(d) /\ d.delay /\ d.phase

\* The rest of the loop body once the engine has returned: the two yields come
\* before the status is looked at.  (An END without MSG_WIN ends the duel too.)
AfterStep(d, status) ==
    IF CardBeat(d) THEN [d EXCEPT !.paced = FALSE, !.hold = TRUE]
    ELSE IF PhaseBeat(d) THEN [d EXCEPT !.phase = FALSE, !.hold = TRUE]
    ELSE IF d.done THEN [d EXCEPT !.running = FALSE]
    ELSE IF status = "awaiting" THEN [d EXCEPT !.awaiting = TRUE]
    ELSE [d EXCEPT !.awaiting = FALSE, !.retry = 0]
Leaves(d) == d.done \/ CardBeat(d) \/ PhaseBeat(d)

\* process() goes back to its caller: the main loop or a rebuild.
Return == pc' = IF rb.on THEN "advance" ELSE "draw"

-----------------------------------------------------------------------------
(* The recorder: onResponseRecorded, then recordTestingAction.              *)

Prefix(s, n) == SubSeq(s, 1, IF n < Len(s) THEN n ELSE Len(s))

\* Faulty: the future of a rewound timeline is kept.
FaultyRecord(t) ==
    IF ~replay.on THEN UNCHANGED <<tl, replay>>
    ELSE LET acts == Append(tl.acts, t)
         IN  /\ tl' = [tl EXCEPT !.acts = acts, !.applied = Len(acts)]
             /\ replay' = [replay EXCEPT !.resp = Prefix(Append(@, t), Len(acts))]

Record(t) ==
    IF ~replay.on THEN UNCHANGED <<tl, replay>>
    ELSE LET acts == Append(Prefix(tl.acts, tl.applied), t)
         IN  /\ tl' = [tl EXCEPT !.acts = acts, !.applied = Len(acts)]
             /\ replay' = [replay EXCEPT !.resp = Prefix(Append(@, t), Len(acts))]

\* A response of a player or of the automatic opponent in the live duel.
Respond(d, t) ==
    /\ dm' = Submit(d)
    /\ eng' = [eng EXCEPT !.resp = t]
    /\ Record(t)
    /\ strayed' = (strayed \/ ~replay.on)

-----------------------------------------------------------------------------
(* process()                                                                *)

\* Game::run: a duel that is not running is not pumped; a parked pump and an
\* armed pacing hold return at once.
GameTick ==
    /\ pc = "frame"
    /\ pc' = IF dm.running /\ ~dm.blocked /\ ~dm.hold THEN "pump" ELSE "draw"
    /\ UNCHANGED <<dm, eng, tl, replay, rb, fast, jumps, duels, strayed>>

Waiting == pc = "pump" /\ dm.awaiting /\ ~dm.queued

\* The request is the player's, or that of a seat this program does not play.
LeaveToSeat ==
    /\ Waiting
    /\ dm.sel = "human" \/ (dm.sel = "ai" /\ ~dm.local)
    /\ Return
    /\ UNCHANGED <<dm, eng, tl, replay, rb, fast, jumps, duels, strayed>>

\* Too many rejected answers, or no answer to a request of this type.
ParkOpponent ==
    /\ Waiting /\ dm.sel = "ai" /\ dm.local
    /\ dm' = [dm EXCEPT !.blocked = TRUE]
    /\ Return
    /\ UNCHANGED <<eng, tl, replay, rb, fast, jumps, duels, strayed>>

\* autoRespondP2, and the beat after it.
AutoRespond ==
    /\ Waiting /\ dm.sel = "ai" /\ dm.local
    /\ dm.retry <= MaxRetries
    /\ \E t \in {r \in Responses : r.by = "ai"} :
         /\ Respond([dm EXCEPT !.hold = @ \/ dm.beat], t)
         /\ IF dm.beat THEN Return ELSE pc' = pc
    /\ UNCHANGED <<rb, fast, jumps, duels>>

\* Faulty: the pump returns without parking.
FaultyParkRaw ==
    /\ Waiting /\ dm.sel \in {"none", "raw"}
    /\ Return
    /\ UNCHANGED <<dm, eng, tl, replay, rb, fast, jumps, duels, strayed>>

\* The engine waits and no request was parsed.
ParkRaw ==
    /\ Waiting /\ dm.sel \in {"none", "raw"}
    /\ dm' = [dm EXCEPT !.blocked = TRUE, !.sel = "raw"]
    /\ Return
    /\ UNCHANGED <<eng, tl, replay, rb, fast, jumps, duels, strayed>>

\* The end of an iteration.  The step cap may end the frame at any of them.
Settle(d, status) ==
    /\ dm' = AfterStep(d, status)
    /\ IF Leaves(d) THEN Return ELSE pc' = pc \/ (CapReached /\ Return)

Consume == [dm EXCEPT !.queued = FALSE,
                      !.awaiting = IF dm.queued THEN FALSE ELSE @]

Retried == [Consume EXCEPT !.retry = IF @ > MaxRetries THEN @ ELSE @ + 1]

\* The engine, at e, asks.  What the message handler answers is recorded, but for
\* the pass (m_internalAutoResolve); the recorder is suppressed in a rebuild, so
\* the answer is given there beside the recorded copy of it.
Request(e, d) ==
    LET kind == Asked(e)
        t    == InlineAnswer(kind)
        own  == Inline(d, kind) /\ kind # "pass"
    IN  /\ Settle(ParseRequest(d, kind), "awaiting")
        /\ eng' = IF Inline(d, kind) THEN [e EXCEPT !.resp = t] ELSE e
        /\ IF own /\ ~rb.on THEN Record(t) ELSE UNCHANGED <<tl, replay>>
        /\ strayed' = (strayed \/ (eng.st = "ask" /\ ~dm.queued)
                               \/ (own /\ (rb.on \/ ~replay.on)))

\* A step of the engine in which it asks nothing.
AsksNothing ==
    /\ strayed' = (strayed \/ (eng.st = "ask" /\ ~dm.queued))
    /\ UNCHANGED <<tl, replay>>

\* A message handler gives the answer again that the engine has refused, and has
\* no cap; from the bound on, the model does not list it again.
Refusals(h) == Cardinality({i \in DOMAIN h : h[i].by = "auto" /\ ~h[i].ok})
Refused(e) == e.st = "ask" /\ Asked(e) = "refused"

\* One iteration that calls the engine.
EngineStep ==
    /\ pc = "pump" /\ ~Waiting
    /\ \E e \in ReadBuffer(eng, dm.queued) :
         \/ \* MSG_RETRY, and the request is not repeated
            /\ e.st = "ask"
            /\ eng' = e
            /\ Settle(Retried, "awaiting")
            /\ AsksNothing
         \/ \* MSG_RETRY and the request again
            /\ e.st = "ask"
            /\ Refusals(eng.hist) < MaxRefusals
            /\ Request(e, Retried)
         \/ \* the same, and neither answer is counted
            /\ Refused(e) /\ Refusals(eng.hist) >= MaxRefusals
            /\ Settle(ParseRequest(Retried, "refused"), "awaiting")
            /\ UNCHANGED eng /\ AsksNothing
         \/ \* progress: nothing of note, a summon or an activation, a phase
            /\ e.st = "run" /\ e.beats < MaxBeats
            /\ eng' = [e EXCEPT !.beats = @ + 1]
            /\ \E m \in {"other", "paced", "phase"} :
                 Settle([Consume EXCEPT !.paced = @ \/ m = "paced",
                                        !.phase = @ \/ m = "phase"], "continue")
            /\ AsksNothing
         \/ \* the next request
            /\ e.st = "run" /\ Accepted(e.hist) < Len(e.root)
            /\ Request([e EXCEPT !.st = "ask"], Consume)
         \/ \* MSG_WIN
            /\ e.st = "run" /\ Accepted(e.hist) = Len(e.root)
            /\ eng' = [e EXCEPT !.st = "over"]
            /\ Settle([Consume EXCEPT !.done = TRUE], "over")
            /\ AsksNothing
    /\ UNCHANGED <<rb, fast, jumps, duels>>

\* The pacing deadline passes.
HoldElapses ==
    /\ dm.hold
    /\ dm' = [dm EXCEPT !.hold = FALSE]
    /\ UNCHANGED <<pc, eng, tl, replay, rb, fast, jumps, duels, strayed>>

-----------------------------------------------------------------------------
(* A rebuild (testingJumpTo).  The recorder is suppressed while rb.on.      *)

NoRebuild == [on |-> FALSE, fed |-> 0, target |-> 0, undo |-> FALSE]

\* advance(): pump until the engine asks.  Its guard counts calls of process(),
\* and an armed hold lets each of them return without a step, a refused answer
\* without getting anywhere.
Advance ==
    /\ pc = "advance"
    /\ IF ~dm.running \/ dm.sel \in {"human", "ai"} \/ dm.blocked
       THEN pc' = "feed" /\ UNCHANGED strayed
       ELSE IF dm.hold THEN pc' = "feed" /\ strayed' = TRUE
       ELSE \/ pc' = "pump" /\ UNCHANGED strayed
            \/ Refused(eng) /\ pc' = "feed" /\ strayed' = TRUE
    /\ UNCHANGED <<dm, eng, tl, replay, rb, fast, jumps, duels>>

More == rb.fed < rb.target /\ dm.running

Feed ==
    /\ pc = "feed" /\ More
    /\ dm' = Submit(dm)
    /\ eng' = [eng EXCEPT !.resp = tl.acts[rb.fed + 1]]
    /\ rb' = [rb EXCEPT !.fed = @ + 1]
    /\ pc' = "advance"
    /\ UNCHANGED <<tl, replay, fast, jumps, duels, strayed>>

\* Faulty: the replay keeps the responses that were rewound.
FaultyRestored ==
    /\ pc = "feed" /\ ~More
    /\ dm' = [dm EXCEPT !.local = TRUE]
    /\ rb' = NoRebuild
    /\ tl' = [tl EXCEPT !.applied = rb.target]
    /\ pc' = "frame"
    /\ UNCHANGED <<eng, replay, fast, jumps, duels, strayed>>

\* The end of testingJumpTo; the frame is over for the model.
Restored ==
    /\ pc = "feed" /\ ~More
    /\ dm' = [dm EXCEPT !.local = TRUE]
    /\ rb' = NoRebuild
    /\ tl' = [tl EXCEPT !.applied = rb.target]
    /\ replay' = [replay EXCEPT
                     !.resp = IF replay.on THEN Prefix(@, rb.target) ELSE @,
                     !.whole = @ /\ rb.target <= Len(replay.resp)]
    /\ pc' = "frame"
    /\ UNCHANGED <<eng, fast, jumps, duels, strayed>>

-----------------------------------------------------------------------------
(* One frame of the duel screen: drawDuel sets the pacing and closes the    *)
(* recording of a finished duel, then the player may do one thing.          *)

Pacing(d) == [d EXCEPT !.delay = ~fast, !.beat = TRUE]
Recording == replay.on /\ ~dm.done

\* Nothing.
DrawIdle ==
    /\ pc = "draw" /\ duels > 0
    /\ dm' = Pacing(dm)
    /\ replay' = [replay EXCEPT !.on = Recording]
    /\ pc' = "frame"
    /\ UNCHANGED <<eng, tl, rb, fast, jumps, duels, strayed>>

ToggleFastTurns ==
    /\ pc = "draw" /\ duels > 0
    /\ fast' = ~fast
    /\ dm' = Pacing(dm)
    /\ replay' = [replay EXCEPT !.on = Recording]
    /\ pc' = "frame"
    /\ UNCHANGED <<eng, tl, rb, jumps, duels, strayed>>

\* The player answers a request addressed to its seat.
HumanAnswer ==
    /\ pc = "draw" /\ dm.running /\ dm.sel = "human"
    /\ \E t \in {r \in Responses : r.by = "human"} : Respond(Pacing(dm), t)
    /\ pc' = "frame"
    /\ UNCHANGED <<rb, fast, jumps, duels>>

\* Surrender (forfeit).
Forfeit ==
    /\ pc = "draw" /\ dm.running
    /\ dm' = [Pacing(dm) EXCEPT !.done = TRUE, !.running = FALSE]
    /\ pc' = "frame"
    /\ UNCHANGED <<eng, tl, replay, rb, fast, jumps, duels, strayed>>

\* Faulty: the automatic opponent stays on during the rebuild.
FaultyJump(k, undo) ==
    /\ pc = "draw" /\ duels > 0
    /\ jumps < MaxJumps /\ jumps' = jumps + 1
    /\ \E started \in BOOLEAN :
         /\ dm' = [IF started THEN StartDuel(dm) ELSE EndDuel(dm)
                      EXCEPT !.delay = FALSE, !.beat = FALSE]
         /\ eng' = IF started THEN CreateDuel(tl.root) ELSE NoEngine
         /\ pc' = IF started THEN "advance" ELSE "feed"
    /\ rb' = [on |-> TRUE, fed |-> 0, target |-> k, undo |-> undo]
    /\ replay' = [replay EXCEPT !.on = Recording]
    /\ UNCHANGED <<tl, fast, duels, strayed>>

\* testingJumpTo up to its first advance(); the engine may refuse to start.
Jump(k, undo) ==
    /\ pc = "draw" /\ duels > 0
    /\ jumps < MaxJumps /\ jumps' = jumps + 1
    /\ \E started \in BOOLEAN :
         /\ dm' = [IF started THEN StartDuel(dm) ELSE EndDuel(dm)
                      EXCEPT !.delay = FALSE, !.beat = FALSE, !.local = FALSE]
         /\ eng' = IF started THEN CreateDuel(tl.root) ELSE NoEngine
         /\ pc' = IF started THEN "advance" ELSE "feed"
    /\ rb' = [on |-> TRUE, fed |-> 0, target |-> k, undo |-> undo]
    /\ replay' = [replay EXCEPT !.on = Recording]
    /\ UNCHANGED <<tl, fast, duels, strayed>>

\* The timeline panel: start, back, forward, head, or a row of the list.
TimelineJump == \E k \in 0..Len(tl.acts) : Jump(k, FALSE)

\* testingUndoHuman: to just before the player's latest answer.  A message
\* handler's counts as seat 0's, as no selection is open when it is recorded.
HumanActs ==
    {i \in 1..tl.applied :
        tl.acts[i].by = "human" \/ (tl.acts[i].by = "auto" /\ dm.seat = 0)}
\* Faulty: to just after it.
FaultyUndo ==
    \E i \in HumanActs : (\A j \in HumanActs : j <= i) /\ Jump(i, TRUE)
Undo ==
    \E i \in HumanActs : (\A j \in HumanActs : j <= i) /\ Jump(i - 1, TRUE)

\* startOfflineDuelWithCoinToss: from the lobby, Rematch or Restart Duel.
Drawn == IF duels > 0 THEN Pacing(dm) ELSE dm
NewDuel ==
    /\ pc = "draw"
    /\ duels < MaxDuels /\ duels' = duels + 1
    /\ \E r \in Roots :
         /\ eng' = CreateDuel(r)
         /\ tl' = [root |-> r, acts |-> <<>>, applied |-> 0]
    /\ \E s \in {0, 1} : dm' = [StartDuel(Drawn) EXCEPT !.beat = TRUE, !.seat = s]
    /\ replay' = [on |-> TRUE, resp |-> <<>>, whole |-> TRUE]
    /\ strayed' = FALSE
    /\ pc' = "frame"
    /\ UNCHANGED <<rb, fast, jumps>>

\* The engine refuses: the old duel is gone and its timeline stays.
DuelRefused ==
    /\ pc = "draw"
    /\ dm' = [EndDuel(Drawn) EXCEPT !.seat = 0]
    /\ eng' = NoEngine
    /\ pc' = "frame"
    /\ UNCHANGED <<tl, replay, rb, fast, jumps, duels, strayed>>

-----------------------------------------------------------------------------
PracticeInit ==
    /\ pc = "draw" /\ dm = Idle /\ eng = NoEngine
    /\ tl = [root |-> <<>>, acts |-> <<>>, applied |-> 0]
    /\ replay = [on |-> FALSE, resp |-> <<>>, whole |-> TRUE]
    /\ rb = NoRebuild
    /\ fast \in BOOLEAN
    /\ jumps = 0 /\ duels = 0 /\ strayed = FALSE

Program ==
    \/ GameTick \/ LeaveToSeat \/ ParkOpponent \/ AutoRespond \/ ParkRaw
    \/ EngineStep \/ Advance \/ Feed \/ Restored \/ DrawIdle
Player ==
    \/ ToggleFastTurns \/ HumanAnswer \/ Forfeit \/ TimelineJump \/ Undo
    \/ NewDuel \/ DuelRefused
PracticeNext == Program \/ Player \/ HoldElapses

\* The main loop runs frame after frame and time passes; the player owes the
\* program nothing.
PracticeSpec ==
    /\ PracticeInit /\ [][PracticeNext]_vars
    /\ WF_vars(Program) /\ WF_vars(HoldElapses)

-----------------------------------------------------------------------------
(* Properties                                                               *)

\* What was given to the engine, in order, the passes left out: what it has read
\* and what it will read next.
Given == eng.given
           \o IF dm.queued /\ eng.resp.by # "pass" THEN <<eng.resp>> ELSE <<>>
Applied == Prefix(tl.acts, tl.applied)

\* TestingTimeline::applied counts the responses applied to the live engine:
\* outside a rebuild the engine was given exactly the applied part of the
\* timeline, the message handlers' answers among them, whatever was rewound,
\* replayed, branched or retried before.  A rebuild that comes to a request which
\* a handler answers is excepted (strayed): its recorded answer goes to the next.
AppliedMatchesEngine ==
    ~strayed /\ ~rb.on /\ dm.running => Given = Applied

\* No response is read by a request of the other seat, or by one that a message
\* handler answers, not even in a rebuild that feeds the recorded responses of all
\* of them, up to the first request in it that a handler answers again.
Answerer(kind) ==
    CASE kind = "pick" -> "human"
      [] kind \in {"auto", "refused"} -> "auto"
      [] OTHER -> kind
RightSeatAnswers ==
    ~strayed => \A i \in DOMAIN eng.hist :
        eng.hist[i].by
            = Answerer(eng.root[Accepted(SubSeq(eng.hist, 1, i - 1)) + 1])

\* The recording is the applied part of the timeline, through any rewinds and
\* branches ("so the replay tracks the new line of play", src/src/UI.cpp:3443), as
\* long as no jump has gone forward past its end: what such a jump plays again is
\* missing from it, and a later rewind then leaves abandoned responses in it.
ReplayOnBranch == replay.on /\ replay.whole => replay.resp = Applied

\* Undo hands the player the request it had answered, with the answer gone, unless
\* the rebuild has come to a request that a message handler answers.
UndoHandsBackPrompt ==
    [][rb.undo /\ ~rb'.on /\ ~strayed' /\ dm.running
         => dm'.sel = "human" /\ ~dm'.queued /\ eng'.st = "ask"
              /\ rb.fed = rb.target]_vars

\* The pump does not stall: from any frame of a running duel it gets to a request
\* of the player, to the end, or to a park the player is told of.  It may also get
\* to a request whose handler's answer the engine refuses: that answer is given
\* again for ever, and no cap ends it.
Settled == dm.sel = "human" \/ dm.blocked \/ ~dm.running
PumpSettles == dm.running ~> (Settled \/ Refused(eng))
=============================================================================
