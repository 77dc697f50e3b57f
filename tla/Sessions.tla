------------------------------ MODULE Sessions ------------------------------
(***************************************************************************)
(* What is on the offline duel screen: practice duels, gauntlets, sample   *)
(* openings, matches, puzzles and replays (src/src/UI.cpp).                *)
(*                                                                         *)
(* One engine serves all of them.  What it is playing is not stored        *)
(* anywhere: it follows from mode flags (m_replayMode, m_puzzleMode,       *)
(* m_matchActive, ...) and from DuelManager settings that outlive a duel,  *)
(* each set and reset by another set of buttons.  Here the engine carries  *)
(* the ghosts that say what it was really started for.                     *)
(*                                                                         *)
(* Each action is one frame's input.  The frame in which a duel ends draws *)
(* the end-of-duel edge and the result panel before any further input, so  *)
(* they are part of the step that ends it (Over).  The duel itself is      *)
(* Practice's; here it asks, is answered, and ends.                        *)
(***************************************************************************)
EXTENDS Naturals, Sequences

CONSTANTS
    MaxAnswers,     \* bound: responses in a live duel
    ReplayLength,   \* responses in the replay that is played back
    MaxGames        \* bound: games of one match

ASSUME SessionsAssumption ==
    {MaxAnswers, ReplayLength, MaxGames} \subseteq Nat \ {0}

Seat == {0, 1}
Draw == 2
Opponent(p) == 1 - p
Puzzles == {"puzzle", "break"}
Live == {"practice", "gauntlet", "match"}

VARIABLES
    screen,     \* m_screen
    eng,        \* m_dm's duel, its winner, and what the match history got of it
                \* (W, L, D from the player's side).  Ghosts: game, what it was started for; human,
                \* the seat of the player's deck; fed, the responses it has had; parted,
                \* whether a message handler has given one beside the recorded ones;
                \* undone, whether an undo has rebuilt the "same" or an "other"
                \* game, or "revived" one that had ended
    dm,         \* m_localMode, m_humanSeat, m_defensiveAI, m_gauntletAI
    me,         \* NetSession::localPlayerIndex, offline the seat override or 0
    play,       \* m_replayMode, Idx, SeekTarget, a desync message,
                \* m_replayPrevLocal
    puzzle,     \* m_puzzleMode
    match,      \* m_matchActive, Wins, GameNo, GameScored, Siding
    rec,        \* m_replayRecording, and how many responses it holds
    root        \* m_timeline: the duel an undo rebuilds, and of each answer the seat and
                \* (a ghost) whether in a rebuild a message handler gives it again

vars == <<screen, eng, dm, me, play, puzzle, match, rec, root>>

NoDuel  == [state |-> "none", game |-> "none", human |-> 0, await |-> "no",
            fed |-> 0, parted |-> FALSE, undone |-> "no", winner |-> Draw, logged |-> "no"]
NoRoot  == [game |-> "none", human |-> 0, acts |-> <<>>]
NoSeek  == ReplayLength + 1
NoMatch == [active |-> FALSE, won |-> 0, lost |-> 0, no |-> 1,
            scored |-> FALSE, siding |-> FALSE]
Silent  == [on |-> FALSE, len |-> 0]

Init ==
    /\ screen = "lobby"
    /\ eng = NoDuel
    /\ dm = [local |-> TRUE, seat |-> 0, defends |-> FALSE, gauntlet |-> FALSE]
    /\ me = 0
    /\ play = [mode |-> FALSE, idx |-> 0, seek |-> NoSeek, desync |-> FALSE,
               prevLocal |-> TRUE]
    /\ puzzle = FALSE
    /\ match = NoMatch
    /\ rec = Silent
    /\ root = NoRoot

Running == eng.state = "running"
Done    == eng.state = "done"

Fresh(game, human) ==
    [NoDuel EXCEPT !.state = "running", !.game = game, !.human = human]

\* if (m_dm.isRunning()) m_dm.endDuel(): a duel that is over stays where it is.
Stopped == IF Running THEN NoDuel ELSE eng

\* m_matchActive = false; of the rest only a sided deck's "Start Game" is read
\* before the next match sets it.
MatchOff == IF match.siding THEN [match EXCEPT !.active = FALSE] ELSE NoMatch

\* Faulty: a gauntlet opponent stays armed.
FaultyDisarmed == [dm EXCEPT !.defends = @ /\ dm.gauntlet]

\* DuelManager::startDuel disarms an opponent that defends.
Disarmed == [dm EXCEPT !.defends = FALSE, !.gauntlet = FALSE]

-----------------------------------------------------------------------------
(* Starting an offline duel                                                 *)

\* startOfflineDuelWithCoinToss, with the player's deck in the given seat, and
\* beginReplayRecording, captureTestingRoot; the engine may refuse.  A gauntlet
\* is armed afterwards.
StartOffline(game, seat, ok) ==
    /\ puzzle' = FALSE
    /\ dm' = [Disarmed EXCEPT !.seat = IF ok THEN seat ELSE 0,
                              !.gauntlet = ok /\ game = "gauntlet",
                              !.defends = ok /\ game = "gauntlet"]
    /\ me' = IF ok THEN seat ELSE 0
    /\ eng' = IF ok THEN Fresh(game, seat) ELSE NoDuel
    /\ rec' = IF ok /\ ~play.mode THEN [on |-> TRUE, len |-> 0] ELSE rec
    /\ root' = IF ok THEN [game |-> game, human |-> seat, acts |-> <<>>] ELSE root

\* Start Duel in the setup popup, without a match; in a gauntlet the player
\* begins.
SetupDuel(game, seat, ok) ==
    /\ screen = "lobby"
    /\ game = "gauntlet" => seat = 0
    /\ StartOffline(game, seat, ok)
    /\ match' = MatchOff
    /\ screen' = IF ok THEN "duel" ELSE screen
    /\ UNCHANGED play

\* startMatchGame: a game of the match m.
MatchGame(m, seat, ok) ==
    /\ StartOffline("match", seat, ok)
    /\ match' = IF ok THEN [m EXCEPT !.scored = FALSE] ELSE MatchOff
    /\ screen' = IF ok THEN "duel" ELSE screen
    /\ UNCHANGED play

SetupMatch(seat, ok) ==
    /\ screen = "lobby"
    /\ MatchGame([NoMatch EXCEPT !.active = TRUE], seat, ok)

\* "Play this opening" in the deck builder; a match that is being sided stays on.
Goldfish(ok) ==
    /\ screen = "builder"
    /\ StartOffline("practice", 0, ok)
    /\ screen' = IF ok THEN "duel" ELSE screen
    /\ UNCHANGED <<play, match>>

OpenBuilder ==
    /\ screen = "lobby" /\ screen' = "builder"
    /\ UNCHANGED <<eng, dm, me, play, puzzle, match, rec, root>>

LeaveBuilder ==
    /\ screen = "builder" /\ ~match.siding
    /\ screen' = "lobby"
    /\ UNCHANGED <<eng, dm, me, play, puzzle, match, rec, root>>

-----------------------------------------------------------------------------
(* Puzzles                                                                  *)

\* startPuzzleByIndex, with startPuzzle and startBoardBreak; the latter does not
\* disarm a gauntlet opponent.  No timeline is begun.
PuzzleStart(kind, ok) ==
    LET seat == IF kind = "break" THEN 1 ELSE 0
    IN  /\ rec' = Silent
        /\ play' = [play EXCEPT !.mode = FALSE]
        /\ match' = MatchOff
        /\ me' = seat
        /\ eng' = IF ok THEN Fresh(kind, seat) ELSE NoDuel
        /\ dm' = [local |-> TRUE, seat |-> seat,
                  defends |-> kind = "break" /\ (ok \/ dm.defends),
                  gauntlet |-> kind = "break" /\ dm.gauntlet]
        /\ puzzle' = (ok \/ puzzle)
        /\ screen' = IF ok THEN "duel" ELSE screen
        /\ UNCHANGED root


\* A board break without any deck to play gives up after the first resets.
PuzzleNoDeck ==
    /\ screen = "lobby"
    /\ rec' = Silent
    /\ play' = [play EXCEPT !.mode = FALSE]
    /\ match' = MatchOff
    /\ dm' = [dm EXCEPT !.local = TRUE]
    /\ UNCHANGED <<screen, eng, me, puzzle, root>>

PickPuzzle(kind, ok) == screen = "lobby" /\ PuzzleStart(kind, ok)

\* The goal overlay while the puzzle runs, its result panel when it is over.
PuzzlePanels ==
    screen = "duel" /\ puzzle /\ (Done => ~match.active /\ ~play.mode)

\* "Restart" in the overlay, "Retry puzzle" in the panel.
RestartPuzzle(kind, ok) ==
    /\ PuzzlePanels
    /\ eng.game \in Puzzles => kind = eng.game
    /\ PuzzleStart(kind, ok)

\* "Quit" in the overlay, and the two ways out of the panel.
QuitPuzzle ==
    /\ PuzzlePanels
    /\ eng' = Stopped /\ puzzle' = FALSE /\ screen' = "lobby"
    /\ UNCHANGED <<dm, me, play, match, rec, root>>

-----------------------------------------------------------------------------
(* The duel                                                                 *)

Counted(w) == [match EXCEPT !.scored = TRUE,
                            !.won  = @ + IF w = me THEN 1 ELSE 0,
                            !.lost = @ + IF w = Opponent(me) THEN 1 ELSE 0]

\* The match panel: a game counts once, a draw for nobody.
Scored(w) == IF match.active /\ ~match.scored THEN Counted(w) ELSE match

\* recordMatch on the end-of-duel edge.
Logged(w) == IF play.mode THEN "no"
             ELSE CASE w = 0 -> "W" [] w = 1 -> "L" [] OTHER -> "D"

\* The duel is over: finalizeReplay and recordMatch on the end-of-duel edge, and
\* the panel of that frame.
Over(w) ==
    /\ eng' = [eng EXCEPT !.state = "done", !.await = "no", !.fed = 0,
                          !.parted = FALSE, !.winner = w, !.logged = Logged(w)]
    /\ rec' = Silent
    /\ match' = Scored(w)
    /\ UNCHANGED <<screen, dm, me, play, puzzle, root>>

EngineWins == Running /\ eng.await = "no" /\ \E w \in Seat \cup {Draw} : Over(w)

\* A replay that has run out of responses may still be asked for one.
EngineAsks ==
    /\ Running /\ eng.await = "no"
    /\ eng.game # "replay" => eng.fed < MaxAnswers
    /\ \E a \in {"human", "opponent"} : eng' = [eng EXCEPT !.await = a]
    /\ UNCHANGED <<screen, dm, me, play, puzzle, match, rec, root>>

\* The seat the request is addressed to.
Asked == IF eng.await = "human" THEN dm.seat ELSE Opponent(dm.seat)

\* onResponseRecorded and recordTestingAction, for an answer of the live duel.
Recorded(player, again) ==
    /\ rec' = IF rec.on THEN [rec EXCEPT !.len = @ + 1] ELSE rec
    /\ root' = IF rec.on /\ root # NoRoot
               THEN [root EXCEPT !.acts =
                       Append(@, [player |-> player, again |-> again])]
               ELSE root

\* DuelManager::respond.  The player's positions and announcements are shown in
\* local mode only, which is off in a rebuild: there the handler answers them.
Respond ==
    /\ eng' = [eng EXCEPT !.fed = @ + 1, !.await = "no"]
    /\ \E again \in IF eng.await = "human" THEN BOOLEAN ELSE {FALSE} :
          Recorded(Asked, again)

\* parseMessages answers a request itself (the opponent's zones and positions,
\* sums, counters, announcements).  No request is shown then: the recorder takes
\* the answer for seat 0's.  In a playback it is given beside the recorded copy,
\* which goes to the next request.
HandlerAnswers ==
    /\ Running /\ eng.await = "no"
    /\ IF eng.game = "replay"
       THEN /\ ~eng.parted
            /\ eng' = [eng EXCEPT !.fed = @ + 1, !.parted = TRUE]
            /\ UNCHANGED <<rec, root>>
       ELSE /\ eng.fed < MaxAnswers
            /\ eng' = [eng EXCEPT !.fed = @ + 1]
            /\ Recorded(0, TRUE)
    /\ UNCHANGED <<screen, dm, me, play, puzzle, match>>

\* The player answers, also for the opponent when nothing else does
\* (autoRespondP2 is the other case).  The screen is locked in replay mode.
Answer ==
    /\ Running
    /\ \/ ~play.mode /\ eng.await = "human"
       \/ eng.await = "opponent" /\ (dm.local \/ ~play.mode)
    /\ eng.fed < MaxAnswers
    /\ Respond
    /\ UNCHANGED <<screen, dm, me, play, puzzle, match>>

\* The header's popup, and the pause menu, which opens in replays as well.
Surrender == Running /\ Over(Opponent(me))

\* Faulty: what was undone stays in the recording.
FaultyTruncated(target) == rec

\* The recording is cut to the responses the rebuilt duel has had.
Truncated(target) ==
    IF rec.on /\ rec.len > target THEN [rec EXCEPT !.len = target] ELSE rec

HumanActs == {i \in DOMAIN root.acts : root.acts[i].player = dm.seat}

\* Up to and with the answer that is undone, a handler gives one again.
GivenAgain(last) == \E i \in 1..last : root.acts[i].again

\* testingUndoHuman, testingJumpTo: the duel of the timeline's root is rebuilt up
\* to the player's last answer.  An answer that is given again is not recorded
\* again: the engine has had more than was fed, and stands wherever that led.
\* Redo is left out, and with it what was undone.
Undo(ok) ==
    /\ screen = "duel" /\ ~play.mode /\ HumanActs # {}
    /\ LET last   == CHOOSE i \in HumanActs : \A j \in HumanActs : j <= i
           target == last - 1
           parts  == GivenAgain(last)
           undone == CASE eng.state = "none" -> "revived"
                       [] eng.undone \in {"revived", "other"} -> eng.undone
                       [] OTHER -> IF eng.game = root.game THEN "same" ELSE "other"
       IN  /\ root' = [root EXCEPT !.acts = SubSeq(@, 1, target)]
           /\ rec' = Truncated(target)
           /\ \E a \in IF parts THEN {"no", "human", "opponent"} ELSE {"human"} :
                 eng' = IF ok
                        THEN [Fresh(root.game, root.human) EXCEPT
                                !.fed = IF parts THEN last ELSE target,
                                !.await = a, !.parted = parts, !.undone = undone]
                        ELSE NoDuel
    /\ dm' = Disarmed
    /\ UNCHANGED <<screen, me, play, puzzle, match>>

-----------------------------------------------------------------------------
(* Leaving the duel screen                                                  *)

\* "Lobby" in the header, and in the panel of a duel that is stuck.
HeaderLobby ==
    /\ screen = "duel" /\ ~play.mode
    /\ rec' = Silent /\ eng' = NoDuel /\ screen' = "lobby"
    /\ UNCHANGED <<dm, me, play, puzzle, match, root>>

\* "Quit to Lobby" in the pause menu.
PauseQuit ==
    /\ screen = "duel" /\ Running
    /\ rec' = Silent /\ eng' = NoDuel /\ screen' = "lobby"
    /\ puzzle' = FALSE /\ match' = MatchOff
    /\ UNCHANGED <<dm, me, play, root>>

\* The Game Over panel: the match's comes first, then the puzzle's.
Panel == screen = "duel" /\ Done /\ ~play.mode
MatchOver == match.won >= 2 \/ match.lost >= 2

PanelLobby ==
    /\ Panel /\ ~match.active /\ ~puzzle
    /\ screen' = "lobby"
    /\ UNCHANGED <<eng, dm, me, play, puzzle, match, rec, root>>

\* "Rematch", and "Restart Duel" in the tools drawer, with the last setup's decks.
Again(seat, ok) ==
    /\ screen = "duel" /\ ~play.mode
    /\ StartOffline("practice", seat, ok)
    /\ UNCHANGED <<screen, play, match>>

MatchEnds ==
    /\ Panel /\ match.active /\ MatchOver
    /\ match' = MatchOff
    /\ screen' = "lobby"
    /\ UNCHANGED <<eng, dm, me, play, puzzle, rec, root>>

SideDeck ==
    /\ Panel /\ match.active /\ ~MatchOver
    /\ match' = [match EXCEPT !.siding = TRUE]
    /\ screen' = "builder"
    /\ UNCHANGED <<eng, dm, me, play, puzzle, rec, root>>

\* "Next Game (keep deck)", and "Start Game" in the deck builder.
NextGame(seat, ok) ==
    /\ \/ Panel /\ match.active /\ ~MatchOver
       \/ screen = "builder" /\ match.siding
    /\ match.no < MaxGames
    /\ MatchGame([match EXCEPT !.no = @ + 1, !.siding = @ /\ screen = "duel"],
                 seat, ok)

-----------------------------------------------------------------------------
(* Replay playback                                                          *)

OpenReplays ==
    /\ screen = "lobby" /\ screen' = "replays"
    /\ UNCHANGED <<eng, dm, me, play, puzzle, match, rec, root>>

LeaveReplays ==
    /\ screen = "replays" /\ screen' = "lobby"
    /\ UNCHANGED <<eng, dm, me, play, puzzle, match, rec, root>>

\* Faulty: the seat of the last offline duel is kept.
FaultyReplaySeat == me

\* NetSession::clearSeatOverride: a replay is watched from seat 0.
ReplaySeat == 0

\* Faulty: the opponent's requests are answered by the automatic player.
FaultyReplayLocal(local, ok) == local

\* m_localMode is off in a replay, and restored when the engine refuses.
ReplayLocal(local, ok) == ~ok /\ local

\* startReplayPlayback of a file that loads; the engine may refuse.  p is the
\* playback's record and local m_localMode: stopReplayPlayback may come first.
StartPlayback(p, local, ok) ==
    /\ rec' = Silent
    /\ eng' = IF ok THEN Fresh("replay", 0) ELSE NoDuel
    /\ me' = ReplaySeat
    /\ dm' = [Disarmed EXCEPT !.seat = 0, !.local = ReplayLocal(local, ok)]
    /\ play' = IF ok THEN [p EXCEPT !.mode = TRUE, !.idx = 0, !.desync = FALSE,
                                    !.prevLocal = local]
               ELSE [p EXCEPT !.prevLocal = local]
    /\ screen' = IF ok THEN "duel" ELSE screen
    /\ UNCHANGED <<puzzle, match, root>>

PlayReplay(ok) ==
    screen = "replays" /\ StartPlayback(play, dm.local, ok)

\* stopReplayPlayback forgets the position, but not a seek in progress.
StoppedPlay == [play EXCEPT !.mode = FALSE, !.idx = 0, !.desync = FALSE]

Watching == screen = "duel" /\ play.mode

ExitReplay ==
    /\ Watching
    /\ eng' = Stopped
    /\ play' = StoppedPlay
    /\ dm' = [dm EXCEPT !.local = play.prevLocal]
    /\ screen' = "replays"
    /\ UNCHANGED <<me, puzzle, match, rec, root>>

RestartReplay(ok) == Watching /\ StartPlayback(StoppedPlay, play.prevLocal, ok)

\* seekReplayTo, from the slider or "<< Back"; both are hidden during a seek.
Seek(t, ok) ==
    /\ Watching /\ play.seek = NoSeek /\ t # play.idx
    /\ StartPlayback([StoppedPlay EXCEPT !.seek = t], play.prevLocal, ok)

\* Play and Step try again after a desync.
TryAgain ==
    /\ Watching /\ play.desync
    /\ play' = [play EXCEPT !.desync = FALSE]
    /\ UNCHANGED <<screen, eng, dm, me, puzzle, match, rec, root>>

\* feedReplayTick: the target is reached, or the replay is stuck.
Sought == play.seek # NoSeek /\ (play.desync \/ play.idx >= play.seek)

SeekEnds ==
    /\ Watching /\ Running /\ Sought
    /\ play' = [play EXCEPT !.seek = NoSeek]
    /\ UNCHANGED <<screen, eng, dm, me, puzzle, match, rec, root>>

\* feedReplayTick: the next recorded response, if there is one.  When it feeds,
\* by Step, by the clock or at once in a seek, is left open.
Feed ==
    /\ Watching /\ Running /\ ~Sought /\ ~play.desync /\ eng.await # "no"
    /\ IF play.idx >= ReplayLength
       THEN play' = [play EXCEPT !.desync = TRUE] /\ UNCHANGED <<eng, rec, root>>
       ELSE play' = [play EXCEPT !.idx = @ + 1] /\ Respond
    /\ UNCHANGED <<screen, dm, me, puzzle, match>>

-----------------------------------------------------------------------------
Next ==
    \/ \E g \in {"practice", "gauntlet"}, s \in Seat, ok \in BOOLEAN :
          SetupDuel(g, s, ok)
    \/ \E s \in Seat, ok \in BOOLEAN : SetupMatch(s, ok)
    \/ \E ok \in BOOLEAN : Goldfish(ok)
    \/ OpenBuilder
    \/ LeaveBuilder
    \/ \E k \in Puzzles, ok \in BOOLEAN : PickPuzzle(k, ok)
    \/ \E k \in Puzzles, ok \in BOOLEAN : RestartPuzzle(k, ok)
    \/ PuzzleNoDeck
    \/ QuitPuzzle
    \/ EngineWins
    \/ EngineAsks
    \/ HandlerAnswers
    \/ Answer
    \/ Surrender
    \/ \E ok \in BOOLEAN : Undo(ok)
    \/ HeaderLobby
    \/ PauseQuit
    \/ PanelLobby
    \/ \E s \in Seat, ok \in BOOLEAN : Again(s, ok)
    \/ MatchEnds
    \/ SideDeck
    \/ \E s \in Seat, ok \in BOOLEAN : NextGame(s, ok)
    \/ OpenReplays
    \/ LeaveReplays
    \/ \E ok \in BOOLEAN : PlayReplay(ok)
    \/ ExitReplay
    \/ \E ok \in BOOLEAN : RestartReplay(ok)
    \/ \E t \in 0..ReplayLength, ok \in BOOLEAN : Seek(t, ok)
    \/ TryAgain
    \/ SeekEnds
    \/ Feed

Spec == Init /\ [][Next]_vars

-----------------------------------------------------------------------------
(* Properties                                                               *)

\* The seat the prompts are routed to, the seat the screen is drawn for and the
\* winner is compared with, and the seat that holds the player's deck are one,
\* whatever was played before (setHumanSeat, setSeatOverride, clearSeatOverride
\* are called apart, UI.cpp:3297, 3596, 13173).  An undo that rebuilds another
\* duel than the one on the screen is excepted: it sets no seat.
SeatMatchesDuel ==
    Running /\ eng.undone \in {"no", "same"}
        => dm.seat = eng.human /\ me = eng.human

\* While a replay runs, the responses its engine has had are exactly the first
\* m_replayIdx recorded ones: after seeks, restarts, refusals and desyncs, and
\* with no answer from the player or the automatic opponent in between.  That
\* ends where a message handler answers a request itself (DuelManager.cpp:1727).
PlaybackInOrder ==
    Running /\ eng.game = "replay"
        => play.mode /\ ~dm.local /\ (~eng.parted => eng.fed = play.idx)

\* The recording that is on holds the responses of the duel that runs, one for
\* one, also after undos: none of a puzzle, a replay or an earlier duel.  An undo
\* past an answer that a handler gives again is excepted from the count: the
\* rebuilt duel is another than the recorded one.
RecordingIsOfThisDuel ==
    rec.on /\ Running => eng.game \in Live /\ (~eng.parted => rec.len = eng.fed)

\* The opponent defends in exactly the duels that announce it: a gauntlet and a
\* board break, and no other after one of them.
OpponentAsAnnounced ==
    Running /\ eng.undone = "no"
        => /\ dm.defends = (eng.game \in {"gauntlet", "break"})
           /\ eng.game = "gauntlet" => dm.gauntlet
           /\ dm.gauntlet => eng.game \in {"gauntlet", "break"}
=============================================================================
