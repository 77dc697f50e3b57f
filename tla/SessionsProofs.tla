--------------------------- MODULE SessionsProofs ---------------------------
(***************************************************************************)
(* Proofs about Sessions: seat, playback, recording and opponent belong to *)
(* the duel on the screen, however many duels of whatever length follow    *)
(* one another.                                                            *)
(***************************************************************************)
EXTENDS Sessions, Integers, SequenceTheorems, WellFoundedInduction, TLAPS

Games == {"practice", "gauntlet", "match", "puzzle", "break", "replay", "none"}

Duels ==
    [state : {"none", "running", "done"}, game : Games, human : {0, 1},
     await : {"no", "human", "opponent"}, fed : Nat, parted : BOOLEAN,
     undone : {"no", "same", "other", "revived"},
     winner : {0, 1, 2}, logged : {"no", "W", "L", "D"}]
Settings ==
    [local : BOOLEAN, seat : {0, 1}, defends : BOOLEAN, gauntlet : BOOLEAN]
Playbacks ==
    [mode : BOOLEAN, idx : Nat, seek : Nat, desync : BOOLEAN, prevLocal : BOOLEAN]
Matches ==
    [active : BOOLEAN, won : Nat, lost : Nat, no : Nat,
     scored : BOOLEAN, siding : BOOLEAN]
Recordings == [on : BOOLEAN, len : Nat]
Acts == [player : {0, 1}, again : BOOLEAN]
Roots == [game : Games, human : {0, 1}, acts : Seq(Acts)]

TypeOK ==
    /\ screen \in {"lobby", "builder", "duel", "replays"}
    /\ eng \in Duels
    /\ dm \in Settings
    /\ me \in {0, 1}
    /\ play \in Playbacks
    /\ match \in Matches
    /\ rec \in Recordings
    /\ root \in Roots

\* A duel runs only on the duel screen.
OnScreen == Running => screen = "duel"

\* The seat belongs to the engine's duel as long as there is one, and a live
\* duel that no undo has replaced is the one of the timeline's root.
SeatInv ==
    eng.state # "none" /\ eng.undone \in {"no", "same"}
        => /\ dm.seat = eng.human /\ me = eng.human
           /\ eng.game \in Live => root.game = eng.game /\ root.human = eng.human

\* The recording and the timeline hold the same responses, and a playback
\* records nothing.
RecInv ==
    /\ root.game \in Live \cup {"none"}
    /\ root.game = "none" => root.acts = <<>>
    /\ rec.on => ~play.mode /\ root.game \in Live /\ rec.len = Len(root.acts)

SessionsInv ==
    /\ TypeOK /\ OnScreen /\ SeatInv /\ RecInv
    /\ PlaybackInOrder /\ RecordingIsOfThisDuel /\ OpponentAsAnnounced

-----------------------------------------------------------------------------
(* The records the steps build.                                            *)

\* Fresh is a duel that runs, and of which nothing has happened.
LEMMA FreshIs ==
    ASSUME NEW g \in Games, NEW h \in {0, 1}
    PROVE  /\ Fresh(g, h) \in Duels
           /\ Fresh(g, h).state = "running"
           /\ Fresh(g, h).game = g
           /\ Fresh(g, h).human = h
           /\ Fresh(g, h).fed = 0
           /\ ~Fresh(g, h).parted
           /\ Fresh(g, h).undone = "no"
<1>1. Fresh(g, h) \in Duels
  BY DEF Fresh, NoDuel, Duels, Games, Draw
<1>. QED  BY <1>1 DEF Fresh, NoDuel

\* NoDuel is no duel.
LEMMA NoDuelIs == NoDuel \in Duels /\ NoDuel.state = "none"
BY DEF NoDuel, Duels, Games, Draw

\* Silent is a recording that is off.
LEMMA SilentIs == Silent \in Recordings /\ ~Silent.on
BY DEF Silent, Recordings

\* The opponent that Disarmed leaves neither defends nor plays a gauntlet.
LEMMA DisarmedIs ==
    ASSUME dm \in Settings, NEW s \in {0, 1}
    PROVE  /\ Disarmed \in Settings
           /\ ~Disarmed.defends /\ ~Disarmed.gauntlet
           /\ Disarmed.local = dm.local /\ Disarmed.seat = dm.seat
BY DEF Disarmed, Settings

\* Forgetting the match keeps its type.
LEMMA MatchOffType == ASSUME match \in Matches PROVE MatchOff \in Matches
<1>1. NoMatch \in Matches
  BY DEF NoMatch, Matches
<1>2. [match EXCEPT !.active = FALSE] \in Matches
  BY DEF Matches
<1>. QED  BY <1>1, <1>2 DEF MatchOff

-----------------------------------------------------------------------------
(* The steps, by what they share.  Several actions start a duel, answer a  *)
(* request or end the duel in the same way, and most of the others leave   *)
(* the duel alone.                                                         *)

\* The invariant holds when the program starts.
LEMMA SessionsInit == Init => SessionsInv
<1>. SUFFICES ASSUME Init PROVE SessionsInv
  OBVIOUS
<1>. USE DEF Init
<1>1. TypeOK
  <2>1. play \in Playbacks
    BY SessionsAssumption DEF Playbacks, NoSeek
  <2>2. match \in Matches
    BY DEF NoMatch, Matches
  <2>3. root \in Roots
    BY DEF NoRoot, Roots, Games, Acts
  <2>4. dm \in Settings
    BY DEF Settings
  <2>. QED  BY <2>1, <2>2, <2>3, <2>4, NoDuelIs, SilentIs DEF TypeOK
<1>2. OnScreen /\ SeatInv
  BY NoDuelIs DEF OnScreen, Running, SeatInv
<1>3. RecInv
  BY SilentIs DEF RecInv, NoRoot
<1>4. PlaybackInOrder /\ RecordingIsOfThisDuel /\ OpponentAsAnnounced
  BY NoDuelIs
     DEF PlaybackInOrder, RecordingIsOfThisDuel, OpponentAsAnnounced, Running
<1>. QED  BY <1>1, <1>2, <1>3, <1>4 DEF SessionsInv

\* What the invariant reads of the engine's duel.
SameDuel ==
    /\ eng'.state = eng.state /\ eng'.game = eng.game /\ eng'.human = eng.human
    /\ eng'.undone = eng.undone

\* A step that leaves duel, settings and playback alone as far as the invariant
\* reads them, or parts the duel from the recorded one, and at most stops the
\* recording, keeps it if the screen stays with a running duel.
LEMMA QuietStep ==
    ASSUME SessionsInv, UNCHANGED <<dm, me, root>>,
           eng' \in Duels, SameDuel,
           eng'.parted \/ (eng'.fed = eng.fed /\ eng'.parted = eng.parted),
           play' \in Playbacks, play'.mode = play.mode, play'.idx = play.idx,
           rec' \in {rec, Silent}, match' \in Matches,
           screen' \in {"lobby", "builder", "duel", "replays"},
           Running => screen' = "duel"
    PROVE  SessionsInv'
<1>. USE DEF SessionsInv, SameDuel
<1>1. TypeOK'
  BY SilentIs DEF TypeOK
<1>2. OnScreen' /\ SeatInv' /\ RecInv'
  BY SilentIs DEF OnScreen, Running, SeatInv, RecInv
<1>3. PlaybackInOrder' /\ RecordingIsOfThisDuel' /\ OpponentAsAnnounced'
  BY SilentIs
     DEF PlaybackInOrder, RecordingIsOfThisDuel, OpponentAsAnnounced, Running
<1>. QED  BY <1>1, <1>2, <1>3

\* A step that leaves no duel running keeps it, when settings and playback keep
\* their types, no playback begins, and a duel that is over keeps its seat.
LEMMA StoppedStep ==
    ASSUME SessionsInv, eng' \in Duels, eng'.state # "running", UNCHANGED root,
           dm' \in Settings, me' \in {0, 1}, play' \in Playbacks,
           play'.mode => play.mode, rec' \in {rec, Silent}, match' \in Matches,
           screen' \in {"lobby", "builder", "duel", "replays"},
           eng'.state # "none" =>
              /\ eng.state # "none" /\ eng'.game = eng.game
              /\ eng'.human = eng.human /\ eng'.undone = eng.undone
              /\ dm'.seat = dm.seat /\ me' = me
    PROVE  SessionsInv'
<1>. USE DEF SessionsInv
<1>1. TypeOK'
  BY SilentIs DEF TypeOK
<1>2. OnScreen' /\ SeatInv'
  BY DEF OnScreen, Running, SeatInv
<1>3. RecInv'
  BY SilentIs DEF RecInv
<1>4. PlaybackInOrder' /\ RecordingIsOfThisDuel' /\ OpponentAsAnnounced'
  BY DEF PlaybackInOrder, RecordingIsOfThisDuel, OpponentAsAnnounced, Running
<1>. QED  BY <1>1, <1>2, <1>3, <1>4

\* A duel that is started is the player's, with the opponent it announces and,
\* if it is recorded at all, a recording that begins with it.
LEMMA StartedStep ==
    ASSUME SessionsInv, NEW g \in Games \ {"none", "replay"}, NEW s \in {0, 1},
           eng' = Fresh(g, s), dm' \in Settings, dm'.seat = s, me' = s,
           dm'.defends <=> g \in {"gauntlet", "break"},
           g = "gauntlet" => dm'.gauntlet,
           dm'.gauntlet => g \in {"gauntlet", "break"},
           play' \in Playbacks, play'.mode => play.mode,
           rec' \in Recordings,
           rec'.on => ~play'.mode /\ g \in Live /\ rec'.len = 0,
           root' \in Roots, root'.game \in Live \cup {"none"},
           root'.game = "none" => root'.acts = <<>>,
           g \in Live => root'.game = g /\ root'.human = s /\ root'.acts = <<>>,
           match' \in Matches, screen' = "duel"
    PROVE  SessionsInv'
<1>. USE DEF SessionsInv
<1>1. TypeOK'
  BY FreshIs DEF TypeOK
<1>2. OnScreen' /\ SeatInv'
  BY FreshIs DEF OnScreen, SeatInv
<1>3. RecInv'
  BY DEF RecInv
<1>4. PlaybackInOrder' /\ RecordingIsOfThisDuel'
  BY FreshIs DEF PlaybackInOrder, RecordingIsOfThisDuel
<1>5. OpponentAsAnnounced'
  BY FreshIs DEF OpponentAsAnnounced, Settings
<1>. QED  BY <1>1, <1>2, <1>3, <1>4, <1>5

\* startOfflineDuelWithCoinToss.
LEMMA StartOfflineStep ==
    ASSUME SessionsInv, NEW g \in Live, NEW s \in Seat, NEW ok \in BOOLEAN,
           StartOffline(g, s, ok), UNCHANGED play, match' \in Matches,
           screen' = IF ok THEN "duel" ELSE screen
    PROVE  SessionsInv'
<1>. /\ dm \in Settings /\ root \in Roots /\ rec \in Recordings
     /\ play \in Playbacks
     /\ screen \in {"lobby", "builder", "duel", "replays"}
  BY DEF SessionsInv, TypeOK
<1>1. CASE ok
  <2>1. /\ dm' \in Settings /\ dm'.seat = s
        /\ dm'.defends <=> g = "gauntlet"
        /\ dm'.gauntlet <=> g = "gauntlet"
    BY <1>1, DisarmedIs DEF StartOffline, Settings, Seat
  <2>2. /\ root' \in Roots /\ root'.game = g /\ root'.human = s
        /\ root'.acts = <<>>
    BY <1>1 DEF StartOffline, Roots, Seat, Live, Games
  <2>3. rec' \in Recordings /\ (rec'.on => ~play.mode /\ rec'.len = 0)
    BY <1>1 DEF StartOffline, Recordings, SessionsInv, RecInv
  <2>4. eng' = Fresh(g, s) /\ me' = s /\ screen' = "duel"
    BY <1>1 DEF StartOffline
  <2>5. g \in Games \ {"none", "replay"} /\ s \in {0, 1} /\ g # "break"
    BY DEF Live, Games, Seat
  <2>6. /\ dm'.defends <=> g \in {"gauntlet", "break"}
        /\ g = "gauntlet" => dm'.gauntlet
        /\ dm'.gauntlet => g \in {"gauntlet", "break"}
    BY <2>1, <2>5
  <2>7. /\ rec'.on => ~play'.mode /\ g \in Live /\ rec'.len = 0
        /\ root'.game \in Live \cup {"none"}
        /\ root'.game = "none" => root'.acts = <<>>
    BY <2>2, <2>3
  <2>. QED  BY <2>1, <2>2, <2>3, <2>4, <2>5, <2>6, <2>7, StartedStep
<1>2. CASE ~ok
  <2>1. dm' \in Settings
    BY <1>2, DisarmedIs DEF StartOffline, Settings
  <2>2. /\ eng' = NoDuel /\ me' = 0 /\ UNCHANGED <<rec, root>>
        /\ screen' = screen
    BY <1>2 DEF StartOffline
  <2>. QED  BY <2>1, <2>2, StoppedStep, NoDuelIs DEF Running
<1>. QED  BY <1>1, <1>2

\* startPuzzleByIndex.
LEMMA PuzzleStep ==
    ASSUME SessionsInv, NEW k \in Puzzles, NEW ok \in BOOLEAN, PuzzleStart(k, ok)
    PROVE  SessionsInv'
<1>. DEFINE seat == IF k = "break" THEN 1 ELSE 0
<1>1. /\ rec' = Silent /\ UNCHANGED root /\ match' \in Matches
      /\ me' = seat /\ seat \in {0, 1}
      /\ play' \in Playbacks /\ ~play'.mode
      /\ screen' = IF ok THEN "duel" ELSE screen
  BY MatchOffType DEF PuzzleStart, SessionsInv, TypeOK, Playbacks
<1>2. /\ dm' \in Settings /\ dm'.seat = seat
      /\ ok => (dm'.defends <=> k = "break")
      /\ dm'.gauntlet => k = "break"
  BY DEF PuzzleStart, SessionsInv, TypeOK, Settings, Puzzles
<1>3. CASE ok
  <2>1. /\ k \in Games \ {"none", "replay"} /\ k \notin Live
        /\ k # "gauntlet" /\ eng' = Fresh(k, seat) /\ screen' = "duel"
    BY <1>1, <1>3 DEF Puzzles, Games, Live, PuzzleStart
  <2>2. /\ rec' \in Recordings /\ ~rec'.on
        /\ root' \in Roots /\ root'.game \in Live \cup {"none"}
        /\ root'.game = "none" => root'.acts = <<>>
    BY <1>1, SilentIs DEF SessionsInv, TypeOK, RecInv
  <2>3. /\ dm'.defends <=> k \in {"gauntlet", "break"}
        /\ dm'.gauntlet => k \in {"gauntlet", "break"}
    BY <1>2, <1>3, <2>1
  <2>. HIDE DEF seat
  <2>. QED  BY <1>1, <1>2, <2>1, <2>2, <2>3, StartedStep
<1>4. CASE ~ok
  <2>1. eng' = NoDuel /\ screen' = screen
    BY <1>1, <1>4 DEF PuzzleStart
  <2>2. screen' \in {"lobby", "builder", "duel", "replays"}
    BY <2>1 DEF SessionsInv, TypeOK
  <2>. HIDE DEF seat
  <2>. QED  BY <1>1, <1>2, <2>1, <2>2, StoppedStep, NoDuelIs
<1>. QED  BY <1>3, <1>4

\* startReplayPlayback.
LEMMA PlaybackStep ==
    ASSUME SessionsInv, NEW p \in Playbacks, NEW local \in BOOLEAN,
           NEW ok \in BOOLEAN, p.mode => play.mode, StartPlayback(p, local, ok)
    PROVE  SessionsInv'
<1>1. /\ rec' = Silent /\ me' = 0 /\ UNCHANGED <<match, root>>
      /\ screen' = IF ok THEN "duel" ELSE screen
      /\ eng' = IF ok THEN Fresh("replay", 0) ELSE NoDuel
  BY DEF StartPlayback, ReplaySeat
<1>2. /\ dm' \in Settings /\ dm'.seat = 0
      /\ ~dm'.defends /\ ~dm'.gauntlet /\ (ok => ~dm'.local)
  BY DisarmedIs
     DEF StartPlayback, SessionsInv, TypeOK, Settings, ReplayLocal
<1>3. CASE ok
  <2>1. play' \in Playbacks /\ play'.mode /\ play'.idx = 0
    BY <1>3 DEF StartPlayback, Playbacks
  <2>2. /\ eng' \in Duels /\ eng'.game = "replay" /\ eng'.human = 0
        /\ eng'.fed = 0 /\ eng'.undone = "no"
    BY <1>1, <1>3, FreshIs DEF Games
  <2>3. TypeOK'
    BY <1>1, <1>2, <1>3, <2>1, <2>2, SilentIs DEF SessionsInv, TypeOK
  <2>4. OnScreen' /\ SeatInv'
    BY <1>1, <1>2, <1>3, <2>2 DEF OnScreen, SeatInv, Live
  <2>5. RecInv' /\ RecordingIsOfThisDuel'
    BY <1>1, SilentIs DEF SessionsInv, RecInv, RecordingIsOfThisDuel
  <2>6. PlaybackInOrder' /\ OpponentAsAnnounced'
    BY <1>2, <1>3, <2>1, <2>2
       DEF PlaybackInOrder, OpponentAsAnnounced, Settings
  <2>. QED  BY <2>3, <2>4, <2>5, <2>6 DEF SessionsInv
<1>4. CASE ~ok
  <2>1. play' \in Playbacks /\ (play'.mode => play.mode)
    BY <1>4 DEF StartPlayback, Playbacks
  <2>2. eng' = NoDuel /\ screen' = screen
    BY <1>1, <1>4
  <2>3. /\ screen' \in {"lobby", "builder", "duel", "replays"}
        /\ match' \in Matches
    BY <1>1, <2>2 DEF SessionsInv, TypeOK
  <2>. QED  BY <1>1, <1>2, <2>1, <2>2, <2>3, StoppedStep, NoDuelIs
<1>. QED  BY <1>3, <1>4

\* An answer that is recorded keeps engine, recording and timeline in step, and the
\* playback that feeds it.
LEMMA RecordedStep ==
    ASSUME SessionsInv, Running, NEW player \in {0, 1}, NEW again \in BOOLEAN,
           Recorded(player, again), UNCHANGED <<screen, dm, me, match>>,
           eng' \in Duels, SameDuel, eng'.fed = eng.fed + 1,
           eng'.parted = eng.parted,
           play' \in Playbacks, play'.mode = play.mode,
           eng.game = "replay" => play'.idx = play.idx + 1
    PROVE  SessionsInv'
<1>. USE DEF SessionsInv
<1>0. /\ eng \in Duels /\ rec \in Recordings /\ root \in Roots
  BY DEF TypeOK
<1>1. /\ rec' \in Recordings /\ rec'.on = rec.on
      /\ rec'.len = IF rec.on THEN rec.len + 1 ELSE rec.len
  BY <1>0 DEF Recorded, Recordings
<1>2. CASE rec.on
  <2>. DEFINE act == [player |-> player, again |-> again]
  <2>0. act \in Acts
    BY DEF Acts
  <2>1. root.game \in Live /\ root # NoRoot
    BY <1>2 DEF RecInv, NoRoot, Live
  <2>2. root' = [root EXCEPT !.acts = Append(root.acts, act)]
    BY <1>2, <2>1 DEF Recorded
  <2>. HIDE DEF act
  <2>3. /\ root.acts \in Seq(Acts)
        /\ Append(root.acts, act) \in Seq(Acts)
        /\ Len(Append(root.acts, act)) = Len(root.acts) + 1
    BY <1>0, <2>0 DEF Roots
  <2>4. /\ root' \in Roots /\ root'.game = root.game
        /\ root'.human = root.human /\ Len(root'.acts) = Len(root.acts) + 1
    BY <1>0, <2>2, <2>3 DEF Roots
  <2>5. RecInv'
    BY <1>1, <1>2, <2>1, <2>4 DEF RecInv, Live
  <2>6. TypeOK' /\ OnScreen' /\ SeatInv'
    BY <1>1, <2>4 DEF TypeOK, OnScreen, SeatInv, Running, SameDuel
  <2>7. PlaybackInOrder' /\ RecordingIsOfThisDuel' /\ OpponentAsAnnounced'
    BY <1>1, <1>2
       DEF PlaybackInOrder, RecordingIsOfThisDuel, OpponentAsAnnounced, Running,
           SameDuel
  <2>. QED  BY <2>5, <2>6, <2>7
<1>3. CASE ~rec.on
  <2>1. UNCHANGED root
    BY <1>3 DEF Recorded
  <2>2. RecInv' /\ RecordingIsOfThisDuel'
    BY <1>1, <1>3, <2>1 DEF RecInv, RecordingIsOfThisDuel
  <2>3. TypeOK' /\ OnScreen' /\ SeatInv'
    BY <1>1, <2>1 DEF TypeOK, OnScreen, SeatInv, Running, SameDuel
  <2>4. PlaybackInOrder' /\ OpponentAsAnnounced'
    BY DEF PlaybackInOrder, OpponentAsAnnounced, Running, SameDuel
  <2>. QED  BY <2>2, <2>3, <2>4
<1>. QED  BY <1>2, <1>3

\* DuelManager::respond.
LEMMA RespondStep ==
    ASSUME SessionsInv, Running, Respond, UNCHANGED <<screen, dm, me, match>>,
           play' \in Playbacks, play'.mode = play.mode,
           eng.game = "replay" => play'.idx = play.idx + 1
    PROVE  SessionsInv'
<1>0. eng \in Duels /\ dm.seat \in {0, 1}
  BY DEF SessionsInv, TypeOK, Settings
<1>1. /\ eng' \in Duels /\ SameDuel /\ eng'.fed = eng.fed + 1
      /\ eng'.parted = eng.parted
  <2>1. [eng EXCEPT !.fed = eng.fed + 1] \in Duels
    BY <1>0 DEF Duels
  <2>. QED  BY <1>0, <2>1 DEF Respond, Duels, SameDuel
<1>2. Asked \in {0, 1}
  BY <1>0 DEF Asked, Opponent
<1>3. PICK again \in BOOLEAN : Recorded(Asked, again)
  BY DEF Respond
<1>. QED  BY <1>1, <1>2, <1>3, RecordedStep

\* A request that a message handler answers: recorded like any other, or beside
\* the recorded ones.
LEMMA HandlerStep == ASSUME SessionsInv, HandlerAnswers PROVE SessionsInv'
<1>0. /\ eng \in Duels /\ play \in Playbacks /\ match \in Matches /\ Running
      /\ screen \in {"lobby", "builder", "duel", "replays"}
      /\ UNCHANGED <<screen, dm, me, play, match>>
  BY DEF SessionsInv, TypeOK, HandlerAnswers
<1>1. [eng EXCEPT !.fed = eng.fed + 1] \in Duels
  BY <1>0 DEF Duels
<1>2. CASE eng.game = "replay"
  <2>1. /\ eng' = [eng EXCEPT !.fed = eng.fed + 1, !.parted = TRUE]
        /\ UNCHANGED <<rec, root>>
    BY <1>2 DEF HandlerAnswers
  <2>2. eng' \in Duels /\ SameDuel /\ eng'.parted
    BY <1>0, <1>1, <2>1 DEF Duels, SameDuel
  <2>. QED  BY <1>0, <2>1, <2>2, QuietStep DEF SessionsInv, OnScreen
<1>3. CASE eng.game # "replay"
  <2>1. eng' = [eng EXCEPT !.fed = eng.fed + 1] /\ Recorded(0, TRUE)
    BY <1>3 DEF HandlerAnswers
  <2>2. /\ eng' \in Duels /\ SameDuel /\ eng'.fed = eng.fed + 1
        /\ eng'.parted = eng.parted
    BY <1>0, <1>1, <2>1 DEF Duels, SameDuel
  <2>. QED  BY <1>0, <1>3, <2>1, <2>2, RecordedStep
<1>. QED  BY <1>2, <1>3

\* A game that is over is counted at most once, in counters that stay numbers.
LEMMA ScoredType ==
    ASSUME match \in Matches, NEW w
    PROVE  Scored(w) \in Matches
<1>1. ASSUME NEW a \in {0, 1}, NEW b \in {0, 1}
      PROVE  [match EXCEPT !.scored = TRUE, !.won = match.won + a,
                           !.lost = match.lost + b] \in Matches
  <2>1. match.won + a \in Nat /\ match.lost + b \in Nat
    BY DEF Matches
  <2>. QED  BY <2>1 DEF Matches
<1>. DEFINE a == IF w = me THEN 1 ELSE 0
            b == IF w = Opponent(me) THEN 1 ELSE 0
<1>2. Counted(w) = [match EXCEPT !.scored = TRUE, !.won = match.won + a,
                                 !.lost = match.lost + b]
  BY DEF Counted, Matches
<1>3. a \in {0, 1} /\ b \in {0, 1}
  OBVIOUS
<1>. QED  BY <1>1, <1>2, <1>3 DEF Scored

\* The end-of-duel edge and the panel of that frame.
LEMMA OverStep ==
    ASSUME SessionsInv, Running, NEW w \in Seat \cup {Draw}, Over(w)
    PROVE  SessionsInv'
<1>1. eng \in Duels /\ match \in Matches
  BY DEF SessionsInv, TypeOK
<1>2. Logged(w) \in {"no", "W", "L", "D"}
  BY DEF Logged
<1>3. /\ eng' \in Duels /\ eng'.state = "done" /\ eng'.game = eng.game
      /\ eng'.human = eng.human /\ eng'.undone = eng.undone
  BY <1>1, <1>2 DEF Over, Duels, Seat, Draw
<1>4. /\ rec' = Silent /\ match' \in Matches
      /\ UNCHANGED <<screen, dm, me, play, root>>
  BY <1>1, ScoredType DEF Over
<1>5. /\ dm' \in Settings /\ me' \in {0, 1} /\ play' \in Playbacks
      /\ screen' \in {"lobby", "builder", "duel", "replays"}
  BY <1>4 DEF SessionsInv, TypeOK
<1>. QED  BY <1>3, <1>4, <1>5, StoppedStep DEF Running

\* A set of numbers has a least one.
LEMMA SmallestNat ==
    ASSUME NEW T \in SUBSET Nat, T # {}
    PROVE  \E x \in T : \A y \in T : x <= y
<1>1. PICK x \in T : \A y \in T : ~(<<y, x>> \in OpToRel(<, Nat))
  BY NatLessThanWellFounded, WFMin
<1>2. \A y \in T : ~(y < x)
  BY <1>1 DEF OpToRel
<1>. QED  BY <1>2

\* A set of positions has a last one.
LEMMA LastPosition ==
    ASSUME NEW n \in Nat, NEW S \in SUBSET (0..n), S # {}
    PROVE  \E x \in S : \A y \in S : y <= x
<1>. DEFINE T == {m \in Nat : n - m \in S}
<1>1. PICK i \in S : TRUE
  OBVIOUS
<1>2. i \in 0..n /\ n - i \in Nat /\ n - (n - i) = i
  OBVIOUS
<1>3. T \in SUBSET Nat /\ n - i \in T
  BY <1>1, <1>2
<1>4. PICK m \in T : \A k \in T : m <= k
  BY <1>3, SmallestNat
<1>5. n - m \in S /\ m \in Nat
  BY <1>4
<1>6. ASSUME NEW y \in S PROVE y <= n - m
  <2>1. y \in 0..n /\ n - y \in Nat /\ n - (n - y) = y
    OBVIOUS
  <2>2. n - y \in T
    BY <2>1
  <2>3. m <= n - y
    BY <1>4, <2>2
  <2>. HIDE DEF T
  <2>. QED  BY <1>5, <2>1, <2>3
<1>. QED  BY <1>5, <1>6

\* The player's last answer is an answer of the timeline.
LEMMA LastAnswer ==
    ASSUME root \in Roots, HumanActs # {},
           NEW last, last = CHOOSE i \in HumanActs : \A j \in HumanActs : j <= i
    PROVE  last \in 1..Len(root.acts)
<1>1. /\ root.acts \in Seq(Acts) /\ Len(root.acts) \in Nat
      /\ HumanActs \subseteq 1..Len(root.acts)
  BY DEF HumanActs, Roots
<1>2. HumanActs \in SUBSET (0..Len(root.acts))
  BY <1>1
<1>3. \E i \in HumanActs : \A j \in HumanActs : j <= i
  BY <1>1, <1>2, LastPosition
<1>4. last \in HumanActs
  BY <1>3
<1>. QED  BY <1>1, <1>4

\* testingUndoHuman: recording, timeline and the rebuilt duel are cut to the same
\* length, and the rebuilt duel is the one on the screen or marked as another.
LEMMA UndoStep ==
    ASSUME SessionsInv, NEW ok \in BOOLEAN, Undo(ok)
    PROVE  SessionsInv'
<1>. DEFINE last == CHOOSE i \in HumanActs : \A j \in HumanActs : j <= i
            target == last - 1
            parts  == GivenAgain(last)
            undone == CASE eng.state = "none" -> "revived"
                       [] eng.undone \in {"revived", "other"} -> eng.undone
                       [] OTHER -> IF eng.game = root.game THEN "same" ELSE "other"
<1>0. /\ eng \in Duels /\ dm \in Settings /\ me \in {0, 1}
      /\ play \in Playbacks /\ match \in Matches /\ rec \in Recordings
      /\ root \in Roots
  BY DEF SessionsInv, TypeOK
<1>1. /\ screen = "duel" /\ ~play.mode /\ HumanActs # {}
      /\ dm' = Disarmed /\ UNCHANGED <<screen, me, play, puzzle, match>>
      /\ root' = [root EXCEPT !.acts = SubSeq(root.acts, 1, target)]
      /\ rec' = Truncated(target)
  BY DEF Undo
<1>eng. PICK a \in {"no", "human", "opponent"} :
         eng' = IF ok
                THEN [Fresh(root.game, root.human) EXCEPT
                        !.fed = IF parts THEN last ELSE target,
                        !.await = a, !.parted = parts, !.undone = undone]
                ELSE NoDuel
  BY DEF Undo
<1>parts. parts \in BOOLEAN
  BY DEF GivenAgain
<1>2. last \in 1..Len(root.acts) /\ root.acts \in Seq(Acts)
  BY <1>0, <1>1, LastAnswer DEF Roots
<1>3. target \in Nat /\ target < Len(root.acts) /\ target <= Len(root.acts)
  BY <1>2
<1>4. /\ undone \in {"same", "other", "revived"}
      /\ undone = "same" =>
            /\ eng.state # "none" /\ eng.undone \in {"no", "same"}
            /\ eng.game = root.game
  BY <1>0 DEF Duels
<1>last. last \in Nat
  BY <1>2
<1>. HIDE DEF target, last, undone, parts
<1>5. /\ root' \in Roots /\ root'.game = root.game /\ root'.human = root.human
      /\ Len(root'.acts) = target
  <2>1. /\ SubSeq(root.acts, 1, target) \in Seq(Acts)
        /\ Len(SubSeq(root.acts, 1, target)) = target
    BY <1>2, <1>3
  <2>. QED  BY <1>0, <1>1, <2>1 DEF Roots
<1>6. root.game \in Live
  <2>1. root.acts # <<>>
    BY <1>2, EmptySeq
  <2>. QED  BY <2>1 DEF SessionsInv, RecInv
<1>7. /\ rec' \in Recordings /\ rec'.on = rec.on
      /\ rec.on => rec'.len = target
  BY <1>0, <1>1, <1>3 DEF Truncated, Recordings, SessionsInv, RecInv
<1>8. RecInv'
  BY <1>1, <1>5, <1>6, <1>7 DEF RecInv, Live
<1>9. /\ dm' \in Settings /\ dm'.seat = dm.seat
  BY <1>0, <1>1, DisarmedIs
<1>10. CASE ok
  <2>1. /\ root.game \in Games /\ root.human \in {0, 1}
    BY <1>0 DEF Roots
  <2>2. /\ eng' \in Duels /\ eng'.game = root.game /\ eng'.human = root.human
        /\ ~eng'.parted => eng'.fed = target
        /\ eng'.undone = undone /\ eng'.state = "running"
    <3>. DEFINE f == Fresh(root.game, root.human)
    <3>1. /\ f \in Duels /\ f.game = root.game /\ f.human = root.human
          /\ f.state = "running"
      BY <2>1, FreshIs
    <3>. DEFINE n == IF parts THEN last ELSE target
    <3>2. eng' = [f EXCEPT !.fed = n, !.await = a, !.parted = parts,
                           !.undone = undone]
      BY <1>10, <1>eng
    <3>3. n \in Nat /\ (~parts => n = target)
      BY <1>3, <1>last
    <3>. HIDE DEF f, n
    <3>. QED  BY <1>4, <1>eng, <1>parts, <3>1, <3>2, <3>3 DEF Duels
  <2>3. TypeOK' /\ OnScreen'
    BY <1>0, <1>1, <1>5, <1>7, <1>9, <2>2 DEF TypeOK, OnScreen
  <2>4. SeatInv'
    BY <1>1, <1>4, <1>5, <1>6, <1>9, <2>2 DEF SessionsInv, SeatInv
  <2>5. PlaybackInOrder' /\ RecordingIsOfThisDuel' /\ OpponentAsAnnounced'
    BY <1>4, <1>6, <1>7, <2>2
       DEF PlaybackInOrder, RecordingIsOfThisDuel, OpponentAsAnnounced, Live
  <2>. QED  BY <1>8, <2>3, <2>4, <2>5 DEF SessionsInv
<1>11. CASE ~ok
  <2>1. eng' \in Duels /\ eng'.state = "none"
    BY <1>11, <1>eng, NoDuelIs
  <2>2. TypeOK' /\ OnScreen' /\ SeatInv'
    BY <1>0, <1>1, <1>5, <1>7, <1>9, <2>1 DEF TypeOK, OnScreen, SeatInv, Running
  <2>3. PlaybackInOrder' /\ RecordingIsOfThisDuel' /\ OpponentAsAnnounced'
    BY <2>1
       DEF PlaybackInOrder, RecordingIsOfThisDuel, OpponentAsAnnounced, Running
  <2>. QED  BY <1>8, <2>2, <2>3 DEF SessionsInv
<1>. QED  BY <1>10, <1>11

-----------------------------------------------------------------------------
(* Every step keeps the invariant: the actions, by where they are found.   *)

\* The duel's own steps and the answers.
LEMMA DuelStep ==
    ASSUME SessionsInv,
           EngineWins \/ EngineAsks \/ HandlerAnswers \/ Answer \/ Surrender
    PROVE  SessionsInv'
<1>. /\ eng \in Duels /\ play \in Playbacks /\ match \in Matches /\ me \in {0, 1}
     /\ screen \in {"lobby", "builder", "duel", "replays"}
  BY DEF SessionsInv, TypeOK
<1>1. CASE EngineWins
  BY <1>1, OverStep DEF EngineWins
<1>2. CASE EngineAsks
  <2>1. /\ eng' \in Duels /\ SameDuel /\ eng'.fed = eng.fed
        /\ eng'.parted = eng.parted
        /\ UNCHANGED <<screen, dm, me, play, match, rec, root>>
    BY <1>2 DEF EngineAsks, Duels, SameDuel
  <2>. QED  BY <2>1, QuietStep DEF SessionsInv, OnScreen
<1>3. CASE Answer
  <2>1. eng.game # "replay"
    BY <1>3 DEF Answer, SessionsInv, PlaybackInOrder
  <2>2. Running /\ Respond /\ UNCHANGED <<screen, dm, me, play, match>>
    BY <1>3 DEF Answer
  <2>. QED  BY <2>1, <2>2, RespondStep
<1>4. CASE Surrender
  <2>1. Opponent(me) \in Seat \cup {Draw}
    BY DEF Opponent, Seat
  <2>. QED  BY <1>4, <2>1, OverStep DEF Surrender
<1>. QED  BY <1>1, <1>2, <1>3, <1>4, HandlerStep

\* The buttons that start a live duel.
LEMMA StartStep ==
    ASSUME SessionsInv,
           \/ \E g \in {"practice", "gauntlet"}, s \in Seat, ok \in BOOLEAN :
                 SetupDuel(g, s, ok)
           \/ \E s \in Seat, ok \in BOOLEAN :
                 SetupMatch(s, ok) \/ Again(s, ok) \/ NextGame(s, ok)
           \/ \E ok \in BOOLEAN : Goldfish(ok)
    PROVE  SessionsInv'
<1>0. match \in Matches /\ MatchOff \in Matches
  BY MatchOffType DEF SessionsInv, TypeOK
<1>1. ASSUME NEW m \in Matches, NEW s \in Seat, NEW ok \in BOOLEAN,
             MatchGame(m, s, ok)
      PROVE  SessionsInv'
  <2>1. match' \in Matches
    BY <1>0, <1>1 DEF MatchGame, Matches
  <2>. QED  BY <1>1, <2>1, StartOfflineStep DEF MatchGame, Live
<1>2. ASSUME NEW g \in {"practice", "gauntlet"}, NEW s \in Seat,
             NEW ok \in BOOLEAN, SetupDuel(g, s, ok)
      PROVE  SessionsInv'
  BY <1>0, <1>2, StartOfflineStep DEF SetupDuel, Live
<1>3. ASSUME NEW s \in Seat, NEW ok \in BOOLEAN, SetupMatch(s, ok)
      PROVE  SessionsInv'
  <2>1. [NoMatch EXCEPT !.active = TRUE] \in Matches
    BY DEF NoMatch, Matches
  <2>. QED  BY <1>1, <1>3, <2>1 DEF SetupMatch
<1>4. ASSUME NEW s \in Seat, NEW ok \in BOOLEAN, Again(s, ok)
      PROVE  SessionsInv'
  <2>1. screen' = IF ok THEN "duel" ELSE screen
    BY <1>4 DEF Again
  <2>. QED  BY <1>0, <1>4, <2>1, StartOfflineStep DEF Again, Live
<1>5. ASSUME NEW s \in Seat, NEW ok \in BOOLEAN, NextGame(s, ok)
      PROVE  SessionsInv'
  <2>. DEFINE m == [match EXCEPT !.no = @ + 1, !.siding = @ /\ screen = "duel"]
  <2>1. [match EXCEPT !.no = match.no + 1] \in Matches
    BY <1>0 DEF Matches
  <2>2. m \in Matches
    BY <1>0, <2>1 DEF Matches
  <2>. HIDE DEF m
  <2>. QED  BY <1>1, <1>5, <2>2 DEF NextGame, m
<1>6. ASSUME NEW ok \in BOOLEAN, Goldfish(ok) PROVE SessionsInv'
  BY <1>0, <1>6, StartOfflineStep DEF Goldfish, Live, Seat
<1>. QED  BY <1>2, <1>3, <1>4, <1>5, <1>6

\* The buttons that move between the screens and leave duel and seat alone.
LEMMA ScreenStep ==
    ASSUME SessionsInv,
           \/ OpenBuilder \/ LeaveBuilder \/ PanelLobby \/ MatchEnds \/ SideDeck
           \/ OpenReplays \/ LeaveReplays \/ TryAgain \/ SeekEnds
    PROVE  SessionsInv'
<1>0. /\ eng \in Duels /\ play \in Playbacks /\ match \in Matches
      /\ MatchOff \in Matches
      /\ screen \in {"lobby", "builder", "duel", "replays"}
      /\ Running => screen = "duel"
  BY MatchOffType DEF SessionsInv, TypeOK, OnScreen
<1>1. SameDuel /\ eng' = eng /\ UNCHANGED <<dm, me, rec, root>>
  BY DEF OpenBuilder, LeaveBuilder, PanelLobby, MatchEnds, SideDeck, OpenReplays,
         LeaveReplays, TryAgain, SeekEnds, SameDuel
<1>2. /\ play' \in Playbacks /\ play'.mode = play.mode /\ play'.idx = play.idx
  <2>1. NoSeek \in Nat
    BY SessionsAssumption DEF NoSeek
  <2>2. CASE UNCHANGED play
    BY <1>0, <2>2
  <2>3. CASE TryAgain
    BY <1>0, <2>3 DEF TryAgain, Playbacks
  <2>4. CASE SeekEnds
    BY <1>0, <2>1, <2>4 DEF SeekEnds, Playbacks
  <2>. QED  BY <2>2, <2>3, <2>4
            DEF OpenBuilder, LeaveBuilder, PanelLobby, MatchEnds, SideDeck,
                OpenReplays, LeaveReplays
<1>3. match' \in Matches
  <2>1. [match EXCEPT !.siding = TRUE] \in Matches
    BY <1>0 DEF Matches
  <2>. QED  BY <1>0, <2>1
            DEF OpenBuilder, LeaveBuilder, PanelLobby, MatchEnds, SideDeck,
                OpenReplays, LeaveReplays, TryAgain, SeekEnds
<1>4. /\ screen' \in {"lobby", "builder", "duel", "replays"}
      /\ Running => screen' = "duel"
  BY <1>0 DEF OpenBuilder, LeaveBuilder, PanelLobby, MatchEnds, SideDeck,
              OpenReplays, LeaveReplays, TryAgain, SeekEnds, Panel, Done, Running
<1>. QED  BY <1>0, <1>1, <1>2, <1>3, <1>4, QuietStep

\* The ways out of a duel, a puzzle or a replay, and a puzzle without a deck.
LEMMA LeaveStep ==
    ASSUME SessionsInv,
           HeaderLobby \/ PauseQuit \/ QuitPuzzle \/ ExitReplay \/ PuzzleNoDeck
    PROVE  SessionsInv'
<1>0. /\ eng \in Duels /\ play \in Playbacks /\ match \in Matches
      /\ MatchOff \in Matches /\ dm \in Settings /\ me \in {0, 1}
      /\ screen \in {"lobby", "builder", "duel", "replays"}
      /\ Running => screen = "duel"
  BY MatchOffType DEF SessionsInv, TypeOK, OnScreen
<1>1. eng' \in {eng, NoDuel} /\ eng'.state # "running"
  BY <1>0, NoDuelIs
     DEF HeaderLobby, PauseQuit, QuitPuzzle, ExitReplay, PuzzleNoDeck, Stopped,
         Running
<1>2. UNCHANGED <<me, root>> /\ rec' \in {rec, Silent} /\ match' \in Matches
  BY <1>0 DEF HeaderLobby, PauseQuit, QuitPuzzle, ExitReplay, PuzzleNoDeck
<1>3. dm' \in Settings /\ dm'.seat = dm.seat
  <2>1. CASE ExitReplay
    BY <1>0, <2>1 DEF ExitReplay, Settings, Playbacks
  <2>2. CASE PuzzleNoDeck
    BY <1>0, <2>2 DEF PuzzleNoDeck, Settings
  <2>. QED  BY <1>0, <2>1, <2>2 DEF HeaderLobby, PauseQuit, QuitPuzzle
<1>4. play' \in Playbacks /\ (play'.mode => play.mode)
  <2>1. CASE ExitReplay
    BY <1>0, <2>1 DEF ExitReplay, StoppedPlay, Playbacks
  <2>2. CASE PuzzleNoDeck
    BY <1>0, <2>2 DEF PuzzleNoDeck, Playbacks
  <2>. QED  BY <1>0, <2>1, <2>2 DEF HeaderLobby, PauseQuit, QuitPuzzle
<1>5. screen' \in {"lobby", "builder", "duel", "replays"}
  BY <1>0 DEF HeaderLobby, PauseQuit, QuitPuzzle, ExitReplay, PuzzleNoDeck
<1>6. eng' \in Duels /\ (eng'.state # "none" => eng' = eng)
  BY <1>0, <1>1, NoDuelIs
<1>. QED  BY <1>0, <1>1, <1>2, <1>3, <1>4, <1>5, <1>6, StoppedStep

\* Playing a replay: starts, restarts, seeks, and what the ticks feed.
LEMMA ReplayStep ==
    ASSUME SessionsInv,
           \/ \E ok \in BOOLEAN : PlayReplay(ok) \/ RestartReplay(ok)
           \/ \E t \in 0..ReplayLength, ok \in BOOLEAN : Seek(t, ok)
           \/ Feed
    PROVE  SessionsInv'
<1>0. /\ eng \in Duels /\ play \in Playbacks /\ dm \in Settings
      /\ dm.local \in BOOLEAN /\ play.prevLocal \in BOOLEAN
  BY DEF SessionsInv, TypeOK, Settings, Playbacks
<1>1. StoppedPlay \in Playbacks /\ ~StoppedPlay.mode
  BY <1>0 DEF StoppedPlay, Playbacks
<1>2. ASSUME NEW ok \in BOOLEAN, PlayReplay(ok) PROVE SessionsInv'
  BY <1>0, <1>2, PlaybackStep DEF PlayReplay
<1>3. ASSUME NEW ok \in BOOLEAN, RestartReplay(ok) PROVE SessionsInv'
  BY <1>0, <1>1, <1>3, PlaybackStep DEF RestartReplay
<1>4. ASSUME NEW t \in 0..ReplayLength, NEW ok \in BOOLEAN, Seek(t, ok)
      PROVE  SessionsInv'
  <2>. DEFINE p == [StoppedPlay EXCEPT !.seek = t]
  <2>1. p \in Playbacks /\ ~p.mode
    BY <1>1 DEF Playbacks
  <2>2. StartPlayback(p, play.prevLocal, ok)
    BY <1>4 DEF Seek
  <2>. HIDE DEF p
  <2>. QED  BY <1>0, <2>1, <2>2, PlaybackStep
<1>5. CASE Feed
  <2>0. Running /\ UNCHANGED <<screen, dm, me, match>>
    BY <1>5 DEF Feed
  <2>1. CASE play.idx >= ReplayLength
    <3>1. /\ play' = [play EXCEPT !.desync = TRUE]
          /\ UNCHANGED <<eng, rec, root>>
      BY <1>5, <2>1 DEF Feed
    <3>2. play' \in Playbacks /\ play'.mode = play.mode /\ play'.idx = play.idx
      BY <1>0, <3>1 DEF Playbacks
    <3>. QED  BY <1>0, <2>0, <3>1, <3>2, QuietStep
              DEF SameDuel, SessionsInv, TypeOK, OnScreen
  <2>2. CASE ~(play.idx >= ReplayLength)
    <3>1. play' = [play EXCEPT !.idx = play.idx + 1] /\ Respond
      BY <1>5, <2>2 DEF Feed
    <3>2. /\ play' \in Playbacks /\ play'.mode = play.mode
          /\ play'.idx = play.idx + 1
      BY <1>0, <3>1 DEF Playbacks
    <3>. QED  BY <2>0, <3>1, <3>2, RespondStep
  <2>. QED  BY <2>1, <2>2
<1>. QED  BY <1>2, <1>3, <1>4, <1>5

\* A step of the program, or none, keeps the invariant.
LEMMA SessionsNext == SessionsInv /\ [Next]_vars => SessionsInv'
<1>. SUFFICES ASSUME SessionsInv, [Next]_vars PROVE SessionsInv'
  OBVIOUS
<1>1. ASSUME NEW k \in Puzzles, NEW ok \in BOOLEAN,
             PickPuzzle(k, ok) \/ RestartPuzzle(k, ok)
      PROVE  SessionsInv'
  BY <1>1, PuzzleStep DEF PickPuzzle, RestartPuzzle
<1>2. ASSUME NEW ok \in BOOLEAN, Undo(ok) PROVE SessionsInv'
  BY <1>2, UndoStep
<1>3. CASE UNCHANGED vars
  BY <1>3 DEF vars, SessionsInv, TypeOK, OnScreen, Running, SeatInv, RecInv,
              PlaybackInOrder, RecordingIsOfThisDuel, OpponentAsAnnounced
<1>. QED  BY <1>1, <1>2, <1>3, DuelStep, StartStep, ScreenStep, LeaveStep,
             ReplayStep DEF Next

-----------------------------------------------------------------------------
(* What holds of every run, for any number of answers, recorded responses  *)
(* and games.                                                              *)

\* The inductive invariant holds in every reachable state.
THEOREM SessionsInvariant == Spec => []SessionsInv
BY SessionsInit, SessionsNext, PTL DEF Spec

\* The prompts, the screen and the score belong to the seat of the player's deck
\* (UI::startOfflineDuelWithCoinToss, startPuzzle, startReplayPlayback).
THEOREM SeatSafe == Spec => []SeatMatchesDuel
<1>1. SessionsInv => SeatMatchesDuel
  BY DEF SessionsInv, SeatInv, SeatMatchesDuel, Running
<1>. QED  BY <1>1, SessionsInvariant, PTL

\* A playback has fed exactly the first m_replayIdx recorded responses, as long as
\* no message handler has answered beside them (UI::feedReplayTick,
\* seekReplayTo, stopReplayPlayback).
THEOREM PlaybackSafe == Spec => []PlaybackInOrder
<1>1. SessionsInv => PlaybackInOrder
  BY DEF SessionsInv
<1>. QED  BY <1>1, SessionsInvariant, PTL

\* A recording that is on holds the responses of the duel that runs, unless an undo
\* went back past an answer that a message handler gives again
\* (UI::beginReplayRecording, finalizeReplay, testingUndoHuman).
THEOREM RecordingSafe == Spec => []RecordingIsOfThisDuel
<1>1. SessionsInv => RecordingIsOfThisDuel
  BY DEF SessionsInv
<1>. QED  BY <1>1, SessionsInvariant, PTL

\* The opponent defends in a gauntlet and a board break, and in no other duel
\* (DuelManager::startDuel, UI::startBoardBreak).
THEOREM OpponentSafe == Spec => []OpponentAsAnnounced
<1>1. SessionsInv => OpponentAsAnnounced
  BY DEF SessionsInv
<1>. QED  BY <1>1, SessionsInvariant, PTL
=============================================================================
