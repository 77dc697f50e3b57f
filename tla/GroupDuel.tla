------------------------------ MODULE GroupDuel ------------------------------
(***************************************************************************)
(* The shared campaign ("Master Saga") of two machines, src/src/UI.cpp      *)
(* and src/src/ArcadeSave.h: a member invites the other to a relay room,   *)
(* the campaign and its leaderboard travel in ArcadeSync messages, and the *)
(* duel scores itself on both machines: by the GameOver, by the player who *)
(* leaves, or by the one left behind.  Each machine owns its save file.    *)
(*                                                                         *)
(* Points are counted in wins (the code adds 5 a win).  The duel itself is *)
(* HostAuth's: here it is an engine on the host that may end at any time.  *)
(*                                                                         *)
(* Definitions named Faulty... are not used: each is a plausible bug in     *)
(* the definition below it, which a property must catch.                   *)
(***************************************************************************)
EXTENDS Integers, Sequences, FiniteSets, FiniteSetsExt, SequencesExt

CONSTANTS
    Member,         \* the two players, each with a machine and a name
    MaxCycles,      \* bound: duels started, results recorded by hand, spins claimed
    MaxFaults       \* bound: broken links, killed programs, deleted saves, guests
                    \* who come back to a host that is still busy with the last one

ASSUME MemberAssumption ==
    /\ \E a, b \in Member : a # b /\ Member = {a, b}
    /\ "none" \notin Member
ASSUME BoundsAssumption ==
    MaxCycles \in Nat /\ MaxFaults \in Nat

Peer(m) == CHOOSE n \in Member : n # m

VARIABLES
    save,       \* the save file of each machine
    app,        \* the program on each machine
    net,        \* net[m]: frames on their way to m
    eng,        \* the engine on each machine; only a host's runs
    room,       \* the room at the relay
    cycles, faults,   \* ghosts, for the bounds
    earned,     \* ghost: wins recorded by each member
    scored      \* ghost: what each machine recorded as a guest of the duel, in this
                \* stay in the room
vars == <<save, app, net, eng, room, cycles, faults, earned, scored>>

-----------------------------------------------------------------------------
(* ArcadeSave: what the two machines share of it.                           *)

NotMember == -1
NewSave == [exists |-> TRUE, board |-> [m \in Member |-> NotMember], spins |-> 0]
NoSave == [NewSave EXCEPT !.exists = FALSE]

\* board[name] += k: a name that is not there starts at 0.
Add(board, m, k) == [board EXCEPT ![m] = Max({@, 0}) + k]
FaultyMergeBoard(mine, theirs) ==
    [m \in Member |-> IF theirs[m] > 0 THEN Max({mine[m], 0}) + theirs[m] ELSE mine[m]]
MergeBoard(mine, theirs) == [m \in Member |-> Max({mine[m], theirs[m]})]

(* UI: the campaign in memory and the flags around the duel.                *)
AppInit == [loaded |-> FALSE, arcade |-> NoSave, group |-> FALSE, auto |-> FALSE,
            inDuel |-> FALSE, remoteDone |-> FALSE, ready |-> FALSE,
            role |-> "offline", link |-> "none"]

NoEngine == [st |-> "none", winner |-> "none"]
NoRoom == [host |-> "none", full |-> FALSE]

Save(m, a) == [save EXCEPT ![m] = a]
Send(nt, m, msgs) == [nt EXCEPT ![m] = @ \o msgs]
Linked(m) == app[m].link = "up"
\* The relay forwards what m sends only while both sit in the room.
Heard(m) == Linked(m) /\ room.full

\* sendArcadeSync puts the sender on its own board, in memory only.
OnBoard(m, a) == [a EXCEPT !.board = Add(@, m, 0)]
SyncOf(a) == [t |-> "sync", board |-> a.board]

\* arcadeRecordResult: points, a spin, and the file.
RecordResult(m, a, outcome) ==
    [a EXCEPT !.board = Add(@, m, IF outcome = "win" THEN 1 ELSE 0),
              !.spins = @ + 1]

\* arcadeAutoRecord.  It asks for a campaign, not whether this duel was scored.
Scores(s) == s.group /\ s.loaded
AutoRecord(m, s, outcome) ==
    IF Scores(s)
    THEN [s EXCEPT !.arcade = OnBoard(m, RecordResult(m, @, outcome)),
                   !.auto = TRUE]
    ELSE s
Earn(m, s, outcome) ==
    /\ earned' = IF Scores(s) /\ outcome = "win"
                 THEN [earned EXCEPT ![m] = @ + 1] ELSE earned
    /\ scored' = IF Scores(s) /\ s.role = "client"
                 THEN [scored EXCEPT ![m] = Append(@, outcome)] ELSE scored

\* arcadeDuelUndecided: the host asks its engine, the guest its latch.
Undecided(m, s) == IF s.role = "host" THEN eng[m].st # "done" ELSE ~s.remoteDone

\* arcadeQuitGroupDuel and arcadePeerQuitGroupDuel share their guards.
OpenDuel(m, s) == s.group /\ s.loaded /\ s.inDuel /\ ~s.auto /\ Undecided(m, s)

-----------------------------------------------------------------------------
(* The Arcade screen, when no room is open.                                 *)

AtArcade(m) == ~app[m].inDuel /\ app[m].role = "offline"

\* Create, or Load from the list of saves.
OpenCampaign(m) ==
    /\ AtArcade(m) /\ ~app[m].loaded
    /\ LET a == IF save[m].exists THEN save[m]
                ELSE [NewSave EXCEPT !.board = Add(@, m, 0)]
       IN /\ app' = [app EXCEPT ![m] = [@ EXCEPT !.loaded = TRUE, !.arcade = a,
                                                 !.auto = FALSE]]
          /\ save' = Save(m, a)
    /\ UNCHANGED <<net, eng, room, cycles, faults, earned, scored>>

CloseCampaign(m) ==
    /\ AtArcade(m) /\ app[m].loaded
    /\ save' = Save(m, app[m].arcade)
    /\ app' = [app EXCEPT ![m].loaded = FALSE]
    /\ UNCHANGED <<net, eng, room, cycles, faults, earned, scored>>

\* The list of saves is only shown while no campaign is loaded.
DeleteCampaign(m) ==
    /\ AtArcade(m) /\ ~app[m].loaded /\ save[m].exists /\ faults < MaxFaults
    /\ save' = Save(m, NoSave)
    /\ faults' = faults + 1
    /\ UNCHANGED <<app, net, eng, room, cycles, earned, scored>>

\* "I Won" and "I Lost": hidden after an automatic record.
RecordByHand(m, outcome) ==
    /\ AtArcade(m) /\ app[m].loaded /\ ~app[m].auto /\ cycles < MaxCycles
    /\ LET a == RecordResult(m, app[m].arcade, outcome)
       IN app' = [app EXCEPT ![m].arcade = a] /\ save' = Save(m, a)
    /\ cycles' = cycles + 1
    /\ earned' = [earned EXCEPT ![m] = @ + IF outcome = "win" THEN 1 ELSE 0]
    /\ UNCHANGED <<net, eng, room, faults, scored>>

\* The wheel's "CLAIM": the prize (module Arcade) for a spin, and the file.
WheelClaim(m) ==
    /\ AtArcade(m) /\ app[m].loaded /\ app[m].arcade.spins > 0 /\ cycles < MaxCycles
    /\ LET a == [app[m].arcade EXCEPT !.spins = @ - 1]
       IN app' = [app EXCEPT ![m].arcade = a] /\ save' = Save(m, a)
    /\ cycles' = cycles + 1
    /\ UNCHANGED <<net, eng, room, faults, earned, scored>>

-----------------------------------------------------------------------------
(* The room.                                                                *)

Joining(s, role) ==
    [s EXCEPT !.group = TRUE, !.auto = FALSE, !.role = role, !.link = "up"]

\* arcadeHostInvite: the button is in the campaign's own view.
HostInvite(m) ==
    /\ AtArcade(m) /\ app[m].loaded /\ room = NoRoom /\ cycles < MaxCycles
    /\ save' = Save(m, app[m].arcade)
    /\ app' = [app EXCEPT ![m] = Joining(@, "host")]
    /\ room' = [host |-> m, full |-> FALSE]
    /\ UNCHANGED <<net, eng, cycles, faults, earned, scored>>

\* arcadeJoinInvite, with or without a campaign of one's own.  The relay tells
\* the host, whose program then starts the handshake.  The host may be in a duel
\* already, one this guest has left.
JoinInvite(m) ==
    /\ AtArcade(m) /\ room.host = Peer(m) /\ ~room.full
    /\ LET back == app[Peer(m)].inDuel \/ net[Peer(m)] # <<>>
       IN (back => faults < MaxFaults) /\ faults' = faults + IF back THEN 1 ELSE 0
    /\ save' = IF app[m].loaded THEN Save(m, app[m].arcade) ELSE save
    /\ app' = [app EXCEPT ![m] = Joining(@, "client")]
    /\ room' = [room EXCEPT !.full = TRUE]
    /\ net' = Send(net, Peer(m), <<[t |-> "joined"]>>)
    /\ scored' = [scored EXCEPT ![m] = <<>>]
    /\ UNCHANGED <<eng, cycles, earned>>

\* sendMpStartDuel.  The opponent who was ready (module Lobby) may have left.
StartDuel(m) ==
    /\ app[m].role = "host" /\ Linked(m) /\ app[m].ready
    /\ ~app[m].inDuel /\ eng[m].st = "none" /\ cycles < MaxCycles
    /\ app' = [app EXCEPT ![m] = [@ EXCEPT !.inDuel = TRUE, !.auto = FALSE]]
    /\ eng' = [eng EXCEPT ![m] = [st |-> "run", winner |-> "none"]]
    /\ net' = IF Heard(m) THEN Send(net, Peer(m), <<[t |-> "start"]>>) ELSE net
    /\ cycles' = cycles + 1
    /\ scored' = IF Heard(m) THEN [scored EXCEPT ![Peer(m)] = <<>>] ELSE scored
    /\ UNCHANGED <<save, room, faults, earned>>

\* The engine declares a winner, or the host concedes.
EngineEnds(m, w) ==
    /\ eng[m].st = "run"
    /\ eng' = [eng EXCEPT ![m] = [st |-> "done", winner |-> w]]
    /\ UNCHANGED <<save, app, net, room, cycles, faults, earned, scored>>

Surrender(m) ==
    /\ app[m].role = "client" /\ app[m].inDuel /\ Heard(m)
    /\ ~app[m].remoteDone
    /\ \A i \in DOMAIN net[Peer(m)] : net[Peer(m)][i].t # "surrender"
    /\ net' = Send(net, Peer(m), <<[t |-> "surrender"]>>)
    /\ UNCHANGED <<save, app, eng, room, cycles, faults, earned, scored>>

\* drawDuel's end-of-duel edge: resetMpResponseState re-arms the recording.
EndOfDuel(s) == [s EXCEPT !.inDuel = FALSE, !.auto = FALSE, !.remoteDone = FALSE]

OutcomeFor(m, w) == IF w = m THEN "win" ELSE IF w = "draw" THEN "draw" ELSE "loss"

\* The frame in which the host's pump finds its engine done: GameOver, the
\* record with its ArcadeSync, then the end-of-duel reset of drawDuel.
HostPump(m) ==
    /\ app[m].role = "host" /\ app[m].inDuel /\ eng[m].st = "done"
    /\ LET outcome == OutcomeFor(m, eng[m].winner)
           s == app[m]
           r == AutoRecord(m, s, outcome)
           frames == <<[t |-> "over", winner |-> eng[m].winner]>>
                     \o IF Scores(s) THEN <<SyncOf(r.arcade)>> ELSE <<>>
       IN /\ app' = [app EXCEPT ![m] = EndOfDuel(r)]
          /\ save' = IF Scores(s) THEN Save(m, r.arcade) ELSE save
          /\ net' = IF Heard(m) THEN Send(net, Peer(m), frames) ELSE net
          /\ Earn(m, s, outcome)
    /\ UNCHANGED <<eng, room, cycles, faults>>

-----------------------------------------------------------------------------
(* handleNetMessage, one disjunct a frame type.                             *)

Receive(m, t) == /\ app[m].role # "offline" /\ net[m] # <<>> /\ Head(net[m]).t = t

\* RoomPeerJoined: mpKickoffHandshake, the host pushes the campaign.
PeerJoined(m) ==
    /\ Receive(m, "joined")
    /\ LET s == [app[m] EXCEPT !.ready = TRUE]
           a == OnBoard(m, s.arcade)
       IN IF Scores(s)
          THEN /\ app' = [app EXCEPT ![m] = [s EXCEPT !.arcade = a]]
               /\ net' = [net EXCEPT ![m] = Tail(@),
                                     ![Peer(m)] = IF Heard(m) THEN Append(@, SyncOf(a))
                                                  ELSE @]
          ELSE app' = [app EXCEPT ![m] = s] /\ net' = [net EXCEPT ![m] = Tail(@)]
    /\ UNCHANGED <<save, eng, room, cycles, faults, earned, scored>>

\* ArcadeSync at the host: the guest's board into the loaded campaign.
HostSync(m) ==
    /\ Receive(m, "sync") /\ app[m].role = "host"
    /\ LET a == [app[m].arcade EXCEPT !.board = MergeBoard(@, Head(net[m]).board)]
       IN IF app[m].loaded
          THEN app' = [app EXCEPT ![m].arcade = a] /\ save' = Save(m, a)
          ELSE UNCHANGED <<app, save>>
    /\ net' = [net EXCEPT ![m] = Tail(@)]
    /\ UNCHANGED <<eng, room, cycles, faults, earned, scored>>

\* The campaign the guest merges into: new, loaded from its file, or in memory.
FaultyGuestCampaign(m) ==
    IF save[m].exists /\ app[m].loaded THEN app[m].arcade ELSE NewSave
GuestCampaign(m) == IF ~save[m].exists THEN NewSave
                    ELSE IF ~app[m].loaded THEN save[m] ELSE app[m].arcade
FaultySyncReply(a) == <<>>
SyncReply(a) == <<SyncOf(a)>>
GuestSync(m) ==
    /\ Receive(m, "sync") /\ app[m].role = "client"
    /\ LET c == GuestCampaign(m)
           a == OnBoard(m, [c EXCEPT !.board = MergeBoard(@, Head(net[m]).board)])
       IN /\ app' = [app EXCEPT ![m] = [@ EXCEPT !.arcade = a, !.loaded = TRUE,
                                                 !.group = TRUE]]
          /\ save' = Save(m, a)
          /\ net' = [net EXCEPT ![m] = Tail(@),
                                ![Peer(m)] = IF Heard(m)
                                             THEN @ \o SyncReply(a) ELSE @]
    /\ UNCHANGED <<eng, room, cycles, faults, earned, scored>>

\* StartDuel at the guest: resetMpResponseState re-arms the recording.
DuelStarts(m) ==
    /\ Receive(m, "start")
    /\ app' = [app EXCEPT ![m] = [@ EXCEPT !.inDuel = TRUE, !.auto = FALSE,
                                           !.remoteDone = FALSE]]
    /\ net' = [net EXCEPT ![m] = Tail(@)]
    /\ UNCHANGED <<save, eng, room, cycles, faults, earned, scored>>

\* What a machine does when it scores on a frame: record, save, ArcadeSync.
Score(m, s, outcome) ==
    LET r == AutoRecord(m, s, outcome)
    IN /\ app' = [app EXCEPT ![m] = r]
       /\ save' = IF Scores(s) THEN Save(m, r.arcade) ELSE save
       /\ net' = [net EXCEPT ![m] = Tail(@),
                             ![Peer(m)] = IF Scores(s) /\ Heard(m)
                                          THEN Append(@, SyncOf(r.arcade)) ELSE @]
       /\ Earn(m, s, outcome)

GameOver(m) ==
    /\ Receive(m, "over") /\ app[m].role = "client"
    /\ Score(m, [app[m] EXCEPT !.remoteDone = TRUE],
             OutcomeFor(m, Head(net[m]).winner))
    /\ UNCHANGED <<eng, room, cycles, faults>>

\* handleSurrender: forfeit looks for an engine, not for an undecided duel.
Surrendered(m) ==
    /\ Receive(m, "surrender") /\ app[m].role = "host"
    /\ eng' = IF eng[m].st = "none" THEN eng
              ELSE [eng EXCEPT ![m] = [st |-> "done", winner |-> m]]
    /\ net' = [net EXCEPT ![m] = Tail(@)]
    /\ UNCHANGED <<save, app, room, cycles, faults, earned, scored>>

\* Disconnect, then RoomClosed: the duel is won, if it was still open.
FaultyPeerQuitCounts(m, s) == s.group /\ s.loaded /\ s.inDuel /\ Undecided(m, s)
PeerQuitCounts(m, s) == OpenDuel(m, s)
PeerQuit(m) ==
    /\ Receive(m, "bye") \/ Receive(m, "closed")
    /\ LET s == app[m]
           t == [s EXCEPT !.ready = @ /\ Head(net[m]).t = "bye"]
       IN IF PeerQuitCounts(m, s) THEN Score(m, t, "win")
          ELSE /\ net' = [net EXCEPT ![m] = Tail(@)]
               /\ app' = [app EXCEPT ![m] = t]
               /\ UNCHANGED <<save, earned, scored>>
    /\ UNCHANGED <<eng, room, cycles, faults>>

-----------------------------------------------------------------------------
(* Leaving.  What a leaving program sent last may not get through; the      *)
(* relay tells the other one (RoomClosed), who keeps the own seat.           *)

Farewell(frames) == {SubSeq(frames, 1, k) : k \in 0..Len(frames)}
Departs(m, frames) ==
    \E sent \in Farewell(frames) :
        net' = [net EXCEPT ![m] = <<>>,
                           ![Peer(m)] = IF Heard(m)
                                        THEN @ \o sent \o <<[t |-> "closed"]>> ELSE @]
\* A room without its host takes nobody in; the seat of a guest is free again.
RoomLoses(m) ==
    room' = IF room.host = m THEN NoRoom ELSE [room EXCEPT !.full = FALSE]
EngineGoes(m) == eng' = [eng EXCEPT ![m] = NoEngine]

\* Every way out of the room and of the duel screen: the loss is recorded and
\* sent before the socket closes, and the duel's latches are reset.  (Which of the
\* lobby's outlive the session is module Lobby's question; here none does.)
Leave(m) ==
    /\ app[m].role # "offline"
    /\ app[m].role = "host" => ~(app[m].inDuel /\ eng[m].st = "done")
    /\ LET s == app[m]
           quits == OpenDuel(m, s)
           r == IF quits THEN AutoRecord(m, s, "loss") ELSE s
       IN /\ app' = [app EXCEPT ![m] = [EndOfDuel(r) EXCEPT
                    !.role = "offline", !.link = "none", !.ready = FALSE]]
          /\ save' = IF quits THEN Save(m, r.arcade) ELSE save
          /\ Departs(m, (IF quits THEN <<SyncOf(r.arcade)>> ELSE <<>>)
                        \o <<[t |-> "bye"]>>)
          /\ IF quits THEN Earn(m, s, "loss") ELSE UNCHANGED <<earned, scored>>
    /\ RoomLoses(m) /\ EngineGoes(m)
    /\ UNCHANGED <<cycles, faults>>

\* "Connection lost - Return to Lobby": no record, and the session stays open.
LeaveLostDuel(m) ==
    /\ app[m].inDuel /\ app[m].link = "lost"
    /\ app' = [app EXCEPT ![m] = EndOfDuel(@)]
    /\ EngineGoes(m)
    /\ UNCHANGED <<save, net, room, cycles, faults, earned, scored>>

\* A machine loses the relay: what had not reached it is lost.
LinkBreaks(m) ==
    /\ Linked(m) /\ faults < MaxFaults
    /\ faults' = faults + 1
    /\ app' = [app EXCEPT ![m].link = "lost"]
    /\ \E kept \in Farewell(net[m]) :
        net' = [net EXCEPT ![m] = kept,
                           ![Peer(m)] = IF room.full THEN Append(@, [t |-> "closed"])
                                        ELSE @]
    /\ RoomLoses(m)
    /\ UNCHANGED <<save, eng, cycles, earned, scored>>

\* The program dies: nothing is left of what is in memory.
Dies(m) ==
    /\ faults < MaxFaults /\ faults' = faults + 1
    /\ app' = [app EXCEPT ![m] = AppInit]
    /\ RoomLoses(m) /\ EngineGoes(m)
    /\ UNCHANGED <<cycles, earned, scored>>

\* It is killed between two saves: the file keeps what was saved last.
Killed(m) ==
    /\ app[m].loaded \/ app[m].role # "offline"
    /\ Dies(m) /\ Departs(m, <<>>)
    /\ UNCHANGED save

\* It is killed inside ArcadeSave::save, which empties the file and writes it anew:
\* a line for the spins, then one a member.  The lines that are not there yet are
\* lost (one that is cut counts as lost).
TornSaves(a) ==
    {NewSave} \cup
    {[a EXCEPT !.board = [n \in Member |-> IF n \in written THEN a.board[n]
                                           ELSE NotMember]] : written \in SUBSET Member}
\* Nor is the ArcadeSync sent that would have followed the save.
Unsent(frames) ==
    {frames} \cup {Front(q) : q \in {r \in {frames} : r # <<>> /\ Last(r).t = "sync"}}
KilledSaving(m) ==
    /\ app[m].loaded
    /\ Dies(m)
    /\ save' \in {Save(m, a) : a \in TornSaves(app[m].arcade)}
    /\ \E left \in Unsent(net[Peer(m)]) :
        net' = [net EXCEPT ![m] = <<>>,
                           ![Peer(m)] = IF Heard(m) THEN Append(left, [t |-> "closed"])
                                        ELSE @]

-----------------------------------------------------------------------------
Init ==
    /\ save = [m \in Member |-> NoSave]
    /\ app = [m \in Member |-> AppInit]
    /\ net = [m \in Member |-> <<>>]
    /\ eng = [m \in Member |-> NoEngine]
    /\ room = NoRoom
    /\ cycles = 0 /\ faults = 0
    /\ earned = [m \in Member |-> 0]
    /\ scored = [m \in Member |-> <<>>]

Arcade(m) == \/ OpenCampaign(m) \/ CloseCampaign(m) \/ DeleteCampaign(m)
             \/ \E o \in {"win", "loss"} : RecordByHand(m, o)
             \/ WheelClaim(m) \/ HostInvite(m) \/ JoinInvite(m)
Duelling(m) == \/ StartDuel(m) \/ Surrender(m) \/ HostPump(m)
               \/ Leave(m) \/ LeaveLostDuel(m)
Frames(m) == \/ PeerJoined(m) \/ HostSync(m) \/ GuestSync(m) \/ DuelStarts(m)
             \/ GameOver(m) \/ Surrendered(m) \/ PeerQuit(m)
Next == \/ \E m \in Member : Arcade(m) \/ Duelling(m) \/ Frames(m)
                             \/ LinkBreaks(m) \/ Killed(m) \/ KilledSaving(m)
        \/ \E m \in Member, w \in Member \cup {"draw"} : EngineEnds(m, w)
Spec == Init /\ [][Next]_vars

-----------------------------------------------------------------------------
(* Properties                                                               *)

\* However often boards are merged, re-sent, lost, or restored from an old file,
\* no copy of a member's score, in memory, on disk or on its way, ever counts a
\* win that member did not record (mergeBoard, the ArcadeSync handler).
PointsWereEarned ==
    \A m, n \in Member :
        /\ save[m].board[n] <= earned[n]
        /\ app[m].arcade.board[n] <= earned[n]
        /\ \A i \in DOMAIN net[m] :
                net[m][i].t = "sync" => net[m][i].board[n] <= earned[n]

\* "Nobody's points ever go backwards" (src/src/UI.cpp:2298).  What is saved over a
\* file, by whichever handler and in whichever order, takes no point and no member
\* out of it, and no spin but the one that the wheel pays for.  Only deleting the
\* campaign does, and a kill in the middle of the save, which leaves each member
\* with the score being saved or without any.
FilesOnlyGrow ==
    [][\A m \in Member : save'[m].exists =>
        \/ /\ \A n \in Member : save'[m].board[n] >= save[m].board[n]
           /\ save'[m].spins >= save[m].spins
                                - IF AtArcade(m) /\ app[m].loaded THEN 1 ELSE 0
        \/ /\ app[m].loaded /\ app'[m] = AppInit
           /\ \A n \in Member : save'[m].board[n] \in {NotMember, app[m].arcade.board[n]}
      ]_save

\* Once every frame of a group session has been handled, both machines show the
\* same leaderboard, membership included.
BoardsConverge ==
    LET settled == /\ room.full
                   /\ \A m \in Member : Linked(m) /\ app[m].loaded /\ net[m] = <<>>
    IN settled => \A m \in Member : app[m].arcade.board = app[Peer(m)].arcade.board

\* In one stay in the room a guest scores a duel at most once, though the GameOver,
\* its own leaving, the host's Disconnect and the relay's RoomClosed all record it
\* (arcadeAutoRecord).  A guest who leaves a duel and joins again while it goes on
\* begins a new stay: the GameOver then scores on top of the loss.
GuestScoresOnce == \A m \in Member : Len(scored[m]) <= 1
=============================================================================
