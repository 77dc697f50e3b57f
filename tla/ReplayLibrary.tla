--------------------------- MODULE ReplayLibrary ---------------------------
(***************************************************************************)
(* The replays on disk: how a duel's recording gets into assets/replays    *)
(* (UI::beginReplayRecording, finalizeReplay, "Save Replay"), what         *)
(* edo::Replay writes and reads, and the browser (UI::drawReplays), which  *)
(* holds a list, an index and a loaded replay beside the folder.           *)
(*                                                                         *)
(* A replay is its duel, its winner and its responses; the game log is     *)
(* saved and loaded like the responses, and left out.  The folder is the   *)
(* sequence of its files, newest first; the user may delete files in it.   *)
(* A file is named after the second in which the duel began (the decks are *)
(* the same), or renamed to a name in OtherName.                           *)
(***************************************************************************)
EXTENDS Naturals, Sequences, SequencesExt

CONSTANTS
    Reply,          \* what the player may answer: sequences of bytes
    OtherName,      \* names a replay may be given
    MaxDuels,       \* bound: duels recorded
    MaxReplies,     \* bound: responses in a duel
    MaxClock,       \* bound: seconds that pass
    MaxViewed       \* bound: responses kept in the browser's replay, which only
                    \* grows

ASSUME ReplayLibraryAssumption ==
    /\ {MaxDuels, MaxReplies, MaxClock, MaxViewed} \subseteq Nat
    /\ OtherName \cap Nat = {}
    /\ Reply \subseteq Seq(0..255)

VARIABLES
    folder,     \* the files: name and data
    clock,      \* std::time
    duel,       \* how the live duel stands: none, running, over
    began,      \* ghost: the second in which each recorded duel began
    rec,        \* m_replay and its stamp, m_replayRecording, m_replaySavedOnce
    auto,       \* m_settings.autoSaveReplays
    screen,     \* lobby, duel, replays, or playback (a duel in m_replayMode)
    files,      \* m_replayFiles
    sel,        \* m_selectedReplay + 1
    view,       \* m_viewerReplay, m_viewerReplayValid
    active,     \* m_replayActive
    due,        \* ghost: the duels whose recording was saved when it ended
    lost,       \* ghost: the duels the user deleted, or whose file a failing
                \* save has torn
    saves       \* ghost: what was given to Replay::save

disk == <<folder, due, lost, saves>>
live == <<clock, duel, began, rec, auto>>
browser == <<files, sel, view>>
libraryVars == <<disk, live, browser, screen, active>>

Blank == [duel |-> 0, win |-> "unknown", res |-> <<>>]

-----------------------------------------------------------------------------
(* The file format                                                          *)

\* toHex and fromHex: a byte is two digits, high one first; a digit too many is
\* dropped.
ToHex(bytes) ==
    [i \in 1..(2 * Len(bytes)) |->
        LET b == bytes[(i + 1) \div 2] IN IF i % 2 = 1 THEN b \div 16 ELSE b % 16]
FromHex(hex) ==
    [i \in 1..(Len(hex) \div 2) |-> 16 * hex[2 * i - 1] + hex[2 * i]]

\* What Replay::save writes, in order.
Units(r) ==
    <<[at |-> "header", duel |-> r.duel, win |-> r.win]>>
    \o [i \in DOMAIN r.res |-> [at |-> "response", hex |-> ToHex(r.res[i])]]
    \o <<[at |-> "end"]>>

\* One key of the file, parsed into the struct: arrays are appended to.
Applied(r, u) ==
    CASE u.at = "header"   -> [r EXCEPT !.duel = u.duel, !.win = u.win]
      [] u.at = "response" -> [r EXCEPT !.res = Append(@, FromHex(u.hex))]
      [] OTHER             -> r

\* Faulty: a file that ends early is a whole one.
FaultyWhole(data) == data # <<>>

\* The parser reaches the closing brace of the file.
Whole(data) == data # <<>> /\ Last(data).at = "end"

\* Replay::load into a struct: what a torn file has is applied all the same.
Load(r, data) == [ok |-> Whole(data), r |-> FoldLeft(Applied, r, data)]

Named(n) == {i \in DOMAIN folder : folder[i].name = n}
Exists(n) == Named(n) # {}

\* A name is one file.
FileAt(n) == CHOOSE i \in Named(n) : TRUE
Data(n) == folder[FileAt(n)].data

\* load of a path, where there may be no file any more.
LoadPath(r, n) == IF Exists(n) THEN Load(r, Data(n)) ELSE [ok |-> FALSE, r |-> r]

\* Replay::list.
List == [i \in DOMAIN folder |-> folder[i].name]

Without(n) == IF Exists(n) THEN RemoveAt(folder, FileAt(n)) ELSE folder
DuelsIn(n) == {d \in DOMAIN began : \E i \in Named(n) : folder[i].data # <<>>
                                                  /\ folder[i].data[1].duel = d}

-----------------------------------------------------------------------------
(* Recording                                                                *)

\* Replay::save in place: whole; refused when it cannot be opened; or torn, which
\* the stream may notice or, when its last flush fails, not.
Saved(how, r) ==
    LET torn == \E n \in 0..(Len(Units(r)) - 1) :
                    folder' = <<[name |-> rec.stamp, data |-> SubSeq(Units(r), 1, n)]>>
                              \o Without(rec.stamp)
    IN  CASE how = "whole" ->
                /\ folder' = <<[name |-> rec.stamp, data |-> Units(r)]>>
                             \o Without(rec.stamp)
                /\ lost' = lost
          [] how = "torn" -> torn /\ lost' = lost \cup {r.duel} \cup DuelsIn(rec.stamp)
          [] OTHER -> UNCHANGED <<folder, lost>>

Reported(how, ok) == (how = "whole" => ok) /\ (how = "refused" => ~ok)

NotSaved == UNCHANGED disk

\* finalizeReplay: ends the recording, and saves it when that is set.
Finalized(how, ok, win) ==
    LET r == [rec.r EXCEPT !.win = win]
    IN  IF ~rec.on THEN NotSaved /\ UNCHANGED rec
        ELSE /\ rec' = [rec EXCEPT !.on = FALSE, !.r = r,
                                   !.saved = @ \/ (auto /\ ok)]
             /\ due' = IF auto /\ how = "whole"
                       THEN due \cup {r.duel} ELSE due
             /\ IF ~auto \/ rec.saved
                THEN UNCHANGED <<folder, lost, saves>>
                ELSE Saved(how, r) /\ saves' = saves \cup {r}

\* beginReplayRecording.
Begun(d) ==
    [on |-> TRUE, r |-> [Blank EXCEPT !.duel = d], stamp |-> clock, saved |-> FALSE]

How == {"whole", "torn", "refused"}

LibraryInit ==
    /\ folder = <<>>
    /\ clock = 1
    /\ duel = "none"
    /\ began = <<>>
    /\ rec = [on |-> FALSE, r |-> Blank, stamp |-> 0, saved |-> FALSE]
    /\ auto \in BOOLEAN
    /\ screen = "lobby"
    /\ files = <<>> /\ sel = 0
    /\ view = [r |-> Blank, valid |-> FALSE]
    /\ active = Blank
    /\ due = {} /\ lost = {} /\ saves = {}

StartDuel ==
    /\ screen = "lobby" /\ Len(began) < MaxDuels
    /\ duel' = "running" /\ screen' = "duel"
    /\ began' = Append(began, clock)
    /\ rec' = Begun(Len(began'))
    /\ UNCHANGED <<disk, browser, clock, auto, active>>

Tick ==
    /\ clock < MaxClock
    /\ clock' = clock + 1
    /\ UNCHANGED <<disk, browser, duel, began, rec, auto, screen, active>>

\* onResponseRecorded.
Answer ==
    /\ screen = "duel" /\ duel = "running" /\ Len(rec.r.res) < MaxReplies
    /\ \E a \in Reply :
          rec' = IF rec.on THEN [rec EXCEPT !.r.res = Append(@, a)] ELSE rec
    /\ UNCHANGED <<disk, browser, clock, duel, began, auto, screen, active>>

\* testingJumpTo: a recording that goes on is cut with the timeline; one that
\* ended is neither cut nor resumed.
Undo ==
    /\ screen = "duel" /\ duel # "none" /\ rec.r.res # <<>>
    /\ duel' = "running"
    /\ \E n \in 0..(Len(rec.r.res) - 1) :
          rec' = IF rec.on THEN [rec EXCEPT !.r.res = SubSeq(@, 1, n)] ELSE rec
    /\ UNCHANGED <<disk, browser, clock, began, auto, screen, active>>

\* The duel ends, and with it the recording.
EndDuel ==
    /\ screen = "duel" /\ duel = "running"
    /\ duel' = "over"
    /\ \E how \in How, ok \in BOOLEAN :
          Reported(how, ok) /\ Finalized(how, ok, "known")
    /\ UNCHANGED <<browser, clock, began, auto, screen, active>>

\* "Save Replay", after a duel or after a replay that was played back.
SaveReplay ==
    /\ duel = "over"
    /\ \E how \in How, ok \in BOOLEAN :
          /\ Reported(how, ok)
          /\ Saved(how, rec.r)
          /\ rec' = [rec EXCEPT !.saved = @ \/ ok]
    /\ saves' = saves \cup {rec.r}
    /\ UNCHANGED <<browser, clock, duel, began, auto, screen, active, due>>

\* To the lobby out of a duel: a duel that still runs is recorded as unknown.
LeaveDuel ==
    /\ screen = "duel"
    /\ duel' = "none" /\ screen' = "lobby"
    /\ \E how \in How, ok \in BOOLEAN :
          Reported(how, ok) /\ Finalized(how, ok, "unknown")
    /\ UNCHANGED <<browser, clock, began, auto, active>>

-----------------------------------------------------------------------------
(* The browser                                                              *)

Selected == sel \in DOMAIN files
FirstOf(l) == IF l = <<>> THEN 0 ELSE 1

\* The replay is loaded into the same struct each time.
Viewed(l) ==
    [valid |-> l.ok,
     r |-> [l.r EXCEPT !.res = SubSeq(@, 1, Min({Len(@), MaxViewed}))]]

\* "Replays" in the lobby.
OpenReplays ==
    /\ screen = "lobby"
    /\ screen' = "replays"
    /\ files' = List /\ sel' = FirstOf(List)
    /\ view' = IF List = <<>> THEN [view EXCEPT !.valid = FALSE] 
             ELSE Viewed(LoadPath(view.r, List[1]))
    /\ UNCHANGED <<disk, live, active>>

Back ==
    /\ screen = "replays"
    /\ screen' = "lobby"
    /\ UNCHANGED <<disk, live, browser, active>>

ToggleAutoSave ==
    /\ screen = "replays"
    /\ auto' = ~auto
    /\ UNCHANGED <<disk, browser, clock, duel, began, rec, screen, active>>

\* "Refresh": the index stays, and so does what was loaded.
RefreshList ==
    /\ screen = "replays"
    /\ files' = List
    /\ sel' = IF sel > Len(List) THEN FirstOf(List) ELSE sel
    /\ UNCHANGED <<disk, live, view, screen, active>>

Click(i) ==
    /\ screen = "replays" /\ i \in DOMAIN files
    /\ sel' = i
    /\ view' = Viewed(LoadPath(view.r, files[i]))
    /\ UNCHANGED <<disk, live, files, screen, active>>

\* "Delete", and "Delete file" for one that was not loaded.
Delete ==
    /\ screen = "replays" /\ Selected
    /\ folder' = Without(files[sel])
    /\ lost' = lost \cup DuelsIn(files[sel])
    /\ files' = [i \in DOMAIN folder' |-> folder'[i].name]
    /\ sel' = FirstOf(files')
    /\ view' = [view EXCEPT !.valid = FALSE]
    /\ UNCHANGED <<live, screen, active, due, saves>>

\* Faulty: the name may be taken.
FaultyMayRename(n) == n # files[sel] /\ Exists(files[sel])

\* The new name is free; the rename fails when the file is gone.
MayRename(n) == ~Exists(n) /\ Exists(files[sel])

Rename(n) ==
    /\ screen = "replays" /\ Selected /\ view.valid /\ MayRename(n)
    /\ folder' = [i \in DOMAIN Without(n) |->
                    [Without(n)[i] EXCEPT !.name = IF @ = files[sel] THEN n ELSE @]]
    /\ files' = [i \in DOMAIN folder' |-> folder'[i].name]
    /\ sel' = CHOOSE i \in DOMAIN files' : files'[i] = n
    /\ view' = Viewed(Load(view.r, folder'[sel'].data))
    /\ UNCHANGED <<live, screen, active, due, lost, saves>>

\* The user deletes a file of the folder.
Vanish ==
    /\ \E n \in {folder[i].name : i \in DOMAIN folder} :
          folder' = Without(n) /\ lost' = lost \cup DuelsIn(n)
    /\ UNCHANGED <<live, browser, screen, active, due, saves>>

\* startReplayPlayback loads into a struct of its own.
Fresh == Blank

\* "Play Replay": refused when it does not load, or has no decks.
Play ==
    /\ screen = "replays" /\ Selected /\ view.valid
    /\ LET l == LoadPath(Fresh, files[sel])
       IN  l.ok /\ l.r.duel # 0 /\ active' = l.r
    /\ screen' = "playback" /\ duel' = "running"
    /\ rec' = [rec EXCEPT !.on = FALSE, !.saved = TRUE]
    /\ UNCHANGED <<disk, browser, clock, began, auto>>

PlaybackEnds ==
    /\ screen = "playback" /\ duel = "running"
    /\ duel' = "over"
    /\ UNCHANGED <<disk, browser, clock, began, rec, auto, screen, active>>

\* "Exit" out of a replay: only the list is read again.
ExitReplay ==
    /\ screen = "playback"
    /\ screen' = "replays" /\ duel' = "none"
    /\ files' = List
    /\ UNCHANGED <<disk, clock, began, rec, auto, sel, view, active>>

LibraryNext ==
    \/ StartDuel \/ Tick \/ Answer \/ Undo \/ EndDuel \/ SaveReplay \/ LeaveDuel
    \/ OpenReplays \/ Back \/ ToggleAutoSave \/ RefreshList \/ Delete \/ Vanish
    \/ \E i \in DOMAIN files : Click(i)
    \/ \E n \in OtherName : Rename(n)
    \/ Play \/ PlaybackEnds \/ ExitReplay

LibrarySpec == LibraryInit /\ [][LibraryNext]_libraryVars

-----------------------------------------------------------------------------
(* Properties                                                               *)

\* What is played back is what one duel recorded up to a save, response by
\* response: never part of it, and never two replays in one, whatever was torn,
\* renamed, saved again, deleted or looked at before (Replay::load,
\* startReplayPlayback).
PlayedAsRecorded == screen = "playback" => active \in saves

\* A duel whose recording ended with auto-save on, and which was written without
\* an error, stays in the folder, under whatever name, until the user deletes it
\* or a failing save tears it; two duels begun in the same second have one file
\* (finalizeReplay, suggestedFilename, Rename).
FinishedDuelsKept ==
    \A d \in due :
        \/ d \in lost
        \/ \E i \in DOMAIN folder : Whole(folder[i].data) /\ folder[i].data[1].duel = d
        \/ \E e \in DOMAIN began : e # d /\ began[e] = began[d]
=============================================================================
