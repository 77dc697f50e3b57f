# YGO-Nova: models, model checking and proofs

YGO-Nova is a card-duel simulator: a C++ program around the rules engine
ocgcore, with practice duels against an automatic opponent, two-player duels
over LAN or an online relay, a solo and a group campaign, replays, a deck
builder, and downloads of card pictures and of its own updates. This directory
holds TLA+ models of the parts in which order, loss, delay, failure or a long
sequence of legal steps can go wrong, the TLC configurations that check them,
and proofs checked by TLAPS. Paths are relative to the repository; `UI.cpp` and
the like are files of its directory `src/`.

`tlc -config X.cfg M` checks a configuration, `tlapm M.tla` the proofs of a module
(those whose names end in `Proofs`). `PROJECT.json` lists the runs, which lines
each definition models, the hazards and the properties aimed at them, and for every
property a mutated definition (`Faulty...`, kept beside the original) that breaks
it.

## 1. Inventory

| Component | State it keeps | Operations | Talks to | What is hard |
|---|---|---|---|---|
| Host-authoritative duel (`UI.cpp`, `NetSnapshots.h`) | host: prompt sequence number, choice table, hashes, latches; client: mirrored board and prompt, flags | start, ship board and prompt, accept or refuse a choice, surrender, announce the end | DuelManager by call, the peer by message | messages in flight, hashes that suppress resends, latches one side resets while the other still sends |
| DuelManager (`DuelManager.cpp`) | engine handle, flags, retry count, parsed request, pacing deadline, opponent's memory | start, end, pump, submitResponse, forfeit, message handlers, automatic opponent | ocgcore by call, UI by flags and recorder callback | the pump leaves and re-enters between engine steps; flags outlive a duel; answers packed in bits |
| Prompt panels (`UI.cpp`) | staged picks, open panel | click, stage, Confirm, Finish, board click | DuelManager | picks outlive the prompt they were staged for |
| Timeline, undo (`TestingTimeline.h`, `UI.cpp`) | root, responses, number applied | record, branch, jump, undo, rebuild | DuelManager, recorder | the rebuild drives the pump and recorder of live play |
| Duel sessions (`UI.cpp`) | mode flags, seat, match score | practice, match, gauntlet, board break, puzzle, replay: in and out | DuelManager, timeline, recorder | nothing stores what is being played: it follows from flags set and reset by different buttons |
| Replay (`Replay.h`, `UI.cpp`) | streams, files, browser index and view | record, save, list, load, rename, delete, play, seek | recorder callback, disk | in-place rewrites, a tolerant parser, cached lists and indices |
| Relay server (`tools/relay_server.py`) | rooms by code, two seats each, a thread per connection | create, join, list, forward, drop | programs by TCP | a thread decides under the lock and sends after it |
| Lobby handshake (`UI.cpp`) | deck, ready, remote deck and ready, handshake and duel latches | open or leave a session, Hello, DeckInfo, Ready, StartDuel | relay, duel | latches outlive a session; both sides start the handshake |
| NetSession (`NetSession.cpp`) | mode, socket, inbox, outbox, worker | host, join, send, poll, disconnect | UI, relay | a dead connection swallows sends and cuts both streams |
| Group campaign (`ArcadeSave.h`, `UI.cpp`) | board, cycle, pool, packs, keys, credits, save file | invite, join, record, sync, open packs, wheel, craft, draft | lobby, duel, disk | a duel recorded from several places; the save is rewritten in place |
| Deck builder (`UI.cpp`) | deck on the table, saved copy, file list and index, formats, clipboard | edit, save, load, paste, tidy, side, edit a format | disk, match | indices into lists that are read again, writes nobody checks |
| ImageFetcher, Renderer's cache | request states, queue, counter, textures | request, fetch, rename or copy, stop, restart | UI and worker threads | the counter is kept outside the lock; a file under copy |
| UpdateChecker | versions, progress, partial file | check, download, cancel, launch | UI and two threads | broken-off and repeated downloads |
| ScriptFetcher, lockstep mode, card database, settings, presentation | see "Not modelled" | | | |

What makes each correct is what the properties of section 3 say.

## 2. The modules

| Module | Models | Composed with |
|---|---|---|
| `HostAuth` | the online duel of two programs | refines `DuelReferee` |
| `DuelReferee` | what an online duel promises, without frames or messages | - |
| `Relay` | relay_server.py and arbitrary clients | - |
| `Lobby` | the programs of the online lobby | extends `Relay`, refines `RelaySpec` |
| `Practice` | pump, pacing, timeline, recorder of the offline duel | - |
| `Prompts` | contents of requests and answers, panels, automatic opponent | - |
| `Sessions` | what is played on the one engine, and ways in and out | - |
| `ReplayLibrary` | replay files, auto-save, browser | - |
| `GroupDuel` | the shared campaign on two machines | - |
| `Arcade` | campaigns, progression and draft on one machine | - |
| `DeckBuilder` | decks, files, formats, share codes, siding | - |
| `CardArt`, `AppUpdate` | the picture downloads; the in-app update | - |
| `Downloads` | both, with a program that quits at any time | extends `CardArt` and `AppUpdate` |

`MC...` modules give the constants for TLC. The theorems and their proofs stand
apart from the models:

| Module | Theorems about | Extends |
|---|---|---|
| `HostAuthProofs` | `HostAuth`, and that it implements `DuelReferee` | `HostAuth` |
| `LobbyProofs` | `Relay`; `Lobby`, and that it implements `RelaySpec` | `Lobby` |
| `PracticeProofs` | `Practice`; `Prompts` | `Practice`, `Prompts` |
| `SessionsProofs` | `Sessions` | `Sessions` |
| `GroupDuelProofs` | `GroupDuel` | `GroupDuel` |
| `ArcadeProofs` | `Arcade` | `Arcade` |
| `FileProofs` | the files the player keeps: replays and decks | `ReplayLibrary`, `DeckBuilder` |
| `DownloadsProofs` | `CardArt`, `AppUpdate` as `Downloads` joins them | `Downloads` |

**HostAuth.** The host's frame is `hpc`: *process* (`Game::run` calls
`DuelManager::process`), *pump* (`UI::pumpMultiplayer`: drain the inbox, then ship
board, prompt and GameOver), *draw* (the end-of-duel reset, then at most one click).
Variables carry the source's names (`hostPromptSeq` is `m_mpHostPromptSeq`; the
client's begin with `c`). Client and host share only FIFO channels that `LinkDown` may
cut, losing a tail of each. A choice passes the code's six checks in their order
(`ChoiceAcceptable`), the last of which asks for response bytes; acceptance ships
board and prompt in the same step, refusal sends a SyncError. A prompt's contents are
a shape and `Identity` is the resend hash, equal for two prompts of one owner and
shape. `Choices` are the clicks that come with an answer. A prompt for several cards
(`MultiPicks`) also ships each card by itself, without bytes (`Candidates`): the
picker sends ticks, but a click on such a card on the board sends its id, and the host
refuses it. The ghost `misclicked` names the prompt that was lost this way. A board is
a `coarse` part, which the hash of `buildAndSendFieldSnapshot` covers, and a `detail`
part, which it misses. `forfeit` has the source's guard, which admits a finished duel.
`RefereeSpec` is `DuelReferee` under the mapping given in `HostAuth`: numbered
requests, each answered at most once and by its owner, the client answering only what
it is shown, one announced result and no request after it.

**Relay, Lobby.** `pending` holds the sends a thread decided on under the lock
and performs after it; `drop_conn` notifies under the lock and is one step.
Relay's clients are arbitrary (`AnyClient`): they write any frame, ask for a
second room, close or break. In `Lobby` the clients are the programs: `ui[p]`
outlives a session, `<<p, n>>` is the n-th session of p, and every handler and
click is an action, the ways out included (Disconnect clears the latches, "<
Back" and the exits of a duel do not). `RelaySpec` as a property of `LobbySpec`
makes what Relay's run shows of every client hold for the programs.

**Practice.** One thread, whose place is `pc`: *frame*, *pump* (the loop of
`process()`), *advance* and *feed* (the rebuild of `testingJumpTo`), *draw*. `dm`
holds DuelManager's flags, `tl` the timeline, `replay` the recording, `rb` a
rebuild's locals. The engine is external and deterministic: the request it waits
at is a function of the responses read; called without a response it reads what
its buffer holds. A request may be one that the message handler answers itself
(`Inline`): a pass, which is not recorded, or any other ("auto", "refused", and
"pick" while local mode is off, as it is in a rebuild), whose answer is recorded like
a player's, as seat 0's (`seat` is the player's own). `strayed` marks
the ways engine and timeline part: a call with no response; a response nobody
records or that is fed to a rebuild that did not advance; and a handler's answer in
a rebuild, which is given beside its recorded copy. The properties claim what holds
until then. Two ghosts compare: `given`, the responses the engine has read but for
automatic passes, and `whole`, which falls when a jump goes forward past what the recorder holds: until then the
recording is the applied part of the timeline.

**Prompts.** `asked` is the engine's request, `sel` what is shown, `pending` the
answers under way with `given` (handler, button, board click, leftover picks,
opponent), `ai` the opponent's memory. `InlineAnswers` is what `handleMsg` answers
by itself (zones, counters, sums, announcements), `Buttons` what the panel
offers, `AutoMoves` what `autoRespondP2` may choose, `Takes` the engine's own
rule, read off the message layouts, and `Answerable` what the engine guarantees of
a request: it can be answered. Answers keep the source's packing: an index
and an action in one word, a zone as a bit of the place flag.

**Sessions.** `eng` carries ghosts saying what the engine was really started for;
the model's flags are the source's. The frame in which a duel ends also draws the
end-of-duel edge and the panel, so they belong to the step that ends it (`Over`).
`HandlerAnswers` is a handler's answer to a request that is never shown: recorded
for seat 0 in a live duel, given beside the recorded copy in a playback, after which
`parted` says that engine and recording have no common count. An undo past an
answer that its rebuild gives again (`GivenAgain`) parts them in the same way.

**ReplayLibrary.** A file is a sequence of lines or a torn part of one; loading
applies what it can, as the parser does. `folder`, the browser's list and index,
its view and the played copy are separate.

**GroupDuel, Arcade.** `GroupDuel` counts points in wins. Each machine has memory,
file and latches; frames may be lost, programs killed and saves deleted. A kill falls
between two frames (`Killed`) or inside the save (`KilledSaving`), which rewrites the
file in place and leaves the lines written so far. A claim at the wheel spends a spin
and saves (`WheelClaim`). The duel
is an engine of each machine's own (the host's runs, the guest's is shown from
it) that may end at any time; a guest who leaves the room during a duel may come
back, which begins a new stay. `Arcade` is one machine: a
log of what each campaign was given and what it spent is compared with the
campaign on file, and a kill may fall between truncating the file and writing it,
or within the write.

**DeckBuilder.** Decks, formats and sleeves are reached by index into lists read
from the disk again, as in the source; `g` holds the ghosts. The
share code is translated as it is: base64 of little-endian passcodes with its bit
accumulator.

**CardArt, AppUpdate, Downloads.** A worker's job is at a place (*idle, fetching,
copying, fetched, counting, exited*), and the state map, the queue and the
counter change where the lock is held or not held in the source. The texture
cache asks and reloads. What a host answers need not be a picture: a body that is none,
or is cut short, is *Done* like any other and lands as a `bad` file. `AppUpdate` has its
two threads, the partial file, whole or cut off, and the comparison of tags, number by
number. Quitting joins all of them.

## 3. What the runs check

| Run | Configuration | States | Question |
|---|---|---|---|
| host_auth_safety | MCHostAuth, HostAuthSafety | 932,000 | Do answers fit, do the screens agree, is the end the last word, is the referee implemented? |
| host_auth_liveness | MCHostAuth, HostAuthLiveness | 30,640 | Does every client prompt, surrender and end arrive? |
| relay_rooms | MCRelay, RelayRooms | 456,872 | Do seats, connections and notices stay consistent for arbitrary clients? |
| lobby | MCLobby, LobbyRooms | 419,288 | Do latches follow the opponent, do settled peers agree, are the programs clients of the relay as specified? |
| practice_duel | MCPractice, PracticeDuel | 828,432 | Is the timeline true, are seats never crossed, until a handler answers in a rebuild; does the pump settle? |
| prompts | MCPrompts, Prompts | 338,316 | Is what goes out taken, can what is shown be answered, does the opponent settle? |
| sessions | MCSessions, Sessions | 4,134,128 | Do seat, playback, recording and opponent belong to the duel on the screen? |
| replay_library | MCReplayLibrary, ReplayLibrary | 2,324,005 | Is what is played one saved recording, and does a finished duel's file survive? |
| group_duel | MCGroupDuel, GroupDuelSafety | 1,714,812 | Are wins counted once, what may take them out of a file, and do boards converge? |
| arcade | MCArcade, ArcadeSafety | 702,189 | Do cards, credits and packs balance, whenever the program is killed? |
| deck_builder | MCDeckBuilder, DeckBuilder | 154,821 | Does "saved" mean stored, is a tidied deck legal, is a share code faithful? |
| downloads | MCDownloads, Downloads | 405,161 | Is a picture fetched once, never read half-copied, and shown; is the launched installer this session's and newer? |

The properties, by what they would catch:

* `AnswersFit`, `ShownPromptIsLive`, `NoFalseDesync`: a stale, crossed or repeated
  choice, or a right one refused, which locks the client for the rest of the duel.
  `QuietClientAgrees`, `PromptReachesClient`: a board or prompt swallowed by a hash.
  All of these but the first except the one honest click that the host does refuse, on
  the board on a card of a multi-pick. `EndReachesClient`, `SurrenderEndsDuel`,
  `RefereeSpec`: an end lost, repeated or overtaken.
* `SeatsAgree`, `HostToldInOrder`: a seat held by nobody, a host that takes one
  guest for the next. `LatchesFollowOpponent`, `SettledPairAgrees`: a deck or
  readiness of someone who left, or lost in a handshake that both sides start.
* `AppliedMatchesEngine`, `ReplayOnBranch`: a timeline or recording with a
  response of an abandoned branch (of the recording: until a jump goes forward past
  its end). `RightSeatAnswers`, `UndoHandsBackPrompt`: a
  rebuild that the automatic opponent answers as well, an undo one step off. They
  hold up to the first handler's answer in a rebuild, where the code breaks them
  (section 6). `PumpSettles`: a way out of the pump that no frame takes up again,
  other than the one the code has (a handler's answer that is refused for ever).
* `AnswersAreTaken`: a zone, counter, sum or index worked out one off, asked
  again for ever. `PromptsCanBeAnswered`: a prompt routed to the wrong seat, or
  without a button. `OpponentSettles`: refused answers without end.
* `SeatMatchesDuel`, `PlaybackInOrder`, `RecordingIsOfThisDuel`,
  `OpponentAsAnnounced`: a flag, seat or opponent left over from what was played
  before. The two that count responses do so until a handler has given one beside
  the recorded ones. `PlayedAsRecorded`, `FinishedDuelsKept`: a torn or merged replay, a
  file overwritten by another's name.
* `PointsWereEarned`, `GuestScoresOnce`, `FilesOnlyGrow`, `BoardsConverge`: a win
  counted twice by merging, re-sending or restoring, or lost by a save. A save that a
  kill breaks off does lose scores: it leaves each member's new score or none.
  `BooksBalance`: a pack opened twice, a credit spent twice, a card lost.
* `SavedMeansStored`, `TidyMakesLegal`, `ShareRoundTrip`: an unsaved mark that
  goes out too early, a section trimmed at another's cost, a card lost in padding.
* `FetchedOnceAndCounted`, `NeverReadsWhileWritten`, `LandedArtAppears`,
  `InstallerIsNew`: two workers on one file, a torn picture shown, art never shown, an
  older release's installer or the one of an earlier update started.

### Bounds

* HostAuth: three prompts, so that one has a predecessor and a successor of the
  same owner and shape; two Start clicks for a failed start and a good one; one
  client surrender next to the host's; two shapes, one a multi-pick, with one click
  that has an answer and one card without; `MaxLag` = 1 stops only `EngineYield`, the
  one action that sends unasked. Two coarse boards suffice, since only equality
  with the last one sent matters. The liveness run has two prompts, one Start, one
  board and no symmetry.
* Relay: a host, a guest and an intruder or successor; one code, since rooms
  interact only through the table and a join names one code. At most one unread
  frame each way, by a state constraint; sends never wait for the reader, so more
  add order only within one FIFO. No liveness is checked under it.
* Lobby: a host with one session and a guest with two; two events, an event being
  a deck pick, a ready click, the guest's return or a connection that breaks. Two
  are the least for which a click can overtake or revoke another, or a guest
  return after one. Decks may be picked before.
* Practice: two duels of up to three requests, two answers to tell branches apart, one
  retry, one engine step between requests, two rewinds. One root has an automatic pass
  between two requests, one an answer of the handler before the player's, one a
  request that is shown live and answered by the handler in a rebuild, and a refused
  answer after it, one a request the parser does not know. `MaxRefusals` = 1: from the
  second time a refused answer is given again the model goes round in a state it had.
  The constraint `Together` leaves out what follows once `strayed`; within a duel
  `strayed` never falls back, so every behaviour that does not stray is explored
  whole, also for the temporal property.
* Prompts: one request of each kind with its few and its awkward values (only
  the outermost zone free, sums that need a card's second value, 16 cards to
  order, nothing to attack), either seat, two turns for memory that must be
  refreshed. Retry and action counters saturate at their caps, so the duels are
  otherwise unbounded.
* Sessions: two responses tell "before", "between" and "after" apart for undo and
  seek; two games are the least in which a match changes sides. Duels follow one
  another without a bound. A handler may answer wherever the engine asks.
* ReplayLibrary: two duels in one second or in two; one response of two bytes
  whose digits are both used; the browser's struct, which only grows, is cut
  after two responses (it is never played).
* GroupDuel: two members who may each host, symmetric; two cycles (a duel, a result
  recorded by hand or a claim at the wheel), so that a late frame of the first meets
  the second; one fault, a kill inside the save and the return of a guest included.
  Arcade: two campaigns to switch between, one pack of two cards a cycle, a wheel with
  both kinds of prize, one result, one kill.
* DeckBuilder: a main-deck and an extra-deck card, limit two, a main section of
  1 to 2, a side section of 1, so that each cap and limit is met on its own;
  three changes, one failing write; a paste over every limit with a card in the
  wrong section. `ShareRoundTrip` meets all three remainders of the padding.
* Downloads: two cards (one with a thumbnail) on two workers, so that both may
  hold the same card or different ones; one change of setting; an older release,
  one that differs only in its suffix, and a newer one.

### Fairness

* HostAuth (`FairSpec`): the host draws frames (`WF HostFrame`), drains its inbox
  on every frame (`SF HostReceive`: enabled on each frame that finds a message,
  not continuously), and the client handles its messages (`WF ClientReceive`). No
  player has to click and the link may die: the properties end in "or the link is
  down".
* Practice (`PracticeSpec`): the frame loop runs and deadlines pass. The player
  owes nothing, so `PumpSettles` ends at a request of the player, the end or a
  reported park.
* Prompts: the engine runs and the opponent moves when it is asked (`process()`
  is called every frame); the player owes nothing.
* Downloads (`Fairness`): worker threads run, the renderer draws every card that
  is on the screen; a fetch may fail but returns.

Deadlock is checked for HostAuth, Practice, Prompts, Sessions and ReplayLibrary.
The others really stop: connections or programs are used up or have quit.

## 4. What is proved

TLC checks the runs' small instances; the theorems hold for every value of the
constants, so for any number of prompts, connections, decks, duels, cards or
workers, and for bounds of any size. They assume only the `ASSUME`s of the
modules they speak of, which TLC evaluates on the runs. A theorem has the form
`Spec => []P`; where `P` is not inductive it is proved from an invariant that is,
and that is where the reasons are.

| Theorem | Says | Inductive invariant |
|---|---|---|
| `TypeCorrect` | the variables of HostAuth keep their types | `TypeOK`, `WinnerSet` |
| `AnswersAlwaysFit` | `AnswersFit` | and `AnswersInv` |
| `ShownSafe`, `DesyncSafe` | `ShownPromptIsLive`, `NoFalseDesync` | and `ScreenInv` |
| `RefereeSafe` | `RefereeSpec` | and `EndInv` |
| `QuietSafe` | `QuietClientAgrees` | and `QuietInv` |
| `SeatsSafe` | `SeatsAgree` | `TypeOK`, `SeatsAgree` |
| `ToldSafe` | `HostToldInOrder` | and `ToldInv` |
| `LobbyImplementsRelay`, `LobbySeatsSafe`, `LobbyToldSafe` | `RelaySpec`, and the above for the lobby | `LobbyInv` |
| `LatchesSafe` | `LatchesFollowOpponent` | `LobbyInv`, `SeatsAgree`, `ToldInv`, `TalkInv` |
| `SettledSafe` | `SettledPairAgrees` | and `PairInv` |
| `TimelineIsApplied`, `SeatsKeepTheirAnswers`, `RecordingFollowsBranch`, `UndoGivesTheRequestBack` | the four safety properties of `practice_duel` | `PracticeInv` |
| `AnswersGetTaken`, `PromptsHaveAnswers` | `AnswersAreTaken`, `PromptsCanBeAnswered` | `PromptInv` |
| `SeatSafe`, `PlaybackSafe`, `RecordingSafe`, `OpponentSafe` | the four properties of `sessions` | `SessionsInv` |
| `PointsSafe`, `FilesSafe` | `PointsWereEarned`, `FilesOnlyGrow` | `GroupInv` |
| `StayScoresOnce`, `BoardsAgree` | `GuestScoresOnce`, `BoardsConverge` | `StayInv` |
| `BooksAlwaysBalance` | `BooksBalance` | `IInv` of `ArcadeProofs` |
| `PlaybackIsFaithful`, `FinishedDuelsStay` | `PlayedAsRecorded`, `FinishedDuelsKept` | `IInv` of `FileProofs`, each with its property |
| `SavedStaysStored`, `TidyAlwaysMakesLegal`, `SharingLosesNothing` | `SavedMeansStored`, `TidyMakesLegal`, `ShareRoundTrip` | `BuilderInv` |
| `FetchedOnce`, `NotReadWhileWritten` | `FetchedOnceAndCounted`, `NeverReadsWhileWritten` | `ArtInv` |
| `InstallerSafe` | `InstallerIsNew` | `SetupInv` |

**HostAuth.** Assumed: the two seats differ, `NoWinner` is no winner, `NoShape` no
shape, multi-picks are shapes, no click with an answer is a bare card, bounds are
natural numbers. `TypeOK` has one part per group of variables, so
each action is asked only about the groups it changes; GameOver carries `winner`,
hence `WinnerSet`.

* `AnswersFit` speaks of the past; that the *next* answer fits depends on what is in
  flight. `AnswersInv` says: the engine runs only in a duel and the table is open
  only in one; before the first prompt nothing is tagged with a number; the table
  was built from the open request and holds bytes only for the client's; nothing in
  a channel or on the screen has a number ahead of the host's; what carries the
  *current* number names the prompt the table was built from; what was answered is
  behind the engine. A choice that passes the checks carries the current number, so
  it names the table's prompt. The end-of-duel reset sets the number back to 0,
  which is harmless because it leaves the table empty and the engine stopped.
* `ScreenInv`: a prompt for the client is, from its ship to its answer, in one place
  (on its way, on the screen, on its way back) or lost; while the duel runs it bears
  the current number there and offers what the host's table holds. So the two things
  a hash must not do, ship twice or ship a stale one, cannot come about between a
  click and its arrival. A choice on its way back has an answer unless it is
  `misclicked` (`SelChoices`), so its refusal means that the duel is over or that a
  bare card was clicked, and before that nobody is told of a desync (`InSync`).
* `EndInv`: the result is announced once and told as announced, and nothing is asked
  after. With `ScreenInv` each step of the protocol is a step of the referee or a
  stutter: resends, notices, losses and refused choices are stutters; accepted
  choices, shown prompts and the announcement are not.
* `QuietInv`: of the board, the prompt and the waiting banner the client either shows
  the host's or the message that will show it is in the channel with nothing behind it
  that takes it off again (`Reaches`). With empty channels the first is left. A
  refused click takes its prompt off for good, and that prompt is excepted.

**Relay, Lobby.** Assumed: `NoConn`, `NoCode` and `NoDeck` are no connection, code or
deck; gameplay frames have types of their own; clients write the frames they can write;
connections are numbered sessions. `SeatsAgree` is inductive with the types. `ToldInv`
follows the announcements that are decided under the lock and sent after it: what a
thread has still to send is an answer to its own client or the announcement of that
client, who then still sits in the guest's seat; a host that was told of nobody although
it has a guest has that guest's announcement outstanding. Every client step of the lobby
is one of `AnyClient`'s, so `LobbySpec` implements `RelaySpec` and inherits both. For
the latches it is not enough that the server tells its host in order: packets of an old
guest may still be unread when the new one comes. `TalkInv` says of a host's channel
that each lobby packet comes from whomever the notices before it name, that nobody is
announced over somebody else (`Follows`), and that, read to its end, it leaves the host
believing what the server told last (`Leaves`); and of every connection that it carries
decks of its own session only. That two programs end up knowing each other's deck and
readiness is about what is still to be read. `PairInv` says of two who share a room
(`Mate`) that what the one knows, once it has read its own channel and then what the
other has written (`Ends`), is what the other shows; or it is nothing, and the notice
that will make the other send all it shows is still to come (`Hears`, `Coming`). The
server's forwarding moves the border between the two channels and nothing else; a
departure leaves a program that will end up knowing nothing (`Alone`); and a program is
told of a mate it does not know before it has greeted anybody (`Greets`), so the
kickoff is not suppressed.

**Practice.** Assumed: there is a root, roots are sequences of requests, bounds are
natural numbers. The ordinary invariants (`Control`: where the thread may be and what a
rebuild has left; `Flags`: how flags, engine and queued response agree; `Follows`: what
the engine read is the timeline's prefix, in a rebuild as well) do not show that a
rebuild feeds each response to the seat that gave it: a rebuilt engine counts its
requests, the timeline counts responses, and refused responses and automatic passes make
these differ. `OnLine` states the missing link: there is an assignment of the timeline's
responses to requests (`Line`), each at the first request after the one before that the
handler does not pass by itself, and the engine, rebuilt or not, stands where the
assignment puts the response to come. A handler's own answers are on the line where
they were recorded; a rebuild that comes to one gives it again and has left the line
(`strayed`), which is why the theorems say "until then". An undo targets a response
recorded as the player's; if the rebuild gets there without a handler's answer, that is
a request of the player, and the engine stops at it.

**Prompts.** Assumed (`RequestsAssumption`): the engine asks seat 0 or 1 what can be
answered. It lists or offers something, wants no more cards, zones, counters or bits
than there are and at most eight zones, a sum has values above zero and some set
meets it, and no command list is longer than 16 bits count. TLC evaluates this on
requests of every kind. Most of the proof is about single requests: each
handler's answer meets the engine's rule (`HandlerTaken`), be it a word that is
packed and unpacked (`WordIs`), zones named by different bits (`ZoneIs`), counters
taken off card by card that add up (`CountsFit`), or a set found by the search, whose
memo of reachable amounts, computed from the back, agrees with the engine's sums,
computed from the front (`ReachableMeansSum`). So do the buttons (`ButtonsTaken`)
and the opponent's moves but the ones excused (`MovesTaken`). `PromptInv` carries
this through the duel: an answer is pending only for the request the engine stands
at, that request is then on no screen, and no handler answers what is on the
screen. The staged picks belong to the prompt on the screen unless they were left
behind (`PicksStand`); without that a Confirm could send cards of another prompt.

**Sessions.** Assumed: the bounds are positive. `SessionsInv` joins the properties
with `SeatInv` (the seat is the engine's, and the engine's duel the timeline's, unless
an undo has rebuilt another) and `RecInv` (a recording that is on has the length of
the timeline). A duel in which a handler's answer came beside the recorded ones has
`parted`, until it is left. `OnScreen` (a duel runs only on the duel screen) excludes
that the lobby's buttons start another over it.

**GroupDuel.** Assumed: there are two machines. Campaigns are only merged, added to and
copied; `GroupInv` says that every campaign in memory, in a file or in a frame is
within what was recorded, and that memory has what the file has; a save that was
broken off is within it too, since what is missing counts as nothing, and memory is
gone with it. `StayInv` is about
what is on its way: notices arrive in an order that matches the room's history, a
guest whose GameOver is still to come has not scored, and whatever score one machine
has and the other has not is in a frame to it, or will be sent when the frame before
it is read (`Told`). Each action's effect on channels, flags and boards is stated once
and the invariants are proved from that.

**Downloads.** Assumed: cards and workers are finite sets. `ArtInv`: a code in flight
is in one place of the queue or at one worker; the counter, with the increment that is
still to be made, is the number of codes in flight plus that of workers between the
lock and the decrement (counted with `FiniteSetTheorems`). `SetupInv` follows an
offered release and the partial file through the two threads; that the launched file
is whole is not claimed, since the code does not see to it. Tags are any numbers; that
a release which is newer is above the present one is by the first number that differs.

**Arcade.** Assumed: there are finitely many cards, and a wheel's prizes are natural
numbers. `IInv` says that every campaign on file balances with what it was given and
spent (`Balanced`), that the campaign in memory is the one on file unless a draft is
on, and that what the wheel is about to pay is a prize. Of a campaign whose save a kill
has torn, `Balanced` says only that it has no more than it was given. A pool is
summed in the order in which `CHOOSE` picks its cards; the lemmas on `SumOver` show
that the order does not matter.

**ReplayLibrary.** Assumed: a response is a sequence of bytes, and a name the user
gives is no time stamp. A file is cut from one save (`Cut`) and bears, under a
stamp, the second in which its duel began; only a whole file parses to its end. The
loader is a fold over lines; it returns the recording of a whole file and refuses a
torn one, digits included. `FinishedDuelsKept` is preserved because a file is replaced
only by one of the same name, and by the same stamp only by a duel of the same second.

**DeckBuilder.** Assumed: different cards have different passcodes, which fit 32 bits,
and ranks; the lines that mark sections are no cards; the starter deck and the shared
ones are decks. `SavedMeansStored` speaks of a deck without changes only, which an
edit that is taken back can turn into again. `BuilderInv` therefore relates the file
that is open to the *saved* copy, whatever is on the table, and says that the list,
read at some time, shows only files that are there. `TidyMakesLegal` is proved of every
deck: placing cards one by one keeps the zones within their caps and the copies within
the limit (`Put`, `Keep`), takes nothing from a legal deck, and the sort that ends it
changes no number of copies. For `ShareRoundTrip`, three bytes are four digits of
base64 and back, and the padding marks the one or two bytes missing from the last
group; the bytes of four passcodes make three, and so on for the rest.

### Model-checked only

* Liveness and ENABLED are beyond TLAPS: `PromptReachesClient`, `EndReachesClient`,
  `SurrenderEndsDuel`, `PumpSettles`, `OpponentSettles`, `LandedArtAppears`.

The library's induction theorems cannot be used here. Where a proof needs induction
over data (a fold, a recursive function, a sum), it takes the least number for which
the claim fails (`WFMin` of `WellFoundedInduction`) and shows that there is none.

## 5. Abstractions

* Card data, names, labels, logs, animation and sound are left out; chat and
  sandbox edits change no protocol state.
* HostAuth: one duel per connection, since the online Game Over panel offers no
  rematch. Which cards a multi-pick's ticks name is left out; a click on a card in
  the hand and one on the field are one.
* Relay: any join may be refused, which stands for passwords; listing rooms and
  Ping/Pong change no room; a timeout is a connection that breaks. `forward_raw`
  takes no lock between looking a peer up and writing to it; the peer can
  meanwhile only be dropped, and a frame for a dead connection is lost.
* Lobby: what one handler or click writes travels as one packet, because the
  worker writes the outbox out in one go. The LAN lobby exchanges the same
  messages without a relay.
* Practice: which answer the opponent picks and how long beats last are
  nondeterministic, and any park of the opponent is possible. What the engine does
  with a handler's recorded answer at another request is not followed. `SnapshotManager`'s
  rewind and jump are called from nowhere; its stack is only written.
* Prompts: strength comparisons that need the field (does the attacker beat a
  blocker) are left open; the sum search may end with any set it can meet, its
  node budget is left out. Pacing is Practice's.
* Sessions: passive opponents, muting, step timing, redo and the puzzle's verdict
  are left out; the duel asks, is answered, and ends.
* ReplayLibrary: the event log is left out; a line is a value, and digits are kept
  only for responses.
* GroupDuel: the lobby's handshake is Lobby's and the duel HostAuth's; a frame is
  handled whole. Arcade: a pack is one card, rarities are two.
* DeckBuilder: search and filters may list any card; the names of formats are
  numbers with a map to the file a name is cut down to.
* Downloads: an installer is whole or cut off, a picture right or not; mirrors are
  tried within one fetch, which may fail.

### Not modelled

* ScriptFetcher: one blocking call whose pool is joined before it returns, so no
  order can be observed from outside.
* Legacy dual-engine lockstep: an opt-in debugging mode the host-authoritative
  protocol replaced, reached from no ordinary game.
* ocgcore is a third-party library and appears as an external actor.
* CardDB, settings, asset paths: look-ups and flat files. UIStyle, animation,
  audio, presence, crash handler and the drawing in Renderer: presentation, on
  which no state of the program depends.
* The field that DuelManager assembles from the engine's messages is data for the
  board views; HostAuth has it as a board value.

## 6. Observations

Seen while modelling. The models contain each of these; no property claims the
contrary, and where a property had to make room its comment says so.

Online play.
* A surrender that crosses the end forfeits a finished duel, and the host then
  shows another winner than it announced (`DuelManager.h:409`; `UI.cpp:2014`,
  7437 against the comment at 1986).
* The ways out of an online duel keep ready and remote deck: a host's next, empty
  room has an enabled Start button (`UI.cpp:194` against 16184).
* The final board is not sent, since the pump looks when the engine no longer
  runs (`UI.cpp:893`). A change outside the coarse hash sends no board.
* A card of a prompt for several cards can be clicked on the board or in the hand
  (`UI.cpp:8807-8814`, 9775). It was registered without bytes (`UI.cpp:1185-1200`), so
  the host refuses it (`UI.cpp:1410-1412`): an honest click locks the client for the
  rest of the duel, and the prompt, which the click has cleared, is not sent again.
* A guest who joins while the host is dropped may get RoomClosed before RoomJoined
  and stay in a dead room (`tools/relay_server.py:258-268`, 348-371).

Offline duels.
* A pacing flag raised in an unpaced step is consumed by a later one; if that
  step raised a request, the next frame calls the engine without a response
  (`DuelManager.cpp:696`). A rewind within a hold rebuilds an engine that is never
  pumped (`DuelManager.cpp:537` against `TestingTimeline.h:15-18`). Back and then
  forward truncates the recording and never restores it (`UI.cpp:3481`): answer a,
  go back to 0 and forward to 1, answer b, go back to 1, and b is in the recording
  while the timeline's prefix is a (against `UI.cpp:3443`).
* What a message handler answers by itself (`DuelManager.cpp:1727`, 1738, 1770, 1803,
  1851, 2105-2158) goes into timeline and replay like a player's answer
  (`UI.cpp:3521-3540`). A rebuild or a playback makes the handler answer again, with
  the recorder off (`UI.cpp:3158`, 3398), and the recorded copy goes to the next
  request, maybe the other seat's (against `TestingTimeline.h:13-19`). In both local
  mode is off, so the player's positions and announcements, asked of the player in the
  live duel, are then answered by the handler as well. Undo takes such answers for
  seat 0's (`DuelManager.h:203`) and may stop at one (against `UI.cpp:3526-3527`).
* Staged picks survive Undo and a new duel (`UI.cpp:10568-10570` says otherwise);
  a board click in a multi-select sends one card and leaves them; a board click on
  a Tribute prompt sends a bare index (against `UI.cpp:8807`). A place prompt with
  free zones on the other side only has no button.
* An opponent's request that a handler answers inline and the engine refuses (a
  card name, a sum without solution) never meets the retry cap (against
  `DuelManager.cpp:2198-2204`). The opponent's memory outlives a duel.
* Undo in a puzzle or board break rebuilds the practice duel before it; no rebuild
  arms a gauntlet or board break again. The pause menu works in a replay (against
  `UI.cpp:3553`); Quit to Lobby there leaves replay mode on. "Play this opening" is
  shuffled (against `UI.cpp:12637`). Victory notices and history compare with
  seat 0.

Replays, decks, campaign, downloads.
* The browser's copy accumulates what it loads (`Replay.h:418-466`); two duels of
  one second share a file name; a save is rewritten in place and reports success
  before the last flush.
* Overwriting a deck that fails counts as saved (`UI.cpp:14010`); Save while siding
  overwrites a deck file with the sided one (`UI.cpp:13786`).
* The host may score a duel twice, since its pump lacks the guard the guest has
  (`UI.cpp:2459` against `ArcadeSave.h:38`); manual result buttons reappear after
  the reset (`UI.cpp:635`). A key picked in one campaign opens a pack in another
  (`UI.cpp:18731`). A kill inside the save loses the lines not written yet
  (`ArcadeSave.h:143`), and an empty, torn save hands packs out again. The duplicate test
  at `UI.cpp:18753` compares iterators of different temporary lists.
* A placeholder cached after a failed fetch stays (against `ImageFetcher.cpp:65-68`);
  a copy that breaks off leaves a torn picture that is later shown; a body that is no
  picture or ends early counts as fetched (`ImageFetcher.cpp:192-205`, 238-240), and
  the placeholder is then cached for good (`Renderer.cpp:304`); the counter may be -1
  for a moment. An installer whose download broke off after some bytes is renamed and
  launched: the length is not compared with what was announced, nor the result of
  closing the file looked at (`UpdateChecker.cpp:266-290`).

## 7. Plan

Done, in this order: the online duel and its referee, relay, lobby, practice duel,
group campaign, single-machine campaign, deck builder, sessions, downloads,
replay library, prompts; then the proofs of section 4.

Left: the LAN lobby beside the relay's.
