------------------------------ MODULE HostAuth ------------------------------
(***************************************************************************)
(* The host-authoritative multiplayer duel of src/src/UI.cpp.              *)
(*                                                                         *)
(* Only the host runs an engine.  After every engine advance it ships a    *)
(* FieldSnapshot and, for each engine prompt, a PromptSnapshot; the client *)
(* renders from these and answers with a ClientChoice that names the       *)
(* prompt's sequence number.  The host runs one frame at a time:           *)
(*                                                                         *)
(*   hpc = "process"   DuelManager::process pumps the engine               *)
(*   hpc = "pump"      UI::pumpMultiplayer drains the inbox, then ships    *)
(*   hpc = "draw"      UI::drawDuel: end-of-duel check, then local input   *)
(*                                                                         *)
(* The client is a second program that runs at any pace; the two share     *)
(* only the FIFO channels toClient and toHost.  One duel is played per     *)
(* connection (the online Game Over panel offers no rematch).              *)
(*                                                                         *)
(* Definitions named Faulty... are not used by the specification: each is  *)
(* a plausible bug in the definition that follows it, kept to show which   *)
(* property would notice it.                                               *)
(***************************************************************************)
EXTENDS Naturals, Sequences

CONSTANTS
    Host, Client,       \* the two seats: engine players 0 and 1
    Draw,               \* the winner byte of a drawn duel
    NoWinner,           \* m_winner before the duel has ended
    Shapes,             \* what two prompts of one owner can differ in
    RawShape,           \* WaitType::RawPrompt: a request with no parser
    NoShape,            \* WaitType::None: no selection
    MultiPicks,         \* shapes: SelectCard/SelectTribute of several cards
    Choices,            \* clicks that come with an answer: a choice id with
                        \* response bytes, or a multi-pick's confirmed cards
    Candidates,         \* choice ids of a multi-pick's cards, without bytes
    Coarse, Detail,     \* the parts of a board inside / outside the dedup hash
    MaxPrompts,         \* bound: engine prompts in a run
    MaxStarts,          \* bound: Start Duel clicks in a run
    MaxSurrenders,      \* bound: client surrenders in a run
    MaxLag              \* bound: unread messages to the client beyond which
                        \* the engine does not run on by itself

ASSUME SeatsAssumption == Host # Client
ASSUME WinnerAssumption == NoWinner \notin {Host, Client, Draw}
ASSUME ShapesAssumption == NoShape \notin Shapes \cup {RawShape}
ASSUME ChoicesAssumption == MultiPicks \subseteq Shapes /\ Choices \cap Candidates = {}
ASSUME BoundsAssumption ==
    /\ MaxPrompts \in Nat /\ MaxStarts \in Nat
    /\ MaxSurrenders \in Nat /\ MaxLag \in Nat

Seats   == {Host, Client}
Winners == {Host, Client, Draw}
Ids     == Choices \cup Candidates
Boards  == [coarse : Coarse, detail : Detail]

\* DuelManager::m_selection.  no = 0 stands for WaitType::None; otherwise no
\* numbers the engine's prompts (a ghost: the code has no such number).
NoSel      == [no |-> 0, owner |-> Host, shape |-> NoShape]
Selections == [no : 0..MaxPrompts, owner : Seats,
               shape : Shapes \cup {RawShape, NoShape}]

\* The identity hash of a prompt; NoIdentity is the code's reset value 0.
\* Two prompts of one owner and shape hash alike.
Identity(s) == [owner |-> s.owner, shape |-> s.shape]
NoIdentity  == Identity(NoSel)
Identities  == [owner : Seats, shape : Shapes \cup {RawShape, NoShape}]

VARIABLES
    \* --- host: DuelManager
    running, done, winner,  \* m_running, m_done, m_winner
    sel,                    \* m_selection
    board,                  \* m_field
    \* --- host: UI
    hpc,                    \* position in the frame
    inDuel,                 \* m_mpInDuel
    hostPromptSeq,          \* m_mpHostPromptSeq
    hostIdentity,           \* m_mpHostLastPromptIdentity
    hostChoices,            \* m_mpHostChoices: the registered ids
    choicesForSeq,          \* m_mpHostChoicesForSeq
    fieldHash,              \* m_mpHostLastFieldHash; {} is the reset value 0
    gameOverSent,           \* m_mpGameOverSent
    endFired,               \* m_endGameSfxFired
    popup,                  \* the "Surrender?" confirm popup is open
    \* --- client: UI
    cInDuel, cDuelActive,   \* m_mpInDuel, m_mpRemoteDuelActive
    cField,                 \* m_mpRemoteField as {} (not valid) or {board}
    cSel, cSelValid,        \* m_mpRemoteSel, m_mpRemoteSelValid
    cOppWait,               \* m_mpOppPromptWait
    cAwaiting,              \* m_mpAwaitingHostUpdate
    cDone, cWinner,         \* m_mpRemoteDone, m_mpRemoteWinner
    cDesynced,              \* m_mpDesynced
    \* --- network
    link, toClient, toHost,
    \* --- ghosts
    promptNo,               \* number of prompts the engine has raised
    tableNo,                \* the prompt hostChoices was built from
    answers,                \* every response handed to the engine
    misclicked,             \* the prompt with a click on a bare candidate, or 0
    announced,              \* the winner in the GameOver that was sent
    starts, surrenders

engineVars == <<running, done, winner, sel, board, promptNo>>
tableVars  == <<hostPromptSeq, hostIdentity, hostChoices, choicesForSeq,
                tableNo>>
hostVars   == <<inDuel, fieldHash, gameOverSent, endFired, popup, starts,
                announced>>
clientVars == <<cInDuel, cDuelActive, cField, cSel, cSelValid, cOppWait,
                cAwaiting, cDone, cWinner, cDesynced, surrenders, misclicked>>
netVars    == <<link, toClient, toHost>>
vars == <<engineVars, tableVars, hostVars, hpc, clientVars, netVars, answers>>

(***************************************************************************)
(* Messages                                                                *)
(***************************************************************************)
StartDuelMsg == [type : {"StartDuel"}]
FieldMsg     == [type : {"FieldSnapshot"}, board : Boards]
PromptMsg    == [type : {"PromptSnapshot"}, seq : Nat, owner : Seats,
                 choices : SUBSET Ids, no : 0..MaxPrompts]
SyncErrorMsg == [type : {"SyncError"}]
GameOverMsg  == [type : {"GameOver"}, winner : Winners]
ToClientMsg  == StartDuelMsg \cup FieldMsg \cup PromptMsg \cup SyncErrorMsg
                  \cup GameOverMsg

ChoiceMsg    == [type : {"ClientChoice"}, seq : Nat, id : Ids,
                 no : 0..MaxPrompts]
SurrenderMsg == [type : {"Surrender"}, seat : Seats]
ToHostMsg    == ChoiceMsg \cup SurrenderMsg

NoPrompt == [type |-> "PromptSnapshot", seq |-> 0, owner |-> Host,
             choices |-> {}, no |-> 0]

\* NetSession::send drops the message when the connection is down.
Sent(chan, msgs) == IF link THEN chan \o msgs ELSE chan

(***************************************************************************)
(* What the host ships                                                     *)
(***************************************************************************)
IsRealSelect(s) == s.no # 0

\* buildAndSendFieldSnapshot: the snapshot goes out only while the engine
\* runs and when the coarse hash differs from the last one sent.
FieldDue(b, h) == inDuel /\ running /\ {b.coarse} # h
FieldOut(b, h) ==
    IF FieldDue(b, h) THEN <<[type |-> "FieldSnapshot", board |-> b]>> ELSE <<>>

\* buildAndSendPromptSnapshotIfRemote ships s when its identity is new.
FaultyPromptDueTable(s, id) ==    \* a table that is still open blocks
    /\ inDuel /\ running /\ IsRealSelect(s) /\ Identity(s) # id
    /\ choicesForSeq = 0
FaultyPromptDueNotice(s, id) ==   \* no notice of host-owned prompts
    inDuel /\ running /\ IsRealSelect(s) /\ Identity(s) # id /\ s.owner = Client
PromptDue(s, id) == inDuel /\ running /\ IsRealSelect(s) /\ Identity(s) # id

\* The choice table of a prompt, and what is shipped of it: nothing for a
\* host-owned notice; of a multi-pick every card by itself as well.  (A raw
\* prompt's placeholder is drawn nowhere.)
ChoicesOf(s) ==
    IF s.owner # Client \/ s.shape = RawShape THEN {}
    ELSE IF s.shape \in MultiPicks THEN Choices \cup Candidates
    ELSE Choices

PromptOf(s, seq) ==
    [type |-> "PromptSnapshot", seq |-> seq, owner |-> s.owner,
     choices |-> ChoicesOf(s), no |-> s.no]

\* The effect on the prompt bookkeeping of shipping s, given the identity id
\* and choice-table state the caller leaves behind.
FaultyShipPrompt(s, id, table) ==  \* the table keeps its old sequence number
    IF PromptDue(s, id)
    THEN /\ hostPromptSeq' = hostPromptSeq + 1
         /\ hostIdentity'  = Identity(s)
         /\ hostChoices'   = ChoicesOf(s)
         /\ choicesForSeq' = hostPromptSeq
         /\ tableNo'       = s.no
    ELSE /\ hostIdentity'  = IF inDuel /\ running /\ ~IsRealSelect(s)
                             THEN NoIdentity ELSE id
         /\ hostChoices'   = table.ids
         /\ choicesForSeq' = table.seq
         /\ UNCHANGED <<hostPromptSeq, tableNo>>
ShipPrompt(s, id, table) ==
    IF PromptDue(s, id)
    THEN /\ hostPromptSeq' = hostPromptSeq + 1
         /\ hostIdentity'  = Identity(s)
         /\ hostChoices'   = ChoicesOf(s)
         /\ choicesForSeq' = hostPromptSeq + 1
         /\ tableNo'       = s.no
    ELSE /\ hostIdentity'  = IF inDuel /\ running /\ ~IsRealSelect(s)
                             THEN NoIdentity ELSE id
         /\ hostChoices'   = table.ids
         /\ choicesForSeq' = table.seq
         /\ UNCHANGED <<hostPromptSeq, tableNo>>

PromptOut(s, id) ==
    IF PromptDue(s, id) THEN <<PromptOf(s, hostPromptSeq + 1)>> ELSE <<>>

Table == [ids |-> hostChoices, seq |-> choicesForSeq]
NoTable == [ids |-> {}, seq |-> 0]

\* resetMpResponseState, the host's half.
ResetHost ==
    /\ hostPromptSeq' = 0
    /\ hostIdentity'  = NoIdentity
    /\ hostChoices'   = {}
    /\ choicesForSeq' = 0
    /\ fieldHash'     = {}
    /\ gameOverSent'  = FALSE
    /\ UNCHANGED tableNo

\* resetMpResponseState, the client's half.
ResetClient ==
    /\ cField' = {}
    /\ cSel' = NoPrompt
    /\ cSelValid' = FALSE
    /\ cOppWait' = FALSE
    /\ cAwaiting' = FALSE
    /\ cDone' = FALSE
    /\ cWinner' = NoWinner
    /\ cDesynced' = FALSE

\* DuelManager::forfeit.  Its guard lets a finished duel be forfeited again.
Forfeit(seat) ==
    /\ winner'  = IF seat = Host THEN Client ELSE Host
    /\ done'    = TRUE
    /\ running' = FALSE
    /\ UNCHANGED <<sel, board, promptNo>>

FaultyRespond(by, seen, of) ==    \* the selection is not cleared
    /\ answers' = answers \cup {[prompt |-> sel.no, by |-> by,
                                 seen |-> seen, of |-> of,
                                 seq |-> hostPromptSeq]}
    /\ UNCHANGED sel

\* submitResponse: the engine takes the response and the selection clears.
Respond(by, seen, of) ==
    /\ answers' = answers \cup {[prompt |-> sel.no, by |-> by,
                                 seen |-> seen, of |-> of,
                                 seq |-> hostPromptSeq]}
    /\ sel' = NoSel

-----------------------------------------------------------------------------
Init ==
    /\ running = FALSE /\ done = FALSE /\ winner = NoWinner /\ sel = NoSel
    /\ board \in Boards
    /\ hpc = "process"
    /\ inDuel = FALSE
    /\ hostPromptSeq = 0 /\ hostIdentity = NoIdentity
    /\ hostChoices = {} /\ choicesForSeq = 0 /\ fieldHash = {}
    /\ gameOverSent = FALSE /\ endFired = FALSE /\ popup = FALSE
    /\ cInDuel = FALSE /\ cDuelActive = FALSE /\ cField = {}
    /\ cSel = NoPrompt /\ cSelValid = FALSE /\ cOppWait = FALSE
    /\ cAwaiting = FALSE /\ cDone = FALSE /\ cWinner = NoWinner
    /\ cDesynced = FALSE
    /\ link = TRUE /\ toClient = <<>> /\ toHost = <<>>
    /\ promptNo = 0 /\ tableNo = 0 /\ answers = {}
    /\ announced = NoWinner
    /\ starts = 0 /\ surrenders = 0 /\ misclicked = 0

(***************************************************************************)
(* The host's frame: "process"                                             *)
(***************************************************************************)
EngineKeeps ==
    /\ hpc = "process"
    /\ hpc' = "pump"
    /\ UNCHANGED <<tableVars, hostVars, clientVars, netVars, answers>>

\* process() returns at once: no duel, the duel is over, or the engine waits
\* for a response nobody has produced (a raw prompt parks it the same way).
EngineIdle ==
    /\ EngineKeeps
    /\ ~running \/ IsRealSelect(sel)
    /\ UNCHANGED engineVars

\* The engine runs up to a request for input.
EngineAsk ==
    /\ EngineKeeps
    /\ running /\ ~IsRealSelect(sel) /\ promptNo < MaxPrompts
    /\ \E owner \in Seats, shape \in Shapes \cup {RawShape} :
         sel' = [no |-> promptNo + 1, owner |-> owner, shape |-> shape]
    /\ promptNo' = promptNo + 1
    /\ board' \in Boards
    /\ UNCHANGED <<running, done, winner>>

\* The frame ends on the step cap or a pacing hold, with no request yet.
EngineYield ==
    /\ EngineKeeps
    /\ running /\ ~IsRealSelect(sel) /\ Len(toClient) < MaxLag
    /\ board' \in Boards
    /\ UNCHANGED <<running, done, winner, sel, promptNo>>

\* MSG_WIN: the pump stops and the duel is done.
EngineWin ==
    /\ EngineKeeps
    /\ running /\ ~IsRealSelect(sel)
    /\ winner' \in Winners
    /\ done' = TRUE
    /\ running' = FALSE
    /\ board' \in Boards
    /\ UNCHANGED <<sel, promptNo>>

(***************************************************************************)
(* The host's frame: "pump"                                                *)
(***************************************************************************)
\* handleClientChoice's checks, in the code's order; the last is that there are
\* response bytes.  (The ticks of a multi-pick are in range: the Confirm button
\* is disabled otherwise.)
ChoiceAcceptable(m) ==
    /\ m.seq = hostPromptSeq
    /\ m.seq = choicesForSeq
    /\ IsRealSelect(sel)
    /\ sel.owner = Client
    /\ m.id \in hostChoices
    /\ m.id \in Choices

\* A refused choice: the client is told it is out of sync; nothing is resent.
HandleClientChoiceBail ==
    /\ hpc = "pump" /\ toHost # <<>> /\ Head(toHost).type = "ClientChoice"
    /\ ~ChoiceAcceptable(Head(toHost))
    /\ toHost' = Tail(toHost)
    /\ toClient' = Sent(toClient, <<[type |-> "SyncError"]>>)
    /\ UNCHANGED <<engineVars, tableVars, hostVars, hpc, clientVars, link,
                   answers>>

\* An accepted choice: the engine takes the registered bytes, the table is
\* consumed, and field and prompt are shipped again at once.
HandleClientChoiceApply ==
    /\ hpc = "pump" /\ toHost # <<>> /\ Head(toHost).type = "ClientChoice"
    /\ ChoiceAcceptable(Head(toHost))
    /\ toHost' = Tail(toHost)
    /\ Respond(Client, Head(toHost).no, tableNo)
    /\ ShipPrompt(NoSel, NoIdentity, NoTable)
    /\ fieldHash' = IF FieldDue(board, fieldHash) THEN {board.coarse}
                                                  ELSE fieldHash
    /\ toClient' = Sent(toClient, FieldOut(board, fieldHash))
    /\ UNCHANGED <<running, done, winner, board, promptNo, inDuel,
                   gameOverSent, endFired, popup, starts, announced, hpc,
                   clientVars, link>>

FaultyHandleSurrender ==          \* only a client that is asked may concede
    /\ hpc = "pump" /\ toHost # <<>> /\ Head(toHost).type = "Surrender"
    /\ toHost' = Tail(toHost)
    /\ IF (running \/ done) /\ sel.owner = Client
       THEN Forfeit(Head(toHost).seat)
       ELSE UNCHANGED engineVars
    /\ UNCHANGED <<tableVars, hostVars, hpc, clientVars, link, toClient,
                   answers>>

\* handleSurrender: no check that a duel is still being played.
HandleSurrender ==
    /\ hpc = "pump" /\ toHost # <<>> /\ Head(toHost).type = "Surrender"
    /\ toHost' = Tail(toHost)
    /\ IF running \/ done
       THEN Forfeit(Head(toHost).seat)
       ELSE UNCHANGED engineVars
    /\ UNCHANGED <<tableVars, hostVars, hpc, clientVars, link, toClient,
                   answers>>

HostReceive ==
    HandleClientChoiceBail \/ HandleClientChoiceApply \/ HandleSurrender

\* The tail of pumpMultiplayer: field, prompt, and once the duel is done the
\* GameOver.  Messages that arrive after the drain wait for the next frame.
FaultyGameOverDueLate == inDuel /\ running /\ done /\ ~gameOverSent
GameOverDue == inDuel /\ done /\ ~gameOverSent
GameOverOut ==
    IF GameOverDue THEN <<[type |-> "GameOver", winner |-> winner]>> ELSE <<>>

HostShip ==
    /\ hpc = "pump"
    /\ hpc' = "draw"
    /\ ShipPrompt(sel, hostIdentity, Table)
    /\ fieldHash' = IF FieldDue(board, fieldHash) THEN {board.coarse}
                                                  ELSE fieldHash
    /\ gameOverSent' = (gameOverSent \/ GameOverDue)
    /\ announced' = IF GameOverDue THEN winner ELSE announced
    /\ toClient' = Sent(toClient, FieldOut(board, fieldHash)
                                    \o PromptOut(sel, hostIdentity)
                                    \o GameOverOut)
    /\ UNCHANGED <<engineVars, inDuel, endFired, popup, starts, clientVars,
                   link, toHost, answers>>

(***************************************************************************)
(* The host's frame: "draw"                                                *)
(***************************************************************************)
DuelEndUnseen == done /\ ~endFired

\* drawDuel sees the finished duel for the first time: the in-duel flag drops
\* and every multiplayer latch is reset.
HostEndDuel ==
    /\ hpc = "draw" /\ DuelEndUnseen
    /\ endFired' = TRUE
    /\ inDuel' = FALSE
    /\ ResetHost
    /\ UNCHANGED <<engineVars, popup, starts, announced, hpc, clientVars,
                   netVars, answers>>

\* The player whose prompt it is clicks; the recorder clears the identity.
HostRespond ==
    /\ hpc = "draw" /\ ~DuelEndUnseen
    /\ inDuel /\ running /\ IsRealSelect(sel)
    /\ sel.owner = Host /\ sel.shape # RawShape
    /\ Respond(Host, sel.no, sel.no)
    /\ hostIdentity' = NoIdentity
    /\ hpc' = "process"
    /\ UNCHANGED <<running, done, winner, board, promptNo,
                   hostPromptSeq, hostChoices, choicesForSeq, tableNo,
                   hostVars, clientVars, netVars>>

\* The Surrender button opens a confirm popup while the duel runs ...
HostOpenSurrender ==
    /\ hpc = "draw" /\ ~DuelEndUnseen
    /\ running /\ ~done /\ inDuel /\ ~popup
    /\ popup' = TRUE
    /\ hpc' = "process"
    /\ UNCHANGED <<engineVars, tableVars, inDuel, fieldHash, gameOverSent,
                   endFired, starts, announced, clientVars, netVars, answers>>

\* ... and the popup stays usable until it is confirmed or cancelled, also
\* when the duel has ended meanwhile.
HostConfirmSurrender ==
    /\ hpc = "draw" /\ ~DuelEndUnseen /\ popup
    /\ Forfeit(Host)
    /\ popup' = FALSE
    /\ hpc' = "process"
    /\ UNCHANGED <<tableVars, inDuel, fieldHash, gameOverSent, endFired,
                   starts, announced, clientVars, netVars, answers>>

HostCancelSurrender ==
    /\ hpc = "draw" /\ ~DuelEndUnseen /\ popup
    /\ popup' = FALSE
    /\ hpc' = "process"
    /\ UNCHANGED <<engineVars, tableVars, inDuel, fieldHash, gameOverSent,
                   endFired, starts, announced, clientVars, netVars, answers>>

\* sendMpStartDuel, with both decks exchanged and both players ready.  The
\* StartDuel packet goes out before the host's own engine is created, and
\* that creation may fail.
HostStartDuel ==
    /\ hpc = "draw" /\ ~DuelEndUnseen
    /\ ~inDuel /\ ~done /\ starts < MaxStarts
    /\ starts' = starts + 1
    /\ hostPromptSeq' = 0 /\ hostIdentity' = NoIdentity
    /\ hostChoices' = {} /\ choicesForSeq' = 0
    /\ gameOverSent' = FALSE /\ endFired' = FALSE
    /\ board' \in Boards
    /\ \/ /\ running' = TRUE /\ inDuel' = TRUE
          /\ fieldHash' = {board'.coarse}
          /\ toClient' = Sent(toClient,
                <<[type |-> "StartDuel"],
                  [type |-> "FieldSnapshot", board |-> board']>>)
       \/ /\ fieldHash' = {}
          /\ toClient' = Sent(toClient, <<[type |-> "StartDuel"]>>)
          /\ UNCHANGED <<running, inDuel>>
    /\ hpc' = "process"
    /\ UNCHANGED <<done, winner, sel, promptNo, announced, tableNo, popup,
                   clientVars, link, toHost, answers>>

HostIdle ==
    /\ hpc = "draw" /\ ~DuelEndUnseen
    /\ hpc' = "process"
    /\ UNCHANGED <<engineVars, tableVars, hostVars, clientVars, netVars,
                   answers>>

(***************************************************************************)
(* The client                                                              *)
(***************************************************************************)
ClientReceives(type) ==
    /\ toClient # <<>> /\ Head(toClient).type = type
    /\ toClient' = Tail(toClient)
    /\ UNCHANGED <<engineVars, tableVars, hostVars, hpc, link, toHost,
                   answers, surrenders, misclicked>>

HandleStartDuel ==
    /\ ClientReceives("StartDuel")
    /\ ResetClient
    /\ cInDuel' = TRUE
    /\ cDuelActive' = TRUE

HandleFieldSnapshot ==
    /\ ClientReceives("FieldSnapshot")
    /\ cField' = {Head(toClient).board}
    /\ cDuelActive' = TRUE
    /\ cAwaiting' = FALSE
    /\ UNCHANGED <<cInDuel, cSel, cSelValid, cOppWait, cDone, cWinner,
                   cDesynced>>

FaultyHandlePromptSnapshot ==     \* the owner of the prompt is not looked at
    /\ ClientReceives("PromptSnapshot")
    /\ cSel' = Head(toClient)
    /\ cSelValid' = TRUE
    /\ cOppWait' = FALSE
    /\ cAwaiting' = FALSE
    /\ UNCHANGED <<cInDuel, cDuelActive, cField, cDone, cWinner, cDesynced>>

\* A snapshot of the prompt already shown changes nothing; a notice of the
\* opponent's prompt drops ours; any other snapshot becomes our prompt.
HandlePromptSnapshot ==
    /\ ClientReceives("PromptSnapshot")
    /\ LET p == Head(toClient) IN
       \/ /\ cSelValid /\ p.seq = cSel.seq
          /\ UNCHANGED <<cSel, cSelValid, cOppWait, cAwaiting>>
       \/ /\ ~(cSelValid /\ p.seq = cSel.seq) /\ p.owner # Client
          /\ cSelValid' = FALSE
          /\ cOppWait' = TRUE
          /\ cAwaiting' = FALSE
          /\ UNCHANGED cSel
       \/ /\ ~(cSelValid /\ p.seq = cSel.seq) /\ p.owner = Client
          /\ cSel' = p
          /\ cSelValid' = TRUE
          /\ cOppWait' = FALSE
          /\ cAwaiting' = FALSE
    /\ UNCHANGED <<cInDuel, cDuelActive, cField, cDone, cWinner, cDesynced>>

HandleSyncError ==
    /\ ClientReceives("SyncError")
    /\ cDesynced' = TRUE
    /\ UNCHANGED <<cInDuel, cDuelActive, cField, cSel, cSelValid, cOppWait,
                   cAwaiting, cDone, cWinner>>

HandleGameOver ==
    /\ ClientReceives("GameOver")
    /\ cDone' = TRUE
    /\ cWinner' = Head(toClient).winner
    /\ UNCHANGED <<cInDuel, cDuelActive, cField, cSel, cSelValid, cOppWait,
                   cAwaiting, cDesynced>>

ClientReceive ==
    \/ HandleStartDuel \/ HandleFieldSnapshot \/ HandlePromptSnapshot
    \/ HandleSyncError \/ HandleGameOver

FaultySendClientChoice ==         \* the prompt is not cleared: a second click
    /\ cInDuel /\ cField # {} /\ cSelValid /\ ~cDesynced
    /\ Len(toHost) < 2
    /\ \E id \in cSel.choices :
         /\ toHost' = Sent(toHost, <<[type |-> "ClientChoice", seq |-> cSel.seq,
                                      id |-> id, no |-> cSel.no]>>)
         /\ misclicked' = IF id \in Candidates THEN cSel.no ELSE misclicked
    /\ cAwaiting' = TRUE
    /\ UNCHANGED <<cInDuel, cDuelActive, cField, cSel, cSelValid, cOppWait,
                   cDone, cWinner, cDesynced, surrenders, link, toClient,
                   engineVars, tableVars, hostVars, hpc, answers>>

\* submitMpChoice, submitMultiCards and sendClientChoice: the prompt is cleared
\* optimistically.  A card of a multi-pick is ticked in the picker, which confirms
\* them together, but a click on it on the board sends its own id.
SendClientChoice ==
    /\ cInDuel /\ cField # {} /\ cSelValid /\ ~cDesynced
    /\ \E id \in cSel.choices :
         /\ toHost' = Sent(toHost, <<[type |-> "ClientChoice", seq |-> cSel.seq,
                                      id |-> id, no |-> cSel.no]>>)
         /\ misclicked' = IF id \in Candidates THEN cSel.no ELSE misclicked
    /\ cSelValid' = FALSE
    /\ cAwaiting' = TRUE
    /\ UNCHANGED <<cInDuel, cDuelActive, cField, cSel, cOppWait, cDone,
                   cWinner, cDesynced, surrenders, link, toClient, engineVars,
                   tableVars, hostVars, hpc, answers>>

\* sendSurrender: the button stays up after the GameOver, because neither
\* m_mpInDuel nor m_mpRemoteDuelActive is cleared by it.
SendSurrender ==
    /\ cInDuel /\ cDuelActive /\ surrenders < MaxSurrenders
    /\ surrenders' = surrenders + 1
    /\ toHost' = Sent(toHost, <<[type |-> "Surrender", seat |-> Client]>>)
    /\ UNCHANGED <<cInDuel, cDuelActive, cField, cSel, cSelValid, cOppWait,
                   cAwaiting, cDone, cWinner, cDesynced, misclicked, link,
                   toClient, engineVars, tableVars, hostVars, hpc, answers>>

\* The connection dies.  What was received before is still delivered, the
\* rest of both streams is lost.
LinkDown ==
    /\ link
    /\ link' = FALSE
    /\ \E i \in 0..Len(toClient) : toClient' = SubSeq(toClient, 1, i)
    /\ \E j \in 0..Len(toHost) : toHost' = SubSeq(toHost, 1, j)
    /\ UNCHANGED <<engineVars, tableVars, hostVars, hpc, clientVars, answers>>

-----------------------------------------------------------------------------
HostFrame == EngineIdle \/ EngineAsk \/ EngineYield \/ EngineWin
               \/ HostShip \/ HostEndDuel \/ HostIdle

HostInput == HostRespond \/ HostOpenSurrender \/ HostConfirmSurrender
               \/ HostCancelSurrender \/ HostStartDuel

ClientInput == SendClientChoice \/ SendSurrender

Next == HostFrame \/ HostReceive \/ HostInput
          \/ ClientReceive \/ ClientInput \/ LinkDown

Spec == Init /\ [][Next]_vars

\* Both programs keep drawing frames and the network keeps delivering.  No
\* player is ever required to click.
FairSpec == /\ Spec
            /\ WF_vars(HostFrame)
            /\ SF_vars(HostReceive)
            /\ WF_vars(ClientReceive)
-----------------------------------------------------------------------------
(***************************************************************************)
(* Properties                                                              *)
(***************************************************************************)
EngineType ==
    /\ running \in BOOLEAN /\ done \in BOOLEAN
    /\ winner \in Winners \cup {NoWinner}
    /\ sel \in Selections /\ board \in Boards /\ promptNo \in 0..MaxPrompts
TableType ==
    /\ hostPromptSeq \in Nat /\ hostIdentity \in Identities
    /\ hostChoices \in SUBSET Ids /\ choicesForSeq \in Nat
    /\ tableNo \in 0..MaxPrompts
HostType ==
    /\ inDuel \in BOOLEAN /\ gameOverSent \in BOOLEAN
    /\ endFired \in BOOLEAN /\ popup \in BOOLEAN
    /\ fieldHash \in SUBSET Coarse /\ starts \in Nat
    /\ announced \in Winners \cup {NoWinner}
PcType == hpc \in {"process", "pump", "draw"}
ClientType ==
    /\ cInDuel \in BOOLEAN /\ cDuelActive \in BOOLEAN
    /\ cField \in SUBSET Boards
    /\ cSel \in PromptMsg /\ cSelValid \in BOOLEAN
    /\ cOppWait \in BOOLEAN /\ cAwaiting \in BOOLEAN
    /\ cDone \in BOOLEAN /\ cWinner \in Winners \cup {NoWinner}
    /\ cDesynced \in BOOLEAN /\ surrenders \in Nat
    /\ misclicked \in 0..MaxPrompts
NetType ==
    /\ link \in BOOLEAN
    /\ toClient \in Seq(ToClientMsg) /\ toHost \in Seq(ToHostMsg)
AnswersType ==
    answers \subseteq [prompt : 0..MaxPrompts, by : Seats,
                       seen : 0..MaxPrompts, of : 0..MaxPrompts, seq : Nat]

\* Every variable keeps its type: the seqs of UI.h, the messages of NetSession.h.
TypeOK ==
    /\ EngineType /\ TableType /\ HostType /\ PcType
    /\ ClientType /\ NetType /\ AnswersType

ToClient == {toClient[i] : i \in DOMAIN toClient}
ToHost   == {toHost[i] : i \in DOMAIN toHost}

\* Every response the engine takes is for the prompt it is waiting on: the
\* player saw that prompt when clicking, the response bytes were built from
\* it, and no prompt is answered twice (UI::handleClientChoice's seq checks,
\* against stale, crossed and repeated choices).
AnswersFit ==
    /\ \A a \in answers : a.prompt # 0 /\ a.seen = a.prompt /\ a.of = a.prompt
    /\ \A a, b \in answers : a.prompt = b.prompt => a = b

\* While the engine runs, a prompt the client can click is the one the host
\* waits on, and every offered choice is in the host's table under the current
\* sequence number: a click made now, and delivered, is accepted, unless it is
\* the click on the board on a card of a multi-pick, which carries no answer.
ShownPromptIsLive ==
    cSelValid /\ running =>
        /\ sel.no = cSel.no /\ cSel.choices \subseteq hostChoices
        /\ \A id \in cSel.choices \ Candidates :
              ChoiceAcceptable([seq |-> cSel.seq, id |-> id])
        /\ \A m \in ToHost : m.type # "ClientChoice"

\* A client is told that it is out of sync while the duel is being played only
\* for a click on the board on a card of a multi-pick: a SyncError locks its input
\* for good (UI::handleSyncError), so a false one strands the duel.
NoFalseDesync ==
    cDesynced \/ (\E m \in ToClient : m.type = "SyncError")
        => done \/ misclicked # 0

\* When everything sent has arrived, the client shows the host's situation:
\* the phase, life points and zone sizes of its board, its own prompt exactly
\* when it is asked, and the waiting banner while the opponent is asked.  A prompt
\* that a refused click has cleared is not shown again.
QuietClientAgrees ==
    hpc = "draw" /\ running /\ inDuel /\ link
      /\ toClient = <<>> /\ toHost = <<>> =>
        /\ cInDuel
        /\ \A b \in cField : b.coarse = board.coarse
        /\ cField # {}
        /\ IsRealSelect(sel) =>
             IF sel.owner = Client
             THEN misclicked = sel.no \/ (cSelValid /\ cSel.no = sel.no)
             ELSE ~cSelValid /\ cOppWait

\* The protocol implements the referee of DuelReferee.
Picked == {m.no : m \in {c \in ToHost : c.type = "ClientChoice"}}
            \cup {a.prompt : a \in {x \in answers : x.by = Client}}
Referee == INSTANCE DuelReferee WITH
    raised <- promptNo,
    asked  <- [no |-> sel.no, owner |-> sel.owner],
    shown  <- IF cSelValid THEN cSel.no ELSE 0,
    picked <- Picked,
    log    <- {[prompt |-> a.prompt, by |-> a.by] : a \in answers},
    result <- announced,
    told   <- IF cDone THEN cWinner ELSE NoWinner
RefereeSpec == Referee!Spec

\* A prompt for the client that the engine waits on is eventually on the
\* client's screen, or answered, even when it looks like the one before it
\* (the identity hash that suppresses resends must not swallow it).  A refused
\* click has cleared it for good.
PromptReachesClient ==
    \A n \in 1..MaxPrompts :
        running /\ sel.no = n /\ sel.owner = Client
          ~> \/ cSelValid /\ cSel.no = n
             \/ \E a \in answers : a.prompt = n
             \/ misclicked = n \/ done \/ ~link

\* The client learns that the duel is over, however it ended.
EndReachesClient == done ~> cDone \/ ~link

\* A surrender sent during the duel ends it, and the client hears of it.
SurrenderEndsDuel ==
    running /\ (\E m \in ToHost : m.type = "Surrender") ~> cDone \/ ~link
=============================================================================
