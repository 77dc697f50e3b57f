--------------------------- MODULE HostAuthProofs ---------------------------
(***************************************************************************)
(* Proofs about HostAuth: type correctness; every response the engine      *)
(* takes is for the prompt it waits on; what the client shows is what the  *)
(* host waits for, no click on it is refused but one on a bare card of a   *)
(* multi-pick, the protocol implements the referee of DuelReferee, and     *)
(* once all is delivered the client shows the host's situation.            *)
(***************************************************************************)
EXTENDS HostAuth, TLAPS

-----------------------------------------------------------------------------
(* What the shipped messages are made of.                                  *)

\* Sent appends to a channel or leaves it alone.
LEMMA SentType ==
    ASSUME NEW M, NEW c \in Seq(M), NEW m \in Seq(M)
    PROVE  Sent(c, m) \in Seq(M)
BY DEF Sent

\* Each kind of message the host builds is a message to the client.
LEMMA MessageType ==
    /\ \A b \in Boards : [type |-> "FieldSnapshot", board |-> b] \in ToClientMsg
    /\ \A w \in Winners : [type |-> "GameOver", winner |-> w] \in ToClientMsg
    /\ [type |-> "SyncError"] \in ToClientMsg
    /\ [type |-> "StartDuel"] \in ToClientMsg
    /\ PromptMsg \subseteq ToClientMsg
BY DEF ToClientMsg, StartDuelMsg, FieldMsg, SyncErrorMsg, GameOverMsg

\* UI::buildAndSendFieldSnapshot sends board snapshots.
LEMMA FieldOutType ==
    ASSUME NEW b \in Boards, NEW h
    PROVE  FieldOut(b, h) \in Seq(ToClientMsg)
BY MessageType DEF FieldOut

\* What is offered has an id.
LEMMA ChoicesOfType ==
    ASSUME NEW s PROVE ChoicesOf(s) \in SUBSET Ids
BY DEF ChoicesOf, Ids

\* UI::buildAndSendPromptSnapshotIfRemote sends prompt snapshots.
LEMMA PromptOfType ==
    ASSUME NEW s \in Selections, NEW q \in Nat
    PROVE  PromptOf(s, q) \in PromptMsg
BY ChoicesOfType DEF PromptOf, PromptMsg, Selections

\* What the host ships, and the values it starts from, have their types.
LEMMA PromptOutType ==
    ASSUME NEW s \in Selections, NEW id, hostPromptSeq \in Nat
    PROVE  PromptOut(s, id) \in Seq(ToClientMsg)
<1>1. hostPromptSeq + 1 \in Nat
  OBVIOUS
<1>2. PromptOf(s, hostPromptSeq + 1) \in ToClientMsg
  BY <1>1, PromptOfType, MessageType
<1>. QED  BY <1>2 DEF PromptOut

\* UI::sendGameOver sends a winner once there is one.
LEMMA GameOverOutType ==
    ASSUME done => winner \in Winners
    PROVE  GameOverOut \in Seq(ToClientMsg)
BY MessageType DEF GameOverOut, GameOverDue

\* The same of no selection,
LEMMA NoSelType == NoSel \in Selections
BY BoundsAssumption DEF NoSel, Selections, Seats

\* of the identity of a selection,
LEMMA IdentityType ==
    ASSUME NEW s \in Selections PROVE Identity(s) \in Identities
BY DEF Identity, Selections, Identities

\* of no identity,
LEMMA NoIdentityType == NoIdentity \in Identities
BY NoSelType, IdentityType DEF NoIdentity

\* and of no prompt.
LEMMA NoPromptType == NoPrompt \in PromptMsg
BY BoundsAssumption DEF NoPrompt, PromptMsg, Seats
\* A receive leaves a channel of the same messages.
LEMMA TailType ==
    ASSUME NEW M, NEW c \in Seq(M), c # <<>>
    PROVE  Tail(c) \in Seq(M) /\ Head(c) \in M
OBVIOUS

\* So does a loss.
LEMMA PrefixType ==
    ASSUME NEW M, NEW c \in Seq(M), NEW i \in 0..Len(c)
    PROVE  SubSeq(c, 1, i) \in Seq(M)
OBVIOUS

-----------------------------------------------------------------------------
(* Every variable keeps its type.  TypeOK is made of the groups of         *)
(* variables that vars is made of, so that an action is asked only about   *)
(* the groups it changes.                                                  *)

\* A group of variables that a step leaves alone keeps its type.
LEMMA TypeKept ==
    ASSUME TypeOK
    PROVE  /\ UNCHANGED engineVars => EngineType'
           /\ UNCHANGED tableVars => TableType'
           /\ UNCHANGED hostVars => HostType'
           /\ UNCHANGED hpc => PcType'
           /\ UNCHANGED clientVars => ClientType'
           /\ UNCHANGED netVars => NetType'
           /\ UNCHANGED answers => AnswersType'
<1>1. UNCHANGED engineVars => EngineType'
  BY DEF TypeOK, EngineType, engineVars
<1>2. UNCHANGED tableVars => TableType'
  BY DEF TypeOK, TableType, tableVars
<1>3. UNCHANGED hostVars => HostType'
  BY DEF TypeOK, HostType, hostVars
<1>4. UNCHANGED hpc => PcType'
  BY DEF TypeOK, PcType
<1>5. UNCHANGED clientVars => ClientType'
  BY DEF TypeOK, ClientType, clientVars
<1>6. UNCHANGED netVars => NetType'
  BY DEF TypeOK, NetType, netVars
<1>7. UNCHANGED answers => AnswersType'
  BY DEF TypeOK, AnswersType
<1>. QED  BY <1>1, <1>2, <1>3, <1>4, <1>5, <1>6, <1>7

\* The program starts with typed variables.
LEMMA TypeInit == Init => TypeOK
<1>. SUFFICES ASSUME Init PROVE TypeOK
  OBVIOUS
<1>1. EngineType
  <2>1. sel \in Selections /\ promptNo \in 0..MaxPrompts
    BY NoSelType, BoundsAssumption DEF Init
  <2>. QED  BY <2>1 DEF Init, EngineType
<1>2. TableType
  BY NoIdentityType, BoundsAssumption DEF Init, TableType
<1>3. HostType /\ PcType
  BY DEF Init, HostType, PcType
<1>4. ClientType
  <2>1. 0 \in 0..MaxPrompts
    BY BoundsAssumption
  <2>. QED  BY <2>1, NoPromptType DEF Init, ClientType
<1>5. NetType /\ AnswersType
  BY DEF Init, NetType, AnswersType
<1>. QED  BY <1>1, <1>2, <1>3, <1>4, <1>5 DEF TypeOK

\* Shipping a prompt types the table,
LEMMA TypeShipPrompt ==
    ASSUME TypeOK, NEW s \in Selections, NEW id \in Identities, NEW t,
           t.ids \in SUBSET Ids, t.seq \in Nat, ShipPrompt(s, id, t)
    PROVE  TableType'
<1>1. CASE PromptDue(s, id)
  BY <1>1, ChoicesOfType, IdentityType
     DEF TypeOK, EngineType, TableType, ShipPrompt, Selections
<1>2. CASE ~PromptDue(s, id)
  BY <1>2, NoIdentityType DEF TypeOK, EngineType, TableType, ShipPrompt
<1>. QED  BY <1>1, <1>2

\* a response the selection and the answers,
LEMMA TypeRespond ==
    ASSUME TypeOK, NEW by \in Seats, NEW seen \in 0..MaxPrompts,
           NEW of \in 0..MaxPrompts, Respond(by, seen, of)
    PROVE  sel' \in Selections /\ AnswersType'
BY NoSelType DEF TypeOK, TableType, EngineType, AnswersType, Respond, Selections

\* a forfeit the engine.
LEMMA TypeForfeit ==
    ASSUME TypeOK, NEW seat, Forfeit(seat)
    PROVE  EngineType'
BY DEF TypeOK, EngineType, Forfeit, Winners

\* A step of the engine keeps the types.
LEMMA TypeEngine ==
    ASSUME TypeOK, EngineIdle \/ EngineAsk \/ EngineYield \/ EngineWin
    PROVE  TypeOK'
<1>1. EngineKeeps
  BY DEF EngineIdle, EngineAsk, EngineYield, EngineWin
<1>2. TableType' /\ HostType' /\ ClientType' /\ NetType' /\ AnswersType'
  BY <1>1, TypeKept DEF EngineKeeps
<1>3. PcType'
  BY <1>1 DEF EngineKeeps, PcType
<1>4. EngineType'
  <2>1. CASE EngineIdle
    BY <2>1, TypeKept DEF EngineIdle
  <2>2. CASE EngineAsk
    <3>1. sel' \in Selections /\ promptNo' \in 0..MaxPrompts
      BY <2>2, BoundsAssumption DEF TypeOK, EngineType, EngineAsk, Selections
    <3>. QED  BY <2>2, <3>1 DEF TypeOK, EngineType, EngineAsk
  <2>3. CASE EngineYield
    BY <2>3 DEF TypeOK, EngineType, EngineYield
  <2>4. CASE EngineWin
    BY <2>4 DEF TypeOK, EngineType, EngineWin
  <2>. QED  BY <2>1, <2>2, <2>3, <2>4
<1>. QED  BY <1>2, <1>3, <1>4 DEF TypeOK

\* So does a message the host handles,
LEMMA TypeReceive ==
    ASSUME TypeOK, HostReceive
    PROVE  TypeOK'
<1>1. toHost # <<>> /\ toHost' = Tail(toHost)
  BY DEF HostReceive, HandleClientChoiceBail, HandleClientChoiceApply,
         HandleSurrender
<1>2. toHost' \in Seq(ToHostMsg) /\ Head(toHost) \in ToHostMsg
  BY <1>1, TailType DEF TypeOK, NetType
<1>3. PcType' /\ ClientType'
  BY TypeKept DEF HostReceive, HandleClientChoiceBail,
     HandleClientChoiceApply, HandleSurrender
<1>4. CASE HandleClientChoiceBail
  <2>1. <<[type |-> "SyncError"]>> \in Seq(ToClientMsg)
    BY MessageType
  <2>2. toClient' \in Seq(ToClientMsg)
    BY <1>4, <2>1, SentType DEF TypeOK, NetType, HandleClientChoiceBail
  <2>3. NetType'
    BY <1>2, <1>4, <2>2 DEF TypeOK, NetType, HandleClientChoiceBail
  <2>4. EngineType' /\ TableType' /\ HostType' /\ AnswersType'
    BY <1>4, TypeKept DEF HandleClientChoiceBail
  <2>. QED  BY <1>3, <2>3, <2>4 DEF TypeOK
<1>5. CASE HandleClientChoiceApply
  <2>1. Head(toHost).no \in 0..MaxPrompts
    BY <1>2, <1>5 DEF ToHostMsg, ChoiceMsg, SurrenderMsg,
                      HandleClientChoiceApply
  <2>2. tableNo \in 0..MaxPrompts /\ Client \in Seats
    BY DEF TypeOK, TableType, Seats
  <2>3. sel' \in Selections /\ AnswersType'
    BY <1>5, <2>1, <2>2, TypeRespond DEF HandleClientChoiceApply
  <2>4. TableType'
    <3>1. NoTable.ids \in SUBSET Ids /\ NoTable.seq \in Nat
      BY DEF NoTable
    <3>. QED  BY <1>5, <3>1, NoSelType, NoIdentityType, TypeShipPrompt
              DEF HandleClientChoiceApply
  <2>5. toClient' \in Seq(ToClientMsg)
    BY <1>5, FieldOutType, SentType DEF TypeOK, EngineType, NetType,
       HandleClientChoiceApply
  <2>6. NetType'
    BY <1>2, <1>5, <2>5 DEF TypeOK, NetType, HandleClientChoiceApply
  <2>7. HostType'
    BY <1>5 DEF TypeOK, EngineType, HostType,
       HandleClientChoiceApply, Boards
  <2>8. EngineType'
    BY <1>5, <2>3 DEF TypeOK, EngineType, HandleClientChoiceApply
  <2>. QED  BY <1>3, <2>3, <2>4, <2>6, <2>7, <2>8 DEF TypeOK
<1>6. CASE HandleSurrender
  <2>1. TableType' /\ HostType' /\ AnswersType'
    BY <1>6, TypeKept DEF HandleSurrender
  <2>2. EngineType'
    BY <1>6, TypeKept, TypeForfeit DEF HandleSurrender
  <2>3. NetType'
    BY <1>2, <1>6 DEF TypeOK, NetType, HandleSurrender
  <2>. QED  BY <1>3, <2>1, <2>2, <2>3 DEF TypeOK
<1>. QED  BY <1>4, <1>5, <1>6 DEF HostReceive

\* The winner is decided before the duel is done, so a GameOver carries one.
WinnerSet == done => winner \in Winners

\* a ship,
LEMMA TypeShip ==
    ASSUME TypeOK, WinnerSet, HostShip
    PROVE  TypeOK'
<1>1. TableType'
  <2>1. Table.ids \in SUBSET Ids /\ Table.seq \in Nat
    BY DEF Table, TypeOK, TableType
  <2>2. sel \in Selections /\ hostIdentity \in Identities
    BY DEF TypeOK, EngineType, TableType
  <2>. QED  BY <2>1, <2>2, TypeShipPrompt DEF HostShip
<1>2. toClient' \in Seq(ToClientMsg)
  <2>1. FieldOut(board, fieldHash) \in Seq(ToClientMsg)
    BY FieldOutType DEF TypeOK, EngineType
  <2>2. PromptOut(sel, hostIdentity) \in Seq(ToClientMsg)
    BY PromptOutType DEF TypeOK, EngineType, TableType
  <2>3. GameOverOut \in Seq(ToClientMsg)
    BY GameOverOutType DEF WinnerSet
  <2>4. FieldOut(board, fieldHash) \o PromptOut(sel, hostIdentity)
          \o GameOverOut \in Seq(ToClientMsg)
    BY <2>1, <2>2, <2>3
  <2>. QED  BY <2>4, SentType DEF HostShip, TypeOK, NetType
<1>3. NetType'
  BY <1>2 DEF HostShip, TypeOK, NetType
<1>4. HostType'
  <2>1. fieldHash' \in SUBSET Coarse
    BY DEF HostShip, TypeOK, EngineType, HostType, Boards
  <2>2. gameOverSent' \in BOOLEAN /\ announced' \in Winners \cup {NoWinner}
    BY DEF HostShip, TypeOK, HostType, WinnerSet, GameOverDue
  <2>. QED  BY <2>1, <2>2 DEF HostShip, TypeOK, HostType
<1>5. EngineType' /\ ClientType' /\ AnswersType'
  BY TypeKept DEF HostShip
<1>6. PcType'
  BY DEF HostShip, PcType
<1>. QED  BY <1>1, <1>3, <1>4, <1>5, <1>6 DEF TypeOK

\* a frame's drawing with its click or end of duel,
LEMMA TypeDraw ==
    ASSUME TypeOK,
           \/ HostEndDuel \/ HostRespond \/ HostOpenSurrender
           \/ HostConfirmSurrender \/ HostCancelSurrender \/ HostIdle
    PROVE  TypeOK'
<1>0. ClientType' /\ NetType'
  BY TypeKept DEF HostEndDuel, HostRespond, HostOpenSurrender,
     HostConfirmSurrender, HostCancelSurrender, HostIdle
<1>1. CASE HostEndDuel
  <2>1. EngineType' /\ PcType' /\ AnswersType'
    BY <1>1, TypeKept DEF HostEndDuel
  <2>2. TableType'
    BY <1>1, NoIdentityType DEF TypeOK, TableType, HostEndDuel, ResetHost
  <2>3. HostType'
    BY <1>1 DEF TypeOK, HostType, HostEndDuel, ResetHost
  <2>. QED  BY <1>0, <2>1, <2>2, <2>3 DEF TypeOK
<1>2. CASE HostRespond
  <2>1. sel.no \in 0..MaxPrompts /\ Host \in Seats
    BY DEF TypeOK, EngineType, Selections, Seats
  <2>2. sel' \in Selections /\ AnswersType'
    BY <1>2, <2>1, TypeRespond DEF HostRespond
  <2>3. EngineType' /\ TableType'
    BY <1>2, <2>2, NoIdentityType
       DEF TypeOK, EngineType, TableType, HostRespond
  <2>4. HostType'
    BY <1>2, TypeKept DEF HostRespond
  <2>5. PcType'
    BY <1>2 DEF HostRespond, PcType
  <2>. QED  BY <1>0, <2>2, <2>3, <2>4, <2>5 DEF TypeOK
<1>3. CASE HostOpenSurrender \/ HostConfirmSurrender \/ HostCancelSurrender
  <2>1. EngineType' /\ TableType' /\ AnswersType'
    BY <1>3, TypeKept, TypeForfeit
       DEF HostOpenSurrender, HostConfirmSurrender, HostCancelSurrender
  <2>2. HostType' /\ PcType'
    BY <1>3 DEF TypeOK, HostType, PcType,
       HostOpenSurrender, HostConfirmSurrender, HostCancelSurrender
  <2>. QED  BY <1>0, <2>1, <2>2 DEF TypeOK
<1>4. CASE HostIdle
  <2>1. EngineType' /\ TableType' /\ HostType' /\ AnswersType'
    BY <1>4, TypeKept DEF HostIdle
  <2>2. PcType'
    BY <1>4 DEF HostIdle, PcType
  <2>. QED  BY <1>0, <2>1, <2>2 DEF TypeOK
<1>. QED  BY <1>1, <1>2, <1>3, <1>4

\* a Start click,
LEMMA TypeStart ==
    ASSUME TypeOK, HostStartDuel
    PROVE  TypeOK'
<1>1. ClientType' /\ AnswersType'
  BY TypeKept DEF HostStartDuel
<1>2. board' \in Boards
  BY DEF HostStartDuel
<1>3. NetType'
  <2>1. <<[type |-> "StartDuel"]>> \in Seq(ToClientMsg)
    BY MessageType
  <2>2. <<[type |-> "StartDuel"], [type |-> "FieldSnapshot", board |-> board']>>
          \in Seq(ToClientMsg)
    BY <1>2, MessageType
  <2>3. toClient \in Seq(ToClientMsg)
    BY DEF TypeOK, NetType
  <2>4. toClient' \in Seq(ToClientMsg)
    BY <2>1, <2>2, <2>3, SentType DEF HostStartDuel
  <2>. QED  BY <2>4 DEF HostStartDuel, TypeOK, NetType
<1>4. EngineType' /\ PcType'
  BY <1>2 DEF HostStartDuel, TypeOK, EngineType, PcType
<1>5. HostType'
  <2>1. inDuel' \in BOOLEAN /\ gameOverSent' \in BOOLEAN /\ endFired' \in BOOLEAN
    BY DEF HostStartDuel, TypeOK, HostType
  <2>2. fieldHash' \in SUBSET Coarse
    BY <1>2 DEF HostStartDuel, Boards
  <2>3. starts' \in Nat
    BY DEF HostStartDuel, TypeOK, HostType
  <2>4. UNCHANGED <<popup, announced>>
    BY DEF HostStartDuel
  <2>. QED  BY <2>1, <2>2, <2>3, <2>4 DEF TypeOK, HostType
<1>6. TableType'
  BY NoIdentityType DEF HostStartDuel, TypeOK, TableType
<1>. QED  BY <1>1, <1>3, <1>4, <1>5, <1>6 DEF TypeOK

\* a message the client handles,
LEMMA TypeClientReceive ==
    ASSUME TypeOK, ClientReceive
    PROVE  TypeOK'
<1>1. /\ toClient # <<>> /\ toClient' = Tail(toClient)
      /\ UNCHANGED <<engineVars, tableVars, hostVars, hpc, link, toHost,
                     answers, surrenders, misclicked>>
  BY DEF ClientReceive, HandleStartDuel, HandleFieldSnapshot,
         HandlePromptSnapshot, HandleSyncError, HandleGameOver,
         ClientReceives
<1>2. toClient' \in Seq(ToClientMsg) /\ Head(toClient) \in ToClientMsg
  BY <1>1, TailType DEF TypeOK, NetType
<1>3. EngineType' /\ TableType' /\ HostType' /\ PcType' /\ AnswersType'
  BY <1>1, TypeKept
<1>4. NetType'
  BY <1>1, <1>2 DEF TypeOK, NetType
<1>5. surrenders' \in Nat /\ misclicked' \in 0..MaxPrompts
  BY <1>1 DEF TypeOK, ClientType
<1>6. ClientType'
  <2>1. CASE HandleStartDuel
    BY <1>5, <2>1, NoPromptType
       DEF TypeOK, ClientType, HandleStartDuel, ResetClient
  <2>2. CASE HandleFieldSnapshot
    <3>1. Head(toClient).board \in Boards
      BY <1>2, <2>2 DEF HandleFieldSnapshot, ClientReceives, ToClientMsg,
         StartDuelMsg, FieldMsg, PromptMsg, SyncErrorMsg, GameOverMsg
    <3>. QED
      BY <1>5, <2>2, <3>1 DEF TypeOK, ClientType, HandleFieldSnapshot
  <2>3. CASE HandlePromptSnapshot
    <3>1. Head(toClient) \in PromptMsg
      BY <1>2, <2>3 DEF HandlePromptSnapshot, ClientReceives, ToClientMsg,
         StartDuelMsg, FieldMsg, SyncErrorMsg, GameOverMsg
    <3>2. /\ cSel' \in PromptMsg /\ cSelValid' \in BOOLEAN
          /\ cOppWait' \in BOOLEAN /\ cAwaiting' \in BOOLEAN
      BY <2>3, <3>1 DEF TypeOK, ClientType, HandlePromptSnapshot
    <3>. QED
      BY <1>5, <2>3, <3>2 DEF TypeOK, ClientType, HandlePromptSnapshot
  <2>4. CASE HandleSyncError
    BY <1>5, <2>4 DEF TypeOK, ClientType, HandleSyncError
  <2>5. CASE HandleGameOver
    <3>1. Head(toClient).winner \in Winners
      BY <1>2, <2>5 DEF HandleGameOver, ClientReceives, ToClientMsg,
         StartDuelMsg, FieldMsg, PromptMsg, SyncErrorMsg, GameOverMsg
    <3>. QED  BY <1>5, <2>5, <3>1 DEF TypeOK, ClientType, HandleGameOver
  <2>. QED  BY <2>1, <2>2, <2>3, <2>4, <2>5 DEF ClientReceive
<1>. QED  BY <1>3, <1>4, <1>6 DEF TypeOK

\* and a click of the client or a broken link.
LEMMA TypeClientInput ==
    ASSUME TypeOK, ClientInput \/ LinkDown
    PROVE  TypeOK'
<1>1. CASE SendClientChoice
  <2>1. \A id \in cSel.choices :
          <<[type |-> "ClientChoice", seq |-> cSel.seq, id |-> id,
             no |-> cSel.no]>> \in Seq(ToHostMsg)
    BY DEF TypeOK, ClientType, PromptMsg, ToHostMsg, ChoiceMsg
  <2>2. toHost' \in Seq(ToHostMsg)
    BY <1>1, <2>1, SentType DEF TypeOK, NetType, SendClientChoice
  <2>3. NetType'
    BY <1>1, <2>2 DEF TypeOK, NetType, SendClientChoice
  <2>4. ClientType'
    <3>1. cSel.no \in 0..MaxPrompts
      BY DEF TypeOK, ClientType, PromptMsg
    <3>2. misclicked' \in 0..MaxPrompts
      BY <1>1, <3>1 DEF TypeOK, ClientType, SendClientChoice
    <3>. QED  BY <1>1, <3>2 DEF TypeOK, ClientType, SendClientChoice
  <2>5. EngineType' /\ TableType' /\ HostType' /\ PcType' /\ AnswersType'
    BY <1>1, TypeKept DEF SendClientChoice
  <2>. QED  BY <2>3, <2>4, <2>5 DEF TypeOK
<1>2. CASE SendSurrender
  <2>1. <<[type |-> "Surrender", seat |-> Client]>> \in Seq(ToHostMsg)
    BY DEF ToHostMsg, SurrenderMsg, Seats
  <2>2. toHost' \in Seq(ToHostMsg)
    BY <1>2, <2>1, SentType DEF TypeOK, NetType, SendSurrender
  <2>3. NetType'
    BY <1>2, <2>2 DEF TypeOK, NetType, SendSurrender
  <2>4. ClientType'
    BY <1>2 DEF TypeOK, ClientType, SendSurrender
  <2>5. EngineType' /\ TableType' /\ HostType' /\ PcType' /\ AnswersType'
    BY <1>2, TypeKept DEF SendSurrender
  <2>. QED  BY <2>3, <2>4, <2>5 DEF TypeOK
<1>3. CASE LinkDown
  <2>1. toClient' \in Seq(ToClientMsg) /\ toHost' \in Seq(ToHostMsg)
    BY <1>3, PrefixType DEF TypeOK, NetType, LinkDown
  <2>2. NetType'
    BY <1>3, <2>1 DEF NetType, LinkDown
  <2>3. /\ EngineType' /\ TableType' /\ HostType' /\ PcType' /\ ClientType'
        /\ AnswersType'
    BY <1>3, TypeKept DEF LinkDown
  <2>. QED  BY <2>2, <2>3 DEF TypeOK
<1>. QED  BY <1>1, <1>2, <1>3 DEF ClientInput

\* No action unsets a winner.
LEMMA WinnerStays ==
    ASSUME TypeOK, WinnerSet, [Next]_vars
    PROVE  WinnerSet'
<1>. USE DEF WinnerSet
<1>1. CASE UNCHANGED <<done, winner>>
  BY <1>1
<1>2. CASE EngineWin
  BY <1>2 DEF EngineWin
<1>3. CASE HandleSurrender
  BY <1>3 DEF HandleSurrender, Forfeit, Winners, engineVars
<1>4. CASE HostConfirmSurrender
  BY <1>4 DEF HostConfirmSurrender, Forfeit, Winners
<1>5. \/ UNCHANGED <<done, winner>>
      \/ EngineWin \/ HandleSurrender \/ HostConfirmSurrender
  BY DEF Next, HostFrame, HostReceive, HostInput, ClientReceive, ClientInput,
     EngineIdle, EngineAsk, EngineYield, HostShip, HostEndDuel, HostIdle,
     HandleClientChoiceBail, HandleClientChoiceApply, HostRespond,
     HostOpenSurrender, HostCancelSurrender, HostStartDuel, HandleStartDuel,
     HandleFieldSnapshot, HandlePromptSnapshot, HandleSyncError,
     HandleGameOver, ClientReceives, SendClientChoice, SendSurrender,
     LinkDown, vars, engineVars
<1>. QED  BY <1>1, <1>2, <1>3, <1>4, <1>5

\* Every step keeps the types.
LEMMA TypeNext ==
    ASSUME TypeOK, WinnerSet, [Next]_vars
    PROVE  TypeOK' /\ WinnerSet'
<1>. SUFFICES TypeOK'
  BY WinnerStays
<1>1. CASE UNCHANGED vars
  BY <1>1, TypeKept DEF vars, TypeOK
<1>2. CASE Next
  BY <1>2, TypeEngine, TypeReceive, TypeShip, TypeDraw, TypeStart,
     TypeClientReceive, TypeClientInput
     DEF Next, HostFrame, HostInput
<1>. QED  BY <1>1, <1>2

\* Every variable keeps its type along every behaviour: the sequence numbers
\* of UI.h, the messages of NetSession.h and the engine state of
\* DuelManager.h, for any set of choices, shapes, boards and any bounds.
THEOREM TypeCorrect == Spec => [](TypeOK /\ WinnerSet)
<1>1. Init => TypeOK /\ WinnerSet
  BY TypeInit DEF Init, WinnerSet
<1>2. TypeOK /\ WinnerSet /\ [Next]_vars => (TypeOK /\ WinnerSet)'
  BY TypeNext
<1>. QED  BY <1>1, <1>2, PTL DEF Spec

-----------------------------------------------------------------------------
(* Every response fits the prompt it answers.  AnswersFit is not inductive *)
(* by itself: what makes a choice safe is that a sequence number, as long  *)
(* as it is the current one, belongs to one prompt wherever it is met: in  *)
(* a snapshot under way, on the client's screen, in a choice under way or  *)
(* in the host's choice table.                                             *)
Tag(x) == [seq |-> x.seq, no |-> x.no]
Carried(c, type) == {Tag(c[i]) : i \in {j \in DOMAIN c : c[j].type = type}}
OnScreen == IF cSelValid THEN {Tag(cSel)} ELSE {}
Tags == Carried(toClient, "PromptSnapshot") \cup OnScreen
          \cup Carried(toHost, "ClientChoice")

\* A running engine is in a multiplayer duel that is not decided.
RunsInDuel == running => inDuel /\ ~done
\* Outside a duel there is no choice table, and before it no prompt anywhere.
TableOnlyInDuel == ~inDuel => hostChoices = {}
NoTagBefore == ~inDuel /\ ~done => Tags = {}
\* The table was built from the prompt the engine waits on.
TableIsForSel ==
    hostChoices # {} => sel.no # 0 /\ sel.owner = Client /\ tableNo = sel.no
\* No tag is ahead of the host's counter, until the end of the duel resets it.
TagsNotAhead ==
    (done /\ ~inDuel) \/ \A t \in Tags : t.seq <= hostPromptSeq
\* The current number tags one prompt.
CurrentTag ==
    hostChoices # {} => \A t \in Tags : t.seq = hostPromptSeq => t.no = tableNo
\* What has been answered is behind the engine.
AnswersBehind ==
    /\ sel.no <= promptNo
    /\ \A a \in answers : a.prompt <= promptNo /\ a.prompt # sel.no

AnswersInv ==
    /\ RunsInDuel /\ TableOnlyInDuel /\ NoTagBefore /\ TableIsForSel
    /\ TagsNotAhead /\ CurrentTag /\ AnswersBehind /\ AnswersFit

(* What a channel carries when messages leave it, join it or are lost.     *)
LEMMA CarriedTail ==
    ASSUME NEW M, NEW c \in Seq(M), c # <<>>, NEW t
    PROVE  Carried(Tail(c), t) \subseteq Carried(c, t)
<1>1. \A i \in DOMAIN Tail(c) : i + 1 \in DOMAIN c /\ Tail(c)[i] = c[i + 1]
  OBVIOUS
<1>. QED  BY <1>1 DEF Carried

\* A part of a channel carries no more tags than the channel.
LEMMA CarriedPrefix ==
    ASSUME NEW M, NEW c \in Seq(M), NEW n \in 0..Len(c), NEW t
    PROVE  Carried(SubSeq(c, 1, n), t) \subseteq Carried(c, t)
<1>1. \A i \in DOMAIN SubSeq(c, 1, n) :
        i \in DOMAIN c /\ SubSeq(c, 1, n)[i] = c[i]
  OBVIOUS
<1>. QED  BY <1>1 DEF Carried

\* What is put behind a channel adds its own tags at most.
LEMMA CarriedConcat ==
    ASSUME NEW M, NEW c \in Seq(M), NEW d \in Seq(M), NEW t
    PROVE  Carried(c \o d, t) \subseteq Carried(c, t) \cup Carried(d, t)
<1>1. \A i \in DOMAIN (c \o d) :
        \/ i \in DOMAIN c /\ (c \o d)[i] = c[i]
        \/ i - Len(c) \in DOMAIN d /\ (c \o d)[i] = d[i - Len(c)]
  OBVIOUS
<1>. QED  BY <1>1 DEF Carried

\* So does what is sent, whether or not the link is up.
LEMMA CarriedSent ==
    ASSUME NEW M, NEW c \in Seq(M), NEW d \in Seq(M), NEW t
    PROVE  Carried(Sent(c, d), t) \subseteq Carried(c, t) \cup Carried(d, t)
BY CarriedConcat DEF Sent

\* The first message has its tag among those carried.
LEMMA CarriedHead ==
    ASSUME NEW M, NEW c \in Seq(M), c # <<>>
    PROVE  Tag(Head(c)) \in Carried(c, Head(c).type)
<1>1. 1 \in DOMAIN c /\ Head(c) = c[1]
  OBVIOUS
<1>. QED  BY <1>1 DEF Carried

\* A message carries no tags of another type,
LEMMA CarriedOther ==
    ASSUME NEW x, NEW t, x.type # t
    PROVE  Carried(<<x>>, t) = {}
BY DEF Carried

\* and no message carries none.
LEMMA CarriedNothing ==
    ASSUME NEW t
    PROVE  Carried(<<>>, t) = {}
BY DEF Carried

(* What the host ships besides prompts carries no tag.                     *)
LEMMA FieldOutCarries ==
    ASSUME NEW b, NEW h
    PROVE  Carried(FieldOut(b, h), "PromptSnapshot") = {}
BY CarriedOther, CarriedNothing DEF FieldOut

\* The end of the duel ships no prompt.
LEMMA GameOverOutCarries == Carried(GameOverOut, "PromptSnapshot") = {}
BY CarriedOther, CarriedNothing DEF GameOverOut

NewTag == [seq |-> hostPromptSeq + 1, no |-> sel.no]

\* A ship carries the new number, if a prompt is due, and no other.
LEMMA PromptOutCarries ==
    ASSUME NEW id
    PROVE  Carried(PromptOut(sel, id), "PromptSnapshot")
             \subseteq IF PromptDue(sel, id) THEN {NewTag} ELSE {}
<1>1. CASE PromptDue(sel, id)
  <2>1. Carried(<<PromptOf(sel, hostPromptSeq + 1)>>, "PromptSnapshot")
          \subseteq {NewTag}
    BY DEF Carried, Tag, PromptOf, NewTag
  <2>. QED  BY <1>1, <2>1 DEF PromptOut
<1>2. CASE ~PromptDue(sel, id)
  BY <1>2, CarriedNothing DEF PromptOut
<1>. QED  BY <1>1, <1>2

\* No tag is made by any step but the host's ship.
LEMMA TagsReceive ==
    ASSUME TypeOK, HostReceive
    PROVE  Tags' \subseteq Tags
<1>0. toClient \in Seq(ToClientMsg) /\ toHost \in Seq(ToHostMsg)
  BY DEF TypeOK, NetType
<1>1. Carried(toHost', "ClientChoice") \subseteq Carried(toHost, "ClientChoice")
  <2>1. toHost # <<>> /\ toHost' = Tail(toHost)
    BY DEF HostReceive, HandleClientChoiceBail, HandleClientChoiceApply,
           HandleSurrender
  <2>. QED  BY <1>0, <2>1, CarriedTail
<1>2. Carried(toClient', "PromptSnapshot")
        \subseteq Carried(toClient, "PromptSnapshot")
  <2>1. CASE HandleClientChoiceBail
    <3>1. <<[type |-> "SyncError"]>> \in Seq(ToClientMsg)
      BY MessageType
    <3>2. Carried(<<[type |-> "SyncError"]>>, "PromptSnapshot") = {}
      BY CarriedOther
    <3>. QED
      BY <1>0, <2>1, <3>1, <3>2, CarriedSent DEF HandleClientChoiceBail
  <2>2. CASE HandleClientChoiceApply
    <3>1. FieldOut(board, fieldHash) \in Seq(ToClientMsg)
      BY FieldOutType DEF TypeOK, EngineType
    <3>. QED
      BY <1>0, <2>2, <3>1, FieldOutCarries, CarriedSent
      DEF HandleClientChoiceApply
  <2>3. CASE HandleSurrender
    BY <2>3 DEF HandleSurrender
  <2>. QED  BY <2>1, <2>2, <2>3 DEF HostReceive
<1>3. UNCHANGED <<cSel, cSelValid>>
  BY DEF HostReceive, HandleClientChoiceBail, HandleClientChoiceApply,
         HandleSurrender, clientVars
<1>. QED  BY <1>1, <1>2, <1>3 DEF Tags, OnScreen

\* A start tags nothing.
LEMMA TagsStart ==
    ASSUME TypeOK, HostStartDuel
    PROVE  Tags' \subseteq Tags
<1>0. toClient \in Seq(ToClientMsg)
  BY DEF TypeOK, NetType
<1>1. UNCHANGED <<toHost, cSel, cSelValid>>
  BY DEF HostStartDuel, clientVars
<1>2. PICK d \in Seq(ToClientMsg) :
        /\ toClient' = Sent(toClient, d)
        /\ Carried(d, "PromptSnapshot") = {}
  <2>1. board' \in Boards
    BY DEF HostStartDuel
  <2>2. <<[type |-> "StartDuel"]>> \in Seq(ToClientMsg)
    BY MessageType
  <2>3. <<[type |-> "StartDuel"], [type |-> "FieldSnapshot", board |-> board']>>
          \in Seq(ToClientMsg)
    BY <2>1, MessageType
  <2>4. Carried(<<[type |-> "StartDuel"]>>, "PromptSnapshot") = {}
    BY CarriedOther
  <2>5. Carried(<<[type |-> "StartDuel"],
                  [type |-> "FieldSnapshot", board |-> board']>>,
                "PromptSnapshot") = {}
    BY DEF Carried
  <2>. QED  BY <2>2, <2>3, <2>4, <2>5 DEF HostStartDuel
<1>3. Carried(toClient', "PromptSnapshot")
        \subseteq Carried(toClient, "PromptSnapshot")
  BY <1>0, <1>2, CarriedSent
<1>. QED  BY <1>1, <1>3 DEF Tags, OnScreen

\* What the client handles it moves from the channel to the screen.
LEMMA TagsClientReceive ==
    ASSUME TypeOK, ClientReceive
    PROVE  Tags' \subseteq Tags
<1>1. /\ toClient # <<>> /\ toClient' = Tail(toClient) /\ UNCHANGED toHost
  BY DEF ClientReceive, HandleStartDuel, HandleFieldSnapshot,
         HandlePromptSnapshot, HandleSyncError, HandleGameOver,
         ClientReceives
<1>2. Carried(toClient', "PromptSnapshot")
        \subseteq Carried(toClient, "PromptSnapshot")
  BY <1>1, CarriedTail DEF TypeOK, NetType
<1>3. OnScreen' \subseteq OnScreen \cup Carried(toClient, "PromptSnapshot")
  <2>1. CASE HandlePromptSnapshot
    <3>1. Tag(Head(toClient)) \in Carried(toClient, "PromptSnapshot")
      BY <1>1, <2>1, CarriedHead
         DEF HandlePromptSnapshot, ClientReceives, TypeOK, NetType
    <3>. QED  BY <2>1, <3>1 DEF HandlePromptSnapshot, OnScreen
  <2>2. CASE ~HandlePromptSnapshot
    BY <2>2 DEF ClientReceive, HandleStartDuel, ResetClient,
       HandleFieldSnapshot, HandleSyncError, HandleGameOver, OnScreen
  <2>. QED  BY <2>1, <2>2
<1>. QED  BY <1>1, <1>2, <1>3 DEF Tags

\* What the client clicks it moves from the screen to the channel.
LEMMA TagsClientInput ==
    ASSUME TypeOK, ClientInput \/ LinkDown
    PROVE  Tags' \subseteq Tags
<1>0. toClient \in Seq(ToClientMsg) /\ toHost \in Seq(ToHostMsg)
  BY DEF TypeOK, NetType
<1>1. CASE SendClientChoice
  <2>1. PICK id \in cSel.choices :
          toHost' = Sent(toHost, <<[type |-> "ClientChoice", seq |-> cSel.seq,
                                    id |-> id, no |-> cSel.no]>>)
    BY <1>1 DEF SendClientChoice
  <2> DEFINE m == [type |-> "ClientChoice", seq |-> cSel.seq, id |-> id,
                   no |-> cSel.no]
  <2>2. <<m>> \in Seq(ToHostMsg)
    BY DEF TypeOK, ClientType, PromptMsg, ToHostMsg, ChoiceMsg
  <2>3. Carried(<<m>>, "ClientChoice") \subseteq OnScreen
    BY <1>1 DEF Carried, Tag, OnScreen, SendClientChoice
  <2>4. Carried(toHost', "ClientChoice")
          \subseteq Carried(toHost, "ClientChoice") \cup OnScreen
    <3>1. toHost' = Sent(toHost, <<m>>)
      BY <2>1
    <3> HIDE DEF m
    <3>. QED  BY <1>0, <2>2, <2>3, <3>1, CarriedSent
  <2>5. OnScreen' = {} /\ UNCHANGED toClient
    BY <1>1 DEF SendClientChoice, OnScreen
  <2>. QED  BY <2>4, <2>5 DEF Tags
<1>2. CASE SendSurrender
  <2> DEFINE d == <<[type |-> "Surrender", seat |-> Client]>>
  <2>1. d \in Seq(ToHostMsg)
    BY DEF ToHostMsg, SurrenderMsg, Seats
  <2>2. Carried(d, "ClientChoice") = {}
    BY CarriedOther
  <2>3. Carried(toHost', "ClientChoice") \subseteq Carried(toHost, "ClientChoice")
    <3>1. toHost' = Sent(toHost, d)
      BY <1>2 DEF SendSurrender
    <3> HIDE DEF d
    <3>. QED  BY <1>0, <2>1, <2>2, <3>1, CarriedSent
  <2>. QED  BY <1>2, <2>3 DEF Tags, OnScreen, SendSurrender
<1>3. CASE LinkDown
  <2>1. /\ Carried(toHost', "ClientChoice")
             \subseteq Carried(toHost, "ClientChoice")
        /\ Carried(toClient', "PromptSnapshot")
             \subseteq Carried(toClient, "PromptSnapshot")
    BY <1>0, <1>3, CarriedPrefix DEF LinkDown
  <2>. QED  BY <1>3, <2>1 DEF Tags, OnScreen, LinkDown, clientVars
<1>. QED  BY <1>1, <1>2, <1>3 DEF ClientInput

\* The ship adds the tag of the prompt it ships, and no other.
LEMMA TagsShip ==
    ASSUME TypeOK, WinnerSet, HostShip
    PROVE  Tags' \subseteq Tags \cup (IF PromptDue(sel, hostIdentity)
                                     THEN {NewTag} ELSE {})
<1>1. /\ FieldOut(board, fieldHash) \in Seq(ToClientMsg)
      /\ PromptOut(sel, hostIdentity) \in Seq(ToClientMsg)
      /\ GameOverOut \in Seq(ToClientMsg)
      /\ toClient \in Seq(ToClientMsg)
  BY FieldOutType, PromptOutType, GameOverOutType
     DEF TypeOK, EngineType, TableType, NetType, WinnerSet
<1> DEFINE two == FieldOut(board, fieldHash) \o PromptOut(sel, hostIdentity)
           three == two \o GameOverOut
           new == IF PromptDue(sel, hostIdentity) THEN {NewTag} ELSE {}
<1>2. two \in Seq(ToClientMsg) /\ Carried(two, "PromptSnapshot") \subseteq new
  BY <1>1, CarriedConcat, FieldOutCarries, PromptOutCarries
<1>3. three \in Seq(ToClientMsg) /\ Carried(three, "PromptSnapshot") \subseteq new
  <2> HIDE DEF two, new
  <2>. QED  BY <1>1, <1>2, CarriedConcat, GameOverOutCarries
<1>4. toClient' = Sent(toClient, three)
  BY DEF HostShip
<1>5. Carried(toClient', "PromptSnapshot")
        \subseteq Carried(toClient, "PromptSnapshot") \cup new
  <2> HIDE DEF three, new
  <2>. QED  BY <1>1, <1>3, <1>4, CarriedSent
<1>6. UNCHANGED <<toHost, cSel, cSelValid>>
  BY DEF HostShip, clientVars
<1>. QED  BY <1>5, <1>6 DEF Tags, OnScreen

-----------------------------------------------------------------------------
(* AnswersInv is inductive: the steps that leave the prompt, the table and *)
(* the answers alone, and then each of the others.                         *)
LEMMA AnswersQuiet ==
    ASSUME AnswersInv, Tags' \subseteq Tags,
           UNCHANGED <<hostPromptSeq, hostChoices, tableNo, inDuel, answers,
                       sel, promptNo>>,
           done => done', running' => running /\ ~done'
    PROVE  AnswersInv'
<1>1. RunsInDuel' /\ TableOnlyInDuel' /\ NoTagBefore'
  BY DEF AnswersInv, RunsInDuel, TableOnlyInDuel, NoTagBefore
<1>2. TableIsForSel' /\ TagsNotAhead' /\ CurrentTag'
  BY DEF AnswersInv, TableIsForSel, TagsNotAhead, CurrentTag
<1>3. AnswersBehind' /\ AnswersFit'
  BY DEF AnswersInv, AnswersBehind, AnswersFit
<1>. QED  BY <1>1, <1>2, <1>3 DEF AnswersInv

\* Steps that touch no channel and not the client's screen keep the tags.
LEMMA TagsSame ==
    ASSUME UNCHANGED <<toClient, toHost, cSel, cSelValid>>
    PROVE  Tags' = Tags
BY DEF Tags, OnScreen, Carried

\* A new request has a number that nothing is tagged with yet.
LEMMA AnswersAsk ==
    ASSUME TypeOK, AnswersInv, EngineAsk
    PROVE  AnswersInv'
<1>0. Tags' = Tags
  BY TagsSame DEF EngineAsk, EngineKeeps, clientVars, netVars
<1>1. UNCHANGED <<running, done, inDuel, hostPromptSeq, hostChoices, tableNo,
                  answers>>
  BY DEF EngineAsk, EngineKeeps, tableVars, hostVars
<1>2. hostChoices = {}
  BY DEF EngineAsk, IsRealSelect, AnswersInv, TableIsForSel
<1>3. RunsInDuel' /\ TableOnlyInDuel' /\ NoTagBefore' /\ TagsNotAhead'
  BY <1>0, <1>1
     DEF AnswersInv, RunsInDuel, TableOnlyInDuel, NoTagBefore, TagsNotAhead
<1>4. TableIsForSel' /\ CurrentTag'
  BY <1>1, <1>2 DEF TableIsForSel, CurrentTag
<1>5. AnswersBehind'
  <2>1. promptNo \in Nat /\ promptNo' = promptNo + 1 /\ sel'.no = promptNo + 1
    BY BoundsAssumption DEF TypeOK, EngineType, EngineAsk
  <2>2. \A a \in answers : a.prompt \in Nat
    BY BoundsAssumption DEF TypeOK, AnswersType
  <2>. QED  BY <1>1, <2>1, <2>2 DEF AnswersInv, AnswersBehind
<1>6. AnswersFit'
  BY <1>1 DEF AnswersInv, AnswersFit
<1>. QED  BY <1>3, <1>4, <1>5, <1>6 DEF AnswersInv

\* The engine takes a response: it fits when the two numbers it is recorded
\* with are those of the prompt the engine waits on.
LEMMA AnswersRespond ==
    ASSUME TypeOK, AnswersInv, sel.no # 0, NEW by,
           Respond(by, sel.no, sel.no), UNCHANGED promptNo
    PROVE  AnswersBehind' /\ AnswersFit'
<1>1. /\ promptNo \in Nat /\ sel.no \in Nat
      /\ \A a \in answers : a.prompt \in Nat
  BY BoundsAssumption DEF TypeOK, EngineType, AnswersType, Selections
<1>2. sel'.no = 0
  BY DEF Respond, NoSel
<1>3. \A a \in answers' : \/ a \in answers
                          \/ /\ a.prompt = sel.no /\ a.seen = sel.no
                             /\ a.of = sel.no
                             /\ a = [prompt |-> sel.no, by |-> by,
                                     seen |-> sel.no, of |-> sel.no,
                                     seq |-> hostPromptSeq]
  BY DEF Respond
<1>4. AnswersBehind'
  BY <1>1, <1>2, <1>3 DEF AnswersInv, AnswersBehind, AnswersFit
<1>5. AnswersFit'
  BY <1>3 DEF AnswersInv, AnswersBehind, AnswersFit
<1>. QED  BY <1>4, <1>5

\* A choice that passes the checks names the prompt of the table.
LEMMA AnswersApply ==
    ASSUME TypeOK, AnswersInv, HandleClientChoiceApply
    PROVE  AnswersInv'
<1> DEFINE m == Head(toHost)
<1>0. Tags' \subseteq Tags
  BY TagsReceive DEF HostReceive
<1>1. /\ m.seq = hostPromptSeq /\ sel.no # 0 /\ hostChoices # {}
      /\ ChoiceAcceptable(m)
  BY DEF HandleClientChoiceApply, ChoiceAcceptable, IsRealSelect
<1>2. m.no = sel.no /\ tableNo = sel.no
  <2>1. Tag(m) \in Tags
    BY CarriedHead DEF Tags, HandleClientChoiceApply, TypeOK, NetType
  <2>. QED  BY <1>1, <2>1 DEF AnswersInv, CurrentTag, TableIsForSel, Tag
<1>3. /\ UNCHANGED <<running, done, inDuel, promptNo>>
      /\ Respond(Client, sel.no, sel.no)
  BY <1>2 DEF HandleClientChoiceApply
<1>4. hostChoices' = {} /\ UNCHANGED <<hostPromptSeq, tableNo>>
  <2>1. ~PromptDue(NoSel, NoIdentity)
    BY DEF PromptDue, IsRealSelect, NoSel
  <2>. QED  BY <2>1 DEF HandleClientChoiceApply, ShipPrompt, NoTable
<1>5. RunsInDuel' /\ TableOnlyInDuel' /\ NoTagBefore'
  BY <1>0, <1>3, <1>4
     DEF AnswersInv, RunsInDuel, TableOnlyInDuel, NoTagBefore
<1>6. TableIsForSel' /\ CurrentTag'
  BY <1>4 DEF TableIsForSel, CurrentTag
<1>7. TagsNotAhead'
  BY <1>0, <1>3, <1>4 DEF AnswersInv, TagsNotAhead
<1>8. AnswersBehind' /\ AnswersFit'
  BY <1>1, <1>3, AnswersRespond
<1>. QED  BY <1>5, <1>6, <1>7, <1>8 DEF AnswersInv

\* The host answers the request that is open.
LEMMA AnswersHostRespond ==
    ASSUME TypeOK, AnswersInv, HostRespond
    PROVE  AnswersInv'
<1>0. Tags' = Tags
  BY TagsSame DEF HostRespond, clientVars, netVars
<1>1. UNCHANGED <<running, done, inDuel, promptNo, hostPromptSeq,
                  hostChoices, tableNo>>
  BY DEF HostRespond, hostVars
<1>2. sel.no # 0 /\ Respond(Host, sel.no, sel.no) /\ sel.owner = Host
  BY DEF HostRespond, IsRealSelect
<1>3. hostChoices = {}
  BY <1>2, SeatsAssumption DEF AnswersInv, TableIsForSel
<1>4. RunsInDuel' /\ TableOnlyInDuel' /\ NoTagBefore' /\ TagsNotAhead'
  BY <1>0, <1>1
     DEF AnswersInv, RunsInDuel, TableOnlyInDuel, NoTagBefore, TagsNotAhead
<1>5. TableIsForSel' /\ CurrentTag'
  BY <1>1, <1>3 DEF TableIsForSel, CurrentTag
<1>6. AnswersBehind' /\ AnswersFit'
  BY <1>1, <1>2, AnswersRespond
<1>. QED  BY <1>4, <1>5, <1>6 DEF AnswersInv

\* The table is built anew for the open request, under a new number.
LEMMA AnswersShip ==
    ASSUME TypeOK, WinnerSet, AnswersInv, HostShip
    PROVE  AnswersInv'
<1>1. UNCHANGED <<running, done, inDuel, promptNo, sel, answers>>
  BY DEF HostShip, engineVars
<1>2. CASE PromptDue(sel, hostIdentity)
  <2>1. /\ Tags' \subseteq Tags \cup {NewTag}
        /\ hostPromptSeq' = hostPromptSeq + 1
        /\ hostChoices' = ChoicesOf(sel) /\ tableNo' = sel.no
    BY <1>2, TagsShip DEF HostShip, ShipPrompt
  <2>2. inDuel /\ running /\ sel.no # 0
    BY <1>2 DEF PromptDue, IsRealSelect
  <2>3. \A t \in Tags : t.seq \in Nat /\ t.seq <= hostPromptSeq
    <3>1. \A t \in Tags : t.seq <= hostPromptSeq
      BY <2>2 DEF AnswersInv, TagsNotAhead
    <3>2. \A t \in Tags : t.seq \in Nat
      <4>1. \A t \in Carried(toClient, "PromptSnapshot") : t.seq \in Nat
        BY DEF Carried, Tag, TypeOK, NetType, ToClientMsg, StartDuelMsg,
               FieldMsg, PromptMsg, SyncErrorMsg, GameOverMsg
      <4>2. \A t \in Carried(toHost, "ClientChoice") : t.seq \in Nat
        BY DEF Carried, Tag, TypeOK, NetType, ToHostMsg, ChoiceMsg,
               SurrenderMsg
      <4>3. \A t \in OnScreen : t.seq \in Nat
        BY DEF OnScreen, Tag, TypeOK, ClientType, PromptMsg
      <4>. QED  BY <4>1, <4>2, <4>3 DEF Tags
    <3>. QED  BY <3>1, <3>2
  <2>4. NewTag.seq = hostPromptSeq + 1 /\ NewTag.no = sel.no
    BY DEF NewTag
  <2>5. hostPromptSeq \in Nat
    BY DEF TypeOK, TableType
  <2>6. RunsInDuel' /\ TableOnlyInDuel' /\ NoTagBefore'
    BY <1>1, <2>2 DEF AnswersInv, RunsInDuel, TableOnlyInDuel, NoTagBefore
  <2>7. TagsNotAhead'
    BY <2>1, <2>3, <2>4, <2>5 DEF TagsNotAhead
  <2>8. CurrentTag'
    BY <2>1, <2>3, <2>4, <2>5 DEF CurrentTag
  <2>9. TableIsForSel'
    BY <1>1, <2>1, <2>2 DEF TableIsForSel, ChoicesOf
  <2>10. AnswersBehind' /\ AnswersFit'
    BY <1>1 DEF AnswersInv, AnswersBehind, AnswersFit
  <2>. QED  BY <2>6, <2>7, <2>8, <2>9, <2>10 DEF AnswersInv
<1>3. CASE ~PromptDue(sel, hostIdentity)
  <2>1. Tags' \subseteq Tags
    BY <1>3, TagsShip
  <2>2. UNCHANGED <<hostPromptSeq, hostChoices, tableNo>>
    BY <1>3 DEF HostShip, ShipPrompt, Table
  <2>3. running => ~done
    BY DEF AnswersInv, RunsInDuel
  <2>. QED  BY <1>1, <2>1, <2>2, <2>3, AnswersQuiet
<1>. QED  BY <1>2, <1>3

\* The reset to 0 leaves an empty table and a stopped engine.
LEMMA AnswersEndDuel ==
    ASSUME TypeOK, AnswersInv, HostEndDuel
    PROVE  AnswersInv'
<1>1. Tags' = Tags
  BY TagsSame DEF HostEndDuel, clientVars, netVars
<1>2. /\ UNCHANGED <<running, done, sel, promptNo, answers>>
      /\ done /\ inDuel' = FALSE /\ hostChoices' = {}
  BY DEF HostEndDuel, engineVars, ResetHost, DuelEndUnseen
<1>3. /\ RunsInDuel' /\ TableOnlyInDuel' /\ NoTagBefore' /\ TableIsForSel'
      /\ TagsNotAhead' /\ CurrentTag'
  BY <1>2 DEF AnswersInv, RunsInDuel, TableOnlyInDuel, NoTagBefore,
     TableIsForSel, TagsNotAhead, CurrentTag
<1>4. AnswersBehind' /\ AnswersFit'
  BY <1>2 DEF AnswersInv, AnswersBehind, AnswersFit
<1>. QED  BY <1>3, <1>4 DEF AnswersInv

\* A duel starts with an empty table.
LEMMA AnswersStart ==
    ASSUME TypeOK, AnswersInv, HostStartDuel
    PROVE  AnswersInv'
<1>1. ~inDuel /\ ~done /\ hostChoices' = {}
      /\ UNCHANGED <<done, sel, promptNo, answers>>
  BY DEF HostStartDuel
<1>2. Tags' = {}
  BY <1>1, TagsStart DEF AnswersInv, NoTagBefore
<1>3. RunsInDuel'
  <2>1. ~running
    BY <1>1 DEF AnswersInv, RunsInDuel
  <2>2. inDuel' = TRUE \/ running' = running
    BY DEF HostStartDuel
  <2>. QED  BY <1>1, <2>1, <2>2 DEF RunsInDuel
<1>4. /\ TableOnlyInDuel' /\ NoTagBefore' /\ TableIsForSel' /\ TagsNotAhead'
      /\ CurrentTag'
  BY <1>1, <1>2
     DEF TableOnlyInDuel, NoTagBefore, TableIsForSel, TagsNotAhead, CurrentTag
<1>5. AnswersBehind' /\ AnswersFit'
  BY <1>1 DEF AnswersInv, AnswersBehind, AnswersFit
<1>. QED  BY <1>3, <1>4, <1>5 DEF AnswersInv

\* Every step keeps the invariant.
LEMMA AnswersStep ==
    ASSUME TypeOK, WinnerSet, AnswersInv, [Next]_vars
    PROVE  AnswersInv'
<1>0. running => ~done
  BY DEF AnswersInv, RunsInDuel
<1>1. CASE EngineIdle \/ EngineYield \/ EngineWin
  <2>1. Tags' = Tags
    BY <1>1, TagsSame DEF EngineIdle, EngineYield, EngineWin, EngineKeeps,
       clientVars, netVars
  <2>2. UNCHANGED <<hostPromptSeq, hostChoices, tableNo, inDuel, answers,
                    sel, promptNo>>
    BY <1>1 DEF EngineIdle, EngineYield, EngineWin, EngineKeeps, engineVars,
       tableVars, hostVars
  <2>3. (done => done') /\ (running' => running /\ ~done')
    BY <1>0, <1>1 DEF EngineIdle, EngineYield, EngineWin, engineVars
  <2>. QED  BY <2>1, <2>2, <2>3, AnswersQuiet
<1>2. CASE HandleClientChoiceBail \/ HandleSurrender
  <2>1. Tags' \subseteq Tags
    BY <1>2, TagsReceive DEF HostReceive
  <2>2. UNCHANGED <<hostPromptSeq, hostChoices, tableNo, inDuel, answers,
                    sel, promptNo>>
    BY <1>2 DEF HandleClientChoiceBail, HandleSurrender, Forfeit, engineVars,
       tableVars, hostVars
  <2>3. (done => done') /\ (running' => running /\ ~done')
    BY <1>0, <1>2 DEF HandleClientChoiceBail, HandleSurrender, Forfeit,
       engineVars
  <2>. QED  BY <2>1, <2>2, <2>3, AnswersQuiet
<1>3. CASE HostOpenSurrender \/ HostConfirmSurrender \/ HostCancelSurrender
             \/ HostIdle
  <2>1. Tags' = Tags
    BY <1>3, TagsSame DEF HostOpenSurrender, HostConfirmSurrender,
       HostCancelSurrender, HostIdle, clientVars, netVars
  <2>2. UNCHANGED <<hostPromptSeq, hostChoices, tableNo, inDuel, answers,
                    sel, promptNo>>
    BY <1>3 DEF HostOpenSurrender, HostConfirmSurrender, HostCancelSurrender,
       HostIdle, Forfeit, engineVars, tableVars, hostVars
  <2>3. (done => done') /\ (running' => running /\ ~done')
    BY <1>0, <1>3 DEF HostOpenSurrender, HostConfirmSurrender,
       HostCancelSurrender, HostIdle, Forfeit, engineVars
  <2>. QED  BY <2>1, <2>2, <2>3, AnswersQuiet
<1>4. CASE ClientReceive \/ ClientInput \/ LinkDown
  <2>1. Tags' \subseteq Tags
    BY <1>4, TagsClientReceive, TagsClientInput
  <2>2. UNCHANGED <<engineVars, tableVars, hostVars, answers>>
    BY <1>4 DEF ClientReceive, HandleStartDuel, HandleFieldSnapshot,
       HandlePromptSnapshot, HandleSyncError, HandleGameOver, ClientReceives,
       ClientInput, SendClientChoice, SendSurrender, LinkDown
  <2>. QED  BY <1>0, <2>1, <2>2, AnswersQuiet
            DEF engineVars, tableVars, hostVars
<1>5. CASE UNCHANGED vars
  <2>1. Tags' = Tags
    BY <1>5, TagsSame DEF vars, clientVars, netVars
  <2>. QED  BY <1>0, <1>5, <2>1, AnswersQuiet
            DEF vars, engineVars, tableVars, hostVars
<1>. QED
  BY <1>1, <1>2, <1>3, <1>4, <1>5, AnswersAsk, AnswersApply,
     AnswersHostRespond, AnswersShip, AnswersEndDuel, AnswersStart
  DEF Next, HostFrame, HostReceive, HostInput

\* The inductive invariant holds of the protocol.
LEMMA AnswersCorrect == Spec => []AnswersInv
<1>1. Init => AnswersInv
  <2>. SUFFICES ASSUME Init PROVE AnswersInv
    OBVIOUS
  <2>1. Tags = {}
    BY DEF Init, Tags, OnScreen, Carried
  <2>2. RunsInDuel /\ TableOnlyInDuel /\ TableIsForSel /\ CurrentTag
    BY DEF Init, RunsInDuel, TableOnlyInDuel, TableIsForSel, CurrentTag
  <2>3. NoTagBefore /\ TagsNotAhead
    BY <2>1 DEF NoTagBefore, TagsNotAhead
  <2>4. AnswersBehind /\ AnswersFit
    BY DEF Init, AnswersBehind, AnswersFit, NoSel
  <2>. QED  BY <2>2, <2>3, <2>4 DEF AnswersInv
<1>2. TypeOK /\ WinnerSet /\ AnswersInv /\ [Next]_vars => AnswersInv'
  BY AnswersStep
<1>. QED  BY <1>1, <1>2, TypeCorrect, PTL DEF Spec

\* Every response the host's engine takes is for the prompt it waits on: the
\* player saw that prompt when clicking, its bytes were registered for it, and
\* no prompt is answered twice, for any number of prompts, starts, choices and
\* messages under way (UI::handleClientChoice, UI::sendClientChoice).
THEOREM AnswersAlwaysFit == Spec => []AnswersFit
<1>1. AnswersInv => AnswersFit
  BY DEF AnswersInv
<1>. QED  BY <1>1, AnswersCorrect, PTL

-----------------------------------------------------------------------------
(* What the client shows.                                                  *)
(*                                                                         *)
(* A prompt for the client is, from its ship to its answer, in one place:  *)
(* on its way as a snapshot, on the client's screen, or on its way back as *)
(* a choice; or it got lost.  While the duel runs it bears the current     *)
(* sequence number there.                                                  *)

(* Channels, by the messages they carry.                                   *)
None(c, X) == \A i \in DOMAIN c : c[i] \notin X
One(c, X) == \A i, j \in DOMAIN c : c[i] \in X /\ c[j] \in X => i = j
Never(c, X, Y) ==   \* no Y after an X
    \A i, j \in DOMAIN c : i < j /\ c[i] \in X => c[j] \notin Y

(* The prompt the engine waits on, where the client is concerned.          *)
Asked == {p \in PromptMsg : p.owner = Client}
SelPrompts ==
    {p \in Asked : /\ p.no = sel.no
                   /\ running => /\ p.seq = hostPromptSeq
                                 /\ p.choices \subseteq hostChoices}
SelChoices ==
    {m \in ChoiceMsg : /\ m.no = sel.no
                       /\ m.id \in Choices \/ misclicked = m.no
                       /\ running => m.seq = hostPromptSeq /\ m.id \in hostChoices}

Nowhere == ~cSelValid /\ None(toClient, Asked) /\ None(toHost, ChoiceMsg)

\* It is in one place at most ...
OnePlace ==
    /\ One(toClient, Asked) /\ One(toHost, ChoiceMsg)
    /\ cSelValid => None(toClient, Asked)
    /\ None(toHost, ChoiceMsg) \/ (~cSelValid /\ None(toClient, Asked))
\* ... and whatever is in that place belongs to the prompt.
Belongs ==
    /\ None(toClient, Asked \ SelPrompts)
    /\ cSelValid => cSel \in SelPrompts
    /\ None(toHost, ChoiceMsg \ SelChoices)
    /\ sel.no = 0 \/ sel.owner # Client => Nowhere
\* A running duel has shipped the prompt it waits on, or has yet to do so.
Shipped == sel.no # 0 /\ hostIdentity = Identity(sel)
ShipInv ==
    /\ running => /\ hostIdentity = NoIdentity \/ Shipped
                  /\ hostIdentity = NoIdentity => Nowhere
                  /\ Shipped => choicesForSeq = hostPromptSeq
                  /\ sel.no # 0 => sel.shape # NoShape
    /\ ~running /\ ~done => sel.no = 0
    /\ inDuel /\ ~done => running
\* Nobody is told of a desync before the duel is decided or a bare card clicked.
Innocent == ~done /\ misclicked = 0
InSync == Innocent => ~cDesynced /\ None(toClient, SyncErrorMsg)
ScreenInv == OnePlace /\ Belongs /\ ShipInv /\ InSync

\* The result is announced once, when it is there, and told as announced.
Announced == {m \in GameOverMsg : m.winner = announced}
EndInv ==
    /\ announced # NoWinner => done /\ (gameOverSent \/ ~inDuel)
    /\ None(toClient, GameOverMsg \ Announced) /\ One(toClient, GameOverMsg)
    /\ Never(toClient, GameOverMsg, StartDuelMsg)
    /\ cDone => /\ announced # NoWinner /\ cWinner = announced
                /\ None(toClient, GameOverMsg \cup StartDuelMsg)

-----------------------------------------------------------------------------
(* Channels.                                                               *)

\* d is a part of c, in its order.
Part(d, c) == \E k \in Nat : \A i \in DOMAIN d : i + k \in DOMAIN c /\ d[i] = c[i + k]

\* Handling the head, losing the rest, and doing nothing leave a part.
LEMMA PartIs ==
    ASSUME NEW M, NEW c \in Seq(M)
    PROVE  /\ Part(c, c)
           /\ c # <<>> => Part(Tail(c), c)
           /\ \A n \in 0..Len(c) : Part(SubSeq(c, 1, n), c)
<1>1. Part(c, c)
  <2>1. \A i \in DOMAIN c : i + 0 \in DOMAIN c /\ c[i] = c[i + 0]
    OBVIOUS
  <2>. QED  BY <2>1 DEF Part
<1>2. ASSUME c # <<>> PROVE Part(Tail(c), c)
  <2>1. \A i \in DOMAIN Tail(c) : i + 1 \in DOMAIN c /\ Tail(c)[i] = c[i + 1]
    BY <1>2
  <2>. QED  BY <2>1 DEF Part
<1>3. ASSUME NEW n \in 0..Len(c) PROVE Part(SubSeq(c, 1, n), c)
  <2>1. \A i \in DOMAIN SubSeq(c, 1, n) :
          i + 0 \in DOMAIN c /\ SubSeq(c, 1, n)[i] = c[i + 0]
    OBVIOUS
  <2>. QED  BY <2>1 DEF Part
<1>. QED  BY <1>1, <1>2, <1>3

\* What a channel does not carry, none of its parts does.
LEMMA PartKeeps ==
    ASSUME NEW M, NEW c \in Seq(M), NEW d \in Seq(M), Part(d, c), NEW X, NEW Y
    PROVE  /\ None(c, X) => None(d, X)
           /\ One(c, X) => One(d, X)
           /\ Never(c, X, Y) => Never(d, X, Y)
<1>1. PICK k \in Nat : \A i \in DOMAIN d : i + k \in DOMAIN c /\ d[i] = c[i + k]
  BY DEF Part
<1>2. DOMAIN d \subseteq Nat
  OBVIOUS
<1>. QED  BY <1>1, <1>2 DEF None, One, Never

\* A channel that carries none of a set carries none of a smaller one.
LEMMA NoneLess ==
    ASSUME NEW c, NEW X, NEW Y, X \subseteq Y, None(c, Y)
    PROVE  None(c, X)
BY DEF None

\* One channel's messages behind another's.
LEMMA JoinKeeps ==
    ASSUME NEW M, NEW c \in Seq(M), NEW d \in Seq(M), NEW X, NEW Y
    PROVE  /\ None(c, X) => One(c, X) /\ Never(c, X, Y)
           /\ None(c, X) /\ None(d, X) => None(c \o d, X)
           /\ One(c, X) /\ None(d, X) => One(c \o d, X)
           /\ None(c, X) /\ One(d, X) => One(c \o d, X)
           /\ Never(c, X, Y) /\ None(d, Y) => Never(c \o d, X, Y)
<1>1. \A i \in DOMAIN (c \o d) :
        /\ i \in Nat
        /\ \/ i \in DOMAIN c /\ (c \o d)[i] = c[i]
           \/ i > Len(c) /\ i - Len(c) \in DOMAIN d /\ (c \o d)[i] = d[i - Len(c)]
  OBVIOUS
<1>2. \A i \in DOMAIN c : i \in Nat /\ i <= Len(c)
  OBVIOUS
<1>3. Len(c) \in Nat
  OBVIOUS
<1>4. None(c, X) => One(c, X) /\ Never(c, X, Y)
  BY DEF None, One, Never
<1>5. None(c, X) /\ None(d, X) => None(c \o d, X)
  BY <1>1 DEF None
<1>6. One(c, X) /\ None(d, X) => One(c \o d, X)
  BY <1>1 DEF None, One
<1>7. None(c, X) /\ One(d, X) => One(c \o d, X)
  BY <1>1, <1>3 DEF None, One
<1>8. Never(c, X, Y) /\ None(d, Y) => Never(c \o d, X, Y)
  BY <1>1, <1>2, <1>3 DEF None, Never
<1>. QED  BY <1>4, <1>5, <1>6, <1>7, <1>8

\* Sending.
LEMMA SentKeeps ==
    ASSUME NEW M, NEW c \in Seq(M), NEW d \in Seq(M), NEW X, NEW Y
    PROVE  /\ None(c, X) /\ None(d, X) => None(Sent(c, d), X)
           /\ One(c, X) /\ None(d, X) => One(Sent(c, d), X)
           /\ None(c, X) /\ One(d, X) => One(Sent(c, d), X)
           /\ Never(c, X, Y) /\ None(d, Y) => Never(Sent(c, d), X, Y)
BY JoinKeeps DEF Sent

\* The only one is at the head, or the head is not one; what never follows it.
LEMMA HeadIs ==
    ASSUME NEW M, NEW c \in Seq(M), c # <<>>, NEW X, NEW Y
    PROVE  /\ None(c, X) => Head(c) \notin X
           /\ One(c, X) /\ Head(c) \in X => None(Tail(c), X)
           /\ Never(c, X, Y) /\ Head(c) \in X => None(Tail(c), Y)
<1>1. \A i \in DOMAIN Tail(c) : i \in Nat /\ 1 < i + 1 /\ i + 1 # 1
                                /\ i + 1 \in DOMAIN c /\ Tail(c)[i] = c[i + 1]
  OBVIOUS
<1>2. 1 \in DOMAIN c /\ c[1] = Head(c)
  OBVIOUS
<1>. QED  BY <1>1, <1>2 DEF None, One, Never

-----------------------------------------------------------------------------
(* ScreenInv is inductive: first the steps that only lose something.       *)
LEMMA ScreenLess ==
    ASSUME TypeOK, TypeOK', ScreenInv,
           Part(toClient', toClient), Part(toHost', toHost), UNCHANGED <<sel, misclicked>>,
           running' => /\ running
                       /\ UNCHANGED <<hostPromptSeq, hostChoices, hostIdentity,
                                      choicesForSeq>>,
           ~done' => ~done, Innocent' => ~cDesynced',
           running => running' \/ done', inDuel' => inDuel,
           cSelValid' => cSelValid /\ cSel' = cSel
    PROVE  ScreenInv'
<1>1. /\ toClient \in Seq(ToClientMsg) /\ toClient' \in Seq(ToClientMsg)
      /\ toHost \in Seq(ToHostMsg) /\ toHost' \in Seq(ToHostMsg)
  BY DEF TypeOK, NetType
<1>2. /\ None(toClient, Asked) => None(toClient', Asked)
      /\ One(toClient, Asked) => One(toClient', Asked)
      /\ None(toClient, SyncErrorMsg) => None(toClient', SyncErrorMsg)
      /\ None(toClient, Asked \ SelPrompts) => None(toClient', Asked \ SelPrompts)
  BY <1>1, PartKeeps
<1>3. /\ None(toHost, ChoiceMsg) => None(toHost', ChoiceMsg)
      /\ One(toHost, ChoiceMsg) => One(toHost', ChoiceMsg)
      /\ None(toHost, ChoiceMsg \ SelChoices) => None(toHost', ChoiceMsg \ SelChoices)
  BY <1>1, PartKeeps
<1>4. SelPrompts \subseteq SelPrompts' /\ SelChoices \subseteq SelChoices'
  BY DEF SelPrompts, SelChoices
<1>5. /\ None(toClient', Asked \ SelPrompts) => None(toClient', Asked \ SelPrompts')
      /\ None(toHost', ChoiceMsg \ SelChoices) => None(toHost', ChoiceMsg \ SelChoices')
  <2>1. /\ Asked \ SelPrompts' \subseteq Asked \ SelPrompts
        /\ ChoiceMsg \ SelChoices' \subseteq ChoiceMsg \ SelChoices
    BY <1>4
  <2>. QED  BY <2>1 DEF None
<1>6. Nowhere => Nowhere'
  BY <1>2, <1>3 DEF Nowhere
<1>7. OnePlace'
  BY <1>2, <1>3 DEF ScreenInv, OnePlace
<1>8. Belongs'
  BY <1>2, <1>3, <1>4, <1>5, <1>6 DEF ScreenInv, Belongs
<1>9. ShipInv'
  BY <1>6 DEF ScreenInv, ShipInv, Shipped
<1>10. InSync'
  BY <1>2 DEF ScreenInv, InSync, Innocent
<1>. QED  BY <1>7, <1>8, <1>9, <1>10 DEF ScreenInv

\* Steps of the host that neither raise, answer nor ship a prompt.
LEMMA ScreenHost ==
    ASSUME TypeOK, TypeOK', AnswersInv, ScreenInv,
           \/ EngineIdle \/ EngineYield \/ EngineWin \/ HandleSurrender
           \/ HostOpenSurrender \/ HostConfirmSurrender \/ HostCancelSurrender
           \/ HostIdle \/ HostEndDuel
    PROVE  ScreenInv'
<1>1. running => ~done
  BY DEF AnswersInv, RunsInDuel
<1>2. Innocent => ~cDesynced
  BY DEF ScreenInv, InSync
<1>3. toClient \in Seq(ToClientMsg) /\ toHost \in Seq(ToHostMsg)
  BY DEF TypeOK, NetType
<1>4. Part(toClient, toClient) /\ Part(toHost, toHost)
  BY <1>3, PartIs
<1>5. CASE EngineIdle \/ EngineYield \/ EngineWin
  <2>1. UNCHANGED <<toClient, toHost, sel, hostPromptSeq, hostChoices, hostIdentity,
                    choicesForSeq, inDuel, cSelValid, cSel, cDesynced, misclicked>>
    BY <1>5 DEF EngineIdle, EngineYield, EngineWin, EngineKeeps, engineVars, tableVars,
       hostVars, clientVars, netVars
  <2>2. /\ running' => running
        /\ ~done' => ~done
        /\ running => running' \/ done'
    BY <1>5 DEF EngineIdle, EngineYield, EngineWin, EngineKeeps, engineVars
  <2>. QED  BY <1>2, <1>4, <2>1, <2>2, ScreenLess DEF Innocent
<1>6. CASE HandleSurrender
  <2>1. /\ toHost # <<>> /\ toHost' = Tail(toHost)
        /\ UNCHANGED <<toClient, sel, hostPromptSeq, hostChoices, hostIdentity,
                       choicesForSeq, inDuel, cSelValid, cSel, cDesynced, misclicked>>
    BY <1>6 DEF HandleSurrender, Forfeit, engineVars, tableVars, hostVars, clientVars
  <2>2. /\ running' => running
        /\ ~done' => ~done
        /\ running => running' \/ done'
    BY <1>6 DEF HandleSurrender, Forfeit, engineVars
  <2>3. Part(toHost', toHost)
    BY <1>3, <2>1, PartIs
  <2>. QED  BY <1>2, <1>4, <2>1, <2>2, <2>3, ScreenLess DEF Innocent
<1>7. CASE HostOpenSurrender \/ HostConfirmSurrender \/ HostCancelSurrender \/ HostIdle
  <2>1. UNCHANGED <<toClient, toHost, sel, hostPromptSeq, hostChoices, hostIdentity,
                    choicesForSeq, inDuel, cSelValid, cSel, cDesynced, misclicked>>
    BY <1>7 DEF HostOpenSurrender, HostConfirmSurrender, HostCancelSurrender,
       HostIdle, Forfeit, engineVars, tableVars, hostVars, clientVars, netVars
  <2>2. /\ running' => running
        /\ ~done' => ~done
        /\ running => running' \/ done'
    BY <1>7 DEF HostOpenSurrender, HostConfirmSurrender, HostCancelSurrender,
       HostIdle, Forfeit, engineVars
  <2>. QED  BY <1>2, <1>4, <2>1, <2>2, ScreenLess DEF Innocent
<1>8. CASE HostEndDuel
  <2>1. /\ UNCHANGED <<toClient, toHost, sel, cSelValid, cSel, cDesynced, misclicked>>
        /\ done /\ done' /\ ~running' /\ ~inDuel'
    BY <1>1, <1>8 DEF HostEndDuel, DuelEndUnseen, engineVars, clientVars, netVars
  <2>. QED  BY <1>4, <2>1, ScreenLess DEF Innocent
<1>. QED  BY <1>5, <1>6, <1>7, <1>8

\* Steps of the client that take no prompt, and a broken link.
LEMMA ScreenClient ==
    ASSUME TypeOK, TypeOK', AnswersInv, ScreenInv,
           \/ HandleStartDuel \/ HandleFieldSnapshot \/ HandleSyncError
           \/ HandleGameOver \/ LinkDown \/ UNCHANGED vars
           \/ (HandlePromptSnapshot /\ Head(toClient) \notin Asked)
    PROVE  ScreenInv'
<1>1. running => ~done
  BY DEF AnswersInv, RunsInDuel
<1>2. Innocent => ~cDesynced /\ None(toClient, SyncErrorMsg)
  BY DEF ScreenInv, InSync
<1>3. toClient \in Seq(ToClientMsg) /\ toHost \in Seq(ToHostMsg)
  BY DEF TypeOK, NetType
<1>4. Part(toClient, toClient) /\ Part(toHost, toHost)
  BY <1>3, PartIs
<1>5. UNCHANGED <<sel, hostPromptSeq, hostChoices, hostIdentity,
                  choicesForSeq, inDuel, running, done>>
  BY DEF HandleStartDuel, HandleFieldSnapshot, HandleSyncError, HandleGameOver,
     HandlePromptSnapshot, ClientReceives, LinkDown, vars, engineVars, tableVars, hostVars
<1>6. CASE LinkDown
  <2>1. Part(toClient', toClient) /\ Part(toHost', toHost)
    BY <1>3, <1>6, PartIs DEF LinkDown
  <2>2. UNCHANGED <<cSelValid, cSel, cDesynced, misclicked>>
    BY <1>6 DEF LinkDown, clientVars
  <2>. QED  BY <1>2, <1>5, <2>1, <2>2, ScreenLess DEF Innocent
<1>7. CASE UNCHANGED vars
  <2>1. UNCHANGED <<toClient, toHost, cSelValid, cSel, cDesynced, misclicked>>
    BY <1>7 DEF vars, clientVars, netVars
  <2>. QED  BY <1>2, <1>4, <1>5, <2>1, ScreenLess DEF Innocent
<1>8. CASE \/ HandleStartDuel \/ HandleFieldSnapshot \/ HandleSyncError
           \/ HandleGameOver \/ (HandlePromptSnapshot /\ Head(toClient) \notin Asked)
  <2>1. toClient # <<>> /\ toClient' = Tail(toClient)
        /\ UNCHANGED <<toHost, misclicked>>
    BY <1>8 DEF HandleStartDuel, HandleFieldSnapshot, HandleSyncError, HandleGameOver,
       HandlePromptSnapshot, ClientReceives
  <2>2. Part(toClient', toClient) /\ Part(toHost', toHost)
    BY <1>3, <1>4, <2>1, PartIs
  <2>3. cSelValid' => cSelValid /\ cSel' = cSel
    <3>1. CASE HandleStartDuel
      BY <3>1 DEF HandleStartDuel, ResetClient
    <3>2. CASE HandleFieldSnapshot \/ HandleSyncError \/ HandleGameOver
      BY <3>2 DEF HandleFieldSnapshot, HandleSyncError, HandleGameOver
    <3>3. CASE HandlePromptSnapshot /\ Head(toClient) \notin Asked
      <4>1. Head(toClient) \in PromptMsg
        BY <1>3, <3>3 DEF HandlePromptSnapshot, ClientReceives, ToClientMsg,
           StartDuelMsg, FieldMsg, SyncErrorMsg, GameOverMsg
      <4>2. Head(toClient).owner # Client
        BY <3>3, <4>1 DEF Asked
      <4>. QED  BY <3>3, <4>2 DEF HandlePromptSnapshot
    <3>. QED  BY <1>8, <3>1, <3>2, <3>3
  <2>4. Innocent' => ~cDesynced'
    <3>1. CASE HandleSyncError
      <4>1. Head(toClient) \in SyncErrorMsg
        BY <1>3, <3>1 DEF HandleSyncError, ClientReceives, ToClientMsg,
           StartDuelMsg, FieldMsg, PromptMsg, SyncErrorMsg, GameOverMsg
      <4>2. ~None(toClient, SyncErrorMsg)
        BY <1>3, <2>1, <4>1, HeadIs
      <4>. QED  BY <1>2, <1>5, <2>1, <4>2 DEF Innocent
    <3>2. CASE ~HandleSyncError
      <4>1. cDesynced' = cDesynced \/ cDesynced' = FALSE
        BY <1>8, <3>2 DEF HandleStartDuel, ResetClient, HandleFieldSnapshot,
           HandleGameOver, HandlePromptSnapshot
      <4>. QED  BY <1>2, <1>5, <2>1, <4>1 DEF Innocent
    <3>. QED  BY <3>1, <3>2
  <2>. QED  BY <1>2, <1>5, <2>1, <2>2, <2>3, <2>4, ScreenLess
<1>. QED  BY <1>6, <1>7, <1>8

\* When the prompt is somewhere it is open, and a running duel has shipped it.
LEMMA Somewhere ==
    ASSUME ScreenInv, ~Nowhere
    PROVE  /\ sel.no # 0 /\ sel.owner = Client
           /\ running => /\ hostIdentity # NoIdentity /\ Shipped
                         /\ choicesForSeq = hostPromptSeq
BY DEF ScreenInv, Belongs, ShipInv

\* Steps that move the prompt on, and leave the host alone.
LEMMA ScreenMoves ==
    ASSUME ScreenInv, ~Nowhere,
           UNCHANGED <<sel, hostPromptSeq, hostChoices, hostIdentity, choicesForSeq,
                       inDuel, running, done, cDesynced>>,
           misclicked' = 0 => misclicked = 0,
           None(toClient, SyncErrorMsg) => None(toClient', SyncErrorMsg),
           OnePlace', None(toClient', Asked \ SelPrompts),
           cSelValid' => cSel' \in SelPrompts,
           None(toHost', ChoiceMsg \ SelChoices')
    PROVE  ScreenInv'
<1>1. SelPrompts' = SelPrompts
  BY DEF SelPrompts
<1>2. None(toClient', Asked \ SelPrompts') /\ (cSelValid' => cSel' \in SelPrompts')
  BY <1>1
<1>3. Belongs'
  BY <1>2, Somewhere DEF Belongs
<1>4. ShipInv' /\ InSync'
  BY Somewhere DEF ScreenInv, ShipInv, InSync, Innocent, Shipped
<1>. QED  BY <1>3, <1>4 DEF ScreenInv

\* The client's handleClientPrompt: the prompt appears on the screen.
LEMMA ScreenShown ==
    ASSUME TypeOK, TypeOK', ScreenInv, HandlePromptSnapshot, Head(toClient) \in Asked
    PROVE  ScreenInv'
<1>1. /\ toClient \in Seq(ToClientMsg) /\ toClient # <<>> /\ toClient' = Tail(toClient)
      /\ toClient' \in Seq(ToClientMsg)
      /\ UNCHANGED <<toHost, sel, hostPromptSeq, hostChoices, hostIdentity, choicesForSeq,
                     inDuel, running, done, cDesynced, misclicked>>
  BY DEF HandlePromptSnapshot, ClientReceives, TypeOK, NetType, engineVars, tableVars,
     hostVars
<1>2. ~None(toClient, Asked)
  BY <1>1, HeadIs
<1>3. ~Nowhere /\ ~cSelValid /\ None(toHost, ChoiceMsg)
  BY <1>2 DEF Nowhere, ScreenInv, OnePlace
<1>4. cSel' = Head(toClient) /\ cSelValid'
  BY <1>3 DEF HandlePromptSnapshot, Asked
<1>5. None(toClient', Asked)
  BY <1>1, HeadIs DEF ScreenInv, OnePlace
<1>6. One(toClient', Asked) /\ None(toClient', Asked \ SelPrompts)
  BY <1>5 DEF None, One
<1>7. OnePlace'
  BY <1>1, <1>3, <1>5, <1>6 DEF ScreenInv, OnePlace
<1>8. cSel' \in SelPrompts
  <2>1. None(toClient, Asked \ SelPrompts)
    BY DEF ScreenInv, Belongs
  <2>2. Head(toClient) \notin Asked \ SelPrompts
    BY <1>1, <2>1, HeadIs
  <2>. QED  BY <1>4, <2>2
<1>9. None(toClient, SyncErrorMsg) => None(toClient', SyncErrorMsg)
  BY <1>1, PartIs, PartKeeps
<1>10. None(toHost', ChoiceMsg \ SelChoices')
  <2>1. SelChoices' = SelChoices
    BY <1>1 DEF SelChoices
  <2>. QED  BY <1>1, <2>1 DEF ScreenInv, Belongs
<1>. QED  BY <1>1, <1>3, <1>6, <1>7, <1>8, <1>9, <1>10, ScreenMoves

\* The client's sendClientChoice: the prompt leaves the screen with the choice.
LEMMA ScreenPicked ==
    ASSUME TypeOK, TypeOK', ScreenInv, SendClientChoice
    PROVE  ScreenInv'
<1>1. /\ cSelValid /\ ~cSelValid'
      /\ UNCHANGED <<toClient, sel, hostPromptSeq, hostChoices, hostIdentity,
                     choicesForSeq, inDuel, running, done, cDesynced>>
  BY DEF SendClientChoice, engineVars, tableVars, hostVars
<1>2. PICK id \in cSel.choices :
        /\ toHost' = Sent(toHost, <<[type |-> "ClientChoice", seq |-> cSel.seq,
                                     id |-> id, no |-> cSel.no]>>)
        /\ misclicked' = IF id \in Candidates THEN cSel.no ELSE misclicked
  BY DEF SendClientChoice
<1>. DEFINE m == [type |-> "ClientChoice", seq |-> cSel.seq, id |-> id, no |-> cSel.no]
<1>3. ~Nowhere /\ None(toClient, Asked) /\ None(toHost, ChoiceMsg)
  BY <1>1 DEF Nowhere, ScreenInv, OnePlace
<1>4. m \in SelChoices' /\ m \in ChoiceMsg /\ (misclicked' = 0 => misclicked = 0)
  <2>1. cSel \in SelPrompts /\ sel.no # 0
    BY <1>1, <1>3, Somewhere DEF ScreenInv, Belongs
  <2>2. m \in ChoiceMsg /\ cSel.no = sel.no
    BY <2>1 DEF SelPrompts, Asked, PromptMsg, ChoiceMsg
  <2>3. id \in Choices \/ misclicked' = cSel.no
    BY <1>2, <2>2 DEF ChoiceMsg, Ids
  <2>4. running => cSel.seq = hostPromptSeq /\ id \in hostChoices
    BY <2>1 DEF SelPrompts
  <2>5. m \in SelChoices'
    BY <1>1, <2>2, <2>3, <2>4 DEF SelChoices
  <2>. QED  BY <1>2, <2>1, <2>2, <2>5
<1>5. <<m>> \in Seq(ToHostMsg) /\ toHost \in Seq(ToHostMsg) /\ toHost' = Sent(toHost, <<m>>)
  BY <1>2, <1>4 DEF ToHostMsg, TypeOK, NetType
<1>. HIDE DEF m
<1>6. One(<<m>>, ChoiceMsg) /\ None(<<m>>, ChoiceMsg \ SelChoices')
  BY <1>4 DEF One, None
<1>7. One(toHost', ChoiceMsg) /\ None(toHost', ChoiceMsg \ SelChoices')
  <2>. DEFINE X == ChoiceMsg \ SelChoices'
  <2>1. None(toHost, X) /\ None(<<m>>, X)
    BY <1>3, <1>6 DEF None
  <2>. HIDE DEF X
  <2>2. None(toHost', X)
    BY <1>5, <2>1, SentKeeps
  <2>. QED  BY <1>3, <1>5, <1>6, <2>2, SentKeeps DEF X
<1>8. OnePlace'
  BY <1>1, <1>3, <1>7 DEF ScreenInv, OnePlace
<1>9. None(toClient', Asked \ SelPrompts)
  BY <1>1 DEF ScreenInv, Belongs
<1>. QED  BY <1>1, <1>3, <1>4, <1>7, <1>8, <1>9, ScreenMoves

\* Other messages to the host carry no choice.
LEMMA ScreenConcedes ==
    ASSUME TypeOK, TypeOK', ScreenInv, SendSurrender
    PROVE  ScreenInv'
<1>. DEFINE m == [type |-> "Surrender", seat |-> Client]
<1>1. /\ toHost' = Sent(toHost, <<m>>)
      /\ UNCHANGED <<toClient, sel, hostPromptSeq, hostChoices, hostIdentity, cSel,
                     cSelValid, choicesForSeq, inDuel, running, done, cDesynced, misclicked>>
  BY DEF SendSurrender, engineVars, tableVars, hostVars
<1>2. m \in ToHostMsg /\ m \notin ChoiceMsg
  BY DEF ToHostMsg, SurrenderMsg, ChoiceMsg, Seats
<1>3. toHost \in Seq(ToHostMsg)
  BY DEF TypeOK, NetType
<1>. HIDE DEF m
<1>4. <<m>> \in Seq(ToHostMsg) /\ None(<<m>>, ChoiceMsg)
      /\ None(<<m>>, ChoiceMsg \ SelChoices)
  BY <1>2 DEF None
<1>5. /\ None(toHost, ChoiceMsg) => None(toHost', ChoiceMsg)
      /\ One(toHost, ChoiceMsg) => One(toHost', ChoiceMsg)
      /\ None(toHost, ChoiceMsg \ SelChoices) => None(toHost', ChoiceMsg \ SelChoices)
  BY <1>1, <1>3, <1>4, SentKeeps
<1>6. SelPrompts' = SelPrompts /\ SelChoices' = SelChoices
  BY <1>1 DEF SelPrompts, SelChoices
<1>7. Nowhere => Nowhere'
  BY <1>1, <1>5 DEF Nowhere
<1>8. OnePlace'
  BY <1>1, <1>5 DEF ScreenInv, OnePlace
<1>9. Belongs'
  <2>1. None(toHost', ChoiceMsg \ SelChoices')
    BY <1>5, <1>6 DEF ScreenInv, Belongs
  <2>2. None(toClient', Asked \ SelPrompts') /\ (cSelValid' => cSel' \in SelPrompts')
    BY <1>1, <1>6 DEF ScreenInv, Belongs
  <2>. QED  BY <1>1, <1>7, <2>1, <2>2 DEF ScreenInv, Belongs
<1>10. ShipInv' /\ InSync'
  BY <1>1, <1>7 DEF ScreenInv, ShipInv, InSync, Innocent, Shipped
<1>. QED  BY <1>8, <1>9, <1>10 DEF ScreenInv

\* A choice under way fits: while the duel runs, the host accepts it, unless it is
\* a bare card of the prompt that is open.
LEMMA ChoiceFits ==
    ASSUME TypeOK, AnswersInv, ScreenInv, toHost # <<>>,
           Head(toHost).type = "ClientChoice"
    PROVE  /\ Head(toHost) \in SelChoices /\ ~None(toHost, ChoiceMsg)
           /\ None(Tail(toHost), ChoiceMsg)
           /\ ~cSelValid /\ None(toClient, Asked)
           /\ ~done => running
           /\ \/ done \/ ChoiceAcceptable(Head(toHost))
              \/ misclicked = sel.no /\ sel.no # 0
<1>1. toHost \in Seq(ToHostMsg) /\ Head(toHost) \in ChoiceMsg
  BY DEF TypeOK, NetType, ToHostMsg, ChoiceMsg, SurrenderMsg
<1>2. Head(toHost) \in SelChoices
  <2>1. None(toHost, ChoiceMsg \ SelChoices)
    BY DEF ScreenInv, Belongs
  <2>2. Head(toHost) \notin ChoiceMsg \ SelChoices
    BY <1>1, <2>1, HeadIs
  <2>. QED  BY <1>1, <2>2
<1>3. ~None(toHost, ChoiceMsg)
  BY <1>1, HeadIs
<1>4. None(Tail(toHost), ChoiceMsg)
  <2>1. One(toHost, ChoiceMsg)
    BY DEF ScreenInv, OnePlace
  <2>. QED  BY <1>1, <2>1, HeadIs
<1>5. ~cSelValid /\ None(toClient, Asked)
  BY <1>3 DEF ScreenInv, OnePlace
<1>6. ASSUME ~done
      PROVE  /\ running
             /\ ChoiceAcceptable(Head(toHost)) \/ (misclicked = sel.no /\ sel.no # 0)
  <2>1. /\ sel.no # 0 /\ sel.owner = Client
        /\ running => choicesForSeq = hostPromptSeq
    BY <1>3, Somewhere DEF Nowhere
  <2>2. running
    BY <1>6, <2>1 DEF ScreenInv, ShipInv
  <2>. QED  BY <1>2, <2>1, <2>2 DEF SelChoices, ChoiceAcceptable, IsRealSelect
<1>. QED  BY <1>1, <1>2, <1>3, <1>4, <1>5, <1>6

\* So a choice is refused only after the duel or for a bare card.
LEMMA ScreenBail ==
    ASSUME TypeOK, TypeOK', AnswersInv, ScreenInv, HandleClientChoiceBail
    PROVE  ScreenInv'
<1>1. /\ toHost # <<>> /\ Head(toHost).type = "ClientChoice"
      /\ ~ChoiceAcceptable(Head(toHost)) /\ toHost' = Tail(toHost)
      /\ toClient' = Sent(toClient, <<[type |-> "SyncError"]>>)
      /\ UNCHANGED <<sel, hostPromptSeq, hostChoices, hostIdentity, cSel, cSelValid,
                     choicesForSeq, inDuel, running, done, cDesynced, misclicked>>
  BY DEF HandleClientChoiceBail, engineVars, tableVars, hostVars, clientVars
<1>2. /\ ~Innocent /\ ~cSelValid /\ None(toClient, Asked)
      /\ None(toHost', ChoiceMsg) /\ ~None(toHost, ChoiceMsg)
  BY <1>1, ChoiceFits DEF Innocent
<1>3. toClient \in Seq(ToClientMsg)
  BY DEF TypeOK, NetType
<1>4. [type |-> "SyncError"] \in ToClientMsg /\ [type |-> "SyncError"] \notin Asked
  BY MessageType DEF Asked, PromptMsg
<1>5. None(toClient', Asked)
  <2>1. None(<<[type |-> "SyncError"]>>, Asked)
    BY <1>4 DEF None
  <2>2. <<[type |-> "SyncError"]>> \in Seq(ToClientMsg)
    BY <1>4
  <2>. QED  BY <1>1, <1>2, <1>3, <2>1, <2>2, SentKeeps
<1>6. Nowhere'
  BY <1>1, <1>2, <1>5 DEF Nowhere
<1>7. OnePlace' /\ Belongs'
  BY <1>6 DEF Nowhere, OnePlace, Belongs, None, One
<1>8. ShipInv'
  BY <1>1, <1>6 DEF ScreenInv, ShipInv, Shipped
<1>9. InSync'
  BY <1>1, <1>2 DEF InSync, Innocent
<1>. QED  BY <1>7, <1>8, <1>9 DEF ScreenInv

\* Field snapshots are neither prompts nor errors.
LEMMA FieldOutNone ==
    ASSUME NEW b \in Boards, NEW h
    PROVE  /\ FieldOut(b, h) \in Seq(ToClientMsg)
           /\ None(FieldOut(b, h), Asked) /\ None(FieldOut(b, h), SyncErrorMsg)
           /\ None(FieldOut(b, h), GameOverMsg) /\ None(FieldOut(b, h), StartDuelMsg)
BY FieldOutType DEF FieldOut, None, Asked, PromptMsg, SyncErrorMsg, GameOverMsg,
   StartDuelMsg

\* The choice that answers the prompt was the one place it was in.
LEMMA ScreenApply ==
    ASSUME TypeOK, TypeOK', AnswersInv, ScreenInv, HandleClientChoiceApply
    PROVE  ScreenInv'
<1>1. /\ toHost # <<>> /\ Head(toHost).type = "ClientChoice"
      /\ toHost' = Tail(toHost) /\ sel' = NoSel
      /\ toClient' = Sent(toClient, FieldOut(board, fieldHash))
      /\ UNCHANGED <<cSel, cSelValid, inDuel, running, done, cDesynced, misclicked>>
  BY DEF HandleClientChoiceApply, Respond, clientVars
<1>2. hostIdentity' = NoIdentity
  BY DEF HandleClientChoiceApply, ShipPrompt, PromptDue, IsRealSelect, NoSel
<1>3. /\ ~cSelValid /\ None(toClient, Asked) /\ None(toHost', ChoiceMsg)
      /\ ~done => running
  BY <1>1, ChoiceFits
<1>4. toClient \in Seq(ToClientMsg) /\ board \in Boards
  BY DEF TypeOK, NetType, EngineType
<1>5. /\ None(toClient', Asked)
      /\ None(toClient, SyncErrorMsg) => None(toClient', SyncErrorMsg)
  BY <1>1, <1>3, <1>4, FieldOutNone, SentKeeps
<1>6. Nowhere'
  BY <1>1, <1>3, <1>5 DEF Nowhere
<1>7. OnePlace' /\ Belongs'
  BY <1>6 DEF Nowhere, OnePlace, Belongs, None, One
<1>8. ShipInv'
  <2>1. sel'.no = 0
    BY <1>1 DEF NoSel
  <2>2. running => ~(sel'.no # 0)
    BY <2>1
  <2>. QED  BY <1>1, <1>2, <1>3, <1>6, <2>1 DEF ScreenInv, ShipInv, Shipped
<1>9. InSync'
  BY <1>1, <1>5 DEF ScreenInv, InSync, Innocent
<1>. QED  BY <1>7, <1>8, <1>9 DEF ScreenInv

\* Steps of the host that leave the channels alone while nothing is anywhere.
LEMMA ScreenIdle ==
    ASSUME ScreenInv, Nowhere,
           UNCHANGED <<toClient, toHost, cSel, cSelValid, cDesynced, misclicked, inDuel,
                     running, done>>,
           running, hostIdentity' = NoIdentity, sel'.no # 0 => sel'.shape # NoShape
    PROVE  ScreenInv'
<1>1. Nowhere'
  BY DEF Nowhere
<1>2. OnePlace' /\ Belongs'
  BY <1>1 DEF Nowhere, OnePlace, Belongs, None, One
<1>3. ShipInv'
  BY <1>1 DEF ShipInv, Shipped, Identity, NoIdentity, NoSel
<1>4. InSync'
  BY DEF ScreenInv, InSync, Innocent
<1>. QED  BY <1>2, <1>3, <1>4 DEF ScreenInv

\* A new request is nowhere yet.
LEMMA ScreenAsk ==
    ASSUME TypeOK, TypeOK', ScreenInv, EngineAsk
    PROVE  ScreenInv'
<1>1. /\ running /\ sel.no = 0
      /\ UNCHANGED <<toClient, toHost, cSel, cSelValid, cDesynced, misclicked, inDuel,
                     running, done, hostIdentity>>
  BY DEF EngineAsk, EngineKeeps, IsRealSelect, tableVars, hostVars, clientVars, netVars
<1>2. Nowhere /\ hostIdentity = NoIdentity
  BY <1>1 DEF ScreenInv, Belongs, ShipInv, Shipped
<1>3. sel'.shape # NoShape
  BY ShapesAssumption DEF EngineAsk
<1>. QED  BY <1>1, <1>2, <1>3, ScreenIdle

\* The host's own answer is to a prompt of its own.
LEMMA ScreenRespond ==
    ASSUME TypeOK, TypeOK', ScreenInv, HostRespond
    PROVE  ScreenInv'
<1>1. /\ running /\ sel.owner = Host /\ hostIdentity' = NoIdentity /\ sel' = NoSel
      /\ UNCHANGED <<toClient, toHost, cSel, cSelValid, cDesynced, misclicked, inDuel,
                     running, done>>
  BY DEF HostRespond, Respond, hostVars, clientVars, netVars
<1>2. Nowhere
  BY <1>1, SeatsAssumption DEF ScreenInv, Belongs
<1>3. sel'.no = 0
  BY <1>1 DEF NoSel
<1>. QED  BY <1>1, <1>2, <1>3, ScreenIdle

\* What the host ships in a frame: the prompt if it is new, the result if it is
\* due, and nothing else that the invariants speak of.
ShipOut == FieldOut(board, fieldHash) \o PromptOut(sel, hostIdentity) \o GameOverOut
\* What a ship contains: the due prompt once, no start, no error, one winner.
LEMMA ShipCarries ==
    ASSUME TypeOK, WinnerSet
    PROVE  /\ ShipOut \in Seq(ToClientMsg)
           /\ None(ShipOut, SyncErrorMsg) /\ None(ShipOut, StartDuelMsg)
           /\ None(ShipOut, Asked \ {PromptOf(sel, hostPromptSeq + 1)})
           /\ One(ShipOut, Asked)
           /\ ~PromptDue(sel, hostIdentity) => None(ShipOut, Asked)
           /\ None(ShipOut, GameOverMsg \ {[type |-> "GameOver", winner |-> winner]})
           /\ One(ShipOut, GameOverMsg)
           /\ ~GameOverDue => None(ShipOut, GameOverMsg)
<1>. DEFINE f == FieldOut(board, fieldHash)
            p == PromptOut(sel, hostIdentity)
            q == PromptOf(sel, hostPromptSeq + 1)
            g == GameOverOut
            w == [type |-> "GameOver", winner |-> winner]
<1>1. /\ board \in Boards /\ sel \in Selections /\ hostPromptSeq \in Nat
      /\ hostPromptSeq + 1 \in Nat
  BY DEF TypeOK, EngineType, TableType
<1>2. /\ f \in Seq(ToClientMsg) /\ None(f, Asked) /\ None(f, SyncErrorMsg)
      /\ None(f, GameOverMsg) /\ None(f, StartDuelMsg)
  BY <1>1, FieldOutNone
<1>3. p \in Seq(ToClientMsg) /\ g \in Seq(ToClientMsg)
  BY <1>1, PromptOutType, GameOverOutType DEF WinnerSet
<1>4. q \in PromptMsg
  BY <1>1, PromptOfType
<1>5. /\ None(p, SyncErrorMsg) /\ None(p, GameOverMsg) /\ None(p, StartDuelMsg)
      /\ None(p, Asked \ {q}) /\ One(p, Asked)
      /\ ~PromptDue(sel, hostIdentity) => None(p, Asked)
  BY <1>4 DEF PromptOut, None, One, PromptMsg, SyncErrorMsg, GameOverMsg, StartDuelMsg
<1>6. /\ None(g, SyncErrorMsg) /\ None(g, Asked) /\ None(g, StartDuelMsg)
      /\ None(g, GameOverMsg \ {w}) /\ One(g, GameOverMsg)
      /\ ~GameOverDue => None(g, GameOverMsg)
  BY DEF GameOverOut, None, One, Asked, PromptMsg, SyncErrorMsg, GameOverMsg, StartDuelMsg
<1>. HIDE DEF f, p, q, g, w
<1>7. f \o p \in Seq(ToClientMsg) /\ ShipOut = (f \o p) \o g
  BY <1>2, <1>3 DEF ShipOut, f, p, g
<1>8. /\ None(f \o p, SyncErrorMsg) /\ None(f \o p, GameOverMsg)
      /\ None(f \o p, StartDuelMsg)
      /\ None(f \o p, Asked \ {q}) /\ One(f \o p, Asked)
      /\ ~PromptDue(sel, hostIdentity) => None(f \o p, Asked)
  <2>1. None(f, Asked \ {q})
    BY <1>2 DEF None
  <2>. QED  BY <1>2, <1>3, <1>5, <2>1, JoinKeeps
<1>9. None(g, Asked \ {q}) /\ None(f \o p, GameOverMsg \ {w})
  BY <1>6, <1>8 DEF None
<1>. HIDE DEF ShipOut
<1>10. /\ None(ShipOut, SyncErrorMsg) /\ None(ShipOut, StartDuelMsg)
       /\ None(ShipOut, Asked \ {q}) /\ One(ShipOut, Asked)
       /\ ~PromptDue(sel, hostIdentity) => None(ShipOut, Asked)
       /\ None(ShipOut, GameOverMsg \ {w}) /\ One(ShipOut, GameOverMsg)
       /\ ~GameOverDue => None(ShipOut, GameOverMsg)
  BY <1>3, <1>6, <1>7, <1>8, <1>9, JoinKeeps
<1>. QED  BY <1>3, <1>7, <1>10 DEF q, w

\* A prompt that is shipped is on its way, and nowhere else.
LEMMA ScreenShip ==
    ASSUME TypeOK, TypeOK', WinnerSet, ScreenInv, HostShip
    PROVE  ScreenInv'
<1>1. /\ toClient' = Sent(toClient, ShipOut) /\ ShipPrompt(sel, hostIdentity, Table)
      /\ UNCHANGED <<toHost, sel, cSel, cSelValid, cDesynced, misclicked, inDuel,
                     running, done>>
  BY DEF HostShip, ShipOut, engineVars, clientVars
<1>2. toClient \in Seq(ToClientMsg) /\ ShipOut \in Seq(ToClientMsg)
  BY ShipCarries DEF TypeOK, NetType
<1>3. InSync'
  <2>1. None(toClient, SyncErrorMsg) => None(toClient', SyncErrorMsg)
    BY <1>1, <1>2, ShipCarries, SentKeeps
  <2>. QED  BY <1>1, <2>1 DEF ScreenInv, InSync, Innocent
<1>4. CASE ~PromptDue(sel, hostIdentity)
  <2>1. /\ UNCHANGED <<hostPromptSeq, hostChoices, choicesForSeq>>
        /\ hostIdentity' = IF inDuel /\ running /\ ~IsRealSelect(sel)
                           THEN NoIdentity ELSE hostIdentity
    BY <1>1, <1>4 DEF ShipPrompt, Table
  <2>2. None(ShipOut, Asked) /\ None(ShipOut, Asked \ SelPrompts)
    BY <1>4, ShipCarries DEF None
  <2>3. /\ None(toClient, Asked) => None(toClient', Asked)
        /\ One(toClient, Asked) => One(toClient', Asked)
        /\ None(toClient, Asked \ SelPrompts) => None(toClient', Asked \ SelPrompts)
    BY <1>1, <1>2, <2>2, SentKeeps
  <2>4. SelPrompts' = SelPrompts /\ SelChoices' = SelChoices
    BY <1>1, <2>1 DEF SelPrompts, SelChoices
  <2>5. Nowhere => Nowhere'
    BY <1>1, <2>3 DEF Nowhere
  <2>6. OnePlace'
    BY <1>1, <2>3 DEF ScreenInv, OnePlace
  <2>7. Belongs'
    <3>1. None(toClient', Asked \ SelPrompts') /\ (cSelValid' => cSel' \in SelPrompts')
      BY <1>1, <2>3, <2>4 DEF ScreenInv, Belongs
    <3>2. None(toHost', ChoiceMsg \ SelChoices')
      BY <1>1, <2>4 DEF ScreenInv, Belongs
    <3>. QED  BY <1>1, <2>5, <3>1, <3>2 DEF ScreenInv, Belongs
  <2>8. ShipInv'
    <3>1. running /\ ~IsRealSelect(sel) => Nowhere
      BY DEF ScreenInv, Belongs, IsRealSelect
    <3>. QED  BY <1>1, <2>1, <2>5, <3>1 DEF ScreenInv, ShipInv, Shipped, IsRealSelect
  <2>. QED  BY <1>3, <2>6, <2>7, <2>8 DEF ScreenInv
<1>5. CASE PromptDue(sel, hostIdentity)
  <2>. DEFINE q == PromptOf(sel, hostPromptSeq + 1)
  <2>1. /\ hostPromptSeq' = hostPromptSeq + 1 /\ hostIdentity' = Identity(sel)
        /\ hostChoices' = ChoicesOf(sel) /\ choicesForSeq' = hostPromptSeq'
    BY <1>1, <1>5 DEF ShipPrompt
  <2>2. running /\ sel.no # 0 /\ Identity(sel) # hostIdentity
    BY <1>5 DEF PromptDue, IsRealSelect
  <2>3. Nowhere
    BY <2>2 DEF ScreenInv, ShipInv, Shipped
  <2>4. /\ q \in PromptMsg /\ q.owner = sel.owner /\ q.no = sel.no
        /\ q.seq = hostPromptSeq' /\ q.choices = hostChoices'
    <3>1. hostPromptSeq + 1 \in Nat /\ sel \in Selections
      BY DEF TypeOK, EngineType, TableType
    <3>. QED  BY <2>1, <3>1, PromptOfType DEF PromptOf
  <2>5. q \in Asked => q \in SelPrompts'
    BY <1>1, <2>4 DEF SelPrompts, Asked
  <2>6. None(ShipOut, Asked \ {q})
    BY ShipCarries
  <2>. HIDE DEF q
  <2>7. None(ShipOut, Asked \ SelPrompts') /\ One(ShipOut, Asked)
    BY <2>5, <2>6, ShipCarries DEF None
  <2>8. None(toClient, Asked) /\ None(toClient, Asked \ SelPrompts')
    BY <2>3 DEF Nowhere, None
  <2>9. One(toClient', Asked) /\ None(toClient', Asked \ SelPrompts')
    <3>. DEFINE X == Asked \ SelPrompts'
    <3>1. None(toClient, X) /\ None(ShipOut, X)
      BY <2>7, <2>8
    <3>. HIDE DEF X
    <3>2. None(toClient', X)
      BY <1>1, <1>2, <3>1, SentKeeps
    <3>. QED  BY <1>1, <1>2, <2>7, <2>8, <3>2, SentKeeps DEF X
  <2>10. ~cSelValid' /\ None(toHost', ChoiceMsg)
    BY <1>1, <2>3 DEF Nowhere
  <2>11. sel.owner # Client => Nowhere'
    <3>1. ASSUME sel.owner # Client PROVE None(toClient', Asked)
      <4>1. q \notin Asked
        BY <2>4, <3>1 DEF Asked
      <4>2. None(ShipOut, Asked)
        BY <2>6, <4>1 DEF None
      <4>. QED  BY <1>1, <1>2, <2>8, <4>2, SentKeeps
    <3>. QED  BY <2>10, <3>1 DEF Nowhere
  <2>12. OnePlace'
    BY <2>9, <2>10 DEF OnePlace, One, None
  <2>13. Belongs'
    <3>1. None(toHost', ChoiceMsg \ SelChoices')
      BY <2>10 DEF None
    <3>. QED  BY <1>1, <2>2, <2>9, <2>10, <2>11, <3>1 DEF Belongs
  <2>14. ShipInv'
    <3>1. sel.shape # NoShape
      BY <2>2 DEF ScreenInv, ShipInv
    <3>2. Identity(sel) # NoIdentity
      BY <3>1 DEF Identity, NoIdentity, NoSel
    <3>. QED  BY <1>1, <2>1, <2>2, <3>1, <3>2 DEF ScreenInv, ShipInv, Shipped
  <2>. QED  BY <1>3, <2>12, <2>13, <2>14 DEF ScreenInv
<1>. QED  BY <1>4, <1>5

\* sendMpStartDuel: nothing of an earlier prompt is left anywhere.
LEMMA ScreenStart ==
    ASSUME TypeOK, TypeOK', AnswersInv, ScreenInv, HostStartDuel
    PROVE  ScreenInv'
<1>1. /\ ~inDuel /\ ~done
      /\ UNCHANGED <<done, sel, toHost, cSel, cSelValid, cDesynced, misclicked>>
      /\ hostIdentity' = NoIdentity /\ hostChoices' = {}
      /\ inDuel' => running'
  BY DEF HostStartDuel, clientVars
<1>2. ~running /\ sel.no = 0
  BY <1>1 DEF AnswersInv, RunsInDuel, ScreenInv, ShipInv
<1>3. Nowhere
  BY <1>2 DEF ScreenInv, Belongs
<1>4. PICK d \in Seq(ToClientMsg) :
        toClient' = Sent(toClient, d) /\ None(d, Asked) /\ None(d, SyncErrorMsg)
  <2>. DEFINE st == [type |-> "StartDuel"]
              fd == [type |-> "FieldSnapshot", board |-> board']
  <2>1. board' \in Boards
    BY DEF HostStartDuel
  <2>2. /\ st \in ToClientMsg /\ fd \in ToClientMsg
        /\ st \notin Asked /\ fd \notin Asked
        /\ st \notin SyncErrorMsg /\ fd \notin SyncErrorMsg
    BY <2>1, MessageType DEF Asked, PromptMsg, SyncErrorMsg
  <2>3. toClient' \in {Sent(toClient, <<st>>), Sent(toClient, <<st, fd>>)}
    BY DEF HostStartDuel
  <2>. HIDE DEF st, fd
  <2>4. /\ <<st>> \in Seq(ToClientMsg) /\ <<st, fd>> \in Seq(ToClientMsg)
        /\ None(<<st>>, Asked) /\ None(<<st>>, SyncErrorMsg)
        /\ None(<<st, fd>>, Asked) /\ None(<<st, fd>>, SyncErrorMsg)
    BY <2>2 DEF None
  <2>. QED  BY <2>3, <2>4
<1>5. toClient \in Seq(ToClientMsg)
  BY DEF TypeOK, NetType
<1>6. /\ None(toClient, Asked) => None(toClient', Asked)
      /\ None(toClient, SyncErrorMsg) => None(toClient', SyncErrorMsg)
  BY <1>4, <1>5, SentKeeps
<1>7. Nowhere'
  BY <1>1, <1>3, <1>6 DEF Nowhere
<1>8. OnePlace' /\ Belongs'
  BY <1>7 DEF Nowhere, OnePlace, Belongs, None, One
<1>9. ShipInv'
  BY <1>1, <1>2, <1>7 DEF ShipInv, Shipped
<1>10. InSync'
  BY <1>1, <1>6 DEF ScreenInv, InSync, Innocent
<1>. QED  BY <1>8, <1>9, <1>10 DEF ScreenInv

\* No prompt has been raised at the start.
LEMMA ScreenInit ==
    ASSUME Init PROVE ScreenInv
<1>1. Nowhere /\ sel.no = 0 /\ ~inDuel /\ ~running /\ ~cDesynced
      /\ None(toClient, SyncErrorMsg)
  BY DEF Init, Nowhere, None, NoSel
<1>2. OnePlace /\ Belongs
  BY <1>1 DEF Nowhere, OnePlace, Belongs, None, One
<1>. QED  BY <1>1, <1>2 DEF ScreenInv, ShipInv, InSync

\* Every step keeps ScreenInv.
LEMMA ScreenStep ==
    ASSUME TypeOK, TypeOK', WinnerSet, AnswersInv, ScreenInv, [Next]_vars
    PROVE  ScreenInv'
<1>1. CASE HandlePromptSnapshot
  BY <1>1, ScreenClient, ScreenShown
<1>2. CASE HostFrame
  BY <1>2, ScreenHost, ScreenAsk, ScreenShip DEF HostFrame
<1>3. CASE HostReceive
  BY <1>3, ScreenBail, ScreenApply, ScreenHost DEF HostReceive
<1>4. CASE HostInput
  BY <1>4, ScreenHost, ScreenRespond, ScreenStart DEF HostInput
<1>5. CASE \/ HandleStartDuel \/ HandleFieldSnapshot \/ HandleSyncError
           \/ HandleGameOver \/ LinkDown \/ UNCHANGED vars
  BY <1>5, ScreenClient
<1>6. CASE ClientInput
  BY <1>6, ScreenPicked, ScreenConcedes DEF ClientInput
<1>. QED  BY <1>1, <1>2, <1>3, <1>4, <1>5, <1>6 DEF Next, ClientReceive

\* The inductive invariant holds of the protocol.
LEMMA ScreenCorrect == Spec => []ScreenInv
<1>1. Init => ScreenInv
  BY ScreenInit
<1>2. TypeOK /\ TypeOK' /\ WinnerSet /\ AnswersInv /\ ScreenInv /\ [Next]_vars
        => ScreenInv'
  BY ScreenStep
<1>. QED  BY <1>1, <1>2, TypeCorrect, AnswersCorrect, PTL DEF Spec

\* While the engine runs, a prompt the client can click is the one the host
\* waits on, under the current sequence number, with every offered choice in
\* the host's table and no choice under way: the click, delivered, is accepted,
\* except on the board on a card of a multi-pick, which has no response bytes
\* (UI::handleClientPrompt, UI::sendClientChoice, UI::handleClientChoice).
THEOREM ShownSafe == Spec => []ShownPromptIsLive
<1>1. TypeOK /\ ScreenInv => ShownPromptIsLive
  <2>. SUFFICES ASSUME TypeOK, ScreenInv, cSelValid, running PROVE ShownPromptIsLive
    BY DEF ShownPromptIsLive
  <2>1. ~Nowhere
    BY DEF Nowhere
  <2>2. sel.no # 0 /\ sel.owner = Client /\ choicesForSeq = hostPromptSeq
    BY <2>1, Somewhere
  <2>3. /\ cSel.no = sel.no /\ cSel.seq = hostPromptSeq
        /\ cSel.choices \subseteq hostChoices /\ cSel.choices \subseteq Ids
    BY DEF ScreenInv, Belongs, SelPrompts, Asked, PromptMsg
  <2>4. None(toHost, ChoiceMsg)
    BY DEF ScreenInv, OnePlace
  <2>5. \A m \in ToHost : m.type # "ClientChoice"
    BY <2>4 DEF None, ToHost, TypeOK, NetType, ToHostMsg, ChoiceMsg, SurrenderMsg
  <2>6. \A id \in cSel.choices \ Candidates :
          ChoiceAcceptable([seq |-> cSel.seq, id |-> id])
    BY <2>2, <2>3 DEF ChoiceAcceptable, IsRealSelect, Ids
  <2>. QED  BY <2>2, <2>3, <2>5, <2>6 DEF ShownPromptIsLive
<1>. QED  BY <1>1, TypeCorrect, ScreenCorrect, PTL

\* While the duel is being played, a client is told that it is out of sync only
\* for a click on the board on a card of a multi-pick: of the refusals of
\* UI::handleClientChoice the missing bytes are the one it can meet.
THEOREM DesyncSafe == Spec => []NoFalseDesync
<1>1. TypeOK /\ ScreenInv => NoFalseDesync
  <2>. SUFFICES ASSUME TypeOK, ScreenInv, Innocent PROVE NoFalseDesync
    BY DEF NoFalseDesync, Innocent
  <2>1. ~cDesynced /\ None(toClient, SyncErrorMsg)
    BY DEF ScreenInv, InSync
  <2>2. \A m \in ToClient : m.type # "SyncError"
    BY <2>1 DEF None, ToClient, TypeOK, NetType, ToClientMsg, SyncErrorMsg,
       StartDuelMsg, FieldMsg, PromptMsg, GameOverMsg
  <2>. QED  BY <2>1, <2>2 DEF NoFalseDesync
<1>. QED  BY <1>1, TypeCorrect, ScreenCorrect, PTL

-----------------------------------------------------------------------------
(* EndInv is inductive: first the steps that announce nothing.             *)
LEMMA EndLess ==
    ASSUME TypeOK, TypeOK', EndInv,
           Part(toClient', toClient), UNCHANGED announced, done => done',
           gameOverSent \/ ~inDuel => gameOverSent' \/ ~inDuel',
           cDone' => cDone /\ cWinner' = cWinner
    PROVE  EndInv'
<1>1. toClient \in Seq(ToClientMsg) /\ toClient' \in Seq(ToClientMsg)
  BY DEF TypeOK, NetType
<1>2. /\ None(toClient, GameOverMsg \ Announced) => None(toClient', GameOverMsg \ Announced)
      /\ One(toClient, GameOverMsg) => One(toClient', GameOverMsg)
      /\ Never(toClient, GameOverMsg, StartDuelMsg)
           => Never(toClient', GameOverMsg, StartDuelMsg)
      /\ None(toClient, GameOverMsg \cup StartDuelMsg)
           => None(toClient', GameOverMsg \cup StartDuelMsg)
  BY <1>1, PartKeeps
<1>3. Announced' = Announced
  BY DEF Announced
<1>. QED  BY <1>2, <1>3 DEF EndInv

\* What is sent while the result is not news.
LEMMA EndMore ==
    ASSUME TypeOK, EndInv, NEW d \in Seq(ToClientMsg), toClient' = Sent(toClient, d),
           None(d, GameOverMsg), None(d, StartDuelMsg),
           UNCHANGED <<announced, done, gameOverSent, inDuel, cDone, cWinner>>
    PROVE  EndInv'
<1>1. toClient \in Seq(ToClientMsg)
  BY DEF TypeOK, NetType
<1>2. None(d, GameOverMsg \ Announced) /\ None(d, GameOverMsg \cup StartDuelMsg)
  BY DEF None
<1>3. /\ None(toClient, GameOverMsg \ Announced) => None(toClient', GameOverMsg \ Announced)
      /\ One(toClient, GameOverMsg) => One(toClient', GameOverMsg)
      /\ Never(toClient, GameOverMsg, StartDuelMsg)
           => Never(toClient', GameOverMsg, StartDuelMsg)
      /\ None(toClient, GameOverMsg \cup StartDuelMsg)
           => None(toClient', GameOverMsg \cup StartDuelMsg)
  BY <1>1, <1>2, SentKeeps
<1>4. Announced' = Announced
  BY DEF Announced
<1>. QED  BY <1>3, <1>4 DEF EndInv

\* Before the announcement no result is under way, and none was told.
LEMMA EndBefore ==
    ASSUME EndInv, announced = NoWinner
    PROVE  None(toClient, GameOverMsg) /\ ~cDone
<1>1. Announced = {}
  BY WinnerAssumption DEF Announced, GameOverMsg, Winners
<1>. QED  BY <1>1 DEF EndInv, None

\* The tail of pumpMultiplayer announces the winner the host has.
LEMMA EndShip ==
    ASSUME TypeOK, WinnerSet, EndInv, HostShip
    PROVE  EndInv'
<1>1. /\ toClient' = Sent(toClient, ShipOut)
      /\ UNCHANGED <<done, inDuel, cDone, cWinner>>
      /\ gameOverSent' = (gameOverSent \/ GameOverDue)
      /\ announced' = IF GameOverDue THEN winner ELSE announced
  BY DEF HostShip, ShipOut, engineVars, clientVars
<1>2. /\ toClient \in Seq(ToClientMsg) /\ gameOverSent \in BOOLEAN
      /\ ShipOut \in Seq(ToClientMsg)
  BY ShipCarries DEF TypeOK, NetType, HostType
<1>3. CASE ~GameOverDue
  <2>1. UNCHANGED <<announced, gameOverSent>>
    BY <1>1, <1>2, <1>3
  <2>. QED  BY <1>1, <1>2, <1>3, <2>1, ShipCarries, EndMore
<1>4. CASE GameOverDue
  <2>1. done /\ inDuel /\ announced = NoWinner /\ winner \in Winners
    BY <1>4 DEF GameOverDue, EndInv, WinnerSet
  <2>2. None(toClient, GameOverMsg) /\ ~cDone
    BY <2>1, EndBefore
  <2>3. announced' = winner /\ gameOverSent'
    BY <1>1, <1>4
  <2>4. [type |-> "GameOver", winner |-> winner] \in Announced'
    BY <2>1, <2>3 DEF Announced, GameOverMsg
  <2>5. None(ShipOut, GameOverMsg \ Announced') /\ One(ShipOut, GameOverMsg)
        /\ None(ShipOut, StartDuelMsg)
    BY <2>4, ShipCarries DEF None
  <2>6. None(toClient, GameOverMsg \ Announced')
    BY <2>2 DEF None
  <2>7. One(toClient', GameOverMsg)
    BY <1>1, <1>2, <2>2, <2>5, SentKeeps
  <2>8. None(toClient', GameOverMsg \ Announced')
    <3>. DEFINE X == GameOverMsg \ Announced'
    <3>1. None(toClient, X) /\ None(ShipOut, X)
      BY <2>5, <2>6
    <3>. HIDE DEF X
    <3>. QED  BY <1>1, <1>2, <3>1, SentKeeps DEF X
  <2>9. Never(toClient', GameOverMsg, StartDuelMsg)
    <3>1. Never(toClient, GameOverMsg, StartDuelMsg)
      BY DEF EndInv
    <3>. QED  BY <1>1, <1>2, <2>5, <3>1, SentKeeps
  <2>. QED  BY <1>1, <2>1, <2>2, <2>3, <2>7, <2>8, <2>9 DEF EndInv
<1>. QED  BY <1>3, <1>4

\* UI::handleGameOver: the client is told the result that was announced.
LEMMA EndTold ==
    ASSUME TypeOK, EndInv, HandleGameOver
    PROVE  /\ ~cDone /\ cDone' /\ announced # NoWinner /\ cWinner' = announced
           /\ EndInv'
<1>1. /\ toClient \in Seq(ToClientMsg) /\ toClient # <<>> /\ toClient' = Tail(toClient)
      /\ UNCHANGED <<announced, done, gameOverSent, inDuel>>
      /\ cDone' /\ cWinner' = Head(toClient).winner
      /\ Head(toClient).type = "GameOver"
  BY DEF HandleGameOver, ClientReceives, TypeOK, NetType, engineVars, hostVars
<1>2. Head(toClient) \in GameOverMsg
  BY <1>1 DEF ToClientMsg, StartDuelMsg, FieldMsg, PromptMsg, SyncErrorMsg, GameOverMsg
<1>3. Head(toClient) \in Announced
  <2>1. Head(toClient) \notin GameOverMsg \ Announced
    BY <1>1, HeadIs DEF EndInv
  <2>. QED  BY <1>2, <2>1
<1>4. announced # NoWinner /\ cWinner' = announced
  BY <1>1, <1>2, <1>3, WinnerAssumption DEF Announced, GameOverMsg, Winners
<1>5. ~cDone
  <2>1. Head(toClient) \in GameOverMsg \cup StartDuelMsg
    BY <1>2
  <2>2. ~None(toClient, GameOverMsg \cup StartDuelMsg)
    BY <1>1, <2>1, HeadIs
  <2>. QED  BY <2>2 DEF EndInv
<1>6. None(toClient', GameOverMsg) /\ None(toClient', StartDuelMsg)
  BY <1>1, <1>2, HeadIs DEF EndInv
<1>7. EndInv'
  BY <1>1, <1>4, <1>6 DEF EndInv, None, One, Never
<1>. QED  BY <1>1, <1>4, <1>5, <1>7

\* A StartDuel is under way only where no result was announced before it.
LEMMA EndStarts ==
    ASSUME TypeOK, EndInv, HandleStartDuel
    PROVE  ~cDone
<1>1. toClient \in Seq(ToClientMsg) /\ toClient # <<>> /\ Head(toClient).type = "StartDuel"
  BY DEF HandleStartDuel, ClientReceives, TypeOK, NetType
<1>2. Head(toClient) \in StartDuelMsg
  BY <1>1 DEF ToClientMsg, StartDuelMsg, FieldMsg, PromptMsg, SyncErrorMsg, GameOverMsg
<1>3. Head(toClient) \in GameOverMsg \cup StartDuelMsg
  BY <1>2
<1>4. ~None(toClient, GameOverMsg \cup StartDuelMsg)
  BY <1>1, <1>3, HeadIs
<1>. QED  BY <1>4 DEF EndInv

\* sendMpStartDuel is for a duel whose result has not been announced.
LEMMA EndStart ==
    ASSUME TypeOK, EndInv, HostStartDuel
    PROVE  EndInv'
<1>1. UNCHANGED <<announced, done, cDone, cWinner>> /\ ~done
  BY DEF HostStartDuel, clientVars
<1>2. announced = NoWinner
  BY <1>1 DEF EndInv
<1>3. None(toClient, GameOverMsg) /\ ~cDone
  BY <1>2, EndBefore
<1>4. PICK d \in Seq(ToClientMsg) : toClient' = Sent(toClient, d) /\ None(d, GameOverMsg)
  <2>. DEFINE st == [type |-> "StartDuel"]
              fd == [type |-> "FieldSnapshot", board |-> board']
  <2>1. board' \in Boards
    BY DEF HostStartDuel
  <2>2. /\ st \in ToClientMsg /\ fd \in ToClientMsg
        /\ st \notin GameOverMsg /\ fd \notin GameOverMsg
    BY <2>1, MessageType DEF GameOverMsg
  <2>3. toClient' \in {Sent(toClient, <<st>>), Sent(toClient, <<st, fd>>)}
    BY DEF HostStartDuel
  <2>. HIDE DEF st, fd
  <2>4. /\ <<st>> \in Seq(ToClientMsg) /\ <<st, fd>> \in Seq(ToClientMsg)
        /\ None(<<st>>, GameOverMsg) /\ None(<<st, fd>>, GameOverMsg)
    BY <2>2 DEF None
  <2>. QED  BY <2>3, <2>4
<1>5. None(toClient', GameOverMsg)
  BY <1>3, <1>4, SentKeeps DEF TypeOK, NetType
<1>. QED  BY <1>1, <1>2, <1>3, <1>5 DEF EndInv, None, One, Never

\* Every step keeps EndInv.
LEMMA EndStep ==
    ASSUME TypeOK, TypeOK', WinnerSet, EndInv, [Next]_vars
    PROVE  EndInv'
<1>1. toClient \in Seq(ToClientMsg) /\ Part(toClient, toClient)
  BY PartIs DEF TypeOK, NetType
<1>2. CASE EngineIdle \/ EngineAsk \/ EngineYield \/ EngineWin
  <2>1. UNCHANGED <<toClient, announced, gameOverSent, inDuel, cDone, cWinner>>
        /\ (done => done')
    BY <1>2 DEF EngineIdle, EngineAsk, EngineYield, EngineWin, EngineKeeps, engineVars,
       hostVars, clientVars, netVars
  <2>. QED  BY <1>1, <2>1, EndLess
<1>3. CASE HostEndDuel \/ HostIdle
  <2>1. /\ UNCHANGED <<toClient, announced, cDone, cWinner, done>>
        /\ ~inDuel' \/ UNCHANGED <<gameOverSent, inDuel>>
    BY <1>3 DEF HostEndDuel, HostIdle, engineVars, hostVars, clientVars, netVars
  <2>. QED  BY <1>1, <2>1, EndLess
<1>4. CASE HandleSurrender \/ HostRespond \/ HostOpenSurrender \/ HostConfirmSurrender
             \/ HostCancelSurrender
  <2>1. UNCHANGED <<toClient, announced, gameOverSent, inDuel, cDone, cWinner>>
        /\ (done => done')
    BY <1>4 DEF HandleSurrender, HostRespond, HostOpenSurrender, HostConfirmSurrender,
       HostCancelSurrender, Forfeit, engineVars, hostVars, clientVars, netVars
  <2>. QED  BY <1>1, <2>1, EndLess
<1>5. CASE HandleClientChoiceBail
  <2>. DEFINE e == [type |-> "SyncError"]
  <2>1. /\ toClient' = Sent(toClient, <<e>>)
        /\ UNCHANGED <<announced, done, gameOverSent, inDuel, cDone, cWinner>>
    BY <1>5 DEF HandleClientChoiceBail, engineVars, hostVars, clientVars
  <2>2. e \in ToClientMsg /\ e \notin GameOverMsg /\ e \notin StartDuelMsg
    BY MessageType DEF GameOverMsg, StartDuelMsg
  <2>. HIDE DEF e
  <2>3. <<e>> \in Seq(ToClientMsg) /\ None(<<e>>, GameOverMsg) /\ None(<<e>>, StartDuelMsg)
    BY <2>2 DEF None
  <2>. QED  BY <2>1, <2>3, EndMore
<1>6. CASE HandleClientChoiceApply
  <2>1. /\ toClient' = Sent(toClient, FieldOut(board, fieldHash))
        /\ UNCHANGED <<announced, done, gameOverSent, inDuel, cDone, cWinner>>
        /\ board \in Boards
    BY <1>6 DEF HandleClientChoiceApply, clientVars, TypeOK, EngineType
  <2>. QED  BY <2>1, FieldOutNone, EndMore
<1>7. CASE HandleStartDuel \/ HandleFieldSnapshot \/ HandlePromptSnapshot \/ HandleSyncError
  <2>1. /\ toClient # <<>> /\ toClient' = Tail(toClient)
        /\ UNCHANGED <<announced, done, gameOverSent, inDuel>>
        /\ ~cDone' \/ UNCHANGED <<cDone, cWinner>>
    BY <1>7 DEF HandleStartDuel, ResetClient, HandleFieldSnapshot, HandlePromptSnapshot,
       HandleSyncError, ClientReceives, engineVars, hostVars
  <2>2. Part(toClient', toClient)
    BY <1>1, <2>1, PartIs
  <2>. QED  BY <2>1, <2>2, EndLess
<1>8. CASE SendClientChoice \/ SendSurrender \/ UNCHANGED vars
  <2>1. UNCHANGED <<toClient, announced, gameOverSent, inDuel, done, cDone, cWinner>>
    BY <1>8 DEF SendClientChoice, SendSurrender, vars, engineVars, hostVars, clientVars,
       netVars
  <2>. QED  BY <1>1, <2>1, EndLess
<1>9. CASE LinkDown
  <2>1. UNCHANGED <<announced, gameOverSent, inDuel, done, cDone, cWinner>>
    BY <1>9 DEF LinkDown, engineVars, hostVars, clientVars
  <2>2. Part(toClient', toClient)
    BY <1>1, <1>9, PartIs DEF LinkDown
  <2>. QED  BY <2>1, <2>2, EndLess
<1>. QED
  BY <1>2, <1>3, <1>4, <1>5, <1>6, <1>7, <1>8, <1>9, EndShip, EndTold, EndStart
  DEF Next, HostFrame, HostReceive, HostInput, ClientReceive, ClientInput

\* The inductive invariant holds of the protocol.
LEMMA EndCorrect == Spec => []EndInv
<1>1. Init => EndInv
  BY DEF Init, EndInv, None, One, Never
<1>2. TypeOK /\ TypeOK' /\ WinnerSet /\ EndInv /\ [Next]_vars => EndInv'
  BY EndStep
<1>. QED  BY <1>1, <1>2, TypeCorrect, PTL DEF Spec

-----------------------------------------------------------------------------
(* The protocol implements the referee.  What each variable of DuelReferee *)
(* stands for, where it is not a variable of HostAuth.                     *)
Asking    == [no |-> sel.no, owner |-> sel.owner]
Showing   == IF cSelValid THEN cSel.no ELSE 0
Logged    == {[prompt |-> a.prompt, by |-> a.by] : a \in answers}
Told      == IF cDone THEN cWinner ELSE NoWinner

\* A choice taken off the channel and not applied is lost to the referee.
LEMMA PicksLess ==
    ASSUME toHost \in Seq(ToHostMsg), toHost' \in Seq(ToHostMsg),
           Part(toHost', toHost), UNCHANGED answers
    PROVE  Picked' \subseteq Picked
<1>1. PICK k \in Nat : \A i \in DOMAIN toHost' : i + k \in DOMAIN toHost
                                                /\ toHost'[i] = toHost[i + k]
  BY DEF Part
<1>2. ToHost' \subseteq ToHost
  BY <1>1 DEF ToHost
<1>. QED  BY <1>2 DEF Picked

\* The engine takes a choice of the client: it stays picked.
LEMMA PicksApply ==
    ASSUME TypeOK, sel.no = Head(toHost).no, HandleClientChoiceApply
    PROVE  Picked' = Picked /\ Logged' = Logged \cup {[prompt |-> sel.no, by |-> Client]}
<1>. DEFINE m == Head(toHost)
            a == [prompt |-> sel.no, by |-> Client, seen |-> m.no, of |-> tableNo,
                  seq |-> hostPromptSeq]
<1>1. /\ toHost \in Seq(ToHostMsg) /\ toHost # <<>> /\ toHost' = Tail(toHost)
      /\ m.type = "ClientChoice" /\ m.no = sel.no /\ answers' = answers \cup {a}
  BY DEF HandleClientChoiceApply, Respond, TypeOK, NetType
<1>2. a.prompt = sel.no /\ a.by = Client
  OBVIOUS
<1>. HIDE DEF a
<1>3. Logged' = Logged \cup {[prompt |-> sel.no, by |-> Client]}
  BY <1>1, <1>2 DEF Logged
<1>4. ToHost = ToHost' \cup {m}
  <2>1. \A i \in DOMAIN toHost : i = 1 \/ (i - 1 \in DOMAIN Tail(toHost)
                                          /\ Tail(toHost)[i - 1] = toHost[i])
    BY <1>1
  <2>2. \A i \in DOMAIN Tail(toHost) : i + 1 \in DOMAIN toHost
                                     /\ Tail(toHost)[i] = toHost[i + 1]
    BY <1>1
  <2>3. 1 \in DOMAIN toHost /\ toHost[1] = m
    BY <1>1
  <2>4. ToHost \subseteq ToHost' \cup {m}
    BY <1>1, <2>1, <2>3 DEF ToHost
  <2>5. ToHost' \cup {m} \subseteq ToHost
    BY <1>1, <2>2, <2>3 DEF ToHost
  <2>. QED  BY <2>4, <2>5
<1>. HIDE DEF m
<1>5. Picked' = Picked
  BY <1>1, <1>2, <1>4 DEF Picked
<1>. QED  BY <1>3, <1>5

\* Sending adds the message to what is under way, or loses it.
LEMMA SentCarries ==
    ASSUME toHost \in Seq(ToHostMsg), NEW m \in ToHostMsg, toHost' = Sent(toHost, <<m>>)
    PROVE  ToHost' \in {ToHost, ToHost \cup {m}}
<1>1. CASE link
  <2>1. toHost' = Append(toHost, m)
    BY <1>1 DEF Sent
  <2>2. \A i \in DOMAIN toHost' : toHost'[i] = m \/ (i \in DOMAIN toHost
                                                    /\ toHost'[i] = toHost[i])
    BY <2>1
  <2>3. \A i \in DOMAIN toHost : i \in DOMAIN toHost' /\ toHost'[i] = toHost[i]
    BY <2>1
  <2>4. Len(toHost) + 1 \in DOMAIN toHost' /\ toHost'[Len(toHost) + 1] = m
    BY <2>1
  <2>5. ToHost' \subseteq ToHost \cup {m}
    BY <2>2 DEF ToHost
  <2>6. ToHost \cup {m} \subseteq ToHost'
    BY <2>3, <2>4 DEF ToHost
  <2>. QED  BY <2>5, <2>6
<1>2. CASE ~link
  BY <1>2 DEF Sent, ToHost
<1>. QED  BY <1>1, <1>2

\* The client picks what it is shown.
LEMMA PicksPicked ==
    ASSUME TypeOK, SendClientChoice
    PROVE  Picked' \in {Picked, Picked \cup {cSel.no}}
<1>1. PICK id \in cSel.choices :
        toHost' = Sent(toHost, <<[type |-> "ClientChoice", seq |-> cSel.seq,
                                  id |-> id, no |-> cSel.no]>>)
  BY DEF SendClientChoice
<1>. DEFINE m == [type |-> "ClientChoice", seq |-> cSel.seq, id |-> id, no |-> cSel.no]
<1>2. m \in ToHostMsg /\ m.type = "ClientChoice" /\ m.no = cSel.no
  BY DEF TypeOK, ClientType, PromptMsg, ToHostMsg, ChoiceMsg
<1>3. toHost \in Seq(ToHostMsg) /\ UNCHANGED answers /\ toHost' = Sent(toHost, <<m>>)
  BY <1>1 DEF SendClientChoice, TypeOK, NetType
<1>. HIDE DEF m
<1>4. ToHost' \in {ToHost, ToHost \cup {m}}
  BY <1>2, <1>3, SentCarries
<1>. QED  BY <1>2, <1>3, <1>4 DEF Picked

\* A surrender is no pick.
LEMMA PicksConceded ==
    ASSUME TypeOK, SendSurrender
    PROVE  Picked' = Picked
<1>. DEFINE m == [type |-> "Surrender", seat |-> Client]
<1>1. /\ m \in ToHostMsg /\ m.type # "ClientChoice"
      /\ toHost \in Seq(ToHostMsg) /\ UNCHANGED answers /\ toHost' = Sent(toHost, <<m>>)
  BY DEF SendSurrender, TypeOK, NetType, ToHostMsg, SurrenderMsg, Seats
<1>. HIDE DEF m
<1>2. ToHost' \in {ToHost, ToHost \cup {m}}
  BY <1>1, SentCarries
<1>. QED  BY <1>1, <1>2 DEF Picked

\* What makes a step a step of the referee's, in the names above.
LEMMA Referees ==
    ASSUME \/ UNCHANGED <<promptNo, Asking, Showing, Picked, Logged, announced, Told>>
           \* Ask
           \/ /\ announced = NoWinner /\ sel.no = 0 /\ promptNo < MaxPrompts
              /\ promptNo' = promptNo + 1
              /\ sel'.owner \in Seats /\ sel'.no = promptNo + 1
              /\ UNCHANGED <<Showing, Picked, Logged, announced, Told>>
           \* Show, Hide
           \/ /\ \/ /\ sel.no # 0 /\ sel.owner = Client /\ sel.no \notin Picked
                    /\ Showing' = sel.no
                 \/ Showing' = 0
              /\ UNCHANGED <<promptNo, Asking, Picked, Logged, announced, Told>>
           \* Pick, Lose
           \/ /\ Showing # 0 /\ Showing' = 0 /\ Picked' \in {Picked, Picked \cup {Showing}}
              /\ UNCHANGED <<promptNo, Asking, Logged, announced, Told>>
           \/ /\ Picked' \subseteq Picked
              /\ UNCHANGED <<promptNo, Asking, Showing, Logged, announced, Told>>
           \* Answer
           \/ /\ sel.no # 0 /\ (sel.owner = Client => sel.no \in Picked)
              /\ Logged' = Logged \cup {[prompt |-> sel.no, by |-> sel.owner]}
              /\ sel' = NoSel
              /\ UNCHANGED <<promptNo, Showing, Picked, announced, Told>>
           \* End, Tell
           \/ /\ announced = NoWinner /\ announced' \in Winners
              /\ UNCHANGED <<promptNo, Asking, Showing, Picked, Logged, Told>>
           \/ /\ announced # NoWinner /\ Told = NoWinner /\ Told' = announced
              /\ UNCHANGED <<promptNo, Asking, Showing, Picked, Logged, announced>>
    PROVE  [Referee!Next]_Referee!vars
BY DEF Referee!Next, Referee!vars, Referee!Ask, Referee!Show, Referee!Hide, Referee!Pick,
   Referee!Lose, Referee!Answer, Referee!End, Referee!Tell, Referee!Nobody, Asking,
   Showing, Logged, Told, NoSel, Seats, Winners

\* The steps of the host's frame and input.
LEMMA RefereeHost ==
    ASSUME TypeOK, WinnerSet, AnswersInv, ScreenInv, EndInv, HostFrame \/ HostInput
    PROVE  [Referee!Next]_Referee!vars
<1>1. CASE HostShip
  <2>1. UNCHANGED <<promptNo, sel, cSel, cSelValid, toHost, answers, cDone, cWinner>>
        /\ announced' = IF GameOverDue THEN winner ELSE announced
    BY <1>1 DEF HostShip, engineVars, clientVars
  <2>2. UNCHANGED <<promptNo, Asking, Showing, Picked, Logged, Told>>
    BY <2>1 DEF Asking, Showing, Picked, ToHost, Logged, Told
  <2>3. GameOverDue => announced = NoWinner /\ winner \in Winners
    BY DEF GameOverDue, EndInv, WinnerSet
  <2>. QED  BY <2>1, <2>2, <2>3, Referees
<1>2. CASE EngineAsk
  <2>1. /\ UNCHANGED <<announced, cSel, cSelValid, toHost, answers, cDone, cWinner>>
        /\ running /\ sel.no = 0 /\ promptNo < MaxPrompts /\ promptNo' = promptNo + 1
        /\ sel'.owner \in Seats /\ sel'.no = promptNo + 1
    BY <1>2 DEF EngineAsk, EngineKeeps, IsRealSelect, hostVars, clientVars, netVars
  <2>2. UNCHANGED <<Showing, Picked, Logged, announced, Told>>
    BY <2>1 DEF Showing, Picked, ToHost, Logged, Told
  <2>3. announced = NoWinner
    BY <2>1 DEF AnswersInv, RunsInDuel, EndInv
  <2>. QED  BY <2>1, <2>2, <2>3, Referees
<1>3. CASE HostRespond
  <2>. DEFINE a == [prompt |-> sel.no, by |-> Host, seen |-> sel.no, of |-> sel.no,
                    seq |-> hostPromptSeq]
  <2>1. /\ UNCHANGED <<promptNo, announced, cSel, cSelValid, toHost, cDone, cWinner>>
        /\ sel.no # 0 /\ sel.owner = Host /\ sel' = NoSel /\ answers' = answers \cup {a}
    BY <1>3 DEF HostRespond, Respond, IsRealSelect, hostVars, clientVars, netVars
  <2>2. a.prompt = sel.no /\ a.by = Host
    OBVIOUS
  <2>. HIDE DEF a
  <2>3. Logged' = Logged \cup {[prompt |-> sel.no, by |-> sel.owner]}
    BY <2>1, <2>2 DEF Logged
  <2>4. UNCHANGED <<Showing, Told>>
    BY <2>1 DEF Showing, Told
  <2>5. Picked' = Picked
    BY <2>1, <2>2, SeatsAssumption DEF Picked, ToHost
  <2>. QED  BY <2>1, <2>3, <2>4, <2>5, SeatsAssumption, Referees
<1>4. CASE ~HostShip /\ ~EngineAsk /\ ~HostRespond
  <2>1. UNCHANGED <<promptNo, sel, announced, cSel, cSelValid, toHost, answers, cDone, cWinner>>
    BY <1>4 DEF HostFrame, HostInput, EngineIdle, EngineYield, EngineWin, EngineKeeps,
       HostEndDuel, HostIdle, HostOpenSurrender, HostConfirmSurrender,
       HostCancelSurrender, HostStartDuel, Forfeit, engineVars, hostVars, clientVars,
       netVars
  <2>2. UNCHANGED <<promptNo, Asking, Showing, Picked, Logged, announced, Told>>
    BY <2>1 DEF Asking, Showing, Picked, ToHost, Logged, Told
  <2>. QED  BY <2>2, Referees
<1>. QED  BY <1>1, <1>2, <1>3, <1>4

\* The host's handlers, and the loss of the link.
LEMMA RefereeReceive ==
    ASSUME TypeOK, TypeOK', AnswersInv, ScreenInv, HostReceive \/ LinkDown
    PROVE  [Referee!Next]_Referee!vars
<1>1. toHost \in Seq(ToHostMsg) /\ toHost' \in Seq(ToHostMsg)
  BY DEF TypeOK, NetType
<1>2. CASE HandleClientChoiceApply
  <2>1. /\ toHost # <<>> /\ Head(toHost).type = "ClientChoice"
        /\ ChoiceAcceptable(Head(toHost)) /\ sel' = NoSel
        /\ UNCHANGED <<promptNo, announced, cSel, cSelValid, cDone, cWinner>>
    BY <1>2 DEF HandleClientChoiceApply, Respond, clientVars
  <2>2. Head(toHost).no = sel.no /\ sel.no # 0 /\ sel.owner = Client
    BY <2>1, ChoiceFits DEF SelChoices, ChoiceAcceptable, IsRealSelect
  <2>3. Picked' = Picked /\ Logged' = Logged \cup {[prompt |-> sel.no, by |-> sel.owner]}
    BY <1>2, <2>2, PicksApply
  <2>4. sel.no \in Picked
    <3>1. Head(toHost) \in ToHost
      BY <1>1, <2>1 DEF ToHost
    <3>. QED  BY <2>1, <2>2, <3>1 DEF Picked
  <2>5. UNCHANGED <<Showing, Told>>
    BY <2>1 DEF Showing, Told
  <2>. QED  BY <2>1, <2>2, <2>3, <2>4, <2>5, Referees
<1>3. CASE HandleClientChoiceBail \/ HandleSurrender \/ LinkDown
  <2>1. /\ UNCHANGED <<promptNo, sel, announced, cSel, cSelValid, answers, cDone, cWinner>>
        /\ \/ toHost # <<>> /\ toHost' = Tail(toHost)
           \/ \E j \in 0..Len(toHost) : toHost' = SubSeq(toHost, 1, j)
    BY <1>3 DEF HandleClientChoiceBail, HandleSurrender, LinkDown, Forfeit, engineVars,
       hostVars, clientVars
  <2>2. Part(toHost', toHost)
    BY <1>1, <2>1, PartIs
  <2>3. Picked' \subseteq Picked
    BY <1>1, <2>1, <2>2, PicksLess
  <2>4. UNCHANGED <<promptNo, Asking, Showing, Logged, announced, Told>>
    BY <2>1 DEF Asking, Showing, Logged, Told
  <2>. QED  BY <2>3, <2>4, Referees
<1>. QED  BY <1>2, <1>3 DEF HostReceive

\* The client's handlers and clicks.
LEMMA RefereeClient ==
    ASSUME TypeOK, AnswersInv, ScreenInv, EndInv, ClientReceive \/ ClientInput
    PROVE  [Referee!Next]_Referee!vars
<1>1. UNCHANGED <<promptNo, sel, announced, answers>>
  BY DEF ClientReceive, HandleStartDuel, HandleFieldSnapshot, HandlePromptSnapshot,
     HandleSyncError, HandleGameOver, ClientReceives, ClientInput, SendClientChoice,
     SendSurrender, engineVars, hostVars
<1>2. UNCHANGED <<promptNo, Asking, Logged, announced>>
  BY <1>1 DEF Asking, Logged
<1>3. ASSUME ClientReceive PROVE Picked' = Picked
  <2>1. UNCHANGED toHost
    BY <1>3 DEF ClientReceive, HandleStartDuel, HandleFieldSnapshot, HandlePromptSnapshot,
       HandleSyncError, HandleGameOver, ClientReceives
  <2>. QED  BY <1>1, <2>1 DEF Picked, ToHost
<1>4. CASE HandleStartDuel
  <2>1. ~cDone /\ ~cDone' /\ ~cSelValid'
    BY <1>4, EndStarts DEF HandleStartDuel, ResetClient
  <2>2. Told' = Told /\ Showing' = 0
    BY <2>1 DEF Told, Showing
  <2>. QED  BY <1>2, <1>3, <1>4, <2>2, Referees DEF ClientReceive
<1>5. CASE HandleFieldSnapshot \/ HandleSyncError
  <2>1. UNCHANGED <<cSel, cSelValid, cDone, cWinner>>
    BY <1>5 DEF HandleFieldSnapshot, HandleSyncError
  <2>2. UNCHANGED <<Showing, Told>>
    BY <2>1 DEF Showing, Told
  <2>. QED  BY <1>2, <1>3, <1>5, <2>2, Referees DEF ClientReceive
<1>6. CASE HandleGameOver
  <2>1. /\ UNCHANGED <<cSel, cSelValid>> /\ announced # NoWinner
        /\ ~cDone /\ cDone' /\ cWinner' = announced
    BY <1>6, EndTold DEF HandleGameOver
  <2>2. UNCHANGED Showing /\ Told = NoWinner /\ Told' = announced
    BY <2>1 DEF Showing, Told
  <2>. QED  BY <1>2, <1>3, <1>6, <2>1, <2>2, Referees DEF ClientReceive
<1>7. CASE HandlePromptSnapshot
  <2>. DEFINE p == Head(toClient)
  <2>1. toClient \in Seq(ToClientMsg) /\ toClient # <<>> /\ p \in PromptMsg
    BY <1>7 DEF HandlePromptSnapshot, ClientReceives, TypeOK, NetType, ToClientMsg,
       StartDuelMsg, FieldMsg, PromptMsg, SyncErrorMsg, GameOverMsg
  <2>2. UNCHANGED Told
    BY <1>7 DEF HandlePromptSnapshot, Told
  <2>3. CASE p \notin Asked
    <3>1. ~cSelValid' \/ UNCHANGED <<cSel, cSelValid>>
      BY <1>7, <2>1, <2>3 DEF HandlePromptSnapshot, Asked
    <3>2. Showing' = 0 \/ UNCHANGED Showing
      BY <3>1 DEF Showing
    <3>. QED  BY <1>2, <1>3, <1>7, <2>2, <3>2, Referees DEF ClientReceive
  <2>4. CASE p \in Asked
    <3>1. ~None(toClient, Asked) /\ p \in SelPrompts
      <4>1. p \notin Asked \ SelPrompts
        BY <2>1, HeadIs DEF ScreenInv, Belongs
      <4>. QED  BY <2>1, <2>4, <4>1, HeadIs
    <3>2. ~Nowhere /\ ~cSelValid /\ None(toHost, ChoiceMsg)
      BY <3>1 DEF Nowhere, ScreenInv, OnePlace
    <3>3. sel.no # 0 /\ sel.owner = Client
      BY <3>2, Somewhere
    <3>4. cSel' = p /\ cSelValid' /\ p.no = sel.no
      BY <1>7, <2>4, <3>1, <3>2 DEF HandlePromptSnapshot, Asked, SelPrompts
    <3>5. Showing' = sel.no
      BY <3>4 DEF Showing
    <3>6. sel.no \notin Picked
      <4>1. \A c \in ToHost : c.type # "ClientChoice"
        BY <3>2 DEF None, ToHost, TypeOK, NetType, ToHostMsg, ChoiceMsg, SurrenderMsg
      <4>2. \A a \in answers : a.prompt # sel.no
        BY DEF AnswersInv, AnswersBehind
      <4>. QED  BY <4>1, <4>2 DEF Picked
    <3>. QED  BY <1>2, <1>3, <1>7, <2>2, <3>3, <3>5, <3>6, Referees DEF ClientReceive
  <2>. QED  BY <2>3, <2>4
<1>8. CASE SendClientChoice
  <2>1. cSelValid /\ ~cSelValid' /\ UNCHANGED <<cDone, cWinner>>
    BY <1>8 DEF SendClientChoice
  <2>2. cSel.no # 0
    <3>1. sel.no # 0 /\ cSel.no = sel.no
      BY <2>1, Somewhere DEF Nowhere, ScreenInv, Belongs, SelPrompts
    <3>. QED  BY <3>1
  <2>3. Showing = cSel.no /\ Showing' = 0 /\ UNCHANGED Told
    BY <2>1 DEF Showing, Told
  <2>. QED  BY <1>2, <1>8, <2>2, <2>3, PicksPicked, Referees
<1>9. CASE SendSurrender
  <2>1. UNCHANGED <<cSel, cSelValid, cDone, cWinner>>
    BY <1>9 DEF SendSurrender
  <2>2. UNCHANGED <<Showing, Told>>
    BY <2>1 DEF Showing, Told
  <2>. QED  BY <1>2, <1>9, <2>2, PicksConceded, Referees
<1>. QED
  BY <1>4, <1>5, <1>6, <1>7, <1>8, <1>9 DEF ClientReceive, ClientInput

\* The protocol implements the referee of DuelReferee: numbered prompts, each
\* answered at most once, by its owner; the client answers only what it was
\* shown; the result is announced once, no prompt is raised after it, and the
\* client is told that result (UI::pumpMultiplayer, UI::handleClientChoice,
\* UI::handleGameOver).
THEOREM RefereeSafe == Spec => RefereeSpec
<1>1. Init => Referee!Init
  BY DEF Init, Referee!Init, Referee!Nobody, NoSel, Picked, ToHost
<1>2. TypeOK /\ TypeOK' /\ WinnerSet /\ AnswersInv /\ ScreenInv /\ EndInv /\ [Next]_vars
        => [Referee!Next]_Referee!vars
  <2>. SUFFICES ASSUME TypeOK, TypeOK', WinnerSet, AnswersInv, ScreenInv, EndInv,
                       [Next]_vars
                PROVE  [Referee!Next]_Referee!vars
    OBVIOUS
  <2>1. CASE UNCHANGED vars
    <3>1. UNCHANGED <<promptNo, Asking, Showing, Picked, Logged, announced, Told>>
      BY <2>1 DEF vars, engineVars, hostVars, clientVars, netVars, Asking, Showing,
         Picked, ToHost, Logged, Told
    <3>. QED  BY <3>1, Referees
  <2>. QED  BY <2>1, RefereeHost, RefereeReceive, RefereeClient DEF Next
<1>. QED
  BY <1>1, <1>2, TypeCorrect, AnswersCorrect, ScreenCorrect, EndCorrect, PTL
     DEF Spec, RefereeSpec, Referee!Spec

-----------------------------------------------------------------------------
(* Once all is delivered the client shows the host's situation: what it    *)
(* has to show is on its screen, and nothing under way takes it off again, *)
(* or it is under way, and nothing behind it takes it off.                 *)

\* c carries an X, and no Y behind it.
Ends(c, X, Y) ==
    \E i \in DOMAIN c : c[i] \in X /\ \A j \in DOMAIN c : i < j => c[j] \notin Y
\* When c is delivered, what an X shows and a Y hides is shown.
Reaches(c, X, Y, shown) == Ends(c, X, Y) \/ (shown /\ None(c, Y))

Notices    == PromptMsg \ Asked
FreshField == {m \in FieldMsg : {m.board.coarse} = fieldHash}
FreshShown == \E b \in Boards : cField = {b} /\ {b.coarse} = fieldHash

\* The host has shipped what it shows when it takes its own input.
Drawn == hpc = "draw" /\ running => /\ fieldHash = {board.coarse}
                                    /\ sel.no # 0 => Shipped
StartReaches  == Reaches(toClient, StartDuelMsg, {}, cInDuel)
FieldReaches  == Reaches(toClient, FreshField, FieldMsg \cup StartDuelMsg, FreshShown)
AskedReaches  == \/ Reaches(toClient, Asked, StartDuelMsg \cup Notices, cSelValid)
                 \/ ~None(toHost, ChoiceMsg) \/ misclicked = sel.no
NoticeReaches == Reaches(toClient, Notices, StartDuelMsg, cOppWait)
Arriving == running /\ link => /\ StartReaches /\ FieldReaches
                               /\ Shipped /\ sel.owner = Client => AskedReaches
                               /\ Shipped /\ sel.owner # Client => NoticeReaches
QuietInv == Drawn /\ Arriving

\* Handling the head: it is shown if it was what had to be.
LEMMA ReachTail ==
    ASSUME NEW M, NEW c \in Seq(M), c # <<>>, NEW X, NEW Y, NEW s \in BOOLEAN,
           NEW t \in BOOLEAN, Reaches(c, X, Y, s),
           Head(c) \in X => t, s /\ Head(c) \notin Y => t
    PROVE  Reaches(Tail(c), X, Y, t)
<1>1. \A i \in DOMAIN c : i = 1 \/ (i - 1 \in DOMAIN Tail(c) /\ Tail(c)[i - 1] = c[i])
  OBVIOUS
<1>2. \A i \in DOMAIN Tail(c) : /\ i \in Nat /\ i + 1 > 1 /\ i + 1 \in DOMAIN c
                                /\ Tail(c)[i] = c[i + 1]
  OBVIOUS
<1>3. 1 \in DOMAIN c /\ c[1] = Head(c) /\ DOMAIN c \subseteq Nat
  OBVIOUS
<1>4. CASE Ends(c, X, Y)
  <2>1. PICK i \in DOMAIN c : c[i] \in X /\ \A j \in DOMAIN c : i < j => c[j] \notin Y
    BY <1>4 DEF Ends
  <2>2. CASE i = 1
    <3>1. None(Tail(c), Y) /\ t
      BY <1>2, <1>3, <2>1, <2>2 DEF None
    <3>. QED  BY <3>1 DEF Reaches
  <2>3. CASE i # 1
    <3>1. i - 1 \in DOMAIN Tail(c) /\ Tail(c)[i - 1] \in X /\ i \in Nat
      BY <1>1, <1>3, <2>1, <2>3
    <3>2. \A j \in DOMAIN Tail(c) : i - 1 < j => Tail(c)[j] \notin Y
      BY <1>2, <2>1, <3>1
    <3>. QED  BY <3>1, <3>2 DEF Ends, Reaches
  <2>. QED  BY <2>2, <2>3
<1>5. CASE s /\ None(c, Y)
  <2>1. Head(c) \notin Y /\ None(Tail(c), Y)
    BY <1>2, <1>3, <1>5 DEF None
  <2>. QED  BY <1>5, <2>1 DEF Reaches
<1>. QED  BY <1>4, <1>5 DEF Reaches

\* An X stays with what is put before it, and with what hides nothing behind it.
LEMMA EndsJoin ==
    ASSUME NEW M, NEW c \in Seq(M), NEW d \in Seq(M), NEW X, NEW Y
    PROVE  /\ Ends(c, X, Y) /\ None(d, Y) => Ends(c \o d, X, Y)
           /\ Ends(d, X, Y) => Ends(c \o d, X, Y)
<1>1. \A i \in DOMAIN (c \o d) :
        /\ i \in Nat
        /\ \/ i \in DOMAIN c /\ i <= Len(c) /\ (c \o d)[i] = c[i]
           \/ i > Len(c) /\ i - Len(c) \in DOMAIN d /\ (c \o d)[i] = d[i - Len(c)]
  OBVIOUS
<1>2. \A i \in DOMAIN c : i \in Nat /\ i <= Len(c) /\ i \in DOMAIN (c \o d)
                          /\ (c \o d)[i] = c[i]
  OBVIOUS
<1>3. \A i \in DOMAIN d : i \in Nat /\ i + Len(c) > Len(c) /\ i + Len(c) \in DOMAIN (c \o d)
                          /\ (c \o d)[i + Len(c)] = d[i]
  OBVIOUS
<1>4. Len(c) \in Nat
  OBVIOUS
<1>5. ASSUME None(d, Y), Ends(c, X, Y) PROVE Ends(c \o d, X, Y)
  <2>1. PICK i \in DOMAIN c : c[i] \in X /\ \A j \in DOMAIN c : i < j => c[j] \notin Y
    BY <1>5 DEF Ends
  <2>2. \A j \in DOMAIN (c \o d) : i < j => (c \o d)[j] \notin Y
    BY <1>1, <1>5, <2>1 DEF None
  <2>. QED  BY <1>2, <2>1, <2>2 DEF Ends
<1>6. ASSUME Ends(d, X, Y) PROVE Ends(c \o d, X, Y)
  <2>1. PICK i \in DOMAIN d : d[i] \in X /\ \A j \in DOMAIN d : i < j => d[j] \notin Y
    BY <1>6 DEF Ends
  <2>2. \A j \in DOMAIN (c \o d) : i + Len(c) < j => (c \o d)[j] \notin Y
    BY <1>1, <1>2, <1>3, <1>4, <2>1
  <2>. QED  BY <1>3, <2>1, <2>2 DEF Ends
<1>. QED  BY <1>5, <1>6

\* Sending what does not hide it, or what shows it.
LEMMA ReachSent ==
    ASSUME NEW M, NEW c \in Seq(M), NEW d \in Seq(M), NEW X, NEW Y, NEW s \in BOOLEAN
    PROVE  /\ None(d, Y) /\ Reaches(c, X, Y, s) => Reaches(Sent(c, d), X, Y, s)
           /\ link /\ Ends(d, X, Y) => Reaches(Sent(c, d), X, Y, s)
BY EndsJoin, JoinKeeps DEF Reaches, Sent

\* A message alone.
LEMMA EndsOne ==
    ASSUME NEW m, NEW X, NEW Y
    PROVE  /\ m \in X => Ends(<<m>>, X, Y)
           /\ m \notin Y => None(<<m>>, Y)
BY DEF Ends, None

\* buildAndSendFieldSnapshot sends the board whose hash it keeps.
LEMMA FieldShows ==
    ASSUME TypeOK
    PROVE  /\ FieldDue(board, fieldHash)
                => Ends(FieldOut(board, fieldHash),
                        {m \in FieldMsg : {m.board.coarse} = {board.coarse}},
                        FieldMsg \cup StartDuelMsg)
           /\ ~FieldDue(board, fieldHash)
                => None(FieldOut(board, fieldHash), FieldMsg \cup StartDuelMsg)
<1>. DEFINE m == [type |-> "FieldSnapshot", board |-> board]
<1>1. m \in FieldMsg /\ m.board = board
  BY DEF FieldMsg, TypeOK, EngineType
<1>2. FieldDue(board, fieldHash) => FieldOut(board, fieldHash) = <<m>>
  BY DEF FieldOut
<1>3. ~FieldDue(board, fieldHash) => FieldOut(board, fieldHash) = <<>>
  BY DEF FieldOut
<1>. HIDE DEF m
<1>4. None(<<>>, FieldMsg \cup StartDuelMsg)
  BY DEF None
<1>. QED  BY <1>1, <1>2, <1>3, <1>4, EndsOne

\* What a frame ships shows the board and the prompt of that frame.
LEMMA ShipShows ==
    ASSUME TypeOK, WinnerSet
    PROVE  /\ FieldDue(board, fieldHash)
                => Ends(ShipOut, {m \in FieldMsg : {m.board.coarse} = {board.coarse}},
                        FieldMsg \cup StartDuelMsg)
           /\ ~FieldDue(board, fieldHash) => None(ShipOut, FieldMsg \cup StartDuelMsg)
           /\ PromptDue(sel, hostIdentity)
                => /\ sel.owner = Client => Ends(ShipOut, Asked, StartDuelMsg \cup Notices)
                   /\ sel.owner # Client => Ends(ShipOut, Notices, StartDuelMsg)
           /\ ~PromptDue(sel, hostIdentity) => None(ShipOut, PromptMsg)
<1>. DEFINE f == FieldOut(board, fieldHash)
            p == PromptOut(sel, hostIdentity)
            g == GameOverOut
            q == PromptOf(sel, hostPromptSeq + 1)
            X == {m \in FieldMsg : {m.board.coarse} = {board.coarse}}
            Y == FieldMsg \cup StartDuelMsg
            A == StartDuelMsg \cup Notices
<1>1. /\ board \in Boards /\ sel \in Selections /\ hostPromptSeq \in Nat
      /\ hostPromptSeq + 1 \in Nat
  BY DEF TypeOK, EngineType, TableType
<1>2. f \in Seq(ToClientMsg) /\ p \in Seq(ToClientMsg) /\ g \in Seq(ToClientMsg)
  BY <1>1, FieldOutNone, PromptOutType, GameOverOutType DEF WinnerSet
<1>3. q \in PromptMsg /\ q.owner = sel.owner
  <2>1. q \in PromptMsg
    BY <1>1, PromptOfType
  <2>. QED  BY <2>1 DEF PromptOf
<1>4. (sel.owner = Client => q \in Asked) /\ (sel.owner # Client => q \in Notices)
  BY <1>3 DEF Asked, Notices
<1>5. q \notin Y /\ q \notin StartDuelMsg
  BY <1>3 DEF PromptMsg, FieldMsg, StartDuelMsg
<1>6. /\ PromptDue(sel, hostIdentity) => p = <<q>>
      /\ ~PromptDue(sel, hostIdentity) => p = <<>>
  BY DEF PromptOut
<1>7. None(p, Y) /\ (~PromptDue(sel, hostIdentity) => None(p, PromptMsg))
  <2>. HIDE DEF q, p
  <2>. QED  BY <1>5, <1>6, EndsOne DEF None
<1>8. PromptDue(sel, hostIdentity)
        => /\ sel.owner = Client => Ends(p, Asked, A)
           /\ sel.owner # Client => Ends(p, Notices, StartDuelMsg)
  <2>. HIDE DEF q, p, A
  <2>. QED  BY <1>4, <1>6, EndsOne
<1>9. None(g, Y) /\ None(g, A) /\ None(g, StartDuelMsg) /\ None(g, PromptMsg)
  BY DEF GameOverOut, None, FieldMsg, StartDuelMsg, PromptMsg, Notices
<1>10. None(f, PromptMsg)
  BY <1>1 DEF FieldOut, None, PromptMsg
<1>11. /\ FieldDue(board, fieldHash) => Ends(f, X, Y)
       /\ ~FieldDue(board, fieldHash) => None(f, Y)
  BY FieldShows
<1>12. f \o p \in Seq(ToClientMsg) /\ ShipOut = (f \o p) \o g
  BY <1>2 DEF ShipOut
<1>. HIDE DEF f, p, g, X, Y, A, ShipOut
<1>13. /\ FieldDue(board, fieldHash) => Ends(f \o p, X, Y)
       /\ ~FieldDue(board, fieldHash) => None(f \o p, Y)
  BY <1>2, <1>7, <1>11, EndsJoin, JoinKeeps
<1>14. /\ FieldDue(board, fieldHash) => Ends(ShipOut, X, Y)
       /\ ~FieldDue(board, fieldHash) => None(ShipOut, Y)
  BY <1>2, <1>9, <1>12, <1>13, EndsJoin, JoinKeeps
<1>15. PromptDue(sel, hostIdentity)
         => /\ sel.owner = Client => Ends(f \o p, Asked, A)
            /\ sel.owner # Client => Ends(f \o p, Notices, StartDuelMsg)
  BY <1>2, <1>8, EndsJoin
<1>16. PromptDue(sel, hostIdentity)
         => /\ sel.owner = Client => Ends(ShipOut, Asked, A)
            /\ sel.owner # Client => Ends(ShipOut, Notices, StartDuelMsg)
  BY <1>2, <1>9, <1>12, <1>15, EndsJoin
<1>17. ~PromptDue(sel, hostIdentity) => None(ShipOut, PromptMsg)
  BY <1>2, <1>7, <1>9, <1>10, <1>12, JoinKeeps
<1>. QED  BY <1>14, <1>16, <1>17 DEF X, Y, A

-----------------------------------------------------------------------------
(* QuietInv is inductive: first the steps that change nothing it is about, *)
(* and those after which nothing is owed.                                  *)
LEMMA QuietSame ==
    ASSUME QuietInv, Drawn',
           UNCHANGED <<toClient, cInDuel, cField, cSelValid, cOppWait, misclicked,
                       fieldHash>>,
           ~None(toHost, ChoiceMsg) => ~None(toHost', ChoiceMsg),
           running' => running, link' = link,
           Shipped' => Shipped /\ UNCHANGED sel
    PROVE  QuietInv'
<1>1. FreshField' = FreshField /\ FreshShown' = FreshShown
  BY DEF FreshField, FreshShown
<1>2. Asked' = Asked /\ Notices' = Notices
  BY DEF Asked, Notices
<1>3. /\ StartReaches => StartReaches'
      /\ FieldReaches => FieldReaches'
      /\ Shipped' /\ AskedReaches => AskedReaches'
      /\ NoticeReaches => NoticeReaches'
  BY <1>1, <1>2 DEF StartReaches, FieldReaches, AskedReaches, NoticeReaches
<1>. QED  BY <1>3 DEF QuietInv, Arriving

\* Without a duel or a link there is nothing to agree on.
LEMMA QuietGone ==
    ASSUME Drawn', ~running' \/ ~link'
    PROVE  QuietInv'
BY DEF QuietInv, Arriving

\* The StartDuel is not undone by anything.
LEMMA StartSent ==
    ASSUME TypeOK, StartReaches, NEW d \in Seq(ToClientMsg),
           toClient' = Sent(toClient, d), UNCHANGED cInDuel
    PROVE  StartReaches'
<1>1. toClient \in Seq(ToClientMsg) /\ cInDuel \in BOOLEAN /\ None(d, {})
  BY DEF TypeOK, NetType, ClientType, None
<1>2. Reaches(toClient', StartDuelMsg, {}, cInDuel)
  BY <1>1, ReachSent DEF StartReaches
<1>. QED  BY <1>2 DEF StartReaches

\* A refused choice is answered by a message that neither shows nor hides anything.
LEMMA QuietBail ==
    ASSUME TypeOK, AnswersInv, ScreenInv, QuietInv, HandleClientChoiceBail
    PROVE  QuietInv'
<1>. DEFINE d == <<[type |-> "SyncError"]>>
            Y == FieldMsg \cup StartDuelMsg
<1>1. /\ toHost # <<>> /\ Head(toHost).type = "ClientChoice"
      /\ ~ChoiceAcceptable(Head(toHost)) /\ toClient' = Sent(toClient, d)
      /\ UNCHANGED <<running, link, board, hpc, fieldHash, sel, hostIdentity, cInDuel,
                     cField, cOppWait, misclicked>>
  BY DEF HandleClientChoiceBail, engineVars, tableVars, hostVars, clientVars
<1>2. Drawn' /\ Shipped' = Shipped /\ FreshField' = FreshField /\ FreshShown' = FreshShown
      /\ Notices' = Notices
  BY <1>1 DEF QuietInv, Drawn, Shipped, FreshField, FreshShown, Notices, Asked
<1>3. CASE ~running' \/ ~link'
  BY <1>2, <1>3, QuietGone
<1>4. CASE running' /\ link'
  <2>1. misclicked = sel.no
    BY <1>1, <1>4, ChoiceFits DEF AnswersInv, RunsInDuel
  <2>2. /\ toClient \in Seq(ToClientMsg) /\ d \in Seq(ToClientMsg)
        /\ FreshShown \in BOOLEAN /\ cOppWait \in BOOLEAN
    BY MessageType DEF TypeOK, NetType, ClientType, FreshShown
  <2>3. None(d, Y) /\ None(d, StartDuelMsg)
    BY DEF None, FieldMsg, StartDuelMsg
  <2>. HIDE DEF d, Y
  <2>4. /\ StartReaches
        /\ Reaches(toClient, FreshField, Y, FreshShown)
        /\ Shipped /\ sel.owner # Client
             => Reaches(toClient, Notices, StartDuelMsg, cOppWait)
    BY <1>1, <1>4 DEF QuietInv, Arriving, FieldReaches, NoticeReaches, Y
  <2>5. StartReaches'
    BY <1>1, <2>2, <2>4, StartSent
  <2>6. FieldReaches'
    <3>1. Reaches(toClient', FreshField, Y, FreshShown)
      BY <1>1, <2>2, <2>3, <2>4, ReachSent
    <3>. QED  BY <1>2, <3>1 DEF FieldReaches, Y
  <2>7. ASSUME Shipped, sel.owner # Client PROVE NoticeReaches'
    <3>1. Reaches(toClient', Notices, StartDuelMsg, cOppWait)
      BY <1>1, <2>2, <2>3, <2>4, <2>7, ReachSent
    <3>. QED  BY <1>1, <1>2, <3>1 DEF NoticeReaches
  <2>8. AskedReaches'
    BY <1>1, <2>1 DEF AskedReaches
  <2>. QED  BY <1>1, <1>2, <2>5, <2>6, <2>7, <2>8 DEF QuietInv, Arriving
<1>. QED  BY <1>3, <1>4

\* The host's steps that send nothing.
LEMMA QuietHost ==
    ASSUME TypeOK, AnswersInv, ScreenInv, QuietInv,
           \/ EngineIdle \/ EngineAsk \/ EngineYield \/ EngineWin \/ HandleSurrender
           \/ HostRespond \/ HostOpenSurrender \/ HostConfirmSurrender
           \/ HostCancelSurrender \/ HostIdle \/ HostEndDuel
    PROVE  QuietInv'
<1>1. running => ~done
  BY DEF AnswersInv, RunsInDuel
<1>2. CASE HandleSurrender \/ HostConfirmSurrender \/ HostEndDuel \/ EngineWin
  <2>1. ~running'
    <3>1. CASE HostEndDuel
      BY <1>1, <3>1 DEF HostEndDuel, DuelEndUnseen, engineVars
    <3>2. CASE HandleSurrender
      BY <3>2 DEF HandleSurrender, Forfeit, engineVars
    <3>3. CASE HostConfirmSurrender \/ EngineWin
      BY <3>3 DEF HostConfirmSurrender, EngineWin, Forfeit
    <3>. QED  BY <1>2, <3>1, <3>2, <3>3
  <2>. QED  BY <2>1, QuietGone DEF Drawn
<1>3. CASE EngineAsk
  <2>1. sel.no = 0 /\ running
    BY <1>3 DEF EngineAsk, IsRealSelect
  <2>2. hostIdentity = NoIdentity
    BY <2>1 DEF ScreenInv, ShipInv, Shipped
  <2>3. /\ UNCHANGED <<toClient, toHost, link, cInDuel, cField, cSelValid, cOppWait,
                       misclicked, fieldHash, running, hostIdentity>>
        /\ sel'.shape # NoShape /\ hpc' = "pump"
    BY <1>3, ShapesAssumption DEF EngineAsk, EngineKeeps, tableVars, hostVars, clientVars,
       netVars
  <2>4. ~Shipped' /\ Drawn'
    BY <2>2, <2>3 DEF Shipped, Identity, NoIdentity, NoSel, Drawn
  <2>. QED  BY <2>3, <2>4, QuietSame
<1>4. CASE HostRespond
  <2>1. /\ UNCHANGED <<toClient, toHost, link, cInDuel, cField, cSelValid, cOppWait,
                       misclicked, fieldHash, running>>
        /\ sel' = NoSel /\ hpc' = "process"
    BY <1>4 DEF HostRespond, Respond, hostVars, clientVars, netVars
  <2>2. ~Shipped' /\ Drawn'
    BY <2>1 DEF Shipped, NoSel, Drawn
  <2>. QED  BY <2>1, <2>2, QuietSame
<1>5. CASE EngineIdle \/ EngineYield \/ HostOpenSurrender \/ HostCancelSurrender \/ HostIdle
  <2>1. /\ UNCHANGED <<toClient, toHost, link, cInDuel, cField, cSelValid, cOppWait,
                       misclicked, fieldHash, running, sel, hostIdentity>>
        /\ hpc' \in {"pump", "process"}
    BY <1>5 DEF EngineIdle, EngineYield, EngineKeeps, HostOpenSurrender,
       HostCancelSurrender, HostIdle, engineVars, tableVars, hostVars, clientVars, netVars
  <2>2. (Shipped' => Shipped) /\ Drawn'
    BY <2>1 DEF Shipped, Drawn
  <2>. QED  BY <2>1, <2>2, QuietSame
<1>. QED  BY <1>2, <1>3, <1>4, <1>5

\* A field snapshot goes out, or the client's board is not news.
LEMMA FieldSent ==
    ASSUME TypeOK, TypeOK', link, FieldReaches, NEW d \in Seq(ToClientMsg),
           toClient' = Sent(toClient, d), UNCHANGED cField,
           fieldHash' = IF FieldDue(board, fieldHash) THEN {board.coarse} ELSE fieldHash,
           FieldDue(board, fieldHash)
             => Ends(d, {m \in FieldMsg : {m.board.coarse} = {board.coarse}},
                     FieldMsg \cup StartDuelMsg),
           ~FieldDue(board, fieldHash) => None(d, FieldMsg \cup StartDuelMsg)
    PROVE  FieldReaches'
<1>. DEFINE Y == FieldMsg \cup StartDuelMsg
<1>1. toClient \in Seq(ToClientMsg)
  BY DEF TypeOK, NetType
<1>2. FreshShown \in BOOLEAN /\ FreshShown' \in BOOLEAN
  BY DEF FreshShown
<1>3. CASE FieldDue(board, fieldHash)
  <2>1. Ends(d, FreshField', Y)
    BY <1>3 DEF FreshField
  <2>. HIDE DEF Y
  <2>2. Reaches(toClient', FreshField', Y, FreshShown')
    BY <1>1, <1>2, <2>1, ReachSent
  <2>. QED  BY <2>2 DEF FieldReaches, Y
<1>4. CASE ~FieldDue(board, fieldHash)
  <2>1. FreshField' = FreshField /\ FreshShown' = FreshShown
    BY <1>4 DEF FreshField, FreshShown
  <2>2. Reaches(toClient, FreshField, Y, FreshShown) /\ None(d, Y)
    BY <1>4 DEF FieldReaches
  <2>. HIDE DEF Y
  <2>3. Reaches(toClient', FreshField, Y, FreshShown)
    BY <1>1, <1>2, <2>2, ReachSent
  <2>. QED  BY <2>1, <2>3 DEF FieldReaches, Y
<1>. QED  BY <1>3, <1>4

\* An accepted choice ships what follows it in the same step.
LEMMA QuietApply ==
    ASSUME TypeOK, TypeOK', QuietInv, HandleClientChoiceApply
    PROVE  QuietInv'
<1>1. /\ UNCHANGED <<link, running, board, hpc, cInDuel, cField>>
      /\ sel' = NoSel /\ hpc = "pump"
      /\ toClient' = Sent(toClient, FieldOut(board, fieldHash))
      /\ fieldHash' = IF FieldDue(board, fieldHash) THEN {board.coarse} ELSE fieldHash
  BY DEF HandleClientChoiceApply, Respond, clientVars
<1>2. ~Shipped' /\ Drawn'
  BY <1>1 DEF Shipped, NoSel, Drawn
<1>3. ASSUME running', link' PROVE StartReaches' /\ FieldReaches'
  <2>1. StartReaches /\ FieldReaches /\ link
    BY <1>1, <1>3 DEF QuietInv, Arriving
  <2>2. FieldOut(board, fieldHash) \in Seq(ToClientMsg)
    BY FieldOutNone DEF TypeOK, EngineType
  <2>. QED  BY <1>1, <2>1, <2>2, FieldShows, FieldSent, StartSent
<1>. QED  BY <1>2, <1>3 DEF QuietInv, Arriving

\* The frame's ship: after it the host has told everything.
LEMMA QuietShip ==
    ASSUME TypeOK, TypeOK', WinnerSet, AnswersInv, QuietInv, HostShip
    PROVE  QuietInv'
<1>1. /\ UNCHANGED <<link, running, board, inDuel, sel, toHost, cInDuel, cField, cSelValid,
                     cOppWait, misclicked>>
      /\ toClient' = Sent(toClient, ShipOut) /\ ShipPrompt(sel, hostIdentity, Table)
      /\ fieldHash' = IF FieldDue(board, fieldHash) THEN {board.coarse} ELSE fieldHash
  BY DEF HostShip, ShipOut, engineVars, clientVars
<1>2. toClient \in Seq(ToClientMsg) /\ ShipOut \in Seq(ToClientMsg)
      /\ cSelValid \in BOOLEAN /\ cOppWait \in BOOLEAN
  BY ShipCarries DEF TypeOK, NetType, ClientType
<1>3. CASE ~running' \/ ~link'
  <2>1. Drawn'
    <3>1. ASSUME running'
          PROVE  fieldHash' = {board'.coarse} /\ (sel'.no # 0 => Shipped')
      <4>1. inDuel /\ running
        BY <1>1, <3>1 DEF AnswersInv, RunsInDuel
      <4>2. fieldHash' = {board.coarse}
        BY <1>1, <4>1 DEF FieldDue
      <4>3. sel.no # 0 => hostIdentity' = Identity(sel)
        BY <1>1, <4>1 DEF ShipPrompt, PromptDue, IsRealSelect
      <4>. QED  BY <1>1, <4>2, <4>3 DEF Shipped
    <3>. QED  BY <3>1 DEF Drawn
  <2>. QED  BY <1>3, <2>1, QuietGone
<1>4. CASE running' /\ link'
  <2>1. inDuel /\ running /\ link
    BY <1>1, <1>4 DEF AnswersInv, RunsInDuel
  <2>2. /\ StartReaches /\ FieldReaches
        /\ Shipped /\ sel.owner = Client => AskedReaches
        /\ Shipped /\ sel.owner # Client => NoticeReaches
    BY <2>1 DEF QuietInv, Arriving
  <2>3. fieldHash' = {board.coarse} /\ (sel.no # 0 => hostIdentity' = Identity(sel))
    BY <1>1, <2>1 DEF FieldDue, ShipPrompt, PromptDue, IsRealSelect
  <2>4. Drawn'
    BY <1>1, <2>3 DEF Drawn, Shipped
  <2>5. StartReaches' /\ FieldReaches'
    BY <1>1, <1>2, <2>1, <2>2, ShipShows, FieldSent, StartSent
  <2>6. Asked' = Asked /\ Notices' = Notices
    BY DEF Asked, Notices
  <2>7. CASE PromptDue(sel, hostIdentity)
    <3>1. sel.owner = Client => AskedReaches'
      <4>. DEFINE A == StartDuelMsg \cup Notices
      <4>1. sel.owner = Client => Ends(ShipOut, Asked, A)
        BY <2>7, ShipShows
      <4>. HIDE DEF A
      <4>2. sel.owner = Client => Reaches(toClient', Asked, A, cSelValid)
        BY <1>1, <1>2, <2>1, <4>1, ReachSent
      <4>. QED  BY <1>1, <2>6, <4>2 DEF AskedReaches, A
    <3>2. sel.owner # Client => NoticeReaches'
      <4>1. sel.owner # Client => Reaches(toClient', Notices, StartDuelMsg, cOppWait)
        BY <1>1, <1>2, <2>1, <2>7, ShipShows, ReachSent
      <4>. QED  BY <1>1, <2>6, <4>1 DEF NoticeReaches
    <3>. QED  BY <1>1, <2>4, <2>5, <3>1, <3>2 DEF QuietInv, Arriving
  <2>8. CASE ~PromptDue(sel, hostIdentity)
    <3>1. sel.no # 0 => Shipped
      BY <2>1, <2>8 DEF PromptDue, IsRealSelect, Shipped
    <3>2. None(ShipOut, StartDuelMsg \cup Notices) /\ None(ShipOut, StartDuelMsg)
      <4>1. None(ShipOut, PromptMsg) /\ None(ShipOut, StartDuelMsg)
        BY <2>8, ShipShows, ShipCarries
      <4>. QED  BY <4>1 DEF None, Notices
    <3>3. AskedReaches => AskedReaches'
      <4>. DEFINE A == StartDuelMsg \cup Notices
      <4>1. None(ShipOut, A)
        BY <3>2
      <4>. HIDE DEF A
      <4>2. Reaches(toClient, Asked, A, cSelValid) => Reaches(toClient', Asked, A, cSelValid)
        BY <1>1, <1>2, <4>1, ReachSent
      <4>. QED  BY <1>1, <2>6, <4>2 DEF AskedReaches, A
    <3>4. NoticeReaches => NoticeReaches'
      <4>1. Reaches(toClient, Notices, StartDuelMsg, cOppWait)
              => Reaches(toClient', Notices, StartDuelMsg, cOppWait)
        BY <1>1, <1>2, <3>2, ReachSent
      <4>. QED  BY <1>1, <2>6, <4>1 DEF NoticeReaches
    <3>. QED  BY <1>1, <2>2, <2>4, <2>5, <3>1, <3>3, <3>4 DEF QuietInv, Arriving, Shipped
  <2>. QED  BY <2>7, <2>8
<1>. QED  BY <1>3, <1>4

\* sendMpStartDuel: the StartDuel, and the board behind it.
LEMMA QuietStart ==
    ASSUME TypeOK, TypeOK', AnswersInv, ScreenInv, QuietInv, HostStartDuel
    PROVE  QuietInv'
<1>1. ~running /\ sel.no = 0 /\ sel' = sel /\ hpc' = "process"
  BY DEF HostStartDuel, AnswersInv, RunsInDuel, ScreenInv, ShipInv
<1>2. Drawn' /\ ~Shipped'
  BY <1>1 DEF Drawn, Shipped
<1>3. CASE ~running' \/ ~link'
  BY <1>2, <1>3, QuietGone
<1>4. CASE running' /\ link'
  <2>. DEFINE st == [type |-> "StartDuel"]
              fd == [type |-> "FieldSnapshot", board |-> board']
              Y == FieldMsg \cup StartDuelMsg
  <2>1. /\ link /\ fieldHash' = {board'.coarse} /\ board' \in Boards
        /\ toClient' = Sent(toClient, <<st, fd>>)
        /\ UNCHANGED <<cInDuel, cField>>
    BY <1>1, <1>4 DEF HostStartDuel, clientVars
  <2>2. /\ st \in StartDuelMsg /\ st \in ToClientMsg
        /\ fd \in FreshField' /\ fd \in ToClientMsg
    BY <2>1, MessageType DEF StartDuelMsg, FieldMsg, FreshField
  <2>3. toClient \in Seq(ToClientMsg) /\ cInDuel \in BOOLEAN /\ FreshShown' \in BOOLEAN
    BY DEF TypeOK, NetType, ClientType, FreshShown
  <2>. HIDE DEF st, fd, Y
  <2>4. /\ <<st, fd>> \in Seq(ToClientMsg)
        /\ Ends(<<st, fd>>, StartDuelMsg, {}) /\ Ends(<<st, fd>>, FreshField', Y)
    BY <2>2 DEF Ends
  <2>5. /\ Reaches(toClient', StartDuelMsg, {}, cInDuel)
        /\ Reaches(toClient', FreshField', Y, FreshShown')
    BY <2>1, <2>3, <2>4, ReachSent
  <2>. QED  BY <1>2, <2>1, <2>5 DEF QuietInv, Arriving, StartReaches, FieldReaches, Y
<1>. QED  BY <1>3, <1>4

\* The client handles a message: what it shows is on the screen now.
LEMMA QuietReceive ==
    ASSUME TypeOK, TypeOK', AnswersInv, ScreenInv, QuietInv, ClientReceive
    PROVE  QuietInv'
<1>. DEFINE m == Head(toClient)
            Y == FieldMsg \cup StartDuelMsg
            A == StartDuelMsg \cup Notices
<1>1. /\ toClient \in Seq(ToClientMsg) /\ toClient # <<>> /\ m \in ToClientMsg
      /\ toClient' = Tail(toClient)
      /\ UNCHANGED <<running, link, board, hpc, fieldHash, sel, hostIdentity, toHost,
                     misclicked>>
  BY DEF ClientReceive, HandleStartDuel, HandleFieldSnapshot, HandlePromptSnapshot,
     HandleSyncError, HandleGameOver, ClientReceives, TypeOK, NetType, engineVars,
     tableVars, hostVars
<1>2. /\ cSelValid \in BOOLEAN /\ cOppWait \in BOOLEAN /\ cInDuel \in BOOLEAN
      /\ cSelValid' \in BOOLEAN /\ cOppWait' \in BOOLEAN /\ cInDuel' \in BOOLEAN
      /\ FreshShown \in BOOLEAN /\ FreshShown' \in BOOLEAN
  BY DEF TypeOK, ClientType, FreshShown
<1>3. /\ Asked' = Asked /\ Notices' = Notices /\ FreshField' = FreshField
      /\ Shipped' = Shipped /\ Drawn'
  BY <1>1 DEF Asked, Notices, FreshField, Shipped, QuietInv, Drawn
<1>4. CASE ~running' \/ ~link'
  BY <1>3, <1>4, QuietGone
<1>5. CASE running' /\ link'
  <2>1. /\ StartReaches /\ FieldReaches /\ running
        /\ Shipped /\ sel.owner = Client => AskedReaches
        /\ Shipped /\ sel.owner # Client => NoticeReaches
    BY <1>1, <1>5 DEF QuietInv, Arriving
  <2>2. /\ m \in StartDuelMsg => HandleStartDuel
        /\ m \in FieldMsg => HandleFieldSnapshot
        /\ m \in PromptMsg => HandlePromptSnapshot
        /\ HandleStartDuel => m \in StartDuelMsg
        /\ HandleFieldSnapshot => m \in FieldMsg
        /\ HandlePromptSnapshot => m \in PromptMsg
    BY <1>1 DEF ClientReceive, HandleStartDuel, HandleFieldSnapshot, HandlePromptSnapshot,
       HandleSyncError, HandleGameOver, ClientReceives, ToClientMsg, StartDuelMsg,
       FieldMsg, PromptMsg, SyncErrorMsg, GameOverMsg
  <2>3. StartReaches'
    <3>1. m \in StartDuelMsg \/ cInDuel => cInDuel'
      BY <2>2 DEF ClientReceive, HandleStartDuel, HandleFieldSnapshot,
         HandlePromptSnapshot, HandleSyncError, HandleGameOver
    <3>2. Reaches(Tail(toClient), StartDuelMsg, {}, cInDuel')
      BY <1>1, <1>2, <2>1, <3>1, ReachTail DEF StartReaches
    <3>. QED  BY <1>1, <3>2 DEF StartReaches
  <2>4. FieldReaches'
    <3>1. m \in FreshField => FreshShown'
      <4>1. ASSUME m \in FreshField PROVE FreshShown'
        <5>1. m \in FieldMsg /\ {m.board.coarse} = fieldHash
          BY <4>1 DEF FreshField
        <5>2. m.board \in Boards /\ cField' = {m.board}
          BY <2>2, <5>1 DEF FieldMsg, HandleFieldSnapshot
        <5>. QED  BY <1>1, <5>1, <5>2 DEF FreshShown
      <4>. QED  BY <4>1
    <3>2. FreshShown /\ m \notin Y => FreshShown'
      <4>1. m \notin Y => cField' = cField
        BY <2>2 DEF ClientReceive, HandlePromptSnapshot, HandleSyncError, HandleGameOver
      <4>. QED  BY <1>1, <4>1 DEF FreshShown
    <3>. HIDE DEF Y
    <3>3. Reaches(toClient, FreshField, Y, FreshShown)
      BY <2>1 DEF FieldReaches, Y
    <3>4. Reaches(Tail(toClient), FreshField, Y, FreshShown')
      BY <1>1, <1>2, <3>1, <3>2, <3>3, ReachTail
    <3>. QED  BY <1>1, <1>3, <3>4 DEF FieldReaches, Y
  <2>5. ASSUME Shipped, sel.owner = Client PROVE AskedReaches'
    <3>1. m \in Asked => cSelValid'
      <4>1. ASSUME m \in Asked PROVE cSelValid'
        <5>1. ~None(toClient, Asked) /\ m \in PromptMsg
          BY <1>1, <4>1, HeadIs DEF Asked
        <5>2. ~cSelValid
          BY <5>1 DEF ScreenInv, OnePlace
        <5>. QED  BY <2>2, <4>1, <5>1, <5>2 DEF HandlePromptSnapshot, Asked
      <4>. QED  BY <4>1
    <3>2. cSelValid /\ m \notin A => cSelValid'
      <4>1. ASSUME cSelValid, m \notin A PROVE cSelValid'
        <5>1. CASE m \in PromptMsg
          BY <3>1, <4>1, <5>1 DEF Notices
        <5>2. CASE m \notin PromptMsg
          BY <2>2, <4>1, <5>2 DEF ClientReceive, HandleFieldSnapshot, HandleSyncError,
             HandleGameOver
        <5>. QED  BY <5>1, <5>2
      <4>. QED  BY <4>1
    <3>. HIDE DEF A
    <3>3. CASE Reaches(toClient, Asked, A, cSelValid)
      <4>1. Reaches(Tail(toClient), Asked, A, cSelValid')
        BY <1>1, <1>2, <3>1, <3>2, <3>3, ReachTail
      <4>. QED  BY <1>1, <1>3, <4>1 DEF AskedReaches, A
    <3>4. CASE ~None(toHost, ChoiceMsg) \/ misclicked = sel.no
      BY <1>1, <3>4 DEF AskedReaches
    <3>. QED  BY <2>1, <2>5, <3>3, <3>4 DEF AskedReaches, A
  <2>6. ASSUME Shipped, sel.owner # Client PROVE NoticeReaches'
    <3>1. ~cSelValid /\ None(toClient, Asked)
      BY <2>6 DEF ScreenInv, Belongs, Nowhere
    <3>2. m \notin Asked
      BY <1>1, <3>1, HeadIs
    <3>3. m \in Notices => cOppWait'
      BY <2>2, <3>1 DEF Notices, Asked, HandlePromptSnapshot
    <3>4. cOppWait /\ m \notin StartDuelMsg => cOppWait'
      <4>1. CASE m \in PromptMsg
        BY <3>2, <3>3, <4>1 DEF Notices
      <4>2. CASE m \notin PromptMsg
        BY <2>2, <4>2 DEF ClientReceive, HandleFieldSnapshot, HandleSyncError,
           HandleGameOver
      <4>. QED  BY <4>1, <4>2
    <3>5. Reaches(Tail(toClient), Notices, StartDuelMsg, cOppWait')
      BY <1>1, <1>2, <2>1, <2>6, <3>3, <3>4, ReachTail DEF NoticeReaches
    <3>. QED  BY <1>1, <1>3, <3>5 DEF NoticeReaches
  <2>. QED  BY <1>1, <1>3, <2>3, <2>4, <2>5, <2>6 DEF QuietInv, Arriving
<1>. QED  BY <1>4, <1>5

\* The client's clicks: a choice is on its way back, and stays there.
LEMMA QuietClicks ==
    ASSUME TypeOK, TypeOK', ScreenInv, QuietInv, ClientInput \/ LinkDown \/ UNCHANGED vars
    PROVE  QuietInv'
<1>1. /\ UNCHANGED <<running, board, hpc, fieldHash, sel, hostIdentity>>
      /\ LinkDown \/ UNCHANGED <<link, toClient, cInDuel, cField, cOppWait>>
  BY DEF ClientInput, SendClientChoice, SendSurrender, LinkDown, vars, engineVars,
     tableVars, hostVars, clientVars, netVars
<1>2. Drawn' /\ Shipped' = Shipped
  BY <1>1 DEF QuietInv, Drawn, Shipped
<1>3. CASE LinkDown
  BY <1>2, <1>3, QuietGone DEF LinkDown
<1>4. CASE UNCHANGED vars
  <2>1. UNCHANGED <<toHost, toClient, link, cInDuel, cField, cSelValid, cOppWait,
                    misclicked>>
    BY <1>4 DEF vars, clientVars, netVars
  <2>. QED  BY <1>1, <1>2, <2>1, QuietSame
<1>5. toHost \in Seq(ToHostMsg)
  BY DEF TypeOK, NetType
<1>6. CASE SendSurrender
  <2>. DEFINE m == [type |-> "Surrender", seat |-> Client]
  <2>1. m \in ToHostMsg /\ toHost' = Sent(toHost, <<m>>)
        /\ UNCHANGED <<cSelValid, link, toClient, cInDuel, cField, cOppWait, misclicked>>
    BY <1>6 DEF SendSurrender, ToHostMsg, SurrenderMsg, Seats
  <2>. HIDE DEF m
  <2>2. ToHost \subseteq ToHost'
    BY <1>5, <2>1, SentCarries
  <2>3. ~None(toHost, ChoiceMsg) => ~None(toHost', ChoiceMsg)
    BY <2>2 DEF None, ToHost
  <2>. QED  BY <1>1, <1>2, <2>1, <2>3, QuietSame
<1>7. CASE SendClientChoice
  <2>1. /\ UNCHANGED <<link, toClient, cInDuel, cField, cOppWait>> /\ cSelValid
    BY <1>7 DEF SendClientChoice
  <2>2. CASE ~running' \/ ~link'
    BY <1>2, <2>2, QuietGone
  <2>3. CASE running' /\ link'
    <3>1. sel.owner = Client
      BY <2>1, Somewhere DEF Nowhere
    <3>2. PICK id \in cSel.choices :
            toHost' = Sent(toHost, <<[type |-> "ClientChoice", seq |-> cSel.seq,
                                      id |-> id, no |-> cSel.no]>>)
      BY <1>7 DEF SendClientChoice
    <3>. DEFINE m == [type |-> "ClientChoice", seq |-> cSel.seq, id |-> id, no |-> cSel.no]
    <3>3. m \in ChoiceMsg /\ toHost' = Sent(toHost, <<m>>)
      BY <3>2 DEF TypeOK, ClientType, PromptMsg, ChoiceMsg
    <3>. HIDE DEF m
    <3>4. toHost' = toHost \o <<m>> /\ m \in ToHostMsg
      BY <2>1, <2>3, <3>3 DEF Sent, ToHostMsg
    <3>5. Len(toHost) + 1 \in DOMAIN toHost' /\ toHost'[Len(toHost) + 1] = m
      BY <1>5, <3>4
    <3>6. AskedReaches'
      BY <3>3, <3>5 DEF AskedReaches, None
    <3>7. FreshField' = FreshField /\ FreshShown' = FreshShown
      BY <1>1, <2>1 DEF FreshField, FreshShown
    <3>8. (StartReaches => StartReaches') /\ (FieldReaches => FieldReaches')
      BY <2>1, <3>7 DEF StartReaches, FieldReaches
    <3>. QED  BY <1>1, <1>2, <2>1, <2>3, <3>1, <3>6, <3>8 DEF QuietInv, Arriving
  <2>. QED  BY <2>2, <2>3
<1>. QED  BY <1>3, <1>4, <1>6, <1>7 DEF ClientInput

\* Every step keeps QuietInv.
LEMMA QuietStep ==
    ASSUME TypeOK, TypeOK', WinnerSet, AnswersInv, ScreenInv, QuietInv, [Next]_vars
    PROVE  QuietInv'
<1>1. CASE HostFrame
  BY <1>1, QuietHost, QuietShip DEF HostFrame
<1>2. CASE HostReceive
  BY <1>2, QuietHost, QuietBail, QuietApply DEF HostReceive
<1>3. CASE HostInput
  BY <1>3, QuietHost, QuietStart DEF HostInput
<1>4. CASE ClientReceive \/ ClientInput \/ LinkDown \/ UNCHANGED vars
  BY <1>4, QuietReceive, QuietClicks
<1>. QED  BY <1>1, <1>2, <1>3, <1>4 DEF Next

\* When everything sent has arrived, the client shows the host's situation:
\* its board up to what the field hash leaves out, its own prompt exactly when
\* it is asked and no refused click has cleared it, and the waiting banner while
\* the opponent is asked (buildAndSendFieldSnapshot, buildAndSendPromptSnapshotIfRemote and the
\* client's handlers).
THEOREM QuietSafe == Spec => []QuietClientAgrees
<1>1. Init => QuietInv
  BY DEF Init, QuietInv, Drawn, Arriving
<1>2. /\ TypeOK /\ TypeOK' /\ WinnerSet /\ AnswersInv /\ ScreenInv /\ QuietInv /\ [Next]_vars
      => QuietInv'
  BY QuietStep
<1>3. TypeOK /\ ScreenInv /\ QuietInv => QuietClientAgrees
  <2>. SUFFICES ASSUME TypeOK, ScreenInv, QuietInv, hpc = "draw", running, inDuel, link,
                       toClient = <<>>, toHost = <<>>
                PROVE  QuietClientAgrees
    BY DEF QuietClientAgrees
  <2>1. \A X, Y : ~Ends(toClient, X, Y)
    BY DEF Ends
  <2>2. cInDuel /\ FreshShown
    BY <2>1 DEF QuietInv, Arriving, StartReaches, FieldReaches, Reaches
  <2>3. fieldHash = {board.coarse} /\ (sel.no # 0 => Shipped)
    BY DEF QuietInv, Drawn
  <2>4. (\A b \in cField : b.coarse = board.coarse) /\ cField # {}
    BY <2>2, <2>3 DEF FreshShown
  <2>5. ASSUME sel.no # 0, sel.owner = Client
        PROVE  misclicked = sel.no \/ (cSelValid /\ cSel.no = sel.no)
    <3>1. AskedReaches /\ None(toHost, ChoiceMsg)
      BY <2>3, <2>5 DEF QuietInv, Arriving, None
    <3>2. cSelValid \/ misclicked = sel.no
      BY <2>1, <3>1 DEF AskedReaches, Reaches
    <3>. QED  BY <3>2 DEF ScreenInv, Belongs, SelPrompts
  <2>6. ASSUME sel.no # 0, sel.owner # Client PROVE ~cSelValid /\ cOppWait
    <3>1. NoticeReaches
      BY <2>3, <2>6 DEF QuietInv, Arriving
    <3>2. cOppWait
      BY <2>1, <3>1 DEF NoticeReaches, Reaches
    <3>. QED  BY <2>6, <3>2 DEF ScreenInv, Belongs, Nowhere
  <2>. QED  BY <2>2, <2>4, <2>5, <2>6 DEF QuietClientAgrees, IsRealSelect
<1>. QED  BY <1>1, <1>2, <1>3, TypeCorrect, AnswersCorrect, ScreenCorrect, PTL DEF Spec
=============================================================================
