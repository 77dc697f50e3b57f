-------------------------------- MODULE Lobby --------------------------------
(***************************************************************************)
(* The online lobby of src/src/UI.cpp over the relay of module Relay: the  *)
(* programs of the players open sessions with the relay, announce decks    *)
(* and readiness to each other (Hello, DeckInfo, Ready) and start a duel   *)
(* (StartDuel).  ui[p] is what program p remembers; it outlives a session. *)
(*                                                                         *)
(* The duel itself is module HostAuth; here it is only a screen a player   *)
(* is on until it leaves.                                                  *)
(***************************************************************************)
EXTENDS Relay

CONSTANTS
    Player,             \* running programs
    Hosts, Guests,      \* those that may create a room, and join one
    Deck, NoDeck,       \* the deck files a player can pick
    MaxEvents           \* bound: deck picks, ready clicks, guests that return and
                        \* connections that break in a run

\* A deck as it travels: which it is, and in which session it was announced.
Tags == Conn \X Deck

\* What one handler or click writes travels together: NetSession pushes the
\* messages to the outbox one after the other and its worker writes them out in
\* one go.  A packet holds a Hello or none, a DeckInfo or none, a Ready or none.
Says == {"yes", "no", "nothing"}
LobbyPacket(hello, deck, ready) ==
    [type |-> "Lobby", hello |-> hello, deck |-> deck, ready |-> ready]
StartDuel(t) == [type |-> "StartDuel", deck |-> t]
LobbyFrames ==
    {LobbyPacket(h, d, r) : h \in BOOLEAN, d \in Tags \cup {NoDeck}, r \in Says}
      \cup {StartDuel(t) : t \in Tags}
LobbyOuts == {<<>>} \cup {<<f>> : f \in LobbyFrames}

\* Connection <<p, n>> is the n-th session of program p.
ASSUME ConnAssumption == Conn \subseteq Player \X (Nat \ {0})
ASSUME LobbyFramesAssumption == Frames = LobbyFrames /\ Outs = LobbyOuts
ASSUME NoDeckAssumption == NoDeck \notin Deck /\ NoDeck \notin Tags

VARIABLES
    ui,             \* what each program remembers
    events          \* ghost, for the bound
lobbyVars == <<relayVars, ui, events>>

UIState == [
    sess : Nat,                         \* sessions opened so far
    mode : {"offline", "host", "client"},      \* NetSession::mode
    screen : {"room", "duel"},          \* m_screen
    deck : Deck \cup {NoDeck},          \* m_mpDeckIdx
    ready : BOOLEAN,                    \* m_mpReady
    remoteDeck : Tags \cup {NoDeck},    \* m_mpRemoteDeckRcvd, m_mpRemoteDeck
    remoteReady : BOOLEAN,              \* m_mpRemoteReady
    handshakeSent : BOOLEAN,            \* m_mpHandshakeSent
    inDuel : BOOLEAN,                   \* m_mpInDuel
    opponent : Conn \cup {NoConn},      \* ghost: whom the room notices named
    clean : BOOLEAN]                    \* ghost: the session began without
                                        \* latches of an earlier one

Session(p) == <<p, ui[p].sess>>
Online(p) == ui[p].mode # "offline"

LobbyInit ==
    /\ RelayInit
    /\ \E picked \in [Player -> Deck \cup {NoDeck}] :
         ui = [p \in Player |->
                 [sess |-> 0, mode |-> "offline", screen |-> "room",
                  deck |-> picked[p], ready |-> FALSE, remoteDeck |-> NoDeck,
                  remoteReady |-> FALSE, handshakeSent |-> FALSE,
                  inDuel |-> FALSE, opponent |-> NoConn, clean |-> TRUE]]
    /\ events = 0

Becomes(p, u) == ui' = [ui EXCEPT ![p] = u]

(***************************************************************************)
(* Opening a session                                                       *)
(***************************************************************************)
\* startRelayCreate and startRelayJoin reset this latch and no other.
Opened(u, mode) ==
    [u EXCEPT !.sess = @ + 1, !.mode = mode,
              !.handshakeSent = FALSE, !.opponent = NoConn,
              !.clean = u.remoteDeck = NoDeck /\ ~u.remoteReady]

MayOpen(p) ==
    /\ ~Online(p) /\ ui[p].screen = "room"
    /\ <<p, ui[p].sess + 1>> \in Conn        \* bound: sessions of p

StartRelayCreate(p) ==
    /\ MayOpen(p) /\ p \in Hosts
    /\ Becomes(p, Opened(ui[p], "host"))
    /\ Connect(<<p, ui[p].sess + 1>>, [type |-> "CreateRoom"])

StartRelayJoin(p) ==
    /\ MayOpen(p) /\ p \in Guests
    /\ ui[p].sess = 0 \/ events < MaxEvents
    /\ events' = IF ui[p].sess = 0 THEN events ELSE events + 1
    /\ Becomes(p, Opened(ui[p], "client"))
    /\ \E code \in Code :
         Connect(<<p, ui[p].sess + 1>>, [type |-> "JoinRoom", code |-> code])

(***************************************************************************)
(* Handling a message                                                      *)
(***************************************************************************)
FaultyDeckOf(p, u) == <<Session(p), u.deck>>     \* no deck is a deck too

DeckOf(p, u) == IF u.deck = NoDeck THEN NoDeck ELSE <<Session(p), u.deck>>
ReadyOf(u)   == IF u.ready THEN "yes" ELSE "nothing"
\* The deck and the readiness a program advertises, if it has any.
Advert(p, u) == IF u.deck = NoDeck /\ ~u.ready THEN <<>>
                ELSE <<LobbyPacket(FALSE, DeckOf(p, u), ReadyOf(u))>>

Receives(p, type) ==
    Online(p) /\ toClient[Session(p)] # <<>>
      /\ Head(toClient[Session(p)]).type = type
Message(p) == Head(toClient[Session(p)])
Handled(p, u, out) == Becomes(p, u) /\ ClientTurn(Session(p), TRUE, out)

\* mpKickoffHandshake, once per opponent.
Kickoff(p, u) ==
    Handled(p, [u EXCEPT !.handshakeSent = TRUE],
            IF u.handshakeSent THEN <<>>
            ELSE <<LobbyPacket(TRUE, DeckOf(p, u), ReadyOf(u))>>)

OnRoomCreated(p) ==
    /\ Receives(p, "RoomCreated")
    /\ Handled(p, ui[p], <<>>)

OnRoomJoined(p) ==
    /\ Receives(p, "RoomJoined")
    /\ Kickoff(p, [ui[p] EXCEPT !.opponent = Message(p).who])

OnRoomPeerJoined(p) ==
    /\ Receives(p, "RoomPeerJoined")
    /\ Kickoff(p, [ui[p] EXCEPT !.opponent = Message(p).who])

FaultyOnRoomClosed(p) ==          \* the opponent's readiness is kept
    /\ Receives(p, "RoomClosed")
    /\ Handled(p, [ui[p] EXCEPT !.remoteDeck = NoDeck,
                                !.handshakeSent = FALSE, !.opponent = NoConn],
               <<>>)

\* The opponent's latches are dropped; the room and a running duel stay.
OnRoomClosed(p) ==
    /\ Receives(p, "RoomClosed")
    /\ Handled(p, [ui[p] EXCEPT !.remoteDeck = NoDeck, !.remoteReady = FALSE,
                                !.handshakeSent = FALSE, !.opponent = NoConn],
               <<>>)

\* NetSession::disconnect
Offline(u) ==
    [u EXCEPT !.mode = "offline", !.opponent = NoConn, !.clean = TRUE]

OnRoomError(p) ==
    /\ Receives(p, "RoomError")
    /\ Becomes(p, Offline(ui[p]))
    /\ Close(Session(p))

\* DeckInfo and Ready.
Heard(u, m) ==
    [u EXCEPT !.remoteDeck  = IF m.deck = NoDeck THEN @ ELSE m.deck,
              !.remoteReady = IF m.ready = "nothing" THEN @ ELSE m.ready = "yes"]

\* A Hello is answered with what the program has to advertise.
OnLobbyPacket(p) ==
    /\ Receives(p, "Lobby")
    /\ Handled(p, Heard(ui[p], Message(p)),
               IF Message(p).hello THEN Advert(p, ui[p]) ELSE <<>>)

OnStartDuel(p) ==
    /\ Receives(p, "StartDuel")
    /\ Handled(p, [ui[p] EXCEPT !.inDuel = TRUE, !.screen = "duel"], <<>>)

HandleNetMessage(p) ==
    \/ OnRoomCreated(p) \/ OnRoomJoined(p) \/ OnRoomPeerJoined(p)
    \/ OnRoomClosed(p) \/ OnRoomError(p) \/ OnLobbyPacket(p) \/ OnStartDuel(p)

(***************************************************************************)
(* What a player does in the room                                          *)
(***************************************************************************)
InRoom(p) == Online(p) /\ ui[p].screen = "room"
Announces(p, u, out) == Becomes(p, u) /\ ClientTurn(Session(p), FALSE, out)
Clicks(p, u, out) ==
    /\ events < MaxEvents /\ events' = events + 1
    /\ toServer[Session(p)] = <<>>       \* bound: one unread click at a time
    /\ Announces(p, u, out)

\* The picker is locked while the player is ready.
PickDeck(p) ==
    /\ InRoom(p) /\ ~ui[p].ready
    /\ \E d \in Deck \ {ui[p].deck} :
         Clicks(p, [ui[p] EXCEPT !.deck = d],
                <<LobbyPacket(FALSE, <<Session(p), d>>, "nothing")>>)

FaultyToggleReady(p) ==           \* taking the ready back is not announced
    /\ InRoom(p)
    /\ ui[p].ready \/ ui[p].deck # NoDeck
    /\ Clicks(p, [ui[p] EXCEPT !.ready = ~@],
              IF ui[p].ready THEN <<>>
                             ELSE <<LobbyPacket(FALSE, NoDeck, "yes")>>)

ToggleReady(p) ==
    /\ InRoom(p)
    /\ ui[p].ready \/ ui[p].deck # NoDeck
    /\ Clicks(p, [ui[p] EXCEPT !.ready = ~@],
              <<LobbyPacket(FALSE, NoDeck,
                            IF ui[p].ready THEN "no" ELSE "yes")>>)

\* The Start Duel button is enabled.
CanStart(p) ==
    /\ ui[p].mode = "host" /\ ~ui[p].inDuel
    /\ ui[p].deck # NoDeck /\ ui[p].remoteDeck # NoDeck
    /\ ui[p].ready /\ ui[p].remoteReady

\* sendMpStartDuel: the packet goes out first, then the engine is created,
\* which may fail.
SendStartDuel(p) ==
    /\ InRoom(p) /\ CanStart(p)
    /\ \/ /\ Announces(p, [ui[p] EXCEPT !.inDuel = TRUE, !.screen = "duel"],
                       <<StartDuel(ui[p].remoteDeck)>>)
          /\ UNCHANGED events
       \/ Clicks(p, ui[p], <<StartDuel(ui[p].remoteDeck)>>)

\* "Disconnect" in the room: every latch is cleared.
LeaveRoom(p) ==
    /\ Online(p) /\ ui[p].screen = "room"
    /\ Becomes(p, [Offline(ui[p]) EXCEPT
                     !.ready = FALSE, !.remoteDeck = NoDeck,
                     !.remoteReady = FALSE,
                     !.handshakeSent = FALSE])
    /\ Close(Session(p))

\* "< Back": the session is closed and no latch is cleared.
BackOut(p) ==
    /\ Online(p) /\ ui[p].screen = "room"
    /\ Becomes(p, Offline(ui[p]))
    /\ Close(Session(p))

\* "Lobby", "Return to Lobby", "Quit to Lobby" and "Exit duel".
LeaveDuel(p) ==
    /\ Online(p) /\ ui[p].screen = "duel"
    /\ Becomes(p, [Offline(ui[p]) EXCEPT !.inDuel = FALSE, !.screen = "room"])
    /\ Close(Session(p))

\* "Return to Lobby" of the Connection Lost panel: the dead session is kept.
LeaveLostDuel(p) ==
    /\ Online(p) /\ ui[p].inDuel /\ ~up[Session(p)]
    /\ Becomes(p, [ui[p] EXCEPT !.inDuel = FALSE, !.screen = "room"])
    /\ UNCHANGED relayVars

PlayerStep(p) ==
    \/ StartRelayCreate(p)
    \/ LeaveRoom(p) \/ BackOut(p) \/ LeaveDuel(p) \/ LeaveLostDuel(p)

PlayerClick(p) == StartRelayJoin(p) \/ PickDeck(p) \/ ToggleReady(p) \/ SendStartDuel(p)

ConnectionBreaks(c) ==
    /\ events < MaxEvents /\ events' = events + 1
    /\ Break(c)

-----------------------------------------------------------------------------
ServerStep(c) == ServeConn(c) /\ UNCHANGED <<ui, events>>
ProgramStep(p) == HandleNetMessage(p) /\ UNCHANGED events

LobbyNext ==
    \/ \E c \in Conn : ServerStep(c)
    \/ \E c \in Conn : ConnectionBreaks(c) /\ UNCHANGED ui
    \/ \E p \in Player : ProgramStep(p)
    \/ \E p \in Player : PlayerStep(p) /\ UNCHANGED events
    \/ \E p \in Player : PlayerClick(p)

LobbySpec == LobbyInit /\ [][LobbyNext]_lobbyVars
-----------------------------------------------------------------------------
(***************************************************************************)
(* Properties                                                              *)
(***************************************************************************)
\* In a session that began without old latches, what a host remembers of an
\* opponent's deck and readiness is the present opponent's: nothing of a guest
\* who left passes to the next one, in whatever order the threads of the relay
\* served the two (UI::handleNetMessage, RoomClosed).
LatchesFollowOpponent ==
    \A p \in Player : ui[p].mode = "host" /\ ui[p].clean =>
        /\ ui[p].remoteDeck # NoDeck =>
             ui[p].opponent # NoConn /\ ui[p].remoteDeck[1] = ui[p].opponent
        /\ ui[p].remoteReady => ui[p].opponent # NoConn

\* p and q are told of each other and everything they sent has been handled.
Paired(p, q) ==
    /\ Online(p) /\ Online(q)
    /\ ui[p].opponent = Session(q) /\ ui[q].opponent = Session(p)
    /\ up[Session(p)] /\ up[Session(q)]
Settled(p, q) ==
    /\ Paired(p, q)
    /\ \A c \in {Session(p), Session(q)} :
         toServer[c] = <<>> /\ pending[c] = <<>> /\ toClient[c] = <<>>

\* When a pair has settled each program knows the other's deck and readiness,
\* whoever was first, whatever was clicked during the handshake.
SettledPairAgrees ==
    \A p, q \in Player : Settled(p, q) /\ ui[p].clean =>
        /\ ui[p].remoteReady = ui[q].ready
        /\ ui[q].deck # NoDeck => ui[p].remoteDeck = <<Session(q), ui[q].deck>>
=============================================================================
