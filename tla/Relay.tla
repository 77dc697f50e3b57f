-------------------------------- MODULE Relay --------------------------------
(***************************************************************************)
(* The online relay of src/tools/relay_server.py: rooms with a host seat   *)
(* and a guest seat, one server thread per connection.                     *)
(*                                                                         *)
(* A thread reads one frame, changes the rooms under the server's lock and *)
(* then, outside the lock, performs the sends the frame calls for; other   *)
(* threads run between any two of these steps.  pending[c] holds the sends *)
(* that thread c has decided on and not yet performed.  drop_conn alone    *)
(* notifies the peer while it holds the lock, so it is one step.           *)
(*                                                                         *)
(* handle_list only reads, and Ping/Pong only keep a connection from       *)
(* timing out: neither changes the state modelled here.                    *)
(***************************************************************************)
EXTENDS Naturals, Sequences

CONSTANTS
    Conn, NoConn,       \* connections; a reconnecting player gets a new one
    Code, NoCode,       \* room codes
    Frames,             \* gameplay frames, which the server does not parse
    Outs                \* what a client may write in one go

ControlTypes == {"CreateRoom", "JoinRoom"}
NoticeTypes ==
    {"RoomCreated", "RoomJoined", "RoomPeerJoined", "RoomClosed", "RoomError"}

ASSUME NoConnAssumption == NoConn \notin Conn
ASSUME NoCodeAssumption == NoCode \notin Code
\* Requests and notices are not gameplay (NetSession.h): a duel's messages have
\* types of their own.
ASSUME FramesAssumption ==
    \A f \in Frames : f.type \notin ControlTypes \cup NoticeTypes

VARIABLES
    rooms,      \* RelayServer.rooms: code -> Room
    roomOf,     \* Conn.room, by its code
    thread,     \* the connection's thread: "new", "serving" or "ended"
    pending,    \* sends the thread has still to perform
    up,         \* the TCP connection is alive
    toServer,   \* frames written by the client and not yet read
    toClient,   \* frames delivered to the client and not yet handled
    told        \* ghost: the roommate the last room notice sent to c named

relayVars == <<rooms, roomOf, thread, pending, up, toServer, toClient, told>>

NoRoom == [host |-> NoConn, guest |-> NoConn, started |-> FALSE]
Rooms  == [host : Conn \cup {NoConn}, guest : Conn \cup {NoConn},
           started : BOOLEAN]

RequestFrames ==
    [type : {"CreateRoom"}] \cup [type : {"JoinRoom"}, code : Code]
NoticeFrames ==
    [type : {"RoomCreated"}, code : Code]
      \cup [type : {"RoomJoined", "RoomPeerJoined", "RoomClosed"},
          who : Conn \cup {NoConn}]
      \cup [type : {"RoomError"}]

ASSUME OutsAssumption == Outs \subseteq Seq(RequestFrames \cup Frames)

Notice(type, who) == [type |-> type, who |-> who]
RoomError == [type |-> "RoomError"]

\* Room.peer_of, Room.empty
PeerOf(room, c) == CASE c = room.host  -> room.guest
                     [] c = room.guest -> room.host
                     [] OTHER          -> NoConn
Vacant(room) == room.host = NoConn /\ room.guest = NoConn
Live(code) == rooms[code] # NoRoom

RelayInit ==
    /\ rooms = [code \in Code |-> NoRoom]
    /\ roomOf = [c \in Conn |-> NoCode]
    /\ thread = [c \in Conn |-> "new"]
    /\ pending = [c \in Conn |-> <<>>]
    /\ up = [c \in Conn |-> FALSE]
    /\ toServer = [c \in Conn |-> <<>>]
    /\ toClient = [c \in Conn |-> <<>>]
    /\ told = [c \in Conn |-> NoConn]

(***************************************************************************)
(* Sending                                                                 *)
(***************************************************************************)
\* What the roommate notice f leaves its receiver believing.
Belief(f, before) == CASE f.type \in {"RoomJoined", "RoomPeerJoined"} -> f.who
                       [] f.type = "RoomClosed"                    -> NoConn
                       [] OTHER                                    -> before

\* Conn.send: a send on a dead connection fails and changes nothing.
Send(to, frame) ==
    /\ toClient' = IF up[to] THEN [toClient EXCEPT ![to] = Append(@, frame)]
                             ELSE toClient
    /\ told' = [told EXCEPT ![to] = Belief(frame, @)]

\* The next of the thread's outstanding sends.
SendPending(c) ==
    /\ pending[c] # <<>>
    /\ Send(Head(pending[c]).to, Head(pending[c]).frame)
    /\ pending' = [pending EXCEPT ![c] = Tail(@)]
    /\ UNCHANGED <<rooms, roomOf, thread, up, toServer>>

(***************************************************************************)
(* Handling one frame                                                      *)
(***************************************************************************)
Reads(c) ==
    /\ thread[c] = "serving" /\ pending[c] = <<>> /\ toServer[c] # <<>>
    /\ toServer' = [toServer EXCEPT ![c] = Tail(@)]
    /\ UNCHANGED <<thread, up>>
Frame(c) == Head(toServer[c])
WillSend(c, sends) == pending' = [pending EXCEPT ![c] = sends]
To(c, frame) == [to |-> c, frame |-> frame]

\* serve_conn refuses a second room before it calls either handler.
RefuseSecondRoom(c) ==
    /\ Reads(c) /\ Frame(c).type \in ControlTypes
    /\ roomOf[c] # NoCode
    /\ WillSend(c, <<To(c, RoomError)>>)
    /\ UNCHANGED <<rooms, roomOf, toClient, told>>

FaultyHandleCreate(c) ==          \* the code is not checked against the rooms
    /\ Reads(c) /\ Frame(c).type = "CreateRoom"
    /\ roomOf[c] = NoCode
    /\ \E code \in Code :
         /\ rooms' = [rooms EXCEPT ![code] = [NoRoom EXCEPT !.host = c]]
         /\ roomOf' = [roomOf EXCEPT ![c] = code]
         /\ WillSend(c, <<To(c, [type |-> "RoomCreated", code |-> code])>>)
    /\ UNCHANGED <<toClient, told>>

\* _new_code draws until it finds a free code.  Bound: Code; a request waits
\* while none is free, where the program would go on to longer codes.
HandleCreate(c) ==
    /\ Reads(c) /\ Frame(c).type = "CreateRoom"
    /\ roomOf[c] = NoCode
    /\ \E code \in Code :
         /\ ~Live(code)
         /\ rooms' = [rooms EXCEPT ![code] = [NoRoom EXCEPT !.host = c]]
         /\ roomOf' = [roomOf EXCEPT ![c] = code]
         /\ WillSend(c, <<To(c, [type |-> "RoomCreated", code |-> code])>>)
    /\ UNCHANGED <<toClient, told>>

FaultyJoinable(code) == Live(code)                \* a full room is joined
Joinable(code) == Live(code) /\ rooms[code].guest = NoConn

\* The guest seat is taken under the lock; the two notices follow outside.
HandleJoin(c) ==
    /\ Reads(c) /\ Frame(c).type = "JoinRoom"
    /\ roomOf[c] = NoCode
    /\ Joinable(Frame(c).code)
    /\ LET code == Frame(c).code
           host == rooms[code].host IN
         /\ rooms' = [rooms EXCEPT ![code].guest = c]
         /\ roomOf' = [roomOf EXCEPT ![c] = code]
         /\ WillSend(c, <<To(c, Notice("RoomJoined", host))>>
                          \o IF host = NoConn THEN <<>>
                             ELSE <<To(host, Notice("RoomPeerJoined", c))>>)
    /\ UNCHANGED <<toClient, told>>

\* Unknown code, full room or wrong password, answered under the lock.
\* Passwords are not modelled: any join may be refused.
HandleJoinError(c) ==
    /\ Reads(c) /\ Frame(c).type = "JoinRoom"
    /\ roomOf[c] = NoCode
    /\ Send(c, RoomError)
    /\ UNCHANGED <<rooms, roomOf, pending>>

\* forward_raw: the frame goes to the other seat, or nowhere while that seat
\* is empty.  The code takes no lock between looking the peer up and writing to
\* it; in between the peer can only have been dropped, and a frame written to a
\* dead connection is lost, so one step stands for both.
ForwardRaw(c) ==
    /\ Reads(c) /\ Frame(c).type \notin ControlTypes
    /\ IF roomOf[c] = NoCode
       THEN UNCHANGED <<rooms, toClient, told>>
       ELSE LET room == rooms[roomOf[c]]
                peer == PeerOf(room, c) IN
            /\ rooms' = IF Frame(c).type = "StartDuel"
                        THEN [rooms EXCEPT ![roomOf[c]].started = TRUE]
                        ELSE rooms
            /\ IF peer = NoConn THEN UNCHANGED <<toClient, told>>
                                ELSE Send(peer, Frame(c))
    /\ UNCHANGED <<roomOf, pending>>

\* drop_conn frees c's seat in room.
Left(room, c) == IF c = room.host THEN [room EXCEPT !.host = NoConn]
                                  ELSE [room EXCEPT !.guest = NoConn]

\* The read fails (closed, reset or 45 s of silence): the seat is freed, the
\* survivor told and an empty room removed.
DropConn(c) ==
    /\ thread[c] = "serving" /\ pending[c] = <<>> /\ toServer[c] = <<>>
    /\ ~up[c]
    /\ thread' = [thread EXCEPT ![c] = "ended"]
    /\ IF roomOf[c] = NoCode
       THEN UNCHANGED <<rooms, toClient, told>>
       ELSE LET room == rooms[roomOf[c]]
                peer == PeerOf(room, c) IN
            /\ rooms' = [rooms EXCEPT ![roomOf[c]] =
                            IF Vacant(Left(room, c)) THEN NoRoom
                                                     ELSE Left(room, c)]
            /\ IF peer = NoConn
               THEN UNCHANGED <<toClient, told>>
               ELSE Send(peer, Notice("RoomClosed", c))
    /\ roomOf' = [roomOf EXCEPT ![c] = NoCode]
    /\ UNCHANGED <<pending, up, toServer>>

ServeConn(c) ==
    \/ SendPending(c) \/ RefuseSecondRoom(c) \/ HandleCreate(c)
    \/ HandleJoin(c) \/ HandleJoinError(c) \/ ForwardRaw(c) \/ DropConn(c)

(***************************************************************************)
(* The client's end of a connection                                        *)
(***************************************************************************)
\* The relay worker connects and writes its request first.
Connect(c, request) ==
    /\ thread[c] = "new"
    /\ thread' = [thread EXCEPT ![c] = "serving"]
    /\ up' = [up EXCEPT ![c] = TRUE]
    /\ toServer' = [toServer EXCEPT ![c] = <<request>>]
    /\ UNCHANGED <<rooms, roomOf, pending, toClient, told>>

\* The client handles the next frame, if take, and writes the frames of out.
ClientTurn(c, take, out) ==
    /\ take => toClient[c] # <<>>
    /\ UNCHANGED <<rooms, roomOf, thread, pending, up, told>>
    /\ toClient' = IF take THEN [toClient EXCEPT ![c] = Tail(@)] ELSE toClient
    /\ toServer' = IF up[c] THEN [toServer EXCEPT ![c] = @ \o out] ELSE toServer

\* The client closes the connection: the frames it wrote last may be lost,
\* and nothing is handled any more.
Close(c) ==
    /\ thread[c] # "new"
    /\ up' = [up EXCEPT ![c] = FALSE]
    /\ toClient' = [toClient EXCEPT ![c] = <<>>]
    /\ \E i \in 0..Len(toServer[c]) :
         toServer' = [toServer EXCEPT ![c] = SubSeq(@, 1, i)]
    /\ UNCHANGED <<rooms, roomOf, thread, pending, told>>

\* The connection breaks, or is silent for too long: both ends lose a tail.
Break(c) ==
    /\ up[c]
    /\ up' = [up EXCEPT ![c] = FALSE]
    /\ \E i \in 0..Len(toClient[c]) :
         toClient' = [toClient EXCEPT ![c] = SubSeq(@, 1, i)]
    /\ \E i \in 0..Len(toServer[c]) :
         toServer' = [toServer EXCEPT ![c] = SubSeq(@, 1, i)]
    /\ UNCHANGED <<rooms, roomOf, thread, pending, told>>

\* A client that may do anything the protocol lets it write.
AnyClient(c) ==
    \/ \E request \in RequestFrames : Connect(c, request)
    \/ \E out \in Outs, take \in BOOLEAN : ClientTurn(c, take, out)
    \/ Close(c)
    \/ Break(c)

RelayNext == \E c \in Conn : ServeConn(c) \/ AnyClient(c)

RelaySpec == RelayInit /\ [][RelayNext]_relayVars
-----------------------------------------------------------------------------
(***************************************************************************)
(* Properties                                                              *)
(***************************************************************************)
\* The two views of a seat agree: a room's seats are held by two different
\* connections that are being served and point back at the room, and a
\* connection in a room holds one of its seats (so two rooms never share a
\* code, and a room whose players are gone does not stay in the table).
SeatsAgree ==
    /\ \A code \in Code : Live(code) =>
         LET seated == {rooms[code].host, rooms[code].guest} \ {NoConn} IN
           /\ seated # {}
           /\ rooms[code].host # rooms[code].guest
           /\ \A c \in seated : thread[c] = "serving" /\ roomOf[c] = code
    /\ \A c \in Conn : roomOf[c] # NoCode =>
         c \in {rooms[roomOf[c]].host, rooms[roomOf[c]].guest}

\* The notices a host is sent follow the guest seat: it has last been told of
\* the guest that sits there, or of nobody while that guest's thread has still
\* to announce it and so forwards nothing.  Departures are sent under the lock
\* and arrivals are not, yet no host hears of two guests at once, of a guest
\* who has left, or takes a new guest's frames for those of the one before.
HostToldInOrder ==
    \A code \in Code :
        LET h == rooms[code].host
            g == rooms[code].guest IN
        h # NoConn =>
            \/ told[h] = g
            \/ /\ told[h] = NoConn /\ g # NoConn
               /\ \E i \in DOMAIN pending[g] :
                    pending[g][i] = To(h, Notice("RoomPeerJoined", g))
=============================================================================
