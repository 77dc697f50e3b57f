---------------------------- MODULE LobbyProofs ----------------------------
(***************************************************************************)
(* Proofs about Relay and Lobby.  The seats of the rooms agree with the    *)
(* connections, and a host is told of its guests in order, for any number  *)
(* of connections, rooms and frames.  The programs of the players are      *)
(* clients of the relay as Relay knows them, so that what is proved of the *)
(* relay holds of rooms in which they play; what a host remembers of its   *)
(* opponent is the present opponent's; and a pair that has settled agrees. *)
(***************************************************************************)
EXTENDS Lobby, SequenceTheorems, TLAPS

Someone == Conn \cup {NoConn}
Sends == [to : Conn, frame : NoticeFrames]

RoomType ==
    /\ rooms \in [Code -> Rooms]
    /\ roomOf \in [Conn -> Code \cup {NoCode}]
    /\ thread \in [Conn -> {"new", "serving", "ended"}]
    /\ up \in [Conn -> BOOLEAN]
InType == toServer \in [Conn -> Seq(RequestFrames \cup Frames)]
OutType ==
    /\ pending \in [Conn -> Seq(Sends)]
    /\ toClient \in [Conn -> Seq(NoticeFrames \cup Frames)]
    /\ told \in [Conn -> Someone]
TypeOK == RoomType /\ InType /\ OutType

-----------------------------------------------------------------------------
(* The frames.                                                             *)

\* The notices of the relay are notices.
LEMMA NoticeType ==
    /\ \A type \in {"RoomJoined", "RoomPeerJoined", "RoomClosed"}, c \in Someone :
          /\ Notice(type, c) \in NoticeFrames
          /\ Notice(type, c).type = type /\ Notice(type, c).who = c
    /\ RoomError \in NoticeFrames /\ RoomError.type = "RoomError"
    /\ \A code \in Code : [type |-> "RoomCreated", code |-> code] \in NoticeFrames
BY DEF Notice, NoticeFrames, RoomError, Someone

\* What a client writes is either a request, with the code a join needs, or a
\* gameplay frame, which tells nobody of a roommate.
LEMMA WrittenFrame ==
    ASSUME NEW f \in RequestFrames \cup Frames
    PROVE  /\ f.type = "JoinRoom" => f.code \in Code
           /\ f.type \notin ControlTypes =>
                 f \in Frames /\ \A before : Belief(f, before) = before
  BY FramesAssumption DEF RequestFrames, ControlTypes, NoticeTypes, Belief

\* A notice leaves its receiver believing in someone or in nobody.
LEMMA BeliefType ==
    ASSUME NEW f \in NoticeFrames \cup Frames, NEW before \in Someone
    PROVE  Belief(f, before) \in Someone
<1>1. CASE f \in NoticeFrames
  BY <1>1 DEF Belief, NoticeFrames, Someone
<1>2. CASE f \in Frames
  BY <1>2, FramesAssumption DEF Belief, NoticeTypes
<1>. QED  BY <1>1, <1>2

\* A send reaches one client, in the order of the sends.
LEMMA SendType ==
    ASSUME OutType, NEW to \in Conn, NEW f \in NoticeFrames \cup Frames, Send(to, f)
    PROVE  /\ toClient' \in [Conn -> Seq(NoticeFrames \cup Frames)]
           /\ told' \in [Conn -> Someone]
           /\ told' = [told EXCEPT ![to] = Belief(f, told[to])]
<1>1. Append(toClient[to], f) \in Seq(NoticeFrames \cup Frames)
  BY DEF OutType
<1>2. Belief(f, told[to]) \in Someone
  BY BeliefType DEF OutType
<1>. QED  BY <1>1, <1>2 DEF Send, OutType

-----------------------------------------------------------------------------
(* Every variable keeps its type.                                          *)

\* A server that starts has no rooms, and nobody is connected.
LEMMA TypeInit == RelayInit => TypeOK
BY DEF RelayInit, TypeOK, RoomType, InType, OutType, NoRoom, Rooms, Someone

\* A thread reads a frame that a client may write.
LEMMA ReadsType ==
    ASSUME TypeOK, NEW c \in Conn, Reads(c)
    PROVE  InType' /\ Frame(c) \in RequestFrames \cup Frames
<1>1. toServer[c] \in Seq(RequestFrames \cup Frames) /\ toServer[c] # <<>>
  BY DEF TypeOK, InType, Reads
<1>2. /\ Tail(toServer[c]) \in Seq(RequestFrames \cup Frames)
      /\ Head(toServer[c]) \in RequestFrames \cup Frames
  BY <1>1, HeadTailProperties
<1>. QED  BY <1>1, <1>2 DEF TypeOK, InType, Reads, Frame

\* What a thread of the server does keeps the types,
LEMMA TypeServe ==
    ASSUME TypeOK, NEW c \in Conn, ServeConn(c)
    PROVE  TypeOK'
<1>. USE DEF TypeOK
<1>1. CASE SendPending(c)
  <2>1. pending[c] \in Seq(Sends) /\ pending[c] # <<>>
    BY <1>1 DEF SendPending, OutType
  <2>2. Head(pending[c]) \in Sends /\ Tail(pending[c]) \in Seq(Sends)
    BY <2>1, HeadTailProperties
  <2>3. /\ Head(pending[c]).to \in Conn
        /\ Head(pending[c]).frame \in NoticeFrames \cup Frames
    BY <2>2 DEF Sends
  <2>4. OutType'
    BY <1>1, <2>2, <2>3, SendType DEF SendPending, OutType
  <2>. QED  BY <1>1, <2>4 DEF SendPending, RoomType, InType
<1>2. CASE RefuseSecondRoom(c)
  <2>1. <<To(c, RoomError)>> \in Seq(Sends)
    BY NoticeType DEF To, Sends
  <2>. QED  BY <1>2, <2>1, ReadsType
            DEF RefuseSecondRoom, Reads, WillSend, RoomType, OutType
<1>3. CASE HandleCreate(c)
  <2>1. PICK code \in Code :
          /\ rooms' = [rooms EXCEPT ![code] = [NoRoom EXCEPT !.host = c]]
          /\ roomOf' = [roomOf EXCEPT ![c] = code]
          /\ WillSend(c, <<To(c, [type |-> "RoomCreated", code |-> code])>>)
    BY <1>3 DEF HandleCreate
  <2>2. [NoRoom EXCEPT !.host = c] \in Rooms
    BY DEF NoRoom, Rooms
  <2>3. <<To(c, [type |-> "RoomCreated", code |-> code])>> \in Seq(Sends)
    BY NoticeType DEF To, Sends
  <2>4. RoomType'
    BY <1>3, <2>1, <2>2 DEF HandleCreate, Reads, RoomType
  <2>5. OutType'
    BY <1>3, <2>1, <2>3 DEF HandleCreate, WillSend, OutType
  <2>. QED  BY <1>3, <2>4, <2>5, ReadsType DEF HandleCreate
<1>4. CASE HandleJoin(c)
  <2>. DEFINE code == Frame(c).code
              host == rooms[code].host
              sends == <<To(c, Notice("RoomJoined", host))>>
                          \o IF host = NoConn THEN <<>>
                             ELSE <<To(host, Notice("RoomPeerJoined", c))>>
  <2>1. /\ Reads(c) /\ Frame(c).type = "JoinRoom"
        /\ rooms' = [rooms EXCEPT ![code].guest = c]
        /\ roomOf' = [roomOf EXCEPT ![c] = code]
        /\ WillSend(c, sends) /\ UNCHANGED <<toClient, told>>
    BY <1>4 DEF HandleJoin
  <2>2. code \in Code
    BY <2>1, ReadsType, WrittenFrame
  <2>3. host \in Someone
    BY <2>2 DEF RoomType, Rooms, Someone
  <2>4. sends \in Seq(Sends)
    <3>1. <<To(c, Notice("RoomJoined", host))>> \in Seq(Sends)
      BY <2>3, NoticeType DEF To, Sends
    <3>2. host # NoConn => <<To(host, Notice("RoomPeerJoined", c))>> \in Seq(Sends)
      BY <2>3, NoticeType DEF To, Sends, Someone
    <3>. HIDE DEF host
    <3>. QED  BY <3>1, <3>2
  <2>. HIDE DEF sends
  <2>5. RoomType'
    BY <2>1, <2>2 DEF Reads, RoomType, Rooms
  <2>6. OutType'
    BY <2>1, <2>4 DEF WillSend, OutType
  <2>. QED  BY <2>1, <2>5, <2>6, ReadsType
<1>5. CASE HandleJoinError(c)
  <2>1. OutType'
    BY <1>5, SendType, NoticeType DEF HandleJoinError, OutType
  <2>. QED  BY <1>5, <2>1, ReadsType DEF HandleJoinError, Reads, RoomType
<1>6. CASE ForwardRaw(c)
  <2>. DEFINE room == rooms[roomOf[c]]
              peer == PeerOf(room, c)
  <2>1. Reads(c) /\ Frame(c) \in Frames /\ UNCHANGED <<roomOf, pending>>
    BY <1>6, ReadsType, WrittenFrame DEF ForwardRaw
  <2>2. CASE roomOf[c] = NoCode
    BY <1>6, <2>1, <2>2, ReadsType DEF ForwardRaw, Reads, RoomType, OutType
  <2>3. CASE roomOf[c] # NoCode
    <3>1. roomOf[c] \in Code
      BY <2>3 DEF RoomType
    <3>2. room \in Rooms /\ peer \in Someone
      BY <3>1 DEF RoomType, Rooms, PeerOf, Someone
    <3>3. rooms' \in [Code -> Rooms]
      <4>1. rooms' \in {rooms, [rooms EXCEPT ![roomOf[c]] = [room EXCEPT !.started = TRUE]]}
        BY <1>6, <2>3 DEF ForwardRaw
      <4>2. [room EXCEPT !.started = TRUE] \in Rooms
        BY <3>2 DEF Rooms
      <4>. QED  BY <3>1, <4>1, <4>2 DEF RoomType
    <3>4. OutType'
      BY <1>6, <2>1, <2>3, <3>2, SendType DEF ForwardRaw, OutType, Someone
    <3>. QED  BY <2>1, <3>3, <3>4, ReadsType DEF Reads, RoomType
  <2>. QED  BY <2>2, <2>3
<1>7. CASE DropConn(c)
  <2>. DEFINE room == rooms[roomOf[c]]
              peer == PeerOf(room, c)
  <2>1. /\ thread' = [thread EXCEPT ![c] = "ended"]
        /\ roomOf' = [roomOf EXCEPT ![c] = NoCode]
        /\ UNCHANGED <<pending, up, toServer>>
    BY <1>7 DEF DropConn
  <2>2. CASE roomOf[c] = NoCode
    BY <1>7, <2>1, <2>2 DEF DropConn, RoomType, InType, OutType
  <2>3. CASE roomOf[c] # NoCode
    <3>1. roomOf[c] \in Code
      BY <2>3 DEF RoomType
    <3>2. room \in Rooms /\ peer \in Someone /\ Left(room, c) \in Rooms
      BY <3>1 DEF RoomType, Rooms, PeerOf, Someone, Left
    <3>3. rooms' \in [Code -> Rooms]
      <4>1. NoRoom \in Rooms
        BY DEF NoRoom, Rooms
      <4>. QED  BY <1>7, <2>3, <3>1, <3>2, <4>1 DEF DropConn, RoomType
    <3>4. OutType'
      <4>1. CASE peer = NoConn
        BY <1>7, <2>1, <2>3, <4>1 DEF DropConn, OutType
      <4>2. CASE peer # NoConn
        <5>1. peer \in Conn /\ Notice("RoomClosed", c) \in NoticeFrames
          BY <3>2, <4>2, NoticeType DEF Someone
        <5>2. Send(peer, Notice("RoomClosed", c))
          BY <1>7, <2>3, <4>2 DEF DropConn
        <5>. HIDE DEF peer
        <5>. QED  BY <2>1, <5>1, <5>2, SendType DEF OutType
      <4>. QED  BY <4>1, <4>2
    <3>. QED  BY <2>1, <3>3, <3>4 DEF RoomType, InType
  <2>. QED  BY <2>2, <2>3
<1>. QED  BY <1>1, <1>2, <1>3, <1>4, <1>5, <1>6, <1>7 DEF ServeConn

\* and so does what a client does,
LEMMA TypeClient ==
    ASSUME TypeOK, NEW c \in Conn, AnyClient(c)
    PROVE  TypeOK'
<1>. USE DEF TypeOK
<1>1. ASSUME NEW request \in RequestFrames, Connect(c, request) PROVE TypeOK'
  <2>1. <<request>> \in Seq(RequestFrames \cup Frames)
    OBVIOUS
  <2>. QED  BY <1>1, <2>1 DEF Connect, RoomType, InType, OutType
<1>2. ASSUME NEW out \in Outs, NEW take \in BOOLEAN, ClientTurn(c, take, out)
      PROVE  TypeOK'
  <2>1. toServer[c] \o out \in Seq(RequestFrames \cup Frames)
    BY OutsAssumption, ConcatProperties DEF InType
  <2>2. toClient[c] # <<>> => Tail(toClient[c]) \in Seq(NoticeFrames \cup Frames)
    BY HeadTailProperties DEF OutType
  <2>3. InType'
    BY <1>2, <2>1 DEF ClientTurn, InType
  <2>4. OutType'
    BY <1>2, <2>2 DEF ClientTurn, OutType
  <2>. QED  BY <1>2, <2>3, <2>4 DEF ClientTurn, RoomType
<1>3. CASE Close(c)
  <2>1. PICK i \in 0..Len(toServer[c]) :
          toServer' = [toServer EXCEPT ![c] = SubSeq(@, 1, i)]
    BY <1>3 DEF Close
  <2>2. SubSeq(toServer[c], 1, i) \in Seq(RequestFrames \cup Frames)
    BY DEF InType
  <2>3. <<>> \in Seq(NoticeFrames \cup Frames)
    OBVIOUS
  <2>. QED  BY <1>3, <2>1, <2>2, <2>3 DEF Close, RoomType, InType, OutType
<1>4. CASE Break(c)
  <2>1. PICK i \in 0..Len(toServer[c]) :
          toServer' = [toServer EXCEPT ![c] = SubSeq(@, 1, i)]
    BY <1>4 DEF Break
  <2>2. PICK j \in 0..Len(toClient[c]) :
          toClient' = [toClient EXCEPT ![c] = SubSeq(@, 1, j)]
    BY <1>4 DEF Break
  <2>3. SubSeq(toServer[c], 1, i) \in Seq(RequestFrames \cup Frames)
    BY DEF InType
  <2>4. SubSeq(toClient[c], 1, j) \in Seq(NoticeFrames \cup Frames)
    BY DEF OutType
  <2>. QED  BY <1>4, <2>1, <2>2, <2>3, <2>4 DEF Break, RoomType, InType, OutType
<1>. QED  BY <1>1, <1>2, <1>3, <1>4 DEF AnyClient

\* hence every step.
LEMMA TypeNext == TypeOK /\ [RelayNext]_relayVars => TypeOK'
<1>1. TypeOK /\ UNCHANGED relayVars => TypeOK'
  BY DEF TypeOK, RoomType, InType, OutType, relayVars
<1>. QED  BY <1>1, TypeServe, TypeClient DEF RelayNext

\* Every variable keeps its type.
THEOREM TypeSafe == RelaySpec => []TypeOK
BY TypeInit, TypeNext, PTL DEF RelaySpec

\* One send after the other.
LEMMA TwoSends == ASSUME NEW a, NEW b PROVE <<a>> \o <<b>> = <<a, b>>
<1>. DEFINE S == {a, b}
<1>1. <<a>> \in Seq(S) /\ <<b>> \in Seq(S) /\ <<a, b>> \in Seq(S)
  OBVIOUS
<1>. HIDE DEF S
<1>2. /\ <<a>> \o <<b>> \in Seq(S) /\ Len(<<a>> \o <<b>>) = 2
      /\ \A i \in 1..2 : (<<a>> \o <<b>>)[i] = IF i <= 1 THEN a ELSE b
  BY <1>1, ConcatProperties
<1>3. \A i \in 1..2 : (<<a>> \o <<b>>)[i] = <<a, b>>[i]
  BY <1>2
<1>. QED  BY <1>1, <1>2, <1>3, SeqEqual

-----------------------------------------------------------------------------
(* The two views of a seat.  SeatsAgree is inductive with the types.       *)

\* The connections that sit in a room.
Seated(code) == {rooms[code].host, rooms[code].guest} \ {NoConn}

\* SeatsAgree, room by room and connection by connection.
RoomSound(code) ==
    Live(code) => /\ rooms[code].host # rooms[code].guest
                  /\ Seated(code) # {}
                  /\ \A c \in Seated(code) : thread[c] = "serving" /\ roomOf[c] = code
ConnSound(c) ==
    roomOf[c] # NoCode => c \in {rooms[roomOf[c]].host, rooms[roomOf[c]].guest}

\* SeatsAgree, room by room and connection by connection.
LEMMA SeatsAgreeIs ==
    SeatsAgree <=> (\A code \in Code : RoomSound(code)) /\ (\A c \in Conn : ConnSound(c))
BY DEF SeatsAgree, RoomSound, ConnSound, Seated

\* The same of the next state.
LEMMA SoundNext ==
    ASSUME \A code \in Code : RoomSound(code)', \A c \in Conn : ConnSound(c)'
    PROVE  SeatsAgree'
BY DEF SeatsAgree, RoomSound, ConnSound, Seated

\* A vacant seat is nobody's, and a connection in a room keeps it alive.
LEMMA SeatFacts ==
    ASSUME TypeOK, SeatsAgree
    PROVE  /\ \A c \in Conn : c # NoConn
           /\ NoRoom.host = NoConn /\ NoRoom.guest = NoConn
           /\ \A c \in Conn : roomOf[c] # NoCode =>
                 /\ roomOf[c] \in Code /\ Live(roomOf[c])
                 /\ thread[c] = "serving"
           /\ \A code \in Code :
                 /\ rooms[code].host \in Someone /\ rooms[code].guest \in Someone
                 /\ rooms[code].host \in Conn => roomOf[rooms[code].host] = code
                 /\ rooms[code].guest \in Conn => roomOf[rooms[code].guest] = code
                 /\ rooms[code].host \in Conn => rooms[code].host # rooms[code].guest
<1>1. /\ \A c \in Conn : c # NoConn
      /\ NoRoom.host = NoConn /\ NoRoom.guest = NoConn
  BY NoConnAssumption DEF NoRoom
<1>2. \A code \in Code : rooms[code].host \in Someone /\ rooms[code].guest \in Someone
  BY DEF TypeOK, RoomType, Rooms, Someone
<1>3. ASSUME NEW c \in Conn, roomOf[c] # NoCode
      PROVE  /\ roomOf[c] \in Code /\ Live(roomOf[c])
             /\ thread[c] = "serving"
  <2>1. roomOf[c] \in Code
    BY <1>3 DEF TypeOK, RoomType
  <2>2. c \in Seated(roomOf[c])
    BY <1>1, <1>3, SeatsAgreeIs DEF ConnSound, Seated
  <2>3. Live(roomOf[c])
    BY <1>1, <2>2 DEF Live, Seated
  <2>. QED  BY <2>1, <2>2, <2>3, SeatsAgreeIs DEF RoomSound
<1>4. ASSUME NEW code \in Code
      PROVE  /\ rooms[code].host \in Conn => roomOf[rooms[code].host] = code
             /\ rooms[code].guest \in Conn => roomOf[rooms[code].guest] = code
             /\ rooms[code].host \in Conn => rooms[code].host # rooms[code].guest
  <2>1. CASE Live(code)
    BY <1>1, <2>1, SeatsAgreeIs DEF RoomSound, Seated
  <2>2. CASE ~Live(code)
    BY <1>1, <2>2 DEF Live
  <2>. QED  BY <2>1, <2>2
<1>. QED  BY <1>1, <1>2, <1>3, <1>4

\* A step that leaves rooms, seats and threads alone.
LEMMA SeatsKept ==
    ASSUME SeatsAgree, UNCHANGED <<rooms, roomOf, thread>>
    PROVE  SeatsAgree'
BY DEF SeatsAgree, Live

\* A new room has the seat of its creator.
LEMMA SeatsCreate ==
    ASSUME TypeOK, SeatsAgree, NEW c \in Conn, HandleCreate(c)
    PROVE  SeatsAgree'
<1>1. PICK code \in Code :
        /\ ~Live(code)
        /\ rooms' = [rooms EXCEPT ![code] = [NoRoom EXCEPT !.host = c]]
        /\ roomOf' = [roomOf EXCEPT ![c] = code]
  BY DEF HandleCreate
<1>2. /\ roomOf[c] = NoCode /\ thread[c] = "serving" /\ UNCHANGED thread
  BY DEF HandleCreate, Reads
<1>3. rooms'[code].host = c /\ rooms'[code].guest = NoConn
  BY <1>1 DEF TypeOK, RoomType, NoRoom
<1>4. ASSUME NEW k \in Code PROVE RoomSound(k)'
  <2>1. CASE k = code
    BY <1>1, <1>2, <1>3, <2>1, SeatFacts, SMTT(30) DEF RoomSound, Seated, TypeOK, RoomType
  <2>2. CASE k # code
    <3>1. rooms'[k] = rooms[k]
      BY <1>1, <2>2 DEF TypeOK, RoomType
    <3>2. \A d \in Seated(k) : d \in Conn /\ (Live(k) => d # c)
      BY <1>2, SeatFacts, NoCodeAssumption DEF Seated, Someone
    <3>. QED  BY <1>1, <1>2, <3>1, <3>2, SeatsAgreeIs, SMTT(30)
              DEF RoomSound, Seated, Live, TypeOK, RoomType
  <2>. QED  BY <2>1, <2>2
<1>5. ASSUME NEW d \in Conn PROVE ConnSound(d)'
  <2>1. CASE d = c
    BY <1>1, <1>3, <2>1 DEF ConnSound, TypeOK, RoomType
  <2>2. CASE d # c
    <3>1. roomOf'[d] = roomOf[d]
      BY <1>1, <2>2 DEF TypeOK, RoomType
    <3>2. roomOf[d] # NoCode => roomOf[d] # code /\ roomOf[d] \in Code
      BY <1>1, SeatFacts
    <3>. QED  BY <1>1, <3>1, <3>2, SeatsAgreeIs DEF ConnSound, TypeOK, RoomType
  <2>. QED  BY <2>1, <2>2
<1>. QED  BY <1>4, <1>5, SoundNext

\* What a join does to seats, its guest's thread and its host's.
LEMMA JoinIs ==
    ASSUME TypeOK, SeatsAgree, NEW c \in Conn, HandleJoin(c)
    PROVE  \E code \in Code, host \in Conn :
              /\ Live(code) /\ host = rooms[code].host /\ host # c
              /\ rooms[code].guest = NoConn
              /\ rooms' = [rooms EXCEPT ![code].guest = c]
              /\ roomOf' = [roomOf EXCEPT ![c] = code]
              /\ roomOf[c] = NoCode /\ thread[c] = "serving" /\ pending[c] = <<>>
              /\ pending' = [pending EXCEPT ![c] =
                    <<To(c, Notice("RoomJoined", host)),
                      To(host, Notice("RoomPeerJoined", c))>>]
              /\ UNCHANGED <<thread, told>>
<1>. DEFINE code == Frame(c).code
            host == rooms[code].host
<1>1. /\ Reads(c) /\ Frame(c).type = "JoinRoom" /\ roomOf[c] = NoCode
      /\ Live(code) /\ rooms[code].guest = NoConn
      /\ rooms' = [rooms EXCEPT ![code].guest = c]
      /\ roomOf' = [roomOf EXCEPT ![c] = code]
      /\ pending' = [pending EXCEPT ![c] =
            <<To(c, Notice("RoomJoined", host))>>
               \o IF host = NoConn THEN <<>>
                  ELSE <<To(host, Notice("RoomPeerJoined", c))>>]
      /\ UNCHANGED told
  BY DEF HandleJoin, Joinable, WillSend
<1>2. code \in Code
  BY <1>1, ReadsType, WrittenFrame
<1>3. host \in Conn /\ roomOf[host] = code
  <2>1. Seated(code) # {} /\ host \in Someone
    BY <1>1, <1>2, SeatFacts, SeatsAgreeIs DEF RoomSound
  <2>. QED  BY <1>1, <1>2, <2>1, SeatFacts DEF Seated, Someone
<1>4. host # c /\ host # NoConn
  BY <1>1, <1>2, <1>3, NoCodeAssumption, NoConnAssumption
<1>5. thread[c] = "serving" /\ pending[c] = <<>> /\ UNCHANGED thread
  BY <1>1 DEF Reads
<1>6. pending' = [pending EXCEPT ![c] =
                    <<To(c, Notice("RoomJoined", host)),
                      To(host, Notice("RoomPeerJoined", c))>>]
  <2>. HIDE DEF host
  <2>1. <<To(c, Notice("RoomJoined", host))>>
           \o <<To(host, Notice("RoomPeerJoined", c))>>
          = <<To(c, Notice("RoomJoined", host)),
              To(host, Notice("RoomPeerJoined", c))>>
    BY TwoSends
  <2>. QED  BY <1>1, <1>4, <2>1
<1>. QED  BY <1>1, <1>2, <1>3, <1>4, <1>5, <1>6

\* A join fills the seat that was empty.
LEMMA SeatsJoin ==
    ASSUME TypeOK, SeatsAgree, NEW c \in Conn, HandleJoin(c)
    PROVE  SeatsAgree'
<1>1. PICK code \in Code, host \in Conn :
        /\ Live(code) /\ host = rooms[code].host /\ host # c
        /\ rooms[code].guest = NoConn
        /\ rooms' = [rooms EXCEPT ![code].guest = c]
        /\ roomOf' = [roomOf EXCEPT ![c] = code]
        /\ roomOf[c] = NoCode /\ thread[c] = "serving"
        /\ UNCHANGED thread
  BY JoinIs
<1>2. rooms'[code].host = host /\ rooms'[code].guest = c
  BY <1>1 DEF TypeOK, RoomType, Rooms
<1>3. thread[host] = "serving" /\ roomOf[host] = code /\ host # NoConn
  BY <1>1, SeatFacts, NoCodeAssumption
<1>4. ASSUME NEW k \in Code PROVE RoomSound(k)'
  <2>1. CASE k = code
    BY <1>1, <1>2, <1>3, <2>1, SeatFacts, SMTT(30) DEF RoomSound, Seated, TypeOK, RoomType
  <2>2. CASE k # code
    <3>1. rooms'[k] = rooms[k]
      BY <1>1, <2>2 DEF TypeOK, RoomType
    <3>2. \A d \in Seated(k) : d \in Conn /\ d # c
      BY <1>1, SeatFacts, NoCodeAssumption DEF Seated, Someone
    <3>3. Seated(k)' = Seated(k) /\ (Live(k)' <=> Live(k)) /\ RoomSound(k)
      BY <1>1, <3>1, SeatsAgreeIs DEF Seated, Live
    <3>4. \A d \in Seated(k) : roomOf'[d] = roomOf[d] /\ thread'[d] = thread[d]
      BY <1>1, <3>2 DEF TypeOK
    <3>. QED  BY <3>1, <3>3, <3>4 DEF RoomSound
  <2>. QED  BY <2>1, <2>2
<1>5. ASSUME NEW d \in Conn PROVE ConnSound(d)'
  <2>1. CASE d = c
    BY <1>1, <1>2, <2>1 DEF ConnSound, TypeOK, RoomType
  <2>2. CASE d # c
    <3>1. roomOf'[d] = roomOf[d]
      BY <1>1, <2>2 DEF TypeOK, RoomType
    <3>2. roomOf[d] = code => d = host
      BY <1>1, SeatFacts, SeatsAgreeIs, NoCodeAssumption DEF ConnSound
    <3>3. CASE roomOf[d] = code
      BY <1>2, <3>1, <3>2, <3>3 DEF ConnSound
    <3>4. CASE roomOf[d] # code
      BY <1>1, <3>1, <3>4, SeatsAgreeIs DEF ConnSound, TypeOK, RoomType
    <3>. QED  BY <3>3, <3>4
  <2>. QED  BY <2>1, <2>2
<1>. QED  BY <1>4, <1>5, SoundNext

\* A forwarded frame changes at most the started flag of a room that lives, and
\* tells nobody of a roommate.
LEMMA ForwardIs ==
    ASSUME TypeOK, SeatsAgree, NEW c \in Conn, ForwardRaw(c)
    PROVE  /\ \A k \in Code : /\ rooms'[k].host = rooms[k].host
                              /\ rooms'[k].guest = rooms[k].guest
                              /\ ~Live(k) => rooms'[k] = rooms[k]
           /\ UNCHANGED <<roomOf, thread, pending, told>>
<1>1. /\ Reads(c) /\ Frame(c).type \notin ControlTypes
      /\ UNCHANGED <<roomOf, thread, pending>>
  BY DEF ForwardRaw, Reads
<1>2. Frame(c) \in Frames /\ \A before : Belief(Frame(c), before) = before
  BY <1>1, ReadsType, WrittenFrame
<1>3. CASE roomOf[c] = NoCode
  BY <1>1, <1>3 DEF ForwardRaw
<1>4. CASE roomOf[c] # NoCode
  <2>. DEFINE room == rooms[roomOf[c]]
              peer == PeerOf(room, c)
  <2>1. roomOf[c] \in Code /\ Live(roomOf[c]) /\ room \in Rooms
    BY <1>4, SeatFacts DEF TypeOK, RoomType
  <2>2. rooms' = rooms \/ rooms' = [rooms EXCEPT ![roomOf[c]].started = TRUE]
    BY <1>4 DEF ForwardRaw
  <2>3. \A k \in Code : /\ rooms'[k].host = rooms[k].host
                        /\ rooms'[k].guest = rooms[k].guest
                        /\ ~Live(k) => rooms'[k] = rooms[k]
    BY <2>1, <2>2 DEF TypeOK, RoomType, Rooms
  <2>4. UNCHANGED told
    <3>1. peer \in Someone
      BY <2>1 DEF PeerOf, Rooms, Someone
    <3>2. CASE peer = NoConn
      BY <1>4, <3>2 DEF ForwardRaw
    <3>3. CASE peer # NoConn
      <4>1. peer \in Conn /\ Send(peer, Frame(c))
        BY <1>4, <3>1, <3>3 DEF ForwardRaw, Someone
      <4>. HIDE DEF peer
      <4>2. told' = [told EXCEPT ![peer] = told[peer]]
        BY <1>2, <4>1 DEF Send
      <4>. QED  BY <4>1, <4>2 DEF TypeOK, OutType
    <3>. QED  BY <3>2, <3>3
  <2>. QED  BY <1>1, <2>3, <2>4
<1>. QED  BY <1>3, <1>4

\* Forwarding moves nobody.
LEMMA SeatsForward ==
    ASSUME TypeOK, SeatsAgree, NEW c \in Conn, ForwardRaw(c)
    PROVE  SeatsAgree'
<1>1. ASSUME NEW k \in Code PROVE RoomSound(k)'
  <2>1. Live(k)' => Live(k)
    BY ForwardIs DEF Live
  <2>. QED  BY <2>1, ForwardIs, SeatsAgreeIs DEF RoomSound, Seated
<1>2. ASSUME NEW d \in Conn PROVE ConnSound(d)'
  BY ForwardIs, SeatFacts, SeatsAgreeIs DEF ConnSound
<1>. QED  BY <1>1, <1>2, SoundNext

\* What leaving does to seats: c's becomes vacant, and an empty room is gone.
LEMMA DropIs ==
    ASSUME TypeOK, SeatsAgree, NEW c \in Conn, DropConn(c)
    PROVE  /\ thread' = [thread EXCEPT ![c] = "ended"]
           /\ roomOf' = [roomOf EXCEPT ![c] = NoCode]
           /\ \A k \in Code : k # roomOf[c] => rooms'[k] = rooms[k]
           /\ LET k == roomOf[c] IN k # NoCode =>
                 /\ rooms'[k].host =
                       IF c = rooms[k].host THEN NoConn ELSE rooms[k].host
                 /\ rooms'[k].guest =
                       IF c = rooms[k].guest THEN NoConn ELSE rooms[k].guest
                 /\ rooms'[k].host = NoConn /\ rooms'[k].guest = NoConn
                       => rooms'[k] = NoRoom
<1>. DEFINE k == roomOf[c]
            room == rooms[k]
<1>1. /\ thread' = [thread EXCEPT ![c] = "ended"]
      /\ roomOf' = [roomOf EXCEPT ![c] = NoCode]
  BY DEF DropConn
<1>2. CASE k = NoCode
  BY <1>1, <1>2, NoCodeAssumption DEF DropConn
<1>3. CASE k # NoCode
  <2>1. k \in Code /\ room \in Rooms /\ c \in {room.host, room.guest}
    BY <1>3, SeatFacts, SeatsAgreeIs DEF ConnSound, TypeOK, RoomType
  <2>2. /\ room.host \in Someone /\ room.guest \in Someone
        /\ room.host = c => room.guest # c
    BY <2>1, SeatFacts
  <2>3. rooms' = [rooms EXCEPT ![k] =
                    IF Vacant(Left(room, c)) THEN NoRoom ELSE Left(room, c)]
    BY <1>3 DEF DropConn
  <2>4. rooms'[k] = IF Vacant(Left(room, c)) THEN NoRoom ELSE Left(room, c)
    BY <2>1, <2>3 DEF TypeOK, RoomType
  <2>5. /\ Left(room, c).host = IF c = room.host THEN NoConn ELSE room.host
        /\ Left(room, c).guest = IF c = room.guest THEN NoConn ELSE room.guest
    BY <2>1, <2>2 DEF Left, Rooms
  <2>6. \A j \in Code : j # k => rooms'[j] = rooms[j]
    BY <2>1, <2>3 DEF TypeOK, RoomType
  <2>. QED  BY <1>1, <2>4, <2>5, <2>6 DEF Vacant, NoRoom
<1>. QED  BY <1>2, <1>3

\* A connection that is dropped leaves its seat and its room.
LEMMA SeatsDrop ==
    ASSUME TypeOK, SeatsAgree, NEW c \in Conn, DropConn(c)
    PROVE  SeatsAgree'
<1>1. /\ thread'[c] = "ended" /\ roomOf'[c] = NoCode
      /\ \A d \in Conn : d # c => thread'[d] = thread[d] /\ roomOf'[d] = roomOf[d]
  BY DropIs DEF TypeOK, RoomType
<1>2. ASSUME NEW k \in Code PROVE RoomSound(k)'
  <2>1. CASE k # roomOf[c]
    <3>1. rooms'[k] = rooms[k]
      BY <2>1, DropIs
    <3>2. \A d \in Seated(k) : d \in Conn /\ (Live(k) => d # c)
      BY <2>1, SeatFacts DEF Seated, Someone
    <3>. QED  BY <1>1, <3>1, <3>2, SeatsAgreeIs DEF RoomSound, Seated, Live
  <2>2. CASE k = roomOf[c]
    <3>1. k # NoCode /\ Live(k)
      BY <2>2, NoCodeAssumption, SeatFacts
    <3>2. /\ rooms'[k].host =
                IF c = rooms[k].host THEN NoConn ELSE rooms[k].host
          /\ rooms'[k].guest =
                IF c = rooms[k].guest THEN NoConn ELSE rooms[k].guest
          /\ rooms'[k].host = NoConn /\ rooms'[k].guest = NoConn
                => rooms'[k] = NoRoom
      BY <2>2, <3>1, DropIs
    <3>3. \A d \in Seated(k) : d \in Conn /\ thread[d] = "serving" /\ roomOf[d] = k
      BY <3>1, SeatsAgreeIs, SeatFacts DEF RoomSound, Seated, Someone
    <3>4. Seated(k)' = Seated(k) \ {c}
      BY <3>2 DEF Seated
    <3>5. ASSUME Live(k)'
          PROVE  rooms'[k].host # rooms'[k].guest /\ Seated(k)' # {}
      <4>1. ~(rooms'[k].host = NoConn /\ rooms'[k].guest = NoConn)
        BY <3>2, <3>5 DEF Live
      <4>2. rooms[k].host # rooms[k].guest
        BY <3>1, SeatsAgreeIs DEF RoomSound
      <4>. QED  BY <3>2, <4>1, <4>2 DEF Seated
    <3>. QED  BY <1>1, <3>3, <3>4, <3>5 DEF RoomSound
  <2>. QED  BY <2>1, <2>2
<1>3. ASSUME NEW d \in Conn PROVE ConnSound(d)'
  <2>1. CASE d = c
    BY <1>1, <2>1 DEF ConnSound
  <2>2. CASE d # c
    <3>1. ASSUME roomOf[d] # NoCode
          PROVE  d \in {rooms'[roomOf[d]].host, rooms'[roomOf[d]].guest}
      <4>1. roomOf[d] \in Code /\ d \in {rooms[roomOf[d]].host, rooms[roomOf[d]].guest}
        BY <3>1, SeatFacts, SeatsAgreeIs DEF ConnSound
      <4>. QED  BY <2>2, <4>1, DropIs, NoCodeAssumption
    <3>. QED  BY <1>1, <2>2, <3>1 DEF ConnSound
  <2>. QED  BY <2>1, <2>2
<1>. QED  BY <1>2, <1>3, SoundNext

\* Every step keeps the seats.
LEMMA SeatsNext == TypeOK /\ SeatsAgree /\ [RelayNext]_relayVars => SeatsAgree'
<1>. SUFFICES ASSUME TypeOK, SeatsAgree, [RelayNext]_relayVars PROVE SeatsAgree'
  OBVIOUS
<1>1. ASSUME NEW c \in Conn, ServeConn(c) PROVE SeatsAgree'
  <2>1. CASE SendPending(c) \/ RefuseSecondRoom(c) \/ HandleJoinError(c)
    BY <2>1, SeatsKept
       DEF SendPending, RefuseSecondRoom, HandleJoinError, Reads
  <2>. QED  BY <1>1, <2>1, SeatsCreate, SeatsJoin, SeatsForward, SeatsDrop
            DEF ServeConn
<1>2. ASSUME NEW c \in Conn, AnyClient(c) PROVE SeatsAgree'
  <2>1. ASSUME NEW request \in RequestFrames, Connect(c, request)
        PROVE  SeatsAgree'
    <3>1. /\ thread[c] = "new" /\ UNCHANGED <<rooms, roomOf>>
          /\ \A d \in Conn : d # c => thread'[d] = thread[d]
      BY <2>1 DEF Connect, TypeOK, RoomType
    <3>2. ASSUME NEW k \in Code PROVE RoomSound(k)'
      BY <3>1, SeatsAgreeIs, SeatFacts, SMTT(30) DEF RoomSound, Seated, Live, Someone
    <3>3. ASSUME NEW d \in Conn PROVE ConnSound(d)'
      BY <3>1, SeatsAgreeIs DEF ConnSound
    <3>. QED  BY <3>2, <3>3, SoundNext
  <2>2. ASSUME NEW out \in Outs, NEW take \in BOOLEAN, ClientTurn(c, take, out)
        PROVE  SeatsAgree'
    BY <2>2, SeatsKept DEF ClientTurn
  <2>3. CASE Close(c) \/ Break(c)
    BY <2>3, SeatsKept DEF Close, Break
  <2>. QED  BY <1>2, <2>1, <2>2, <2>3 DEF AnyClient
<1>3. CASE UNCHANGED relayVars
  BY <1>3, SeatsKept DEF relayVars
<1>. QED  BY <1>1, <1>2, <1>3 DEF RelayNext

\* In the beginning there is no room.
LEMMA SeatsInit == RelayInit => SeatsAgree
BY DEF RelayInit, SeatsAgree, Live

\* Rooms and connections agree on who sits where, whatever the clients write and
\* wherever the threads interleave (RelayServer.handle_join, drop_conn).
THEOREM SeatsSafe == RelaySpec => []SeatsAgree
BY TypeInit, TypeNext, SeatsInit, SeatsNext, PTL DEF RelaySpec

-----------------------------------------------------------------------------
(* What a host has been told.  Two threads send to a host: its own, and the *)
(* guest's, whose announcement may still be outstanding.                    *)

GuestOf(c) == roomOf[c] # NoCode /\ rooms[roomOf[c]].guest = c

\* What thread c still has to send: an answer to c itself, or the announcement
\* of c, which still sits in the guest seat, to its host or one who has left.
SendSound(c, s) ==
    \/ s.to = c /\ s.frame.type \in {"RoomCreated", "RoomError"}
    \/ s.to = c /\ s.frame.type = "RoomJoined" /\ GuestOf(c)
    \/ /\ s = To(s.to, Notice("RoomPeerJoined", c)) /\ s.to \in Conn \ {c}
       /\ GuestOf(c)
       /\ rooms[roomOf[c]].host = s.to \/ thread[s.to] = "ended"
PendingSound(c) == \A i \in DOMAIN pending[c] : SendSound(c, pending[c][i])

\* Who has not been in a room has been told of nobody.
Untold(c) == thread[c] # "ended" /\ roomOf[c] = NoCode => told[c] = NoConn

\* c's announcement to h is outstanding.
Announcing(c, h) ==
    \E i \in DOMAIN pending[c] : pending[c][i] = To(h, Notice("RoomPeerJoined", c))
\* HostToldInOrder, room by room.
ToldOf(code) ==
    LET h == rooms[code].host
        g == rooms[code].guest
    IN  h # NoConn => \/ told[h] = g
                      \/ told[h] = NoConn /\ g # NoConn /\ Announcing(g, h)

ToldInv ==
    /\ \A c \in Conn : PendingSound(c) /\ Untold(c)
    /\ \A code \in Code : ToldOf(code)

\* A vacant seat announces nobody, and a quiet thread announces nothing.
LEMMA QuietThread ==
    ASSUME NEW c, pending[c] = <<>> PROVE \A h : ~Announcing(c, h)
BY DEF Announcing

\* The rest of a sequence is the sequence without its head.
LEMMA TailIs ==
    ASSUME NEW S, NEW s \in Seq(S), s # <<>>
    PROVE  /\ Head(s) = s[1] /\ 1 \in DOMAIN s
           /\ \A i \in DOMAIN Tail(s) : i + 1 \in DOMAIN s /\ Tail(s)[i] = s[i + 1]
           /\ \A i \in DOMAIN s : i # 1 =>
                 i - 1 \in DOMAIN Tail(s) /\ Tail(s)[i - 1] = s[i]
<1>1. /\ Len(s) \in Nat \ {0} /\ DOMAIN s = 1..Len(s)
      /\ Len(Tail(s)) = Len(s) - 1 /\ DOMAIN Tail(s) = 1..Len(Tail(s))
      /\ \A i \in 1..Len(Tail(s)) : Tail(s)[i] = s[i + 1]
  BY EmptySeq, HeadTailProperties, LenProperties
<1>2. \A i \in DOMAIN s : i # 1 => i - 1 \in 1..Len(Tail(s)) /\ (i - 1) + 1 = i
  BY <1>1
<1>3. Head(s) = s[1]
  OBVIOUS
<1>. QED  BY <1>1, <1>2, <1>3

\* A step that leaves seats, threads, outstanding sends and beliefs alone.
LEMMA ToldKept ==
    ASSUME TypeOK, SeatsAgree, ToldInv,
           UNCHANGED <<roomOf, thread, pending, told>>,
           \A k \in Code : /\ rooms'[k].host = rooms[k].host
                           /\ rooms'[k].guest = rooms[k].guest
    PROVE  ToldInv'
<1>1. ASSUME NEW c \in Conn PROVE PendingSound(c)' /\ Untold(c)'
  <2>1. roomOf[c] # NoCode => roomOf[c] \in Code
    BY SeatFacts
  <2>2. PendingSound(c) /\ Untold(c)
    BY DEF ToldInv
  <2>. QED  BY <2>1, <2>2 DEF PendingSound, SendSound, GuestOf, Untold
<1>2. ASSUME NEW k \in Code PROVE ToldOf(k)'
  BY DEF ToldInv, ToldOf, Announcing
<1>. QED  BY <1>1, <1>2 DEF ToldInv

\* A second room is refused while nothing of the thread's is outstanding.
LEMMA ToldRefuse ==
    ASSUME TypeOK, SeatsAgree, ToldInv, NEW c \in Conn, RefuseSecondRoom(c)
    PROVE  ToldInv'
<1>0. /\ pending[c] = <<>>
      /\ pending' = [pending EXCEPT ![c] = <<To(c, RoomError)>>]
      /\ UNCHANGED <<rooms, roomOf, thread, told>>
  BY DEF RefuseSecondRoom, Reads, WillSend
<1>1. /\ pending'[c] = <<To(c, RoomError)>> /\ pending[c] = <<>>
      /\ \A d \in Conn : d # c => pending'[d] = pending[d]
      /\ UNCHANGED <<rooms, roomOf, thread, told>>
      /\ RoomError.type = "RoomError"
  BY <1>0, NoticeType DEF TypeOK, OutType
<1>2. ASSUME NEW d \in Conn PROVE PendingSound(d)' /\ Untold(d)'
  <2>1. PendingSound(d) /\ Untold(d)
    BY DEF ToldInv
  <2>2. CASE d = c
    BY <1>1, <2>1, <2>2 DEF PendingSound, SendSound, Untold, To
  <2>3. CASE d # c
    BY <1>1, <2>1, <2>3 DEF PendingSound, SendSound, GuestOf, Untold
  <2>. QED  BY <2>2, <2>3
<1>3. ASSUME NEW k \in Code PROVE ToldOf(k)'
  <2>1. ToldOf(k) /\ rooms[k].guest \in Someone
    BY SeatFacts DEF ToldInv
  <2>2. \A h : ~Announcing(c, h)
    BY <1>1, QuietThread
  <2>3. \A g \in Conn : \A h : Announcing(g, h) => Announcing(g, h)'
    BY <1>1, <2>2 DEF Announcing
  <2>. QED  BY <1>1, <2>1, <2>3 DEF ToldOf, Someone
<1>. QED  BY <1>2, <1>3 DEF ToldInv

\* The host of a new room is told of nobody.
LEMMA ToldCreate ==
    ASSUME TypeOK, SeatsAgree, ToldInv, NEW c \in Conn, HandleCreate(c)
    PROVE  ToldInv'
<1>1. PICK code \in Code :
        /\ ~Live(code)
        /\ rooms' = [rooms EXCEPT ![code] = [NoRoom EXCEPT !.host = c]]
        /\ roomOf' = [roomOf EXCEPT ![c] = code]
        /\ pending' = [pending EXCEPT ![c] =
              <<To(c, [type |-> "RoomCreated", code |-> code])>>]
  BY DEF HandleCreate, WillSend
<1>2. /\ roomOf[c] = NoCode /\ thread[c] = "serving" /\ pending[c] = <<>>
      /\ UNCHANGED <<thread, told>>
  BY DEF HandleCreate, Reads
<1>3. /\ rooms'[code].host = c /\ rooms'[code].guest = NoConn
      /\ \A k \in Code : k # code => rooms'[k] = rooms[k]
      /\ roomOf'[c] = code /\ \A d \in Conn : d # c => roomOf'[d] = roomOf[d]
      /\ pending'[c] = <<To(c, [type |-> "RoomCreated", code |-> code])>>
      /\ \A d \in Conn : d # c => pending'[d] = pending[d]
  BY <1>1 DEF TypeOK, RoomType, OutType, NoRoom
<1>4. ASSUME NEW d \in Conn PROVE PendingSound(d)' /\ Untold(d)'
  <2>1. PendingSound(d) /\ Untold(d)
    BY DEF ToldInv
  <2>2. CASE d = c
    BY <1>3, <2>2, NoCodeAssumption DEF PendingSound, SendSound, Untold, To
  <2>3. CASE d # c
    <3>1. /\ roomOf'[d] = roomOf[d] /\ pending'[d] = pending[d]
      BY <1>3, <2>3
    <3>2. roomOf[d] # NoCode => rooms'[roomOf[d]] = rooms[roomOf[d]]
      BY <1>1, <1>3, SeatFacts
    <3>3. GuestOf(d) => GuestOf(d)' /\ rooms'[roomOf[d]] = rooms[roomOf[d]]
      BY <3>1, <3>2 DEF GuestOf
    <3>. QED  BY <1>2, <2>1, <3>1, <3>3 DEF PendingSound, SendSound, Untold
  <2>. QED  BY <2>2, <2>3
<1>5. ASSUME NEW k \in Code PROVE ToldOf(k)'
  <2>1. CASE k = code
    <3>1. told[c] = NoConn
      BY <1>2 DEF ToldInv, Untold
    <3>. QED  BY <1>2, <1>3, <2>1, <3>1 DEF ToldOf
  <2>2. CASE k # code
    <3>1. ToldOf(k) /\ rooms[k].guest \in Someone /\ rooms'[k] = rooms[k]
      BY <1>3, <2>2, SeatFacts DEF ToldInv
    <3>2. \A h : ~Announcing(c, h)
      BY <1>2, QuietThread
    <3>3. \A g \in Conn : \A h : Announcing(g, h) => Announcing(g, h)'
      BY <1>3, <3>2 DEF Announcing
    <3>. QED  BY <1>2, <3>1, <3>3 DEF ToldOf, Someone
  <2>. QED  BY <2>1, <2>2
<1>. QED  BY <1>4, <1>5 DEF ToldInv

\* A join leaves its guest's announcement outstanding: until then the host has
\* been told of nobody.
LEMMA ToldJoin ==
    ASSUME TypeOK, SeatsAgree, ToldInv, NEW c \in Conn, HandleJoin(c)
    PROVE  ToldInv'
<1>1. PICK code \in Code, host \in Conn :
        /\ Live(code) /\ host = rooms[code].host /\ host # c
        /\ rooms[code].guest = NoConn
        /\ rooms' = [rooms EXCEPT ![code].guest = c]
        /\ roomOf' = [roomOf EXCEPT ![c] = code]
        /\ roomOf[c] = NoCode /\ thread[c] = "serving" /\ pending[c] = <<>>
        /\ pending' = [pending EXCEPT ![c] =
              <<To(c, Notice("RoomJoined", host)),
                To(host, Notice("RoomPeerJoined", c))>>]
        /\ UNCHANGED <<thread, told>>
  BY JoinIs
<1>2. /\ rooms'[code].host = host /\ rooms'[code].guest = c
      /\ \A k \in Code : k # code => rooms'[k] = rooms[k]
      /\ roomOf'[c] = code /\ \A d \in Conn : d # c => roomOf'[d] = roomOf[d]
      /\ pending'[c] = <<To(c, Notice("RoomJoined", host)),
                         To(host, Notice("RoomPeerJoined", c))>>
      /\ \A d \in Conn : d # c => pending'[d] = pending[d]
  BY <1>1 DEF TypeOK, RoomType, OutType, Rooms
<1>3. code # NoCode /\ c # NoConn /\ host # NoConn
  BY NoCodeAssumption, NoConnAssumption
<1>4. ASSUME NEW d \in Conn PROVE PendingSound(d)' /\ Untold(d)'
  <2>1. PendingSound(d) /\ Untold(d)
    BY DEF ToldInv
  <2>2. CASE d = c
    <3>1. GuestOf(c)'
      BY <1>2, <1>3 DEF GuestOf
    <3>2. /\ SendSound(c, To(c, Notice("RoomJoined", host)))'
          /\ SendSound(c, To(host, Notice("RoomPeerJoined", c)))'
      BY <1>1, <1>2, <3>1 DEF SendSound, To, Notice
    <3>. QED  BY <1>2, <1>3, <2>2, <3>2 DEF PendingSound, Untold
  <2>3. CASE d # c
    <3>1. /\ roomOf'[d] = roomOf[d] /\ pending'[d] = pending[d]
      BY <1>2, <2>3
    <3>2. GuestOf(d) => roomOf[d] \in Code /\ roomOf[d] # code
      BY <1>1, SeatFacts DEF GuestOf
    <3>3. GuestOf(d) => GuestOf(d)' /\ rooms'[roomOf[d]] = rooms[roomOf[d]]
      BY <1>2, <3>1, <3>2 DEF GuestOf
    <3>. QED  BY <1>1, <2>1, <3>1, <3>3 DEF PendingSound, SendSound, Untold
  <2>. QED  BY <2>2, <2>3
<1>5. ASSUME NEW k \in Code PROVE ToldOf(k)'
  <2>1. ToldOf(k)
    BY DEF ToldInv
  <2>2. CASE k = code
    <3>1. told[host] = NoConn
      BY <1>1, <1>3, <2>1, <2>2 DEF ToldOf
    <3>2. Announcing(c, host)'
      BY <1>2 DEF Announcing
    <3>. QED  BY <1>1, <1>2, <1>3, <2>2, <3>1, <3>2 DEF ToldOf
  <2>3. CASE k # code
    <3>1. rooms[k].guest \in Someone /\ rooms'[k] = rooms[k]
      BY <1>2, <2>3, SeatFacts
    <3>2. \A h : ~Announcing(c, h)
      BY <1>1, QuietThread
    <3>3. \A g \in Conn : \A h : Announcing(g, h) => Announcing(g, h)'
      BY <1>2, <3>2 DEF Announcing
    <3>. QED  BY <1>1, <2>1, <3>1, <3>3 DEF ToldOf, Someone
  <2>. QED  BY <2>2, <2>3
<1>. QED  BY <1>4, <1>5 DEF ToldInv

\* Performing the next send of thread c: only the announcement changes what a
\* host believes, and then to the guest of its room.
LEMMA ToldSend ==
    ASSUME TypeOK, SeatsAgree, ToldInv, NEW c \in Conn, SendPending(c)
    PROVE  ToldInv'
<1>. DEFINE s == Head(pending[c])
<1>1. /\ pending[c] \in Seq(Sends) /\ pending[c] # <<>>
      /\ Send(s.to, s.frame) /\ pending' = [pending EXCEPT ![c] = Tail(pending[c])]
      /\ UNCHANGED <<rooms, roomOf, thread>>
  BY DEF SendPending, TypeOK, OutType
<1>2. s \in Sends /\ s.to \in Conn /\ s.frame \in NoticeFrames
  <2>1. s \in Sends
    BY <1>1, HeadTailProperties
  <2>. HIDE DEF s
  <2>. QED  BY <2>1 DEF Sends
<1>3. /\ s = pending[c][1] /\ 1 \in DOMAIN pending[c]
      /\ \A i \in DOMAIN Tail(pending[c]) :
            i + 1 \in DOMAIN pending[c] /\ Tail(pending[c])[i] = pending[c][i + 1]
      /\ \A i \in DOMAIN pending[c] : i # 1 =>
            /\ i - 1 \in DOMAIN Tail(pending[c])
            /\ Tail(pending[c])[i - 1] = pending[c][i]
  BY <1>1, TailIs
<1>4. /\ pending'[c] = Tail(pending[c])
      /\ \A d \in Conn : d # c => pending'[d] = pending[d]
      /\ told'[s.to] = Belief(s.frame, told[s.to])
      /\ \A d \in Conn : d # s.to => told'[d] = told[d]
  <2>1. told' = [told EXCEPT ![s.to] = Belief(s.frame, told[s.to])]
    BY <1>1, <1>2, SendType DEF TypeOK
  <2>. HIDE DEF s
  <2>. QED  BY <1>1, <1>2, <2>1 DEF TypeOK, OutType
<1>5. SendSound(c, s)
  BY <1>3 DEF ToldInv, PendingSound
<1>. HIDE DEF s
<1>6. ASSUME NEW d \in Conn PROVE PendingSound(d)'
  <2>1. PendingSound(d)
    BY DEF ToldInv
  <2>2. \A x : SendSound(d, x) => SendSound(d, x)'
    BY <1>1 DEF SendSound, GuestOf
  <2>3. CASE d = c
    <3>1. ASSUME NEW i \in DOMAIN Tail(pending[c])
          PROVE  SendSound(c, Tail(pending[c])[i])
      <4>1. i + 1 \in DOMAIN pending[c] /\ Tail(pending[c])[i] = pending[c][i + 1]
        BY <1>3
      <4>. QED  BY <2>1, <2>3, <4>1 DEF PendingSound
    <3>. QED  BY <1>4, <2>2, <2>3, <3>1 DEF PendingSound
  <2>4. CASE d # c
    BY <1>4, <2>1, <2>2, <2>4 DEF PendingSound
  <2>. QED  BY <2>3, <2>4
<1>7. ASSUME NEW h, s # To(h, Notice("RoomPeerJoined", c)), Announcing(c, h)
      PROVE  Announcing(c, h)'
  <2>1. PICK i \in DOMAIN pending[c] :
          pending[c][i] = To(h, Notice("RoomPeerJoined", c))
    BY <1>7 DEF Announcing
  <2>2. i # 1
    BY <1>3, <1>7, <2>1
  <2>3. /\ i - 1 \in DOMAIN Tail(pending[c])
        /\ Tail(pending[c])[i - 1] = To(h, Notice("RoomPeerJoined", c))
    BY <1>3, <2>1, <2>2
  <2>. QED  BY <1>4, <2>3 DEF Announcing
<1>8. \A g \in Conn : \A h : g # c /\ Announcing(g, h) => Announcing(g, h)'
  BY <1>4 DEF Announcing
<1>9. \A k \in Code : /\ ToldOf(k) /\ rooms[k].guest \in Someone
                      /\ rooms[k].host \in Someone
  BY SeatFacts DEF ToldInv
<1>10. CASE s.to = c /\ s.frame.type \in {"RoomCreated", "RoomError", "RoomJoined"}
  <2>1. \A h : s # To(h, Notice("RoomPeerJoined", c))
    BY <1>10 DEF To, Notice
  <2>2. \A g \in Conn : \A h : Announcing(g, h) => Announcing(g, h)'
    BY <1>7, <1>8, <2>1
  <2>3. told'[c] = told[c] \/ GuestOf(c)
    BY <1>4, <1>5, <1>10 DEF SendSound, Belief, To, Notice
  <2>4. ASSUME NEW d \in Conn PROVE Untold(d)'
    <3>1. Untold(d)
      BY DEF ToldInv
    <3>. QED  BY <1>1, <1>4, <1>10, <2>3, <3>1 DEF Untold, GuestOf
  <2>5. ASSUME NEW k \in Code, rooms[k].host # NoConn
        PROVE  told'[rooms[k].host] = told[rooms[k].host]
    <3>1. /\ rooms[k].host \in Conn /\ roomOf[rooms[k].host] = k
          /\ rooms[k].host # rooms[k].guest
      BY <1>9, <2>5, SeatFacts DEF Someone
    <3>2. rooms[k].host = c => ~GuestOf(c)
      BY <3>1 DEF GuestOf
    <3>. QED  BY <1>4, <1>10, <2>3, <3>1, <3>2
  <2>6. ASSUME NEW k \in Code PROVE ToldOf(k)'
    BY <1>1, <1>9, <2>2, <2>5 DEF ToldOf, Someone
  <2>. QED  BY <1>6, <2>4, <2>6 DEF ToldInv
<1>11. CASE /\ s = To(s.to, Notice("RoomPeerJoined", c)) /\ s.to \in Conn \ {c}
            /\ GuestOf(c)
            /\ rooms[roomOf[c]].host = s.to \/ thread[s.to] = "ended"
  <2>1. told'[s.to] = c
    <3>1. s.frame = Notice("RoomPeerJoined", c)
      BY <1>11 DEF To
    <3>2. Belief(s.frame, told[s.to]) = c
      BY <3>1 DEF Belief, Notice
    <3>. QED  BY <1>4, <3>2
  <2>2. roomOf[c] \in Code /\ roomOf[c] # NoCode /\ rooms[roomOf[c]].guest = c
    BY <1>11, SeatFacts DEF GuestOf
  <2>3. ASSUME NEW d \in Conn PROVE Untold(d)'
    <3>1. Untold(d)
      BY DEF ToldInv
    <3>2. d = s.to => thread[d] = "ended" \/ roomOf[d] # NoCode
      BY <1>2, <1>11, <2>2, SeatFacts
    <3>. QED  BY <1>1, <1>4, <3>1, <3>2 DEF Untold
  <2>4. ASSUME NEW k \in Code PROVE ToldOf(k)'
    <3>1. CASE rooms[k].host = NoConn
      BY <1>1, <3>1 DEF ToldOf
    <3>2. CASE rooms[k].host # NoConn /\ rooms[k].host = s.to
      <4>1. roomOf[s.to] = k /\ thread[s.to] # "ended"
        BY <1>2, <1>9, <3>2, SeatFacts, NoCodeAssumption DEF Someone
      <4>2. k = roomOf[c]
        BY <1>2, <1>11, <2>2, <4>1, SeatFacts
      <4>. QED  BY <1>1, <2>1, <2>2, <3>2, <4>2 DEF ToldOf
    <3>3. CASE rooms[k].host # NoConn /\ rooms[k].host # s.to
      <4>1. told'[rooms[k].host] = told[rooms[k].host]
        BY <1>4, <1>9, <3>3 DEF Someone
      <4>2. s # To(rooms[k].host, Notice("RoomPeerJoined", c))
        BY <3>3 DEF To
      <4>3. ASSUME NEW g \in Conn, Announcing(g, rooms[k].host)
            PROVE  Announcing(g, rooms[k].host)'
        BY <1>1, <1>7, <1>8, <4>2, <4>3 DEF Announcing
      <4>. QED  BY <1>1, <1>9, <3>3, <4>1, <4>3 DEF ToldOf, Someone
    <3>. QED  BY <3>1, <3>2, <3>3
  <2>. QED  BY <1>6, <2>3, <2>4 DEF ToldInv
<1>. QED  BY <1>5, <1>10, <1>11 DEF SendSound

\* Who is told that c leaves: c's roommate, a host before the seat is free again.
LEMMA DropTold ==
    ASSUME TypeOK, SeatsAgree, NEW c \in Conn, DropConn(c)
    PROVE  /\ pending[c] = <<>> /\ UNCHANGED pending
           /\ \A d \in Conn : \/ told'[d] = told[d]
                              \/ told'[d] = NoConn /\ roomOf[d] = roomOf[c]
           /\ LET room == rooms[roomOf[c]]
              IN  roomOf[c] # NoCode /\ room.guest = c /\ room.host # NoConn
                     => told'[room.host] = NoConn
<1>. DEFINE room == rooms[roomOf[c]]
            peer == PeerOf(room, c)
<1>1. pending[c] = <<>> /\ UNCHANGED pending
  BY DEF DropConn
<1>2. CASE roomOf[c] = NoCode
  BY <1>1, <1>2 DEF DropConn
<1>3. CASE roomOf[c] # NoCode
  <2>1. /\ roomOf[c] \in Code /\ c \in {room.host, room.guest}
        /\ room.host \in Someone /\ room.guest \in Someone
        /\ room.host = c => room.guest # c
        /\ room.host \in Conn => roomOf[room.host] = roomOf[c]
        /\ room.guest \in Conn => roomOf[room.guest] = roomOf[c]
    BY <1>3, SeatFacts, SeatsAgreeIs DEF ConnSound
  <2>2. /\ peer \in {room.host, room.guest} \ {c}
        /\ room.guest = c => peer = room.host
    BY <2>1 DEF PeerOf
  <2>3. CASE peer = NoConn
    BY <1>1, <1>3, <2>2, <2>3 DEF DropConn
  <2>4. CASE peer # NoConn
    <3>1. peer \in Conn /\ roomOf[peer] = roomOf[c]
      BY <2>1, <2>2, <2>4 DEF Someone
    <3>2. Send(peer, Notice("RoomClosed", c))
      BY <1>3, <2>4 DEF DropConn
    <3>. HIDE DEF peer
    <3>3. told' = [told EXCEPT ![peer] = NoConn]
      BY <3>2 DEF Send, Belief, Notice
    <3>4. /\ told'[peer] = NoConn
          /\ \A d \in Conn : d # peer => told'[d] = told[d]
      BY <3>1, <3>3 DEF TypeOK, OutType
    <3>. QED  BY <1>1, <2>2, <3>1, <3>4
  <2>. QED  BY <2>3, <2>4
<1>. QED  BY <1>2, <1>3

\* A guest who is dropped is taken back where it was announced.
LEMMA ToldDrop ==
    ASSUME TypeOK, SeatsAgree, ToldInv, NEW c \in Conn, DropConn(c)
    PROVE  ToldInv'
<1>1. /\ thread'[c] = "ended" /\ roomOf'[c] = NoCode
      /\ \A d \in Conn : d # c => thread'[d] = thread[d] /\ roomOf'[d] = roomOf[d]
      /\ pending[c] = <<>> /\ UNCHANGED pending
  BY DropIs, DropTold DEF TypeOK, RoomType
<1>2. ASSUME NEW d \in Conn PROVE PendingSound(d)' /\ Untold(d)'
  <2>1. PendingSound(d) /\ Untold(d)
    BY DEF ToldInv
  <2>2. CASE d = c
    BY <1>1, <2>2 DEF PendingSound, Untold
  <2>3. CASE d # c
    <3>1. ASSUME GuestOf(d)
          PROVE  /\ GuestOf(d)'
                 /\ \/ rooms'[roomOf[d]].host = rooms[roomOf[d]].host
                    \/ rooms[roomOf[d]].host = c
      <4>1. roomOf[d] \in Code /\ roomOf[d] # NoCode /\ rooms[roomOf[d]].guest = d
        BY <3>1, SeatFacts DEF GuestOf
      <4>. QED  BY <1>1, <2>3, <4>1, DropIs DEF GuestOf
    <3>2. ASSUME NEW x, SendSound(d, x) PROVE SendSound(d, x)'
      BY <1>1, <2>3, <3>1, <3>2 DEF SendSound
    <3>3. told'[d] = told[d] \/ told'[d] = NoConn
      BY DropTold
    <3>. QED  BY <1>1, <2>1, <2>3, <3>2, <3>3 DEF PendingSound, Untold
  <2>. QED  BY <2>2, <2>3
<1>3. ASSUME NEW k \in Code PROVE ToldOf(k)'
  <2>1. /\ ToldOf(k) /\ rooms[k].host \in Someone
        /\ rooms[k].host \in Conn => roomOf[rooms[k].host] = k
    BY SeatFacts DEF ToldInv
  <2>2. CASE k # roomOf[c]
    <3>1. rooms'[k] = rooms[k]
      BY <2>2, DropIs
    <3>2. rooms[k].host # NoConn => told'[rooms[k].host] = told[rooms[k].host]
      BY <2>1, <2>2, DropTold DEF Someone
    <3>. QED  BY <1>1, <2>1, <3>1, <3>2 DEF ToldOf, Announcing
  <2>3. CASE k = roomOf[c]
    <3>1. k # NoCode /\ c \in {rooms[k].host, rooms[k].guest} /\ c # NoConn
      BY <2>3, NoCodeAssumption, SeatFacts, SeatsAgreeIs DEF ConnSound
    <3>2. /\ rooms'[k].host =
                IF c = rooms[k].host THEN NoConn ELSE rooms[k].host
          /\ rooms'[k].guest =
                IF c = rooms[k].guest THEN NoConn ELSE rooms[k].guest
      BY <2>3, <3>1, DropIs
    <3>3. CASE rooms[k].host = c
      BY <3>2, <3>3 DEF ToldOf
    <3>4. CASE rooms[k].host # c
      <4>1. rooms[k].guest = c
        BY <3>1, <3>4
      <4>2. rooms[k].host # NoConn => told'[rooms[k].host] = NoConn
        BY <2>3, <3>1, <4>1, DropTold
      <4>. QED  BY <3>2, <3>4, <4>1, <4>2 DEF ToldOf
    <3>. QED  BY <3>3, <3>4
  <2>. QED  BY <2>2, <2>3
<1>. QED  BY <1>2, <1>3 DEF ToldInv

\* Every step keeps what hosts were told.
LEMMA ToldNext == TypeOK /\ SeatsAgree /\ ToldInv /\ [RelayNext]_relayVars => ToldInv'
<1>. SUFFICES ASSUME TypeOK, SeatsAgree, ToldInv, [RelayNext]_relayVars
              PROVE  ToldInv'
  OBVIOUS
<1>1. ASSUME NEW c \in Conn, ServeConn(c) PROVE ToldInv'
  <2>1. CASE RefuseSecondRoom(c)
    BY <2>1, ToldRefuse
  <2>2. CASE HandleJoinError(c)
    <3>1. told' = [told EXCEPT ![c] = told[c]]
      BY <2>2, NoticeType DEF HandleJoinError, Send, Belief
    <3>2. UNCHANGED told
      BY <3>1 DEF TypeOK, OutType
    <3>. QED  BY <2>2, <3>2, ToldKept DEF HandleJoinError, Reads
  <2>3. CASE ForwardRaw(c)
    BY <2>3, ForwardIs, ToldKept
  <2>. QED  BY <1>1, <2>1, <2>2, <2>3, ToldSend, ToldCreate, ToldJoin, ToldDrop
            DEF ServeConn
<1>2. ASSUME NEW c \in Conn, AnyClient(c) PROVE ToldInv'
  <2>1. ASSUME NEW request \in RequestFrames, Connect(c, request)
        PROVE  ToldInv'
    <3>1. /\ thread[c] = "new" /\ UNCHANGED <<rooms, roomOf, pending, told>>
          /\ \A d \in Conn : thread'[d] = "ended" <=> thread[d] = "ended"
      BY <2>1 DEF Connect, TypeOK, RoomType
    <3>2. ASSUME NEW d \in Conn PROVE PendingSound(d)' /\ Untold(d)'
      <4>1. PendingSound(d) /\ Untold(d)
        BY DEF ToldInv
      <4>2. ASSUME NEW x, SendSound(d, x) PROVE SendSound(d, x)'
        BY <3>1, <4>2 DEF SendSound, GuestOf
      <4>. QED  BY <3>1, <4>1, <4>2 DEF PendingSound, Untold
    <3>3. ASSUME NEW k \in Code PROVE ToldOf(k)'
      BY <3>1 DEF ToldInv, ToldOf, Announcing
    <3>. QED  BY <3>2, <3>3 DEF ToldInv
  <2>2. ASSUME NEW out \in Outs, NEW take \in BOOLEAN, ClientTurn(c, take, out)
        PROVE  ToldInv'
    BY <2>2, ToldKept DEF ClientTurn
  <2>3. CASE Close(c) \/ Break(c)
    BY <2>3, ToldKept DEF Close, Break
  <2>. QED  BY <1>2, <2>1, <2>2, <2>3 DEF AnyClient
<1>3. CASE UNCHANGED relayVars
  BY <1>3, ToldKept DEF relayVars
<1>. QED  BY <1>1, <1>2, <1>3 DEF RelayNext

\* In the beginning nobody is told anything.
LEMMA ToldInit == RelayInit => ToldInv
<1>. SUFFICES ASSUME RelayInit PROVE ToldInv
  OBVIOUS
<1>1. \A c \in Conn : pending[c] = <<>> /\ told[c] = NoConn
  BY DEF RelayInit
<1>2. \A k \in Code : rooms[k].host = NoConn
  BY DEF RelayInit, NoRoom
<1>. QED  BY <1>1, <1>2 DEF ToldInv, PendingSound, Untold, ToldOf

\* A host has last been told of the guest in its room, or of nobody while that
\* guest is still to be announced: arrivals are sent outside the lock, yet no
\* interleaving of the threads reorders them with departures
\* (RelayServer.handle_join, drop_conn, Conn.send).
THEOREM ToldSafe == RelaySpec => []HostToldInOrder
<1>1. ToldInv => HostToldInOrder
  BY DEF ToldInv, ToldOf, HostToldInOrder, Announcing
<1>. QED  BY <1>1, TypeInit, TypeNext, SeatsInit, SeatsNext, ToldInit, ToldNext, PTL
          DEF RelaySpec

-----------------------------------------------------------------------------
(* The programs of the players.                                            *)

SessionsExist == \A p \in Player : Online(p) => Session(p) \in Conn
LobbyInv == TypeOK /\ ui \in [Player -> UIState] /\ SessionsExist

\* A program is left with memory u, in a session that exists if it is online.
Remembers(p, u) ==
    /\ u \in UIState
    /\ u.mode # "offline" => <<p, u.sess>> \in Conn
    /\ Becomes(p, u)

\* What a step of a program is to the relay.
ClientStep == \/ \E c \in Conn : AnyClient(c)
              \/ UNCHANGED relayVars

-----------------------------------------------------------------------------
(* What the programs write and read.                                       *)

\* A lobby packet, a start of the duel, and no packet at all may be written.
LEMMA WritesAllowed ==
    /\ <<>> \in Outs
    /\ \A h \in BOOLEAN, d \in Tags \cup {NoDeck}, r \in Says :
          <<LobbyPacket(h, d, r)>> \in Outs
    /\ \A t \in Tags : <<StartDuel(t)>> \in Outs
BY LobbyFramesAssumption DEF LobbyOuts, LobbyFrames

\* Decks and readiness are announced for the session they are announced in.
LEMMA AdvertType ==
    ASSUME NEW p \in Player, NEW u \in UIState, Session(p) \in Conn
    PROVE  /\ DeckOf(p, u) \in Tags \cup {NoDeck}
           /\ ReadyOf(u) \in Says
           /\ Advert(p, u) \in Outs
<1>1. u.deck \in Deck \cup {NoDeck} /\ u.ready \in BOOLEAN
  BY DEF UIState
<1>2. DeckOf(p, u) \in Tags \cup {NoDeck} /\ ReadyOf(u) \in Says
  BY <1>1 DEF DeckOf, ReadyOf, Tags, Says
<1>. QED  BY <1>2, WritesAllowed DEF Advert

\* What a program reads is a notice or a lobby frame, by its type.
LEMMA ReadType ==
    ASSUME LobbyInv, NEW p \in Player, NEW type, Receives(p, type)
    PROVE  /\ Session(p) \in Conn
           /\ type \in {"RoomJoined", "RoomPeerJoined"} =>
                 Message(p).who \in Conn \cup {NoConn}
           /\ type = "Lobby" =>
                 /\ Message(p).deck \in Tags \cup {NoDeck}
                 /\ Message(p).ready \in Says
<1>1. Session(p) \in Conn
  BY DEF Receives, LobbyInv, SessionsExist
<1>2. Message(p) \in NoticeFrames \cup LobbyFrames /\ Message(p).type = type
  <2>1. /\ toClient[Session(p)] \in Seq(NoticeFrames \cup LobbyFrames)
        /\ toClient[Session(p)] # <<>>
    BY <1>1, LobbyFramesAssumption DEF LobbyInv, TypeOK, OutType, Receives
  <2>2. Head(toClient[Session(p)]) \in NoticeFrames \cup LobbyFrames
    BY <2>1, HeadTailProperties
  <2>. QED  BY <2>2 DEF Message, Receives
<1>3. CASE Message(p) \in NoticeFrames
  BY <1>1, <1>2, <1>3 DEF NoticeFrames
<1>4. CASE Message(p) \in LobbyFrames
  BY <1>1, <1>2, <1>4 DEF LobbyFrames, LobbyPacket, StartDuel
<1>. QED  BY <1>1, <1>2, <1>3, <1>4

\* A program that writes is a client that writes, whether it reads or not.
LEMMA TurnIs ==
    ASSUME NEW c \in Conn, NEW take \in BOOLEAN, NEW out \in Outs,
           ClientTurn(c, take, out)
    PROVE  ClientStep
BY DEF ClientStep, AnyClient

-----------------------------------------------------------------------------
(* Each step of a program is a step of a client.                           *)

\* A handler takes a frame and writes a packet, as a client may.
LEMMA HandlerStep ==
    ASSUME LobbyInv, NEW p \in Player, HandleNetMessage(p)
    PROVE  ClientStep /\ \E u : Remembers(p, u)
<1>. DEFINE u0 == ui[p]
<1>0. u0 \in UIState /\ u0.sess \in Nat
  BY DEF LobbyInv, UIState
<1>1. ASSUME NEW u \in UIState, NEW out \in Outs, Handled(p, u, out),
             Session(p) \in Conn, u.sess = u0.sess
      PROVE  ClientStep /\ \E v : Remembers(p, v)
  <2>1. ClientTurn(Session(p), TRUE, out) /\ Becomes(p, u)
    BY <1>1 DEF Handled
  <2>2. Remembers(p, u)
    BY <1>1, <2>1 DEF Remembers, Session
  <2>. QED  BY <1>1, <2>1, <2>2, TurnIs
<1>2. ASSUME NEW who \in Conn \cup {NoConn}, Session(p) \in Conn,
             Kickoff(p, [u0 EXCEPT !.opponent = who])
      PROVE  ClientStep /\ \E v : Remembers(p, v)
  <2>. DEFINE u == [u0 EXCEPT !.opponent = who]
              out == IF u.handshakeSent THEN <<>>
                     ELSE <<LobbyPacket(TRUE, DeckOf(p, u), ReadyOf(u))>>
  <2>1. u \in UIState /\ u.sess = u0.sess
    BY <1>0 DEF UIState
  <2>2. Handled(p, [u EXCEPT !.handshakeSent = TRUE], out)
    BY <1>2 DEF Kickoff
  <2>. HIDE DEF u
  <2>3. out \in Outs
    BY <1>2, <2>1, AdvertType, WritesAllowed
  <2>4. /\ [u EXCEPT !.handshakeSent = TRUE] \in UIState
        /\ [u EXCEPT !.handshakeSent = TRUE].sess = u0.sess
    BY <2>1 DEF UIState
  <2>. HIDE DEF out
  <2>. QED  BY <1>1, <1>2, <2>2, <2>3, <2>4
<1>3. CASE OnRoomCreated(p)
  BY <1>0, <1>1, <1>3, ReadType, WritesAllowed DEF OnRoomCreated
<1>4. CASE OnRoomJoined(p) \/ OnRoomPeerJoined(p)
  BY <1>2, <1>4, ReadType DEF OnRoomJoined, OnRoomPeerJoined
<1>5. CASE OnRoomClosed(p)
  <2>. DEFINE u == [u0 EXCEPT !.remoteDeck = NoDeck, !.remoteReady = FALSE,
                              !.handshakeSent = FALSE, !.opponent = NoConn]
  <2>1. u \in UIState /\ u.sess = u0.sess
    BY <1>0 DEF UIState
  <2>2. Handled(p, u, <<>>)
    BY <1>5 DEF OnRoomClosed
  <2>. HIDE DEF u
  <2>. QED  BY <1>1, <1>5, <2>1, <2>2, ReadType, WritesAllowed DEF OnRoomClosed
<1>6. CASE OnRoomError(p)
  <2>1. /\ Offline(u0) \in UIState /\ Offline(u0).mode = "offline"
    BY <1>0 DEF Offline, UIState
  <2>2. Session(p) \in Conn /\ Becomes(p, Offline(u0)) /\ Close(Session(p))
    BY <1>6, ReadType DEF OnRoomError
  <2>. QED  BY <2>1, <2>2 DEF Remembers, ClientStep, AnyClient
<1>7. CASE OnLobbyPacket(p)
  <2>. DEFINE m == Message(p)
              u == Heard(u0, m)
              out == IF m.hello THEN Advert(p, u0) ELSE <<>>
  <2>1. Session(p) \in Conn /\ m.deck \in Tags \cup {NoDeck} /\ m.ready \in Says
    BY <1>7, ReadType DEF OnLobbyPacket
  <2>2. u \in UIState /\ u.sess = u0.sess
    <3>. DEFINE d == IF m.deck = NoDeck THEN u0.remoteDeck ELSE m.deck
                r == IF m.ready = "nothing" THEN u0.remoteReady ELSE m.ready = "yes"
    <3>1. d \in Tags \cup {NoDeck} /\ r \in BOOLEAN
      BY <1>0, <2>1 DEF UIState
    <3>2. u = [u0 EXCEPT !.remoteDeck = d, !.remoteReady = r]
      BY DEF Heard
    <3>. HIDE DEF d, r, u
    <3>. QED  BY <1>0, <3>1, <3>2 DEF UIState
  <2>3. out \in Outs
    BY <1>0, <2>1, AdvertType, WritesAllowed
  <2>4. Handled(p, u, out)
    BY <1>7 DEF OnLobbyPacket
  <2>. HIDE DEF u, out
  <2>. QED  BY <1>1, <2>1, <2>2, <2>3, <2>4
<1>8. CASE OnStartDuel(p)
  <2>. DEFINE u == [u0 EXCEPT !.inDuel = TRUE, !.screen = "duel"]
  <2>1. u \in UIState /\ u.sess = u0.sess
    BY <1>0 DEF UIState
  <2>2. Handled(p, u, <<>>)
    BY <1>8 DEF OnStartDuel
  <2>. HIDE DEF u
  <2>. QED  BY <1>1, <1>8, <2>1, <2>2, ReadType, WritesAllowed DEF OnStartDuel
<1>. QED  BY <1>3, <1>4, <1>5, <1>6, <1>7, <1>8 DEF HandleNetMessage

\* Opening a session connects to the relay, with one request.
LEMMA OpenStep ==
    ASSUME LobbyInv, NEW p \in Player, MayOpen(p),
           NEW mode \in {"host", "client"}, NEW request \in RequestFrames,
           Becomes(p, Opened(ui[p], mode)), Connect(<<p, ui[p].sess + 1>>, request)
    PROVE  ClientStep /\ \E u : Remembers(p, u)
<1>. DEFINE u0 == ui[p]
            u == Opened(u0, mode)
<1>0. u0 \in UIState /\ u0.sess \in Nat /\ <<p, u0.sess + 1>> \in Conn
  BY DEF LobbyInv, UIState, MayOpen
<1>1. u \in UIState /\ u.sess = u0.sess + 1
  <2>. DEFINE v == [u0 EXCEPT !.sess = u0.sess + 1, !.mode = mode,
                              !.handshakeSent = FALSE, !.opponent = NoConn]
              clean == u0.remoteDeck = NoDeck /\ ~u0.remoteReady
  <2>1. u0.sess + 1 \in Nat /\ clean \in BOOLEAN
    BY <1>0
  <2>2. v \in UIState /\ v.sess = u0.sess + 1
    BY <1>0, <2>1 DEF UIState
  <2>3. u = [v EXCEPT !.clean = clean]
    BY DEF Opened
  <2>. HIDE DEF u, v, clean
  <2>. QED  BY <2>1, <2>2, <2>3 DEF UIState
<1>2. Remembers(p, u)
  BY <1>0, <1>1 DEF Remembers
<1>3. ClientStep
  BY <1>0 DEF ClientStep, AnyClient
<1>. QED  BY <1>2, <1>3

\* Closing a session closes its connection.
LEMMA CloseStep ==
    ASSUME LobbyInv, NEW p \in Player, NEW u \in UIState,
           u.mode = "offline", Online(p), Becomes(p, u), Close(Session(p))
    PROVE  ClientStep /\ \E v : Remembers(p, v)
<1>1. Session(p) \in Conn
  BY DEF LobbyInv, SessionsExist
<1>. QED  BY <1>1 DEF Remembers, ClientStep, AnyClient

\* The buttons that open and leave a session.
LEMMA ButtonStep ==
    ASSUME LobbyInv, NEW p \in Player, PlayerStep(p)
    PROVE  ClientStep /\ \E u : Remembers(p, u)
<1>0. ui[p] \in UIState
  BY DEF LobbyInv
<1>1. /\ Offline(ui[p]) \in UIState /\ Offline(ui[p]).mode = "offline"
  BY <1>0 DEF Offline, UIState
<1>2. CASE StartRelayCreate(p)
  <2>1. [type |-> "CreateRoom"] \in RequestFrames
    BY DEF RequestFrames
  <2>. QED  BY <1>2, <2>1, OpenStep DEF StartRelayCreate
<1>3. CASE LeaveRoom(p)
  <2>. DEFINE u == [Offline(ui[p]) EXCEPT
                      !.ready = FALSE, !.remoteDeck = NoDeck,
                      !.remoteReady = FALSE, !.handshakeSent = FALSE]
  <2>1. u \in UIState /\ u.mode = "offline"
    BY <1>1 DEF UIState
  <2>2. Online(p) /\ Becomes(p, u) /\ Close(Session(p))
    BY <1>3 DEF LeaveRoom
  <2>. HIDE DEF u
  <2>. QED  BY <2>1, <2>2, CloseStep
<1>4. CASE BackOut(p)
  BY <1>1, <1>4, CloseStep DEF BackOut
<1>5. CASE LeaveDuel(p)
  <2>. DEFINE u == [Offline(ui[p]) EXCEPT !.inDuel = FALSE, !.screen = "room"]
  <2>1. u \in UIState /\ u.mode = "offline"
    BY <1>1 DEF UIState
  <2>2. Online(p) /\ Becomes(p, u) /\ Close(Session(p))
    BY <1>5 DEF LeaveDuel
  <2>. HIDE DEF u
  <2>. QED  BY <2>1, <2>2, CloseStep
<1>6. CASE LeaveLostDuel(p)
  <2>. DEFINE u == [ui[p] EXCEPT !.inDuel = FALSE, !.screen = "room"]
  <2>1. u \in UIState /\ u.sess = ui[p].sess
    BY <1>0 DEF UIState
  <2>2. Online(p) /\ Becomes(p, u) /\ UNCHANGED relayVars
    BY <1>6 DEF LeaveLostDuel
  <2>3. <<p, u.sess>> \in Conn
    BY <2>1, <2>2 DEF LobbyInv, SessionsExist, Session
  <2>. HIDE DEF u
  <2>. QED  BY <2>1, <2>2, <2>3 DEF Remembers, ClientStep
<1>. QED  BY <1>2, <1>3, <1>4, <1>5, <1>6 DEF PlayerStep

\* The clicks of a player who is in a session, and of a guest who joins.
LEMMA ClickStep ==
    ASSUME LobbyInv, NEW p \in Player, PlayerClick(p)
    PROVE  ClientStep /\ \E u : Remembers(p, u)
<1>. DEFINE u0 == ui[p]
<1>0. /\ u0 \in UIState /\ (Online(p) => Session(p) \in Conn)
      /\ u0.remoteDeck \in Tags \cup {NoDeck} /\ u0.ready \in BOOLEAN
  BY DEF LobbyInv, UIState, SessionsExist
<1>1. ASSUME NEW u \in UIState, NEW out \in Outs, Online(p),
             u.sess = u0.sess, Announces(p, u, out)
      PROVE  ClientStep /\ \E v : Remembers(p, v)
  <2>1. ClientTurn(Session(p), FALSE, out) /\ Becomes(p, u)
    BY <1>1 DEF Announces
  <2>2. Remembers(p, u)
    BY <1>0, <1>1, <2>1 DEF Remembers, Session
  <2>. QED  BY <1>0, <1>1, <2>1, <2>2, TurnIs
<1>2. CASE StartRelayJoin(p)
  <2>1. PICK code \in Code :
          Connect(<<p, u0.sess + 1>>, [type |-> "JoinRoom", code |-> code])
    BY <1>2 DEF StartRelayJoin
  <2>2. [type |-> "JoinRoom", code |-> code] \in RequestFrames
    BY DEF RequestFrames
  <2>. QED  BY <1>2, <2>1, <2>2, OpenStep DEF StartRelayJoin
<1>3. CASE PickDeck(p)
  <2>1. PICK d \in Deck :
          Announces(p, [u0 EXCEPT !.deck = d],
                    <<LobbyPacket(FALSE, <<Session(p), d>>, "nothing")>>)
    BY <1>3 DEF PickDeck, Clicks
  <2>. DEFINE u == [u0 EXCEPT !.deck = d]
              out == <<LobbyPacket(FALSE, <<Session(p), d>>, "nothing")>>
  <2>2. Online(p) /\ <<Session(p), d>> \in Tags
    BY <1>0, <1>3 DEF PickDeck, InRoom, Tags
  <2>3. u \in UIState /\ u.sess = u0.sess
    BY <1>0 DEF UIState
  <2>4. out \in Outs
    BY <2>2, WritesAllowed DEF Says
  <2>. HIDE DEF u, out
  <2>5. Announces(p, u, out)
    BY <2>1 DEF u, out
  <2>. QED  BY <1>1, <2>2, <2>3, <2>4, <2>5
<1>4. CASE ToggleReady(p)
  <2>. DEFINE u == [u0 EXCEPT !.ready = ~u0.ready]
              out == <<LobbyPacket(FALSE, NoDeck,
                                   IF u0.ready THEN "no" ELSE "yes")>>
  <2>1. Online(p) /\ Announces(p, u, out)
    BY <1>4 DEF ToggleReady, InRoom, Clicks
  <2>2. u \in UIState /\ u.sess = u0.sess
    BY <1>0 DEF UIState
  <2>3. out \in Outs
    <3>1. (IF u0.ready THEN "no" ELSE "yes") \in Says
      BY DEF Says
    <3>. QED  BY <3>1, WritesAllowed
  <2>. HIDE DEF u, out
  <2>. QED  BY <1>1, <2>1, <2>2, <2>3
<1>5. CASE SendStartDuel(p)
  <2>. DEFINE u == [u0 EXCEPT !.inDuel = TRUE, !.screen = "duel"]
              out == <<StartDuel(u0.remoteDeck)>>
  <2>1. Online(p) /\ u0.remoteDeck \in Tags
    BY <1>0, <1>5 DEF SendStartDuel, InRoom, CanStart
  <2>2. Announces(p, u, out) \/ Announces(p, u0, out)
    BY <1>5 DEF SendStartDuel, Clicks
  <2>3. u \in UIState /\ u.sess = u0.sess
    BY <1>0 DEF UIState
  <2>4. out \in Outs
    BY <2>1, WritesAllowed
  <2>. HIDE DEF u, out
  <2>. QED  BY <1>0, <1>1, <2>1, <2>2, <2>3, <2>4
<1>. QED  BY <1>2, <1>3, <1>4, <1>5 DEF PlayerClick

-----------------------------------------------------------------------------
(* The lobby runs on the relay.                                            *)

\* What a program is left with keeps the invariant of the programs.
LEMMA RememberedType ==
    ASSUME LobbyInv, NEW p \in Player, NEW u, Remembers(p, u)
    PROVE  ui' \in [Player -> UIState] /\ SessionsExist'
<1>1. u \in UIState /\ ui' = [ui EXCEPT ![p] = u]
  BY DEF Remembers, Becomes
<1>2. /\ ui' \in [Player -> UIState] /\ ui'[p] = u
      /\ \A q \in Player : q # p => ui'[q] = ui[q]
  BY <1>1 DEF LobbyInv
<1>. QED  BY <1>2 DEF LobbyInv, SessionsExist, Session, Online, Remembers

\* A step of the lobby is a step of the relay or none, and keeps the types.
LEMMA LobbyStep ==
    ASSUME LobbyInv, [LobbyNext]_lobbyVars
    PROVE  [RelayNext]_relayVars /\ LobbyInv'
<1>1. [RelayNext]_relayVars /\ ui' \in [Player -> UIState] /\ SessionsExist'
  <2>1. ClientStep => [RelayNext]_relayVars
    BY DEF ClientStep, RelayNext
  <2>2. UNCHANGED ui => ui' \in [Player -> UIState] /\ SessionsExist'
    BY DEF LobbyInv, SessionsExist, Session, Online
  <2>3. ASSUME NEW c \in Conn, ServerStep(c) \/ (ConnectionBreaks(c) /\ UNCHANGED ui)
        PROVE  RelayNext /\ UNCHANGED ui
    BY <2>3 DEF ServerStep, ConnectionBreaks, RelayNext, AnyClient
  <2>4. ASSUME NEW p \in Player, ProgramStep(p) \/ PlayerStep(p) \/ PlayerClick(p)
        PROVE  ClientStep /\ \E u : Remembers(p, u)
    BY <2>4, HandlerStep, ButtonStep, ClickStep DEF ProgramStep
  <2>5. UNCHANGED lobbyVars => UNCHANGED relayVars /\ UNCHANGED ui
    BY DEF lobbyVars
  <2>6. ASSUME RelayNext, UNCHANGED ui
        PROVE  [RelayNext]_relayVars /\ ui' \in [Player -> UIState] /\ SessionsExist'
    BY <2>2, <2>6
  <2>7. ASSUME NEW p \in Player, ProgramStep(p) \/ PlayerStep(p) \/ PlayerClick(p)
        PROVE  [RelayNext]_relayVars /\ ui' \in [Player -> UIState] /\ SessionsExist'
    <3>1. PICK u : Remembers(p, u)
      BY <2>4, <2>7
    <3>2. [RelayNext]_relayVars
      BY <2>1, <2>4, <2>7
    <3>. QED  BY <3>1, <3>2, RememberedType
  <2>8. CASE \E c \in Conn : ServerStep(c)
    BY <2>3, <2>6, <2>8
  <2>9. CASE \E c \in Conn : ConnectionBreaks(c) /\ UNCHANGED ui
    BY <2>3, <2>6, <2>9
  <2>10. CASE \E p \in Player : ProgramStep(p)
    BY <2>7, <2>10
  <2>11. CASE \E p \in Player : PlayerStep(p) /\ UNCHANGED events
    BY <2>7, <2>11
  <2>12. CASE \E p \in Player : PlayerClick(p)
    BY <2>7, <2>12
  <2>. QED  BY <2>2, <2>5, <2>8, <2>9, <2>10, <2>11, <2>12 DEF LobbyNext
<1>2. TypeOK'
  BY <1>1, TypeNext DEF LobbyInv
<1>. QED  BY <1>1, <1>2 DEF LobbyInv

\* Programs that start are offline.
LEMMA LobbyStart == LobbyInit => RelayInit /\ LobbyInv
<1>. SUFFICES ASSUME LobbyInit PROVE RelayInit /\ LobbyInv
  OBVIOUS
<1>1. RelayInit /\ TypeOK
  BY TypeInit DEF LobbyInit
<1>2. ui \in [Player -> UIState] /\ \A p \in Player : ui[p].mode = "offline"
  BY DEF LobbyInit, UIState
<1>. QED  BY <1>1, <1>2 DEF LobbyInv, SessionsExist, Online

\* Players who follow the lobby's handlers are clients of the relay: every run of
\* the lobby is one of the relay (UI::handleNetMessage over RelayServer).
THEOREM LobbyImplementsRelay == LobbySpec => RelaySpec
BY LobbyStart, LobbyStep, PTL DEF LobbySpec, RelaySpec

\* So the relay's rooms are sound under the lobby.
THEOREM LobbySeatsSafe == LobbySpec => []SeatsAgree
BY LobbyImplementsRelay, SeatsSafe, PTL

\* And a host in the lobby hears of its guests in order.
THEOREM LobbyToldSafe == LobbySpec => []HostToldInOrder
BY LobbyImplementsRelay, ToldSafe, PTL


-----------------------------------------------------------------------------
(* What a host remembers of its opponent.  A host reads its channel in     *)
(* order, so what matters of a frame is whom the notices before it name:   *)
(* by HostToldInOrder the server sends a guest's frames when the host has  *)
(* last been told of that guest, and a new guest is announced when it has  *)
(* been told that the one before is gone.                                  *)

\* Notices of who is in the room.
Room(f) == f.type \in {"RoomJoined", "RoomPeerJoined", "RoomClosed"}

\* A reader of q who starts believing in w believes in x when it reads q[i].
Before(q, w, i, x) ==
    \/ x = w /\ \A j \in DOMAIN q : j < i => ~Room(q[j])
    \/ \E j \in DOMAIN q :
         /\ j < i /\ Room(q[j]) /\ x = Belief(q[j], w)
         /\ \A k \in DOMAIN q : j < k /\ k < i => ~Room(q[k])

\* f may be read by a host that believes in x: a lobby packet is x's, and nobody is
\* announced over somebody else.
Speaks(f, x) ==
    /\ f.type = "Lobby" => x \in Conn /\ (f.deck # NoDeck => f.deck[1] = x)
    /\ f.type \in {"RoomJoined", "RoomPeerJoined"} =>
          f.who \in Conn /\ x \in {f.who, NoConn}
Follows(q, w) == \A i \in DOMAIN q : \E x : Before(q, w, i, x) /\ Speaks(q[i], x)
\* q leaves its reader believing in x.
Leaves(q, w, x) == Before(q, w, Len(q) + 1, x)

\* A notice overrides what its reader believed, any other frame leaves it.
LEMMA RoomBelief ==
    ASSUME NEW f, NEW a, NEW b
    PROVE  /\ Room(f) => Belief(f, a) = Belief(f, b)
           /\ ~Room(f) => Belief(f, a) = a
BY DEF Room, Belief

\* When the first frame has been read, the others follow from what it said.
LEMMA BeforeTail ==
    ASSUME NEW S, NEW q \in Seq(S), q # <<>>, NEW w, NEW i \in Nat, i > 1, NEW x,
           Before(q, w, i, x)
    PROVE  Before(Tail(q), Belief(q[1], w), i - 1, x)
<1>. DEFINE t == Tail(q)
            v == Belief(q[1], w)
<1>1. /\ 1 \in DOMAIN q
      /\ \A j \in DOMAIN t : j \in Nat \ {0} /\ j + 1 \in DOMAIN q
                             /\ t[j] = q[j + 1]
      /\ \A j \in DOMAIN q : /\ j \in Nat \ {0}
                             /\ j # 1 => j - 1 \in DOMAIN t /\ t[j - 1] = q[j]
  BY TailIs, HeadTailProperties, LenProperties
<1>. HIDE DEF t
<1>2. CASE x = w /\ \A j \in DOMAIN q : j < i => ~Room(q[j])
  <2>1. v = w
    BY <1>1, <1>2, RoomBelief
  <2>. QED  BY <1>1, <1>2, <2>1 DEF Before, t
<1>3. ASSUME NEW j \in DOMAIN q, j < i, Room(q[j]), x = Belief(q[j], w),
             \A k \in DOMAIN q : j < k /\ k < i => ~Room(q[k])
      PROVE  Before(t, v, i - 1, x)
  <2>1. CASE j = 1
    <3>1. ASSUME NEW k \in DOMAIN t, k < i - 1 PROVE ~Room(t[k])
      <4>1. k \in Nat \ {0} /\ k + 1 \in DOMAIN q /\ t[k] = q[k + 1]
        BY <1>1
      <4>2. j < k + 1 /\ k + 1 < i
        BY <1>1, <2>1, <3>1, <4>1
      <4>. QED  BY <1>3, <4>1, <4>2
    <3>2. x = v
      BY <1>3, <2>1
    <3>. HIDE DEF v
    <3>. QED  BY <3>1, <3>2 DEF Before
  <2>2. CASE j # 1
    <3>1. j - 1 \in DOMAIN t /\ t[j - 1] = q[j] /\ j - 1 < i - 1
      BY <1>1, <1>3, <2>2
    <3>2. ASSUME NEW k \in DOMAIN t, j - 1 < k, k < i - 1 PROVE ~Room(t[k])
      <4>1. k \in Nat \ {0} /\ k + 1 \in DOMAIN q /\ t[k] = q[k + 1] /\ j \in Nat
        BY <1>1
      <4>2. j < k + 1 /\ k + 1 < i
        BY ONLY i \in Nat, <3>2, <4>1
      <4>. QED  BY <1>3, <4>1, <4>2
    <3>3. x = Belief(t[j - 1], v)
      BY <1>3, <3>1, RoomBelief
    <3>. QED  BY <1>3, <3>1, <3>2, <3>3 DEF Before
  <2>. QED  BY <2>1, <2>2
<1>. QED  BY <1>2, <1>3 DEF Before, t

\* The same of the whole channel.
LEMMA FollowTail ==
    ASSUME NEW S, NEW q \in Seq(S), q # <<>>, NEW w, Follows(q, w)
    PROVE  /\ Speaks(Head(q), w)
           /\ Follows(Tail(q), Belief(Head(q), w))
           /\ \A x : Leaves(q, w, x) => Leaves(Tail(q), Belief(Head(q), w), x)
<1>1. /\ 1 \in DOMAIN q /\ Head(q) = q[1]
      /\ \A j \in DOMAIN Tail(q) : j \in Nat \ {0} /\ j + 1 \in DOMAIN q
                                   /\ Tail(q)[j] = q[j + 1]
      /\ Len(q) \in Nat \ {0} /\ Len(Tail(q)) = Len(q) - 1
  BY TailIs, EmptySeq, HeadTailProperties, LenProperties
<1>2. Speaks(Head(q), w)
  <2>1. PICK x : Before(q, w, 1, x) /\ Speaks(q[1], x)
    BY <1>1 DEF Follows
  <2>2. \A j \in DOMAIN q : ~(j < 1)
    BY LenProperties
  <2>. QED  BY <1>1, <2>1, <2>2 DEF Before
<1>3. ASSUME NEW j \in DOMAIN Tail(q)
      PROVE  \E x : Before(Tail(q), Belief(Head(q), w), j, x) /\ Speaks(Tail(q)[j], x)
  <2>1. PICK x : Before(q, w, j + 1, x) /\ Speaks(q[j + 1], x)
    BY <1>1 DEF Follows
  <2>2. j + 1 \in Nat /\ j + 1 > 1 /\ (j + 1) - 1 = j
    BY <1>1
  <2>3. Before(Tail(q), Belief(q[1], w), (j + 1) - 1, x)
    BY <2>1, <2>2, BeforeTail
  <2>. QED  BY <1>1, <2>1, <2>2, <2>3
<1>4. ASSUME NEW x, Leaves(q, w, x)
      PROVE  Leaves(Tail(q), Belief(Head(q), w), x)
  <2>1. Len(q) + 1 \in Nat /\ Len(q) + 1 > 1 /\ (Len(q) + 1) - 1 = Len(Tail(q)) + 1
    BY <1>1
  <2>2. Before(Tail(q), Belief(q[1], w), (Len(q) + 1) - 1, x)
    BY <1>4, <2>1, BeforeTail DEF Leaves
  <2>. QED  BY <1>1, <2>1, <2>2 DEF Leaves
<1>. QED  BY <1>2, <1>3, <1>4 DEF Follows

\* A frame sent when the reader will believe in x.
LEMMA FollowAppend ==
    ASSUME NEW S, NEW q \in Seq(S), NEW f \in S, NEW w, NEW x,
           Follows(q, w), Leaves(q, w, x), Speaks(f, x)
    PROVE  Follows(Append(q, f), w) /\ Leaves(Append(q, f), w, Belief(f, x))
<1>. DEFINE n == Len(q)
            r == Append(q, f)
<1>1. /\ n \in Nat /\ DOMAIN q = 1..n /\ DOMAIN r = 1..(n + 1) /\ Len(r) = n + 1
      /\ r[n + 1] = f /\ \A i \in 1..n : r[i] = q[i]
  BY AppendProperties, LenProperties
<1>. HIDE DEF n, r
<1>2. ASSUME NEW i \in 1..(n + 1), NEW y, Before(q, w, i, y)
      PROVE  Before(r, w, i, y)
  <2>1. CASE y = w /\ \A j \in DOMAIN q : j < i => ~Room(q[j])
    <3>1. \A j \in DOMAIN r : j < i => ~Room(r[j])
      BY <1>1, <2>1
    <3>. QED  BY <2>1, <3>1 DEF Before
  <2>2. ASSUME NEW j \in DOMAIN q, j < i, Room(q[j]), y = Belief(q[j], w),
               \A k \in DOMAIN q : j < k /\ k < i => ~Room(q[k])
        PROVE  Before(r, w, i, y)
    <3>1. \A k \in DOMAIN r : j < k /\ k < i => ~Room(r[k])
      BY <1>1, <2>2
    <3>2. j \in DOMAIN r /\ r[j] = q[j]
      BY <1>1
    <3>. QED  BY <2>2, <3>1, <3>2 DEF Before
  <2>. QED  BY <1>2, <2>1, <2>2 DEF Before
<1>3. Before(q, w, n + 1, x)
  BY DEF Leaves, n
<1>4. ASSUME NEW i \in DOMAIN r
      PROVE  \E y : Before(r, w, i, y) /\ Speaks(r[i], y)
  <2>1. CASE i = n + 1
    BY <1>1, <1>2, <1>3, <2>1
  <2>2. CASE i # n + 1
    <3>1. i \in 1..n /\ i \in 1..(n + 1)
      BY <1>1, <2>2
    <3>2. PICK y : Before(q, w, i, y) /\ Speaks(q[i], y)
      BY <1>1, <3>1 DEF Follows
    <3>. QED  BY <1>1, <1>2, <3>1, <3>2
  <2>. QED  BY <2>1, <2>2
<1>5. Before(r, w, n + 2, Belief(f, x))
  <2>1. CASE Room(f)
    <3>1. Belief(f, x) = Belief(r[n + 1], w)
      BY <1>1, <2>1, RoomBelief
    <3>2. \A k \in DOMAIN r : ~(n + 1 < k /\ k < n + 2)
      BY <1>1
    <3>3. n + 1 \in DOMAIN r /\ n + 1 < n + 2 /\ Room(r[n + 1])
      BY <1>1, <2>1
    <3>. QED  BY <3>1, <3>2, <3>3 DEF Before
  <2>2. CASE ~Room(f)
    <3>1. Belief(f, x) = x /\ Before(r, w, n + 1, x)
      BY <1>1, <1>2, <1>3, <2>2, RoomBelief
    <3>2. \A j \in DOMAIN r : j < n + 2 => j < n + 1 \/ j = n + 1
      BY <1>1
    <3>3. ~Room(r[n + 1])
      BY <1>1, <2>2
    <3>4. CASE x = w /\ \A j \in DOMAIN r : j < n + 1 => ~Room(r[j])
      BY <3>1, <3>2, <3>3, <3>4 DEF Before
    <3>5. ASSUME NEW j \in DOMAIN r, j < n + 1, Room(r[j]), x = Belief(r[j], w),
                 \A k \in DOMAIN r : j < k /\ k < n + 1 => ~Room(r[k])
          PROVE  Before(r, w, n + 2, x)
      <4>1. \A k \in DOMAIN r : j < k /\ k < n + 2 => ~Room(r[k])
        BY <3>2, <3>3, <3>5
      <4>2. j < n + 2
        BY <1>1, <3>5
      <4>. QED  BY <3>5, <4>1, <4>2 DEF Before
    <3>. QED  BY <3>1, <3>4, <3>5 DEF Before
  <2>. QED  BY <2>1, <2>2
<1>. QED  BY <1>1, <1>4, <1>5 DEF Follows, Leaves, r

\* A channel that loses its end.
LEMMA FollowPrefix ==
    ASSUME NEW S, NEW q \in Seq(S), NEW n \in 0..Len(q), NEW w, Follows(q, w)
    PROVE  Follows(SubSeq(q, 1, n), w)
<1>. DEFINE r == SubSeq(q, 1, n)
<1>1. /\ n \in Nat /\ DOMAIN q = 1..Len(q) /\ DOMAIN r = 1..n /\ n <= Len(q)
      /\ Len(q) \in Nat /\ \A i \in 1..n : r[i] = q[i]
  BY SubSeqProperties, LenProperties
<1>. HIDE DEF r
<1>2. ASSUME NEW i \in 1..n
      PROVE  \E x : Before(r, w, i, x) /\ Speaks(r[i], x)
  <2>1. i \in DOMAIN q
    BY <1>1
  <2>2. PICK x : Before(q, w, i, x) /\ Speaks(q[i], x)
    BY <2>1 DEF Follows
  <2>3. Before(r, w, i, x)
    <3>1. CASE x = w /\ \A j \in DOMAIN q : j < i => ~Room(q[j])
      <4>1. \A j \in DOMAIN r : j < i => ~Room(r[j])
        BY <1>1, <3>1
      <4>. QED  BY <3>1, <4>1 DEF Before
    <3>2. ASSUME NEW j \in DOMAIN q, j < i, Room(q[j]), x = Belief(q[j], w),
                 \A k \in DOMAIN q : j < k /\ k < i => ~Room(q[k])
          PROVE  Before(r, w, i, x)
      <4>1. \A k \in DOMAIN r : j < k /\ k < i => ~Room(r[k])
        BY <1>1, <3>2
      <4>2. j \in DOMAIN r /\ r[j] = q[j]
        BY <1>1, <3>2
      <4>. QED  BY <3>2, <4>1, <4>2 DEF Before
    <3>. QED  BY <2>2, <3>1, <3>2 DEF Before
  <2>. QED  BY <1>1, <2>2, <2>3
<1>. QED  BY <1>1, <1>2 DEF Follows, r

-----------------------------------------------------------------------------
(* The hosts and the connections.                                          *)

\* The session of a host: it is no guest, its channel speaks of its opponent, and
\* while it is connected the channel ends with what the server told it last.
HostTalk(p) ==
    ui[p].mode = "host" =>
      LET c == Session(p)
          w == ui[p].opponent
      IN  /\ thread[c] # "new" /\ ~GuestOf(c)
          /\ \A i \in DOMAIN toServer[c] : toServer[c][i].type # "JoinRoom"
          /\ Follows(toClient[c], w)
          /\ up[c] => Leaves(toClient[c], w, told[c])

\* Frame f was written in session c.
Own(f, c) == f.type = "Lobby" /\ f.deck # NoDeck => f.deck[1] = c

\* A connection carries the decks of its own session to the server, and is only
\* up while it is served.
ConnTalk(c) ==
    /\ \A i \in DOMAIN toServer[c] : Own(toServer[c][i], c)
    /\ thread[c] # "serving" => ~up[c]
    /\ thread[c] = "new" => toClient[c] = <<>>

\* What a host remembers is the present opponent's.
Latched(u) ==
    u.mode = "host" /\ u.clean =>
        /\ u.remoteDeck # NoDeck =>
             u.opponent # NoConn /\ u.remoteDeck[1] = u.opponent
        /\ u.remoteReady => u.opponent # NoConn

TalkInv ==
    /\ \A c \in Conn : ConnTalk(c)
    /\ \A p \in Player : HostTalk(p) /\ Latched(ui[p])

Grounds == LobbyInv /\ SeatsAgree /\ ToldInv /\ TalkInv

\* The channels, and the types around them.
LEMMA Channels ==
    ASSUME Grounds, NEW c \in Conn
    PROVE  /\ toClient \in [Conn -> Seq(NoticeFrames \cup Frames)]
           /\ toServer \in [Conn -> Seq(RequestFrames \cup Frames)]
           /\ toClient[c] \in Seq(NoticeFrames \cup Frames)
           /\ toServer[c] \in Seq(RequestFrames \cup Frames)
           /\ up \in [Conn -> BOOLEAN] /\ thread \in [Conn -> {"new", "serving", "ended"}]
           /\ told \in [Conn -> Someone] /\ pending[c] \in Seq(Sends)
           /\ roomOf \in [Conn -> Code \cup {NoCode}]
           /\ TypeOK
BY DEF Grounds, LobbyInv, TypeOK, RoomType, InType, OutType

\* A host's session is a connection.
LEMMA HostIs ==
    ASSUME Grounds, NEW p \in Player, ui[p].mode = "host"
    PROVE  Session(p) \in Conn /\ HostTalk(p) /\ ConnTalk(Session(p))
BY DEF Grounds, LobbyInv, SessionsExist, Online, TalkInv

\* Frame f may be sent to connection to, as far as host p is concerned.
Fit(to, f, p) ==
    ui[p].mode = "host" /\ to = Session(p) /\ up[to] => Speaks(f, told[to])

\* A send of the server keeps what a host's channel says.
LEMMA HostSend ==
    ASSUME Grounds, NEW to \in Conn, NEW f \in NoticeFrames \cup Frames, Send(to, f),
           NEW p \in Player, Fit(to, f, p), ui[p].mode = "host",
           NEW c, c = Session(p), NEW w, w = ui[p].opponent
    PROVE  /\ Follows(toClient'[c], w)
           /\ up[c] => Leaves(toClient'[c], w, told'[c])
<1>1. /\ c \in Conn /\ Follows(toClient[c], w)
      /\ up[c] => Leaves(toClient[c], w, told[c])
  BY HostIs DEF HostTalk
<1>2. /\ toClient[c] \in Seq(NoticeFrames \cup Frames)
      /\ toClient \in [Conn -> Seq(NoticeFrames \cup Frames)]
      /\ told \in [Conn -> Someone]
  BY <1>1, Channels
<1>3. CASE to # c \/ ~up[c]
  <2>1. toClient'[c] = toClient[c]
    BY <1>1, <1>2, <1>3 DEF Send
  <2>2. up[c] => told'[c] = told[c]
    BY <1>1, <1>2, <1>3 DEF Send
  <2>. QED  BY <1>1, <2>1, <2>2
<1>4. CASE to = c /\ up[c]
  <2>1. /\ toClient'[c] = Append(toClient[c], f)
        /\ told'[c] = Belief(f, told[c])
    BY <1>1, <1>2, <1>4 DEF Send
  <2>2. Speaks(f, told[c])
    BY <1>4 DEF Fit
  <2>. QED  BY <1>1, <1>2, <1>4, <2>1, <2>2, FollowAppend
<1>. QED  BY <1>3, <1>4

\* What a step of the server does to the connections.
LEMMA ServedTalk ==
    ASSUME Grounds, NEW c \in Conn, UNCHANGED <<ui, up>>,
           \/ UNCHANGED thread
           \/ /\ thread' = [thread EXCEPT ![c] = "ended"]
              /\ thread[c] = "serving" /\ ~up[c],
           \/ UNCHANGED toServer
           \/ toServer' = [toServer EXCEPT ![c] = Tail(@)] /\ toServer[c] # <<>>,
           \/ UNCHANGED <<toClient, told>>
           \/ \E to \in Conn, f \in NoticeFrames \cup Frames :
                Send(to, f) /\ \A p \in Player : Fit(to, f, p),
           \A p \in Player : ui[p].mode = "host" => ~GuestOf(Session(p))'
    PROVE  TalkInv'
<1>1. ASSUME NEW d \in Conn
      PROVE  \A i \in DOMAIN toServer'[d] :
               \E j \in DOMAIN toServer[d] : toServer'[d][i] = toServer[d][j]
  <2>1. toServer'[d] = toServer[d] \/ (toServer'[d] = Tail(toServer[d]) /\ toServer[d] # <<>>)
    BY Channels
  <2>2. toServer[d] \in Seq(RequestFrames \cup Frames)
    BY Channels
  <2>3. CASE toServer'[d] = toServer[d]
    BY <2>3
  <2>4. CASE toServer'[d] = Tail(toServer[d]) /\ toServer[d] # <<>>
    BY <2>2, <2>4, TailIs
  <2>. QED  BY <2>1, <2>3, <2>4
<1>2. ASSUME NEW d \in Conn
      PROVE  /\ thread'[d] # "serving" => ~up'[d]
             /\ thread'[d] = "new" <=> thread[d] = "new"
  <2>1. ConnTalk(d)
    BY DEF Grounds, TalkInv
  <2>2. CASE UNCHANGED thread
    BY <2>1, <2>2 DEF ConnTalk
  <2>3. CASE thread' = [thread EXCEPT ![c] = "ended"] /\ thread[c] = "serving" /\ ~up[c]
    <3>1. thread \in [Conn -> {"new", "serving", "ended"}]
      BY Channels
    <3>2. CASE d # c
      BY <2>1, <2>3, <3>1, <3>2 DEF ConnTalk
    <3>3. CASE d = c
      <4>1. thread'[d] = "ended"
        BY <2>3, <3>1, <3>3
      <4>. QED  BY <2>1, <2>3, <3>3, <4>1 DEF ConnTalk
    <3>. QED  BY <3>2, <3>3
  <2>. QED  BY <2>2, <2>3
<1>3. ASSUME NEW d \in Conn PROVE ConnTalk(d)'
  <2>1. ConnTalk(d)
    BY DEF Grounds, TalkInv
  <2>2. \A i \in DOMAIN toServer'[d] : Own(toServer'[d][i], d)
    BY <1>1, <2>1 DEF ConnTalk
  <2>3. thread[d] = "new" => toClient'[d] = toClient[d]
    <3>1. ASSUME NEW to \in Conn, NEW f, Send(to, f), thread[d] = "new"
          PROVE  toClient'[d] = toClient[d]
      <4>1. ~up[d] /\ toClient \in [Conn -> Seq(NoticeFrames \cup Frames)]
        BY <2>1, <3>1, Channels DEF ConnTalk
      <4>. QED  BY <3>1, <4>1 DEF Send
    <3>. QED  BY <3>1
  <2>. QED  BY <1>2, <2>1, <2>2, <2>3 DEF ConnTalk
<1>4. ASSUME NEW p \in Player PROVE HostTalk(p)' /\ Latched(ui[p])'
  <2>1. HostTalk(p) /\ Latched(ui[p]) /\ ui'[p] = ui[p]
    BY DEF Grounds, TalkInv
  <2>2. ASSUME ui[p].mode = "host" PROVE HostTalk(p)'
    <3>. DEFINE s == Session(p)
                w == ui[p].opponent
    <3>1. /\ s \in Conn /\ thread[s] # "new" /\ ~GuestOf(s)' /\ s' = s
          /\ \A i \in DOMAIN toServer[s] : toServer[s][i].type # "JoinRoom"
          /\ Follows(toClient[s], w)
          /\ up[s] => Leaves(toClient[s], w, told[s])
      BY <2>2, HostIs DEF HostTalk, Session
    <3>2. Follows(toClient'[s], w) /\ (up[s] => Leaves(toClient'[s], w, told'[s]))
      <4>1. CASE UNCHANGED <<toClient, told>>
        BY <3>1, <4>1
      <4>2. ASSUME NEW to \in Conn, NEW f \in NoticeFrames \cup Frames, Send(to, f),
                   \A q \in Player : Fit(to, f, q)
            PROVE  Follows(toClient'[s], w) /\ (up[s] => Leaves(toClient'[s], w, told'[s]))
        <5>1. Fit(to, f, p) /\ s = Session(p) /\ w = ui[p].opponent
          BY <4>2
        <5>. HIDE DEF s, w
        <5>. QED  BY <2>2, <4>2, <5>1, HostSend
      <4>. QED  BY <4>1, <4>2
    <3>3. thread'[s] # "new" /\ \A i \in DOMAIN toServer'[s] : toServer'[s][i].type # "JoinRoom"
      BY <1>1, <1>2, <3>1
    <3>4. Session(p)' = s /\ ui'[p].opponent = w /\ up' = up
      BY <2>1 DEF Session
    <3>. HIDE DEF s, w
    <3>. QED  BY <3>1, <3>2, <3>3, <3>4 DEF HostTalk
  <2>3. ui[p].mode # "host" => HostTalk(p)'
    BY <2>1 DEF HostTalk
  <2>. QED  BY <2>1, <2>2, <2>3
<1>. QED  BY <1>3, <1>4 DEF TalkInv

\* Frames that a host may read whatever it believes.
LEMMA HarmlessFits ==
    ASSUME NEW to, NEW f, NEW p, f.type \in {"RoomCreated", "RoomError", "RoomClosed"}
    PROVE  Fit(to, f, p)
BY DEF Fit, Speaks

\* An outstanding send fits the host it goes to.
LEMMA PendingFits ==
    ASSUME Grounds, NEW c \in Conn, pending[c] # <<>>, NEW p \in Player
    PROVE  Fit(Head(pending[c]).to, Head(pending[c]).frame, p)
<1>. DEFINE s == Head(pending[c])
<1>1. s = pending[c][1] /\ 1 \in DOMAIN pending[c] /\ s \in Sends
  BY Channels, TailIs, HeadTailProperties
<1>2. SendSound(c, s)
  BY <1>1 DEF Grounds, ToldInv, PendingSound
<1>. HIDE DEF s
<1>. SUFFICES Fit(s.to, s.frame, p)
  BY DEF s
<1>3. CASE s.frame.type \in {"RoomCreated", "RoomError"}
  BY <1>3, HarmlessFits
<1>4. CASE s.to = c /\ s.frame.type = "RoomJoined" /\ GuestOf(c)
  BY <1>4, HostIs DEF Fit, HostTalk
<1>5. CASE /\ s = To(s.to, Notice("RoomPeerJoined", c)) /\ s.to \in Conn \ {c}
           /\ GuestOf(c)
           /\ rooms[roomOf[c]].host = s.to \/ thread[s.to] = "ended"
  <2>. SUFFICES ASSUME ui[p].mode = "host", s.to = Session(p), up[s.to]
                PROVE  Speaks(s.frame, told[s.to])
    BY DEF Fit
  <2>1. thread[s.to] = "serving"
    BY <1>5 DEF Grounds, TalkInv, ConnTalk
  <2>2. /\ roomOf[c] \in Code /\ rooms[roomOf[c]].guest = c
        /\ rooms[roomOf[c]].host = s.to /\ s.to # NoConn
    BY <1>5, <2>1, SeatFacts, NoConnAssumption DEF GuestOf, Grounds, LobbyInv
  <2>3. told[s.to] \in {c, NoConn}
    BY <2>2 DEF Grounds, ToldInv, ToldOf
  <2>4. s.frame = Notice("RoomPeerJoined", c)
    BY <1>5 DEF To
  <2>5. s.frame.type = "RoomPeerJoined" /\ s.frame.who = c
    BY <2>4, NoticeType DEF Someone
  <2>. QED  BY <2>3, <2>5 DEF Speaks
<1>. QED  BY <1>2, <1>3, <1>4, <1>5 DEF SendSound

\* A frame forwarded fits the host it goes to: only its guest's are forwarded to it.
LEMMA ForwardFits ==
    ASSUME Grounds, NEW c \in Conn, ForwardRaw(c), roomOf[c] # NoCode,
           NEW p \in Player, NEW peer \in Conn, peer = PeerOf(rooms[roomOf[c]], c),
           NEW f, f = Frame(c)
    PROVE  f \in Frames /\ Fit(peer, f, p)
<1>1. /\ toServer[c] # <<>> /\ pending[c] = <<>> /\ f.type \notin ControlTypes
  BY DEF ForwardRaw, Reads
<1>2. f = toServer[c][1] /\ 1 \in DOMAIN toServer[c] /\ f \in RequestFrames \cup Frames
  BY <1>1, Channels, TailIs, HeadTailProperties DEF Frame
<1>3. Own(f, c)
  BY <1>2 DEF Grounds, TalkInv, ConnTalk
<1>4. f \in Frames /\ f.type \notin NoticeTypes
  BY <1>1, <1>2, WrittenFrame, FramesAssumption
<1>5. ASSUME ui[p].mode = "host", peer = Session(p), f.type = "Lobby"
      PROVE  told[peer] = c
  <2>. DEFINE k == roomOf[c]
  <2>1. /\ k \in Code /\ c \in {rooms[k].host, rooms[k].guest} /\ c # NoConn
        /\ rooms[k].guest \in Conn => roomOf[rooms[k].guest] = k
        /\ k # NoCode
    BY SeatFacts, SeatsAgreeIs DEF ConnSound, Grounds, LobbyInv
  <2>2. c # rooms[k].host
    <3>. SUFFICES ASSUME c = rooms[k].host PROVE FALSE
      OBVIOUS
    <3>1. peer = rooms[k].guest
      BY DEF PeerOf
    <3>2. GuestOf(peer)
      BY <2>1, <3>1 DEF GuestOf
    <3>. QED  BY <1>5, <3>2, HostIs DEF HostTalk
  <2>3. c = rooms[k].guest /\ peer = rooms[k].host /\ peer # NoConn
    BY <2>1, <2>2, NoConnAssumption DEF PeerOf
  <2>. HIDE DEF k
  <2>. QED  BY <1>1, <2>1, <2>3, QuietThread DEF Grounds, ToldInv, ToldOf
<1>6. Fit(peer, f, p)
  BY <1>3, <1>4, <1>5 DEF Fit, Speaks, Own, NoticeTypes
<1>. QED  BY <1>4, <1>6

\* A host takes no guest's seat.
LEMMA HostNoGuest ==
    ASSUME Grounds, NEW c \in Conn, ServeConn(c), UNCHANGED ui,
           NEW p \in Player, ui[p].mode = "host"
    PROVE  ~GuestOf(Session(p))'
<1>. DEFINE s == Session(p)
<1>1. /\ s \in Conn /\ ~GuestOf(s) /\ s' = s /\ s # NoConn
      /\ \A i \in DOMAIN toServer[s] : toServer[s][i].type # "JoinRoom"
      /\ roomOf[s] # NoCode => roomOf[s] \in Code
  BY HostIs, SeatFacts DEF HostTalk, Session, Grounds, LobbyInv
<1>. HIDE DEF s
<1>2. roomOf'[s] # NoCode => rooms'[roomOf'[s]].guest # s
  <2>1. CASE UNCHANGED <<rooms, roomOf>>
    BY <1>1, <2>1 DEF GuestOf
  <2>2. CASE HandleCreate(c)
    <3>1. PICK code \in Code :
            /\ ~Live(code)
            /\ rooms' = [rooms EXCEPT ![code] = [NoRoom EXCEPT !.host = c]]
            /\ roomOf' = [roomOf EXCEPT ![c] = code]
      BY <2>2 DEF HandleCreate
    <3>2. /\ rooms \in [Code -> Rooms] /\ roomOf \in [Conn -> Code \cup {NoCode}]
          /\ roomOf[s] # NoCode => Live(roomOf[s])
      BY <1>1, Channels, SeatFacts DEF TypeOK, RoomType, Grounds, LobbyInv
    <3>3. rooms'[code].guest = NoConn
      BY <3>1, <3>2 DEF NoRoom
    <3>4. CASE s = c
      BY <1>1, <3>1, <3>2, <3>3, <3>4
    <3>5. CASE s # c
      BY <1>1, <3>1, <3>2, <3>5 DEF GuestOf
    <3>. QED  BY <3>4, <3>5
  <2>3. CASE HandleJoin(c)
    <3>1. c # s
      <4>1. /\ toServer[c] # <<>> /\ Head(toServer[c]).type = "JoinRoom"
        BY <2>3 DEF HandleJoin, Reads, Frame
      <4>2. Head(toServer[c]) = toServer[c][1] /\ 1 \in DOMAIN toServer[c]
        BY <4>1, Channels, TailIs
      <4>. QED  BY <1>1, <4>1, <4>2
    <3>2. PICK code \in Code :
            /\ rooms' = [rooms EXCEPT ![code].guest = c]
            /\ roomOf' = [roomOf EXCEPT ![c] = code]
      BY <2>3, JoinIs DEF Grounds, LobbyInv
    <3>3. /\ rooms \in [Code -> Rooms] /\ roomOf \in [Conn -> Code \cup {NoCode}]
      BY Channels DEF TypeOK, RoomType
    <3>4. roomOf'[s] = roomOf[s]
      BY <1>1, <3>1, <3>2, <3>3
    <3>5. \A k \in Code : rooms'[k].guest = IF k = code THEN c ELSE rooms[k].guest
      BY <3>2, <3>3 DEF Rooms
    <3>. QED  BY <1>1, <3>1, <3>4, <3>5 DEF GuestOf
  <2>4. CASE ForwardRaw(c)
    BY <1>1, <2>4, ForwardIs DEF GuestOf, Grounds, LobbyInv
  <2>5. CASE DropConn(c)
    <3>1. /\ roomOf' = [roomOf EXCEPT ![c] = NoCode]
          /\ \A k \in Code : k # roomOf[c] => rooms'[k] = rooms[k]
          /\ roomOf[c] # NoCode => rooms'[roomOf[c]].guest =
                 IF c = rooms[roomOf[c]].guest THEN NoConn ELSE rooms[roomOf[c]].guest
      BY <2>5, DropIs DEF Grounds, LobbyInv
    <3>2. roomOf \in [Conn -> Code \cup {NoCode}]
      BY Channels
    <3>3. s # c => roomOf'[s] = roomOf[s]
      BY <1>1, <3>1, <3>2
    <3>4. roomOf'[c] = NoCode
      BY <3>1, <3>2
    <3>. QED  BY <1>1, <3>1, <3>3, <3>4 DEF GuestOf
  <2>. QED  BY <2>1, <2>2, <2>3, <2>4, <2>5
            DEF ServeConn, SendPending, RefuseSecondRoom, HandleJoinError
<1>. QED  BY <1>1, <1>2 DEF GuestOf, s

\* What a thread of the server reads.
LEMMA FrameIs ==
    ASSUME Grounds, NEW c \in Conn, Reads(c)
    PROVE  Frame(c) \in RequestFrames \cup Frames
BY ReadsType DEF Grounds, LobbyInv

\* What the server does keeps what the hosts hear.
LEMMA ServeTalk ==
    ASSUME Grounds, NEW c \in Conn, ServeConn(c), UNCHANGED ui
    PROVE  TalkInv'
<1>0. \A p \in Player : ui[p].mode = "host" => ~GuestOf(Session(p))'
  BY HostNoGuest
<1>1. CASE SendPending(c)
  <2>. DEFINE to == Head(pending[c]).to
              f == Head(pending[c]).frame
  <2>1. /\ pending[c] # <<>> /\ Send(to, f)
        /\ UNCHANGED <<thread, up, toServer>>
    BY <1>1 DEF SendPending
  <2>2. to \in Conn /\ f \in NoticeFrames
    <3>1. Head(pending[c]) \in Sends
      BY <2>1, Channels, HeadTailProperties
    <3>. QED  BY <3>1 DEF Sends
  <2>3. ASSUME NEW p \in Player PROVE Fit(to, f, p)
    BY <2>1, PendingFits
  <2>. HIDE DEF to, f
  <2>. QED  BY <1>0, <2>1, <2>2, <2>3, ServedTalk
<1>2. CASE RefuseSecondRoom(c) \/ HandleCreate(c) \/ HandleJoin(c)
  <2>1. /\ toServer' = [toServer EXCEPT ![c] = Tail(@)] /\ toServer[c] # <<>>
        /\ UNCHANGED <<thread, up, toClient, told>>
    BY <1>2 DEF RefuseSecondRoom, HandleCreate, HandleJoin, Reads
  <2>. QED  BY <1>0, <2>1, ServedTalk
<1>3. CASE HandleJoinError(c)
  <2>1. /\ toServer' = [toServer EXCEPT ![c] = Tail(@)] /\ toServer[c] # <<>>
        /\ UNCHANGED <<thread, up>> /\ Send(c, RoomError)
    BY <1>3 DEF HandleJoinError, Reads
  <2>2. RoomError \in NoticeFrames \cup Frames /\ \A p \in Player : Fit(c, RoomError, p)
    BY NoticeType, HarmlessFits
  <2>. QED  BY <1>0, <2>1, <2>2, ServedTalk
<1>4. CASE ForwardRaw(c)
  <2>. DEFINE peer == PeerOf(rooms[roomOf[c]], c)
  <2>1. /\ toServer' = [toServer EXCEPT ![c] = Tail(@)] /\ toServer[c] # <<>>
        /\ UNCHANGED <<thread, up>>
    BY <1>4 DEF ForwardRaw, Reads
  <2>2. CASE UNCHANGED <<toClient, told>>
    BY <1>0, <2>1, <2>2, ServedTalk
  <2>3. CASE ~UNCHANGED <<toClient, told>>
    <3>1. roomOf[c] # NoCode /\ peer # NoConn /\ Send(peer, Frame(c))
      BY <1>4, <2>3 DEF ForwardRaw
    <3>2. peer \in Conn
      <4>1. roomOf[c] \in Code /\ rooms[roomOf[c]].host \in Someone
            /\ rooms[roomOf[c]].guest \in Someone
        BY <3>1, SeatFacts DEF Grounds, LobbyInv
      <4>. QED  BY <3>1, <4>1 DEF PeerOf, Someone
    <3>. DEFINE f == Frame(c)
    <3>3. peer = PeerOf(rooms[roomOf[c]], c) /\ f = Frame(c) /\ Send(peer, f)
      BY <3>1
    <3>. HIDE DEF f, peer
    <3>4. f \in Frames
      BY <1>4, <3>1, <3>3, WrittenFrame, FrameIs DEF ForwardRaw
    <3>5. ASSUME NEW p \in Player PROVE Fit(peer, f, p)
      BY <1>4, <3>1, <3>2, <3>3, ForwardFits
    <3>. QED  BY <1>0, <2>1, <3>2, <3>3, <3>4, <3>5, ServedTalk
  <2>. QED  BY <2>2, <2>3
<1>5. CASE DropConn(c)
  <2>. DEFINE peer == PeerOf(rooms[roomOf[c]], c)
              f == Notice("RoomClosed", c)
  <2>1. /\ thread' = [thread EXCEPT ![c] = "ended"] /\ thread[c] = "serving" /\ ~up[c]
        /\ UNCHANGED <<up, toServer>>
    BY <1>5 DEF DropConn
  <2>2. CASE UNCHANGED <<toClient, told>>
    BY <1>0, <2>1, <2>2, ServedTalk
  <2>3. CASE ~UNCHANGED <<toClient, told>>
    <3>1. roomOf[c] # NoCode /\ peer # NoConn /\ Send(peer, f)
      BY <1>5, <2>3 DEF DropConn
    <3>2. peer \in Conn
      <4>1. roomOf[c] \in Code /\ rooms[roomOf[c]].host \in Someone
            /\ rooms[roomOf[c]].guest \in Someone
        BY <3>1, SeatFacts DEF Grounds, LobbyInv
      <4>. QED  BY <3>1, <4>1 DEF PeerOf, Someone
    <3>3. f \in NoticeFrames \cup Frames /\ \A p \in Player : Fit(peer, f, p)
      BY NoticeType, HarmlessFits DEF Someone
    <3>. HIDE DEF f, peer
    <3>. QED  BY <1>0, <2>1, <3>1, <3>2, <3>3, ServedTalk
  <2>. QED  BY <2>2, <2>3
<1>. QED  BY <1>1, <1>2, <1>3, <1>4, <1>5 DEF ServeConn

\* A program whose memory and channels a step leaves alone.
LEMMA HostKept ==
    ASSUME Grounds, NEW p \in Player, ui'[p] = ui[p], UNCHANGED <<rooms, roomOf, told>>,
           NEW c, c = Session(p),
           ui[p].mode = "host" =>
             /\ thread'[c] = thread[c] /\ up'[c] = up[c]
             /\ toClient'[c] = toClient[c] /\ toServer'[c] = toServer[c]
    PROVE  HostTalk(p)' /\ Latched(ui[p])'
<1>1. HostTalk(p) /\ Latched(ui[p])
  BY DEF Grounds, TalkInv
<1>2. Session(p)' = c
  BY DEF Session
<1>. QED  BY <1>1, <1>2 DEF HostTalk, GuestOf

\* What a concatenation holds is from the one or the other.
LEMMA ConcatFrom ==
    ASSUME NEW S, NEW s \in Seq(S), NEW t \in Seq(S), NEW i \in DOMAIN (s \o t)
    PROVE  \/ \E j \in DOMAIN s : (s \o t)[i] = s[j]
           \/ \E j \in DOMAIN t : (s \o t)[i] = t[j]
<1>1. /\ Len(s) \in Nat /\ Len(t) \in Nat /\ DOMAIN s = 1..Len(s) /\ DOMAIN t = 1..Len(t)
      /\ i \in 1..(Len(s) + Len(t))
      /\ (s \o t)[i] = IF i <= Len(s) THEN s[i] ELSE t[i - Len(s)]
  BY ConcatProperties, LenProperties
<1>2. CASE i <= Len(s)
  BY <1>1, <1>2
<1>3. CASE i > Len(s)
  <2>1. i - Len(s) \in DOMAIN t
    BY <1>1, <1>3
  <2>. QED  BY <1>1, <1>3, <2>1
<1>. QED  BY <1>1, <1>2, <1>3

\* A program that reads a frame, perhaps, and writes what it may.
LEMMA TurnTalk ==
    ASSUME Grounds, NEW p \in Player, NEW c \in Conn, c = Session(p), NEW u,
           Becomes(p, u), u.sess = ui[p].sess, u.mode = ui[p].mode,
           NEW take \in BOOLEAN, NEW out \in Outs, ClientTurn(c, take, out),
           \A i \in DOMAIN out : Own(out[i], c) /\ out[i].type # "JoinRoom",
           u.opponent = IF take THEN Belief(Head(toClient[c]), ui[p].opponent)
                                ELSE ui[p].opponent,
           u.mode = "host" => Latched(u)
    PROVE  TalkInv'
<1>0. /\ ui' = [ui EXCEPT ![p] = u] /\ ui \in [Player -> UIState]
      /\ UNCHANGED <<rooms, roomOf, thread, pending, up, told>>
  BY DEF Becomes, ClientTurn, Grounds, LobbyInv
<1>1. ui'[p] = u /\ \A q \in Player : q # p => ui'[q] = ui[q]
  BY <1>0
<1>2. /\ \A d \in Conn : d # c => toClient'[d] = toClient[d] /\ toServer'[d] = toServer[d]
      /\ toClient'[c] = IF take THEN Tail(toClient[c]) ELSE toClient[c]
      /\ toServer'[c] = toServer[c] \/ toServer'[c] = toServer[c] \o out
      /\ take => toClient[c] # <<>>
  BY Channels DEF ClientTurn
<1>3. ASSUME NEW i \in DOMAIN toServer'[c]
      PROVE  \/ \E j \in DOMAIN toServer[c] : toServer'[c][i] = toServer[c][j]
             \/ \E j \in DOMAIN out : toServer'[c][i] = out[j]
  <2>1. toServer[c] \in Seq(RequestFrames \cup Frames) /\ out \in Seq(RequestFrames \cup Frames)
    BY Channels, OutsAssumption
  <2>2. CASE toServer'[c] = toServer[c]
    BY <1>3, <2>2
  <2>3. CASE toServer'[c] = toServer[c] \o out
    <3>1. i \in DOMAIN (toServer[c] \o out)
      BY ONLY <1>3, <2>3, Zenon
    <3>2. \/ \E j \in DOMAIN toServer[c] : (toServer[c] \o out)[i] = toServer[c][j]
          \/ \E j \in DOMAIN out : (toServer[c] \o out)[i] = out[j]
      BY ONLY <2>1, <3>1, ConcatFrom
    <3>. QED  BY ONLY <2>3, <3>2, Zenon
  <2>. QED  BY <1>2, <2>2, <2>3
<1>4. ASSUME NEW d \in Conn PROVE ConnTalk(d)'
  <2>1. ConnTalk(d)
    BY DEF Grounds, TalkInv
  <2>2. CASE d # c
    BY <1>0, <1>2, <2>1, <2>2 DEF ConnTalk
  <2>3. CASE d = c
    <3>1. \A i \in DOMAIN toServer'[d] : Own(toServer'[d][i], d)
      BY <1>3, <2>1, <2>3 DEF ConnTalk
    <3>2. thread[d] = "new" => toClient'[d] = <<>>
      BY <1>2, <2>1, <2>3 DEF ConnTalk
    <3>. QED  BY <1>0, <2>1, <3>1, <3>2 DEF ConnTalk
  <2>. QED  BY <2>2, <2>3
<1>5. ASSUME NEW q \in Player PROVE HostTalk(q)' /\ Latched(ui[q])'
  <2>1. CASE q # p
    <3>1. Session(q) # c
      BY <2>1 DEF Session
    <3>2. ui[q].mode = "host" => Session(q) \in Conn
      BY HostIs
    <3>. QED  BY <1>0, <1>1, <1>2, <2>1, <3>1, <3>2, HostKept
  <2>2. CASE q = p
    <3>. SUFFICES ASSUME u.mode = "host" PROVE HostTalk(p)' /\ Latched(u)
      BY <1>1, <2>2 DEF HostTalk, Latched
    <3>1. HostTalk(p) /\ Session(p)' = c /\ ui'[p] = u
      BY <1>1, HostIs DEF Session
    <3>2. \A i \in DOMAIN toServer'[c] : toServer'[c][i].type # "JoinRoom"
      BY <1>3, <3>1 DEF HostTalk
    <3>3. Follows(toClient'[c], u.opponent)
          /\ (up[c] => Leaves(toClient'[c], u.opponent, told[c]))
      <4>1. /\ Follows(toClient[c], ui[p].opponent)
            /\ up[c] => Leaves(toClient[c], ui[p].opponent, told[c])
        BY <3>1 DEF HostTalk
      <4>2. CASE ~take
        BY <1>2, <4>1, <4>2
      <4>3. CASE take
        <5>1. toClient[c] # <<>> /\ toClient[c] \in Seq(NoticeFrames \cup Frames)
          BY <1>2, <4>3, Channels
        <5>. QED  BY <1>2, <4>1, <4>3, <5>1, FollowTail
      <4>. QED  BY <4>2, <4>3
    <3>4. thread'[c] # "new" /\ ~GuestOf(c)' /\ up'[c] = up[c] /\ told'[c] = told[c]
      BY <1>0, <3>1 DEF HostTalk, GuestOf
    <3>. QED  BY <3>1, <3>2, <3>3, <3>4 DEF HostTalk
  <2>. QED  BY <2>1, <2>2
<1>. QED  BY <1>4, <1>5 DEF TalkInv

\* A session that is closed.
LEMMA CloseTalk ==
    ASSUME Grounds, NEW p \in Player, NEW c \in Conn, c = Session(p), NEW u,
           Becomes(p, u), u.mode = "offline", Close(c)
    PROVE  TalkInv'
<1>0. /\ ui' = [ui EXCEPT ![p] = u] /\ ui \in [Player -> UIState]
      /\ UNCHANGED <<rooms, roomOf, thread, told>>
  BY DEF Becomes, Close, Grounds, LobbyInv
<1>1. ui'[p] = u /\ \A q \in Player : q # p => ui'[q] = ui[q]
  BY <1>0
<1>2. PICK n \in 0..Len(toServer[c]) : toServer' = [toServer EXCEPT ![c] = SubSeq(@, 1, n)]
  BY DEF Close
<1>3. /\ \A d \in Conn : d # c => /\ toClient'[d] = toClient[d]
                                  /\ toServer'[d] = toServer[d] /\ up'[d] = up[d]
      /\ toClient'[c] = <<>> /\ ~up'[c] /\ toServer'[c] = SubSeq(toServer[c], 1, n)
  BY <1>2, Channels DEF Close
<1>4. \A i \in DOMAIN toServer'[c] :
         i \in DOMAIN toServer[c] /\ toServer'[c][i] = toServer[c][i]
  <2>1. toServer[c] \in Seq(RequestFrames \cup Frames)
    BY Channels
  <2>. QED  BY <1>3, <2>1, SubSeqProperties, LenProperties
<1>5. ASSUME NEW d \in Conn PROVE ConnTalk(d)'
  <2>1. ConnTalk(d)
    BY DEF Grounds, TalkInv
  <2>. QED  BY <1>0, <1>3, <1>4, <2>1 DEF ConnTalk
<1>6. ASSUME NEW q \in Player PROVE HostTalk(q)' /\ Latched(ui[q])'
  <2>1. CASE q # p
    <3>1. Session(q) # c
      BY <2>1 DEF Session
    <3>2. ui[q].mode = "host" => Session(q) \in Conn
      BY HostIs
    <3>. QED  BY <1>0, <1>1, <1>3, <2>1, <3>1, <3>2, HostKept
  <2>2. CASE q = p
    BY <1>1, <2>2 DEF HostTalk, Latched
  <2>. QED  BY <2>1, <2>2
<1>. QED  BY <1>5, <1>6 DEF TalkInv

\* A connection that breaks.
LEMMA BreakTalk ==
    ASSUME Grounds, NEW c \in Conn, Break(c), UNCHANGED ui
    PROVE  TalkInv'
<1>1. PICK n \in 0..Len(toServer[c]) : toServer' = [toServer EXCEPT ![c] = SubSeq(@, 1, n)]
  BY DEF Break
<1>2. PICK k \in 0..Len(toClient[c]) : toClient' = [toClient EXCEPT ![c] = SubSeq(@, 1, k)]
  BY DEF Break
<1>3. /\ \A d \in Conn : d # c => /\ toClient'[d] = toClient[d]
                                  /\ toServer'[d] = toServer[d] /\ up'[d] = up[d]
      /\ toClient'[c] = SubSeq(toClient[c], 1, k) /\ ~up'[c]
      /\ toServer'[c] = SubSeq(toServer[c], 1, n)
      /\ up[c] /\ UNCHANGED <<rooms, roomOf, thread, told>>
  BY <1>1, <1>2, Channels DEF Break
<1>4. /\ toServer[c] \in Seq(RequestFrames \cup Frames)
      /\ toClient[c] \in Seq(NoticeFrames \cup Frames)
  BY Channels
<1>5. \A i \in DOMAIN toServer'[c] :
         i \in DOMAIN toServer[c] /\ toServer'[c][i] = toServer[c][i]
  BY <1>3, <1>4, SubSeqProperties, LenProperties
<1>6. ASSUME NEW d \in Conn PROVE ConnTalk(d)'
  <2>1. ConnTalk(d)
    BY DEF Grounds, TalkInv
  <2>. QED  BY <1>3, <1>5, <2>1 DEF ConnTalk
<1>7. ASSUME NEW q \in Player PROVE HostTalk(q)' /\ Latched(ui[q])'
  <2>1. ui[q].mode = "host" => Session(q) \in Conn
    BY HostIs
  <2>2. CASE Session(q) # c
    BY <1>3, <2>1, <2>2, HostKept
  <2>3. CASE Session(q) = c
    <3>1. HostTalk(q) /\ Latched(ui[q]) /\ ui'[q] = ui[q] /\ Session(q)' = c
      BY <2>3 DEF Grounds, TalkInv, Session
    <3>2. ASSUME ui[q].mode = "host" PROVE Follows(toClient'[c], ui[q].opponent)
      <4>1. Follows(toClient[c], ui[q].opponent)
        BY <2>3, <3>1, <3>2 DEF HostTalk
      <4>2. Follows(SubSeq(toClient[c], 1, k), ui[q].opponent)
        BY <1>4, <4>1, FollowPrefix
      <4>. QED  BY <1>3, <4>2
    <3>3. ASSUME ui[q].mode = "host"
          PROVE  /\ thread'[c] # "new" /\ ~GuestOf(c)'
                 /\ \A i \in DOMAIN toServer'[c] : toServer'[c][i].type # "JoinRoom"
      <4>1. /\ thread[c] # "new" /\ ~GuestOf(c)
            /\ \A i \in DOMAIN toServer[c] : toServer[c][i].type # "JoinRoom"
        BY <2>3, <3>1, <3>3 DEF HostTalk
      <4>. QED  BY <1>3, <1>5, <4>1 DEF GuestOf
    <3>. QED  BY <1>3, <3>1, <3>2, <3>3 DEF HostTalk
  <2>. QED  BY <2>2, <2>3
<1>. QED  BY <1>6, <1>7 DEF TalkInv

\* A session that is opened finds a connection on which nothing was said.
LEMMA OpenTalk ==
    ASSUME Grounds, NEW p \in Player, NEW c \in Conn, NEW u, NEW request,
           Becomes(p, u), c = <<p, u.sess>>, u.sess # ui[p].sess \/ ~Online(p),
           u.opponent = NoConn, Latched(u), Own(request, c),
           u.mode = "host" => request.type # "JoinRoom",
           Connect(c, request)
    PROVE  TalkInv'
<1>0. /\ ui' = [ui EXCEPT ![p] = u] /\ ui \in [Player -> UIState]
      /\ UNCHANGED <<rooms, roomOf, told, toClient>> /\ thread[c] = "new"
  BY DEF Becomes, Connect, Grounds, LobbyInv
<1>1. ui'[p] = u /\ \A q \in Player : q # p => ui'[q] = ui[q]
  BY <1>0
<1>2. /\ \A d \in Conn : d # c => /\ thread'[d] = thread[d]
                                  /\ toServer'[d] = toServer[d] /\ up'[d] = up[d]
      /\ toServer'[c] = <<request>> /\ thread'[c] = "serving"
  BY Channels DEF Connect
<1>3. toClient'[c] = <<>> /\ told'[c] = NoConn /\ ~GuestOf(c)'
  <2>1. ConnTalk(c) /\ Untold(c) /\ (roomOf[c] # NoCode => thread[c] = "serving")
    BY SeatFacts DEF Grounds, TalkInv, ToldInv, LobbyInv
  <2>. QED  BY <1>0, <2>1 DEF ConnTalk, Untold, GuestOf
<1>4. ASSUME NEW d \in Conn PROVE ConnTalk(d)'
  <2>1. ConnTalk(d)
    BY DEF Grounds, TalkInv
  <2>2. CASE d # c
    BY <1>0, <1>2, <2>1, <2>2 DEF ConnTalk
  <2>3. CASE d = c
    BY <1>2, <1>3, <2>3 DEF ConnTalk
  <2>. QED  BY <2>2, <2>3
<1>5. ASSUME NEW q \in Player PROVE HostTalk(q)' /\ Latched(ui[q])'
  <2>1. CASE q # p
    <3>1. Session(q) # c
      BY <2>1 DEF Session
    <3>2. ui[q].mode = "host" => Session(q) \in Conn
      BY HostIs
    <3>. QED  BY <1>0, <1>1, <1>2, <2>1, <3>1, <3>2, HostKept
  <2>2. CASE q = p
    <3>1. Session(p)' = c
      BY <1>1 DEF Session
    <3>2. Follows(toClient'[c], u.opponent) /\ Leaves(toClient'[c], u.opponent, told'[c])
      BY <1>3 DEF Follows, Leaves, Before
    <3>3. \A i \in DOMAIN toServer'[c] : toServer'[c][i] = request
      BY <1>2
    <3>. QED  BY <1>1, <1>2, <1>3, <2>2, <3>1, <3>2, <3>3 DEF HostTalk
  <2>. QED  BY <2>1, <2>2
<1>. QED  BY <1>4, <1>5 DEF TalkInv

\* A program that forgets a duel whose connection was lost.
LEMMA StayTalk ==
    ASSUME Grounds, NEW p \in Player, NEW u, Becomes(p, u), UNCHANGED relayVars,
           u.sess = ui[p].sess, u.mode = ui[p].mode, u.opponent = ui[p].opponent,
           Latched(ui[p]) => Latched(u)
    PROVE  TalkInv'
<1>0. /\ ui' = [ui EXCEPT ![p] = u] /\ ui \in [Player -> UIState]
      /\ UNCHANGED <<rooms, roomOf, thread, up, toServer, toClient, told>>
  BY DEF Becomes, Grounds, LobbyInv, relayVars
<1>1. ui'[p] = u /\ \A q \in Player : q # p => ui'[q] = ui[q]
  BY <1>0
<1>2. ASSUME NEW d \in Conn PROVE ConnTalk(d)'
  BY <1>0 DEF Grounds, TalkInv, ConnTalk
<1>3. ASSUME NEW q \in Player PROVE HostTalk(q)' /\ Latched(ui[q])'
  <2>1. CASE q # p
    BY <1>0, <1>1, <2>1, HostKept
  <2>2. CASE q = p
    <3>1. HostTalk(p) /\ Latched(ui[p]) /\ Session(p)' = Session(p)
      BY <1>1 DEF Grounds, TalkInv, Session
    <3>. QED  BY <1>0, <1>1, <2>2, <3>1 DEF HostTalk, GuestOf
  <2>. QED  BY <2>1, <2>2
<1>. QED  BY <1>2, <1>3 DEF TalkInv

-----------------------------------------------------------------------------
(* The programs.                                                           *)

\* What a program announces in its session is its own.
LEMMA OwnPackets ==
    ASSUME Grounds, NEW p \in Player, Session(p) \in Conn
    PROVE  /\ \A i \in DOMAIN <<>> : FALSE
           /\ \A h, r : \A d \in {NoDeck} \cup {<<Session(p), x>> : x \in Deck} :
                /\ Own(LobbyPacket(h, d, r), Session(p))
                /\ LobbyPacket(h, d, r).type # "JoinRoom"
           /\ \A t : /\ Own(StartDuel(t), Session(p))
                     /\ StartDuel(t).type # "JoinRoom"
<1>1. \A x : <<Session(p), x>>[1] = Session(p)
  OBVIOUS
<1>2. \A h, r, d : /\ LobbyPacket(h, d, r).deck = d /\ LobbyPacket(h, d, r).type = "Lobby"
  BY DEF LobbyPacket
<1>3. \A t : StartDuel(t).type = "StartDuel"
  BY DEF StartDuel
<1>4. \A h, r : \A d \in {NoDeck} \cup {<<Session(p), x>> : x \in Deck} :
        Own(LobbyPacket(h, d, r), Session(p))
  BY <1>1, <1>2 DEF Own
<1>. QED  BY <1>2, <1>3, <1>4 DEF Own

\* The deck a program advertises is none, or one of its session.
LEMMA OwnDeck ==
    ASSUME NEW p \in Player, NEW u \in UIState
    PROVE  DeckOf(p, u) \in {NoDeck} \cup {<<Session(p), x>> : x \in Deck}
BY DEF DeckOf, UIState

\* What a host reads next speaks of whom it believes in.
LEMMA HostReads ==
    ASSUME Grounds, NEW p \in Player, ui[p].mode = "host", toClient[Session(p)] # <<>>
    PROVE  Speaks(Message(p), ui[p].opponent) /\ Latched(ui[p])
<1>1. Session(p) \in Conn /\ Follows(toClient[Session(p)], ui[p].opponent)
  BY HostIs DEF HostTalk
<1>2. toClient[Session(p)] \in Seq(NoticeFrames \cup Frames)
  BY <1>1, Channels
<1>. QED  BY <1>1, <1>2, FollowTail DEF Message, Grounds, TalkInv

\* Handling a message.
LEMMA HandlerTalk ==
    ASSUME Grounds, NEW p \in Player, HandleNetMessage(p)
    PROVE  TalkInv'
<1>. DEFINE u0 == ui[p]
            c == Session(p)
            m == Message(p)
<1>0. u0 \in UIState /\ LobbyInv
  BY DEF Grounds, LobbyInv
<1>1. ASSUME NEW u, NEW out \in Outs, Handled(p, u, out), c \in Conn,
             u.sess = u0.sess, u.mode = u0.mode, u.opponent = Belief(m, u0.opponent),
             \A i \in DOMAIN out : Own(out[i], c) /\ out[i].type # "JoinRoom",
             u.mode = "host" => Latched(u)
      PROVE  TalkInv'
  <2>1. Becomes(p, u) /\ ClientTurn(c, TRUE, out)
    BY <1>1 DEF Handled
  <2>2. u.opponent = IF TRUE THEN Belief(Head(toClient[c]), ui[p].opponent)
                             ELSE ui[p].opponent
    BY <1>1 DEF Message
  <2>. QED  BY <1>1, <2>1, <2>2, TurnTalk
<1>2. ASSUME NEW type, Receives(p, type)
      PROVE  /\ c \in Conn /\ m.type = type
             /\ u0.mode = "host" => Speaks(m, u0.opponent) /\ Latched(u0)
  BY <1>0, <1>2, ReadType, HostReads DEF Receives, Message
<1>3. CASE OnRoomCreated(p)
  <2>1. Handled(p, u0, <<>>) /\ <<>> \in Outs /\ Receives(p, "RoomCreated")
    BY <1>3, WritesAllowed DEF OnRoomCreated
  <2>2. u0.opponent = Belief(m, u0.opponent)
    BY <1>2, <2>1 DEF Belief
  <2>. HIDE DEF u0, c, m
  <2>. QED  BY <1>1, <1>2, <2>1, <2>2
<1>4. CASE OnRoomJoined(p) \/ OnRoomPeerJoined(p)
  <2>. DEFINE u1 == [u0 EXCEPT !.opponent = m.who]
              u  == [u1 EXCEPT !.handshakeSent = TRUE]
              packet == LobbyPacket(TRUE, DeckOf(p, u1), ReadyOf(u1))
              out == IF u1.handshakeSent THEN <<>> ELSE <<packet>>
  <2>1. /\ Handled(p, u, out)
        /\ Receives(p, "RoomJoined") \/ Receives(p, "RoomPeerJoined")
    BY <1>4 DEF OnRoomJoined, OnRoomPeerJoined, Kickoff
  <2>2. /\ c \in Conn /\ m.type \in {"RoomJoined", "RoomPeerJoined"}
        /\ m.who \in Conn \cup {NoConn}
        /\ u0.mode = "host" => Speaks(m, u0.opponent) /\ Latched(u0)
    BY <1>0, <1>2, <2>1, ReadType
  <2>3. /\ u1 \in UIState
        /\ u.sess = u0.sess /\ u.mode = u0.mode /\ u.opponent = m.who
        /\ u.clean = u0.clean /\ u.remoteDeck = u0.remoteDeck
        /\ u.remoteReady = u0.remoteReady
    BY <1>0, <2>2 DEF UIState
  <2>4. u.opponent = Belief(m, u0.opponent)
    BY <2>2, <2>3 DEF Belief
  <2>. HIDE DEF u1
  <2>5. DeckOf(p, u1) \in {NoDeck} \cup {<<Session(p), x>> : x \in Deck}
        /\ DeckOf(p, u1) \in Tags \cup {NoDeck} /\ ReadyOf(u1) \in Says
    BY <2>2, <2>3, OwnDeck, AdvertType
  <2>6. Own(packet, c) /\ packet.type # "JoinRoom" /\ <<packet>> \in Outs
    BY <2>2, <2>5, OwnPackets, WritesAllowed
  <2>. HIDE DEF packet
  <2>7. out \in Outs /\ \A i \in DOMAIN out : Own(out[i], c) /\ out[i].type # "JoinRoom"
    BY <2>6, WritesAllowed
  <2>8. u.mode = "host" => Latched(u)
    BY <2>2, <2>3, NoConnAssumption DEF Latched, Speaks
  <2>. HIDE DEF u, out, u0, c, m
  <2>. QED  BY <1>1, <2>1, <2>2, <2>3, <2>4, <2>7, <2>8
<1>5. CASE OnRoomClosed(p)
  <2>. DEFINE u == [u0 EXCEPT !.remoteDeck = NoDeck, !.remoteReady = FALSE,
                              !.handshakeSent = FALSE, !.opponent = NoConn]
  <2>1. Handled(p, u, <<>>) /\ <<>> \in Outs /\ Receives(p, "RoomClosed")
    BY <1>5, WritesAllowed DEF OnRoomClosed
  <2>2. /\ u.sess = u0.sess /\ u.mode = u0.mode /\ u.opponent = NoConn
        /\ u.remoteDeck = NoDeck /\ ~u.remoteReady
    BY <1>0 DEF UIState
  <2>3. u.opponent = Belief(m, u0.opponent)
    BY <1>2, <2>1, <2>2 DEF Belief
  <2>4. Latched(u)
    BY <2>2 DEF Latched
  <2>. HIDE DEF u, u0, c, m
  <2>. QED  BY <1>1, <1>2, <2>1, <2>2, <2>3, <2>4
<1>6. CASE OnRoomError(p)
  <2>1. /\ Becomes(p, Offline(u0)) /\ Close(c) /\ Receives(p, "RoomError")
        /\ Offline(u0).mode = "offline"
    BY <1>0, <1>6 DEF OnRoomError, Offline, UIState
  <2>. DEFINE u == Offline(u0)
  <2>. HIDE DEF u
  <2>2. Becomes(p, u) /\ u.mode = "offline"
    BY <2>1 DEF u
  <2>. QED  BY <1>2, <2>1, <2>2, CloseTalk
<1>7. CASE OnLobbyPacket(p)
  <2>. DEFINE u == Heard(u0, m)
              packet == LobbyPacket(FALSE, DeckOf(p, u0), ReadyOf(u0))
              out == IF m.hello THEN Advert(p, u0) ELSE <<>>
  <2>1. Handled(p, u, out) /\ Receives(p, "Lobby")
    BY <1>7 DEF OnLobbyPacket
  <2>2. /\ c \in Conn /\ m.type = "Lobby"
        /\ u0.mode = "host" => Speaks(m, u0.opponent) /\ Latched(u0)
    BY <1>2, <2>1
  <2>3. /\ u.sess = u0.sess /\ u.mode = u0.mode /\ u.opponent = u0.opponent
        /\ u.clean = u0.clean
        /\ u.remoteDeck = IF m.deck = NoDeck THEN u0.remoteDeck ELSE m.deck
    BY <1>0 DEF Heard, UIState
  <2>4. u.opponent = Belief(m, u0.opponent)
    BY <2>2, <2>3 DEF Belief
  <2>5. /\ DeckOf(p, u0) \in {NoDeck} \cup {<<Session(p), x>> : x \in Deck}
        /\ DeckOf(p, u0) \in Tags \cup {NoDeck} /\ ReadyOf(u0) \in Says
    BY <1>0, <2>2, OwnDeck, AdvertType
  <2>6. Own(packet, c) /\ packet.type # "JoinRoom" /\ <<packet>> \in Outs
    BY <2>2, <2>5, OwnPackets, WritesAllowed
  <2>7. out = <<>> \/ out = <<packet>>
    BY DEF Advert
  <2>. HIDE DEF packet
  <2>8. out \in Outs /\ \A i \in DOMAIN out : Own(out[i], c) /\ out[i].type # "JoinRoom"
    BY <2>6, <2>7, WritesAllowed
  <2>9. u.mode = "host" => Latched(u)
    BY <2>2, <2>3, NoConnAssumption DEF Latched, Speaks
  <2>. HIDE DEF u, out, u0, c, m
  <2>. QED  BY <1>1, <2>1, <2>2, <2>3, <2>4, <2>8, <2>9
<1>8. CASE OnStartDuel(p)
  <2>. DEFINE u == [u0 EXCEPT !.inDuel = TRUE, !.screen = "duel"]
  <2>1. Handled(p, u, <<>>) /\ <<>> \in Outs /\ Receives(p, "StartDuel")
    BY <1>8, WritesAllowed DEF OnStartDuel
  <2>2. /\ u.sess = u0.sess /\ u.mode = u0.mode /\ u.opponent = u0.opponent
        /\ u.clean = u0.clean /\ u.remoteDeck = u0.remoteDeck
        /\ u.remoteReady = u0.remoteReady
    BY <1>0 DEF UIState
  <2>3. u.opponent = Belief(m, u0.opponent)
    BY <1>2, <2>1, <2>2 DEF Belief
  <2>4. u.mode = "host" => Latched(u)
    BY <1>2, <2>1, <2>2 DEF Latched
  <2>. HIDE DEF u, u0, c, m
  <2>. QED  BY <1>1, <1>2, <2>1, <2>2, <2>3, <2>4
<1>. QED  BY <1>3, <1>4, <1>5, <1>6, <1>7, <1>8 DEF HandleNetMessage

\* The buttons.
LEMMA ButtonTalk ==
    ASSUME Grounds, NEW p \in Player, PlayerStep(p) \/ PlayerClick(p)
    PROVE  TalkInv'
<1>. DEFINE u0 == ui[p]
            c == Session(p)
<1>0. /\ u0 \in UIState /\ u0.sess \in Nat /\ (Online(p) => c \in Conn)
      /\ Latched(u0)
  BY DEF Grounds, LobbyInv, SessionsExist, UIState, TalkInv
<1>1. ASSUME NEW mode \in {"host", "client"}, NEW request, MayOpen(p),
             Becomes(p, Opened(u0, mode)), Connect(<<p, u0.sess + 1>>, request),
             request.type \in {"CreateRoom", "JoinRoom"},
             mode = "host" => request.type # "JoinRoom"
      PROVE  TalkInv'
  <2>. DEFINE v == [u0 EXCEPT !.sess = u0.sess + 1, !.mode = mode,
                              !.handshakeSent = FALSE, !.opponent = NoConn]
              clean == u0.remoteDeck = NoDeck /\ ~u0.remoteReady
              u == Opened(u0, mode)
              d == <<p, u0.sess + 1>>
  <2>1. u0.sess + 1 \in Nat /\ clean \in BOOLEAN
    BY <1>0
  <2>2. /\ v \in UIState /\ v.sess = u0.sess + 1 /\ v.mode = mode
        /\ v.opponent = NoConn /\ v.remoteDeck = u0.remoteDeck
        /\ v.remoteReady = u0.remoteReady
    BY <1>0, <2>1 DEF UIState
  <2>3. u = [v EXCEPT !.clean = clean]
    BY DEF Opened
  <2>. HIDE DEF u, v
  <2>4. /\ u.sess = u0.sess + 1 /\ u.mode = mode /\ u.opponent = NoConn
        /\ u.clean <=> clean
        /\ u.remoteDeck = u0.remoteDeck /\ u.remoteReady = u0.remoteReady
    BY <2>1, <2>2, <2>3 DEF UIState
  <2>5. Latched(u)
    BY <2>4 DEF Latched
  <2>6. d \in Conn /\ d = <<p, u.sess>> /\ (u.sess # u0.sess \/ ~Online(p))
    BY <1>1, <2>4 DEF MayOpen
  <2>7. Becomes(p, u) /\ Own(request, d) /\ (u.mode = "host" => request.type # "JoinRoom")
    BY <1>1, <2>4 DEF u, Own
  <2>. HIDE DEF d, u0
  <2>8. Connect(d, request)
    BY <1>1 DEF d
  <2>. QED  BY <2>4, <2>5, <2>6, <2>7, <2>8, OpenTalk DEF u0
<1>2. ASSUME NEW u, Online(p), Becomes(p, u), u.mode = "offline", Close(c)
      PROVE  TalkInv'
  BY <1>0, <1>2, CloseTalk
<1>3. ASSUME NEW u, NEW out \in Outs, Online(p), Announces(p, u, out),
             u.sess = u0.sess, u.mode = u0.mode, u.opponent = u0.opponent,
             u.clean = u0.clean, u.remoteDeck = u0.remoteDeck,
             u.remoteReady = u0.remoteReady,
             \A i \in DOMAIN out : Own(out[i], c) /\ out[i].type # "JoinRoom"
      PROVE  TalkInv'
  <2>1. Becomes(p, u) /\ ClientTurn(c, FALSE, out) /\ c \in Conn
    BY <1>0, <1>3 DEF Announces
  <2>2. Latched(u)
    BY <1>0, <1>3 DEF Latched
  <2>3. u.opponent = IF FALSE THEN Belief(Head(toClient[c]), ui[p].opponent)
                              ELSE ui[p].opponent
    BY <1>3
  <2>. QED  BY <1>3, <2>1, <2>2, <2>3, TurnTalk
<1>4. CASE StartRelayCreate(p)
  <2>. DEFINE request == [type |-> "CreateRoom"]
  <2>1. request.type = "CreateRoom"
    OBVIOUS
  <2>. HIDE DEF request
  <2>2. MayOpen(p) /\ Becomes(p, Opened(u0, "host")) /\ Connect(<<p, u0.sess + 1>>, request)
    BY <1>4 DEF StartRelayCreate, request
  <2>. QED  BY <1>1, <2>1, <2>2
<1>5. CASE StartRelayJoin(p)
  <2>1. PICK code \in Code :
          Connect(<<p, u0.sess + 1>>, [type |-> "JoinRoom", code |-> code])
    BY <1>5 DEF StartRelayJoin
  <2>. DEFINE request == [type |-> "JoinRoom", code |-> code]
  <2>2. request.type = "JoinRoom"
    OBVIOUS
  <2>. HIDE DEF request
  <2>3. MayOpen(p) /\ Becomes(p, Opened(u0, "client")) /\ Connect(<<p, u0.sess + 1>>, request)
    BY <1>5, <2>1 DEF StartRelayJoin, request
  <2>. QED  BY <1>1, <2>2, <2>3
<1>6. CASE LeaveRoom(p)
  <2>. DEFINE u == [Offline(u0) EXCEPT
                      !.ready = FALSE, !.remoteDeck = NoDeck,
                      !.remoteReady = FALSE, !.handshakeSent = FALSE]
  <2>1. u.mode = "offline"
    BY <1>0 DEF Offline, UIState
  <2>2. Online(p) /\ Becomes(p, u) /\ Close(c)
    BY <1>6 DEF LeaveRoom
  <2>. HIDE DEF u, c
  <2>. QED  BY <1>2, <2>1, <2>2
<1>7. CASE BackOut(p)
  <2>. DEFINE u == Offline(u0)
  <2>1. u.mode = "offline"
    BY <1>0 DEF Offline, UIState
  <2>2. Online(p) /\ Becomes(p, u) /\ Close(c)
    BY <1>7 DEF BackOut
  <2>. HIDE DEF u, c
  <2>. QED  BY <1>2, <2>1, <2>2
<1>8. CASE LeaveDuel(p)
  <2>. DEFINE u == [Offline(u0) EXCEPT !.inDuel = FALSE, !.screen = "room"]
  <2>1. u.mode = "offline"
    BY <1>0 DEF Offline, UIState
  <2>2. Online(p) /\ Becomes(p, u) /\ Close(c)
    BY <1>8 DEF LeaveDuel
  <2>. HIDE DEF u, c
  <2>. QED  BY <1>2, <2>1, <2>2
<1>9. CASE LeaveLostDuel(p)
  <2>. DEFINE u == [u0 EXCEPT !.inDuel = FALSE, !.screen = "room"]
  <2>1. /\ u.sess = u0.sess /\ u.mode = u0.mode /\ u.opponent = u0.opponent
        /\ u.clean = u0.clean /\ u.remoteDeck = u0.remoteDeck
        /\ u.remoteReady = u0.remoteReady
    BY <1>0 DEF UIState
  <2>2. Becomes(p, u) /\ UNCHANGED relayVars
    BY <1>9 DEF LeaveLostDuel
  <2>3. Latched(u)
    BY <1>0, <2>1 DEF Latched
  <2>. HIDE DEF u
  <2>. QED  BY <2>1, <2>2, <2>3, StayTalk
<1>10. CASE PickDeck(p)
  <2>1. PICK x \in Deck :
          Announces(p, [u0 EXCEPT !.deck = x],
                    <<LobbyPacket(FALSE, <<Session(p), x>>, "nothing")>>)
    BY <1>10 DEF PickDeck, Clicks
  <2>. DEFINE u == [u0 EXCEPT !.deck = x]
              packet == LobbyPacket(FALSE, <<Session(p), x>>, "nothing")
  <2>2. Online(p) /\ <<Session(p), x>> \in Tags
    BY <1>0, <1>10 DEF PickDeck, InRoom, Tags
  <2>3. /\ u.sess = u0.sess /\ u.mode = u0.mode /\ u.opponent = u0.opponent
        /\ u.clean = u0.clean /\ u.remoteDeck = u0.remoteDeck
        /\ u.remoteReady = u0.remoteReady
    BY <1>0 DEF UIState
  <2>4. <<packet>> \in Outs /\ Own(packet, c) /\ packet.type # "JoinRoom"
    BY <1>0, <2>2, WritesAllowed, OwnPackets DEF Says
  <2>. HIDE DEF u, packet
  <2>5. Announces(p, u, <<packet>>)
    BY <2>1 DEF u, packet
  <2>6. \A i \in DOMAIN <<packet>> : Own(<<packet>>[i], c) /\ <<packet>>[i].type # "JoinRoom"
    BY <2>4
  <2>. HIDE DEF u0, c
  <2>. QED  BY <1>3, <2>2, <2>3, <2>4, <2>5, <2>6
<1>11. CASE ToggleReady(p)
  <2>. DEFINE u == [u0 EXCEPT !.ready = ~u0.ready]
              say == IF u0.ready THEN "no" ELSE "yes"
              packet == LobbyPacket(FALSE, NoDeck, say)
  <2>1. Online(p) /\ Announces(p, u, <<packet>>) /\ say \in Says
    BY <1>11 DEF ToggleReady, InRoom, Clicks, Says
  <2>2. /\ u.sess = u0.sess /\ u.mode = u0.mode /\ u.opponent = u0.opponent
        /\ u.clean = u0.clean /\ u.remoteDeck = u0.remoteDeck
        /\ u.remoteReady = u0.remoteReady
    BY <1>0 DEF UIState
  <2>. HIDE DEF say
  <2>3. <<packet>> \in Outs /\ Own(packet, c) /\ packet.type # "JoinRoom"
    BY <1>0, <2>1, WritesAllowed, OwnPackets
  <2>. HIDE DEF u, packet
  <2>4. \A i \in DOMAIN <<packet>> : Own(<<packet>>[i], c) /\ <<packet>>[i].type # "JoinRoom"
    BY <2>3
  <2>. HIDE DEF u0, c
  <2>. QED  BY <1>3, <2>1, <2>2, <2>3, <2>4
<1>12. CASE SendStartDuel(p)
  <2>. DEFINE u == [u0 EXCEPT !.inDuel = TRUE, !.screen = "duel"]
              packet == StartDuel(u0.remoteDeck)
  <2>1. Online(p) /\ u0.remoteDeck \in Tags
    BY <1>0, <1>12 DEF SendStartDuel, InRoom, CanStart, UIState
  <2>2. Announces(p, u, <<packet>>) \/ Announces(p, u0, <<packet>>)
    BY <1>12 DEF SendStartDuel, Clicks
  <2>3. /\ u.sess = u0.sess /\ u.mode = u0.mode /\ u.opponent = u0.opponent
        /\ u.clean = u0.clean /\ u.remoteDeck = u0.remoteDeck
        /\ u.remoteReady = u0.remoteReady
    BY <1>0 DEF UIState
  <2>4. <<packet>> \in Outs /\ Own(packet, c) /\ packet.type # "JoinRoom"
    BY <1>0, <2>1, WritesAllowed, OwnPackets
  <2>. HIDE DEF u, packet
  <2>5. \A i \in DOMAIN <<packet>> : Own(<<packet>>[i], c) /\ <<packet>>[i].type # "JoinRoom"
    BY <2>4
  <2>. HIDE DEF u0, c
  <2>. QED  BY <1>3, <2>1, <2>2, <2>3, <2>4, <2>5
<1>. QED  BY <1>4, <1>5, <1>6, <1>7, <1>8, <1>9, <1>10, <1>11, <1>12
          DEF PlayerStep, PlayerClick

\* Every step.
LEMMA TalkNext == Grounds /\ [LobbyNext]_lobbyVars => TalkInv'
<1>. SUFFICES ASSUME Grounds, [LobbyNext]_lobbyVars PROVE TalkInv'
  OBVIOUS
<1>1. CASE \E c \in Conn : ServerStep(c)
  BY <1>1, ServeTalk DEF ServerStep
<1>2. CASE \E c \in Conn : ConnectionBreaks(c) /\ UNCHANGED ui
  BY <1>2, BreakTalk DEF ConnectionBreaks
<1>3. CASE \E p \in Player : ProgramStep(p)
  BY <1>3, HandlerTalk DEF ProgramStep
<1>4. CASE \E p \in Player : PlayerStep(p) /\ UNCHANGED events
  BY <1>4, ButtonTalk
<1>5. CASE \E p \in Player : PlayerClick(p)
  BY <1>5, ButtonTalk
<1>6. CASE UNCHANGED lobbyVars
  BY <1>6 DEF lobbyVars, relayVars, Grounds, TalkInv, ConnTalk, HostTalk, GuestOf, Session
<1>. QED  BY <1>1, <1>2, <1>3, <1>4, <1>5, <1>6 DEF LobbyNext

\* In the beginning nobody is online.
LEMMA TalkInit == LobbyInit => TalkInv
BY DEF LobbyInit, RelayInit, TalkInv, ConnTalk, HostTalk, Latched

\* What a host remembers of an opponent's deck and readiness, in a session that
\* began without latches, is the present opponent's, in whatever order the threads
\* of the relay served guests who came and went (UI::handleNetMessage).
THEOREM LatchesSafe == LobbySpec => []LatchesFollowOpponent
<1>1. LobbyInit => Grounds
  BY LobbyStart, SeatsInit, ToldInit, TalkInit DEF Grounds
<1>2. Grounds /\ [LobbyNext]_lobbyVars => Grounds'
  <2>. SUFFICES ASSUME Grounds, [LobbyNext]_lobbyVars PROVE Grounds'
    OBVIOUS
  <2>1. [RelayNext]_relayVars /\ LobbyInv'
    BY LobbyStep DEF Grounds
  <2>2. SeatsAgree' /\ ToldInv'
    BY <2>1, SeatsNext, ToldNext DEF Grounds, LobbyInv
  <2>. QED  BY <2>1, <2>2, TalkNext DEF Grounds
<1>3. Grounds => LatchesFollowOpponent
  BY DEF Grounds, TalkInv, Latched, LatchesFollowOpponent
<1>. QED  BY <1>1, <1>2, <1>3, PTL DEF LobbySpec

-----------------------------------------------------------------------------
(* A settled pair agrees.                                                  *)
(*                                                                         *)
(* What p knows of q, once p has read its own channel and then what q has  *)
(* written and the server not yet forwarded, is what q shows; or it is     *)
(* nothing, and q has still to be told of p and will then send all it      *)
(* shows (mpKickoffHandshake).  Nobody knows anything while alone.         *)

\* What a program shows of itself.
Aspect == {"deck", "ready"}
Unsaid(a)  == IF a = "deck" THEN NoDeck ELSE "nothing"
Unknown(a) == IF a = "deck" THEN NoDeck ELSE "no"
Shows(c, u, a) == IF a = "deck" THEN IF u.deck = NoDeck THEN NoDeck ELSE <<c, u.deck>>
                                ELSE IF u.ready THEN "yes" ELSE "no"
Knows(u, a) == IF a = "deck" THEN u.remoteDeck
                             ELSE IF u.remoteReady THEN "yes" ELSE "no"

\* A reader who knows v and reads f knows Now(f, v, a).
Sets(f, a) == f.type = "RoomClosed" \/ (f.type = "Lobby" /\ f[a] # Unsaid(a))
Value(f, a) == IF f.type = "RoomClosed" THEN Unknown(a) ELSE f[a]
Now(f, v, a) == IF Sets(f, a) THEN Value(f, a) ELSE v
\* One who knows v and reads s knows x.
Ends(s, v, x, a) ==
    \/ x = v /\ \A i \in DOMAIN s : ~Sets(s[i], a)
    \/ \E i \in DOMAIN s : /\ Sets(s[i], a) /\ x = Value(s[i], a)
                           /\ \A j \in DOMAIN s : i < j => ~Sets(s[j], a)

\* Who reads nothing knows what it knew.
LEMMA EndsNothing == ASSUME NEW v, NEW x, NEW a PROVE Ends(<<>>, v, x, a) <=> x = v
BY DEF Ends

\* Who reads one frame knows what the frame says, or what it knew.
LEMMA EndsOne == ASSUME NEW f, NEW v, NEW a PROVE Ends(<<f>>, v, Now(f, v, a), a)
<1>1. DOMAIN <<f>> = {1} /\ <<f>>[1] = f
  OBVIOUS
<1>. DEFINE s == <<f>>
<1>. HIDE DEF s
<1>2. CASE Sets(f, a)
  <2>1. \A j \in {1} : ~(1 < j)
    OBVIOUS
  <2>. QED  BY <1>1, <1>2, <2>1 DEF Ends, Now, s
<1>3. CASE ~Sets(f, a)
  BY <1>1, <1>3 DEF Ends, Now, s
<1>. QED  BY <1>2, <1>3

\* The first frame may be read ahead of the rest.
LEMMA EndsTail ==
    ASSUME NEW S, NEW s \in Seq(S), s # <<>>, NEW v, NEW x, NEW a, Ends(s, v, x, a)
    PROVE  Ends(Tail(s), Now(Head(s), v, a), x, a)
<1>. DEFINE t == Tail(s)
<1>1. /\ Head(s) = s[1] /\ 1 \in DOMAIN s
      /\ \A j \in DOMAIN t : j \in Nat \ {0} /\ j + 1 \in DOMAIN s /\ t[j] = s[j + 1]
      /\ \A j \in DOMAIN s : /\ j \in Nat \ {0}
                             /\ j # 1 => j - 1 \in DOMAIN t /\ t[j - 1] = s[j]
  BY TailIs, HeadTailProperties, LenProperties
<1>. HIDE DEF t
<1>2. CASE x = v /\ \A i \in DOMAIN s : ~Sets(s[i], a)
  <2>1. Now(Head(s), v, a) = v
    BY <1>1, <1>2 DEF Now
  <2>2. \A i \in DOMAIN t : ~Sets(t[i], a)
    BY <1>1, <1>2
  <2>. QED  BY <1>2, <2>1, <2>2 DEF Ends, t
<1>3. ASSUME NEW i \in DOMAIN s, Sets(s[i], a), x = Value(s[i], a),
             \A j \in DOMAIN s : i < j => ~Sets(s[j], a)
      PROVE  Ends(t, Now(Head(s), v, a), x, a)
  <2>1. CASE i = 1
    <3>1. Now(Head(s), v, a) = x
      BY <1>1, <1>3, <2>1 DEF Now
    <3>2. ASSUME NEW j \in DOMAIN t PROVE ~Sets(t[j], a)
      <4>1. j \in Nat \ {0} /\ j + 1 \in DOMAIN s /\ t[j] = s[j + 1]
        BY <1>1
      <4>2. i < j + 1
        BY ONLY <2>1, <4>1
      <4>. QED  BY <1>3, <4>1, <4>2
    <3>. QED  BY <3>1, <3>2 DEF Ends
  <2>2. CASE i # 1
    <3>1. i \in Nat /\ i - 1 \in DOMAIN t /\ t[i - 1] = s[i]
      BY <1>1, <2>2
    <3>2. ASSUME NEW j \in DOMAIN t, i - 1 < j PROVE ~Sets(t[j], a)
      <4>1. j \in Nat \ {0} /\ j + 1 \in DOMAIN s /\ t[j] = s[j + 1]
        BY <1>1
      <4>2. i < j + 1
        BY ONLY <3>1, <3>2, <4>1
      <4>. QED  BY <1>3, <4>1, <4>2
    <3>. QED  BY <1>3, <3>1, <3>2 DEF Ends
  <2>. QED  BY <2>1, <2>2
<1>. QED  BY <1>2, <1>3 DEF Ends, t

\* One channel is read, and then what is written to it.
LEMMA EndsConcat ==
    ASSUME NEW S, NEW s \in Seq(S), NEW t \in Seq(S), NEW v, NEW x, NEW y, NEW a,
           Ends(s, v, x, a), Ends(t, x, y, a)
    PROVE  Ends(s \o t, v, y, a)
<1>. DEFINE n == Len(s)
            r == s \o t
<1>1. /\ n \in Nat /\ DOMAIN s = 1..n
      /\ \A i \in DOMAIN t : i \in Nat \ {0} /\ n + i \in DOMAIN r /\ r[n + i] = t[i]
      /\ \A i \in DOMAIN s : i \in DOMAIN r /\ r[i] = s[i]
      /\ \A i \in DOMAIN r : i \in Nat
  BY ConcatProperties, LenProperties
<1>2. \A i \in DOMAIN r : i \in DOMAIN s \/ (i - n \in DOMAIN t /\ r[i] = t[i - n])
  BY ConcatProperties, LenProperties
<1>. HIDE DEF n, r
<1>3. CASE y = x /\ \A i \in DOMAIN t : ~Sets(t[i], a)
  <2>1. CASE x = v /\ \A i \in DOMAIN s : ~Sets(s[i], a)
    <3>1. \A i \in DOMAIN r : ~Sets(r[i], a)
      BY <1>1, <1>2, <1>3, <2>1
    <3>. QED  BY <1>3, <2>1, <3>1 DEF Ends, r
  <2>2. ASSUME NEW i \in DOMAIN s, Sets(s[i], a), x = Value(s[i], a),
               \A j \in DOMAIN s : i < j => ~Sets(s[j], a)
        PROVE  Ends(r, v, y, a)
    <3>1. i \in DOMAIN r /\ r[i] = s[i]
      BY <1>1
    <3>2. ASSUME NEW j \in DOMAIN r, i < j PROVE ~Sets(r[j], a)
      BY <1>1, <1>2, <1>3, <2>2, <3>2
    <3>. QED  BY <1>3, <2>2, <3>1, <3>2 DEF Ends
  <2>. QED  BY <2>1, <2>2 DEF Ends, r
<1>4. ASSUME NEW i \in DOMAIN t, Sets(t[i], a), y = Value(t[i], a),
             \A j \in DOMAIN t : i < j => ~Sets(t[j], a)
      PROVE  Ends(r, v, y, a)
  <2>1. i \in Nat \ {0} /\ n + i \in DOMAIN r /\ r[n + i] = t[i]
    BY <1>1
  <2>2. ASSUME NEW j \in DOMAIN r, n + i < j PROVE ~Sets(r[j], a)
    <3>1. j \in Nat /\ j \notin DOMAIN s
      BY <1>1, <2>1, <2>2
    <3>2. j - n \in DOMAIN t /\ r[j] = t[j - n]
      BY <1>2, <3>1
    <3>3. i < j - n
      BY <1>1, <2>1, <2>2, <3>1
    <3>. QED  BY <1>4, <3>2, <3>3
  <2>. QED  BY <1>4, <2>1, <2>2 DEF Ends
<1>. QED  BY <1>3, <1>4 DEF Ends, r

\* One more frame is read last.
LEMMA EndsAppend ==
    ASSUME NEW S, NEW s \in Seq(S), NEW f \in S, NEW v, NEW x, NEW a, Ends(s, v, x, a)
    PROVE  Ends(Append(s, f), v, Now(f, x, a), a)
<1>1. Append(s, f) = s \o <<f>> /\ <<f>> \in Seq(S)
  OBVIOUS
<1>2. Ends(<<f>>, x, Now(f, x, a), a)
  BY EndsOne
<1>. QED  BY <1>1, <1>2, EndsConcat

\* Where the last frame says something, what the reader knew before is of no account.
LEMMA EndsSet ==
    ASSUME NEW S, NEW s \in Seq(S), NEW f \in S, NEW v, NEW a, Sets(f, a)
    PROVE  Ends(Append(s, f), v, Value(f, a), a)
<1>1. /\ Len(s) \in Nat /\ DOMAIN Append(s, f) = 1..(Len(s) + 1)
      /\ Append(s, f)[Len(s) + 1] = f
  BY LenProperties, AppendProperties
<1>. DEFINE r == Append(s, f)
            n == Len(s) + 1
<1>2. n \in DOMAIN r /\ r[n] = f /\ \A j \in DOMAIN r : ~(n < j)
  BY <1>1
<1>. HIDE DEF r, n
<1>. QED  BY <1>2 DEF Ends, r

\* A reader who ends in x whatever it begins with: so does one who begins with
\* something else, or ends where it began.
LEMMA EndsOther ==
    ASSUME NEW s, NEW v, NEW w, NEW x, NEW a, Ends(s, v, x, a)
    PROVE  Ends(s, w, x, a) \/ Ends(s, w, w, a)
BY DEF Ends

-----------------------------------------------------------------------------
(* Who shares a room with whom.                                            *)

Here(p) == Online(p) /\ up[Session(p)]
\* The other connection in c's room.
Mate(c) == IF roomOf[c] = NoCode THEN NoConn ELSE PeerOf(rooms[roomOf[c]], c)
\* Connection h is or was in a room.
Known(h) == h \in Conn /\ (roomOf[h] # NoCode \/ thread[h] = "ended")
\* d is a guest of h, who may have left.
Hosted(d, h) ==
    /\ h \in Conn /\ GuestOf(d)
    /\ \/ rooms[roomOf[d]].host = h
       \/ rooms[roomOf[d]].host = NoConn /\ thread[h] = "ended"

\* Mates are each other's.
LEMMA MateIs ==
    ASSUME Grounds, NEW c \in Conn
    PROVE  /\ Mate(c) \in Someone /\ Mate(c) # c
           /\ Mate(c) \in Conn =>
                /\ Mate(Mate(c)) = c
                /\ roomOf[c] \in Code /\ roomOf[c] # NoCode /\ roomOf[Mate(c)] = roomOf[c]
                /\ \/ c = rooms[roomOf[c]].host /\ Mate(c) = rooms[roomOf[c]].guest
                   \/ c = rooms[roomOf[c]].guest /\ Mate(c) = rooms[roomOf[c]].host
<1>. DEFINE k == roomOf[c]
<1>1. CASE k = NoCode
  BY <1>1, NoConnAssumption DEF Mate, Someone
<1>2. CASE k # NoCode
  <2>1. /\ k \in Code /\ c # NoConn
        /\ c \in {rooms[k].host, rooms[k].guest}
        /\ rooms[k].host \in Someone /\ rooms[k].guest \in Someone
        /\ rooms[k].host \in Conn => roomOf[rooms[k].host] = k /\ rooms[k].host # rooms[k].guest
        /\ rooms[k].guest \in Conn => roomOf[rooms[k].guest] = k
    BY <1>2, SeatFacts, SeatsAgreeIs DEF ConnSound, Grounds, LobbyInv
  <2>. DEFINE h == rooms[k].host
              g == rooms[k].guest
  <2>2. h # g
    BY <2>1, SeatFacts DEF Someone
  <2>3. Mate(c) = IF c = h THEN g ELSE h
    BY <1>2, <2>1 DEF Mate, PeerOf
  <2>4. Mate(c) \in Conn => Mate(Mate(c)) = c
    <3>1. CASE c = h
      BY <1>2, <2>1, <2>2, <2>3, <3>1 DEF Mate, PeerOf
    <3>2. CASE c = g
      BY <1>2, <2>1, <2>2, <2>3, <3>2 DEF Mate, PeerOf
    <3>. QED  BY <2>1, <3>1, <3>2
  <2>. QED  BY <1>2, <2>1, <2>2, <2>3, <2>4
<1>. QED  BY <1>1, <1>2

\* A room notice names somebody who is known, and says so of the next state too.
LEMMA HostedKnown ==
    ASSUME Grounds, NEW d \in Conn, NEW h, Hosted(d, h)
    PROVE  /\ Known(h) /\ h # NoConn
           /\ Mate(d) # NoConn => Mate(d) = h
           /\ roomOf[d] # NoCode
<1>1. /\ h \in Conn /\ h # NoConn /\ GuestOf(d) /\ roomOf[d] \in Code /\ roomOf[d] # NoCode
      /\ rooms[roomOf[d]].host \in Conn => roomOf[rooms[roomOf[d]].host] = roomOf[d]
      /\ d # NoConn
  BY SeatFacts DEF Hosted, GuestOf, Grounds, LobbyInv
<1>2. rooms[roomOf[d]].host # d
  BY <1>1, SeatFacts DEF GuestOf, Grounds, LobbyInv
<1>3. Mate(d) = rooms[roomOf[d]].host
  BY <1>1, <1>2 DEF Mate, PeerOf, GuestOf
<1>. QED  BY <1>1, <1>3 DEF Hosted, Known

-----------------------------------------------------------------------------
(* The invariant.                                                          *)

Joined(f) == f.type \in {"RoomJoined", "RoomPeerJoined"}
\* d has still to be told that c is in its room.
Coming(d, c) ==
    \/ \E i \in DOMAIN toClient[d] : Joined(toClient[d][i]) /\ toClient[d][i].who = c
    \/ \E i \in DOMAIN pending[c] : pending[c][i] = To(d, Notice("RoomPeerJoined", c))
    \/ \E i \in DOMAIN pending[d] : pending[d][i] = To(d, Notice("RoomJoined", c))

\* A client hosts no room, and hears of no host but its room's.
ClientTalk(q) ==
    LET d == Session(q)
    IN  Here(q) /\ ui[q].mode = "client" =>
          /\ \A k \in Code : rooms[k].host # d
          /\ \A i \in DOMAIN toServer[d] : toServer[d][i].type # "CreateRoom"
          /\ \A i \in DOMAIN toClient[d] :
               Joined(toClient[d][i]) => Hosted(d, toClient[d][i].who)
          /\ \A i \in DOMAIN pending[d] :
               pending[d][i].frame.type = "RoomJoined" => Hosted(d, pending[d][i].frame.who)
          /\ ui[q].opponent # NoConn => Hosted(d, ui[q].opponent)
\* Nobody is believed in who was never in a room.
KnownTalk(q) ==
    LET d == Session(q)
    IN  Here(q) =>
          /\ \A i \in DOMAIN toClient[d] : Joined(toClient[d][i]) => Known(toClient[d][i].who)
          /\ ui[q].opponent # NoConn => Known(ui[q].opponent)
\* The handshake was started with somebody.
Greeted(q) == Here(q) /\ ui[q].handshakeSent => ui[q].opponent # NoConn
\* What is said of an aspect last is true.
SaysSo(q) ==
    Here(q) => \A a \in Aspect :
      \E y : Ends(toServer[Session(q)], y, Shows(Session(q), ui[q], a), a)
\* Nothing is known of nobody.
Alone(p) ==
    LET c == Session(p)
    IN  Here(p) /\ ui[p].clean /\ Mate(c) = NoConn =>
          \A a \in Aspect : Ends(toClient[c], Knows(ui[p], a), Unknown(a), a)
\* What p is to know of q.
Hears(p, q) ==
    LET c == Session(p)
        d == Session(q)
    IN  Here(p) /\ Here(q) /\ ui[p].clean /\ Mate(c) = d =>
          \A a \in Aspect : \E x :
            /\ Ends(toClient[c], Knows(ui[p], a), x, a)
            /\ \/ Ends(toServer[d], x, Shows(d, ui[q], a), a)
               \/ /\ Coming(d, c) /\ ui[q].opponent # c
                  /\ Ends(toServer[d], x, Unknown(a), a)

Talks(q) == ClientTalk(q) /\ KnownTalk(q) /\ Greeted(q) /\ SaysSo(q) /\ Alone(q)
PairInv == \A q \in Player : Talks(q) /\ \A p \in Player : Hears(p, q)

\* Of a settled pair it leaves nothing open.
LEMMA PairSettled ==
    ASSUME Grounds, PairInv PROVE SettledPairAgrees
<1>. SUFFICES ASSUME NEW p \in Player, NEW q \in Player, Settled(p, q), ui[p].clean
              PROVE  /\ ui[p].remoteReady = ui[q].ready
                     /\ ui[q].deck # NoDeck => ui[p].remoteDeck = <<Session(q), ui[q].deck>>
  BY DEF SettledPairAgrees
<1>. DEFINE c == Session(p)
            d == Session(q)
<1>1. /\ Here(p) /\ Here(q) /\ c \in Conn /\ d \in Conn /\ d # NoConn /\ c # NoConn
      /\ ui[p].opponent = d /\ ui[q].opponent = c
      /\ toServer[d] = <<>> /\ toClient[c] = <<>> /\ toClient[d] = <<>>
      /\ pending[c] = <<>> /\ pending[d] = <<>>
      /\ ui[p] \in UIState /\ ui[q] \in UIState
      /\ thread[c] = "serving" /\ thread[d] = "serving"
  BY NoConnAssumption DEF Settled, Paired, Here, Grounds, LobbyInv, SessionsExist, TalkInv, ConnTalk
<1>2. Mate(c) = d
  <2>1. CASE ui[p].mode = "client"
    <3>1. Hosted(c, d)
      BY <1>1, <2>1 DEF PairInv, Talks, ClientTalk
    <3>2. Mate(c) = rooms[roomOf[c]].host
      BY <1>1, <3>1, SeatFacts DEF Hosted, GuestOf, Mate, PeerOf, Grounds, LobbyInv
    <3>. QED  BY <1>1, <3>1, <3>2 DEF Hosted
  <2>2. CASE ui[p].mode = "host"
    <3>1. ~GuestOf(c) /\ Leaves(toClient[c], d, told[c])
      BY <1>1, <2>2, HostIs DEF HostTalk, Here
    <3>2. told[c] = d
      BY <1>1, <3>1 DEF Leaves, Before
    <3>3. roomOf[c] # NoCode
      BY <1>1, <3>2 DEF Grounds, ToldInv, Untold
    <3>. DEFINE k == roomOf[c]
    <3>4. k \in Code /\ rooms[k].host = c /\ rooms[k].guest # c
      BY <1>1, <3>1, <3>3, SeatFacts, SeatsAgreeIs DEF ConnSound, GuestOf, Grounds, LobbyInv
    <3>5. rooms[k].guest = d
      BY <1>1, <3>2, <3>4 DEF Grounds, ToldInv, ToldOf
    <3>. QED  BY <3>3, <3>4, <3>5 DEF Mate, PeerOf
  <2>. QED  BY <1>1, <2>1, <2>2 DEF UIState, Here, Online
<1>3. ASSUME NEW a \in Aspect PROVE Knows(ui[p], a) = Shows(d, ui[q], a)
  <2>1. ~Coming(d, c)
    BY <1>1 DEF Coming
  <2>2. PICK x : /\ Ends(toClient[c], Knows(ui[p], a), x, a)
                 /\ Ends(toServer[d], x, Shows(d, ui[q], a), a)
    BY <1>1, <1>2, <2>1 DEF PairInv, Hears
  <2>. QED  BY <1>1, <2>2, EndsNothing
<1>4. Knows(ui[p], "deck") = Shows(d, ui[q], "deck")
      /\ Knows(ui[p], "ready") = Shows(d, ui[q], "ready")
  BY <1>3 DEF Aspect
<1>5. ui[p].remoteReady <=> ui[q].ready
  BY <1>4 DEF Knows, Shows
<1>6. ui[p].remoteReady \in BOOLEAN /\ ui[q].ready \in BOOLEAN
  BY <1>1 DEF UIState
<1>7. ui[p].remoteReady = ui[q].ready
  <2>1. \A r, t \in BOOLEAN : (r <=> t) => r = t
    OBVIOUS
  <2>. QED  BY ONLY <1>5, <1>6, <2>1
<1>. QED  BY <1>4, <1>7 DEF Knows, Shows

-----------------------------------------------------------------------------
(* The programs' steps.                                                    *)

\* Nothing changes but for those who are, or go, away.
LEMMA AwayPair ==
    ASSUME Grounds, PairInv, UNCHANGED <<rooms, roomOf, thread, pending>>,
           \A q \in Player : Here(q)' =>
             /\ Here(q) /\ ui'[q] = ui[q]
             /\ toClient'[Session(q)] = toClient[Session(q)]
             /\ toServer'[Session(q)] = toServer[Session(q)]
    PROVE  PairInv'
<1>1. \A q \in Player : Here(q)' => Session(q)' = Session(q)
  BY DEF Session
<1>2. \A c : Mate(c)' = Mate(c) /\ (GuestOf(c)' <=> GuestOf(c)) /\ (Known(c)' <=> Known(c))
  BY DEF Mate, GuestOf, Known
<1>3. \A c, h : Hosted(c, h)' <=> Hosted(c, h)
  BY <1>2 DEF Hosted
<1>4. ASSUME NEW q \in Player, Here(q)' PROVE Talks(q)'
  <2>1. Talks(q)
    BY DEF PairInv
  <2>2. ClientTalk(q)'
    BY <1>1, <1>3, <1>4, <2>1 DEF Talks, ClientTalk
  <2>3. KnownTalk(q)' /\ Greeted(q)' /\ SaysSo(q)'
    BY <1>1, <1>2, <1>4, <2>1 DEF Talks, KnownTalk, Greeted, SaysSo
  <2>4. Alone(q)'
    BY <1>1, <1>2, <1>4, <2>1 DEF Talks, Alone
  <2>. QED  BY <2>2, <2>3, <2>4 DEF Talks
<1>5. ASSUME NEW q \in Player, ~Here(q)' PROVE Talks(q)'
  BY <1>5 DEF Talks, ClientTalk, KnownTalk, Greeted, SaysSo, Alone
<1>6. ASSUME NEW p \in Player, NEW q \in Player, Here(p)', Here(q)' PROVE Hears(p, q)'
  <2>1. Hears(p, q)
    BY DEF PairInv
  <2>2. \A c : Coming(Session(q), c)' <=> Coming(Session(q), c)
    BY <1>1, <1>6 DEF Coming
  <2>. QED  BY <1>1, <1>2, <1>6, <2>1, <2>2 DEF Hears
<1>7. ASSUME NEW p \in Player, NEW q \in Player, ~Here(p)' \/ ~Here(q)' PROVE Hears(p, q)'
  BY <1>7 DEF Hears
<1>. QED  BY <1>4, <1>5, <1>6, <1>7 DEF PairInv

\* A session that is opened finds nobody, and knows of nobody if it is clean.
LEMMA OpenPair ==
    ASSUME Grounds, PairInv, NEW p \in Player, NEW c \in Conn, NEW u, NEW request,
           Becomes(p, u), c = <<p, u.sess>>, u.opponent = NoConn, ~u.handshakeSent,
           u.clean => \A a \in Aspect : Knows(u, a) = Unknown(a),
           request.type \in {"CreateRoom", "JoinRoom"},
           u.mode = "client" => request.type # "CreateRoom",
           Connect(c, request)
    PROVE  PairInv'
<1>0. /\ ui' = [ui EXCEPT ![p] = u] /\ ui \in [Player -> UIState]
      /\ UNCHANGED <<rooms, roomOf, pending, toClient>> /\ thread[c] = "new"
  BY DEF Becomes, Connect, Grounds, LobbyInv
<1>1. ui'[p] = u /\ \A q \in Player : q # p => ui'[q] = ui[q]
  BY <1>0
<1>2. /\ \A d \in Conn : d # c => /\ thread'[d] = thread[d]
                                  /\ toServer'[d] = toServer[d] /\ up'[d] = up[d]
      /\ toServer'[c] = <<request>> /\ thread'[c] = "serving"
  BY Channels DEF Connect
<1>3. /\ roomOf[c] = NoCode /\ toClient'[c] = <<>> /\ Mate(c)' = NoConn /\ Mate(c) = NoConn
      /\ \A k \in Code : rooms[k].host # c
      /\ \A i \in DOMAIN pending[c] : pending[c][i].frame.type # "RoomJoined"
      /\ \A d : Mate(d)' = Mate(d)
  <2>1. roomOf[c] = NoCode /\ toClient[c] = <<>>
    <3>1. ConnTalk(c)
      BY DEF Grounds, TalkInv
    <3>. QED  BY <1>0, <3>1, SeatFacts DEF ConnTalk, Grounds, LobbyInv
  <2>2. \A k \in Code : rooms[k].host # c
    BY <2>1, SeatFacts, NoCodeAssumption DEF Grounds, LobbyInv
  <2>3. ASSUME NEW i \in DOMAIN pending[c] PROVE pending[c][i].frame.type # "RoomJoined"
    <3>1. SendSound(c, pending[c][i])
      BY DEF Grounds, ToldInv, PendingSound
    <3>. QED  BY <2>1, <3>1 DEF SendSound, GuestOf
  <2>. QED  BY <1>0, <2>1, <2>2, <2>3 DEF Mate
<1>4. ASSUME NEW q \in Player, q # p
      PROVE  /\ Here(q)' <=> Here(q)
             /\ Session(q)' = Session(q)
             /\ Here(q) => /\ Session(q) \in Conn /\ Session(q) # c
                           /\ toServer'[Session(q)] = toServer[Session(q)]
  <2>1. Session(q)' = Session(q) /\ Session(q) # c /\ (Online(q)' <=> Online(q))
    BY <1>1, <1>4 DEF Session, Online
  <2>2. Online(q) => Session(q) \in Conn
    BY DEF Grounds, LobbyInv, SessionsExist
  <2>. QED  BY <1>2, <2>1, <2>2 DEF Here
<1>5. Session(p)' = c
  BY <1>1 DEF Session
<1>6. \A h : Known(h) => Known(h)'
  BY <1>0, <1>2 DEF Known
<1>7. \A d, h : Hosted(d, h) => Hosted(d, h)'
  <2>1. \A h \in Conn : thread[h] = "ended" => thread'[h] = "ended"
    BY <1>0, <1>2
  <2>. QED  BY <1>0, <2>1 DEF Hosted, GuestOf
<1>8. ASSUME NEW q \in Player, q # p PROVE Talks(q)'
  <2>1. Talks(q) /\ ui'[q] = ui[q]
    BY <1>1, <1>8 DEF PairInv
  <2>2. ClientTalk(q)'
    BY <1>0, <1>4, <1>7, <1>8, <2>1 DEF Talks, ClientTalk
  <2>3. KnownTalk(q)' /\ Greeted(q)' /\ SaysSo(q)'
    BY <1>0, <1>4, <1>6, <1>8, <2>1 DEF Talks, KnownTalk, Greeted, SaysSo
  <2>4. Alone(q)'
    BY <1>0, <1>3, <1>4, <1>8, <2>1 DEF Talks, Alone
  <2>. QED  BY <2>2, <2>3, <2>4 DEF Talks
<1>9. Talks(p)'
  <2>. DEFINE s == <<request>>
  <2>0. /\ toServer'[c] = s /\ DOMAIN s = {1} /\ s[1] = request /\ DOMAIN toClient'[c] = {}
    BY <1>2, <1>3
  <2>. HIDE DEF s
  <2>1. ClientTalk(p)'
    BY <1>0, <1>1, <1>3, <1>5, <2>0 DEF ClientTalk
  <2>2. KnownTalk(p)' /\ Greeted(p)'
    BY <1>1, <1>5, <2>0 DEF KnownTalk, Greeted
  <2>3. ASSUME NEW a \in Aspect PROVE Ends(s, Shows(c, u, a), Shows(c, u, a), a)
    BY <2>0 DEF Ends, Sets
  <2>4. SaysSo(p)'
    BY <1>1, <1>5, <2>0, <2>3 DEF SaysSo
  <2>5. Alone(p)'
    BY <1>1, <1>3, <1>5, EndsNothing DEF Alone
  <2>. QED  BY <2>1, <2>2, <2>4, <2>5 DEF Talks
<1>10. ASSUME NEW q \in Player, NEW r \in Player, q # p, r # p PROVE Hears(q, r)'
  <2>1. Hears(q, r)
    BY DEF PairInv
  <2>2. \A d, e : Coming(d, e)' <=> Coming(d, e)
    BY <1>0 DEF Coming
  <2>. QED  BY <1>0, <1>1, <1>3, <1>4, <1>10, <2>1, <2>2 DEF Hears
<1>11. ASSUME NEW q \in Player PROVE Hears(p, q)'
  <2>1. Here(q)' => Session(q)' \in Conn
    BY <1>4, <1>5
  <2>. QED  BY <1>3, <1>5, <2>1, NoConnAssumption DEF Hears
<1>12. ASSUME NEW q \in Player, q # p PROVE Hears(q, p)'
  <2>1. Here(q) => Mate(Session(q)) # c
    <3>. SUFFICES ASSUME Here(q), Mate(Session(q)) = c PROVE FALSE
      OBVIOUS
    <3>1. Mate(c) = Session(q)
      BY <1>4, <1>12, MateIs
    <3>. QED  BY <1>3, <1>4, <1>12, <3>1, NoConnAssumption
  <2>. QED  BY <1>3, <1>4, <1>5, <1>12, <2>1 DEF Hears
<1>. QED  BY <1>8, <1>9, <1>10, <1>11, <1>12 DEF PairInv

\* A program that reads a frame, perhaps, and writes what brings a reader who knew
\* what it showed, and one it has just been told of, to what it shows now.
LEMMA TurnPair ==
    ASSUME Grounds, PairInv, NEW p \in Player, NEW c \in Conn, c = Session(p), NEW u,
           Becomes(p, u), u.sess = ui[p].sess, u.mode = ui[p].mode,
           u.clean <=> ui[p].clean,
           NEW take \in BOOLEAN, NEW out \in Outs, ClientTurn(c, take, out),
           NEW m, take => m = Head(toClient[c]),
           \A i \in DOMAIN out : out[i].type # "CreateRoom",
           u.opponent = IF take THEN Belief(m, ui[p].opponent) ELSE ui[p].opponent,
           Here(p) /\ u.handshakeSent => u.opponent # NoConn,
           \A a \in Aspect : Knows(u, a) = IF take THEN Now(m, Knows(ui[p], a), a)
                                                   ELSE Knows(ui[p], a),
           \A a \in Aspect : Ends(out, Shows(c, ui[p], a), Shows(c, u, a), a),
           \A d \in Conn :
             Here(p) /\ take /\ Joined(m) /\ m.who = d /\ ui[p].opponent # d /\ Mate(c) = d =>
               \A a \in Aspect : Ends(out, Unknown(a), Shows(c, u, a), a)
    PROVE  PairInv'
<1>. DEFINE u0 == ui[p]
            s  == toServer[c]
            t  == toClient[c]
<1>0. /\ ui' = [ui EXCEPT ![p] = u] /\ ui \in [Player -> UIState]
      /\ UNCHANGED <<rooms, roomOf, thread, pending, up, told>>
  BY DEF Becomes, ClientTurn, Grounds, LobbyInv
<1>1. ui'[p] = u /\ \A q \in Player : q # p => ui'[q] = ui[q]
  BY <1>0
<1>2. /\ \A d \in Conn : d # c => toClient'[d] = toClient[d] /\ toServer'[d] = toServer[d]
      /\ toClient'[c] = IF take THEN Tail(t) ELSE t
      /\ up[c] => toServer'[c] = s \o out
      /\ take => t # <<>>
  BY Channels DEF ClientTurn
<1>3. /\ s \in Seq(RequestFrames \cup Frames) /\ out \in Seq(RequestFrames \cup Frames)
      /\ t \in Seq(NoticeFrames \cup Frames)
  BY Channels, OutsAssumption
<1>4. /\ take => 1 \in DOMAIN t /\ m = t[1]
      /\ \A i \in DOMAIN toClient'[c] : \E j \in DOMAIN t : toClient'[c][i] = t[j]
      /\ \A i \in DOMAIN t : (take => i # 1) =>
            \E j \in DOMAIN toClient'[c] : toClient'[c][j] = t[i]
  <2>1. CASE take
    <3>1. t # <<>> /\ toClient'[c] = Tail(t)
      BY <1>2, <2>1
    <3>2. /\ Head(t) = t[1] /\ 1 \in DOMAIN t
          /\ \A i \in DOMAIN Tail(t) : i + 1 \in DOMAIN t /\ Tail(t)[i] = t[i + 1]
          /\ \A i \in DOMAIN t : i # 1 =>
                i - 1 \in DOMAIN Tail(t) /\ Tail(t)[i - 1] = t[i]
      BY ONLY <1>3, <3>1, TailIs
    <3>3. m = t[1]
      BY <2>1, <3>2
    <3>4. ASSUME NEW i \in DOMAIN toClient'[c]
          PROVE  \E j \in DOMAIN t : toClient'[c][i] = t[j]
      BY <3>1, <3>2, <3>4
    <3>5. ASSUME NEW i \in DOMAIN t, i # 1
          PROVE  \E j \in DOMAIN toClient'[c] : toClient'[c][j] = t[i]
      <4>1. i - 1 \in DOMAIN Tail(t) /\ Tail(t)[i - 1] = t[i]
        BY ONLY <3>2, <3>5
      <4>. QED  BY ONLY <3>1, <4>1
    <3>. QED  BY <2>1, <3>2, <3>3, <3>4, <3>5
  <2>2. CASE ~take
    BY <1>2, <2>2
  <2>. QED  BY <2>1, <2>2
<1>5. ASSUME NEW i \in DOMAIN (s \o out)
       PROVE  \/ \E j \in DOMAIN s : (s \o out)[i] = s[j]
              \/ \E j \in DOMAIN out : (s \o out)[i] = out[j]
  BY ONLY <1>3, <1>5, ConcatFrom
<1>6. /\ \A d : Mate(d)' = Mate(d) /\ (Known(d)' <=> Known(d))
      /\ \A d, h : Hosted(d, h)' <=> Hosted(d, h)
  BY <1>0 DEF Mate, Known, Hosted, GuestOf
<1>7. ASSUME NEW q \in Player
      PROVE  /\ Here(q)' <=> Here(q)
             /\ Session(q)' = Session(q)
             /\ Here(q) => Session(q) \in Conn /\ Session(q) # NoConn
             /\ q # p => /\ Session(q) # c
                         /\ Here(q) => /\ toServer'[Session(q)] = toServer[Session(q)]
                                       /\ toClient'[Session(q)] = toClient[Session(q)]
  <2>1. Session(q)' = Session(q) /\ (Online(q)' <=> Online(q)) /\ (q # p => Session(q) # c)
    BY <1>1 DEF Session, Online
  <2>2. Online(q) => Session(q) \in Conn
    BY DEF Grounds, LobbyInv, SessionsExist
  <2>. QED  BY <1>0, <1>2, <2>1, <2>2, NoConnAssumption DEF Here
<1>8. Here(p) => up[c]
  BY DEF Here
<1>. HIDE DEF u0, s, t
<1>9. ASSUME NEW q \in Player, q # p PROVE Talks(q)'
  <2>1. Talks(q) /\ ui'[q] = ui[q]
    BY <1>1, <1>9 DEF PairInv
  <2>2. ClientTalk(q)'
    BY <1>0, <1>6, <1>7, <1>9, <2>1 DEF Talks, ClientTalk
  <2>3. KnownTalk(q)' /\ Greeted(q)' /\ SaysSo(q)'
    BY <1>0, <1>6, <1>7, <1>9, <2>1 DEF Talks, KnownTalk, Greeted, SaysSo
  <2>4. Alone(q)'
    BY <1>0, <1>6, <1>7, <1>9, <2>1 DEF Talks, Alone
  <2>. QED  BY <2>1, <2>2, <2>3, <2>4 DEF Talks
<1>10. ASSUME NEW v, NEW x, NEW a \in Aspect, v = Knows(u0, a), Ends(t, v, x, a)
      PROVE  Ends(toClient'[c], Knows(u, a), x, a)
  <2>1. CASE take
    <3>1. Ends(Tail(t), Now(Head(t), v, a), x, a)
      BY <1>2, <1>3, <1>10, <2>1, EndsTail
    <3>. QED  BY <1>2, <1>10, <2>1, <3>1 DEF t, u0
  <2>2. CASE ~take
    BY <1>2, <1>10, <2>2 DEF t, u0
  <2>. QED  BY <2>1, <2>2
<1>11. ASSUME NEW v, NEW x, NEW y, NEW a \in Aspect,
              Ends(s, v, x, a), Ends(out, x, y, a), Here(p)
       PROVE  Ends(toServer'[c], v, y, a)
  <2>1. Ends(s \o out, v, y, a)
    BY <1>3, <1>11, EndsConcat
  <2>. QED  BY <1>2, <1>8, <1>11, <2>1
<1>12. ASSUME Here(p) PROVE Talks(p)'
  <2>1. Talks(p)
    BY DEF PairInv
  <2>2. \/ u.opponent \in {u0.opponent, NoConn}
        \/ take /\ Joined(m) /\ u.opponent = m.who
    BY DEF Belief, Joined, u0
  <2>3. ClientTalk(p)'
    <3>. SUFFICES ASSUME u.mode = "client"
                  PROVE  /\ \A k \in Code : rooms[k].host # c
                         /\ \A i \in DOMAIN toServer'[c] : toServer'[c][i].type # "CreateRoom"
                         /\ \A i \in DOMAIN toClient'[c] :
                              Joined(toClient'[c][i]) => Hosted(c, toClient'[c][i].who)
                         /\ \A i \in DOMAIN pending[c] :
                              pending[c][i].frame.type = "RoomJoined"
                                => Hosted(c, pending[c][i].frame.who)
                         /\ u.opponent # NoConn => Hosted(c, u.opponent)
      BY <1>0, <1>1, <1>6, <1>7 DEF ClientTalk
    <3>1. /\ \A k \in Code : rooms[k].host # c
          /\ \A i \in DOMAIN s : s[i].type # "CreateRoom"
          /\ \A i \in DOMAIN t : Joined(t[i]) => Hosted(c, t[i].who)
          /\ \A i \in DOMAIN pending[c] :
               pending[c][i].frame.type = "RoomJoined" => Hosted(c, pending[c][i].frame.who)
          /\ u0.opponent # NoConn => Hosted(c, u0.opponent)
      BY <1>12, <2>1 DEF Talks, ClientTalk, s, t, u0
    <3>2. ASSUME NEW i \in DOMAIN toServer'[c] PROVE toServer'[c][i].type # "CreateRoom"
      <4>1. toServer'[c] = s \o out
        BY <1>2, <1>8, <1>12
      <4>2. i \in DOMAIN (s \o out)
        BY ONLY <3>2, <4>1, Zenon
      <4>3. \/ \E j \in DOMAIN s : (s \o out)[i] = s[j]
            \/ \E j \in DOMAIN out : (s \o out)[i] = out[j]
        BY <1>5, <4>2
      <4>. QED  BY <3>1, <4>1, <4>3
    <3>. QED  BY <1>4, <2>2, <3>1, <3>2
  <2>4. KnownTalk(p)'
    <3>1. /\ \A i \in DOMAIN t : Joined(t[i]) => Known(t[i].who)
          /\ u0.opponent # NoConn => Known(u0.opponent)
      BY <1>12, <2>1 DEF Talks, KnownTalk, t, u0
    <3>. QED  BY <1>1, <1>4, <1>6, <1>7, <2>2, <3>1 DEF KnownTalk
  <2>5. Greeted(p)'
    BY <1>1, <1>7 DEF Greeted
  <2>6. SaysSo(p)'
    <3>1. ASSUME NEW a \in Aspect PROVE \E y : Ends(toServer'[c], y, Shows(c, u, a), a)
      <4>1. PICK y : Ends(s, y, Shows(c, u0, a), a)
        BY <1>12, <2>1 DEF Talks, SaysSo, s, u0
      <4>. QED  BY <1>11, <1>12, <4>1 DEF u0
    <3>. QED  BY <1>1, <1>7, <3>1 DEF SaysSo
  <2>7. Alone(p)'
    <3>1. ASSUME u.clean, Mate(c) = NoConn, NEW a \in Aspect
          PROVE  Ends(toClient'[c], Knows(u, a), Unknown(a), a)
      <4>1. Ends(t, Knows(u0, a), Unknown(a), a)
        BY <1>12, <2>1, <3>1 DEF Talks, Alone, t, u0
      <4>. QED  BY <1>10, <4>1
    <3>. QED  BY <1>1, <1>6, <1>7, <3>1 DEF Alone
  <2>. QED  BY <2>3, <2>4, <2>5, <2>6, <2>7 DEF Talks
<1>13. ASSUME ~Here(p) PROVE Talks(p)'
  BY <1>7, <1>13 DEF Talks, ClientTalk, KnownTalk, Greeted, SaysSo, Alone
<1>14. \A q \in Player : q # p => (Coming(Session(q), c)' <=> Coming(Session(q), c)) \/ ~Here(q)
  BY <1>0, <1>7 DEF Coming
<1>15. ASSUME NEW q \in Player, NEW r \in Player, q # p, r # p PROVE Hears(q, r)'
  <2>1. Hears(q, r)
    BY DEF PairInv
  <2>2. Here(r) => \A d : Coming(Session(r), d)' <=> Coming(Session(r), d)
    BY <1>0, <1>7, <1>15 DEF Coming
  <2>. QED  BY <1>0, <1>1, <1>6, <1>7, <1>15, <2>1, <2>2 DEF Hears
<1>16. ASSUME NEW q \in Player PROVE Hears(p, q)'
  <2>. SUFFICES ASSUME Here(p), Here(q), u.clean, Mate(c) = Session(q), NEW a \in Aspect
                PROVE  \E x :
                         /\ Ends(toClient'[c], Knows(u, a), x, a)
                         /\ \/ Ends(toServer'[Session(q)], x, Shows(Session(q), ui'[q], a), a)
                            \/ /\ Coming(Session(q), c)' /\ ui'[q].opponent # c
                               /\ Ends(toServer'[Session(q)], x, Unknown(a), a)
    BY <1>1, <1>6, <1>7 DEF Hears
  <2>1. q # p
    BY MateIs
  <2>2. Hears(p, q)
    BY DEF PairInv
  <2>3. PICK x : /\ Ends(t, Knows(u0, a), x, a)
                 /\ \/ Ends(toServer[Session(q)], x, Shows(Session(q), ui[q], a), a)
                    \/ /\ Coming(Session(q), c) /\ ui[q].opponent # c
                       /\ Ends(toServer[Session(q)], x, Unknown(a), a)
    BY <2>2 DEF Hears, t, u0
  <2>4. Ends(toClient'[c], Knows(u, a), x, a)
    BY <1>10, <2>3
  <2>. QED  BY <1>1, <1>7, <1>14, <2>1, <2>3, <2>4
<1>17. ASSUME NEW q \in Player, q # p PROVE Hears(q, p)'
  <2>. SUFFICES ASSUME NEW d, d = Session(q), Here(q), Here(p), ui[q].clean, Mate(d) = c, NEW a \in Aspect
                PROVE  \E x :
                         /\ Ends(toClient[d], Knows(ui[q], a), x, a)
                         /\ \/ Ends(toServer'[c], x, Shows(c, u, a), a)
                            \/ /\ Coming(c, d)' /\ u.opponent # d
                               /\ Ends(toServer'[c], x, Unknown(a), a)
    BY <1>1, <1>6, <1>7, <1>17 DEF Hears
  <2>1. d \in Conn /\ d # NoConn /\ Mate(c) = d
    BY <1>7, MateIs
  <2>2. Hears(q, p)
    BY DEF PairInv
  <2>3. PICK x : /\ Ends(toClient[d], Knows(ui[q], a), x, a)
                 /\ \/ Ends(s, x, Shows(c, u0, a), a)
                    \/ /\ Coming(c, d) /\ u0.opponent # d
                       /\ Ends(s, x, Unknown(a), a)
    BY <2>2 DEF Hears, s, u0
  <2>4. Ends(out, Shows(c, u0, a), Shows(c, u, a), a)
    BY DEF u0
  <2>5. CASE Ends(s, x, Shows(c, u0, a), a)
    BY <1>11, <2>3, <2>4, <2>5
  <2>6. CASE Coming(c, d) /\ u0.opponent # d /\ Ends(s, x, Unknown(a), a)
    <3>1. CASE take /\ Joined(m) /\ m.who = d
      <4>1. Ends(out, Unknown(a), Shows(c, u, a), a)
        BY <2>1, <2>6, <3>1 DEF u0
      <4>. QED  BY <1>11, <2>3, <2>6, <4>1
    <3>2. CASE ~(take /\ Joined(m) /\ m.who = d)
      <4>1. u.opponent # d
        BY <2>1, <2>6, <3>2 DEF Belief, Joined, u0
      <4>2. Coming(c, d)'
        <5>1. ASSUME NEW i \in DOMAIN t, Joined(t[i]), t[i].who = d
              PROVE  \E j \in DOMAIN toClient'[c] : toClient'[c][j] = t[i]
          BY <1>4, <3>2, <5>1
        <5>2. CASE \E i \in DOMAIN t : Joined(t[i]) /\ t[i].who = d
          <6>1. PICK j \in DOMAIN toClient'[c] :
                  Joined(toClient'[c][j]) /\ toClient'[c][j].who = d
            BY <5>1, <5>2
          <6>. QED  BY <6>1 DEF Coming
        <5>3. CASE ~\E i \in DOMAIN t : Joined(t[i]) /\ t[i].who = d
          BY <1>0, <2>6, <5>3 DEF Coming, t
        <5>. QED  BY <5>2, <5>3
      <4>3. Ends(out, Unknown(a), Shows(c, u, a), a) \/ Ends(out, Unknown(a), Unknown(a), a)
        BY <2>4, EndsOther
      <4>. QED  BY <1>11, <2>3, <2>6, <4>1, <4>2, <4>3
    <3>. QED  BY <3>1, <3>2
  <2>. QED  BY <2>3, <2>5, <2>6
<1>. QED  BY <1>9, <1>12, <1>13, <1>15, <1>16, <1>17 DEF PairInv

-----------------------------------------------------------------------------
(* The server's steps.                                                     *)

\* What a thread that does not take or free a seat leaves as it is.
LEMMA SeatsStay ==
    ASSUME Grounds, NEW e \in Conn,
           SendPending(e) \/ RefuseSecondRoom(e) \/ HandleJoinError(e) \/ ForwardRaw(e)
    PROVE  /\ UNCHANGED <<roomOf, thread>>
           /\ \A k \in Code : /\ rooms'[k].host = rooms[k].host
                              /\ rooms'[k].guest = rooms[k].guest
<1>1. CASE ForwardRaw(e)
  BY <1>1, ForwardIs DEF Grounds, LobbyInv
<1>2. CASE SendPending(e) \/ RefuseSecondRoom(e) \/ HandleJoinError(e)
  BY <1>2 DEF SendPending, RefuseSecondRoom, HandleJoinError, Reads
<1>. QED  BY <1>1, <1>2

\* A new room is its creator's.
LEMMA CreateIs ==
    ASSUME Grounds, NEW e \in Conn, HandleCreate(e)
    PROVE  \E code \in Code : \E f :
             /\ ~Live(code) /\ roomOf[e] = NoCode
             /\ rooms'[code].host = e /\ rooms'[code].guest = NoConn
             /\ \A k \in Code : k # code => rooms'[k] = rooms[k]
             /\ roomOf'[e] = code /\ \A d \in Conn : d # e => roomOf'[d] = roomOf[d]
             /\ pending' = [pending EXCEPT ![e] = <<To(e, f)>>] /\ f.type = "RoomCreated"
             /\ UNCHANGED <<thread, toClient>>
<1>1. PICK code \in Code :
        /\ ~Live(code)
        /\ rooms' = [rooms EXCEPT ![code] = [NoRoom EXCEPT !.host = e]]
        /\ roomOf' = [roomOf EXCEPT ![e] = code]
        /\ pending' = [pending EXCEPT ![e] = <<To(e, [type |-> "RoomCreated", code |-> code])>>]
  BY DEF HandleCreate, WillSend
<1>. DEFINE f == [type |-> "RoomCreated", code |-> code]
<1>2. f.type = "RoomCreated"
  OBVIOUS
<1>. HIDE DEF f
<1>3. pending' = [pending EXCEPT ![e] = <<To(e, f)>>]
  BY <1>1 DEF f
<1>4. /\ rooms'[code].host = e /\ rooms'[code].guest = NoConn
      /\ \A k \in Code : k # code => rooms'[k] = rooms[k]
      /\ roomOf'[e] = code /\ \A d \in Conn : d # e => roomOf'[d] = roomOf[d]
  BY <1>1, Channels DEF NoRoom, TypeOK, RoomType
<1>. QED  BY <1>1, <1>2, <1>3, <1>4 DEF HandleCreate, Reads

\* A guest takes the seat next to the host, and both are to be told.
LEMMA JoinPair ==
    ASSUME Grounds, NEW e \in Conn, HandleJoin(e)
    PROVE  \E code \in Code, host \in Conn :
             /\ host # e /\ rooms[code].host = host /\ rooms[code].guest = NoConn
             /\ roomOf[e] = NoCode /\ roomOf[host] = code /\ code # NoCode
             /\ rooms'[code].host = host /\ rooms'[code].guest = e
             /\ \A k \in Code : k # code => rooms'[k] = rooms[k]
             /\ roomOf'[e] = code /\ \A d \in Conn : d # e => roomOf'[d] = roomOf[d]
             /\ pending[e] = <<>> /\ thread[e] = "serving"
             /\ pending'[e] = <<To(e, Notice("RoomJoined", host)),
                                To(host, Notice("RoomPeerJoined", e))>>
             /\ \A d \in Conn : d # e => pending'[d] = pending[d]
             /\ UNCHANGED <<thread, toClient>>
<1>1. PICK code \in Code, host \in Conn :
        /\ Live(code) /\ host = rooms[code].host /\ host # e
        /\ rooms[code].guest = NoConn
        /\ rooms' = [rooms EXCEPT ![code].guest = e]
        /\ roomOf' = [roomOf EXCEPT ![e] = code]
        /\ roomOf[e] = NoCode /\ thread[e] = "serving" /\ pending[e] = <<>>
        /\ pending' = [pending EXCEPT ![e] =
              <<To(e, Notice("RoomJoined", host)),
                To(host, Notice("RoomPeerJoined", e))>>]
        /\ UNCHANGED <<thread, told>>
  BY JoinIs DEF Grounds, LobbyInv
<1>2. /\ rooms \in [Code -> Rooms] /\ roomOf \in [Conn -> Code \cup {NoCode}]
      /\ pending \in [Conn -> Seq(Sends)]
  BY Channels DEF TypeOK, RoomType, OutType
<1>3. roomOf[host] = code /\ code # NoCode
  BY <1>1, SeatFacts, NoCodeAssumption DEF Grounds, LobbyInv
<1>4. /\ rooms'[code].host = host /\ rooms'[code].guest = e
      /\ \A k \in Code : k # code => rooms'[k] = rooms[k]
  BY <1>1, <1>2 DEF Rooms
<1>5. roomOf'[e] = code /\ \A d \in Conn : d # e => roomOf'[d] = roomOf[d]
  BY <1>1, <1>2
<1>6. /\ pending'[e] = <<To(e, Notice("RoomJoined", host)),
                         To(host, Notice("RoomPeerJoined", e))>>
      /\ \A d \in Conn : d # e => pending'[d] = pending[d]
  BY <1>1, <1>2
<1>7. UNCHANGED toClient
  BY DEF HandleJoin
<1>. QED  BY <1>1, <1>3, <1>4, <1>5, <1>6, <1>7

\* A guest stays its host's.
LEMMA ServedHosted ==
    ASSUME Grounds, NEW e \in Conn, ServeConn(e), NEW d \in Conn, up[d],
           NEW h, Hosted(d, h)
    PROVE  Hosted(d, h)'
<1>1. /\ h \in Conn /\ roomOf[d] \in Code /\ roomOf[d] # NoCode /\ rooms[roomOf[d]].guest = d
      /\ rooms[roomOf[d]].host = h \/ (rooms[roomOf[d]].host = NoConn /\ thread[h] = "ended")
      /\ Live(roomOf[d]) /\ d # NoConn
  BY SeatFacts DEF Hosted, GuestOf, Grounds, LobbyInv
<1>2. CASE SendPending(e) \/ RefuseSecondRoom(e) \/ HandleJoinError(e) \/ ForwardRaw(e)
  BY <1>1, <1>2, SeatsStay DEF Hosted, GuestOf
<1>3. CASE HandleCreate(e)
  <2>1. PICK code \in Code :
          /\ ~Live(code) /\ roomOf[e] = NoCode
          /\ \A k \in Code : k # code => rooms'[k] = rooms[k]
          /\ \A c \in Conn : c # e => roomOf'[c] = roomOf[c]
          /\ UNCHANGED thread
    BY <1>3, CreateIs
  <2>. QED  BY <1>1, <2>1 DEF Hosted, GuestOf
<1>4. CASE HandleJoin(e)
  <2>1. PICK code \in Code :
          /\ rooms[code].guest = NoConn /\ roomOf[e] = NoCode
          /\ \A k \in Code : k # code => rooms'[k] = rooms[k]
          /\ \A c \in Conn : c # e => roomOf'[c] = roomOf[c]
          /\ UNCHANGED thread
    BY <1>4, JoinPair
  <2>. QED  BY <1>1, <2>1 DEF Hosted, GuestOf
<1>5. CASE DropConn(e)
  <2>1. /\ thread' = [thread EXCEPT ![e] = "ended"]
        /\ roomOf' = [roomOf EXCEPT ![e] = NoCode]
        /\ \A k \in Code : k # roomOf[e] => rooms'[k] = rooms[k]
        /\ roomOf[e] # NoCode =>
             /\ rooms'[roomOf[e]].host = IF e = rooms[roomOf[e]].host THEN NoConn
                                                        ELSE rooms[roomOf[e]].host
             /\ rooms'[roomOf[e]].guest = IF e = rooms[roomOf[e]].guest THEN NoConn
                                                        ELSE rooms[roomOf[e]].guest
    BY <1>5, DropIs DEF Grounds, LobbyInv
  <2>2. e # d
    BY <1>5 DEF DropConn
  <2>3. /\ thread'[e] = "ended" /\ (thread[h] = "ended" => thread'[h] = "ended")
        /\ roomOf'[d] = roomOf[d]
    BY <1>1, <2>1, <2>2, Channels
  <2>4. CASE roomOf[e] # roomOf[d]
    BY <1>1, <2>1, <2>3, <2>4 DEF Hosted, GuestOf
  <2>5. CASE roomOf[e] = roomOf[d]
    BY <1>1, <2>1, <2>2, <2>3, <2>5 DEF Hosted, GuestOf
  <2>. QED  BY <2>4, <2>5
<1>. QED  BY <1>2, <1>3, <1>4, <1>5 DEF ServeConn

\* Who was in a room stays known.
LEMMA ServedKnown ==
    ASSUME Grounds, NEW e \in Conn, ServeConn(e), NEW h, Known(h)
    PROVE  Known(h)'
<1>1. h \in Conn /\ (roomOf[h] # NoCode \/ thread[h] = "ended")
  BY DEF Known
<1>2. CASE SendPending(e) \/ RefuseSecondRoom(e) \/ HandleJoinError(e) \/ ForwardRaw(e)
  BY <1>1, <1>2, SeatsStay DEF Known
<1>3. CASE HandleCreate(e) \/ HandleJoin(e)
  <2>1. PICK code \in Code : /\ \A c \in Conn : c # e => roomOf'[c] = roomOf[c]
                             /\ roomOf'[e] = code /\ UNCHANGED thread
    BY <1>3, CreateIs, JoinPair
  <2>. QED  BY <1>1, <2>1, NoCodeAssumption DEF Known
<1>4. CASE DropConn(e)
  <2>1. /\ thread' = [thread EXCEPT ![e] = "ended"]
        /\ roomOf' = [roomOf EXCEPT ![e] = NoCode]
    BY <1>4 DEF DropConn
  <2>. QED  BY <1>1, <2>1, Channels DEF Known
<1>. QED  BY <1>2, <1>3, <1>4 DEF ServeConn

\* When somebody who is connected has another roommate than before: a guest has
\* joined, or the roommate was dropped.
LEMMA ServedMate ==
    ASSUME Grounds, NEW e \in Conn, ServeConn(e), NEW c \in Conn, up[c]
    PROVE  \/ Mate(c)' = Mate(c)
           \/ /\ HandleJoin(e) /\ Mate(c) = NoConn
              /\ roomOf[e] = NoCode /\ thread[e] = "serving"
              /\ \E host \in Conn :
                   /\ pending'[e] = <<To(e, Notice("RoomJoined", host)),
                                      To(host, Notice("RoomPeerJoined", e))>>
                   /\ (c = e /\ Mate(c)' = host) \/ (c = host /\ Mate(c)' = e)
           \/ DropConn(e) /\ Mate(c) = e /\ Mate(c)' = NoConn
<1>1. /\ c # NoConn
      /\ roomOf[c] # NoCode => roomOf[c] \in Code /\ Live(roomOf[c])
  BY SeatFacts DEF Grounds, LobbyInv
<1>2. CASE SendPending(e) \/ RefuseSecondRoom(e) \/ HandleJoinError(e) \/ ForwardRaw(e)
  BY <1>1, <1>2, SeatsStay DEF Mate, PeerOf
<1>3. CASE HandleCreate(e)
  <2>1. PICK code \in Code :
          /\ ~Live(code) /\ roomOf[e] = NoCode
          /\ rooms'[code].host = e /\ rooms'[code].guest = NoConn
          /\ \A k \in Code : k # code => rooms'[k] = rooms[k]
          /\ roomOf'[e] = code /\ \A d \in Conn : d # e => roomOf'[d] = roomOf[d]
    BY <1>3, CreateIs
  <2>2. CASE c = e
    BY <2>1, <2>2, NoCodeAssumption DEF Mate, PeerOf
  <2>3. CASE c # e
    BY <1>1, <2>1, <2>3 DEF Mate
  <2>. QED  BY <2>2, <2>3
<1>4. CASE HandleJoin(e)
  <2>1. PICK code \in Code, host \in Conn :
          /\ host # e /\ rooms[code].host = host /\ rooms[code].guest = NoConn
          /\ roomOf[e] = NoCode /\ roomOf[host] = code /\ code # NoCode
          /\ rooms'[code].host = host /\ rooms'[code].guest = e
          /\ \A k \in Code : k # code => rooms'[k] = rooms[k]
          /\ roomOf'[e] = code /\ \A d \in Conn : d # e => roomOf'[d] = roomOf[d]
          /\ thread[e] = "serving"
          /\ pending'[e] = <<To(e, Notice("RoomJoined", host)),
                             To(host, Notice("RoomPeerJoined", e))>>
    BY <1>4, JoinPair
  <2>2. CASE c = e
    <3>1. Mate(c) = NoConn /\ Mate(c)' = host
      BY <2>1, <2>2, NoCodeAssumption DEF Mate, PeerOf
    <3>. QED  BY <1>4, <2>1, <2>2, <3>1
  <2>3. CASE c = host
    <3>1. Mate(c) = NoConn /\ Mate(c)' = e
      BY <1>1, <2>1, <2>3 DEF Mate, PeerOf
    <3>. QED  BY <1>4, <2>1, <2>3, <3>1
  <2>4. CASE c # e /\ c # host
    <3>1. roomOf[c] # code
      <4>. SUFFICES ASSUME roomOf[c] = code PROVE FALSE
        OBVIOUS
      <4>1. c \in {rooms[code].host, rooms[code].guest}
        BY <2>1, SeatsAgreeIs DEF ConnSound, Grounds, LobbyInv
      <4>. QED  BY <1>1, <2>1, <2>4, <4>1
    <3>. QED  BY <1>1, <2>1, <2>4, <3>1 DEF Mate
  <2>. QED  BY <2>2, <2>3, <2>4
<1>5. CASE DropConn(e)
  <2>1. /\ roomOf' = [roomOf EXCEPT ![e] = NoCode]
        /\ \A k \in Code : k # roomOf[e] => rooms'[k] = rooms[k]
        /\ roomOf[e] # NoCode =>
             /\ rooms'[roomOf[e]].host = IF e = rooms[roomOf[e]].host THEN NoConn
                                                        ELSE rooms[roomOf[e]].host
             /\ rooms'[roomOf[e]].guest = IF e = rooms[roomOf[e]].guest THEN NoConn
                                                        ELSE rooms[roomOf[e]].guest
    BY <1>5, DropIs DEF Grounds, LobbyInv
  <2>2. e # c
    BY <1>5 DEF DropConn
  <2>3. roomOf'[c] = roomOf[c]
    BY <2>1, <2>2, Channels
  <2>4. CASE roomOf[e] # roomOf[c]
    BY <1>1, <2>1, <2>3, <2>4 DEF Mate
  <2>5. CASE roomOf[e] = roomOf[c]
    <3>1. roomOf[c] # NoCode => /\ e \in {rooms[roomOf[c]].host, rooms[roomOf[c]].guest}
                                /\ c \in {rooms[roomOf[c]].host, rooms[roomOf[c]].guest}
      BY <2>5, SeatsAgreeIs DEF ConnSound, Grounds, LobbyInv
    <3>. QED  BY <1>1, <1>5, <2>1, <2>2, <2>3, <2>5, <3>1 DEF Mate, PeerOf
  <2>. QED  BY <2>4, <2>5
<1>. QED  BY <1>2, <1>3, <1>4, <1>5 DEF ServeConn

\* A send reaches the one it is for, if that one is connected.
LEMMA SendTo ==
    ASSUME Grounds, NEW to \in Conn, NEW f, Send(to, f), NEW d \in Conn
    PROVE  toClient'[d] = IF d = to /\ up[d] THEN Append(toClient[d], f) ELSE toClient[d]
BY Channels DEF Send

\* A forwarded frame reaches the roommate.
LEMMA ForwardTo ==
    ASSUME Grounds, NEW e \in Conn, ForwardRaw(e)
    PROVE  /\ Frame(e) \in Frames
           /\ \A d \in Conn : toClient'[d] = IF d = Mate(e) /\ up[d]
                                             THEN Append(toClient[d], Frame(e)) ELSE toClient[d]
           /\ UNCHANGED pending
<1>. DEFINE f == Frame(e)
            peer == Mate(e)
<1>1. f \in Frames
  BY WrittenFrame, FrameIs DEF ForwardRaw
<1>2. /\ peer = NoConn => UNCHANGED toClient
      /\ peer # NoConn => Send(peer, f)
      /\ UNCHANGED pending
  BY DEF ForwardRaw, Mate
<1>3. peer \in Someone
  BY MateIs
<1>4. \A d \in Conn : d # NoConn
  BY NoConnAssumption
<1>. HIDE DEF f, peer
<1>5. CASE peer = NoConn
  BY <1>1, <1>2, <1>4, <1>5 DEF f, peer
<1>6. CASE peer # NoConn
  <2>1. peer \in Conn /\ Send(peer, f)
    BY <1>2, <1>3, <1>6 DEF Someone
  <2>2. \A d \in Conn : toClient'[d] = IF d = peer /\ up[d] THEN Append(toClient[d], f)
                                                           ELSE toClient[d]
    BY <2>1, SendTo
  <2>. QED  BY <1>1, <1>2, <2>2 DEF f, peer
<1>. QED  BY <1>5, <1>6

\* So does the notice that somebody has left.
LEMMA DropTo ==
    ASSUME Grounds, NEW e \in Conn, DropConn(e)
    PROVE  /\ \A d \in Conn : toClient'[d] = IF d = Mate(e) /\ up[d]
                              THEN Append(toClient[d], Notice("RoomClosed", e)) ELSE toClient[d]
           /\ UNCHANGED <<pending, toServer>> /\ ~up[e] /\ toServer[e] = <<>>
<1>. DEFINE f == Notice("RoomClosed", e)
            peer == Mate(e)
<1>1. /\ peer = NoConn => UNCHANGED toClient
      /\ peer # NoConn => Send(peer, f)
      /\ UNCHANGED <<pending, toServer>> /\ ~up[e] /\ toServer[e] = <<>>
  BY DEF DropConn, Mate
<1>2. peer \in Someone
  BY MateIs
<1>3. \A d \in Conn : d # NoConn
  BY NoConnAssumption
<1>. HIDE DEF f, peer
<1>4. CASE peer = NoConn
  BY <1>1, <1>3, <1>4 DEF f, peer
<1>5. CASE peer # NoConn
  <2>1. peer \in Conn /\ Send(peer, f)
    BY <1>1, <1>2, <1>5 DEF Someone
  <2>2. \A d \in Conn : toClient'[d] = IF d = peer /\ up[d] THEN Append(toClient[d], f)
                                                           ELSE toClient[d]
    BY <2>1, SendTo
  <2>. QED  BY <1>1, <2>2 DEF f, peer
<1>. QED  BY <1>4, <1>5

\* The next of the outstanding sends: an answer, or news of a guest who has joined.
LEMMA PendingTo ==
    ASSUME Grounds, NEW e \in Conn, SendPending(e)
    PROVE  \E to \in Conn, f \in NoticeFrames :
             /\ pending[e] # <<>> /\ 1 \in DOMAIN pending[e]
             /\ pending[e][1].to = to /\ pending[e][1].frame = f
             /\ pending'[e] = Tail(pending[e])
             /\ \A d \in Conn : d # e => pending'[d] = pending[d]
             /\ \A d \in Conn : toClient'[d] = IF d = to /\ up[d]
                                               THEN Append(toClient[d], f) ELSE toClient[d]
             /\ \/ f.type \in {"RoomCreated", "RoomError"}
                \/ f.type = "RoomJoined" /\ to = e /\ GuestOf(e)
                \/ /\ f.type = "RoomPeerJoined" /\ f.who = e /\ to # e /\ GuestOf(e)
                   /\ rooms[roomOf[e]].host = to \/ thread[to] = "ended"
             /\ UNCHANGED toServer
<1>. DEFINE s == Head(pending[e])
<1>1. /\ pending[e] # <<>> /\ Send(s.to, s.frame) /\ UNCHANGED toServer
      /\ pending' = [pending EXCEPT ![e] = Tail(@)]
  BY DEF SendPending
<1>2. s = pending[e][1] /\ 1 \in DOMAIN pending[e] /\ s \in Sends
  BY <1>1, Channels, TailIs, HeadTailProperties
<1>3. SendSound(e, s)
  BY <1>2 DEF Grounds, ToldInv, PendingSound
<1>4. /\ pending'[e] = Tail(pending[e])
      /\ \A d \in Conn : d # e => pending'[d] = pending[d]
  BY <1>1, Channels DEF TypeOK, OutType
<1>. HIDE DEF s
<1>5. s.to \in Conn /\ s.frame \in NoticeFrames
  BY <1>2 DEF Sends
<1>6. \A d \in Conn : toClient'[d] = IF d = s.to /\ up[d]
                                     THEN Append(toClient[d], s.frame) ELSE toClient[d]
  BY <1>1, <1>5, SendTo
<1>7. \/ s.frame.type \in {"RoomCreated", "RoomError"}
      \/ s.frame.type = "RoomJoined" /\ s.to = e /\ GuestOf(e)
      \/ /\ s.frame.type = "RoomPeerJoined" /\ s.frame.who = e /\ s.to # e /\ GuestOf(e)
         /\ rooms[roomOf[e]].host = s.to \/ thread[s.to] = "ended"
  <2>1. CASE /\ s = To(s.to, Notice("RoomPeerJoined", e)) /\ s.to \in Conn \ {e}
             /\ GuestOf(e)
             /\ rooms[roomOf[e]].host = s.to \/ thread[s.to] = "ended"
    <3>1. s.frame = Notice("RoomPeerJoined", e)
      BY <2>1 DEF To
    <3>. QED  BY <2>1, <3>1, NoticeType DEF Someone
  <2>. QED  BY <1>3, <2>1 DEF SendSound
<1>. QED  BY <1>1, <1>2, <1>4, <1>5, <1>6, <1>7

\* A frame that says nothing of decks and readiness.
Silent(f) == \A a \in Aspect : ~Sets(f, a)

\* What a connection is delivered.
LEMMA ServedFrame ==
    ASSUME Grounds, NEW e \in Conn, ServeConn(e), NEW d \in Conn
    PROVE  \/ toClient'[d] = toClient[d]
           \/ \E f \in NoticeFrames \cup Frames :
                /\ up[d] /\ toClient'[d] = Append(toClient[d], f)
                /\ \/ Silent(f) /\ ~Joined(f)
                   \/ /\ SendPending(e) /\ Silent(f) /\ f.type = "RoomJoined" /\ d = e
                      /\ GuestOf(d) /\ 1 \in DOMAIN pending[d] /\ pending[d][1].frame = f
                   \/ /\ SendPending(e) /\ Silent(f) /\ f.type = "RoomPeerJoined" /\ f.who = e
                      /\ GuestOf(e) /\ rooms[roomOf[e]].host = d
                   \/ ForwardRaw(e) /\ d = Mate(e) /\ f = Frame(e) /\ ~Joined(f)
                   \/ DropConn(e) /\ d = Mate(e) /\ f = Notice("RoomClosed", e) /\ ~Joined(f)
<1>1. CASE SendPending(e)
  <2>1. PICK to \in Conn, f \in NoticeFrames :
           /\ 1 \in DOMAIN pending[e]
           /\ pending[e][1].to = to /\ pending[e][1].frame = f
           /\ toClient'[d] = IF d = to /\ up[d] THEN Append(toClient[d], f) ELSE toClient[d]
           /\ \/ f.type \in {"RoomCreated", "RoomError"}
              \/ f.type = "RoomJoined" /\ to = e /\ GuestOf(e)
              \/ /\ f.type = "RoomPeerJoined" /\ f.who = e /\ to # e /\ GuestOf(e)
                 /\ rooms[roomOf[e]].host = to \/ thread[to] = "ended"
    BY <1>1, PendingTo
  <2>2. up[d] => thread[d] # "ended"
    BY DEF Grounds, TalkInv, ConnTalk
  <2>3. Silent(f)
    BY <2>1 DEF Silent, Sets
  <2>. QED  BY <1>1, <2>1, <2>2, <2>3 DEF Joined
<1>2. CASE RefuseSecondRoom(e) \/ HandleCreate(e) \/ HandleJoin(e)
  BY <1>2 DEF RefuseSecondRoom, HandleCreate, HandleJoin
<1>3. CASE HandleJoinError(e)
  <2>1. toClient'[d] = IF d = e /\ up[d] THEN Append(toClient[d], RoomError) ELSE toClient[d]
    BY <1>3, SendTo DEF HandleJoinError
  <2>2. Silent(RoomError) /\ ~Joined(RoomError) /\ RoomError \in NoticeFrames
    BY NoticeType DEF Silent, Joined, Sets
  <2>. QED  BY <2>1, <2>2
<1>4. CASE ForwardRaw(e)
  <2>1. /\ Frame(e) \in Frames
        /\ toClient'[d] = IF d = Mate(e) /\ up[d] THEN Append(toClient[d], Frame(e))
                                                  ELSE toClient[d]
    BY <1>4, ForwardTo
  <2>2. ~Joined(Frame(e))
    BY <2>1, FramesAssumption DEF Joined, NoticeTypes
  <2>. QED  BY <1>4, <2>1, <2>2
<1>5. CASE DropConn(e)
  <2>1. toClient'[d] = IF d = Mate(e) /\ up[d] THEN Append(toClient[d], Notice("RoomClosed", e))
                                               ELSE toClient[d]
    BY <1>5, DropTo
  <2>2. Notice("RoomClosed", e) \in NoticeFrames /\ ~Joined(Notice("RoomClosed", e))
    BY NoticeType DEF Joined, Someone
  <2>. QED  BY <1>5, <2>1, <2>2
<1>. QED  BY <1>1, <1>2, <1>3, <1>4, <1>5 DEF ServeConn

\* What the server has read.
LEMMA ServedRead ==
    ASSUME Grounds, NEW e \in Conn, ServeConn(e)
    PROVE  /\ \A d \in Conn : d # e => toServer'[d] = toServer[d]
           /\ \/ toServer'[e] = toServer[e] /\ (SendPending(e) \/ DropConn(e))
              \/ /\ toServer[e] # <<>> /\ toServer'[e] = Tail(toServer[e]) /\ Reads(e)
                 /\ \/ ForwardRaw(e)
                    \/ Silent(Frame(e)) /\ Frame(e).type \in ControlTypes /\ ~ForwardRaw(e)
<1>1. CASE SendPending(e) \/ DropConn(e)
  BY <1>1 DEF SendPending, DropConn
<1>2. CASE ~(SendPending(e) \/ DropConn(e))
  <2>1. /\ Reads(e)
        /\ ForwardRaw(e) \/ (Frame(e).type \in ControlTypes /\ ~ForwardRaw(e))
    BY <1>2 DEF ServeConn, RefuseSecondRoom, HandleCreate, HandleJoin, HandleJoinError,
                ForwardRaw, ControlTypes
  <2>2. /\ toServer' = [toServer EXCEPT ![e] = Tail(@)] /\ toServer[e] # <<>>
    BY <2>1 DEF Reads
  <2>3. Frame(e).type \in ControlTypes => Silent(Frame(e))
    BY DEF Silent, Sets, ControlTypes
  <2>. QED  BY <2>1, <2>2, <2>3, Channels
<1>. QED  BY <1>1, <1>2

\* Whom the server says a program has been joined by, or has joined.
LEMMA ServedNews ==
    ASSUME Grounds, PairInv, NEW e \in Conn, ServeConn(e),
           NEW q \in Player, Here(q), NEW d \in Conn, d = Session(q),
           NEW i \in DOMAIN toClient'[d], Joined(toClient'[d][i])
    PROVE  /\ Known(toClient'[d][i].who)
           /\ ui[q].mode = "client" => Hosted(d, toClient'[d][i].who)
<1>1. /\ ClientTalk(q) /\ KnownTalk(q) /\ ui[q] \in UIState
      /\ toClient[d] \in Seq(NoticeFrames \cup Frames)
  BY Channels DEF PairInv, Talks, Grounds, LobbyInv
<1>2. ASSUME NEW j \in DOMAIN toClient[d], toClient'[d][i] = toClient[d][j]
      PROVE  /\ Known(toClient'[d][i].who)
             /\ ui[q].mode = "client" => Hosted(d, toClient'[d][i].who)
  BY <1>1, <1>2 DEF ClientTalk, KnownTalk
<1>3. CASE toClient'[d] = toClient[d]
  BY <1>2, <1>3
<1>4. ASSUME NEW f \in NoticeFrames \cup Frames, toClient'[d] = Append(toClient[d], f),
             Joined(f) => /\ Known(f.who)
                          /\ ui[q].mode = "client" => Hosted(d, f.who)
      PROVE  /\ Known(toClient'[d][i].who)
             /\ ui[q].mode = "client" => Hosted(d, toClient'[d][i].who)
  <2>1. /\ i \in 1..(Len(toClient[d]) + 1) /\ Len(toClient[d]) \in Nat
        /\ DOMAIN toClient[d] = 1..Len(toClient[d])
        /\ toClient'[d][Len(toClient[d]) + 1] = f
        /\ \A j \in 1..Len(toClient[d]) : toClient'[d][j] = toClient[d][j]
    BY <1>1, <1>4, AppendProperties, LenProperties
  <2>2. CASE i = Len(toClient[d]) + 1
    BY <1>4, <2>1, <2>2
  <2>3. CASE i # Len(toClient[d]) + 1
    BY <1>2, <2>1, <2>3
  <2>. QED  BY <2>2, <2>3
<1>5. ASSUME NEW f, f.type = "RoomJoined", GuestOf(d), 1 \in DOMAIN pending[d],
             pending[d][1].frame = f
      PROVE  /\ Known(f.who)
             /\ ui[q].mode = "client" => Hosted(d, f.who)
  <2>1. ui[q].mode = "client"
    BY <1>1, <1>5, HostIs DEF HostTalk, UIState, Here, Online
  <2>2. Hosted(d, f.who)
    BY <1>1, <1>5, <2>1 DEF ClientTalk
  <2>. QED  BY <2>2, HostedKnown
<1>6. ASSUME NEW f, f.who = e, GuestOf(e), rooms[roomOf[e]].host = d
      PROVE  /\ Known(f.who)
             /\ ui[q].mode = "client" => Hosted(d, f.who)
  <2>1. roomOf[e] \in Code /\ roomOf[e] # NoCode
    BY <1>6, SeatFacts DEF GuestOf, Grounds, LobbyInv
  <2>2. ui[q].mode # "client"
    BY <1>1, <1>6, <2>1 DEF ClientTalk
  <2>. QED  BY <1>6, <2>1, <2>2 DEF Known
<1>7. CASE \E f \in NoticeFrames \cup Frames :
             /\ toClient'[d] = Append(toClient[d], f)
             /\ \/ ~Joined(f)
                \/ /\ f.type = "RoomJoined"
                   /\ GuestOf(d) /\ 1 \in DOMAIN pending[d] /\ pending[d][1].frame = f
                \/ f.who = e /\ GuestOf(e) /\ rooms[roomOf[e]].host = d
  <2>1. PICK f \in NoticeFrames \cup Frames :
             /\ toClient'[d] = Append(toClient[d], f)
             /\ \/ ~Joined(f)
                \/ /\ f.type = "RoomJoined"
                   /\ GuestOf(d) /\ 1 \in DOMAIN pending[d] /\ pending[d][1].frame = f
                \/ f.who = e /\ GuestOf(e) /\ rooms[roomOf[e]].host = d
    BY <1>7
  <2>2. Joined(f) => /\ Known(f.who)
                     /\ ui[q].mode = "client" => Hosted(d, f.who)
    BY <1>5, <1>6, <2>1
  <2>. QED  BY <1>4, <2>1, <2>2
<1>. QED  BY <1>3, <1>7, ServedFrame

\* The host seats are taken by creators only.
LEMMA ServedHost ==
    ASSUME Grounds, NEW e \in Conn, ServeConn(e), NEW d \in Conn,
           \A k \in Code : rooms[k].host # d,
           \A i \in DOMAIN toServer[d] : toServer[d][i].type # "CreateRoom"
    PROVE  \A k \in Code : rooms'[k].host # d
<1>1. CASE SendPending(e) \/ RefuseSecondRoom(e) \/ HandleJoinError(e) \/ ForwardRaw(e)
  BY <1>1, SeatsStay
<1>2. CASE HandleCreate(e)
  <2>1. PICK code \in Code : /\ rooms'[code].host = e
                             /\ \A k \in Code : k # code => rooms'[k] = rooms[k]
    BY <1>2, CreateIs
  <2>2. e # d
    <3>1. toServer[e] # <<>> /\ Head(toServer[e]).type = "CreateRoom"
      BY <1>2 DEF HandleCreate, Reads, Frame
    <3>2. Head(toServer[e]) = toServer[e][1] /\ 1 \in DOMAIN toServer[e]
      BY <3>1, Channels, TailIs
    <3>. QED  BY <3>1, <3>2
  <2>. QED  BY <2>1, <2>2
<1>3. CASE HandleJoin(e)
  <2>1. PICK code \in Code, host \in Conn :
          /\ rooms[code].host = host /\ rooms'[code].host = host
          /\ \A k \in Code : k # code => rooms'[k] = rooms[k]
    BY <1>3, JoinPair
  <2>. QED  BY <2>1
<1>4. CASE DropConn(e)
  <2>1. \A k \in Code : rooms'[k].host \in {rooms[k].host, NoConn}
    BY <1>4, DropIs, NoCodeAssumption DEF Grounds, LobbyInv
  <2>. QED  BY <2>1, NoConnAssumption
<1>. QED  BY <1>1, <1>2, <1>3, <1>4 DEF ServeConn

\* What a thread comes to have to send: the notice of its own join, at most.
LEMMA ServedPending ==
    ASSUME Grounds, NEW e \in Conn, ServeConn(e), NEW d \in Conn,
           NEW i \in DOMAIN pending'[d]
    PROVE  \/ \E j \in DOMAIN pending[d] : pending'[d][i] = pending[d][j]
           \/ pending'[d][i].frame.type # "RoomJoined"
           \/ \E h : pending'[d][i].frame.who = h /\ Hosted(d, h)'
<1>1. pending \in [Conn -> Seq(Sends)] /\ pending[d] \in Seq(Sends)
  BY Channels DEF TypeOK, OutType
<1>2. CASE pending'[d] = pending[d]
  BY <1>2
<1>3. CASE SendPending(e) /\ d = e
  <2>1. pending'[d] = Tail(pending[d]) /\ pending[d] # <<>>
    BY <1>3, PendingTo
  <2>. QED  BY <1>1, <2>1, TailIs
<1>4. ASSUME NEW f, f.type # "RoomJoined", pending' = [pending EXCEPT ![e] = <<To(e, f)>>], d = e
      PROVE  pending'[d][i].frame.type # "RoomJoined"
  <2>1. pending'[d] = <<To(e, f)>>
    BY <1>1, <1>4
  <2>2. pending'[d][i] = To(e, f)
    BY <2>1
  <2>3. To(e, f).frame = f
    BY DEF To
  <2>. QED  BY <1>4, <2>2, <2>3
<1>5. CASE RefuseSecondRoom(e) /\ d = e
  BY <1>4, <1>5, NoticeType DEF RefuseSecondRoom, WillSend
<1>6. CASE HandleCreate(e) /\ d = e
  BY <1>4, <1>6, CreateIs
<1>7. CASE HandleJoin(e) /\ d = e
  <2>1. PICK code \in Code, host \in Conn :
             /\ code # NoCode
             /\ rooms'[code].host = host /\ rooms'[code].guest = e
             /\ roomOf'[e] = code
             /\ pending'[e] = <<To(e, Notice("RoomJoined", host)),
                                To(host, Notice("RoomPeerJoined", e))>>
    BY <1>7, JoinPair
  <2>2. Hosted(d, host)'
    BY <1>7, <2>1 DEF Hosted, GuestOf
  <2>3. /\ To(e, Notice("RoomJoined", host)).frame.who = host
        /\ To(host, Notice("RoomPeerJoined", e)).frame.type = "RoomPeerJoined"
    BY DEF To, Notice
  <2>4. pending'[d][i] \in {To(e, Notice("RoomJoined", host)), To(host, Notice("RoomPeerJoined", e))}
    BY <1>7, <2>1
  <2>. QED  BY <2>2, <2>3, <2>4
<1>8. /\ d # e => pending'[d] = pending[d]
      /\ HandleJoinError(e) \/ ForwardRaw(e) \/ DropConn(e) => pending'[d] = pending[d]
  BY <1>1 DEF ServeConn, SendPending, RefuseSecondRoom, HandleCreate, HandleJoin,
              HandleJoinError, ForwardRaw, DropConn, WillSend
<1>. QED  BY <1>2, <1>3, <1>5, <1>6, <1>7, <1>8 DEF ServeConn

\* The server's step keeps what one program has said and been told.
LEMMA ServedTalks ==
    ASSUME Grounds, PairInv, NEW e \in Conn, ServeConn(e), UNCHANGED ui,
           NEW q \in Player
    PROVE  Talks(q)'
<1>0. /\ UNCHANGED up /\ Session(q)' = Session(q) /\ ui'[q] = ui[q]
      /\ Here(q)' <=> Here(q)
  BY DEF Session, Here, Online, ServeConn, SendPending, RefuseSecondRoom, HandleCreate,
         HandleJoin, HandleJoinError, ForwardRaw, DropConn, Reads
<1>1. CASE ~Here(q)
  BY <1>0, <1>1 DEF Talks, ClientTalk, KnownTalk, Greeted, SaysSo, Alone
<1>2. CASE Here(q)
  <2>. SUFFICES ASSUME NEW d \in Conn, d = Session(q) PROVE Talks(q)'
    BY <1>2 DEF Here, Grounds, LobbyInv, SessionsExist
  <2>1. Talks(q) /\ Session(q)' = d /\ up[d]
    BY <1>0, <1>2 DEF PairInv, Here
  <2>2. /\ toServer[d] \in Seq(RequestFrames \cup Frames)
        /\ toClient[d] \in Seq(NoticeFrames \cup Frames)
    BY Channels
  <2>3. \/ toServer'[d] = toServer[d]
        \/ toServer[d] # <<>> /\ toServer'[d] = Tail(toServer[d])
    BY ServedRead
  <2>4. \A i \in DOMAIN toServer'[d] :
           \E j \in DOMAIN toServer[d] : toServer'[d][i] = toServer[d][j]
    <3>1. CASE toServer'[d] = toServer[d]
      BY <3>1
    <3>2. CASE toServer[d] # <<>> /\ toServer'[d] = Tail(toServer[d])
      BY <2>2, <3>2, TailIs
    <3>. QED  BY <2>3, <3>1, <3>2
  <2>5. \A h : Hosted(d, h) => Hosted(d, h)'
    BY <2>1, ServedHosted
  <2>6. ClientTalk(q)'
    <3>. SUFFICES ASSUME ui[q].mode = "client"
                  PROVE  /\ \A k \in Code : rooms'[k].host # d
                         /\ \A i \in DOMAIN toServer'[d] : toServer'[d][i].type # "CreateRoom"
                         /\ \A i \in DOMAIN toClient'[d] : Joined(toClient'[d][i]) =>
                              \E h : toClient'[d][i].who = h /\ Hosted(d, h)'
                         /\ \A i \in DOMAIN pending'[d] :
                              pending'[d][i].frame.type = "RoomJoined" =>
                                \E h : pending'[d][i].frame.who = h /\ Hosted(d, h)'
                         /\ ui[q].opponent # NoConn =>
                              \E h : ui[q].opponent = h /\ Hosted(d, h)'
      BY <1>0, <2>1 DEF ClientTalk, Hosted
    <3>1. /\ \A k \in Code : rooms[k].host # d
          /\ \A i \in DOMAIN toServer[d] : toServer[d][i].type # "CreateRoom"
          /\ \A i \in DOMAIN pending[d] :
               pending[d][i].frame.type = "RoomJoined" => Hosted(d, pending[d][i].frame.who)
          /\ ui[q].opponent # NoConn => Hosted(d, ui[q].opponent)
      BY <1>2, <2>1 DEF Talks, ClientTalk
    <3>2. \A k \in Code : rooms'[k].host # d
      BY <3>1, ServedHost
    <3>3. \A i \in DOMAIN toServer'[d] : toServer'[d][i].type # "CreateRoom"
      BY <2>4, <3>1
    <3>4. ASSUME NEW i \in DOMAIN toClient'[d], Joined(toClient'[d][i])
          PROVE  \E h : toClient'[d][i].who = h /\ Hosted(d, h)'
      BY <1>2, <2>5, <3>4, ServedNews
    <3>5. ASSUME NEW i \in DOMAIN pending'[d], pending'[d][i].frame.type = "RoomJoined"
          PROVE  \E h : pending'[d][i].frame.who = h /\ Hosted(d, h)'
      BY <2>5, <3>1, <3>5, ServedPending
    <3>6. ui[q].opponent # NoConn => \E h : ui[q].opponent = h /\ Hosted(d, h)'
      BY <2>5, <3>1
    <3>. QED  BY <3>2, <3>3, <3>4, <3>5, <3>6
  <2>7. KnownTalk(q)'
    <3>. SUFFICES /\ \A i \in DOMAIN toClient'[d] : Joined(toClient'[d][i]) =>
                       \E h : toClient'[d][i].who = h /\ Known(h)'
                  /\ ui[q].opponent # NoConn => \E h : ui[q].opponent = h /\ Known(h)'
      BY <1>0, <2>1 DEF KnownTalk, Known
    <3>1. ui[q].opponent # NoConn => Known(ui[q].opponent)
      BY <1>2, <2>1 DEF Talks, KnownTalk
    <3>2. \A h : Known(h) => Known(h)'
      BY ServedKnown
    <3>3. ASSUME NEW i \in DOMAIN toClient'[d], Joined(toClient'[d][i])
          PROVE  \E h : toClient'[d][i].who = h /\ Known(h)'
      BY <1>2, <3>2, <3>3, ServedNews
    <3>. QED  BY <3>1, <3>2, <3>3
  <2>8. Greeted(q)'
    BY <1>0, <2>1 DEF Talks, Greeted
  <2>9. SaysSo(q)'
    <3>1. ASSUME NEW a \in Aspect PROVE \E y : Ends(toServer'[d], y, Shows(d, ui[q], a), a)
      <4>1. PICK y : Ends(toServer[d], y, Shows(d, ui[q], a), a)
        BY <1>2, <2>1 DEF Talks, SaysSo
      <4>. QED  BY <2>2, <2>3, <4>1, EndsTail
    <3>. QED  BY <1>0, <2>1, <3>1 DEF SaysSo
  <2>10. Alone(q)'
    <3>. SUFFICES ASSUME ui[q].clean, Mate(d)' = NoConn, NEW a \in Aspect
                  PROVE  Ends(toClient'[d], Knows(ui[q], a), Unknown(a), a)
      BY <1>0, <2>1 DEF Alone
    <3>1. \/ Mate(d) = NoConn
          \/ DropConn(e) /\ Mate(d) = e
      BY <2>1, ServedMate, NoConnAssumption
    <3>2. CASE Mate(d) = NoConn
      <4>1. Ends(toClient[d], Knows(ui[q], a), Unknown(a), a)
        BY <1>2, <2>1, <3>2 DEF Talks, Alone
      <4>2. d # Mate(e)
        BY <3>2, MateIs, NoConnAssumption
      <4>3. \/ toClient'[d] = toClient[d]
            \/ \E f \in NoticeFrames \cup Frames :
                 toClient'[d] = Append(toClient[d], f) /\ Silent(f)
        BY <4>2, ServedFrame
      <4>4. ASSUME NEW f \in NoticeFrames \cup Frames, toClient'[d] = Append(toClient[d], f),
                   Silent(f)
            PROVE  Ends(toClient'[d], Knows(ui[q], a), Unknown(a), a)
        <5>1. Now(f, Unknown(a), a) = Unknown(a)
          BY <4>4 DEF Silent, Now
        <5>2. Ends(Append(toClient[d], f), Knows(ui[q], a), Now(f, Unknown(a), a), a)
          BY <2>2, <4>1, EndsAppend
        <5>. QED  BY <4>4, <5>1, <5>2
      <4>. QED  BY <4>1, <4>3, <4>4
    <3>3. CASE DropConn(e) /\ Mate(d) = e
      <4>. DEFINE f == Notice("RoomClosed", e)
      <4>1. f \in NoticeFrames \cup Frames /\ f.type = "RoomClosed"
        BY NoticeType DEF Someone
      <4>2. Mate(e) = d
        BY <3>3, MateIs
      <4>3. toClient'[d] = Append(toClient[d], f)
        BY <2>1, <3>3, <4>2, DropTo
      <4>. HIDE DEF f
      <4>4. Sets(f, a) /\ Value(f, a) = Unknown(a)
        BY <4>1 DEF Sets, Value
      <4>5. Ends(Append(toClient[d], f), Knows(ui[q], a), Value(f, a), a)
        BY <2>2, <4>1, <4>4, EndsSet
      <4>. QED  BY <4>3, <4>4, <4>5
    <3>. QED  BY <3>1, <3>2, <3>3
  <2>. QED  BY <2>6, <2>7, <2>8, <2>9, <2>10 DEF Talks
<1>. QED  BY <1>1, <1>2

\* Who has still to be told of a roommate has so until the notice is read.
LEMMA ServedComing ==
    ASSUME Grounds, NEW e \in Conn, ServeConn(e),
           NEW c \in Conn, NEW d \in Conn, c # d, up[d],
           roomOf[c] # NoCode, roomOf[d] # NoCode, Coming(d, c)
    PROVE  Coming(d, c)'
<1>1. /\ toClient[d] \in Seq(NoticeFrames \cup Frames)
      /\ pending \in [Conn -> Seq(Sends)]
  BY Channels DEF TypeOK, OutType
<1>2. \A i \in DOMAIN toClient[d] : i \in DOMAIN toClient'[d] /\ toClient'[d][i] = toClient[d][i]
  <2>1. CASE toClient'[d] = toClient[d]
    BY <2>1
  <2>2. ASSUME NEW f \in NoticeFrames \cup Frames, toClient'[d] = Append(toClient[d], f)
        PROVE  \A i \in DOMAIN toClient[d] :
                 i \in DOMAIN toClient'[d] /\ toClient'[d][i] = toClient[d][i]
    BY <1>1, <2>2, AppendProperties, LenProperties
  <2>. QED  BY <2>1, <2>2, ServedFrame
<1>3. CASE \E i \in DOMAIN toClient[d] : Joined(toClient[d][i]) /\ toClient[d][i].who = c
  <2>1. PICK i \in DOMAIN toClient[d] : Joined(toClient[d][i]) /\ toClient[d][i].who = c
    BY <1>3
  <2>2. i \in DOMAIN toClient'[d] /\ toClient'[d][i] = toClient[d][i]
    BY <1>2
  <2>. QED  BY <2>1, <2>2 DEF Coming
<1>4. ASSUME NEW b \in {c, d}, NEW f, Joined(f), f.who = c,
             b = c => f = Notice("RoomPeerJoined", c), b = d => f = Notice("RoomJoined", c),
             NEW i \in DOMAIN pending[b], pending[b][i] = To(d, f)
      PROVE  Coming(d, c)'
  <2>0. b \in Conn /\ pending[b] \in Seq(Sends) /\ pending[b] # <<>> /\ roomOf[b] # NoCode
    BY <1>1, <1>4
  <2>1. CASE SendPending(e) /\ e = b
    <3>1. PICK to \in Conn, g \in NoticeFrames :
             /\ pending[b][1].to = to /\ pending[b][1].frame = g
             /\ pending'[b] = Tail(pending[b])
             /\ toClient'[d] = IF d = to /\ up[d] THEN Append(toClient[d], g) ELSE toClient[d]
      BY <2>1, PendingTo
    <3>2. CASE i = 1
      <4>1. to = d /\ g = f
        BY <1>4, <3>1, <3>2 DEF To
      <4>2. toClient'[d] = Append(toClient[d], f) /\ f \in NoticeFrames \cup Frames
        BY <3>1, <4>1
      <4>3. /\ Len(toClient[d]) + 1 \in DOMAIN toClient'[d]
            /\ toClient'[d][Len(toClient[d]) + 1] = f
        BY <1>1, <4>2, AppendProperties, LenProperties
      <4>. QED  BY <1>4, <4>3 DEF Coming
    <3>3. CASE i # 1
      <4>1. i - 1 \in DOMAIN Tail(pending[b]) /\ Tail(pending[b])[i - 1] = pending[b][i]
        BY <2>0, <3>3, TailIs
      <4>2. i - 1 \in DOMAIN pending'[b] /\ pending'[b][i - 1] = To(d, f)
        BY <1>4, <3>1, <4>1
      <4>. QED  BY <1>4, <4>2 DEF Coming
    <3>. QED  BY <3>2, <3>3
  <2>2. CASE ~(SendPending(e) /\ e = b)
    <3>1. pending'[b] = pending[b]
      BY <1>1, <2>0, <2>2 DEF ServeConn, SendPending, RefuseSecondRoom, HandleCreate,
              HandleJoin, HandleJoinError, ForwardRaw, DropConn, WillSend, Reads
    <3>2. i \in DOMAIN pending'[b] /\ pending'[b][i] = To(d, f)
      BY <1>4, <3>1
    <3>. QED  BY <1>4, <3>2 DEF Coming
  <2>. QED  BY <2>1, <2>2
<1>5. /\ Joined(Notice("RoomPeerJoined", c)) /\ Joined(Notice("RoomJoined", c))
      /\ Notice("RoomPeerJoined", c).who = c /\ Notice("RoomJoined", c).who = c
  BY NoticeType DEF Joined, Someone
<1>6. CASE \E i \in DOMAIN pending[c] : pending[c][i] = To(d, Notice("RoomPeerJoined", c))
  BY <1>4, <1>5, <1>6
<1>7. CASE \E i \in DOMAIN pending[d] : pending[d][i] = To(d, Notice("RoomJoined", c))
  BY <1>4, <1>5, <1>7
<1>. QED  BY <1>3, <1>6, <1>7 DEF Coming

\* The server's step keeps what one program is to know of another.
LEMMA ServedHears ==
    ASSUME Grounds, PairInv, NEW e \in Conn, ServeConn(e), UNCHANGED ui,
           NEW p \in Player, NEW q \in Player
    PROVE  Hears(p, q)'
<1>0. /\ UNCHANGED up /\ UNCHANGED ui
      /\ \A r \in Player : Session(r)' = Session(r) /\ (Here(r)' <=> Here(r))
  BY DEF Session, Here, Online, ServeConn, SendPending, RefuseSecondRoom, HandleCreate,
         HandleJoin, HandleJoinError, ForwardRaw, DropConn, Reads
<1>. SUFFICES ASSUME NEW c, c = Session(p), NEW d, d = Session(q), Here(p), Here(q),
                     ui[p].clean, Mate(c)' = d, NEW a \in Aspect
              PROVE  \E x :
                       /\ Ends(toClient'[c], Knows(ui[p], a), x, a)
                       /\ \/ Ends(toServer'[d], x, Shows(d, ui[q], a), a)
                          \/ /\ Coming(d, c)' /\ ui[q].opponent # c
                             /\ Ends(toServer'[d], x, Unknown(a), a)
  BY <1>0 DEF Hears
<1>1. /\ c \in Conn /\ d \in Conn /\ up[c] /\ up[d] /\ c # NoConn /\ d # NoConn
      /\ toServer[d] \in Seq(RequestFrames \cup Frames)
      /\ toClient[c] \in Seq(NoticeFrames \cup Frames)
      /\ Talks(p) /\ Talks(q) /\ Hears(p, q)
      /\ ui[q].mode \in {"client", "host"}
  <2>1. c \in Conn /\ d \in Conn /\ up[c] /\ up[d] /\ ui[q] \in UIState
    BY DEF Here, Grounds, LobbyInv, SessionsExist
  <2>. QED  BY <2>1, Channels, NoConnAssumption DEF PairInv, UIState, Here, Online
<1>2. CASE Mate(c) = d
  <2>1. c # d /\ Mate(d) = c /\ roomOf[c] # NoCode /\ roomOf[d] # NoCode
    BY <1>1, <1>2, MateIs
  <2>2. PICK x : /\ Ends(toClient[c], Knows(ui[p], a), x, a)
                 /\ \/ Ends(toServer[d], x, Shows(d, ui[q], a), a)
                    \/ /\ Coming(d, c) /\ ui[q].opponent # c
                       /\ Ends(toServer[d], x, Unknown(a), a)
    BY <1>1, <1>2 DEF Hears
  <2>3. Coming(d, c) => Coming(d, c)'
    BY <1>1, <2>1, ServedComing
  <2>4. SUFFICES \E z : /\ Ends(toClient'[c], Knows(ui[p], a), z, a)
                        /\ \A y : Ends(toServer[d], x, y, a) => Ends(toServer'[d], z, y, a)
    BY <2>2, <2>3
  <2>5. CASE ForwardRaw(e) /\ e = d
    <3>. DEFINE f == Frame(d)
    <3>1. /\ f \in NoticeFrames \cup Frames
          /\ toClient'[c] = Append(toClient[c], f)
      BY <1>1, <2>1, <2>5, ForwardTo
    <3>2. Ends(Append(toClient[c], f), Knows(ui[p], a), Now(f, x, a), a)
      <4>. HIDE DEF f
      <4>. QED  BY <1>1, <2>2, <3>1, EndsAppend
    <3>3. toServer[d] # <<>> /\ toServer'[d] = Tail(toServer[d])
      BY <1>1, <2>5 DEF ForwardRaw, Reads, Grounds, LobbyInv, TypeOK, InType
    <3>4. ASSUME NEW y, Ends(toServer[d], x, y, a)
          PROVE  Ends(toServer'[d], Now(f, x, a), y, a)
      <4>1. Ends(Tail(toServer[d]), Now(Head(toServer[d]), x, a), y, a)
        BY <1>1, <3>3, <3>4, EndsTail
      <4>. QED  BY <3>3, <4>1 DEF Frame
    <3>. QED  BY <3>1, <3>2, <3>4
  <2>6. CASE ~(ForwardRaw(e) /\ e = d)
    <3>1. \/ toClient'[c] = toClient[c]
          \/ \E f \in NoticeFrames \cup Frames :
               toClient'[c] = Append(toClient[c], f) /\ Silent(f)
      <4>1. c = Mate(e) => e = d
        BY <1>1, <1>2, MateIs
      <4>2. DropConn(e) => e # d
        BY <1>1 DEF DropConn
      <4>. QED  BY <1>1, <2>6, <4>1, <4>2, ServedFrame
    <3>2. Ends(toClient'[c], Knows(ui[p], a), x, a)
      <4>1. ASSUME NEW f \in NoticeFrames \cup Frames, toClient'[c] = Append(toClient[c], f),
                   Silent(f)
            PROVE  Ends(toClient'[c], Knows(ui[p], a), x, a)
        <5>1. Now(f, x, a) = x
          BY <4>1 DEF Silent, Now
        <5>2. Ends(Append(toClient[c], f), Knows(ui[p], a), Now(f, x, a), a)
          BY <1>1, <2>2, EndsAppend
        <5>. QED  BY <4>1, <5>1, <5>2
      <4>. QED  BY <2>2, <3>1, <4>1
    <3>3. ASSUME NEW y, Ends(toServer[d], x, y, a)
          PROVE  Ends(toServer'[d], x, y, a)
      <4>1. \/ toServer'[d] = toServer[d]
            \/ /\ toServer[d] # <<>> /\ toServer'[d] = Tail(toServer[d])
               /\ Silent(Frame(d))
        BY <1>1, <2>6, ServedRead
      <4>2. CASE toServer'[d] = toServer[d]
        BY <3>3, <4>2
      <4>3. CASE /\ toServer[d] # <<>> /\ toServer'[d] = Tail(toServer[d])
                 /\ Silent(Frame(d))
        <5>1. Ends(Tail(toServer[d]), Now(Head(toServer[d]), x, a), y, a)
          BY <1>1, <3>3, <4>3, EndsTail
        <5>2. Now(Head(toServer[d]), x, a) = x
          BY <4>3 DEF Silent, Now, Frame
        <5>. QED  BY <4>3, <5>1, <5>2
      <4>. QED  BY <4>1, <4>2, <4>3
    <3>. QED  BY <3>2, <3>3
  <2>. QED  BY <2>5, <2>6
<1>3. CASE Mate(c) # d
  <2>1. /\ HandleJoin(e) /\ Mate(c) = NoConn
        /\ roomOf[e] = NoCode /\ thread[e] = "serving"
    BY <1>1, <1>3, ServedMate
  <2>2. PICK host \in Conn :
           /\ pending'[e] = <<To(e, Notice("RoomJoined", host)),
                              To(host, Notice("RoomPeerJoined", e))>>
           /\ (c = e /\ d = host) \/ (c = host /\ d = e)
    BY <1>1, <1>3, ServedMate
  <2>3. Coming(d, c)'
    <3>. DEFINE one == To(e, Notice("RoomJoined", host))
                two == To(host, Notice("RoomPeerJoined", e))
                s == <<one, two>>
    <3>1. 1 \in DOMAIN s /\ s[1] = one /\ 2 \in DOMAIN s /\ s[2] = two
      OBVIOUS
    <3>. HIDE DEF s
    <3>2. pending'[e] = s
      BY <2>2 DEF s
    <3>. QED  BY <2>2, <3>1, <3>2 DEF Coming
  <2>4. ui[q].opponent # c
    <3>. SUFFICES ASSUME ui[q].opponent = c PROVE FALSE
      OBVIOUS
    <3>1. CASE d = host
      <4>1. Known(c)
        BY <1>1 DEF Talks, KnownTalk
      <4>. QED  BY <2>1, <2>2, <3>1, <4>1 DEF Known
    <3>2. CASE d = e
      <4>1. CASE ui[q].mode = "client"
        <5>1. Hosted(d, c)
          BY <1>1, <4>1 DEF Talks, ClientTalk
        <5>. QED  BY <2>1, <3>2, <5>1 DEF Hosted, GuestOf
      <4>2. CASE ui[q].mode = "host"
        <5>1. toServer[e] # <<>> /\ Head(toServer[e]).type = "JoinRoom"
          BY <2>1 DEF HandleJoin, Reads, Frame
        <5>2. Head(toServer[e]) = toServer[e][1] /\ 1 \in DOMAIN toServer[e]
          BY <5>1, Channels, TailIs
        <5>. QED  BY <3>2, <4>2, <5>1, <5>2, HostIs DEF HostTalk
      <4>. QED  BY <1>1, <4>1, <4>2
    <3>. QED  BY <2>2, <3>1, <3>2
  <2>5. Ends(toClient'[c], Knows(ui[p], a), Unknown(a), a)
    <3>1. toClient'[c] = toClient[c]
      BY <2>1 DEF HandleJoin
    <3>. QED  BY <1>1, <2>1, <3>1 DEF Talks, Alone
  <2>6. ASSUME NEW v, NEW y, Ends(toServer[d], v, y, a)
        PROVE  Ends(toServer'[d], v, y, a)
    <3>1. \/ toServer'[d] = toServer[d]
          \/ /\ toServer[d] # <<>> /\ toServer'[d] = Tail(toServer[d])
             /\ Silent(Frame(d))
      <4>1. ~ForwardRaw(e)
        BY <2>1 DEF HandleJoin, ForwardRaw, ControlTypes
      <4>. QED  BY <1>1, <4>1, ServedRead
    <3>2. CASE toServer'[d] = toServer[d]
      BY <2>6, <3>2
    <3>3. CASE /\ toServer[d] # <<>> /\ toServer'[d] = Tail(toServer[d])
               /\ Silent(Frame(d))
      <4>1. Ends(Tail(toServer[d]), Now(Head(toServer[d]), v, a), y, a)
        BY <1>1, <2>6, <3>3, EndsTail
      <4>2. Now(Head(toServer[d]), v, a) = v
        BY <3>3 DEF Silent, Now, Frame
      <4>. QED  BY <3>3, <4>1, <4>2
    <3>. QED  BY <3>1, <3>2, <3>3
  <2>7. PICK y : Ends(toServer[d], y, Shows(d, ui[q], a), a)
    BY <1>1 DEF Talks, SaysSo
  <2>8. \/ Ends(toServer[d], Unknown(a), Shows(d, ui[q], a), a)
        \/ Ends(toServer[d], Unknown(a), Unknown(a), a)
    BY <2>7, EndsOther
  <2>. QED  BY <2>3, <2>4, <2>5, <2>6, <2>8
<1>. QED  BY <1>2, <1>3

\* No step of the server undoes it.
LEMMA ServePair ==
    ASSUME Grounds, PairInv, NEW e \in Conn, ServeConn(e), UNCHANGED ui
    PROVE  PairInv'
BY ServedTalks, ServedHears DEF PairInv

\* Nor does a connection that breaks.
LEMMA BreakPair ==
    ASSUME Grounds, PairInv, NEW c \in Conn, Break(c), UNCHANGED ui
    PROVE  PairInv'
<1>1. UNCHANGED <<rooms, roomOf, thread, pending>> /\ ~up'[c]
  BY Channels DEF Break
<1>2. \A d \in Conn : d # c => /\ toClient'[d] = toClient[d] /\ toServer'[d] = toServer[d]
                               /\ up'[d] = up[d]
  BY Channels DEF Break
<1>3. ASSUME NEW q \in Player, Here(q)'
      PROVE  /\ Here(q) /\ ui'[q] = ui[q]
             /\ toClient'[Session(q)] = toClient[Session(q)]
             /\ toServer'[Session(q)] = toServer[Session(q)]
  <2>1. Online(q) /\ up'[Session(q)] /\ Session(q) \in Conn
    BY <1>3 DEF Here, Online, Session, Grounds, LobbyInv, SessionsExist
  <2>. QED  BY <1>1, <1>2, <2>1 DEF Here
<1>. QED  BY <1>1, <1>3, AwayPair

\* A program that leaves takes its session away, and nothing of anybody else's.
LEMMA ClosePair ==
    ASSUME Grounds, PairInv, NEW p \in Player, NEW c \in Conn, c = Session(p), NEW u,
           Becomes(p, u), u.mode = "offline", Close(c)
    PROVE  PairInv'
<1>1. UNCHANGED <<rooms, roomOf, thread, pending>>
  BY DEF Close
<1>2. \A d \in Conn : d # c => /\ toClient'[d] = toClient[d] /\ toServer'[d] = toServer[d]
                               /\ up'[d] = up[d]
  BY Channels DEF Close
<1>3. ui'[p] = u /\ \A q \in Player : q # p => ui'[q] = ui[q]
  BY DEF Becomes, Grounds, LobbyInv
<1>4. ASSUME NEW q \in Player, Here(q)'
      PROVE  /\ Here(q) /\ ui'[q] = ui[q]
             /\ toClient'[Session(q)] = toClient[Session(q)]
             /\ toServer'[Session(q)] = toServer[Session(q)]
  <2>1. q # p
    BY <1>3, <1>4 DEF Here, Online
  <2>2. ui'[q] = ui[q] /\ Session(q)' = Session(q) /\ Session(q) # c
    BY <1>3, <2>1 DEF Session
  <2>3. Online(q) /\ up'[Session(q)] /\ Session(q) \in Conn
    BY <1>4, <2>2 DEF Here, Online, Grounds, LobbyInv, SessionsExist
  <2>. QED  BY <1>2, <2>2, <2>3 DEF Here
<1>. QED  BY <1>1, <1>4, AwayPair

-----------------------------------------------------------------------------
(* The programs' handlers and buttons.                                     *)

\* What a program advertises is what it shows, to one who knew it and to one who
\* knew nothing; so is what it says nothing of.
LEMMA AdvertShows ==
    ASSUME NEW p \in Player, NEW c, c = Session(p), NEW u, NEW h, NEW a \in Aspect
    PROVE  LET packet == LobbyPacket(h, DeckOf(p, u), ReadyOf(u))
           IN  /\ Ends(<<packet>>, Shows(c, u, a), Shows(c, u, a), a)
               /\ Ends(<<packet>>, Unknown(a), Shows(c, u, a), a)
<1>. DEFINE packet == LobbyPacket(h, DeckOf(p, u), ReadyOf(u))
<1>1. packet.type = "Lobby" /\ packet.deck = DeckOf(p, u) /\ packet.ready = ReadyOf(u)
  BY DEF LobbyPacket
<1>. HIDE DEF packet
<1>2. /\ Now(packet, Shows(c, u, a), a) = Shows(c, u, a)
      /\ Now(packet, Unknown(a), a) = Shows(c, u, a)
  <2>1. CASE a = "deck"
    BY <1>1, <2>1 DEF Now, Sets, Value, Shows, Unknown, Unsaid, DeckOf
  <2>2. CASE a = "ready"
    BY <1>1, <2>2 DEF Now, Sets, Value, Shows, Unknown, Unsaid, ReadyOf
  <2>. QED  BY <2>1, <2>2 DEF Aspect
<1>3. \A v : Ends(<<packet>>, v, Now(packet, v, a), a)
  BY EndsOne
<1>. QED  BY <1>2, <1>3 DEF packet

\* What is shown and what is known depends on four fields of the memory.
LEMMA SameFields ==
    ASSUME NEW c, NEW u, NEW v, NEW a
    PROVE  /\ u.deck = v.deck /\ u.ready = v.ready => Shows(c, u, a) = Shows(c, v, a)
           /\ u.remoteDeck = v.remoteDeck /\ u.remoteReady = v.remoteReady
                => Knows(u, a) = Knows(v, a)
BY DEF Shows, Knows

\* A program greets whom it is told of, if it is somebody new.
LEMMA Greets ==
    ASSUME Grounds, PairInv, NEW p \in Player, Here(p), NEW c \in Conn, c = Session(p),
           toClient[c] # <<>>, NEW m, m = Head(toClient[c]), Joined(m)
    PROVE  /\ m.who # NoConn
           /\ m.who = Mate(c) /\ ui[p].opponent # m.who => ~ui[p].handshakeSent
<1>1. /\ m = toClient[c][1] /\ 1 \in DOMAIN toClient[c]
      /\ ui[p].mode \in {"client", "host"} /\ Talks(p)
  BY Channels, TailIs DEF PairInv, Grounds, LobbyInv, UIState, Here, Online
<1>2. m.who \in Conn
  BY <1>1 DEF Talks, KnownTalk, Known
<1>3. ASSUME m.who = Mate(c), ui[p].opponent # m.who PROVE ui[p].opponent = NoConn
  <2>1. CASE ui[p].mode = "host"
    <3>1. Speaks(m, ui[p].opponent)
      BY <2>1, HostReads DEF Message
    <3>. QED  BY <1>3, <3>1 DEF Speaks, Joined
  <2>2. CASE ui[p].mode = "client"
    <3>. SUFFICES ASSUME ui[p].opponent # NoConn PROVE FALSE
      OBVIOUS
    <3>1. Hosted(c, ui[p].opponent)
      BY <1>1, <2>2 DEF Talks, ClientTalk
    <3>2. Mate(c) # NoConn
      BY <1>2, <1>3, NoConnAssumption
    <3>3. Mate(c) = ui[p].opponent
      BY <3>1, <3>2, HostedKnown
    <3>. QED  BY <1>3, <3>3
  <2>. QED  BY <1>1, <2>1, <2>2
<1>. QED  BY <1>1, <1>2, <1>3, NoConnAssumption DEF Talks, Greeted

\* Handling a message.
LEMMA HandlerPair ==
    ASSUME Grounds, PairInv, NEW p \in Player, HandleNetMessage(p)
    PROVE  PairInv'
<1>. DEFINE u0 == ui[p]
            c == Session(p)
            m == Message(p)
<1>0. /\ u0 \in UIState /\ LobbyInv /\ m = Head(toClient[c])
      /\ Here(p) /\ u0.handshakeSent => u0.opponent # NoConn
  BY DEF Grounds, LobbyInv, Message, PairInv, Talks, Greeted
<1>1. ASSUME NEW u, NEW out \in Outs, Handled(p, u, out), c \in Conn,
             u.sess = u0.sess, u.mode = u0.mode, u.clean <=> u0.clean,
             u.opponent = Belief(m, u0.opponent),
             \A i \in DOMAIN out : out[i].type # "CreateRoom",
             Here(p) /\ u.handshakeSent => u.opponent # NoConn,
             \A a \in Aspect : Knows(u, a) = Now(m, Knows(u0, a), a),
             \A a \in Aspect : Ends(out, Shows(c, u0, a), Shows(c, u, a), a),
             Here(p) /\ Joined(m) /\ u0.opponent # m.who /\ Mate(c) = m.who =>
               \A a \in Aspect : Ends(out, Unknown(a), Shows(c, u, a), a)
      PROVE  PairInv'
  <2>1. Becomes(p, u) /\ ClientTurn(c, TRUE, out)
    BY <1>1 DEF Handled
  <2>. SUFFICES ASSUME NEW d \in Conn, d = Session(p), NEW f, f = m,
                       NEW take \in BOOLEAN, take = TRUE
                PROVE  PairInv'
    BY <1>1
  <2>2. /\ d = Session(p) /\ u.sess = ui[p].sess /\ u.mode = ui[p].mode
        /\ u.clean <=> ui[p].clean
        /\ \A a \in Aspect : Ends(out, Shows(d, ui[p], a), Shows(d, u, a), a)
        /\ \A i \in DOMAIN out : out[i].type # "CreateRoom"
    BY <1>1
  <2>3. Becomes(p, u) /\ ClientTurn(d, take, out) /\ (take => f = Head(toClient[d]))
    BY <1>0, <2>1
  <2>4. u.opponent = IF take THEN Belief(f, ui[p].opponent) ELSE ui[p].opponent
    BY <1>1
  <2>5. \A a \in Aspect : Knows(u, a) = IF take THEN Now(f, Knows(ui[p], a), a)
                                               ELSE Knows(ui[p], a)
    BY <1>1
  <2>6. Here(p) /\ u.handshakeSent => u.opponent # NoConn
    BY <1>1
  <2>7. \A e \in Conn :
          Here(p) /\ take /\ Joined(f) /\ f.who = e /\ ui[p].opponent # e /\ Mate(d) = e =>
            \A a \in Aspect : Ends(out, Unknown(a), Shows(d, u, a), a)
    BY <1>1
  <2>8. out \in Outs
    BY <1>1
  <2>. HIDE DEF u0, c, m
  <2>. QED  BY ONLY Grounds, PairInv, p \in Player, <2>2, <2>3, <2>4, <2>5, <2>6, <2>7, <2>8, TurnPair
<1>2. ASSUME NEW type, Receives(p, type)
      PROVE  c \in Conn /\ m.type = type /\ toClient[c] # <<>>
  BY <1>0, <1>2, ReadType DEF Receives, Message
<1>3. ASSUME NEW u, Handled(p, u, <<>>), c \in Conn,
             u.sess = u0.sess, u.mode = u0.mode, u.clean <=> u0.clean,
             u.deck = u0.deck, u.ready = u0.ready,
             u.opponent = Belief(m, u0.opponent), ~Joined(m),
             Here(p) /\ u.handshakeSent => u.opponent # NoConn,
             \A a \in Aspect : Knows(u, a) = Now(m, Knows(u0, a), a)
      PROVE  PairInv'
  <2>1. <<>> \in Outs /\ \A i \in DOMAIN <<>> : <<>>[i].type # "CreateRoom"
    BY WritesAllowed
  <2>2. \A a \in Aspect : Ends(<<>>, Shows(c, u0, a), Shows(c, u, a), a)
    BY <1>3, EndsNothing, SameFields
  <2>. HIDE DEF u0, c, m
  <2>. QED  BY <1>1, <1>3, <2>1, <2>2
<1>4. ASSUME NEW u, NEW packet, NEW out, Handled(p, u, out), c \in Conn,
             out = <<>> \/ out = <<packet>>,
             <<packet>> \in Outs, packet.type # "CreateRoom",
             u.sess = u0.sess, u.mode = u0.mode, u.clean <=> u0.clean,
             u.deck = u0.deck, u.ready = u0.ready,
             u.opponent = Belief(m, u0.opponent),
             Here(p) /\ u.handshakeSent => u.opponent # NoConn,
             \A a \in Aspect : Knows(u, a) = Now(m, Knows(u0, a), a),
             \A a \in Aspect : /\ Ends(<<packet>>, Shows(c, u0, a), Shows(c, u0, a), a)
                               /\ Ends(<<packet>>, Unknown(a), Shows(c, u0, a), a),
             Here(p) /\ Joined(m) /\ u0.opponent # m.who /\ Mate(c) = m.who =>
               out = <<packet>>
      PROVE  PairInv'
  <2>1. out \in Outs /\ \A i \in DOMAIN out : out[i].type # "CreateRoom"
    <3>1. CASE out = <<>>
      BY <3>1, WritesAllowed
    <3>2. CASE out = <<packet>>
      BY <1>4, <3>2
    <3>. QED  BY <1>4, <3>1, <3>2
  <2>2. \A a \in Aspect : Shows(c, u, a) = Shows(c, u0, a)
    BY <1>4, SameFields
  <2>3. \A a \in Aspect : Ends(out, Shows(c, u0, a), Shows(c, u, a), a)
    BY <1>4, <2>2, EndsNothing
  <2>4. Here(p) /\ Joined(m) /\ u0.opponent # m.who /\ Mate(c) = m.who =>
          \A a \in Aspect : Ends(out, Unknown(a), Shows(c, u, a), a)
    BY <1>4, <2>2
  <2>. HIDE DEF u0, c, m
  <2>. QED  BY <1>1, <1>4, <2>1, <2>3, <2>4
<1>5. CASE OnRoomCreated(p)
  <2>1. Handled(p, u0, <<>>) /\ Receives(p, "RoomCreated")
    BY <1>5 DEF OnRoomCreated
  <2>2. m.type = "RoomCreated" /\ c \in Conn
    BY <1>2, <2>1
  <2>3. u0.opponent = Belief(m, u0.opponent) /\ ~Joined(m)
        /\ \A a \in Aspect : Knows(u0, a) = Now(m, Knows(u0, a), a)
    BY <2>2 DEF Belief, Joined, Now, Sets
  <2>. HIDE DEF u0, c, m
  <2>. QED  BY <1>0, <1>3, <2>1, <2>2, <2>3 DEF u0
<1>6. CASE OnRoomJoined(p) \/ OnRoomPeerJoined(p)
  <2>. DEFINE u1 == [u0 EXCEPT !.opponent = m.who]
              u  == [u1 EXCEPT !.handshakeSent = TRUE]
              packet == LobbyPacket(TRUE, DeckOf(p, u1), ReadyOf(u1))
              out == IF u1.handshakeSent THEN <<>> ELSE <<packet>>
  <2>1. /\ Handled(p, u, out)
        /\ Receives(p, "RoomJoined") \/ Receives(p, "RoomPeerJoined")
    BY <1>6 DEF OnRoomJoined, OnRoomPeerJoined, Kickoff
  <2>2. /\ c \in Conn /\ m.type \in {"RoomJoined", "RoomPeerJoined"}
        /\ m.who \in Conn \cup {NoConn} /\ toClient[c] # <<>>
    BY <1>0, <1>2, <2>1, ReadType
  <2>3. /\ u1 \in UIState /\ u1.handshakeSent = u0.handshakeSent
        /\ u1.deck = u0.deck /\ u1.ready = u0.ready
        /\ u.sess = u0.sess /\ u.mode = u0.mode /\ u.opponent = m.who
        /\ u.clean = u0.clean /\ u.remoteDeck = u0.remoteDeck
        /\ u.remoteReady = u0.remoteReady
        /\ u.deck = u0.deck /\ u.ready = u0.ready
    BY <1>0, <2>2 DEF UIState
  <2>4. u.opponent = Belief(m, u0.opponent)
        /\ \A a \in Aspect : Knows(u, a) = Now(m, Knows(u0, a), a)
    <3>1. \A a : Knows(u, a) = Knows(u0, a)
      BY <2>3 DEF Knows
    <3>. QED  BY <2>2, <2>3, <3>1 DEF Belief, Now, Sets
  <2>. HIDE DEF u1
  <2>5. DeckOf(p, u1) \in Tags \cup {NoDeck} /\ ReadyOf(u1) \in Says
    BY <2>2, <2>3, AdvertType
  <2>6. <<packet>> \in Outs /\ packet.type # "CreateRoom"
    BY <2>5, WritesAllowed DEF LobbyPacket
  <2>7. \A a \in Aspect : /\ Ends(<<packet>>, Shows(c, u0, a), Shows(c, u0, a), a)
                          /\ Ends(<<packet>>, Unknown(a), Shows(c, u0, a), a)
    <3>1. \A a \in Aspect : Shows(c, u1, a) = Shows(c, u0, a)
      BY <2>3, SameFields
    <3>2. \A a \in Aspect : /\ Ends(<<packet>>, Shows(c, u1, a), Shows(c, u1, a), a)
                            /\ Ends(<<packet>>, Unknown(a), Shows(c, u1, a), a)
      BY AdvertShows
    <3>. QED  BY <3>1, <3>2
  <2>8. Joined(m)
    BY <2>2 DEF Joined
  <2>9. Here(p) => /\ m.who # NoConn
                   /\ m.who = Mate(c) /\ u0.opponent # m.who => ~u0.handshakeSent
    BY <1>0, <2>2, <2>8, Greets
  <2>10. /\ Here(p) /\ Joined(m) /\ u0.opponent # m.who /\ Mate(c) = m.who => out = <<packet>>
         /\ out = <<>> \/ out = <<packet>>
         /\ Here(p) /\ u.handshakeSent => u.opponent # NoConn
    BY <2>3, <2>9
  <2>. HIDE DEF u, out, packet, u0, c, m
  <2>. QED  BY <1>4, <2>1, <2>2, <2>3, <2>4, <2>6, <2>7, <2>10
<1>7. CASE OnRoomClosed(p)
  <2>. DEFINE u == [u0 EXCEPT !.remoteDeck = NoDeck, !.remoteReady = FALSE,
                              !.handshakeSent = FALSE, !.opponent = NoConn]
  <2>1. Handled(p, u, <<>>) /\ Receives(p, "RoomClosed")
    BY <1>7 DEF OnRoomClosed
  <2>2. /\ u.sess = u0.sess /\ u.mode = u0.mode /\ u.opponent = NoConn
        /\ u.remoteDeck = NoDeck /\ ~u.remoteReady /\ ~u.handshakeSent
        /\ u.clean = u0.clean /\ u.deck = u0.deck /\ u.ready = u0.ready
    BY <1>0 DEF UIState
  <2>3. m.type = "RoomClosed" /\ c \in Conn
    BY <1>2, <2>1
  <2>4. /\ u.opponent = Belief(m, u0.opponent) /\ ~Joined(m)
    BY <2>2, <2>3 DEF Belief, Joined
  <2>5. \A a \in Aspect : Knows(u, a) = Now(m, Knows(u0, a), a)
    BY <2>2, <2>3 DEF Now, Sets, Value, Unknown, Knows
  <2>. HIDE DEF u, u0, c, m
  <2>. QED  BY <1>3, <2>1, <2>2, <2>3, <2>4, <2>5
<1>8. CASE OnRoomError(p)
  <2>. DEFINE u == Offline(u0)
  <2>1. /\ Becomes(p, u) /\ Close(c) /\ Receives(p, "RoomError")
        /\ u.mode = "offline"
    BY <1>0, <1>8 DEF OnRoomError, Offline, UIState
  <2>. HIDE DEF u
  <2>. QED  BY <1>2, <2>1, ClosePair
<1>9. CASE OnLobbyPacket(p)
  <2>. DEFINE u == Heard(u0, m)
              packet == LobbyPacket(FALSE, DeckOf(p, u0), ReadyOf(u0))
              out == IF m.hello THEN Advert(p, u0) ELSE <<>>
  <2>1. Handled(p, u, out) /\ Receives(p, "Lobby")
    BY <1>9 DEF OnLobbyPacket
  <2>2. /\ c \in Conn /\ m.type = "Lobby" /\ m.ready \in Says
    BY <1>0, <1>2, <2>1, ReadType
  <2>3. /\ u.sess = u0.sess /\ u.mode = u0.mode /\ u.opponent = u0.opponent
        /\ u.clean = u0.clean /\ u.deck = u0.deck /\ u.ready = u0.ready
        /\ u.handshakeSent = u0.handshakeSent
        /\ u.remoteDeck = IF m.deck = NoDeck THEN u0.remoteDeck ELSE m.deck
        /\ u.remoteReady <=> IF m.ready = "nothing" THEN u0.remoteReady ELSE m.ready = "yes"
    BY <1>0 DEF Heard, UIState
  <2>4. u.opponent = Belief(m, u0.opponent) /\ ~Joined(m)
    BY <2>2, <2>3 DEF Belief, Joined
  <2>5. ASSUME NEW a \in Aspect PROVE Knows(u, a) = Now(m, Knows(u0, a), a)
    <3>1. CASE a = "deck"
      <4>1. Knows(u, a) = u.remoteDeck /\ Knows(u0, a) = u0.remoteDeck
        BY <3>1 DEF Knows
      <4>2. m[a] = m.deck
        BY <3>1
      <4>3. Now(m, Knows(u0, a), a) = IF m.deck = NoDeck THEN u0.remoteDeck ELSE m.deck
        BY <2>2, <3>1, <4>1, <4>2 DEF Now, Sets, Value, Unsaid
      <4>. QED  BY <2>3, <4>1, <4>3
    <3>2. CASE a = "ready"
      <4>1. /\ Knows(u, a) = IF u.remoteReady THEN "yes" ELSE "no"
            /\ Knows(u0, a) = IF u0.remoteReady THEN "yes" ELSE "no"
        BY <3>2 DEF Knows
      <4>2. m[a] = m.ready
        BY <3>2
      <4>3. Now(m, Knows(u0, a), a) = IF m.ready = "nothing" THEN Knows(u0, a) ELSE m.ready
        BY <2>2, <3>2, <4>2 DEF Now, Sets, Value, Unsaid
      <4>. HIDE DEF u0, u, m
      <4>. QED  BY <2>2, <2>3, <4>1, <4>3 DEF Says
    <3>. QED  BY <3>1, <3>2 DEF Aspect
  <2>6. DeckOf(p, u0) \in Tags \cup {NoDeck} /\ ReadyOf(u0) \in Says
    BY <1>0, <2>2, AdvertType
  <2>7. <<packet>> \in Outs /\ packet.type # "CreateRoom"
    BY <2>6, WritesAllowed DEF LobbyPacket
  <2>8. out = <<>> \/ out = <<packet>>
    BY DEF Advert
  <2>9. \A a \in Aspect : /\ Ends(<<packet>>, Shows(c, u0, a), Shows(c, u0, a), a)
                          /\ Ends(<<packet>>, Unknown(a), Shows(c, u0, a), a)
    BY AdvertShows
  <2>10. Here(p) /\ u.handshakeSent => u.opponent # NoConn
    BY <1>0, <2>3
  <2>. HIDE DEF u, out, packet, u0, c, m
  <2>. QED  BY <1>4, <2>1, <2>2, <2>3, <2>4, <2>5, <2>7, <2>8, <2>9, <2>10
<1>10. CASE OnStartDuel(p)
  <2>. DEFINE u == [u0 EXCEPT !.inDuel = TRUE, !.screen = "duel"]
  <2>1. Handled(p, u, <<>>) /\ Receives(p, "StartDuel")
    BY <1>10 DEF OnStartDuel
  <2>2. /\ u.sess = u0.sess /\ u.mode = u0.mode /\ u.opponent = u0.opponent
        /\ u.clean = u0.clean /\ u.remoteDeck = u0.remoteDeck
        /\ u.remoteReady = u0.remoteReady /\ u.deck = u0.deck /\ u.ready = u0.ready
        /\ u.handshakeSent = u0.handshakeSent
    BY <1>0 DEF UIState
  <2>3. m.type = "StartDuel" /\ c \in Conn
    BY <1>2, <2>1
  <2>4. u.opponent = Belief(m, u0.opponent) /\ ~Joined(m)
        /\ \A a \in Aspect : Knows(u, a) = Now(m, Knows(u0, a), a)
    <3>1. \A a : Knows(u, a) = Knows(u0, a)
      BY <2>2 DEF Knows
    <3>. QED  BY <2>2, <2>3, <3>1 DEF Belief, Joined, Now, Sets
  <2>. HIDE DEF u, u0, c, m
  <2>. QED  BY <1>0, <1>3, <2>1, <2>2, <2>3, <2>4
<1>. QED  BY <1>5, <1>6, <1>7, <1>8, <1>9, <1>10 DEF HandleNetMessage

\* A button.
LEMMA ButtonPair ==
    ASSUME Grounds, PairInv, NEW p \in Player, PlayerStep(p) \/ PlayerClick(p)
    PROVE  PairInv'
<1>. DEFINE u0 == ui[p]
            c == Session(p)
<1>0. /\ u0 \in UIState /\ u0.sess \in Nat /\ (Online(p) => c \in Conn)
      /\ Here(p) /\ u0.handshakeSent => u0.opponent # NoConn
  BY DEF Grounds, LobbyInv, SessionsExist, UIState, PairInv, Talks, Greeted
<1>1. ASSUME NEW mode \in {"host", "client"}, NEW request, MayOpen(p),
             Becomes(p, Opened(u0, mode)), Connect(<<p, u0.sess + 1>>, request),
             request.type \in {"CreateRoom", "JoinRoom"},
             mode = "client" => request.type # "CreateRoom"
      PROVE  PairInv'
  <2>. DEFINE v == [u0 EXCEPT !.sess = u0.sess + 1, !.mode = mode,
                              !.handshakeSent = FALSE, !.opponent = NoConn]
              clean == u0.remoteDeck = NoDeck /\ ~u0.remoteReady
              u == Opened(u0, mode)
              d == <<p, u0.sess + 1>>
  <2>1. u0.sess + 1 \in Nat /\ clean \in BOOLEAN
    BY <1>0
  <2>2. /\ v \in UIState /\ v.sess = u0.sess + 1 /\ v.mode = mode /\ ~v.handshakeSent
        /\ v.opponent = NoConn /\ v.remoteDeck = u0.remoteDeck
        /\ v.remoteReady <=> u0.remoteReady
    BY <1>0, <2>1 DEF UIState
  <2>3. u = [v EXCEPT !.clean = clean]
    BY DEF Opened
  <2>. HIDE DEF u, v
  <2>4. /\ u.sess = u0.sess + 1 /\ u.mode = mode /\ u.opponent = NoConn
        /\ ~u.handshakeSent /\ (u.clean <=> clean)
        /\ u.remoteDeck = u0.remoteDeck /\ (u.remoteReady <=> u0.remoteReady)
    BY <2>1, <2>2, <2>3 DEF UIState
  <2>5. u.clean => \A a \in Aspect : Knows(u, a) = Unknown(a)
    <3>1. u.clean => u.remoteDeck = NoDeck /\ ~u.remoteReady
      BY <2>4
    <3>. QED  BY <3>1 DEF Knows, Unknown
  <2>6. d \in Conn /\ d = <<p, u.sess>> /\ Becomes(p, u)
    BY <1>1, <2>4 DEF MayOpen, u
  <2>. HIDE DEF d, u0
  <2>7. Connect(d, request) /\ (u.mode = "client" => request.type # "CreateRoom")
    BY <1>1, <2>4 DEF d
  <2>8. request.type \in {"CreateRoom", "JoinRoom"}
    BY <1>1
  <2>. QED  BY ONLY Grounds, PairInv, p \in Player, <2>4, <2>5, <2>6, <2>7, <2>8, OpenPair
<1>2. ASSUME NEW u, Online(p), Becomes(p, u), u.mode = "offline", Close(c)
      PROVE  PairInv'
  BY <1>0, <1>2, ClosePair
<1>3. ASSUME NEW u, NEW packet, Online(p), Announces(p, u, <<packet>>),
             <<packet>> \in Outs, packet.type # "CreateRoom",
             u.sess = u0.sess, u.mode = u0.mode, u.opponent = u0.opponent,
             u.handshakeSent = u0.handshakeSent, u.clean = u0.clean,
             u.remoteDeck = u0.remoteDeck, u.remoteReady = u0.remoteReady,
             \A a \in Aspect : Now(packet, Shows(c, u0, a), a) = Shows(c, u, a)
      PROVE  PairInv'
  <2>. SUFFICES ASSUME NEW d \in Conn, d = Session(p), NEW m, NEW take \in BOOLEAN, take = FALSE,
                       NEW out \in Outs, out = <<packet>>
                PROVE  PairInv'
    BY <1>0, <1>3
  <2>1. /\ Becomes(p, u) /\ ClientTurn(d, take, out)
        /\ \A i \in DOMAIN out : out[i].type # "CreateRoom"
    <3>1. Becomes(p, u) /\ ClientTurn(c, FALSE, <<packet>>)
      BY <1>3 DEF Announces
    <3>2. \A i \in DOMAIN <<packet>> : <<packet>>[i].type # "CreateRoom"
      BY <1>3
    <3>. QED  BY <3>1, <3>2
  <2>2. \A a : Knows(u, a) = Knows(u0, a)
    BY <1>3 DEF Knows
  <2>3. \A a \in Aspect : Ends(out, Shows(d, ui[p], a), Shows(d, u, a), a)
    <3>. SUFFICES ASSUME NEW a \in Aspect PROVE Ends(out, Shows(d, ui[p], a), Shows(d, u, a), a)
      OBVIOUS
    <3>1. Ends(<<packet>>, Shows(d, ui[p], a), Now(packet, Shows(d, ui[p], a), a), a)
      BY EndsOne
    <3>. QED  BY <1>3, <3>1
  <2>4. /\ d = Session(p) /\ u.sess = ui[p].sess /\ u.mode = ui[p].mode
        /\ u.clean <=> ui[p].clean
        /\ Here(p) /\ u.handshakeSent => u.opponent # NoConn
    BY <1>0, <1>3
  <2>5. u.opponent = IF take THEN Belief(m, ui[p].opponent) ELSE ui[p].opponent
    BY <1>3
  <2>6. \A a \in Aspect : Knows(u, a) = IF take THEN Now(m, Knows(ui[p], a), a)
                                               ELSE Knows(ui[p], a)
    BY <2>2
  <2>7. ~take
    OBVIOUS
  <2>. HIDE DEF u0, c
  <2>. QED  BY ONLY Grounds, PairInv, p \in Player, <2>1, <2>3, <2>4, <2>5, <2>6, <2>7, TurnPair
<1>4. CASE StartRelayCreate(p)
  <2>. DEFINE request == [type |-> "CreateRoom"]
  <2>1. request.type = "CreateRoom"
    OBVIOUS
  <2>. HIDE DEF request
  <2>2. MayOpen(p) /\ Becomes(p, Opened(u0, "host")) /\ Connect(<<p, u0.sess + 1>>, request)
    BY <1>4 DEF StartRelayCreate, request
  <2>. QED  BY <1>1, <2>1, <2>2
<1>5. CASE StartRelayJoin(p)
  <2>1. PICK code \in Code :
          Connect(<<p, u0.sess + 1>>, [type |-> "JoinRoom", code |-> code])
    BY <1>5 DEF StartRelayJoin
  <2>. DEFINE request == [type |-> "JoinRoom", code |-> code]
  <2>2. request.type = "JoinRoom"
    OBVIOUS
  <2>. HIDE DEF request
  <2>3. MayOpen(p) /\ Becomes(p, Opened(u0, "client")) /\ Connect(<<p, u0.sess + 1>>, request)
    BY <1>5, <2>1 DEF StartRelayJoin, request
  <2>. QED  BY <1>1, <2>2, <2>3
<1>6. CASE LeaveRoom(p)
  <2>. DEFINE u == [Offline(u0) EXCEPT
                      !.ready = FALSE, !.remoteDeck = NoDeck,
                      !.remoteReady = FALSE, !.handshakeSent = FALSE]
  <2>1. u.mode = "offline"
    BY <1>0 DEF Offline, UIState
  <2>2. Online(p) /\ Becomes(p, u) /\ Close(c)
    BY <1>6 DEF LeaveRoom
  <2>. HIDE DEF u, c
  <2>. QED  BY <1>2, <2>1, <2>2
<1>7. CASE BackOut(p)
  <2>. DEFINE u == Offline(u0)
  <2>1. u.mode = "offline"
    BY <1>0 DEF Offline, UIState
  <2>2. Online(p) /\ Becomes(p, u) /\ Close(c)
    BY <1>7 DEF BackOut
  <2>. HIDE DEF u, c
  <2>. QED  BY <1>2, <2>1, <2>2
<1>8. CASE LeaveDuel(p)
  <2>. DEFINE u == [Offline(u0) EXCEPT !.inDuel = FALSE, !.screen = "room"]
  <2>1. u.mode = "offline"
    BY <1>0 DEF Offline, UIState
  <2>2. Online(p) /\ Becomes(p, u) /\ Close(c)
    BY <1>8 DEF LeaveDuel
  <2>. HIDE DEF u, c
  <2>. QED  BY <1>2, <2>1, <2>2
<1>9. CASE LeaveLostDuel(p)
  <2>. DEFINE u == [u0 EXCEPT !.inDuel = FALSE, !.screen = "room"]
  <2>1. u.sess = u0.sess
    BY <1>0 DEF UIState
  <2>2. Becomes(p, u) /\ ~up[c]
        /\ UNCHANGED <<rooms, roomOf, thread, pending, up, toClient, toServer>>
    BY <1>9 DEF LeaveLostDuel, relayVars
  <2>. HIDE DEF u
  <2>3. ui'[p] = u /\ \A q \in Player : q # p => ui'[q] = ui[q]
    BY <2>2 DEF Becomes, Grounds, LobbyInv
  <2>4. \A q \in Player : Session(q)' = Session(q)
    BY <2>1, <2>3 DEF Session
  <2>5. ASSUME NEW q \in Player, Here(q)'
        PROVE  /\ Here(q) /\ ui'[q] = ui[q]
               /\ toClient'[Session(q)] = toClient[Session(q)]
               /\ toServer'[Session(q)] = toServer[Session(q)]
    BY <2>2, <2>3, <2>4, <2>5 DEF Here, Online
  <2>. QED  BY <2>2, <2>5, AwayPair
<1>10. CASE PickDeck(p)
  <2>1. PICK x \in Deck :
          Announces(p, [u0 EXCEPT !.deck = x],
                    <<LobbyPacket(FALSE, <<Session(p), x>>, "nothing")>>)
    BY <1>10 DEF PickDeck, Clicks
  <2>. DEFINE u == [u0 EXCEPT !.deck = x]
              packet == LobbyPacket(FALSE, <<Session(p), x>>, "nothing")
  <2>2. Online(p) /\ <<c, x>> \in Tags /\ x # NoDeck /\ <<c, x>> # NoDeck
    BY <1>0, <1>10, NoDeckAssumption DEF PickDeck, InRoom, Tags
  <2>3. /\ u.sess = u0.sess /\ u.mode = u0.mode /\ u.opponent = u0.opponent
        /\ u.clean = u0.clean /\ u.remoteDeck = u0.remoteDeck
        /\ u.remoteReady = u0.remoteReady /\ u.handshakeSent = u0.handshakeSent
        /\ u.deck = x /\ u.ready = u0.ready
    BY <1>0 DEF UIState
  <2>4. <<packet>> \in Outs
    BY <1>0, <2>2, WritesAllowed DEF Says
  <2>5. packet.type = "Lobby" /\ packet.deck = <<c, x>> /\ packet.ready = "nothing"
    BY DEF LobbyPacket
  <2>. HIDE DEF u, packet
  <2>6. Announces(p, u, <<packet>>)
    BY <2>1 DEF u, packet
  <2>7. ASSUME NEW a \in Aspect PROVE Now(packet, Shows(c, u0, a), a) = Shows(c, u, a)
    <3>1. CASE a = "deck"
      BY <2>2, <2>3, <2>5, <3>1 DEF Now, Sets, Value, Unsaid, Shows
    <3>2. CASE a = "ready"
      BY <2>3, <2>5, <3>2 DEF Now, Sets, Value, Unsaid, Shows
    <3>. QED  BY <3>1, <3>2 DEF Aspect
  <2>. HIDE DEF u0, c
  <2>. QED  BY <1>3, <2>2, <2>3, <2>4, <2>5, <2>6, <2>7
<1>11. CASE ToggleReady(p)
  <2>. DEFINE u == [u0 EXCEPT !.ready = ~u0.ready]
              say == IF u0.ready THEN "no" ELSE "yes"
              packet == LobbyPacket(FALSE, NoDeck, say)
  <2>1. Online(p) /\ Announces(p, u, <<packet>>) /\ say \in Says
    BY <1>11 DEF ToggleReady, InRoom, Clicks, Says
  <2>2. /\ u.sess = u0.sess /\ u.mode = u0.mode /\ u.opponent = u0.opponent
        /\ u.clean = u0.clean /\ u.remoteDeck = u0.remoteDeck
        /\ u.remoteReady = u0.remoteReady /\ u.handshakeSent = u0.handshakeSent
        /\ u.deck = u0.deck /\ (u.ready <=> ~u0.ready)
    BY <1>0 DEF UIState
  <2>3. <<packet>> \in Outs
    <3>. HIDE DEF say
    <3>. QED  BY <2>1, WritesAllowed
  <2>4. packet.type = "Lobby" /\ packet.deck = NoDeck /\ packet.ready = say
    BY DEF LobbyPacket
  <2>. HIDE DEF u, packet
  <2>5. ASSUME NEW a \in Aspect PROVE Now(packet, Shows(c, u0, a), a) = Shows(c, u, a)
    <3>1. CASE a = "deck"
      BY <2>2, <2>4, <3>1 DEF Now, Sets, Value, Unsaid, Shows
    <3>2. CASE a = "ready"
      BY <2>2, <2>4, <3>2 DEF Now, Sets, Value, Unsaid, Shows
    <3>. QED  BY <3>1, <3>2 DEF Aspect
  <2>. HIDE DEF u0, c, say
  <2>. QED  BY <1>3, <2>1, <2>2, <2>3, <2>4, <2>5
<1>12. CASE SendStartDuel(p)
  <2>. DEFINE u == [u0 EXCEPT !.inDuel = TRUE, !.screen = "duel"]
              packet == StartDuel(u0.remoteDeck)
  <2>1. Online(p) /\ u0.remoteDeck \in Tags
    BY <1>0, <1>12 DEF SendStartDuel, InRoom, CanStart, UIState
  <2>2. Announces(p, u, <<packet>>) \/ Announces(p, u0, <<packet>>)
    BY <1>12 DEF SendStartDuel, Clicks
  <2>3. /\ u.sess = u0.sess /\ u.mode = u0.mode /\ u.opponent = u0.opponent
        /\ u.clean = u0.clean /\ u.remoteDeck = u0.remoteDeck
        /\ u.remoteReady = u0.remoteReady /\ u.handshakeSent = u0.handshakeSent
        /\ u.deck = u0.deck /\ u.ready = u0.ready
    BY <1>0 DEF UIState
  <2>4. <<packet>> \in Outs
    BY <1>0, <2>1, WritesAllowed
  <2>5. packet.type = "StartDuel"
    BY DEF StartDuel
  <2>. HIDE DEF u, packet
  <2>6. \A a \in Aspect : Now(packet, Shows(c, u0, a), a) = Shows(c, u0, a)
    BY <2>5 DEF Now, Sets
  <2>7. \A a \in Aspect : Now(packet, Shows(c, u0, a), a) = Shows(c, u, a)
    BY <2>3, <2>6, SameFields
  <2>. HIDE DEF u0, c
  <2>. QED  BY <1>3, <2>1, <2>2, <2>3, <2>4, <2>5, <2>6, <2>7
<1>. QED  BY <1>4, <1>5, <1>6, <1>7, <1>8, <1>9, <1>10, <1>11, <1>12
          DEF PlayerStep, PlayerClick

\* Every step.
LEMMA PairNext == Grounds /\ PairInv /\ [LobbyNext]_lobbyVars => PairInv'
<1>. SUFFICES ASSUME Grounds, PairInv, [LobbyNext]_lobbyVars PROVE PairInv'
  OBVIOUS
<1>1. CASE \E c \in Conn : ServerStep(c)
  BY <1>1, ServePair DEF ServerStep
<1>2. CASE \E c \in Conn : ConnectionBreaks(c) /\ UNCHANGED ui
  BY <1>2, BreakPair DEF ConnectionBreaks
<1>3. CASE \E p \in Player : ProgramStep(p)
  BY <1>3, HandlerPair DEF ProgramStep
<1>4. CASE \E p \in Player : PlayerStep(p) /\ UNCHANGED events
  BY <1>4, ButtonPair
<1>5. CASE \E p \in Player : PlayerClick(p)
  BY <1>5, ButtonPair
<1>6. CASE UNCHANGED lobbyVars
  <2>1. UNCHANGED <<ui, rooms, roomOf, thread, pending, up, toClient, toServer>>
    BY <1>6 DEF lobbyVars, relayVars
  <2>2. \A q \in Player : Here(q)' => Here(q)
    BY <2>1 DEF Here, Online, Session
  <2>. QED  BY <2>1, <2>2, AwayPair
<1>. QED  BY <1>1, <1>2, <1>3, <1>4, <1>5, <1>6 DEF LobbyNext

\* In the beginning nobody is there.
LEMMA PairInit == LobbyInit => PairInv
<1>. SUFFICES ASSUME LobbyInit PROVE PairInv
  OBVIOUS
<1>1. \A q \in Player : ~Here(q)
  BY DEF LobbyInit, Here, Online
<1>. QED  BY <1>1 DEF PairInv, Talks, ClientTalk, KnownTalk, Greeted, SaysSo, Alone, Hears

\* When a host and a guest have handled all there was between them, each knows the
\* other's deck and readiness, whoever was first, whatever was clicked during the
\* handshake, and whoever was in the room before (UI::mpKickoffHandshake).
THEOREM SettledSafe == LobbySpec => []SettledPairAgrees
<1>1. LobbyInit => Grounds /\ PairInv
  BY LobbyStart, SeatsInit, ToldInit, TalkInit, PairInit DEF Grounds
<1>2. Grounds /\ PairInv /\ [LobbyNext]_lobbyVars => Grounds' /\ PairInv'
  <2>. SUFFICES ASSUME Grounds, PairInv, [LobbyNext]_lobbyVars PROVE Grounds' /\ PairInv'
    OBVIOUS
  <2>1. [RelayNext]_relayVars /\ LobbyInv'
    BY LobbyStep DEF Grounds
  <2>2. SeatsAgree' /\ ToldInv'
    BY <2>1, SeatsNext, ToldNext DEF Grounds, LobbyInv
  <2>. QED  BY <2>1, <2>2, TalkNext, PairNext DEF Grounds
<1>3. Grounds /\ PairInv => SettledPairAgrees
  BY PairSettled
<1>. QED  BY <1>1, <1>2, <1>3, PTL DEF LobbySpec
=============================================================================
