--------------------------- MODULE GroupDuelProofs ---------------------------
(***************************************************************************)
(* Proofs about module GroupDuel, in two parts.                            *)
(*                                                                         *)
(* First: no copy of a score counts a win that was not recorded, and       *)
(* saving never takes anything out of a file.  Campaigns are only ever     *)
(* merged, added to and copied, so each action is shown to leave the       *)
(* machine that acts with a program and a file that are sound (lemma       *)
(* ...Sound of the action), and one lemma turns that into the invariants   *)
(* and the action property.                                                *)
(*                                                                         *)
(* Then: in one stay in the room a guest scores a duel at most once, and   *)
(* two machines that have handled all frames show the same leaderboard.    *)
(* Both are about what is on its way.  In every step one machine acts: it  *)
(* takes at most one frame off its own channel and puts frames behind the  *)
(* other's.  What a step does to the channels, the flags and the boards is *)
(* stated once per action (lemmas ...Plays and ...Stays), and the          *)
(* invariants are proved from that.                                        *)
(***************************************************************************)
EXTENDS GroupDuel, SequenceTheorems, TLAPS

(* The values.                                                             *)
Points == {NotMember} \cup Nat
Campaign == [exists : BOOLEAN, board : [Member -> Points], spins : Nat]
Program == [loaded : BOOLEAN, arcade : Campaign, group : BOOLEAN, auto : BOOLEAN,
            inDuel : BOOLEAN, remoteDone : BOOLEAN, ready : BOOLEAN,
            role : {"offline", "host", "client"}, link : {"none", "up", "lost"}]
Winner == Member \cup {"draw", "none"}
Engine == [st : {"none", "run", "done"}, winner : Winner]
Signal == {"joined", "start", "surrender", "bye", "closed"}
Frame == [t : Signal] \cup [t : {"over"}, winner : Winner]
           \cup [t : {"sync"}, board : [Member -> Points]]

(* Those that count no more wins than e.                                   *)
Within(board, e) == \A n \in Member : board[n] <= e[n]
Campaigns(e) == {a \in Campaign : Within(a.board, e)}
Programs(e) == {s \in Program : s.arcade \in Campaigns(e)}
Messages(e) == {f \in Frame : f.t = "sync" => Within(f.board, e)}

TypeOK ==
    /\ earned \in [Member -> Nat]
    /\ save \in [Member -> Campaigns(earned)]
    /\ app \in [Member -> Programs(earned)]
    /\ net \in [Member -> Seq(Messages(earned))]
    /\ eng \in [Member -> Engine]
    /\ room \in [host : Member \cup {"none"}, full : BOOLEAN]
    /\ scored \in [Member -> Seq({"win", "loss", "draw"})]

\* b holds what a holds, and perhaps more.
Grows(a, b) ==
    /\ b.spins >= a.spins
    /\ \A n \in Member : b.board[n] >= a.board[n]

\* A file that is not there is empty, and what is in memory has the file's.
FileInv(s, f) ==
    /\ ~f.exists => f.spins = 0 /\ \A n \in Member : f.board[n] = NotMember
    /\ s.loaded => f.exists /\ s.arcade.exists /\ Grows(f, s.arcade)

GroupInv == TypeOK /\ \A m \in Member : FileInv(app[m], save[m])

-----------------------------------------------------------------------------
(* Two machines, and the greater of two scores.                            *)

\* There is another machine, and no third.
LEMMA PeerIs ==
    ASSUME NEW m \in Member
    PROVE  /\ Peer(m) \in Member /\ Peer(m) # m
           /\ \A n \in Member : n = m \/ n = Peer(m)
BY MemberAssumption DEF Peer

\* Max of a pair.
LEMMA MaxIs ==
    ASSUME NEW x \in Int, NEW y \in Int
    PROVE  Max({x, y}) = IF x >= y THEN x ELSE y
<1>. DEFINE g == IF x >= y THEN x ELSE y
<1>1. g \in {x, y} /\ \A z \in {x, y} : g >= z
  OBVIOUS
<1>2. \A h \in {x, y} : (\A z \in {x, y} : h >= z) => h = g
  OBVIOUS
<1>. QED  BY <1>1, <1>2 DEF Max

\* Adding to a score.
LEMMA AddIs ==
    ASSUME NEW b \in [Member -> Points], NEW m \in Member, NEW k \in Nat
    PROVE  /\ Add(b, m, k) \in [Member -> Points]
           /\ Add(b, m, k)[m] = (IF b[m] >= 0 THEN b[m] ELSE 0) + k
           /\ \A n \in Member : n # m => Add(b, m, k)[n] = b[n]
           /\ \A n \in Member : Add(b, m, k)[n] >= b[n]
<1>1. b[m] \in Int /\ NotMember = -1
  BY DEF Points, NotMember
<1>2. Max({b[m], 0}) = IF b[m] >= 0 THEN b[m] ELSE 0
  BY <1>1, MaxIs
<1>3. Add(b, m, k) = [b EXCEPT ![m] = (IF b[m] >= 0 THEN b[m] ELSE 0) + k]
  BY <1>2 DEF Add
<1>4. (IF b[m] >= 0 THEN b[m] ELSE 0) + k \in Nat
  BY <1>1 DEF Points, NotMember
<1>. QED  BY <1>1, <1>3, <1>4 DEF Points, NotMember

\* Merging two boards.
LEMMA MergeIs ==
    ASSUME NEW b \in [Member -> Points], NEW d \in [Member -> Points]
    PROVE  /\ MergeBoard(b, d) \in [Member -> Points]
           /\ \A n \in Member : /\ MergeBoard(b, d)[n] >= b[n]
                                /\ MergeBoard(b, d)[n] \in {b[n], d[n]}
<1>1. \A n \in Member : b[n] \in Int /\ d[n] \in Int
  BY DEF Points, NotMember
<1>2. \A n \in Member : MergeBoard(b, d)[n] = IF b[n] >= d[n] THEN b[n] ELSE d[n]
  BY <1>1, MaxIs DEF MergeBoard
<1>3. MergeBoard(b, d) = [n \in Member |-> MergeBoard(b, d)[n]]
  BY DEF MergeBoard
<1>. QED  BY <1>1, <1>2, <1>3

-----------------------------------------------------------------------------
(* Campaigns and programs.                                                 *)

\* What is within a count is within a greater one.
LEMMA More ==
    ASSUME NEW e \in [Member -> Nat], NEW e2 \in [Member -> Nat],
           \A n \in Member : e2[n] >= e[n]
    PROVE  /\ Campaigns(e) \subseteq Campaigns(e2)
           /\ Programs(e) \subseteq Programs(e2)
           /\ Seq(Messages(e)) \subseteq Seq(Messages(e2))
<1>1. \A b \in [Member -> Points] : Within(b, e) => Within(b, e2)
  BY DEF Within, Points, NotMember
<1>2. Campaigns(e) \subseteq Campaigns(e2)
  BY <1>1 DEF Campaigns, Campaign
<1>3. Programs(e) \subseteq Programs(e2)
  BY <1>2 DEF Programs
<1>4. Messages(e) \subseteq Messages(e2)
  BY <1>1 DEF Messages, Frame, Signal
<1>. QED  BY <1>2, <1>3, <1>4

\* Growing is transitive, and nothing shrinks by staying.
LEMMA GrowsOn ==
    ASSUME NEW a \in Campaign, NEW b \in Campaign, NEW c \in Campaign
    PROVE  /\ Grows(a, a)
           /\ Grows(a, b) /\ Grows(b, c) => Grows(a, c)
<1>1. \A n \in Member : a.board[n] \in Int /\ b.board[n] \in Int /\ c.board[n] \in Int
  BY DEF Campaign, Points, NotMember
<1>. QED  BY <1>1 DEF Grows, Campaign

\* A campaign with a greater board.
LEMMA BoardSet ==
    ASSUME NEW e \in [Member -> Nat], NEW a \in Campaign,
           NEW b \in [Member -> Points], Within(b, e),
           \A n \in Member : b[n] >= a.board[n]
    PROVE  /\ [a EXCEPT !.board = b] \in Campaigns(e)
           /\ [a EXCEPT !.board = b].exists = a.exists
           /\ [a EXCEPT !.board = b].board = b
           /\ Grows(a, [a EXCEPT !.board = b])
<1>1. /\ [a EXCEPT !.board = b] \in Campaign
      /\ [a EXCEPT !.board = b].board = b
      /\ [a EXCEPT !.board = b].spins = a.spins
      /\ [a EXCEPT !.board = b].exists = a.exists
  BY DEF Campaign
<1>. QED  BY <1>1 DEF Campaigns, Grows, Campaign

\* Putting a member on the board.
LEMMA OnBoardIs ==
    ASSUME NEW e \in [Member -> Nat], NEW a \in Campaigns(e), NEW m \in Member
    PROVE  /\ OnBoard(m, a) \in Campaigns(e)
           /\ OnBoard(m, a).exists = a.exists
           /\ Grows(a, OnBoard(m, a))
<1>1. a \in Campaign /\ a.board \in [Member -> Points] /\ Within(a.board, e)
  BY DEF Campaigns, Campaign
<1>. DEFINE b == Add(a.board, m, 0)
<1>2. /\ b \in [Member -> Points]
      /\ b[m] = (IF a.board[m] >= 0 THEN a.board[m] ELSE 0) + 0
      /\ \A n \in Member : n # m => b[n] = a.board[n]
      /\ \A n \in Member : b[n] >= a.board[n]
  BY <1>1, AddIs
<1>3. OnBoard(m, a) = [a EXCEPT !.board = b]
  BY <1>1 DEF OnBoard
<1>. HIDE DEF b
<1>4. Within(b, e)
  BY <1>1, <1>2 DEF Within, Points, NotMember
<1>. QED  BY <1>1, <1>2, <1>3, <1>4, BoardSet

\* The wins recorded, after one of m's results.
Counted(e, m, outcome) == IF outcome = "win" THEN [e EXCEPT ![m] = @ + 1] ELSE e

\* Recording a result.
LEMMA RecordIs ==
    ASSUME NEW e \in [Member -> Nat], NEW a \in Campaigns(e), NEW m \in Member,
           NEW outcome \in {"win", "loss", "draw"}
    PROVE  /\ Counted(e, m, outcome) \in [Member -> Nat]
           /\ \A n \in Member : Counted(e, m, outcome)[n] >= e[n]
           /\ RecordResult(m, a, outcome) \in Campaigns(Counted(e, m, outcome))
           /\ RecordResult(m, a, outcome).exists = a.exists
           /\ Grows(a, RecordResult(m, a, outcome))
<1>. DEFINE k == IF outcome = "win" THEN 1 ELSE 0
            b == Add(a.board, m, k)
            e2 == Counted(e, m, outcome)
            r == [a EXCEPT !.board = b]
<1>1. a \in Campaign /\ a.board \in [Member -> Points] /\ Within(a.board, e)
  BY DEF Campaigns, Campaign
<1>2. e2 \in [Member -> Nat] /\ e2[m] = e[m] + k /\ \A n \in Member : e2[n] >= e[n]
  BY DEF Counted
<1>3. k \in Nat
  OBVIOUS
<1>4. /\ b \in [Member -> Points]
      /\ b[m] = (IF a.board[m] >= 0 THEN a.board[m] ELSE 0) + k
      /\ \A n \in Member : n # m => b[n] = a.board[n]
      /\ \A n \in Member : b[n] >= a.board[n]
  BY <1>1, <1>3, AddIs
<1>5. RecordResult(m, a, outcome) = [r EXCEPT !.spins = a.spins + 1]
  BY <1>1 DEF RecordResult, Campaign
<1>. HIDE DEF b, e2, k
<1>6. Within(b, e2)
  BY <1>1, <1>2, <1>3, <1>4 DEF Within, Points, NotMember
<1>7. r \in Campaigns(e2) /\ r.exists = a.exists /\ r.board = b /\ Grows(a, r)
  BY <1>1, <1>2, <1>4, <1>6, BoardSet
<1>8. r.spins = a.spins
  BY <1>1 DEF Campaign
<1>. HIDE DEF r
<1>. DEFINE q == [r EXCEPT !.spins = a.spins + 1]
<1>9. q \in Campaign /\ q.board = b /\ q.spins = a.spins + 1 /\ q.exists = a.exists
  BY <1>1, <1>7 DEF Campaigns, Campaign
<1>. HIDE DEF q
<1>10. q \in Campaigns(e2) /\ Grows(a, q)
  BY <1>1, <1>4, <1>6, <1>9 DEF Campaigns, Grows, Campaign
<1>. QED  BY <1>2, <1>5, <1>9, <1>10 DEF q, e2

\* Scoring a duel by itself.
LEMMA ScoreIs ==
    ASSUME NEW e \in [Member -> Nat], NEW s \in Programs(e), NEW m \in Member,
           NEW outcome \in {"win", "loss", "draw"}, Scores(s)
    PROVE  /\ AutoRecord(m, s, outcome) \in Programs(Counted(e, m, outcome))
           /\ AutoRecord(m, s, outcome).arcade.exists = s.arcade.exists
           /\ Grows(s.arcade, AutoRecord(m, s, outcome).arcade)
           /\ AutoRecord(m, s, outcome).loaded /\ AutoRecord(m, s, outcome).auto
           /\ AutoRecord(m, s, outcome).inDuel = s.inDuel
           /\ AutoRecord(m, s, outcome).remoteDone = s.remoteDone
           /\ AutoRecord(m, s, outcome).role = s.role
           /\ AutoRecord(m, s, outcome).link = s.link
<1>. DEFINE e2 == Counted(e, m, outcome)
            a == OnBoard(m, RecordResult(m, s.arcade, outcome))
            r == AutoRecord(m, s, outcome)
<1>1. s \in Program /\ s.arcade \in Campaigns(e) /\ s.loaded = TRUE
  BY DEF Programs, Program, Scores
<1>2. /\ e2 \in [Member -> Nat]
      /\ RecordResult(m, s.arcade, outcome) \in Campaigns(e2)
      /\ RecordResult(m, s.arcade, outcome).exists = s.arcade.exists
      /\ Grows(s.arcade, RecordResult(m, s.arcade, outcome))
  BY <1>1, RecordIs
<1>. HIDE DEF e2
<1>3. a \in Campaigns(e2) /\ a.exists = s.arcade.exists
  BY <1>2, OnBoardIs
<1>4. Grows(RecordResult(m, s.arcade, outcome), a)
  BY <1>2, OnBoardIs
<1>5. Grows(s.arcade, a)
  BY <1>1, <1>2, <1>3, <1>4, GrowsOn DEF Campaigns
<1>6. r = [s EXCEPT !.arcade = a, !.auto = TRUE]
  BY DEF AutoRecord
<1>. HIDE DEF a, r
<1>7. /\ r \in Program /\ r.arcade = a /\ r.auto = TRUE /\ r.loaded = s.loaded
      /\ r.inDuel = s.inDuel /\ r.remoteDone = s.remoteDone
      /\ r.role = s.role /\ r.link = s.link
  BY <1>1, <1>3, <1>6 DEF Program, Campaigns
<1>. QED  BY <1>1, <1>3, <1>5, <1>7 DEF Programs, e2, r

-----------------------------------------------------------------------------
(* What an action leaves behind.                                           *)

\* Only machine m has acted.
Only(m) ==
    /\ app' \in [Member -> Program] /\ save' \in [Member -> Campaign]
    /\ \A n \in Member : n # m => app'[n] = app[n] /\ save'[n] = save[n]

\* What a save may take: the wheel one spin, a kill inside it whole lines.
Spends(m) ==
    /\ AtArcade(m) /\ app[m].loaded
    /\ save'[m].spins >= save[m].spins - 1
    /\ \A n \in Member : save'[m].board[n] >= save[m].board[n]
Tears(m) ==
    /\ app[m].loaded /\ app'[m] = AppInit
    /\ \A n \in Member : save'[m].board[n] \in {NotMember, app[m].arcade.board[n]}
Keeps(m) == save'[m].exists => Grows(save[m], save'[m]) \/ Spends(m) \/ Tears(m)

\* The program and the file of m are sound, and its file has not lost anything else.
Sound(m) ==
    /\ app'[m].arcade \in Campaigns(earned') /\ save'[m] \in Campaigns(earned')
    /\ save'[m].exists => Grows(save[m], save'[m]) \/ Spends(m) \/ Tears(m)
    /\ FileInv(app'[m], save'[m])

\* The rest of the world is of its kind, and wins are only added.
World ==
    /\ earned' \in [Member -> Nat] /\ \A n \in Member : earned'[n] >= earned[n]
    /\ net' \in [Member -> Seq(Messages(earned'))]
    /\ eng' \in [Member -> Engine]
    /\ room' \in [host : Member \cup {"none"}, full : BOOLEAN]
    /\ scored' \in [Member -> Seq({"win", "loss", "draw"})]

\* No file loses anything else in this step.
Grown == \A m \in Member : Keeps(m)

\* An action of one machine that leaves it sound keeps the invariant.
LEMMA Kept ==
    ASSUME GroupInv, NEW m \in Member, Only(m), Sound(m), World
    PROVE  GroupInv' /\ Grown
<1>1. Campaigns(earned) \subseteq Campaigns(earned')
  BY More DEF GroupInv, TypeOK, World
<1>2. \A n \in Member : save[n] \in Campaigns(earned) /\ app[n].arcade \in Campaigns(earned)
  BY DEF GroupInv, TypeOK, Programs
<1>3. \A n \in Member : save'[n] \in Campaigns(earned')
                          /\ app'[n].arcade \in Campaigns(earned')
  BY <1>1, <1>2 DEF Only, Sound
<1>4. TypeOK'
  BY <1>3 DEF TypeOK, World, Only, Programs
<1>5. \A n \in Member : FileInv(app'[n], save'[n])
  BY DEF Only, Sound, GroupInv
<1>6. Grown
  <2>1. Keeps(m)
    BY DEF Sound, Keeps
  <2>2. ASSUME NEW n \in Member, n # m PROVE Keeps(n)
    BY <1>2, <2>2, GrowsOn DEF Only, Keeps, Campaigns
  <2>. QED  BY <2>1, <2>2 DEF Grown
<1>. QED  BY <1>4, <1>5, <1>6 DEF GroupInv, FileInv, Grows

\* An action that leaves m's file alone, and only adds to what is in memory.
LEMMA KeepFile ==
    ASSUME GroupInv, World, NEW m \in Member, Only(m), save'[m] = save[m],
           app'[m].arcade \in Campaigns(earned'),
           app'[m].loaded => /\ app[m].loaded /\ app'[m].arcade.exists
                             /\ Grows(app[m].arcade, app'[m].arcade)
    PROVE  Sound(m)
<1>1. save[m] \in Campaigns(earned) /\ app[m].arcade \in Campaigns(earned)
  BY DEF GroupInv, TypeOK, Programs
<1>2. save'[m] \in Campaigns(earned')
  BY <1>1, More DEF GroupInv, TypeOK, World
<1>3. save[m] \in Campaign /\ app[m].arcade \in Campaign /\ app'[m].arcade \in Campaign
  BY <1>1 DEF Campaigns
<1>4. FileInv(app'[m], save'[m])
  BY <1>3, GrowsOn DEF FileInv, GroupInv
<1>. QED  BY <1>2, <1>3, <1>4, GrowsOn DEF Sound

\* An action that saves what is in memory, after adding to it.
LEMMA SaveMemory ==
    ASSUME GroupInv, World, NEW m \in Member, Only(m), app[m].loaded,
           save'[m] = app'[m].arcade,
           app'[m].arcade \in Campaigns(earned'), app'[m].arcade.exists,
           Grows(app[m].arcade, app'[m].arcade)
    PROVE  Sound(m)
<1>1. save[m] \in Campaigns(earned) /\ app[m].arcade \in Campaigns(earned)
  BY DEF GroupInv, TypeOK, Programs
<1>2. save[m] \in Campaign /\ app[m].arcade \in Campaign /\ app'[m].arcade \in Campaign
  BY <1>1 DEF Campaigns
<1>3. Grows(save[m], app'[m].arcade) /\ Grows(app'[m].arcade, app'[m].arcade)
  BY <1>2, GrowsOn DEF FileInv, GroupInv
<1>. QED  BY <1>3 DEF Sound, FileInv

-----------------------------------------------------------------------------
(* The actions of the Arcade screen and of the room.                       *)

\* What the invariant says of one machine.
LEMMA Machine ==
    ASSUME GroupInv, NEW m \in Member
    PROVE  /\ app[m] \in Program /\ save[m] \in Campaign
           /\ app[m] \in Programs(earned)
           /\ app[m].arcade \in Campaigns(earned) /\ app[m].arcade \in Campaign
           /\ save[m] \in Campaigns(earned) /\ FileInv(app[m], save[m])
           /\ app \in [Member -> Program] /\ save \in [Member -> Campaign]
           /\ earned \in [Member -> Nat] /\ net \in [Member -> Seq(Messages(earned))]
           /\ eng \in [Member -> Engine]
           /\ room \in [host : Member \cup {"none"}, full : BOOLEAN]
           /\ scored \in [Member -> Seq({"win", "loss", "draw"})]
<1>1. app \in [Member -> Program] /\ save \in [Member -> Campaign]
  BY DEF GroupInv, TypeOK, Programs, Campaigns
<1>. QED  BY <1>1 DEF GroupInv, TypeOK, Programs, Campaigns

\* Campaigns that are new, or none.
LEMMA NewIs ==
    ASSUME NEW e \in [Member -> Nat]
    PROVE  /\ NewSave \in Campaigns(e) /\ NewSave.exists
           /\ NewSave.spins = 0 /\ \A n \in Member : NewSave.board[n] = NotMember
           /\ NoSave \in Campaigns(e) /\ ~NoSave.exists
           /\ NoSave.spins = 0 /\ \A n \in Member : NoSave.board[n] = NotMember
<1>1. NewSave \in Campaign /\ NoSave \in Campaign
  BY DEF NewSave, NoSave, Campaign, Points
<1>2. /\ NewSave.exists /\ NewSave.spins = 0
      /\ \A n \in Member : NewSave.board[n] = NotMember
      /\ ~NoSave.exists /\ NoSave.spins = 0
      /\ \A n \in Member : NoSave.board[n] = NotMember
  BY DEF NewSave, NoSave
<1>. QED  BY <1>1, <1>2 DEF Campaigns, Within, NotMember

\* Over a file that is not there, anything is more.
LEMMA GrowsFromNothing ==
    ASSUME NEW a \in Campaign, NEW b \in Campaign,
           a.spins = 0, \A n \in Member : a.board[n] = NotMember
    PROVE  Grows(a, b)
BY DEF Grows, Campaign, Points, NotMember

\* Opening reads the file, or writes a new campaign where there was none.
LEMMA OpenSound ==
    ASSUME GroupInv, NEW m \in Member, OpenCampaign(m)
    PROVE  Only(m) /\ Sound(m) /\ World
<1>0. /\ app \in [Member -> Program] /\ save \in [Member -> Campaign]
      /\ app[m].arcade \in Campaign
  BY Machine
<1>. DEFINE a == IF save[m].exists THEN save[m]
                 ELSE [NewSave EXCEPT !.board = Add(@, m, 0)]
<1>1. OnBoard(m, NewSave) = [NewSave EXCEPT !.board = Add(@, m, 0)]
  BY DEF OnBoard
<1>2. NewSave \in Campaigns(earned) /\ NewSave.exists
  BY Machine, NewIs
<1>3. OnBoard(m, NewSave) \in Campaigns(earned) /\ OnBoard(m, NewSave).exists
  BY <1>2, Machine, OnBoardIs
<1>4. a \in Campaigns(earned) /\ a.exists
  BY <1>1, <1>3, Machine
<1>5. a \in Campaign /\ save[m] \in Campaign
  BY <1>4, Machine DEF Campaigns
<1>6. Grows(save[m], a) /\ Grows(a, a)
  <2>1. CASE save[m].exists
    BY <2>1, <1>5, GrowsOn
  <2>2. CASE ~save[m].exists
    BY <2>2, <1>5, GrowsOn, GrowsFromNothing, Machine DEF FileInv
  <2>. QED  BY <2>1, <2>2
<1>. DEFINE t == [app[m] EXCEPT !.loaded = TRUE, !.arcade = a, !.auto = FALSE]
<1>7. /\ app' = [app EXCEPT ![m] = t]
      /\ save' = [save EXCEPT ![m] = a]
      /\ UNCHANGED <<net, eng, room, cycles, faults, earned, scored>>
  BY DEF OpenCampaign, Save
<1>. HIDE DEF a
<1>8. Only(m) /\ app'[m].arcade = a /\ save'[m] = a
  <2>1. /\ app' \in [Member -> Program] /\ app'[m].arcade = a
        /\ \A n \in Member : n # m => app'[n] = app[n]
    <3>1. t \in Program /\ t.arcade = a
      BY <1>0, <1>5 DEF Program
    <3>. QED  BY <1>0, <1>7, <3>1
  <2>2. /\ save' \in [Member -> Campaign] /\ save'[m] = a
        /\ \A n \in Member : n # m => save'[n] = save[n]
    BY <1>0, <1>5, <1>7
  <2>. QED  BY <2>1, <2>2 DEF Only
<1>9. World
  BY <1>7, Machine DEF World
<1>. QED  BY <1>4, <1>6, <1>7, <1>8, <1>9 DEF Sound, FileInv

\* Closing writes what is in memory, which has all the file had.
LEMMA CloseSound ==
    ASSUME GroupInv, NEW m \in Member, CloseCampaign(m)
    PROVE  Only(m) /\ Sound(m) /\ World
<1>0. /\ app \in [Member -> Program] /\ save \in [Member -> Campaign]
      /\ app[m].arcade \in Campaign
  BY Machine
<1>1. World
  BY Machine DEF World, CloseCampaign
<1>2. /\ Only(m) /\ app'[m].arcade = app[m].arcade /\ save'[m] = app[m].arcade
      /\ app[m].loaded /\ UNCHANGED earned
  <2>1. /\ app' = [app EXCEPT ![m].loaded = FALSE] /\ app[m].loaded
        /\ save' = [save EXCEPT ![m] = app[m].arcade] /\ UNCHANGED earned
    BY DEF CloseCampaign, Save
  <2>2. /\ app' \in [Member -> Program] /\ app'[m].arcade = app[m].arcade
        /\ \A n \in Member : n # m => app'[n] = app[n]
    <3>. DEFINE t == [app[m] EXCEPT !.loaded = FALSE]
    <3>1. app' = [app EXCEPT ![m] = t]
      BY <2>1
    <3>2. t \in Program /\ t.arcade = app[m].arcade
      BY <1>0 DEF Program
    <3>. HIDE DEF t
    <3>. QED  BY <1>0, <3>1, <3>2
  <2>3. /\ save' \in [Member -> Campaign] /\ save'[m] = app[m].arcade
        /\ \A n \in Member : n # m => save'[n] = save[n]
    BY <1>0, <2>1
  <2>. QED  BY <2>1, <2>2, <2>3 DEF Only
<1>3. /\ app'[m].arcade \in Campaigns(earned') /\ app'[m].arcade.exists
      /\ Grows(app[m].arcade, app'[m].arcade)
  BY <1>0, <1>2, Machine, GrowsOn DEF FileInv
<1>. QED  BY <1>1, <1>2, <1>3, SaveMemory

\* Deleting leaves nothing that could be loaded.
LEMMA DeleteSound ==
    ASSUME GroupInv, NEW m \in Member, DeleteCampaign(m)
    PROVE  Only(m) /\ Sound(m) /\ World
<1>1. World
  BY Machine DEF World, DeleteCampaign
<1>2. NoSave \in Campaigns(earned) /\ NoSave \in Campaign /\ ~NoSave.exists
  BY Machine, NewIs DEF Campaigns
<1>3. /\ Only(m) /\ app'[m] = app[m] /\ save'[m] = NoSave
      /\ ~app[m].loaded /\ UNCHANGED earned
  BY <1>2, Machine DEF Only, DeleteCampaign, Save
<1>. QED  BY <1>1, <1>2, <1>3, Machine, NewIs DEF Sound, FileInv

\* A result entered by hand adds what the ghost adds.
LEMMA HandSound ==
    ASSUME GroupInv, NEW m \in Member, NEW o \in {"win", "loss"}, RecordByHand(m, o)
    PROVE  Only(m) /\ Sound(m) /\ World
<1>0. /\ app \in [Member -> Program] /\ save \in [Member -> Campaign]
      /\ app[m].arcade \in Campaign
  BY Machine
<1>. DEFINE a == RecordResult(m, app[m].arcade, o)
<1>1. earned' = Counted(earned, m, o)
  <2>1. earned' = [earned EXCEPT ![m] = @ + IF o = "win" THEN 1 ELSE 0]
    BY DEF RecordByHand
  <2>2. o # "win" => [earned EXCEPT ![m] = @ + 0] = earned
    BY Machine
  <2>. QED  BY <2>1, <2>2 DEF Counted
<1>2. /\ earned' \in [Member -> Nat] /\ \A n \in Member : earned'[n] >= earned[n]
      /\ a \in Campaigns(earned') /\ a.exists = app[m].arcade.exists
      /\ Grows(app[m].arcade, a)
  <2>1. earned \in [Member -> Nat] /\ app[m].arcade \in Campaigns(earned)
    BY Machine
  <2>. QED  BY <1>1, <2>1, RecordIs
<1>3. /\ app' = [app EXCEPT ![m].arcade = a] /\ save' = [save EXCEPT ![m] = a]
      /\ UNCHANGED <<net, eng, room, scored>> /\ app[m].loaded
  BY DEF RecordByHand, Save
<1>. HIDE DEF a
<1>4. World
  BY <1>2, <1>3, Machine, More DEF World
<1>5. Only(m) /\ app'[m].arcade = a /\ save'[m] = a
  <2>1. a \in Campaign
    BY <1>2 DEF Campaigns
  <2>. QED  BY <1>0, <1>3, <2>1 DEF Only, Program
<1>6. app'[m].arcade.exists
  BY <1>2, <1>3, <1>5, Machine DEF FileInv
<1>. QED  BY <1>2, <1>3, <1>4, <1>5, <1>6, SaveMemory

\* The wheel takes one spin out of the file, and no score.
LEMMA WheelSound ==
    ASSUME GroupInv, NEW m \in Member, WheelClaim(m)
    PROVE  Only(m) /\ Sound(m) /\ World
<1>0. /\ app \in [Member -> Program] /\ save \in [Member -> Campaign]
      /\ app[m].arcade \in Campaign /\ save[m] \in Campaign
      /\ app[m].arcade \in Campaigns(earned)
  BY Machine
<1>. DEFINE a == [app[m].arcade EXCEPT !.spins = @ - 1]
<1>1. /\ app' = [app EXCEPT ![m].arcade = a] /\ save' = [save EXCEPT ![m] = a]
      /\ AtArcade(m) /\ app[m].loaded /\ app[m].arcade.spins > 0
      /\ UNCHANGED <<net, eng, room, earned, scored>>
  BY DEF WheelClaim, Save
<1>2. /\ a \in Campaign /\ a.exists = app[m].arcade.exists
      /\ a.board = app[m].arcade.board /\ a.spins = app[m].arcade.spins - 1
  BY <1>0, <1>1 DEF Campaign
<1>. HIDE DEF a
<1>3. World
  BY <1>1, Machine DEF World
<1>4. Only(m) /\ app'[m].arcade = a /\ save'[m] = a /\ app'[m].loaded
  BY <1>0, <1>1, <1>2 DEF Only, Program
<1>5. a \in Campaigns(earned')
  BY <1>0, <1>1, <1>2 DEF Campaigns, Within
<1>6. FileInv(app[m], save[m])
  BY Machine
<1>7. a.exists /\ Grows(save[m], app[m].arcade)
  BY <1>1, <1>2, <1>6 DEF FileInv
<1>8. Spends(m)
  BY <1>0, <1>1, <1>2, <1>4, <1>7 DEF Spends, Grows, Campaign
<1>. QED  BY <1>2, <1>3, <1>4, <1>5, <1>7, <1>8, GrowsOn DEF Sound, FileInv

\* Inviting saves what is in memory.
LEMMA InviteSound ==
    ASSUME GroupInv, NEW m \in Member, HostInvite(m)
    PROVE  Only(m) /\ Sound(m) /\ World
<1>0. /\ app \in [Member -> Program] /\ save \in [Member -> Campaign]
      /\ app[m].arcade \in Campaign
  BY Machine
<1>1. World
  BY Machine DEF World, HostInvite
<1>2. /\ Only(m) /\ app'[m].arcade = app[m].arcade /\ save'[m] = app[m].arcade
      /\ app[m].loaded /\ UNCHANGED earned
  <2>1. /\ app' \in [Member -> Program] /\ app'[m].arcade = app[m].arcade
        /\ \A n \in Member : n # m => app'[n] = app[n]
    <3>. DEFINE t == Joining(app[m], "host")
    <3>1. t \in Program /\ t.arcade = app[m].arcade
      BY <1>0 DEF Program, Joining
    <3>2. app' = [app EXCEPT ![m] = t]
      BY DEF HostInvite
    <3>. HIDE DEF t
    <3>. QED  BY <1>0, <3>1, <3>2
  <2>2. /\ save' \in [Member -> Campaign] /\ save'[m] = app[m].arcade
        /\ \A n \in Member : n # m => save'[n] = save[n]
    BY <1>0 DEF HostInvite, Save
  <2>. QED  BY <2>1, <2>2 DEF Only, HostInvite
<1>. QED  BY <1>1, <1>2, Machine, SaveMemory, GrowsOn DEF FileInv

\* Frames that do not carry a board are within any count.
LEMMA SignalIs ==
    ASSUME NEW e, NEW k \in Signal
    PROVE  [t |-> k] \in Messages(e)
BY DEF Messages, Frame, Signal

\* One more frame for the peer.
LEMMA SendIs ==
    ASSUME NEW e, NEW nt \in [Member -> Seq(Messages(e))], NEW m \in Member,
           NEW f \in Messages(e)
    PROVE  Send(nt, Peer(m), <<f>>) \in [Member -> Seq(Messages(e))]
BY PeerIs DEF Send

\* So does joining, if a campaign is loaded.
LEMMA JoinSound ==
    ASSUME GroupInv, NEW m \in Member, JoinInvite(m)
    PROVE  Only(m) /\ Sound(m) /\ World
<1>0. /\ app \in [Member -> Program] /\ save \in [Member -> Campaign]
      /\ app[m].arcade \in Campaign
  BY Machine
<1>1. /\ app' = [app EXCEPT ![m] = Joining(app[m], "client")]
      /\ save' = IF app[m].loaded THEN Save(m, app[m].arcade) ELSE save
      /\ net' = Send(net, Peer(m), <<[t |-> "joined"]>>)
      /\ room' = [room EXCEPT !.full = TRUE]
      /\ scored' = [scored EXCEPT ![m] = <<>>]
      /\ UNCHANGED <<eng, earned>>
  BY DEF JoinInvite
<1>2. net' \in [Member -> Seq(Messages(earned))]
  BY <1>1, Machine, SendIs, SignalIs DEF Signal
<1>3. World
  <2>1. /\ earned \in [Member -> Nat] /\ eng \in [Member -> Engine]
        /\ room \in [host : Member \cup {"none"}, full : BOOLEAN]
        /\ scored \in [Member -> Seq({"win", "loss", "draw"})]
    BY Machine
  <2>2. room' \in [host : Member \cup {"none"}, full : BOOLEAN]
    BY <1>1, <2>1
  <2>3. scored' \in [Member -> Seq({"win", "loss", "draw"})]
    BY <1>1, <2>1
  <2>. QED  BY <1>1, <1>2, <2>1, <2>2, <2>3 DEF World
<1>4. /\ Only(m) /\ app'[m].arcade = app[m].arcade /\ app'[m].loaded = app[m].loaded
      /\ save'[m] = IF app[m].loaded THEN app[m].arcade ELSE save[m]
  <2>1. /\ app' \in [Member -> Program] /\ app'[m].arcade = app[m].arcade
        /\ app'[m].loaded = app[m].loaded
        /\ \A n \in Member : n # m => app'[n] = app[n]
    <3>. DEFINE t == Joining(app[m], "client")
    <3>1. t \in Program /\ t.arcade = app[m].arcade /\ t.loaded = app[m].loaded
      BY <1>0 DEF Program, Joining
    <3>. HIDE DEF t
    <3>. QED  BY <1>0, <1>1, <3>1 DEF t
  <2>2. /\ save' \in [Member -> Campaign]
        /\ save'[m] = IF app[m].loaded THEN app[m].arcade ELSE save[m]
        /\ \A n \in Member : n # m => save'[n] = save[n]
    BY <1>0, <1>1 DEF Save
  <2>. QED  BY <2>1, <2>2 DEF Only
<1>. QED  BY <1>1, <1>3, <1>4, Machine, KeepFile, SaveMemory, GrowsOn DEF FileInv

-----------------------------------------------------------------------------
(* The actions of a duel.                                                  *)

\* An action that touches one program and no file.
LEMMA OneProgram ==
    ASSUME GroupInv, NEW m \in Member, NEW t \in Program,
           app' = [app EXCEPT ![m] = t], UNCHANGED save
    PROVE  Only(m) /\ app'[m] = t /\ save'[m] = save[m]
BY Machine DEF Only

\* An action that touches one program and its file.
LEMMA ProgramAndFile ==
    ASSUME GroupInv, NEW m \in Member, NEW t \in Program, NEW c \in Campaign,
           app' = [app EXCEPT ![m] = t], save' = Save(m, c)
    PROVE  Only(m) /\ app'[m] = t /\ save'[m] = c
BY Machine DEF Only, Save

\* An action that changes what is in memory but not the campaign.
LEMMA SameCampaign ==
    ASSUME GroupInv, World, NEW m \in Member, NEW t \in Program,
           app' = [app EXCEPT ![m] = t], UNCHANGED save,
           t.arcade = app[m].arcade, t.loaded => app[m].loaded
    PROVE  Only(m) /\ Sound(m)
<1>1. Only(m) /\ app'[m] = t /\ save'[m] = save[m]
  BY OneProgram
<1>2. app[m].arcade \in Campaigns(earned')
  BY Machine, More DEF World
<1>3. app[m].loaded => app[m].arcade.exists /\ Grows(app[m].arcade, app[m].arcade)
  BY Machine, GrowsOn DEF FileInv
<1>. QED  BY <1>1, <1>2, <1>3, KeepFile

\* And one that touches neither.
LEMMA SameMachine ==
    ASSUME GroupInv, World, NEW m \in Member, UNCHANGED <<app, save>>
    PROVE  Only(m) /\ Sound(m)
<1>1. app' = [app EXCEPT ![m] = app[m]] /\ app[m] \in Program
  BY Machine
<1>. QED  BY <1>1, SameCampaign

\* A start touches no campaign.
LEMMA StartSound ==
    ASSUME GroupInv, NEW m \in Member, StartDuel(m)
    PROVE  Only(m) /\ Sound(m) /\ World
<1>. DEFINE t == [app[m] EXCEPT !.inDuel = TRUE, !.auto = FALSE]
<1>1. t \in Program /\ t.arcade = app[m].arcade /\ t.loaded = app[m].loaded
  BY Machine DEF Program
<1>2. /\ app' = [app EXCEPT ![m] = t] /\ UNCHANGED <<save, room, earned>>
      /\ eng' = [eng EXCEPT ![m] = [st |-> "run", winner |-> "none"]]
      /\ net' = IF Heard(m) THEN Send(net, Peer(m), <<[t |-> "start"]>>) ELSE net
      /\ scored' = IF Heard(m) THEN [scored EXCEPT ![Peer(m)] = <<>>] ELSE scored
  BY DEF StartDuel
<1>3. net' \in [Member -> Seq(Messages(earned))]
  BY <1>2, Machine, SendIs, SignalIs DEF Signal
<1>4. eng' \in [Member -> Engine]
  <2>1. [st |-> "run", winner |-> "none"] \in Engine
    BY DEF Engine, Winner
  <2>. QED  BY <1>2, <2>1, Machine
<1>5. scored' \in [Member -> Seq({"win", "loss", "draw"})]
  <2>1. scored \in [Member -> Seq({"win", "loss", "draw"})]
    BY Machine
  <2>2. <<>> \in Seq({"win", "loss", "draw"})
    OBVIOUS
  <2>. QED  BY <1>2, <2>1, <2>2
<1>6. World
  BY <1>2, <1>3, <1>4, <1>5, Machine DEF World
<1>. QED  BY <1>1, <1>2, <1>6, SameCampaign

\* Neither does an end of the engine,
LEMMA EndsSound ==
    ASSUME GroupInv, NEW m \in Member, NEW w \in Member \cup {"draw"},
           EngineEnds(m, w)
    PROVE  Only(m) /\ Sound(m) /\ World
<1>1. eng' \in [Member -> Engine]
  <2>1. [st |-> "done", winner |-> w] \in Engine
    BY DEF Engine, Winner
  <2>. QED  BY <2>1, Machine DEF EngineEnds
<1>2. UNCHANGED <<app, save, earned, net, room, scored>>
  BY DEF EngineEnds
<1>3. World
  BY <1>1, <1>2, Machine DEF World
<1>. QED  BY <1>2, <1>3, SameMachine

\* a surrender on its way,
LEMMA SurrenderSound ==
    ASSUME GroupInv, NEW m \in Member, Surrender(m)
    PROVE  Only(m) /\ Sound(m) /\ World
<1>1. net' \in [Member -> Seq(Messages(earned))]
  BY Machine, SendIs, SignalIs DEF Signal, Surrender
<1>2. UNCHANGED <<app, save, earned, eng, room, scored>>
  BY DEF Surrender
<1>3. World
  BY <1>1, <1>2, Machine DEF World
<1>. QED  BY <1>2, <1>3, SameMachine

\* or the way out of a duel whose connection is lost.
LEMMA LostSound ==
    ASSUME GroupInv, NEW m \in Member, LeaveLostDuel(m)
    PROVE  Only(m) /\ Sound(m) /\ World
<1>. DEFINE t == EndOfDuel(app[m])
<1>1. t \in Program /\ t.arcade = app[m].arcade /\ t.loaded = app[m].loaded
  BY Machine DEF Program, EndOfDuel
<1>2. /\ app' = [app EXCEPT ![m] = t] /\ UNCHANGED <<save, net, room, earned, scored>>
      /\ eng' = [eng EXCEPT ![m] = NoEngine]
  BY DEF LeaveLostDuel, EngineGoes
<1>3. eng' \in [Member -> Engine]
  BY <1>2, Machine DEF Engine, NoEngine, Winner
<1>4. World
  BY <1>2, <1>3, Machine DEF World
<1>. QED  BY <1>1, <1>2, <1>4, SameCampaign

\* Handling the frame at the head, with an answer to the peer or none.
LEMMA HandledIs ==
    ASSUME NEW e, NEW nt \in [Member -> Seq(Messages(e))], NEW m \in Member,
           nt[m] # <<>>, NEW q \in Seq(Messages(e))
    PROVE  /\ [nt EXCEPT ![m] = Tail(@)] \in [Member -> Seq(Messages(e))]
           /\ [nt EXCEPT ![m] = Tail(@), ![Peer(m)] = q] \in [Member -> Seq(Messages(e))]
           /\ Head(nt[m]) \in Messages(e)
<1>1. Tail(nt[m]) \in Seq(Messages(e)) /\ Head(nt[m]) \in Messages(e)
  OBVIOUS
<1>. QED  BY <1>1, PeerIs

\* A campaign's board, sent.
LEMMA SyncIs ==
    ASSUME NEW e, NEW a \in Campaigns(e)
    PROVE  SyncOf(a) \in Messages(e)
BY DEF SyncOf, Messages, Frame, Campaigns, Campaign

\* What scoring counts, and what it sends.
LEMMA EarnIs ==
    ASSUME GroupInv, NEW m \in Member, NEW s \in Programs(earned),
           NEW outcome \in {"win", "loss", "draw"}, Earn(m, s, outcome)
    PROVE  /\ earned' \in [Member -> Nat] /\ \A n \in Member : earned'[n] >= earned[n]
           /\ Scores(s) => earned' = Counted(earned, m, outcome)
           /\ ~Scores(s) => earned' = earned
           /\ scored' \in [Member -> Seq({"win", "loss", "draw"})]
           /\ net \in [Member -> Seq(Messages(earned'))]
<1>1. /\ earned \in [Member -> Nat] /\ net \in [Member -> Seq(Messages(earned))]
      /\ scored \in [Member -> Seq({"win", "loss", "draw"})]
  BY Machine
<1>2. /\ Scores(s) => earned' = Counted(earned, m, outcome)
      /\ ~Scores(s) => earned' = earned
  BY DEF Earn, Counted
<1>3. earned' \in [Member -> Nat] /\ \A n \in Member : earned'[n] >= earned[n]
  <2>1. CASE Scores(s) /\ outcome = "win"
    <3>1. earned' = [earned EXCEPT ![m] = @ + 1]
      BY <2>1 DEF Earn
    <3>. QED  BY <1>1, <3>1
  <2>2. CASE ~(Scores(s) /\ outcome = "win")
    <3>1. earned' = earned
      BY <2>2 DEF Earn
    <3>. QED  BY <1>1, <3>1
  <2>. QED  BY <2>1, <2>2
<1>4. scored' \in [Member -> Seq({"win", "loss", "draw"})]
  <2>1. Append(scored[m], outcome) \in Seq({"win", "loss", "draw"})
    BY <1>1
  <2>2. scored' = scored \/ scored' = [scored EXCEPT ![m] = Append(scored[m], outcome)]
    BY DEF Earn
  <2>. QED  BY <1>1, <2>1, <2>2
<1>. QED  BY <1>1, <1>2, <1>3, <1>4, More

\* Scoring leaves the machine sound, whatever else it does to the program.
LEMMA ScoreSound ==
    ASSUME GroupInv, NEW m \in Member, NEW s \in Program, NEW t \in Program,
           s.arcade = app[m].arcade, s.loaded => app[m].loaded,
           NEW outcome \in {"win", "loss", "draw"}, Earn(m, s, outcome),
           t.arcade = AutoRecord(m, s, outcome).arcade,
           t.loaded => AutoRecord(m, s, outcome).loaded,
           app' = [app EXCEPT ![m] = t],
           save' = IF Scores(s) THEN Save(m, AutoRecord(m, s, outcome).arcade) ELSE save,
           net' \in [Member -> Seq(Messages(earned'))],
           eng' \in [Member -> Engine],
           room' \in [host : Member \cup {"none"}, full : BOOLEAN]
    PROVE  Only(m) /\ Sound(m) /\ World
<1>. DEFINE r == AutoRecord(m, s, outcome)
<1>0. s \in Programs(earned) /\ earned \in [Member -> Nat]
  BY Machine DEF Programs
<1>1. World
  BY <1>0, EarnIs DEF World
<1>2. CASE Scores(s)
  <2>1. earned' = Counted(earned, m, outcome)
    BY <1>0, <1>2, EarnIs
  <2>2. /\ r \in Programs(Counted(earned, m, outcome))
        /\ r.arcade.exists = s.arcade.exists /\ Grows(s.arcade, r.arcade)
    BY ONLY <1>0, <1>2, m \in Member, outcome \in {"win", "loss", "draw"}, ScoreIs
  <2>3. r.arcade \in Campaigns(earned') /\ r.arcade \in Campaign
    BY <2>1, <2>2 DEF Programs, Campaigns
  <2>4. app[m].loaded /\ app[m].arcade.exists
    BY <1>2, Machine DEF Scores, FileInv
  <2>5. save' = Save(m, r.arcade)
    BY <1>2
  <2>. HIDE DEF r
  <2>6. Only(m) /\ app'[m] = t /\ save'[m] = r.arcade
    BY <2>3, <2>5, Machine DEF Only, Save
  <2>7. t.arcade = r.arcade
    BY DEF r
  <2>8. Sound(m)
    BY <1>1, <2>2, <2>3, <2>4, <2>6, <2>7, SaveMemory
  <2>. QED  BY <1>1, <2>6, <2>8
<1>3. CASE ~Scores(s)
  <2>1. t.arcade = app[m].arcade /\ (t.loaded => app[m].loaded) /\ UNCHANGED save
    BY <1>3 DEF AutoRecord
  <2>. QED  BY <1>1, <2>1, SameCampaign
<1>. QED  BY <1>2, <1>3

\* The host scores the end: points, a spin, the file, and the sync it sends.
LEMMA PumpSound ==
    ASSUME GroupInv, NEW m \in Member, HostPump(m)
    PROVE  Only(m) /\ Sound(m) /\ World
<1>. DEFINE w == eng[m].winner
            outcome == OutcomeFor(m, w)
            s == app[m]
            r == AutoRecord(m, s, outcome)
            t == EndOfDuel(r)
            over == [t |-> "over", winner |-> w]
            frames == <<over>> \o IF Scores(s) THEN <<SyncOf(r.arcade)>> ELSE <<>>
<1>1. /\ app' = [app EXCEPT ![m] = t]
      /\ save' = IF Scores(s) THEN Save(m, r.arcade) ELSE save
      /\ net' = IF Heard(m) THEN Send(net, Peer(m), frames) ELSE net
      /\ Earn(m, s, outcome) /\ UNCHANGED <<eng, room>>
  BY DEF HostPump
<1>2. /\ s \in Program /\ s \in Programs(earned) /\ earned \in [Member -> Nat]
      /\ eng \in [Member -> Engine]
      /\ room \in [host : Member \cup {"none"}, full : BOOLEAN]
  BY Machine
<1>3. outcome \in {"win", "loss", "draw"} /\ w \in Winner
  BY <1>2 DEF OutcomeFor, Engine
<1>. HIDE DEF outcome, w, s
<1>4. /\ net \in [Member -> Seq(Messages(earned'))]
      /\ Scores(s) => earned' = Counted(earned, m, outcome)
      /\ ~Scores(s) => earned' = earned
  BY <1>1, <1>2, <1>3, EarnIs
<1>5. r \in Programs(earned')
  <2>1. CASE Scores(s)
    <3>1. r \in Programs(Counted(earned, m, outcome))
      BY <2>1, <1>2, <1>3, ScoreIs
    <3>. QED  BY <2>1, <3>1, <1>4
  <2>2. CASE ~Scores(s)
    BY <2>2, <1>2, <1>4 DEF AutoRecord
  <2>. QED  BY <2>1, <2>2
<1>. HIDE DEF r
<1>6. t \in Program /\ t.arcade = r.arcade /\ t.loaded = r.loaded
  BY <1>5 DEF Programs, Program, EndOfDuel
<1>7. net' \in [Member -> Seq(Messages(earned'))]
  <2>1. over \in Messages(earned')
    BY <1>3 DEF Messages, Frame, Signal
  <2>2. SyncOf(r.arcade) \in Messages(earned')
    BY <1>5, SyncIs DEF Programs
  <2>. HIDE DEF over
  <2>3. frames \in Seq(Messages(earned'))
    BY <2>1, <2>2
  <2>. HIDE DEF frames
  <2>4. [net EXCEPT ![Peer(m)] = @ \o frames] \in [Member -> Seq(Messages(earned'))]
    BY <1>4, <2>3, PeerIs
  <2>. QED  BY <1>1, <1>4, <2>4 DEF Send
<1>. HIDE DEF t
<1>8. /\ s.arcade = app[m].arcade /\ s.loaded = app[m].loaded
      /\ t.arcade = AutoRecord(m, s, outcome).arcade
      /\ t.loaded = AutoRecord(m, s, outcome).loaded
      /\ save' = IF Scores(s) THEN Save(m, AutoRecord(m, s, outcome).arcade) ELSE save
  BY <1>1, <1>6 DEF r, s
<1>9. /\ eng' \in [Member -> Engine]
      /\ room' \in [host : Member \cup {"none"}, full : BOOLEAN]
  BY <1>1, <1>2
<1>10. s \in Program /\ Earn(m, s, outcome) /\ app' = [app EXCEPT ![m] = t]
  BY <1>1, <1>2
<1>11. (s.loaded => app[m].loaded) /\ (t.loaded => AutoRecord(m, s, outcome).loaded)
  BY <1>8
<1>. QED  BY ONLY GroupInv, m \in Member, <1>3, <1>6, <1>7, <1>8, <1>9, <1>10, <1>11,
             ScoreSound

-----------------------------------------------------------------------------
(* The frames.                                                             *)

\* The host puts itself on its board and sends it.
LEMMA JoinedSound ==
    ASSUME GroupInv, NEW m \in Member, PeerJoined(m)
    PROVE  Only(m) /\ Sound(m) /\ World
<1>. DEFINE s == [app[m] EXCEPT !.ready = TRUE]
            a == OnBoard(m, s.arcade)
            t == [s EXCEPT !.arcade = a]
<1>1. /\ IF Scores(s)
         THEN /\ app' = [app EXCEPT ![m] = t]
              /\ net' = [net EXCEPT ![m] = Tail(@),
                                    ![Peer(m)] = IF Heard(m) THEN Append(@, SyncOf(a))
                                                 ELSE @]
         ELSE app' = [app EXCEPT ![m] = s] /\ net' = [net EXCEPT ![m] = Tail(@)]
      /\ UNCHANGED <<save, eng, room, earned, scored>> /\ net[m] # <<>>
  BY DEF PeerJoined, Receive
<1>2. s \in Program /\ s.arcade = app[m].arcade /\ s.loaded = app[m].loaded
  BY Machine DEF Program
<1>3. /\ a \in Campaigns(earned) /\ a \in Campaign
      /\ a.exists = app[m].arcade.exists /\ Grows(app[m].arcade, a)
  BY <1>2, Machine, OnBoardIs DEF Campaigns
<1>4. SyncOf(a) \in Messages(earned)
  BY <1>3, SyncIs
<1>. HIDE DEF s, a
<1>5. t \in Program /\ t.arcade = a /\ t.loaded = app[m].loaded
  BY <1>2, <1>3 DEF Program
<1>. HIDE DEF t
<1>6. World
  <2>. DEFINE q == IF Heard(m) THEN Append(net[Peer(m)], SyncOf(a)) ELSE net[Peer(m)]
  <2>1. net[Peer(m)] \in Seq(Messages(earned)) /\ net \in [Member -> Seq(Messages(earned))]
    BY Machine, PeerIs
  <2>2. q \in Seq(Messages(earned))
    BY <1>4, <2>1
  <2>3. /\ [net EXCEPT ![m] = Tail(@)] \in [Member -> Seq(Messages(earned))]
        /\ [net EXCEPT ![m] = Tail(@), ![Peer(m)] = q]
                \in [Member -> Seq(Messages(earned))]
    BY <1>1, <2>1, <2>2, HandledIs
  <2>4. \/ net' = [net EXCEPT ![m] = Tail(@)]
        \/ net' = [net EXCEPT ![m] = Tail(@), ![Peer(m)] = q]
    BY <1>1, PeerIs
  <2>5. net' \in [Member -> Seq(Messages(earned))]
    BY <2>3, <2>4
  <2>. QED  BY <1>1, <2>5, Machine DEF World
<1>7. CASE Scores(s)
  <2>1. app' = [app EXCEPT ![m] = t] /\ UNCHANGED save
    BY <1>1, <1>7
  <2>2. Only(m) /\ app'[m] = t /\ save'[m] = save[m]
    BY <1>5, <2>1, OneProgram
  <2>3. app[m].loaded => app[m].arcade.exists
    BY Machine DEF FileInv
  <2>4. earned' = earned
    BY <1>1
  <2>. QED  BY <1>3, <1>5, <1>6, <2>2, <2>3, <2>4, KeepFile
<1>8. CASE ~Scores(s)
  BY <1>1, <1>2, <1>6, <1>8, SameCampaign
<1>. QED  BY <1>6, <1>7, <1>8

\* What a sync carries.
LEMMA SyncHeld ==
    ASSUME GroupInv, NEW m \in Member, Receive(m, "sync")
    PROVE  /\ net[m] # <<>> /\ Head(net[m]).board \in [Member -> Points]
           /\ Within(Head(net[m]).board, earned)
<1>1. Head(net[m]) \in Messages(earned) /\ Head(net[m]).t = "sync" /\ net[m] # <<>>
  BY Machine, HandledIs DEF Receive
<1>2. Head(net[m]) \in Frame
  BY <1>1 DEF Messages
<1>. QED  BY <1>1, <1>2 DEF Messages, Frame, Signal

\* A campaign with a board merged in counts no more than it did.
LEMMA MergedIs ==
    ASSUME NEW e \in [Member -> Nat], NEW c \in Campaigns(e),
           NEW d \in [Member -> Points], Within(d, e)
    PROVE  /\ [c EXCEPT !.board = MergeBoard(@, d)] \in Campaigns(e)
           /\ [c EXCEPT !.board = MergeBoard(@, d)].exists = c.exists
           /\ Grows(c, [c EXCEPT !.board = MergeBoard(@, d)])
<1>. DEFINE b == MergeBoard(c.board, d)
<1>1. c \in Campaign /\ c.board \in [Member -> Points] /\ Within(c.board, e)
  BY DEF Campaigns, Campaign
<1>2. /\ b \in [Member -> Points]
      /\ \A n \in Member : b[n] >= c.board[n] /\ b[n] \in {c.board[n], d[n]}
  BY <1>1, MergeIs
<1>3. [c EXCEPT !.board = MergeBoard(@, d)] = [c EXCEPT !.board = b]
  BY <1>1 DEF Campaign
<1>. HIDE DEF b
<1>4. Within(b, e)
  BY <1>1, <1>2 DEF Within
<1>. QED  BY <1>1, <1>2, <1>3, <1>4, BoardSet

\* What the host merges is within what was earned, so the merge is.
LEMMA HostSyncSound ==
    ASSUME GroupInv, NEW m \in Member, HostSync(m)
    PROVE  Only(m) /\ Sound(m) /\ World
<1>. DEFINE a == [app[m].arcade EXCEPT !.board = MergeBoard(@, Head(net[m]).board)]
            t == [app[m] EXCEPT !.arcade = a]
<1>1. /\ IF app[m].loaded
         THEN app' = [app EXCEPT ![m].arcade = a] /\ save' = Save(m, a)
         ELSE UNCHANGED <<app, save>>
      /\ net' = [net EXCEPT ![m] = Tail(@)]
      /\ UNCHANGED <<eng, room, earned, scored>> /\ net[m] # <<>>
  BY DEF HostSync, Receive
<1>2. /\ a \in Campaigns(earned) /\ a \in Campaign
      /\ a.exists = app[m].arcade.exists /\ Grows(app[m].arcade, a)
  <2>1. Receive(m, "sync") /\ app[m].arcade \in Campaigns(earned)
        /\ earned \in [Member -> Nat]
    BY Machine DEF HostSync
  <2>. QED  BY <2>1, SyncHeld, MergedIs DEF Campaigns
<1>3. World
  <2>1. net' \in [Member -> Seq(Messages(earned))]
    BY <1>1, Machine, HandledIs
  <2>. QED  BY <1>1, <2>1, Machine DEF World
<1>. HIDE DEF a
<1>4. t \in Program /\ t.arcade = a
  BY <1>2, Machine DEF Program
<1>5. CASE app[m].loaded
  <2>1. app' = [app EXCEPT ![m] = t] /\ save' = Save(m, a)
    BY <1>1, <1>5
  <2>. HIDE DEF t
  <2>2. Only(m) /\ app'[m] = t /\ save'[m] = a
    BY <1>2, <1>4, <2>1, ProgramAndFile
  <2>3. app[m].arcade.exists /\ earned' = earned
    BY <1>1, <1>5, Machine DEF FileInv
  <2>. QED  BY <1>2, <1>3, <1>4, <1>5, <2>2, <2>3, SaveMemory
<1>6. CASE ~app[m].loaded
  BY <1>1, <1>3, <1>6, SameMachine
<1>. QED  BY <1>3, <1>5, <1>6

\* So is what the guest merges, into whichever campaign it takes.
LEMMA GuestSyncSound ==
    ASSUME GroupInv, NEW m \in Member, GuestSync(m)
    PROVE  Only(m) /\ Sound(m) /\ World
<1>. DEFINE c == GuestCampaign(m)
            d == [c EXCEPT !.board = MergeBoard(@, Head(net[m]).board)]
            a == OnBoard(m, d)
            t == [app[m] EXCEPT !.arcade = a, !.loaded = TRUE, !.group = TRUE]
            q == IF Heard(m) THEN net[Peer(m)] \o SyncReply(a) ELSE net[Peer(m)]
<1>1. /\ app' = [app EXCEPT ![m] = t]
      /\ save' = Save(m, a)
      /\ net' = [net EXCEPT ![m] = Tail(@), ![Peer(m)] = q]
      /\ UNCHANGED <<eng, room, earned, scored>> /\ net[m] # <<>>
  <2>1. net' = [net EXCEPT ![m] = Tail(@),
                           ![Peer(m)] = IF Heard(m) THEN @ \o SyncReply(a) ELSE @]
    BY DEF GuestSync
  <2>2. net' = [net EXCEPT ![m] = Tail(@), ![Peer(m)] = q]
    BY <2>1, PeerIs
  <2>. QED  BY <2>2 DEF GuestSync, Receive
<1>2. c \in Campaigns(earned) /\ c \in Campaign /\ c.exists /\ Grows(save[m], c)
  <2>1. CASE ~save[m].exists
    <3>1. c = NewSave
      BY <2>1 DEF GuestCampaign
    <3>. HIDE DEF c
    <3>2. c \in Campaigns(earned) /\ c.exists /\ c \in Campaign
      BY <3>1, Machine, NewIs DEF Campaigns
    <3>. QED  BY <2>1, <3>2, Machine, GrowsFromNothing DEF FileInv
  <2>2. CASE save[m].exists /\ ~app[m].loaded
    <3>1. c = save[m]
      BY <2>2 DEF GuestCampaign
    <3>. HIDE DEF c
    <3>. QED  BY <2>2, <3>1, Machine, GrowsOn
  <2>3. CASE save[m].exists /\ app[m].loaded
    <3>1. c = app[m].arcade
      BY <2>3 DEF GuestCampaign
    <3>. HIDE DEF c
    <3>. QED  BY <2>3, <3>1, Machine DEF FileInv
  <2>. QED  BY <2>1, <2>2, <2>3
<1>. HIDE DEF c
<1>3. /\ Receive(m, "sync") /\ earned \in [Member -> Nat]
      /\ save[m] \in Campaign /\ app[m] \in Program
  BY Machine DEF GuestSync
<1>4. d \in Campaigns(earned) /\ d \in Campaign /\ d.exists /\ Grows(c, d)
  BY <1>2, <1>3, SyncHeld, MergedIs DEF Campaigns
<1>. HIDE DEF d
<1>5. a \in Campaigns(earned) /\ a \in Campaign /\ a.exists /\ Grows(d, a)
  BY <1>3, <1>4, OnBoardIs DEF Campaigns
<1>6. Grows(save[m], a) /\ Grows(a, a)
  BY <1>2, <1>3, <1>4, <1>5, GrowsOn
<1>7. World
  <2>1. SyncOf(a) \in Messages(earned)
    BY <1>5, SyncIs
  <2>2. net[Peer(m)] \in Seq(Messages(earned)) /\ net \in [Member -> Seq(Messages(earned))]
    BY Machine, PeerIs
  <2>3. q \in Seq(Messages(earned))
    BY <2>1, <2>2 DEF SyncReply
  <2>. HIDE DEF q
  <2>4. net' \in [Member -> Seq(Messages(earned))]
    BY <1>1, <2>2, <2>3, HandledIs
  <2>5. UNCHANGED <<eng, room, earned, scored>>
    BY <1>1
  <2>. QED  BY <2>4, <2>5, Machine DEF World
<1>. HIDE DEF a
<1>8. t \in Program /\ t.arcade = a
  BY <1>3, <1>5 DEF Program
<1>. HIDE DEF t
<1>9. Only(m) /\ app'[m] = t /\ save'[m] = a
  BY <1>1, <1>5, <1>8, ProgramAndFile
<1>10. earned' = earned
  BY <1>1
<1>. QED  BY <1>5, <1>6, <1>7, <1>8, <1>9, <1>10 DEF Sound, FileInv

\* A start at the guest touches no campaign,
LEMMA StartsSound ==
    ASSUME GroupInv, NEW m \in Member, DuelStarts(m)
    PROVE  Only(m) /\ Sound(m) /\ World
<1>. DEFINE t == [app[m] EXCEPT !.inDuel = TRUE, !.auto = FALSE, !.remoteDone = FALSE]
<1>1. t \in Program /\ t.arcade = app[m].arcade /\ t.loaded = app[m].loaded
  BY Machine DEF Program
<1>2. /\ app' = [app EXCEPT ![m] = t] /\ UNCHANGED <<save, eng, room, earned, scored>>
      /\ net' = [net EXCEPT ![m] = Tail(@)] /\ net[m] # <<>>
  BY DEF DuelStarts, Receive
<1>3. net' \in [Member -> Seq(Messages(earned))]
  BY <1>2, Machine, HandledIs
<1>4. World
  BY <1>2, <1>3, Machine DEF World
<1>. QED  BY <1>1, <1>2, <1>4, SameCampaign

\* nor does the surrender at the host.
LEMMA SurrenderedSound ==
    ASSUME GroupInv, NEW m \in Member, Surrendered(m)
    PROVE  Only(m) /\ Sound(m) /\ World
<1>1. [st |-> "done", winner |-> m] \in Engine
  BY DEF Engine, Winner
<1>2. /\ eng' = IF eng[m].st = "none" THEN eng
                ELSE [eng EXCEPT ![m] = [st |-> "done", winner |-> m]]
      /\ net' = [net EXCEPT ![m] = Tail(@)] /\ net[m] # <<>>
      /\ UNCHANGED <<save, app, room, earned, scored>>
  BY DEF Surrendered, Receive
<1>3. eng' \in [Member -> Engine]
  BY <1>1, <1>2, Machine
<1>4. net' \in [Member -> Seq(Messages(earned))]
  BY <1>2, Machine, HandledIs
<1>5. World
  BY <1>2, <1>3, <1>4, Machine DEF World
<1>. QED  BY <1>2, <1>5, SameMachine

\* The program after a result is of its kind, whether it was scored or not.
LEMMA RecordedIs ==
    ASSUME GroupInv, NEW m \in Member, NEW s \in Programs(earned),
           NEW outcome \in {"win", "loss", "draw"}, Earn(m, s, outcome)
    PROVE  /\ AutoRecord(m, s, outcome) \in Programs(earned')
           /\ SyncOf(AutoRecord(m, s, outcome).arcade) \in Messages(earned')
<1>. DEFINE r == AutoRecord(m, s, outcome)
<1>1. /\ Scores(s) => earned' = Counted(earned, m, outcome)
      /\ ~Scores(s) => earned' = earned
      /\ earned \in [Member -> Nat]
  BY EarnIs, Machine
<1>2. r \in Programs(earned')
  <2>1. CASE Scores(s)
    <3>1. r \in Programs(Counted(earned, m, outcome))
      BY <1>1, <2>1, ScoreIs
    <3>. QED  BY <1>1, <2>1, <3>1
  <2>2. CASE ~Scores(s)
    BY <1>1, <2>2 DEF AutoRecord
  <2>. QED  BY <2>1, <2>2
<1>. HIDE DEF r
<1>3. SyncOf(r.arcade) \in Messages(earned')
  BY <1>2, SyncIs DEF Programs
<1>. QED  BY <1>2, <1>3 DEF r

\* Scoring on a frame.
LEMMA FrameScored ==
    ASSUME GroupInv, NEW m \in Member, NEW s \in Program,
           s.arcade = app[m].arcade, s.loaded = app[m].loaded,
           NEW outcome \in {"win", "loss", "draw"}, Score(m, s, outcome),
           net[m] # <<>>, UNCHANGED <<eng, room>>
    PROVE  Only(m) /\ Sound(m) /\ World
<1>. DEFINE r == AutoRecord(m, s, outcome)
            q == IF Scores(s) /\ Heard(m)
                 THEN Append(net[Peer(m)], SyncOf(r.arcade)) ELSE net[Peer(m)]
<1>1. /\ app' = [app EXCEPT ![m] = r]
      /\ save' = IF Scores(s) THEN Save(m, r.arcade) ELSE save
      /\ net' = [net EXCEPT ![m] = Tail(@), ![Peer(m)] = q]
      /\ Earn(m, s, outcome)
  <2>1. net' = [net EXCEPT ![m] = Tail(@),
                           ![Peer(m)] = IF Scores(s) /\ Heard(m)
                                        THEN Append(@, SyncOf(r.arcade)) ELSE @]
    BY DEF Score
  <2>2. net' = [net EXCEPT ![m] = Tail(@), ![Peer(m)] = q]
    BY <2>1, PeerIs
  <2>. QED  BY <2>2 DEF Score
<1>2. /\ s \in Programs(earned) /\ eng \in [Member -> Engine]
      /\ room \in [host : Member \cup {"none"}, full : BOOLEAN]
  BY Machine DEF Programs
<1>3. /\ r \in Programs(earned') /\ SyncOf(r.arcade) \in Messages(earned')
      /\ net \in [Member -> Seq(Messages(earned'))]
  BY <1>1, <1>2, RecordedIs, EarnIs
<1>4. r \in Program
  BY <1>3 DEF Programs
<1>. HIDE DEF r
<1>5. net' \in [Member -> Seq(Messages(earned'))]
  <2>1. q \in Seq(Messages(earned'))
    BY <1>3, PeerIs
  <2>. HIDE DEF q
  <2>. QED  BY <1>1, <1>3, <2>1, HandledIs
<1>6. /\ r.arcade = AutoRecord(m, s, outcome).arcade
      /\ r.loaded = AutoRecord(m, s, outcome).loaded
      /\ save' = IF Scores(s) THEN Save(m, AutoRecord(m, s, outcome).arcade) ELSE save
  BY <1>1 DEF r
<1>7. /\ eng' \in [Member -> Engine]
      /\ room' \in [host : Member \cup {"none"}, full : BOOLEAN]
  BY <1>2
<1>8. app' = [app EXCEPT ![m] = r] /\ Earn(m, s, outcome)
  BY <1>1
<1>. QED  BY <1>4, <1>5, <1>6, <1>7, <1>8, ScoreSound

\* The guest scores the end, as the host did.
LEMMA OverSound ==
    ASSUME GroupInv, NEW m \in Member, GameOver(m)
    PROVE  Only(m) /\ Sound(m) /\ World
<1>. DEFINE s == [app[m] EXCEPT !.remoteDone = TRUE]
            outcome == OutcomeFor(m, Head(net[m]).winner)
<1>1. s \in Program /\ s.arcade = app[m].arcade /\ s.loaded = app[m].loaded
  BY Machine DEF Program
<1>2. outcome \in {"win", "loss", "draw"}
  BY DEF OutcomeFor
<1>3. Score(m, s, outcome) /\ net[m] # <<>> /\ UNCHANGED <<eng, room>>
  BY DEF GameOver, Receive
<1>. HIDE DEF s, outcome
<1>. QED  BY <1>1, <1>2, <1>3, FrameScored

\* The one left behind scores a win, or nothing.
LEMMA QuitSound ==
    ASSUME GroupInv, NEW m \in Member, PeerQuit(m)
    PROVE  Only(m) /\ Sound(m) /\ World
<1>. DEFINE s == app[m]
            t == [s EXCEPT !.ready = @ /\ Head(net[m]).t = "bye"]
<1>1. t \in Program /\ t.arcade = s.arcade /\ t.loaded = s.loaded
  BY Machine DEF Program
<1>2. /\ IF PeerQuitCounts(m, s) THEN Score(m, t, "win")
         ELSE /\ net' = [net EXCEPT ![m] = Tail(@)]
              /\ app' = [app EXCEPT ![m] = t]
              /\ UNCHANGED <<save, earned, scored>>
      /\ net[m] # <<>> /\ UNCHANGED <<eng, room>>
  BY DEF PeerQuit, Receive
<1>. HIDE DEF t
<1>3. CASE PeerQuitCounts(m, s)
  BY <1>1, <1>2, <1>3, FrameScored
<1>4. CASE ~PeerQuitCounts(m, s)
  <2>1. net' \in [Member -> Seq(Messages(earned))]
    <3>1. net' = [net EXCEPT ![m] = Tail(@)] /\ net[m] # <<>>
      BY <1>2, <1>4
    <3>2. net \in [Member -> Seq(Messages(earned))]
      BY Machine
    <3>. QED  BY <3>1, <3>2
  <2>2. World
    BY <1>2, <1>4, <2>1, Machine DEF World
  <2>. QED  BY <1>1, <1>2, <1>4, <2>2, SameCampaign
<1>. QED  BY <1>3, <1>4

-----------------------------------------------------------------------------
(* Leaving.                                                                *)

\* Some of the last frames, and the relay's notice.
LEMMA DepartsIs ==
    ASSUME NEW e, NEW m \in Member, net \in [Member -> Seq(Messages(e))],
           NEW frames \in Seq(Messages(e)), Departs(m, frames)
    PROVE  net' \in [Member -> Seq(Messages(e))]
<1>1. PICK sent \in Farewell(frames) :
          net' = [net EXCEPT ![m] = <<>>,
                             ![Peer(m)] = IF Heard(m)
                                          THEN @ \o sent \o <<[t |-> "closed"]>> ELSE @]
  BY DEF Departs
<1>2. sent \in Seq(Messages(e))
  <2>1. PICK k \in 0..Len(frames) : sent = SubSeq(frames, 1, k)
    BY DEF Farewell
  <2>. QED  BY <2>1, SubSeqProperties
<1>3. [t |-> "closed"] \in Messages(e)
  BY SignalIs DEF Signal
<1>. DEFINE q == IF Heard(m) THEN net[Peer(m)] \o sent \o <<[t |-> "closed"]>>
                 ELSE net[Peer(m)]
<1>4. q \in Seq(Messages(e))
  BY <1>2, <1>3, PeerIs
<1>5. net' = [net EXCEPT ![m] = <<>>, ![Peer(m)] = q]
  BY <1>1, PeerIs
<1>. HIDE DEF q
<1>6. <<>> \in Seq(Messages(e)) /\ Peer(m) \in Member
  BY PeerIs
<1>. QED  BY <1>4, <1>5, <1>6

\* The room and the engine after one leaves.
LEMMA RoomIs ==
    ASSUME GroupInv, NEW m \in Member
    PROVE  /\ RoomLoses(m) => room' \in [host : Member \cup {"none"}, full : BOOLEAN]
           /\ EngineGoes(m) => eng' \in [Member -> Engine]
<1>1. NoRoom \in [host : Member \cup {"none"}, full : BOOLEAN] /\ NoEngine \in Engine
  BY DEF NoRoom, NoEngine, Engine, Winner
<1>2. [room EXCEPT !.full = FALSE] \in [host : Member \cup {"none"}, full : BOOLEAN]
  BY Machine
<1>. QED  BY <1>1, <1>2, Machine DEF RoomLoses, EngineGoes

\* The one who leaves scores a loss, or nothing.
LEMMA LeaveSound ==
    ASSUME GroupInv, NEW m \in Member, Leave(m)
    PROVE  Only(m) /\ Sound(m) /\ World
<1>. DEFINE s == app[m]
            quits == OpenDuel(m, s)
            r == IF quits THEN AutoRecord(m, s, "loss") ELSE s
            t == [EndOfDuel(r) EXCEPT !.role = "offline", !.link = "none", !.ready = FALSE]
            frames == (IF quits THEN <<SyncOf(r.arcade)>> ELSE <<>>) \o <<[t |-> "bye"]>>
<1>1. /\ app' = [app EXCEPT ![m] = t]
      /\ save' = IF quits THEN Save(m, r.arcade) ELSE save
      /\ Departs(m, frames)
      /\ IF quits THEN Earn(m, s, "loss") ELSE UNCHANGED <<earned, scored>>
      /\ RoomLoses(m) /\ EngineGoes(m)
  BY DEF Leave
<1>2. /\ s \in Program /\ s \in Programs(earned) /\ earned \in [Member -> Nat]
      /\ net \in [Member -> Seq(Messages(earned))]
      /\ scored \in [Member -> Seq({"win", "loss", "draw"})]
  BY Machine
<1>3. quits => Scores(s)
  BY DEF OpenDuel, Scores
<1>4. /\ eng' \in [Member -> Engine]
      /\ room' \in [host : Member \cup {"none"}, full : BOOLEAN]
  BY <1>1, RoomIs
<1>. HIDE DEF quits, s
<1>5. r \in Programs(earned') /\ (quits => SyncOf(r.arcade) \in Messages(earned'))
  <2>1. CASE quits
    BY <1>1, <1>2, <2>1, RecordedIs
  <2>2. CASE ~quits
    BY <1>1, <1>2, <2>2
  <2>. QED  BY <2>1, <2>2
<1>. HIDE DEF r
<1>6. t \in Program /\ t.arcade = r.arcade /\ t.loaded = r.loaded
  <2>1. EndOfDuel(r) \in Program /\ EndOfDuel(r).arcade = r.arcade
        /\ EndOfDuel(r).loaded = r.loaded
    BY <1>5 DEF Programs, Program, EndOfDuel
  <2>. QED  BY <2>1 DEF Program
<1>. HIDE DEF t
<1>7. net' \in [Member -> Seq(Messages(earned'))]
  <2>1. net \in [Member -> Seq(Messages(earned'))]
    <3>1. CASE quits
      BY <1>1, <1>2, <3>1, EarnIs
    <3>2. CASE ~quits
      BY <1>1, <1>2, <3>2
    <3>. QED  BY <3>1, <3>2
  <2>2. [t |-> "bye"] \in Messages(earned')
    BY SignalIs DEF Signal
  <2>3. frames \in Seq(Messages(earned'))
    BY <1>5, <2>2
  <2>. HIDE DEF frames
  <2>. QED  BY <1>1, <2>1, <2>3, DepartsIs
<1>8. CASE quits
  <2>1. /\ t.arcade = AutoRecord(m, s, "loss").arcade
        /\ t.loaded = AutoRecord(m, s, "loss").loaded
        /\ save' = IF Scores(s) THEN Save(m, AutoRecord(m, s, "loss").arcade) ELSE save
        /\ Earn(m, s, "loss")
    BY <1>1, <1>3, <1>6, <1>8 DEF r
  <2>2. s.arcade = app[m].arcade /\ s.loaded = app[m].loaded
    BY DEF s
  <2>. QED  BY <1>1, <1>2, <1>4, <1>6, <1>7, <2>1, <2>2, ScoreSound
<1>9. CASE ~quits
  <2>1. t.arcade = app[m].arcade /\ t.loaded = app[m].loaded
        /\ UNCHANGED <<save, earned, scored>>
    BY <1>1, <1>6, <1>9 DEF r, s
  <2>2. World
    BY <1>2, <1>4, <1>7, <2>1 DEF World
  <2>. QED  BY <1>1, <1>6, <2>1, <2>2, SameCampaign
<1>. QED  BY <1>8, <1>9

\* A broken link loses frames, and adds one that counts nothing.
LEMMA BreaksSound ==
    ASSUME GroupInv, NEW m \in Member, LinkBreaks(m)
    PROVE  Only(m) /\ Sound(m) /\ World
<1>. DEFINE t == [app[m] EXCEPT !.link = "lost"]
<1>1. t \in Program /\ t.arcade = app[m].arcade /\ t.loaded = app[m].loaded
  BY Machine DEF Program
<1>2. /\ app' = [app EXCEPT ![m] = t] /\ UNCHANGED <<save, eng, earned, scored>>
      /\ RoomLoses(m)
  BY DEF LinkBreaks
<1>3. net' \in [Member -> Seq(Messages(earned))]
  <2>1. PICK kept \in Farewell(net[m]) :
            net' = [net EXCEPT ![m] = kept,
                               ![Peer(m)] = IF room.full THEN Append(@, [t |-> "closed"])
                                            ELSE @]
    BY DEF LinkBreaks
  <2>2. /\ net \in [Member -> Seq(Messages(earned))] /\ Peer(m) \in Member /\ Peer(m) # m
        /\ [t |-> "closed"] \in Messages(earned)
    BY Machine, PeerIs, SignalIs DEF Signal
  <2>3. kept \in Seq(Messages(earned))
    <3>1. PICK k \in 0..Len(net[m]) : kept = SubSeq(net[m], 1, k)
      BY DEF Farewell
    <3>. QED  BY <2>2, <3>1, SubSeqProperties
  <2>. DEFINE q == IF room.full THEN Append(net[Peer(m)], [t |-> "closed"])
                   ELSE net[Peer(m)]
  <2>4. q \in Seq(Messages(earned))
    BY <2>2
  <2>5. net' = [net EXCEPT ![m] = kept, ![Peer(m)] = q]
    BY <2>1, <2>2
  <2>. HIDE DEF q
  <2>. QED  BY <2>2, <2>3, <2>4, <2>5
<1>4. World
  BY <1>2, <1>3, Machine, RoomIs DEF World
<1>. QED  BY <1>1, <1>2, <1>4, SameCampaign

\* The program of a machine that has just been started.
LEMMA StartedIs ==
    ASSUME GroupInv
    PROVE  /\ AppInit \in Program /\ ~AppInit.loaded
           /\ AppInit.arcade \in Campaigns(earned)
<1>1. NoSave \in Campaigns(earned)
  BY NewIs DEF GroupInv, TypeOK
<1>. QED  BY <1>1 DEF AppInit, Program, Campaigns

\* A killed program leaves its file, and an empty memory.
LEMMA KilledSound ==
    ASSUME GroupInv, NEW m \in Member, Killed(m)
    PROVE  Only(m) /\ Sound(m) /\ World
<1>1. /\ app' = [app EXCEPT ![m] = AppInit] /\ UNCHANGED <<save, earned, scored>>
      /\ Departs(m, <<>>) /\ RoomLoses(m) /\ EngineGoes(m)
  BY DEF Killed, Dies
<1>2. net' \in [Member -> Seq(Messages(earned))]
  <2>1. <<>> \in Seq(Messages(earned))
    OBVIOUS
  <2>. QED  BY <1>1, <2>1, Machine, DepartsIs
<1>3. World
  BY <1>1, <1>2, Machine, RoomIs DEF World
<1>4. AppInit \in Program /\ ~AppInit.loaded /\ AppInit.arcade \in Campaigns(earned)
  BY StartedIs
<1>5. Only(m) /\ app'[m] = AppInit /\ save'[m] = save[m]
  BY <1>1, <1>4, OneProgram
<1>. QED  BY <1>1, <1>3, <1>4, <1>5, KeepFile

\* What is left of a file that was being saved: some of what is in memory.
LEMMA TornIs ==
    ASSUME NEW e \in [Member -> Nat], NEW a \in Campaigns(e), a.exists,
           NEW b \in TornSaves(a)
    PROVE  /\ b \in Campaigns(e) /\ b.exists
           /\ \A n \in Member : b.board[n] \in {NotMember, a.board[n]}
<1>1. CASE b = NewSave
  BY <1>1, NewIs
<1>2. ASSUME NEW written \in SUBSET Member,
             b = [a EXCEPT !.board = [n \in Member |-> IF n \in written THEN a.board[n]
                                                       ELSE NotMember]]
      PROVE  /\ b \in Campaigns(e) /\ b.exists
             /\ \A n \in Member : b.board[n] \in {NotMember, a.board[n]}
  <2>. DEFINE d == [n \in Member |-> IF n \in written THEN a.board[n] ELSE NotMember]
  <2>1. a \in Campaign /\ Within(a.board, e)
    BY DEF Campaigns
  <2>2. d \in [Member -> Points] /\ \A n \in Member : d[n] \in {NotMember, a.board[n]}
    BY <2>1 DEF Campaign, Points
  <2>3. Within(d, e)
    BY <2>1, <2>2 DEF Within, Points, NotMember
  <2>. HIDE DEF d
  <2>4. b = [a EXCEPT !.board = d]
    BY <1>2 DEF d
  <2>5. b \in Campaign /\ b.board = d /\ b.exists = a.exists
    BY <2>1, <2>2, <2>4 DEF Campaign
  <2>. QED  BY <2>2, <2>3, <2>5 DEF Campaigns
<1>. QED  BY <1>1, <1>2 DEF TornSaves

\* What is left of a channel whose last ArcadeSync was not sent.
LEMMA UnsentIs ==
    ASSUME NEW S, NEW frames \in Seq(S), NEW left \in Unsent(frames)
    PROVE  /\ left \in Seq(S)
           /\ \E k \in 0..Len(frames) :
                /\ left = SubSeq(frames, 1, k)
                /\ \A i \in DOMAIN frames : i > k => frames[i].t = "sync"
<1>1. CASE left = frames
  <2>1. frames = SubSeq(frames, 1, Len(frames)) /\ Len(frames) \in 0..Len(frames)
        /\ \A i \in DOMAIN frames : ~(i > Len(frames))
    BY SubSeqProperties
  <2>. QED  BY <1>1, <2>1
<1>2. CASE frames # <<>> /\ Last(frames).t = "sync" /\ left = Front(frames)
  <2>. DEFINE k == Len(frames) - 1
  <2>1. Len(frames) \in Nat /\ Len(frames) # 0
    BY <1>2, EmptySeq
  <2>2. k \in 0..Len(frames) /\ left = SubSeq(frames, 1, k)
    BY <1>2, <2>1 DEF Front
  <2>3. \A i \in DOMAIN frames : i > k => frames[i].t = "sync"
    BY <1>2, <2>1 DEF Last
  <2>. HIDE DEF k
  <2>4. left \in Seq(S)
    BY <2>2, SubSeqProperties
  <2>. QED  BY <2>2, <2>3, <2>4
<1>. QED  BY <1>1, <1>2 DEF Unsent

\* A program killed inside a save leaves part of its file, and an empty memory.
LEMMA TornSound ==
    ASSUME GroupInv, NEW m \in Member, KilledSaving(m)
    PROVE  Only(m) /\ Sound(m) /\ World
<1>1. /\ app' = [app EXCEPT ![m] = AppInit] /\ UNCHANGED <<earned, scored>>
      /\ app[m].loaded /\ RoomLoses(m) /\ EngineGoes(m)
  BY DEF KilledSaving, Dies
<1>2. PICK a \in TornSaves(app[m].arcade) : save' = [save EXCEPT ![m] = a]
  BY DEF KilledSaving, Save
<1>3. PICK left \in Unsent(net[Peer(m)]) :
          net' = [net EXCEPT ![m] = <<>>,
                             ![Peer(m)] = IF Heard(m) THEN Append(left, [t |-> "closed"])
                                          ELSE @]
  BY DEF KilledSaving
<1>4. /\ app[m].arcade \in Campaigns(earned) /\ app[m].arcade.exists
      /\ save \in [Member -> Campaign] /\ earned \in [Member -> Nat]
  BY <1>1, Machine DEF FileInv
<1>5. /\ a \in Campaigns(earned) /\ a.exists
      /\ \A n \in Member : a.board[n] \in {NotMember, app[m].arcade.board[n]}
  BY <1>4, TornIs
<1>6. net' \in [Member -> Seq(Messages(earned))]
  <2>1. /\ net \in [Member -> Seq(Messages(earned))] /\ Peer(m) \in Member
        /\ Peer(m) # m /\ [t |-> "closed"] \in Messages(earned)
    BY Machine, PeerIs, SignalIs DEF Signal
  <2>. DEFINE q == IF Heard(m) THEN Append(left, [t |-> "closed"]) ELSE net[Peer(m)]
  <2>2. left \in Seq(Messages(earned))
    BY <2>1, UnsentIs
  <2>3. q \in Seq(Messages(earned))
    BY <2>1, <2>2
  <2>4. net' = [net EXCEPT ![m] = <<>>, ![Peer(m)] = q]
    BY <1>3, <2>1
  <2>. HIDE DEF q
  <2>5. <<>> \in Seq(Messages(earned))
    OBVIOUS
  <2>. QED  BY <2>1, <2>3, <2>4, <2>5
<1>7. World
  BY <1>1, <1>6, Machine, RoomIs DEF World
<1>8. AppInit \in Program /\ ~AppInit.loaded /\ AppInit.arcade \in Campaigns(earned)
  BY StartedIs
<1>9. /\ app' \in [Member -> Program] /\ app'[m] = AppInit
      /\ \A n \in Member : n # m => app'[n] = app[n]
  BY <1>1, <1>8, Machine
<1>10. /\ save' \in [Member -> Campaign] /\ save'[m] = a
       /\ \A n \in Member : n # m => save'[n] = save[n]
  BY <1>2, <1>4, <1>5 DEF Campaigns
<1>11. Tears(m)
  BY <1>1, <1>5, <1>9, <1>10 DEF Tears
<1>. QED  BY <1>1, <1>5, <1>7, <1>8, <1>9, <1>10, <1>11 DEF Only, Sound, FileInv

-----------------------------------------------------------------------------
(* The invariant, and what follows from it.                                *)

\* It holds when nothing has been started yet.
LEMMA GroupInit ==
    ASSUME Init
    PROVE  GroupInv
<1>1. /\ earned = [m \in Member |-> 0] /\ save = [m \in Member |-> NoSave]
      /\ app = [m \in Member |-> AppInit] /\ net = [m \in Member |-> <<>>]
      /\ eng = [m \in Member |-> NoEngine] /\ room = NoRoom
      /\ scored = [m \in Member |-> <<>>]
  BY DEF Init
<1>2. earned \in [Member -> Nat]
  BY <1>1
<1>3. /\ NoSave \in Campaigns(earned) /\ ~NoSave.exists /\ NoSave.spins = 0
      /\ \A n \in Member : NoSave.board[n] = NotMember
  BY <1>2, NewIs
<1>4. AppInit \in Programs(earned) /\ ~AppInit.loaded
  BY <1>3 DEF AppInit, Program, Programs, Campaigns
<1>5. NoEngine \in Engine /\ NoRoom \in [host : Member \cup {"none"}, full : BOOLEAN]
  BY DEF NoEngine, NoRoom, Engine, Winner
<1>6. TypeOK
  BY <1>1, <1>2, <1>3, <1>4, <1>5 DEF TypeOK
<1>7. \A m \in Member : FileInv(app[m], save[m])
  BY <1>1, <1>3, <1>4 DEF FileInv
<1>. QED  BY <1>6, <1>7 DEF GroupInv

\* Every action leaves the machine that acts sound.
LEMMA StepSound ==
    ASSUME GroupInv, Next
    PROVE  \E m \in Member : Only(m) /\ Sound(m) /\ World
<1>1. ASSUME NEW m \in Member, Arcade(m) PROVE Only(m) /\ Sound(m) /\ World
  BY <1>1, OpenSound, CloseSound, DeleteSound, HandSound, WheelSound,
     InviteSound, JoinSound DEF Arcade
<1>2. ASSUME NEW m \in Member, Duelling(m) PROVE Only(m) /\ Sound(m) /\ World
  BY <1>2, StartSound, SurrenderSound, PumpSound, LeaveSound, LostSound DEF Duelling
<1>3. ASSUME NEW m \in Member, Frames(m) PROVE Only(m) /\ Sound(m) /\ World
  BY <1>3, JoinedSound, HostSyncSound, GuestSyncSound, StartsSound, OverSound,
     SurrenderedSound, QuitSound DEF Frames
<1>4. ASSUME NEW m \in Member, NEW w \in Member \cup {"draw"}, EngineEnds(m, w)
      PROVE  Only(m) /\ Sound(m) /\ World
  BY <1>4, EndsSound
<1>. QED  BY <1>1, <1>2, <1>3, <1>4, BreaksSound, KilledSound, TornSound
         DEF Next

\* So a step keeps the invariant, and takes nothing out of a file.
LEMMA GroupNext ==
    ASSUME GroupInv, [Next]_vars
    PROVE  GroupInv' /\ (Grown \/ UNCHANGED save)
<1>1. CASE Next
  BY <1>1, StepSound, Kept
<1>2. CASE UNCHANGED vars
  BY <1>2 DEF GroupInv, TypeOK, FileInv, vars
<1>. QED  BY <1>1, <1>2

\* The invariant of the group campaign: what is in memory and on disk is of its
\* kind and counts only recorded wins, a file that is not there is empty, and a
\* loaded campaign holds all its file holds (ArcadeSave.h, UI::handleNetMessage).
THEOREM GroupInvariant == Spec => []GroupInv
<1>1. Init => GroupInv
  BY GroupInit
<1>2. GroupInv /\ [Next]_vars => GroupInv'
  BY GroupNext
<1>. QED  BY <1>1, <1>2, PTL DEF Spec

\* No copy of a score, in memory, in a file or in a frame, counts a win that
\* was not recorded: whatever is merged, sent twice, lost or loaded from an old
\* file (mergeBoard).
THEOREM PointsSafe == Spec => []PointsWereEarned
<1>1. GroupInv => PointsWereEarned
  <2>. SUFFICES ASSUME GroupInv, NEW m \in Member, NEW n \in Member
                PROVE  /\ save[m].board[n] <= earned[n]
                       /\ app[m].arcade.board[n] <= earned[n]
                       /\ \A i \in DOMAIN net[m] :
                            net[m][i].t = "sync" => net[m][i].board[n] <= earned[n]
    BY DEF PointsWereEarned
  <2>1. save[m].board[n] <= earned[n] /\ app[m].arcade.board[n] <= earned[n]
    BY Machine DEF Campaigns, Within
  <2>2. ASSUME NEW i \in DOMAIN net[m], net[m][i].t = "sync"
        PROVE  net[m][i].board[n] <= earned[n]
    <3>1. net[m] \in Seq(Messages(earned))
      BY Machine
    <3>2. net[m][i] \in Messages(earned)
      BY <3>1, <2>2
    <3>. QED  BY <3>2, <2>2 DEF Messages, Within
  <2>. QED  BY <2>1, <2>2
<1>. QED  BY <1>1, GroupInvariant, PTL

\* Whatever is saved over a file takes no point and no member out of it, and no spin
\* but the one that the wheel pays for, unless the program is killed inside the save:
\* what the torn file then shows of a member is what was being saved, or nothing
\* (ArcadeSave::save and every place in UI.cpp that calls it).
THEOREM FilesSafe == Spec => FilesOnlyGrow
<1>. DEFINE P(m) ==
        save'[m].exists =>
        \/ /\ \A n \in Member : save'[m].board[n] >= save[m].board[n]
           /\ save'[m].spins >= save[m].spins
                                - IF AtArcade(m) /\ app[m].loaded THEN 1 ELSE 0
        \/ /\ app[m].loaded /\ app'[m] = AppInit
           /\ \A n \in Member : save'[m].board[n] \in {NotMember, app[m].arcade.board[n]}
<1>1. GroupInv /\ [Next]_vars => [\A m \in Member : P(m)]_save
  <2>. SUFFICES ASSUME GroupInv, [Next]_vars, save' # save, NEW m \in Member
                PROVE  P(m)
    OBVIOUS
  <2>1. Keeps(m)
    BY GroupNext DEF Grown
  <2>2. save[m].spins \in Nat /\ save'[m].spins \in Nat
    <3>1. GroupInv'
      BY GroupNext
    <3>. QED  BY <3>1, Machine DEF GroupInv, TypeOK, Campaigns, Campaign
  <2>3. Grows(save[m], save'[m]) => P(m)
    BY <2>2 DEF Grows
  <2>4. Spends(m) => P(m)
    BY DEF Spends
  <2>5. Tears(m) => P(m)
    BY DEF Tears
  <2>6. ~save'[m].exists => P(m)
    OBVIOUS
  <2>. HIDE DEF P
  <2>. QED  BY <2>1, <2>3, <2>4, <2>5, <2>6 DEF Keeps
<1>. QED  BY <1>1, GroupInvariant, PTL DEF Spec, FilesOnlyGrow

-----------------------------------------------------------------------------
(* The second part: what is on its way.                                    *)

Has(s, T) == \E i \in DOMAIN s : s[i].t \in T
Client(m) == app[m].role = "client"
Board(m) == app[m].arcade.board

-----------------------------------------------------------------------------
(* The inductive invariants.                                               *)

\* Who is offline has no frames, no duel and no engine.  A host has its campaign, and is
\* never told of a start.  Who holds a seat is there, and connected.
Roles ==
    \A m \in Member :
      /\ app[m].role = "offline" => /\ net[m] = <<>> /\ ~app[m].inDuel
                                    /\ eng[m].st = "none"
      /\ app[m].role = "host" => /\ app[m].loaded /\ app[m].group
                                 /\ ~Has(net[m], {"start"})
Rooms ==
    /\ room.host # "none" => app[room.host].role = "host" /\ Linked(room.host)
    /\ room.full => /\ room.host # "none"
                    /\ Client(Peer(room.host)) /\ Linked(Peer(room.host))

\* After the end or a farewell, no start and no end.
InOrder(s) ==
    \A i, j \in DOMAIN s :
        i < j /\ s[i].t \in {"over", "bye", "closed"} => s[j].t \notin {"start", "over"}

\* Guest g's duel has ended: the end is on its way or has been scored.
Ended(g) == Has(net[g], {"over"}) \/ scored[g] # <<>>
\* What is no open duel to leave.
NotOpen(s) == ~s.inDuel \/ s.auto \/ s.remoteDone

\* An end that is on its way has not been scored.  Once the guest's duel has
\* ended, neither machine can bring about another end in this stay.
Once(g) ==
    Client(g) =>
      /\ room.full => ~Has(net[g], {"bye", "closed"})
      /\ InOrder(net[g])
      /\ Has(net[g], {"over"}) => scored[g] = <<>>
      /\ Ended(g) /\ room.full => ~app[Peer(g)].inDuel /\ eng[Peer(g)].st # "none"
      /\ scored[g] # <<>> => ~Has(net[g], {"start"}) /\ NotOpen(app[g])
OnceInv == \A m \in Member : Len(scored[m]) <= 1 /\ Once(m)

\* Some board in s has at least k points of n; the syncs that nobody joined after
\* count no more than board b.
Covers(s, k, n) == \E i \in DOMAIN s : s[i].t = "sync" /\ k <= s[i].board[n]
Recent(s, i) == s[i].t = "sync" /\ \A k \in DOMAIN s : k > i => s[k].t # "joined"
Bounded(s, b) ==
    \A i \in DOMAIN s : Recent(s, i) => \A n \in Member : s[i].board[n] <= b[n]

\* What one machine of a full room has and the other has not is on its way, or
\* will be sent in answer to what is.
Told(h) ==
    LET g == Peer(h)
    IN  /\ Bounded(net[h], Board(g))
        /\ (\E i \in DOMAIN net[h] : Recent(net[h], i)) => app[g].loaded
        /\ ~Has(net[h], {"joined"}) => \A n \in Member :
             /\ \/ app[g].loaded /\ Board(h)[n] <= Board(g)[n]
                \/ Covers(net[g], Board(h)[n], n)
             /\ app[g].loaded => \/ Board(g)[n] <= Board(h)[n]
                                 \/ Covers(net[h], Board(g)[n], n)
                                 \/ Has(net[g], {"sync"})
ToldInv == room.full => Told(room.host)

StayInv == GroupInv /\ Roles /\ Rooms /\ OnceInv /\ ToldInv

-----------------------------------------------------------------------------
(* Channels.                                                               *)

\* Taking the head off, cutting a tail off, and sending behind: what is in them,
LEMMA HasTail ==
    ASSUME NEW F, NEW s \in Seq(F), s # <<>>, NEW T
    PROVE  Has(s, T) <=> Head(s).t \in T \/ Has(Tail(s), T)
<1>1. /\ Head(s) = s[1] /\ 1 \in DOMAIN s
      /\ \A i \in DOMAIN Tail(s) : i + 1 \in DOMAIN s /\ Tail(s)[i] = s[i + 1]
      /\ \A i \in DOMAIN s : i # 1 => i - 1 \in DOMAIN Tail(s) /\ Tail(s)[i - 1] = s[i]
  OBVIOUS
<1>. QED  BY <1>1 DEF Has

\* Sending behind.
LEMMA HasConcat ==
    ASSUME NEW F, NEW s \in Seq(F), NEW u \in Seq(F), NEW T
    PROVE  Has(s \o u, T) <=> Has(s, T) \/ Has(u, T)
<1>1. /\ \A i \in DOMAIN s : i \in DOMAIN (s \o u) /\ (s \o u)[i] = s[i]
      /\ \A i \in DOMAIN u : i + Len(s) \in DOMAIN (s \o u) /\ (s \o u)[i + Len(s)] = u[i]
      /\ \A i \in DOMAIN (s \o u) : \/ i \in DOMAIN s /\ (s \o u)[i] = s[i]
                                    \/ i - Len(s) \in DOMAIN u /\ (s \o u)[i] = u[i - Len(s)]
  OBVIOUS
<1>. QED  BY <1>1 DEF Has

\* Cutting off.
LEMMA HasPrefix ==
    ASSUME NEW F, NEW s \in Seq(F), NEW k \in 0..Len(s), NEW T, Has(SubSeq(s, 1, k), T)
    PROVE  Has(s, T)
<1>1. \A i \in DOMAIN SubSeq(s, 1, k) : i \in DOMAIN s /\ SubSeq(s, 1, k)[i] = s[i]
  BY SubSeqProperties
<1>. QED  BY <1>1 DEF Has

\* in which order,
LEMMA OrderTail ==
    ASSUME NEW F, NEW s \in Seq(F), s # <<>>, InOrder(s)
    PROVE  /\ InOrder(Tail(s))
           /\ Head(s).t \in {"over", "bye", "closed"} => ~Has(Tail(s), {"start", "over"})
<1>1. /\ Head(s) = s[1] /\ 1 \in DOMAIN s
      /\ \A i \in DOMAIN Tail(s) : /\ i \in Nat /\ i > 0 /\ i + 1 \in DOMAIN s
                                   /\ Tail(s)[i] = s[i + 1]
  OBVIOUS
<1>2. \A i, j \in DOMAIN Tail(s) : i < j => i + 1 < j + 1
  BY <1>1
<1>3. \A i \in DOMAIN Tail(s) : 1 < i + 1
  BY <1>1
<1>. QED  BY <1>1, <1>2, <1>3 DEF InOrder, Has

\* Cutting off keeps the order.
LEMMA OrderPrefix ==
    ASSUME NEW F, NEW s \in Seq(F), NEW k \in 0..Len(s), InOrder(s)
    PROVE  InOrder(SubSeq(s, 1, k))
<1>1. \A i \in DOMAIN SubSeq(s, 1, k) : i \in DOMAIN s /\ SubSeq(s, 1, k)[i] = s[i]
  BY SubSeqProperties
<1>. QED  BY <1>1 DEF InOrder

\* So does sending behind, unless a start or an end comes after an end.
LEMMA OrderConcat ==
    ASSUME NEW F, NEW s \in Seq(F), NEW u \in Seq(F), InOrder(s), InOrder(u),
           ~Has(s, {"over", "bye", "closed"}) \/ ~Has(u, {"start", "over"})
    PROVE  InOrder(s \o u)
<1>. SUFFICES ASSUME NEW i \in DOMAIN (s \o u), NEW j \in DOMAIN (s \o u), i < j,
                     (s \o u)[i].t \in {"over", "bye", "closed"}
              PROVE  (s \o u)[j].t \notin {"start", "over"}
  BY DEF InOrder
<1>1. CASE j \in DOMAIN s
  <2>1. i \in DOMAIN s /\ (s \o u)[i] = s[i] /\ (s \o u)[j] = s[j]
    BY <1>1
  <2>. QED  BY <1>1, <2>1 DEF InOrder
<1>2. CASE j \notin DOMAIN s /\ i \in DOMAIN s
  <2>1. /\ (s \o u)[i] = s[i]
        /\ j - Len(s) \in DOMAIN u /\ (s \o u)[j] = u[j - Len(s)]
    BY <1>2
  <2>. QED  BY <1>2, <2>1 DEF Has
<1>3. CASE i \notin DOMAIN s
  <2>1. /\ i - Len(s) \in DOMAIN u /\ (s \o u)[i] = u[i - Len(s)]
        /\ j - Len(s) \in DOMAIN u /\ (s \o u)[j] = u[j - Len(s)]
        /\ i - Len(s) < j - Len(s)
    BY <1>3
  <2>. QED  BY <2>1 DEF InOrder
<1>. QED  BY <1>1, <1>2, <1>3

\* and what boards.
LEMMA CoversTail ==
    ASSUME NEW F, NEW s \in Seq(F), s # <<>>, NEW k, NEW n, Covers(s, k, n)
    PROVE  \/ Head(s).t = "sync" /\ k <= Head(s).board[n]
           \/ Covers(Tail(s), k, n)
<1>1. /\ Head(s) = s[1]
      /\ \A i \in DOMAIN s : i # 1 => i - 1 \in DOMAIN Tail(s) /\ Tail(s)[i - 1] = s[i]
  OBVIOUS
<1>. QED  BY <1>1 DEF Covers

\* A board in one part or in the other.
LEMMA CoversConcat ==
    ASSUME NEW F, NEW s \in Seq(F), NEW u \in Seq(F), NEW k, NEW n
    PROVE  Covers(s \o u, k, n) <=> Covers(s, k, n) \/ Covers(u, k, n)
<1>1. /\ \A i \in DOMAIN s : i \in DOMAIN (s \o u) /\ (s \o u)[i] = s[i]
      /\ \A i \in DOMAIN u : i + Len(s) \in DOMAIN (s \o u) /\ (s \o u)[i + Len(s)] = u[i]
      /\ \A i \in DOMAIN (s \o u) : \/ i \in DOMAIN s /\ (s \o u)[i] = s[i]
                                    \/ i - Len(s) \in DOMAIN u /\ (s \o u)[i] = u[i - Len(s)]
  OBVIOUS
<1>2. ASSUME Covers(s \o u, k, n) PROVE Covers(s, k, n) \/ Covers(u, k, n)
  <2>1. PICK i \in DOMAIN (s \o u) : (s \o u)[i].t = "sync" /\ k <= (s \o u)[i].board[n]
    BY <1>2 DEF Covers
  <2>2. CASE i \in DOMAIN s /\ (s \o u)[i] = s[i]
    BY <2>1, <2>2 DEF Covers
  <2>3. CASE i - Len(s) \in DOMAIN u /\ (s \o u)[i] = u[i - Len(s)]
    BY <2>1, <2>3 DEF Covers
  <2>. QED  BY <1>1, <2>1, <2>2, <2>3
<1>3. ASSUME Covers(s, k, n) PROVE Covers(s \o u, k, n)
  <2>1. PICK i \in DOMAIN s : s[i].t = "sync" /\ k <= s[i].board[n]
    BY <1>3 DEF Covers
  <2>2. i \in DOMAIN (s \o u) /\ (s \o u)[i] = s[i]
    BY <1>1
  <2>. QED  BY <2>1, <2>2 DEF Covers
<1>4. ASSUME Covers(u, k, n) PROVE Covers(s \o u, k, n)
  <2>1. PICK i \in DOMAIN u : u[i].t = "sync" /\ k <= u[i].board[n]
    BY <1>4 DEF Covers
  <2>2. i + Len(s) \in DOMAIN (s \o u) /\ (s \o u)[i + Len(s)] = u[i]
    BY <1>1
  <2>. QED  BY <2>1, <2>2 DEF Covers
<1>. QED  BY <1>2, <1>3, <1>4

\* The last syncs, when the head is taken,
LEMMA RecentTail ==
    ASSUME NEW F, NEW s \in Seq(F), s # <<>>
    PROVE  /\ \A i \in DOMAIN Tail(s) : Recent(Tail(s), i)
                 => i + 1 \in DOMAIN s /\ Recent(s, i + 1) /\ Tail(s)[i] = s[i + 1]
           /\ Head(s).t = "sync" /\ ~Has(Tail(s), {"joined"})
                 => 1 \in DOMAIN s /\ Recent(s, 1) /\ Head(s) = s[1]
<1>1. /\ Head(s) = s[1] /\ 1 \in DOMAIN s
      /\ \A i \in DOMAIN Tail(s) : i \in Nat /\ i + 1 \in DOMAIN s /\ Tail(s)[i] = s[i + 1]
      /\ \A i \in DOMAIN s : /\ i \in Nat
                             /\ i # 1 => i - 1 \in DOMAIN Tail(s) /\ Tail(s)[i - 1] = s[i]
  OBVIOUS
<1>2. ASSUME NEW i \in DOMAIN Tail(s), Recent(Tail(s), i)
      PROVE  Recent(s, i + 1)
  <2>1. ASSUME NEW k \in DOMAIN s, k > i + 1 PROVE s[k].t # "joined"
    <3>1. k - 1 \in DOMAIN Tail(s) /\ Tail(s)[k - 1] = s[k] /\ k - 1 > i
      BY <1>1, <2>1
    <3>. QED  BY <3>1, <1>2 DEF Recent
  <2>. QED  BY <1>1, <1>2, <2>1 DEF Recent
<1>3. Head(s).t = "sync" /\ ~Has(Tail(s), {"joined"}) => Recent(s, 1)
  BY <1>1 DEF Recent, Has
<1>. QED  BY <1>1, <1>2, <1>3

\* and when something is sent behind.
LEMMA RecentConcat ==
    ASSUME NEW F, NEW s \in Seq(F), NEW u \in Seq(F),
           NEW i \in DOMAIN (s \o u), Recent(s \o u, i)
    PROVE  \/ i \in DOMAIN s /\ Recent(s, i) /\ (s \o u)[i] = s[i] /\ ~Has(u, {"joined"})
           \/ \E j \in DOMAIN u : u[j].t = "sync" /\ (s \o u)[i] = u[j]
<1>1. /\ \A k \in DOMAIN s : k \in DOMAIN (s \o u) /\ (s \o u)[k] = s[k]
      /\ \A k \in DOMAIN u : k + Len(s) \in DOMAIN (s \o u) /\ (s \o u)[k + Len(s)] = u[k]
  OBVIOUS
<1>2. CASE i \in DOMAIN s
  <2>1. \A k \in DOMAIN u : k + Len(s) > i
    BY <1>2
  <2>. QED  BY <1>1, <1>2, <2>1 DEF Recent, Has
<1>3. CASE i \notin DOMAIN s
  <2>1. i - Len(s) \in DOMAIN u /\ (s \o u)[i] = u[i - Len(s)]
    BY <1>3
  <2>. QED  BY <2>1 DEF Recent
<1>. QED  BY <1>2, <1>3

-----------------------------------------------------------------------------
(* Steps within the session.                                               *)

\* Machine m, which is not offline, takes a frame off its channel.
Took(m) == net[m] # <<>> /\ net'[m] = Tail(net[m])

\* Machine m does something that leaves the session as it is, and sends out.
Plays(m, out) ==
    /\ Only(m) /\ out \in Seq(Frame)
    /\ app[m].role # "offline"
    /\ app'[m].role = app[m].role /\ app'[m].link = app[m].link
    /\ app[m].loaded => app'[m].loaded
    /\ app[m].group => app'[m].group
    /\ room' = room /\ eng'[Peer(m)] = eng[Peer(m)]
    /\ net'[m] = net[m] \/ Took(m)
    /\ net'[Peer(m)] = net[Peer(m)] \o out
    /\ out # <<>> => Heard(m)
    /\ ~Has(out, {"joined", "bye", "closed"})
    /\ Has(out, {"start"}) => app[m].role = "host"

\* What the invariant says of channels and boards.
LEMMA Channel ==
    ASSUME GroupInv, NEW m \in Member
    PROVE  /\ net[m] \in Seq(Frame)
           /\ Board(m) \in [Member -> Points]
           /\ \A i \in DOMAIN net[m] :
                 /\ net[m][i] \in Frame
                 /\ net[m][i].t = "sync" => net[m][i].board \in [Member -> Points]
<1>1. net[m] \in Seq(Messages(earned)) /\ Messages(earned) \subseteq Frame
  BY Machine DEF Messages
<1>2. net[m] \in Seq(Frame)
  BY <1>1
<1>3. \A f \in Frame : f.t = "sync" => f.board \in [Member -> Points]
  BY DEF Frame, Signal
<1>4. Board(m) \in [Member -> Points]
  BY Machine DEF Board, Program, Campaign
<1>. QED  BY <1>2, <1>3, <1>4

\* In a full room one is the host and the other the guest, both connected.
LEMMA FullIs ==
    ASSUME GroupInv, Rooms, room.full
    PROVE  /\ room.host \in Member /\ Peer(room.host) \in Member
           /\ Peer(Peer(room.host)) = room.host /\ Peer(room.host) # room.host
           /\ \A m \in Member : m = room.host \/ m = Peer(room.host)
           /\ app[room.host].role = "host" /\ Client(Peer(room.host))
           /\ \A m \in Member : Heard(m) /\ app[m].role # "offline"
<1>1. room.host \in Member
  BY Machine, MemberAssumption DEF Rooms
<1>2. /\ Peer(room.host) \in Member /\ Peer(room.host) # room.host
      /\ Peer(Peer(room.host)) \in Member /\ Peer(Peer(room.host)) # Peer(room.host)
      /\ \A m \in Member : m = room.host \/ m = Peer(room.host)
  BY <1>1, PeerIs
<1>. QED  BY <1>1, <1>2 DEF Rooms, Heard, Client

\* The peer of the peer.
LEMMA PeerTwice ==
    ASSUME NEW m \in Member
    PROVE  Peer(m) \in Member /\ Peer(m) # m /\ Peer(Peer(m)) = m
BY PeerIs

\* Roles and rooms stay.
LEMMA RolesPlays ==
    ASSUME GroupInv, Roles, Rooms, NEW m \in Member, NEW out, Plays(m, out)
    PROVE  Roles' /\ Rooms'
<1>. DEFINE p == Peer(m)
<1>1. p \in Member /\ p # m /\ \A n \in Member : n = m \/ n = p
  BY PeerIs
<1>2. app'[p] = app[p]
  BY <1>1 DEF Plays, Only
<1>3. net[m] \in Seq(Frame) /\ net[p] \in Seq(Frame) /\ out \in Seq(Frame)
  BY <1>1, Channel DEF Plays
<1>4. ~Has(net[m], {"start"}) => ~Has(net'[m], {"start"})
  BY <1>3, HasTail DEF Plays, Took
<1>5. /\ app'[m].role # "offline"
      /\ app'[m].role = "host" => app'[m].loaded /\ app'[m].group /\ ~Has(net'[m], {"start"})
  BY <1>4 DEF Plays, Roles
<1>6. app[p].role = "offline" => net'[p] = <<>> /\ ~app'[p].inDuel /\ eng'[p].st = "none"
  <2>1. app[p].role = "offline" => out = <<>>
    BY <1>1, FullIs DEF Plays, Heard
  <2>2. <<>> \o <<>> = <<>>
    OBVIOUS
  <2>. QED  BY <1>1, <1>2, <2>1, <2>2 DEF Roles, Plays
<1>7. app[p].role = "host" => /\ app'[p].loaded /\ app'[p].group
                              /\ ~Has(net'[p], {"start"})
  <2>1. app[p].role = "host" => ~Has(out, {"start"})
    <3>. SUFFICES ASSUME app[p].role = "host", Has(out, {"start"}) PROVE FALSE
      OBVIOUS
    <3>1. out # <<>> /\ app[m].role = "host"
      BY DEF Has, Plays
    <3>2. room.full
      BY <3>1 DEF Plays, Heard
    <3>. QED  BY <1>1, <3>1, <3>2, FullIs DEF Client
  <2>2. net'[p] = net[p] \o out
    BY DEF Plays
  <2>. QED  BY <1>1, <1>2, <1>3, <2>1, <2>2, HasConcat DEF Roles
<1>8. Roles'
  BY <1>1, <1>2, <1>5, <1>6, <1>7 DEF Roles
<1>9. \A n \in Member : app'[n].role = app[n].role /\ app'[n].link = app[n].link
  BY <1>1, <1>2 DEF Plays
<1>10. room.host \in Member \cup {"none"} /\ (room.full => Peer(room.host) \in Member)
  BY Machine, FullIs
<1>11. Rooms'
  BY <1>9, <1>10 DEF Rooms, Plays, Linked, Client
<1>. QED  BY <1>8, <1>11

\* The acting guest's duel: what it had scored stays scored and closed, or it
\* scores a duel that has ended.
LEMMA OnceOwn ==
    ASSUME GroupInv, Rooms, OnceInv, NEW m \in Member, NEW out, Plays(m, out),
           \/ /\ scored'[m] = scored[m]
              /\ Client(m) /\ scored[m] # <<>> => NotOpen(app'[m])
           \/ /\ scored[m] = <<>> /\ Len(scored'[m]) = 1
              /\ NotOpen(app'[m]) /\ ~Has(net'[m], {"start", "over"})
              /\ Client(m) /\ room.full
                   => ~app[Peer(m)].inDuel /\ eng[Peer(m)].st # "none"
    PROVE  Len(scored'[m]) <= 1 /\ Once(m)'
<1>. DEFINE p == Peer(m)
<1>1. p \in Member /\ p # m
  BY PeerIs
<1>2. app'[p] = app[p] /\ eng'[p] = eng[p] /\ room' = room /\ net[m] \in Seq(Frame)
  BY <1>1, Channel DEF Plays, Only
<1>3. Len(scored[m]) <= 1 /\ Once(m)
  BY DEF OnceInv
<1>4. Len(scored'[m]) <= 1
  <2>1. CASE scored'[m] = scored[m]
    BY <1>3, <2>1
  <2>2. CASE Len(scored'[m]) = 1
    BY <2>2
  <2>. QED  BY <2>1, <2>2
<1>5. \A T : Has(net'[m], T) => Has(net[m], T)
  BY <1>2, HasTail DEF Plays, Took
<1>6. InOrder(net[m]) => InOrder(net'[m])
  BY <1>2, OrderTail DEF Plays, Took
<1>7. ASSUME Client(m)' PROVE Once(m)'
  <2>1. Client(m)
    BY <1>7 DEF Plays, Client
  <2>2. /\ room'.full => ~Has(net'[m], {"bye", "closed"})
        /\ InOrder(net'[m])
    BY <1>2, <1>3, <1>5, <1>6, <2>1 DEF Once
  <2>3. CASE scored'[m] = scored[m] /\ (scored[m] # <<>> => NotOpen(app'[m]))
    <3>1. /\ Has(net'[m], {"over"}) => scored'[m] = <<>>
          /\ scored'[m] # <<>> => ~Has(net'[m], {"start"}) /\ NotOpen(app'[m])
      BY <1>3, <1>5, <2>1, <2>3 DEF Once
    <3>2. Ended(m)' => Ended(m)
      BY <1>5, <2>3 DEF Ended
    <3>3. Ended(m)' /\ room'.full => ~app'[p].inDuel /\ eng'[p].st # "none"
      BY <1>2, <1>3, <2>1, <3>2 DEF Once
    <3>. QED  BY <2>2, <3>1, <3>3 DEF Once
  <2>4. CASE /\ NotOpen(app'[m]) /\ ~Has(net'[m], {"start", "over"})
             /\ room.full => ~app[p].inDuel /\ eng[p].st # "none"
    <3>1. ~Has(net'[m], {"start"}) /\ ~Has(net'[m], {"over"})
      BY <2>4 DEF Has
    <3>. QED  BY <1>2, <2>2, <2>4, <3>1 DEF Once
  <2>. QED  BY <2>1, <2>3, <2>4
<1>. QED  BY <1>4, <1>7 DEF Once

\* The other one's, when nothing about a duel is sent and the host goes on with
\* what it does.
LEMMA OncePeer ==
    ASSUME GroupInv, Rooms, OnceInv, NEW m \in Member, NEW out, Plays(m, out),
           scored'[Peer(m)] = scored[Peer(m)], ~Has(out, {"start", "over"}),
           room.full /\ app[m].role = "host" => /\ app'[m].inDuel => app[m].inDuel
                                                /\ eng[m].st # "none" => eng'[m].st # "none"
    PROVE  Len(scored'[Peer(m)]) <= 1 /\ Once(Peer(m))'
<1>. DEFINE p == Peer(m)
<1>1. p \in Member /\ p # m /\ Peer(p) = m
  BY PeerTwice
<1>2. /\ app'[p] = app[p] /\ room' = room /\ net[p] \in Seq(Frame) /\ out \in Seq(Frame)
      /\ net'[p] = net[p] \o out
  BY <1>1, Channel DEF Plays, Only
<1>3. Len(scored[p]) <= 1 /\ Once(p)
  BY <1>1 DEF OnceInv
<1>4. ~Has(out, {"start"}) /\ ~Has(out, {"over"}) /\ ~Has(out, {"bye", "closed"})
      /\ ~Has(out, {"over", "bye", "closed"})
  BY DEF Has, Plays
<1>5. /\ Has(net'[p], {"start"}) <=> Has(net[p], {"start"})
      /\ Has(net'[p], {"over"}) <=> Has(net[p], {"over"})
      /\ Has(net'[p], {"bye", "closed"}) <=> Has(net[p], {"bye", "closed"})
  BY <1>2, <1>4, HasConcat
<1>6. InOrder(net[p]) => InOrder(net'[p])
  <2>1. InOrder(out)
    BY <1>4 DEF InOrder, Has
  <2>. QED  BY <1>2, <2>1, OrderConcat
<1>7. ASSUME Client(p)' PROVE Once(p)'
  <2>1. Client(p)
    BY <1>2, <1>7 DEF Client
  <2>2. Ended(p)' => Ended(p)
    BY <1>5 DEF Ended
  <2>3. room.full => app[m].role = "host"
    BY <1>1, <2>1, FullIs DEF Client
  <2>4. Ended(p)' /\ room'.full => ~app'[m].inDuel /\ eng'[m].st # "none"
    BY <1>1, <1>2, <1>3, <2>1, <2>2, <2>3 DEF Once
  <2>. QED  BY <1>1, <1>2, <1>3, <1>5, <1>6, <2>1, <2>4 DEF Once
<1>. QED  BY <1>3, <1>7 DEF Once

\* Boards are sent as they are; what is read is merged; a board that changes is
\* sent, unless it only takes over what the other one sent.
Shares(m, out) ==
    /\ app[m].loaded => \A n \in Member : Board(m)[n] <= Board(m)'[n]
    /\ \A i \in DOMAIN out : out[i].t = "sync" => app'[m].loaded /\ out[i].board = Board(m)'
    /\ Took(m) /\ Head(net[m]).t = "sync"
         => /\ app'[m].loaded /\ \A n \in Member : Head(net[m]).board[n] <= Board(m)'[n]
            /\ Client(m) /\ Heard(m) => Has(out, {"sync"})
    /\ Took(m) /\ Head(net[m]).t = "joined" /\ ~Client(m) /\ Heard(m) => Has(out, {"sync"})
    /\ Heard(m) => \/ Has(out, {"sync"})
                   \/ Board(m)' = Board(m) /\ app'[m].loaded = app[m].loaded
                   \/ /\ ~Client(m) /\ Took(m) /\ Head(net[m]).t = "sync"
                      /\ \A n \in Member : Board(m)'[n] \in {Board(m)[n], Head(net[m]).board[n]}

\* What covers a score covers a smaller one, and so does a board just sent.
LEMMA CoversLess ==
    ASSUME NEW s \in Seq(Frame), NEW k \in Int, NEW j \in Int, j <= k, NEW n \in Member,
           Covers(s, k, n)
    PROVE  Covers(s, j, n)
<1>1. PICK i \in DOMAIN s : s[i].t = "sync" /\ k <= s[i].board[n]
  BY DEF Covers
<1>2. s[i] \in Frame
  OBVIOUS
<1>3. s[i].board \in [Member -> Points]
  BY <1>1, <1>2 DEF Frame, Signal
<1>4. s[i].board[n] \in Int
  BY <1>3 DEF Points, NotMember
<1>. QED  BY <1>1, <1>4 DEF Covers

\* A board that was sent covers itself.
LEMMA CoversSent ==
    ASSUME NEW m, NEW out, Has(out, {"sync"}), NEW n \in Member, Board(m)'[n] \in Int,
           \A i \in DOMAIN out : out[i].t = "sync" => out[i].board = Board(m)'
    PROVE  Covers(out, Board(m)'[n], n)
<1>1. PICK i \in DOMAIN out : out[i].t = "sync"
  BY DEF Has
<1>. QED  BY <1>1 DEF Covers

\* The host's side of ToldInv: the host acts, the guest's machine stands still.
LEMMA ToldHost ==
    ASSUME GroupInv, Roles, Rooms, ToldInv, NEW m \in Member, NEW out,
           Plays(m, out), Shares(m, out), room.full, room.host = m
    PROVE  Told(m)'
<1>. DEFINE g == Peer(m)
<1>1. /\ g \in Member /\ g # m /\ Peer(g) = m
      /\ Heard(m) /\ ~Client(m) /\ app[m].loaded
  BY PeerTwice, FullIs DEF Client, Roles
<1>2. /\ Board(g)' = Board(g) /\ app'[g].loaded = app[g].loaded
      /\ net[m] \in Seq(Frame) /\ net[g] \in Seq(Frame) /\ out \in Seq(Frame)
      /\ net'[g] = net[g] \o out
  BY <1>1, Channel DEF Plays, Only, Board
<1>3. Told(m)
  BY DEF ToldInv
<1>4. \A n \in Member : Board(m)[n] \in Int /\ Board(m)'[n] \in Int /\ Board(g)[n] \in Int
  <2>1. /\ Board(m) \in [Member -> Points] /\ Board(g) \in [Member -> Points]
    BY <1>1, Channel
  <2>2. Board(m)' \in [Member -> Points]
    <3>1. app'[m] \in Program
      BY DEF Plays, Only
    <3>. QED  BY <3>1 DEF Board, Program, Campaign
  <2>. QED  BY <2>1, <2>2 DEF Points, NotMember
<1>5. CASE net'[m] = net[m]
  <2>1. ASSUME NEW n \in Member, ~Has(net[m], {"joined"})
        PROVE  /\ \/ app[g].loaded /\ Board(m)'[n] <= Board(g)[n]
                  \/ Covers(net'[g], Board(m)'[n], n)
               /\ app[g].loaded => \/ Board(g)[n] <= Board(m)'[n]
                                   \/ Covers(net[m], Board(g)[n], n)
                                   \/ Has(net'[g], {"sync"})
    <3>1. ~Took(m)
      <4>1. net[m] # <<>> => Tail(net[m]) # net[m]
        <5>1. ASSUME NEW s \in Seq(Frame), s # <<>> PROVE Tail(s) # s
          <6>1. Len(Tail(s)) = Len(s) - 1 /\ Len(s) \in Nat
            BY <5>1
          <6>2. Len(Tail(s)) # Len(s)
            BY <6>1
          <6>. QED  BY <6>2
        <5>. QED  BY <1>2, <5>1
      <4>. QED  BY <1>5, <4>1 DEF Took
    <3>2. CASE Has(out, {"sync"})
      <4>1. Covers(out, Board(m)'[n], n)
        BY <1>4, <3>2, CoversSent DEF Shares
      <4>. QED  BY <1>2, <3>2, <4>1, HasConcat, CoversConcat
    <3>3. CASE Board(m)' = Board(m)
      BY <1>1, <1>2, <1>3, <2>1, <3>3, HasConcat, CoversConcat DEF Told
    <3>. QED  BY <1>1, <3>1, <3>2, <3>3 DEF Shares
  <2>. QED  BY <1>2, <1>3, <1>5, <2>1 DEF Told
<1>6. CASE Took(m)
  <2>1. net[m] # <<>> /\ net'[m] = Tail(net[m])
    BY <1>6 DEF Took
  <2>2. Bounded(net'[m], Board(g))
    BY <1>2, <1>3, <2>1, RecentTail DEF Bounded, Told
  <2>3. (\E i \in DOMAIN net'[m] : Recent(net'[m], i)) => app[g].loaded
    BY <1>2, <1>3, <2>1, RecentTail DEF Told
  <2>4. ASSUME NEW n \in Member, ~Has(net'[m], {"joined"})
        PROVE  /\ \/ app[g].loaded /\ Board(m)'[n] <= Board(g)[n]
                  \/ Covers(net'[g], Board(m)'[n], n)
               /\ app[g].loaded => \/ Board(g)[n] <= Board(m)'[n]
                                   \/ Covers(net'[m], Board(g)[n], n)
                                   \/ Has(net'[g], {"sync"})
    <3>1. CASE Has(out, {"sync"})
      <4>1. Covers(out, Board(m)'[n], n)
        BY <1>4, <3>1, CoversSent DEF Shares
      <4>. QED  BY <1>2, <3>1, <4>1, HasConcat, CoversConcat
    <3>2. CASE ~Has(out, {"sync"})
      <4>1. Head(net[m]).t # "joined"
        BY <1>1, <1>6, <3>2 DEF Shares
      <4>2. ~Has(net[m], {"joined"})
        BY <1>2, <2>1, <2>4, <4>1, HasTail
      <4>3. /\ \/ app[g].loaded /\ Board(m)[n] <= Board(g)[n]
               \/ Covers(net[g], Board(m)[n], n)
            /\ app[g].loaded => \/ Board(g)[n] <= Board(m)[n]
                                \/ Covers(net[m], Board(g)[n], n)
                                \/ Has(net[g], {"sync"})
        BY <1>3, <4>2 DEF Told
      <4>4. CASE Head(net[m]).t # "sync"
        <5>1. Board(m)' = Board(m)
          BY <1>1, <3>2, <4>4 DEF Shares
        <5>2. Covers(net[m], Board(g)[n], n) => Covers(net'[m], Board(g)[n], n)
          BY <1>2, <2>1, <4>4, CoversTail
        <5>. QED  BY <1>2, <4>3, <5>1, <5>2, HasConcat, CoversConcat
      <4>5. CASE Head(net[m]).t = "sync"
        <5>1. /\ \A k \in Member : Head(net[m]).board[k] <= Board(m)'[k]
              /\ Board(m)'[n] \in {Board(m)[n], Head(net[m]).board[n]}
                    \/ Board(m)' = Board(m)
          BY <1>1, <1>6, <3>2, <4>5 DEF Shares
        <5>2. app[g].loaded /\ Head(net[m]).board[n] <= Board(g)[n]
          <6>1. 1 \in DOMAIN net[m] /\ Recent(net[m], 1) /\ Head(net[m]) = net[m][1]
            BY <1>2, <2>1, <2>4, <4>5, RecentTail
          <6>. QED  BY <1>3, <6>1 DEF Told, Bounded
        <5>4. \/ app[g].loaded /\ Board(m)'[n] <= Board(g)[n]
              \/ Covers(net'[g], Board(m)'[n], n)
          <6>1. CASE Board(m)'[n] = Head(net[m]).board[n]
            BY <5>2, <6>1
          <6>2. CASE Board(m)'[n] = Board(m)[n]
            BY <1>2, <4>3, <6>2, CoversConcat
          <6>. QED  BY <5>1, <6>1, <6>2
        <5>5. Head(net[m]) \in Frame /\ Head(net[m]).board[n] \in Int
          <6>1. Head(net[m]) \in Frame
            BY <1>2, <2>1
          <6>2. Head(net[m]).board \in [Member -> Points]
            BY <4>5, <6>1 DEF Frame, Signal
          <6>. QED  BY <6>1, <6>2 DEF Points, NotMember
        <5>6. app[g].loaded => \/ Board(g)[n] <= Board(m)'[n]
                               \/ Covers(net'[m], Board(g)[n], n)
                               \/ Has(net'[g], {"sync"})
          <6>1. CASE Board(g)[n] <= Board(m)[n]
            <7>1. Board(m)[n] <= Board(m)'[n]
              BY <1>1 DEF Shares
            <7>. QED  BY <1>4, <6>1, <7>1
          <6>2. CASE Covers(net[m], Board(g)[n], n)
            <7>1. \/ Board(g)[n] <= Head(net[m]).board[n]
                  \/ Covers(net'[m], Board(g)[n], n)
              BY <1>2, <2>1, <6>2, CoversTail
            <7>2. Head(net[m]).board[n] <= Board(m)'[n]
              BY <5>1
            <7>. QED  BY <1>4, <5>5, <7>1, <7>2
          <6>3. CASE Has(net[g], {"sync"})
            BY <1>2, <6>3, HasConcat
          <6>. QED  BY <4>3, <6>1, <6>2, <6>3
        <5>. QED  BY <5>4, <5>6
      <4>. QED  BY <4>4, <4>5
    <3>. QED  BY <3>1, <3>2
  <2>. QED  BY <1>2, <2>2, <2>3, <2>4 DEF Told
<1>. QED  BY <1>5, <1>6 DEF Plays

\* The guest's side: the guest acts, the host stands still.
LEMMA ToldGuest ==
    ASSUME GroupInv, Rooms, ToldInv, NEW m \in Member, NEW out,
           Plays(m, out), Shares(m, out), room.full, room.host # m
    PROVE  Told(Peer(m))'
<1>. DEFINE h == Peer(m)
<1>1. /\ h \in Member /\ h # m /\ Peer(h) = m /\ room.host = h
      /\ Heard(m) /\ Client(m)
  BY PeerTwice, FullIs
<1>2. /\ Board(h)' = Board(h)
      /\ net[m] \in Seq(Frame) /\ net[h] \in Seq(Frame) /\ out \in Seq(Frame)
      /\ net'[h] = net[h] \o out /\ (app[m].loaded => app'[m].loaded)
      /\ ~Has(out, {"joined"})
  BY <1>1, Channel DEF Plays, Only, Board, Has
<1>3. Told(h)
  BY <1>1 DEF ToldInv
<1>4. \A n \in Member : Board(m)[n] \in Int /\ Board(m)'[n] \in Int /\ Board(h)[n] \in Int
  <2>1. /\ Board(m) \in [Member -> Points] /\ Board(h) \in [Member -> Points]
    BY <1>1, Channel
  <2>2. Board(m)' \in [Member -> Points]
    <3>1. app'[m] \in Program
      BY DEF Plays, Only
    <3>. QED  BY <3>1 DEF Board, Program, Campaign
  <2>. QED  BY <2>1, <2>2 DEF Points, NotMember
<1>5. /\ Bounded(net'[h], Board(m)')
      /\ (\E i \in DOMAIN net'[h] : Recent(net'[h], i)) => app'[m].loaded
  <2>. SUFFICES ASSUME NEW i \in DOMAIN (net[h] \o out), Recent(net[h] \o out, i)
                PROVE  /\ app'[m].loaded
                       /\ \A n \in Member : (net[h] \o out)[i].board[n] <= Board(m)'[n]
    BY <1>2 DEF Bounded
  <2>1. CASE i \in DOMAIN net[h] /\ Recent(net[h], i) /\ (net[h] \o out)[i] = net[h][i]
    <3>1. app[m].loaded /\ \A n \in Member : net[h][i].board[n] <= Board(m)[n]
      BY <1>1, <1>3, <2>1 DEF Told, Bounded
    <3>2. \A n \in Member : Board(m)[n] <= Board(m)'[n]
      BY <3>1 DEF Shares
    <3>3. \A n \in Member : net[h][i].board[n] \in Int
      <4>1. net[h][i].board \in [Member -> Points]
        BY <1>1, <2>1, Channel DEF Recent
      <4>. QED  BY <4>1 DEF Points, NotMember
    <3>. QED  BY <1>2, <1>4, <2>1, <3>1, <3>2, <3>3, SMTT(30)
  <2>2. CASE \E j \in DOMAIN out : out[j].t = "sync" /\ (net[h] \o out)[i] = out[j]
    BY <1>4, <2>2 DEF Shares
  <2>3. \/ i \in DOMAIN net[h] /\ Recent(net[h], i) /\ (net[h] \o out)[i] = net[h][i]
        \/ \E j \in DOMAIN out : out[j].t = "sync" /\ (net[h] \o out)[i] = out[j]
    <3>. DEFINE s == net[h]
    <3>1. /\ s \in Seq(Frame) /\ out \in Seq(Frame)
          /\ i \in DOMAIN (s \o out) /\ Recent(s \o out, i)
      BY <1>2
    <3>. HIDE DEF s
    <3>2. \/ i \in DOMAIN s /\ Recent(s, i) /\ (s \o out)[i] = s[i] /\ ~Has(out, {"joined"})
          \/ \E j \in DOMAIN out : out[j].t = "sync" /\ (s \o out)[i] = out[j]
      BY <3>1, RecentConcat
    <3>. QED  BY <3>2 DEF s
  <2>. QED  BY <2>1, <2>2, <2>3
<1>6. ASSUME NEW n \in Member, ~Has(net'[h], {"joined"})
      PROVE  /\ \/ app'[m].loaded /\ Board(h)[n] <= Board(m)'[n]
                \/ Covers(net'[m], Board(h)[n], n)
             /\ app'[m].loaded => \/ Board(m)'[n] <= Board(h)[n]
                                  \/ Covers(net'[h], Board(m)'[n], n)
                                  \/ Has(net'[m], {"sync"})
  <2>1. ~Has(net[h], {"joined"})
    BY <1>2, <1>6, HasConcat
  <2>2. /\ \/ app[m].loaded /\ Board(h)[n] <= Board(m)[n]
           \/ Covers(net[m], Board(h)[n], n)
        /\ app[m].loaded => \/ Board(m)[n] <= Board(h)[n]
                            \/ Covers(net[h], Board(m)[n], n)
                            \/ Has(net[m], {"sync"})
    BY <1>1, <1>3, <2>1 DEF Told
  <2>3. \/ app'[m].loaded /\ Board(h)[n] <= Board(m)'[n]
        \/ Covers(net'[m], Board(h)[n], n)
    <3>1. CASE app[m].loaded /\ Board(h)[n] <= Board(m)[n]
      BY <1>2, <1>4, <3>1 DEF Shares
    <3>2. CASE Covers(net[m], Board(h)[n], n) /\ Took(m)
      <4>1. CASE Covers(Tail(net[m]), Board(h)[n], n)
        BY <3>2, <4>1 DEF Took
      <4>2. CASE Head(net[m]).t = "sync" /\ Board(h)[n] <= Head(net[m]).board[n]
        <5>1. app'[m].loaded /\ Head(net[m]).board[n] <= Board(m)'[n]
          BY <3>2, <4>2 DEF Shares
        <5>2. Head(net[m]) \in Frame
          BY <1>2, <3>2 DEF Took
        <5>3. Head(net[m]).board \in [Member -> Points]
          BY <4>2, <5>2 DEF Frame, Signal
        <5>4. Head(net[m]).board[n] \in Int
          BY <5>3 DEF Points, NotMember
        <5>. QED  BY <1>4, <4>2, <5>1, <5>4
      <4>. QED  BY <1>2, <3>2, <4>1, <4>2, CoversTail DEF Took
    <3>3. CASE Covers(net[m], Board(h)[n], n) /\ net'[m] = net[m]
      BY <3>3
    <3>. QED  BY <2>2, <3>1, <3>2, <3>3 DEF Plays
  <2>4. CASE Has(out, {"sync"})
    <3>1. Covers(out, Board(m)'[n], n)
      BY <1>4, <2>4, CoversSent DEF Shares
    <3>. QED  BY <1>2, <2>3, <3>1, CoversConcat
  <2>5. CASE ~Has(out, {"sync"})
    <3>1. /\ Board(m)' = Board(m) /\ app'[m].loaded = app[m].loaded
          /\ Took(m) => Head(net[m]).t # "sync"
      BY <1>1, <2>5 DEF Shares
    <3>2. Has(net[m], {"sync"}) => Has(net'[m], {"sync"})
      BY <1>2, <3>1, HasTail DEF Plays, Took
    <3>. QED  BY <1>2, <2>2, <2>3, <3>1, <3>2, CoversConcat
  <2>. QED  BY <2>4, <2>5
<1>. QED  BY <1>1, <1>2, <1>5, <1>6 DEF Told

\* So a step in the session keeps the boards together.
LEMMA ToldPlays ==
    ASSUME GroupInv, Roles, Rooms, ToldInv, NEW m \in Member, NEW out,
           Plays(m, out), Shares(m, out)
    PROVE  ToldInv'
<1>1. room' = room
  BY DEF Plays
<1>2. CASE room.full /\ room.host = m
  BY <1>1, <1>2, ToldHost DEF ToldInv
<1>3. CASE room.full /\ room.host # m
  <2>1. Peer(m) = room.host
    BY <1>3, FullIs
  <2>. QED  BY <1>1, <1>3, <2>1, ToldGuest DEF ToldInv
<1>. QED  BY <1>1, <1>2, <1>3 DEF ToldInv

-----------------------------------------------------------------------------
(* Frames and channels of the single actions.                              *)

\* No frames, and one.
LEMMA HasOne ==
    ASSUME NEW T
    PROVE  /\ ~Has(<<>>, T)
           /\ \A f : Has(<<f>>, T) <=> f.t \in T
BY DEF Has

\* All channels, and a channel that nothing is sent on.
LEMMA Nets ==
    ASSUME GroupInv
    PROVE  /\ net \in [Member -> Seq(Frame)]
           /\ \A m \in Member : net[m] \o <<>> = net[m]
<1>1. net \in [Member -> Seq(Messages(earned))] /\ Messages(earned) \subseteq Frame
  BY Machine DEF GroupInv, TypeOK, Messages
<1>2. net \in [Member -> Seq(Frame)]
  BY <1>1
<1>. QED  BY <1>2

\* Sending, where it is heard.
LEMMA SendPlays ==
    ASSUME GroupInv, NEW m \in Member, NEW q \in Seq(Frame),
           net' = IF Heard(m) THEN Send(net, Peer(m), q) ELSE net
    PROVE  LET out == IF Heard(m) THEN q ELSE <<>>
           IN  /\ out \in Seq(Frame) /\ (out # <<>> => Heard(m))
               /\ net'[m] = net[m] /\ net'[Peer(m)] = net[Peer(m)] \o out
<1>1. Peer(m) \in Member /\ Peer(m) # m
  BY PeerIs
<1>2. CASE Heard(m)
  BY <1>1, <1>2, Nets DEF Send
<1>3. CASE ~Heard(m)
  BY <1>1, <1>3, Nets
<1>. QED  BY <1>2, <1>3

\* Taking a frame, and answering where that is heard.
LEMMA TakePlays ==
    ASSUME GroupInv, NEW m \in Member, NEW q \in Seq(Frame), net[m] # <<>>,
           \/ net' = [net EXCEPT ![m] = Tail(@), ![Peer(m)] = net[Peer(m)] \o q]
           \/ net' = [net EXCEPT ![m] = Tail(@)] /\ q = <<>>
    PROVE  Took(m) /\ net'[Peer(m)] = net[Peer(m)] \o q
<1>1. Peer(m) \in Member /\ Peer(m) # m
  BY PeerIs
<1>2. CASE net' = [net EXCEPT ![m] = Tail(@), ![Peer(m)] = net[Peer(m)] \o q]
  BY <1>1, <1>2, Nets DEF Took
<1>3. CASE net' = [net EXCEPT ![m] = Tail(@)] /\ q = <<>>
  BY <1>1, <1>3, Nets DEF Took
<1>. QED  BY <1>2, <1>3

\* A channel that stays as it is has not lost its head.
LEMMA NotTaken ==
    ASSUME GroupInv, NEW m \in Member, net'[m] = net[m]
    PROVE  ~Took(m)
<1>1. ASSUME NEW s \in Seq(Frame), s # <<>> PROVE Tail(s) # s
  <2>1. Len(Tail(s)) = Len(s) - 1 /\ Len(s) \in Nat
    BY <1>1
  <2>2. Len(Tail(s)) # Len(s)
    BY <2>1
  <2>. QED  BY <2>2
<1>. QED  BY <1>1, Nets DEF Took

\* Scores are numbers.
LEMMA BoardInt ==
    ASSUME GroupInv, NEW m \in Member
    PROVE  \A n \in Member : Board(m)[n] \in Int
BY Channel DEF Points, NotMember

\* What the four invariants come to in one step.
Stays == Roles' /\ Rooms' /\ OnceInv' /\ ToldInv'

\* A step in the session that says nothing of a start or an end.
LEMMA StayPlays ==
    ASSUME StayInv, NEW m \in Member, NEW out, Plays(m, out), Shares(m, out),
           scored'[Peer(m)] = scored[Peer(m)], ~Has(out, {"start", "over"}),
           room.full /\ app[m].role = "host" => /\ app'[m].inDuel => app[m].inDuel
                                                /\ eng[m].st # "none" => eng'[m].st # "none",
           Len(scored'[m]) <= 1 /\ Once(m)'
    PROVE  Stays
<1>1. Len(scored'[Peer(m)]) <= 1 /\ Once(Peer(m))'
  BY OncePeer DEF StayInv
<1>2. \A n \in Member : n = m \/ n = Peer(m)
  BY PeerIs
<1>3. OnceInv'
  BY <1>1, <1>2 DEF OnceInv
<1>. QED  BY <1>3, RolesPlays, ToldPlays DEF StayInv, Stays

\* One that changes no score either.
LEMMA StayQuiet ==
    ASSUME StayInv, NEW m \in Member, NEW out, Plays(m, out), Shares(m, out),
           scored' = scored, ~Has(out, {"start", "over"}),
           room.full /\ app[m].role = "host" => /\ app'[m].inDuel => app[m].inDuel
                                                /\ eng[m].st # "none" => eng'[m].st # "none",
           Client(m) /\ scored[m] # <<>> => NotOpen(app'[m])
    PROVE  Stays
<1>1. Len(scored'[m]) <= 1 /\ Once(m)'
  BY OnceOwn DEF StayInv
<1>. QED  BY <1>1, StayPlays

\* The flags of a program that nothing is done to.
LEMMA ClosedIs ==
    ASSUME OnceInv, NEW m \in Member, Client(m), scored[m] # <<>>
    PROVE  NotOpen(app[m])
BY DEF OnceInv, Once

\* The engine ends.
LEMMA EndsStays ==
    ASSUME StayInv, NEW m \in Member, NEW w \in Member \cup {"draw"}, EngineEnds(m, w)
    PROVE  Stays
<1>1. /\ eng[m].st = "run" /\ eng' = [eng EXCEPT ![m] = [st |-> "done", winner |-> w]]
      /\ UNCHANGED <<save, app, net, room, earned, scored>>
  BY DEF EngineEnds
<1>2. /\ Only(m) /\ Peer(m) \in Member /\ Peer(m) # m /\ eng \in [Member -> Engine]
      /\ net[Peer(m)] \o <<>> = net[Peer(m)]
  BY EndsSound, PeerIs, Machine, Nets DEF StayInv
<1>3. app[m].role # "offline"
  BY <1>1 DEF StayInv, Roles
<1>4. <<>> \in Seq(Frame) /\ \A T : ~Has(<<>>, T)
  BY HasOne
<1>5. Plays(m, <<>>)
  BY <1>1, <1>2, <1>3, <1>4 DEF Plays
<1>6. ~Took(m)
  BY <1>1, NotTaken DEF StayInv
<1>7. \A n \in Member : Board(m)[n] \in Int
  BY BoardInt DEF StayInv
<1>8. Shares(m, <<>>)
  BY <1>1, <1>6, <1>7 DEF Shares, Board
<1>9. eng'[m].st # "none"
  BY <1>1, <1>2
<1>. QED  BY <1>1, <1>4, <1>5, <1>8, <1>9, StayQuiet, ClosedIs DEF StayInv

\* A step that concerns no board shares what there is to share.
LEMMA SharesSame ==
    ASSUME GroupInv, NEW m \in Member, NEW out, ~Has(out, {"sync"}),
           app'[m].arcade = app[m].arcade, app'[m].loaded = app[m].loaded,
           Took(m) => Head(net[m]).t \notin {"sync", "joined"}
    PROVE  Shares(m, out)
<1>1. Board(m)' = Board(m) /\ \A n \in Member : Board(m)[n] \in Int
  BY BoardInt DEF Board
<1>. QED  BY <1>1 DEF Shares, Has

\* A single signal.
LEMMA SignalPlays ==
    ASSUME NEW k \in Signal
    PROVE  /\ <<[t |-> k]>> \in Seq(Frame)
           /\ \A T : Has(<<[t |-> k]>>, T) <=> k \in T
<1>1. [t |-> k] \in Frame
  BY DEF Frame
<1>. QED  BY <1>1, HasOne

\* The guest surrenders.
LEMMA SurrenderStays ==
    ASSUME StayInv, NEW m \in Member, Surrender(m)
    PROVE  Stays
<1>. DEFINE q == <<[t |-> "surrender"]>>
            out == IF Heard(m) THEN q ELSE <<>>
<1>1. /\ app[m].role = "client" /\ Heard(m) /\ net' = Send(net, Peer(m), q)
      /\ UNCHANGED <<save, app, eng, room, earned, scored>>
  BY DEF Surrender
<1>2. Only(m) /\ Peer(m) \in Member
  BY SurrenderSound, PeerIs DEF StayInv
<1>3. q \in Seq(Frame) /\ \A T : Has(q, T) <=> "surrender" \in T
  BY SignalPlays DEF Signal
<1>. HIDE DEF q
<1>4. /\ out = q /\ out # <<>>
      /\ net'[m] = net[m] /\ net'[Peer(m)] = net[Peer(m)] \o out
  BY <1>1, <1>3, SendPlays, HasOne DEF StayInv
<1>. HIDE DEF out
<1>5. Plays(m, out)
  BY <1>1, <1>2, <1>3, <1>4 DEF Plays
<1>6. Shares(m, out)
  BY <1>1, <1>3, <1>4, NotTaken, SharesSame DEF StayInv
<1>. QED  BY <1>1, <1>3, <1>4, <1>5, <1>6, StayQuiet, ClosedIs DEF StayInv, Client

\* A machine whose connection is lost leaves the duel.
LEMMA LostStays ==
    ASSUME StayInv, NEW m \in Member, LeaveLostDuel(m)
    PROVE  Stays
<1>. DEFINE t == EndOfDuel(app[m])
<1>1. /\ app' = [app EXCEPT ![m] = t] /\ app[m].inDuel /\ app[m].link = "lost"
      /\ eng' = [eng EXCEPT ![m] = NoEngine]
      /\ UNCHANGED <<save, net, room, earned, scored>>
  BY DEF LeaveLostDuel, EngineGoes
<1>2. /\ Only(m) /\ Peer(m) \in Member /\ Peer(m) # m /\ eng \in [Member -> Engine]
      /\ net[Peer(m)] \o <<>> = net[Peer(m)]
      /\ app[m] \in Program /\ app \in [Member -> Program]
  BY LostSound, PeerIs, Machine, Nets DEF StayInv
<1>3. /\ t.arcade = app[m].arcade /\ t.loaded = app[m].loaded /\ t.group = app[m].group
      /\ t.role = app[m].role /\ t.link = app[m].link /\ ~t.inDuel
  BY <1>2 DEF EndOfDuel, Program
<1>. HIDE DEF t
<1>4. app'[m] = t
  BY <1>1, <1>2
<1>5. app[m].role # "offline"
  BY <1>1 DEF StayInv, Roles
<1>6. <<>> \in Seq(Frame) /\ \A T : ~Has(<<>>, T)
  BY HasOne
<1>7. Plays(m, <<>>)
  BY <1>1, <1>2, <1>3, <1>4, <1>5, <1>6 DEF Plays
<1>8. Shares(m, <<>>)
  BY <1>1, <1>3, <1>4, <1>6, NotTaken, SharesSame DEF StayInv
<1>9. ~room.full
  BY <1>1, FullIs DEF StayInv, Heard, Linked
<1>. QED  BY <1>1, <1>3, <1>4, <1>6, <1>7, <1>8, <1>9, StayQuiet DEF NotOpen

\* The guest is told of a start, which it has not scored.
LEMMA StartsStays ==
    ASSUME StayInv, NEW m \in Member, DuelStarts(m)
    PROVE  Stays
<1>. DEFINE t == [app[m] EXCEPT !.inDuel = TRUE, !.auto = FALSE, !.remoteDone = FALSE]
<1>1. /\ app' = [app EXCEPT ![m] = t] /\ app[m].role # "offline" /\ net[m] # <<>>
      /\ Head(net[m]).t = "start" /\ net' = [net EXCEPT ![m] = Tail(@)]
      /\ UNCHANGED <<save, eng, room, earned, scored>>
  BY DEF DuelStarts, Receive
<1>2. /\ Only(m) /\ app[m] \in Program /\ app \in [Member -> Program]
      /\ net[m] \in Seq(Frame)
  BY StartsSound, Machine, Nets DEF StayInv
<1>3. /\ t.arcade = app[m].arcade /\ t.loaded = app[m].loaded /\ t.group = app[m].group
      /\ t.role = app[m].role /\ t.link = app[m].link
  BY <1>2 DEF Program
<1>. HIDE DEF t
<1>4. app'[m] = t
  BY <1>1, <1>2
<1>5. <<>> \in Seq(Frame) /\ \A T : ~Has(<<>>, T)
  BY HasOne
<1>6. Took(m) /\ net'[Peer(m)] = net[Peer(m)] \o <<>>
  BY <1>1, <1>5, TakePlays DEF StayInv
<1>7. Plays(m, <<>>)
  BY <1>1, <1>2, <1>3, <1>4, <1>5, <1>6 DEF Plays
<1>8. Shares(m, <<>>)
  BY <1>1, <1>3, <1>4, <1>5, SharesSame DEF StayInv
<1>9. Has(net[m], {"start"})
  BY <1>1, <1>2, HasTail
<1>10. app[m].role # "host" /\ (Client(m) => scored[m] = <<>>)
  BY <1>9 DEF StayInv, Roles, OnceInv, Once
<1>. QED  BY <1>1, <1>5, <1>7, <1>8, <1>10, StayQuiet

\* The surrender arrives: the engine is done, or there is none.
LEMMA SurrenderedStays ==
    ASSUME StayInv, NEW m \in Member, Surrendered(m)
    PROVE  Stays
<1>1. /\ app[m].role = "host" /\ net[m] # <<>>
      /\ Head(net[m]).t = "surrender" /\ net' = [net EXCEPT ![m] = Tail(@)]
      /\ eng' = IF eng[m].st = "none" THEN eng
                ELSE [eng EXCEPT ![m] = [st |-> "done", winner |-> m]]
      /\ UNCHANGED <<save, app, room, earned, scored>>
  BY DEF Surrendered, Receive
<1>2. Only(m) /\ Peer(m) # m /\ Peer(m) \in Member /\ eng \in [Member -> Engine]
  BY SurrenderedSound, Machine, PeerIs DEF StayInv
<1>3. <<>> \in Seq(Frame) /\ \A T : ~Has(<<>>, T)
  BY HasOne
<1>4. Took(m) /\ net'[Peer(m)] = net[Peer(m)] \o <<>>
  BY <1>1, <1>3, TakePlays DEF StayInv
<1>5. eng'[Peer(m)] = eng[Peer(m)] /\ (eng[m].st # "none" => eng'[m].st # "none")
  BY <1>1, <1>2
<1>6. Plays(m, <<>>)
  BY <1>1, <1>2, <1>3, <1>4, <1>5 DEF Plays
<1>7. Shares(m, <<>>)
  BY <1>1, <1>3, SharesSame DEF StayInv
<1>. QED  BY <1>1, <1>3, <1>5, <1>6, <1>7, StayQuiet DEF Client

\* The host starts a duel: no end of an earlier one is under way.
LEMMA StartStays ==
    ASSUME StayInv, NEW m \in Member, StartDuel(m)
    PROVE  Stays
<1>. DEFINE p == Peer(m)
            t == [app[m] EXCEPT !.inDuel = TRUE, !.auto = FALSE]
            q == <<[t |-> "start"]>>
            out == IF Heard(m) THEN q ELSE <<>>
<1>1. /\ app' = [app EXCEPT ![m] = t] /\ app[m].role = "host"
      /\ eng[m].st = "none"
      /\ eng' = [eng EXCEPT ![m] = [st |-> "run", winner |-> "none"]]
      /\ net' = IF Heard(m) THEN Send(net, p, q) ELSE net
      /\ scored' = IF Heard(m) THEN [scored EXCEPT ![p] = <<>>] ELSE scored
      /\ UNCHANGED <<save, room, earned>>
  BY DEF StartDuel
<1>2. /\ Only(m) /\ p \in Member /\ p # m /\ Peer(p) = m
      /\ app[m] \in Program /\ app \in [Member -> Program] /\ eng \in [Member -> Engine]
      /\ net[p] \in Seq(Frame)
      /\ scored \in [Member -> Seq({"win", "loss", "draw"})]
  BY StartSound, PeerTwice, Machine, Nets DEF StayInv
<1>3. /\ t.arcade = app[m].arcade /\ t.loaded = app[m].loaded /\ t.group = app[m].group
      /\ t.role = app[m].role /\ t.link = app[m].link
  BY <1>2 DEF Program
<1>. HIDE DEF t
<1>4. app'[m] = t /\ eng'[p] = eng[p]
  BY <1>1, <1>2
<1>5. q \in Seq(Frame) /\ \A T : Has(q, T) <=> "start" \in T
  BY SignalPlays DEF Signal
<1>. HIDE DEF q
<1>6. /\ out \in Seq(Frame) /\ (out # <<>> => Heard(m))
      /\ net'[m] = net[m] /\ net'[p] = net[p] \o out
  BY <1>1, <1>5, SendPlays DEF StayInv
<1>7. \A T : Has(out, T) => "start" \in T
  BY <1>5, HasOne
<1>8. Heard(m) => out = q
  OBVIOUS
<1>9. ~Heard(m) => ~Has(out, {"start", "over"})
  BY HasOne
<1>. HIDE DEF out
<1>10. Plays(m, out)
  BY <1>1, <1>2, <1>3, <1>4, <1>6, <1>7 DEF Plays
<1>11. Shares(m, out)
  BY <1>3, <1>4, <1>6, <1>7, NotTaken, SharesSame DEF StayInv
<1>12. scored'[m] = scored[m]
  BY <1>1, <1>2
<1>13. Len(scored'[m]) <= 1 /\ Once(m)'
  BY <1>1, <1>10, <1>12, OnceOwn DEF StayInv, Client
<1>14. CASE ~Heard(m)
  <2>1. scored' = scored /\ ~Has(out, {"start", "over"}) /\ ~room.full
    BY <1>1, <1>9, <1>14, FullIs DEF StayInv
  <2>. QED  BY <1>10, <1>11, <1>13, <2>1, StayPlays
<1>15. CASE Heard(m)
  <2>1. room.full /\ Client(p) /\ room' = room
    BY <1>1, <1>2, <1>15, FullIs DEF StayInv, Heard, Client
  <2>2. scored'[p] = <<>>
    BY <1>1, <1>2, <1>15
  <2>3. Once(p)
    BY <1>2 DEF StayInv, OnceInv
  <2>4. ~Has(net[p], {"over"}) /\ ~Has(net[p], {"bye", "closed"})
    BY <1>1, <1>2, <2>1, <2>3 DEF Once, Ended
  <2>5. ~Has(net[p], {"over", "bye", "closed"})
    BY <2>4 DEF Has
  <2>6. ~Has(net'[p], {"over"}) /\ ~Has(net'[p], {"bye", "closed"})
    BY <1>2, <1>6, <1>7, <2>4, HasConcat, SMTT(30)
  <2>7. InOrder(net'[p])
    <3>1. ~Has(out, {"over", "bye", "closed"})
      BY <1>7
    <3>2. InOrder(out)
      BY <3>1 DEF InOrder, Has
    <3>. QED  BY <1>2, <1>6, <2>1, <2>3, <2>5, <3>2, OrderConcat DEF Once
  <2>8. Once(p)' /\ Len(scored'[p]) <= 1
    BY <1>2, <2>2, <2>6, <2>7 DEF Once, Ended
  <2>9. OnceInv'
    BY <1>13, <2>8, PeerIs DEF OnceInv
  <2>. QED  BY <1>10, <1>11, <2>9, RolesPlays, ToldPlays DEF StayInv, Stays
<1>. QED  BY <1>14, <1>15

\* A merged board has the points of both, and no others.
LEMMA MergePlays ==
    ASSUME NEW c \in Campaign, NEW d \in [Member -> Points]
    PROVE  LET a == [c EXCEPT !.board = MergeBoard(@, d)]
           IN  /\ a \in Campaign
               /\ \A n \in Member : /\ c.board[n] <= a.board[n] /\ d[n] <= a.board[n]
                                    /\ a.board[n] \in {c.board[n], d[n]}
<1>. DEFINE b == MergeBoard(c.board, d)
            a == [c EXCEPT !.board = b]
<1>1. c.board \in [Member -> Points]
  BY DEF Campaign
<1>2. \A n \in Member : c.board[n] \in Int /\ d[n] \in Int
  BY <1>1 DEF Points, NotMember
<1>3. \A n \in Member : b[n] = IF c.board[n] >= d[n] THEN c.board[n] ELSE d[n]
  BY <1>2, MaxIs DEF MergeBoard
<1>4. b \in [Member -> Points]
  BY <1>1, MergeIs
<1>5. [c EXCEPT !.board = MergeBoard(@, d)] = a
  OBVIOUS
<1>. HIDE DEF b
<1>6. a \in Campaign /\ a.board = b
  BY <1>4 DEF Campaign
<1>7. \A n \in Member : /\ c.board[n] <= a.board[n] /\ d[n] <= a.board[n]
                        /\ a.board[n] \in {c.board[n], d[n]}
  BY <1>2, <1>3, <1>6
<1>. HIDE DEF a
<1>. QED  BY <1>5, <1>6, <1>7

\* One frame that is sent, and one sync.
LEMMA OneFrame ==
    ASSUME NEW f \in Frame
    PROVE  /\ <<f>> \in Seq(Frame)
           /\ \A T : Has(<<f>>, T) <=> f.t \in T
<1>1. <<f>> \in Seq(Frame)
  OBVIOUS
<1>2. \A T : Has(<<f>>, T) <=> f.t \in T
  BY HasOne
<1>. QED  BY <1>1, <1>2

LEMMA SyncPlays ==
    ASSUME NEW a \in Campaign
    PROVE  /\ SyncOf(a) \in Frame /\ SyncOf(a).t = "sync" /\ SyncOf(a).board = a.board
           /\ <<SyncOf(a)>> \in Seq(Frame)
           /\ \A T : Has(<<SyncOf(a)>>, T) <=> "sync" \in T
<1>1. SyncOf(a) \in Frame /\ SyncOf(a).t = "sync" /\ SyncOf(a).board = a.board
  BY DEF SyncOf, Frame, Campaign
<1>2. PICK f \in Frame : f = SyncOf(a)
  BY <1>1
<1>. QED  BY <1>1, <1>2, OneFrame

\* Whoever sends its board, where it is heard, shares it.
LEMMA SharesSent ==
    ASSUME NEW m \in Member, NEW a \in Campaign, NEW out,
           out = IF Heard(m) THEN <<SyncOf(a)>> ELSE <<>>,
           app'[m].arcade = a, app'[m].loaded,
           app[m].loaded => \A n \in Member : Board(m)[n] <= a.board[n],
           Took(m) /\ Head(net[m]).t = "sync"
             => \A n \in Member : Head(net[m]).board[n] <= a.board[n]
    PROVE  Shares(m, out)
<1>1. Board(m)' = a.board
  BY DEF Board
<1>2. Heard(m) => Has(out, {"sync"})
  BY SyncPlays
<1>3. ASSUME NEW i \in DOMAIN out, out[i].t = "sync" PROVE out[i].board = Board(m)'
  <2>1. CASE Heard(m)
    BY <1>1, <1>3, <2>1, SyncPlays
  <2>2. CASE ~Heard(m)
    BY <1>3, <2>2
  <2>. QED  BY <2>1, <2>2
<1>. QED  BY <1>1, <1>2, <1>3 DEF Shares

\* The host is told that a guest has joined, and sends its board.
LEMMA JoinedStays ==
    ASSUME StayInv, NEW m \in Member, PeerJoined(m)
    PROVE  Stays
<1>. DEFINE s == [app[m] EXCEPT !.ready = TRUE]
            a == OnBoard(m, s.arcade)
            t == [s EXCEPT !.arcade = a]
            q == IF Scores(s) /\ Heard(m) THEN <<SyncOf(a)>> ELSE <<>>
<1>1. /\ IF Scores(s)
         THEN /\ app' = [app EXCEPT ![m] = t]
              /\ net' = [net EXCEPT ![m] = Tail(@),
                                    ![Peer(m)] = IF Heard(m) THEN Append(@, SyncOf(a))
                                                 ELSE @]
         ELSE app' = [app EXCEPT ![m] = s] /\ net' = [net EXCEPT ![m] = Tail(@)]
      /\ UNCHANGED <<save, eng, room, earned, scored>> /\ net[m] # <<>>
      /\ app[m].role # "offline" /\ Head(net[m]).t = "joined"
  BY DEF PeerJoined, Receive
<1>2. /\ Only(m) /\ Peer(m) # m /\ Peer(m) \in Member
      /\ app[m] \in Program /\ app \in [Member -> Program]
      /\ app[m].arcade \in Campaigns(earned) /\ earned \in [Member -> Nat]
      /\ net[Peer(m)] \in Seq(Frame) /\ net \in [Member -> Seq(Frame)]
      /\ net[Peer(m)] \o <<>> = net[Peer(m)]
  BY JoinedSound, PeerIs, Machine, Nets DEF StayInv
<1>3. /\ s \in Program /\ s.arcade = app[m].arcade /\ s.loaded = app[m].loaded
      /\ s.group = app[m].group /\ s.role = app[m].role /\ s.link = app[m].link
      /\ s.inDuel = app[m].inDuel /\ s.auto = app[m].auto
      /\ s.remoteDone = app[m].remoteDone
  BY <1>2 DEF Program
<1>4. a \in Campaign /\ Grows(app[m].arcade, a)
  BY <1>2, <1>3, OnBoardIs DEF Campaigns
<1>. HIDE DEF s, a
<1>5. /\ t.arcade = a /\ t.loaded = app[m].loaded
      /\ t.group = app[m].group /\ t.role = app[m].role /\ t.link = app[m].link
      /\ t.inDuel = app[m].inDuel /\ t.auto = app[m].auto
      /\ t.remoteDone = app[m].remoteDone
  BY <1>3 DEF Program
<1>. HIDE DEF t
<1>6. /\ Scores(s) => app'[m] = t
      /\ ~Scores(s) => app'[m] = s
  BY <1>1, <1>2
<1>7. q \in Seq(Frame) /\ (q # <<>> => Heard(m)) /\ (\A T : Has(q, T) => "sync" \in T)
  BY <1>4, SyncPlays, HasOne
<1>8. Took(m) /\ net'[Peer(m)] = net[Peer(m)] \o q
  <2>1. CASE Scores(s) /\ Heard(m)
    <3>1. net' = [net EXCEPT ![m] = Tail(@),
                             ![Peer(m)] = Append(net[Peer(m)], SyncOf(a))]
      BY <1>1, <1>2, <2>1
    <3>2. Append(net[Peer(m)], SyncOf(a)) = net[Peer(m)] \o q /\ q = <<SyncOf(a)>>
      BY <1>2, <1>4, <2>1, SyncPlays
    <3>. QED  BY <1>1, <1>7, <3>1, <3>2, TakePlays DEF StayInv
  <2>2. CASE ~(Scores(s) /\ Heard(m))
    <3>1. q = <<>>
      BY <2>2
    <3>2. \/ net' = [net EXCEPT ![m] = Tail(@)]
          \/ net' = [net EXCEPT ![m] = Tail(@), ![Peer(m)] = net[Peer(m)] \o q]
      BY <1>1, <1>2, <2>2, <3>1
    <3>. QED  BY <1>1, <1>7, <3>1, <3>2, TakePlays DEF StayInv
  <2>. QED  BY <2>1, <2>2
<1>9. Plays(m, q)
  BY <1>1, <1>2, <1>3, <1>5, <1>6, <1>7, <1>8 DEF Plays
<1>10. Shares(m, q)
  <2>1. CASE Scores(s)
    <3>1. app'[m].arcade = a /\ app'[m].loaded
      BY <1>3, <1>5, <1>6, <2>1 DEF Scores
    <3>2. \A n \in Member : Board(m)[n] <= a.board[n]
      <4>1. \A n \in Member : Board(m)[n] \in Int /\ a.board[n] \in Int
        BY <1>4, BoardInt DEF StayInv, Campaign, Points, NotMember
      <4>. QED  BY <1>4, <4>1 DEF Grows, Board
    <3>3. q = IF Heard(m) THEN <<SyncOf(a)>> ELSE <<>>
      BY <2>1
    <3>. HIDE DEF q
    <3>. QED  BY <1>1, <1>4, <3>1, <3>2, <3>3, SharesSent
  <2>2. CASE ~Scores(s)
    <3>1. /\ app'[m].arcade = app[m].arcade /\ app'[m].loaded = app[m].loaded
          /\ q = <<>>
      BY <1>3, <1>6, <2>2
    <3>2. Client(m)
      <4>1. app[m].role # "host"
        BY <1>3, <2>2 DEF StayInv, Roles, Scores
      <4>. QED  BY <1>1, <1>2, <4>1 DEF Program, Client
    <3>. HIDE DEF q
    <3>3. Board(m)' = Board(m) /\ \A n \in Member : Board(m)[n] \in Int
      BY <3>1, BoardInt DEF Board, StayInv
    <3>. QED  BY <1>1, <3>1, <3>2, <3>3 DEF Shares, Took
  <2>. QED  BY <2>1, <2>2
<1>. HIDE DEF q
<1>11. app'[m].inDuel = app[m].inDuel /\ (NotOpen(app[m]) => NotOpen(app'[m]))
  BY <1>3, <1>5, <1>6 DEF NotOpen
<1>12. ~Has(q, {"start", "over"})
  BY <1>7
<1>. QED  BY <1>1, <1>9, <1>10, <1>11, <1>12, StayQuiet, ClosedIs DEF StayInv

\* The host merges what the guest has sent.
LEMMA HostSyncStays ==
    ASSUME StayInv, NEW m \in Member, HostSync(m)
    PROVE  Stays
<1>. DEFINE a == [app[m].arcade EXCEPT !.board = MergeBoard(@, Head(net[m]).board)]
            t == [app[m] EXCEPT !.arcade = a]
<1>1. /\ app[m].loaded /\ app[m].role = "host"
      /\ app' = [app EXCEPT ![m] = t]
      /\ net' = [net EXCEPT ![m] = Tail(@)]
      /\ UNCHANGED <<eng, room, earned, scored>> /\ net[m] # <<>>
      /\ Head(net[m]).t = "sync"
  <2>1. app[m].loaded
    BY DEF HostSync, StayInv, Roles
  <2>. QED  BY <2>1 DEF HostSync, Receive
<1>2. /\ Only(m) /\ app[m] \in Program /\ app \in [Member -> Program]
      /\ app[m].arcade \in Campaign /\ Head(net[m]).board \in [Member -> Points]
  BY HostSyncSound, Machine, SyncHeld DEF StayInv, HostSync
<1>3. /\ a \in Campaign
      /\ \A n \in Member : /\ app[m].arcade.board[n] <= a.board[n]
                           /\ Head(net[m]).board[n] <= a.board[n]
                           /\ a.board[n] \in {app[m].arcade.board[n], Head(net[m]).board[n]}
  BY <1>2, MergePlays
<1>. HIDE DEF a
<1>4. /\ t.arcade = a /\ t.loaded = app[m].loaded /\ t.group = app[m].group
      /\ t.role = app[m].role /\ t.link = app[m].link /\ t.inDuel = app[m].inDuel
  BY <1>2, <1>3 DEF Program
<1>. HIDE DEF t
<1>5. app'[m] = t
  BY <1>1, <1>2
<1>6. <<>> \in Seq(Frame) /\ \A T : ~Has(<<>>, T)
  BY HasOne
<1>7. Took(m) /\ net'[Peer(m)] = net[Peer(m)] \o <<>>
  BY <1>1, <1>6, TakePlays DEF StayInv
<1>8. Plays(m, <<>>)
  BY <1>1, <1>2, <1>4, <1>5, <1>6, <1>7 DEF Plays
<1>9. Shares(m, <<>>)
  <2>1. Board(m) = app[m].arcade.board /\ Board(m)' = a.board /\ ~Client(m)
    BY <1>1, <1>4, <1>5 DEF Board, Client
  <2>2. /\ \A n \in Member : Board(m)[n] <= Board(m)'[n]
        /\ \A n \in Member : Head(net[m]).board[n] <= Board(m)'[n]
        /\ \A n \in Member : Board(m)'[n] \in {Board(m)[n], Head(net[m]).board[n]}
    BY <1>3, <2>1
  <2>3. app'[m].loaded /\ Head(net[m]).t = "sync"
    BY <1>1, <1>4, <1>5
  <2>4. \A i \in DOMAIN <<>> : FALSE
    OBVIOUS
  <2>. QED  BY <1>7, <2>1, <2>2, <2>3, <2>4 DEF Shares
<1>. QED  BY <1>1, <1>4, <1>5, <1>6, <1>8, <1>9, StayQuiet DEF Client

\* The guest merges what the host has sent, and sends back all it has.
LEMMA GuestSyncStays ==
    ASSUME StayInv, NEW m \in Member, GuestSync(m)
    PROVE  Stays
<1>. DEFINE c == GuestCampaign(m)
            d == [c EXCEPT !.board = MergeBoard(@, Head(net[m]).board)]
            a == OnBoard(m, d)
            t == [app[m] EXCEPT !.arcade = a, !.loaded = TRUE, !.group = TRUE]
            q == IF Heard(m) THEN <<SyncOf(a)>> ELSE <<>>
<1>1. /\ app' = [app EXCEPT ![m] = t] /\ app[m].role = "client"
      /\ net' = [net EXCEPT ![m] = Tail(@),
                            ![Peer(m)] = IF Heard(m) THEN @ \o <<SyncOf(a)>> ELSE @]
      /\ UNCHANGED <<eng, room, earned, scored>> /\ net[m] # <<>>
      /\ Head(net[m]).t = "sync"
  BY DEF GuestSync, Receive, SyncReply
<1>2. /\ Only(m) /\ app[m] \in Program /\ app \in [Member -> Program]
      /\ app[m].arcade \in Campaigns(earned) /\ save[m] \in Campaigns(earned)
      /\ earned \in [Member -> Nat]
      /\ Head(net[m]).board \in [Member -> Points] /\ Within(Head(net[m]).board, earned)
      /\ Peer(m) \in Member /\ Peer(m) # m /\ net[Peer(m)] \o <<>> = net[Peer(m)]
      /\ net \in [Member -> Seq(Frame)]
  BY GuestSyncSound, Machine, SyncHeld, PeerIs, Nets DEF StayInv, GuestSync
<1>3. /\ c \in Campaigns(earned) /\ c \in Campaign
      /\ app[m].loaded => c = app[m].arcade
  <2>1. app[m].loaded => save[m].exists
    BY Machine DEF FileInv, StayInv
  <2>. QED  BY <1>2, <2>1, NewIs DEF GuestCampaign, Campaigns
<1>. HIDE DEF c
<1>4. /\ d \in Campaign
      /\ \A n \in Member : c.board[n] <= d.board[n] /\ Head(net[m]).board[n] <= d.board[n]
  BY <1>2, <1>3, MergePlays
<1>5. d \in Campaigns(earned)
  BY <1>2, <1>3, MergedIs
<1>. HIDE DEF d
<1>6. a \in Campaign /\ Grows(d, a)
  BY <1>2, <1>5, OnBoardIs DEF Campaigns
<1>. HIDE DEF a
<1>7. \A n \in Member : /\ app[m].loaded => Board(m)[n] <= a.board[n]
                        /\ Head(net[m]).board[n] <= a.board[n]
  <2>1. \A n \in Member : /\ c.board[n] \in Int /\ d.board[n] \in Int /\ a.board[n] \in Int
                          /\ Head(net[m]).board[n] \in Int
    BY <1>2, <1>3, <1>4, <1>6, SMTT(30) DEF Campaign, Points, NotMember
  <2>2. \A n \in Member : d.board[n] <= a.board[n]
    BY <1>6, <2>1 DEF Grows
  <2>. QED  BY <1>3, <1>4, <2>1, <2>2 DEF Board
<1>8. /\ t.arcade = a /\ t.loaded /\ t.group
      /\ t.role = app[m].role /\ t.link = app[m].link /\ t.inDuel = app[m].inDuel
      /\ t.auto = app[m].auto /\ t.remoteDone = app[m].remoteDone
  BY <1>2, <1>6 DEF Program
<1>. HIDE DEF t
<1>9. app'[m] = t
  BY <1>1, <1>2
<1>10. q \in Seq(Frame) /\ (q # <<>> => Heard(m)) /\ (\A T : Has(q, T) => "sync" \in T)
  BY <1>6, SyncPlays, HasOne
<1>11. q = IF Heard(m) THEN <<SyncOf(a)>> ELSE <<>>
  OBVIOUS
<1>12. net' = [net EXCEPT ![m] = Tail(@), ![Peer(m)] = net[Peer(m)] \o q]
  BY <1>1, <1>2
<1>. HIDE DEF q
<1>13. Took(m) /\ net'[Peer(m)] = net[Peer(m)] \o q
  BY <1>1, <1>10, <1>12, TakePlays DEF StayInv
<1>14. Plays(m, q)
  BY <1>1, <1>2, <1>8, <1>9, <1>10, <1>13 DEF Plays
<1>15. Shares(m, q)
  BY <1>6, <1>7, <1>8, <1>9, <1>11, SharesSent
<1>16. NotOpen(app[m]) => NotOpen(app'[m])
  BY <1>8, <1>9 DEF NotOpen
<1>17. ~Has(q, {"start", "over"})
  BY <1>10
<1>. QED  BY <1>1, <1>14, <1>15, <1>16, <1>17, StayQuiet, ClosedIs DEF StayInv, Client

-----------------------------------------------------------------------------
(* Scoring.                                                                *)

\* What scoring does to the program.
LEMMA RecordPlays ==
    ASSUME StayInv, NEW m \in Member, NEW s \in Program, s.arcade = app[m].arcade,
           NEW outcome \in {"win", "loss", "draw"}, Earn(m, s, outcome)
    PROVE  LET r == AutoRecord(m, s, outcome)
           IN  /\ r \in Program
               /\ r.loaded = s.loaded /\ r.group = s.group
               /\ r.role = s.role /\ r.link = s.link
               /\ r.inDuel = s.inDuel /\ r.remoteDone = s.remoteDone
               /\ Scores(s) => /\ r.loaded /\ r.auto
                               /\ \A n \in Member : Board(m)[n] <= r.arcade.board[n]
               /\ ~Scores(s) => r = s
<1>. DEFINE r == AutoRecord(m, s, outcome)
<1>1. s \in Programs(earned) /\ earned \in [Member -> Nat]
  BY Machine DEF Programs, StayInv
<1>2. r \in Program
  BY <1>1, RecordedIs DEF Programs, StayInv
<1>3. CASE Scores(s)
  <2>1. /\ r.loaded /\ r.auto /\ r.inDuel = s.inDuel /\ r.remoteDone = s.remoteDone
        /\ r.role = s.role /\ r.link = s.link
        /\ Grows(s.arcade, r.arcade)
    BY <1>1, <1>3, ScoreIs
  <2>2. r.group = s.group
    BY <1>3 DEF AutoRecord, Program
  <2>3. s.loaded = TRUE
    BY <1>3 DEF Scores, Program
  <2>4. r.loaded = TRUE
    BY <1>2, <2>1 DEF Program
  <2>5. \A n \in Member : Board(m)[n] <= r.arcade.board[n]
    <3>1. \A n \in Member : s.arcade.board[n] \in Int /\ r.arcade.board[n] \in Int
      BY <1>2 DEF Program, Campaign, Points, NotMember
    <3>. QED  BY <2>1, <3>1 DEF Grows, Board
  <2>. HIDE DEF r
  <2>. QED  BY <1>2, <1>3, <2>1, <2>2, <2>3, <2>4, <2>5 DEF r
<1>4. CASE ~Scores(s)
  BY <1>4 DEF AutoRecord
<1>. QED  BY <1>3, <1>4

\* And to what has been scored.
LEMMA EarnPlays ==
    ASSUME StayInv, NEW m \in Member, NEW s, NEW outcome, Earn(m, s, outcome)
    PROVE  /\ scored'[Peer(m)] = scored[Peer(m)]
           /\ scored'[m] = IF Scores(s) /\ s.role = "client"
                           THEN Append(scored[m], outcome) ELSE scored[m]
<1>1. scored \in [Member -> Seq({"win", "loss", "draw"})] /\ Peer(m) # m /\ Peer(m) \in Member
  BY Machine, PeerIs DEF StayInv
<1>. QED  BY <1>1 DEF Earn

\* One scored duel.
LEMMA ScoredOnce ==
    ASSUME StayInv, NEW m \in Member, NEW outcome, scored[m] = <<>>
    PROVE  Len(Append(scored[m], outcome)) = 1
<1>1. Append(<<>>, outcome) = <<outcome>>
  OBVIOUS
<1>. QED  BY <1>1

\* Scoring on a frame is a step in the session.
LEMMA ScorePlays ==
    ASSUME StayInv, NEW m \in Member, NEW s \in Program, Only(m),
           s.arcade = app[m].arcade, s.loaded = app[m].loaded, s.group = app[m].group,
           s.role = app[m].role, s.link = app[m].link,
           NEW outcome \in {"win", "loss", "draw"}, Score(m, s, outcome),
           app[m].role # "offline", net[m] # <<>>,
           Head(net[m]).t \notin {"sync", "joined"}, UNCHANGED <<eng, room>>
    PROVE  \E q : /\ Plays(m, q) /\ Shares(m, q) /\ ~Has(q, {"start", "over"})
                  /\ app'[m].inDuel = s.inDuel /\ app'[m].remoteDone = s.remoteDone
                  /\ Scores(s) => app'[m].auto
                  /\ ~Scores(s) => app'[m] = s
                  /\ Earn(m, s, outcome) /\ Took(m)
<1>. DEFINE r == AutoRecord(m, s, outcome)
            a == r.arcade
            q == IF Scores(s) /\ Heard(m) THEN <<SyncOf(a)>> ELSE <<>>
<1>1. /\ app' = [app EXCEPT ![m] = r] /\ Earn(m, s, outcome)
      /\ net' = [net EXCEPT ![m] = Tail(@),
                            ![Peer(m)] = IF Scores(s) /\ Heard(m)
                                         THEN Append(@, SyncOf(a)) ELSE @]
  BY DEF Score
<1>2. /\ app \in [Member -> Program] /\ Peer(m) \in Member /\ Peer(m) # m
      /\ net \in [Member -> Seq(Frame)] /\ net[Peer(m)] \in Seq(Frame)
      /\ net[Peer(m)] \o <<>> = net[Peer(m)]
  BY PeerIs, Machine, Nets DEF StayInv
<1>3. /\ r \in Program
      /\ r.loaded = s.loaded /\ r.group = s.group
      /\ r.role = s.role /\ r.link = s.link
      /\ r.inDuel = s.inDuel /\ r.remoteDone = s.remoteDone
      /\ Scores(s) => /\ r.loaded /\ r.auto
                      /\ \A n \in Member : Board(m)[n] <= r.arcade.board[n]
      /\ ~Scores(s) => r = s
  BY <1>1, RecordPlays
<1>. HIDE DEF r
<1>4. app'[m] = r
  BY <1>1, <1>2
<1>5. a \in Campaign
  BY <1>3 DEF Program
<1>6. q \in Seq(Frame) /\ (q # <<>> => Heard(m)) /\ (\A T : Has(q, T) => "sync" \in T)
  BY <1>5, SyncPlays, HasOne
<1>7. net' = [net EXCEPT ![m] = Tail(@), ![Peer(m)] = net[Peer(m)] \o q]
  <2>1. CASE Scores(s) /\ Heard(m)
    <3>1. Append(net[Peer(m)], SyncOf(a)) = net[Peer(m)] \o q
      BY <1>2, <1>5, <2>1, SyncPlays
    <3>. HIDE DEF q
    <3>. QED  BY <1>1, <1>2, <2>1, <3>1
  <2>2. CASE ~(Scores(s) /\ Heard(m))
    BY <1>1, <1>2, <2>2
  <2>. QED  BY <2>1, <2>2
<1>8. /\ Scores(s) => q = IF Heard(m) THEN <<SyncOf(a)>> ELSE <<>>
      /\ ~Scores(s) => q = <<>>
  OBVIOUS
<1>. HIDE DEF q, a
<1>9. Took(m) /\ net'[Peer(m)] = net[Peer(m)] \o q
  BY <1>6, <1>7, TakePlays DEF StayInv
<1>10. Plays(m, q)
  BY <1>2, <1>3, <1>4, <1>6, <1>9 DEF Plays
<1>11. Shares(m, q)
  <2>1. CASE Scores(s)
    <3>1. /\ app'[m].arcade = a /\ app'[m].loaded
          /\ \A n \in Member : Board(m)[n] <= a.board[n]
      BY <1>3, <1>4, <2>1 DEF a
    <3>. QED  BY <1>5, <1>8, <2>1, <3>1, SharesSent
  <2>2. CASE ~Scores(s)
    <3>1. app'[m].arcade = app[m].arcade /\ app'[m].loaded = app[m].loaded /\ q = <<>>
      BY <1>3, <1>4, <1>8, <2>2
    <3>. QED  BY <3>1, HasOne, SharesSame DEF StayInv
  <2>. QED  BY <2>1, <2>2
<1>12. ~Has(q, {"start", "over"})
  BY <1>6
<1>13. /\ app'[m].inDuel = s.inDuel /\ app'[m].remoteDone = s.remoteDone
       /\ Scores(s) => app'[m].auto
       /\ ~Scores(s) => app'[m] = s
  BY <1>3, <1>4
<1>. QED  BY <1>1, <1>9, <1>10, <1>11, <1>12, <1>13

\* The end arrives at the guest, who has not scored the duel yet.
LEMMA OverStays ==
    ASSUME StayInv, NEW m \in Member, GameOver(m)
    PROVE  Stays
<1>. DEFINE s == [app[m] EXCEPT !.remoteDone = TRUE]
            outcome == OutcomeFor(m, Head(net[m]).winner)
<1>1. /\ app[m].role = "client" /\ net[m] # <<>> /\ Head(net[m]).t = "over"
      /\ Score(m, s, outcome) /\ UNCHANGED <<eng, room>>
  BY DEF GameOver, Receive
<1>2. Only(m) /\ app[m] \in Program /\ net[m] \in Seq(Frame)
  BY OverSound, Machine, Nets DEF StayInv
<1>3. /\ s \in Program /\ s.arcade = app[m].arcade /\ s.loaded = app[m].loaded
      /\ s.group = app[m].group /\ s.role = app[m].role /\ s.link = app[m].link
      /\ s.remoteDone
  BY <1>2 DEF Program
<1>4. outcome \in {"win", "loss", "draw"}
  BY DEF OutcomeFor
<1>. HIDE DEF s, outcome
<1>5. PICK q : /\ Plays(m, q) /\ Shares(m, q) /\ ~Has(q, {"start", "over"})
               /\ app'[m].inDuel = s.inDuel /\ app'[m].remoteDone = s.remoteDone
               /\ Scores(s) => app'[m].auto
               /\ ~Scores(s) => app'[m] = s
               /\ Earn(m, s, outcome) /\ Took(m)
  BY <1>1, <1>2, <1>3, <1>4, ScorePlays
<1>6. NotOpen(app'[m])
  BY <1>3, <1>5 DEF NotOpen
<1>7. Has(net[m], {"over"}) /\ Client(m)
  BY <1>1, <1>2, HasTail DEF Client
<1>8. /\ scored[m] = <<>> /\ InOrder(net[m])
      /\ room.full => ~app[Peer(m)].inDuel /\ eng[Peer(m)].st # "none"
  BY <1>7 DEF StayInv, OnceInv, Once, Ended
<1>9. ~Has(net'[m], {"start", "over"})
  BY <1>1, <1>2, <1>5, <1>8, OrderTail DEF Took
<1>10. scored'[Peer(m)] = scored[Peer(m)] /\ (scored'[m] = scored[m] \/ Len(scored'[m]) = 1)
  <2>1. /\ scored'[Peer(m)] = scored[Peer(m)]
        /\ scored'[m] = IF Scores(s) /\ s.role = "client"
                        THEN Append(scored[m], outcome) ELSE scored[m]
    BY <1>5, EarnPlays
  <2>2. Len(Append(scored[m], outcome)) = 1
    BY <1>8, ScoredOnce
  <2>. QED  BY <2>1, <2>2
<1>11. Len(scored'[m]) <= 1 /\ Once(m)'
  BY <1>5, <1>6, <1>8, <1>9, <1>10, OnceOwn DEF StayInv
<1>. QED  BY <1>1, <1>5, <1>10, <1>11, StayPlays

\* The other one has gone: the one left behind scores an open duel, and no end
\* will follow.
LEMMA QuitStays ==
    ASSUME StayInv, NEW m \in Member, PeerQuit(m)
    PROVE  Stays
<1>. DEFINE s == app[m]
            t == [s EXCEPT !.ready = @ /\ Head(net[m]).t = "bye"]
<1>1. /\ IF PeerQuitCounts(m, s) THEN Score(m, t, "win")
         ELSE /\ net' = [net EXCEPT ![m] = Tail(@)]
              /\ app' = [app EXCEPT ![m] = t]
              /\ UNCHANGED <<save, earned, scored>>
      /\ net[m] # <<>> /\ UNCHANGED <<eng, room>> /\ s.role # "offline"
      /\ Head(net[m]).t \in {"bye", "closed"}
  BY DEF PeerQuit, Receive
<1>2. /\ Only(m) /\ s \in Program /\ net[m] \in Seq(Frame) /\ app \in [Member -> Program]
  BY QuitSound, Machine, Nets DEF StayInv
<1>3. /\ t \in Program /\ t.arcade = s.arcade /\ t.loaded = s.loaded
      /\ t.group = s.group /\ t.role = s.role /\ t.link = s.link
      /\ t.inDuel = s.inDuel /\ t.auto = s.auto /\ t.remoteDone = s.remoteDone
  BY <1>2 DEF Program
<1>. HIDE DEF t
<1>4. CASE ~PeerQuitCounts(m, s)
  <2>1. app'[m] = t
    BY <1>1, <1>2, <1>4
  <2>2. <<>> \in Seq(Frame) /\ \A T : ~Has(<<>>, T)
    BY HasOne
  <2>3. Took(m) /\ net'[Peer(m)] = net[Peer(m)] \o <<>>
    BY <1>1, <1>4, <2>2, TakePlays DEF StayInv
  <2>4. Plays(m, <<>>)
    BY <1>1, <1>2, <1>3, <2>1, <2>2, <2>3 DEF Plays
  <2>5. Shares(m, <<>>)
    BY <1>1, <1>3, <2>1, <2>2, SharesSame DEF StayInv
  <2>6. app'[m].inDuel = app[m].inDuel /\ (NotOpen(app[m]) => NotOpen(app'[m]))
    BY <1>3, <2>1 DEF NotOpen
  <2>. QED  BY <1>1, <1>4, <2>2, <2>4, <2>5, <2>6, StayQuiet, ClosedIs DEF StayInv
<1>5. CASE PeerQuitCounts(m, s)
  <2>1. /\ Score(m, t, "win") /\ s.group /\ s.loaded /\ s.inDuel /\ ~s.auto
        /\ Undecided(m, s)
    BY <1>1, <1>5 DEF PeerQuitCounts, OpenDuel
  <2>2. Scores(t)
    BY <1>3, <2>1 DEF Scores
  <2>3. Head(net[m]).t \notin {"sync", "joined"}
    BY <1>1
  <2>4. PICK q : /\ Plays(m, q) /\ Shares(m, q) /\ ~Has(q, {"start", "over"})
                 /\ app'[m].inDuel = t.inDuel /\ app'[m].remoteDone = t.remoteDone
                 /\ Scores(t) => app'[m].auto
                 /\ ~Scores(t) => app'[m] = t
                 /\ Earn(m, t, "win") /\ Took(m)
    BY <1>1, <1>2, <1>3, <2>1, <2>3, ScorePlays
  <2>5. NotOpen(app'[m])
    BY <2>2, <2>4 DEF NotOpen
  <2>6. ASSUME Client(m)
        PROVE  /\ scored[m] = <<>> /\ ~room.full
               /\ ~Has(net'[m], {"start", "over"})
    <3>1. ~NotOpen(app[m])
      BY <2>1, <2>6 DEF NotOpen, Undecided, Client
    <3>2. Has(net[m], {"bye", "closed"})
      BY <1>1, <1>2, HasTail
    <3>3. scored[m] = <<>> /\ ~room.full /\ InOrder(net[m])
      BY <2>6, <3>1, <3>2 DEF StayInv, OnceInv, Once
    <3>. QED  BY <1>1, <1>2, <2>4, <3>3, OrderTail DEF Took
  <2>7. /\ scored'[Peer(m)] = scored[Peer(m)]
        /\ Client(m) => Len(scored'[m]) = 1
        /\ ~Client(m) => scored'[m] = scored[m]
    <3>1. /\ scored'[Peer(m)] = scored[Peer(m)]
          /\ scored'[m] = IF Scores(t) /\ t.role = "client"
                          THEN Append(scored[m], "win") ELSE scored[m]
      BY <2>4, EarnPlays
    <3>2. Client(m) => Len(Append(scored[m], "win")) = 1
      BY <2>6, ScoredOnce
    <3>3. t.role = "client" <=> Client(m)
      BY <1>3 DEF Client
    <3>. QED  BY <2>2, <3>1, <3>2, <3>3
  <2>8. Len(scored'[m]) <= 1 /\ Once(m)'
    BY <2>4, <2>5, <2>6, <2>7, OnceOwn DEF StayInv
  <2>9. app'[m].inDuel = app[m].inDuel /\ UNCHANGED eng
    BY <1>1, <1>3, <2>4
  <2>. QED  BY <2>4, <2>7, <2>8, <2>9, StayPlays
<1>. QED  BY <1>4, <1>5

\* Two frames.
LEMMA TwoFrames ==
    ASSUME NEW S, NEW a \in S, NEW b \in S
    PROVE  <<a>> \o <<b>> = <<a, b>>
<1>. DEFINE c == <<a>> \o <<b>>
            d == <<a, b>>
<1>1. c \in Seq(S) /\ Len(c) = 2 /\ c[1] = a /\ c[2] = b
  OBVIOUS
<1>2. d \in Seq(S) /\ Len(d) = 2 /\ d[1] = a /\ d[2] = b
  OBVIOUS
<1>. HIDE DEF c, d
<1>3. \A i \in 1..Len(c) : c[i] = d[i]
  <2>1. \A i \in 1..2 : i = 1 \/ i = 2
    OBVIOUS
  <2>. QED  BY <1>1, <1>2, <2>1
<1>4. c = d
  BY <1>1, <1>2, <1>3, SeqEqual
<1>. QED  BY <1>4 DEF c, d

\* The host's pump finds the end: it is sent once, to a guest who has not scored.
LEMMA PumpStays ==
    ASSUME StayInv, NEW m \in Member, HostPump(m)
    PROVE  Stays
<1>. DEFINE p == Peer(m)
            w == eng[m].winner
            outcome == OutcomeFor(m, w)
            s == app[m]
            r == AutoRecord(m, s, outcome)
            t == EndOfDuel(r)
            over == [t |-> "over", winner |-> w]
            sync == SyncOf(r.arcade)
            frames == <<over>> \o IF Scores(s) THEN <<sync>> ELSE <<>>
            out == IF Heard(m) THEN frames ELSE <<>>
<1>1. /\ app' = [app EXCEPT ![m] = t] /\ s.role = "host" /\ s.inDuel
      /\ eng[m].st = "done"
      /\ net' = IF Heard(m) THEN Send(net, Peer(m), frames) ELSE net
      /\ Earn(m, s, outcome) /\ UNCHANGED <<eng, room>>
  BY DEF HostPump
<1>2. /\ Only(m) /\ s \in Program /\ app \in [Member -> Program]
      /\ p \in Member /\ p # m /\ Peer(p) = m /\ eng \in [Member -> Engine]
      /\ net[p] \in Seq(Frame)
      /\ s.loaded /\ s.group
  BY <1>1, PumpSound, Machine, Nets, PeerTwice DEF StayInv, Roles
<1>3. outcome \in {"win", "loss", "draw"} /\ w \in Winner
  BY <1>2 DEF OutcomeFor, Engine
<1>4. Scores(s)
  BY <1>2 DEF Scores
<1>. HIDE DEF outcome, w
<1>5. /\ r \in Program /\ r.loaded /\ r.group = s.group /\ r.role = s.role /\ r.link = s.link
      /\ \A n \in Member : Board(m)[n] <= r.arcade.board[n]
  <2>1. s \in Program /\ s.arcade = app[m].arcade /\ Earn(m, s, outcome)
    BY <1>1, <1>2
  <2>. HIDE DEF s
  <2>2. /\ r \in Program
        /\ r.loaded = s.loaded /\ r.group = s.group
        /\ r.role = s.role /\ r.link = s.link
        /\ r.inDuel = s.inDuel /\ r.remoteDone = s.remoteDone
        /\ Scores(s) => /\ r.loaded /\ r.auto
                        /\ \A n \in Member : Board(m)[n] <= r.arcade.board[n]
        /\ ~Scores(s) => r = s
    BY <1>3, <2>1, RecordPlays
  <2>. QED  BY <1>4, <2>2
<1>. HIDE DEF r
<1>6. /\ t.arcade = r.arcade /\ t.loaded = r.loaded /\ t.group = r.group
      /\ t.role = r.role /\ t.link = r.link /\ ~t.inDuel
  BY <1>5 DEF EndOfDuel, Program
<1>. HIDE DEF t
<1>7. app'[m] = t
  BY <1>1, <1>2
<1>8. over \in Frame /\ over.t = "over"
  BY <1>3 DEF Frame
<1>9. sync \in Frame /\ sync.t = "sync" /\ sync.board = r.arcade.board
  <2>1. r.arcade \in Campaign
    BY <1>5 DEF Program
  <2>. QED  BY <2>1, SyncPlays
<1>. HIDE DEF over, sync
<1>10. frames = <<over, sync>>
  <2>1. frames = <<over>> \o <<sync>>
    BY <1>4
  <2>2. <<over>> \o <<sync>> = <<over, sync>>
    BY <1>8, <1>9, TwoFrames
  <2>. HIDE DEF frames
  <2>. QED  BY <2>1, <2>2
<1>. HIDE DEF frames
<1>11. frames \in Seq(Frame) /\ \A T : Has(frames, T) <=> "over" \in T \/ "sync" \in T
  <2>1. <<over, sync>> \in Seq(Frame)
    BY <1>8, <1>9
  <2>2. \A T : Has(<<over, sync>>, T) <=> over.t \in T \/ sync.t \in T
    BY DEF Has
  <2>. QED  BY <1>8, <1>9, <1>10, <2>1, <2>2
<1>12. \A i \in DOMAIN frames : frames[i].t = "sync" => frames[i].board = r.arcade.board
  <2>1. \A i \in DOMAIN <<over, sync>> :
           <<over, sync>>[i] = over \/ <<over, sync>>[i] = sync
    OBVIOUS
  <2>. QED  BY <1>8, <1>9, <1>10, <2>1
<1>13. /\ out \in Seq(Frame) /\ (out # <<>> => Heard(m))
       /\ net'[m] = net[m] /\ net'[p] = net[p] \o out
  BY <1>1, <1>11, SendPlays DEF StayInv
<1>14. /\ Heard(m) => out = frames
       /\ ~Heard(m) => out = <<>> /\ \A T : ~Has(out, T)
  BY HasOne
<1>. HIDE DEF out
<1>15. \A T : Has(out, T) => "over" \in T \/ "sync" \in T
  BY <1>11, <1>14
<1>16. Plays(m, out)
  BY <1>1, <1>2, <1>5, <1>6, <1>7, <1>13, <1>15 DEF Plays
<1>17. Shares(m, out)
  <2>1. Board(m)' = r.arcade.board /\ app'[m].loaded
    BY <1>5, <1>6, <1>7 DEF Board
  <2>2. ~Took(m)
    BY <1>13, NotTaken DEF StayInv
  <2>3. Heard(m) => Has(out, {"sync"})
    BY <1>11, <1>14
  <2>4. \A i \in DOMAIN out : out[i].t = "sync" => out[i].board = Board(m)'
    BY <1>12, <1>14, <2>1 DEF Has
  <2>. QED  BY <1>5, <2>1, <2>2, <2>3, <2>4 DEF Shares
<1>18. scored'[p] = scored[p] /\ scored'[m] = scored[m]
  BY <1>1, EarnPlays
<1>19. Len(scored'[m]) <= 1 /\ Once(m)'
  BY <1>1, <1>16, <1>18, OnceOwn DEF StayInv, Client
<1>20. CASE ~room.full
  <2>1. ~Has(out, {"start", "over"})
    BY <1>14, <1>20 DEF Heard
  <2>. QED  BY <1>16, <1>17, <1>18, <1>19, <1>20, <2>1, StayPlays
<1>21. CASE room.full
  <2>1. Client(p) /\ Heard(m)
    BY <1>1, <1>2, <1>21, FullIs DEF StayInv, Client
  <2>2. Once(p) /\ Len(scored[p]) <= 1
    BY <1>2 DEF StayInv, OnceInv
  <2>3. /\ ~Has(net[p], {"over"}) /\ scored[p] = <<>> /\ ~Has(net[p], {"bye", "closed"})
        /\ InOrder(net[p])
    BY <1>1, <1>2, <1>21, <2>1, <2>2 DEF Once, Ended
  <2>4. ~Has(net[p], {"over", "bye", "closed"})
    BY <2>3 DEF Has
  <2>5. ~Has(net'[p], {"bye", "closed"})
    <3>1. ~Has(out, {"bye", "closed"})
      BY <1>15
    <3>2. net'[p] = net[p] \o out /\ net[p] \in Seq(Frame) /\ out \in Seq(Frame)
      BY <1>2, <1>13
    <3>. QED  BY <2>3, <3>1, <3>2, HasConcat
  <2>6. InOrder(net'[p])
    <3>1. InOrder(<<over, sync>>)
      <4>1. \A i, j \in DOMAIN <<over, sync>> : i < j => <<over, sync>>[j] = sync
        OBVIOUS
      <4>. QED  BY <1>9, <4>1 DEF InOrder
    <3>. QED  BY <1>2, <1>10, <1>13, <1>14, <2>1, <2>3, <2>4, <3>1, OrderConcat
  <2>7. ~app'[m].inDuel /\ eng'[m].st # "none"
    BY <1>1, <1>6, <1>7
  <2>8. Once(p)' /\ Len(scored'[p]) <= 1
    BY <1>2, <1>18, <2>2, <2>3, <2>5, <2>6, <2>7 DEF Once, Ended
  <2>9. OnceInv'
    BY <1>19, <2>8, PeerIs DEF OnceInv
  <2>. QED  BY <1>16, <1>17, <2>9, RolesPlays, ToldPlays DEF StayInv, Stays
<1>. QED  BY <1>20, <1>21

-----------------------------------------------------------------------------
(* Leaving, and coming.                                                    *)

\* Machine m is in no room any more; what it sent last, out, is behind the rest,
\* and of the rest a few boards may be missing.
Rest(m, kept) ==
    /\ kept \in Seq(Frame)
    /\ \E k \in 0..Len(net[Peer(m)]) :
         /\ kept = SubSeq(net[Peer(m)], 1, k)
         /\ \A i \in DOMAIN net[Peer(m)] : i > k => net[Peer(m)][i].t = "sync"
Goes(m, out) ==
    /\ Only(m) /\ out \in Seq(Frame) /\ RoomLoses(m)
    /\ \E kept : Rest(m, kept) /\ net'[Peer(m)] = kept \o out
    /\ out # <<>> => room.full
    /\ ~Has(out, {"start"}) /\ ~Has(out, {"over"})
    /\ scored'[Peer(m)] = scored[Peer(m)] /\ eng'[Peer(m)] = eng[Peer(m)]
    /\ Len(scored'[m]) <= 1

\* It is offline, or it has only lost the end of its channel.
Home(m) ==
    /\ app'[m].role = "offline" /\ net'[m] = <<>> /\ ~app'[m].inDuel
    /\ eng'[m].st = "none"
Cut(m) ==
    /\ app'[m].role = app[m].role /\ app'[m].loaded = app[m].loaded
    /\ app'[m].group = app[m].group /\ app'[m].inDuel = app[m].inDuel
    /\ NotOpen(app[m]) => NotOpen(app'[m])
    /\ eng'[m] = eng[m] /\ scored'[m] = scored[m]
    /\ \E k \in 0..Len(net[m]) : net'[m] = SubSeq(net[m], 1, k)

\* The room after one has gone.
LEMMA RoomAfter ==
    ASSUME StayInv, NEW m \in Member, RoomLoses(m)
    PROVE  /\ ~room'.full
           /\ room'.host # "none" => room'.host = room.host /\ room.host \in Member
                                     /\ room.host # m
<1>1. room \in [host : Member \cup {"none"}, full : BOOLEAN]
  BY Machine DEF StayInv
<1>. QED  BY <1>1 DEF RoomLoses, NoRoom

\* A channel without its last boards starts and ends as many duels.
LEMMA RestIs ==
    ASSUME StayInv, NEW m \in Member, NEW kept, Rest(m, kept)
    PROVE  /\ Has(kept, {"start"}) <=> Has(net[Peer(m)], {"start"})
           /\ Has(kept, {"over"}) <=> Has(net[Peer(m)], {"over"})
           /\ InOrder(net[Peer(m)]) => InOrder(kept)
           /\ net[Peer(m)] = <<>> => kept = <<>>
<1>. DEFINE s == net[Peer(m)]
<1>1. s \in Seq(Frame)
  BY Nets, PeerIs DEF StayInv
<1>2. PICK k \in 0..Len(s) : /\ kept = SubSeq(s, 1, k)
                             /\ \A i \in DOMAIN s : i > k => s[i].t = "sync"
  BY DEF Rest
<1>. HIDE DEF s
<1>3. /\ \A i \in DOMAIN s : i <= k => i \in DOMAIN kept /\ kept[i] = s[i]
      /\ \A i \in DOMAIN s : i \in Nat
      /\ k \in Nat
  BY <1>1, <1>2, SubSeqProperties
<1>4. ASSUME NEW T, "sync" \notin T PROVE Has(kept, T) <=> Has(s, T)
  <2>1. Has(kept, T) => Has(s, T)
    BY <1>1, <1>2, HasPrefix
  <2>2. ASSUME NEW i \in DOMAIN s, s[i].t \in T PROVE Has(kept, T)
    <3>1. ~(i > k)
      BY <1>2, <1>4, <2>2
    <3>2. i <= k
      BY <1>3, <3>1
    <3>. QED  BY <1>3, <2>2, <3>2 DEF Has
  <2>. QED  BY <2>1, <2>2 DEF Has
<1>5. InOrder(s) => InOrder(kept)
  BY <1>1, <1>2, OrderPrefix
<1>6. s = <<>> => kept = <<>>
  BY <1>1, <1>2
<1>7. (Has(kept, {"start"}) <=> Has(s, {"start"}))
      /\ (Has(kept, {"over"}) <=> Has(s, {"over"}))
  BY <1>4
<1>. QED  BY <1>5, <1>6, <1>7 DEF s

\* A channel that has lost nothing.
LEMMA RestAll ==
    ASSUME StayInv, NEW m \in Member
    PROVE  Rest(m, net[Peer(m)])
<1>. DEFINE s == net[Peer(m)]
<1>1. s \in Seq(Frame)
  BY Nets, PeerIs DEF StayInv
<1>2. /\ s = SubSeq(s, 1, Len(s)) /\ Len(s) \in 0..Len(s)
      /\ \A i \in DOMAIN s : ~(i > Len(s))
  BY <1>1, SubSeqProperties
<1>. QED  BY <1>1, <1>2 DEF Rest

\* Whoever goes, the invariants stay.
LEMMA StayGoes ==
    ASSUME StayInv, NEW m \in Member, NEW out, Goes(m, out), Home(m) \/ Cut(m)
    PROVE  Stays
<1>. DEFINE p == Peer(m)
<1>1. p \in Member /\ p # m /\ Peer(p) = m /\ \A n \in Member : n = m \/ n = p
  BY PeerTwice, PeerIs
<1>0. PICK kept : Rest(m, kept) /\ net'[p] = kept \o out
  BY DEF Goes
<1>2. /\ app'[p] = app[p] /\ net[p] \in Seq(Frame) /\ net[m] \in Seq(Frame)
      /\ out \in Seq(Frame) /\ net'[p] = kept \o out /\ kept \in Seq(Frame)
      /\ Has(kept, {"start"}) <=> Has(net[p], {"start"})
      /\ Has(kept, {"over"}) <=> Has(net[p], {"over"})
      /\ InOrder(net[p]) => InOrder(kept)
      /\ net[p] = <<>> => kept = <<>>
  <2>1. /\ app'[p] = app[p] /\ net[p] \in Seq(Frame) /\ net[m] \in Seq(Frame)
        /\ out \in Seq(Frame) /\ kept \in Seq(Frame)
    BY <1>0, <1>1, Nets DEF StayInv, Goes, Only, Rest
  <2>. QED  BY <1>0, <2>1, RestIs
<1>3. ~room'.full /\ (room'.host # "none" => room'.host = room.host /\ room.host = p)
  BY <1>1, RoomAfter DEF Goes
<1>4. Rooms'
  BY <1>2, <1>3 DEF StayInv, Rooms, Linked
<1>5. ToldInv'
  BY <1>3 DEF ToldInv
<1>6. app[p].role = "offline" => net'[p] = <<>> /\ ~app'[p].inDuel /\ eng'[p].st = "none"
  <2>1. app[p].role = "offline" => out = <<>>
    BY <1>1, FullIs DEF Goes, StayInv
  <2>2. <<>> \o <<>> = <<>>
    OBVIOUS
  <2>. QED  BY <1>1, <1>2, <2>1, <2>2 DEF StayInv, Roles, Goes
<1>7. app[p].role = "host" => /\ app'[p].loaded /\ app'[p].group
                              /\ ~Has(net'[p], {"start"})
  BY <1>1, <1>2, HasConcat DEF StayInv, Roles, Goes
<1>8. /\ Has(net'[p], {"start"}) <=> Has(net[p], {"start"})
      /\ Has(net'[p], {"over"}) <=> Has(net[p], {"over"})
  BY <1>2, HasConcat DEF Goes
<1>9. InOrder(net[p]) => InOrder(net'[p])
  <2>1. ~Has(out, {"start", "over"})
    BY DEF Goes, Has
  <2>2. InOrder(out)
    BY <2>1 DEF InOrder, Has
  <2>. QED  BY <1>2, <2>1, <2>2, OrderConcat
<1>10. Len(scored'[p]) <= 1 /\ Once(p)'
  <2>1. Len(scored[p]) <= 1 /\ Once(p)
    BY <1>1 DEF StayInv, OnceInv
  <2>. QED  BY <1>2, <1>3, <1>8, <1>9, <2>1 DEF Goes, Once, Client
<1>11. CASE Home(m)
  <2>1. Roles'
    BY <1>1, <1>2, <1>6, <1>7, <1>11 DEF Roles, Home
  <2>2. Once(m)'
    BY <1>11 DEF Once, Client, Home
  <2>3. OnceInv'
    BY <1>1, <1>10, <2>2 DEF OnceInv, Goes
  <2>. QED  BY <1>4, <1>5, <2>1, <2>3 DEF Stays
<1>12. CASE Cut(m)
  <2>1. PICK k \in 0..Len(net[m]) : net'[m] = SubSeq(net[m], 1, k)
    BY <1>12 DEF Cut
  <2>2. \A T : Has(net'[m], T) => Has(net[m], T)
    BY <1>2, <2>1, HasPrefix
  <2>3. InOrder(net[m]) => InOrder(net'[m])
    BY <1>2, <2>1, OrderPrefix
  <2>4. net[m] = <<>> => net'[m] = <<>>
    BY <1>2, <2>1
  <2>5. /\ app'[m].role = "offline" => /\ net'[m] = <<>> /\ ~app'[m].inDuel
                                       /\ eng'[m].st = "none"
        /\ app'[m].role = "host" => /\ app'[m].loaded /\ app'[m].group
                                    /\ ~Has(net'[m], {"start"})
    BY <1>12, <2>2, <2>4 DEF StayInv, Roles, Cut
  <2>6. Roles'
    BY <1>1, <1>2, <1>6, <1>7, <2>5 DEF Roles
  <2>7. Once(m)
    BY DEF StayInv, OnceInv
  <2>8. Once(m)'
    BY <1>3, <1>12, <2>2, <2>3, <2>7 DEF Once, Client, Cut
  <2>9. OnceInv'
    BY <1>1, <1>10, <2>8 DEF OnceInv, Goes
  <2>. QED  BY <1>4, <1>5, <2>6, <2>9 DEF Stays
<1>. QED  BY <1>11, <1>12

\* What a leaving program still gets through, and the relay's notice.
LEMMA DepartsPlays ==
    ASSUME StayInv, NEW m \in Member, NEW frames \in Seq(Frame), Departs(m, frames),
           ~Has(frames, {"start"}), ~Has(frames, {"over"})
    PROVE  \E out \in Seq(Frame) :
              /\ net'[m] = <<>> /\ net'[Peer(m)] = net[Peer(m)] \o out
              /\ out # <<>> => room.full
              /\ ~Has(out, {"start"}) /\ ~Has(out, {"over"})
<1>. DEFINE p == Peer(m)
            q == <<[t |-> "closed"]>>
<1>1. PICK sent \in Farewell(frames) :
          net' = [net EXCEPT ![m] = <<>>,
                             ![p] = IF Heard(m) THEN @ \o sent \o q ELSE @]
  BY DEF Departs
<1>2. PICK k \in 0..Len(frames) : sent = SubSeq(frames, 1, k)
  BY DEF Farewell
<1>3. sent \in Seq(Frame) /\ ~Has(sent, {"start"}) /\ ~Has(sent, {"over"})
  BY <1>2, HasPrefix, SubSeqProperties
<1>4. q \in Seq(Frame) /\ ~Has(q, {"start"}) /\ ~Has(q, {"over"})
  BY SignalPlays DEF Signal
<1>5. /\ net \in [Member -> Seq(Frame)] /\ p \in Member /\ p # m
      /\ net[p] \in Seq(Frame) /\ net[p] \o <<>> = net[p]
  BY Nets, PeerIs DEF StayInv
<1>. HIDE DEF q
<1>6. CASE Heard(m)
  <2>. DEFINE out == sent \o q
  <2>1. out \in Seq(Frame) /\ ~Has(out, {"start"}) /\ ~Has(out, {"over"})
    BY <1>3, <1>4, HasConcat
  <2>2. net'[m] = <<>> /\ net'[p] = net[p] \o sent \o q
    BY <1>1, <1>5, <1>6
  <2>3. net[p] \o sent \o q = net[p] \o out
    BY <1>3, <1>4, <1>5, ConcatAssociative, SMTT(30)
  <2>. QED  BY <1>6, <2>1, <2>2, <2>3 DEF Heard
<1>7. CASE ~Heard(m)
  <2>1. net'[m] = <<>> /\ net'[p] = net[p] \o <<>>
    BY <1>1, <1>5, <1>7
  <2>2. <<>> \in Seq(Frame) /\ ~Has(<<>>, {"start"}) /\ ~Has(<<>>, {"over"})
    BY HasOne
  <2>. QED  BY <2>1, <2>2
<1>. QED  BY <1>6, <1>7

\* The one who leaves an open duel has not scored it before.
LEMMA LeaveStays ==
    ASSUME StayInv, NEW m \in Member, Leave(m)
    PROVE  Stays
<1>. DEFINE s == app[m]
            quits == OpenDuel(m, s)
            r == IF quits THEN AutoRecord(m, s, "loss") ELSE s
            t == [EndOfDuel(r) EXCEPT !.role = "offline", !.link = "none", !.ready = FALSE]
            frames == (IF quits THEN <<SyncOf(r.arcade)>> ELSE <<>>) \o <<[t |-> "bye"]>>
<1>1. /\ app' = [app EXCEPT ![m] = t]
      /\ Departs(m, frames)
      /\ IF quits THEN Earn(m, s, "loss") ELSE UNCHANGED <<earned, scored>>
      /\ RoomLoses(m) /\ EngineGoes(m)
  BY DEF Leave
<1>2. /\ Only(m) /\ s \in Program /\ app \in [Member -> Program]
      /\ eng \in [Member -> Engine] /\ Peer(m) \in Member /\ Peer(m) # m
      /\ scored \in [Member -> Seq({"win", "loss", "draw"})]
  BY LeaveSound, Machine, PeerIs DEF StayInv
<1>3. quits => s.inDuel /\ ~s.auto /\ Undecided(m, s)
  BY DEF OpenDuel
<1>. HIDE DEF quits
<1>4. r \in Program
  <2>1. CASE quits
    <3>1. s \in Program /\ s.arcade = app[m].arcade /\ Earn(m, s, "loss")
      BY <1>1, <1>2, <2>1
    <3>. HIDE DEF s
    <3>2. AutoRecord(m, s, "loss") \in Program
      BY <3>1, RecordPlays
    <3>. QED  BY <2>1, <3>2
  <2>2. CASE ~quits
    BY <1>2, <2>2
  <2>. QED  BY <2>1, <2>2
<1>. HIDE DEF r
<1>5. t.role = "offline" /\ ~t.inDuel
  <2>1. EndOfDuel(r) \in Program /\ ~EndOfDuel(r).inDuel
    BY <1>4 DEF EndOfDuel, Program
  <2>. QED  BY <2>1 DEF Program
<1>. HIDE DEF t
<1>6. app'[m] = t
  BY <1>1, <1>2
<1>7. frames \in Seq(Frame) /\ ~Has(frames, {"start"}) /\ ~Has(frames, {"over"})
  <2>. DEFINE bye == <<[t |-> "bye"]>>
              sync == <<SyncOf(r.arcade)>>
  <2>1. bye \in Seq(Frame) /\ ~Has(bye, {"start"}) /\ ~Has(bye, {"over"})
    BY SignalPlays DEF Signal
  <2>2. sync \in Seq(Frame) /\ ~Has(sync, {"start"}) /\ ~Has(sync, {"over"})
    <3>1. r.arcade \in Campaign
      BY <1>4 DEF Program
    <3>. QED  BY <3>1, SyncPlays, HasOne
  <2>3. <<>> \in Seq(Frame) /\ ~Has(<<>>, {"start"}) /\ ~Has(<<>>, {"over"})
    BY HasOne
  <2>4. frames = (IF quits THEN sync ELSE <<>>) \o bye
    OBVIOUS
  <2>. HIDE DEF bye, sync, frames
  <2>5. CASE quits
    BY <2>1, <2>2, <2>4, <2>5, HasConcat
  <2>6. CASE ~quits
    BY <2>1, <2>3, <2>4, <2>6, HasConcat
  <2>. QED  BY <2>5, <2>6
<1>. HIDE DEF frames
<1>8. PICK out \in Seq(Frame) :
          /\ net'[m] = <<>> /\ net'[Peer(m)] = net[Peer(m)] \o out
          /\ out # <<>> => room.full
          /\ ~Has(out, {"start"}) /\ ~Has(out, {"over"})
  BY <1>1, <1>7, DepartsPlays
<1>9. eng'[m].st = "none" /\ eng'[Peer(m)] = eng[Peer(m)]
  BY <1>1, <1>2 DEF EngineGoes, NoEngine
<1>10. scored'[Peer(m)] = scored[Peer(m)] /\ Len(scored'[m]) <= 1
  <2>1. Len(scored[m]) <= 1 /\ Once(m)
    BY DEF StayInv, OnceInv
  <2>2. CASE quits
    <3>1. /\ scored'[Peer(m)] = scored[Peer(m)]
          /\ scored'[m] = IF Scores(s) /\ s.role = "client"
                          THEN Append(scored[m], "loss") ELSE scored[m]
      BY <1>1, <2>2, EarnPlays
    <3>2. s.role = "client" => scored[m] = <<>>
      BY <1>3, <2>1, <2>2 DEF Once, Client, NotOpen, Undecided
    <3>3. s.role = "client" => Len(Append(scored[m], "loss")) = 1
      BY <3>2, ScoredOnce
    <3>4. CASE Scores(s) /\ s.role = "client"
      BY <3>1, <3>3, <3>4
    <3>5. CASE ~(Scores(s) /\ s.role = "client")
      BY <2>1, <3>1, <3>5
    <3>. QED  BY <3>4, <3>5
  <2>3. CASE ~quits
    BY <1>1, <2>1, <2>3
  <2>. QED  BY <2>2, <2>3
<1>11. Goes(m, out)
  BY <1>1, <1>2, <1>8, <1>9, <1>10, RestAll DEF Goes
<1>12. Home(m)
  BY <1>5, <1>6, <1>8, <1>9 DEF Home
<1>. QED  BY <1>11, <1>12, StayGoes

\* A killed program scores nothing.
LEMMA KilledStays ==
    ASSUME StayInv, NEW m \in Member, Killed(m)
    PROVE  Stays
<1>1. /\ app' = [app EXCEPT ![m] = AppInit] /\ UNCHANGED scored
      /\ Departs(m, <<>>) /\ RoomLoses(m) /\ EngineGoes(m)
  BY DEF Killed, Dies
<1>2. /\ Only(m) /\ app \in [Member -> Program]
      /\ eng \in [Member -> Engine] /\ Peer(m) \in Member /\ Peer(m) # m
  BY KilledSound, Machine, PeerIs DEF StayInv
<1>3. <<>> \in Seq(Frame) /\ ~Has(<<>>, {"start"}) /\ ~Has(<<>>, {"over"})
  BY HasOne
<1>4. PICK out \in Seq(Frame) :
          /\ net'[m] = <<>> /\ net'[Peer(m)] = net[Peer(m)] \o out
          /\ out # <<>> => room.full
          /\ ~Has(out, {"start"}) /\ ~Has(out, {"over"})
  BY <1>1, <1>3, DepartsPlays
<1>5. eng'[m].st = "none" /\ eng'[Peer(m)] = eng[Peer(m)]
  BY <1>1, <1>2 DEF EngineGoes, NoEngine
<1>6. app'[m].role = "offline" /\ ~app'[m].inDuel
  BY <1>1, <1>2 DEF AppInit
<1>7. Len(scored[m]) <= 1
  BY DEF StayInv, OnceInv
<1>8. Goes(m, out)
  BY <1>1, <1>2, <1>4, <1>5, <1>7, RestAll DEF Goes
<1>9. Home(m)
  BY <1>4, <1>5, <1>6 DEF Home
<1>. QED  BY <1>8, <1>9, StayGoes

\* Nor does one that is killed inside a save; the board that would have followed it
\* is not sent.
LEMMA TornStays ==
    ASSUME StayInv, NEW m \in Member, KilledSaving(m)
    PROVE  Stays
<1>. DEFINE p == Peer(m)
            out == IF Heard(m) THEN <<[t |-> "closed"]>> ELSE <<>>
<1>1. /\ app' = [app EXCEPT ![m] = AppInit] /\ UNCHANGED scored
      /\ RoomLoses(m) /\ EngineGoes(m)
  BY DEF KilledSaving, Dies
<1>2. /\ Only(m) /\ app \in [Member -> Program]
      /\ eng \in [Member -> Engine] /\ p \in Member /\ p # m
      /\ net \in [Member -> Seq(Frame)] /\ net[p] \in Seq(Frame)
  BY TornSound, Machine, PeerIs, Nets DEF StayInv
<1>3. PICK left \in Unsent(net[p]) :
          net' = [net EXCEPT ![m] = <<>>,
                             ![p] = IF Heard(m) THEN Append(left, [t |-> "closed"]) ELSE @]
  BY DEF KilledSaving
<1>4. /\ left \in Seq(Frame)
      /\ \E k \in 0..Len(net[p]) :
            /\ left = SubSeq(net[p], 1, k)
            /\ \A i \in DOMAIN net[p] : i > k => net[p][i].t = "sync"
  BY <1>2, UnsentIs
<1>5. net'[m] = <<>> /\ \E kept : Rest(m, kept) /\ net'[p] = kept \o out
  <2>1. CASE Heard(m)
    <3>1. net'[m] = <<>> /\ net'[p] = Append(left, [t |-> "closed"])
      BY <1>2, <1>3, <2>1
    <3>2. Append(left, [t |-> "closed"]) = left \o <<[t |-> "closed"]>>
      BY <1>4
    <3>3. Rest(m, left)
      BY <1>4 DEF Rest
    <3>. QED  BY <2>1, <3>1, <3>2, <3>3
  <2>2. CASE ~Heard(m)
    <3>1. net'[m] = <<>> /\ net'[p] = net[p] /\ net[p] \o <<>> = net[p]
      BY <1>2, <1>3, <2>2
    <3>. QED  BY <2>2, <3>1, RestAll
  <2>. QED  BY <2>1, <2>2
<1>6. /\ out \in Seq(Frame) /\ (out # <<>> => room.full)
      /\ ~Has(out, {"start"}) /\ ~Has(out, {"over"})
  BY SignalPlays, HasOne DEF Signal, Heard
<1>. HIDE DEF out
<1>7. eng'[m].st = "none" /\ eng'[p] = eng[p]
  BY <1>1, <1>2 DEF EngineGoes, NoEngine
<1>8. app'[m].role = "offline" /\ ~app'[m].inDuel
  BY <1>1, <1>2 DEF AppInit
<1>9. Len(scored[m]) <= 1
  BY DEF StayInv, OnceInv
<1>10. Goes(m, out)
  BY <1>1, <1>2, <1>5, <1>6, <1>7, <1>9 DEF Goes
<1>11. Home(m)
  BY <1>5, <1>7, <1>8 DEF Home
<1>. QED  BY <1>10, <1>11, StayGoes

\* A broken link loses the end of a channel.
LEMMA BreaksStays ==
    ASSUME StayInv, NEW m \in Member, LinkBreaks(m)
    PROVE  Stays
<1>. DEFINE p == Peer(m)
            t == [app[m] EXCEPT !.link = "lost"]
            out == IF room.full THEN <<[t |-> "closed"]>> ELSE <<>>
<1>1. /\ app' = [app EXCEPT ![m] = t] /\ UNCHANGED <<eng, scored>> /\ RoomLoses(m)
      /\ \E kept \in Farewell(net[m]) :
            net' = [net EXCEPT ![m] = kept,
                               ![p] = IF room.full THEN Append(@, [t |-> "closed"])
                                      ELSE @]
  BY DEF LinkBreaks
<1>2. /\ Only(m) /\ app[m] \in Program /\ app \in [Member -> Program]
      /\ p \in Member /\ p # m
      /\ net \in [Member -> Seq(Frame)] /\ net[p] \in Seq(Frame)
      /\ net[p] \o <<>> = net[p]
  BY BreaksSound, Machine, PeerIs, Nets DEF StayInv
<1>3. /\ t.role = app[m].role /\ t.loaded = app[m].loaded /\ t.group = app[m].group
      /\ t.inDuel = app[m].inDuel /\ t.auto = app[m].auto
      /\ t.remoteDone = app[m].remoteDone
  BY <1>2 DEF Program
<1>. HIDE DEF t
<1>4. app'[m] = t
  BY <1>1, <1>2
<1>5. PICK kept \in Farewell(net[m]) :
          net' = [net EXCEPT ![m] = kept,
                             ![p] = IF room.full THEN Append(@, [t |-> "closed"]) ELSE @]
  BY <1>1
<1>6. \E k \in 0..Len(net[m]) : kept = SubSeq(net[m], 1, k)
  BY DEF Farewell
<1>7. net'[m] = kept /\ net'[p] = net[p] \o out
  <2>1. [t |-> "closed"] \in Frame
    BY DEF Frame, Signal
  <2>2. Append(net[p], [t |-> "closed"]) = net[p] \o <<[t |-> "closed"]>>
    BY <1>2, <2>1
  <2>. QED  BY <1>2, <1>5, <2>2
<1>8. /\ out \in Seq(Frame) /\ (out # <<>> => room.full)
      /\ ~Has(out, {"start"}) /\ ~Has(out, {"over"})
  BY SignalPlays, HasOne DEF Signal
<1>. HIDE DEF out
<1>9. Len(scored[m]) <= 1
  BY DEF StayInv, OnceInv
<1>10. Goes(m, out)
  BY <1>1, <1>2, <1>7, <1>8, <1>9, RestAll DEF Goes
<1>11. Cut(m)
  BY <1>1, <1>3, <1>4, <1>6, <1>7 DEF Cut, NotOpen
<1>. QED  BY <1>10, <1>11, StayGoes

\* Who is offline does what it does alone.
LEMMA StayAlone ==
    ASSUME StayInv, NEW m \in Member, Only(m), app[m].role = "offline",
           app'[m].role = "offline", app'[m].inDuel = app[m].inDuel,
           UNCHANGED <<net, eng, room, scored>>
    PROVE  Stays
<1>. DEFINE p == Peer(m)
<1>1. p \in Member /\ p # m /\ Peer(p) = m /\ \A n \in Member : n = m \/ n = p
  BY PeerTwice, PeerIs
<1>2. app'[p] = app[p]
  BY <1>1 DEF Only
<1>3. ~room.full /\ (room.host # "none" => room.host = p)
  <2>1. room.host \in Member \cup {"none"}
    BY Machine DEF StayInv
  <2>. QED  BY <1>1, <2>1, FullIs DEF StayInv, Rooms
<1>4. Rooms' /\ ToldInv'
  BY <1>2, <1>3 DEF StayInv, Rooms, Linked, ToldInv
<1>5. Roles'
  BY <1>1, <1>2 DEF StayInv, Roles
<1>6. Once(m)'
  BY DEF Once, Client
<1>7. Once(p)'
  <2>1. Once(p)
    BY <1>1 DEF StayInv, OnceInv
  <2>. QED  BY <1>2, <1>3, <2>1 DEF Once, Client, Ended
<1>8. OnceInv'
  BY <1>1, <1>6, <1>7 DEF StayInv, OnceInv
<1>. QED  BY <1>4, <1>5, <1>8 DEF Stays

\* At the Arcade screen, out of any room.
LEMMA ScreenStays ==
    ASSUME StayInv, NEW m \in Member,
           \/ OpenCampaign(m) \/ CloseCampaign(m) \/ DeleteCampaign(m)
           \/ \E o \in {"win", "loss"} : RecordByHand(m, o)
           \/ WheelClaim(m)
    PROVE  Stays
<1>1. app[m] \in Program /\ app \in [Member -> Program]
  BY Machine DEF StayInv
<1>2. CASE OpenCampaign(m)
  <2>1. PICK a : app' = [app EXCEPT ![m] = [@ EXCEPT !.loaded = TRUE, !.arcade = a,
                                                     !.auto = FALSE]]
    BY <1>2 DEF OpenCampaign
  <2>. DEFINE t == [app[m] EXCEPT !.loaded = TRUE, !.arcade = a, !.auto = FALSE]
  <2>2. t.role = app[m].role /\ t.inDuel = app[m].inDuel
    BY <1>1 DEF Program
  <2>3. app'[m] = t
    BY <1>1, <2>1
  <2>. HIDE DEF t
  <2>. QED  BY <1>2, <2>2, <2>3, OpenSound, StayAlone DEF OpenCampaign, AtArcade, StayInv
<1>3. CASE CloseCampaign(m)
  <2>. DEFINE t == [app[m] EXCEPT !.loaded = FALSE]
  <2>1. t.role = app[m].role /\ t.inDuel = app[m].inDuel
    BY <1>1 DEF Program
  <2>2. app'[m] = t
    BY <1>1, <1>3 DEF CloseCampaign
  <2>. HIDE DEF t
  <2>. QED  BY <1>3, <2>1, <2>2, CloseSound, StayAlone DEF CloseCampaign, AtArcade, StayInv
<1>4. CASE DeleteCampaign(m)
  BY <1>4, DeleteSound, StayAlone DEF DeleteCampaign, AtArcade, StayInv
<1>5. ASSUME NEW o \in {"win", "loss"}, RecordByHand(m, o) PROVE Stays
  <2>1. PICK a : app' = [app EXCEPT ![m].arcade = a]
    BY <1>5 DEF RecordByHand
  <2>. DEFINE t == [app[m] EXCEPT !.arcade = a]
  <2>2. t.role = app[m].role /\ t.inDuel = app[m].inDuel
    BY <1>1 DEF Program
  <2>3. app'[m] = t
    BY <1>1, <2>1
  <2>. HIDE DEF t
  <2>. QED  BY <1>5, <2>2, <2>3, HandSound, StayAlone DEF RecordByHand, AtArcade, StayInv
<1>6. CASE WheelClaim(m)
  <2>1. PICK a : app' = [app EXCEPT ![m].arcade = a]
    BY <1>6 DEF WheelClaim
  <2>. DEFINE t == [app[m] EXCEPT !.arcade = a]
  <2>2. t.role = app[m].role /\ t.inDuel = app[m].inDuel
    BY <1>1 DEF Program
  <2>3. app'[m] = t
    BY <1>1, <2>1
  <2>. HIDE DEF t
  <2>. QED  BY <1>6, <2>2, <2>3, WheelSound, StayAlone DEF WheelClaim, AtArcade, StayInv
<1>. QED  BY <1>2, <1>3, <1>4, <1>5, <1>6

\* A room opens, with nobody in it yet.
LEMMA InviteStays ==
    ASSUME StayInv, NEW m \in Member, HostInvite(m)
    PROVE  Stays
<1>. DEFINE p == Peer(m)
            t == Joining(app[m], "host")
<1>1. /\ app[m].role = "offline" /\ app[m].loaded
      /\ app' = [app EXCEPT ![m] = t]
      /\ room' = [host |-> m, full |-> FALSE]
      /\ UNCHANGED <<net, eng, scored>>
  BY DEF HostInvite, AtArcade
<1>2. /\ Only(m) /\ app[m] \in Program /\ app \in [Member -> Program]
      /\ p \in Member /\ p # m /\ Peer(p) = m /\ \A n \in Member : n = m \/ n = p
  BY InviteSound, Machine, PeerTwice, PeerIs DEF StayInv
<1>3. t.role = "host" /\ t.link = "up" /\ t.group /\ t.loaded = app[m].loaded
  BY <1>2 DEF Joining, Program
<1>. HIDE DEF t
<1>4. app'[m] = t /\ app'[p] = app[p] /\ room'.host = m /\ ~room'.full
  BY <1>1, <1>2
<1>5. Rooms' /\ ToldInv'
  BY <1>3, <1>4 DEF Rooms, Linked, ToldInv
<1>6. net[m] = <<>>
  BY <1>1 DEF StayInv, Roles
<1>7. Roles'
  BY <1>1, <1>2, <1>3, <1>4, <1>6, HasOne DEF StayInv, Roles
<1>8. Once(m)'
  BY <1>3, <1>4 DEF Once, Client
<1>9. Once(p)'
  <2>1. Once(p)
    BY <1>2 DEF StayInv, OnceInv
  <2>. QED  BY <1>1, <1>4, <2>1 DEF Once, Client, Ended
<1>10. OnceInv'
  BY <1>1, <1>2, <1>8, <1>9 DEF StayInv, OnceInv
<1>. QED  BY <1>5, <1>7, <1>10 DEF Stays

\* A guest comes in: it has scored nothing in this stay, and the host is told.
LEMMA JoinStays ==
    ASSUME StayInv, NEW m \in Member, JoinInvite(m)
    PROVE  Stays
<1>. DEFINE p == Peer(m)
            t == Joining(app[m], "client")
            q == <<[t |-> "joined"]>>
<1>1. /\ app[m].role = "offline" /\ room.host = p
      /\ app' = [app EXCEPT ![m] = t]
      /\ room' = [room EXCEPT !.full = TRUE]
      /\ net' = Send(net, p, q)
      /\ scored' = [scored EXCEPT ![m] = <<>>]
      /\ UNCHANGED eng
  BY DEF JoinInvite, AtArcade
<1>2. /\ Only(m) /\ app[m] \in Program /\ app \in [Member -> Program]
      /\ p \in Member /\ p # m /\ Peer(p) = m /\ \A n \in Member : n = m \/ n = p
      /\ net \in [Member -> Seq(Frame)] /\ net[p] \in Seq(Frame)
      /\ room \in [host : Member \cup {"none"}, full : BOOLEAN]
      /\ scored \in [Member -> Seq({"win", "loss", "draw"})]
  BY JoinSound, Machine, PeerTwice, PeerIs, Nets DEF StayInv
<1>3. t.role = "client" /\ t.link = "up"
  BY <1>2 DEF Joining, Program
<1>. HIDE DEF t
<1>4. q \in Seq(Frame) /\ \A T : Has(q, T) <=> "joined" \in T
  BY SignalPlays DEF Signal
<1>. HIDE DEF q
<1>5. /\ app'[m] = t /\ app'[p] = app[p] /\ room'.host = p /\ room'.full
      /\ net'[m] = net[m] /\ net'[p] = net[p] \o q
      /\ scored'[m] = <<>> /\ scored'[p] = scored[p]
  BY <1>1, <1>2 DEF Send
<1>6. net[m] = <<>> /\ app[p].role = "host" /\ Linked(p)
  BY <1>1, <1>2, MemberAssumption DEF StayInv, Roles, Rooms
<1>7. Rooms'
  <2>1. app'[p].role = "host" /\ app'[p].link = "up"
    BY <1>5, <1>6 DEF Linked
  <2>2. app'[m].role = "client" /\ app'[m].link = "up" /\ Peer(room'.host) = m
    BY <1>2, <1>3, <1>5
  <2>3. p # "none"
    BY <1>2, MemberAssumption
  <2>. QED  BY <1>5, <2>1, <2>2, <2>3 DEF Rooms, Linked, Client
<1>8. Roles'
  <2>1. ~Has(net'[p], {"start"})
    BY <1>2, <1>4, <1>5, <1>6, HasConcat DEF StayInv, Roles
  <2>. QED  BY <1>1, <1>2, <1>3, <1>5, <1>6, <2>1 DEF StayInv, Roles
<1>9. Once(m)'
  <2>1. net'[m] = <<>> /\ \A T : ~Has(<<>>, T)
    BY <1>5, <1>6, HasOne
  <2>2. InOrder(<<>>)
    BY DEF InOrder
  <2>. QED  BY <1>5, <2>1, <2>2 DEF Once, Ended
<1>10. Once(p)'
  BY <1>5, <1>6 DEF Once, Client
<1>11. OnceInv'
  <2>1. Len(scored[p]) <= 1 /\ Len(<<>>) <= 1
    BY <1>2 DEF StayInv, OnceInv
  <2>. QED  BY <1>2, <1>5, <1>9, <1>10, <2>1 DEF OnceInv
<1>12. \A i \in DOMAIN net'[p] : ~Recent(net'[p], i)
  <2>. DEFINE s == net[p]
  <2>1. s \in Seq(Frame) /\ q \in Seq(Frame) /\ Has(q, {"joined"}) /\ ~Has(q, {"sync"})
    BY <1>2, <1>4
  <2>. HIDE DEF s
  <2>2. ASSUME NEW i \in DOMAIN (s \o q), Recent(s \o q, i) PROVE FALSE
    <3>1. \/ i \in DOMAIN s /\ Recent(s, i) /\ (s \o q)[i] = s[i] /\ ~Has(q, {"joined"})
          \/ \E j \in DOMAIN q : q[j].t = "sync" /\ (s \o q)[i] = q[j]
      BY <2>1, <2>2, RecentConcat
    <3>. QED  BY <2>1, <3>1 DEF Has
  <2>3. net'[p] = s \o q
    BY <1>5 DEF s
  <2>. QED  BY <2>2, <2>3
<1>13. Has(net'[p], {"joined"})
  BY <1>2, <1>4, <1>5, HasConcat
<1>14. ToldInv'
  BY <1>5, <1>12, <1>13 DEF ToldInv, Told, Bounded
<1>. QED  BY <1>7, <1>8, <1>11, <1>14 DEF Stays

-----------------------------------------------------------------------------
(* The invariants, and what follows from them.                             *)

\* At first everybody is offline.
LEMMA StayInit ==
    ASSUME Init
    PROVE  StayInv
<1>1. GroupInv
  BY GroupInit
<1>2. \A m \in Member : /\ app[m].role = "offline" /\ ~app[m].inDuel /\ net[m] = <<>>
                        /\ eng[m].st = "none" /\ scored[m] = <<>>
  BY DEF Init, AppInit, NoEngine
<1>3. room.host = "none" /\ ~room.full
  BY DEF Init, NoRoom
<1>. QED  BY <1>1, <1>2, <1>3 DEF StayInv, Roles, Rooms, OnceInv, Once, Client, ToldInv

\* Every action keeps them.
LEMMA StayStep ==
    ASSUME StayInv, Next
    PROVE  Stays
<1>1. ASSUME NEW m \in Member, Arcade(m) PROVE Stays
  BY <1>1, ScreenStays, InviteStays, JoinStays DEF Arcade
<1>2. ASSUME NEW m \in Member, Duelling(m) PROVE Stays
  BY <1>2, StartStays, SurrenderStays, PumpStays, LeaveStays, LostStays DEF Duelling
<1>3. ASSUME NEW m \in Member, Frames(m) PROVE Stays
  BY <1>3, JoinedStays, HostSyncStays, GuestSyncStays, StartsStays, OverStays,
     SurrenderedStays, QuitStays DEF Frames
<1>4. ASSUME NEW m \in Member, NEW w \in Member \cup {"draw"}, EngineEnds(m, w)
      PROVE  Stays
  BY <1>4, EndsStays
<1>. QED  BY <1>1, <1>2, <1>3, <1>4, BreaksStays, KilledStays, TornStays
         DEF Next

\* So they hold throughout.
LEMMA StayInvariant == Spec => []StayInv
<1>1. Init => StayInv
  BY StayInit
<1>2. StayInv /\ [Next]_vars => StayInv'
  <2>1. CASE StayInv /\ Next
    BY <2>1, StayStep, GroupNext DEF StayInv, Stays
  <2>2. CASE StayInv /\ UNCHANGED vars
    <3>1. GroupInv'
      BY <2>2, GroupNext DEF StayInv
    <3>2. Roles' /\ Rooms'
      BY <2>2 DEF StayInv, Roles, Rooms, vars, Linked, Client
    <3>3. OnceInv'
      BY <2>2 DEF StayInv, OnceInv, Once, Ended, Client, vars
    <3>4. ToldInv'
      BY <2>2 DEF StayInv, ToldInv, Told, Bounded, Board, vars
    <3>. QED  BY <3>1, <3>2, <3>3, <3>4 DEF StayInv
  <2>. QED  BY <2>1, <2>2
<1>. QED  BY <1>1, <1>2, PTL DEF Spec

\* In one stay in the room a guest scores a duel at most once: of the GameOver, its
\* own leaving, the host's Disconnect and the relay's RoomClosed, the first to be
\* handled rules out the others (arcadeAutoRecord, arcadePeerQuitGroupDuel).
THEOREM StayScoresOnce == Spec => []GuestScoresOnce
<1>1. StayInv => GuestScoresOnce
  BY DEF StayInv, OnceInv, GuestScoresOnce
<1>. QED  BY <1>1, StayInvariant, PTL

\* When all frames of a session have been handled, both machines show the same
\* leaderboard: what one has and the other has not is always on its way, or asked
\* for (the ArcadeSync handler and its answer).
THEOREM BoardsAgree == Spec => []BoardsConverge
<1>1. StayInv => BoardsConverge
  <2>. SUFFICES ASSUME StayInv, room.full,
                       \A m \in Member : app[m].loaded /\ net[m] = <<>>,
                       NEW m \in Member
                PROVE  Board(m) = Board(Peer(m))
    BY DEF BoardsConverge, Board
  <2>. DEFINE h == room.host
              g == Peer(h)
  <2>1. h \in Member /\ g \in Member /\ Peer(g) = h /\ (m = h \/ m = g)
    BY FullIs DEF StayInv
  <2>2. Told(h)
    BY DEF StayInv, ToldInv
  <2>3. /\ net[h] = <<>> /\ net[g] = <<>> /\ app[h].loaded /\ app[g].loaded
        /\ \A T : ~Has(<<>>, T)
        /\ \A k, n : ~Covers(<<>>, k, n)
    BY <2>1, HasOne DEF Covers
  <2>4. \A n \in Member : Board(h)[n] <= Board(g)[n] /\ Board(g)[n] <= Board(h)[n]
    BY <2>2, <2>3 DEF Told
  <2>5. /\ Board(h) \in [Member -> Points] /\ Board(g) \in [Member -> Points]
        /\ \A n \in Member : Board(h)[n] \in Int /\ Board(g)[n] \in Int
    BY <2>1, Channel, BoardInt DEF StayInv
  <2>6. \A n \in Member : Board(h)[n] = Board(g)[n]
    BY <2>4, <2>5
  <2>7. Board(h) = Board(g)
    BY <2>5, <2>6
  <2>. QED  BY <2>1, <2>7
<1>. QED  BY <1>1, StayInvariant, PTL
=============================================================================
