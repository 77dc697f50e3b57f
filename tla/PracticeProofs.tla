---------------------------- MODULE PracticeProofs ----------------------------
(***************************************************************************)
(* Proofs about module Practice: the engine has been given what the        *)
(* timeline says, by the right seats, an undo hands the player's request   *)
(* back, and the recording follows the branch.                             *)
(*                                                                         *)
(* The argument is about positions.  What the engine asks next depends on  *)
(* the responses it accepted only, so the responses of the timeline can be *)
(* placed on the requests of the duel (Line): each is at the first request *)
(* after the one before that is not passed automatically, and is by the    *)
(* one who answers such a request, a seat or the message handler.  A       *)
(* rebuild reads the same responses, so its engine stops at the same       *)
(* requests (OnLine), until it comes to one that a handler answers beside  *)
(* the recorded copy of that answer: there engine and timeline part.       *)
(*                                                                         *)
(* And, from "Numbers" on, about module Prompts: every answer that goes    *)
(* out is taken but the excused ones, and what is shown can be answered.   *)
(* That is mostly about what the handlers compute: each of their answers   *)
(* is shown to meet the engine's rule for that kind of request.  The       *)
(* invariant (PromptInv) ties the answer to the request it was made for,   *)
(* and the staged picks to the prompt on the screen.                       *)
(***************************************************************************)
EXTENDS Practice, Prompts, SequenceTheorems, FiniteSetTheorems, WellFoundedInduction,
        TLAPS

(* The values.                                                             *)
Duel == [running : BOOLEAN, done : BOOLEAN, awaiting : BOOLEAN, queued : BOOLEAN,
         blocked : BOOLEAN, retry : Nat, sel : {"none", "human", "ai", "raw"},
         seat : {0, 1}, local : BOOLEAN, hold : BOOLEAN, paced : BOOLEAN,
         phase : BOOLEAN, delay : BOOLEAN, beat : BOOLEAN]
Engine == [root : Seq(Kinds), hist : Seq(Buffered), given : Seq(Buffered), beats : Nat,
           st : {"none", "run", "ask", "over"}, resp : Buffered]
Timeline == [root : Seq(Kinds), acts : Seq(Responses), applied : Nat]
Replay == [on : BOOLEAN, resp : Seq(Responses), whole : BOOLEAN]
Rebuild == [on : BOOLEAN, fed : Nat, target : Nat, undo : BOOLEAN]

TypeOK ==
    /\ pc \in {"frame", "pump", "advance", "feed", "draw"}
    /\ dm \in Duel /\ eng \in Engine /\ tl \in Timeline
    /\ replay \in Replay /\ rb \in Rebuild
    /\ strayed \in BOOLEAN /\ tl.applied <= Len(tl.acts)

\* Where the thread may be, and what a rebuild still has to feed.
Control ==
    /\ pc = "pump" => dm.running /\ ~dm.blocked
    /\ dm.running => ~dm.done
    /\ pc \in {"advance", "feed"} => rb.on
    /\ pc \in {"frame", "draw"} => ~rb.on
    /\ dm.local <=> ~rb.on
    /\ rb.on => rb.fed <= rb.target /\ rb.target <= Len(tl.acts)
    /\ rb.undo => /\ rb.on /\ rb.target < Len(tl.acts)
                  /\ tl.acts[rb.target + 1].by \in {"human", "auto"}
    /\ eng.st = "ask" => Accepted(eng.hist) < Len(eng.root)

\* The engine and the flags around it, as long as they have not parted: a response
\* is queued for a request that its giver answers, a selection is of the seat that is
\* asked, a player who is asked has the selection, and a rebuild has not come to a
\* request that a message handler answers.
Flags ==
    ~strayed /\ dm.running =>
      /\ eng.root = tl.root /\ eng.st \in {"run", "ask"}
      /\ dm.queued => eng.st = "ask" /\ eng.resp.by = Answerer(Asked(eng))
      /\ dm.sel \in {"human", "ai"} => /\ eng.st = "ask" /\ ~dm.queued
                                       /\ Answerer(Asked(eng)) = dm.sel
      /\ eng.st = "ask" /\ ~dm.queued =>
            /\ Asked(eng) # "pass"
            /\ Answerer(Asked(eng)) = "human" => dm.sel = "human"
      /\ eng.st = "ask" /\ rb.on => Asked(eng) \notin {"auto", "refused"}
      /\ dm.awaiting => eng.st = "ask"
      /\ dm.blocked => dm.awaiting /\ ~dm.queued
      /\ pc = "feed" => eng.st = "ask" /\ ~dm.queued

\* What the engine was given, in a rebuild as well.
FedTo == IF rb.on THEN rb.fed ELSE tl.applied
Follows == ~strayed /\ dm.running => Given = Prefix(tl.acts, FedTo)

\* From request a, nothing but automatic passes comes before request b.
Reaches(root, a, b) ==
    a <= b /\ \A j \in a..(b - 1) : j \in DOMAIN root /\ root[j] = "pass"

\* from[k] is where the search for a request starts after k responses.
Line(root, acts, from) ==
    /\ from \in [0..Len(acts) -> Nat] /\ from[0] = 1
    /\ \A k \in 1..Len(acts) : \E p \in DOMAIN root :
          /\ Reaches(root, from[k - 1], p) /\ Answerer(root[p]) = acts[k].by
          /\ from[k] = IF acts[k].ok THEN p + 1 ELSE p
AtLine(e, from) ==
    /\ Len(e.given) \in DOMAIN from
    /\ Reaches(e.root, from[Len(e.given)], Accepted(e.hist) + 1)
OnLine ==
    ~strayed => \E from : /\ Line(tl.root, tl.acts, from)
                          /\ dm.running => AtLine(eng, from)

\* RightSeatAnswers, of an engine.
RightSeats(e) ==
    \A i \in DOMAIN e.hist :
        e.hist[i].by = Answerer(e.root[Accepted(SubSeq(e.hist, 1, i - 1)) + 1])
Seated == ~strayed => RightSeats(eng)

\* The inductive invariant: the values, the control, and what holds engine, timeline
\* and recording together.
Deep == Flags /\ Follows /\ OnLine /\ Seated /\ ReplayOnBranch
PracticeInv == TypeOK /\ Control /\ Deep

-----------------------------------------------------------------------------
(* Prefixes.                                                               *)

\* A prefix, within the sequence.
LEMMA PrefixIs ==
    ASSUME NEW S, NEW s \in Seq(S), NEW n \in Nat, n <= Len(s)
    PROVE  /\ Prefix(s, n) \in Seq(S) /\ Len(Prefix(s, n)) = n
           /\ \A i \in 1..n : Prefix(s, n)[i] = s[i]
<1>1. Prefix(s, n) = SubSeq(s, 1, n)
  BY DEF Prefix
<1>2. n \in 0..Len(s)
  OBVIOUS
<1>. QED  BY <1>1, <1>2, SubSeqProperties

\* The whole of it, and what is asked for beyond.
LEMMA PrefixAll ==
    ASSUME NEW S, NEW s \in Seq(S), NEW n \in Nat, n >= Len(s)
    PROVE  Prefix(s, n) = s
<1>1. Prefix(s, n) = SubSeq(s, 1, Len(s))
  BY DEF Prefix
<1>. QED  BY <1>1, SubSeqProperties

\* A prefix of a prefix.
LEMMA PrefixTwice ==
    ASSUME NEW S, NEW s \in Seq(S), NEW n \in Nat, NEW k \in Nat, k <= n, n <= Len(s)
    PROVE  Prefix(Prefix(s, n), k) = Prefix(s, k)
<1>. DEFINE u == Prefix(s, n)
<1>1. u \in Seq(S) /\ Len(u) = n /\ \A i \in 1..n : u[i] = s[i]
  BY PrefixIs
<1>. HIDE DEF u
<1>a. k <= Len(u) /\ k <= Len(s)
  BY <1>1
<1>2. Prefix(u, k) \in Seq(S) /\ Len(Prefix(u, k)) = k /\ \A i \in 1..k : Prefix(u, k)[i] = u[i]
  BY <1>a, <1>1, PrefixIs
<1>3. Prefix(s, k) \in Seq(S) /\ Len(Prefix(s, k)) = k /\ \A i \in 1..k : Prefix(s, k)[i] = s[i]
  BY <1>a, PrefixIs
<1>4. \A i \in 1..k : i \in 1..n
  OBVIOUS
<1>5. Prefix(u, k) = Prefix(s, k)
  BY <1>1, <1>2, <1>3, <1>4, SeqEqual
<1>. QED  BY <1>5 DEF u

\* One more.
LEMMA PrefixNext ==
    ASSUME NEW S, NEW s \in Seq(S), NEW n \in Nat, n < Len(s)
    PROVE  Prefix(s, n + 1) = Append(Prefix(s, n), s[n + 1])
<1>. DEFINE u == Prefix(s, n)
            v == Append(u, s[n + 1])
<1>1. u \in Seq(S) /\ Len(u) = n /\ \A i \in 1..n : u[i] = s[i]
  BY PrefixIs
<1>2. /\ Prefix(s, n + 1) \in Seq(S) /\ Len(Prefix(s, n + 1)) = n + 1
      /\ \A i \in 1..(n + 1) : Prefix(s, n + 1)[i] = s[i]
  BY PrefixIs
<1>. HIDE DEF u
<1>3. s[n + 1] \in S
  OBVIOUS
<1>4. v \in Seq(S) /\ Len(v) = n + 1 /\ v[n + 1] = s[n + 1] /\ \A i \in 1..n : v[i] = u[i]
  BY <1>1, <1>3, AppendProperties
<1>5. \A i \in 1..(n + 1) : i \in 1..n \/ i = n + 1
  OBVIOUS
<1>. HIDE DEF v
<1>6. Prefix(s, n + 1) = v
  BY <1>1, <1>2, <1>4, <1>5, SeqEqual
<1>. QED  BY <1>6 DEF v, u

\* A branch: the rest is cut off, and something is recorded.
LEMMA Branch ==
    ASSUME NEW S, NEW s \in Seq(S), NEW n \in Nat, n <= Len(s), NEW t \in S
    PROVE  LET b == Append(Prefix(s, n), t)
           IN  /\ b \in Seq(S) /\ Len(b) = n + 1 /\ b[n + 1] = t
               /\ \A i \in 1..n : b[i] = s[i]
               /\ Prefix(b, n) = Prefix(s, n) /\ Prefix(b, n + 1) = b
<1>. DEFINE u == Prefix(s, n)
            b == Append(u, t)
<1>1. u \in Seq(S) /\ Len(u) = n /\ \A i \in 1..n : u[i] = s[i]
  BY PrefixIs
<1>. HIDE DEF u
<1>2. b \in Seq(S) /\ Len(b) = n + 1 /\ b[n + 1] = t /\ \A i \in 1..n : b[i] = u[i]
  BY <1>1, AppendProperties
<1>. HIDE DEF b
<1>3. Prefix(b, n + 1) = b
  BY <1>2, PrefixAll
<1>4. Prefix(b, n) = u
  <2>1. /\ Prefix(b, n) \in Seq(S) /\ Len(Prefix(b, n)) = n
        /\ \A i \in 1..n : Prefix(b, n)[i] = b[i]
    BY <1>2, PrefixIs
  <2>. QED  BY <1>1, <1>2, <2>1, SeqEqual
<1>. QED  BY <1>1, <1>2, <1>3, <1>4 DEF u, b

-----------------------------------------------------------------------------
(* The responses that count, and the requests they are read by.            *)

\* A response added to what the engine has read counts if it is accepted.
LEMMA AcceptedIs ==
    ASSUME NEW h \in Seq(Buffered), NEW t \in Buffered
    PROVE  /\ Accepted(h) \in Nat
           /\ Accepted(Append(h, t)) = IF t.ok THEN Accepted(h) + 1 ELSE Accepted(h)
<1>. DEFINE T == {i \in DOMAIN h : h[i].ok}
            g == Append(h, t)
            U == {i \in DOMAIN g : g[i].ok}
            n == Len(h)
<1>1. n \in Nat /\ DOMAIN h = 1..n
  BY LenProperties
<1>2. Len(g) = n + 1 /\ DOMAIN g = 1..(n + 1) /\ g[n + 1] = t /\ \A i \in 1..n : g[i] = h[i]
  BY <1>1, AppendProperties, LenProperties
<1>3. IsFiniteSet(1..n)
  BY <1>1, FS_Interval
<1>4. IsFiniteSet(T)
  BY <1>1, <1>3, FS_Subset
<1>5. n + 1 \notin T
  BY <1>1
<1>. HIDE DEF g
<1>6. 1..(n + 1) = (1..n) \cup {n + 1}
  BY <1>1
<1>7. U = IF t.ok THEN T \cup {n + 1} ELSE T
  BY <1>1, <1>2, <1>6
<1>. HIDE DEF T, U
<1>8. Cardinality(T) \in Nat /\ Cardinality(T \cup {n + 1}) = Cardinality(T) + 1
  BY <1>4, <1>5, FS_CardinalityType, FS_AddElement
<1>9. Cardinality(U) = IF t.ok THEN Cardinality(T) + 1 ELSE Cardinality(T)
  BY <1>7, <1>8
<1>. QED  BY <1>8, <1>9 DEF Accepted, T, U, g

\* Nothing has been read.
LEMMA AcceptedNone == Accepted(<<>>) = 0
<1>1. {i \in DOMAIN <<>> : (<<>>[i]).ok} = {}
  OBVIOUS
<1>. QED  BY <1>1, FS_EmptySet DEF Accepted

\* What was read before a response does not change with what is read after it.
LEMMA PastStays ==
    ASSUME NEW S, NEW h \in Seq(S), NEW t \in S
    PROVE  /\ \A i \in 1..Len(h) : SubSeq(Append(h, t), 1, i - 1) = SubSeq(h, 1, i - 1)
           /\ SubSeq(Append(h, t), 1, Len(h)) = h
<1>. DEFINE g == Append(h, t)
            n == Len(h)
<1>1. n \in Nat /\ g \in Seq(S) /\ Len(g) = n + 1 /\ \A i \in 1..n : g[i] = h[i]
  BY AppendProperties, LenProperties
<1>. HIDE DEF g, n
<1>2. ASSUME NEW k \in 0..n
      PROVE  SubSeq(g, 1, k) = SubSeq(h, 1, k)
  <2>1. \A i \in 1..k : g[i] \in S /\ h[i] \in S /\ g[i] = h[i]
    BY <1>1, ElementOfSeq DEF n
  <2>2. k \in Int /\ 1 \in Int
    BY <1>1
  <2>3. SubSeq(g, 1, k) \in Seq(S) /\ Len(SubSeq(g, 1, k)) = k
        /\ \A i \in 1..k : SubSeq(g, 1, k)[i] = g[i]
    BY <2>1, <2>2, SubSeqProperties
  <2>4. SubSeq(h, 1, k) \in Seq(S) /\ Len(SubSeq(h, 1, k)) = k
        /\ \A i \in 1..k : SubSeq(h, 1, k)[i] = h[i]
    BY <2>1, <2>2, SubSeqProperties
  <2>. QED  BY <2>1, <2>3, <2>4, SeqEqual
<1>3. SubSeq(h, 1, n) = h
  BY SubSeqFull DEF n
<1>4. SubSeq(g, 1, n) = h
  BY <1>1, <1>2, <1>3
<1>5. \A i \in 1..n : i - 1 \in 0..n
  BY <1>1
<1>. QED  BY <1>2, <1>4, <1>5 DEF g, n

\* The first request after a that is not answered automatically.
LEMMA ReachesOnce ==
    ASSUME NEW root, NEW a \in Nat, NEW p \in Nat, NEW q \in Nat,
           Reaches(root, a, p), Reaches(root, a, q), root[p] # "pass", root[q] # "pass"
    PROVE  p = q
<1>1. p < q => p \in a..(q - 1)
  BY DEF Reaches
<1>2. q < p => q \in a..(p - 1)
  BY DEF Reaches
<1>. QED  BY <1>1, <1>2 DEF Reaches

\* A request that is answered automatically is passed by.
LEMMA ReachesOn ==
    ASSUME NEW root, NEW a \in Nat, NEW p \in Nat, p \in DOMAIN root,
           Reaches(root, a, p), root[p] = "pass"
    PROVE  Reaches(root, a, p + 1)
BY DEF Reaches

\* A search that starts where it ends.
LEMMA ReachesItself ==
    ASSUME NEW root, NEW a \in Nat
    PROVE  Reaches(root, a, a)
BY DEF Reaches

-----------------------------------------------------------------------------
(* Responses and the records of the state.                                 *)

\* Whom a request is answered by.
LEMMA AnswererIs ==
    ASSUME NEW kind \in Kinds
    PROVE  /\ Answerer(kind) = "pass" <=> kind = "pass"
           /\ Answerer(kind) = "ai" <=> kind = "ai"
           /\ Answerer(kind) = "human" <=> kind \in {"human", "pick"}
           /\ Answerer(kind) = "auto" <=> kind \in {"auto", "refused"}
           /\ Answerer(kind) \in Kinds
BY DEF Kinds, Answerer

\* Who gives a response, and whose can be rejected.
LEMMA BufferedIs ==
    /\ \A t \in Responses : /\ t \in Buffered /\ t.by \in {"human", "ai", "auto"}
                            /\ t.ok \in BOOLEAN
                            /\ t.by = "human" => t.ok
    /\ Pass \in Buffered /\ Pass.by = "pass" /\ Pass.ok
    /\ \A b \in BOOLEAN : Stray(b) \in Buffered /\ Stray(b).by = "engine"
    /\ \A t \in Buffered : /\ t.ok \in BOOLEAN
                           /\ t.by \in Kinds /\ ~t.ok => t.by \in {"ai", "auto"}
                           /\ t.by \in {"human", "ai", "auto"} => t \in Responses
<1>1. \A t \in Responses : /\ t.by \in {"human", "ai", "auto"} /\ t.ok \in BOOLEAN
                           /\ t.by = "human" => t.ok
  BY DEF Responses
<1>2. Pass.by = "pass" /\ Pass.ok /\ \A b \in BOOLEAN : Stray(b).by = "engine" /\ Stray(b).ok = b
  BY DEF Pass, Stray
<1>3. \A b \in BOOLEAN : Stray(b) \in {Stray(TRUE), Stray(FALSE)}
  OBVIOUS
<1>4. \A t : t \in Buffered <=> t \in Responses \/ t = Pass \/ t = Stray(TRUE) \/ t = Stray(FALSE)
  BY DEF Buffered
<1>5. "engine" \notin Kinds
  BY DEF Kinds
<1>6. Pass \in Buffered /\ \A b \in BOOLEAN : Stray(b) \in Buffered /\ Stray(b).by = "engine"
  BY <1>2, <1>3, <1>4
<1>7. ASSUME NEW t \in Buffered
      PROVE  /\ t.ok \in BOOLEAN
             /\ t.by \in Kinds /\ ~t.ok => t.by \in {"ai", "auto"}
             /\ t.by \in {"human", "ai", "auto"} => t \in Responses
  <2>1. CASE t \in Responses
    <3>1. /\ t.by \in {"human", "ai", "auto"} /\ t.ok \in BOOLEAN
          /\ t.by = "human" => t.ok
      BY <1>1, <2>1
    <3>2. ~t.ok => t.by \in {"ai", "auto"}
      BY <3>1
    <3>. QED  BY <2>1, <3>1, <3>2
  <2>2. CASE t = Pass
    BY <1>2, <2>2
  <2>3. ASSUME NEW b \in BOOLEAN, t = Stray(b)
        PROVE  t.ok \in BOOLEAN /\ t.by \notin Kinds /\ t.by = "engine"
    BY <1>2, <1>5, <2>3
  <2>4. CASE t = Stray(TRUE) \/ t = Stray(FALSE)
    BY <2>3, <2>4
  <2>. QED  BY <1>4, <2>1, <2>2, <2>4
<1>8. \A t \in Responses : t \in Buffered
  BY <1>4
<1>9. Pass.by = "pass" /\ Pass.ok
  BY <1>2
<1>. QED  BY <1>1, <1>6, <1>7, <1>8, <1>9

\* What a message handler answers.
LEMMA InlineIs ==
    ASSUME NEW kind \in Kinds, kind \in {"pass", "auto", "refused", "pick"}
    PROVE  /\ InlineAnswer(kind) \in Buffered
           /\ kind = "pass" => InlineAnswer(kind) = Pass
           /\ kind # "pass" => /\ InlineAnswer(kind) \in Responses
                               /\ InlineAnswer(kind).by = "auto"
<1>. DEFINE ok == kind # "refused"
            t == [by |-> "auto", ok |-> ok, v |-> 0]
<1>1. ok \in BOOLEAN
  OBVIOUS
<1>. HIDE DEF ok
<1>2. t \in [by : {"ai", "auto"}, ok : BOOLEAN, v : {0}] /\ t.by = "auto"
  BY <1>1
<1>3. t \in Responses /\ t \in Buffered /\ Pass \in Buffered
  BY <1>2 DEF Responses, Buffered
<1>4. InlineAnswer(kind) = IF kind = "pass" THEN Pass ELSE t
  BY DEF InlineAnswer, ok
<1>. QED  BY <1>2, <1>3, <1>4

\* What the flags are when a duel starts or is gone.
LEMMA DuelStarts ==
    ASSUME NEW d \in Duel
    PROVE  /\ EndDuel(d) \in Duel /\ ~EndDuel(d).running
           /\ StartDuel(d) \in Duel /\ StartDuel(d).running
           /\ ~StartDuel(d).done /\ ~StartDuel(d).awaiting /\ ~StartDuel(d).queued
           /\ ~StartDuel(d).blocked /\ StartDuel(d).sel = "none"
           /\ (StartDuel(d).local <=> d.local) /\ (EndDuel(d).local <=> d.local)
BY DEF Duel, EndDuel, StartDuel

\* A response is submitted.
LEMMA SubmitIs ==
    ASSUME NEW d \in Duel
    PROVE  /\ Submit(d) \in Duel /\ Submit(d).queued /\ ~Submit(d).blocked
           /\ Submit(d).sel = "none" /\ (Submit(d).running <=> d.running)
           /\ (Submit(d).awaiting <=> d.awaiting) /\ (Submit(d).done <=> d.done)
           /\ (Submit(d).local <=> d.local)
BY DEF Duel, Submit

\* The pacing of a frame touches nothing else.
LEMMA PacingIs ==
    ASSUME NEW d \in Duel
    PROVE  /\ Pacing(d) \in Duel /\ Pacing(d).sel = d.sel
           /\ (Pacing(d).running <=> d.running) /\ (Pacing(d).queued <=> d.queued)
           /\ (Pacing(d).awaiting <=> d.awaiting) /\ (Pacing(d).blocked <=> d.blocked)
           /\ (Pacing(d).done <=> d.done) /\ (Pacing(d).local <=> d.local)
BY DEF Duel, Pacing

\* The selection after a request has been parsed from flags d.
SelOf(d, kind) ==
    IF Inline(d, kind) THEN "none"
    ELSE IF kind = "raw" THEN d.sel ELSE IF kind = "pick" THEN "human" ELSE kind

\* A request is parsed: the answer a message handler gives is submitted, a request
\* of a seat becomes its selection.
LEMMA ParseIs ==
    ASSUME NEW d \in Duel, NEW kind \in Kinds
    PROVE  /\ ParseRequest(d, kind) \in Duel
           /\ (ParseRequest(d, kind).queued <=> d.queued \/ Inline(d, kind))
           /\ (ParseRequest(d, kind).blocked => d.blocked)
           /\ (ParseRequest(d, kind).running <=> d.running)
           /\ (ParseRequest(d, kind).awaiting <=> d.awaiting)
           /\ (ParseRequest(d, kind).done <=> d.done)
           /\ (ParseRequest(d, kind).local <=> d.local)
           /\ ParseRequest(d, kind).sel = SelOf(d, kind)
<1>1. CASE Inline(d, kind)
  <2>1. ParseRequest(d, kind) = Submit(d)
    BY <1>1 DEF ParseRequest
  <2>. QED  BY <1>1, <2>1, SubmitIs DEF SelOf
<1>2. CASE ~Inline(d, kind) /\ kind = "raw"
  <2>1. ParseRequest(d, kind) = d
    BY <1>2 DEF ParseRequest
  <2>. QED  BY <1>2, <2>1 DEF SelOf
<1>3. CASE ~Inline(d, kind) /\ kind # "raw"
  <2>. DEFINE x == IF kind = "pick" THEN "human" ELSE kind
  <2>1. x \in {"human", "ai"} /\ x = SelOf(d, kind)
    BY <1>3 DEF Kinds, Inline, SelOf
  <2>2. ParseRequest(d, kind) = [d EXCEPT !.sel = x]
    BY <1>3 DEF ParseRequest
  <2>. HIDE DEF x
  <2>3. /\ ParseRequest(d, kind) \in Duel /\ ParseRequest(d, kind).sel = x
        /\ (ParseRequest(d, kind).queued <=> d.queued)
        /\ (ParseRequest(d, kind).blocked <=> d.blocked)
        /\ (ParseRequest(d, kind).running <=> d.running)
        /\ (ParseRequest(d, kind).awaiting <=> d.awaiting)
        /\ (ParseRequest(d, kind).done <=> d.done)
        /\ (ParseRequest(d, kind).local <=> d.local)
    BY <2>1, <2>2 DEF Duel
  <2>. QED  BY <1>3, <2>1, <2>3
<1>. QED  BY <1>1, <1>2, <1>3

\* The end of an iteration: the duel ends with it or goes on, and the pump leaves
\* when it has ended.
LEMMA SettleIs ==
    ASSUME NEW d \in Duel, NEW status, Settle(d, status)
    PROVE  /\ dm' \in Duel /\ dm'.sel = d.sel
           /\ (dm'.queued <=> d.queued) /\ (dm'.blocked <=> d.blocked)
           /\ (dm'.done <=> d.done) /\ (dm'.local <=> d.local)
           /\ (dm'.running <=> d.running /\ ~d.done)
           /\ (dm'.awaiting => d.awaiting \/ status = "awaiting")
           /\ \/ pc' = pc /\ ~d.done
              \/ pc' = IF rb.on THEN "advance" ELSE "draw"
<1>1. dm' = AfterStep(d, status)
  BY DEF Settle
<1>2. d.done => ~CardBeat(d) /\ ~PhaseBeat(d) /\ Leaves(d)
  BY DEF CardBeat, PhaseBeat, Leaves
<1>3. \/ pc' = pc /\ ~d.done
      \/ pc' = IF rb.on THEN "advance" ELSE "draw"
  BY <1>2 DEF Settle, Return
<1>4. CASE CardBeat(d)
  <2>1. dm' = [d EXCEPT !.paced = FALSE, !.hold = TRUE]
    BY <1>1, <1>4 DEF AfterStep
  <2>. QED  BY <1>2, <1>3, <1>4, <2>1 DEF Duel
<1>5. CASE ~CardBeat(d) /\ PhaseBeat(d)
  <2>1. dm' = [d EXCEPT !.phase = FALSE, !.hold = TRUE]
    BY <1>1, <1>5 DEF AfterStep, PhaseBeat, CardBeat
  <2>. QED  BY <1>2, <1>3, <1>5, <2>1 DEF Duel
<1>6. CASE ~CardBeat(d) /\ ~PhaseBeat(d) /\ d.done
  <2>1. dm' = [d EXCEPT !.running = FALSE]
    BY <1>1, <1>6 DEF AfterStep
  <2>. QED  BY <1>3, <1>6, <2>1 DEF Duel
<1>7. CASE ~CardBeat(d) /\ ~PhaseBeat(d) /\ ~d.done /\ status = "awaiting"
  <2>1. dm' = [d EXCEPT !.awaiting = TRUE]
    BY <1>1, <1>7 DEF AfterStep
  <2>. QED  BY <1>3, <1>7, <2>1 DEF Duel
<1>8. CASE ~CardBeat(d) /\ ~PhaseBeat(d) /\ ~d.done /\ status # "awaiting"
  <2>1. dm' = [d EXCEPT !.awaiting = FALSE, !.retry = 0]
    BY <1>1, <1>8 DEF AfterStep
  <2>. QED  BY <1>3, <1>8, <2>1 DEF Duel
<1>. QED  BY <1>4, <1>5, <1>6, <1>7, <1>8

\* The engine reads its buffer, if it stands at a request.
LEMMA ReadIs ==
    ASSUME NEW e \in Engine, NEW queued \in BOOLEAN, NEW f \in ReadBuffer(e, queued)
    PROVE  \/ e.st # "ask" /\ f = e
           \/ /\ e.st = "ask"
              /\ \E t \in Buffered :
                    /\ queued => t = e.resp
                    /\ ~queued => t.by = "engine"
                    /\ f \in Engine /\ f.root = e.root /\ f.resp = e.resp
                    /\ f.hist = Append(e.hist, t)
                    /\ f.given = IF t.by = "pass" THEN e.given ELSE Append(e.given, t)
                    /\ f.st = IF t.ok THEN "run" ELSE "ask"
<1>1. CASE e.st # "ask"
  BY <1>1 DEF ReadBuffer
<1>2. CASE e.st = "ask"
  <2>1. PICK t \in IF queued THEN {e.resp} ELSE {Stray(TRUE), Stray(FALSE)} : f = Read(e, t)
    BY <1>2 DEF ReadBuffer
  <2>2. e.resp \in Buffered
    BY DEF Engine
  <2>3. t \in Buffered /\ (queued => t = e.resp) /\ (~queued => t.by = "engine")
    BY <2>1, <2>2, BufferedIs
  <2>4. e.hist \in Seq(Buffered) /\ e.given \in Seq(Buffered)
    BY DEF Engine
  <2>5. Append(e.hist, t) \in Seq(Buffered) /\ Append(e.given, t) \in Seq(Buffered)
    BY <2>3, <2>4, AppendProperties
  <2>. DEFINE h == Append(e.hist, t)
              g == IF t.by = "pass" THEN e.given ELSE Append(e.given, t)
              st == IF t.ok THEN "run" ELSE "ask"
  <2>6. h \in Seq(Buffered) /\ g \in Seq(Buffered) /\ st \in {"run", "ask"}
    BY <2>4, <2>5
  <2>7. f = [e EXCEPT !.hist = h, !.beats = 0, !.given = g, !.st = st]
    BY <2>1 DEF Read
  <2>. HIDE DEF h, g, st
  <2>8. /\ f \in Engine /\ f.root = e.root /\ f.resp = e.resp /\ f.hist = h
        /\ f.given = g /\ f.st = st
    BY <2>6, <2>7 DEF Engine
  <2>. QED  BY <1>2, <2>3, <2>8 DEF h, g, st
<1>. QED  BY <1>1, <1>2

-----------------------------------------------------------------------------
(* One engine step, case by case.                                          *)

\* What has been read keeps the engine's place: a rejected response is asked again.
LEMMA ReadKeepsPlace ==
    ASSUME TypeOK, Control, NEW e \in ReadBuffer(eng, dm.queued)
    PROVE  /\ e \in Engine /\ e.root = eng.root /\ Accepted(e.hist) \in Nat
           /\ e.st = "ask" => /\ eng.st = "ask"
                              /\ Accepted(e.hist) = Accepted(eng.hist)
           /\ e.st = "ask" => Accepted(e.hist) < Len(e.root)
<1>1. eng \in Engine /\ dm.queued \in BOOLEAN /\ eng.hist \in Seq(Buffered)
  BY DEF TypeOK, Engine, Duel
<1>2. eng.st = "ask" => Accepted(eng.hist) < Len(eng.root)
  BY DEF Control
<1>3. CASE eng.st # "ask" /\ e = eng
  <2>1. Stray(TRUE) \in Buffered
    BY BufferedIs
  <2>2. Accepted(eng.hist) \in Nat
    BY <1>1, <2>1, AcceptedIs
  <2>. QED  BY <1>1, <1>3, <2>2
<1>4. ASSUME eng.st = "ask", NEW t \in Buffered,
             e \in Engine, e.root = eng.root, e.hist = Append(eng.hist, t),
             e.st = IF t.ok THEN "run" ELSE "ask"
      PROVE  /\ e.st = "ask" => Accepted(e.hist) = Accepted(eng.hist)
             /\ Accepted(e.hist) \in Nat
  <2>1. /\ Accepted(eng.hist) \in Nat
        /\ Accepted(e.hist) = IF t.ok THEN Accepted(eng.hist) + 1 ELSE Accepted(eng.hist)
    BY <1>1, <1>4, AcceptedIs
  <2>. QED  BY <1>4, <2>1
<1>5. \/ eng.st # "ask" /\ e = eng
      \/ /\ eng.st = "ask"
         /\ \E t \in Buffered : /\ e \in Engine /\ e.root = eng.root
                                /\ e.hist = Append(eng.hist, t)
                                /\ e.st = IF t.ok THEN "run" ELSE "ask"
  BY <1>1, ReadIs
<1>. QED  BY <1>2, <1>3, <1>4, <1>5

\* What is asked is a request of the duel.
LEMMA AskedIs ==
    ASSUME NEW e \in Engine, Accepted(e.hist) < Len(e.root)
    PROVE  /\ Accepted(e.hist) \in Nat /\ Accepted(e.hist) + 1 \in DOMAIN e.root
           /\ Asked(e) \in Kinds
<1>1. Stray(TRUE) \in Buffered /\ e.hist \in Seq(Buffered) /\ e.root \in Seq(Kinds)
  BY BufferedIs DEF Engine
<1>2. Accepted(e.hist) \in Nat
  BY <1>1, AcceptedIs
<1>3. Len(e.root) \in Nat /\ DOMAIN e.root = 1..Len(e.root)
  BY <1>1, LenProperties
<1>4. Accepted(e.hist) + 1 \in DOMAIN e.root
  BY <1>2, <1>3
<1>. QED  BY <1>1, <1>2, <1>3, <1>4, ElementOfSeq DEF Asked

\* The flags when the engine is called: what was queued is taken.
LEMMA ConsumeIs ==
    ASSUME dm \in Duel
    PROVE  /\ Consume \in Duel /\ ~Consume.queued /\ Consume.sel = dm.sel
           /\ (Consume.running <=> dm.running) /\ (Consume.done <=> dm.done)
           /\ (Consume.blocked <=> dm.blocked) /\ (Consume.local <=> dm.local)
           /\ (Consume.awaiting <=> dm.awaiting /\ ~dm.queued)
<1>1. (IF dm.queued THEN FALSE ELSE dm.awaiting) \in BOOLEAN
  BY DEF Duel
<1>. DEFINE a == IF dm.queued THEN FALSE ELSE dm.awaiting
<1>2. a \in BOOLEAN /\ (a <=> dm.awaiting /\ ~dm.queued)
  BY <1>1 DEF Duel
<1>3. Consume = [dm EXCEPT !.queued = FALSE, !.awaiting = a]
  BY DEF Consume
<1>. HIDE DEF a
<1>. QED  BY <1>2, <1>3 DEF Duel

\* What an engine step does to the engine once it has read, and to the timeline.
Quiet == UNCHANGED <<tl, replay>>
Asks(e) ==
    LET kind == Asked(e)
        own  == Inline(dm, kind) /\ kind # "pass"
    IN  /\ eng'.st = "ask" /\ Accepted(e.hist) < Len(e.root)
        /\ (dm'.queued <=> Inline(dm, kind)) /\ dm'.sel = SelOf(dm, kind)
        /\ Inline(dm, kind) => eng'.resp = InlineAnswer(kind)
        /\ own /\ ~rb.on => Record(InlineAnswer(kind))
        /\ ~own \/ rb.on => Quiet
        /\ own /\ (rb.on \/ ~replay.on) => strayed'
Outcome(e) ==
    \/ e.st = "ask" /\ eng'.st = "ask" /\ ~dm'.queued /\ dm'.sel = dm.sel /\ Quiet
    \/ Asks(e)
    \/ /\ e.st = "run" /\ eng'.st = "run" /\ ~dm'.queued /\ dm'.sel = dm.sel
       /\ ~dm'.awaiting /\ Quiet
    \/ ~dm'.running /\ eng'.st = "over" /\ Quiet
OneStep(e) == /\ eng' \in Engine /\ eng'.root = e.root
              /\ eng'.hist = e.hist /\ eng'.given = e.given /\ Outcome(e)

\* An answer that is refused once more, and not listed again.
SameAgain(e) == /\ e.st = "ask" /\ Asked(e) = "refused" /\ eng' = eng /\ Quiet
                /\ dm'.queued /\ dm'.sel = "none"
StepFlags ==
    /\ dm' \in Duel /\ ~dm'.blocked /\ (dm'.local <=> dm.local)
    /\ dm'.running => dm.running /\ ~dm'.done
    /\ \/ pc' = "pump" /\ dm'.running
       \/ pc' = IF rb.on THEN "advance" ELSE "draw"

\* Settling what the request or the progress made of the flags.
LEMMA SettledFlags ==
    ASSUME TypeOK, Control, pc = "pump", NEW d \in Duel, NEW status,
           Settle(d, status), ~d.blocked, d.local <=> dm.local, d.running <=> dm.running
    PROVE  /\ StepFlags /\ dm'.sel = d.sel /\ (dm'.queued <=> d.queued)
           /\ (d.done => ~dm'.running) /\ (dm'.awaiting => d.awaiting \/ status = "awaiting")
<1>1. dm.running
  BY DEF Control
<1>2. /\ dm' \in Duel /\ dm'.sel = d.sel
      /\ (dm'.queued <=> d.queued) /\ (dm'.blocked <=> d.blocked)
      /\ (dm'.done <=> d.done) /\ (dm'.local <=> d.local)
      /\ (dm'.running <=> d.running /\ ~d.done)
      /\ (dm'.awaiting => d.awaiting \/ status = "awaiting")
      /\ \/ pc' = pc /\ ~d.done
         \/ pc' = IF rb.on THEN "advance" ELSE "draw"
  BY SettleIs
<1>3. pc' = pc /\ ~d.done => pc' = "pump" /\ dm'.running
  BY <1>1, <1>2
<1>. QED  BY <1>1, <1>2, <1>3 DEF StepFlags

\* Flags that differ from dm's in what a step may change.
Same(d) == /\ d \in Duel /\ (d.running <=> dm.running) /\ ~d.blocked
           /\ (d.local <=> dm.local) /\ ~d.awaiting

\* A step strays if the engine has read a response nobody gave.
Strays == /\ strayed' \in BOOLEAN /\ (strayed => strayed')
          /\ eng.st = "ask" /\ ~dm.queued => strayed'

\* A request, from flags d of an engine step: it is shown, or answered and recorded.
LEMMA RequestIs ==
    ASSUME TypeOK, Control, pc = "pump", NEW e \in Engine, Accepted(e.hist) < Len(e.root),
           e.st = "ask", NEW d \in Duel, Same(d), ~d.queued, d.sel = dm.sel, Request(e, d)
    PROVE  /\ StepFlags /\ Strays /\ Asks(e) /\ eng' \in Engine /\ eng'.root = e.root
           /\ eng'.hist = e.hist /\ eng'.given = e.given
<1>. DEFINE kind == Asked(e)
            t == InlineAnswer(kind)
            own == Inline(dm, kind) /\ kind # "pass"
            c == ParseRequest(d, kind)
<1>1. kind \in Kinds
  BY AskedIs
<1>2. (Inline(d, kind) <=> Inline(dm, kind)) /\ SelOf(d, kind) = SelOf(dm, kind)
  BY DEF Same, Inline, SelOf
<1>3. /\ Settle(c, "awaiting")
      /\ eng' = IF Inline(d, kind) THEN [e EXCEPT !.resp = t] ELSE e
      /\ (Inline(d, kind) /\ kind # "pass") /\ ~rb.on => Record(t)
      /\ ~((Inline(d, kind) /\ kind # "pass") /\ ~rb.on) => UNCHANGED <<tl, replay>>
      /\ strayed' = (strayed \/ (eng.st = "ask" /\ ~dm.queued)
                             \/ ((Inline(d, kind) /\ kind # "pass")
                                   /\ (rb.on \/ ~replay.on)))
  BY DEF Request
<1>4. Strays /\ (own /\ (rb.on \/ ~replay.on) => strayed')
  BY <1>2, <1>3 DEF Strays
<1>5. (own /\ ~rb.on => Record(t)) /\ (~own \/ rb.on => Quiet)
  BY <1>2, <1>3 DEF Quiet
<1>6. /\ c \in Duel /\ (c.queued <=> d.queued \/ Inline(d, kind))
      /\ (c.blocked => d.blocked) /\ (c.running <=> d.running)
      /\ (c.awaiting <=> d.awaiting) /\ (c.local <=> d.local) /\ c.sel = SelOf(d, kind)
  BY <1>1, ParseIs
<1>7. Inline(dm, kind) => /\ t \in Buffered
                          /\ eng' = [e EXCEPT !.resp = t]
  <2>1. Inline(dm, kind) => kind \in {"pass", "auto", "refused", "pick"}
    BY DEF Inline
  <2>. QED  BY <1>1, <1>2, <1>3, <2>1, InlineIs
<1>8. ~Inline(dm, kind) => eng' = e
  BY <1>2, <1>3
<1>. HIDE DEF c, t, kind
<1>9. /\ eng' \in Engine /\ eng'.root = e.root /\ eng'.hist = e.hist
      /\ eng'.given = e.given /\ eng'.st = "ask" /\ (Inline(dm, kind) => eng'.resp = t)
  BY <1>7, <1>8 DEF Engine
<1>10. ~c.blocked /\ (c.local <=> dm.local) /\ (c.running <=> dm.running)
  BY <1>6 DEF Same
<1>11. StepFlags /\ dm'.sel = c.sel /\ (dm'.queued <=> c.queued)
  BY <1>3, <1>6, <1>10, SettledFlags
<1>12. (dm'.queued <=> Inline(dm, kind)) /\ dm'.sel = SelOf(dm, kind)
  BY <1>2, <1>6, <1>11
<1>13. Asks(e)
  BY <1>4, <1>5, <1>9, <1>12 DEF Asks, kind, t
<1>. QED  BY <1>4, <1>9, <1>11, <1>13

\* The ways an engine step can go.
LEMMA EngineStepIs ==
    ASSUME TypeOK, Control, EngineStep
    PROVE  /\ StepFlags /\ Strays /\ rb' = rb
           /\ \E e \in ReadBuffer(eng, dm.queued) : OneStep(e) \/ SameAgain(e)
<1>1. pc = "pump" /\ ~(dm.awaiting /\ ~dm.queued) /\ dm \in Duel /\ rb' = rb
  BY DEF EngineStep, Waiting, TypeOK
<1>2. dm.running /\ ~dm.blocked
  BY <1>1 DEF Control
<1>3. /\ Consume \in Duel /\ ~Consume.queued /\ Consume.sel = dm.sel
      /\ (Consume.running <=> dm.running) /\ ~Consume.blocked
      /\ (Consume.local <=> dm.local) /\ ~Consume.awaiting
  BY <1>1, <1>2, ConsumeIs
<1>4. ASSUME NEW d \in Duel, NEW status, Same(d), Settle(d, status)
      PROVE  /\ StepFlags /\ dm'.sel = d.sel /\ (dm'.queued <=> d.queued)
             /\ (d.done => ~dm'.running) /\ (dm'.awaiting => status = "awaiting")
  <2>1. ~d.blocked /\ (d.local <=> dm.local) /\ (d.running <=> dm.running) /\ ~d.awaiting
    BY <1>4 DEF Same
  <2>2. /\ StepFlags /\ dm'.sel = d.sel /\ (dm'.queued <=> d.queued)
        /\ (d.done => ~dm'.running) /\ (dm'.awaiting => d.awaiting \/ status = "awaiting")
    BY <1>1, <1>4, <2>1, SettledFlags
  <2>. QED  BY <2>1, <2>2
<1>5. /\ Retried \in Duel /\ Same(Retried) /\ ~Retried.queued /\ Retried.sel = dm.sel
      /\ Same(Consume)
  <2>. DEFINE x == Consume.retry
              n == IF x > MaxRetries THEN x ELSE x + 1
  <2>1. n \in Nat
    BY <1>3 DEF Duel
  <2>2. Retried = [Consume EXCEPT !.retry = n]
    BY DEF Retried
  <2>. HIDE DEF n
  <2>. QED  BY <1>3, <2>1, <2>2 DEF Duel, Same
<1>6. ASSUME NEW e \in ReadBuffer(eng, dm.queued), e.st = "ask", eng' = e,
             Settle(Retried, "awaiting"), AsksNothing
      PROVE  StepFlags /\ Strays /\ OneStep(e)
  <2>1. StepFlags /\ dm'.sel = dm.sel /\ ~dm'.queued
    BY <1>4, <1>5, <1>6
  <2>2. e \in Engine
    BY ReadKeepsPlace
  <2>3. Strays /\ Quiet
    BY <1>6 DEF AsksNothing, Strays, Quiet
  <2>. QED  BY <1>6, <2>1, <2>2, <2>3 DEF OneStep, Outcome
<1>7. ASSUME NEW e \in ReadBuffer(eng, dm.queued), e.st = "ask", Request(e, Retried)
      PROVE  StepFlags /\ Strays /\ OneStep(e)
  <2>1. e \in Engine /\ Accepted(e.hist) < Len(e.root)
    BY <1>7, ReadKeepsPlace
  <2>2. /\ StepFlags /\ Strays /\ Asks(e) /\ eng' \in Engine /\ eng'.root = e.root
        /\ eng'.hist = e.hist /\ eng'.given = e.given
    BY <1>1, <1>5, <1>7, <2>1, RequestIs
  <2>. QED  BY <2>2 DEF OneStep, Outcome
<1>8. ASSUME NEW e \in ReadBuffer(eng, dm.queued), Refused(e),
             Settle(ParseRequest(Retried, "refused"), "awaiting"), eng' = eng, AsksNothing
      PROVE  StepFlags /\ Strays /\ SameAgain(e)
  <2>. DEFINE c == ParseRequest(Retried, "refused")
  <2>1. "refused" \in Kinds /\ Inline(Retried, "refused")
    BY DEF Kinds, Inline
  <2>2. /\ c \in Duel /\ (c.queued <=> Retried.queued \/ Inline(Retried, "refused"))
        /\ (c.blocked => Retried.blocked) /\ (c.running <=> Retried.running)
        /\ (c.awaiting <=> Retried.awaiting) /\ (c.local <=> Retried.local)
        /\ c.sel = SelOf(Retried, "refused")
    BY <1>5, <2>1, ParseIs
  <2>3. Settle(c, "awaiting")
    BY <1>8
  <2>. HIDE DEF c
  <2>4. Same(c) /\ c.queued /\ c.sel = "none"
    BY <1>5, <2>1, <2>2 DEF Same, SelOf
  <2>5. StepFlags /\ dm'.sel = c.sel /\ (dm'.queued <=> c.queued)
    BY <1>4, <2>2, <2>3, <2>4
  <2>6. Strays /\ Quiet
    BY <1>8 DEF AsksNothing, Strays, Quiet
  <2>. QED  BY <1>8, <2>4, <2>5, <2>6 DEF SameAgain, Refused
<1>9. ASSUME NEW e \in ReadBuffer(eng, dm.queued), e.st = "run",
             eng' = [e EXCEPT !.beats = @ + 1],
             NEW m \in {"other", "paced", "phase"},
             Settle([Consume EXCEPT !.paced = @ \/ m = "paced", !.phase = @ \/ m = "phase"],
                    "continue"), AsksNothing
      PROVE  StepFlags /\ Strays /\ OneStep(e)
  <2>. DEFINE x == Consume.paced \/ m = "paced"
              y == Consume.phase \/ m = "phase"
              d == [Consume EXCEPT !.paced = x, !.phase = y]
  <2>1. x \in BOOLEAN /\ y \in BOOLEAN
    OBVIOUS
  <2>2. Settle(d, "continue")
    BY <1>9
  <2>. HIDE DEF x, y
  <2>3. d \in Duel /\ Same(d) /\ ~d.queued /\ d.sel = dm.sel
    BY <1>3, <2>1 DEF Duel, Same
  <2>. HIDE DEF d
  <2>4. StepFlags /\ dm'.sel = d.sel /\ (dm'.queued <=> d.queued) /\ ~dm'.awaiting
    BY <1>4, <2>2, <2>3
  <2>5. e \in Engine
    BY ReadKeepsPlace
  <2>. DEFINE n == e.beats + 1
  <2>6. n \in Nat /\ eng' = [e EXCEPT !.beats = n]
    BY <1>9, <2>5 DEF Engine
  <2>. HIDE DEF n
  <2>7. /\ eng' \in Engine /\ eng'.root = e.root /\ eng'.hist = e.hist
        /\ eng'.given = e.given /\ eng'.st = e.st
    BY <2>5, <2>6 DEF Engine
  <2>8. Strays /\ Quiet
    BY <1>9 DEF AsksNothing, Strays, Quiet
  <2>. QED  BY <1>9, <2>3, <2>4, <2>7, <2>8 DEF OneStep, Outcome
<1>10. ASSUME NEW e \in ReadBuffer(eng, dm.queued), e.st = "run",
              Accepted(e.hist) < Len(e.root), Request([e EXCEPT !.st = "ask"], Consume)
       PROVE  StepFlags /\ Strays /\ OneStep(e)
  <2>. DEFINE f == [e EXCEPT !.st = "ask"]
  <2>1. e \in Engine
    BY ReadKeepsPlace
  <2>2. /\ f \in Engine /\ f.root = e.root /\ f.hist = e.hist /\ f.given = e.given
        /\ f.st = "ask"
    BY <2>1 DEF Engine
  <2>3. Request(f, Consume)
    BY <1>10
  <2>. HIDE DEF f
  <2>4. /\ StepFlags /\ Strays /\ Asks(f) /\ eng' \in Engine /\ eng'.root = f.root
        /\ eng'.hist = f.hist /\ eng'.given = f.given
    BY <1>1, <1>3, <1>5, <1>10, <2>2, <2>3, RequestIs
  <2>5. Asked(f) = Asked(e) /\ Accepted(f.hist) = Accepted(e.hist)
    BY <2>2 DEF Asked
  <2>6. Asks(e)
    BY <2>2, <2>4, <2>5 DEF Asks
  <2>. QED  BY <2>2, <2>4, <2>6 DEF OneStep, Outcome
<1>11. ASSUME NEW e \in ReadBuffer(eng, dm.queued), e.st = "run",
              eng' = [e EXCEPT !.st = "over"],
              Settle([Consume EXCEPT !.done = TRUE], "over"), AsksNothing
       PROVE  StepFlags /\ Strays /\ OneStep(e)
  <2>. DEFINE d == [Consume EXCEPT !.done = TRUE]
  <2>1. d \in Duel /\ Same(d) /\ d.done
    BY <1>3 DEF Duel, Same
  <2>2. Settle(d, "over")
    BY <1>11
  <2>. HIDE DEF d
  <2>3. StepFlags /\ ~dm'.running
    BY <1>4, <2>1, <2>2
  <2>4. e \in Engine
    BY ReadKeepsPlace
  <2>5. /\ eng' \in Engine /\ eng'.root = e.root /\ eng'.hist = e.hist
        /\ eng'.given = e.given /\ eng'.st = "over"
    BY <1>11, <2>4 DEF Engine
  <2>6. Strays /\ Quiet
    BY <1>11 DEF AsksNothing, Strays, Quiet
  <2>. QED  BY <2>3, <2>5, <2>6 DEF OneStep, Outcome
<1>12. PICK e \in ReadBuffer(eng, dm.queued) :
         \/ /\ e.st = "ask" /\ eng' = e
            /\ Settle(Retried, "awaiting") /\ AsksNothing
         \/ e.st = "ask" /\ Request(e, Retried)
         \/ /\ Refused(e) /\ Settle(ParseRequest(Retried, "refused"), "awaiting")
            /\ eng' = eng /\ AsksNothing
         \/ /\ e.st = "run" /\ eng' = [e EXCEPT !.beats = @ + 1] /\ AsksNothing
            /\ \E m \in {"other", "paced", "phase"} :
                 Settle([Consume EXCEPT !.paced = @ \/ m = "paced",
                                        !.phase = @ \/ m = "phase"], "continue")
         \/ /\ e.st = "run" /\ Accepted(e.hist) < Len(e.root)
            /\ Request([e EXCEPT !.st = "ask"], Consume)
         \/ /\ e.st = "run" /\ eng' = [e EXCEPT !.st = "over"] /\ AsksNothing
            /\ Settle([Consume EXCEPT !.done = TRUE], "over")
  BY DEF EngineStep
<1>13. StepFlags /\ Strays /\ (OneStep(e) \/ SameAgain(e))
  BY <1>6, <1>7, <1>8, <1>9, <1>10, <1>11, <1>12
<1>. QED  BY <1>1, <1>13

-----------------------------------------------------------------------------
(* The values and the control, action by action.                           *)

\* What the recorder does.
LEMMA RecordIs ==
    ASSUME TypeOK, NEW t \in Responses, Record(t)
    PROVE  /\ ~replay.on => tl' = tl /\ replay' = replay
           /\ replay.on => /\ tl' \in Timeline /\ tl'.root = tl.root
                           /\ tl'.acts = Append(Prefix(tl.acts, tl.applied), t)
                           /\ tl'.applied = tl.applied + 1 /\ Len(tl'.acts) = tl.applied + 1
           /\ replay.on => /\ replay' \in Replay /\ (replay'.on <=> replay.on)
                           /\ (replay'.whole <=> replay.whole)
                           /\ replay'.resp = Prefix(Append(replay.resp, t), tl.applied + 1)
<1>1. CASE ~replay.on
  BY <1>1 DEF Record
<1>2. CASE replay.on
  <2>. DEFINE acts == Append(Prefix(tl.acts, tl.applied), t)
              n == Len(acts)
              q == Append(replay.resp, t)
              resp == Prefix(q, n)
  <2>1. /\ tl.acts \in Seq(Responses) /\ tl.applied \in Nat /\ tl.applied <= Len(tl.acts)
        /\ replay.resp \in Seq(Responses) /\ replay \in Replay /\ tl \in Timeline
    BY DEF TypeOK, Timeline, Replay
  <2>2. acts \in Seq(Responses) /\ n = tl.applied + 1
    BY <2>1, Branch
  <2>3. q \in Seq(Responses)
    BY <2>1, AppendProperties
  <2>4. tl' = [tl EXCEPT !.acts = acts, !.applied = n]
        /\ replay' = [replay EXCEPT !.resp = resp]
    BY <1>2 DEF Record
  <2>. HIDE DEF acts, q
  <2>5. resp \in Seq(Responses)
    <3>1. n \in Nat /\ Len(q) \in Nat
      BY <2>1, <2>2, <2>3, LenProperties
    <3>2. CASE n <= Len(q)
      BY <2>3, <3>1, <3>2, PrefixIs
    <3>3. CASE n > Len(q)
      <4>1. resp = q
        BY <2>3, <3>1, <3>3, PrefixAll
      <4>. QED  BY <2>3, <4>1
    <3>. QED  BY <3>1, <3>2, <3>3
  <2>6. n = Len(acts) /\ n \in Nat
    BY <2>1, <2>2
  <2>7. resp = Prefix(q, tl.applied + 1)
    BY <2>2
  <2>. HIDE DEF resp, n
  <2>8. /\ tl' \in Timeline /\ tl'.root = tl.root /\ tl'.acts = acts /\ tl'.applied = n
    BY <2>1, <2>2, <2>4, <2>6 DEF Timeline
  <2>9. /\ replay' \in Replay /\ (replay'.on <=> replay.on)
        /\ (replay'.whole <=> replay.whole) /\ replay'.resp = resp
    BY <2>1, <2>4, <2>5 DEF Replay
  <2>. QED  BY <1>2, <2>2, <2>4, <2>6, <2>7, <2>8, <2>9 DEF acts, q
<1>. QED  BY <1>1, <1>2

\* A response of the live duel.
LEMMA RespondIs ==
    ASSUME TypeOK, NEW d \in Duel, NEW t \in Responses, Respond(d, t)
    PROVE  /\ dm' = Submit(d) /\ eng' \in Engine /\ eng'.root = eng.root
           /\ eng'.hist = eng.hist /\ eng'.given = eng.given /\ eng'.st = eng.st
           /\ eng'.resp = t /\ Record(t) /\ strayed' = (strayed \/ ~replay.on)
<1>1. t \in Buffered /\ eng \in Engine /\ eng' = [eng EXCEPT !.resp = t]
  BY BufferedIs DEF TypeOK, Respond
<1>. QED  BY <1>1 DEF Respond, Engine

\* The values stay of their kinds, and so does the recording.
LEMMA RecordTypes ==
    ASSUME TypeOK, NEW t \in Responses, Record(t)
    PROVE  /\ tl' \in Timeline /\ tl'.applied <= Len(tl'.acts)
           /\ replay' \in Replay
<1>1. CASE ~replay.on
  BY <1>1, RecordIs DEF TypeOK
<1>2. CASE replay.on
  <2>1. /\ tl' \in Timeline /\ replay' \in Replay
        /\ tl'.applied = tl.applied + 1 /\ Len(tl'.acts) = tl.applied + 1
    BY <1>2, RecordIs
  <2>2. tl.applied \in Nat
    BY DEF TypeOK, Timeline
  <2>. QED  BY <2>1, <2>2 DEF TypeOK
<1>. QED  BY <1>1, <1>2

\* An answer of the player or of the automatic opponent.
LEMMA AnswerTypes ==
    ASSUME TypeOK, Control, NEW d \in Duel, NEW t \in Responses, Respond(d, t),
           d.running <=> dm.running, d.done <=> dm.done, d.local <=> dm.local, ~rb.on,
           rb' = rb,
           \/ pc' \in {"frame", "draw"}
           \/ pc' = "pump" /\ dm.running
    PROVE  TypeOK' /\ Control'
<1>1. /\ dm' = Submit(d) /\ eng' \in Engine /\ eng'.root = eng.root
      /\ eng'.hist = eng.hist /\ eng'.st = eng.st /\ Record(t)
      /\ strayed' = (strayed \/ ~replay.on)
  BY RespondIs
<1>2. /\ tl' \in Timeline /\ tl'.applied <= Len(tl'.acts)
      /\ replay' \in Replay /\ strayed' \in BOOLEAN
  BY <1>1, RecordTypes
<1>3. /\ dm' \in Duel /\ (dm'.running <=> d.running) /\ (dm'.done <=> d.done) /\ ~dm'.blocked
      /\ (dm'.local <=> d.local)
  BY <1>1, SubmitIs
<1>4. TypeOK'
  BY <1>1, <1>2, <1>3 DEF TypeOK
<1>5. Accepted(eng'.hist) = Accepted(eng.hist) /\ Len(eng'.root) = Len(eng.root)
  BY <1>1
<1>6. ~rb'.on /\ ~rb'.undo
  BY DEF Control
<1>7. Control'
  BY <1>1, <1>3, <1>5, <1>6 DEF Control
<1>. QED  BY <1>4, <1>7

\* Every action of the program.
LEMMA ProgramTypes ==
    ASSUME TypeOK, Control, Program
    PROVE  TypeOK' /\ Control'
<1>1. dm \in Duel
  BY DEF TypeOK
<1>2. ASSUME GameTick PROVE TypeOK' /\ Control'
  BY <1>2 DEF GameTick, TypeOK, Control
<1>3. ASSUME LeaveToSeat PROVE TypeOK' /\ Control'
  BY <1>3 DEF LeaveToSeat, Waiting, Return, TypeOK, Control
<1>4. ASSUME ParkOpponent PROVE TypeOK' /\ Control'
  <2>1. dm' = [dm EXCEPT !.blocked = TRUE] /\ pc' \in {"advance", "draw"} /\ pc = "pump"
    BY <1>4 DEF ParkOpponent, Waiting, Return
  <2>2. dm' \in Duel /\ (dm'.running <=> dm.running) /\ (dm'.done <=> dm.done)
        /\ (dm'.local <=> dm.local)
    BY <1>1, <2>1 DEF Duel
  <2>3. (pc' = "advance" => rb.on) /\ (pc' = "draw" => ~rb.on)
        /\ UNCHANGED <<eng, tl, replay, rb, strayed>>
    BY <1>4 DEF ParkOpponent, Return
  <2>4. TypeOK'
    BY <2>1, <2>2, <2>3 DEF TypeOK
  <2>5. Control'
    BY <2>1, <2>2, <2>3 DEF Control
  <2>. QED  BY <2>4, <2>5
<1>5. ASSUME ParkRaw PROVE TypeOK' /\ Control'
  <2>1. dm' = [dm EXCEPT !.blocked = TRUE, !.sel = "raw"] /\ pc' \in {"advance", "draw"}
    BY <1>5 DEF ParkRaw, Return
  <2>2. dm' \in Duel /\ (dm'.running <=> dm.running) /\ (dm'.done <=> dm.done)
        /\ (dm'.local <=> dm.local)
    BY <1>1, <2>1 DEF Duel
  <2>3. (pc' = "advance" => rb.on) /\ (pc' = "draw" => ~rb.on)
        /\ UNCHANGED <<eng, tl, replay, rb, strayed>>
    BY <1>5 DEF ParkRaw, Return
  <2>4. TypeOK'
    BY <2>1, <2>2, <2>3 DEF TypeOK
  <2>5. Control'
    BY <2>1, <2>2, <2>3 DEF Control
  <2>. QED  BY <2>4, <2>5
<1>6. ASSUME AutoRespond PROVE TypeOK' /\ Control'
  <2>. DEFINE hold == dm.hold \/ dm.beat
              d == [dm EXCEPT !.hold = hold]
  <2>1. hold \in BOOLEAN
    OBVIOUS
  <2>2. PICK t \in Responses : Respond(d, t)
    BY <1>6 DEF AutoRespond
  <2>. HIDE DEF hold
  <2>3. d \in Duel /\ (d.running <=> dm.running) /\ (d.done <=> dm.done)
        /\ (d.local <=> dm.local)
    BY <1>1, <2>1 DEF Duel
  <2>. HIDE DEF d
  <2>4. ~rb.on /\ dm.running /\ pc = "pump" /\ rb' = rb /\ pc' \in {"draw", "pump"}
    BY <1>6 DEF AutoRespond, Waiting, Return, Control
  <2>. QED  BY <2>2, <2>3, <2>4, AnswerTypes
<1>7. ASSUME EngineStep PROVE TypeOK' /\ Control'
  <2>1. StepFlags /\ Strays /\ rb' = rb
    BY <1>7, EngineStepIs
  <2>2. PICK e \in ReadBuffer(eng, dm.queued) : OneStep(e) \/ SameAgain(e)
    BY <1>7, EngineStepIs
  <2>3. e.st = "ask" => Accepted(e.hist) < Len(e.root)
    BY ReadKeepsPlace
  <2>4. eng' \in Engine /\ (eng'.st = "ask" => Accepted(eng'.hist) < Len(eng'.root))
    <3>1. CASE OneStep(e)
      BY <2>3, <3>1 DEF OneStep, Outcome, Asks
    <3>2. CASE SameAgain(e)
      BY <3>2 DEF SameAgain, TypeOK, Control
    <3>. QED  BY <2>2, <3>1, <3>2
  <2>5. /\ tl' \in Timeline /\ tl'.applied <= Len(tl'.acts) /\ replay' \in Replay
        /\ rb.on => tl' = tl
    <3>1. CASE Quiet
      BY <3>1 DEF Quiet, TypeOK
    <3>2. CASE ~Quiet
      <4>. DEFINE kind == Asked(e)
      <4>1. Asks(e)
        BY <2>2, <3>2 DEF OneStep, Outcome, SameAgain
      <4>2. e \in Engine /\ Accepted(e.hist) < Len(e.root)
        BY <4>1, ReadKeepsPlace DEF Asks
      <4>3. kind \in Kinds
        BY <4>2, AskedIs
      <4>4. Inline(dm, kind) /\ kind # "pass" /\ ~rb.on /\ Record(InlineAnswer(kind))
        BY <3>2, <4>1 DEF Asks
      <4>5. InlineAnswer(kind) \in Responses
        BY <4>3, <4>4, InlineIs DEF Inline
      <4>. QED  BY <4>4, <4>5, RecordTypes
    <3>. QED  BY <3>1, <3>2
  <2>6. TypeOK'
    BY <2>1, <2>4, <2>5 DEF TypeOK, StepFlags, Strays
  <2>7. ~rb.undo \/ rb.on
    BY DEF Control
  <2>8. Control'
    BY <2>1, <2>4, <2>5, <2>7 DEF StepFlags, Control
  <2>. QED  BY <2>6, <2>8
<1>8. ASSUME Advance PROVE TypeOK' /\ Control'
  <2>1. /\ pc = "advance" /\ UNCHANGED <<dm, eng, tl, replay, rb>> /\ strayed' \in BOOLEAN
        /\ pc' \in {"feed", "pump"} /\ (pc' = "pump" => dm.running /\ ~dm.blocked)
    BY <1>8 DEF Advance, TypeOK
  <2>. QED  BY <2>1 DEF TypeOK, Control
<1>9. ASSUME Feed PROVE TypeOK' /\ Control'
  <2>1. /\ pc = "feed" /\ pc' = "advance" /\ dm' = Submit(dm) /\ rb.fed < rb.target
        /\ UNCHANGED <<tl, replay, strayed>>
        /\ eng' = [eng EXCEPT !.resp = tl.acts[rb.fed + 1]]
        /\ rb' = [rb EXCEPT !.fed = @ + 1]
    BY <1>9 DEF Feed, More
  <2>2. rb.on /\ rb.target <= Len(tl.acts) /\ rb \in Rebuild /\ tl.acts \in Seq(Responses)
    BY <2>1 DEF Control, TypeOK, Timeline
  <2>3. rb.fed + 1 \in 1..Len(tl.acts) /\ rb.fed + 1 \in Nat
    BY <2>1, <2>2 DEF Rebuild
  <2>4. tl.acts[rb.fed + 1] \in Responses
    BY <2>2, <2>3, ElementOfSeq
  <2>5. tl.acts[rb.fed + 1] \in Buffered
    BY <2>4, BufferedIs
  <2>6. /\ eng' \in Engine /\ eng'.root = eng.root /\ eng'.hist = eng.hist /\ eng'.st = eng.st
    BY <2>1, <2>5 DEF TypeOK, Engine
  <2>7. /\ rb' \in Rebuild /\ (rb'.on <=> rb.on) /\ (rb'.undo <=> rb.undo)
        /\ rb'.target = rb.target /\ rb'.fed = rb.fed + 1
    BY <2>1, <2>2, <2>3 DEF Rebuild
  <2>8. /\ dm' \in Duel /\ (dm'.running <=> dm.running) /\ (dm'.done <=> dm.done)
        /\ (dm'.local <=> dm.local)
    BY <1>1, <2>1, SubmitIs
  <2>9. TypeOK'
    BY <2>1, <2>6, <2>7, <2>8 DEF TypeOK
  <2>10. Accepted(eng'.hist) = Accepted(eng.hist) /\ Len(eng'.root) = Len(eng.root)
    BY <2>6
  <2>11. rb'.fed <= rb'.target
    BY <2>1, <2>2, <2>7 DEF Rebuild
  <2>12. tl'.acts = tl.acts
    BY <2>1
  <2>13. Control'
    BY <2>1, <2>2, <2>6, <2>7, <2>8, <2>10, <2>11, <2>12 DEF Control
  <2>. QED  BY <2>9, <2>13
<1>10. ASSUME Restored PROVE TypeOK' /\ Control'
  <2>. DEFINE n == rb.target
              q == replay.resp
              resp == IF replay.on THEN Prefix(q, n) ELSE q
              whole == replay.whole /\ rb.target <= Len(replay.resp)
  <2>1. /\ pc = "feed" /\ pc' = "frame" /\ UNCHANGED <<eng, strayed>>
        /\ dm' = [dm EXCEPT !.local = TRUE] /\ rb' = NoRebuild
        /\ tl' = [tl EXCEPT !.applied = n]
        /\ replay' = [replay EXCEPT !.resp = resp, !.whole = whole]
    BY <1>10 DEF Restored
  <2>2. rb.target \in Nat /\ rb.target <= Len(tl.acts)
    BY <2>1 DEF Control, TypeOK, Rebuild
  <2>3. q \in Seq(Responses)
    BY DEF TypeOK, Replay
  <2>4. resp \in Seq(Responses)
    <3>1. Len(q) \in Nat
      BY <2>3, LenProperties
    <3>2. n <= Len(q) => Prefix(q, n) \in Seq(Responses)
      BY <2>2, <2>3, PrefixIs
    <3>3. n > Len(q) => Prefix(q, n) = q
      BY <2>2, <2>3, <3>1, PrefixAll
    <3>. QED  BY <2>2, <2>3, <3>1, <3>2, <3>3
  <2>5. whole \in BOOLEAN
    BY DEF TypeOK, Replay
  <2>. HIDE DEF resp, whole
  <2>6. replay' \in Replay
    BY <2>1, <2>4, <2>5 DEF TypeOK, Replay
  <2>7. tl' \in Timeline /\ tl'.acts = tl.acts /\ tl'.applied = n
    BY <2>1, <2>2 DEF TypeOK, Timeline
  <2>8. dm' \in Duel /\ (dm'.running <=> dm.running) /\ (dm'.done <=> dm.done) /\ dm'.local
    BY <1>1, <2>1 DEF Duel
  <2>9. rb' \in Rebuild /\ ~rb'.on /\ ~rb'.undo
    BY <2>1 DEF NoRebuild, Rebuild
  <2>10. TypeOK'
    BY <2>1, <2>2, <2>6, <2>7, <2>8, <2>9 DEF TypeOK
  <2>11. Control'
    BY <2>1, <2>8, <2>9 DEF Control
  <2>. QED  BY <2>10, <2>11
<1>11. ASSUME DrawIdle PROVE TypeOK' /\ Control'
  <2>1. /\ pc = "draw" /\ pc' = "frame" /\ dm' = Pacing(dm)
        /\ replay' = [replay EXCEPT !.on = Recording]
        /\ UNCHANGED <<eng, tl, rb, strayed>>
    BY <1>11 DEF DrawIdle
  <2>2. dm' \in Duel /\ (dm'.running <=> dm.running) /\ (dm'.done <=> dm.done)
        /\ (dm'.local <=> dm.local)
    BY <1>1, <2>1, PacingIs
  <2>3. Recording \in BOOLEAN
    BY DEF Recording, TypeOK, Replay, Duel
  <2>4. replay' \in Replay
    BY <2>1, <2>3 DEF TypeOK, Replay
  <2>5. TypeOK'
    BY <2>1, <2>2, <2>4 DEF TypeOK
  <2>6. Control'
    BY <2>1, <2>2 DEF Control
  <2>. QED  BY <2>5, <2>6
<1>. QED
  BY <1>2, <1>3, <1>4, <1>5, <1>6, <1>7, <1>8, <1>9, <1>10, <1>11 DEF Program

\* A new engine.
LEMMA EngineStarts ==
    ASSUME NEW r \in Seq(Kinds)
    PROVE  /\ CreateDuel(r) \in Engine /\ CreateDuel(r).root = r /\ CreateDuel(r).st = "run"
           /\ CreateDuel(r).hist = <<>> /\ CreateDuel(r).given = <<>>
           /\ NoEngine \in Engine /\ NoEngine.st = "none" /\ NoEngine.hist = <<>>
<1>1. Stray(FALSE) \in Buffered /\ <<>> \in Seq(Buffered) /\ <<>> \in Seq(Kinds)
  BY BufferedIs, EmptySeq
<1>2. /\ NoEngine \in Engine /\ NoEngine.st = "none" /\ NoEngine.hist = <<>>
      /\ NoEngine.given = <<>>
  BY <1>1 DEF NoEngine, Engine
<1>3. CreateDuel(r) = [NoEngine EXCEPT !.root = r, !.st = "run"]
  BY DEF CreateDuel
<1>. QED  BY <1>2, <1>3 DEF Engine

\* What a jump leaves for its rebuild: an engine that has just started, or none.
JumpLeaves(k, undo) ==
    /\ pc = "draw" /\ dm' \in Duel /\ ~dm'.local /\ ~dm'.queued /\ dm'.sel = "none"
    /\ ~dm'.awaiting /\ ~dm'.blocked
    /\ dm'.running => pc' = "advance" /\ ~dm'.done /\ eng' = CreateDuel(tl.root)
    /\ ~dm'.running => pc' = "feed" /\ eng' = NoEngine
    /\ rb' = [on |-> TRUE, fed |-> 0, target |-> k, undo |-> undo]
    /\ replay' \in Replay /\ (replay'.on => replay.on) /\ replay'.resp = replay.resp
    /\ (replay'.whole <=> replay.whole) /\ tl' = tl /\ strayed' = strayed

\* A jump is that.
LEMMA JumpIs ==
    ASSUME TypeOK, Control, NEW k, NEW undo \in BOOLEAN, Jump(k, undo)
    PROVE  JumpLeaves(k, undo)
<1>1. PICK started \in BOOLEAN :
         /\ dm' = [IF started THEN StartDuel(dm) ELSE EndDuel(dm)
                      EXCEPT !.delay = FALSE, !.beat = FALSE, !.local = FALSE]
         /\ eng' = IF started THEN CreateDuel(tl.root) ELSE NoEngine
         /\ pc' = IF started THEN "advance" ELSE "feed"
  BY DEF Jump
<1>2. /\ pc = "draw" /\ rb' = [on |-> TRUE, fed |-> 0, target |-> k, undo |-> undo]
      /\ replay' = [replay EXCEPT !.on = Recording] /\ tl' = tl /\ strayed' = strayed
  BY DEF Jump
<1>3. /\ EndDuel(dm) \in Duel /\ ~EndDuel(dm).running
      /\ StartDuel(dm) \in Duel /\ StartDuel(dm).running
      /\ ~StartDuel(dm).done /\ ~StartDuel(dm).awaiting /\ ~StartDuel(dm).queued
      /\ ~StartDuel(dm).blocked /\ StartDuel(dm).sel = "none"
  BY DuelStarts DEF TypeOK
<1>4. ~EndDuel(dm).queued /\ EndDuel(dm).sel = "none" /\ ~EndDuel(dm).awaiting
      /\ ~EndDuel(dm).blocked
  BY DEF TypeOK, Duel, EndDuel
<1>. DEFINE d == IF started THEN StartDuel(dm) ELSE EndDuel(dm)
<1>5. d \in Duel /\ (d.running <=> started) /\ ~d.queued /\ ~d.awaiting /\ ~d.blocked
      /\ d.sel = "none" /\ (started => ~d.done)
  BY <1>3, <1>4
<1>6. dm' = [d EXCEPT !.delay = FALSE, !.beat = FALSE, !.local = FALSE]
  BY <1>1
<1>. HIDE DEF d
<1>7. /\ dm' \in Duel /\ ~dm'.local /\ ~dm'.queued /\ dm'.sel = "none" /\ ~dm'.awaiting
      /\ ~dm'.blocked /\ (dm'.running <=> started) /\ (started => ~dm'.done)
  BY <1>5, <1>6 DEF Duel
<1>8. Recording \in BOOLEAN /\ (Recording => replay.on)
  BY DEF Recording, TypeOK, Replay, Duel
<1>9. /\ replay' \in Replay /\ (replay'.on => replay.on) /\ replay'.resp = replay.resp
      /\ (replay'.whole <=> replay.whole)
  BY <1>2, <1>8 DEF TypeOK, Replay
<1>10. dm'.running => pc' = "advance" /\ ~dm'.done /\ eng' = CreateDuel(tl.root)
  BY <1>1, <1>7
<1>11. ~dm'.running => pc' = "feed" /\ eng' = NoEngine
  BY <1>1, <1>7
<1>. QED  BY <1>2, <1>7, <1>9, <1>10, <1>11 DEF JumpLeaves

\* Where an undo goes back to.
LEMMA UndoIs ==
    ASSUME TypeOK, NEW i \in HumanActs
    PROVE  /\ i - 1 \in Nat /\ i - 1 < Len(tl.acts) /\ i - 1 <= Len(tl.acts)
           /\ tl.acts[(i - 1) + 1].by \in {"human", "auto"}
<1>1. tl.applied \in Nat /\ tl.applied <= Len(tl.acts) /\ Len(tl.acts) \in Nat
  BY LenProperties DEF TypeOK, Timeline
<1>2. i \in 1..tl.applied /\ tl.acts[i].by \in {"human", "auto"}
  BY DEF HumanActs
<1>3. (i - 1) + 1 = i
  BY <1>1, <1>2
<1>. QED  BY <1>1, <1>2, <1>3

\* A jump keeps the values and the control.
LEMMA JumpTypes ==
    ASSUME TypeOK, Control, NEW k \in Nat, k <= Len(tl.acts), NEW undo \in BOOLEAN,
           undo => k < Len(tl.acts) /\ tl.acts[k + 1].by \in {"human", "auto"},
           JumpLeaves(k, undo)
    PROVE  TypeOK' /\ Control'
<1>. DEFINE r == [on |-> TRUE, fed |-> 0, target |-> k, undo |-> undo]
<1>1. r \in Rebuild /\ r.on /\ r.fed = 0 /\ r.target = k /\ r.undo = undo
  BY DEF Rebuild
<1>2. rb' = r
  BY DEF JumpLeaves
<1>. HIDE DEF r
<1>3. /\ CreateDuel(tl.root) \in Engine /\ CreateDuel(tl.root).st = "run"
      /\ NoEngine \in Engine /\ NoEngine.st = "none"
  BY EngineStarts DEF TypeOK, Timeline
<1>4. eng' \in Engine /\ eng'.st # "ask" /\ pc' \in {"advance", "feed"}
  BY <1>3 DEF JumpLeaves
<1>5. TypeOK'
  BY <1>1, <1>2, <1>4 DEF JumpLeaves, TypeOK
<1>6. rb'.on /\ rb'.fed <= rb'.target /\ rb'.target <= Len(tl'.acts)
  BY <1>1, <1>2 DEF JumpLeaves
<1>7. rb'.undo => rb'.target < Len(tl'.acts) /\ tl'.acts[rb'.target + 1].by \in {"human", "auto"}
  BY <1>1, <1>2 DEF JumpLeaves
<1>8. pc' # "pump" /\ (dm'.running => ~dm'.done) /\ ~dm'.local /\ pc' \notin {"frame", "draw"}
  BY DEF JumpLeaves
<1>9. Control'
  BY <1>4, <1>6, <1>7, <1>8 DEF Control
<1>. QED  BY <1>5, <1>9

\* What a new duel leaves.
NewLeaves ==
    /\ pc = "draw" /\ pc' = "frame" /\ dm' \in Duel /\ dm'.running /\ ~dm'.done
    /\ ~dm'.awaiting /\ ~dm'.queued /\ ~dm'.blocked /\ dm'.sel = "none"
    /\ (dm'.local <=> dm.local) /\ tl' \in Timeline /\ tl'.acts = <<>> /\ tl'.applied = 0 /\ eng' = CreateDuel(tl'.root)
    /\ replay' \in Replay /\ replay'.resp = <<>> /\ strayed' = FALSE /\ rb' = rb

\* A new duel is that.
LEMMA NewIs ==
    ASSUME TypeOK, NewDuel
    PROVE  NewLeaves
<1>1. PICK r \in Roots : /\ eng' = CreateDuel(r)
                         /\ tl' = [root |-> r, acts |-> <<>>, applied |-> 0]
  BY DEF NewDuel
<1>2. r \in Seq(Kinds) /\ <<>> \in Seq(Responses)
  BY <1>1, RootsAssumption, EmptySeq
<1>3. tl' \in Timeline /\ tl'.acts = <<>> /\ tl'.applied = 0 /\ tl'.root = r
  BY <1>1, <1>2 DEF Timeline
<1>4. Drawn \in Duel /\ (Drawn.local <=> dm.local)
  BY PacingIs DEF Drawn, TypeOK
<1>5. /\ StartDuel(Drawn) \in Duel /\ StartDuel(Drawn).running
      /\ ~StartDuel(Drawn).done /\ ~StartDuel(Drawn).awaiting /\ ~StartDuel(Drawn).queued
      /\ ~StartDuel(Drawn).blocked /\ StartDuel(Drawn).sel = "none"
      /\ (StartDuel(Drawn).local <=> dm.local)
  BY <1>4, DuelStarts
<1>6. PICK x \in {0, 1} : dm' = [StartDuel(Drawn) EXCEPT !.beat = TRUE, !.seat = x]
  BY DEF NewDuel
<1>7. /\ dm' \in Duel /\ dm'.running /\ ~dm'.done /\ ~dm'.awaiting /\ ~dm'.queued
      /\ ~dm'.blocked /\ dm'.sel = "none" /\ (dm'.local <=> dm.local)
  BY <1>5, <1>6 DEF Duel
<1>8. replay' \in Replay /\ replay'.resp = <<>>
  BY <1>2 DEF NewDuel, Replay
<1>. QED  BY <1>1, <1>3, <1>7, <1>8 DEF NewDuel, NewLeaves

\* Every action of the player, and the passing of time.
LEMMA PlayerTypes ==
    ASSUME TypeOK, Control, Player \/ HoldElapses
    PROVE  TypeOK' /\ Control'
<1>1. dm \in Duel
  BY DEF TypeOK
<1>2. ASSUME ToggleFastTurns PROVE TypeOK' /\ Control'
  <2>1. /\ pc = "draw" /\ pc' = "frame" /\ dm' = Pacing(dm)
        /\ replay' = [replay EXCEPT !.on = Recording]
        /\ UNCHANGED <<eng, tl, rb, strayed>>
    BY <1>2 DEF ToggleFastTurns
  <2>2. dm' \in Duel /\ (dm'.running <=> dm.running) /\ (dm'.done <=> dm.done)
        /\ (dm'.local <=> dm.local)
    BY <1>1, <2>1, PacingIs
  <2>3. Recording \in BOOLEAN
    BY DEF Recording, TypeOK, Replay, Duel
  <2>4. replay' \in Replay
    BY <2>1, <2>3 DEF TypeOK, Replay
  <2>5. TypeOK'
    BY <2>1, <2>2, <2>4 DEF TypeOK
  <2>6. Control'
    BY <2>1, <2>2 DEF Control
  <2>. QED  BY <2>5, <2>6
<1>3. ASSUME HumanAnswer PROVE TypeOK' /\ Control'
  <2>1. PICK t \in Responses : Respond(Pacing(dm), t)
    BY <1>3 DEF HumanAnswer
  <2>2. Pacing(dm) \in Duel /\ (Pacing(dm).running <=> dm.running)
        /\ (Pacing(dm).done <=> dm.done) /\ (Pacing(dm).local <=> dm.local)
    BY <1>1, PacingIs
  <2>3. pc' = "frame" /\ rb' = rb /\ ~rb.on
    BY <1>3 DEF HumanAnswer, Control
  <2>. QED  BY <2>1, <2>2, <2>3, AnswerTypes
<1>4. ASSUME Forfeit PROVE TypeOK' /\ Control'
  <2>. DEFINE d == Pacing(dm)
  <2>1. d \in Duel /\ (d.local <=> dm.local)
    BY <1>1, PacingIs
  <2>2. /\ dm' = [d EXCEPT !.done = TRUE, !.running = FALSE]
        /\ pc = "draw" /\ pc' = "frame" /\ UNCHANGED <<eng, tl, replay, rb, strayed>>
    BY <1>4 DEF Forfeit
  <2>. HIDE DEF d
  <2>3. dm' \in Duel /\ ~dm'.running /\ (dm'.local <=> dm.local)
    BY <2>1, <2>2 DEF Duel
  <2>4. TypeOK'
    BY <2>2, <2>3 DEF TypeOK
  <2>5. Control'
    BY <2>2, <2>3 DEF Control
  <2>. QED  BY <2>4, <2>5
<1>5. ASSUME TimelineJump PROVE TypeOK' /\ Control'
  <2>1. PICK k \in 0..Len(tl.acts) : Jump(k, FALSE)
    BY <1>5 DEF TimelineJump
  <2>2. k \in Nat /\ k <= Len(tl.acts)
    BY <2>1
  <2>3. JumpLeaves(k, FALSE)
    BY <2>1, JumpIs
  <2>. QED  BY <2>2, <2>3, JumpTypes
<1>6. ASSUME Undo PROVE TypeOK' /\ Control'
  <2>1. PICK i \in HumanActs : Jump(i - 1, TRUE)
    BY <1>6 DEF Undo
  <2>2. /\ i - 1 \in Nat /\ i - 1 < Len(tl.acts) /\ i - 1 <= Len(tl.acts)
        /\ tl.acts[(i - 1) + 1].by \in {"human", "auto"}
    BY UndoIs
  <2>3. JumpLeaves(i - 1, TRUE)
    BY <2>1, JumpIs
  <2>. QED  BY <2>2, <2>3, JumpTypes
<1>7. ASSUME NewDuel PROVE TypeOK' /\ Control'
  <2>1. NewLeaves
    BY <1>7, NewIs
  <2>2. tl'.root \in Seq(Kinds)
    BY <2>1 DEF NewLeaves, Timeline
  <2>3. eng' \in Engine /\ eng'.st = "run"
    BY <2>1, <2>2, EngineStarts DEF NewLeaves
  <2>4. tl'.applied <= Len(tl'.acts)
    BY <2>1, EmptySeq DEF NewLeaves
  <2>5. TypeOK'
    BY <2>1, <2>3, <2>4 DEF NewLeaves, TypeOK
  <2>6. Control'
    BY <2>1, <2>3 DEF NewLeaves, Control
  <2>. QED  BY <2>5, <2>6
<1>8. ASSUME DuelRefused PROVE TypeOK' /\ Control'
  <2>1. Drawn \in Duel /\ (Drawn.local <=> dm.local)
    BY <1>1, PacingIs DEF Drawn
  <2>2. /\ dm' = [EndDuel(Drawn) EXCEPT !.seat = 0] /\ eng' = NoEngine /\ pc = "draw" /\ pc' = "frame"
        /\ UNCHANGED <<tl, replay, rb, strayed>>
    BY <1>8 DEF DuelRefused
  <2>3. dm' \in Duel /\ ~dm'.running /\ (dm'.local <=> dm.local)
    BY <2>1, <2>2, DuelStarts DEF Duel
  <2>4. eng' \in Engine /\ eng'.st = "none"
    BY <2>2, EmptySeq, EngineStarts
  <2>5. TypeOK'
    BY <2>2, <2>3, <2>4 DEF TypeOK
  <2>6. Control'
    BY <2>2, <2>3, <2>4 DEF Control
  <2>. QED  BY <2>5, <2>6
<1>9. ASSUME HoldElapses PROVE TypeOK' /\ Control'
  <2>1. dm' = [dm EXCEPT !.hold = FALSE] /\ UNCHANGED <<pc, eng, tl, replay, rb, strayed>>
    BY <1>9 DEF HoldElapses
  <2>2. dm' \in Duel /\ (dm'.running <=> dm.running) /\ (dm'.done <=> dm.done)
        /\ (dm'.local <=> dm.local) /\ (dm'.blocked <=> dm.blocked)
    BY <1>1, <2>1 DEF Duel
  <2>3. TypeOK'
    BY <2>1, <2>2 DEF TypeOK
  <2>4. Control'
    BY <2>1, <2>2 DEF Control
  <2>. QED  BY <2>3, <2>4
<1>. QED
  BY <1>2, <1>3, <1>4, <1>5, <1>6, <1>7, <1>8, <1>9 DEF Player

-----------------------------------------------------------------------------
(* The timeline on the requests of the duel.                               *)

\* A prefix of nothing.
LEMMA PrefixNone ==
    ASSUME NEW S, NEW s \in Seq(S)
    PROVE  Prefix(s, 0) = <<>>
<1>1. Len(s) \in Nat
  BY LenProperties
<1>2. Prefix(s, 0) = SubSeq(s, 1, 0)
  BY <1>1 DEF Prefix
<1>. QED  BY <1>2, SubSeqEmpty

\* What has been given, the queued response included.
LEMMA GivenIs ==
    ASSUME NEW g \in Seq(Buffered), NEW q \in BOOLEAN, NEW r \in Buffered
    PROVE  g \o (IF q /\ r.by # "pass" THEN <<r>> ELSE <<>>)
             = IF q /\ r.by # "pass" THEN Append(g, r) ELSE g
<1>1. Append(g, r) = g \o <<r>>
  BY AppendIsConcat
<1>2. g \o <<>> = g
  BY ConcatEmptySeq
<1>. QED  BY <1>1, <1>2

\* A branch of the timeline is on the requests as well: the response recorded last is
\* at request p.
LEMMA LineBranch ==
    ASSUME NEW root \in Seq(Kinds), NEW acts \in Seq(Responses), NEW n \in Nat,
           n <= Len(acts), NEW from, Line(root, acts, from), NEW t \in Responses,
           NEW p \in DOMAIN root, Reaches(root, from[n], p), Answerer(root[p]) = t.by
    PROVE  \E f : /\ Line(root, Append(Prefix(acts, n), t), f)
                  /\ n \in DOMAIN f /\ f[n] = from[n]
<1>. DEFINE b == Append(Prefix(acts, n), t)
<1>1. b \in Seq(Responses) /\ Len(b) = n + 1 /\ b[n + 1] = t /\ \A i \in 1..n : b[i] = acts[i]
  <2>1. /\ b \in Seq(Responses) /\ Len(b) = n + 1 /\ b[n + 1] = t
        /\ \A i \in 1..n : b[i] = acts[i]
        /\ Prefix(b, n) = Prefix(acts, n) /\ Prefix(b, n + 1) = b
    BY Branch
  <2>. QED  BY <2>1
<1>. HIDE DEF b
<1>. DEFINE f == [k \in 0..(n + 1) |-> IF k <= n THEN from[k]
                                       ELSE IF t.ok THEN p + 1 ELSE p]
<1>2. Len(acts) \in Nat /\ p \in Nat
  BY LenProperties
<1>3. from \in [0..Len(acts) -> Nat] /\ from[0] = 1
  BY DEF Line
<1>4. /\ \A k \in 0..n : f[k] = from[k] /\ from[k] \in Nat
      /\ f[n + 1] = IF t.ok THEN p + 1 ELSE p
  <2>1. \A k \in 0..n : k \in 0..(n + 1) /\ k <= n /\ k \in 0..Len(acts)
    BY <1>2
  <2>2. n + 1 \in 0..(n + 1) /\ ~(n + 1 <= n)
    OBVIOUS
  <2>3. \A k \in 0..n : f[k] = from[k]
    BY <2>1
  <2>4. f[n + 1] = IF t.ok THEN p + 1 ELSE p
    BY <2>2
  <2>. HIDE DEF f
  <2>. QED  BY <1>3, <2>1, <2>3, <2>4
<1>5. f \in [0..(n + 1) -> Nat]
  BY <1>2, <1>3
<1>6. DOMAIN f = 0..(n + 1)
  OBVIOUS
<1>. HIDE DEF f
<1>7. ASSUME NEW k \in 1..(n + 1)
      PROVE  \E q \in DOMAIN root : /\ Reaches(root, f[k - 1], q)
                                    /\ Answerer(root[q]) = b[k].by
                                    /\ f[k] = IF b[k].ok THEN q + 1 ELSE q
  <2>1. CASE k = n + 1
    <3>1. k - 1 = n /\ n \in 0..n
      BY <2>1
    <3>2. f[k - 1] = from[n] /\ b[k] = t /\ f[k] = IF t.ok THEN p + 1 ELSE p
      BY <1>1, <1>4, <2>1, <3>1
    <3>. QED  BY <3>2
  <2>2. CASE k \in 1..n
    <3>1. k \in 1..Len(acts) /\ k \in 0..n /\ k - 1 \in 0..n
      BY <1>2, <2>2
    <3>2. PICK q \in DOMAIN root : /\ Reaches(root, from[k - 1], q)
                                   /\ Answerer(root[q]) = acts[k].by
                                   /\ from[k] = IF acts[k].ok THEN q + 1 ELSE q
      BY <3>1 DEF Line
    <3>3. f[k - 1] = from[k - 1] /\ f[k] = from[k] /\ b[k] = acts[k]
      BY <1>1, <1>4, <2>2, <3>1
    <3>. QED  BY <3>2, <3>3
  <2>. QED  BY <2>1, <2>2
<1>8. f[0] = 1 /\ f[n] = from[n]
  BY <1>3, <1>4
<1>9. Line(root, b, f)
  BY <1>1, <1>5, <1>7, <1>8 DEF Line
<1>. QED  BY <1>6, <1>8, <1>9 DEF b

\* What was fed is a prefix of the timeline.
LEMMA FedToIs ==
    ASSUME TypeOK, Control
    PROVE  FedTo \in Nat /\ FedTo <= Len(tl.acts) /\ tl.acts \in Seq(Responses)
<1>1. /\ tl.acts \in Seq(Responses) /\ tl.applied \in Nat /\ tl.applied <= Len(tl.acts)
      /\ rb.fed \in Nat /\ rb.target \in Nat /\ Len(tl.acts) \in Nat
  BY LenProperties DEF TypeOK, Timeline, Rebuild
<1>2. rb.on => rb.fed <= rb.target /\ rb.target <= Len(tl.acts)
  BY DEF Control
<1>. QED  BY <1>1, <1>2 DEF FedTo

\* The next response of the timeline is by the one who answers what the engine asks.
LEMMA NextSeat ==
    ASSUME TypeOK, Control, Follows, OnLine, ~strayed, dm.running, eng.root = tl.root,
           eng.st = "ask", ~dm.queued, Asked(eng) # "pass", FedTo < Len(tl.acts)
    PROVE  tl.acts[FedTo + 1].by = Answerer(Asked(eng))
<1>1. eng \in Engine /\ eng.given \in Seq(Buffered) /\ eng.resp \in Buffered
      /\ dm.queued \in BOOLEAN /\ tl.root \in Seq(Kinds)
  BY DEF TypeOK, Engine, Duel, Timeline
<1>2. FedTo \in Nat /\ FedTo <= Len(tl.acts) /\ tl.acts \in Seq(Responses)
      /\ Len(tl.acts) \in Nat
  BY FedToIs, LenProperties
<1>3. eng.given = Prefix(tl.acts, FedTo)
  BY <1>1, GivenIs DEF Given, Follows
<1>4. Len(eng.given) = FedTo
  BY <1>2, <1>3, PrefixIs
<1>5. PICK from : Line(tl.root, tl.acts, from) /\ AtLine(eng, from)
  BY DEF OnLine
<1>6. from \in [0..Len(tl.acts) -> Nat]
  BY <1>5 DEF Line
<1>7. Reaches(tl.root, from[FedTo], Accepted(eng.hist) + 1)
  BY <1>4, <1>5 DEF AtLine
<1>8. Accepted(eng.hist) \in Nat /\ tl.root[Accepted(eng.hist) + 1] = Asked(eng)
  BY <1>1, AskedIs DEF Control, Asked
<1>9. FedTo + 1 \in 1..Len(tl.acts) /\ (FedTo + 1) - 1 = FedTo /\ FedTo \in 0..Len(tl.acts)
  BY <1>2
<1>10. PICK p \in DOMAIN tl.root : /\ Reaches(tl.root, from[(FedTo + 1) - 1], p)
                                   /\ Answerer(tl.root[p]) = tl.acts[FedTo + 1].by
  BY <1>5, <1>9 DEF Line
<1>11. tl.acts[FedTo + 1] \in Responses
  BY <1>2, <1>9, ElementOfSeq
<1>12. tl.acts[FedTo + 1].by # "pass"
  BY <1>11, BufferedIs
<1>13. p \in Nat /\ from[FedTo] \in Nat /\ Accepted(eng.hist) + 1 \in Nat
  BY <1>1, <1>6, <1>8, <1>9, <1>10, LenProperties
<1>14. Reaches(tl.root, from[FedTo], p)
  BY <1>9, <1>10
<1>a. tl.root[p] # "pass"
  BY <1>10, <1>12 DEF Answerer
<1>15. p = Accepted(eng.hist) + 1
  BY <1>7, <1>8, <1>a, <1>13, <1>14, ReachesOnce
<1>. QED  BY <1>8, <1>10, <1>15

-----------------------------------------------------------------------------
(* Every action keeps the engine and the timeline together.                *)

\* Steps that touch neither: parks, returns, the frames of the screen.
LEMMA StillDuel ==
    ASSUME TypeOK, TypeOK', Deep, UNCHANGED <<eng, tl, rb>>, strayed => strayed',
           dm'.running => /\ dm.running /\ (dm'.queued <=> dm.queued)
                          /\ (dm'.awaiting <=> dm.awaiting)
                          /\ dm'.blocked => dm.blocked \/ (dm.awaiting /\ ~dm.queued)
                          /\ \/ dm'.sel = dm.sel
                             \/ dm'.sel = "raw" /\ dm.sel \notin {"human", "ai"},
           ~strayed' /\ dm'.running /\ pc' = "feed" => eng.st = "ask" /\ ~dm.queued,
           replay'.on => replay.on, replay'.whole <=> replay.whole,
           replay'.resp = replay.resp
    PROVE  Deep'
<1>1. Flags /\ Follows /\ OnLine /\ Seated /\ ReplayOnBranch
  BY DEF Deep
<1>2. Asked(eng') = Asked(eng)
  OBVIOUS
<1>3. Flags'
  <2>1. SUFFICES ASSUME ~strayed', dm'.running
                 PROVE  /\ eng'.root = tl'.root /\ eng'.st \in {"run", "ask"}
                        /\ dm'.queued => eng'.st = "ask" /\ eng'.resp.by = Answerer(Asked(eng'))
                        /\ dm'.sel \in {"human", "ai"} =>
                              /\ eng'.st = "ask" /\ ~dm'.queued
                              /\ Answerer(Asked(eng')) = dm'.sel
                        /\ eng'.st = "ask" /\ ~dm'.queued =>
                              /\ Asked(eng') # "pass"
                              /\ Answerer(Asked(eng')) = "human" => dm'.sel = "human"
                        /\ eng'.st = "ask" /\ rb'.on => Asked(eng') \notin {"auto", "refused"}
                        /\ dm'.awaiting => eng'.st = "ask"
                        /\ dm'.blocked => dm'.awaiting /\ ~dm'.queued
                        /\ pc' = "feed" => eng'.st = "ask" /\ ~dm'.queued
    BY DEF Flags
  <2>2. ~strayed /\ dm.running
    BY <2>1
  <2>3. /\ eng.root = tl.root /\ eng.st \in {"run", "ask"}
        /\ dm.queued => eng.st = "ask" /\ eng.resp.by = Answerer(Asked(eng))
        /\ dm.sel \in {"human", "ai"} => /\ eng.st = "ask" /\ ~dm.queued
                                         /\ Answerer(Asked(eng)) = dm.sel
        /\ eng.st = "ask" /\ ~dm.queued =>
              /\ Asked(eng) # "pass"
              /\ Answerer(Asked(eng)) = "human" => dm.sel = "human"
        /\ eng.st = "ask" /\ rb.on => Asked(eng) \notin {"auto", "refused"}
        /\ dm.awaiting => eng.st = "ask"
        /\ dm.blocked => dm.awaiting /\ ~dm.queued
    BY <1>1, <2>2 DEF Flags
  <2>4. dm'.queued <=> dm.queued
    BY <2>1
  <2>5. eng' = eng /\ tl' = tl /\ rb' = rb
    OBVIOUS
  <2>6. dm'.sel \in {"human", "ai"} => dm'.sel = dm.sel
    BY <2>1
  <2>7. dm.sel = "human" => dm'.sel = "human"
    BY <2>1
  <2>. QED  BY <1>2, <2>1, <2>3, <2>4, <2>5, <2>6, <2>7
<1>4. Follows'
  <2>1. FedTo' = FedTo
    BY DEF FedTo
  <2>2. SUFFICES ASSUME ~strayed', dm'.running
                 PROVE  Given' = Prefix(tl'.acts, FedTo')
    BY DEF Follows
  <2>3. (dm'.queued <=> dm.queued) /\ ~strayed /\ dm.running
    BY <2>2
  <2>4. Given' = Given
    BY <2>3 DEF Given
  <2>. QED  BY <1>1, <2>1, <2>3, <2>4 DEF Follows
<1>5. OnLine'
  BY <1>1 DEF OnLine, AtLine
<1>6. Seated'
  BY <1>1 DEF Seated, RightSeats
<1>7. ReplayOnBranch'
  BY <1>1 DEF ReplayOnBranch, Applied
<1>. QED  BY <1>3, <1>4, <1>5, <1>6, <1>7 DEF Deep

\* What is recorded goes into the recording as well.
LEMMA RecordBranch ==
    ASSUME TypeOK, ReplayOnBranch, NEW t \in Responses, Record(t)
    PROVE  ReplayOnBranch'
<1>1. /\ ~replay.on => tl' = tl /\ replay' = replay
      /\ replay.on => /\ tl'.acts = Append(Prefix(tl.acts, tl.applied), t)
                      /\ tl'.applied = tl.applied + 1
                      /\ (replay'.on <=> replay.on) /\ (replay'.whole <=> replay.whole)
                      /\ replay'.resp = Prefix(Append(replay.resp, t), tl.applied + 1)
  BY RecordIs
<1>2. CASE replay.on /\ replay.whole
  <2>1. replay.resp = Prefix(tl.acts, tl.applied)
    BY <1>2 DEF ReplayOnBranch, Applied
  <2>. QED  BY <1>1, <1>2, <2>1 DEF ReplayOnBranch, Applied
<1>3. CASE ~(replay.on /\ replay.whole)
  BY <1>1, <1>3 DEF ReplayOnBranch, Applied
<1>. QED  BY <1>2, <1>3

\* An answer to what the engine asks is recorded where it is given: the applied part
\* of the timeline is then what the engine was given, and is placed on the requests.
LEMMA RecordedDeep ==
    ASSUME TypeOK, ~rb.on, rb' = rb, NEW e \in Engine, e.root = tl.root,
           e.given = Prefix(tl.acts, tl.applied), Accepted(e.hist) < Len(e.root),
           NEW from, Line(tl.root, tl.acts, from), AtLine(e, from),
           NEW t \in Responses, Answerer(Asked(e)) = t.by, replay.on, Record(t),
           eng'.root = e.root, eng'.hist = e.hist, eng'.given = e.given, eng'.resp = t,
           dm'.queued
    PROVE  Follows' /\ OnLine' /\ tl'.root = tl.root
<1>. DEFINE n == tl.applied
            b == Append(Prefix(tl.acts, n), t)
            p == Accepted(e.hist) + 1
<1>1. /\ tl'.root = tl.root /\ tl'.acts = b /\ tl'.applied = n + 1
  BY RecordIs
<1>2. /\ tl.acts \in Seq(Responses) /\ n \in Nat /\ n <= Len(tl.acts)
      /\ tl.root \in Seq(Kinds) /\ e.given \in Seq(Buffered)
  BY DEF TypeOK, Timeline, Engine
<1>3. t \in Buffered /\ t.by # "pass"
  BY BufferedIs
<1>4. b \in Seq(Responses) /\ Len(b) = n + 1 /\ Prefix(b, n + 1) = b
  BY <1>2, Branch
<1>5. FedTo' = n + 1
  BY <1>1 DEF FedTo
<1>6. Given' = Append(e.given, t)
  <2>1. Given' = e.given \o (IF dm'.queued /\ t.by # "pass" THEN <<t>> ELSE <<>>)
    BY DEF Given
  <2>2. Given' = e.given \o <<t>>
    BY <1>3, <2>1
  <2>. QED  BY <1>2, <1>3, <2>2, AppendIsConcat
<1>7. Follows'
  <2>1. Given' = b
    BY <1>6
  <2>. HIDE DEF b
  <2>2. Prefix(tl'.acts, FedTo') = b
    BY <1>1, <1>4, <1>5
  <2>. QED  BY <2>1, <2>2 DEF Follows
<1>8. Len(e.given) = n
  BY <1>2, PrefixIs
<1>9. p \in DOMAIN tl.root /\ Answerer(tl.root[p]) = t.by
  BY AskedIs DEF Asked
<1>10. Reaches(tl.root, from[n], p)
  BY <1>8 DEF AtLine
<1>. HIDE DEF p
<1>11. \E f : Line(tl.root, b, f) /\ n \in DOMAIN f /\ f[n] = from[n]
  BY <1>2, <1>9, <1>10, LineBranch
<1>. HIDE DEF b
<1>12. PICK f : Line(tl.root, b, f) /\ n \in DOMAIN f /\ f[n] = from[n]
  BY <1>11
<1>13. Line(tl'.root, tl'.acts, f)
  BY <1>1, <1>12
<1>14. AtLine(eng', f)
  BY <1>8, <1>10, <1>12 DEF AtLine, p
<1>15. OnLine'
  BY <1>13, <1>14 DEF OnLine
<1>. QED  BY <1>1, <1>7, <1>15

\* An answer is recorded where it is given.
LEMMA AnswerDeep ==
    ASSUME TypeOK, Control, Deep, NEW d \in Duel, NEW t \in Responses, Respond(d, t),
           ~rb.on, rb' = rb, dm.running, d.awaiting <=> dm.awaiting,
           dm.sel = t.by, t.by \in {"human", "ai"}, pc' # "feed"
    PROVE  Deep'
<1>1. Flags /\ Follows /\ OnLine /\ Seated /\ ReplayOnBranch
  BY DEF Deep
<1>2. /\ dm' = Submit(d) /\ eng' \in Engine /\ eng'.root = eng.root
      /\ eng'.hist = eng.hist /\ eng'.given = eng.given /\ eng'.st = eng.st
      /\ eng'.resp = t /\ Record(t) /\ strayed' = (strayed \/ ~replay.on)
  BY RespondIs
<1>3. /\ dm'.queued /\ ~dm'.blocked /\ dm'.sel = "none" /\ (dm'.awaiting <=> dm.awaiting)
  BY <1>2, SubmitIs
<1>4. ReplayOnBranch'
  BY <1>1, <1>2, RecordBranch
<1>5. CASE strayed'
  BY <1>4, <1>5 DEF Deep, Flags, Follows, OnLine, Seated
<1>6. CASE ~strayed'
  <2>1. replay.on /\ ~strayed
    BY <1>2, <1>6
  <2>2. /\ eng.root = tl.root /\ eng.st = "ask" /\ ~dm.queued /\ Answerer(Asked(eng)) = t.by
    BY <1>1, <2>1 DEF Flags
  <2>3. Asked(eng') = Asked(eng)
    BY <1>2 DEF Asked
  <2>4. eng \in Engine /\ eng.given \in Seq(Buffered) /\ eng.resp \in Buffered
        /\ dm.queued \in BOOLEAN /\ Accepted(eng.hist) < Len(eng.root)
    BY <2>2 DEF TypeOK, Engine, Duel, Control
  <2>5. eng.given = Prefix(tl.acts, tl.applied)
    BY <1>1, <2>1, <2>2, <2>4, GivenIs DEF Given, Follows, FedTo
  <2>6. PICK from : Line(tl.root, tl.acts, from) /\ AtLine(eng, from)
    BY <1>1, <2>1 DEF OnLine
  <2>7. Follows' /\ OnLine' /\ tl'.root = tl.root
    BY <1>2, <1>3, <2>1, <2>2, <2>4, <2>5, <2>6, RecordedDeep
  <2>8. Flags'
    BY <1>2, <1>3, <2>2, <2>3, <2>7 DEF Flags
  <2>9. Seated'
    BY <1>1, <1>2, <2>1 DEF Seated, RightSeats
  <2>. QED  BY <1>4, <2>7, <2>8, <2>9 DEF Deep
<1>. QED  BY <1>5, <1>6

\* The engine reads what was queued for it: the response of the one who answers what
\* it asked, at that response's place on the timeline.
LEMMA ReadDeep ==
    ASSUME TypeOK, Control, Deep, ~strayed, dm.running, eng.st = "ask" => dm.queued,
           NEW e \in ReadBuffer(eng, dm.queued)
    PROVE  /\ e \in Engine /\ e.root = tl.root /\ e.st \in {"run", "ask"}
           /\ e.given = Prefix(tl.acts, FedTo) /\ RightSeats(e)
           /\ e.st = "ask" => /\ Asked(e) = Asked(eng)
                              /\ Answerer(Asked(e)) \in {"ai", "auto"}
           /\ \E from : Line(tl.root, tl.acts, from) /\ AtLine(e, from)
<1>1. Flags /\ Follows /\ OnLine /\ Seated
  BY DEF Deep
<1>2. /\ eng \in Engine /\ eng.hist \in Seq(Buffered) /\ eng.given \in Seq(Buffered)
      /\ eng.resp \in Buffered /\ dm.queued \in BOOLEAN /\ eng.root \in Seq(Kinds)
  BY DEF TypeOK, Engine, Duel
<1>3. /\ eng.root = tl.root /\ eng.st \in {"run", "ask"}
      /\ dm.queued => eng.st = "ask" /\ eng.resp.by = Answerer(Asked(eng))
      /\ Given = Prefix(tl.acts, FedTo) /\ RightSeats(eng)
  BY <1>1 DEF Flags, Follows, Seated
<1>4. PICK from : Line(tl.root, tl.acts, from) /\ AtLine(eng, from)
  BY <1>1 DEF OnLine
<1>5. CASE eng.st # "ask" /\ e = eng
  <2>1. Given = eng.given
    BY <1>2, <1>3, <1>5, GivenIs DEF Given
  <2>. QED  BY <1>2, <1>3, <1>4, <1>5, <2>1
<1>6. ASSUME eng.st = "ask", NEW t \in Buffered, dm.queued => t = eng.resp,
             e \in Engine, e.root = eng.root, e.hist = Append(eng.hist, t),
             e.given = (IF t.by = "pass" THEN eng.given ELSE Append(eng.given, t)),
             e.st = (IF t.ok THEN "run" ELSE "ask")
      PROVE  /\ e.root = tl.root /\ e.st \in {"run", "ask"}
             /\ e.given = Prefix(tl.acts, FedTo) /\ RightSeats(e)
             /\ e.st = "ask" => /\ Asked(e) = Asked(eng)
                                /\ Answerer(Asked(e)) \in {"ai", "auto"}
             /\ AtLine(e, from)
  <2>. DEFINE a == Accepted(eng.hist)
              n == Len(eng.given)
              root == tl.root
  <2>1. dm.queued /\ t = eng.resp /\ t.by = Answerer(Asked(eng))
    BY <1>3, <1>6
  <2>2. a \in Nat /\ a + 1 \in DOMAIN eng.root /\ Asked(eng) \in Kinds
    BY <1>2, <1>6, AskedIs DEF Control
  <2>3. /\ Answerer(root[a + 1]) = t.by /\ a + 1 \in DOMAIN root /\ root[a + 1] \in Kinds
        /\ t.by \in Kinds
    BY <1>3, <2>1, <2>2, AnswererIs DEF Asked
  <2>4. Accepted(e.hist) = IF t.ok THEN a + 1 ELSE a
    BY <1>2, <1>6, AcceptedIs
  <2>5. t.ok \in BOOLEAN /\ (~t.ok => t.by \in {"ai", "auto"})
    BY <2>3, BufferedIs
  <2>6. e.given = Given
    <3>1. Given = IF t.by # "pass" THEN Append(eng.given, t) ELSE eng.given
      BY <1>2, <2>1, GivenIs DEF Given
    <3>. QED  BY <1>6, <3>1
  <2>7. e.given = Prefix(tl.acts, FedTo)
    BY <1>3, <2>6
  <2>8. e.st = "ask" => Asked(e) = Asked(eng) /\ Answerer(Asked(e)) \in {"ai", "auto"}
    BY <1>3, <1>6, <2>3, <2>4, <2>5 DEF Asked
  <2>9. RightSeats(e)
    <3>. DEFINE h == eng.hist
                g == e.hist
                m == Len(h)
    <3>1. /\ \A i \in 1..m : SubSeq(g, 1, i - 1) = SubSeq(h, 1, i - 1)
          /\ SubSeq(g, 1, m) = h
      BY <1>2, <1>6, PastStays
    <3>2. m \in Nat /\ DOMAIN h = 1..m
      BY <1>2, LenProperties
    <3>3. DOMAIN g = 1..(m + 1) /\ g[m + 1] = t /\ \A i \in 1..m : g[i] = h[i]
      BY <1>2, <1>6, <3>2, AppendProperties, LenProperties
    <3>4. \A i \in 1..m : h[i].by = Answerer(eng.root[Accepted(SubSeq(h, 1, i - 1)) + 1])
      BY <1>3, <3>2 DEF RightSeats
    <3>5. Answerer(eng.root[Accepted(h) + 1]) = t.by
      BY <1>3, <2>3
    <3>. HIDE DEF h, g, m
    <3>6. ASSUME NEW i \in 1..(m + 1)
          PROVE  g[i].by = Answerer(e.root[Accepted(SubSeq(g, 1, i - 1)) + 1])
      <4>1. CASE i = m + 1
        <5>1. i - 1 = m
          BY <3>2, <4>1
        <5>2. SubSeq(g, 1, i - 1) = h
          BY <3>1, <5>1
        <5>. QED  BY <1>6, <3>3, <3>5, <4>1, <5>2
      <4>2. CASE i \in 1..m
        BY <1>6, <3>1, <3>3, <3>4, <4>2
      <4>. QED  BY <3>2, <4>1, <4>2
    <3>. QED  BY <3>3, <3>6 DEF RightSeats, g
  <2>10. AtLine(e, from)
    <3>1. /\ FedTo \in Nat /\ FedTo <= Len(tl.acts) /\ tl.acts \in Seq(Responses)
          /\ Len(tl.acts) \in Nat
      BY FedToIs, LenProperties
    <3>2. from \in [0..Len(tl.acts) -> Nat]
      BY <1>4 DEF Line
    <3>3. n \in 0..Len(tl.acts) /\ Reaches(root, from[n], a + 1)
      BY <1>3, <1>4, <3>2 DEF AtLine
    <3>4. from[n] \in Nat /\ a + 1 \in Nat
      BY <2>2, <3>2, <3>3
    <3>5. CASE t.by = "pass"
      <4>1. e.given = eng.given /\ Accepted(e.hist) + 1 = (a + 1) + 1
        BY <1>6, <2>4, <2>5, <3>5
      <4>. DEFINE p == a + 1
      <4>2. p \in Nat /\ p \in DOMAIN root /\ Reaches(root, from[n], p) /\ root[p] = "pass"
        BY <2>3, <3>3, <3>4, <3>5, AnswererIs
      <4>. HIDE DEF p
      <4>3. Reaches(root, from[n], p + 1)
        BY <3>4, <4>2, ReachesOn
      <4>. QED  BY <1>3, <1>6, <3>2, <3>3, <4>1, <4>3 DEF AtLine, p
    <3>6. CASE t.by # "pass"
      <4>1. e.given = Append(eng.given, t)
        BY <1>6, <3>6
      <4>2. Len(e.given) = n + 1 /\ e.given[n + 1] = t
        BY <1>2, <4>1, AppendProperties
      <4>3. /\ Len(Prefix(tl.acts, FedTo)) = FedTo
            /\ \A i \in 1..FedTo : Prefix(tl.acts, FedTo)[i] = tl.acts[i]
        BY <3>1, PrefixIs
      <4>4. n + 1 = FedTo
        BY <2>7, <4>2, <4>3
      <4>5. n + 1 \in 1..FedTo /\ n + 1 \in 1..Len(tl.acts) /\ (n + 1) - 1 = n
        BY <3>1, <3>3, <4>4
      <4>6. tl.acts[n + 1] = t
        BY <2>7, <4>2, <4>3, <4>5
      <4>7. PICK p \in DOMAIN root :
              /\ Reaches(root, from[(n + 1) - 1], p)
              /\ Answerer(root[p]) = tl.acts[n + 1].by
              /\ from[n + 1] = IF tl.acts[n + 1].ok THEN p + 1 ELSE p
        BY <1>4, <4>5 DEF Line
      <4>8. p \in Nat
        BY <1>2, <1>3, LenProperties
      <4>9. Reaches(root, from[n], p) /\ Answerer(root[p]) = t.by
        BY <4>5, <4>6, <4>7
      <4>10. p = a + 1
        <5>. DEFINE q == a + 1
        <5>1. q \in Nat /\ Reaches(root, from[n], q) /\ root[q] # "pass" /\ root[p] # "pass"
          BY <2>3, <3>3, <3>4, <3>6, <4>9 DEF Answerer
        <5>. HIDE DEF q
        <5>2. p = q
          BY <3>4, <4>8, <4>9, <5>1, ReachesOnce
        <5>. QED  BY <5>2 DEF q
      <4>11. from[n + 1] = Accepted(e.hist) + 1
        BY <2>2, <2>4, <4>6, <4>7, <4>10
      <4>12. Len(e.given) \in DOMAIN from /\ from[n + 1] \in Nat
        BY <3>1, <3>2, <4>2, <4>5
      <4>13. Reaches(e.root, from[n + 1], from[n + 1])
        BY <4>12, ReachesItself
      <4>. QED  BY <4>2, <4>11, <4>12, <4>13 DEF AtLine
    <3>. QED  BY <3>5, <3>6
  <2>. QED  BY <1>3, <1>6, <2>7, <2>8, <2>9, <2>10
<1>7. \/ eng.st # "ask" /\ e = eng
      \/ /\ eng.st = "ask"
         /\ \E t \in Buffered :
               /\ dm.queued => t = eng.resp
               /\ e \in Engine /\ e.root = eng.root /\ e.hist = Append(eng.hist, t)
               /\ e.given = (IF t.by = "pass" THEN eng.given ELSE Append(eng.given, t))
               /\ e.st = (IF t.ok THEN "run" ELSE "ask")
  BY <1>2, ReadIs
<1>8. /\ e \in Engine /\ e.root = tl.root /\ e.st \in {"run", "ask"}
      /\ e.given = Prefix(tl.acts, FedTo) /\ RightSeats(e)
      /\ e.st = "ask" => Asked(e) = Asked(eng) /\ Answerer(Asked(e)) \in {"ai", "auto"}
      /\ AtLine(e, from)
  BY <1>2, <1>5, <1>6, <1>7, <1>4
<1>. QED  BY <1>4, <1>8

\* A request: nobody has answered it yet, or the message handler does, and what it
\* answers is recorded.
LEMMA AsksDeep ==
    ASSUME TypeOK, Control, Deep, ~strayed', ~strayed, dm.running, StepFlags, rb' = rb,
           NEW e \in Engine, e.root = tl.root, e.st \in {"run", "ask"},
           e.given = Prefix(tl.acts, FedTo), OneStep(e), Asks(e),
           dm.sel \notin {"human", "ai"},
           NEW from, Line(tl.root, tl.acts, from), AtLine(e, from)
    PROVE  Flags' /\ Follows' /\ OnLine' /\ ReplayOnBranch'
<1>. DEFINE kind == Asked(e)
            t == InlineAnswer(kind)
            own == Inline(dm, kind) /\ kind # "pass"
<1>1. /\ eng' \in Engine /\ eng'.root = e.root /\ eng'.hist = e.hist /\ eng'.given = e.given
      /\ ReplayOnBranch
  BY DEF OneStep, Deep
<1>2. /\ eng'.st = "ask" /\ Accepted(e.hist) < Len(e.root)
      /\ (dm'.queued <=> Inline(dm, kind)) /\ dm'.sel = SelOf(dm, kind)
      /\ Inline(dm, kind) => eng'.resp = t
      /\ own /\ ~rb.on => Record(t)
      /\ ~own \/ rb.on => Quiet
      /\ own /\ (rb.on \/ ~replay.on) => strayed'
  BY DEF Asks
<1>3. kind \in Kinds /\ Asked(eng') = kind
  BY <1>1, <1>2, AskedIs DEF Asked
<1>4. own => ~rb.on /\ replay.on /\ Record(t)
  BY <1>2
<1>5. dm.local <=> ~rb.on
  BY DEF Control
<1>6. own => kind \in {"auto", "refused"}
  BY <1>4, <1>5 DEF Inline
<1>7. Inline(dm, kind) => /\ t \in Buffered /\ t.by = Answerer(kind)
                          /\ own => t \in Responses
                          /\ kind = "pass" => t.by = "pass"
  <2>1. CASE own
    BY <1>3, <1>6, <2>1, InlineIs, AnswererIs
  <2>2. CASE Inline(dm, kind) /\ kind = "pass"
    BY <1>3, <2>2, InlineIs, AnswererIs, BufferedIs
  <2>. QED  BY <2>1, <2>2
<1>8. ~dm'.blocked /\ dm' \in Duel /\ pc' # "feed"
  BY DEF StepFlags
<1>9. /\ dm'.queued => eng'.resp.by = Answerer(kind)
      /\ dm'.sel \in {"human", "ai"} => ~dm'.queued /\ Answerer(kind) = dm'.sel
      /\ ~dm'.queued => kind # "pass"
      /\ ~dm'.queued /\ Answerer(kind) = "human" => dm'.sel = "human"
      /\ rb.on => kind \notin {"auto", "refused"}
  <2>1. CASE Inline(dm, kind)
    BY <1>2, <1>4, <1>7, <2>1 DEF SelOf
  <2>2. CASE ~Inline(dm, kind)
    <3>1. kind \in {"human", "ai", "pick", "raw"}
      BY <1>3, <2>2 DEF Inline, Kinds
    <3>. QED  BY <1>2, <2>2, <3>1 DEF SelOf, Answerer
  <2>. QED  BY <2>1, <2>2
<1>. HIDE DEF kind, t
<1>10. CASE own
  <2>1. Answerer(kind) = t.by /\ t \in Responses /\ eng'.resp = t /\ dm'.queued
    BY <1>2, <1>7, <1>10
  <2>2. FedTo = tl.applied
    BY <1>4, <1>10 DEF FedTo
  <2>3. Follows' /\ OnLine' /\ tl'.root = tl.root
    BY <1>1, <1>2, <1>4, <1>10, <2>1, <2>2, RecordedDeep DEF kind
  <2>4. ReplayOnBranch'
    BY <1>1, <1>4, <1>10, <2>1, RecordBranch
  <2>5. Flags'
    BY <1>1, <1>2, <1>3, <1>8, <1>9, <2>3 DEF Flags
  <2>. QED  BY <2>3, <2>4, <2>5
<1>11. CASE ~own
  <2>1. UNCHANGED <<tl, replay>>
    BY <1>2, <1>11 DEF Quiet
  <2>2. Flags'
    BY <1>1, <1>2, <1>3, <1>8, <1>9, <2>1 DEF Flags
  <2>3. dm'.queued => eng'.resp.by = "pass"
    BY <1>2, <1>7, <1>11
  <2>4. eng'.given \in Seq(Buffered) /\ dm'.queued \in BOOLEAN /\ eng'.resp \in Buffered
    BY <1>1, <1>8 DEF Engine, Duel
  <2>5. Given' = eng'.given
    BY <2>3, <2>4, GivenIs DEF Given
  <2>6. FedTo' = FedTo
    BY <2>1 DEF FedTo
  <2>7. Follows'
    BY <1>1, <2>1, <2>5, <2>6 DEF Follows
  <2>8. OnLine'
    BY <1>1, <2>1 DEF OnLine, AtLine
  <2>9. ReplayOnBranch'
    BY <1>1, <2>1 DEF ReplayOnBranch, Applied
  <2>. QED  BY <2>2, <2>7, <2>8, <2>9
<1>. QED  BY <1>10, <1>11

\* An engine step: what it reads is as fed, and what it asks next has no answer yet
\* but the message handler's.
LEMMA EngineDeep ==
    ASSUME TypeOK, Control, Deep, EngineStep
    PROVE  Deep'
<1>1. Flags /\ Follows /\ OnLine /\ Seated /\ ReplayOnBranch
  BY DEF Deep
<1>2. StepFlags /\ Strays /\ rb' = rb /\ pc = "pump"
  BY EngineStepIs DEF EngineStep
<1>3. PICK e \in ReadBuffer(eng, dm.queued) : OneStep(e) \/ SameAgain(e)
  BY EngineStepIs
<1>4. dm.running
  BY <1>2 DEF Control
<1>5. CASE strayed'
  <2>1. ReplayOnBranch'
    <3>1. CASE Quiet
      BY <1>1, <3>1 DEF Quiet, ReplayOnBranch, Applied
    <3>2. CASE ~Quiet
      <4>. DEFINE kind == Asked(e)
      <4>1. Asks(e)
        BY <1>3, <3>2 DEF OneStep, Outcome, SameAgain
      <4>2. e \in Engine /\ Accepted(e.hist) < Len(e.root)
        BY <4>1, ReadKeepsPlace DEF Asks
      <4>3. kind \in Kinds
        BY <4>2, AskedIs
      <4>4. Inline(dm, kind) /\ kind # "pass" /\ Record(InlineAnswer(kind))
        BY <3>2, <4>1 DEF Asks
      <4>5. InlineAnswer(kind) \in Responses
        BY <4>3, <4>4, InlineIs DEF Inline
      <4>. QED  BY <1>1, <4>4, <4>5, RecordBranch
    <3>. QED  BY <3>1, <3>2
  <2>. QED  BY <1>5, <2>1 DEF Deep, Flags, Follows, OnLine, Seated
<1>6. CASE ~strayed'
  <2>1. ~strayed /\ (eng.st = "ask" => dm.queued)
    BY <1>2, <1>6 DEF Strays
  <2>2. /\ e \in Engine /\ e.root = tl.root /\ e.st \in {"run", "ask"}
        /\ e.given = Prefix(tl.acts, FedTo) /\ RightSeats(e)
        /\ e.st = "ask" => /\ Asked(e) = Asked(eng)
                           /\ Answerer(Asked(e)) \in {"ai", "auto"}
        /\ \E from : Line(tl.root, tl.acts, from) /\ AtLine(e, from)
    BY <1>4, <2>1, ReadDeep
  <2>3. dm.sel \notin {"human", "ai"}
    BY <1>1, <1>4, <2>1 DEF Flags
  <2>4. ~dm'.blocked /\ dm' \in Duel /\ pc' # "feed"
    BY <1>2 DEF StepFlags
  <2>5. PICK from : Line(tl.root, tl.acts, from) /\ AtLine(e, from)
    BY <2>2
  <2>6. ASSUME SameAgain(e) PROVE Deep'
    <3>1. /\ e.st = "ask" /\ Asked(e) = "refused" /\ eng' = eng /\ UNCHANGED <<tl, replay>>
          /\ dm'.queued /\ dm'.sel = "none"
      BY <2>6 DEF SameAgain, Quiet
    <3>2. eng.st = "ask" /\ dm.queued
      BY <2>1, <3>1, ReadKeepsPlace
    <3>3. /\ eng.root = tl.root /\ eng.resp.by = Answerer(Asked(eng))
          /\ rb.on => Asked(eng) \notin {"auto", "refused"}
      BY <1>1, <1>4, <2>1, <3>2 DEF Flags
    <3>4. Asked(eng') = Asked(eng)
      BY <3>1
    <3>5. Flags'
      BY <1>2, <2>4, <3>1, <3>2, <3>3, <3>4 DEF Flags
    <3>6. Given' = Given /\ FedTo' = FedTo
      BY <1>2, <3>1, <3>2 DEF Given, FedTo
    <3>7. Follows'
      BY <1>1, <1>4, <2>1, <3>1, <3>6 DEF Follows
    <3>8. OnLine'
      BY <1>1, <1>4, <2>1, <3>1 DEF OnLine, AtLine
    <3>9. Seated' /\ ReplayOnBranch'
      BY <1>1, <2>1, <3>1 DEF Seated, RightSeats, ReplayOnBranch, Applied
    <3>. QED  BY <3>5, <3>7, <3>8, <3>9 DEF Deep
  <2>7. ASSUME OneStep(e) PROVE Seated'
    BY <2>2, <2>7 DEF OneStep, Seated, RightSeats
  <2>8. ASSUME OneStep(e), Asks(e) PROVE Deep'
    <3>1. Flags' /\ Follows' /\ OnLine' /\ ReplayOnBranch'
      BY <1>2, <1>4, <1>6, <2>1, <2>2, <2>3, <2>5, <2>8, AsksDeep
    <3>. QED  BY <2>7, <2>8, <3>1 DEF Deep
  \* What asks nothing leaves the timeline as it is, and no answer.
  <2>9. ASSUME OneStep(e), Quiet, ~dm'.queued, Flags' PROVE Deep'
    <3>1. UNCHANGED <<tl, replay>> /\ eng'.given = e.given /\ eng' \in Engine
          /\ eng'.root = e.root /\ eng'.hist = e.hist
      BY <2>9 DEF Quiet, OneStep
    <3>2. eng'.given \in Seq(Buffered) /\ dm'.queued \in BOOLEAN /\ eng'.resp \in Buffered
      BY <2>4, <3>1 DEF Engine, Duel
    <3>3. Given' = eng'.given
      BY <2>9, <3>2, GivenIs DEF Given
    <3>4. FedTo' = FedTo
      BY <1>2, <3>1 DEF FedTo
    <3>5. Follows'
      BY <2>2, <3>1, <3>3, <3>4 DEF Follows
    <3>6. OnLine'
      BY <2>5, <3>1 DEF OnLine, AtLine
    <3>7. ReplayOnBranch'
      BY <1>1, <3>1 DEF ReplayOnBranch, Applied
    <3>. QED  BY <2>7, <2>9, <3>5, <3>6, <3>7 DEF Deep
  \* A rejected answer that is not asked for again.
  <2>10. ASSUME OneStep(e), Quiet, e.st = "ask", eng'.st = "ask", ~dm'.queued,
                dm'.sel = dm.sel
         PROVE  Deep'
    <3>1. eng'.root = e.root /\ eng'.hist = e.hist /\ tl' = tl
      BY <2>10 DEF OneStep, Quiet
    <3>2. Asked(eng') = Asked(e)
      BY <3>1 DEF Asked
    <3>3. eng.st = "ask"
      BY <2>10, ReadKeepsPlace
    <3>4. rb.on => Asked(eng) \notin {"auto", "refused"}
      BY <1>1, <1>4, <2>1, <3>3 DEF Flags
    <3>5. Asked(eng') # "pass" /\ Answerer(Asked(eng')) # "human"
      BY <2>2, <2>10, <3>2 DEF Answerer
    <3>6. Flags'
      BY <1>2, <2>2, <2>3, <2>4, <2>10, <3>1, <3>2, <3>4, <3>5 DEF Flags
    <3>. QED  BY <2>9, <2>10, <3>6
  \* The engine goes on.
  <2>11. ASSUME OneStep(e), Quiet, e.st = "run", eng'.st = "run", ~dm'.queued,
                dm'.sel = dm.sel, ~dm'.awaiting
         PROVE  Deep'
    <3>1. eng'.root = tl'.root
      BY <2>2, <2>11 DEF OneStep, Quiet
    <3>2. Flags'
      BY <2>3, <2>4, <2>11, <3>1 DEF Flags
    <3>. QED  BY <2>9, <2>11, <3>2
  \* The duel is over.
  <2>12. ASSUME OneStep(e), Quiet, ~dm'.running PROVE Deep'
    <3>1. UNCHANGED <<tl, replay>>
      BY <2>12 DEF Quiet
    <3>2. OnLine' /\ ReplayOnBranch'
      BY <1>1, <2>5, <2>12, <3>1 DEF OnLine, ReplayOnBranch, Applied
    <3>. QED  BY <2>7, <2>12, <3>2 DEF Deep, Flags, Follows
  <2>. QED
    BY <1>3, <2>6, <2>8, <2>10, <2>11, <2>12 DEF OneStep, Outcome
<1>. QED  BY <1>5, <1>6

\* A rebuild feeds the next response of the timeline to the seat that is asked.
LEMMA FeedDeep ==
    ASSUME TypeOK, Control, Deep, Feed
    PROVE  Deep'
<1>1. Flags /\ Follows /\ OnLine /\ Seated /\ ReplayOnBranch
  BY DEF Deep
<1>2. /\ pc = "feed" /\ pc' = "advance" /\ dm' = Submit(dm) /\ rb.fed < rb.target /\ dm.running
      /\ UNCHANGED <<tl, replay, strayed>>
      /\ eng' = [eng EXCEPT !.resp = tl.acts[rb.fed + 1]]
      /\ rb' = [rb EXCEPT !.fed = @ + 1]
  BY DEF Feed, More
<1>3. /\ rb.on /\ rb.target <= Len(tl.acts) /\ rb \in Rebuild /\ tl.acts \in Seq(Responses)
      /\ eng \in Engine /\ dm \in Duel /\ eng.given \in Seq(Buffered)
      /\ eng.resp \in Buffered /\ dm.queued \in BOOLEAN
  BY <1>2 DEF Control, TypeOK, Timeline, Engine, Duel
<1>4. /\ rb.fed + 1 \in 1..Len(tl.acts) /\ rb.fed \in Nat /\ rb.fed + 1 \in Nat
      /\ rb.fed < Len(tl.acts)
  BY <1>2, <1>3 DEF Rebuild
<1>. DEFINE t == tl.acts[rb.fed + 1]
<1>5. t \in Responses
  BY <1>3, <1>4, ElementOfSeq
<1>6. t \in Buffered /\ t.by # "pass"
  BY <1>5, BufferedIs
<1>7. /\ eng'.root = eng.root /\ eng'.hist = eng.hist /\ eng'.given = eng.given
      /\ eng'.st = eng.st /\ eng'.resp = t
  BY <1>2, <1>3, <1>6 DEF Engine
<1>8. rb'.on /\ rb'.fed = rb.fed + 1
  BY <1>2, <1>3, <1>4 DEF Rebuild
<1>9. dm'.queued /\ ~dm'.blocked /\ dm'.sel = "none"
  BY <1>2, <1>3, SubmitIs
<1>10. ReplayOnBranch'
  BY <1>1, <1>2 DEF ReplayOnBranch, Applied
<1>11. CASE strayed'
  BY <1>10, <1>11 DEF Deep, Flags, Follows, OnLine, Seated
<1>12. CASE ~strayed'
  <2>1. /\ ~strayed /\ eng.root = tl.root /\ eng.st = "ask" /\ ~dm.queued
        /\ Asked(eng) # "pass"
    BY <1>1, <1>2, <1>12 DEF Flags
  <2>2. FedTo = rb.fed /\ FedTo' = rb.fed + 1
    BY <1>3, <1>8 DEF FedTo
  <2>3. t.by = Answerer(Asked(eng)) /\ Asked(eng) \notin {"auto", "refused"}
    BY <1>1, <1>2, <1>3, <1>4, <2>1, <2>2, NextSeat DEF Flags
  <2>4. Asked(eng') = Asked(eng)
    BY <1>7 DEF Asked
  <2>. HIDE DEF t
  <2>5. Flags'
    BY <1>2, <1>7, <1>9, <2>1, <2>3, <2>4 DEF Flags
  <2>6. eng.given = Prefix(tl.acts, rb.fed)
    BY <1>1, <1>2, <1>3, <2>1, <2>2, GivenIs DEF Given, Follows
  <2>7. Given' = Append(eng.given, t)
    <3>1. Given' = eng.given \o (IF dm'.queued /\ t.by # "pass" THEN <<t>> ELSE <<>>)
      BY <1>7 DEF Given
    <3>2. Given' = eng.given \o <<t>>
      BY <1>6, <1>9, <3>1
    <3>. QED  BY <1>3, <1>6, <3>2, AppendIsConcat
  <2>8. Prefix(tl.acts, rb.fed + 1) = Append(Prefix(tl.acts, rb.fed), t)
    BY <1>3, <1>4, PrefixNext DEF t
  <2>9. Follows'
    BY <1>2, <2>2, <2>6, <2>7, <2>8 DEF Follows
  <2>10. OnLine'
    BY <1>1, <1>2, <1>7, <2>1 DEF OnLine, AtLine
  <2>11. Seated'
    BY <1>1, <1>7, <2>1 DEF Seated, RightSeats
  <2>. QED  BY <1>10, <2>5, <2>9, <2>10, <2>11 DEF Deep
<1>. QED  BY <1>11, <1>12

\* The end of a rebuild: as far as it fed is what is applied from now on.
LEMMA RestoredDeep ==
    ASSUME TypeOK, Control, Deep, Restored
    PROVE  Deep'
<1>1. Flags /\ Follows /\ OnLine /\ Seated /\ ReplayOnBranch
  BY DEF Deep
<1>. DEFINE q == replay.resp
            n == rb.target
            resp == IF replay.on THEN Prefix(q, n) ELSE q
            whole == replay.whole /\ n <= Len(q)
<1>2. /\ pc = "feed" /\ pc' = "frame" /\ UNCHANGED <<eng, strayed>>
      /\ dm' = [dm EXCEPT !.local = TRUE] /\ rb' = NoRebuild
      /\ tl' = [tl EXCEPT !.applied = n] /\ ~(rb.fed < rb.target /\ dm.running)
      /\ replay' = [replay EXCEPT !.resp = resp, !.whole = whole]
  BY DEF Restored, More
<1>3. /\ rb.on /\ rb.fed \in Nat /\ n \in Nat /\ rb.fed <= n /\ n <= Len(tl.acts)
      /\ tl.acts \in Seq(Responses) /\ tl.applied \in Nat /\ tl.applied <= Len(tl.acts)
      /\ q \in Seq(Responses)
  BY <1>2 DEF Control, TypeOK, Rebuild, Timeline, Replay
<1>4. whole \in BOOLEAN
  BY DEF TypeOK, Replay
<1>5. tl'.acts = tl.acts /\ tl'.applied = n /\ tl'.root = tl.root
  BY <1>2 DEF TypeOK, Timeline
<1>6. (replay'.on <=> replay.on) /\ replay'.resp = resp /\ (replay'.whole <=> whole)
  BY <1>2, <1>4 DEF TypeOK, Replay
<1>7. ~rb'.on
  BY <1>2 DEF NoRebuild
<1>8. /\ (dm'.running <=> dm.running) /\ (dm'.queued <=> dm.queued) /\ dm'.sel = dm.sel
      /\ (dm'.awaiting <=> dm.awaiting) /\ (dm'.blocked <=> dm.blocked)
  BY <1>2 DEF TypeOK, Duel
<1>9. ReplayOnBranch'
  <2>1. SUFFICES ASSUME replay'.on, replay'.whole
                 PROVE  replay'.resp = Applied'
    BY DEF ReplayOnBranch
  <2>2. replay.on /\ replay.whole /\ n <= Len(q)
    BY <1>6, <2>1
  <2>3. q = Prefix(tl.acts, tl.applied)
    BY <1>1, <2>2 DEF ReplayOnBranch, Applied
  <2>4. Len(q) = tl.applied
    BY <1>3, <2>3, PrefixIs
  <2>5. Prefix(Prefix(tl.acts, tl.applied), n) = Prefix(tl.acts, n)
    BY <1>3, <2>2, <2>4, PrefixTwice
  <2>6. replay'.resp = Prefix(tl.acts, n)
    BY <1>6, <2>2, <2>3, <2>5
  <2>. QED  BY <1>5, <2>6 DEF Applied
<1>10. Flags'
  BY <1>1, <1>2, <1>5, <1>7, <1>8 DEF Flags
<1>11. Follows'
  <2>1. SUFFICES ASSUME ~strayed', dm'.running
                 PROVE  Given' = Prefix(tl'.acts, FedTo')
    BY DEF Follows
  <2>2. ~strayed /\ dm.running /\ rb.fed = n
    BY <1>2, <1>3, <1>8, <2>1
  <2>3. FedTo = n /\ FedTo' = n
    BY <1>3, <1>5, <1>7, <2>2 DEF FedTo
  <2>4. Given' = Given
    BY <1>2, <1>8 DEF Given
  <2>. QED  BY <1>1, <1>5, <2>2, <2>3, <2>4 DEF Follows
<1>12. OnLine'
  BY <1>1, <1>2, <1>5, <1>8 DEF OnLine, AtLine
<1>13. Seated'
  BY <1>1, <1>2 DEF Seated, RightSeats
<1>. QED  BY <1>9, <1>10, <1>11, <1>12, <1>13 DEF Deep

\* A new engine has been given nothing, and asks from the first request on.
LEMMA FreshEngine ==
    ASSUME NEW e \in Engine, e.hist = <<>>, e.given = <<>>, NEW acts \in Seq(Responses),
           NEW from, Line(e.root, acts, from)
    PROVE  AtLine(e, from) /\ RightSeats(e)
<1>1. Accepted(e.hist) + 1 = 1 /\ Len(e.given) = 0
  BY AcceptedNone, EmptySeq
<1>2. Len(acts) \in Nat
  BY LenProperties
<1>3. 0 \in DOMAIN from /\ from[0] = 1
  BY <1>2 DEF Line
<1>4. Reaches(e.root, 1, 1)
  BY ReachesItself
<1>5. AtLine(e, from)
  BY <1>1, <1>3, <1>4 DEF AtLine
<1>6. DOMAIN e.hist = {}
  OBVIOUS
<1>. QED  BY <1>5, <1>6 DEF RightSeats

\* A jump starts its rebuild from nothing.
LEMMA JumpDeep ==
    ASSUME TypeOK, Control, Deep, NEW k, NEW undo, JumpLeaves(k, undo)
    PROVE  Deep'
<1>1. Flags /\ Follows /\ OnLine /\ Seated /\ ReplayOnBranch
  BY DEF Deep
<1>2. /\ ~dm'.queued /\ dm'.sel = "none" /\ ~dm'.awaiting /\ ~dm'.blocked
      /\ dm'.running => pc' = "advance" /\ eng' = CreateDuel(tl.root)
      /\ ~dm'.running => eng' = NoEngine
      /\ (replay'.on => replay.on) /\ replay'.resp = replay.resp
      /\ (replay'.whole <=> replay.whole) /\ tl' = tl /\ strayed' = strayed
      /\ rb' = [on |-> TRUE, fed |-> 0, target |-> k, undo |-> undo]
  BY DEF JumpLeaves
<1>3. tl.root \in Seq(Kinds) /\ tl.acts \in Seq(Responses)
  BY DEF TypeOK, Timeline
<1>. DEFINE c == CreateDuel(tl.root)
<1>4. /\ c \in Engine /\ c.root = tl.root /\ c.st = "run" /\ c.hist = <<>> /\ c.given = <<>>
      /\ NoEngine.hist = <<>>
  BY <1>3, EngineStarts
<1>. HIDE DEF c
<1>5. dm'.running => eng' = c
  BY <1>2 DEF c
<1>6. ReplayOnBranch'
  BY <1>1, <1>2 DEF ReplayOnBranch, Applied
<1>7. Flags'
  BY <1>2, <1>4, <1>5 DEF Flags
<1>8. Follows'
  <2>1. SUFFICES ASSUME dm'.running PROVE Given' = Prefix(tl'.acts, FedTo')
    BY DEF Follows
  <2>2. FedTo' = 0
    BY <1>2 DEF FedTo
  <2>3. Given' = <<>> \o <<>>
    BY <1>2, <1>4, <1>5, <2>1 DEF Given
  <2>4. <<>> \o <<>> = <<>>
    BY EmptySeq, ConcatEmptySeq
  <2>5. Prefix(tl.acts, 0) = <<>>
    BY <1>3, PrefixNone
  <2>. QED  BY <1>2, <2>2, <2>3, <2>4, <2>5
<1>9. OnLine'
  <2>1. SUFFICES ASSUME ~strayed'
                 PROVE  \E from : /\ Line(tl'.root, tl'.acts, from)
                                  /\ dm'.running => AtLine(eng', from)
    BY DEF OnLine
  <2>2. PICK from : Line(tl.root, tl.acts, from)
    BY <1>1, <1>2, <2>1 DEF OnLine
  <2>3. AtLine(c, from)
    BY <1>3, <1>4, <2>2, FreshEngine
  <2>. QED  BY <1>2, <1>5, <2>2, <2>3
<1>10. Seated'
  <2>1. eng'.hist = <<>>
    BY <1>2, <1>4, <1>5
  <2>2. DOMAIN eng'.hist = {}
    BY <2>1
  <2>. QED  BY <2>2 DEF Seated, RightSeats
<1>. QED  BY <1>6, <1>7, <1>8, <1>9, <1>10 DEF Deep

\* A new duel has an empty timeline.
LEMMA NewDeep ==
    ASSUME TypeOK, Control, NewLeaves
    PROVE  Deep'
<1>1. /\ pc' = "frame" /\ ~dm'.awaiting /\ ~dm'.queued /\ ~dm'.blocked /\ dm'.sel = "none"
      /\ tl' \in Timeline /\ tl'.acts = <<>> /\ tl'.applied = 0 /\ eng' = CreateDuel(tl'.root)
      /\ replay'.resp = <<>> /\ rb' = rb /\ pc = "draw"
  BY DEF NewLeaves
<1>2. tl'.root \in Seq(Kinds) /\ tl'.acts \in Seq(Responses) /\ tl'.acts = <<>>
  BY <1>1 DEF Timeline
<1>3. /\ eng' \in Engine /\ eng'.root = tl'.root /\ eng'.st = "run" /\ eng'.hist = <<>>
      /\ eng'.given = <<>>
  BY <1>1, <1>2, EngineStarts
<1>4. Prefix(tl'.acts, 0) = <<>>
  BY <1>2, PrefixNone
<1>5. ReplayOnBranch'
  BY <1>1, <1>4 DEF ReplayOnBranch, Applied
<1>6. Flags'
  BY <1>1, <1>3 DEF Flags
<1>7. Follows'
  <2>1. ~rb'.on
    BY <1>1 DEF Control
  <2>2. FedTo' = 0
    BY <1>1, <2>1 DEF FedTo
  <2>3. Given' = <<>> \o <<>>
    BY <1>1, <1>3 DEF Given
  <2>4. <<>> \o <<>> = <<>>
    BY EmptySeq, ConcatEmptySeq
  <2>. QED  BY <1>4, <2>2, <2>3, <2>4 DEF Follows
<1>8. OnLine'
  <2>. DEFINE from == [k \in 0..0 |-> 1]
  <2>1. from \in [0..0 -> Nat] /\ from[0] = 1
    OBVIOUS
  <2>. HIDE DEF from
  <2>2. Len(tl'.acts) = 0
    BY <1>2, EmptySeq
  <2>3. 1..0 = {}
    OBVIOUS
  <2>4. Line(eng'.root, tl'.acts, from)
    BY <2>1, <2>2, <2>3 DEF Line
  <2>5. AtLine(eng', from)
    BY <1>2, <1>3, <2>4, FreshEngine
  <2>. QED  BY <1>3, <2>4, <2>5 DEF OnLine
<1>9. Seated'
  <2>1. DOMAIN eng'.hist = {}
    BY <1>3
  <2>. QED  BY <2>1 DEF Seated, RightSeats
<1>. QED  BY <1>5, <1>6, <1>7, <1>8, <1>9 DEF Deep

\* A refused duel has no engine; the timeline stays.
LEMMA RefusedDeep ==
    ASSUME TypeOK, Control, Deep, DuelRefused
    PROVE  Deep'
<1>1. OnLine /\ ReplayOnBranch
  BY DEF Deep
<1>2. Drawn \in Duel
  BY PacingIs DEF Drawn, TypeOK
<1>3. ~dm'.running
  BY <1>2, DuelStarts DEF DuelRefused, Duel
<1>4. UNCHANGED <<tl, replay, rb, strayed>> /\ eng' = NoEngine
  BY DEF DuelRefused
<1>5. eng'.hist = <<>>
  BY <1>4, EmptySeq, EngineStarts
<1>6. DOMAIN eng'.hist = {}
  BY <1>5
<1>7. Seated'
  BY <1>6 DEF Seated, RightSeats
<1>8. OnLine'
  BY <1>1, <1>3, <1>4 DEF OnLine
<1>9. ReplayOnBranch'
  BY <1>1, <1>4 DEF ReplayOnBranch, Applied
<1>10. Flags' /\ Follows'
  BY <1>3 DEF Flags, Follows
<1>. QED  BY <1>7, <1>8, <1>9, <1>10 DEF Deep

\* A frame of the screen that changes the pacing and may close the recording.
LEMMA FrameDeep ==
    ASSUME TypeOK, TypeOK', Deep, UNCHANGED <<eng, tl, rb, strayed>>, pc' # "feed",
           dm' = Pacing(dm), replay' = [replay EXCEPT !.on = Recording]
    PROVE  Deep'
<1>1. /\ (dm'.running <=> dm.running) /\ (dm'.queued <=> dm.queued)
      /\ (dm'.awaiting <=> dm.awaiting) /\ (dm'.blocked <=> dm.blocked) /\ dm'.sel = dm.sel
  BY PacingIs DEF TypeOK
<1>2. Recording \in BOOLEAN /\ (Recording => replay.on)
  BY DEF Recording, TypeOK, Replay, Duel
<1>3. /\ (replay'.on => replay.on) /\ replay'.resp = replay.resp
      /\ (replay'.whole <=> replay.whole)
  BY <1>2 DEF TypeOK, Replay
<1>. QED  BY <1>1, <1>3, StillDuel

\* Every action.
LEMMA DeepStep ==
    ASSUME TypeOK, Control, TypeOK', Deep, PracticeNext
    PROVE  Deep'
<1>1. dm \in Duel /\ Flags
  BY DEF TypeOK, Deep
<1>2. ASSUME GameTick PROVE Deep'
  BY <1>2, StillDuel DEF GameTick
<1>3. ASSUME LeaveToSeat PROVE Deep'
  BY <1>3, StillDuel DEF LeaveToSeat, Return
<1>4. ASSUME ParkOpponent PROVE Deep'
  <2>1. /\ dm' = [dm EXCEPT !.blocked = TRUE] /\ dm.awaiting /\ ~dm.queued
        /\ UNCHANGED <<eng, tl, replay, rb, strayed>> /\ pc' # "feed"
    BY <1>4 DEF ParkOpponent, Waiting, Return
  <2>2. /\ (dm'.running <=> dm.running) /\ (dm'.queued <=> dm.queued)
        /\ (dm'.awaiting <=> dm.awaiting) /\ dm'.sel = dm.sel
    BY <1>1, <2>1 DEF Duel
  <2>. QED  BY <2>1, <2>2, StillDuel
<1>5. ASSUME ParkRaw PROVE Deep'
  <2>1. /\ dm' = [dm EXCEPT !.blocked = TRUE, !.sel = "raw"] /\ dm.awaiting /\ ~dm.queued
        /\ UNCHANGED <<eng, tl, replay, rb, strayed>> /\ pc' # "feed"
        /\ dm.sel \notin {"human", "ai"}
    BY <1>5 DEF ParkRaw, Waiting, Return
  <2>2. /\ (dm'.running <=> dm.running) /\ (dm'.queued <=> dm.queued)
        /\ (dm'.awaiting <=> dm.awaiting) /\ dm'.sel = "raw"
    BY <1>1, <2>1 DEF Duel
  <2>. QED  BY <2>1, <2>2, StillDuel
<1>6. ASSUME AutoRespond PROVE Deep'
  <2>. DEFINE hold == dm.hold \/ dm.beat
              d == [dm EXCEPT !.hold = hold]
  <2>1. PICK t \in Responses : t.by = "ai" /\ Respond(d, t)
    BY <1>6 DEF AutoRespond
  <2>2. hold \in BOOLEAN
    OBVIOUS
  <2>. HIDE DEF hold
  <2>3. d \in Duel /\ (d.awaiting <=> dm.awaiting)
    BY <1>1, <2>2 DEF Duel
  <2>. HIDE DEF d
  <2>4. ~rb.on /\ dm.running /\ dm.sel = "ai" /\ rb' = rb /\ pc' # "feed"
    BY <1>6 DEF AutoRespond, Waiting, Return, Control
  <2>. QED  BY <2>1, <2>3, <2>4, AnswerDeep
<1>7. ASSUME Advance PROVE Deep'
  <2>1. /\ UNCHANGED <<dm, eng, tl, replay, rb>> /\ (strayed => strayed')
        /\ ~strayed' /\ pc' = "feed" =>
              ~dm.running \/ dm.sel \in {"human", "ai"} \/ dm.blocked
    BY <1>7 DEF Advance
  <2>2. ~strayed' /\ dm'.running /\ pc' = "feed" => eng.st = "ask" /\ ~dm.queued
    BY <1>1, <2>1 DEF Flags
  <2>. QED  BY <2>1, <2>2, StillDuel
<1>8. ASSUME DrawIdle PROVE Deep'
  BY <1>8, FrameDeep DEF DrawIdle
<1>9. ASSUME ToggleFastTurns PROVE Deep'
  BY <1>9, FrameDeep DEF ToggleFastTurns
<1>10. ASSUME HumanAnswer PROVE Deep'
  <2>1. PICK t \in Responses : t.by = "human" /\ Respond(Pacing(dm), t)
    BY <1>10 DEF HumanAnswer
  <2>2. Pacing(dm) \in Duel /\ (Pacing(dm).awaiting <=> dm.awaiting)
    BY <1>1, PacingIs
  <2>3. ~rb.on /\ dm.running /\ dm.sel = "human" /\ rb' = rb /\ pc' # "feed"
    BY <1>10 DEF HumanAnswer, Control
  <2>. QED  BY <2>1, <2>2, <2>3, AnswerDeep
<1>11. ASSUME Forfeit PROVE Deep'
  <2>. DEFINE d == Pacing(dm)
  <2>1. d \in Duel
    BY <1>1, PacingIs
  <2>2. /\ dm' = [d EXCEPT !.done = TRUE, !.running = FALSE] /\ pc' # "feed"
        /\ UNCHANGED <<eng, tl, replay, rb, strayed>>
    BY <1>11 DEF Forfeit
  <2>. HIDE DEF d
  <2>3. ~dm'.running
    BY <2>1, <2>2 DEF Duel
  <2>. QED  BY <2>2, <2>3, StillDuel
<1>12. ASSUME TimelineJump PROVE Deep'
  <2>1. PICK k : Jump(k, FALSE)
    BY <1>12 DEF TimelineJump
  <2>2. JumpLeaves(k, FALSE)
    BY <2>1, JumpIs
  <2>. QED  BY <2>2, JumpDeep
<1>13. ASSUME Undo PROVE Deep'
  <2>1. PICK i \in HumanActs : Jump(i - 1, TRUE)
    BY <1>13 DEF Undo
  <2>2. JumpLeaves(i - 1, TRUE)
    BY <2>1, JumpIs
  <2>. QED  BY <2>2, JumpDeep
<1>14. ASSUME NewDuel PROVE Deep'
  BY <1>14, NewIs, NewDeep
<1>15. ASSUME HoldElapses PROVE Deep'
  <2>1. /\ dm' = [dm EXCEPT !.hold = FALSE]
        /\ UNCHANGED <<pc, eng, tl, replay, rb, strayed>>
    BY <1>15 DEF HoldElapses
  <2>2. /\ (dm'.running <=> dm.running) /\ (dm'.queued <=> dm.queued) /\ dm'.sel = dm.sel
        /\ (dm'.awaiting <=> dm.awaiting) /\ (dm'.blocked <=> dm.blocked)
    BY <1>1, <2>1 DEF Duel
  <2>3. ~strayed' /\ dm'.running /\ pc' = "feed" => eng.st = "ask" /\ ~dm.queued
    BY <1>1, <2>1, <2>2 DEF Flags
  <2>. QED  BY <2>1, <2>2, <2>3, StillDuel
<1>. QED
  BY <1>2, <1>3, <1>4, <1>5, <1>6, <1>7, <1>8, <1>9, <1>10, <1>11, <1>12, <1>13, <1>14,
     <1>15, EngineDeep, FeedDeep, RestoredDeep, RefusedDeep
     DEF PracticeNext, Program, Player

-----------------------------------------------------------------------------
(* The theorems.                                                           *)

\* Before the first duel there is no engine and the timeline is empty.
LEMMA InitInv == PracticeInit => PracticeInv
<1>. SUFFICES ASSUME PracticeInit PROVE PracticeInv
  OBVIOUS
<1>1. /\ pc = "draw" /\ dm = Idle /\ eng = NoEngine /\ rb = NoRebuild /\ strayed = FALSE
      /\ tl = [root |-> <<>>, acts |-> <<>>, applied |-> 0]
      /\ replay = [on |-> FALSE, resp |-> <<>>, whole |-> TRUE]
  BY DEF PracticeInit
<1>2. <<>> \in Seq(Kinds) /\ <<>> \in Seq(Responses) /\ Len(<<>>) = 0
  BY EmptySeq
<1>3. eng \in Engine /\ eng.st = "none" /\ eng.hist = <<>>
  BY <1>1, <1>2, EngineStarts
<1>4. dm \in Duel /\ ~dm.running /\ dm.local
  BY <1>1 DEF Idle, Duel
<1>5. tl \in Timeline /\ tl.acts = <<>> /\ tl.applied = 0 /\ tl.root = <<>>
  BY <1>1, <1>2 DEF Timeline
<1>6. replay \in Replay /\ ~replay.on
  BY <1>1, <1>2 DEF Replay
<1>7. rb \in Rebuild /\ ~rb.on /\ ~rb.undo
  BY <1>1 DEF NoRebuild, Rebuild
<1>a. tl.applied <= Len(tl.acts)
  BY <1>2, <1>5
<1>b. pc \in {"frame", "pump", "advance", "feed", "draw"} /\ strayed \in BOOLEAN
  BY <1>1
<1>8. TypeOK
  BY <1>3, <1>4, <1>5, <1>6, <1>7, <1>a, <1>b DEF TypeOK
<1>9. Control
  BY <1>1, <1>3, <1>4, <1>7 DEF Control
<1>10. OnLine
  <2>. DEFINE from == [k \in 0..0 |-> 1]
  <2>1. from \in [0..0 -> Nat] /\ from[0] = 1
    OBVIOUS
  <2>. HIDE DEF from
  <2>2. Len(tl.acts) = 0
    BY <1>2, <1>5
  <2>3. 1..0 = {}
    OBVIOUS
  <2>4. Line(tl.root, tl.acts, from)
    BY <2>1, <2>2, <2>3 DEF Line
  <2>. QED  BY <1>4, <2>4 DEF OnLine
<1>11. DOMAIN eng.hist = {}
  BY <1>3
<1>12. Deep
  BY <1>4, <1>6, <1>10, <1>11 DEF Deep, Flags, Follows, Seated, RightSeats, ReplayOnBranch
<1>. QED  BY <1>8, <1>9, <1>12 DEF PracticeInv

\* Every step keeps it.
LEMMA NextInv == PracticeInv /\ [PracticeNext]_vars => PracticeInv'
<1>. SUFFICES ASSUME PracticeInv, [PracticeNext]_vars PROVE PracticeInv'
  OBVIOUS
<1>1. TypeOK /\ Control /\ Deep
  BY DEF PracticeInv
<1>2. CASE PracticeNext
  <2>1. TypeOK' /\ Control'
    BY <1>1, <1>2, ProgramTypes, PlayerTypes DEF PracticeNext
  <2>2. Deep'
    BY <1>1, <1>2, <2>1, DeepStep
  <2>. QED  BY <2>1, <2>2 DEF PracticeInv
<1>3. CASE UNCHANGED vars
  <2>1. UNCHANGED <<pc, dm, eng, tl, replay, rb, strayed>>
    BY <1>3 DEF vars
  <2>2. TypeOK' /\ Control'
    BY <1>1, <2>1 DEF TypeOK, Control
  <2>3. Deep'
    BY <1>1, <2>1 DEF Deep, Flags, Follows, FedTo, Given, OnLine, AtLine, Seated, RightSeats,
                      ReplayOnBranch, Applied
  <2>. QED  BY <2>2, <2>3 DEF PracticeInv
<1>. QED  BY <1>2, <1>3

\* The inductive invariant holds throughout.
LEMMA InvHolds == PracticeSpec => []PracticeInv
BY InitInv, NextInv, PTL DEF PracticeSpec

\* Outside a rebuild the engine of a running duel was given exactly the applied part
\* of the timeline (TestingTimeline::applied, testingJumpTo, recordTestingAction).
THEOREM TimelineIsApplied == PracticeSpec => []AppliedMatchesEngine
<1>1. PracticeInv => AppliedMatchesEngine
  BY DEF PracticeInv, Deep, Follows, FedTo, AppliedMatchesEngine, Applied
<1>. QED  BY <1>1, InvHolds, PTL

\* No request is answered by the response of another seat, in the live duel or in a
\* rebuild (testingJumpTo, DuelManager::process).
THEOREM SeatsKeepTheirAnswers == PracticeSpec => []RightSeatAnswers
<1>1. PracticeInv => RightSeatAnswers
  BY DEF PracticeInv, Deep, Seated, RightSeats, RightSeatAnswers
<1>. QED  BY <1>1, InvHolds, PTL

\* The recording follows the branch of the timeline, until a jump goes forward past its
\* end (recordTestingAction and the truncation at the end of testingJumpTo).
THEOREM RecordingFollowsBranch == PracticeSpec => []ReplayOnBranch
<1>1. PracticeInv => ReplayOnBranch
  BY DEF PracticeInv, Deep
<1>. QED  BY <1>1, InvHolds, PTL

\* An undo that ends with its duel running has put the player's request back: the
\* timeline up to the undone answer was fed, and the request is the player's.
LEMMA UndoStep ==
    ASSUME PracticeInv, [PracticeNext]_vars, rb.undo, ~rb'.on, ~strayed', dm.running
    PROVE  dm'.sel = "human" /\ ~dm'.queued /\ eng'.st = "ask" /\ rb.fed = rb.target
<1>1. TypeOK /\ Control /\ Flags /\ Follows /\ OnLine
  BY DEF PracticeInv, Deep
<1>2. /\ rb.on /\ rb.target < Len(tl.acts)
      /\ tl.acts[rb.target + 1].by \in {"human", "auto"}
      /\ pc \notin {"frame", "draw"} /\ rb.fed <= rb.target
  BY <1>1 DEF Control
<1>3. rb.fed \in Nat /\ rb.target \in Nat /\ rb \in Rebuild
  BY <1>1 DEF TypeOK, Rebuild
<1>4. rb' # rb
  BY <1>2
<1>5. ~Feed
  BY <1>2, <1>3 DEF Feed, Rebuild
<1>6. Restored
  BY <1>2, <1>4, <1>5
     DEF PracticeNext, Program, Player, vars, GameTick, LeaveToSeat, ParkOpponent, AutoRespond,
         ParkRaw, EngineStep, Advance, DrawIdle, ToggleFastTurns, HumanAnswer, Forfeit,
         TimelineJump, Undo, Jump, NewDuel, DuelRefused, HoldElapses
<1>7. /\ pc = "feed" /\ eng' = eng /\ strayed' = strayed
      /\ dm' = [dm EXCEPT !.local = TRUE] /\ ~(rb.fed < rb.target /\ dm.running)
  BY <1>6 DEF Restored, More
<1>8. rb.fed = rb.target /\ FedTo = rb.target
  BY <1>2, <1>3, <1>7 DEF FedTo
<1>9. /\ eng.root = tl.root /\ eng.st = "ask" /\ ~dm.queued /\ Asked(eng) # "pass"
      /\ Answerer(Asked(eng)) = "human" => dm.sel = "human"
      /\ Asked(eng) \notin {"auto", "refused"}
  BY <1>1, <1>2, <1>7 DEF Flags
<1>10. tl.acts[FedTo + 1].by = Answerer(Asked(eng))
  BY <1>1, <1>2, <1>7, <1>8, <1>9, NextSeat
<1>11. dm.sel = "human"
  BY <1>2, <1>8, <1>9, <1>10 DEF Answerer
<1>12. dm'.sel = dm.sel /\ (dm'.queued <=> dm.queued)
  BY <1>1, <1>7 DEF TypeOK, Duel
<1>. QED  BY <1>7, <1>8, <1>9, <1>11, <1>12

\* Undo hands the player the request it had answered (testingUndoHuman).
THEOREM UndoGivesTheRequestBack == PracticeSpec => UndoHandsBackPrompt
<1>. DEFINE A == rb.undo /\ ~rb'.on /\ ~strayed' /\ dm.running
                   => dm'.sel = "human" /\ ~dm'.queued /\ eng'.st = "ask" /\ rb.fed = rb.target
<1>1. PracticeInv /\ [PracticeNext]_vars => [A]_vars
  BY UndoStep
<1>. QED  BY <1>1, InvHolds, PTL DEF PracticeSpec, UndoHandsBackPrompt

-----------------------------------------------------------------------------
(* Numbers.                                                                 *)

\* A set of numbers has a least one, which Min is.
LEMMA MinIs ==
    ASSUME NEW S \in SUBSET Nat, S # {}
    PROVE  Min(S) \in S /\ \A y \in S : Min(S) <= y
<1>1. PICK m \in S : \A k \in S : ~(<<k, m>> \in OpToRel(<, Nat))
  BY NatLessThanWellFounded, WFMin, Zenon
<1>2. \A k \in S : ~(k < m)
  BY <1>1 DEF OpToRel
<1>3. \A k \in S : m <= k
  BY <1>2
<1> QED
  BY <1>3 DEF Min

\* The greater of two numbers, and the lesser.
LEMMA TwoNumbers ==
    ASSUME NEW a \in Nat, NEW b \in Nat
    PROVE  /\ Max({a, b}) = IF a >= b THEN a ELSE b
           /\ Min({a, b}) = IF a <= b THEN a ELSE b
BY DEF Max, Min

\* What holds at 0, and at k when it holds at k - 1, holds up to n.
LEMMA UpTo ==
    ASSUME NEW n \in Nat, NEW P, 0 \in P, \A k \in 1..n : k - 1 \in P => k \in P
    PROVE  \A k \in 0..n : k \in P
<1> DEFINE Bad == {k \in 0..n : k \notin P}
<1> SUFFICES ASSUME Bad # {} PROVE FALSE
  OBVIOUS
<1>1. Bad \in SUBSET Nat
  OBVIOUS
<1> DEFINE m == Min(Bad)
<1>2. m \in Bad /\ \A k \in Bad : m <= k
  BY ONLY <1>1, Bad # {}, MinIs
<1> HIDE DEF m
<1>3. m \in 0..n /\ m \notin P
  BY <1>2
<1>4. m # 0
  BY <1>3
<1>5. m \in 1..n /\ m - 1 \in 0..n
  BY <1>3, <1>4
<1>6. m - 1 \notin P
  BY <1>3, <1>5
<1>7. ~(m <= m - 1)
  BY <1>5
<1> QED
  BY <1>2, <1>5, <1>6, <1>7

\* What holds at n, and at k when it holds at k + 1, holds down to 1.
LEMMA DownFrom ==
    ASSUME NEW n \in Nat, NEW P, n \in P, \A k \in 1..(n - 1) : k + 1 \in P => k \in P
    PROVE  \A k \in 1..n : k \in P
<1> DEFINE Q == {k \in Nat : k < n => n - k \in P}
<1>1. 0 \in Q
  OBVIOUS
<1>2. ASSUME NEW k \in 1..n, k - 1 \in Q PROVE k \in Q
  <2>1. CASE k = n
    BY <2>1
  <2>2. CASE k # n
    <3>1. n - k \in 1..(n - 1) /\ n - (k - 1) = (n - k) + 1 /\ k - 1 < n /\ k \in Nat
      BY <2>2
    <3>2. (n - k) + 1 \in P
      BY <1>2, <3>1
    <3> QED
      BY <3>1, <3>2
  <2> QED
    BY <2>1, <2>2
<1>3. \A k \in 0..n : k \in Q
  <2> HIDE DEF Q
  <2> QED
    BY <1>1, <1>2, UpTo
<1>4. ASSUME NEW k \in 1..n PROVE k \in P
  <2>1. n - k \in 0..n /\ n - k < n /\ n - (n - k) = k
    OBVIOUS
  <2> QED
    BY <1>3, <2>1
<1> QED
  BY <1>4

\* Computed from base, a value for each of 1..n from the one before.
Stepwise(f, F, base, n) ==
    f = [i \in 0..n |-> IF i = 0 THEN base ELSE F[<<f[i - 1], i>>]]

\* Such values exist: of the numbers they do not exist for, none is the least.
LEMMA StepwiseExists ==
    ASSUME NEW F, NEW base, NEW n \in Nat
    PROVE  \E f : Stepwise(f, F, base, n)
<1> DEFINE P == {k \in Nat : \E f : Stepwise(f, F, base, k)}
<1>1. 0 \in P
  <2> DEFINE f == [i \in 0..0 |-> base]
  <2>1. f = [i \in 0..0 |-> IF i = 0 THEN base ELSE F[<<f[i - 1], i>>]]
    OBVIOUS
  <2> QED
    BY <2>1 DEF Stepwise
<1>2. ASSUME NEW k \in 1..n, k - 1 \in P PROVE k \in P
  <2>1. PICK h : Stepwise(h, F, base, k - 1)
    BY <1>2
  <2> DEFINE f == [i \in 0..k |-> IF i = 0 THEN base ELSE F[<<h[i - 1], i>>]]
  <2>2. ASSUME NEW i \in 0..k, i # 0 PROVE f[i - 1] = h[i - 1]
    <3>1. i - 1 \in 0..k /\ i - 1 \in 0..(k - 1)
      BY <2>2
    <3>2. h[i - 1] = IF i - 1 = 0 THEN base ELSE F[<<h[(i - 1) - 1], i - 1>>]
      BY <2>1, <3>1 DEF Stepwise
    <3> QED
      BY <3>1, <3>2
  <2>3. f = [i \in 0..k |-> IF i = 0 THEN base ELSE F[<<f[i - 1], i>>]]
    BY <2>2
  <2>4. Stepwise(f, F, base, k)
    BY <2>3 DEF Stepwise
  <2>5. k \in Nat
    OBVIOUS
  <2> QED
    BY <2>4, <2>5
<1>3. \A k \in 0..n : k \in P
  <2> HIDE DEF P
  <2> QED
    BY <1>1, <1>2, UpTo
<1>4. n \in P
  <2>1. n \in 0..n
    OBVIOUS
  <2> QED
    BY <1>3, <2>1
<1> QED
  BY <1>4

\* Each step stays in A.
StaysIn(A, F, n) == \A a \in A, i \in 1..n : F[<<a, i>>] \in A

\* f steps through A.
StepsIn(f, A, F, base, n) ==
    /\ f \in [0..n -> A] /\ f[0] = base
    /\ \A i \in 1..n : f[i] = F[<<f[i - 1], i>>]

\* The values stay in A when each step does.
LEMMA StepwiseStays ==
    ASSUME NEW A, NEW n \in Nat, NEW F, NEW base \in A, NEW f, Stepwise(f, F, base, n),
           StaysIn(A, F, n)
    PROVE  StepsIn(f, A, F, base, n)
<1> DEFINE P == {k \in 0..n : f[k] \in A}
<1>1. f = [i \in 0..n |-> IF i = 0 THEN base ELSE F[<<f[i - 1], i>>]]
  BY DEF Stepwise
<1>2. f[0] = base /\ 0 \in P
  <2>1. 0 \in 0..n
    OBVIOUS
  <2> QED
    BY <1>1, <2>1
<1>3. ASSUME NEW k \in 1..n PROVE f[k] = F[<<f[k - 1], k>>]
  <2>1. k \in 0..n /\ k # 0
    OBVIOUS
  <2> QED
    BY <1>1, <2>1
<1>4. ASSUME NEW k \in 1..n, k - 1 \in P PROVE k \in P
  <2>1. f[k - 1] \in A /\ k \in 0..n
    BY <1>4
  <2>2. F[<<f[k - 1], k>>] \in A
    BY <2>1 DEF StaysIn
  <2> QED
    BY <1>3, <2>1, <2>2
<1>5. \A k \in 0..n : k \in P
  <2> HIDE DEF P
  <2> QED
    BY <1>2, <1>4, UpTo
<1>6. f \in [0..n -> A]
  <2>1. f = [i \in 0..n |-> f[i]]
    BY <1>1
  <2> QED
    BY <1>5, <2>1
<1> QED
  BY <1>2, <1>3, <1>6 DEF StepsIn

-----------------------------------------------------------------------------
(* Sums.                                                                    *)

\* The sums of the first elements, one after another.
Adds(g, s) ==
    /\ g \in [0..Len(s) -> Nat] /\ g[0] = 0
    /\ \A i \in 1..Len(s) : g[i] = g[i - 1] + s[i]

\* Total adds up.
LEMMA TotalIs ==
    ASSUME NEW s \in Seq(Nat)
    PROVE  \E g : Adds(g, s) /\ Total(s) = g[Len(s)]
<1> DEFINE n == Len(s)
           F == [p \in Nat \X (1..n) |-> p[1] + s[p[2]]]
           g == CHOOSE g : g = [i \in 0..n |-> IF i = 0 THEN 0 ELSE g[i - 1] + s[i]]
<1>0. n \in Nat /\ \A i \in 1..n : s[i] \in Nat
  OBVIOUS
<1>1. Total(s) = g[n]
  BY DEF Total
<1>2. PICK f : Stepwise(f, F, 0, n)
  <2> HIDE DEF F
  <2> QED
    BY <1>0, StepwiseExists
<1>3. \A a \in Nat, i \in 1..n : F[<<a, i>>] = a + s[i] /\ F[<<a, i>>] \in Nat
  BY <1>0
<1>4. StepsIn(f, Nat, F, 0, n)
  <2>1. 0 \in Nat /\ StaysIn(Nat, F, n)
    BY <1>3 DEF StaysIn
  <2> HIDE DEF F, n
  <2> QED
    BY <1>0, <1>2, <2>1, StepwiseStays
<1>5. \A i \in 1..n : f[i] = f[i - 1] + s[i]
  <2> TAKE i \in 1..n
  <2>1. i - 1 \in 0..n
    BY <1>0
  <2>2. f[i - 1] \in Nat
    BY <1>4, <2>1 DEF StepsIn
  <2> QED
    BY <1>3, <1>4, <2>2 DEF StepsIn
<1>6. f = [i \in 0..n |-> IF i = 0 THEN 0 ELSE f[i - 1] + s[i]]
  <2>1. f = [i \in 0..n |-> f[i]]
    BY <1>4 DEF StepsIn
  <2>2. \A i \in 0..n : f[i] = IF i = 0 THEN 0 ELSE f[i - 1] + s[i]
    <3> TAKE i \in 0..n
    <3>1. i # 0 => i \in 1..n
      BY <1>0
    <3> QED
      BY <1>4, <1>5, <3>1 DEF StepsIn
  <2> QED
    BY <2>1, <2>2
<1>7. g = [i \in 0..n |-> IF i = 0 THEN 0 ELSE g[i - 1] + s[i]]
  BY <1>6
<1> HIDE DEF g, F
<1>8. g[0] = 0 /\ \A i \in 1..n : g[i] = g[i - 1] + s[i]
  <2>1. 0 \in 0..n /\ \A i \in 1..n : i \in 0..n /\ i # 0
    BY <1>0
  <2> HIDE DEF n
  <2> QED
    BY <1>7, <2>1
<1> DEFINE P == {k \in 0..n : g[k] \in Nat}
<1>9. 0 \in P /\ \A k \in 1..n : k - 1 \in P => k \in P
  <2>1. 0 \in P
    BY <1>0, <1>8
  <2>2. ASSUME NEW k \in 1..n, k - 1 \in P PROVE k \in P
    <3>1. k \in 0..n /\ g[k - 1] \in Nat /\ s[k] \in Nat
      BY <1>0, <2>2
    <3> QED
      BY <1>8, <3>1
  <2> QED
    BY <2>1, <2>2
<1>10. \A k \in 0..n : k \in P
  <2> HIDE DEF P, n
  <2> QED
    BY <1>0, <1>9, UpTo
<1>11. g = [i \in 0..n |-> g[i]]
  BY <1>7
<1>12. g \in [0..n -> Nat]
  BY <1>10, <1>11
<1> QED
  BY <1>1, <1>8, <1>12 DEF Adds

\* What is left to remove after each card, by the handler's rule.
TakenOff(f, avail, count) ==
    /\ f \in [0..Len(avail) -> Nat] /\ f[0] = count
    /\ \A i \in 1..Len(avail) : f[i] = f[i - 1] - Min({f[i - 1], avail[i]})

\* The handler of counters computes it.
LEMMA AutoCountsIs ==
    ASSUME NEW r, r.avail \in Seq(Nat), r.count \in Nat
    PROVE  \E f : /\ TakenOff(f, r.avail, r.count)
                  /\ AutoCounts(r) = [i \in 1..Len(r.avail) |-> f[i - 1] - f[i]]
<1> DEFINE s == r.avail
           c == r.count
           n == Len(s)
           F == [p \in Nat \X (1..n) |-> p[1] - Min({p[1], s[p[2]]})]
           g == CHOOSE g : g = [i \in 0..n |-> IF i = 0 THEN c
                                               ELSE g[i - 1] - Min({g[i - 1], s[i]})]
<1>0. n \in Nat /\ c \in Nat /\ DOMAIN s = 1..n /\ \A i \in 1..n : s[i] \in Nat
  OBVIOUS
<1>1. AutoCounts(r) = [i \in 1..n |-> g[i - 1] - g[i]]
  BY <1>0 DEF AutoCounts
<1>2. PICK f : Stepwise(f, F, c, n)
  <2> HIDE DEF F, n, c
  <2> QED
    BY <1>0, StepwiseExists
<1>a. \A a \in Nat, b \in Nat : a - Min({a, b}) \in Nat
  BY TwoNumbers
<1>3. \A a \in Nat, i \in 1..n : /\ F[<<a, i>>] = a - Min({a, s[i]})
                                 /\ F[<<a, i>>] \in Nat
  <2> TAKE a \in Nat, i \in 1..n
  <2>1. F[<<a, i>>] = a - Min({a, s[i]})
    OBVIOUS
  <2> QED
    BY <1>0, <1>a, <2>1
<1>4. StepsIn(f, Nat, F, c, n)
  <2>1. StaysIn(Nat, F, n)
    BY <1>3 DEF StaysIn
  <2> HIDE DEF F, n, c
  <2> QED
    BY <1>0, <1>2, <2>1, StepwiseStays
<1>5. \A i \in 1..n : f[i] = f[i - 1] - Min({f[i - 1], s[i]})
  <2> TAKE i \in 1..n
  <2>1. i - 1 \in 0..n
    BY <1>0
  <2>2. f[i - 1] \in Nat
    BY <1>4, <2>1 DEF StepsIn
  <2> QED
    BY <1>3, <1>4, <2>2 DEF StepsIn
<1>6. f = [i \in 0..n |-> IF i = 0 THEN c ELSE f[i - 1] - Min({f[i - 1], s[i]})]
  <2>1. f = [i \in 0..n |-> f[i]]
    BY <1>4 DEF StepsIn
  <2>2. \A i \in 0..n : f[i] = IF i = 0 THEN c ELSE f[i - 1] - Min({f[i - 1], s[i]})
    <3> TAKE i \in 0..n
    <3>1. i # 0 => i \in 1..n
      BY <1>0
    <3> QED
      BY <1>4, <1>5, <3>1 DEF StepsIn
  <2> QED
    BY <2>1, <2>2
<1>7. g = [i \in 0..n |-> IF i = 0 THEN c ELSE g[i - 1] - Min({g[i - 1], s[i]})]
  BY <1>6
<1> HIDE DEF g, F
<1>8. g[0] = c /\ \A i \in 1..n : g[i] = g[i - 1] - Min({g[i - 1], s[i]})
  <2>1. 0 \in 0..n /\ \A i \in 1..n : i \in 0..n /\ i # 0
    BY <1>0
  <2> HIDE DEF n, c, s
  <2> QED
    BY <1>7, <2>1
<1> DEFINE P == {k \in 0..n : g[k] \in Nat}
<1>9. 0 \in P /\ \A k \in 1..n : k - 1 \in P => k \in P
  <2>1. 0 \in P
    BY <1>0, <1>8
  <2>2. ASSUME NEW k \in 1..n, k - 1 \in P PROVE k \in P
    <3>1. k \in 0..n /\ g[k - 1] \in Nat /\ s[k] \in Nat
      BY <1>0, <2>2
    <3>2. g[k] \in Nat
      BY <1>8, <1>a, <3>1
    <3> QED
      BY <3>1, <3>2
  <2> QED
    BY <2>1, <2>2
<1>10. \A k \in 0..n : k \in P
  <2> HIDE DEF P, n
  <2> QED
    BY <1>0, <1>9, UpTo
<1>11. g = [i \in 0..n |-> g[i]]
  BY <1>7
<1>12. g \in [0..n -> Nat]
  BY <1>10, <1>11
<1> QED
  BY <1>1, <1>8, <1>12 DEF TakenOff

\* It removes no more from a card than is there, and all that was to be removed.
LEMMA CountsFit ==
    ASSUME NEW r, r.avail \in Seq(Nat), r.count \in 0..Total(r.avail)
    PROVE  /\ AutoCounts(r) \in Seq(Nat) /\ Len(AutoCounts(r)) = Len(r.avail)
           /\ \A i \in DOMAIN AutoCounts(r) : AutoCounts(r)[i] \in 0..r.avail[i]
           /\ Total(AutoCounts(r)) = r.count
<1> DEFINE s == r.avail
           c == r.count
           n == Len(s)
           t == AutoCounts(r)
<1>1. PICK g : Adds(g, s) /\ Total(s) = g[n]
  BY TotalIs
<1>2. n \in Nat /\ g[n] \in Nat /\ c \in Nat /\ c <= g[n] /\ \A i \in 1..n : s[i] \in Nat
  <2>1. n \in 0..n
    OBVIOUS
  <2>2. g[n] \in Nat
    BY <1>1, <2>1 DEF Adds
  <2> QED
    BY <1>1, <2>2
<1>3. PICK f : TakenOff(f, s, c) /\ t = [i \in 1..n |-> f[i - 1] - f[i]]
  BY <1>2, AutoCountsIs
<1> HIDE DEF t, c
<1>4. ASSUME NEW i \in 1..n
      PROVE  /\ f[i - 1] \in Nat /\ f[i] \in Nat /\ g[i - 1] \in Nat /\ g[i] \in Nat
             /\ g[i] = g[i - 1] + s[i]
             /\ f[i] = f[i - 1] - IF f[i - 1] <= s[i] THEN f[i - 1] ELSE s[i]
             /\ t[i] = f[i - 1] - f[i]
  <2>1. i - 1 \in 0..n /\ i \in 0..n
    BY <1>2
  <2>2. f[i - 1] \in Nat /\ f[i] \in Nat /\ f[i] = f[i - 1] - Min({f[i - 1], s[i]})
    BY <1>3, <2>1 DEF TakenOff
  <2>3. g[i - 1] \in Nat /\ g[i] \in Nat /\ g[i] = g[i - 1] + s[i]
    BY <1>1, <2>1 DEF Adds
  <2>4. Min({f[i - 1], s[i]}) = IF f[i - 1] <= s[i] THEN f[i - 1] ELSE s[i]
    BY <1>2, <2>2, TwoNumbers
  <2> QED
    BY <1>3, <2>2, <2>3, <2>4
<1>5. \A i \in 1..n : t[i] \in 0..s[i] /\ t[i] \in Nat
  <2> TAKE i \in 1..n
  <2> DEFINE x == f[i - 1]
             y == f[i]
             v == s[i]
  <2>1. x \in Nat /\ y \in Nat /\ v \in Nat /\ t[i] = x - y
        /\ y = x - IF x <= v THEN x ELSE v
    BY <1>2, <1>4
  <2> HIDE DEF x, y, v
  <2>2. t[i] \in 0..v
    BY <2>1
  <2> QED
    BY <2>1, <2>2 DEF v
<1>6. t \in Seq(Nat) /\ Len(t) = n /\ DOMAIN t = 1..n
  <2>1. t \in [1..n -> Nat]
    BY <1>3, <1>5
  <2> HIDE DEF n
  <2> QED
    BY <1>2, <2>1
<1>7. f[0] = c /\ g[0] = 0
  BY <1>1, <1>3 DEF TakenOff, Adds
<1>8. f[n] = 0
  <2> DEFINE P == {k \in 0..n : f[k] = 0 \/ f[k] = c - g[k]}
  <2>1. 0 \in P
    BY <1>2, <1>7
  <2>2. ASSUME NEW k \in 1..n, k - 1 \in P PROVE k \in P
    <3>1. f[k - 1] = 0 \/ f[k - 1] = c - g[k - 1]
      BY <2>2
    <3> DEFINE x == f[k - 1]
               y == f[k]
               v == s[k]
               u == g[k - 1]
               w == g[k]
    <3>a. /\ x \in Nat /\ y \in Nat /\ v \in Nat /\ u \in Nat /\ w \in Nat
          /\ y = x - (IF x <= v THEN x ELSE v) /\ w = u + v
          /\ x = 0 \/ x = c - u
      BY <1>2, <1>4, <3>1
    <3>b. y = 0 \/ y = c - w
      <4> HIDE DEF x, y, v, u, w
      <4> QED
        BY <1>2, <3>a
    <3>2. f[k] = 0 \/ f[k] = c - g[k]
      BY <3>b
    <3>3. k \in 0..n
      BY <1>2
    <3> QED
      BY <3>2, <3>3
  <2>3. \A k \in 0..n : k \in P
    <3> HIDE DEF P, n
    <3> QED
      BY <1>2, <2>1, <2>2, UpTo
  <2>4. n \in 0..n
    BY <1>2
  <2>5. f[n] = 0 \/ f[n] = c - g[n]
    BY <2>3, <2>4
  <2>6. f[n] \in Nat
    BY <1>3, <2>4 DEF TakenOff
  <2> QED
    BY <1>2, <2>5, <2>6
<1>9. PICK h : Adds(h, t) /\ Total(t) = h[n]
  BY <1>6, TotalIs
<1>10. h[n] = c
  <2> DEFINE P == {k \in 0..n : h[k] = c - f[k]}
  <2>1. 0 \in P
    <3>1. h[0] = 0
      BY <1>9 DEF Adds
    <3> QED
      BY <1>2, <1>7, <3>1
  <2>2. ASSUME NEW k \in 1..n, k - 1 \in P PROVE k \in P
    <3>1. k \in 0..n /\ h[k - 1] = c - f[k - 1]
      BY <1>2, <2>2
    <3>2. h[k] = h[k - 1] + t[k]
      BY <1>6, <1>9 DEF Adds
    <3>3. h[k] = c - f[k]
      BY <1>2, <1>4, <3>1, <3>2
    <3> QED
      BY <3>1, <3>3
  <2>3. \A k \in 0..n : k \in P
    <3> HIDE DEF P, n
    <3> QED
      BY <1>2, <2>1, <2>2, UpTo
  <2>4. n \in 0..n
    BY <1>2
  <2> QED
    BY <1>2, <1>8, <2>3, <2>4
<1> QED
  BY <1>5, <1>6, <1>9, <1>10 DEF t, c

-----------------------------------------------------------------------------
(* Enumerations.                                                            *)

\* A sequence without repetitions has as many values as elements.
LEMMA DistinctIs ==
    ASSUME NEW X, NEW s \in Seq(X),
           \A i \in 1..Len(s), j \in 1..Len(s) : s[i] = s[j] => i = j
    PROVE  Distinct(s)
<1> DEFINE n == Len(s)
<1>1. n \in Nat /\ DOMAIN s = 1..n
  OBVIOUS
<1>2. Range(s) = {s[i] : i \in 1..n}
  BY <1>1 DEF Range
<1>3. s \in [1..n -> Range(s)]
  BY <1>1, <1>2
<1>4. s \in Bijection(1..n, Range(s))
  BY <1>1, <1>2, <1>3 DEF Bijection, Injection, Surjection, IsInjective
<1>5. ExistsBijection(1..n, Range(s))
  BY <1>4 DEF ExistsBijection
<1>6. Cardinality(Range(s)) = n
  BY <1>1, <1>5, FS_CountingElements
<1> QED
  BY <1>6 DEF Distinct

\* s lists S, each element once.
Lists(s, S) ==
    /\ s \in Seq(S) /\ Len(s) = Cardinality(S) /\ Cardinality(S) \in Nat
    /\ Range(s) = S /\ Distinct(s)
    /\ \A i \in 1..Len(s), j \in 1..Len(s) : s[i] = s[j] => i = j

\* An injective function on 1..|S| lists S.
LEMMA ListsIs ==
    ASSUME NEW S, IsFiniteSet(S), NEW s \in [1..Cardinality(S) -> S], IsInjective(s)
    PROVE  Lists(s, S)
<1> DEFINE n == Cardinality(S)
<1>1. n \in Nat
  BY FS_CardinalityType
<1>2. s \in Seq(S) /\ Len(s) = n /\ DOMAIN s = 1..n
  BY <1>1
<1>3. \A i \in 1..Len(s), j \in 1..Len(s) : s[i] = s[j] => i = j
  BY <1>2 DEF IsInjective
<1>4. Distinct(s)
  BY <1>2, <1>3, DistinctIs
<1>5. Range(s) \subseteq S
  BY <1>2 DEF Range
<1>6. Cardinality(Range(s)) = n
  BY <1>2, <1>4 DEF Distinct
<1>7. Range(s) = S
  BY <1>5, <1>6, FS_Subset
<1> QED
  BY <1>1, <1>2, <1>3, <1>4, <1>7 DEF Lists

\* SetToSeq lists a finite set.
LEMMA SetToSeqIs ==
    ASSUME NEW S, IsFiniteSet(S)
    PROVE  Lists(SetToSeq(S), S)
<1> DEFINE n == Cardinality(S)
<1>1. ExistsBijection(1..n, S)
  BY FS_CardinalityType
<1>2. PICK f : f \in Bijection(1..n, S)
  BY <1>1 DEF ExistsBijection
<1>3. f \in [1..n -> S] /\ IsInjective(f)
  BY <1>2 DEF Bijection, Injection
<1>4. SetToSeq(S) \in [1..n -> S] /\ IsInjective(SetToSeq(S))
  BY <1>3 DEF SetToSeq
<1> QED
  BY <1>4, ListsIs

\* Ascending lists a finite set of numbers: the number of elements up to x is
\* different for each x, so it is each of 1..|S| for one.
LEMMA AscendingIs ==
    ASSUME NEW S \in SUBSET Nat, IsFiniteSet(S)
    PROVE  Lists(Ascending(S), S)
<1> DEFINE n == Cardinality(S)
           below(x) == {y \in S : y <= x}
           rank == [x \in S |-> Cardinality(below(x))]
<1>1. n \in Nat
  BY FS_CardinalityType
<1>2. ASSUME NEW x \in S
      PROVE  /\ IsFiniteSet(below(x)) /\ Cardinality(below(x)) \in 1..n
  <2>1. below(x) \in SUBSET S /\ x \in below(x)
    OBVIOUS
  <2>2. IsFiniteSet(below(x)) /\ Cardinality(below(x)) <= n
    BY <2>1, FS_Subset
  <2>3. Cardinality(below(x)) \in Nat
    BY <2>2, FS_CardinalityType
  <2>4. Cardinality(below(x)) # 0
    BY <2>1, <2>2, FS_EmptySet
  <2> QED
    BY <1>1, <2>2, <2>3, <2>4
<1>3. rank \in [S -> 1..n]
  BY <1>2
<1>4. ASSUME NEW x \in S, NEW y \in S, x < y PROVE rank[x] # rank[y]
  <2>0. ~(y <= x) /\ y <= y /\ \A z \in S : z <= x => z <= y
    BY <1>4
  <2>1. /\ below(x) \in SUBSET below(y)
        /\ y \in below(y)
        /\ y \notin below(x)
    <3>1. \A z \in below(x) : z \in below(y)
      BY <2>0
    <3> QED
      BY <2>0, <3>1
  <2>2. IsFiniteSet(below(y))
    BY <1>2
  <2> DEFINE A == below(x)
             B == below(y)
  <2>3. Cardinality(B) = Cardinality(A) => B = A
    <3> HIDE DEF A, B
    <3> QED
      BY <2>1, <2>2, FS_Subset DEF A, B
  <2> QED
    BY <2>1, <2>3
<1>5. rank \in Injection(S, 1..n)
  <2>1. \A x \in S, y \in S : rank[x] = rank[y] => x = y
    <3> TAKE x \in S, y \in S
    <3>1. x < y \/ y < x \/ x = y
      OBVIOUS
    <3> QED
      BY <1>4, <3>1
  <2> HIDE DEF rank
  <2> QED
    BY <1>3, <2>1 DEF Injection, IsInjective
<1>6. rank \in Surjection(S, 1..n)
  <2>1. IsFiniteSet(1..n) /\ Cardinality(1..n) = n
    BY <1>1, FS_Interval
  <2> HIDE DEF rank
  <2> QED
    BY <1>5, <2>1, FS_Injection
<1> DEFINE a == Ascending(S)
<1>7. \A k \in 1..n : a[k] \in S /\ rank[a[k]] = k
  <2> TAKE k \in 1..n
  <2>1. \E x \in S : rank[x] = k
    BY <1>6 DEF Surjection
  <2>2. \E x \in S : Cardinality(below(x)) = k
    BY <2>1
  <2>3. a[k] = CHOOSE x \in S : Cardinality(below(x)) = k
    BY DEF Ascending
  <2>4. a[k] \in S /\ Cardinality(below(a[k])) = k
    BY <2>2, <2>3
  <2> QED
    BY <2>4
<1>8. a \in [1..n -> S]
  <2>1. a = [k \in 1..n |-> a[k]]
    BY DEF Ascending
  <2> QED
    BY <1>7, <2>1
<1>9. IsInjective(a)
  <2> HIDE DEF rank, a
  <2> QED
    BY <1>7, <1>8 DEF IsInjective
<1> HIDE DEF a
<1>10. Lists(a, S)
  BY <1>8, <1>9, ListsIs
<1> QED
  BY <1>10 DEF a

\* The first elements of a list.
LEMMA FirstOf ==
    ASSUME NEW S, NEW s, Lists(s, S), NEW m \in 0..Len(s)
    PROVE  /\ {s[k] : k \in 1..m} \subseteq S
           /\ Cardinality({s[k] : k \in 1..m}) = m
<1> DEFINE T == {s[k] : k \in 1..m}
           f == [k \in 1..m |-> s[k]]
<1>1. m \in Nat /\ m <= Len(s) /\ Len(s) \in Nat /\ s \in Seq(S)
  BY DEF Lists
<1>2. \A k \in 1..m : k \in 1..Len(s) /\ s[k] \in S
  BY <1>1
<1>3. f \in Bijection(1..m, T)
  <2>1. f \in [1..m -> T] /\ \A t \in T : \E k \in 1..m : f[k] = t
    OBVIOUS
  <2>2. \A i \in 1..m, j \in 1..m : f[i] = f[j] => i = j
    BY <1>2 DEF Lists
  <2> HIDE DEF f, T
  <2> QED
    BY <2>1, <2>2 DEF Bijection, Injection, Surjection, IsInjective
<1>4. Cardinality(T) = m
  <2> HIDE DEF f, T
  <2>1. ExistsBijection(1..m, T)
    BY <1>3 DEF ExistsBijection
  <2> QED
    BY <1>1, <2>1, FS_CountingElements
<1> QED
  BY <1>2, <1>4

\* Among elements with values, one is first: of the greatest value, and of
\* those with it the least.
LEMMA FirstGreatest ==
    ASSUME NEW n \in Nat, NEW v \in [1..n -> Int], NEW S \in SUBSET (1..n), S # {}
    PROVE  \E i \in S : \A j \in S : v[i] > v[j] \/ (v[i] = v[j] /\ i <= j)
<1> DEFINE Best(i, k) == \A j \in S : j <= k => v[i] > v[j] \/ (v[i] = v[j] /\ i <= j)
           P == {k \in 0..n : (\E j \in S : j <= k) => \E i \in S : i <= k /\ Best(i, k)}
<1>0. \A j \in S : j \in Nat /\ j \in 1..n /\ v[j] \in Int
  OBVIOUS
<1>1. 0 \in P
  <2>1. \A j \in S : ~(j <= 0)
    BY <1>0
  <2> QED
    BY <2>1
<1>2. ASSUME NEW k \in 1..n, k - 1 \in P PROVE k \in P
  <2>0. k \in Nat /\ k \in 0..n
    OBVIOUS
  <2> SUFFICES ASSUME \E j \in S : j <= k
               PROVE  \E i \in S : i <= k /\ Best(i, k)
    BY <2>0
  <2>1. CASE k \notin S
    <3>0. \A j \in S : j # k
      BY <2>1
    <3>1. \A j \in S : j \in 1..n /\ (j <= k => j <= k - 1) /\ (j <= k - 1 => j <= k)
      <4> TAKE j \in S
      <4>1. j \in Nat /\ j \in 1..n /\ j # k
        BY <1>0, <3>0
      <4> QED
        BY <2>0, <4>1
    <3>2. PICK i \in S : i <= k - 1 /\ Best(i, k - 1)
      BY <1>2, <3>1
    <3>3. Best(i, k)
      BY <3>1, <3>2
    <3> QED
      BY <3>1, <3>2, <3>3
  <2>2. CASE k \in S /\ \A j \in S : ~(j <= k - 1)
    <3>1. \A j \in S : j <= k => j = k
      <4> TAKE j \in S
      <4>1. j \in Nat /\ ~(j <= k - 1)
        BY <1>0, <2>2
      <4> QED
        BY <2>0, <4>1
    <3>2. v[k] \in Int /\ k <= k
      BY <2>0
    <3>3. Best(k, k)
      BY <3>1, <3>2
    <3> QED
      BY <2>2, <3>2, <3>3
  <2>3. CASE k \in S /\ \E j \in S : j <= k - 1
    <3>1. PICK i \in S : i <= k - 1 /\ Best(i, k - 1)
      BY <1>2, <2>3
    <3>2. \A j \in S : v[j] \in Int /\ j \in 1..n /\ (j <= k => j <= k - 1 \/ j = k)
      <4> TAKE j \in S
      <4>1. j \in Nat /\ j \in 1..n /\ v[j] \in Int
        BY <1>0
      <4> QED
        BY <2>0, <4>1
    <3>3. CASE v[k] > v[i]
      <4>1. Best(k, k)
        <5> TAKE j \in S
        <5> HAVE j <= k
        <5>1. CASE j = k
          BY <3>2, <5>1
        <5>2. CASE j <= k - 1
          <6>1. v[i] > v[j] \/ v[i] = v[j]
            BY <3>1, <5>2
          <6>2. v[i] \in Int /\ v[j] \in Int /\ v[k] \in Int
            BY <2>3, <3>2
          <6> QED
            BY <3>3, <6>1, <6>2
        <5> QED
          BY <3>2, <5>1, <5>2
      <4> QED
        BY <2>3, <4>1
    <3>4. CASE ~(v[k] > v[i])
      <4>1. v[i] \in Int /\ v[k] \in Int /\ i \in Int
        BY <2>3, <3>2
      <4>2. Best(i, k)
        <5> TAKE j \in S
        <5> HAVE j <= k
        <5>1. CASE j = k
          BY <3>1, <3>4, <4>1, <5>1
        <5>2. CASE j <= k - 1
          BY <3>1, <5>2
        <5> QED
          BY <3>2, <5>1, <5>2
      <4> QED
        BY <3>1, <4>1, <4>2
    <3> QED
      BY <3>3, <3>4
  <2> QED
    BY <2>1, <2>2, <2>3
<1>3. \A k \in 0..n : k \in P
  <2> HIDE DEF P
  <2> QED
    BY <1>1, <1>2, UpTo
<1>4. n \in P /\ \A j \in S : j <= n
  <2>1. n \in 0..n /\ \A j \in S : j <= n
    BY <1>0
  <2> QED
    BY <1>3, <2>1
<1>5. PICK i \in S : Best(i, n)
  BY <1>4
<1> QED
  BY <1>4, <1>5

-----------------------------------------------------------------------------
(* Sums in which a card may count as either of two values.                  *)

Pairs == (Nat \ {0}) \X Nat

\* A card's values are above zero.
LEMMA ValuesAre ==
    ASSUME NEW p \in Pairs
    PROVE  Values(p) \subseteq Nat \ {0} /\ Values(p) # {}
BY DEF Pairs, Values

\* The sums of S, each with a value of p added.
MoreSums(S, p) == {x + y : x \in S, y \in Values(p)}

\* The sums that the first elements come to.
Spans(w, s) ==
    /\ w \in [0..Len(s) -> SUBSET Nat] /\ w[0] = {0}
    /\ \A i \in 1..Len(s) : w[i] = MoreSums(w[i - 1], s[i])

\* Sums computes them.
LEMMA SumsAre ==
    ASSUME NEW s \in Seq(Pairs)
    PROVE  \E w : Spans(w, s) /\ Sums(s) = w[Len(s)]
<1> DEFINE n == Len(s)
           F == [p \in (SUBSET Nat) \X (1..n) |-> MoreSums(p[1], s[p[2]])]
           g == CHOOSE g : g = [i \in 0..n |-> IF i = 0 THEN {0} ELSE MoreSums(g[i - 1], s[i])]
<1>0. n \in Nat /\ \A i \in 1..n : s[i] \in Pairs
  OBVIOUS
<1>1. Sums(s) = g[n]
  BY DEF Sums, MoreSums
<1>2. PICK f : Stepwise(f, F, {0}, n)
  <2> HIDE DEF F, n
  <2> QED
    BY <1>0, StepwiseExists
<1>a. \A S \in SUBSET Nat, i \in 1..n : MoreSums(S, s[i]) \in SUBSET Nat
  <2> TAKE S \in SUBSET Nat, i \in 1..n
  <2>1. Values(s[i]) \subseteq Nat
    BY <1>0, ValuesAre
  <2>2. \A x \in S, y \in Values(s[i]) : x + y \in Nat
    BY <2>1
  <2> QED
    BY <2>2 DEF MoreSums
<1>3. \A S \in SUBSET Nat, i \in 1..n : /\ F[<<S, i>>] = MoreSums(S, s[i])
                                        /\ F[<<S, i>>] \in SUBSET Nat
  <2> TAKE S \in SUBSET Nat, i \in 1..n
  <2>1. F[<<S, i>>] = MoreSums(S, s[i])
    OBVIOUS
  <2> QED
    BY <1>a, <2>1
<1>4. StepsIn(f, SUBSET Nat, F, {0}, n)
  <2>0. {0} \in SUBSET Nat
    OBVIOUS
  <2>1. StaysIn(SUBSET Nat, F, n)
    <3> HIDE DEF F
    <3> QED
      BY <1>3 DEF StaysIn
  <2> HIDE DEF F, n
  <2> QED
    BY <1>0, <1>2, <2>0, <2>1, StepwiseStays
<1>5. \A i \in 1..n : f[i] = MoreSums(f[i - 1], s[i])
  <2> TAKE i \in 1..n
  <2>1. i - 1 \in 0..n
    BY <1>0
  <2>2. f[i - 1] \in SUBSET Nat
    BY <1>4, <2>1 DEF StepsIn
  <2> QED
    BY <1>3, <1>4, <2>2 DEF StepsIn
<1> HIDE DEF F
<1>6. f = [i \in 0..n |-> IF i = 0 THEN {0} ELSE MoreSums(f[i - 1], s[i])]
  <2>1. f = [i \in 0..n |-> f[i]]
    BY <1>4 DEF StepsIn
  <2>2. \A i \in 0..n : f[i] = IF i = 0 THEN {0} ELSE MoreSums(f[i - 1], s[i])
    <3> TAKE i \in 0..n
    <3>1. i # 0 => i \in 1..n
      BY <1>0
    <3> QED
      BY <1>4, <1>5, <3>1 DEF StepsIn
  <2> QED
    BY <2>1, <2>2
<1>7. g = [i \in 0..n |-> IF i = 0 THEN {0} ELSE MoreSums(g[i - 1], s[i])]
  BY <1>6
<1> HIDE DEF g
<1>8. g[0] = {0} /\ \A i \in 1..n : g[i] = MoreSums(g[i - 1], s[i])
  <2>1. 0 \in 0..n /\ \A i \in 1..n : i \in 0..n /\ i # 0
    BY <1>0
  <2> HIDE DEF n
  <2> QED
    BY <1>7, <2>1
<1> DEFINE P == {k \in 0..n : g[k] \in SUBSET Nat}
<1>9. 0 \in P /\ \A k \in 1..n : k - 1 \in P => k \in P
  <2>1. 0 \in P
    BY <1>0, <1>8
  <2>2. ASSUME NEW k \in 1..n, k - 1 \in P PROVE k \in P
    <3>1. k \in 0..n /\ g[k - 1] \in SUBSET Nat
      BY <1>0, <2>2
    <3>2. g[k] = MoreSums(g[k - 1], s[k])
      BY <1>8
    <3>3. MoreSums(g[k - 1], s[k]) \in SUBSET Nat
      BY <1>a, <3>1
    <3> QED
      BY <3>1, <3>2, <3>3
  <2> QED
    BY <2>1, <2>2
<1>10. \A k \in 0..n : k \in P
  <2> HIDE DEF P, n
  <2> QED
    BY <1>0, <1>9, UpTo
<1>11. g = [i \in 0..n |-> g[i]]
  BY <1>7
<1>12. g \in [0..n -> SUBSET Nat]
  BY <1>10, <1>11
<1> QED
  BY <1>1, <1>8, <1>12 DEF Spans

\* The amounts up to acc that p comes to with one of rest.
Amounts(rest, p, acc) == {a \in 1..acc : \E v \in Values(p) : a - v \in rest}

\* Of each element, the amounts that it and those after it come to.
Amounting(h, s, acc) ==
    /\ h \in [1..(Len(s) + 1) -> SUBSET Nat] /\ h[Len(s) + 1] = {0}
    /\ \A i \in 1..Len(s) : h[i] = Amounts(h[i + 1], s[i], acc)

\* The search of the handler computes them.
LEMMA ReachableIs ==
    ASSUME NEW s \in Seq(Pairs), NEW acc \in Nat
    PROVE  \E h : Amounting(h, s, acc) /\ (Reachable(s, acc) <=> s # <<>> /\ acc \in h[1])
<1> DEFINE n == Len(s)
           D == 1..(n + 1)
           F == [p \in (SUBSET Nat) \X (1..n) |-> Amounts(p[1], s[(n + 1) - p[2]], acc)]
           g == CHOOSE g : g = [i \in D |-> IF i > n THEN {0}
                                            ELSE Amounts(g[i + 1], s[i], acc)]
<1>0. n \in Nat /\ \A i \in 1..n : s[i] \in Pairs
  OBVIOUS
<1>1. Reachable(s, acc) <=> s # <<>> /\ acc \in g[1]
  BY DEF Reachable, Amounts
<1>2. PICK f : Stepwise(f, F, {0}, n)
  <2> HIDE DEF F, n
  <2> QED
    BY <1>0, StepwiseExists
<1>a. \A S, p : Amounts(S, p, acc) \in SUBSET Nat
  BY DEF Amounts
<1>3. \A S \in SUBSET Nat, i \in 1..n : /\ F[<<S, i>>] = Amounts(S, s[(n + 1) - i], acc)
                                        /\ F[<<S, i>>] \in SUBSET Nat
  <2> TAKE S \in SUBSET Nat, i \in 1..n
  <2>1. F[<<S, i>>] = Amounts(S, s[(n + 1) - i], acc)
    OBVIOUS
  <2> QED
    BY <1>a, <2>1
<1>4. StepsIn(f, SUBSET Nat, F, {0}, n)
  <2>0. {0} \in SUBSET Nat
    OBVIOUS
  <2>1. StaysIn(SUBSET Nat, F, n)
    <3> HIDE DEF F
    <3> QED
      BY <1>3 DEF StaysIn
  <2> HIDE DEF F, n
  <2> QED
    BY <1>0, <1>2, <2>0, <2>1, StepwiseStays
<1>5. \A i \in 1..n : f[i] = Amounts(f[i - 1], s[(n + 1) - i], acc)
  <2> TAKE i \in 1..n
  <2>1. i - 1 \in 0..n
    BY <1>0
  <2>2. f[i - 1] \in SUBSET Nat
    BY <1>4, <2>1 DEF StepsIn
  <2> HIDE DEF F
  <2> QED
    BY <1>3, <1>4, <2>2 DEF StepsIn
<1> HIDE DEF F
<1> DEFINE e == [i \in D |-> f[(n + 1) - i]]
<1>6. e = [i \in D |-> IF i > n THEN {0} ELSE Amounts(e[i + 1], s[i], acc)]
  <2>1. \A i \in D : e[i] = IF i > n THEN {0} ELSE Amounts(e[i + 1], s[i], acc)
    <3> TAKE i \in D
    <3>1. CASE i > n
      <4>1. i = n + 1 /\ (n + 1) - i = 0
        BY <1>0, <3>1
      <4>2. f[0] = {0}
        BY <1>4 DEF StepsIn
      <4>3. e[i] = f[(n + 1) - i]
        OBVIOUS
      <4> QED
        BY <3>1, <4>1, <4>2, <4>3
    <3>2. CASE ~(i > n)
      <4>1. /\ i \in 1..n /\ i + 1 \in D /\ (n + 1) - i \in 1..n
            /\ ((n + 1) - i) - 1 = (n + 1) - (i + 1) /\ (n + 1) - ((n + 1) - i) = i
        BY <1>0, <3>2
      <4>2. e[i] = f[(n + 1) - i] /\ e[i + 1] = f[(n + 1) - (i + 1)]
        BY <4>1
      <4> DEFINE k == (n + 1) - i
      <4>3. f[k] = Amounts(f[k - 1], s[(n + 1) - k], acc)
        <5> HIDE DEF k
        <5>1. k \in 1..n
          BY <4>1 DEF k
        <5> QED
          BY <1>5, <5>1
      <4>4. e[i] = Amounts(e[i + 1], s[i], acc)
        BY <4>1, <4>2, <4>3
      <4> QED
        BY <3>2, <4>4
    <3> QED
      BY <3>1, <3>2
  <2>2. e = [i \in D |-> e[i]]
    OBVIOUS
  <2> HIDE DEF e, D
  <2> QED
    BY <2>1, <2>2
<1>7. g = [i \in D |-> IF i > n THEN {0} ELSE Amounts(g[i + 1], s[i], acc)]
  <2> HIDE DEF e
  <2> QED
    BY <1>6
<1> HIDE DEF g
<1>8. g[n + 1] = {0} /\ \A i \in 1..n : g[i] = Amounts(g[i + 1], s[i], acc)
  <2>1. n + 1 \in D /\ n + 1 > n /\ \A i \in 1..n : i \in D /\ ~(i > n)
    BY <1>0
  <2> HIDE DEF n, D
  <2> QED
    BY <1>7, <2>1
<1>9. g \in [D -> SUBSET Nat]
  <2>1. g = [i \in D |-> g[i]]
    BY <1>7
  <2>2. \A i \in D : g[i] \in SUBSET Nat
    <3> TAKE i \in D
    <3>1. i = n + 1 \/ i \in 1..n
      BY <1>0
    <3>2. {0} \in SUBSET Nat
      OBVIOUS
    <3>3. CASE i = n + 1
      BY <1>8, <3>2, <3>3
    <3>4. CASE i \in 1..n
      BY <1>8, <1>a, <3>4
    <3> QED
      BY <3>1, <3>3, <3>4
  <2> HIDE DEF D
  <2> QED
    BY <2>1, <2>2
<1> QED
  BY <1>1, <1>8, <1>9 DEF Amounting

\* An amount is reachable if and only if it is one of the sums: the sums of the
\* elements before i and the amounts from i on make the sums of them all.
LEMMA ReachableMeansSum ==
    ASSUME NEW s \in Seq(Pairs), NEW acc \in Nat \ {0}
    PROVE  Reachable(s, acc) <=> acc \in Sums(s)
<1> DEFINE n == Len(s)
<1>0. n \in Nat /\ acc \in Nat /\ \A i \in 1..n : s[i] \in Pairs
  OBVIOUS
<1>1. PICK w : Spans(w, s) /\ Sums(s) = w[n]
  BY SumsAre
<1>2. PICK h : Amounting(h, s, acc) /\ (Reachable(s, acc) <=> s # <<>> /\ acc \in h[1])
  BY <1>0, ReachableIs
<1> HIDE DEF n
<1>w. w[0] = {0} /\ \A i \in 1..n : /\ w[i - 1] \in SUBSET Nat
                                   /\ w[i] = MoreSums(w[i - 1], s[i])
  <2>1. \A i \in 1..n : i - 1 \in 0..n
    BY <1>0
  <2> QED
    BY <1>1, <2>1 DEF Spans, n
<1>h. h[n + 1] = {0} /\ \A i \in 1..n : /\ h[i + 1] \in SUBSET Nat
                                       /\ h[i] = Amounts(h[i + 1], s[i], acc)
  <2>1. \A i \in 1..n : i + 1 \in 1..(n + 1)
    BY <1>0
  <2> QED
    BY <1>2, <2>1 DEF Amounting, n
<1>v. \A i \in 1..n : Values(s[i]) \subseteq Nat \ {0}
  BY <1>0, ValuesAre
<1>3. ASSUME acc \in w[n] PROVE Reachable(s, acc)
  <2> DEFINE P == {i \in 1..(n + 1) : \E x \in w[i - 1] : acc - x \in h[i]}
  <2>1. n + 1 \in P
    <3>1. n + 1 \in 1..(n + 1) /\ (n + 1) - 1 = n /\ acc - acc = 0
      BY <1>0
    <3> QED
      BY <1>3, <1>h, <3>1
  <2>2. ASSUME NEW i \in 1..((n + 1) - 1), i + 1 \in P PROVE i \in P
    <3>1. i \in 1..n /\ i \in 1..(n + 1) /\ (i + 1) - 1 = i
      BY <1>0
    <3>2. PICK y \in w[i] : acc - y \in h[i + 1]
      BY <2>2, <3>1
    <3>3. PICK x \in w[i - 1], z \in Values(s[i]) : y = x + z
      BY <1>w, <3>1 DEF MoreSums
    <3>4. x \in Nat /\ z \in Nat \ {0} /\ acc - y \in Nat
      BY <1>w, <1>h, <1>v, <3>1, <3>2, <3>3
    <3>5. acc - x \in 1..acc /\ (acc - x) - z = acc - y
      BY <1>0, <3>3, <3>4
    <3>6. acc - x \in Amounts(h[i + 1], s[i], acc)
      BY <3>2, <3>3, <3>5 DEF Amounts
    <3> QED
      BY <1>h, <3>1, <3>3, <3>6
  <2>3. \A i \in 1..(n + 1) : i \in P
    <3>1. n + 1 \in Nat
      BY <1>0
    <3> HIDE DEF P
    <3> QED
      BY <2>1, <2>2, <3>1, DownFrom
  <2>4. 1 \in 1..(n + 1) /\ 1 - 1 = 0
    BY <1>0
  <2>5. PICK x \in w[0] : acc - x \in h[1]
    BY <2>3, <2>4
  <2>6. acc \in h[1]
    BY <1>0, <1>w, <2>5
  <2>7. s # <<>>
    <3>1. n # 0
      BY <1>0, <1>3, <1>w
    <3> QED
      BY <3>1 DEF n
  <2> QED
    BY <1>2, <2>6, <2>7
<1>4. ASSUME Reachable(s, acc) PROVE acc \in w[n]
  <2> DEFINE P == {i \in 1..(n + 1) : \A x \in w[i - 1], a \in h[i] : x + a \in w[n]}
  <2>0. w[n] \in SUBSET Nat
    <3>1. n \in 0..n
      BY <1>0
    <3> QED
      BY <1>1, <3>1 DEF Spans, n
  <2>1. n + 1 \in P
    <3>1. n + 1 \in 1..(n + 1) /\ (n + 1) - 1 = n
      BY <1>0
    <3>2. \A x \in w[n], a \in {0} : x + a \in w[n]
      BY <2>0
    <3> QED
      BY <1>h, <3>1, <3>2
  <2>2. ASSUME NEW i \in 1..((n + 1) - 1), i + 1 \in P PROVE i \in P
    <3>1. i \in 1..n /\ i \in 1..(n + 1) /\ (i + 1) - 1 = i
      BY <1>0
    <3>2. ASSUME NEW x \in w[i - 1], NEW a \in h[i] PROVE x + a \in w[n]
      <4>1. a \in Amounts(h[i + 1], s[i], acc)
        BY <1>h, <3>1, <3>2
      <4>2. PICK v \in Values(s[i]) : a - v \in h[i + 1]
        BY <4>1 DEF Amounts
      <4>3. a \in Nat /\ v \in Nat /\ x \in Nat
        BY <1>w, <1>v, <3>1, <4>1 DEF Amounts
      <4>4. x + v \in w[i]
        BY <1>w, <3>1 DEF MoreSums
      <4>5. (x + v) + (a - v) \in w[n]
        BY <2>2, <3>1, <4>2, <4>4
      <4>6. (x + v) + (a - v) = x + a
        BY <4>3
      <4> QED
        BY <4>5, <4>6
    <3> QED
      BY <3>1, <3>2
  <2>3. \A i \in 1..(n + 1) : i \in P
    <3>1. n + 1 \in Nat
      BY <1>0
    <3> HIDE DEF P
    <3> QED
      BY <2>1, <2>2, <3>1, DownFrom
  <2>4. 1 \in 1..(n + 1) /\ 1 - 1 = 0
    BY <1>0
  <2>5. 0 \in w[0] /\ acc \in h[1]
    BY <1>2, <1>4, <1>w
  <2>6. 0 + acc \in w[n]
    BY <2>3, <2>4, <2>5
  <2> QED
    BY <1>0, <2>6
<1> QED
  BY <1>1, <1>3, <1>4

-----------------------------------------------------------------------------
(* The answers of the handlers.                                             *)

\* The kinds of request there are.
LEMMA KindIs ==
    ASSUME NEW r, Answerable(r)
    PROVE  r.kind \in {"idle", "battle", "yesno", "effectyn", "option", "number", "card",
                       "tribute", "chain", "unselect", "place", "disfield", "position",
                       "sort", "counter", "sum", "announce", "declare"}
BY DEF Answerable

\* The command and the index come out of a word as they went in.
LEMMA WordIs ==
    ASSUME NEW t \in 0..7, NEW i \in Nat, i < Half
    PROVE  /\ Word(t, i).shape = "int"
           /\ CmdOf(Word(t, i).v) = t /\ IndexOf(Word(t, i).v) = i
<1>1. i % 65536 = i /\ t % 65536 = t
  BY DEF Half
<1>2. ((i * 65536) + t) % 65536 = t /\ ((i * 65536) + t) \div 65536 = i
  BY DEF Half
<1> QED
  BY <1>1, <1>2 DEF Word, Num, Half, CmdOf, IndexOf

\* A listed card and a phase that is offered can be commanded.
LEMMA WordTaken ==
    ASSUME NEW r, r.kind \in {"idle", "battle"}, Answerable(r), NEW t
    PROVE  /\ \A i \in Nat : t \in DOMAIN r.lists /\ i < Len(r.lists[t]) => Takes(r, Word(t, i))
           /\ t \in r.phases => Takes(r, Word(t, 0))
<1>1. /\ r.lists \in [0..5 -> Seq(Codes)] \/ r.lists \in [0..1 -> Seq(Codes)]
      /\ r.phases \subseteq 0..7
      /\ \A u \in DOMAIN r.lists : Len(r.lists[u]) <= Half
  <2>1. CASE r.kind = "idle"
    <3>1. Commands(r, 0..5, {6, 7})
      BY <2>1 DEF Answerable
    <3>2. /\ r.lists \in [0..5 -> Seq(Codes)] /\ r.phases \subseteq {6, 7}
          /\ \A u \in 0..5 : Len(r.lists[u]) <= Half
      BY <3>1 DEF Commands
    <3>3. DOMAIN r.lists = 0..5
      BY <3>2
    <3> QED
      BY <3>2, <3>3
  <2>2. CASE r.kind = "battle"
    <3>1. Commands(r, 0..1, {2, 3})
      BY <2>2 DEF Answerable
    <3>2. /\ r.lists \in [0..1 -> Seq(Codes)] /\ r.phases \subseteq {2, 3}
          /\ \A u \in 0..1 : Len(r.lists[u]) <= Half
      BY <3>1 DEF Commands
    <3>3. DOMAIN r.lists = 0..1
      BY <3>2
    <3> QED
      BY <3>2, <3>3
  <2> QED
    BY <2>1, <2>2
<1>2. Half \in Nat /\ 0 < Half
  BY DEF Half
<1>3. ASSUME NEW i \in Nat, t \in DOMAIN r.lists, i < Len(r.lists[t])
      PROVE  Takes(r, Word(t, i))
  <2>1. t \in 0..7 /\ Len(r.lists[t]) \in Nat
    BY <1>1, <1>3
  <2>2. i < Half
    BY <1>1, <1>2, <1>3, <2>1
  <2>3. /\ Word(t, i).shape = "int"
        /\ CmdOf(Word(t, i).v) = t /\ IndexOf(Word(t, i).v) = i
    BY <2>1, <2>2, WordIs
  <2>4. Command(r, Word(t, i).v)
    BY <1>3, <2>3 DEF Command
  <2> QED
    BY <2>3, <2>4 DEF Takes
<1>4. ASSUME t \in r.phases PROVE Takes(r, Word(t, 0))
  <2>1. t \in 0..7
    BY <1>1, <1>4
  <2>2. /\ Word(t, 0).shape = "int"
        /\ CmdOf(Word(t, 0).v) = t /\ IndexOf(Word(t, 0).v) = 0
    BY <1>2, <2>1, WordIs
  <2>3. Command(r, Word(t, 0).v)
    BY <1>4, <2>2 DEF Command
  <2> QED
    BY <2>2, <2>3 DEF Takes
<1> QED
  BY <1>3, <1>4

\* Every bit of the place flag is a zone of its own.
LEMMA ZoneIs ==
    ASSUME NEW seat \in Seats, NEW b \in 0..31, NEW c \in 0..31,
           Zone(b, seat) = Zone(c, seat)
    PROVE  b = c
<1>1. /\ Zone(b, seat).player = Zone(c, seat).player
      /\ Zone(b, seat).loc = Zone(c, seat).loc
      /\ Zone(b, seat).seq = Zone(c, seat).seq
  OBVIOUS
<1>2. b < 16 <=> c < 16
  BY <1>1 DEF Zone, Seats
<1>3. b % 16 < 8 <=> c % 16 < 8
  BY <1>1 DEF Zone
<1>4. b % 8 = c % 8
  BY <1>1 DEF Zone
<1> QED
  BY <1>2, <1>3, <1>4

\* The free bits are some of the 32.
LEMMA FreeBitsAre ==
    ASSUME NEW r
    PROVE  FreeBits(r) \in SUBSET Nat /\ FreeBits(r) \subseteq 0..31 /\ IsFiniteSet(FreeBits(r))
<1>1. FreeBits(r) \subseteq 0..31
  BY DEF FreeBits, ZoneBits
<1>2. IsFiniteSet(0..31)
  <2>1. 0 \in Int /\ 31 \in Int
    OBVIOUS
  <2> QED
    BY <2>1, FS_Interval
<1> QED
  BY <1>1, <1>2, FS_Subset

\* The handler of places names as many free zones as it is asked for.
LEMMA PlacesTaken ==
    ASSUME NEW r, r.seat \in Seats, Answerable(r), r.kind \in {"place", "disfield"}
    PROVE  Takes(r, Places(AutoPlaces(r)))
<1> DEFINE m == Max({1, r.count})
           S == FreeBits(r)
           free == Ascending(S)
           s == AutoPlaces(r)
           Z == {Zone(b, r.seat) : b \in S}
<1>1. r.count \in 0..8 /\ m <= Cardinality(S)
  BY DEF Answerable
<1>2. m \in 1..8 /\ Min({8, m}) = m
  <2>1. m = IF 1 >= r.count THEN 1 ELSE r.count
    BY <1>1, TwoNumbers
  <2>2. m \in 1..8
    BY <1>1, <2>1
  <2> HIDE DEF m
  <2>3. Min({8, m}) = IF 8 <= m THEN 8 ELSE m
    BY <2>2, TwoNumbers
  <2> QED
    BY <2>2, <2>3
<1> HIDE DEF m
<1>3. S \in SUBSET Nat /\ S \subseteq 0..31 /\ IsFiniteSet(S)
  BY FreeBitsAre
<1>4. Lists(free, S)
  BY <1>3, AscendingIs
<1>5. s = [k \in 1..m |-> Zone(IF k <= Len(free) THEN free[k] ELSE 0, r.seat)]
  BY <1>2 DEF AutoPlaces, m
<1> HIDE DEF free, s, S
<1>6. \A k \in 1..m : /\ k \in 1..Len(free) /\ free[k] \in S /\ free[k] \in 0..31
                      /\ s[k] = Zone(free[k], r.seat)
  <2> TAKE k \in 1..m
  <2>1. Len(free) \in Nat /\ m <= Len(free) /\ free \in Seq(S)
    BY <1>1, <1>4 DEF Lists
  <2>2. k \in 1..Len(free) /\ k <= Len(free)
    BY <1>2, <2>1
  <2>3. free[k] \in S
    BY <2>1, <2>2
  <2> QED
    BY <1>3, <1>5, <2>2, <2>3
<1>7. s \in [1..m -> Z]
  <2>1. \A k \in 1..m : s[k] \in Z
    BY <1>6
  <2> HIDE DEF Z
  <2> QED
    BY <1>5, <2>1
<1>8. s \in Seq(Z) /\ Len(s) = m /\ DOMAIN s = 1..m
  <2> HIDE DEF Z
  <2> QED
    BY <1>2, <1>7
<1>9. Distinct(s)
  <2>1. ASSUME NEW i \in 1..Len(s), NEW j \in 1..Len(s), s[i] = s[j] PROVE i = j
    <3>1. i \in 1..m /\ j \in 1..m
      BY <1>8
    <3>2. free[i] = free[j]
      BY <1>6, <2>1, <3>1, ZoneIs
    <3> QED
      BY <1>4, <1>6, <3>1, <3>2 DEF Lists
  <2> HIDE DEF Z
  <2> QED
    BY <1>8, <2>1, DistinctIs
<1>10. Range(s) \subseteq Z
  BY <1>7, <1>8 DEF Range
<1> QED
  BY <1>8, <1>9, <1>10 DEF Takes, Places, m, s, S

\* The handler of announcements names as many as it is asked for.
LEMMA BitsTaken ==
    ASSUME NEW r, Answerable(r), r.kind = "announce"
    PROVE  Takes(r, BitMask(AutoBits(r)))
<1> DEFINE bits == Ascending(r.avail)
           low == {bits[k] : k \in 1..r.count}
<1>1. /\ r.avail \in SUBSET Nat /\ IsFiniteSet(r.avail)
      /\ r.count \in 1..Cardinality(r.avail)
  BY DEF Answerable
<1>2. Lists(bits, r.avail)
  BY <1>1, AscendingIs
<1>3. Len(bits) \in Nat /\ r.count \in 1..Len(bits) /\ r.count \in 0..Len(bits)
  <2>1. Len(bits) = Cardinality(r.avail) /\ Cardinality(r.avail) \in Nat
    BY <1>2 DEF Lists
  <2> QED
    BY <1>1, <2>1
<1>4. Min({r.count, Len(bits)}) = r.count
  <2>1. r.count \in Nat /\ Len(bits) \in Nat /\ r.count <= Len(bits)
    BY <1>3
  <2> HIDE DEF bits
  <2> QED
    BY <2>1, TwoNumbers
<1>5. low \subseteq r.avail /\ Cardinality(low) = r.count
  <2> HIDE DEF bits
  <2> QED
    BY <1>2, <1>3, FirstOf
<1>6. low # {}
  <2>1. 1 \in 1..r.count
    BY <1>3
  <2> QED
    BY <2>1
<1>7. AutoBits(r) = low
  BY <1>4, <1>6 DEF AutoBits
<1> HIDE DEF low
<1> QED
  BY <1>5, <1>7 DEF Takes, BitMask

\* The handler of positions takes one that is offered.
LEMMA PositionTaken ==
    ASSUME NEW r, Answerable(r), r.kind = "position"
    PROVE  Takes(r, Num(AutoPosition(r)))
<1>1. r.mask \in SUBSET Nat /\ r.mask # {}
  BY DEF Answerable
<1>2. Min(r.mask) \in r.mask
  BY <1>1, MinIs
<1>3. AutoPosition(r) \in r.mask
  BY <1>1, <1>2 DEF AutoPosition
<1> QED
  BY <1>3 DEF Takes, Num

\* The handler of orders gives the identity.
LEMMA OrderTaken ==
    ASSUME NEW r, r.kind = "sort", r.n \in 1..15
    PROVE  Takes(r, Order([k \in 1..r.n |-> k - 1]))
<1> DEFINE s == [k \in 1..r.n |-> k - 1]
<1>1. s \in Seq(Nat) /\ Len(s) = r.n /\ DOMAIN s = 1..r.n
  <2>1. s \in [1..r.n -> Nat] /\ r.n \in Nat
    OBVIOUS
  <2> QED
    BY <2>1
<1>2. \A i \in 1..Len(s), j \in 1..Len(s) : s[i] = s[j] => i = j
  <2>1. \A k \in 1..r.n : s[k] = k - 1
    OBVIOUS
  <2> HIDE DEF s
  <2> QED
    BY <1>1, <2>1
<1>3. Distinct(s)
  <2> HIDE DEF s
  <2> QED
    BY <1>1, <1>2, DistinctIs
<1>4. Range(s) = 0..r.n - 1
  <2>1. \A x \in 0..r.n - 1 : x + 1 \in 1..r.n /\ s[x + 1] = x
    OBVIOUS
  <2>2. \A k \in 1..r.n : s[k] \in 0..r.n - 1
    OBVIOUS
  <2> HIDE DEF s
  <2> QED
    BY <1>1, <2>1, <2>2 DEF Range
<1> HIDE DEF s
<1> QED
  BY <1>3, <1>4 DEF Takes, Order, s

\* The handler of counters removes what it must.
LEMMA CountsTaken ==
    ASSUME NEW r, Answerable(r), r.kind = "counter"
    PROVE  Takes(r, Counts(AutoCounts(r)))
<1>1. r.avail \in Seq(Nat) /\ r.count \in 0..Total(r.avail)
  BY DEF Answerable
<1> DEFINE s == AutoCounts(r)
<1>2. /\ s \in Seq(Nat) /\ Len(s) = Len(r.avail)
      /\ \A i \in DOMAIN s : s[i] \in 0..r.avail[i]
      /\ Total(s) = r.count
  BY <1>1, CountsFit
<1> HIDE DEF s
<1> QED
  BY <1>2 DEF Takes, Counts, s

\* The elements of a sequence are finitely many, numbered from 0.
LEMMA IndicesAre ==
    ASSUME NEW X, NEW s \in Seq(X)
    PROVE  /\ Indices(s) \in SUBSET Nat /\ IsFiniteSet(Indices(s))
           /\ Cardinality(Indices(s)) = Len(s)
           /\ \A i \in Indices(s) : i + 1 \in 1..Len(s)
<1>1. Len(s) \in Nat
  OBVIOUS
<1>2. 0 \in Int /\ Len(s) - 1 \in Int
  BY <1>1
<1>3. /\ IsFiniteSet(0..(Len(s) - 1))
      /\ Cardinality(0..(Len(s) - 1)) = IF 0 > Len(s) - 1 THEN 0 ELSE (Len(s) - 1) - 0 + 1
  BY <1>2, FS_Interval
<1> QED
  BY <1>1, <1>3 DEF Indices

\* The cards picked for a sum are cards with values.
LEMMA PickedIs ==
    ASSUME NEW r, Answerable(r), r.kind = "sum", NEW S \in SUBSET Indices(r.opt)
    PROVE  Picked(r, S) \in Seq(Pairs) /\ Lists(Ascending(S), S)
<1>1. r.must \in Seq(Pairs) /\ r.opt \in Seq(Pairs)
  BY DEF Answerable, Pairs
<1>2. /\ Indices(r.opt) \in SUBSET Nat /\ IsFiniteSet(Indices(r.opt))
      /\ \A i \in Indices(r.opt) : i + 1 \in 1..Len(r.opt)
  BY <1>1, IndicesAre
<1>3. S \in SUBSET Nat /\ IsFiniteSet(S)
  BY <1>2, FS_Subset
<1> DEFINE idx == Ascending(S)
           q == [k \in DOMAIN idx |-> r.opt[idx[k] + 1]]
<1>4. Lists(idx, S)
  BY <1>3, AscendingIs
<1> HIDE DEF idx
<1>5. idx \in Seq(S) /\ DOMAIN idx = 1..Len(idx) /\ Len(idx) \in Nat
  BY <1>4 DEF Lists
<1>6. \A k \in 1..Len(idx) : r.opt[idx[k] + 1] \in Pairs
  <2> TAKE k \in 1..Len(idx)
  <2>1. idx[k] \in S
    BY <1>5
  <2>2. idx[k] + 1 \in 1..Len(r.opt)
    BY <1>2, <2>1
  <2> QED
    BY <1>1, <2>2
<1>7. q \in [1..Len(idx) -> Pairs]
  BY <1>5, <1>6
<1>8. q \in Seq(Pairs)
  BY <1>5, <1>7
<1>9. Picked(r, S) = r.must \o q
  BY DEF Picked, idx
<1> HIDE DEF q
<1> QED
  BY <1>1, <1>4, <1>8, <1>9 DEF idx

\* What the search ends with are the sets that meet the sum.
LEMMA SolutionsMeet ==
    ASSUME NEW r, Answerable(r), r.kind = "sum", NEW S \in SUBSET Indices(r.opt)
    PROVE  S \in Solutions(r) <=> MeetsSum(r, S)
<1> DEFINE n == Len(r.opt)
           most == IF r.max <= 0 \/ r.max > n THEN n ELSE r.max
<1>1. /\ r.opt \in Seq(Pairs) /\ r.min \in Nat /\ r.max \in Nat /\ r.acc \in Nat \ {0}
      /\ n \in Nat
  BY DEF Answerable, Pairs
<1>2. IsFiniteSet(Indices(r.opt)) /\ Cardinality(Indices(r.opt)) = n
  BY <1>1, IndicesAre
<1>3. Cardinality(S) \in Nat /\ Cardinality(S) <= n
  BY <1>2, FS_Subset, FS_CardinalityType
<1>4. Cardinality(S) <= most <=> (r.max > 0 => Cardinality(S) <= r.max)
  BY <1>1, <1>3
<1>5. Reachable(Picked(r, S), r.acc) <=> r.acc \in Sums(Picked(r, S))
  BY <1>1, PickedIs, ReachableMeansSum
<1>6. S \in Solutions(r) <=>
        /\ Cardinality(S) >= r.min /\ Cardinality(S) <= most
        /\ IF r.exact THEN Reachable(Picked(r, S), r.acc)
           ELSE Covers(Picked(r, S), r.acc)
  BY DEF Solutions
<1> HIDE DEF most
<1> QED
  BY <1>4, <1>5, <1>6 DEF MeetsSum

\* The handler of sums meets the sum.
LEMMA SumTaken ==
    ASSUME NEW r, Answerable(r), r.kind = "sum", NEW s \in AutoSums(r)
    PROVE  Takes(r, Cards(s))
<1>1. PICK S0 \in SUBSET Indices(r.opt) : MeetsSum(r, S0)
  BY DEF Answerable
<1>2. S0 \in Solutions(r)
  BY <1>1, SolutionsMeet
<1>3. PICK S \in Solutions(r) : s = Ascending(S)
  BY <1>2 DEF AutoSums
<1>4. S \in SUBSET Indices(r.opt)
  BY DEF Solutions
<1>5. MeetsSum(r, S)
  BY <1>4, SolutionsMeet
<1>6. Lists(s, S)
  BY <1>3, <1>4, PickedIs
<1> QED
  BY <1>4, <1>5, <1>6 DEF Takes, Cards, Lists

\* A handler's answer is taken, but for the code it gives to a search.
LEMMA HandlerTaken ==
    ASSUME NEW r \in Requests, NEW a \in InlineAnswers(r)
    PROVE  Takes(r, a) \/ r.kind = "declare"
<1>1. r.seat \in Seats /\ Answerable(r)
  BY RequestsAssumption
<1>2. CASE PassesChain(r)
  <2>1. r.kind = "chain" /\ ~r.forced /\ a = Num(-1)
    BY <1>2 DEF InlineAnswers, PassesChain
  <2> QED
    BY <2>1 DEF Takes, Num
<1>3. CASE ~PassesChain(r) /\ r.kind \in {"place", "disfield"}
  <2>1. a = Places(AutoPlaces(r))
    BY <1>3 DEF InlineAnswers
  <2> QED
    BY <1>1, <1>3, <2>1, PlacesTaken
<1>4. CASE ~PassesChain(r) /\ r.kind = "position"
  <2>1. a = Num(AutoPosition(r))
    BY <1>4 DEF InlineAnswers
  <2> QED
    BY <1>1, <1>4, <2>1, PositionTaken
<1>5. CASE ~PassesChain(r) /\ r.kind = "sort"
  <2>1. r.n \in 1..15 /\ a = Order([k \in 1..r.n |-> k - 1])
    BY <1>5 DEF InlineAnswers
  <2> QED
    BY <1>5, <2>1, OrderTaken
<1>6. CASE ~PassesChain(r) /\ r.kind = "counter"
  <2>1. a = Counts(AutoCounts(r))
    BY <1>6 DEF InlineAnswers
  <2> QED
    BY <1>1, <1>6, <2>1, CountsTaken
<1>7. CASE ~PassesChain(r) /\ r.kind = "sum"
  <2>1. PICK s \in AutoSums(r) : a = Cards(s)
    BY <1>7 DEF InlineAnswers
  <2> QED
    BY <1>1, <1>7, <2>1, SumTaken
<1>8. CASE ~PassesChain(r) /\ r.kind = "announce"
  <2>1. a = BitMask(AutoBits(r))
    BY <1>8 DEF InlineAnswers
  <2> QED
    BY <1>1, <1>8, <2>1, BitsTaken
<1>9. CASE ~PassesChain(r) /\ r.kind = "number"
  <2>1. a = Num(0)
    BY <1>9 DEF InlineAnswers
  <2>2. r.n \in Nat \ {0}
    BY <1>1, <1>9 DEF Answerable
  <2> QED
    BY <1>9, <2>1, <2>2 DEF Takes, Num
<1> QED
  BY <1>2, <1>3, <1>4, <1>5, <1>6, <1>7, <1>8, <1>9 DEF InlineAnswers

-----------------------------------------------------------------------------
(* The answers of the player.                                               *)

\* The cards that are offered, each with its index.
LEMMA OfferedAre ==
    ASSUME NEW cards, Offered(cards)
    PROVE  /\ Len(cards) \in Nat /\ DOMAIN cards = 1..Len(cards)
           /\ \A i \in 1..Len(cards) : cards[i].code \in Codes /\ cards[i].owner \in Seats
           /\ Indices(cards) \in SUBSET Nat /\ IsFiniteSet(Indices(cards))
           /\ Cardinality(Indices(cards)) = Len(cards)
           /\ \A i \in Indices(cards) : i + 1 \in 1..Len(cards)
<1> DEFINE C == [code : Codes, owner : Seats]
<1>1. cards \in Seq(C)
  BY DEF Offered
<1>2. \A i \in 1..Len(cards) : cards[i].code \in Codes /\ cards[i].owner \in Seats
  <2> TAKE i \in 1..Len(cards)
  <2> HIDE DEF C
  <2>1. cards[i] \in C
    BY <1>1
  <2> QED
    BY <2>1 DEF C
<1> HIDE DEF C
<1> QED
  BY <1>1, <1>2, IndicesAre

\* Cards of which as many are staged as are wanted are taken.
LEMMA StagedTaken ==
    ASSUME NEW r, Answerable(r), r.kind \in Pickers, NEW S \in SUBSET Indices(r.cards),
           Cardinality(S) >= r.min, Cardinality(S) <= r.max
    PROVE  Takes(r, Cards(SetToSeq(S)))
<1>1. Offered(r.cards) /\ r.kind \in {"card", "tribute"}
  BY DEF Answerable, Pickers
<1>2. IsFiniteSet(S)
  BY <1>1, OfferedAre, FS_Subset
<1> DEFINE s == SetToSeq(S)
<1>3. Lists(s, S)
  BY <1>2, SetToSeqIs
<1> HIDE DEF s
<1>4. Takes(r, Cards(s))
  BY <1>1, <1>3 DEF Lists, Takes, Cards
<1> QED
  BY <1>4 DEF s

\* One card, where one is wanted or none.
LEMMA SingleTaken ==
    ASSUME NEW r, Answerable(r), r.kind \in Pickers, r.min <= 1, NEW i \in Indices(r.cards)
    PROVE  Takes(r, Cards(<<i>>))
<1>1. /\ Offered(r.cards) /\ r.kind \in {"card", "tribute"}
      /\ r.max \in Nat \ {0}
  BY DEF Answerable, Pickers
<1> DEFINE s == <<i>>
<1>2. s \in Seq(Indices(r.cards)) /\ Len(s) = 1 /\ DOMAIN s = 1..1 /\ s[1] = i
  OBVIOUS
<1>3. Range(s) \subseteq Indices(r.cards)
  BY <1>2 DEF Range
<1>4. Distinct(s)
  <2>1. \A k \in 1..Len(s), j \in 1..Len(s) : s[k] = s[j] => k = j
    BY <1>2
  <2> HIDE DEF s
  <2> QED
    BY <1>2, <2>1, DistinctIs
<1> HIDE DEF s
<1>5. r.min <= 1 /\ r.max >= 1
  BY <1>1
<1>6. Takes(r, Cards(s))
  BY <1>1, <1>2, <1>3, <1>4, <1>5 DEF Takes, Cards
<1> QED
  BY <1>6 DEF s

\* The one zone that the player clicks.
LEMMA ZoneTaken ==
    ASSUME NEW r, Answerable(r), r.kind = "place", r.count = 1, NEW b \in FreeBits(r)
    PROVE  Takes(r, Places(<<Zone(b, r.seat)>>))
<1> DEFINE z == Zone(b, r.seat)
           Z == {Zone(c, r.seat) : c \in FreeBits(r)}
           s == <<z>>
<1>1. z \in Z
  OBVIOUS
<1>2. Max({1, r.count}) = 1
  BY TwoNumbers
<1> HIDE DEF z, Z
<1>3. s \in Seq(Z) /\ Len(s) = 1 /\ DOMAIN s = 1..1 /\ s[1] = z
  BY <1>1
<1>4. Range(s) \subseteq Z
  BY <1>1, <1>3 DEF Range
<1>5. Distinct(s)
  <2>1. \A k \in 1..Len(s), j \in 1..Len(s) : s[k] = s[j] => k = j
    BY <1>3
  <2> HIDE DEF s
  <2> QED
    BY <1>3, <2>1, DistinctIs
<1> HIDE DEF s
<1>6. Takes(r, Places(s))
  BY <1>2, <1>3, <1>4, <1>5 DEF Takes, Places, Z
<1> QED
  BY <1>6 DEF s, z

\* Every button of a prompt that is shown sends what the engine takes, but for
\* the cards that a search for a declared one finds.
LEMMA ButtonsTaken ==
    ASSUME NEW r \in Requests, InlineAnswers(r) = {}, Shown(r), NEW a \in Buttons(r)
    PROVE  Takes(r, a) \/ r.kind = "declare"
<1>1. r.seat \in Seats /\ Answerable(r)
  BY RequestsAssumption
<1>2. CASE r.kind \in {"idle", "battle"}
  <2>1. r.kind \notin {"yesno", "effectyn", "option", "number", "chain", "place",
                       "position", "unselect", "declare", "card", "tribute"}
    BY <1>2
  <2>2. a \in ListedWords(r) \cup PhaseWords(r)
    BY <1>2, <2>1 DEF Buttons
  <2>3. CASE a \in ListedWords(r)
    <3>1. PICK t \in DOMAIN r.lists : a \in {Word(t, i) : i \in Indices(r.lists[t])}
      BY <2>3 DEF ListedWords
    <3>2. PICK i \in Indices(r.lists[t]) : a = Word(t, i)
      BY <3>1
    <3>3. Len(r.lists[t]) \in Nat
      <4>1. r.lists \in [0..5 -> Seq(Codes)] \/ r.lists \in [0..1 -> Seq(Codes)]
        BY <1>1, <1>2 DEF Answerable, Commands
      <4> QED
        BY <4>1
    <3>4. i \in Nat /\ i < Len(r.lists[t])
      BY <3>3 DEF Indices
    <3> QED
      BY <1>1, <1>2, <3>2, <3>4, WordTaken
  <2>4. CASE a \in PhaseWords(r)
    BY <1>1, <1>2, <2>4, WordTaken DEF PhaseWords
  <2> QED
    BY <2>2, <2>3, <2>4
<1>3. CASE r.kind \in {"yesno", "effectyn"}
  <2>1. a \in {Num(0), Num(1)}
    BY <1>3 DEF Buttons
  <2>2. a.shape = "int" /\ a.v \in {0, 1}
    BY <2>1 DEF Num
  <2>3. r.kind \notin {"idle", "battle"}
    BY <1>3
  <2> QED
    BY <1>3, <2>2, <2>3 DEF Takes
<1>4. CASE r.kind \in {"option", "number"}
  <2>1. PICK i \in 0..r.n - 1 : a = Num(i)
    BY <1>4 DEF Buttons
  <2> QED
    BY <1>4, <2>1 DEF Takes, Num
<1>5. CASE r.kind = "chain"
  <2>1. \/ \E i \in Indices(r.cards) : a = Num(i)
        \/ ~r.forced /\ a = Num(-1)
    BY <1>5 DEF Buttons, ChainRows
  <2> QED
    BY <1>5, <2>1 DEF Takes, Num
<1>6. CASE r.kind = "place"
  <2>1. r.count = 1
    BY <1>6 DEF InlineAnswers, PassesChain, HumanPicksZone
  <2>2. PICK b \in FreeBits(r) : a = Places(<<Zone(b, r.seat)>>)
    BY <1>6 DEF Buttons, ZoneButtons
  <2> QED
    BY <1>1, <1>6, <2>1, <2>2, ZoneTaken
<1>7. CASE r.kind = "position"
  <2>1. PICK p \in r.mask : a = Num(p)
    BY <1>7 DEF Buttons, PositionButtons
  <2> QED
    BY <1>7, <2>1 DEF Takes, Num
<1>8. CASE r.kind = "unselect"
  <2>1. \/ \E i \in Indices(r.cards) : a = One(i)
        \/ (r.finishable \/ r.cancelable) /\ a = Num(-1)
    BY <1>8 DEF Buttons, MaterialClicks, MustUnselect
  <2> QED
    BY <1>8, <2>1 DEF Takes, Num, One
<1>9. CASE r.kind \in {"card", "tribute"}
  <2>1. FastSingle(r) /\ \E i \in Indices(r.cards) : a = Cards(<<i>>)
    BY <1>9 DEF Buttons, SingleClicks
  <2> QED
    BY <1>1, <1>9, <2>1, SingleTaken DEF FastSingle, Pickers
<1>10. r.kind \notin {"disfield", "sort", "counter", "sum", "announce"}
  <2>1. r.kind # "sort"
    BY DEF Shown
  <2>2. r.kind # "sum"
    <3> SUFFICES ASSUME r.kind = "sum" PROVE FALSE
      OBVIOUS
    <3>1. AutoSums(r) # {}
      BY DEF AutoSums
    <3> QED
      BY <3>1 DEF InlineAnswers, PassesChain
  <2> QED
    BY <2>1, <2>2 DEF InlineAnswers, PassesChain, HumanPicksZone
<1> QED
  BY <1>1, <1>2, <1>3, <1>4, <1>5, <1>6, <1>7, <1>8, <1>9, <1>10, KindIs

\* So does passing an empty phase.
LEMMA PassTaken ==
    ASSUME NEW r, Answerable(r), r.kind \in {"idle", "battle"}, NEW t \in r.phases
    PROVE  Takes(r, Word(t, 0))
BY WordTaken

-----------------------------------------------------------------------------
(* The answers of the opponent.                                             *)

\* The strongest card of those looked at is one of them.
LEMMA StrongestIs ==
    ASSUME NEW list \in Seq(Codes), NEW S \in SUBSET DOMAIN list, S # {}
    PROVE  Strongest(list, S) \in S
<1> DEFINE v == [i \in 1..Len(list) |-> Atk[list[i]]]
<1>1. Len(list) \in Nat /\ S \in SUBSET (1..Len(list))
  OBVIOUS
<1>2. \A i \in 1..Len(list) : Atk[list[i]] \in Int
  BY AtkAssumption
<1>3. v \in [1..Len(list) -> Int]
  BY <1>2
<1>4. \A i \in S : v[i] = Atk[list[i]]
  BY <1>1
<1> HIDE DEF v
<1>5. \E i \in S : \A j \in S : v[i] > v[j] \/ (v[i] = v[j] /\ i <= j)
  BY <1>1, <1>3, FirstGreatest
<1>6. \E i \in S : \A j \in S : \/ Atk[list[i]] > Atk[list[j]]
                                \/ Atk[list[i]] = Atk[list[j]] /\ i <= j
  BY <1>4, <1>5
<1> QED
  BY <1>6 DEF Strongest

\* So is the weakest card of a list that has one.
LEMMA WeakestIs ==
    ASSUME NEW cards, Offered(cards), cards # <<>>
    PROVE  Weakest(cards) \in Indices(cards)
<1> DEFINE n == Len(cards)
           v == [i \in 1..n |-> 0 - Atk[cards[i].code]]
<1>1. /\ n \in Nat /\ DOMAIN cards = 1..n
      /\ \A i \in 1..n : cards[i].code \in Codes
      /\ \A i \in Indices(cards) : i + 1 \in 1..n
      /\ Indices(cards) \in SUBSET Nat
  BY OfferedAre
<1>2. n > 0
  BY <1>1 DEF Offered
<1>3. \A i \in 1..n : Atk[cards[i].code] \in Nat
  BY <1>1, AtkAssumption
<1>4. v \in [1..n -> Int] /\ \A i \in 1..n : v[i] = 0 - Atk[cards[i].code]
  BY <1>3
<1> HIDE DEF v
<1>5. (1..n) \in SUBSET (1..n) /\ (1..n) # {}
  BY <1>1, <1>2
<1>6. PICK k \in 1..n : \A j \in 1..n : v[k] > v[j] \/ (v[k] = v[j] /\ k <= j)
  BY <1>1, <1>4, <1>5, FirstGreatest
<1>7. k - 1 \in Indices(cards) /\ (k - 1) + 1 = k
  BY <1>1 DEF Indices
<1>8. ASSUME NEW j \in Indices(cards)
      PROVE  \/ Atk[cards[(k - 1) + 1].code] < Atk[cards[j + 1].code]
             \/ Atk[cards[(k - 1) + 1].code] = Atk[cards[j + 1].code] /\ k - 1 <= j
  <2>1. j + 1 \in 1..n /\ j \in Nat
    BY <1>1
  <2>2. v[k] > v[j + 1] \/ (v[k] = v[j + 1] /\ k <= j + 1)
    BY <1>6, <2>1
  <2>3. v[k] = 0 - Atk[cards[k].code] /\ v[j + 1] = 0 - Atk[cards[j + 1].code]
    BY <1>4, <2>1
  <2>4. Atk[cards[k].code] \in Nat /\ Atk[cards[j + 1].code] \in Nat
    BY <1>3, <2>1
  <2>5. \/ Atk[cards[k].code] < Atk[cards[j + 1].code]
        \/ Atk[cards[k].code] = Atk[cards[j + 1].code] /\ k <= j + 1
    BY <2>2, <2>3, <2>4
  <2> QED
    BY <1>7, <2>1, <2>5
<1>9. \E i \in Indices(cards) : \A j \in Indices(cards) :
        \/ Atk[cards[i + 1].code] < Atk[cards[j + 1].code]
        \/ Atk[cards[i + 1].code] = Atk[cards[j + 1].code] /\ i <= j
  BY <1>7, <1>8
<1> QED
  BY <1>9 DEF Weakest

\* The opponent's command is listed, or it ends the turn.
LEMMA IdleTaken ==
    ASSUME NEW r, Answerable(r), r.kind = "idle", NEW m, NEW mv \in IdleMoves(r, m)
    PROVE  Takes(r, mv.a) \/ 7 \notin r.phases
<1>1. /\ r.lists \in [0..5 -> Seq(Codes)]
      /\ \A t \in 0..5 : /\ r.lists[t] \in Seq(Codes) /\ Len(r.lists[t]) \in Nat
                         /\ DOMAIN r.lists[t] = 1..Len(r.lists[t])
      /\ DOMAIN r.lists = 0..5
  <2>1. Commands(r, 0..5, {6, 7})
    BY DEF Answerable
  <2>2. r.lists \in [0..5 -> Seq(Codes)]
    BY <2>1 DEF Commands
  <2>3. ASSUME NEW t \in 0..5
        PROVE  /\ r.lists[t] \in Seq(Codes) /\ Len(r.lists[t]) \in Nat
               /\ DOMAIN r.lists[t] = 1..Len(r.lists[t])
    <3>1. r.lists[t] \in Seq(Codes)
      BY <2>2
    <3> QED
      BY <3>1
  <2> QED
    BY <2>2, <2>3
<1>2. ASSUME NEW t \in 0..5, NEW i \in DOMAIN r.lists[t]
      PROVE  Takes(r, Word(t, i - 1))
  <2>1. i - 1 \in Nat /\ i - 1 < Len(r.lists[t])
    <3>1. i \in 1..Len(r.lists[t]) /\ Len(r.lists[t]) \in Nat
      BY <1>1
    <3> QED
      BY <3>1
  <2>2. t \in DOMAIN r.lists
    BY <1>1
  <2> QED
    BY <2>1, <2>2, WordTaken
<1>3. 7 \in r.phases => Takes(r, Word(7, 0))
  BY WordTaken
<1> DEFINE fresh == [m EXCEPT !.used = IF turn # m.turn THEN {} ELSE @, !.turn = turn]
           spent == {u \in fresh.used : u[1] = "act"}
           New(t, tag) == {i \in DOMAIN r.lists[t] : <<tag, r.lists[t][i]>> \notin fresh.used}
           effects == IF Cardinality(spent) >= ActivationCap THEN {} ELSE New(5, "act")
           summons == New(1, "sp")
<1>4. effects \subseteq DOMAIN r.lists[5] /\ summons \subseteq DOMAIN r.lists[1]
  <2> HIDE DEF fresh
  <2> QED
    OBVIOUS
<1>5. \/ Passive /\ mv.a = Word(7, 0)
      \/ effects # {} /\ mv.a = Word(5, Min(effects) - 1)
      \/ summons # {} /\ mv.a = Word(1, Strongest(r.lists[1], summons) - 1)
      \/ /\ r.lists[0] # <<>>
         /\ mv.a = Word(0, Strongest(r.lists[0], DOMAIN r.lists[0]) - 1)
      \/ r.lists[4] # <<>> /\ mv.a = Word(4, 1 - 1)
      \/ mv.a = Word(7, 0)
      \/ \E t \in r.phases \cap {6} : mv.a = Word(t, 0)
  <2> HIDE DEF effects, summons, fresh
  <2>1. mv \in
          CASE Passive -> {Move(Word(7, 0), m)}
            [] ~Passive /\ effects # {} ->
                 {Move(Word(5, Min(effects) - 1),
                       [fresh EXCEPT !.used = @ \cup {<<"act", r.lists[5][Min(effects)]>>}])}
            [] ~Passive /\ effects = {} /\ summons # {} ->
                 {Move(Word(1, Strongest(r.lists[1], summons) - 1),
                       [fresh EXCEPT !.used =
                          @ \cup {<<"sp", r.lists[1][Strongest(r.lists[1], summons)]>>}])}
            [] OTHER ->
                 {Move(a, fresh) : a \in
                   CASE r.lists[0] # <<>> ->
                          {Word(0, Strongest(r.lists[0], DOMAIN r.lists[0]) - 1)}
                     [] r.lists[0] = <<>> /\ r.lists[4] # <<>> -> {Word(4, 1 - 1)}
                     [] OTHER -> {Word(7, 0)} \cup {Word(t, 0) : t \in r.phases \cap {6}}}
    BY Zenon DEF IdleMoves, effects, summons, fresh
  <2> QED
    BY <2>1 DEF Move
<1> HIDE DEF effects, summons
<1>6. CASE effects # {} /\ mv.a = Word(5, Min(effects) - 1)
  <2>1. effects \in SUBSET Nat
    BY <1>1, <1>4
  <2>2. Min(effects) \in DOMAIN r.lists[5]
    BY <1>4, <1>6, <2>1, MinIs
  <2> QED
    BY <1>2, <1>6, <2>2
<1>7. CASE summons # {} /\ mv.a = Word(1, Strongest(r.lists[1], summons) - 1)
  <2>1. r.lists[1] \in Seq(Codes) /\ summons \in SUBSET DOMAIN r.lists[1]
    BY <1>1, <1>4
  <2>2. Strongest(r.lists[1], summons) \in DOMAIN r.lists[1]
    BY <1>4, <1>7, <2>1, StrongestIs
  <2> QED
    BY <1>2, <1>7, <2>2
<1>8. CASE r.lists[0] # <<>> /\ mv.a = Word(0, Strongest(r.lists[0], DOMAIN r.lists[0]) - 1)
  <2> DEFINE l == r.lists[0]
  <2>1. l \in Seq(Codes) /\ l # <<>>
    BY <1>1, <1>8
  <2> HIDE DEF l
  <2>2. DOMAIN l # {} /\ DOMAIN l \in SUBSET DOMAIN l
    <3>1. Len(l) \in Nat /\ Len(l) # 0 /\ DOMAIN l = 1..Len(l)
      BY <2>1, EmptySeq
    <3>2. 1 \in DOMAIN l
      BY <3>1
    <3> QED
      BY <3>2
  <2>3. Strongest(l, DOMAIN l) \in DOMAIN l
    BY <2>1, <2>2, StrongestIs
  <2> QED
    BY <1>2, <1>8, <2>3 DEF l
<1>9. CASE r.lists[4] # <<>> /\ mv.a = Word(4, 1 - 1)
  <2>1. 1 \in DOMAIN r.lists[4]
    BY <1>1, <1>9
  <2> QED
    BY <1>2, <1>9, <2>1
<1>10. CASE \E t \in r.phases \cap {6} : mv.a = Word(t, 0)
  BY <1>10, WordTaken
<1> QED
  BY <1>3, <1>5, <1>6, <1>7, <1>8, <1>9, <1>10

\* So is the attack, or it ends the phase.
LEMMA BattleTaken ==
    ASSUME NEW r, Answerable(r), r.kind = "battle", NEW m, NEW mv \in BattleMoves(r, m)
    PROVE  Takes(r, mv.a) \/ 3 \notin r.phases
<1> DEFINE l == r.lists[1]
<1>1. /\ DOMAIN r.lists = 0..1 /\ l \in Seq(Codes) /\ Len(l) \in Nat
      /\ DOMAIN l = 1..Len(l) /\ r.direct \subseteq DOMAIN l
  <2>1. Commands(r, 0..1, {2, 3}) /\ r.direct \subseteq DOMAIN r.lists[1]
    BY DEF Answerable
  <2>2. r.lists \in [0..1 -> Seq(Codes)]
    BY <2>1 DEF Commands
  <2>3. l \in Seq(Codes)
    BY <2>2
  <2> QED
    BY <2>1, <2>2, <2>3
<1>2. 3 \in r.phases => Takes(r, Word(3, 0))
  BY WordTaken
<1>3. ASSUME NEW i \in DOMAIN l PROVE Takes(r, Word(1, i - 1))
  <2>1. i - 1 \in Nat /\ i - 1 < Len(r.lists[1]) /\ 1 \in DOMAIN r.lists
    BY <1>1
  <2> QED
    BY <2>1, WordTaken
<1>4. \/ mv.a = Word(3, 0)
      \/ r.direct # {} /\ mv.a = Word(1, Min(r.direct) - 1)
      \/ l # <<>> /\ mv.a = Word(1, Strongest(l, DOMAIN l) - 1)
  BY DEF BattleMoves, Move
<1> HIDE DEF l
<1>5. CASE r.direct # {} /\ mv.a = Word(1, Min(r.direct) - 1)
  <2>1. r.direct \in SUBSET Nat
    BY <1>1
  <2>2. Min(r.direct) \in DOMAIN l
    BY <1>1, <1>5, <2>1, MinIs
  <2> QED
    BY <1>3, <1>5, <2>2
<1>6. CASE l # <<>> /\ mv.a = Word(1, Strongest(l, DOMAIN l) - 1)
  <2>3. l \in Seq(Codes) /\ l # <<>>
    BY <1>1, <1>6
  <2>1. DOMAIN l # {} /\ DOMAIN l \in SUBSET DOMAIN l
    <3>1. Len(l) \in Nat /\ Len(l) # 0 /\ DOMAIN l = 1..Len(l)
      BY <2>3, EmptySeq
    <3>2. 1 \in DOMAIN l
      BY <3>1
    <3> QED
      BY <3>2
  <2>2. Strongest(l, DOMAIN l) \in DOMAIN l
    BY <1>1, <2>1, StrongestIs
  <2> QED
    BY <1>3, <1>6, <2>2
<1> QED
  BY <1>2, <1>4, <1>5, <1>6

\* The chain: a card that is there, the first of those it must choose from, or
\* a pass when it need not.
LEMMA ChainTaken ==
    ASSUME NEW r, Answerable(r), r.kind = "chain", NEW m, NEW mv \in ChainMoves(r, m)
    PROVE  Takes(r, mv.a)
<1>1. /\ Offered(r.cards) /\ (r.forced => r.cards # <<>>) /\ r.forced \in BOOLEAN
  BY DEF Answerable
<1>2. Len(r.cards) \in Nat /\ DOMAIN r.cards = 1..Len(r.cards)
  BY <1>1, OfferedAre
<1> DEFINE New == {i \in DOMAIN r.cards : r.cards[i].code \notin m.def}
<1>3. \/ r.forced /\ mv.a = Num(0)
      \/ New # {} /\ mv.a = Num(Min(New) - 1)
      \/ ~r.forced /\ mv.a = Num(-1)
  BY DEF ChainMoves, Move
<1>4. New \in SUBSET Nat /\ New \subseteq DOMAIN r.cards
  BY <1>2
<1> HIDE DEF New
<1>5. CASE r.forced /\ mv.a = Num(0)
  <2>1. 0 \in Indices(r.cards)
    BY <1>1, <1>2, <1>5 DEF Indices, Offered
  <2> QED
    BY <1>5, <2>1 DEF Takes, Num
<1>6. CASE New # {} /\ mv.a = Num(Min(New) - 1)
  <2>1. Min(New) \in 1..Len(r.cards)
    BY <1>2, <1>4, <1>6, MinIs
  <2>2. Min(New) - 1 \in Indices(r.cards)
    BY <1>2, <2>1 DEF Indices
  <2> QED
    BY <1>6, <2>2 DEF Takes, Num
<1>7. CASE ~r.forced /\ mv.a = Num(-1)
  BY <1>7 DEF Takes, Num
<1> QED
  BY <1>3, <1>5, <1>6, <1>7

\* The card the opponent names is there.
LEMMA TargetIs ==
    ASSUME NEW r, Offered(r.cards), r.cards # <<>>
    PROVE  Target(r) \in Indices(r.cards)
<1> DEFINE n == Len(r.cards)
           theirs == {i \in DOMAIN r.cards : r.cards[i].owner # r.seat}
           codes == [i \in DOMAIN r.cards |-> r.cards[i].code]
<1>1. /\ n \in Nat /\ DOMAIN r.cards = 1..n /\ n > 0
      /\ \A i \in 1..n : r.cards[i].code \in Codes
  <2>1. r.cards # <<>> => Len(r.cards) > 0
    BY DEF Offered
  <2> QED
    BY <2>1, OfferedAre
<1>2. codes \in Seq(Codes) /\ DOMAIN codes = 1..n
  <2>1. codes \in [1..n -> Codes]
    BY <1>1
  <2> HIDE DEF codes
  <2> QED
    BY <1>1, <2>1
<1>3. theirs \in SUBSET DOMAIN codes
  BY <1>1, <1>2
<1>4. Target(r) = IF theirs = {} THEN 0 ELSE Strongest(codes, theirs) - 1
  BY DEF Target
<1> HIDE DEF theirs, codes
<1>5. theirs # {} => Strongest(codes, theirs) \in 1..n
  BY <1>2, <1>3, StrongestIs
<1> QED
  BY <1>1, <1>4, <1>5 DEF Indices

\* Answering too often: a pass, the end of the turn, the first card.
LEMMA BailOutTaken ==
    ASSUME NEW r, Answerable(r),
           r.kind \in {"idle", "battle", "yesno", "effectyn", "option", "card",
                       "tribute", "chain", "unselect"}
    PROVE  \/ Takes(r, BailOut(r))
           \/ r.kind \in Pickers /\ (r.min > 1 \/ r.cards = <<>>)
           \/ r.kind = "idle" /\ 7 \notin r.phases
           \/ r.kind = "battle" /\ 3 \notin r.phases
           \/ r.kind = "unselect" /\ MustUnselect(r)
<1>1. CASE r.kind = "idle"
  <2>1. BailOut(r) = Word(7, 0)
    BY <1>1 DEF BailOut
  <2> QED
    BY <1>1, <2>1, WordTaken
<1>2. CASE r.kind = "battle"
  <2>1. BailOut(r) = Word(3, 0)
    BY <1>2 DEF BailOut
  <2> QED
    BY <1>2, <2>1, WordTaken
<1>3. CASE r.kind \in {"yesno", "effectyn"}
  BY <1>3 DEF BailOut, Takes, Num
<1>4. CASE r.kind = "option"
  <2>1. r.n \in Nat \ {0}
    BY <1>4 DEF Answerable
  <2> QED
    BY <1>4, <2>1 DEF BailOut, Takes, Num
<1>5. CASE r.kind = "chain"
  <2>1. Offered(r.cards) /\ r.forced \in BOOLEAN /\ (r.forced => r.cards # <<>>)
    BY <1>5 DEF Answerable
  <2>2. r.forced => 0 \in Indices(r.cards)
    BY <2>1 DEF Indices, Offered
  <2> QED
    BY <1>5, <2>1, <2>2 DEF BailOut, Takes, Num
<1>6. CASE r.kind \in {"card", "tribute"} /\ r.cards # <<>> /\ ~(r.min > 1)
  <2>1. Offered(r.cards) /\ r.min \in Nat
    BY <1>6, OfferedAre DEF Answerable
  <2>2. 0 \in Indices(r.cards)
    BY <1>6, <2>1 DEF Indices, Offered
  <2>3. BailOut(r) = Cards(<<0>>)
    BY <1>6 DEF BailOut
  <2> QED
    BY <1>6, <2>1, <2>2, <2>3, SingleTaken DEF Pickers
<1>7. CASE r.kind = "unselect" /\ ~MustUnselect(r)
  BY <1>7 DEF BailOut, Takes, Num, MustUnselect
<1> QED
  BY <1>1, <1>2, <1>3, <1>4, <1>5, <1>6, <1>7 DEF Pickers

\* What the opponent answers before that is taken, or falls short.
LEMMA FreeTaken ==
    ASSUME NEW r, Answerable(r), NEW m, NEW mv \in FreeMoves(r, m),
           r.kind \in {"idle", "battle", "yesno", "effectyn", "option", "card",
                       "tribute", "chain", "unselect"}
    PROVE  \/ Takes(r, mv.a)
           \/ r.kind \in Pickers /\ (r.min > 1 \/ r.cards = <<>>)
           \/ r.kind = "idle" /\ 7 \notin r.phases
           \/ r.kind = "battle" /\ 3 \notin r.phases
           \/ r.kind = "unselect" /\ MustUnselect(r) /\ r.cards = <<>>
<1>1. CASE r.kind = "idle"
  <2>1. mv \in IdleMoves(r, m)
    BY <1>1 DEF FreeMoves
  <2> QED
    BY <1>1, <2>1, IdleTaken
<1>2. CASE r.kind = "battle"
  <2>1. mv \in BattleMoves(r, m)
    BY <1>2 DEF FreeMoves
  <2> QED
    BY <1>2, <2>1, BattleTaken
<1>3. CASE r.kind = "yesno"
  BY <1>3 DEF FreeMoves, Move, Takes, Num
<1>4. CASE r.kind = "option"
  <2>1. r.n \in Nat \ {0}
    BY <1>4 DEF Answerable
  <2> QED
    BY <1>4, <2>1 DEF FreeMoves, Move, Takes, Num
<1>5. CASE r.kind = "effectyn"
  <2>1. mv \in EffectMoves(r, m)
    BY <1>5 DEF FreeMoves
  <2>2. mv.a = Num(1) \/ mv.a = Num(0)
    BY <2>1 DEF EffectMoves, Move
  <2> QED
    BY <1>5, <2>2 DEF Takes, Num
<1>6. CASE r.kind = "chain"
  <2>1. mv \in ChainMoves(r, m)
    BY <1>6 DEF FreeMoves
  <2> QED
    BY <1>6, <2>1, ChainTaken
<1>7. CASE r.kind \in {"card", "tribute"} /\ r.cards # <<>> /\ ~(r.min > 1)
  <2>1. Offered(r.cards) /\ r.min \in Nat
    BY <1>7, OfferedAre DEF Answerable
  <2>2. Target(r) \in Indices(r.cards) /\ Weakest(r.cards) \in Indices(r.cards)
    BY <1>7, <2>1, TargetIs, WeakestIs
  <2>3. mv.a = Cards(<<Target(r)>>) \/ mv.a = Cards(<<Weakest(r.cards)>>)
    BY <1>7 DEF FreeMoves, Move
  <2> QED
    BY <1>7, <2>1, <2>2, <2>3, SingleTaken DEF Pickers
<1>8. CASE r.kind = "unselect" /\ ~(MustUnselect(r) /\ r.cards = <<>>)
  <2>1. Offered(r.cards) /\ {r.finishable, r.cancelable} \subseteq BOOLEAN
    BY <1>8 DEF Answerable
  <2>2. \/ (r.finishable \/ r.cards = <<>>) /\ mv.a = Num(-1)
        \/ r.cards # <<>> /\ mv.a = One(Weakest(r.cards))
    BY <1>8 DEF FreeMoves, Move
  <2>3. r.cards # <<>> => Weakest(r.cards) \in Indices(r.cards)
    BY <2>1, WeakestIs
  <2> QED
    BY <1>8, <2>2, <2>3 DEF Takes, Num, One, MustUnselect
<1> QED
  BY <1>1, <1>2, <1>3, <1>4, <1>5, <1>6, <1>7, <1>8 DEF Pickers

\* The opponent's moves are taken, or fall short by what it will remember.
LEMMA MovesTaken ==
    ASSUME NEW r, Answerable(r), NEW mv \in AutoMoves(r)
    PROVE  \/ Takes(r, mv.a)
           \/ r.kind \in Pickers /\ (r.min > 1 \/ r.cards = <<>>)
           \/ r.kind = "idle" /\ 7 \notin r.phases
           \/ r.kind = "battle" /\ 3 \notin r.phases
           \/ /\ r.kind = "unselect" /\ MustUnselect(r)
              /\ mv.ai.acts > ActionCap \/ r.cards = <<>>
<1> DEFINE again == turn = ai.actTurn
           m == [ai EXCEPT !.actTurn = turn,
                           !.acts = Min({ActionCap, IF again THEN @ ELSE 0}) + 1,
                           !.def = IF again THEN @ ELSE {}]
           K == {"idle", "battle", "yesno", "effectyn", "option", "card",
                 "tribute", "chain", "unselect"}
<1>1. AutoMoves(r) = IF r.kind \notin K THEN {}
                     ELSE IF m.acts > ActionCap THEN {Move(BailOut(r), m)}
                     ELSE FreeMoves(r, m)
  BY DEF AutoMoves
<1> HIDE DEF m
<1>2. r.kind \in K
  BY <1>1
<1>3. CASE m.acts > ActionCap
  <2>1. mv.a = BailOut(r) /\ mv.ai = m
    BY <1>1, <1>2, <1>3 DEF Move
  <2> QED
    BY <1>2, <1>3, <2>1, BailOutTaken
<1>4. CASE ~(m.acts > ActionCap)
  <2>1. mv \in FreeMoves(r, m)
    BY <1>1, <1>2, <1>4
  <2> QED
    BY <1>2, <2>1, FreeTaken
<1> QED
  BY <1>3, <1>4

-----------------------------------------------------------------------------
(* The prompts that are shown.                                              *)

\* A request that a handler shows has something the player can send, or it is
\* one of zones of which only the other side's are free.
LEMMA PlayerCanAnswer ==
    ASSUME NEW r \in Requests, InlineAnswers(r) = {}, Shown(r)
    PROVE  \/ \E a \in Buttons(r) : Takes(r, a)
           \/ r.kind \in Pickers /\ \E S \in SUBSET Indices(r.cards) :
                  Takes(r, Cards(SetToSeq(S)))
           \/ OnlyOpponentZones(r)
<1>1. Answerable(r)
  BY RequestsAssumption
<1>2. CASE r.kind = "declare"
  <2>1. r.legal \subseteq Codes /\ r.legal # {}
    BY <1>1, <1>2 DEF Answerable
  <2>2. PICK c \in r.legal : TRUE
    BY <2>1
  <2>3. Num(c) \in Buttons(r)
    BY <1>2, <2>1 DEF Buttons, DeclareHits
  <2>4. Takes(r, Num(c))
    BY <1>2 DEF Takes, Num
  <2> QED
    BY <2>3, <2>4
<1>3. CASE r.kind \in Pickers
  <2>1. /\ Offered(r.cards) /\ r.min \in 0..Len(r.cards)
        /\ r.max \in Nat \ {0} /\ r.min <= r.max
    BY <1>1, <1>3 DEF Answerable, Pickers
  <2>2. Len(r.cards) \in Nat
    BY <2>1, OfferedAre
  <2> DEFINE S == 0..(r.min - 1)
  <2>3. S \in SUBSET Indices(r.cards)
    BY <2>1, <2>2 DEF Indices
  <2>4. Cardinality(S) = r.min
    <3>1. 0 \in Int /\ r.min - 1 \in Int
      BY <2>1
    <3>2. Cardinality(S) = IF 0 > r.min - 1 THEN 0 ELSE (r.min - 1) - 0 + 1
      BY <3>1, FS_Interval
    <3> QED
      BY <2>1, <3>2
  <2> HIDE DEF S
  <2>5. Takes(r, Cards(SetToSeq(S)))
    BY <1>1, <1>3, <2>1, <2>3, <2>4, StagedTaken
  <2> QED
    BY <1>3, <2>3, <2>5
<1>4. CASE r.kind = "place" /\ OnlyOpponentZones(r)
  BY <1>4
<1>6. CASE r.kind = "place" /\ ~OnlyOpponentZones(r)
  <2>1. PICK b \in FreeBits(r) : ~(b >= 16)
    BY <1>6 DEF OnlyOpponentZones
  <2>2. b < 16
    BY <2>1, FreeBitsAre
  <2>3. Places(<<Zone(b, r.seat)>>) \in Buttons(r)
    BY <1>6, <2>2 DEF Buttons, ZoneButtons
  <2> QED
    BY <1>6, <2>3, ButtonsTaken DEF Pickers
<1>7. CASE r.kind \in {"idle", "battle"}
  <2>1. PICK T \in {0..5, 0..1} : \E P \in {{6, 7}, {2, 3}} : Commands(r, T, P)
    BY <1>1, <1>7 DEF Answerable
  <2>2. /\ DOMAIN r.lists = T /\ r.lists \in [T -> Seq(Codes)]
        /\ r.phases # {} \/ \E t \in T : r.lists[t] # <<>>
    BY <2>1 DEF Commands
  <2>3. CASE r.phases # {}
    <3>1. PICK t \in r.phases : TRUE
      BY <2>3
    <3>2. Takes(r, Word(t, 0))
      BY <1>1, <1>7, WordTaken
    <3>3. Word(t, 0) \in PhaseWords(r)
      BY DEF PhaseWords
    <3> QED
      BY <1>7, <3>2, <3>3 DEF Buttons
  <2>4. CASE \E t \in T : r.lists[t] # <<>>
    <3>1. PICK t \in T : r.lists[t] # <<>>
      BY <2>4
    <3> DEFINE l == r.lists[t]
    <3>2. l \in Seq(Codes) /\ l # <<>>
      BY <2>2, <3>1
    <3>3. Len(l) \in Nat /\ Len(l) # 0
      <4> HIDE DEF l
      <4> QED
        BY <3>2, EmptySeq
    <3>4. 0 \in Indices(l) /\ 0 < Len(l) /\ 0 \in Nat
      <4> HIDE DEF l
      <4> QED
        BY <3>3 DEF Indices
    <3>5. t \in DOMAIN r.lists
      BY <2>2, <3>1
    <3>6. Takes(r, Word(t, 0))
      BY <1>1, <1>7, <3>4, <3>5, WordTaken
    <3>7. Word(t, 0) \in {Word(t, i) : i \in Indices(l)}
      BY <3>4
    <3>8. Word(t, 0) \in ListedWords(r)
      BY <3>5, <3>7 DEF ListedWords
    <3> QED
      BY <1>7, <3>6, <3>8 DEF Buttons
  <2> QED
    BY <2>2, <2>3, <2>4
<1>8. CASE r.kind \in {"yesno", "effectyn"}
  BY <1>8, Zenon DEF Buttons, Takes, Num
<1>9. CASE r.kind \in {"option", "number"}
  <2>1. r.n \in Nat \ {0}
    BY <1>1, <1>9 DEF Answerable
  <2>2. 0 \in 0..r.n - 1
    BY <2>1
  <2>3. Num(0) \in Buttons(r)
    BY <1>9, <2>2 DEF Buttons
  <2>4. Takes(r, Num(0))
    BY <1>9, <2>2 DEF Takes, Num
  <2> QED
    BY <2>3, <2>4
<1>10. CASE r.kind = "chain"
  <2>1. Offered(r.cards) /\ r.forced \in BOOLEAN /\ (r.forced => r.cards # <<>>)
    BY <1>1, <1>10 DEF Answerable
  <2>2. r.forced => 0 \in Indices(r.cards)
    BY <2>1 DEF Indices, Offered
  <2>3. r.forced => Num(0) \in Buttons(r) /\ Takes(r, Num(0))
    BY <1>10, <2>2 DEF Buttons, ChainRows, Takes, Num
  <2>4. ~r.forced => Num(-1) \in Buttons(r) /\ Takes(r, Num(-1))
    BY <1>10 DEF Buttons, ChainRows, Takes, Num
  <2> QED
    BY <2>3, <2>4
<1>11. CASE r.kind = "unselect"
  <2>1. /\ Offered(r.cards) /\ {r.finishable, r.cancelable} \subseteq BOOLEAN
        /\ r.cards # <<>> \/ r.finishable \/ r.cancelable
    BY <1>1, <1>11 DEF Answerable
  <2>2. r.cards # <<>> => 0 \in Indices(r.cards)
    BY <2>1 DEF Indices, Offered
  <2>3. r.cards # <<>> => One(0) \in Buttons(r) /\ Takes(r, One(0))
    BY <1>11, <2>2 DEF Buttons, MaterialClicks, Takes, One
  <2>4. r.finishable \/ r.cancelable => Num(-1) \in Buttons(r) /\ Takes(r, Num(-1))
    BY <1>11 DEF Buttons, MaterialClicks, MustUnselect, Takes, Num
  <2> QED
    BY <2>1, <2>3, <2>4
<1>12. CASE r.kind = "position"
  <2>1. r.mask # {}
    BY <1>1, <1>12 DEF Answerable
  <2>2. PICK p \in r.mask : TRUE
    BY <2>1
  <2>3. Num(p) \in Buttons(r) /\ Takes(r, Num(p))
    BY <1>12 DEF Buttons, PositionButtons, Takes, Num
  <2> QED
    BY <2>3
<1>13. r.kind \notin {"disfield", "sort", "counter", "sum", "announce"}
  <2>1. r.kind # "sort"
    BY DEF Shown
  <2>2. r.kind # "sum"
    <3> SUFFICES ASSUME r.kind = "sum" PROVE FALSE
      OBVIOUS
    <3>1. AutoSums(r) # {}
      BY DEF AutoSums
    <3> QED
      BY <3>1 DEF InlineAnswers, PassesChain
  <2> QED
    BY <2>1, <2>2 DEF InlineAnswers, PassesChain, HumanPicksZone
<1> QED
  BY <1>1, <1>2, <1>3, <1>4, <1>6, <1>7, <1>8, <1>9, <1>10, <1>11, <1>12, <1>13,
     KindIs DEF Pickers

\* A request that is shown to the opponent has a move.
LEMMA OpponentCanAnswer ==
    ASSUME NEW r \in Requests, InlineAnswers(r) = {}, Shown(r), r.seat # humanSeat
    PROVE  AutoMoves(r) # {}
<1> DEFINE K == {"idle", "battle", "yesno", "effectyn", "option", "card",
                 "tribute", "chain", "unselect"}
<1>1. Answerable(r)
  BY RequestsAssumption
<1>2. r.kind \in K
  <2>1. r.kind # "sort"
    BY DEF Shown
  <2>2. r.kind # "sum"
    <3> SUFFICES ASSUME r.kind = "sum" PROVE FALSE
      OBVIOUS
    <3>1. AutoSums(r) # {}
      BY DEF AutoSums
    <3> QED
      BY <3>1 DEF InlineAnswers, PassesChain
  <2>3. r.kind \notin {"place", "disfield", "position", "counter", "announce", "declare",
                       "number"}
    BY DEF InlineAnswers, PassesChain, HumanPicksZone, PlayerDeclares, PlayerPicksNumber
  <2> QED
    BY <1>1, <2>1, <2>2, <2>3, KindIs
<1> DEFINE again == turn = ai.actTurn
           m == [ai EXCEPT !.actTurn = turn,
                           !.acts = Min({ActionCap, IF again THEN @ ELSE 0}) + 1,
                           !.def = IF again THEN @ ELSE {}]
<1>3. AutoMoves(r) = IF r.kind \notin K THEN {}
                     ELSE IF m.acts > ActionCap THEN {Move(BailOut(r), m)}
                     ELSE FreeMoves(r, m)
  BY DEF AutoMoves
<1> HIDE DEF m
<1>4. FreeMoves(r, m) # {}
  <2>1. CASE r.kind = "idle"
    <3>1. IdleMoves(r, m) # {}
      BY DEF IdleMoves
    <3> QED
      BY <2>1, <3>1 DEF FreeMoves
  <2>2. CASE r.kind = "battle"
    <3>1. BattleMoves(r, m) # {}
      BY DEF BattleMoves
    <3> QED
      BY <2>2, <3>1 DEF FreeMoves
  <2>3. CASE r.kind = "effectyn"
    <3>1. EffectMoves(r, m) # {}
      BY DEF EffectMoves
    <3> QED
      BY <2>3, <3>1 DEF FreeMoves
  <2>4. CASE r.kind = "chain"
    <3>1. ChainMoves(r, m) # {}
      BY DEF ChainMoves
    <3> QED
      BY <2>4, <3>1 DEF FreeMoves
  <2>5. CASE r.kind \in {"yesno", "option"}
    BY <2>5 DEF FreeMoves
  <2>6. CASE r.kind \in {"card", "tribute"}
    BY <2>6 DEF FreeMoves
  <2>7. CASE r.kind = "unselect"
    BY <2>7 DEF FreeMoves
  <2> QED
    BY <1>2, <2>1, <2>2, <2>3, <2>4, <2>5, <2>6, <2>7
<1> QED
  BY <1>2, <1>3, <1>4

-----------------------------------------------------------------------------
(* The invariant.                                                           *)

\* The request the engine stands at is one of those there are, and what is
\* shown is that one: none of the handlers answers it.
PromptStands ==
    /\ asked \in Requests \cup {NoRequest}
    /\ sel # NoRequest =>
         sel = asked /\ sel \in Requests /\ Shown(sel) /\ InlineAnswers(sel) = {}

\* An answer goes out to a request, which is not shown any more.
AnswerStands == pending # {} => asked \in Requests /\ sel = NoRequest

\* Picks that were not left behind are of the prompt on the screen.
PicksStand ==
    picks # {} /\ ~loose =>
        /\ sel # NoRequest /\ Players(sel) /\ Collects(sel)
        /\ picks \subseteq Indices(sel.cards)

PromptInv == PromptStands /\ AnswerStands /\ PicksStand /\ AnswersAreTaken

\* No answer is out, nothing is shown and nothing is staged at the start.
LEMMA PromptInit == Init => PromptInv
BY DEF Init, PromptInv, PromptStands, AnswerStands, PicksStand, AnswersAreTaken

\* A handler's answer is taken, or the request is shown with no picks of another.
LEMMA HandleKeeps ==
    ASSUME PromptInv, NEW r \in Requests, asked' = r, sel = NoRequest, Handle(r),
           UNCHANGED humanSeat
    PROVE  PromptInv'
<1>1. picks # {} => loose
  BY DEF PromptInv, PicksStand
<1>2. CASE \E a \in InlineAnswers(r) : SubmitAnswer(a, "handler") /\ UNCHANGED <<picks, loose>>
  <2>1. PICK a \in InlineAnswers(r) :
               SubmitAnswer(a, "handler") /\ UNCHANGED <<picks, loose>>
    BY <1>2
  <2>2. pending' = {a} /\ sel' = NoRequest /\ picks' = picks /\ loose' = loose
    BY <2>1 DEF SubmitAnswer
  <2>3. Takes(r, a) \/ r.kind = "declare"
    BY HandlerTaken
  <2>4. PromptStands' /\ AnswerStands'
    BY <2>2 DEF PromptStands, AnswerStands
  <2>5. PicksStand'
    BY <1>1, <2>2 DEF PicksStand
  <2>6. AnswersAreTaken'
    BY <2>2, <2>3 DEF AnswersAreTaken
  <2> QED
    BY <2>4, <2>5, <2>6 DEF PromptInv
<1>3. CASE /\ InlineAnswers(r) = {}
           /\ sel' = (IF Shown(r) THEN r ELSE NoRequest)
           /\ pending' = {}
           /\ \E p \in PicksAfterDrawing(sel') : Keep(p)
  <2>1. picks' = {} \/ (picks' = picks /\ loose' = loose)
    <3>1. PICK p \in PicksAfterDrawing(sel') : Keep(p)
      BY <1>3
    <3>2. p = {} \/ p = picks
      BY <3>1 DEF PicksAfterDrawing
    <3>3. picks' = p /\ loose' = (loose /\ p # {})
      BY <3>1 DEF Keep
    <3> QED
      BY <1>1, <3>2, <3>3
  <2>2. PromptStands'
    <3>1. sel' # NoRequest => sel' = r /\ Shown(r) /\ asked' = r
      BY <1>3
    <3>2. sel' # NoRequest => (InlineAnswers(sel) = {})'
      BY <1>3, <3>1 DEF InlineAnswers, PassesChain, HumanPicksZone, PlayerDeclares,
         PlayerPicksNumber
    <3> QED
      BY <3>1, <3>2 DEF PromptStands, Shown
  <2>3. AnswerStands' /\ AnswersAreTaken'
    BY <1>3 DEF AnswerStands, AnswersAreTaken
  <2>4. PicksStand'
    BY <1>1, <2>1 DEF PicksStand
  <2> QED
    BY <2>2, <2>3, <2>4 DEF PromptInv
<1> QED
  BY <1>2, <1>3 DEF Handle

\* An answer to what is shown, which is taken or excused, keeps the invariant.
LEMMA SubmitKeeps ==
    ASSUME PromptInv, sel # NoRequest, NEW a, NEW who, SubmitAnswer(a, who),
           UNCHANGED <<asked, humanSeat>>, picks' # {} => loose',
           \/ Takes(sel, a) \/ sel.kind = "declare" \/ who \in {"board", "leftover"}
           \/ who = "opponent" /\ FallsShort(asked)'
    PROVE  PromptInv'
<1>1. pending' = {a} /\ sel' = NoRequest /\ given' = who /\ asked' = asked
  BY DEF SubmitAnswer
<1>2. asked = sel /\ asked \in Requests
  BY DEF PromptInv, PromptStands
<1>3. PromptStands' /\ AnswerStands'
  BY <1>1, <1>2 DEF PromptStands, AnswerStands
<1>4. PicksStand'
  BY DEF PicksStand
<1>5. AnswersAreTaken'
  BY <1>1, <1>2 DEF AnswersAreTaken
<1> QED
  BY <1>3, <1>4, <1>5 DEF PromptInv

\* So does a step that leaves the request, what is shown and the answer alone.
LEMMA StillKeeps ==
    ASSUME PromptInv, UNCHANGED <<asked, sel, pending, given, ai, humanSeat>>, PicksStand'
    PROVE  PromptInv'
<1>1. PromptStands'
  BY DEF PromptInv, PromptStands, Shown, InlineAnswers, PassesChain, HumanPicksZone,
     PlayerDeclares, PlayerPicksNumber
<1>2. AnswerStands' /\ AnswersAreTaken'
  BY DEF PromptInv, AnswerStands, AnswersAreTaken, FallsShort
<1> QED
  BY <1>1, <1>2 DEF PromptInv

\* Every step keeps the invariant.
LEMMA PromptNext == PromptInv /\ [Next]_promptVars => PromptInv'
<1> SUFFICES ASSUME PromptInv, [Next]_promptVars PROVE PromptInv'
  OBVIOUS
<1>1. /\ sel # NoRequest => /\ sel = asked /\ sel \in Requests /\ Shown(sel)
                            /\ InlineAnswers(sel) = {}
      /\ pending # {} => asked \in Requests /\ sel = NoRequest
      /\ picks # {} /\ ~loose => /\ sel # NoRequest /\ Players(sel) /\ Collects(sel)
                                 /\ picks \subseteq Indices(sel.cards)
      /\ asked \in Requests \cup {NoRequest}
  BY DEF PromptInv, PromptStands, AnswerStands, PicksStand
<1>2. sel # NoRequest => Answerable(sel)
  BY <1>1, RequestsAssumption
<1>3. CASE EngineAsks
  <2>1. PICK r \in Requests : asked' = r /\ Handle(r)
    BY <1>3 DEF EngineAsks
  <2>2. sel = NoRequest /\ UNCHANGED humanSeat
    BY <1>1, <1>3 DEF EngineAsks
  <2> QED
    BY <2>1, <2>2, HandleKeeps
<1>4. CASE NewTurn
  BY <1>4, StillKeeps DEF NewTurn, PromptInv, PicksStand, Players
<1>5. CASE EngineTakes
  <2>1. /\ asked' = NoRequest /\ pending' = {} /\ sel' = sel /\ sel = NoRequest
        /\ picks' = picks /\ loose' = loose
    BY <1>1, <1>5 DEF EngineTakes
  <2> QED
    BY <1>1, <2>1 DEF PromptInv, PromptStands, AnswerStands, PicksStand, AnswersAreTaken
<1>6. CASE EngineRejects
  <2>1. asked \in Requests /\ sel = NoRequest
    BY <1>1, <1>6 DEF EngineRejects
  <2>2. PICK r \in Requests : r = asked
    BY <2>1
  <2>3. asked' = r /\ UNCHANGED humanSeat
    BY <1>6, <2>2 DEF EngineRejects
  <2>4. Handle(r)
    BY <1>6, <2>2 DEF EngineRejects, Handle
  <2> QED
    BY <2>1, <2>3, <2>4, HandleKeeps
<1>7. CASE PlayerClicks
  <2>1. sel # NoRequest /\ UNCHANGED <<asked, humanSeat>>
    BY <1>7 DEF PlayerClicks, Asking, Players, Answered
  <2>2. PICK r \in Requests : r = sel
    BY <1>1, <2>1
  <2>3. PICK a \in Buttons(r) : SubmitAnswer(a, "player")
    BY <1>7, <2>2 DEF PlayerClicks
  <2>4. Takes(r, a) \/ r.kind = "declare"
    BY <1>1, <2>1, <2>2, ButtonsTaken
  <2>5. picks' # {} => loose'
    BY <1>1, <1>7 DEF PlayerClicks, Keep, Collects
  <2> QED
    BY <2>1, <2>2, <2>3, <2>4, <2>5, SubmitKeeps
<1>8. CASE AutoPass
  <2>1. sel # NoRequest /\ UNCHANGED <<asked, humanSeat>> /\ sel.kind \in {"idle", "battle"}
    BY <1>8 DEF AutoPass, Asking, Players, Answered
  <2>2. PICK r \in Requests : r = sel
    BY <1>1, <2>1
  <2>3. PICK t \in r.phases : SubmitAnswer(Word(t, 0), "player")
    BY <1>8, <2>1, <2>2 DEF AutoPass
  <2>4. Takes(r, Word(t, 0))
    BY <1>2, <2>1, <2>2, PassTaken
  <2>5. picks' # {} => loose'
    BY <1>1, <1>8, <2>1 DEF AutoPass, Collects, Pickers
  <2> QED
    BY <2>1, <2>2, <2>3, <2>4, <2>5, SubmitKeeps
<1>9. CASE Toggle
  <2>1. /\ UNCHANGED <<asked, sel, pending, given, ai, humanSeat>>
        /\ sel # NoRequest /\ Players(sel) /\ Collects(sel)
    BY <1>9 DEF Toggle, Asking, Players
  <2>2. PICK i \in Indices(sel.cards) : Keep(picks \ {i}) \/ Keep(picks \cup {i})
    BY <1>9 DEF Toggle
  <2>3. picks' # {} /\ ~loose' => picks' \subseteq Indices(sel.cards)
    BY <1>1, <2>2 DEF Keep
  <2>4. PicksStand'
    BY <2>1, <2>3 DEF PicksStand, Players
  <2> QED
    BY <2>1, <2>4, StillKeeps
<1>10. CASE Confirm
  <2>1. /\ sel # NoRequest /\ UNCHANGED <<asked, humanSeat>> /\ Collects(sel)
        /\ Cardinality(picks) >= sel.min /\ Cardinality(picks) <= sel.max
        /\ SubmitAnswer(Cards(SetToSeq(picks)), IF loose THEN "leftover" ELSE "player")
        /\ picks' = {}
    BY <1>10 DEF Confirm, Asking, Players, Answered, Keep
  <2>2. sel \in Requests
    BY <1>1, <2>1
  <2>3. PICK r \in Requests : r = sel
    BY <2>2
  <2>4. PICK P : P = picks
    OBVIOUS
  <2>5. CASE loose
    BY <2>1, <2>5, SubmitKeeps
  <2>6. CASE ~loose
    <3>1. P \in SUBSET Indices(r.cards)
      BY <1>1, <2>3, <2>4, <2>6
    <3>2. r.kind \in Pickers /\ Cardinality(P) >= r.min /\ Cardinality(P) <= r.max
      BY <2>1, <2>3, <2>4 DEF Collects
    <3>3. Takes(r, Cards(SetToSeq(P)))
      BY <3>1, <3>2, StagedTaken, RequestsAssumption
    <3>4. SubmitAnswer(Cards(SetToSeq(P)), "player")
      BY <2>1, <2>3, <2>4, <2>6 DEF SubmitAnswer
    <3> QED
      BY <2>1, <2>3, <2>4, <3>3, <3>4, SubmitKeeps
  <2> QED
    BY <2>5, <2>6
<1>11. CASE BoardClick
  <2>1. sel # NoRequest /\ UNCHANGED <<asked, humanSeat>>
    BY <1>11 DEF BoardClick, Asking, Players, Answered
  <2>2. \E a : SubmitAnswer(a, "board")
    BY <1>11 DEF BoardClick
  <2>3. picks' # {} => loose'
    BY <1>11 DEF BoardClick, Leave
  <2> QED
    BY <2>1, <2>2, <2>3, SubmitKeeps
<1>12. CASE OpponentAnswers
  <2>1. sel # NoRequest /\ UNCHANGED <<asked, humanSeat>> /\ ~Players(sel)
    BY <1>12 DEF OpponentAnswers, Waits
  <2>2. PICK r \in Requests : r = sel
    BY <1>1, <2>1
  <2>3. PICK mv \in AutoMoves(r) : SubmitAnswer(mv.a, "opponent") /\ ai' = mv.ai
    BY <1>12, <2>2 DEF OpponentAnswers
  <2>4. Takes(r, mv.a) \/ FallsShort(asked)'
    <3>1. asked' = r
      BY <1>1, <2>1, <2>2
    <3>2. \/ Takes(r, mv.a)
          \/ r.kind \in Pickers /\ (r.min > 1 \/ r.cards = <<>>)
          \/ r.kind = "idle" /\ 7 \notin r.phases
          \/ r.kind = "battle" /\ 3 \notin r.phases
          \/ /\ r.kind = "unselect" /\ MustUnselect(r)
             /\ mv.ai.acts > ActionCap \/ r.cards = <<>>
      BY <1>2, <2>1, <2>2, MovesTaken
    <3> QED
      BY <2>3, <3>1, <3>2 DEF FallsShort, MustUnselect
  <2>5. picks' # {} => loose'
    BY <1>1, <1>12, <2>1 DEF OpponentAnswers
  <2> QED
    BY <2>1, <2>2, <2>3, <2>4, <2>5, SubmitKeeps
<1>13. CASE PauseOpponent \/ PauseUnanswered
  <2>1. /\ UNCHANGED <<asked, sel, pending, given, ai, humanSeat>>
        /\ picks' = {} \/ UNCHANGED <<picks, loose>>
    BY <1>13 DEF PauseOpponent, PauseUnanswered, Pause, Keep
  <2>2. PicksStand'
    BY <1>1, <2>1 DEF PicksStand, Players
  <2> QED
    BY <2>1, <2>2, StillKeeps
<1>14. CASE Rewind \/ NextDuel
  <2>1. /\ asked' = NoRequest /\ sel' = NoRequest /\ pending' = {}
        /\ picks' # {} => loose'
    BY <1>14 DEF Rewind, NextDuel, Restarted, Leave
  <2> QED
    BY <2>1 DEF PromptInv, PromptStands, AnswerStands, PicksStand, AnswersAreTaken
<1>15. CASE UNCHANGED promptVars
  <2>1. UNCHANGED <<asked, sel, pending, given, ai, humanSeat, picks, loose>>
    BY <1>15 DEF promptVars
  <2>2. PicksStand'
    BY <1>1, <2>1 DEF PicksStand, Players
  <2> QED
    BY <2>1, <2>2, StillKeeps
<1> QED
  BY <1>3, <1>4, <1>5, <1>6, <1>7, <1>8, <1>9, <1>10, <1>11, <1>12, <1>13, <1>14, <1>15
     DEF Next, PlayerActs, Opponent, EngineJudges

\* What is shown can be answered.
LEMMA ShownCanBeAnswered == PromptInv => PromptsCanBeAnswered
<1> SUFFICES ASSUME PromptInv, sel # NoRequest PROVE PromptsCanBeAnswered
  BY DEF PromptsCanBeAnswered
<1>1. sel \in Requests /\ InlineAnswers(sel) = {} /\ Shown(sel)
  BY DEF PromptInv, PromptStands
<1>2. CASE Players(sel)
  BY <1>1, <1>2, PlayerCanAnswer DEF PromptsCanBeAnswered
<1>3. CASE ~Players(sel)
  <2>1. sel.seat # humanSeat
    BY <1>3 DEF Players
  <2> QED
    BY <1>1, <1>3, <2>1, OpponentCanAnswer DEF PromptsCanBeAnswered
<1> QED
  BY <1>2, <1>3

\* The engine takes every answer that goes out but the ones that are excused,
\* whatever it asks, whoever answers and after however many rejected answers,
\* rewinds and duels: the zones, counters, sums, bits and positions that
\* handleMsg works out, the buttons and the staged picks of the player, and
\* autoRespondP2's moves where they do not fall short.
THEOREM AnswersGetTaken == Spec => []AnswersAreTaken
<1>1. PromptInv => AnswersAreTaken
  BY DEF PromptInv
<1> QED
  BY PromptInit, PromptNext, <1>1, PTL DEF Spec

\* Whatever handleMsg shows has an answer: a button or a set of cards that the
\* engine takes when it is the player's, a move when it is the opponent's.
THEOREM PromptsHaveAnswers == Spec => []PromptsCanBeAnswered
BY PromptInit, PromptNext, ShownCanBeAnswered, PTL DEF Spec
=============================================================================
