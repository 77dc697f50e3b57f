---------------------------- MODULE ArcadeProofs ----------------------------
(***************************************************************************)
(* Proofs about Arcade: the files of the campaigns agree with what was     *)
(* given and spent, for any cards, campaigns, packs and kills.             *)
(***************************************************************************)
EXTENDS Arcade, FiniteSetTheorems, WellFoundedInduction, TLAPS

-----------------------------------------------------------------------------
(* The sum of a pool.  SumFunction adds the cards in the order of CHOOSE.   *)

Some(S) == CHOOSE x \in S : TRUE
Pools == [Card -> Nat]

\* sum[S] is the sum of f over the set S of cards.
Sums(sum, f) ==
    sum = [S \in SUBSET Card |-> IF S = {} THEN 0 ELSE f[Some(S)] + sum[S \ {Some(S)}]]
SumOver(f) == CHOOSE sum : Sums(sum, f)

\* Among sets of cards there is one without which no card can be spared.
LEMMA MinimalSet ==
    ASSUME NEW B \in SUBSET (SUBSET Card), B # {}
    PROVE  \E S \in B : \A x \in S : S \ {x} \notin B
<1>1. FiniteSubsetsOf(Card) = SUBSET Card
  BY FS_FiniteSubsetsOfFinite, ArcadeAssumption
<1>2. IsWellFoundedOn(StrictSubsetOrdering(Card), SUBSET Card)
  BY <1>1, FS_StrictSubsetOrderingWellFounded
<1>3. PICK S \in B : \A T \in B : ~(<<T, S>> \in StrictSubsetOrdering(Card))
  BY <1>2, WFMin
<1>4. ASSUME NEW x \in S PROVE S \ {x} \notin B
  <2>1. S \ {x} \subseteq S /\ S \ {x} # S /\ S \in SUBSET Card /\ S \ {x} \in SUBSET Card
    OBVIOUS
  <2>2. <<S \ {x}, S>> \in StrictSubsetOrdering(Card)
    BY <2>1 DEF StrictSubsetOrdering
  <2> QED
    BY <1>3, <2>2
<1> QED
  BY <1>4

\* A set of numbers has a least one.
LEMMA Least ==
    ASSUME NEW T \in SUBSET Nat, T # {}
    PROVE  \E x \in T : \A y \in T : x <= y
<1>1. PICK x \in T : \A y \in T : ~(<<y, x>> \in OpToRel(<, Nat))
  BY NatLessThanWellFounded, WFMin
<1>2. \A y \in T : ~(y < x)
  BY <1>1 DEF OpToRel
<1> QED
  BY <1>2

\* The sums over the sets of up to n cards exist: no n is the least for which
\* they do not.
LEMMA SumsExist ==
    ASSUME NEW f
    PROVE  \E sum : Sums(sum, f)
<1> DEFINE Small(n) == {S \in SUBSET Card : Cardinality(S) <= n}
           Upto(sum, n) ==
             sum = [S \in Small(n) |->
                      IF S = {} THEN 0 ELSE f[Some(S)] + sum[S \ {Some(S)}]]
           Bad == {n \in Nat : ~ \E sum : Upto(sum, n)}
<1>1. ASSUME NEW S \in SUBSET Card
      PROVE  /\ Cardinality(S) \in Nat /\ Cardinality(S) <= Cardinality(Card)
             /\ (Cardinality(S) = 0 <=> S = {})
             /\ S # {} => /\ Some(S) \in S /\ S \ {Some(S)} \in SUBSET Card
                         /\ Cardinality(S \ {Some(S)}) = Cardinality(S) - 1
  <2>1. IsFiniteSet(S) /\ Cardinality(S) <= Cardinality(Card)
    BY FS_Subset, ArcadeAssumption
  <2>2. Cardinality(S) \in Nat
    BY <2>1, FS_CardinalityType
  <2>3. Cardinality(S) = 0 <=> S = {}
    BY <2>1, FS_EmptySet
  <2>4. ASSUME S # {}
        PROVE  Some(S) \in S /\ Cardinality(S \ {Some(S)}) = Cardinality(S) - 1
    <3>1. Some(S) \in S
      BY <2>4 DEF Some
    <3> QED
      BY <2>1, <3>1, FS_RemoveElement
  <2> QED
    BY <2>1, <2>2, <2>3, <2>4
<1>2. Bad = {}
  <2> SUFFICES ASSUME Bad # {} PROVE FALSE
    OBVIOUS
  <2>1. PICK m \in Bad : \A k \in Bad : m <= k
    BY Least
  <2>2. CASE m = 0
    <3> DEFINE sum == [S \in Small(0) |-> 0]
    <3>1. ASSUME NEW S \in Small(0) PROVE S = {}
      <4>1. Cardinality(S) <= 0 /\ Cardinality(S) \in Nat /\ (Cardinality(S) = 0 <=> S = {})
        BY <1>1
      <4> QED
        BY <4>1
    <3>2. sum = [S \in Small(0) |-> IF S = {} THEN 0 ELSE f[Some(S)] + sum[S \ {Some(S)}]]
      BY <3>1
    <3> QED
      BY <2>1, <2>2, <3>2
  <2>3. CASE m # 0
    <3>1. m \in Nat /\ m - 1 \in Nat /\ m - 1 \notin Bad
      <4>1. m \in Nat
        OBVIOUS
      <4> HIDE DEF Bad
      <4>2. m - 1 \in Nat /\ ~(m <= m - 1)
        BY <2>3, <4>1
      <4> QED
        BY <2>1, <4>1, <4>2
    <3>2. PICK h : Upto(h, m - 1)
      BY <3>1
    <3> DEFINE sum == [S \in Small(m) |->
                         IF S = {} THEN 0 ELSE f[Some(S)] + h[S \ {Some(S)}]]
    <3>3. ASSUME NEW S \in Small(m), S # {}
          PROVE  sum[S \ {Some(S)}] = h[S \ {Some(S)}]
      <4> DEFINE T == S \ {Some(S)}
      <4>1. T \in Small(m) /\ T \in Small(m - 1)
        BY <1>1, <3>1, <3>3
      <4>2. h[T] = IF T = {} THEN 0 ELSE f[Some(T)] + h[T \ {Some(T)}]
        BY <3>2, <4>1
      <4> QED
        BY <4>1, <4>2
    <3>4. sum = [S \in Small(m) |-> IF S = {} THEN 0 ELSE f[Some(S)] + sum[S \ {Some(S)}]]
      BY <3>3
    <3> QED
      BY <2>1, <3>4
  <2> QED
    BY <2>2, <2>3
<1>3. Cardinality(Card) \in Nat /\ Small(Cardinality(Card)) = SUBSET Card
  BY <1>1, FS_CardinalityType, ArcadeAssumption
<1>4. PICK sum : Upto(sum, Cardinality(Card))
  BY <1>2, <1>3
<1>5. Sums(sum, f)
  BY <1>3, <1>4 DEF Sums
<1> QED
  BY <1>5

\* The sum over a set is that without one of its cards, and that card.
LEMMA SumOverIs ==
    ASSUME NEW f, NEW S \in SUBSET Card
    PROVE  SumOver(f)[S] = IF S = {} THEN 0 ELSE f[Some(S)] + SumOver(f)[S \ {Some(S)}]
<1>1. Sums(SumOver(f), f)
  BY SumsExist DEF SumOver
<1> QED
  BY <1>1 DEF Sums

\* SumFunction is the sum over all cards.
LEMMA SumFunctionIs ==
    ASSUME NEW f \in Pools
    PROVE  SumFunction(f) = SumOver(f)[Card]
<1>1. DOMAIN f = Card
  BY DEF Pools
<1>2. SumFunction(f)
        = (CHOOSE sum : sum = [S \in SUBSET (DOMAIN f) |->
              IF S = {} THEN 0 ELSE f[Some(S)] + sum[S \ {Some(S)}]])[DOMAIN f]
  BY DEF SumFunction, SumFunctionOnSet, FoldFunctionOnSet, MapThenFoldSet, Some
<1> QED
  BY <1>1, <1>2 DEF SumOver, Sums

\* Sums are numbers.
LEMMA SumOverType ==
    ASSUME NEW f \in Pools, NEW S \in SUBSET Card
    PROVE  SumOver(f)[S] \in Nat
<1> DEFINE B == {T \in SUBSET Card : SumOver(f)[T] \notin Nat}
<1> SUFFICES ASSUME B # {} PROVE FALSE
  OBVIOUS
<1>1. PICK T \in B : \A x \in T : T \ {x} \notin B
  BY MinimalSet
<1>2. T # {} => Some(T) \in T
  BY DEF Some
<1>3. T # {} => f[Some(T)] \in Nat /\ SumOver(f)[T \ {Some(T)}] \in Nat
  BY <1>1, <1>2 DEF Pools
<1>4. SumOver(f)[T] = IF T = {} THEN 0 ELSE f[Some(T)] + SumOver(f)[T \ {Some(T)}]
  BY SumOverIs
<1> QED
  BY <1>1, <1>3, <1>4

\* A pool with less of each card has a sum that is not greater.
LEMMA SumOverMonotone ==
    ASSUME NEW f \in Pools, NEW g \in Pools, \A c \in Card : f[c] <= g[c],
           NEW S \in SUBSET Card
    PROVE  SumOver(f)[S] <= SumOver(g)[S]
<1> DEFINE B == {T \in SUBSET Card : ~(SumOver(f)[T] <= SumOver(g)[T])}
<1> SUFFICES ASSUME B # {} PROVE FALSE
  OBVIOUS
<1>1. PICK T \in B : \A x \in T : T \ {x} \notin B
  BY MinimalSet
<1>2. CASE T = {}
  <2>1. SumOver(f)[T] = 0 /\ SumOver(g)[T] = 0
    BY <1>2, SumOverIs
  <2> QED
    BY <1>1, <2>1
<1>3. CASE T # {}
  <2> DEFINE x == Some(T)
             R == T \ {x}
  <2>1. x \in T /\ x \in Card /\ R \in SUBSET Card
    BY <1>1, <1>3 DEF Some
  <2>2. SumOver(f)[T] = f[x] + SumOver(f)[R] /\ SumOver(g)[T] = g[x] + SumOver(g)[R]
    BY <1>1, <1>3, SumOverIs
  <2>3. SumOver(f)[R] <= SumOver(g)[R] /\ f[x] <= g[x]
    BY <1>1, <2>1
  <2>4. /\ SumOver(f)[R] \in Nat /\ SumOver(g)[R] \in Nat /\ f[x] \in Nat /\ g[x] \in Nat
    BY <2>1, SumOverType DEF Pools
  <2> QED
    BY <1>1, <2>2, <2>3, <2>4
<1> QED
  BY <1>2, <1>3

\* A pack adds as much to the sum as it has cards.
LEMMA SumOverPack ==
    ASSUME NEW f \in Pools, NEW cards \in SUBSET Card, NEW g \in Pools,
           g = [c \in Card |-> f[c] + IF c \in cards THEN 1 ELSE 0],
           NEW S \in SUBSET Card
    PROVE  SumOver(g)[S] = SumOver(f)[S] + Cardinality(S \cap cards)
<1> DEFINE B == {T \in SUBSET Card :
                   SumOver(g)[T] # SumOver(f)[T] + Cardinality(T \cap cards)}
<1> SUFFICES ASSUME B # {} PROVE FALSE
  OBVIOUS
<1>1. PICK T \in B : \A x \in T : T \ {x} \notin B
  BY MinimalSet
<1>2. CASE T = {}
  <2>1. SumOver(f)[T] = 0 /\ SumOver(g)[T] = 0 /\ T \cap cards = {}
    BY <1>2, SumOverIs
  <2>2. Cardinality(T \cap cards) = 0
    BY <2>1, FS_EmptySet
  <2> QED
    BY <1>1, <2>1, <2>2
<1>3. CASE T # {}
  <2> DEFINE x == Some(T)
             R == T \ {x}
  <2>1. x \in T /\ x \in Card /\ R \in SUBSET Card
    BY <1>1, <1>3 DEF Some
  <2>2. SumOver(f)[T] = f[x] + SumOver(f)[R] /\ SumOver(g)[T] = g[x] + SumOver(g)[R]
    BY <1>1, <1>3, SumOverIs
  <2>3. SumOver(g)[R] = SumOver(f)[R] + Cardinality(R \cap cards)
    BY <1>1, <2>1
  <2>4. /\ SumOver(f)[R] \in Nat /\ f[x] \in Nat
        /\ g[x] = f[x] + IF x \in cards THEN 1 ELSE 0
    BY <2>1, SumOverType DEF Pools
  <2> HIDE DEF x
  <2>5. R \cap cards = (T \cap cards) \ {x}
    OBVIOUS
  <2>6. IsFiniteSet(T \cap cards)
    BY FS_Subset, ArcadeAssumption
  <2>7. /\ Cardinality(T \cap cards) \in Nat
        /\ Cardinality(R \cap cards) =
             IF x \in cards THEN Cardinality(T \cap cards) - 1 ELSE Cardinality(T \cap cards)
    <3>1. Cardinality((T \cap cards) \ {x}) =
            IF x \in T \cap cards THEN Cardinality(T \cap cards) - 1
                                  ELSE Cardinality(T \cap cards)
      BY ONLY <2>6, FS_RemoveElement
    <3> QED
      BY <2>1, <2>5, <2>6, <3>1, FS_CardinalityType
  <2> HIDE DEF R
  <2>8. SumOver(g)[T] = SumOver(f)[T] + Cardinality(T \cap cards)
    BY <2>2, <2>3, <2>4, <2>7
  <2> QED
    BY <1>1, <2>8
<1> QED
  BY <1>2, <1>3

\* SumFunction of a pool is a number.
LEMMA SumType == ASSUME NEW f \in Pools PROVE SumFunction(f) \in Nat
BY SumFunctionIs, SumOverType

\* SumFunction grows with a pack by its cards.
LEMMA SumPack ==
    ASSUME NEW f \in Pools, NEW cards \in SUBSET Card, NEW g,
           g = [c \in Card |-> f[c] + IF c \in cards THEN 1 ELSE 0]
    PROVE  /\ g \in Pools /\ Cardinality(cards) \in Nat
           /\ SumFunction(g) = SumFunction(f) + Cardinality(cards)
<1>1. g \in Pools
  BY DEF Pools
<1>2. Card \in SUBSET Card /\ Card \cap cards = cards
  OBVIOUS
<1>3. SumOver(g)[Card] = SumOver(f)[Card] + Cardinality(Card \cap cards)
  BY <1>1, <1>2, SumOverPack
<1>4. Cardinality(cards) \in Nat
  BY FS_Subset, FS_CardinalityType, ArcadeAssumption
<1> QED
  BY <1>1, <1>2, <1>3, <1>4, SumFunctionIs

\* SumFunction of a pool with fewer cards is not greater.
LEMMA SumLess ==
    ASSUME NEW f \in Pools, NEW g \in Pools, \A c \in Card : f[c] <= g[c]
    PROVE  SumFunction(f) <= SumFunction(g)
<1>1. SumOver(f)[Card] <= SumOver(g)[Card]
  BY SumOverMonotone
<1> QED
  BY <1>1, SumFunctionIs

\* An empty pool has the sum 0.
LEMMA SumZero == SumFunction([c \in Card |-> 0]) = 0
<1> DEFINE f == [c \in Card |-> 0]
           B == {T \in SUBSET Card : SumOver(f)[T] # 0}
<1>1. f \in Pools
  BY DEF Pools
<1>2. B = {}
  <2> SUFFICES ASSUME B # {} PROVE FALSE
    OBVIOUS
  <2>1. PICK T \in B : \A x \in T : T \ {x} \notin B
    BY MinimalSet
  <2>2. SumOver(f)[T] = IF T = {} THEN 0 ELSE f[Some(T)] + SumOver(f)[T \ {Some(T)}]
    BY SumOverIs
  <2>3. T # {} => Some(T) \in T
    BY DEF Some
  <2>4. T # {} => f[Some(T)] = 0 /\ SumOver(f)[T \ {Some(T)}] = 0
    BY <2>1, <2>3
  <2> QED
    BY <2>1, <2>2, <2>4
<1>3. SumOver(f)[Card] = 0
  BY <1>2
<1> QED
  BY <1>1, <1>3, SumFunctionIs

-----------------------------------------------------------------------------
(* The inductive invariant.                                                 *)

Names == Name \cup {Sealed}
Saves ==
    [exists : BOOLEAN, name : Names, master : Nat, secret : Nat, spins : Int,
     prog : Int, progOpened : Int, sr : Nat, nr : Nat,
     keys : SUBSET Key, okeys : SUBSET Key, pool : Pools]
Logs ==
    [torn : BOOLEAN, master : Nat, secret : Nat, bonus : Nat, cards : Nat, credits : Int]
Wheels == [st : {"hidden", "spinning", "result"}, prize : Prizes \cup {"none"}]
Programs ==
    [screen : {"Lobby", "Arcade", "Builder"}, mode : {0, 1, 3}, loaded : BOOLEAN,
     draft : BOOLEAN, gated : BOOLEAN, pick : Key \cup {NoKey}, wheel : Wheels, a : Saves]

\* BooksBalance, of one campaign and its log.
Balanced(f, l) ==
    /\ SumFunction(f.pool) <= l.cards /\ f.sr + f.nr <= l.credits
    /\ ~l.torn =>
         /\ SumFunction(f.pool) = l.cards /\ f.sr + f.nr = l.credits
         /\ f.master + l.master = PacksPerCycle
         /\ f.secret + l.secret = PacksPerCycle + l.bonus

FilesInv ==
    /\ file \in [Names -> Saves] /\ log \in [Names -> Logs]
    /\ \A n \in Names : file[n].name = n
    /\ \A n \in Name : IF file[n].exists THEN Balanced(file[n], log[n])
                                         ELSE log[n] = NoLog

Wheeled(s) == s.wheel.st # "hidden" => s.wheel.prize \in Prizes
Sane(s) == s \in Programs /\ Wheeled(s) /\ (s.draft => s.screen = "Builder")

\* The campaign in memory is the one on file; a draft is on none.
Mirrored(s) ==
    s.loaded /\ ~s.draft => s.a.exists /\ s.a.name \in Name /\ file[s.a.name] = s.a

IInv == FilesInv /\ Sane(app) /\ Mirrored(app)

\* The invariant is enough.
LEMMA BooksAreBalanced == IInv => BooksBalance
BY DEF IInv, FilesInv, Balanced, BooksBalance

-----------------------------------------------------------------------------
(* What a step does to the files.                                           *)

\* A new campaign is one, with nothing in it.
LEMMA NewSave ==
    ASSUME NEW n \in Names
    PROVE  /\ ArcadeSave(n) \in Saves /\ NoSave(n) \in Saves
           /\ ArcadeSave(n).name = n /\ ArcadeSave(n).exists
           /\ NoSave(n).name = n /\ ~NoSave(n).exists
           /\ NoLog \in Logs /\ Balanced(ArcadeSave(n), NoLog)
<1> DEFINE a == ArcadeSave(n)
<1>1. [c \in Card |-> 0] \in Pools
  BY DEF Pools
<1>2. a \in Saves
  BY <1>1, ArcadeAssumption DEF ArcadeSave, Saves
<1>3. /\ a.name = n /\ a.exists = TRUE /\ a.master = PacksPerCycle /\ a.secret = PacksPerCycle
      /\ a.sr = 0 /\ a.nr = 0 /\ a.pool = [c \in Card |-> 0]
  BY DEF ArcadeSave
<1> HIDE DEF a
<1>4. NoSave(n) = [a EXCEPT !.exists = FALSE]
  BY DEF NoSave, a
<1>5. NoSave(n) \in Saves /\ NoSave(n).name = n /\ ~NoSave(n).exists
  BY <1>2, <1>3, <1>4 DEF Saves
<1>6. /\ NoLog \in Logs /\ NoLog.master = 0 /\ NoLog.secret = 0 /\ NoLog.bonus = 0
      /\ NoLog.cards = 0 /\ NoLog.credits = 0
  BY DEF NoLog, Logs
<1>7. Balanced(a, NoLog)
  BY <1>3, <1>6, SumZero, ArcadeAssumption DEF Balanced
<1> QED
  BY <1>2, <1>3, <1>5, <1>6, <1>7 DEF a

\* The files and the logs stay.
LEMMA FilesSame ==
    ASSUME IInv, file' = file, log' = log, Sane(app'), Mirrored(app')
    PROVE  IInv'
BY DEF IInv, FilesInv, Sane, Mirrored

\* A click that changes the program only; UI::draw may end a draft.
LEMMA ClickKeeps ==
    ASSUME IInv, NEW s \in Programs, Wheeled(s), Mirrored(s), Click(s)
    PROVE  IInv'
<1>1. app' = Drawn(s) /\ file' = file /\ log' = log
  BY DEF Click
<1>2. CASE s.draft /\ s.screen # "Builder"
  <2> DEFINE a == NoSave(Sealed)
  <2>1. a \in Saves
    BY NewSave DEF Names
  <2>2. Drawn(s) = [s EXCEPT !.draft = FALSE, !.gated = FALSE, !.loaded = FALSE, !.a = a]
    BY <1>2 DEF Drawn
  <2> HIDE DEF a
  <2>3. app' \in Programs /\ app'.loaded = FALSE /\ app'.draft = FALSE /\ app'.wheel = s.wheel
    BY <1>1, <2>1, <2>2 DEF Programs
  <2> QED
    BY <1>1, <2>3, FilesSame DEF Sane, Wheeled, Mirrored
<1>3. CASE ~(s.draft /\ s.screen # "Builder")
  <2>1. app' = s
    BY <1>1, <1>3 DEF Drawn
  <2> QED
    BY <1>1, <1>3, <2>1, FilesSame DEF Sane
<1> QED
  BY <1>2, <1>3

\* A campaign and its log are written.
LEMMA FileWritten ==
    ASSUME IInv, NEW n \in Name, NEW a \in Saves, NEW l \in Logs, a.name = n,
           IF a.exists THEN Balanced(a, l) ELSE l = NoLog,
           file' = [file EXCEPT ![n] = a], log' = [log EXCEPT ![n] = l],
           Sane(app'), app'.loaded /\ ~app'.draft => app'.a = a /\ a.exists
    PROVE  IInv'
<1>1. n \in Names /\ file \in [Names -> Saves] /\ log \in [Names -> Logs]
  BY DEF Names, IInv, FilesInv
<1>2. /\ file' \in [Names -> Saves] /\ log' \in [Names -> Logs]
      /\ file'[n] = a /\ log'[n] = l
      /\ \A m \in Names : m # n => file'[m] = file[m] /\ log'[m] = log[m]
  BY <1>1
<1>3. \A m \in Names : file'[m].name = m
  BY <1>2 DEF IInv, FilesInv
<1>4. \A m \in Name : IF file'[m].exists THEN Balanced(file'[m], log'[m])
                                         ELSE log'[m] = NoLog
  BY <1>2 DEF IInv, FilesInv, Names
<1>5. FilesInv'
  BY <1>2, <1>3, <1>4 DEF FilesInv, Balanced
<1>6. Mirrored(app)'
  BY <1>2 DEF Mirrored
<1> QED
  BY <1>5, <1>6 DEF IInv, Sane, Wheeled

\* A campaign on screen is a campaign on file.
LEMMA RunIs ==
    ASSUME IInv, app.loaded, app.screen = "Arcade"
    PROVE  /\ app \in Programs /\ ~app.draft /\ Wheeled(app)
           /\ app.a \in Saves /\ app.a.name \in Name /\ app.a.exists
           /\ file[app.a.name] = app.a /\ [file EXCEPT ![app.a.name] = app.a] = file
           /\ log[app.a.name] \in Logs /\ Balanced(app.a, log[app.a.name])
<1>1. app \in Programs /\ ~app.draft /\ Wheeled(app)
  BY DEF IInv, Sane
<1>2. app.a \in Saves /\ app.a.name \in Name /\ app.a.exists /\ file[app.a.name] = app.a
  BY <1>1 DEF IInv, Mirrored, Programs
<1>3. app.a.name \in Names /\ file \in [Names -> Saves] /\ log \in [Names -> Logs]
  BY <1>2 DEF Names, IInv, FilesInv
<1>4. Balanced(app.a, log[app.a.name])
  BY <1>2 DEF IInv, FilesInv
<1> QED
  BY <1>1, <1>2, <1>3, <1>4

\* Books stay balanced when as much is noted as is received and spent.
LEMMA StillBalanced ==
    ASSUME NEW a \in Saves, NEW b \in Saves, NEW l \in Logs, NEW m \in Logs,
           Balanced(a, l), (m.torn <=> l.torn),
           NEW k \in Nat, SumFunction(b.pool) = SumFunction(a.pool) + k, m.cards = l.cards + k,
           NEW d \in Int, b.sr + b.nr = a.sr + a.nr + d, m.credits = l.credits + d,
           b.master + m.master = a.master + l.master \/ b.master + m.master = PacksPerCycle,
           \/ b.secret + m.secret + l.bonus = a.secret + l.secret + m.bonus
           \/ b.secret + m.secret = PacksPerCycle + m.bonus
    PROVE  Balanced(b, m)
<1>1. /\ {a.master, a.secret, a.sr, a.nr, b.master, b.secret, b.sr, b.nr} \subseteq Nat
      /\ a.pool \in Pools /\ b.pool \in Pools
  BY DEF Saves
<1>2. /\ {l.master, l.secret, l.bonus, l.cards, m.master, m.secret, m.bonus, m.cards} \subseteq Nat
      /\ l.credits \in Int /\ m.credits \in Int
  BY DEF Logs
<1>3. SumFunction(a.pool) \in Nat /\ SumFunction(b.pool) \in Nat
  BY <1>1, SumType
<1>4. SumFunction(b.pool) <= m.cards /\ b.sr + b.nr <= m.credits
  BY <1>1, <1>2, <1>3 DEF Balanced
<1>5. ASSUME ~m.torn
      PROVE  SumFunction(b.pool) = m.cards /\ b.sr + b.nr = m.credits
  BY <1>1, <1>2, <1>3, <1>5 DEF Balanced
<1>6. ASSUME ~m.torn PROVE b.master + m.master = PacksPerCycle
  BY <1>1, <1>2, <1>6 DEF Balanced
<1>7. ASSUME ~m.torn PROVE b.secret + m.secret = PacksPerCycle + m.bonus
  BY <1>1, <1>2, <1>7, ArcadeAssumption DEF Balanced
<1> QED
  BY <1>4, <1>5, <1>6, <1>7 DEF Balanced

\* A step of a campaign on screen that writes what it changes.
LEMMA RunStep ==
    ASSUME IInv, app.loaded, app.screen = "Arcade",
           NEW a \in Saves, NEW l \in Logs, a.name = app.a.name, a.exists, Balanced(a, l),
           file' = [file EXCEPT ![app.a.name] = a], log' = [log EXCEPT ![app.a.name] = l],
           app' \in Programs, Wheeled(app'), app'.draft = FALSE, app'.a = a
    PROVE  IInv'
<1>1. app.a.name \in Name
  BY RunIs
<1>2. Sane(app')
  BY DEF Sane
<1> QED
  BY <1>1, <1>2, FileWritten

\* Such a step that leaves the rest of the program alone.
LEMMA KeepStep ==
    ASSUME IInv, app.loaded, app.screen = "Arcade",
           NEW a \in Saves, NEW l \in Logs, a.name = app.a.name, a.exists, Balanced(a, l),
           Keep(a), log' = [log EXCEPT ![app.a.name] = l]
    PROVE  IInv'
<1>1. app \in Programs /\ Wheeled(app) /\ ~app.draft
  BY RunIs
<1>2. app' = [app EXCEPT !.a = a] /\ file' = [file EXCEPT ![app.a.name] = a]
  BY DEF Keep
<1>3. /\ app' \in Programs /\ app'.a = a /\ app'.wheel = app.wheel
      /\ (app'.draft <=> app.draft)
  BY <1>1, <1>2 DEF Programs
<1>4. app'.draft = FALSE
  BY <1>1, <1>3 DEF Programs
<1> QED
  BY <1>1, <1>2, <1>3, <1>4, RunStep DEF Wheeled

\* What a pack adds to a campaign.
LEMMA AddCardsIs ==
    ASSUME NEW a \in Saves, NEW cards \in SUBSET Card, NEW b, b = AddCards(a, cards)
    PROVE  /\ b \in Saves /\ b.name = a.name /\ (b.exists <=> a.exists)
           /\ b.master = a.master /\ b.secret = a.secret /\ b.sr = a.sr /\ b.nr = a.nr
           /\ Cardinality(cards) \in Nat
           /\ SumFunction(b.pool) = SumFunction(a.pool) + Cardinality(cards)
<1> DEFINE g == [c \in Card |-> a.pool[c] + IF c \in cards THEN 1 ELSE 0]
<1>1. a.pool \in Pools
  BY DEF Saves
<1>2. /\ g \in Pools /\ Cardinality(cards) \in Nat
      /\ SumFunction(g) = SumFunction(a.pool) + Cardinality(cards)
  BY <1>1, SumPack
<1>3. b = [a EXCEPT !.pool = g]
  BY DEF AddCards
<1> HIDE DEF g
<1>4. b \in Saves /\ b.pool = g
  BY <1>2, <1>3 DEF Saves
<1>5. /\ b.name = a.name /\ (b.exists <=> a.exists)
      /\ b.master = a.master /\ b.secret = a.secret /\ b.sr = a.sr /\ b.nr = a.nr
  BY <1>3 DEF Saves
<1> QED
  BY <1>2, <1>4, <1>5

\* So does a pack that grants keys.
LEMMA ApplyPackIs ==
    ASSUME NEW a \in Saves, NEW cards \in SUBSET Card, NEW b, b = ApplyPack(a, cards)
    PROVE  /\ b \in Saves /\ b.name = a.name /\ (b.exists <=> a.exists)
           /\ b.master = a.master /\ b.secret = a.secret /\ b.sr = a.sr /\ b.nr = a.nr
           /\ Cardinality(cards) \in Nat
           /\ SumFunction(b.pool) = SumFunction(a.pool) + Cardinality(cards)
<1> DEFINE e == AddCards(a, cards)
           granted == UNION {Grants(c) : c \in cards}
<1>1. /\ e \in Saves /\ e.name = a.name /\ (e.exists <=> a.exists)
      /\ e.master = a.master /\ e.secret = a.secret /\ e.sr = a.sr /\ e.nr = a.nr
      /\ Cardinality(cards) \in Nat
      /\ SumFunction(e.pool) = SumFunction(a.pool) + Cardinality(cards)
  BY AddCardsIs
<1>2. granted \in SUBSET Key
  <2>1. ASSUME NEW c \in Card PROVE Grants(c) \subseteq Key
    BY ArcadeAssumption DEF Grants
  <2> QED
    BY <2>1
<1>3. b = [e EXCEPT !.keys = @ \cup granted]
  BY DEF ApplyPack
<1> HIDE DEF e, granted
<1>4. e.keys \cup granted \in SUBSET Key
  BY <1>1, <1>2 DEF Saves
<1>5. b \in Saves
  BY <1>1, <1>3, <1>4 DEF Saves
<1>6. /\ b.name = e.name /\ (b.exists <=> e.exists) /\ b.pool = e.pool
      /\ b.master = e.master /\ b.secret = e.secret /\ b.sr = e.sr /\ b.nr = e.nr
  BY <1>1, <1>3 DEF Saves
<1> QED
  BY <1>1, <1>5, <1>6

-----------------------------------------------------------------------------
(* Master Saga.                                                             *)

\* A note that cards were received, and one counter more.
LEMMA GotIs ==
    ASSUME NEW n \in Name, log[n] \in Logs, NEW cards \in SUBSET Card, NEW l, l = Got(n, cards)
    PROVE  /\ l \in Logs /\ (l.torn <=> log[n].torn)
           /\ l.master = log[n].master /\ l.secret = log[n].secret /\ l.bonus = log[n].bonus
           /\ l.cards = log[n].cards + Cardinality(cards) /\ l.credits = log[n].credits
<1>1. Cardinality(cards) \in Nat
  BY FS_Subset, FS_CardinalityType, ArcadeAssumption
<1>2. l = [log[n] EXCEPT !.cards = @ + Cardinality(cards)]
  BY DEF Got
<1>3. log[n].cards + Cardinality(cards) \in Nat
  BY <1>1 DEF Logs
<1> QED
  BY <1>2, <1>3 DEF Logs

\* A master pack.
LEMMA OpenMasterKeeps ==
    ASSUME IInv, NEW cards \in Packs, OpenMaster(cards)
    PROVE  IInv'
<1> DEFINE n == app.a.name
           a == [app.a EXCEPT !.master = @ - 1]
           b == ApplyPack(a, cards)
           l == Got(n, cards)
           m == [l EXCEPT !.master = @ + 1]
<1>1. app.loaded /\ app.screen = "Arcade" /\ app.a.master > 0 /\ cards \in SUBSET Card
  BY DEF OpenMaster, RunView, At, Packs
<1>2. /\ app.a \in Saves /\ n \in Name /\ app.a.exists
      /\ log[n] \in Logs /\ Balanced(app.a, log[n])
  BY <1>1, RunIs
<1>3. l \in Logs /\ (l.torn <=> log[n].torn)
      /\ l.master = log[n].master /\ l.secret = log[n].secret /\ l.bonus = log[n].bonus
      /\ l.cards = log[n].cards + Cardinality(cards) /\ l.credits = log[n].credits
  BY <1>1, <1>2, GotIs
<1>4. Keep(b) /\ log' = [log EXCEPT ![n] = m]
  BY DEF OpenMaster, Note
<1>5. app.a.master \in Nat /\ app.a.master - 1 \in Nat
  BY <1>1, <1>2 DEF Saves
<1>6. /\ a \in Saves /\ a.name = n /\ a.exists /\ a.master = app.a.master - 1
      /\ a.secret = app.a.secret /\ a.sr = app.a.sr /\ a.nr = app.a.nr
      /\ a.pool = app.a.pool
  BY <1>2, <1>5 DEF Saves
<1> HIDE DEF a, l
<1>7. /\ b \in Saves /\ b.name = a.name /\ (b.exists <=> a.exists)
      /\ b.master = a.master /\ b.secret = a.secret /\ b.sr = a.sr /\ b.nr = a.nr
      /\ Cardinality(cards) \in Nat
      /\ SumFunction(b.pool) = SumFunction(a.pool) + Cardinality(cards)
  BY <1>1, <1>6, ApplyPackIs
<1>8. l.master \in Nat /\ l.master + 1 \in Nat
  BY <1>3 DEF Logs
<1>9. /\ m \in Logs /\ (m.torn <=> l.torn) /\ m.master = l.master + 1
      /\ m.secret = l.secret /\ m.bonus = l.bonus /\ m.cards = l.cards
      /\ m.credits = l.credits
  BY <1>3, <1>8 DEF Logs
<1> HIDE DEF b, m
<1>10. /\ app.a.secret \in Nat /\ app.a.sr \in Nat /\ app.a.nr \in Nat
       /\ log[n].secret \in Nat /\ log[n].bonus \in Nat /\ log[n].master \in Nat
       /\ log[n].credits \in Int
  BY <1>2 DEF Saves, Logs
<1>11. /\ b.sr + b.nr = app.a.sr + app.a.nr + 0 /\ m.credits = log[n].credits + 0
       /\ b.master + m.master = app.a.master + log[n].master
       /\ b.secret + m.secret + log[n].bonus = app.a.secret + log[n].secret + m.bonus
  BY <1>3, <1>5, <1>6, <1>7, <1>9, <1>10
<1>12. SumFunction(b.pool) = SumFunction(app.a.pool) + Cardinality(cards)
  BY <1>6, <1>7
<1>13. m.cards = log[n].cards + Cardinality(cards) /\ (m.torn <=> log[n].torn)
  BY <1>3, <1>9
<1>14. Balanced(b, m)
  BY <1>2, <1>7, <1>9, <1>11, <1>12, <1>13, StillBalanced
<1> QED
  BY <1>1, <1>4, <1>6, <1>7, <1>9, <1>14, KeepStep

\* A secret pack, of whichever key is picked.
LEMMA OpenSecretKeeps ==
    ASSUME IInv, NEW cards \in Packs, OpenSecret(cards)
    PROVE  IInv'
<1> DEFINE n == app.a.name
           a == [app.a EXCEPT !.secret = @ - 1, !.okeys = @ \cup {app.pick}]
           b == ApplyPack(a, cards)
           l == Got(n, cards)
           m == [l EXCEPT !.secret = @ + 1]
<1>1. /\ app.loaded /\ app.screen = "Arcade" /\ app.a.secret > 0 /\ cards \in SUBSET Card
      /\ app.pick # NoKey
  BY DEF OpenSecret, RunView, At, Packs
<1>2. /\ app.a \in Saves /\ n \in Name /\ app.a.exists
      /\ log[n] \in Logs /\ Balanced(app.a, log[n]) /\ app \in Programs
  BY <1>1, RunIs
<1>3. l \in Logs /\ (l.torn <=> log[n].torn)
      /\ l.master = log[n].master /\ l.secret = log[n].secret /\ l.bonus = log[n].bonus
      /\ l.cards = log[n].cards + Cardinality(cards) /\ l.credits = log[n].credits
  BY <1>1, <1>2, GotIs
<1>4. Keep(b) /\ log' = [log EXCEPT ![n] = m]
  BY DEF OpenSecret, Note
<1>5. app.a.secret \in Nat /\ app.a.secret - 1 \in Nat
  BY <1>1, <1>2 DEF Saves
<1>6. app.a.okeys \cup {app.pick} \in SUBSET Key
  BY <1>1, <1>2 DEF Saves, Programs
<1>7. /\ a \in Saves /\ a.name = n /\ a.exists /\ a.master = app.a.master
      /\ a.secret = app.a.secret - 1 /\ a.sr = app.a.sr /\ a.nr = app.a.nr
      /\ a.pool = app.a.pool
  BY <1>2, <1>5, <1>6 DEF Saves
<1> HIDE DEF a, l
<1>8. /\ b \in Saves /\ b.name = a.name /\ (b.exists <=> a.exists)
      /\ b.master = a.master /\ b.secret = a.secret /\ b.sr = a.sr /\ b.nr = a.nr
      /\ Cardinality(cards) \in Nat
      /\ SumFunction(b.pool) = SumFunction(a.pool) + Cardinality(cards)
  BY <1>1, <1>7, ApplyPackIs
<1>9. l.secret \in Nat /\ l.secret + 1 \in Nat
  BY <1>3 DEF Logs
<1>10. /\ m \in Logs /\ (m.torn <=> l.torn) /\ m.master = l.master
       /\ m.secret = l.secret + 1 /\ m.bonus = l.bonus /\ m.cards = l.cards
       /\ m.credits = l.credits
  BY <1>3, <1>9 DEF Logs
<1> HIDE DEF b, m
<1>11. /\ app.a.master \in Nat /\ app.a.sr \in Nat /\ app.a.nr \in Nat
       /\ log[n].secret \in Nat /\ log[n].bonus \in Nat /\ log[n].master \in Nat
       /\ log[n].credits \in Int
  BY <1>2 DEF Saves, Logs
<1>12. /\ b.sr + b.nr = app.a.sr + app.a.nr + 0 /\ m.credits = log[n].credits + 0
       /\ b.master + m.master = app.a.master + log[n].master
       /\ b.secret + m.secret + log[n].bonus = app.a.secret + log[n].secret + m.bonus
  BY <1>3, <1>5, <1>7, <1>8, <1>10, <1>11
<1>13. SumFunction(b.pool) = SumFunction(app.a.pool) + Cardinality(cards)
  BY <1>7, <1>8
<1>14. m.cards = log[n].cards + Cardinality(cards) /\ (m.torn <=> log[n].torn)
  BY <1>3, <1>10
<1>15. Balanced(b, m)
  BY <1>2, <1>8, <1>10, <1>12, <1>13, <1>14, StillBalanced
<1> QED
  BY <1>1, <1>4, <1>7, <1>8, <1>10, <1>15, KeepStep

\* A craft: one credit of either kind for one card.
LEMMA CraftKeeps ==
    ASSUME IInv, NEW c \in Card, Craft(c)
    PROVE  IInv'
<1> DEFINE n == app.a.name
           l == Got(n, {c})
           m == [l EXCEPT !.credits = @ - 1]
           b == AddCards(app.a, {c})
           s == [b EXCEPT !.sr = @ - 1]
           t == [b EXCEPT !.nr = @ - 1]
<1>1. app.loaded /\ app.screen = "Arcade" /\ {c} \in SUBSET Card
  BY DEF Craft, RunView, At
<1>2. /\ app.a \in Saves /\ n \in Name /\ app.a.exists
      /\ log[n] \in Logs /\ Balanced(app.a, log[n])
  BY <1>1, RunIs
<1>3. l \in Logs /\ (l.torn <=> log[n].torn)
      /\ l.master = log[n].master /\ l.secret = log[n].secret /\ l.bonus = log[n].bonus
      /\ l.cards = log[n].cards + Cardinality({c}) /\ l.credits = log[n].credits
  BY <1>1, <1>2, GotIs
<1>4. \/ Keep(s) /\ app.a.sr > 0
      \/ Keep(t) /\ app.a.nr > 0
  BY DEF Craft
<1>5. log' = [log EXCEPT ![n] = m]
  BY DEF Craft, Note
<1>6. /\ b \in Saves /\ b.name = n /\ b.exists
      /\ b.master = app.a.master /\ b.secret = app.a.secret
      /\ b.sr = app.a.sr /\ b.nr = app.a.nr
      /\ Cardinality({c}) \in Nat
      /\ SumFunction(b.pool) = SumFunction(app.a.pool) + Cardinality({c})
  BY <1>1, <1>2, AddCardsIs
<1> HIDE DEF l, b
<1>7. l.credits - 1 \in Int
  BY <1>3 DEF Logs
<1>8. /\ m \in Logs /\ (m.torn <=> l.torn) /\ m.master = l.master
      /\ m.secret = l.secret /\ m.bonus = l.bonus /\ m.cards = l.cards
      /\ m.credits = l.credits - 1
  BY <1>3, <1>7 DEF Logs
<1>9. /\ app.a.master \in Nat /\ app.a.secret \in Nat /\ app.a.sr \in Nat /\ app.a.nr \in Nat
      /\ log[n].secret \in Nat /\ log[n].bonus \in Nat /\ log[n].master \in Nat
      /\ log[n].credits \in Int
  BY <1>2 DEF Saves, Logs
<1>10. m.cards = log[n].cards + Cardinality({c}) /\ (m.torn <=> log[n].torn)
  BY <1>3, <1>8
<1> HIDE DEF m
<1>11. m.credits = log[n].credits + (-1)
  BY <1>3, <1>8, <1>9
<1>12. ASSUME NEW e \in Saves, e.master = b.master, e.secret = b.secret, e.pool = b.pool,
              e.sr + e.nr = b.sr + b.nr + (-1)
       PROVE  Balanced(e, m)
  <2>1. /\ e.sr + e.nr = app.a.sr + app.a.nr + (-1)
        /\ e.master + m.master = app.a.master + log[n].master
        /\ e.secret + m.secret + log[n].bonus = app.a.secret + log[n].secret + m.bonus
    BY <1>3, <1>6, <1>8, <1>9, <1>12
  <2>2. SumFunction(e.pool) = SumFunction(app.a.pool) + Cardinality({c})
    BY <1>6, <1>12
  <2>3. -1 \in Int
    OBVIOUS
  <2> QED
    BY <1>2, <1>6, <1>8, <1>10, <1>11, <2>1, <2>2, <2>3, StillBalanced
<1>13. CASE Keep(s) /\ app.a.sr > 0
  <2>1. b.sr \in Nat /\ b.sr - 1 \in Nat
    BY <1>6, <1>9, <1>13
  <2>2. /\ s \in Saves /\ s.name = n /\ s.exists /\ s.pool = b.pool /\ s.master = b.master
        /\ s.secret = b.secret /\ s.sr = b.sr - 1 /\ s.nr = b.nr
    BY <1>6, <2>1 DEF Saves
  <2> HIDE DEF s
  <2>3. s.sr + s.nr = b.sr + b.nr + (-1)
    BY <1>6, <1>9, <2>1, <2>2
  <2>4. Balanced(s, m)
    BY <1>12, <2>2, <2>3
  <2> QED
    BY <1>1, <1>5, <1>8, <1>13, <2>2, <2>4, KeepStep
<1>14. CASE Keep(t) /\ app.a.nr > 0
  <2>1. b.nr \in Nat /\ b.nr - 1 \in Nat
    BY <1>6, <1>9, <1>14
  <2>2. /\ t \in Saves /\ t.name = n /\ t.exists /\ t.pool = b.pool /\ t.master = b.master
        /\ t.secret = b.secret /\ t.sr = b.sr /\ t.nr = b.nr - 1
    BY <1>6, <2>1 DEF Saves
  <2> HIDE DEF t
  <2>3. t.sr + t.nr = b.sr + b.nr + (-1)
    BY <1>6, <1>9, <2>1, <2>2
  <2>4. Balanced(t, m)
    BY <1>12, <2>2, <2>3
  <2> QED
    BY <1>1, <1>5, <1>8, <1>14, <2>2, <2>4, KeepStep
<1> QED
  BY <1>4, <1>13, <1>14

\* The wheel put away.
LEMMA IdleIs == Idle \in Wheels /\ Idle.st = "hidden"
BY DEF Idle, Wheels

\* A result: the packs are given out anew, the counts start again.
LEMMA RecordResultKeeps ==
    ASSUME IInv, RecordResult
    PROVE  IInv'
<1> DEFINE n == app.a.name
           a == Restock(app.a)
           l == [log[n] EXCEPT !.master = 0, !.secret = 0, !.bonus = 0]
<1>1. app.loaded /\ app.screen = "Arcade"
  BY DEF RecordResult, RunView, At
<1>2. /\ app.a \in Saves /\ n \in Name /\ app.a.exists /\ app \in Programs /\ ~app.draft
      /\ log[n] \in Logs /\ Balanced(app.a, log[n])
  BY <1>1, RunIs
<1>3. app.a.spins \in Int /\ app.a.spins + 1 \in Int /\ PacksPerCycle \in Nat
  BY <1>2, ArcadeAssumption DEF Saves
<1>4. a = [app.a EXCEPT !.master = PacksPerCycle, !.secret = PacksPerCycle, !.keys = {},
                        !.okeys = {}, !.spins = @ + 1]
  BY DEF Restock
<1>5. /\ app' = [app EXCEPT !.a = a, !.pick = NoKey, !.wheel = Idle]
      /\ file' = [file EXCEPT ![a.name] = a] /\ log' = [log EXCEPT ![n] = l]
  BY DEF RecordResult, Note
<1> HIDE DEF a
<1>6. /\ a \in Saves /\ a.name = n /\ a.exists
      /\ a.master = PacksPerCycle /\ a.secret = PacksPerCycle
      /\ a.sr = app.a.sr /\ a.nr = app.a.nr /\ a.pool = app.a.pool
  BY <1>2, <1>3, <1>4 DEF Saves
<1>7. /\ l \in Logs /\ (l.torn <=> log[n].torn) /\ l.master = 0 /\ l.secret = 0 /\ l.bonus = 0
      /\ l.cards = log[n].cards /\ l.credits = log[n].credits
  BY <1>2 DEF Logs
<1> HIDE DEF l
<1>8. /\ app.a.sr \in Nat /\ app.a.nr \in Nat /\ log[n].cards \in Nat
      /\ log[n].credits \in Int /\ SumFunction(app.a.pool) \in Nat
  BY <1>2, SumType DEF Saves, Logs
<1>9. Balanced(a, l)
  <2>1. /\ SumFunction(a.pool) = SumFunction(app.a.pool) + 0 /\ l.cards = log[n].cards + 0
        /\ a.sr + a.nr = app.a.sr + app.a.nr + 0 /\ l.credits = log[n].credits + 0
        /\ a.master + l.master = PacksPerCycle
        /\ a.secret + l.secret = PacksPerCycle + l.bonus
    BY <1>3, <1>6, <1>7, <1>8
  <2>2. 0 \in Nat /\ 0 \in Int
    OBVIOUS
  <2> QED
    BY <1>2, <1>6, <1>7, <2>1, <2>2, StillBalanced
<1>10. /\ app' \in Programs /\ app'.a = a /\ app'.wheel = Idle /\ (app'.draft <=> app.draft)
  BY <1>2, <1>5, <1>6, IdleIs DEF Programs
<1>11. app'.draft = FALSE
  BY <1>2, <1>10 DEF Programs
<1> QED
  BY <1>1, <1>5, <1>6, <1>7, <1>9, <1>10, <1>11, IdleIs, RunStep DEF Wheeled

\* A claim: the prize is one of the wheel's, and is noted as it is paid.
LEMMA ClaimKeeps ==
    ASSUME IInv, Claim
    PROVE  IInv'
<1> DEFINE n == app.a.name
           p == app.wheel.prize
           left == Max({0, app.a.spins - 1})
           a == [app.a EXCEPT !.sr = @ + p.sr, !.nr = @ + p.nr,
                              !.secret = @ + p.packs, !.spins = left]
           l == [log[n] EXCEPT !.bonus = @ + p.packs, !.credits = @ + p.sr + p.nr]
<1>1. app.loaded /\ app.screen = "Arcade" /\ app.wheel.st = "result"
  BY DEF Claim, At
<1>2. /\ app.a \in Saves /\ n \in Name /\ app.a.exists /\ app \in Programs /\ ~app.draft
      /\ log[n] \in Logs /\ Balanced(app.a, log[n])
  BY <1>1, RunIs
<1>3. p \in Prizes
  BY <1>1, RunIs DEF Wheeled
<1>4. p.sr \in Nat /\ p.nr \in Nat /\ p.packs \in Nat
  BY <1>3, ArcadeAssumption
<1>5. left \in Int
  <2>1. app.a.spins \in Int /\ app.a.spins - 1 \in Int
    BY <1>2 DEF Saves
  <2> DEFINE k == app.a.spins - 1
             T == {0, k}
  <2> HIDE DEF k
  <2>2. \E x \in T : \A y \in T : x >= y
    BY <2>1 DEF k
  <2>3. left \in T
    BY <2>2 DEF Max, k
  <2> QED
    BY <2>1, <2>3 DEF k
<1>6. /\ app' = [app EXCEPT !.a = a, !.wheel = Idle]
      /\ file' = [file EXCEPT ![n] = a] /\ log' = [log EXCEPT ![n] = l]
  BY DEF Claim, Note
<1> HIDE DEF left, p
<1>7. /\ app.a.sr \in Nat /\ app.a.nr \in Nat /\ app.a.secret \in Nat /\ app.a.master \in Nat
      /\ app.a.sr + p.sr \in Nat /\ app.a.nr + p.nr \in Nat /\ app.a.secret + p.packs \in Nat
  BY <1>2, <1>4 DEF Saves
<1>8. /\ log[n].credits \in Int /\ log[n].credits + p.sr + p.nr \in Int
      /\ log[n].bonus \in Nat /\ log[n].bonus + p.packs \in Nat
      /\ log[n].cards \in Nat /\ log[n].master \in Nat /\ log[n].secret \in Nat
  BY <1>2, <1>4 DEF Logs
<1>9. /\ a \in Saves /\ a.name = n /\ a.exists /\ a.master = app.a.master
      /\ a.secret = app.a.secret + p.packs
      /\ a.sr = app.a.sr + p.sr /\ a.nr = app.a.nr + p.nr /\ a.pool = app.a.pool
  BY <1>2, <1>5, <1>7 DEF Saves
<1> HIDE DEF a
<1>10. /\ l \in Logs /\ (l.torn <=> log[n].torn) /\ l.master = log[n].master
       /\ l.secret = log[n].secret /\ l.bonus = log[n].bonus + p.packs
       /\ l.cards = log[n].cards /\ l.credits = log[n].credits + p.sr + p.nr
  BY <1>2, <1>8 DEF Logs
<1> HIDE DEF l
<1>11. SumFunction(app.a.pool) \in Nat
  BY <1>2, SumType DEF Saves
<1>12. Balanced(a, l)
  <2> DEFINE d == p.sr + p.nr
  <2>1. /\ SumFunction(a.pool) = SumFunction(app.a.pool) + 0 /\ l.cards = log[n].cards + 0
        /\ a.sr + a.nr = app.a.sr + app.a.nr + d /\ l.credits = log[n].credits + d
        /\ a.master + l.master = app.a.master + log[n].master
        /\ a.secret + l.secret + log[n].bonus = app.a.secret + log[n].secret + l.bonus
    BY <1>4, <1>7, <1>8, <1>9, <1>10, <1>11
  <2>2. 0 \in Nat /\ d \in Int
    BY <1>4
  <2> HIDE DEF d
  <2> QED
    BY <1>2, <1>9, <1>10, <2>1, <2>2, StillBalanced
<1>13. /\ app' \in Programs /\ app'.a = a /\ app'.wheel = Idle /\ (app'.draft <=> app.draft)
  BY <1>2, <1>6, <1>9, IdleIs DEF Programs
<1>14. app'.draft = FALSE
  BY <1>2, <1>13 DEF Programs
<1> QED
  BY <1>1, <1>6, <1>9, <1>10, <1>12, <1>13, <1>14, IdleIs, RunStep DEF Wheeled

-----------------------------------------------------------------------------
(* Progression.                                                             *)

\* Cards for a run: the packs of a set, or the loser's.
LEMMA ReceivedKeeps ==
    ASSUME IInv, app.loaded, app.screen = "Arcade", NEW cards \in SUBSET Card, NEW o \in Int,
           NEW b, b = AddCards(app.a, cards),
           Keep(b) \/ Keep([b EXCEPT !.progOpened = o]),
           Note(app.a.name, Got(app.a.name, cards))
    PROVE  IInv'
<1> DEFINE n == app.a.name
           l == Got(n, cards)
           e == [b EXCEPT !.progOpened = o]
<1>1. /\ app.a \in Saves /\ n \in Name /\ app.a.exists
      /\ log[n] \in Logs /\ Balanced(app.a, log[n])
  BY RunIs
<1>2. l \in Logs /\ (l.torn <=> log[n].torn)
      /\ l.master = log[n].master /\ l.secret = log[n].secret /\ l.bonus = log[n].bonus
      /\ l.cards = log[n].cards + Cardinality(cards) /\ l.credits = log[n].credits
  BY <1>1, GotIs
<1>3. log' = [log EXCEPT ![n] = l]
  BY DEF Note
<1>4. /\ b \in Saves /\ b.name = n /\ b.exists
      /\ b.master = app.a.master /\ b.secret = app.a.secret
      /\ b.sr = app.a.sr /\ b.nr = app.a.nr /\ Cardinality(cards) \in Nat
      /\ SumFunction(b.pool) = SumFunction(app.a.pool) + Cardinality(cards)
  BY <1>1, AddCardsIs
<1>5. /\ e \in Saves /\ e.name = n /\ e.exists /\ e.master = b.master /\ e.secret = b.secret
      /\ e.sr = b.sr /\ e.nr = b.nr /\ e.pool = b.pool
  BY <1>4 DEF Saves
<1> HIDE DEF l, e
<1>6. /\ app.a.sr \in Nat /\ app.a.nr \in Nat /\ app.a.secret \in Nat
      /\ log[n].secret \in Nat /\ log[n].bonus \in Nat /\ log[n].credits \in Int
  BY <1>1 DEF Saves, Logs
<1>7. /\ b.sr + b.nr = app.a.sr + app.a.nr + 0 /\ l.credits = log[n].credits + 0
      /\ b.master + l.master = app.a.master + log[n].master
      /\ b.secret + l.secret + log[n].bonus = app.a.secret + log[n].secret + l.bonus
  BY <1>2, <1>4, <1>6
<1>8. 0 \in Int
  OBVIOUS
<1>9. Balanced(b, l)
  BY <1>1, <1>2, <1>4, <1>7, <1>8, StillBalanced
<1>10. Balanced(e, l)
  BY <1>5, <1>9 DEF Balanced
<1>11. CASE Keep(b)
  BY <1>2, <1>3, <1>4, <1>9, <1>11, KeepStep
<1>12. CASE Keep(e)
  BY <1>2, <1>3, <1>5, <1>10, <1>12, KeepStep
<1> QED
  BY <1>11, <1>12 DEF e

\* The packs of the current set.
LEMMA OpenSetKeeps ==
    ASSUME IInv, NEW cards \in Packs, OpenSet(cards)
    PROVE  IInv'
<1> DEFINE b == AddCards(app.a, cards)
<1>1. app.loaded /\ app.screen = "Arcade" /\ cards \in SUBSET Card
  BY DEF OpenSet, SetView, At, Packs
<1>2. app.a.prog \in Int
  BY <1>1, RunIs DEF Saves
<1>3. Keep([b EXCEPT !.progOpened = app.a.prog]) /\ Note(app.a.name, Got(app.a.name, cards))
  BY DEF OpenSet
<1> HIDE DEF b
<1> QED
  BY <1>1, <1>2, <1>3, ReceivedKeeps DEF b

\* The loser's packs.
LEMMA LostSetKeeps ==
    ASSUME IInv, NEW cards \in Packs \cup {{}}, LostSet(cards)
    PROVE  IInv'
<1>1. app.loaded /\ app.screen = "Arcade" /\ cards \in SUBSET Card
  BY DEF LostSet, Playing, SetView, At, Packs
<1>2. Keep(AddCards(app.a, cards)) /\ Note(app.a.name, Got(app.a.name, cards))
  BY DEF LostSet
<1>3. 0 \in Int
  OBVIOUS
<1> QED
  BY <1>1, <1>2, <1>3, ReceivedKeeps

\* A won set: the run moves on.
LEMMA WonSetKeeps ==
    ASSUME IInv, WonSet
    PROVE  IInv'
<1> DEFINE n == app.a.name
           next == Min({app.a.prog + 1, LastSet})
           a == [app.a EXCEPT !.prog = next]
<1>1. app.loaded /\ app.screen = "Arcade"
  BY DEF WonSet, Playing, SetView, At
<1>2. /\ app.a \in Saves /\ n \in Name /\ app.a.exists
      /\ log[n] \in Logs /\ Balanced(app.a, log[n])
  BY <1>1, RunIs
<1>3. next \in Int
  <2>1. app.a.prog \in Int /\ app.a.prog + 1 \in Int /\ LastSet \in Int
    BY <1>2, ArcadeAssumption DEF Saves
  <2> DEFINE k == app.a.prog + 1
             T == {k, LastSet}
  <2> HIDE DEF k
  <2>2. \E x \in T : \A y \in T : x <= y
    BY <2>1 DEF k
  <2>3. next \in T
    BY <2>2 DEF Min, k
  <2> QED
    BY <2>1, <2>3 DEF k
<1>4. Keep(a) /\ log' = log
  BY DEF WonSet
<1> HIDE DEF next
<1>5. /\ a \in Saves /\ a.name = n /\ a.exists /\ a.master = app.a.master
      /\ a.secret = app.a.secret /\ a.sr = app.a.sr /\ a.nr = app.a.nr
      /\ a.pool = app.a.pool
  BY <1>2, <1>3 DEF Saves
<1> HIDE DEF a
<1>6. Balanced(a, log[n])
  BY <1>2, <1>5 DEF Balanced
<1>7. log' = [log EXCEPT ![n] = log[n]]
  BY <1>2, <1>4 DEF IInv, FilesInv
<1> QED
  BY <1>1, <1>2, <1>4, <1>5, <1>6, <1>7, KeepStep

-----------------------------------------------------------------------------
(* Screens, files and kills.                                                *)

\* Leaving a campaign saves what is on file already.
LEMMA SavedAgain ==
    ASSUME IInv, app.screen = "Arcade", NEW a, a = app.a,
           file' = IF app.loaded THEN [file EXCEPT ![a.name] = a] ELSE file
    PROVE  file' = file
BY RunIs

\* Clicks that leave the campaign alone, in or out of memory.
LEMMA ScreensKeep ==
    ASSUME IInv, EnterArcade \/ Decks \/ PickMasterSaga \/ PickProgression \/ LeaveBuilder
    PROVE  IInv'
<1>1. app \in Programs /\ Wheeled(app) /\ Mirrored(app)
  BY DEF IInv, Sane
<1>2. CASE EnterArcade
  <2> DEFINE s == [app EXCEPT !.screen = "Arcade", !.mode = 0]
  <2>1. /\ s \in Programs /\ s.wheel = app.wheel /\ s.a = app.a
        /\ (s.loaded <=> app.loaded) /\ (s.draft <=> app.draft)
    BY <1>1 DEF Programs
  <2>2. Click(s)
    BY <1>2 DEF EnterArcade
  <2> HIDE DEF s
  <2> QED
    BY <1>1, <2>1, <2>2, ClickKeeps DEF Wheeled, Mirrored
<1>3. CASE Decks
  <2> DEFINE s == [app EXCEPT !.screen = "Builder", !.gated = FALSE]
  <2>1. /\ s \in Programs /\ s.wheel = app.wheel /\ s.a = app.a
        /\ (s.loaded <=> app.loaded) /\ (s.draft <=> app.draft)
    BY <1>1 DEF Programs
  <2>2. Click(s)
    BY <1>3 DEF Decks
  <2> HIDE DEF s
  <2> QED
    BY <1>1, <2>1, <2>2, ClickKeeps DEF Wheeled, Mirrored
<1>4. CASE PickMasterSaga
  <2> DEFINE s == [app EXCEPT !.mode = 1]
  <2>1. /\ s \in Programs /\ s.wheel = app.wheel /\ s.a = app.a
        /\ (s.loaded <=> app.loaded) /\ (s.draft <=> app.draft)
    BY <1>1 DEF Programs
  <2>2. Click(s)
    BY <1>4 DEF PickMasterSaga
  <2> HIDE DEF s
  <2> QED
    BY <1>1, <2>1, <2>2, ClickKeeps DEF Wheeled, Mirrored
<1>5. CASE PickProgression
  <2> DEFINE s == [app EXCEPT !.mode = 3, !.loaded = FALSE]
  <2>1. s \in Programs /\ s.wheel = app.wheel /\ ~s.loaded
    BY <1>1 DEF Programs
  <2>2. Click(s)
    BY <1>5 DEF PickProgression
  <2> HIDE DEF s
  <2> QED
    BY <1>1, <2>1, <2>2, ClickKeeps DEF Wheeled, Mirrored
<1>6. CASE LeaveBuilder
  <2> DEFINE s == [app EXCEPT !.screen = "Lobby"]
  <2>1. /\ s \in Programs /\ s.wheel = app.wheel /\ s.a = app.a
        /\ (s.loaded <=> app.loaded) /\ (s.draft <=> app.draft)
    BY <1>1 DEF Programs
  <2>2. Click(s)
    BY <1>6 DEF LeaveBuilder
  <2> HIDE DEF s
  <2> QED
    BY <1>1, <2>1, <2>2, ClickKeeps DEF Wheeled, Mirrored
<1> QED
  BY <1>2, <1>3, <1>4, <1>5, <1>6

\* Clicks in a campaign: a key, the wheel, the deck builder and its pool.
LEMMA CampaignClicksKeep ==
    ASSUME IInv, \/ \E k \in Key : PickKey(k)
                 \/ \E p \in Prizes : Spin(p)
                 \/ WheelStops \/ BuildDeck \/ ExitPool
    PROVE  IInv'
<1>1. app \in Programs /\ Wheeled(app) /\ Mirrored(app)
  BY DEF IInv, Sane
<1>2. ASSUME NEW k \in Key, PickKey(k) PROVE IInv'
  <2> DEFINE s == [app EXCEPT !.pick = IF @ = k THEN NoKey ELSE k]
  <2>1. /\ s \in Programs /\ s.wheel = app.wheel /\ s.a = app.a
        /\ (s.loaded <=> app.loaded) /\ (s.draft <=> app.draft)
    BY <1>1 DEF Programs
  <2>2. Click(s)
    BY <1>2 DEF PickKey
  <2> HIDE DEF s
  <2> QED
    BY <1>1, <2>1, <2>2, ClickKeeps DEF Wheeled, Mirrored
<1>3. ASSUME NEW p \in Prizes, Spin(p) PROVE IInv'
  <2> DEFINE w == [st |-> "spinning", prize |-> p]
             s == [app EXCEPT !.wheel = w]
  <2>1. w \in Wheels /\ w.prize = p
    BY DEF Wheels
  <2>2. Click(s)
    BY <1>3 DEF Spin
  <2> HIDE DEF w
  <2>3. /\ s \in Programs /\ s.wheel = w /\ s.a = app.a
        /\ (s.loaded <=> app.loaded) /\ (s.draft <=> app.draft)
    BY <1>1, <2>1 DEF Programs
  <2> HIDE DEF s
  <2> QED
    BY <1>1, <2>1, <2>2, <2>3, ClickKeeps DEF Wheeled, Mirrored
<1>4. CASE WheelStops
  <2> DEFINE w == [app.wheel EXCEPT !.st = "result"]
             s == [app EXCEPT !.wheel = w]
  <2>1. app.wheel.st = "spinning" /\ app.wheel.prize \in Prizes /\ app.wheel \in Wheels
    BY <1>1, <1>4 DEF WheelStops, Wheeled, Programs
  <2>2. w \in Wheels /\ w.prize = app.wheel.prize
    BY <2>1 DEF Wheels
  <2>3. Click(s)
    BY <1>4 DEF WheelStops
  <2> HIDE DEF w
  <2>4. /\ s \in Programs /\ s.wheel = w /\ s.a = app.a
        /\ (s.loaded <=> app.loaded) /\ (s.draft <=> app.draft)
    BY <1>1, <2>2 DEF Programs
  <2> HIDE DEF s
  <2> QED
    BY <1>1, <2>1, <2>2, <2>3, <2>4, ClickKeeps DEF Wheeled, Mirrored
<1>5. CASE BuildDeck
  <2> DEFINE s == [app EXCEPT !.screen = "Builder", !.gated = TRUE]
  <2>1. /\ s \in Programs /\ s.wheel = app.wheel /\ s.a = app.a
        /\ (s.loaded <=> app.loaded) /\ (s.draft <=> app.draft)
    BY <1>1 DEF Programs
  <2>2. Click(s)
    BY <1>5 DEF BuildDeck
  <2> HIDE DEF s
  <2> QED
    BY <1>1, <2>1, <2>2, ClickKeeps DEF Wheeled, Mirrored
<1>6. CASE ExitPool
  <2> DEFINE b == NoSave(Sealed)
             s == [app EXCEPT !.gated = FALSE, !.draft = FALSE, !.loaded = FALSE, !.a = b]
             t == [app EXCEPT !.gated = FALSE]
  <2>1. b \in Saves
    BY NewSave DEF Names
  <2>2. Click(s) \/ Click(t)
    BY <1>6 DEF ExitPool
  <2> HIDE DEF b
  <2>3. s \in Programs /\ s.wheel = app.wheel /\ ~s.loaded
    BY <1>1, <2>1 DEF Programs
  <2>4. /\ t \in Programs /\ t.wheel = app.wheel /\ t.a = app.a
        /\ (t.loaded <=> app.loaded) /\ (t.draft <=> app.draft)
    BY <1>1 DEF Programs
  <2> HIDE DEF s, t
  <2>5. CASE Click(s)
    BY <1>1, <2>3, <2>5, ClickKeeps DEF Wheeled, Mirrored
  <2>6. CASE Click(t)
    BY <1>1, <2>4, <2>6, ClickKeeps DEF Wheeled, Mirrored
  <2> QED
    BY <2>2, <2>5, <2>6
<1> QED
  BY <1>2, <1>3, <1>4, <1>5, <1>6

\* Reading a campaign.
LEMMA LoadKeeps ==
    ASSUME IInv, NEW n \in Name, Load(n) \/ Continue(n)
    PROVE  IInv'
<1> DEFINE f == file[n]
           s == [app EXCEPT !.loaded = TRUE, !.a = f, !.pick = NoKey]
           t == [app EXCEPT !.loaded = TRUE, !.a = f]
<1>1. app \in Programs /\ Wheeled(app) /\ Mirrored(app)
  BY DEF IInv, Sane
<1>2. f \in Saves /\ f.name = n
  BY DEF IInv, FilesInv, Names
<1>3. f.exists
  BY DEF Load, Continue
<1>4. Click(s) \/ Click(t)
  BY DEF Load, Continue
<1> HIDE DEF f
<1>5. s \in Programs /\ s.wheel = app.wheel /\ s.a = f
  BY <1>1, <1>2 DEF Programs
<1>6. t \in Programs /\ t.wheel = app.wheel /\ t.a = f
  BY <1>1, <1>2 DEF Programs
<1> HIDE DEF s, t
<1>7. CASE Click(s)
  BY <1>1, <1>2, <1>3, <1>5, <1>7, ClickKeeps DEF Wheeled, Mirrored, f
<1>8. CASE Click(t)
  BY <1>1, <1>2, <1>3, <1>6, <1>8, ClickKeeps DEF Wheeled, Mirrored, f
<1> QED
  BY <1>4, <1>7, <1>8

\* Leaving a campaign.
LEMMA LeavingKeeps ==
    ASSUME IInv, Back \/ CloseSave \/ CloseRun
    PROVE  IInv'
<1>1. app \in Programs /\ Wheeled(app) /\ Mirrored(app) /\ app.screen = "Arcade"
  BY DEF IInv, Sane, Back, CloseSave, CloseRun, RunView, SetView, At
<1>2. ~app.draft
  BY <1>1 DEF IInv, Sane
<1>3. file' = IF app.loaded THEN [file EXCEPT ![app.a.name] = app.a] ELSE file
  BY DEF Back, CloseSave, CloseRun, RunView, SetView
<1>4. file' = file /\ log' = log
  BY <1>1, <1>3, SavedAgain DEF Back, CloseSave, CloseRun
<1>5. \/ app' = [app EXCEPT !.screen = "Lobby"]
      \/ app' = [app EXCEPT !.mode = 0, !.loaded = FALSE]
      \/ app' = [app EXCEPT !.loaded = FALSE]
  BY DEF Back, CloseSave, CloseRun
<1>6. /\ app' \in Programs /\ app'.wheel = app.wheel /\ app'.a = app.a
      /\ (app'.draft <=> app.draft) /\ (app'.loaded => app.loaded)
  <2>1. CASE app' = [app EXCEPT !.screen = "Lobby"]
    BY <1>1, <2>1 DEF Programs
  <2>2. CASE app' = [app EXCEPT !.mode = 0, !.loaded = FALSE]
    BY <1>1, <2>2 DEF Programs
  <2>3. CASE app' = [app EXCEPT !.loaded = FALSE]
    BY <1>1, <2>3 DEF Programs
  <2> QED
    BY <1>5, <2>1, <2>2, <2>3
<1>7. Sane(app')
  BY <1>1, <1>2, <1>6 DEF Sane, Wheeled
<1>8. Mirrored(app')
  BY <1>1, <1>2, <1>4, <1>6 DEF Mirrored
<1> QED
  BY <1>4, <1>7, <1>8, FilesSame

\* A draft: a campaign in memory only.
LEMMA StartDraftKeeps ==
    ASSUME IInv, NEW cards \in Packs, StartDraft(cards)
    PROVE  IInv'
<1> DEFINE d == NoSave(Sealed)
           b == AddCards(d, cards)
<1>1. app \in Programs /\ Wheeled(app) /\ app.screen = "Arcade"
  BY DEF IInv, Sane, StartDraft, At
<1>2. d \in Saves
  BY NewSave DEF Names
<1>3. cards \in SUBSET Card
  BY DEF Packs
<1>4. b \in Saves
  BY <1>2, <1>3, AddCardsIs
<1>5. file' = file /\ log' = log
  BY <1>1, SavedAgain DEF StartDraft
<1>6. app' = [app EXCEPT !.screen = "Builder", !.loaded = TRUE, !.draft = TRUE,
                         !.gated = TRUE, !.a = b]
  BY DEF StartDraft, NoSave
<1> HIDE DEF b
<1>7. /\ app' \in Programs /\ app'.wheel = app.wheel /\ app'.draft = TRUE
      /\ app'.screen = "Builder"
  BY <1>1, <1>4, <1>6 DEF Programs
<1>8. Sane(app') /\ Mirrored(app')
  BY <1>1, <1>7 DEF Sane, Wheeled, Mirrored
<1> QED
  BY <1>5, <1>8, FilesSame

\* Deleting a campaign that is not in memory.
LEMMA DeleteKeeps ==
    ASSUME IInv, NEW n \in Name, Delete(n)
    PROVE  IInv'
<1> DEFINE b == NoSave(n)
<1>1. n \in Names /\ Sane(app) /\ ~app.loaded
  BY DEF Names, IInv, Delete, FileList
<1>2. b \in Saves /\ b.name = n /\ ~b.exists /\ NoLog \in Logs
  BY <1>1, NewSave
<1>3. file' = [file EXCEPT ![n] = b] /\ log' = [log EXCEPT ![n] = NoLog] /\ app' = app
  BY DEF Delete, Note
<1> HIDE DEF b
<1>4. Sane(app') /\ ~app'.loaded
  BY <1>1, <1>3
<1> QED
  BY <1>2, <1>3, <1>4, FileWritten

\* A new campaign, or a new run: nothing was given yet.
LEMMA CreateKeeps ==
    ASSUME IInv, NEW n \in Name, Create(n) \/ StartRun(n)
    PROVE  IInv'
<1> DEFINE a == ArcadeSave(n)
           r == [a EXCEPT !.prog = 0]
<1>1. /\ app \in Programs /\ Wheeled(app) /\ app.screen = "Arcade" /\ ~app.draft
      /\ n \in Names /\ ~file[n].exists
  BY DEF IInv, Sane, Create, StartRun, FileList, StartPage, At, Names
<1>2. log[n] = NoLog /\ log \in [Names -> Logs]
  BY <1>1 DEF IInv, FilesInv
<1>3. a \in Saves /\ a.name = n /\ a.exists /\ Balanced(a, NoLog) /\ NoLog \in Logs
  BY <1>1, NewSave
<1>4. \/ /\ app' = [app EXCEPT !.loaded = TRUE, !.a = a, !.pick = NoKey]
         /\ file' = [file EXCEPT ![n] = a]
      \/ /\ app' = [app EXCEPT !.loaded = TRUE, !.a = r]
         /\ file' = [file EXCEPT ![n] = r]
  BY DEF Create, StartRun
<1>5. log' = log
  BY DEF Create, StartRun
<1>6. log' = [log EXCEPT ![n] = NoLog]
  BY <1>1, <1>2, <1>5
<1> HIDE DEF a
<1>7. /\ r \in Saves /\ r.name = n /\ r.exists /\ r.pool = a.pool /\ r.sr = a.sr /\ r.nr = a.nr
      /\ r.master = a.master /\ r.secret = a.secret
  BY <1>3 DEF Saves
<1>8. Balanced(r, NoLog)
  BY <1>3, <1>7 DEF Balanced
<1> HIDE DEF r
<1>9. ASSUME NEW e \in Saves, e.name = n, e.exists, Balanced(e, NoLog),
             \/ app' = [app EXCEPT !.loaded = TRUE, !.a = e, !.pick = NoKey]
             \/ app' = [app EXCEPT !.loaded = TRUE, !.a = e],
             file' = [file EXCEPT ![n] = e]
      PROVE  IInv'
  <2>1. /\ app' \in Programs /\ app'.wheel = app.wheel /\ app'.a = e
        /\ (app'.draft <=> app.draft)
    <3>1. CASE app' = [app EXCEPT !.loaded = TRUE, !.a = e, !.pick = NoKey]
      BY <1>1, <3>1 DEF Programs
    <3>2. CASE app' = [app EXCEPT !.loaded = TRUE, !.a = e]
      BY <1>1, <3>2 DEF Programs
    <3> QED
      BY <1>9, <3>1, <3>2
  <2>2. Sane(app')
    BY <1>1, <2>1 DEF Sane, Wheeled
  <2> QED
    BY <1>3, <1>6, <1>9, <2>1, <2>2, FileWritten
<1> QED
  BY <1>3, <1>4, <1>7, <1>8, <1>9

\* The program, when it starts.
LEMMA AppInitIs ==
    AppInit \in Programs /\ AppInit.wheel = Idle /\ ~AppInit.loaded /\ ~AppInit.draft
BY NewSave, IdleIs DEF AppInit, Programs, Names

\* A kill, and one in the middle of a save: what is on file then is a fresh
\* campaign, or one without some of its cards.
LEMMA KilledKeeps ==
    ASSUME IInv, Killed \/ KilledWhileSaving
    PROVE  IInv'
<1>1. app' = AppInit
  BY DEF Killed, KilledWhileSaving, Kill
<1>2. Sane(app') /\ ~app'.loaded /\ Mirrored(app')
  BY <1>1, AppInitIs, IdleIs DEF Sane, Wheeled, Mirrored
<1>3. CASE Killed
  <2>1. file' = file /\ log' = log
    BY <1>3 DEF Killed
  <2> QED
    BY <1>2, <2>1, FilesSame
<1>4. CASE KilledWhileSaving
  <2> DEFINE n == app.a.name
             l == [log[n] EXCEPT !.torn = TRUE]
  <2>1. app.loaded /\ app.screen = "Arcade"
    BY <1>4 DEF KilledWhileSaving
  <2>2. /\ app.a \in Saves /\ n \in Name /\ n \in Names /\ app.a.exists
        /\ log[n] \in Logs /\ Balanced(app.a, log[n])
    BY <2>1, RunIs DEF Names
  <2>3. /\ l \in Logs /\ l.torn = TRUE /\ l.cards = log[n].cards
        /\ l.credits = log[n].credits
    BY <2>2 DEF Logs
  <2>4. log' = [log EXCEPT ![n] = l]
    BY <1>4 DEF KilledWhileSaving, Note
  <2> HIDE DEF l
  <2>5. /\ app.a.sr \in Nat /\ app.a.nr \in Nat /\ app.a.pool \in Pools
        /\ SumFunction(app.a.pool) \in Nat /\ l.cards \in Nat /\ l.credits \in Int
        /\ SumFunction(app.a.pool) <= l.cards /\ app.a.sr + app.a.nr <= l.credits
    BY <2>2, <2>3, SumType DEF Saves, Logs, Balanced
  <2>6. ASSUME NEW e \in Saves, e.name = n, e.exists, file' = [file EXCEPT ![n] = e],
               SumFunction(e.pool) <= l.cards, e.sr + e.nr <= l.credits
        PROVE  IInv'
    <3>1. Balanced(e, l)
      BY <2>3, <2>6 DEF Balanced
    <3> QED
      BY <1>2, <2>2, <2>3, <2>4, <2>6, <3>1, FileWritten
  <2>7. CASE file' = [file EXCEPT ![n] = ArcadeSave(n)]
    <3> DEFINE e == ArcadeSave(n)
    <3>1. e \in Saves /\ e.name = n /\ e.exists
      BY <2>2, NewSave
    <3>2. e.pool = [c \in Card |-> 0] /\ e.sr = 0 /\ e.nr = 0
      BY DEF ArcadeSave
    <3> HIDE DEF e
    <3>3. SumFunction(e.pool) <= l.cards /\ e.sr + e.nr <= l.credits
      BY <2>5, <3>2, SumZero
    <3> QED
      BY <2>6, <2>7, <3>1, <3>3 DEF e
  <2>8. ASSUME NEW kept \in SUBSET Card, file' = [file EXCEPT ![n] = WithCards(app.a, kept)]
        PROVE  IInv'
    <3> DEFINE g == [c \in Card |-> IF c \in kept THEN app.a.pool[c] ELSE 0]
               e == WithCards(app.a, kept)
    <3>1. g \in Pools /\ \A c \in Card : g[c] <= app.a.pool[c]
      BY <2>5 DEF Pools
    <3>2. SumFunction(g) <= SumFunction(app.a.pool) /\ SumFunction(g) \in Nat
      BY <2>5, <3>1, SumLess, SumType
    <3>3. e = [app.a EXCEPT !.pool = g]
      BY DEF WithCards
    <3> HIDE DEF e, g
    <3>4. e \in Saves /\ e.name = n /\ e.exists /\ e.pool = g /\ e.sr = app.a.sr /\ e.nr = app.a.nr
      BY <2>2, <3>1, <3>3 DEF Saves
    <3>5. SumFunction(e.pool) <= l.cards
      BY <2>5, <3>2, <3>4
    <3> QED
      BY <2>5, <2>6, <2>8, <3>4, <3>5 DEF e
  <2> QED
    BY <1>4, <2>7, <2>8 DEF KilledWhileSaving
<1> QED
  BY <1>3, <1>4

-----------------------------------------------------------------------------
(* Together.                                                                *)

\* The invariant holds when the program is first started: there is no file.
LEMMA InitIsSound == Init => IInv
<1> SUFFICES ASSUME Init PROVE IInv
  OBVIOUS
<1>1. file = [n \in Names |-> NoSave(n)] /\ log = [n \in Names |-> NoLog] /\ app = AppInit
  BY DEF Init, Names
<1>2. \A n \in Names : NoSave(n) \in Saves /\ NoSave(n).name = n /\ ~NoSave(n).exists
  BY NewSave
<1>3. NoLog \in Logs
  BY DEF NoLog, Logs
<1>4. FilesInv
  BY <1>1, <1>2, <1>3 DEF FilesInv, Names
<1>5. Sane(app) /\ Mirrored(app)
  BY <1>1, AppInitIs, IdleIs DEF Sane, Wheeled, Mirrored
<1> QED
  BY <1>4, <1>5 DEF IInv

\* Every step keeps the invariant.
LEMMA StepIsSound == IInv /\ [Next]_vars => IInv'
<1> SUFFICES ASSUME IInv, [Next]_vars PROVE IInv'
  OBVIOUS
<1>1. CASE MasterSaga
  BY <1>1, LoadKeeps, DeleteKeeps, CreateKeeps, OpenMasterKeeps, OpenSecretKeeps, CraftKeeps,
     RecordResultKeeps, ClaimKeeps, CampaignClicksKeep, LeavingKeeps DEF MasterSaga
<1>2. CASE Progression
  BY <1>2, LoadKeeps, CreateKeeps, OpenSetKeeps, LostSetKeeps, WonSetKeeps, LeavingKeeps
  DEF Progression
<1>3. CASE Screens
  BY <1>3, ScreensKeep, LeavingKeeps, StartDraftKeeps, CampaignClicksKeep DEF Screens
<1>4. CASE Killed \/ KilledWhileSaving
  BY <1>4, KilledKeeps
<1>5. CASE UNCHANGED vars
  <2>1. file' = file /\ log' = log /\ app' = app
    BY <1>5 DEF vars
  <2>2. Sane(app') /\ Mirrored(app')
    BY <2>1 DEF IInv, Mirrored
  <2> QED
    BY <2>1, <2>2, FilesSame
<1> QED
  BY <1>1, <1>2, <1>3, <1>4, <1>5 DEF Next

\* What is on file is what was given less what was spent, whatever is
\* clicked and whenever the program is killed (BooksBalance).
THEOREM BooksAlwaysBalance == Spec => []BooksBalance
<1>1. IInv => BooksBalance
  BY BooksAreBalanced
<1> QED
  BY <1>1, InitIsSound, StepIsSound, PTL DEF Spec

=============================================================================
