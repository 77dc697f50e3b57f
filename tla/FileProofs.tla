---------------------------- MODULE FileProofs ----------------------------
(***************************************************************************)
(* Proofs about what the program writes and reads back: ReplayLibrary and  *)
(* DeckBuilder.  What is played is what was recorded, and a duel saved when *)
(* it ended stays in the folder; a deck that shows no unsaved changes is in *)
(* its file, Tidy makes a deck legal, and what is shared is pasted card by *)
(* card -- for any number of files, replies, cards and decks.              *)
(*                                                                         *)
(* Both modules compute with FoldLeft, which the first section reduces to  *)
(* the values it goes through: no induction is used, a least counterexample *)
(* is.                                                                     *)
(***************************************************************************)
EXTENDS ReplayLibrary, DeckBuilder, SequenceTheorems, FiniteSetTheorems,
        WellFoundedInduction, TLAPS

-----------------------------------------------------------------------------
(* Folds over sequences.                                                    *)

\* A set of numbers has a least one.
LEMMA Least ==
    ASSUME NEW S \in SUBSET Nat, S # {}
    PROVE  \E m \in S : \A k \in S : m <= k
<1>1. PICK m \in S : \A k \in S : ~(<<k, m>> \in OpToRel(<, Nat))
  BY NatLessThanWellFounded, WFMin
<1>2. \A k \in S : ~(k < m)
  BY <1>1 DEF OpToRel
<1> QED
  BY <1>2

\* A set of positions has a greatest one, which Max is.
LEMMA Greatest ==
    ASSUME NEW n \in Nat, NEW S \in SUBSET (1..n), S # {}
    PROVE  /\ Max(S) \in S
         /\ \A y \in S : Max(S) >= y
<1> DEFINE T == {n - x : x \in S}
<1>1. T \in SUBSET Nat /\ T # {}
  <2>1. \A x \in S : x \in 1..n /\ n - x \in Nat
    OBVIOUS
  <2> QED
    BY <2>1
<1>2. PICK m \in T : \A k \in T : m <= k
  BY <1>1, Least
<1>3. PICK x \in S : m = n - x
  BY <1>2
<1>4. \A y \in S : x >= y
  <2> TAKE y \in S
  <2>1. n - y \in T
    OBVIOUS
  <2>2. m <= n - y
    BY <1>2, <2>1
  <2> QED
    BY <1>3, <2>2
<1> QED
  BY <1>4 DEF Max

\* Without its greatest, a set of positions lies lower.
LEMMA WithoutGreatest ==
    ASSUME NEW m \in Nat, NEW S \in SUBSET (1..m), S # {}
    PROVE  m > 0 /\ S \ {Max(S)} \in SUBSET (1..(m - 1))
<1>1. Max(S) \in S /\ \A y \in S : Max(S) >= y
  BY Greatest
<1>2. \A y \in S : y \in 1..m /\ Max(S) \in 1..m
  BY <1>1
<1>3. ASSUME NEW y \in S \ {Max(S)}
      PROVE  y \in 1..(m - 1)
  BY <1>1, <1>2
<1>4. m > 0
  <2>1. Max(S) \in 1..m
    BY <1>1
  <2> QED
    BY <2>1
<1> QED
  BY <1>3, <1>4

\* The greatest of all positions is the last.
LEMMA GreatestOfAll ==
    ASSUME NEW m \in Nat, m > 0
    PROVE  Max(1..m) = m /\ (1..m) \ {m} = 1..(m - 1) /\ 1..m # {}
<1> DEFINE S == 1..m
<1>1. m \in S
  OBVIOUS
<1>2. S # {} /\ S \in SUBSET (1..m)
  BY <1>1
<1>3. S = 1..m
  OBVIOUS
<1> HIDE DEF S
<1>4. Max(S) \in S /\ Max(S) >= m
  BY <1>1, <1>2, Greatest
<1>5. Max(S) = m
  BY <1>3, <1>4
<1>6. S \ {m} = 1..(m - 1)
  BY <1>3
<1> QED
  BY <1>5, <1>2, <1>3, <1>6

\* What holds at 0, and at k when it holds at k - 1, holds up to n.
LEMMA Upto ==
    ASSUME NEW n \in Nat, NEW P, 0 \in P, \A k \in 1..n : k - 1 \in P => k \in P
    PROVE  \A k \in 0..n : k \in P
<1> DEFINE Bad == {k \in 0..n : k \notin P}
<1> SUFFICES ASSUME Bad # {} PROVE FALSE
  OBVIOUS
<1>1. Bad \in SUBSET Nat
  OBVIOUS
<1>2. PICK m \in Bad : \A k \in Bad : m <= k
  BY ONLY <1>1, Bad # {}, Least
<1>3. m \in 0..n /\ m \notin P
  BY <1>2
<1>4. m # 0
  BY <1>3
<1>5. m \in 1..n /\ m - 1 \in 0..n
  BY <1>3, <1>4
<1>6. m - 1 \notin P
  BY <1>3, <1>5
<1>7. ~(m <= m - 1)
  BY <1>5
<1> QED
  BY <1>2, <1>5, <1>6, <1>7

\* it is the fold of data from base with F, over every set of positions.
Folding(it, F, base, data, n) ==
    it = [S \in SUBSET (1..n) |->
            IF S = {} THEN base ELSE F[<<it[S \ {Max(S)}], data[Max(S)]>>]]

\* Such a fold exists: of the lengths it does not exist for, none is the least.
LEMMA FoldExists ==
    ASSUME NEW F, NEW base, NEW data, NEW n \in Nat
    PROVE  \E it : Folding(it, F, base, data, n)
<1> DEFINE Bad == {m \in Nat : ~ \E it : Folding(it, F, base, data, m)}
<1> SUFFICES ASSUME Bad # {} PROVE FALSE
  OBVIOUS
<1>1. PICK m \in Bad : \A k \in Bad : m <= k
  BY Least
<1>2. CASE m = 0
  <2> DEFINE it == [S \in SUBSET (1..0) |-> base]
  <2>1. SUBSET (1..0) = {{}}
    OBVIOUS
  <2>2. it = [S \in SUBSET (1..0) |->
                IF S = {} THEN base ELSE F[<<it[S \ {Max(S)}], data[Max(S)]>>]]
    BY <2>1
  <2> QED
    BY <1>1, <1>2, <2>2 DEF Folding
<1>3. CASE m # 0
  <2>1. m - 1 \in Nat /\ m - 1 \notin Bad
    BY <1>1, <1>3
  <2>2. PICK h : Folding(h, F, base, data, m - 1)
    BY <2>1
  <2> DEFINE D == SUBSET (1..m)
             it == [S \in D |->
                      IF S = {} THEN base ELSE F[<<h[S \ {Max(S)}], data[Max(S)]>>]]
  <2>3. ASSUME NEW S \in D, S # {}
        PROVE  it[S \ {Max(S)}] = h[S \ {Max(S)}]
    <3> DEFINE T == S \ {Max(S)}
    <3>1. T \in D /\ T \in SUBSET (1..(m - 1))
      BY <2>1, <2>3, WithoutGreatest
    <3>2. h[T] = IF T = {} THEN base ELSE F[<<h[T \ {Max(T)}], data[Max(T)]>>]
      BY <2>2, <3>1 DEF Folding
    <3> QED
      BY <3>1, <3>2
  <2>4. it = [S \in D |->
                IF S = {} THEN base ELSE F[<<it[S \ {Max(S)}], data[Max(S)]>>]]
    BY <2>3
  <2> QED
    BY <1>1, <2>4 DEF Folding
<1> QED
  BY <1>2, <1>3

\* h is computed as FoldLeft does, as long as its values stay in A.
Computes(h, A, F, base, data, n) ==
    \A S \in SUBSET (1..n) :
        /\ S = {} => h[S] = base
        /\ S # {} /\ h[S \ {Max(S)}] \in A =>
             h[S] = F[<<h[S \ {Max(S)}], data[Max(S)]>>]

\* G has the values of the fold, one after each of the n elements.
Runs(G, A, F, base, data, n) ==
    /\ G \in [0..n -> A] /\ G[0] = base
    /\ \A k \in 1..n : G[k] = F[<<G[k - 1], data[k]>>]

\* What a fold needs to stay in A.
Foldable(A, B, F, base, data, n) ==
    F \in [A \X B -> A] /\ base \in A /\ data \in Seq(B) /\ n \in Nat /\ n = Len(data)

\* A fold whose step stays in A runs through its elements in order.
LEMMA FoldRuns ==
    ASSUME NEW A, NEW B, NEW F, NEW base, NEW data, NEW n, NEW h,
           Foldable(A, B, F, base, data, n), Computes(h, A, F, base, data, n)
    PROVE  \E G : Runs(G, A, F, base, data, n) /\ G[n] = h[1..n]
<1> USE DEF Foldable
<1> DEFINE P == {k \in 0..n :
                   h[1..k] \in A /\ (k > 0 => h[1..k] = F[<<h[1..(k - 1)], data[k]>>])}
<1>1. 0 \in P
  <2>1. 1..0 = {} /\ 1..0 \in SUBSET (1..n)
    OBVIOUS
  <2>2. h[1..0] = base
    BY <2>1 DEF Computes
  <2> QED
    BY <2>2
<1>2. ASSUME NEW k \in 1..n, k - 1 \in P PROVE k \in P
  <2>1. k \in Nat /\ k > 0 /\ 1..k \in SUBSET (1..n)
    OBVIOUS
  <2>2. Max(1..k) = k /\ (1..k) \ {k} = 1..(k - 1) /\ 1..k # {}
    BY <2>1, GreatestOfAll
  <2>3. h[1..(k - 1)] \in A
    BY <1>2
  <2>4. h[1..k] = F[<<h[1..(k - 1)], data[k]>>]
    BY <2>1, <2>2, <2>3 DEF Computes
  <2>5. data[k] \in B
    BY ElementOfSeq
  <2> DEFINE x == h[1..(k - 1)]
             y == h[1..k]
             e == data[k]
  <2> HIDE DEF x, y, e
  <2>6. F[<<x, e>>] \in A
    BY <2>3, <2>5 DEF x, e
  <2>7. y \in A
    BY <2>4, <2>6 DEF x, y, e
  <2> QED
    BY <2>4, <2>7 DEF y
<1>3. \A k \in 0..n : k \in P
  <2> HIDE DEF P
  <2> QED
    BY <1>1, <1>2, Upto
<1> DEFINE G == [k \in 0..n |-> h[1..k]]
<1>4. G \in [0..n -> A]
  BY <1>3
<1>5. G[0] = base
  <2>1. 1..0 = {} /\ 1..0 \in SUBSET (1..n) /\ 0 \in 0..n
    OBVIOUS
  <2>2. h[1..0] = base
    BY <2>1 DEF Computes
  <2> QED
    BY <2>1, <2>2
<1>6. ASSUME NEW k \in 1..n PROVE G[k] = F[<<G[k - 1], data[k]>>]
  <2>1. k \in 0..n /\ k - 1 \in 0..n /\ k > 0
    OBVIOUS
  <2>2. h[1..k] = F[<<h[1..(k - 1)], data[k]>>]
    BY <1>3, <2>1
  <2> QED
    BY <2>1, <2>2
<1>7. G[n] = h[1..n]
  OBVIOUS
<1>8. Runs(G, A, F, base, data, n)
  BY <1>4, <1>5, <1>6 DEF Runs
<1> QED
  BY <1>7, <1>8

\* Nor does a fold leave A on its way.
LEMMA FoldStays ==
    ASSUME NEW A, NEW B, NEW F \in [A \X B -> A], NEW base \in A, NEW data \in Seq(B),
           NEW n \in Nat, n = Len(data), NEW it, Folding(it, F, base, data, n)
    PROVE  \A S \in SUBSET (1..n) : it[S] \in A
<1> DEFINE P == {k \in 0..n : \A S \in SUBSET (1..k) : it[S] \in A}
<1>1. 0 \in P
  <2>1. {} \in SUBSET (1..n) /\ 0 \in 0..n /\ 1..0 = {}
    OBVIOUS
  <2>2. it[{}] = base
    BY <2>1 DEF Folding
  <2>3. ASSUME NEW S \in SUBSET (1..0) PROVE it[S] \in A
    <3>1. S = {}
      BY <2>1
    <3> QED
      BY <2>2, <3>1
  <2> QED
    BY <2>1, <2>3
<1>2. ASSUME NEW k \in 1..n, k - 1 \in P PROVE k \in P
  <2>1. ASSUME NEW S \in SUBSET (1..k) PROVE it[S] \in A
    <3>1. S \in SUBSET (1..n) /\ k \in Nat
      OBVIOUS
    <3>2. CASE S = {}
      BY <3>1, <3>2 DEF Folding
    <3>3. CASE S # {}
      <4> DEFINE m == Max(S)
      <4>1. S \ {m} \in SUBSET (1..(k - 1))
        BY <3>1, <3>3, WithoutGreatest
      <4>2. m \in S /\ m \in 1..n
        BY <3>1, <3>3, Greatest
      <4>3. it[S] = F[<<it[S \ {m}], data[m]>>]
        BY <3>1, <3>3 DEF Folding
      <4> HIDE DEF m
      <4>4. it[S \ {m}] \in A
        BY <1>2, <4>1
      <4>5. data[m] \in B
        BY <4>2, ElementOfSeq
      <4> DEFINE x == it[S \ {m}]
                 e == data[m]
      <4> HIDE DEF x, e
      <4>6. F[<<x, e>>] \in A
        BY <4>4, <4>5 DEF x, e
      <4> QED
        BY <4>3, <4>6 DEF x, e
    <3> QED
      BY <3>2, <3>3
  <2> QED
    BY <2>1
<1>3. \A k \in 0..n : k \in P
  <2> HIDE DEF P
  <2> QED
    BY <1>1, <1>2, Upto
<1>4. n \in 0..n
  OBVIOUS
<1> QED
  BY <1>3, <1>4

\* The first k elements of q.
Prefix(q, k) == [i \in 1..k |-> q[i]]

Prefixed(B, q, n) ==
    /\ \A k \in 0..n : Prefix(q, k) \in Seq(B) /\ Len(Prefix(q, k)) = k
    /\ Prefix(q, 0) = <<>> /\ Prefix(q, n) = q
    /\ \A k \in 1..n : Append(Prefix(q, k - 1), q[k]) = Prefix(q, k)

\* Prefixes grow by an element at a time, from none to all.
LEMMA PrefixIs ==
    ASSUME NEW B, NEW q \in Seq(B), NEW n, n = Len(q)
    PROVE  Prefixed(B, q, n)
<1>1. n \in Nat /\ q \in [1..n -> B]
  OBVIOUS
<1>2. ASSUME NEW k \in 0..n
      PROVE  Prefix(q, k) \in Seq(B) /\ Len(Prefix(q, k)) = k
  <2>1. k \in Nat /\ \A i \in 1..k : q[i] \in B
    BY <1>1
  <2> QED
    BY <2>1 DEF Prefix
<1>3. Prefix(q, 0) = <<>>
  BY DEF Prefix
<1>4. Prefix(q, n) = q
  BY <1>1 DEF Prefix
<1>5. ASSUME NEW k \in 1..n
      PROVE  Append(Prefix(q, k - 1), q[k]) = Prefix(q, k)
  <2> DEFINE p == Prefix(q, k - 1)
             r == Append(p, q[k])
  <2>1. k - 1 \in 0..n /\ k \in Nat /\ q[k] \in B
    BY <1>1
  <2>2. p \in Seq(B) /\ Len(p) = k - 1
    BY <1>2, <2>1
  <2>3. \A i \in 1..(k - 1) : p[i] = q[i]
    BY DEF Prefix
  <2> HIDE DEF p
  <2>4. Len(r) = k /\ r[k] = q[k] /\ \A i \in 1..(k - 1) : r[i] = p[i]
    BY <2>1, <2>2, AppendProperties
  <2>5. r = [i \in 1..k |-> r[i]]
    <3>1. r \in Seq(B)
      BY <2>1, <2>2, AppendProperties
    <3> HIDE DEF r
    <3> QED
      BY <2>4, <3>1
  <2> HIDE DEF r
  <2>6. \A i \in 1..k : r[i] = q[i]
    <3> TAKE i \in 1..k
    <3>1. CASE i = k
      BY <2>4, <3>1
    <3>2. CASE i # k
      <4>1. i \in 1..(k - 1)
        BY <2>1, <3>2
      <4> QED
        BY <2>3, <2>4, <4>1
    <3> QED
      BY <3>1, <3>2
  <2>7. r = Prefix(q, k)
    BY <2>5, <2>6 DEF Prefix
  <2> QED
    BY <2>7 DEF r, p
<1> QED
  BY <1>2, <1>3, <1>4, <1>5 DEF Prefixed

-----------------------------------------------------------------------------
(* Replay::load as a fold.                                                  *)

\* it is the fold of data from r0, over every set of positions.
LoadFolding(it, r0, data, n) ==
  it = [S \in SUBSET (1..n) |-> IF S = {} THEN r0 ELSE Applied(it[S \ {Max(S)}], data[Max(S)])]

\* Such a fold exists: of the lengths it does not exist for, none is the least.
LEMMA LoadFoldExists ==
    ASSUME NEW r0, NEW data, NEW n \in Nat
    PROVE  \E it : LoadFolding(it, r0, data, n)
<1> DEFINE Bad == {m \in Nat : ~ \E it : LoadFolding(it, r0, data, m)}
<1> SUFFICES ASSUME Bad # {} PROVE FALSE
  OBVIOUS
<1>1. PICK m \in Bad : \A k \in Bad : m <= k
  BY Least
<1>2. CASE m = 0
  <2> DEFINE it == [S \in SUBSET (1..0) |-> r0]
  <2>1. SUBSET (1..0) = {{}}
    OBVIOUS
  <2>2. it = [S \in SUBSET (1..0) |-> IF S = {} THEN r0 ELSE Applied(it[S \ {Max(S)}], data[Max(S)])]
    BY <2>1
  <2> QED
    BY <1>2, <2>2 DEF LoadFolding
<1>3. CASE m # 0
  <2>1. m - 1 \in Nat /\ m - 1 \notin Bad
    BY <1>1, <1>3
  <2>2. PICK h : LoadFolding(h, r0, data, m - 1)
    BY <2>1
  <2> DEFINE D == SUBSET (1..m)
             it == [S \in D |-> IF S = {} THEN r0 ELSE Applied(h[S \ {Max(S)}], data[Max(S)])]
  <2>3. ASSUME NEW S \in D, S # {}
        PROVE  it[S \ {Max(S)}] = h[S \ {Max(S)}]
    <3> DEFINE t == S \ {Max(S)}
    <3>1. t \in D /\ t \in SUBSET (1..(m - 1))
      BY <2>1, <2>3, WithoutGreatest
    <3>2. h[t] = IF t = {} THEN r0 ELSE Applied(h[t \ {Max(t)}], data[Max(t)])
      BY <2>2, <3>1 DEF LoadFolding
    <3> QED
      BY <3>1, <3>2
  <2>4. it = [S \in D |-> IF S = {} THEN r0 ELSE Applied(it[S \ {Max(S)}], data[Max(S)])]
    BY <2>3
  <2> QED
    BY <2>4 DEF LoadFolding
<1> QED
  BY <1>2, <1>3

\* What Replay::load makes of a struct r and a file.
Loaded(r, data) == FoldLeft(Applied, r, data)

\* G has the struct r after each of the keys of a file.
Parses(G, r, data, n) ==
    /\ DOMAIN data = 1..n /\ G[0] = r
    /\ \A k \in 1..n : G[k] = Applied(G[k - 1], data[k])

\* Replay::load parses the keys of the file in order, and ends in what
\* FoldLeft computes.
LEMMA FoldIs ==
    ASSUME NEW r0, NEW data, NEW n \in Nat, NEW G, Parses(G, r0, data, n)
    PROVE  Loaded(r0, data) = G[n]
<1> DEFINE it == CHOOSE h : LoadFolding(h, r0, data, n)
<1> USE DEF Parses
<1>1. LoadFolding(it, r0, data, n)
  BY LoadFoldExists
<1>2. Loaded(r0, data) = it[1..n]
  BY DEF Loaded, FoldLeft, MapThenFoldSet, LoadFolding
<1> DEFINE Bad == {k \in 0..n : it[1..k] # G[k]}
<1>3. Bad = {}
  <2> SUFFICES ASSUME Bad # {} PROVE FALSE
    OBVIOUS
  <2>0. Bad \in SUBSET Nat
    OBVIOUS
  <2>1. PICK m \in Bad : \A k \in Bad : m <= k
    BY ONLY <2>0, Bad # {}, Least
  <2> HIDE DEF it
  <2>2. \A k \in 0..n : 1..k \in SUBSET (1..n)
    OBVIOUS
  <2>3. ASSUME NEW S \in SUBSET (1..n)
        PROVE  it[S] = IF S = {} THEN r0 ELSE Applied(it[S \ {Max(S)}], data[Max(S)])
    BY <1>1 DEF LoadFolding
  <2>4. CASE m = 0
    <3>1. 1..m = {}
      BY <2>4
    <3>2. it[1..m] = r0
      BY <2>2, <2>3, <3>1
    <3> QED
      BY <3>2, <2>1, <2>4
  <2>5. CASE m # 0
    <3>1. m \in Nat /\ m > 0 /\ m \in 1..n /\ m - 1 \in 0..n /\ m - 1 \notin Bad
      BY <2>1, <2>5
    <3>2. Max(1..m) = m /\ (1..m) \ {m} = 1..(m - 1) /\ 1..m # {}
      BY <3>1, GreatestOfAll
    <3>3. it[1..m] = Applied(it[1..(m - 1)], data[m])
      BY <2>2, <2>3, <3>1, <3>2
    <3> QED
      BY <3>1, <3>3, <2>1
  <2> QED
    BY <2>4, <2>5
<1>4. n \in 0..n
  OBVIOUS
<1> QED
  BY <1>2, <1>3, <1>4
-----------------------------------------------------------------------------
(* The format of a replay.                                                  *)

Win == {"known", "unknown"}
Recording == [duel : Nat, win : Win, res : Seq(Reply)]
Unit == [at : {"header"}, duel : Nat, win : Win]
        \cup [at : {"response"}, hex : Seq(0..15)] \cup [at : {"end"}]

\* The digits of a byte.
LEMMA Digits ==
    ASSUME NEW x \in 0..255
    PROVE  x \div 16 \in 0..15 /\ x % 16 \in 0..15 /\ 16 * (x \div 16) + (x % 16) = x
<1>1. x \div 16 \in 0..15 /\ x % 16 \in 0..15
  OBVIOUS
<1>2. 16 * (x \div 16) + (x % 16) = x
  OBVIOUS
<1> QED
  BY <1>1, <1>2

\* Two digits for each byte.
LEMMA DigitPlaces ==
    ASSUME NEW n \in Nat
    PROVE  /\ \A i \in 1..(2 * n) : (i + 1) \div 2 \in 1..n
           /\ (2 * n) \div 2 = n
           /\ \A i \in 1..n :
                 /\ 2 * i - 1 \in 1..(2 * n) /\ 2 * i \in 1..(2 * n)
                 /\ ((2 * i - 1) + 1) \div 2 = i /\ (2 * i + 1) \div 2 = i
                 /\ (2 * i - 1) % 2 = 1 /\ (2 * i) % 2 = 0
<1>1. ASSUME NEW i \in 1..(2 * n)
      PROVE  (i + 1) \div 2 \in 1..n
  OBVIOUS
<1>2. (2 * n) \div 2 = n
  OBVIOUS
<1>3. ASSUME NEW i \in 1..n
      PROVE  /\ 2 * i - 1 \in 1..(2 * n) /\ 2 * i \in 1..(2 * n)
             /\ ((2 * i - 1) + 1) \div 2 = i /\ (2 * i + 1) \div 2 = i
             /\ (2 * i - 1) % 2 = 1 /\ (2 * i) % 2 = 0
  <2>1. 2 * i - 1 \in 1..(2 * n) /\ 2 * i \in 1..(2 * n)
    OBVIOUS
  <2>2. ((2 * i - 1) + 1) \div 2 = i
    OBVIOUS
  <2>3. (2 * i + 1) \div 2 = i
    OBVIOUS
  <2>4. (2 * i - 1) % 2 = 1
    OBVIOUS
  <2>5. (2 * i) % 2 = 0
    OBVIOUS
  <2> QED
    BY <2>1, <2>2, <2>3, <2>4, <2>5
<1> QED
  BY <1>1, <1>2, <1>3

\* A byte is what its two digits say (toHex, fromHex).
LEMMA HexRoundTrip ==
    ASSUME NEW b \in Seq(0..255)
    PROVE  ToHex(b) \in Seq(0..15) /\ FromHex(ToHex(b)) = b
<1> DEFINE h == ToHex(b)
           n == Len(b)
<1>1. n \in Nat /\ DOMAIN b = 1..n /\ \A i \in 1..n : b[i] \in 0..255
  <2>1. Len(b) \in Nat /\ DOMAIN b = 1..Len(b)
    OBVIOUS
  <2>2. \A i \in 1..Len(b) : b[i] \in 0..255
    BY ONLY b \in Seq(0..255), ElementOfSeq
  <2> QED
    BY <2>1, <2>2
<1>2. h = [i \in 1..(2 * n) |->
             IF i % 2 = 1 THEN b[(i + 1) \div 2] \div 16 ELSE b[(i + 1) \div 2] % 16]
  BY DEF ToHex
<1> HIDE DEF h, n
<1>3. ASSUME NEW i \in 1..(2 * n)
      PROVE  h[i] \in 0..15
  <2>1. b[(i + 1) \div 2] \in 0..255
    BY <1>1, DigitPlaces
  <2>2. b[(i + 1) \div 2] \div 16 \in 0..15 /\ b[(i + 1) \div 2] % 16 \in 0..15
    BY <2>1, Digits
  <2> QED
    BY <2>2, <1>2
<1>4. DOMAIN h = 1..(2 * n) /\ 2 * n \in Nat
  BY <1>1, <1>2
<1>5. h = [i \in 1..(2 * n) |-> h[i]]
  BY <1>2
<1>6. h \in Seq(0..15) /\ Len(h) = 2 * n
  <2> DEFINE k == 2 * n
  <2>1. h \in [1..k -> 0..15]
    BY <1>3, <1>5
  <2>2. DOMAIN h = 1..k /\ k \in Nat
    BY <1>4
  <2> HIDE DEF k
  <2>3. h \in Seq(0..15)
    BY ONLY <2>1, <2>2
  <2>4. Len(h) = k
    BY ONLY <2>2, <2>3, LenProperties
  <2> QED
    BY <2>3, <2>4 DEF k
<1>7. ASSUME NEW i \in 1..n
      PROVE  16 * h[2 * i - 1] + h[2 * i] = b[i]
  <2>1. /\ 2 * i - 1 \in 1..(2 * n) /\ 2 * i \in 1..(2 * n)
        /\ ((2 * i - 1) + 1) \div 2 = i /\ (2 * i + 1) \div 2 = i
        /\ (2 * i - 1) % 2 = 1 /\ (2 * i) % 2 = 0
    BY <1>1, DigitPlaces
  <2>2. h[2 * i - 1] = b[i] \div 16
    BY <2>1, <1>2
  <2>3. h[2 * i] = b[i] % 16
    BY <2>1, <1>2
  <2> QED
    BY <2>2, <2>3, <1>1, Digits
<1>8. Len(h) \div 2 = n
  BY <1>1, <1>6, DigitPlaces
<1>9. FromHex(h) = [i \in 1..n |-> b[i]]
  BY <1>7, <1>8 DEF FromHex
<1>10. [i \in 1..n |-> b[i]] = b
  BY <1>1
<1> QED
  BY <1>6, <1>9, <1>10 DEF h

\* What Replay::save writes: the header, the responses, the end.
LEMMA UnitsAre ==
    ASSUME NEW r \in Recording
    PROVE  /\ Units(r) \in Seq(Unit) /\ Len(Units(r)) = Len(r.res) + 2
           /\ Units(r)[1] = [at |-> "header", duel |-> r.duel, win |-> r.win]
           /\ \A i \in 1..Len(r.res) :
                 Units(r)[i + 1] = [at |-> "response", hex |-> ToHex(r.res[i])]
           /\ Units(r)[Len(r.res) + 2] = [at |-> "end"]
<1> DEFINE head == [at |-> "header", duel |-> r.duel, win |-> r.win]
           body == [i \in DOMAIN r.res |-> [at |-> "response", hex |-> ToHex(r.res[i])]]
           foot == [at |-> "end"]
<1>1. r.res \in Seq(Reply) /\ r.duel \in Nat /\ r.win \in Win
  BY DEF Recording
<1>2. \A i \in DOMAIN r.res : ToHex(r.res[i]) \in Seq(0..15)
  <2>1. \A i \in DOMAIN r.res : r.res[i] \in Seq(0..255)
    BY <1>1, ReplayLibraryAssumption
  <2> QED
    BY <2>1, HexRoundTrip
<1>3. head \in Unit /\ foot \in Unit /\ \A i \in DOMAIN r.res : body[i] \in Unit
  BY <1>1, <1>2 DEF Unit
<1>4. body \in Seq(Unit) /\ Len(body) = Len(r.res)
  <2>1. Len(r.res) \in Nat /\ DOMAIN r.res = 1..Len(r.res)
    BY <1>1
  <2>2. DOMAIN body = 1..Len(r.res)
    BY <2>1
  <2>3. body = [i \in 1..Len(r.res) |-> body[i]]
    BY <2>1
  <2> HIDE DEF body
  <2> QED
    BY <1>3, <2>1, <2>2, <2>3
<1>5. Units(r) = <<head>> \o body \o <<foot>>
  BY DEF Units
<1>6. \A i \in 1..Len(r.res) : body[i] = [at |-> "response", hex |-> ToHex(r.res[i])]
  BY <1>1
<1> HIDE DEF head, body, foot
<1>7. <<head>> \in Seq(Unit) /\ <<foot>> \in Seq(Unit)
  BY <1>3
<1>8. /\ <<head>> \o body \in Seq(Unit) /\ Len(<<head>> \o body) = Len(r.res) + 1
      /\ (<<head>> \o body)[1] = head
      /\ \A i \in 1..Len(r.res) : (<<head>> \o body)[i + 1] = body[i]
  BY <1>4, <1>7
<1> DEFINE hb == <<head>> \o body
<1> HIDE DEF hb
<1>9. /\ hb \o <<foot>> \in Seq(Unit) /\ Len(hb \o <<foot>>) = Len(r.res) + 2
      /\ (hb \o <<foot>>)[1] = head
      /\ \A i \in 1..Len(r.res) : (hb \o <<foot>>)[i + 1] = body[i]
      /\ (hb \o <<foot>>)[Len(r.res) + 2] = foot
  BY <1>1, <1>7, <1>8 DEF hb
<1> QED
  BY <1>5, <1>6, <1>9 DEF hb, head, foot

\* A prefix of a sequence.
LEMMA SubSeqIs ==
    ASSUME NEW T, NEW q \in Seq(T), NEW n \in 0..Len(q)
    PROVE  /\ SubSeq(q, 1, n) \in Seq(T) /\ Len(SubSeq(q, 1, n)) = n
           /\ \A i \in 1..n : SubSeq(q, 1, n)[i] = q[i]
           /\ n = Len(q) => SubSeq(q, 1, n) = q
<1>1. Len(q) \in Nat
  OBVIOUS
<1>2. /\ SubSeq(q, 1, n) \in Seq(T) /\ Len(SubSeq(q, 1, n)) = n
      /\ \A i \in 1..n : SubSeq(q, 1, n)[i] = q[i]
  BY <1>1, SubSeqProperties
<1>3. ASSUME n = Len(q) PROVE SubSeq(q, 1, n) = q
  BY <1>2, <1>3
<1> QED
  BY <1>2, <1>3

\* A prefix with its next element.
LEMMA PrefixGrows ==
    ASSUME NEW T, NEW q \in Seq(T), NEW n \in 1..Len(q)
    PROVE  Append(SubSeq(q, 1, n - 1), q[n]) = SubSeq(q, 1, n)
<1>1. Len(q) \in Nat /\ n - 1 \in 0..Len(q) /\ n \in 0..Len(q) /\ q[n] \in T
  OBVIOUS
<1>2. /\ SubSeq(q, 1, n - 1) \in Seq(T) /\ Len(SubSeq(q, 1, n - 1)) = n - 1
      /\ \A i \in 1..(n - 1) : SubSeq(q, 1, n - 1)[i] = q[i]
  BY <1>1, SubSeqIs
<1>3. /\ SubSeq(q, 1, n) \in Seq(T) /\ Len(SubSeq(q, 1, n)) = n
      /\ \A i \in 1..n : SubSeq(q, 1, n)[i] = q[i]
  BY <1>1, SubSeqIs
<1> QED
  BY <1>1, <1>2, <1>3

\* A file that was cut short does not reach the closing brace (Replay::save,
\* Replay::load); one with anything in it has the header.
LEMMA CutIs ==
    ASSUME NEW r \in Recording, NEW n \in 0..Len(Units(r))
    PROVE  LET data == SubSeq(Units(r), 1, n)
           IN  /\ data \in Seq(Unit)
               /\ data # <<>> <=> n > 0
               /\ n > 0 => data[1].duel = r.duel
               /\ Whole(data) <=> n = Len(Units(r))
               /\ Whole(data) => data = Units(r)
<1> DEFINE u == Units(r)
           data == SubSeq(u, 1, n)
<1>1. /\ u \in Seq(Unit) /\ Len(u) = Len(r.res) + 2 /\ Len(r.res) \in Nat
      /\ u[1] = [at |-> "header", duel |-> r.duel, win |-> r.win]
      /\ \A i \in 1..Len(r.res) : u[i + 1] = [at |-> "response", hex |-> ToHex(r.res[i])]
      /\ u[Len(r.res) + 2] = [at |-> "end"]
  BY UnitsAre DEF Recording
<1>2. \A i \in 1..Len(u) : u[i].at = "end" <=> i = Len(u)
  <2> TAKE i \in 1..Len(u)
  <2>1. CASE i = 1
    BY <2>1, <1>1
  <2>2. CASE i = Len(r.res) + 2
    BY <2>2, <1>1
  <2>3. CASE i \in 2..(Len(r.res) + 1)
    <3>1. i - 1 \in 1..Len(r.res) /\ (i - 1) + 1 = i
      BY <2>3, <1>1
    <3>2. u[i] = [at |-> "response", hex |-> ToHex(r.res[i - 1])]
      BY <3>1, <1>1
    <3> QED
      BY <3>2, <2>3, <1>1
  <2> QED
    BY <2>1, <2>2, <2>3, <1>1
<1> HIDE DEF u
<1>3. n \in 0..Len(u)
  BY DEF u
<1>4. /\ data \in Seq(Unit) /\ Len(data) = n
      /\ \A i \in 1..n : data[i] = u[i]
      /\ n = Len(u) => data = u
  BY <1>1, <1>3, SubSeqIs
<1> HIDE DEF data
<1>5. data # <<>> <=> n > 0
  BY <1>3, <1>4, <1>1
<1>6. n > 0 => data[1].duel = r.duel
  BY <1>1, <1>3, <1>4
<1>7. Whole(data) <=> n = Len(u)
  BY <1>1, <1>2, <1>3, <1>4, <1>5 DEF Whole, Last
<1> QED
  BY <1>4, <1>5, <1>6, <1>7 DEF u, data

\* A header sets the duel and its winner.
LEMMA AppliedHeader ==
    ASSUME NEW r \in Recording, NEW x \in Recording
    PROVE  Applied(x, [at |-> "header", duel |-> r.duel, win |-> r.win])
              = [duel |-> r.duel, win |-> r.win, res |-> x.res]
<1>1. x = [duel |-> x.duel, win |-> x.win, res |-> x.res]
  BY DEF Recording
<1>2. Applied(x, [at |-> "header", duel |-> r.duel, win |-> r.win])
        = [x EXCEPT !.duel = r.duel, !.win = r.win]
  BY DEF Applied
<1> QED
  BY <1>1, <1>2

\* A response is appended.
LEMMA AppliedResponse ==
    ASSUME NEW x \in Recording, NEW h
    PROVE  Applied(x, [at |-> "response", hex |-> h])
              = [duel |-> x.duel, win |-> x.win, res |-> Append(x.res, FromHex(h))]
<1>1. x = [duel |-> x.duel, win |-> x.win, res |-> x.res]
  BY DEF Recording
<1>2. Applied(x, [at |-> "response", hex |-> h]) = [x EXCEPT !.res = Append(@, FromHex(h))]
  BY DEF Applied
<1> QED
  BY <1>1, <1>2

\* The end changes nothing.
LEMMA AppliedEnd ==
    ASSUME NEW x
    PROVE  Applied(x, [at |-> "end"]) = x
BY DEF Applied

\* A replay that was written whole and is loaded into a fresh struct is the one
\* that was saved, response by response (Replay::save, Replay::load).
LEMMA LoadOfUnits ==
    ASSUME NEW r \in Recording
    PROVE  Loaded(Blank, Units(r)) = r
<1> DEFINE u == Units(r)
           m == Len(r.res)
           part(k) == [duel |-> r.duel, win |-> r.win, res |-> SubSeq(r.res, 1, k)]
           G == [k \in 0..(m + 2) |->
                   IF k = 0 THEN Blank ELSE IF k = m + 2 THEN r ELSE part(k - 1)]
<1>1. /\ u \in Seq(Unit) /\ Len(u) = m + 2 /\ m \in Nat
      /\ u[1] = [at |-> "header", duel |-> r.duel, win |-> r.win]
      /\ \A i \in 1..m : u[i + 1] = [at |-> "response", hex |-> ToHex(r.res[i])]
      /\ u[m + 2] = [at |-> "end"]
  BY UnitsAre DEF Recording
<1>2. r.res \in Seq(Reply) /\ r.duel \in Nat /\ r.win \in Win
  BY DEF Recording
<1>3. \A i \in 1..m : ToHex(r.res[i]) \in Seq(0..15) /\ FromHex(ToHex(r.res[i])) = r.res[i]
  <2> TAKE i \in 1..m
  <2>1. r.res[i] \in Seq(0..255)
    BY <1>2, ElementOfSeq, ReplayLibraryAssumption
  <2> QED
    BY <2>1, HexRoundTrip
<1>4. \A k \in 0..m : part(k) \in Recording
  <2> TAKE k \in 0..m
  <2>1. SubSeq(r.res, 1, k) \in Seq(Reply)
    BY <1>2, SubSeqIs
  <2> QED
    BY <1>2, <2>1 DEF Recording
<1>5. part(m) = r
  <2>1. SubSeq(r.res, 1, m) = r.res
    BY <1>1, <1>2, SubSeqIs
  <2>2. r = [duel |-> r.duel, win |-> r.win, res |-> r.res]
    BY DEF Recording
  <2> QED
    BY <2>1, <2>2
<1>6. Blank \in Recording
  BY DEF Blank, Recording, Win
<1>7. /\ G[0] = Blank /\ G[m + 2] = r /\ \A k \in 1..(m + 1) : G[k] = part(k - 1)
  BY <1>1
<1> HIDE DEF G, u
<1>8. G[1] = Applied(G[0], u[1])
  <2>1. Applied(Blank, u[1]) = [duel |-> r.duel, win |-> r.win, res |-> Blank.res]
    BY <1>1, <1>6, AppliedHeader
  <2>2. Blank.res = SubSeq(r.res, 1, 0)
    BY <1>1, <1>2, SubSeqIs DEF Blank
  <2>3. G[1] = part(0)
    BY <1>1, <1>7
  <2> QED
    BY <1>7, <2>1, <2>2, <2>3
<1>9. ASSUME NEW k \in 2..(m + 1)
      PROVE  G[k] = Applied(G[k - 1], u[k])
  <2> DEFINE i == k - 1
  <2>1. i \in 1..m /\ i + 1 = k /\ k - 1 \in 1..(m + 1) /\ k \in 1..(m + 1) /\ i - 1 \in 0..m
    BY <1>1
  <2> HIDE DEF i
  <2>2. u[k] = [at |-> "response", hex |-> ToHex(r.res[i])]
    BY <1>1, <2>1
  <2>3. G[k] = part(i) /\ G[k - 1] = part(i - 1)
    BY <1>7, <2>1 DEF i
  <2> DEFINE x == part(i - 1)
             h == ToHex(r.res[i])
  <2>4. x \in Recording /\ x.duel = r.duel /\ x.win = r.win /\ x.res = SubSeq(r.res, 1, i - 1)
    BY <1>4, <2>1
  <2>5. h \in Seq(0..15) /\ FromHex(h) = r.res[i]
    BY <1>3, <2>1
  <2>6. part(i) = [duel |-> r.duel, win |-> r.win, res |-> Append(SubSeq(r.res, 1, i - 1), r.res[i])]
    BY <1>1, <1>2, <2>1, PrefixGrows
  <2>7. u[k] = [at |-> "response", hex |-> h] /\ G[k - 1] = x
    BY <2>2, <2>3
  <2> HIDE DEF x, h
  <2>8. Applied(x, [at |-> "response", hex |-> h])
          = [duel |-> x.duel, win |-> x.win, res |-> Append(x.res, FromHex(h))]
    BY <2>4, AppliedResponse
  <2> QED
    BY <2>3, <2>4, <2>5, <2>6, <2>7, <2>8
<1>10. G[m + 2] = Applied(G[m + 1], u[m + 2])
  <2>1. m + 1 \in 1..(m + 1) /\ (m + 1) - 1 = m
    BY <1>1
  <2>3. G[m + 1] = part((m + 1) - 1)
    BY <1>7, <2>1
  <2>4. G[m + 1] = r
    BY <1>5, <2>1, <2>3
  <2>2. Applied(r, [at |-> "end"]) = r
    BY AppliedEnd
  <2> QED
    BY <1>1, <1>7, <2>4, <2>2
<1>11. \A k \in 1..(m + 2) : G[k] = Applied(G[k - 1], u[k])
  <2> TAKE k \in 1..(m + 2)
  <2>1. k = 1 \/ k \in 2..(m + 1) \/ k = m + 2
    BY <1>1
  <2>2. (m + 2) - 1 = m + 1 /\ 1 - 1 = 0
    BY <1>1
  <2> QED
    BY <1>8, <1>9, <1>10, <2>1, <2>2
<1> DEFINE n == m + 2
<1>12. DOMAIN u = 1..n /\ n \in Nat /\ G[0] = Blank /\ G[n] = r
  BY <1>1, <1>7
<1>13. \A k \in 1..n : G[k] = Applied(G[k - 1], u[k])
  BY <1>11
<1> HIDE DEF n, G
<1>14. Parses(G, Blank, u, n)
  BY ONLY <1>12, <1>13 DEF Parses
<1>15. Loaded(Blank, u) = G[n]
  BY ONLY <1>12, <1>14, FoldIs
<1>16. Loaded(Blank, u) = r
  BY ONLY <1>12, <1>15
<1> QED
  BY <1>16 DEF u

\* Load, by what it makes of the struct.
LEMMA LoadIs ==
    ASSUME NEW r, NEW data
    PROVE  Load(r, data).ok = Whole(data) /\ Load(r, data).r = Loaded(r, data)
BY Zenon DEF Load, Loaded

-----------------------------------------------------------------------------
(* The folder, as the set of its files.                                     *)

Name == Nat \cup OtherName
File == [name : Name, data : Seq(Unit)]
FilesIn(q) == {q[i] : i \in DOMAIN q}
Unique(q) == \A i, j \in DOMAIN q : q[i].name = q[j].name => i = j

\* Taking the file of a name out of the folder takes that file only.
LEMMA WithoutIs ==
    ASSUME NEW n, folder \in Seq(File), Unique(folder)
    PROVE  /\ Without(n) \in Seq(File) /\ Unique(Without(n))
           /\ FilesIn(Without(n)) = {f \in FilesIn(folder) : f.name # n}
<1>1. Len(folder) \in Nat /\ DOMAIN folder = 1..Len(folder)
  OBVIOUS
<1>2. CASE ~Exists(n)
  <2>1. Without(n) = folder /\ \A i \in DOMAIN folder : folder[i].name # n
    BY <1>2 DEF Without, Exists, Named
  <2> QED
    BY <2>1 DEF FilesIn
<1>3. CASE Exists(n)
  <2> DEFINE k == FileAt(n)
             w == RemoveAt(folder, k)
             L == Len(folder)
  <2>1. k \in DOMAIN folder /\ folder[k].name = n
    BY <1>3 DEF Exists, Named, FileAt
  <2>2. Without(n) = w
    BY <1>3 DEF Without
  <2>3. L \in Nat /\ DOMAIN folder = 1..L /\ k \in 1..L
    BY <1>1, <2>1
  <2> HIDE DEF k, L
  <2> DEFINE low == SubSeq(folder, 1, k - 1)
             high == SubSeq(folder, k + 1, L)
  <2>4. /\ low \in Seq(File) /\ Len(low) = k - 1
        /\ \A i \in 1..(k - 1) : low[i] = folder[i]
    BY <2>3, SubSeqProperties DEF L
  <2>5. /\ high \in Seq(File) /\ Len(high) = L - k
        /\ \A i \in 1..(L - k) : high[i] = folder[k + i]
    <3>1. /\ k + 1 \in 1..(L + 1) /\ L \in ((k + 1) - 1)..L
          /\ L - (k + 1) + 1 = L - k
      BY <2>3
    <3>2. /\ high \in Seq(File) /\ Len(high) = L - (k + 1) + 1
          /\ \A i \in 1..(L - (k + 1) + 1) : high[i] = folder[(k + 1) + i - 1]
      BY <3>1, SubSeqProperties DEF L
    <3>3. \A i \in 1..(L - k) : (k + 1) + i - 1 = k + i
      BY <2>3
    <3> QED
      BY <3>1, <3>2, <3>3
  <2>6. w = low \o high
    BY DEF RemoveAt, L
  <2> HIDE DEF w, low, high
  <2>7. /\ w \in Seq(File) /\ Len(w) = L - 1
        /\ \A i \in 1..(L - 1) : w[i] = IF i < k THEN folder[i] ELSE folder[i + 1]
    <3>1. w \in Seq(File) /\ Len(w) = Len(low) + Len(high)
      BY <2>4, <2>5, <2>6, ConcatProperties
    <3>2. Len(low) + Len(high) = L - 1
      BY <2>3, <2>4, <2>5
    <3>3. ASSUME NEW i \in 1..(L - 1)
          PROVE  w[i] = IF i < k THEN folder[i] ELSE folder[i + 1]
      <4>1. w[i] = IF i <= Len(low) THEN low[i] ELSE high[i - Len(low)]
        BY <2>4, <2>5, <2>6, <3>2, ConcatProperties
      <4>2. CASE i < k
        BY <2>3, <2>4, <4>1, <4>2
      <4>3. CASE ~(i < k)
        <5>1. i - (k - 1) \in 1..(L - k) /\ k + (i - (k - 1)) = i + 1 /\ ~(i <= k - 1)
          BY <2>3, <4>3
        <5> QED
          BY <2>4, <2>5, <4>1, <4>3, <5>1
      <4> QED
        BY <4>2, <4>3
    <3> QED
      BY <3>1, <3>2, <3>3
  <2>8. DOMAIN w = 1..(L - 1)
    BY <2>3, <2>7
  <2> DEFINE from(i) == IF i < k THEN i ELSE i + 1
  <2>13. \A i \in DOMAIN w : from(i) \in DOMAIN folder /\ from(i) # k /\ w[i] = folder[from(i)]
    BY <2>3, <2>7, <2>8
  <2>14. \A i, j \in DOMAIN w : from(i) = from(j) => i = j
    BY <2>3, <2>8
  <2> HIDE DEF from
  <2>9. Unique(w)
    BY <2>13, <2>14 DEF Unique
  <2>10. ASSUME NEW i \in DOMAIN w
         PROVE  w[i] \in FilesIn(folder) /\ w[i].name # n
    <3>1. folder[from(i)].name # folder[k].name
      BY <2>1, <2>13 DEF Unique
    <3> QED
      BY <2>1, <2>13, <3>1 DEF FilesIn
  <2>11. ASSUME NEW j \in DOMAIN folder, folder[j].name # n
         PROVE  folder[j] \in FilesIn(w)
    <3> DEFINE i == IF j < k THEN j ELSE j - 1
    <3>1. j # k /\ j \in 1..L
      BY <2>1, <2>3, <2>11
    <3>2. i \in 1..(L - 1) /\ from(i) = j
      BY <2>3, <3>1 DEF from
    <3> HIDE DEF i
    <3>3. w[i] = folder[j]
      BY <2>8, <2>13, <3>2
    <3> QED
      BY <2>8, <3>2, <3>3 DEF FilesIn
  <2>12. FilesIn(w) = {f \in FilesIn(folder) : f.name # n}
    BY <2>10, <2>11 DEF FilesIn
  <2> QED
    BY <2>2, <2>7, <2>9, <2>12
<1> QED
  BY <1>2, <1>3

\* A new file is put first.
LEMMA FirstIs ==
    ASSUME NEW f \in File, NEW q \in Seq(File), Unique(q),
           \A x \in FilesIn(q) : x.name # f.name
    PROVE  /\ <<f>> \o q \in Seq(File) /\ Unique(<<f>> \o q)
           /\ FilesIn(<<f>> \o q) = {f} \cup FilesIn(q)
<1> DEFINE p == <<f>> \o q
           L == Len(q)
<1>1. <<f>> \in Seq(File) /\ Len(<<f>>) = 1 /\ <<f>>[1] = f
  OBVIOUS
<1>2. L \in Nat /\ DOMAIN q = 1..L
  OBVIOUS
<1>3. /\ p \in Seq(File) /\ Len(p) = L + 1 /\ p[1] = f
      /\ \A i \in 1..L : p[i + 1] = q[i]
  BY <1>1, <1>2
<1>4. DOMAIN p = 1..(L + 1)
  BY <1>2, <1>3
<1> HIDE DEF p, L
<1>5. \A i \in DOMAIN p : i = 1 \/ (i - 1 \in DOMAIN q /\ p[i] = q[i - 1])
  <2> TAKE i \in DOMAIN p
  <2>1. i = 1 \/ (i - 1 \in 1..L /\ (i - 1) + 1 = i)
    BY <1>2, <1>4
  <2> QED
    BY <1>2, <1>3, <2>1
<1>6. \A i \in DOMAIN q : i + 1 \in DOMAIN p /\ p[i + 1] = q[i]
  BY <1>2, <1>3, <1>4
<1>7. 1 \in DOMAIN p
  BY <1>2, <1>4
<1>8. FilesIn(p) = {f} \cup FilesIn(q)
  <2>1. \A i \in DOMAIN p : p[i] \in {f} \cup FilesIn(q)
    BY <1>3, <1>5 DEF FilesIn
  <2>2. f \in FilesIn(p) /\ \A i \in DOMAIN q : q[i] \in FilesIn(p)
    BY <1>3, <1>6, <1>7 DEF FilesIn
  <2> QED
    BY <2>1, <2>2 DEF FilesIn
<1>9. ASSUME NEW i \in DOMAIN p, NEW j \in DOMAIN p, p[i].name = p[j].name
      PROVE  i = j
  <2>1. i \in Int /\ j \in Int
    BY <1>2, <1>4
  <2>2. \A k \in DOMAIN q : q[k].name # f.name
    BY DEF FilesIn
  <2>3. CASE i = 1
    BY <2>2, <2>3, <1>3, <1>5, <1>9
  <2>4. CASE j = 1
    BY <2>2, <2>4, <1>3, <1>5, <1>9
  <2>5. CASE i # 1 /\ j # 1
    <3>1. i - 1 \in DOMAIN q /\ j - 1 \in DOMAIN q /\ q[i - 1].name = q[j - 1].name
      BY <1>5, <1>9, <2>5
    <3>2. i - 1 = j - 1
      BY <3>1 DEF Unique
    <3> QED
      BY <2>1, <3>2
  <2> QED
    BY <2>3, <2>4, <2>5
<1>10. Unique(p)
  BY <1>9 DEF Unique
<1> QED
  BY <1>3, <1>8, <1>10 DEF p

-----------------------------------------------------------------------------
(* The inductive invariant of the library.                                  *)

\* A file is what a save of r has written when n units have come to the disk.
Cut(f, r, n) ==
    /\ f.data = SubSeq(Units(r), 1, n)
    /\ n > 0 /\ f.name \in Nat => began[r.duel] = f.name
FromSave(f) == \E r \in saves : \E n \in 0..Len(Units(r)) : Cut(f, r, n)

\* Names are unique, and a file not renamed is named after its duel's second.
FolderInv ==
    /\ folder \in Seq(File) /\ Unique(folder)
    /\ began \in Seq(Nat) /\ due \subseteq DOMAIN began
    /\ \A r \in saves : r \in Recording /\ r.duel \in DOMAIN began
    /\ \A f \in FilesIn(folder) : FromSave(f)

\* The recording is the last duel's, and goes on only while that duel does.
LiveInv ==
    /\ clock \in Nat /\ auto \in BOOLEAN /\ began \in Seq(Nat)
    /\ rec \in [on : BOOLEAN, r : Recording, stamp : Nat, saved : BOOLEAN]
    /\ rec.r.duel = Len(began)
    /\ began # <<>> => rec.stamp = began[Len(began)]
    /\ duel # "none" => began # <<>>
    /\ rec.on => screen = "duel" /\ duel = "running" /\ ~rec.saved

IInv == FolderInv /\ LiveInv

Holds(f, d) == Whole(f.data) /\ f.data[1].duel = d
Kept(d) ==
    \/ d \in lost
    \/ \E f \in FilesIn(folder) : Holds(f, d)
    \/ \E e \in DOMAIN began : e # d /\ began[e] = began[d]

\* FinishedDuelsKept, of the set of files.
LEMMA KeptIs == FinishedDuelsKept <=> \A d \in due : Kept(d)
BY DEF FinishedDuelsKept, Kept, Holds, FilesIn

\* What is in a file that is not empty.
LEMMA FileIs ==
    ASSUME FolderInv, NEW f \in FilesIn(folder)
    PROVE  /\ f \in File
           /\ f.data # <<>> => /\ f.data[1].duel \in DOMAIN began
                               /\ f.name \in Nat => began[f.data[1].duel] = f.name
           /\ Whole(f.data) => f.data # <<>> /\ \E r \in saves : f.data = Units(r)
<1>1. PICK r \in saves : \E n \in 0..Len(Units(r)) : Cut(f, r, n)
  BY DEF FolderInv, FromSave
<1>2. PICK n \in 0..Len(Units(r)) : Cut(f, r, n)
  BY <1>1
<1>3. r \in Recording /\ r.duel \in DOMAIN began
  BY DEF FolderInv
<1>4. f.data = SubSeq(Units(r), 1, n) /\ (n > 0 /\ f.name \in Nat => began[r.duel] = f.name)
  BY <1>2 DEF Cut
<1>5. /\ f.data # <<>> <=> n > 0
      /\ n > 0 => f.data[1].duel = r.duel
      /\ Whole(f.data) => f.data = Units(r)
  BY <1>3, <1>4, CutIs
<1>6. f \in File
  BY DEF FolderInv, FilesIn
<1>7. Whole(f.data) => f.data # <<>>
  BY DEF Whole
<1> QED
  BY <1>3, <1>4, <1>5, <1>6, <1>7

\* DuelsIn, of the set of files.
LEMMA DuelsInIs ==
    ASSUME NEW n, NEW f \in FilesIn(folder), FolderInv, f.name = n, f.data # <<>>
    PROVE  f.data[1].duel \in DuelsIn(n)
<1>1. f.data[1].duel \in DOMAIN began
  BY FileIs
<1>2. PICK i \in DOMAIN folder : f = folder[i]
  BY DEF FilesIn
<1> QED
  BY <1>1, <1>2 DEF DuelsIn, Named

-----------------------------------------------------------------------------
(* The changes of the folder.                                               *)

\* A duel that begins, or a step that leaves the folder alone.
LEMMA FolderSame ==
    ASSUME FolderInv, FinishedDuelsKept, UNCHANGED disk,
           began' = began \/ (clock \in Nat /\ began' = Append(began, clock))
    PROVE  FolderInv' /\ FinishedDuelsKept'
<1>1. folder' = folder /\ due' = due /\ lost' = lost /\ saves' = saves
  BY DEF disk
<1>2. /\ began' \in Seq(Nat)
      /\ \A d \in DOMAIN began : d \in DOMAIN began' /\ began'[d] = began[d]
  <2>1. began \in Seq(Nat)
    BY DEF FolderInv
  <2>2. CASE began' = began
    BY <2>1, <2>2
  <2>3. CASE clock \in Nat /\ began' = Append(began, clock)
    <3>1. began' \in Seq(Nat) /\ Len(began') = Len(began) + 1 /\ Len(began) \in Nat
      BY <2>1, <2>3
    <3>2. DOMAIN began = 1..Len(began) /\ DOMAIN began' = 1..Len(began')
      BY <2>1, <3>1
    <3>3. \A d \in 1..Len(began) : began'[d] = began[d]
      BY <2>1, <2>3
    <3> QED
      BY <3>1, <3>2, <3>3
  <2> QED
    BY <2>2, <2>3
<1>3. \A f \in FilesIn(folder) : FromSave(f)'
  <2> TAKE f \in FilesIn(folder)
  <2>1. PICK r \in saves : \E n \in 0..Len(Units(r)) : Cut(f, r, n)
    BY DEF FolderInv, FromSave
  <2>2. PICK n \in 0..Len(Units(r)) : Cut(f, r, n)
    BY <2>1
  <2>3. r.duel \in DOMAIN began
    BY DEF FolderInv
  <2>4. Cut(f, r, n)'
    BY <1>2, <2>2, <2>3 DEF Cut
  <2> QED
    BY <1>1, <2>4 DEF FromSave
<1>4. FolderInv'
  BY <1>1, <1>2, <1>3 DEF FolderInv
<1>5. ASSUME NEW d \in due PROVE Kept(d)'
  <2>1. Kept(d) /\ d \in DOMAIN began
    BY KeptIs DEF FolderInv
  <2> QED
    BY <1>1, <1>2, <2>1 DEF Kept
<1>6. (\A d \in due : Kept(d))'
  BY <1>1, <1>5
<1>7. (FinishedDuelsKept <=> \A d \in due : Kept(d))'
  BY KeptIs, PTL
<1> QED
  BY <1>4, <1>6, <1>7

\* Delete, and a file that vanishes from the folder.
LEMMA FolderShrinks ==
    ASSUME FolderInv, FinishedDuelsKept, NEW n,
           folder' = Without(n), lost' = lost \cup DuelsIn(n),
           UNCHANGED <<began, due, saves>>
    PROVE  FolderInv' /\ FinishedDuelsKept'
<1>1. /\ folder' \in Seq(File) /\ Unique(folder')
      /\ FilesIn(folder') = {f \in FilesIn(folder) : f.name # n}
  BY WithoutIs DEF FolderInv
<1>2. \A f \in FilesIn(folder') : FromSave(f)'
  BY <1>1 DEF FolderInv, FromSave, Cut
<1>3. FolderInv'
  BY <1>1, <1>2 DEF FolderInv
<1>4. ASSUME NEW d \in due PROVE Kept(d)'
  <2>1. Kept(d)
    BY KeptIs
  <2>2. ASSUME NEW f \in FilesIn(folder), Holds(f, d), f.name = n
        PROVE  d \in lost'
    BY <2>2, FileIs, DuelsInIs DEF Holds
  <2> QED
    BY <1>1, <2>1, <2>2 DEF Kept, Holds
<1>5. (\A d \in due : Kept(d))'
  BY <1>4
<1>6. (FinishedDuelsKept <=> \A d \in due : Kept(d))'
  BY KeptIs, PTL
<1> QED
  BY <1>3, <1>5, <1>6

\* Rename: the name is free, and no second.
LEMMA FolderRenamed ==
    ASSUME FolderInv, FinishedDuelsKept, NEW old, NEW n \in OtherName, ~Exists(n),
           folder' = [i \in DOMAIN Without(n) |->
                        [Without(n)[i] EXCEPT !.name = IF @ = old THEN n ELSE @]],
           UNCHANGED <<began, due, lost, saves>>
    PROVE  FolderInv' /\ FinishedDuelsKept'
<1> DEFINE new(f) == [f EXCEPT !.name = IF f.name = old THEN n ELSE f.name]
<1>1. Without(n) = folder /\ \A i \in DOMAIN folder : folder[i].name # n
  BY DEF Without, Exists, Named
<1>2. folder \in Seq(File) /\ Unique(folder)
  BY DEF FolderInv
<1>3. folder' = [i \in DOMAIN folder |-> new(folder[i])]
  BY <1>1
<1>4. n \in Name /\ n \notin Nat
  BY ReplayLibraryAssumption DEF Name
<1>5. ASSUME NEW f \in File
      PROVE  /\ new(f) \in File /\ new(f).data = f.data
             /\ new(f).name = IF f.name = old THEN n ELSE f.name
  BY <1>4 DEF File
<1> HIDE DEF new
<1>6. \A i \in DOMAIN folder : folder[i] \in File
  BY <1>2
<1>7. DOMAIN folder' = DOMAIN folder /\ \A i \in DOMAIN folder : folder'[i] = new(folder[i])
  BY <1>3
<1>8. folder' \in Seq(File)
  <2>1. DOMAIN folder = 1..Len(folder) /\ Len(folder) \in Nat
    BY <1>2
  <2>2. folder' \in [1..Len(folder) -> File]
    BY <1>3, <1>5, <1>6, <2>1
  <2> QED
    BY <2>1, <2>2
<1>9. Unique(folder')
  <2>1. ASSUME NEW i \in DOMAIN folder, NEW j \in DOMAIN folder,
               new(folder[i]).name = new(folder[j]).name
        PROVE  folder[i].name = folder[j].name
    BY <1>1, <1>5, <1>6, <2>1
  <2>2. ASSUME NEW i \in DOMAIN folder', NEW j \in DOMAIN folder',
               folder'[i].name = folder'[j].name
        PROVE  i = j
    <3>1. i \in DOMAIN folder /\ j \in DOMAIN folder
      BY <1>7
    <3>2. folder[i].name = folder[j].name
      BY <1>7, <2>1, <2>2, <3>1
    <3> QED
      BY <1>2, <3>1, <3>2 DEF Unique
  <2> QED
    BY <2>2 DEF Unique
<1>10. \A f \in FilesIn(folder') : \E h \in FilesIn(folder) : h \in File /\ f = new(h)
  BY <1>6, <1>7 DEF FilesIn
<1>11. \A h \in FilesIn(folder) : new(h) \in FilesIn(folder') /\ h \in File
  BY <1>6, <1>7 DEF FilesIn
<1>12. ASSUME NEW f \in FilesIn(folder') PROVE FromSave(f)'
  <2>1. PICK h \in FilesIn(folder) : h \in File /\ f = new(h)
    BY <1>10
  <2>2. PICK r \in saves : \E m \in 0..Len(Units(r)) : Cut(h, r, m)
    BY DEF FolderInv, FromSave
  <2>3. PICK m \in 0..Len(Units(r)) : Cut(h, r, m)
    BY <2>2
  <2>4. f.data = h.data /\ (f.name \in Nat => f.name = h.name)
    BY <2>1, <1>4, <1>5
  <2>5. Cut(f, r, m)'
    BY <2>3, <2>4 DEF Cut
  <2> QED
    BY <2>5 DEF FromSave
<1>13. FolderInv'
  BY <1>8, <1>9, <1>12 DEF FolderInv
<1>14. ASSUME NEW d \in due PROVE Kept(d)'
  <2>1. Kept(d)
    BY KeptIs
  <2>2. ASSUME NEW h \in FilesIn(folder), Holds(h, d)
        PROVE  new(h) \in FilesIn(folder') /\ Holds(new(h), d)
    BY <2>2, <1>5, <1>11 DEF Holds
  <2> QED
    BY <2>1, <2>2 DEF Kept
<1>15. (\A d \in due : Kept(d))'
  BY <1>14
<1>16. (FinishedDuelsKept <=> \A d \in due : Kept(d))'
  BY KeptIs, PTL
<1> QED
  BY <1>13, <1>15, <1>16

\* A save puts what it wrote before the other files: the last duel's recording,
\* whole or torn (Replay::save, finalizeReplay, "Save Replay").
LEMMA FolderSaved ==
    ASSUME FolderInv, FinishedDuelsKept, NEW how \in How, NEW r \in Recording,
           r.duel = Len(began), began # <<>>,
           NEW t \in Nat, t = rec.stamp, t = began[Len(began)],
           Saved(how, r), saves' = saves \cup {r}, began' = began,
           due' = due \/ (how = "whole" /\ due' = due \cup {r.duel})
    PROVE  FolderInv' /\ FinishedDuelsKept'
<1> DEFINE new(n) == [name |-> t, data |-> SubSeq(Units(r), 1, n)]
<1>1. /\ folder \in Seq(File) /\ Unique(folder) /\ began \in Seq(Nat)
      /\ due \subseteq DOMAIN began
      /\ \A x \in saves : x \in Recording /\ x.duel \in DOMAIN began
  BY DEF FolderInv
<1>2. r.duel \in DOMAIN began /\ began[r.duel] = t
  BY <1>1
<1>3. due' \subseteq DOMAIN began' /\ \A x \in saves' : x \in Recording /\ x.duel \in DOMAIN began'
  BY <1>1, <1>2
<1>4. \A f \in FilesIn(folder) : FromSave(f)'
  BY <1>1 DEF FolderInv, FromSave, Cut
<1>5. ASSUME NEW n \in 0..Len(Units(r)), folder' = <<new(n)>> \o Without(t)
      PROVE  /\ FolderInv'
             /\ FilesIn(folder') = {new(n)} \cup {f \in FilesIn(folder) : f.name # t}
  <2>1. new(n) \in File /\ new(n).name = t
    BY CutIs DEF File, Name
  <2>2. /\ Without(t) \in Seq(File) /\ Unique(Without(t))
        /\ FilesIn(Without(t)) = {f \in FilesIn(folder) : f.name # t}
    BY <1>1, WithoutIs
  <2>3. FromSave(new(n))'
    <3>1. r \in saves' /\ Cut(new(n), r, n)'
      BY <1>2 DEF Cut
    <3> QED
      BY <3>1 DEF FromSave
  <2> DEFINE f0 == new(n)
             q == Without(t)
  <2>4. /\ f0 \in File /\ q \in Seq(File) /\ Unique(q)
        /\ \A x \in FilesIn(q) : x.name # f0.name
    BY <2>1, <2>2
  <2>5. folder' = <<f0>> \o q
    BY <1>5
  <2> HIDE DEF f0, q
  <2>6. /\ folder' \in Seq(File) /\ Unique(folder')
        /\ FilesIn(folder') = {f0} \cup FilesIn(q)
    BY <2>4, <2>5, FirstIs
  <2>7. FilesIn(folder') = {new(n)} \cup {f \in FilesIn(folder) : f.name # t}
    BY <2>2, <2>6 DEF f0, q
  <2>8. ASSUME NEW f \in FilesIn(folder') PROVE FromSave(f)'
    <3>1. CASE f = new(n)
      BY <2>3, <3>1
    <3>2. CASE f \in FilesIn(folder)
      BY <1>4, <3>2
    <3> QED
      BY <2>7, <3>1, <3>2
  <2> QED
    BY <1>1, <1>3, <2>6, <2>7, <2>8 DEF FolderInv
<1>6. (FinishedDuelsKept <=> \A d \in due : Kept(d))'
  BY KeptIs, PTL
<1>7. \A f \in FilesIn(folder), d \in due :
          Holds(f, d) /\ f.name = t => began[d] = t /\ d \in DuelsIn(t)
  <2> TAKE f \in FilesIn(folder), d \in due
  <2> HAVE Holds(f, d) /\ f.name = t
  <2> QED
    BY FileIs, DuelsInIs DEF Holds
<1>8. CASE how = "whole"
  <2> DEFINE n == Len(Units(r))
  <2>0. Units(r) \in Seq(Unit) /\ Len(Units(r)) = Len(r.res) + 2 /\ Len(r.res) \in Nat
    <3>1. r.res \in Seq(Reply)
      BY DEF Recording
    <3>2. Len(r.res) \in Nat
      BY ONLY <3>1, LenProperties
    <3>3. Units(r) \in Seq(Unit) /\ Len(Units(r)) = Len(r.res) + 2
      BY ONLY r \in Recording, UnitsAre
    <3> QED
      BY <3>2, <3>3
  <2>1. n \in 0..n /\ n > 0 /\ SubSeq(Units(r), 1, n) = Units(r)
    BY <2>0, SubSeqIs
  <2>2. folder' = <<new(n)>> \o Without(t) /\ lost' = lost
    BY <1>8, <2>1 DEF Saved
  <2>3. FolderInv' /\ FilesIn(folder') = {new(n)} \cup {f \in FilesIn(folder) : f.name # t}
    BY <1>5, <2>1, <2>2
  <2>4. Holds(new(n), r.duel) /\ new(n) \in FilesIn(folder')
    <3>1. Whole(SubSeq(Units(r), 1, n)) /\ n > 0
      BY <2>1, CutIs
    <3> QED
      BY <2>1, <2>3, <3>1, CutIs DEF Holds
  <2> HIDE DEF new, n
  <2>5. ASSUME NEW d \in due' PROVE Kept(d)'
    <3>1. CASE d = r.duel
      BY <2>4, <3>1 DEF Kept
    <3>2. CASE d # r.duel
      <4>1. d \in due /\ Kept(d)
        BY <3>2, KeptIs
      <4>2. ASSUME NEW f \in FilesIn(folder), Holds(f, d), f.name = t
            PROVE  r.duel \in DOMAIN began /\ r.duel # d /\ began[r.duel] = began[d]
        BY <1>2, <1>7, <3>2, <4>1, <4>2
      <4> QED
        BY <2>2, <2>3, <4>1, <4>2 DEF Kept
    <3> QED
      BY <3>1, <3>2
  <2> QED
    BY <1>6, <2>3, <2>5
<1>9. CASE how # "whole"
  <2>1. due' = due
    BY <1>9
  <2>2. CASE how = "torn"
    <3>1. PICK n \in 0..(Len(Units(r)) - 1) : folder' = <<new(n)>> \o Without(t)
      BY <2>2 DEF Saved
    <3>2. lost' = lost \cup {r.duel} \cup DuelsIn(t)
      BY <2>2 DEF Saved
    <3>3. n \in 0..Len(Units(r))
      BY UnitsAre DEF Recording
    <3>4. FolderInv' /\ FilesIn(folder') = {new(n)} \cup {f \in FilesIn(folder) : f.name # t}
      BY <1>5, <3>1, <3>3
    <3> HIDE DEF new
    <3>5. ASSUME NEW d \in due PROVE Kept(d)'
      BY <1>7, <3>2, <3>4, KeptIs DEF Kept
    <3> QED
      BY <1>6, <2>1, <3>4, <3>5
  <2>3. CASE how = "refused"
    <3>1. folder' = folder /\ lost' = lost
      BY <2>3 DEF Saved
    <3>2. FolderInv'
      BY <1>1, <1>3, <1>4, <3>1 DEF FolderInv
    <3>3. ASSUME NEW d \in due PROVE Kept(d)'
      BY <3>1, KeptIs DEF Kept
    <3> QED
      BY <1>6, <2>1, <3>2, <3>3
  <2> QED
    BY <1>9, <2>2, <2>3 DEF How
<1> QED
  BY <1>8, <1>9

-----------------------------------------------------------------------------
(* The steps of the library.                                                *)

RecType == [on : BOOLEAN, r : Recording, stamp : Nat, saved : BOOLEAN]

\* The end of a recording (finalizeReplay): it goes off, its duel and its name
\* stay, and the folder keeps what it must.
LEMMA FinalizedIs ==
    ASSUME IInv, FinishedDuelsKept, NEW how \in How, NEW ok \in BOOLEAN, NEW win \in Win,
           Finalized(how, ok, win), began' = began
    PROVE  /\ FolderInv' /\ FinishedDuelsKept'
           /\ rec' \in RecType /\ ~rec'.on
           /\ rec'.r.duel = rec.r.duel /\ rec'.stamp = rec.stamp
<1> DEFINE r == [rec.r EXCEPT !.win = win]
<1>1. /\ FolderInv /\ rec \in RecType /\ auto \in BOOLEAN /\ rec.r.duel = Len(began)
      /\ began # <<>> => rec.stamp = began[Len(began)]
      /\ rec.on => began # <<>> /\ ~rec.saved
  BY DEF IInv, LiveInv, RecType
<1>2. r \in Recording /\ r.duel = rec.r.duel
  BY <1>1 DEF Recording, RecType
<1>3. CASE ~rec.on
  <2>1. rec' = rec /\ UNCHANGED disk
    BY <1>3 DEF Finalized, NotSaved
  <2> QED
    BY <1>1, <1>3, <2>1, FolderSame
<1>4. CASE rec.on
  <2>1. /\ rec' = [rec EXCEPT !.on = FALSE, !.r = r, !.saved = @ \/ (auto /\ ok)]
        /\ due' = IF auto /\ how = "whole" THEN due \cup {r.duel} ELSE due
        /\ IF ~auto \/ rec.saved THEN UNCHANGED <<folder, lost, saves>>
           ELSE Saved(how, r) /\ saves' = saves \cup {r}
    BY <1>4 DEF Finalized
  <2> HIDE DEF r
  <2>2. rec' \in RecType /\ ~rec'.on /\ rec'.r.duel = rec.r.duel /\ rec'.stamp = rec.stamp
    BY <1>1, <1>2, <2>1 DEF RecType
  <2>3. CASE ~auto
    <3>1. UNCHANGED disk
      BY <2>1, <2>3 DEF disk
    <3> QED
      BY <1>1, <2>2, <3>1, FolderSame
  <2>4. CASE auto
    <3>1. Saved(how, r) /\ saves' = saves \cup {r}
      BY <1>1, <1>4, <2>1, <2>4
    <3>2. PICK t \in Nat : t = rec.stamp
      BY <1>1 DEF RecType
    <3>3. t = began[Len(began)] /\ began # <<>> /\ r.duel = Len(began)
      BY <1>1, <1>2, <1>4, <3>2
    <3>4. due' = due \/ (how = "whole" /\ due' = due \cup {r.duel})
      BY <2>1
    <3>5. FolderInv' /\ FinishedDuelsKept'
      BY <1>1, <1>2, <3>1, <3>2, <3>3, <3>4, FolderSaved
    <3> QED
      BY <2>2, <3>5
  <2> QED
    BY <1>1, <2>3, <2>4
<1> QED
  BY <1>3, <1>4

\* "Save Replay" writes the last duel's recording.
LEMMA SaveReplayIs ==
    ASSUME IInv, FinishedDuelsKept, SaveReplay
    PROVE  IInv' /\ FinishedDuelsKept'
<1>1. /\ FolderInv /\ rec \in RecType /\ rec.r.duel = Len(began)
      /\ began # <<>> /\ rec.stamp = began[Len(began)] /\ duel = "over"
      /\ rec.r \in Recording /\ ~rec.on
  BY DEF IInv, LiveInv, SaveReplay, RecType
<1>2. PICK how \in How, ok \in BOOLEAN :
        Saved(how, rec.r) /\ rec' = [rec EXCEPT !.saved = @ \/ ok]
  BY DEF SaveReplay
<1>3. /\ saves' = saves \cup {rec.r} /\ due' = due /\ began' = began
      /\ clock' = clock /\ duel' = duel /\ auto' = auto /\ screen' = screen
  BY DEF SaveReplay
<1>4. PICK t \in Nat : t = rec.stamp
  BY <1>1 DEF RecType
<1>5. FolderInv' /\ FinishedDuelsKept'
  BY <1>1, <1>2, <1>3, <1>4, FolderSaved
<1>6. rec' \in RecType /\ rec'.r = rec.r /\ rec'.stamp = rec.stamp /\ rec'.on = rec.on
  BY <1>1, <1>2 DEF RecType
<1>7. LiveInv'
  BY <1>1, <1>3, <1>6 DEF IInv, LiveInv, RecType
<1> QED
  BY <1>5, <1>7 DEF IInv

\* The end of the duel, and the way out of it.
LEMMA EndDuelIs ==
    ASSUME IInv, FinishedDuelsKept, EndDuel \/ LeaveDuel
    PROVE  IInv' /\ FinishedDuelsKept'
<1>1. PICK how \in How, ok \in BOOLEAN, win \in Win : Finalized(how, ok, win)
  <2>1. CASE EndDuel
    BY <2>1 DEF EndDuel, Win
  <2>2. CASE LeaveDuel
    BY <2>2 DEF LeaveDuel, Win
  <2> QED
    BY <2>1, <2>2
<1>2. /\ clock' = clock /\ began' = began /\ auto' = auto
      /\ duel' # "none" => duel # "none"
  BY DEF EndDuel, LeaveDuel
<1>3. /\ FolderInv' /\ FinishedDuelsKept' /\ rec' \in RecType /\ ~rec'.on
      /\ rec'.r.duel = rec.r.duel /\ rec'.stamp = rec.stamp
  BY <1>1, <1>2, FinalizedIs
<1>4. LiveInv'
  BY <1>2, <1>3 DEF IInv, LiveInv, RecType
<1> QED
  BY <1>3, <1>4 DEF IInv

\* The answers of a duel, and its undos.
LEMMA RecordingIs ==
    ASSUME LiveInv, StartDuel \/ Answer \/ Undo
    PROVE  LiveInv'
<1>1. /\ clock \in Nat /\ auto \in BOOLEAN /\ began \in Seq(Nat) /\ rec \in RecType
      /\ rec.r.duel = Len(began) /\ (began # <<>> => rec.stamp = began[Len(began)])
      /\ (duel # "none" => began # <<>>)
      /\ (rec.on => screen = "duel" /\ duel = "running" /\ ~rec.saved)
  BY DEF LiveInv, RecType
<1>2. CASE StartDuel
  <2>1. /\ duel' = "running" /\ screen' = "duel" /\ clock' = clock /\ auto' = auto
        /\ began' = Append(began, clock) /\ rec' = Begun(Len(began'))
    BY <1>2 DEF StartDuel
  <2>2. /\ began' \in Seq(Nat) /\ Len(began') = Len(began) + 1 /\ Len(began') \in Nat
        /\ began' # <<>> /\ began'[Len(began')] = clock
    BY <1>1, <2>1
  <2>3. [Blank EXCEPT !.duel = Len(began')] \in Recording
    BY <2>2, EmptySeq DEF Blank, Recording, Win
  <2>4. /\ rec' \in RecType /\ rec'.r.duel = Len(began') /\ rec'.stamp = clock
        /\ rec'.saved = FALSE
    BY <1>1, <2>1, <2>2, <2>3 DEF Begun, RecType, Blank
  <2> QED
    BY <1>1, <2>1, <2>2, <2>4 DEF LiveInv, RecType
<1>3. CASE Answer \/ Undo
  <2>1. /\ clock' = clock /\ auto' = auto /\ began' = began /\ screen' = screen
        /\ screen = "duel" /\ (duel' = "running") /\ duel # "none"
    BY <1>3 DEF Answer, Undo
  <2>2. rec' = rec \/ \E q \in Seq(Reply) : rec.on /\ rec' = [rec EXCEPT !.r.res = q]
    <3>1. rec.r.res \in Seq(Reply)
      BY <1>1 DEF RecType, Recording
    <3>2. CASE Answer
      <4>1. PICK a \in Reply : rec' = IF rec.on THEN [rec EXCEPT !.r.res = Append(@, a)] ELSE rec
        BY <3>2 DEF Answer
      <4>2. Append(rec.r.res, a) \in Seq(Reply)
        BY <3>1
      <4> QED
        BY <4>1, <4>2
    <3>3. CASE Undo
      <4>1. PICK n \in 0..(Len(rec.r.res) - 1) :
              rec' = IF rec.on THEN [rec EXCEPT !.r.res = SubSeq(@, 1, n)] ELSE rec
        BY <3>3 DEF Undo
      <4>2. n \in 0..Len(rec.r.res)
        BY <3>1
      <4>3. SubSeq(rec.r.res, 1, n) \in Seq(Reply)
        BY <3>1, <4>2, SubSeqIs
      <4> QED
        BY <4>1, <4>3
    <3> QED
      BY <1>3, <3>2, <3>3
  <2>3. /\ rec' \in RecType /\ rec'.r.duel = rec.r.duel /\ rec'.stamp = rec.stamp
        /\ rec'.on = rec.on /\ rec'.saved = rec.saved
    <3>1. CASE rec' = rec
      BY <1>1, <3>1
    <3>2. CASE \E q \in Seq(Reply) : rec.on /\ rec' = [rec EXCEPT !.r.res = q]
      <4>1. PICK q \in Seq(Reply) : rec' = [rec EXCEPT !.r.res = q]
        BY <3>2
      <4> DEFINE r == [rec.r EXCEPT !.res = q]
      <4>2. r \in Recording /\ r.duel = rec.r.duel
        BY <1>1 DEF RecType, Recording
      <4>3. rec' = [rec EXCEPT !.r = r]
        BY <4>1
      <4> HIDE DEF r
      <4> QED
        BY <1>1, <4>2, <4>3 DEF RecType
    <3> QED
      BY <2>2, <3>1, <3>2
  <2> QED
    BY <1>1, <2>1, <2>3 DEF LiveInv, RecType
<1> QED
  BY <1>2, <1>3

\* "Play Replay" plays what one save was given (startReplayPlayback).
LEMMA PlayIs ==
    ASSUME FolderInv, LiveInv, Play
    PROVE  LiveInv' /\ active' \in saves
<1> DEFINE n == files[sel]
           l == LoadPath(Fresh, n)
<1>1. /\ l.ok /\ active' = l.r /\ duel' = "running" /\ screen' = "playback"
      /\ rec' = [rec EXCEPT !.on = FALSE, !.saved = TRUE]
      /\ clock' = clock /\ began' = began /\ auto' = auto
  BY DEF Play
<1>2. Exists(n) /\ l = Load(Blank, Data(n))
  BY <1>1 DEF LoadPath, Fresh
<1>3. Data(n) = folder[FileAt(n)].data /\ FileAt(n) \in DOMAIN folder
  BY <1>2 DEF Data, FileAt, Named, Exists
<1> DEFINE f == folder[FileAt(n)]
<1>4. f \in FilesIn(folder) /\ f.data = Data(n)
  BY <1>3 DEF FilesIn
<1> HIDE DEF f, n
<1>5. Whole(Data(n)) /\ l.r = Loaded(Blank, Data(n))
  BY <1>1, <1>2, LoadIs
<1>6. PICK r \in saves : Data(n) = Units(r)
  BY <1>4, <1>5, FileIs
<1>7. r \in Recording /\ r.duel \in DOMAIN began
  BY DEF FolderInv
<1>8. active' \in saves
  BY <1>1, <1>5, <1>6, <1>7, LoadOfUnits
<1>9. began # <<>>
  BY <1>7
<1>10. rec' \in RecType /\ ~rec'.on /\ rec'.r = rec.r /\ rec'.stamp = rec.stamp
  BY <1>1 DEF LiveInv, RecType
<1>11. LiveInv'
  BY <1>1, <1>9, <1>10 DEF LiveInv, RecType
<1> QED
  BY <1>8, <1>11

\* At first there are no files and no duels.
LEMMA LibraryInitIs == LibraryInit => IInv /\ FinishedDuelsKept /\ PlayedAsRecorded
<1> SUFFICES ASSUME LibraryInit PROVE IInv /\ FinishedDuelsKept /\ PlayedAsRecorded
  OBVIOUS
<1>1. /\ <<>> \in Seq(File) /\ <<>> \in Seq(Nat) /\ <<>> \in Seq(Reply)
      /\ Len(<<>>) = 0 /\ DOMAIN <<>> = {}
  BY EmptySeq
<1>2. FolderInv
  BY <1>1 DEF LibraryInit, FolderInv, Unique, FilesIn
<1>3. Blank \in Recording /\ Blank.duel = 0
  BY <1>1 DEF Blank, Recording, Win
<1>4. rec \in RecType /\ rec.r = Blank /\ ~rec.on
  BY <1>3 DEF LibraryInit, RecType
<1>5. LiveInv
  BY <1>1, <1>3, <1>4 DEF LibraryInit, LiveInv, RecType
<1> QED
  BY <1>2, <1>5 DEF LibraryInit, IInv, FinishedDuelsKept, PlayedAsRecorded

\* Every step keeps the invariant, and with it the duels that were saved.
LEMMA NextKeeps == IInv /\ FinishedDuelsKept /\ [LibraryNext]_libraryVars => IInv' /\ FinishedDuelsKept'
<1> SUFFICES ASSUME IInv, FinishedDuelsKept, [LibraryNext]_libraryVars
             PROVE  IInv' /\ FinishedDuelsKept'
  OBVIOUS
<1>1. FolderInv /\ LiveInv /\ clock \in Nat
  BY DEF IInv, LiveInv
<1> DEFINE Reading == \/ Tick \/ OpenReplays \/ Back \/ ToggleAutoSave \/ RefreshList
                      \/ \E i \in DOMAIN files : Click(i)
                      \/ PlaybackEnds \/ ExitReplay \/ UNCHANGED libraryVars
<1>2. CASE Reading
  <2>1. /\ UNCHANGED disk /\ began' = began /\ rec' = rec
        /\ clock' \in {clock, clock + 1} /\ auto' \in {auto, ~auto}
        /\ (duel' # "none" => duel # "none")
        /\ (screen = "duel" => screen' = "duel" /\ duel' = duel)
    BY <1>2 DEF Tick, OpenReplays, Back, ToggleAutoSave, RefreshList, Click, PlaybackEnds,
                ExitReplay, libraryVars, live, browser
  <2>2. FolderInv' /\ FinishedDuelsKept'
    BY <1>1, <2>1, FolderSame
  <2>3. clock' \in Nat
    BY <1>1, <2>1
  <2>4. auto' \in BOOLEAN
    <3>1. auto' = auto \/ auto' = ~auto
      BY <2>1
    <3> QED
      BY <1>1, <3>1 DEF LiveInv
  <2>5. LiveInv'
    BY <1>1, <2>1, <2>3, <2>4 DEF LiveInv
  <2> QED
    BY <2>2, <2>5 DEF IInv
<1>3. CASE StartDuel \/ Answer \/ Undo
  <2>1. UNCHANGED disk /\ (began' = began \/ began' = Append(began, clock))
    BY <1>3 DEF StartDuel, Answer, Undo
  <2>2. FolderInv' /\ FinishedDuelsKept'
    BY <1>1, <2>1, FolderSame
  <2> QED
    BY <1>1, <1>3, <2>2, RecordingIs DEF IInv
<1>4. CASE Play
  <2>1. UNCHANGED disk /\ began' = began
    BY <1>4 DEF Play
  <2> QED
    BY <1>1, <1>4, <2>1, FolderSame, PlayIs DEF IInv
<1>5. CASE SaveReplay
  BY <1>5, SaveReplayIs
<1>6. CASE EndDuel \/ LeaveDuel
  BY <1>6, EndDuelIs
<1>7. CASE Delete \/ Vanish
  <2>1. PICK n : folder' = Without(n) /\ lost' = lost \cup DuelsIn(n)
    BY <1>7 DEF Delete, Vanish
  <2>2. UNCHANGED <<began, due, saves>> /\ UNCHANGED live /\ screen' = screen
    BY <1>7 DEF Delete, Vanish, live
  <2>3. FolderInv' /\ FinishedDuelsKept'
    BY <1>1, <2>1, <2>2, FolderShrinks
  <2>4. LiveInv'
    BY <1>1, <2>2 DEF LiveInv, live
  <2> QED
    BY <2>3, <2>4 DEF IInv
<1>8. ASSUME NEW n \in OtherName, Rename(n)
      PROVE  IInv' /\ FinishedDuelsKept'
  <2>1. /\ ~Exists(n)
        /\ folder' = [i \in DOMAIN Without(n) |->
              [Without(n)[i] EXCEPT !.name = IF @ = files[sel] THEN n ELSE @]]
        /\ UNCHANGED <<began, due, lost, saves>> /\ UNCHANGED live /\ screen' = screen
    BY <1>8 DEF Rename, MayRename, live
  <2>2. FolderInv' /\ FinishedDuelsKept'
    BY <1>1, <2>1, FolderRenamed
  <2>3. LiveInv'
    BY <1>1, <2>1 DEF LiveInv, live
  <2> QED
    BY <2>2, <2>3 DEF IInv
<1> QED
  BY <1>2, <1>3, <1>4, <1>5, <1>6, <1>7, <1>8 DEF LibraryNext

\* What plays was recorded: it is read once, and saves are not forgotten.
LEMMA NextPlays == IInv /\ PlayedAsRecorded /\ [LibraryNext]_libraryVars => PlayedAsRecorded'
<1> SUFFICES ASSUME IInv, PlayedAsRecorded, [LibraryNext]_libraryVars
             PROVE  PlayedAsRecorded'
  OBVIOUS
<1>1. CASE Play
  BY <1>1, PlayIs DEF IInv, PlayedAsRecorded, Play, disk
<1>2. CASE StartDuel \/ EndDuel \/ LeaveDuel
  BY <1>2 DEF StartDuel, EndDuel, LeaveDuel, PlayedAsRecorded
<1>3. CASE SaveReplay
  BY <1>3 DEF SaveReplay, PlayedAsRecorded
<1>4. CASE Tick \/ Answer \/ Undo \/ Delete \/ Vanish \/ OpenReplays \/ Back
           \/ ToggleAutoSave \/ RefreshList \/ PlaybackEnds \/ ExitReplay \/ UNCHANGED libraryVars
  BY <1>4 DEF Tick, Answer, Undo, Delete, Vanish, OpenReplays, Back, ToggleAutoSave,
              RefreshList, PlaybackEnds, ExitReplay, PlayedAsRecorded, disk, libraryVars
<1>5. ASSUME NEW i \in DOMAIN files, Click(i) PROVE PlayedAsRecorded'
  BY <1>5 DEF Click, PlayedAsRecorded, disk
<1>6. ASSUME NEW n \in OtherName, Rename(n) PROVE PlayedAsRecorded'
  BY <1>6 DEF Rename, PlayedAsRecorded
<1> QED
  BY <1>1, <1>2, <1>3, <1>4, <1>5, <1>6 DEF LibraryNext

\* A duel that was saved when it ended stays in the folder until the user
\* deletes it or a failing save tears it, for any number of duels, saves,
\* renames and files.
THEOREM FinishedDuelsStay == LibrarySpec => []FinishedDuelsKept
<1>1. LibraryInit => IInv /\ FinishedDuelsKept
  BY LibraryInitIs
<1>2. IInv /\ FinishedDuelsKept /\ [LibraryNext]_libraryVars => IInv' /\ FinishedDuelsKept'
  BY NextKeeps
<1> QED
  BY <1>1, <1>2, PTL DEF LibrarySpec

\* What is played back is what one duel recorded up to a save, response by
\* response, through the file's digits and whatever files were torn.
THEOREM PlaybackIsFaithful == LibrarySpec => []PlayedAsRecorded
<1>1. LibraryInit => IInv /\ FinishedDuelsKept /\ PlayedAsRecorded
  BY LibraryInitIs
<1>2. IInv /\ FinishedDuelsKept /\ [LibraryNext]_libraryVars => IInv' /\ FinishedDuelsKept'
  BY NextKeeps
<1>3. IInv /\ PlayedAsRecorded /\ [LibraryNext]_libraryVars => PlayedAsRecorded'
  BY NextPlays
<1> QED
  BY <1>1, <1>2, <1>3, PTL DEF LibrarySpec
-----------------------------------------------------------------------------
(* Tidy.                                                                    *)

AnyDeck == [Zone -> Seq(Card)]
Limits == [Card -> Nat]
Tidying == [deck : AnyDeck, seen : [Card -> Nat]]

\* A step keeps or drops a card.
LEMMA TidyStepIs ==
    ASSUME NEW limit \in Limits, NEW z \in Zone, NEW t \in Tidying, NEW c \in Card
    PROVE  TidyStep(limit, z, t, c) \in Tidying
<1>1. CASE t.seen[c] < limit[c] /\ Len(t.deck[z]) < Cap(z)
  <2>1. TidyStep(limit, z, t, c) = [deck |-> [t.deck EXCEPT ![z] = Append(@, c)],
                                    seen |-> [t.seen EXCEPT ![c] = @ + 1]]
    BY <1>1 DEF TidyStep
  <2>2. t.deck \in AnyDeck /\ t.seen \in [Card -> Nat]
    BY DEF Tidying
  <2>3. [t.deck EXCEPT ![z] = Append(@, c)] \in AnyDeck
    BY <2>2 DEF AnyDeck
  <2>4. [t.seen EXCEPT ![c] = @ + 1] \in [Card -> Nat]
    BY <2>2
  <2> QED
    BY <2>1, <2>3, <2>4 DEF Tidying
<1>2. CASE ~(t.seen[c] < limit[c] /\ Len(t.deck[z]) < Cap(z))
  BY <1>2 DEF TidyStep
<1> QED
  BY <1>1, <1>2

\* Trim goes through the cards of a zone in order (tidyEditDeck).
Trimming(G, limit, z, t, zone, n) ==
    /\ G \in [0..n -> Tidying] /\ G[0] = t
    /\ \A k \in 1..n : G[k] = TidyStep(limit, z, G[k - 1], zone[k])

\* So a fold is computed, element by element.
LEMMA TrimRuns ==
    ASSUME NEW limit \in Limits, NEW z \in Zone, NEW t \in Tidying, NEW zone \in Seq(Card), NEW n \in Nat, n = Len(zone)
    PROVE  \E G : Trimming(G, limit, z, t, zone, n) /\ Trim(limit, z, t, zone) = G[n]
<1> DEFINE F == [p \in Tidying \X Card |-> TidyStep(limit, z, p[1], p[2])]
           H == CHOOSE it : it = [S \in SUBSET (DOMAIN zone) |->
                  IF S = {} THEN t ELSE TidyStep(limit, z, it[S \ {Max(S)}], zone[Max(S)])]
<1>1. DOMAIN zone = 1..n /\ t \in Tidying /\ zone \in Seq(Card)
  OBVIOUS
<1>2. ASSUME NEW t0 \in Tidying, NEW e \in Card PROVE TidyStep(limit, z, t0, e) \in Tidying
  BY <1>2, TidyStepIs
<1>3. F \in [Tidying \X Card -> Tidying]
  BY <1>2
<1>4. \A t0 \in Tidying, e \in Card : F[<<t0, e>>] = TidyStep(limit, z, t0, e)
  OBVIOUS
<1> HIDE DEF F
<1>5. PICK it : Folding(it, F, t, zone, n)
  BY FoldExists
<1>6. \A S \in SUBSET (1..n) : it[S] \in Tidying
  BY <1>1, <1>3, <1>5, FoldStays
<1>7. ASSUME NEW S \in SUBSET (1..n), S # {}
      PROVE  zone[Max(S)] \in Card /\ S \ {Max(S)} \in SUBSET (1..n)
  <2>1. Max(S) \in 1..n
    BY <1>7, Greatest
  <2> QED
    BY <1>1, <2>1, ElementOfSeq
<1>8. it = [S \in SUBSET (DOMAIN zone) |->
              IF S = {} THEN t ELSE TidyStep(limit, z, it[S \ {Max(S)}], zone[Max(S)])]
  BY <1>1, <1>4, <1>5, <1>6, <1>7 DEF Folding
<1>9. H = [S \in SUBSET (DOMAIN zone) |->
              IF S = {} THEN t ELSE TidyStep(limit, z, H[S \ {Max(S)}], zone[Max(S)])]
  BY <1>8
<1>10. Trim(limit, z, t, zone) = H[DOMAIN zone]
  BY DEF Trim, FoldLeft, MapThenFoldSet
<1> HIDE DEF H
<1>11. Computes(H, Tidying, F, t, zone, n)
  <2> SUFFICES ASSUME NEW S \in SUBSET (1..n)
               PROVE  /\ S = {} => H[S] = t
                      /\ S # {} /\ H[S \ {Max(S)}] \in Tidying =>
                           H[S] = F[<<H[S \ {Max(S)}], zone[Max(S)]>>]
    BY DEF Computes
  <2>1. H[S] = IF S = {} THEN t ELSE TidyStep(limit, z, H[S \ {Max(S)}], zone[Max(S)])
    BY <1>1, <1>9
  <2> QED
    BY <1>4, <1>7, <2>1
<1>12. PICK G : Runs(G, Tidying, F, t, zone, n) /\ G[n] = H[1..n]
  <2>1. Foldable(Tidying, Card, F, t, zone, n)
    BY <1>1, <1>3 DEF Foldable
  <2> QED
    BY ONLY <2>1, <1>11, FoldRuns
<1>13. Trim(limit, z, t, zone) = G[n]
  BY <1>1, <1>10, <1>12
<1>14. \A k \in 1..n : zone[k] \in Card
  BY <1>1, ElementOfSeq
<1>15. \A k \in 1..n : G[k] = TidyStep(limit, z, G[k - 1], zone[k])
  <2> SUFFICES ASSUME NEW k \in 1..n PROVE G[k] = TidyStep(limit, z, G[k - 1], zone[k])
    OBVIOUS
  <2>1. k - 1 \in 0..n
    OBVIOUS
  <2>2. G[k - 1] \in Tidying /\ G[k] = F[<<G[k - 1], zone[k]>>]
    BY <1>12, <2>1 DEF Runs
  <2>3. zone[k] \in Card
    BY <1>14
  <2> QED
    BY <1>4, <2>2, <2>3
<1>16. Trimming(G, limit, z, t, zone, n)
  BY <1>12, <1>15 DEF Runs, Trimming
<1> QED
  BY <1>13, <1>16

-----------------------------------------------------------------------------
(* Choosing among the elements of a sequence.                               *)

\* Keep goes through a sequence in order.
Keeping(G, B, W, q, n) ==
    /\ G \in [0..n -> Seq(B \cap W)] /\ G[0] = <<>>
    /\ \A k \in 1..n : G[k] = (IF q[k] \in W THEN Append(G[k - 1], q[k]) ELSE G[k - 1])

\* So a fold is computed, element by element.
LEMMA KeepRuns ==
    ASSUME NEW B, NEW W, NEW q \in Seq(B), NEW n \in Nat, n = Len(q)
    PROVE  \E G : Keeping(G, B, W, q, n) /\ Keep(q, W) = G[n]
<1> DEFINE F == [p \in Seq(B \cap W) \X B |-> (IF p[2] \in W THEN Append(p[1], p[2]) ELSE p[1])]
           H == CHOOSE it : it = [S \in SUBSET (DOMAIN q) |->
                  IF S = {} THEN <<>> ELSE (IF q[Max(S)] \in W THEN Append(it[S \ {Max(S)}], q[Max(S)]) ELSE it[S \ {Max(S)}])]
<1>1. DOMAIN q = 1..n /\ <<>> \in Seq(B \cap W) /\ q \in Seq(B)
  BY EmptySeq
<1>2. ASSUME NEW t0 \in Seq(B \cap W), NEW e \in B PROVE (IF e \in W THEN Append(t0, e) ELSE t0) \in Seq(B \cap W)
  <2>1. CASE e \in W
    BY <1>2, <2>1, AppendProperties
  <2> QED
    BY <1>2, <2>1
<1>3. F \in [Seq(B \cap W) \X B -> Seq(B \cap W)]
  BY <1>2
<1>4. \A t0 \in Seq(B \cap W), e \in B : F[<<t0, e>>] = (IF e \in W THEN Append(t0, e) ELSE t0)
  OBVIOUS
<1> HIDE DEF F
<1>5. PICK it : Folding(it, F, <<>>, q, n)
  BY FoldExists
<1>6. \A S \in SUBSET (1..n) : it[S] \in Seq(B \cap W)
  BY <1>1, <1>3, <1>5, FoldStays
<1>7. ASSUME NEW S \in SUBSET (1..n), S # {}
      PROVE  q[Max(S)] \in B /\ S \ {Max(S)} \in SUBSET (1..n)
  <2>1. Max(S) \in 1..n
    BY <1>7, Greatest
  <2> QED
    BY <1>1, <2>1, ElementOfSeq
<1>8. it = [S \in SUBSET (DOMAIN q) |->
              IF S = {} THEN <<>> ELSE (IF q[Max(S)] \in W THEN Append(it[S \ {Max(S)}], q[Max(S)]) ELSE it[S \ {Max(S)}])]
  BY <1>1, <1>4, <1>5, <1>6, <1>7 DEF Folding
<1>9. H = [S \in SUBSET (DOMAIN q) |->
              IF S = {} THEN <<>> ELSE (IF q[Max(S)] \in W THEN Append(H[S \ {Max(S)}], q[Max(S)]) ELSE H[S \ {Max(S)}])]
  BY <1>8
<1>10. Keep(q, W) = H[DOMAIN q]
  BY DEF Keep, FoldLeft, MapThenFoldSet
<1> HIDE DEF H
<1>11. Computes(H, Seq(B \cap W), F, <<>>, q, n)
  <2> SUFFICES ASSUME NEW S \in SUBSET (1..n)
               PROVE  /\ S = {} => H[S] = <<>>
                      /\ S # {} /\ H[S \ {Max(S)}] \in Seq(B \cap W) =>
                           H[S] = F[<<H[S \ {Max(S)}], q[Max(S)]>>]
    BY DEF Computes
  <2>1. H[S] = IF S = {} THEN <<>> ELSE (IF q[Max(S)] \in W THEN Append(H[S \ {Max(S)}], q[Max(S)]) ELSE H[S \ {Max(S)}])
    BY <1>1, <1>9
  <2> QED
    BY <1>4, <1>7, <2>1
<1>12. PICK G : Runs(G, Seq(B \cap W), F, <<>>, q, n) /\ G[n] = H[1..n]
  <2>1. Foldable(Seq(B \cap W), B, F, <<>>, q, n)
    BY <1>1, <1>3 DEF Foldable
  <2> QED
    BY ONLY <2>1, <1>11, FoldRuns
<1>13. Keep(q, W) = G[n]
  BY <1>1, <1>10, <1>12
<1>14. \A k \in 1..n : q[k] \in B
  BY <1>1, ElementOfSeq
<1>15. \A k \in 1..n : G[k] = (IF q[k] \in W THEN Append(G[k - 1], q[k]) ELSE G[k - 1])
  <2> SUFFICES ASSUME NEW k \in 1..n PROVE G[k] = (IF q[k] \in W THEN Append(G[k - 1], q[k]) ELSE G[k - 1])
    OBVIOUS
  <2>1. k - 1 \in 0..n
    OBVIOUS
  <2>2. G[k - 1] \in Seq(B \cap W) /\ G[k] = F[<<G[k - 1], q[k]>>]
    BY <1>12, <2>1 DEF Runs
  <2>3. q[k] \in B
    BY <1>14
  <2> QED
    BY <1>4, <2>2, <2>3
<1>16. Keeping(G, B, W, q, n)
  BY <1>12, <1>15 DEF Runs, Keeping
<1> QED
  BY <1>13, <1>16

\* Keep(q, W) holds elements of q that are in W; of a q of such, all.
LEMMA KeepIs ==
    ASSUME NEW B, NEW W, NEW q \in Seq(B)
    PROVE  /\ Keep(q, W) \in Seq(B \cap W)
           /\ (\A i \in 1..Len(q) : q[i] \in W) => Keep(q, W) = q
<1> DEFINE n == Len(q)
<1>1. n \in Nat /\ n = Len(q)
  OBVIOUS
<1> HIDE DEF n
<1>0. PICK G : Keeping(G, B, W, q, n) /\ Keep(q, W) = G[n]
  BY <1>1, KeepRuns
<1>2. /\ G \in [0..n -> Seq(B \cap W)]
      /\ G[0] = <<>> /\ Keep(q, W) = G[n]
      /\ \A k \in 1..n : G[k] = (IF q[k] \in W THEN Append(G[k - 1], q[k]) ELSE G[k - 1])
  BY <1>0 DEF Keeping
<1>3. ASSUME \A i \in 1..n : q[i] \in W PROVE Keep(q, W) = q
  <2> DEFINE P == {k \in 0..n : G[k] = Prefix(q, k)}
  <2>1. 0 \in P
    BY <1>1, <1>2, PrefixIs DEF Prefixed
  <2>2. ASSUME NEW k \in 1..n, k - 1 \in P PROVE k \in P
    <3>1. G[k] = Append(G[k - 1], q[k])
      BY <1>2, <1>3
    <3>2. G[k - 1] = Prefix(q, k - 1) /\ k \in 0..n
      BY <1>1, <2>2
    <3>3. Append(Prefix(q, k - 1), q[k]) = Prefix(q, k)
      BY <1>1, PrefixIs, SMTT(30) DEF Prefixed
    <3> QED
      BY <3>1, <3>2, <3>3
  <2>3. \A k \in 0..n : k \in P
    <3> HIDE DEF P
    <3> QED
      BY <1>1, <2>1, <2>2, Upto
  <2>4. G[n] = Prefix(q, n)
    BY <1>1, <2>3
  <2> QED
    BY <1>1, <1>2, <2>4, PrefixIs DEF Prefixed
<1> QED
  BY <1>1, <1>2, <1>3 

-----------------------------------------------------------------------------
(* Placing, removing and sorting.                                           *)

\* An element put into a sequence, or taken out of it, leaves a sequence.
LEMMA InsertAtIs ==
    ASSUME NEW B, NEW q \in Seq(B), NEW i \in 1..(Len(q) + 1), NEW e \in B
    PROVE  InsertAt(q, i, e) \in Seq(B)
<1>1. SubSeq(q, 1, i - 1) \in Seq(B)
  BY SubSeqProperties
<1>2. SubSeq(q, i, Len(q)) \in Seq(B)
  BY SubSeqProperties
<1>3. <<e>> \in Seq(B)
  OBVIOUS
<1> QED
  BY <1>1, <1>2, <1>3, ConcatProperties DEF InsertAt

\* So with one taken out; and it is shorter by one.
LEMMA RemoveAtIs ==
    ASSUME NEW B, NEW q \in Seq(B), NEW i \in 1..Len(q)
    PROVE  RemoveAt(q, i) \in Seq(B) /\ Len(RemoveAt(q, i)) = Len(q) - 1
<1>1. SubSeq(q, 1, i - 1) \in Seq(B) /\ Len(SubSeq(q, 1, i - 1)) = i - 1
  BY SubSeqProperties
<1>2. SubSeq(q, i + 1, Len(q)) \in Seq(B) /\ Len(SubSeq(q, i + 1, Len(q))) = Len(q) - i
  BY SubSeqProperties
<1>3. RemoveAt(q, i) \in Seq(B)
      /\ Len(RemoveAt(q, i)) = Len(SubSeq(q, 1, i - 1)) + Len(SubSeq(q, i + 1, Len(q)))
  BY <1>1, <1>2, ConcatProperties DEF RemoveAt
<1> DEFINE u == SubSeq(q, 1, i - 1)
           v == SubSeq(q, i + 1, Len(q))
<1>4. Len(u) = i - 1 /\ Len(v) = Len(q) - i /\ Len(RemoveAt(q, i)) = Len(u) + Len(v)
  BY <1>1, <1>2, <1>3
<1>5. i \in Int /\ Len(q) \in Int
  OBVIOUS
<1> DEFINE r == RemoveAt(q, i)
           lu == Len(u)
           lv == Len(v)
           lq == Len(q)
           lr == Len(r)
<1>6. lu = i - 1 /\ lv = lq - i /\ lr = lu + lv /\ i \in Int /\ lq \in Int
  BY <1>4, <1>5
<1> HIDE DEF lu, lv, lq, lr
<1>7. lr = lq - 1
  BY <1>6
<1> QED
  BY <1>3, <1>7 DEF lr, lq

\* Placed puts the card somewhere into the sequence (sortEditDeck).
LEMMA PlacedIs ==
    ASSUME NEW q \in Seq(Card), NEW c \in Card
    PROVE  Placed(q, c) \in Seq(Card)
<1> DEFINE T == {i \in DOMAIN q : Rank[q[i]] <= Rank[c]}
<1>1. T \in SUBSET (1..Len(q))
  OBVIOUS
<1>2. IsFiniteSet(1..Len(q)) /\ Cardinality(1..Len(q)) = Len(q)
  <2>1. Len(q) \in Nat
    OBVIOUS
  <2> DEFINE n == Len(q)
  <2> HIDE DEF n
  <2>2. IsFiniteSet(1..n) /\ Cardinality(1..n) = n
    <3>1. n \in Int /\ 1 \in Int /\ n - 1 + 1 = n
      BY <2>1 DEF n
    <3>2. Cardinality(1..n) = IF 1 > n THEN 0 ELSE n - 1 + 1
      BY <3>1, FS_Interval
    <3> QED
      BY <2>1, <3>1, <3>2, FS_Interval DEF n
  <2> QED
    BY <2>2 DEF n
<1>3. Cardinality(T) \in Nat /\ Cardinality(T) <= Len(q)
  BY <1>1, <1>2, FS_Subset, FS_CardinalityType
<1>4. Cardinality(T) + 1 \in 1..(Len(q) + 1)
  BY <1>3
<1> HIDE DEF T
<1>5. InsertAt(q, Cardinality(T) + 1, c) \in Seq(Card)
  BY <1>4, InsertAtIs
<1> QED
  BY <1>5 DEF Placed, T

\* A sort places the cards of a zone one by one.
Sorting(G, q, n) ==
    /\ G \in [0..n -> Seq(Card)] /\ G[0] = <<>>
    /\ \A k \in 1..n : G[k] = Placed(G[k - 1], q[k])

\* So a fold is computed, element by element.
LEMMA SortRuns ==
    ASSUME NEW q \in Seq(Card), NEW n \in Nat, n = Len(q)
    PROVE  \E G : Sorting(G, q, n) /\ FoldLeft(Placed, <<>>, q) = G[n]
<1> DEFINE F == [p \in Seq(Card) \X Card |-> Placed(p[1], p[2])]
           H == CHOOSE it : it = [S \in SUBSET (DOMAIN q) |->
                  IF S = {} THEN <<>> ELSE Placed(it[S \ {Max(S)}], q[Max(S)])]
<1>1. DOMAIN q = 1..n /\ <<>> \in Seq(Card) /\ q \in Seq(Card)
  BY EmptySeq
<1>2. ASSUME NEW t0 \in Seq(Card), NEW e \in Card PROVE Placed(t0, e) \in Seq(Card)
  BY <1>2, PlacedIs
<1>3. F \in [Seq(Card) \X Card -> Seq(Card)]
  BY <1>2
<1>4. \A t0 \in Seq(Card), e \in Card : F[<<t0, e>>] = Placed(t0, e)
  OBVIOUS
<1> HIDE DEF F
<1>5. PICK it : Folding(it, F, <<>>, q, n)
  BY FoldExists
<1>6. \A S \in SUBSET (1..n) : it[S] \in Seq(Card)
  BY <1>1, <1>3, <1>5, FoldStays
<1>7. ASSUME NEW S \in SUBSET (1..n), S # {}
      PROVE  q[Max(S)] \in Card /\ S \ {Max(S)} \in SUBSET (1..n)
  <2>1. Max(S) \in 1..n
    BY <1>7, Greatest
  <2> QED
    BY <1>1, <2>1, ElementOfSeq
<1>8. it = [S \in SUBSET (DOMAIN q) |->
              IF S = {} THEN <<>> ELSE Placed(it[S \ {Max(S)}], q[Max(S)])]
  BY <1>1, <1>4, <1>5, <1>6, <1>7 DEF Folding
<1>9. H = [S \in SUBSET (DOMAIN q) |->
              IF S = {} THEN <<>> ELSE Placed(H[S \ {Max(S)}], q[Max(S)])]
  BY <1>8
<1>10. FoldLeft(Placed, <<>>, q) = H[DOMAIN q]
  BY DEF FoldLeft, MapThenFoldSet
<1> HIDE DEF H
<1>11. Computes(H, Seq(Card), F, <<>>, q, n)
  <2> SUFFICES ASSUME NEW S \in SUBSET (1..n)
               PROVE  /\ S = {} => H[S] = <<>>
                      /\ S # {} /\ H[S \ {Max(S)}] \in Seq(Card) =>
                           H[S] = F[<<H[S \ {Max(S)}], q[Max(S)]>>]
    BY DEF Computes
  <2>1. H[S] = IF S = {} THEN <<>> ELSE Placed(H[S \ {Max(S)}], q[Max(S)])
    BY <1>1, <1>9
  <2> QED
    BY <1>4, <1>7, <2>1
<1>12. PICK G : Runs(G, Seq(Card), F, <<>>, q, n) /\ G[n] = H[1..n]
  <2>1. Foldable(Seq(Card), Card, F, <<>>, q, n)
    BY <1>1, <1>3 DEF Foldable
  <2> QED
    BY ONLY <2>1, <1>11, FoldRuns
<1>13. FoldLeft(Placed, <<>>, q) = G[n]
  BY <1>1, <1>10, <1>12
<1>14. \A k \in 1..n : q[k] \in Card
  BY <1>1, ElementOfSeq
<1>15. \A k \in 1..n : G[k] = Placed(G[k - 1], q[k])
  <2> SUFFICES ASSUME NEW k \in 1..n PROVE G[k] = Placed(G[k - 1], q[k])
    OBVIOUS
  <2>1. k - 1 \in 0..n
    OBVIOUS
  <2>2. G[k - 1] \in Seq(Card) /\ G[k] = F[<<G[k - 1], q[k]>>]
    BY <1>12, <2>1 DEF Runs
  <2>3. q[k] \in Card
    BY <1>14
  <2> QED
    BY <1>4, <2>2, <2>3
<1>16. Sorting(G, q, n)
  BY <1>12, <1>15 DEF Runs, Sorting
<1> QED
  BY <1>13, <1>16

\* A sorted deck is a deck.
LEMMA SortedIs ==
    ASSUME NEW d \in AnyDeck
    PROVE  Sorted(d) \in AnyDeck
<1> SUFFICES ASSUME NEW z \in Zone PROVE FoldLeft(Placed, <<>>, d[z]) \in Seq(Card)
  BY DEF Sorted, AnyDeck
<1> DEFINE q == d[z]
           n == Len(q)
<1>1. q \in Seq(Card) /\ n \in Nat
  BY DEF AnyDeck
<1>2. n = Len(q)
  OBVIOUS
<1> HIDE DEF q, n
<1>3. PICK G : Sorting(G, q, n) /\ FoldLeft(Placed, <<>>, q) = G[n]
  BY <1>1, <1>2, SortRuns
<1>4. G[n] \in Seq(Card)
  BY <1>1, <1>3 DEF Sorting
<1> QED
  BY <1>3, <1>4 DEF q

-----------------------------------------------------------------------------
(* What Tidy leaves.                                                        *)

\* An appended card counts once.
LEMMA CountIs ==
    ASSUME NEW q \in Seq(Card), NEW e \in Card
    PROVE  /\ Count(q, e) \in Nat
           /\ \A c \in Card : Count(Append(q, c), e) = Count(q, e) + (IF c = e THEN 1 ELSE 0)
<1> DEFINE n == Len(q)
           At(p) == {i \in DOMAIN p : p[i] = e}
           T == At(q)
<1>1. n \in Nat /\ q \in [1..n -> Card] /\ DOMAIN q = 1..n
  OBVIOUS
<1>2. T \in SUBSET (1..n) /\ IsFiniteSet(T) /\ Cardinality(T) \in Nat
  <2>1. T \in SUBSET (1..n)
    BY <1>1
  <2>2. IsFiniteSet(1..n)
    BY <1>1, FS_Interval
  <2> HIDE DEF T
  <2> QED
    BY <2>1, <2>2, FS_Subset, FS_CardinalityType
<1>3. Count(q, e) = Cardinality(T)
  BY DEF Count
<1>4. ASSUME NEW c \in Card
      PROVE  Count(Append(q, c), e) = Count(q, e) + (IF c = e THEN 1 ELSE 0)
  <2> DEFINE r == Append(q, c)
  <2>1. DOMAIN r = 1..(n + 1) /\ r[n + 1] = c /\ \A i \in 1..n : r[i] = q[i]
    BY <1>1, AppendProperties
  <2> HIDE DEF r
  <2>2. n + 1 \notin T /\ n + 1 \in 1..(n + 1) /\ \A i \in 1..(n + 1) : i \in 1..n \/ i = n + 1
    BY <1>1, <1>2
  <2>3. Count(r, e) = Cardinality(At(r))
    BY DEF Count
  <2>4. CASE c = e
    <3>1. At(r) = T \cup {n + 1}
      BY <1>1, <2>1, <2>2, <2>4
    <3> HIDE DEF T, At, n
    <3>2. Cardinality(T \cup {n + 1}) = Cardinality(T) + 1
      BY <1>2, <2>2, FS_AddElement
    <3> QED
      BY <1>3, <2>3, <2>4, <3>1, <3>2 DEF r
  <2>5. CASE c # e
    <3>1. At(r) = T
      BY <1>1, <2>1, <2>2, <2>5
    <3> HIDE DEF T, At, n
    <3> QED
      BY <1>2, <1>3, <2>3, <2>5, <3>1 DEF r
  <2> QED
    BY <2>4, <2>5
<1> QED
  BY <1>2, <1>3, <1>4

\* Nothing counts nothing.
LEMMA CountNone == \A e \in Card : Count(<<>>, e) = 0
<1> TAKE e \in Card
<1>1. {i \in DOMAIN <<>> : <<>>[i] = e} = {}
  OBVIOUS
<1> QED
  BY <1>1, FS_EmptySet DEF Count

\* A prefix counts no more than the whole, and less before what it lacks.
LEMMA CountPrefix ==
    ASSUME NEW q \in Seq(Card), NEW n, n = Len(q), NEW e \in Card, NEW k \in 0..n
    PROVE  Count(Prefix(q, k), e) <= Count(q, e)
<1> DEFINE S == {i \in DOMAIN Prefix(q, k) : Prefix(q, k)[i] = e}
           T == {i \in DOMAIN q : q[i] = e}
<1>1. n \in Nat /\ DOMAIN q = 1..n
  OBVIOUS
<1>2. S \subseteq T /\ T \subseteq 1..n
  BY <1>1 DEF Prefix
<1>3. IsFiniteSet(T)
  <2>1. IsFiniteSet(1..n)
    BY <1>1, FS_Interval
  <2> HIDE DEF S, T
  <2> QED
    BY <1>2, <2>1, FS_Subset
<1>4. Cardinality(S) <= Cardinality(T)
  <2> HIDE DEF S, T
  <2> QED
    BY <1>2, <1>3, FS_Subset
<1> QED
  BY <1>4 DEF Count

\* A deck within the caps of its zones and the limit of every card.
Fits(d, limit) ==
    /\ \A z \in Zone : Len(d[z]) <= Cap(z)
    /\ \A c \in Card : InDeck(d, c) <= limit[c]

\* A tidying that has counted what it kept, and kept no more than fits.
Tidying_OK(t, limit) ==
    /\ t \in Tidying /\ Fits(t.deck, limit)
    /\ \A c \in Card : t.seen[c] = InDeck(t.deck, c)

\* The caps are numbers.
LEMMA CapIs == \A z \in Zone : Cap(z) \in Nat
  BY DeckBuilderAssumption DEF Cap

\* How a card more changes a deck's counts.
LEMMA InDeckIs ==
    ASSUME NEW d \in AnyDeck, NEW e \in Card
    PROVE  /\ InDeck(d, e) \in Nat
           /\ \A z \in Zone, c \in Card :
                InDeck([d EXCEPT ![z] = Append(@, c)], e) = InDeck(d, e) + (IF c = e THEN 1 ELSE 0)
<1>1. \A z \in Zone : d[z] \in Seq(Card)
  BY DEF AnyDeck
<1>2. {"main", "extra", "side"} = Zone
  BY DEF Zone
<1>3. \A z \in Zone : /\ Count(d[z], e) \in Nat
                      /\ \A c \in Card : Count(Append(d[z], c), e)
                                           = Count(d[z], e) + (IF c = e THEN 1 ELSE 0)
  BY <1>1, CountIs
<1>4. InDeck(d, e) \in Nat
  BY <1>2, <1>3 DEF InDeck
<1>5. ASSUME NEW z \in Zone, NEW c \in Card
      PROVE  InDeck([d EXCEPT ![z] = Append(@, c)], e) = InDeck(d, e) + (IF c = e THEN 1 ELSE 0)
  <2> DEFINE r == [d EXCEPT ![z] = Append(@, c)]
             one == IF c = e THEN 1 ELSE 0
  <2>1. r[z] = Append(d[z], c) /\ \A y \in Zone : y # z => r[y] = d[y]
    BY DEF AnyDeck
  <2>2. one \in Nat
    OBVIOUS
  <2> HIDE DEF r, one
  <2>3. Count(r[z], e) = Count(d[z], e) + one
    BY <1>3, <2>1 DEF one
  <2>4. \A y \in Zone : y # z => Count(r[y], e) = Count(d[y], e)
    BY <2>1
  <2> DEFINE a(y) == Count(d[y], e)
             b(y) == Count(r[y], e)
  <2>5. /\ a("main") \in Nat /\ a("extra") \in Nat /\ a("side") \in Nat
        /\ b(z) = a(z) + one /\ \A y \in Zone : y # z => b(y) = a(y)
    BY <1>2, <1>3, <2>3, <2>4
  <2>6. b("main") + b("extra") + b("side") = a("main") + a("extra") + a("side") + one
    <3> HIDE DEF a, b
    <3>1. CASE z = "main"
      BY <1>2, <2>2, <2>5, <3>1
    <3>2. CASE z = "extra"
      BY <1>2, <2>2, <2>5, <3>2
    <3>3. CASE z = "side"
      BY <1>2, <2>2, <2>5, <3>3
    <3> QED
      BY <1>2, <3>1, <3>2, <3>3
  <2> QED
    BY <2>6 DEF InDeck, r, one
<1> QED
  BY <1>4, <1>5

\* A step of Tidy keeps the count and the limits (tidyEditDeck).
LEMMA TidyStepKeeps ==
    ASSUME NEW limit \in Limits, NEW z \in Zone, NEW t, Tidying_OK(t, limit), NEW c \in Card
    PROVE  Tidying_OK(TidyStep(limit, z, t, c), limit)
<1> DEFINE u == TidyStep(limit, z, t, c)
<1>1. t \in Tidying /\ t.deck \in AnyDeck /\ t.seen \in [Card -> Nat] /\ u \in Tidying
  BY TidyStepIs DEF Tidying_OK, Tidying
<1>2. CASE ~(t.seen[c] < limit[c] /\ Len(t.deck[z]) < Cap(z))
  BY <1>2 DEF TidyStep
<1>3. CASE t.seen[c] < limit[c] /\ Len(t.deck[z]) < Cap(z)
  <2>1. u.deck = [t.deck EXCEPT ![z] = Append(@, c)] /\ u.seen = [t.seen EXCEPT ![c] = @ + 1]
    BY <1>3 DEF TidyStep
  <2>2. ASSUME NEW y \in Zone PROVE Len(u.deck[y]) <= Cap(y)
    <3>1. CASE y = z
      <4>1. u.deck[y] = Append(t.deck[z], c) /\ t.deck[z] \in Seq(Card) /\ Cap(z) \in Nat
        BY <1>1, <2>1, <3>1, CapIs DEF AnyDeck
      <4>2. Len(Append(t.deck[z], c)) = Len(t.deck[z]) + 1 /\ Len(t.deck[z]) \in Nat
        BY <4>1, AppendProperties
      <4> QED
        BY <1>3, <3>1, <4>1, <4>2
    <3>2. CASE y # z
      <4>1. u.deck[y] = t.deck[y]
        BY <1>1, <2>1, <3>2 DEF AnyDeck
      <4> QED
        BY <4>1 DEF Tidying_OK, Fits
    <3> QED
      BY <3>1, <3>2
  <2>3. ASSUME NEW e \in Card
        PROVE  u.seen[e] = InDeck(u.deck, e) /\ InDeck(u.deck, e) <= limit[e]
    <3>1. t.seen[e] = InDeck(t.deck, e) /\ InDeck(t.deck, e) <= limit[e]
      BY DEF Tidying_OK, Fits
    <3>2. InDeck(u.deck, e) = InDeck(t.deck, e) + (IF c = e THEN 1 ELSE 0)
      BY <1>1, <2>1, InDeckIs, SMTT(20)
    <3>3. u.seen[e] = t.seen[e] + (IF c = e THEN 1 ELSE 0)
      BY <1>1, <2>1
    <3>4. limit[e] \in Nat /\ t.seen[e] \in Nat
      BY <1>1 DEF Limits
    <3> QED
      BY <1>3, <3>1, <3>2, <3>3, <3>4
  <2> QED
    BY <1>1, <2>2, <2>3 DEF Tidying_OK, Fits
<1> QED
  BY <1>2, <1>3

\* So does Tidy with a zone.
LEMMA TrimKeeps ==
    ASSUME NEW limit \in Limits, NEW z \in Zone, NEW t, Tidying_OK(t, limit),
           NEW zone \in Seq(Card)
    PROVE  Tidying_OK(Trim(limit, z, t, zone), limit)
<1> DEFINE n == Len(zone)
<1>1. n \in Nat /\ n = Len(zone) /\ t \in Tidying
  BY DEF Tidying_OK
<1> HIDE DEF n
<1>2. PICK G : Trimming(G, limit, z, t, zone, n) /\ Trim(limit, z, t, zone) = G[n]
  BY <1>1, TrimRuns
<1> DEFINE P == {k \in 0..n : Tidying_OK(G[k], limit)}
<1>3. 0 \in P
  BY <1>1, <1>2 DEF Trimming
<1>4. ASSUME NEW k \in 1..n, k - 1 \in P PROVE k \in P
  <2>1. G[k] = TidyStep(limit, z, G[k - 1], zone[k])
    BY <1>2 DEF Trimming
  <2>2. zone[k] \in Card
    BY <1>1, ElementOfSeq
  <2>3. Tidying_OK(G[k], limit)
    BY <1>4, <2>1, <2>2, TidyStepKeeps
  <2> QED
    BY <2>3
<1>5. \A k \in 0..n : k \in P
  <2> HIDE DEF P
  <2> QED
    BY <1>1, <1>3, <1>4, Upto
<1> QED
  BY <1>1, <1>2, <1>5

\* A zone that fits beside what is kept is kept whole.
LEMMA TrimWhole ==
    ASSUME NEW limit \in Limits, NEW z \in Zone, NEW t, Tidying_OK(t, limit),
           NEW zone \in Seq(Card), t.deck[z] = <<>>,
           Fits([t.deck EXCEPT ![z] = zone], limit)
    PROVE  Trim(limit, z, t, zone).deck = [t.deck EXCEPT ![z] = zone]
<1> DEFINE n == Len(zone)
           D(k) == [t.deck EXCEPT ![z] = Prefix(zone, k)]
<1>1. n \in Nat /\ n = Len(zone) /\ t \in Tidying /\ t.deck \in AnyDeck
  BY DEF Tidying_OK, Tidying
<1> HIDE DEF n
<1>2. PICK G : Trimming(G, limit, z, t, zone, n) /\ Trim(limit, z, t, zone) = G[n]
  BY <1>1, TrimRuns
<1> DEFINE P == {k \in 0..n : Tidying_OK(G[k], limit) /\ G[k].deck = D(k)}
<1>3. 0 \in P
  <2>1. Prefix(zone, 0) = <<>>
    BY <1>1, PrefixIs DEF Prefixed
  <2>2. D(0) = t.deck
    BY <1>1, <2>1 DEF AnyDeck
  <2> QED
    BY <1>1, <1>2, <2>2 DEF Trimming
<1>4. ASSUME NEW k \in 1..n, k - 1 \in P PROVE k \in P
  <2> DEFINE u == G[k - 1]
             c == zone[k]
             p == Prefix(zone, k - 1)
  <2>1. G[k] = TidyStep(limit, z, u, c) /\ c \in Card /\ k \in 0..n /\ k - 1 \in 0..n
    BY <1>1, <1>2, ElementOfSeq DEF Trimming
  <2>2. Tidying_OK(u, limit) /\ u.deck = D(k - 1)
    BY <1>4
  <2>3. p \in Seq(Card) /\ Len(p) = k - 1 /\ Append(p, c) = Prefix(zone, k)
    <3>1. /\ \A j \in 0..n : Prefix(zone, j) \in Seq(Card) /\ Len(Prefix(zone, j)) = j
          /\ \A j \in 1..n : Append(Prefix(zone, j - 1), zone[j]) = Prefix(zone, j)
      BY <1>1, PrefixIs, SMTT(30) DEF Prefixed
    <3> QED
      BY <2>1, <3>1
  <2>4. u.deck[z] = p /\ u.deck \in AnyDeck /\ u \in Tidying
    BY <1>1, <2>2 DEF AnyDeck, Tidying_OK, Tidying
  <2>5. [u.deck EXCEPT ![z] = Append(@, c)] = D(k)
    <3>1. [u.deck EXCEPT ![z] = Append(@, c)] = [u.deck EXCEPT ![z] = Prefix(zone, k)]
      BY <2>3, <2>4
    <3>2. [D(k - 1) EXCEPT ![z] = Prefix(zone, k)] = D(k)
      BY <1>1 DEF AnyDeck
    <3> QED
      BY <2>2, <3>1, <3>2
  <2>6. Len(u.deck[z]) < Cap(z)
    <3>1. [t.deck EXCEPT ![z] = zone][z] = zone
      BY <1>1 DEF AnyDeck
    <3>2. n <= Cap(z) /\ Cap(z) \in Nat
      BY <1>1, <3>1, CapIs DEF Fits
    <3> QED
      BY <1>1, <2>3, <2>4, <3>2
  <2>7. u.seen[c] < limit[c]
    <3> DEFINE whole == [t.deck EXCEPT ![z] = zone]
    <3>1. /\ whole[z] = zone /\ D(k)[z] = Prefix(zone, k)
          /\ \A y \in Zone : y # z => whole[y] = D(k)[y]
      BY <1>1 DEF AnyDeck
    <3>2. Count(D(k)[z], c) <= Count(whole[z], c)
      BY <1>1, <2>1, <3>1, CountPrefix
    <3>3. Prefix(zone, k) \in Seq(Card)
      BY <1>1, <2>1, PrefixIs DEF Prefixed
    <3>4. whole \in AnyDeck /\ D(k) \in AnyDeck
      BY <1>1, <3>3 DEF AnyDeck
    <3>5. InDeck(D(k), c) = InDeck(u.deck, c) + 1 /\ InDeck(u.deck, c) \in Nat
      <4>1. /\ InDeck(u.deck, c) \in Nat
            /\ InDeck([u.deck EXCEPT ![z] = Append(@, c)], c)
                 = InDeck(u.deck, c) + (IF c = c THEN 1 ELSE 0)
        BY <2>1, <2>4, InDeckIs, ZenonT(30)
      <4> HIDE DEF D, u, c
      <4> QED
        BY <2>5, <4>1
    <3>6. InDeck(whole, c) <= limit[c]
      BY <2>1 DEF Fits
    <3>7. InDeck(D(k), c) <= InDeck(whole, c)
      <4> DEFINE a(y) == Count(D(k)[y], c)
                 b(y) == Count(whole[y], c)
      <4>1. \A y \in Zone : a(y) \in Nat /\ b(y) \in Nat /\ a(y) <= b(y)
        <5> TAKE y \in Zone
        <5>1. D(k)[y] \in Seq(Card) /\ whole[y] \in Seq(Card)
          BY <3>4 DEF AnyDeck
        <5> HIDE DEF D, whole
        <5>2. a(y) \in Nat /\ b(y) \in Nat
          BY <2>1, <5>1, CountIs
        <5>3. CASE y = z
          BY <3>2, <5>2, <5>3
        <5>4. CASE y # z
          BY <3>1, <5>2, <5>4
        <5> QED
          BY <5>2, <5>3, <5>4
      <4>2. {"main", "extra", "side"} = Zone
        BY DEF Zone
      <4>3. a("main") + a("extra") + a("side") <= b("main") + b("extra") + b("side")
        <5> HIDE DEF a, b
        <5> QED
          BY <4>1, <4>2
      <4> QED
        BY <4>3 DEF InDeck
    <3> HIDE DEF D, whole
    <3>8. InDeck(D(k), c) \in Nat /\ InDeck(whole, c) \in Nat /\ limit[c] \in Nat
      BY <2>1, <3>4, InDeckIs DEF Limits
    <3>9. u.seen[c] = InDeck(u.deck, c)
      BY <2>1, <2>2 DEF Tidying_OK
    <3> HIDE DEF u, c
    <3> QED
      BY <3>5, <3>6, <3>7, <3>8, <3>9
  <2>8. G[k].deck = D(k)
    BY <2>1, <2>5, <2>6, <2>7 DEF TidyStep
  <2>9. Tidying_OK(G[k], limit)
    BY <2>1, <2>2, TidyStepKeeps
  <2> QED
    BY <2>1, <2>8, <2>9
<1>5. \A k \in 0..n : k \in P
  <2> HIDE DEF P
  <2> QED
    BY <1>1, <1>3, <1>4, Upto
<1>6. D(n) = [t.deck EXCEPT ![z] = zone]
  BY <1>1, PrefixIs DEF Prefixed
<1> QED
  BY <1>1, <1>2, <1>5, <1>6

\* Tidy's three zones, one after the other, with one count (tidyEditDeck).
LEMMA TidiedIs ==
    ASSUME NEW d \in AnyDeck, NEW limit \in Limits
    PROVE  /\ Tidied(d, limit) \in AnyDeck /\ Fits(Tidied(d, limit), limit)
           /\ Fits(d, limit) => Tidied(d, limit) = d
<1> DEFINE t0 == [deck |-> NoCards, seen |-> [c \in Card |-> 0]]
           t1 == Trim(limit, "main", t0, d["main"])
           t2 == Trim(limit, "extra", t1, d["extra"])
           t3 == Trim(limit, "side", t2, d["side"])
<1>1. Tidied(d, limit) = t3.deck
  BY DEF Tidied
<1>2. /\ "main" \in Zone /\ "extra" \in Zone /\ "side" \in Zone
      /\ d["main"] \in Seq(Card) /\ d["extra"] \in Seq(Card) /\ d["side"] \in Seq(Card)
      /\ \A z \in Zone : z = "main" \/ z = "extra" \/ z = "side"
  BY DEF AnyDeck, Zone
<1>3. t0.deck = NoCards /\ NoCards \in AnyDeck /\ \A z \in Zone : NoCards[z] = <<>>
  <2>1. \A z \in Zone : NoCards[z] = <<>>
    BY DEF NoCards
  <2> QED
    BY <2>1, EmptySeq DEF NoCards, AnyDeck
<1>4. Tidying_OK(t0, limit)
  <2>1. t0 \in Tidying
    BY <1>3 DEF Tidying
  <2>2. \A c \in Card : InDeck(NoCards, c) = 0
    BY <1>2, <1>3, CountNone DEF InDeck
  <2>3. \A z \in Zone : Len(NoCards[z]) <= Cap(z)
    BY <1>3, CapIs
  <2>4. \A c \in Card : limit[c] \in Nat /\ t0.seen[c] = 0
    BY DEF Limits
  <2> HIDE DEF t0
  <2> QED
    BY <1>3, <2>1, <2>2, <2>3, <2>4 DEF Tidying_OK, Fits
<1> HIDE DEF t0
<1>5. Tidying_OK(t1, limit)
  BY <1>2, <1>4, TrimKeeps
<1> HIDE DEF t1
<1>6. Tidying_OK(t2, limit)
  BY <1>2, <1>5, TrimKeeps
<1> HIDE DEF t2
<1>7. Tidying_OK(t3, limit)
  BY <1>2, <1>6, TrimKeeps
<1> HIDE DEF t3
<1>8. ASSUME Fits(d, limit) PROVE t3.deck = d
  <2> DEFINE d1 == [NoCards EXCEPT !["main"] = d["main"]]
             d2 == [d1 EXCEPT !["extra"] = d["extra"]]
  <2>1. /\ d1["main"] = d["main"] /\ d1["extra"] = <<>> /\ d1["side"] = <<>>
        /\ d2["main"] = d["main"] /\ d2["extra"] = d["extra"] /\ d2["side"] = <<>>
        /\ d1 \in AnyDeck /\ d2 \in AnyDeck
    BY <1>2, <1>3 DEF AnyDeck
  <2>2. [d2 EXCEPT !["side"] = d["side"]] = d
    BY <1>2, <1>3, <2>1 DEF AnyDeck
  <2> HIDE DEF d1, d2
  <2>3. ASSUME NEW e \in AnyDeck, \A z \in Zone : e[z] = d[z] \/ e[z] = <<>>
        PROVE  Fits(e, limit)
    <3>1. \A z \in Zone : Len(d[z]) <= Cap(z) /\ Cap(z) \in Nat /\ Len(<<>>) = 0
      BY <1>8, CapIs DEF Fits
    <3>2. ASSUME NEW c \in Card PROVE InDeck(e, c) <= limit[c]
      <4> DEFINE a(z) == Count(e[z], c)
                 b(z) == Count(d[z], c)
      <4>1. \A z \in Zone : a(z) \in Nat /\ b(z) \in Nat /\ a(z) <= b(z)
        <5> TAKE z \in Zone
        <5>1. e[z] \in Seq(Card) /\ d[z] \in Seq(Card)
          BY DEF AnyDeck
        <5>2. a(z) \in Nat /\ b(z) \in Nat
          BY <5>1, CountIs
        <5>3. CASE e[z] = d[z]
          BY <5>2, <5>3
        <5>4. CASE e[z] = <<>>
          BY <5>2, <5>4, CountNone
        <5> QED
          BY <2>3, <5>3, <5>4, <5>2
      <4>2. a("main") + a("extra") + a("side") <= b("main") + b("extra") + b("side")
        <5> HIDE DEF a, b
        <5> QED
          BY <1>2, <4>1
      <4>3. InDeck(e, c) <= InDeck(d, c) /\ InDeck(d, c) <= limit[c]
        BY <1>8, <4>2 DEF InDeck, Fits
      <4>4. InDeck(e, c) \in Nat /\ InDeck(d, c) \in Nat /\ limit[c] \in Nat
        BY InDeckIs DEF Limits
      <4> QED
        BY <4>3, <4>4
    <3>3. \A z \in Zone : Len(e[z]) <= Cap(z)
      BY <2>3, <3>1
    <3> QED
      BY <3>2, <3>3 DEF Fits
  <2>4. t1.deck = d1
    <3>1. Fits([t0.deck EXCEPT !["main"] = d["main"]], limit)
      <4>1. Fits(d1, limit)
        BY <1>2, <2>1, <2>3
      <4> QED
        BY <1>3, <4>1 DEF d1
    <3>2. t0.deck["main"] = <<>>
      BY <1>2, <1>3
    <3>3. Trim(limit, "main", t0, d["main"]).deck = [t0.deck EXCEPT !["main"] = d["main"]]
      BY <1>2, <1>4, <3>1, <3>2, TrimWhole
    <3> QED
      BY <1>3, <3>3 DEF t1, d1
  <2>5. t2.deck = d2
    <3>1. Fits([t1.deck EXCEPT !["extra"] = d["extra"]], limit)
      <4>1. Fits(d2, limit)
        BY <1>2, <2>1, <2>3
      <4> QED
        BY <2>4, <4>1 DEF d2
    <3>2. t1.deck["extra"] = <<>>
      BY <2>1, <2>4
    <3>3. Trim(limit, "extra", t1, d["extra"]).deck = [t1.deck EXCEPT !["extra"] = d["extra"]]
      BY <1>2, <1>5, <3>1, <3>2, TrimWhole
    <3> QED
      BY <2>4, <3>3 DEF t2, d2
  <2>6. t3.deck = [d2 EXCEPT !["side"] = d["side"]]
    <3>1. Fits([t2.deck EXCEPT !["side"] = d["side"]], limit)
      BY <1>8, <2>2, <2>5
    <3>2. t2.deck["side"] = <<>>
      BY <2>1, <2>5
    <3>3. Trim(limit, "side", t2, d["side"]).deck = [t2.deck EXCEPT !["side"] = d["side"]]
      BY <1>2, <1>6, <3>1, <3>2, TrimWhole
    <3> QED
      BY <2>5, <3>3 DEF t3
  <2> QED
    BY <2>2, <2>6
<1> QED
  BY <1>1, <1>7, <1>8 DEF Tidying_OK, Tidying

\* What fits is legal but for being short, and what is legal fits (deckLegality).
LEMMA FitsIs ==
    ASSUME NEW d \in AnyDeck, NEW limit \in Limits
    PROVE  /\ Fits(d, limit) => Legality(d, limit) \in {"legal", "short"}
           /\ Legality(d, limit) = "legal" => Fits(d, limit)
<1>1. \A z \in Zone : Len(d[z]) \in Nat /\ Cap(z) \in Nat
  BY CapIs DEF AnyDeck
<1>2. \A c \in Card : InDeck(d, c) \in Nat /\ limit[c] \in Nat
  BY InDeckIs DEF Limits
<1>3. Fits(d, limit) <=> /\ ~ \E z \in Zone : Len(d[z]) > Cap(z)
                         /\ ~ \E c \in Card : InDeck(d, c) > limit[c]
  BY <1>1, <1>2 DEF Fits
<1> QED
  BY <1>3 DEF Legality

\* Tidy makes a deck legal, and has no more to do then.
LEMMA TidyIs ==
    ASSUME NEW d \in AnyDeck, NEW limit \in Limits
    PROVE  LET t == Tidied(d, limit) IN
           /\ Legality(t, limit) \in {"legal", "short"}
           /\ Legality(d, limit) = "legal" => t = d
           /\ Tidied(t, limit) = t
<1>1. Tidied(d, limit) \in AnyDeck /\ Fits(Tidied(d, limit), limit)
  BY TidiedIs
<1>2. Fits(d, limit) => Tidied(d, limit) = d
  BY TidiedIs
<1>3. Tidied(Tidied(d, limit), limit) = Tidied(d, limit)
  BY <1>1, TidiedIs
<1> QED
  BY <1>1, <1>2, <1>3, FitsIs

-----------------------------------------------------------------------------
(* Decks as text.                                                           *)

Line == Card \cup {"#created", "#main", "#extra", "!side"}
Reader == [zone : Zone, deck : AnyDeck]

\* What a line does (deckFromYdkText).
LEMMA TextLineIs ==
    ASSUME NEW t \in Reader
    PROVE  /\ TextLine(t, "#created") = t
           /\ TextLine(t, "#main") = [t EXCEPT !.zone = "main"]
           /\ TextLine(t, "#extra") = [t EXCEPT !.zone = "extra"]
           /\ TextLine(t, "!side") = [t EXCEPT !.zone = "side"]
           /\ \A c \in Card : TextLine(t, c) = [t EXCEPT !.deck[t.zone] = Append(@, c)]
<1>1. \A c \in Card : c # "#created" /\ c # "#main" /\ c # "#extra" /\ c # "!side"
  BY DeckBuilderAssumption
<1> QED
  BY <1>1 DEF TextLine

\* A line read leaves a reader.
LEMMA TextLineType ==
    ASSUME NEW t \in Reader, NEW l \in Line
    PROVE  TextLine(t, l) \in Reader
<1>1. t.zone \in Zone /\ t.deck \in AnyDeck
  BY DEF Reader
<1>2. CASE l \in Card
  <2>1. TextLine(t, l) = [t EXCEPT !.deck[t.zone] = Append(@, l)]
    BY <1>2, TextLineIs
  <2>2. t.deck[t.zone] \in Seq(Card)
    BY <1>1 DEF AnyDeck
  <2>3. Append(t.deck[t.zone], l) \in Seq(Card)
    BY <1>2, <2>2, AppendProperties
  <2>4. [t.deck EXCEPT ![t.zone] = Append(t.deck[t.zone], l)] \in AnyDeck
    BY <1>1, <2>3 DEF AnyDeck
  <2> QED
    BY <1>1, <2>1, <2>4 DEF Reader
<1>3. CASE l \notin Card
  <2>1. l \in {"#created", "#main", "#extra", "!side"}
    BY <1>3 DEF Line
  <2>2. TextLine(t, l) = t \/ \E z \in Zone : TextLine(t, l) = [t EXCEPT !.zone = z]
    BY <2>1, TextLineIs DEF Zone
  <2>3. \A z \in Zone : [t EXCEPT !.zone = z] \in Reader
    BY <1>1 DEF Reader
  <2> QED
    BY <2>2, <2>3
<1> QED
  BY <1>2, <1>3

\* The text is read line by line.
Reading(G, r0, lines, n) ==
    /\ G \in [0..n -> Reader] /\ G[0] = r0
    /\ \A k \in 1..n : G[k] = TextLine(G[k - 1], lines[k])

\* So a fold is computed, element by element.
LEMMA TextRuns ==
    ASSUME NEW r0 \in Reader, NEW lines \in Seq(Line), NEW n \in Nat, n = Len(lines)
    PROVE  \E G : Reading(G, r0, lines, n) /\ FoldLeft(TextLine, r0, lines) = G[n]
<1> DEFINE F == [p \in Reader \X Line |-> TextLine(p[1], p[2])]
           H == CHOOSE it : it = [S \in SUBSET (DOMAIN lines) |->
                  IF S = {} THEN r0 ELSE TextLine(it[S \ {Max(S)}], lines[Max(S)])]
<1>1. DOMAIN lines = 1..n /\ r0 \in Reader /\ lines \in Seq(Line)
  OBVIOUS
<1>2. ASSUME NEW t0 \in Reader, NEW e \in Line PROVE TextLine(t0, e) \in Reader
  BY <1>2, TextLineType
<1>3. F \in [Reader \X Line -> Reader]
  BY <1>2
<1>4. \A t0 \in Reader, e \in Line : F[<<t0, e>>] = TextLine(t0, e)
  OBVIOUS
<1> HIDE DEF F
<1>5. PICK it : Folding(it, F, r0, lines, n)
  BY FoldExists
<1>6. \A S \in SUBSET (1..n) : it[S] \in Reader
  BY <1>1, <1>3, <1>5, FoldStays
<1>7. ASSUME NEW S \in SUBSET (1..n), S # {}
      PROVE  lines[Max(S)] \in Line /\ S \ {Max(S)} \in SUBSET (1..n)
  <2>1. Max(S) \in 1..n
    BY <1>7, Greatest
  <2> QED
    BY <1>1, <2>1, ElementOfSeq
<1>8. it = [S \in SUBSET (DOMAIN lines) |->
              IF S = {} THEN r0 ELSE TextLine(it[S \ {Max(S)}], lines[Max(S)])]
  BY <1>1, <1>4, <1>5, <1>6, <1>7 DEF Folding
<1>9. H = [S \in SUBSET (DOMAIN lines) |->
              IF S = {} THEN r0 ELSE TextLine(H[S \ {Max(S)}], lines[Max(S)])]
  BY <1>8
<1>10. FoldLeft(TextLine, r0, lines) = H[DOMAIN lines]
  BY DEF FoldLeft, MapThenFoldSet
<1> HIDE DEF H
<1>11. Computes(H, Reader, F, r0, lines, n)
  <2> SUFFICES ASSUME NEW S \in SUBSET (1..n)
               PROVE  /\ S = {} => H[S] = r0
                      /\ S # {} /\ H[S \ {Max(S)}] \in Reader =>
                           H[S] = F[<<H[S \ {Max(S)}], lines[Max(S)]>>]
    BY DEF Computes
  <2>1. H[S] = IF S = {} THEN r0 ELSE TextLine(H[S \ {Max(S)}], lines[Max(S)])
    BY <1>1, <1>9
  <2> QED
    BY <1>4, <1>7, <2>1
<1>12. PICK G : Runs(G, Reader, F, r0, lines, n) /\ G[n] = H[1..n]
  <2>1. Foldable(Reader, Line, F, r0, lines, n)
    BY <1>1, <1>3 DEF Foldable
  <2> QED
    BY ONLY <2>1, <1>11, FoldRuns
<1>13. FoldLeft(TextLine, r0, lines) = G[n]
  BY <1>1, <1>10, <1>12
<1>14. \A k \in 1..n : lines[k] \in Line
  BY <1>1, ElementOfSeq
<1>15. \A k \in 1..n : G[k] = TextLine(G[k - 1], lines[k])
  <2> SUFFICES ASSUME NEW k \in 1..n PROVE G[k] = TextLine(G[k - 1], lines[k])
    OBVIOUS
  <2>1. k - 1 \in 0..n
    OBVIOUS
  <2>2. G[k - 1] \in Reader /\ G[k] = F[<<G[k - 1], lines[k]>>]
    BY <1>12, <2>1 DEF Runs
  <2>3. lines[k] \in Line
    BY <1>14
  <2> QED
    BY <1>4, <2>2, <2>3
<1>16. Reading(G, r0, lines, n)
  BY <1>12, <1>15 DEF Runs, Reading
<1> QED
  BY <1>13, <1>16

\* The lines after the o-th are those of q.
Follows(lines, o, q, m) == \A i \in 1..m : lines[o + i] = q[i]

\* After k lines the zone z of D is being read.
ReadsInto(G, k, z, D) == G[k] = [zone |-> z, deck |-> D]

\* Lines that are cards go to the zone that is being read, in their order.
LEMMA CardsRead ==
    ASSUME NEW r0, NEW lines, NEW n \in Nat, NEW G, Reading(G, r0, lines, n),
           NEW o \in Nat, NEW q \in Seq(Card), NEW m \in Nat, m = Len(q), o + m <= n,
           Follows(lines, o, q, m),
           NEW z \in Zone, NEW D \in AnyDeck, D[z] = <<>>,
           ReadsInto(G, o, z, D)
    PROVE  ReadsInto(G, o + m, z, [D EXCEPT ![z] = q])
<1> DEFINE R(k) == [zone |-> z, deck |-> [D EXCEPT ![z] = Prefix(q, k)]]
           P == {k \in 0..m : G[o + k] = R(k)}
<1>1. 0 \in P
  <2>1. Prefix(q, 0) = <<>>
    BY PrefixIs DEF Prefixed
  <2>2. [D EXCEPT ![z] = Prefix(q, 0)] = D
    BY <2>1 DEF AnyDeck
  <2> QED
    BY <2>2 DEF ReadsInto
<1>2. ASSUME NEW k \in 1..m, k - 1 \in P PROVE k \in P
  <2>1. o + k \in 1..n /\ o + k - 1 = o + (k - 1) /\ k \in 0..m /\ k - 1 \in 0..m
    OBVIOUS
  <2>2. G[o + k] = TextLine(G[o + k - 1], lines[o + k])
    BY <2>1 DEF Reading
  <2>3. G[o + (k - 1)] = R(k - 1)
    BY <1>2
  <2>4. q[k] \in Card /\ lines[o + k] = q[k]
    BY ElementOfSeq DEF Follows
  <2>5. Prefix(q, k - 1) \in Seq(Card) /\ Append(Prefix(q, k - 1), q[k]) = Prefix(q, k)
    <3>1. Prefixed(Card, q, m)
      BY PrefixIs
    <3> QED
      BY <2>1, <3>1 DEF Prefixed
  <2> DEFINE t == R(k - 1)
             p == Prefix(q, k - 1)
  <2>6. t \in Reader /\ t.zone = z /\ t.deck = [D EXCEPT ![z] = p]
    BY <2>5 DEF Reader, AnyDeck
  <2>7. [t EXCEPT !.deck[t.zone] = Append(@, q[k])] = R(k)
    <3>1. t.deck[z] = p /\ [t.deck EXCEPT ![z] = Append(p, q[k])] = [D EXCEPT ![z] = Prefix(q, k)]
      BY <2>5, <2>6 DEF AnyDeck
    <3> HIDE DEF p, t
    <3>2. [t EXCEPT !.deck[t.zone] = Append(@, q[k])]
            = [zone |-> t.zone, deck |-> [t.deck EXCEPT ![t.zone] = Append(t.deck[t.zone], q[k])]]
      BY <2>6 DEF Reader
    <3> QED
      BY <2>6, <3>1, <3>2
  <2>8. TextLine(t, q[k]) = R(k)
    <3> HIDE DEF R
    <3> QED
      BY <2>4, <2>6, <2>7, TextLineIs, ZenonT(30)
  <2>9. G[o + k] = R(k)
    <3> HIDE DEF R
    <3> QED
      BY <2>1, <2>2, <2>3, <2>4, <2>8 DEF t
  <2> QED
    BY <2>1, <2>9
<1>3. \A k \in 0..m : k \in P
  <2> HIDE DEF P
  <2> QED
    BY <1>1, <1>2, Upto
<1>4. Prefix(q, m) = q
  BY PrefixIs DEF Prefixed
<1>5. G[o + m] = R(m)
  BY <1>3
<1> QED
  BY <1>4, <1>5 DEF ReadsInto

\* The lines of a deck.
TextOf(lines, M, E, D, m, e, d) ==
    /\ lines \in Seq(Line) /\ Len(lines) = m + e + d + 4
    /\ lines[1] = "#created" /\ lines[2] = "#main"
    /\ Follows(lines, 2, M, m)
    /\ lines[m + 3] = "#extra"
    /\ Follows(lines, m + 3, E, e)
    /\ lines[m + e + 4] = "!side"
    /\ Follows(lines, m + e + 4, D, d)

\* So ToText puts them (deckToYdkText).
LEMMA LinesAre ==
    ASSUME NEW M \in Seq(Card), NEW E \in Seq(Card), NEW D \in Seq(Card),
           NEW m, m = Len(M), NEW e, e = Len(E), NEW d, d = Len(D), NEW lines,
           lines = <<"#created", "#main">> \o M \o <<"#extra">> \o E \o <<"!side">> \o D
    PROVE  TextOf(lines, M, E, D, m, e, d)
<1> DEFINE h == <<"#created", "#main">>
           x == <<"#extra">>
           y == <<"!side">>
           a == h \o M
           b == a \o x
           c == b \o E
           f == c \o y
<1>1. /\ h \in Seq(Line) /\ Len(h) = 2 /\ h[1] = "#created" /\ h[2] = "#main"
      /\ x \in Seq(Line) /\ Len(x) = 1 /\ x[1] = "#extra"
      /\ y \in Seq(Line) /\ Len(y) = 1 /\ y[1] = "!side"
  BY DEF Line
<1>2. M \in Seq(Line) /\ E \in Seq(Line) /\ D \in Seq(Line)
  BY SeqMonotonic DEF Line
<1>3. m \in Nat /\ e \in Nat /\ d \in Nat
  OBVIOUS
<1>4. lines = f \o D
  OBVIOUS
<1> HIDE DEF h, x, y
<1>5. /\ a \in Seq(Line) /\ Len(a) = m + 2
      /\ \A i \in 1..(m + 2) : a[i] = IF i <= 2 THEN h[i] ELSE M[i - 2]
  <2>1. /\ a \in Seq(Line) /\ Len(a) = Len(h) + Len(M)
        /\ \A i \in 1..(Len(h) + Len(M)) : a[i] = IF i <= Len(h) THEN h[i] ELSE M[i - Len(h)]
    BY <1>1, <1>2, ConcatProperties
  <2> HIDE DEF a
  <2> QED
    BY <1>1, <1>3, <2>1
<1> HIDE DEF a
<1>6. /\ b \in Seq(Line) /\ Len(b) = m + 3
      /\ \A i \in 1..(m + 3) : b[i] = IF i <= m + 2 THEN a[i] ELSE x[i - (m + 2)]
  <2>1. /\ b \in Seq(Line) /\ Len(b) = Len(a) + Len(x)
        /\ \A i \in 1..(Len(a) + Len(x)) : b[i] = IF i <= Len(a) THEN a[i] ELSE x[i - Len(a)]
    BY <1>1, <1>5, ConcatProperties
  <2> HIDE DEF b
  <2> QED
    BY <1>1, <1>3, <1>5, <2>1
<1> HIDE DEF b
<1>7. /\ c \in Seq(Line) /\ Len(c) = m + e + 3
      /\ \A i \in 1..(m + e + 3) : c[i] = IF i <= m + 3 THEN b[i] ELSE E[i - (m + 3)]
  <2>1. /\ c \in Seq(Line) /\ Len(c) = Len(b) + Len(E)
        /\ \A i \in 1..(Len(b) + Len(E)) : c[i] = IF i <= Len(b) THEN b[i] ELSE E[i - Len(b)]
    BY <1>2, <1>6, ConcatProperties
  <2> HIDE DEF c
  <2> QED
    BY <1>3, <1>6, <2>1
<1> HIDE DEF c
<1>8. /\ f \in Seq(Line) /\ Len(f) = m + e + 4
      /\ \A i \in 1..(m + e + 4) : f[i] = IF i <= m + e + 3 THEN c[i] ELSE y[i - (m + e + 3)]
  <2>1. /\ f \in Seq(Line) /\ Len(f) = Len(c) + Len(y)
        /\ \A i \in 1..(Len(c) + Len(y)) : f[i] = IF i <= Len(c) THEN c[i] ELSE y[i - Len(c)]
    <3>1. c \in Seq(Line) /\ y \in Seq(Line)
      BY <1>1, <1>7
    <3> QED
      BY ONLY <3>1, ConcatProperties
  <2> HIDE DEF f
  <2> QED
    BY <1>1, <1>3, <1>7, <2>1
<1> HIDE DEF f
<1>9. /\ lines \in Seq(Line) /\ Len(lines) = m + e + d + 4
      /\ \A i \in 1..(m + e + d + 4) :
            lines[i] = IF i <= m + e + 4 THEN f[i] ELSE D[i - (m + e + 4)]
  <2>1. /\ lines \in Seq(Line) /\ Len(lines) = Len(f) + Len(D)
        /\ \A i \in 1..(Len(f) + Len(D)) : lines[i] = IF i <= Len(f) THEN f[i] ELSE D[i - Len(f)]
    <3>1. f \in Seq(Line) /\ D \in Seq(Line) /\ lines = f \o D
      BY <1>2, <1>4, <1>8
    <3> QED
      BY ONLY <3>1, ConcatProperties
  <2>2. Len(f) + Len(D) = m + e + d + 4
    BY <1>3, <1>8
  <2> QED
    BY <1>3, <1>8, <2>1, <2>2
<1>10. ASSUME NEW i \in 1..(m + e + 4) PROVE lines[i] = f[i]
  <2>1. i \in 1..(m + e + d + 4) /\ i <= m + e + 4
    BY <1>3
  <2> QED
    BY <1>9, <2>1
<1>11. ASSUME NEW i \in 1..(m + e + 3) PROVE lines[i] = c[i]
  <2>1. i \in 1..(m + e + 4) /\ i <= m + e + 3
    BY <1>3
  <2> QED
    BY <1>8, <1>10, <2>1
<1>12. ASSUME NEW i \in 1..(m + 3) PROVE lines[i] = b[i]
  <2>1. i \in 1..(m + e + 3) /\ i <= m + 3
    BY <1>3
  <2> QED
    BY <1>7, <1>11, <2>1
<1>13. ASSUME NEW i \in 1..(m + 2) PROVE lines[i] = a[i]
  <2>1. i \in 1..(m + 3) /\ i <= m + 2
    BY <1>3
  <2> QED
    BY <1>6, <1>12, <2>1
<1>14. lines[1] = "#created" /\ lines[2] = "#main"
  BY <1>1, <1>3, <1>5, <1>13
<1>15. ASSUME NEW i \in 1..m PROVE lines[2 + i] = M[i]
  <2>1. 2 + i \in 1..(m + 2) /\ ~(2 + i <= 2) /\ (2 + i) - 2 = i
    BY <1>3
  <2> QED
    BY <1>5, <1>13, <2>1
<1>16. lines[m + 3] = "#extra"
  <2>1. m + 3 \in 1..(m + 3) /\ ~(m + 3 <= m + 2) /\ (m + 3) - (m + 2) = 1
    BY <1>3
  <2> QED
    BY <1>1, <1>6, <1>12, <2>1
<1>17. ASSUME NEW i \in 1..e PROVE lines[m + 3 + i] = E[i]
  <2>1. /\ m + 3 + i \in 1..(m + e + 3) /\ ~(m + 3 + i <= m + 3)
        /\ (m + 3 + i) - (m + 3) = i
    BY <1>3
  <2> QED
    BY <1>7, <1>11, <2>1
<1>18. lines[m + e + 4] = "!side"
  <2>1. /\ m + e + 4 \in 1..(m + e + 4) /\ ~(m + e + 4 <= m + e + 3)
        /\ (m + e + 4) - (m + e + 3) = 1
    BY <1>3
  <2> QED
    BY <1>1, <1>8, <1>10, <2>1
<1>19. ASSUME NEW i \in 1..d PROVE lines[m + e + 4 + i] = D[i]
  <2>1. /\ m + e + 4 + i \in 1..(m + e + d + 4) /\ ~(m + e + 4 + i <= m + e + 4)
        /\ (m + e + 4 + i) - (m + e + 4) = i
    BY <1>3
  <2> QED
    BY <1>9, <2>1
<1> QED
  BY <1>9, <1>14, <1>15, <1>16, <1>17, <1>18, <1>19 DEF TextOf, Follows

\* The text of a deck, read, is the deck.
LEMMA TextRoundTrip ==
    ASSUME NEW d \in AnyDeck
    PROVE  FromText(ToText(d)) = d
<1> DEFINE lines == ToText(d)
           M == d["main"]
           E == d["extra"]
           D == d["side"]
           m == Len(M)
           e == Len(E)
           l == Len(D)
           n == m + e + l + 4
           r0 == [zone |-> "main", deck |-> NoCards]
           d1 == [NoCards EXCEPT !["main"] = M]
           d2 == [d1 EXCEPT !["extra"] = E]
<1>1. /\ "main" \in Zone /\ "extra" \in Zone /\ "side" \in Zone
      /\ M \in Seq(Card) /\ E \in Seq(Card) /\ D \in Seq(Card)
      /\ \A z \in Zone : z = "main" \/ z = "extra" \/ z = "side"
  BY DEF AnyDeck, Zone
<1>2. NoCards \in AnyDeck /\ \A z \in Zone : NoCards[z] = <<>>
  <2>1. \A z \in Zone : NoCards[z] = <<>>
    BY DEF NoCards
  <2> QED
    BY <2>1, EmptySeq DEF NoCards, AnyDeck
<1>3. /\ d1 \in AnyDeck /\ d1["extra"] = <<>> /\ d1["side"] = <<>>
      /\ d2 \in AnyDeck /\ d2["side"] = <<>>
      /\ [d2 EXCEPT !["side"] = D] = d
  BY <1>1, <1>2 DEF AnyDeck
<1>4. lines = <<"#created", "#main">> \o M \o <<"#extra">> \o E \o <<"!side">> \o D
  BY DEF ToText
<1>5. m = Len(M) /\ e = Len(E) /\ l = Len(D) /\ m \in Nat /\ e \in Nat /\ l \in Nat
  BY <1>1
<1> HIDE DEF lines, M, E, D, m, e, l
<1>6. /\ lines \in Seq(Line) /\ Len(lines) = n
      /\ lines[1] = "#created" /\ lines[2] = "#main"
      /\ Follows(lines, 2, M, m)
      /\ lines[m + 3] = "#extra"
      /\ Follows(lines, m + 3, E, e)
      /\ lines[m + e + 4] = "!side"
      /\ Follows(lines, m + e + 4, D, l)
  <2>1. TextOf(lines, M, E, D, m, e, l)
    BY <1>1, <1>4, <1>5, LinesAre
  <2> QED
    BY <2>1 DEF TextOf
<1>7. r0 \in Reader /\ n \in Nat
  BY <1>1, <1>2, <1>5 DEF Reader
<1>8. FromText(lines) = FoldLeft(TextLine, r0, lines).deck
  BY DEF FromText
<1> HIDE DEF n
<1>9. PICK G : Reading(G, r0, lines, n) /\ FoldLeft(TextLine, r0, lines) = G[n]
  BY <1>6, <1>7, TextRuns
<1>10. /\ G[0] = r0
       /\ \A k \in 1..n : G[k] = TextLine(G[k - 1], lines[k])
  BY <1>9 DEF Reading
<1>11. n = m + e + l + 4
  BY DEF n
<1>12. G[1] = r0
  <2>1. 1 \in 1..n /\ 1 - 1 = 0
    BY <1>5, <1>11
  <2>2. G[1] = TextLine(r0, "#created")
    BY <1>6, <1>10, <2>1
  <2> QED
    BY <1>7, <2>2, TextLineIs
<1>13. G[2] = r0
  <2>1. 2 \in 1..n /\ 2 - 1 = 1
    BY <1>5, <1>11
  <2>2. G[2] = TextLine(r0, "#main")
    BY <1>6, <1>10, <1>12, <2>1
  <2>3. TextLine(r0, "#main") = [r0 EXCEPT !.zone = "main"]
    BY <1>7, TextLineIs
  <2> QED
    BY <2>2, <2>3
<1>14. G[2 + m] = [zone |-> "main", deck |-> d1]
  <2>1. 2 \in Nat /\ 2 + m <= n
    BY <1>5, <1>11
  <2>2. NoCards["main"] = <<>>
    BY <1>1, <1>2
  <2>3. ReadsInto(G, 2, "main", NoCards)
    BY <1>13 DEF ReadsInto
  <2>4. Follows(lines, 2, M, m)
    BY <1>6
  <2>5. ReadsInto(G, 2 + m, "main", [NoCards EXCEPT !["main"] = M])
    BY <1>1, <1>2, <1>5, <1>7, <1>9, <2>1, <2>2, <2>3, <2>4, CardsRead
  <2> QED
    BY <2>5 DEF ReadsInto
<1> HIDE DEF d1, r0
<1>15. G[m + 3] = [zone |-> "extra", deck |-> d1]
  <2>1. m + 3 \in 1..n /\ (m + 3) - 1 = 2 + m
    BY <1>5, <1>11
  <2> DEFINE t == [zone |-> "main", deck |-> d1]
  <2>2. G[m + 3] = TextLine(t, "#extra")
    BY <1>6, <1>10, <1>14, <2>1
  <2>3. t \in Reader
    BY <1>1, <1>3 DEF Reader
  <2>4. TextLine(t, "#extra") = [t EXCEPT !.zone = "extra"]
    BY <2>3, TextLineIs
  <2> QED
    BY <2>2, <2>4
<1>16. G[m + 3 + e] = [zone |-> "extra", deck |-> d2]
  <2>1. m + 3 \in Nat /\ m + 3 + e <= n
    BY <1>5, <1>11
  <2>2. Follows(lines, m + 3, E, e)
    BY <1>6
  <2>3. ReadsInto(G, m + 3, "extra", d1)
    BY <1>15 DEF ReadsInto
  <2>4. ReadsInto(G, m + 3 + e, "extra", [d1 EXCEPT !["extra"] = E])
    BY <1>1, <1>3, <1>5, <1>7, <1>9, <2>1, <2>2, <2>3, CardsRead
  <2> QED
    BY <2>4 DEF ReadsInto
<1> HIDE DEF d2
<1>17. G[m + e + 4] = [zone |-> "side", deck |-> d2]
  <2>1. m + e + 4 \in 1..n /\ (m + e + 4) - 1 = m + 3 + e
    BY <1>5, <1>11
  <2> DEFINE t == [zone |-> "extra", deck |-> d2]
  <2>2. G[m + e + 4] = TextLine(t, "!side")
    BY <1>6, <1>10, <1>16, <2>1
  <2>3. t \in Reader
    BY <1>1, <1>3 DEF Reader
  <2>4. TextLine(t, "!side") = [t EXCEPT !.zone = "side"]
    BY <2>3, TextLineIs
  <2> QED
    BY <2>2, <2>4
<1>18. G[m + e + 4 + l] = [zone |-> "side", deck |-> [d2 EXCEPT !["side"] = D]]
  <2>1. m + e + 4 \in Nat /\ m + e + 4 + l <= n
    BY <1>5, <1>11
  <2>2. Follows(lines, m + e + 4, D, l)
    BY <1>6
  <2>3. ReadsInto(G, m + e + 4, "side", d2)
    BY <1>17 DEF ReadsInto
  <2>4. ReadsInto(G, m + e + 4 + l, "side", [d2 EXCEPT !["side"] = D])
    BY <1>1, <1>3, <1>5, <1>7, <1>9, <2>1, <2>2, <2>3, CardsRead
  <2> QED
    BY <2>4 DEF ReadsInto
<1>19. G[n] = [zone |-> "side", deck |-> d]
  <2>1. m + e + 4 + l = n
    BY <1>5, <1>11
  <2> QED
    BY <1>3, <1>18, <2>1
<1> QED
  BY <1>8, <1>9, <1>19 DEF lines

-----------------------------------------------------------------------------
(* Share codes: three bytes are four digits.                                *)

Byte == 0..255
Digit == 0..63
First(a) == a \div 4
Second(a, b) == (a % 4) * 16 + b \div 16
Third(b, c) == (b % 16) * 4 + c \div 64
Fourth(c) == c % 64

\* The powers of two that are used.
LEMMA Powers ==
    /\ 2^0 = 1 /\ 2^2 = 4 /\ 2^4 = 16 /\ 2^6 = 64 /\ 2^8 = 256 /\ 2^16 = 65536
    /\ 256^0 = 1 /\ 256^1 = 256 /\ 256^2 = 65536 /\ 256^3 = 16777216
  BY SMT

\* A byte is four pairs of bits, w the highest.
Pairs(a, w, x, y, z) ==
    /\ a = w * 64 + x * 16 + y * 4 + z
    /\ a \div 4 = w * 16 + x * 4 + y /\ a % 4 = z
    /\ a \div 16 = w * 4 + x /\ a % 16 = y * 4 + z
    /\ a \div 64 = w /\ a % 64 = x * 16 + y * 4 + z

\* Every byte is.
LEMMA PairsAre ==
    ASSUME NEW a \in Byte
    PROVE  \E w, x, y, z \in 0..3 : Pairs(a, w, x, y, z)
<1> DEFINE z == a % 4
           b == a \div 4
           y == b % 4
           c == b \div 4
           x == c % 4
           w == c \div 4
<1>1. a \in 0..255
  BY SMT DEF Byte
<1>2. z \in 0..3 /\ b \in 0..63 /\ a = b * 4 + z
  BY <1>1, SMTT(20)
<1> HIDE DEF z, b
<1>3. y \in 0..3 /\ c \in 0..15 /\ b = c * 4 + y
  BY <1>2, SMTT(20)
<1> HIDE DEF y, c
<1>4. x \in 0..3 /\ w \in 0..3 /\ c = w * 4 + x
  BY <1>3, SMTT(20)
<1> HIDE DEF x, w
<1>5. a = w * 64 + x * 16 + y * 4 + z /\ b = w * 16 + x * 4 + y
  BY <1>2, <1>3, <1>4, SMTT(20)
<1>6. a \div 4 = b /\ a % 4 = z
  BY <1>2, SMTT(20)
<1>7. a \div 16 = w * 4 + x /\ a % 16 = y * 4 + z
  <2> DEFINE k == w * 4 + x
             r == y * 4 + z
  <2>1. k \in 0..15 /\ r \in 0..15 /\ a = k * 16 + r
    BY <1>2, <1>3, <1>4, <1>5, SMTT(20)
  <2> HIDE DEF k, r
  <2>2. a \div 16 = k /\ a % 16 = r
    BY <2>1, SMTT(20)
  <2> QED
    BY <2>2, SMT DEF k, r
<1>8. a \div 64 = w /\ a % 64 = x * 16 + y * 4 + z
  <2> DEFINE r == x * 16 + y * 4 + z
  <2>1. r \in 0..63 /\ a = w * 64 + r
    BY <1>2, <1>3, <1>4, <1>5, SMTT(20)
  <2> HIDE DEF r
  <2>2. a \div 64 = w /\ a % 64 = r
    BY <1>4, <2>1, SMTT(20)
  <2> QED
    BY <2>2, SMT DEF r
<1>9. Pairs(a, w, x, y, z)
  BY <1>5, <1>6, <1>7, <1>8, SMT DEF Pairs
<1> QED
  BY <1>2, <1>3, <1>4, <1>9, SMT

\* The digits of three bytes are digits.
LEMMA DigitsAre ==
    ASSUME NEW a \in Byte, NEW b \in Byte
    PROVE  /\ First(a) \in Digit /\ Second(a, b) \in Digit
           /\ Third(a, b) \in Digit /\ Fourth(a) \in Digit
           /\ Second(a, 0) = (a % 4) * 16 /\ Third(a, 0) = (a % 16) * 4
<1>1. PICK w \in 0..3, x \in 0..3, y \in 0..3, z \in 0..3 : Pairs(a, w, x, y, z)
  BY PairsAre, SMT
<1>2. PICK ww \in 0..3, xx \in 0..3, yy \in 0..3, zz \in 0..3 : Pairs(b, ww, xx, yy, zz)
  BY PairsAre, SMT
<1>3. 0 \div 16 = 0 /\ 0 \div 64 = 0
  BY SMT
<1> QED
  BY <1>1, <1>2, <1>3, SMTT(20) DEF First, Second, Third, Fourth, Digit, Pairs

\* A byte shifted into the encoder's accumulator u.
LEMMA ByteIn ==
    ASSUME NEW u \in Nat, u < 65536, NEW b \in Byte, NEW v, v = (u * 256 + b) % 65536
    PROVE  /\ v \in Nat /\ v < 65536 /\ u % 256 \in Byte
           /\ v = (u % 256) * 256 + b /\ v % 256 = b
<1> DEFINE r == u % 256
           k == u \div 256
           t == r * 256 + b
<1>1. r \in 0..255 /\ k \in 0..255 /\ u = k * 256 + r
  BY SMTT(20)
<1>2. b \in 0..255
  BY SMT DEF Byte
<1> HIDE DEF r, k
<1>3. t \in Nat /\ t < 65536 /\ u * 256 + b = k * 65536 + t
  BY <1>1, <1>2, SMTT(20)
<1>4. t % 256 = b
  BY <1>1, <1>2, SMTT(20)
<1> HIDE DEF t
<1>5. (k * 65536 + t) % 65536 = t
  BY <1>1, <1>3, SMTT(20)
<1>6. v = t
  BY <1>3, <1>5, SMT
<1> QED
  BY <1>1, <1>3, <1>4, <1>6, SMT DEF r, t, Byte

\* What the encoder reads off: the two low bytes are u and b.
LEMMA ReadOff ==
    ASSUME NEW u \in Byte, NEW b \in Byte, NEW v, v = u * 256 + b
    PROVE  /\ (v \div 4) % 64 = First(b)
           /\ (v \div 16) % 64 = Second(u, b)
           /\ (v \div 64) % 64 = Third(u, b)
           /\ v % 64 = Fourth(b)
           /\ ((v * 256) \div 16) % 64 = (b % 4) * 16
           /\ ((v * 256) \div 64) % 64 = (b % 16) * 4
<1>1. PICK w \in 0..3, x \in 0..3, y \in 0..3, z \in 0..3 : Pairs(b, w, x, y, z)
  BY PairsAre, SMT
<1>2. PICK ww \in 0..3, xx \in 0..3, yy \in 0..3, zz \in 0..3 : Pairs(u, ww, xx, yy, zz)
  BY PairsAre, SMT
<1>3. ASSUME NEW n \in Int, NEW k \in Int, NEW r \in 0..63, n = k * 64 + r
      PROVE  n % 64 = r
  BY <1>3, SMTT(20)
<1>4. u \in 0..255 /\ b \in 0..255 /\ v \in Int
  BY SMT DEF Byte
<1>5. (v \div 4) % 64 = First(b)
  <2> DEFINE n == v \div 4
             k == u
             r == w * 16 + x * 4 + y
  <2>1. v = (u * 64 + r) * 4 + z /\ r \in 0..63
    BY <1>1, SMTT(20) DEF Pairs
  <2> HIDE DEF r
  <2>2. n = k * 64 + r /\ n \in Int
    BY <1>4, <2>1, SMTT(20)
  <2> HIDE DEF n
  <2>3. n % 64 = r
    BY <1>3, <1>4, <2>1, <2>2, SMT
  <2> QED
    BY <1>1, <2>3, SMT DEF n, r, First, Pairs
<1>6. (v \div 16) % 64 = Second(u, b)
  <2> DEFINE n == v \div 16
             k == ww * 16 + xx * 4 + yy
             r == zz * 16 + w * 4 + x
             s0 == y * 4 + z
  <2>1. v = (k * 64 + r) * 16 + s0 /\ r \in 0..63 /\ k \in Int /\ s0 \in 0..15
    BY <1>1, <1>2, SMTT(20) DEF Pairs
  <2> HIDE DEF r, k, s0
  <2>2. n = k * 64 + r /\ n \in Int
    BY <1>4, <2>1, SMTT(20)
  <2> HIDE DEF n
  <2>3. n % 64 = r
    BY <1>3, <2>1, <2>2, SMT
  <2>4. r = (u % 4) * 16 + b \div 16
    BY <1>1, <1>2, SMTT(20) DEF r, Pairs
  <2> QED
    BY <2>3, <2>4, SMT DEF n, Second
<1>7. (v \div 64) % 64 = Third(u, b)
  <2> DEFINE n == v \div 64
             k == ww * 4 + xx
             r == yy * 16 + zz * 4 + w
             s0 == x * 16 + y * 4 + z
  <2>1. v = (k * 64 + r) * 64 + s0 /\ r \in 0..63 /\ k \in Int /\ s0 \in 0..63
    BY <1>1, <1>2, SMTT(20) DEF Pairs
  <2> HIDE DEF r, k, s0
  <2>2. n = k * 64 + r /\ n \in Int
    BY <1>4, <2>1, SMTT(20)
  <2> HIDE DEF n
  <2>3. n % 64 = r
    BY <1>3, <2>1, <2>2, SMT
  <2>4. r = (u % 16) * 4 + b \div 64
    BY <1>1, <1>2, SMTT(20) DEF r, Pairs
  <2> QED
    BY <2>3, <2>4, SMT DEF n, Third
<1>8. v % 64 = Fourth(b)
  <2> DEFINE k == u * 4 + w
             r == x * 16 + y * 4 + z
  <2>1. v = k * 64 + r /\ r \in 0..63 /\ k \in Int
    BY <1>1, <1>4, SMTT(20) DEF Pairs
  <2> HIDE DEF r, k
  <2>2. v % 64 = r
    BY <1>3, <1>4, <2>1, SMTT(20)
  <2> QED
    BY <1>1, <2>2, SMT DEF r, Fourth, Pairs
<1>9. ((v * 256) \div 16) % 64 = (b % 4) * 16
  <2> DEFINE n == (v * 256) \div 16
             k == u * 64 + w * 16 + x * 4 + y
             r == z * 16
  <2>1. v * 16 = k * 64 + r /\ r \in 0..63 /\ k \in Int
    BY <1>1, <1>4, SMTT(20) DEF Pairs
  <2>2. n = v * 16
    BY <1>4, SMTT(20)
  <2> HIDE DEF n, k, r
  <2>3. n % 64 = r
    BY <1>3, <1>4, <2>1, <2>2, SMT
  <2> QED
    BY <1>1, <2>3, SMT DEF n, r, Pairs
<1>10. ((v * 256) \div 64) % 64 = (b % 16) * 4
  <2> DEFINE n == (v * 256) \div 64
             k == u * 16 + w * 4 + x
             r == y * 16 + z * 4
  <2>1. v * 4 = k * 64 + r /\ r \in 0..63 /\ k \in Int
    BY <1>1, <1>4, SMTT(20) DEF Pairs
  <2>2. n = v * 4
    BY <1>4, SMTT(20)
  <2> HIDE DEF n, k
  <2>3. r = (b % 16) * 4
    BY <1>1, SMTT(20) DEF Pairs
  <2> HIDE DEF r
  <2>4. n % 64 = r
    BY <1>3, <1>4, <2>1, <2>2, SMT
  <2> QED
    BY <2>3, <2>4, SMT DEF n
<1> QED
  BY <1>5, <1>6, <1>7, <1>8, <1>9, <1>10, SMT

\* A digit shifted into the decoder's accumulator u.
LEMMA DigitIn ==
    ASSUME NEW u \in Nat, u < 65536, NEW d \in Digit, NEW v, v = (u * 64 + d) % 65536
    PROVE  /\ v \in Nat /\ v < 65536 /\ v % 64 = d
           /\ v % 4096 = (u % 64) * 64 + d
<1> DEFINE k == u \div 1024
           r == u % 1024
           c == r \div 64
           f == r % 64
<1>1. d \in 0..63
  BY SMT DEF Digit
<1>2. k \in 0..63 /\ r \in Nat /\ r < 1024 /\ u = k * 1024 + r
  BY SMTT(20)
<1> HIDE DEF k, r
<1>3. c \in 0..15 /\ f \in 0..63 /\ r = c * 64 + f
  BY <1>2, SMTT(20)
<1> HIDE DEF c, f
<1>4. u % 64 = f
  <2>1. k * 16 + c \in Int /\ u = (k * 16 + c) * 64 + f
    BY <1>2, <1>3, SMTT(20)
  <2> DEFINE h == k * 16 + c
  <2> HIDE DEF h
  <2>2. h \in Int /\ u = h * 64 + f
    BY <2>1, SMT DEF h
  <2> QED
    BY <1>3, <2>2, SMTT(20)
<1> DEFINE t == r * 64 + d
<1>5. u * 64 + d = k * 65536 + t /\ t \in Nat /\ t < 65536
  BY <1>1, <1>2, SMTT(20)
<1>6. t = c * 4096 + (f * 64 + d) /\ f * 64 + d \in Nat /\ f * 64 + d < 4096 /\ t % 64 = d
  BY <1>1, <1>2, <1>3, SMTT(20)
<1> HIDE DEF t
<1>7. (k * 65536 + t) % 65536 = t
  BY <1>2, <1>5, SMTT(20)
<1> DEFINE e == f * 64 + d
<1>8. e \in Nat /\ e < 4096 /\ t = c * 4096 + e
  BY <1>6, SMT
<1> HIDE DEF e
<1>9. t % 4096 = e
  BY <1>3, <1>8, SMTT(20)
<1> QED
  BY <1>4, <1>5, <1>6, <1>7, <1>9, SMT DEF e

\* What the decoder reads off of the digits of three bytes.
LEMMA ReadBack ==
    ASSUME NEW a \in Byte, NEW b \in Byte, NEW c \in Byte, NEW v \in Nat, v < 65536
    PROVE  /\ v % 4096 = First(a) * 64 + Second(a, b) => (v \div 16) % 256 = a
           /\ v % 4096 = Second(a, b) * 64 + Third(b, c) => (v \div 4) % 256 = b
           /\ v % 4096 = Third(b, c) * 64 + Fourth(c) => v % 256 = c
<1>1. PICK w \in 0..3, x \in 0..3, y \in 0..3, z \in 0..3 : Pairs(a, w, x, y, z)
  BY PairsAre, SMT
<1>2. PICK ww \in 0..3, xx \in 0..3, yy \in 0..3, zz \in 0..3 : Pairs(b, ww, xx, yy, zz)
  BY PairsAre, SMT
<1>3. PICK wc \in 0..3, xc \in 0..3, yc \in 0..3, zc \in 0..3 : Pairs(c, wc, xc, yc, zc)
  BY PairsAre, SMT
<1>4. a \in 0..255 /\ b \in 0..255 /\ c \in 0..255
  BY SMT DEF Byte
<1> DEFINE k == v \div 4096
           r == v % 4096
<1>5. k \in 0..15 /\ r \in Nat /\ r < 4096 /\ v = k * 4096 + r
  BY SMTT(20)
<1> HIDE DEF k, r
<1>6. ASSUME NEW n \in Int, NEW h \in Int, NEW l \in 0..255, n = h * 256 + l
      PROVE  n % 256 = l
  BY <1>6, SMTT(20)
<1>7. ASSUME r = First(a) * 64 + Second(a, b)
      PROVE  (v \div 16) % 256 = a
  <2> DEFINE s0 == ww * 4 + xx
             n == v \div 16
  <2>1. First(a) * 64 + Second(a, b) = a * 16 + s0 /\ s0 \in 0..15
    BY <1>1, <1>2, SMTT(20) DEF First, Second, Pairs
  <2> HIDE DEF s0
  <2>2. n = k * 256 + a /\ n \in Int
    <3>1. v = (k * 256 + a) * 16 + s0
      BY <1>4, <1>5, <1>7, <2>1, SMTT(20)
    <3> DEFINE h == k * 256 + a
    <3>2. h \in Int
      BY <1>4, <1>5, SMT
    <3> HIDE DEF h
    <3>3. v = h * 16 + s0
      BY <3>1, SMT DEF h
    <3>4. v \div 16 = h
      BY <2>1, <3>2, <3>3, SMTT(20)
    <3> QED
      BY <3>2, <3>4, SMT DEF h
  <2> HIDE DEF n
  <2>3. n % 256 = a
    BY <1>4, <1>5, <1>6, <2>2, SMT
  <2> QED
    BY <2>3, SMT DEF n
<1>8. ASSUME r = Second(a, b) * 64 + Third(b, c)
      PROVE  (v \div 4) % 256 = b
  <2> DEFINE n == v \div 4
             h == k * 4 + z
  <2>1. Second(a, b) * 64 + Third(b, c) = z * 1024 + b * 4 + wc
    BY <1>1, <1>2, <1>3, SMTT(20) DEF Second, Third, Pairs
  <2>2. h \in Int /\ v = (h * 256 + b) * 4 + wc
    BY <1>4, <1>5, <1>8, <2>1, SMTT(20)
  <2> HIDE DEF h
  <2>3. n = h * 256 + b /\ n \in Int
    <3> DEFINE j == h * 256 + b
    <3>1. j \in Int /\ v = j * 4 + wc
      BY <1>4, <2>2, SMT
    <3> HIDE DEF j
    <3>2. v \div 4 = j
      BY <3>1, SMTT(20)
    <3> QED
      BY <3>1, <3>2, SMT DEF j
  <2> HIDE DEF n
  <2>4. n % 256 = b
    BY <1>4, <1>6, <2>2, <2>3, SMT
  <2> QED
    BY <2>4, SMT DEF n
<1>9. ASSUME r = Third(b, c) * 64 + Fourth(c)
      PROVE  v % 256 = c
  <2> DEFINE h == k * 16 + yy * 4 + zz
  <2>1. Third(b, c) * 64 + Fourth(c) = (yy * 4 + zz) * 256 + c
    BY <1>2, <1>3, SMTT(20) DEF Third, Fourth, Pairs
  <2>2. h \in Int /\ v = h * 256 + c /\ v \in Int
    BY <1>4, <1>5, <1>9, <2>1, SMTT(20)
  <2> HIDE DEF h
  <2> QED
    BY <1>4, <1>6, <2>2, SMT
<1> QED
  BY <1>7, <1>8, <1>9, SMT DEF r

\* The encoder's and the decoder's states.
Accu == {n \in Nat : n < 65536}
Encoder == [val : Accu, bits : {-6, -4, -2}, out : Seq(Digit)]
Shift(u, b) == (u * 256 + b) % 65536

\* What is appended stands last.
Extends(p, o, e, B) ==
    /\ p \in Seq(B) /\ Len(p) = Len(o) + 1 /\ p[Len(o) + 1] = e
    /\ \A i \in 1..Len(o) : p[i] = o[i]

\* Append does so.
LEMMA AppendIs ==
    ASSUME NEW B, NEW o \in Seq(B), NEW e \in B
    PROVE  Extends(Append(o, e), o, e, B)
  BY AppendProperties DEF Extends

\* A sequence of one element, or of two, put after another.
LEMMA OneOrTwo ==
    ASSUME NEW B, NEW o \in Seq(B), NEW a \in B, NEW b \in B
    PROVE  o \o <<a>> = Append(o, a) /\ o \o <<a, b>> = Append(Append(o, a), b)
  OBVIOUS

\* The accumulator takes a byte; six bits of it are a digit.
LEMMA ShiftIs ==
    ASSUME NEW u \in Accu, NEW b \in Byte
    PROVE  /\ Shift(u, b) \in Accu
           /\ \A f \in {0, 2, 4, 6} : Bits(Shift(u, b), f, 6) \in Digit
           /\ Bits(Shift(u, b), 0, 6) = Shift(u, b) % 64
           /\ Bits(Shift(u, b), 2, 6) = (Shift(u, b) \div 4) % 64
           /\ Bits(Shift(u, b), 4, 6) = (Shift(u, b) \div 16) % 64
           /\ Bits(Shift(u, b), 6, 6) = (Shift(u, b) \div 64) % 64
<1> DEFINE v == Shift(u, b)
<1>1. u \in Nat /\ u < 65536
  BY SMT DEF Accu
<1>2. v \in Nat /\ v < 65536
  BY <1>1, ByteIn, SMT DEF Shift
<1> HIDE DEF v
<1>3. Bits(v, 0, 6) = v % 64 /\ v % 64 \in 0..63
  <2>1. v \div 1 = v
    BY <1>2, SMT
  <2> QED
    BY <1>2, <2>1, Powers, SMT DEF Bits
<1>4. Bits(v, 2, 6) = (v \div 4) % 64 /\ (v \div 4) % 64 \in 0..63
  BY <1>2, Powers, SMT DEF Bits
<1>5. Bits(v, 4, 6) = (v \div 16) % 64 /\ (v \div 16) % 64 \in 0..63
  BY <1>2, Powers, SMT DEF Bits
<1>6. Bits(v, 6, 6) = (v \div 64) % 64 /\ (v \div 64) % 64 \in 0..63
  BY <1>2, Powers, SMT DEF Bits
<1> QED
  BY <1>2, <1>3, <1>4, <1>5, <1>6, SMT DEF v, Accu, Digit

\* A byte, taken by the encoder (b64encode).
LEMMA EncodeByteIs ==
    ASSUME NEW t \in Encoder, NEW b \in Byte, NEW v, v = Shift(t.val, b)
    PROVE  /\ t.bits = -6 => EncodeByte(t, b) =
                [val |-> v, bits |-> -4, out |-> Append(t.out, Bits(v, 2, 6))]
           /\ t.bits = -4 => EncodeByte(t, b) =
                [val |-> v, bits |-> -2, out |-> Append(t.out, Bits(v, 4, 6))]
           /\ t.bits = -2 => EncodeByte(t, b) =
                [val |-> v, bits |-> -6,
                 out |-> Append(Append(t.out, Bits(v, 6, 6)), Bits(v, 0, 6))]
           /\ EncodeByte(t, b) \in Encoder
<1>1. t.val \in Accu /\ t.out \in Seq(Digit) /\ (t.bits = -6 \/ t.bits = -4 \/ t.bits = -2)
  BY SMT DEF Encoder
<1>2. v \in Accu /\ \A f \in {0, 2, 4, 6} : Bits(v, f, 6) \in Digit
  BY <1>1, ShiftIs, SMT
<1>3. v = (t.val * 256 + b) % 2^16
  BY Powers, SMT DEF Shift
<1> DEFINE d(f) == Bits(v, f, 6)
           bits == t.bits + 8
<1>8. EncodeByte(t, b) =
        IF bits >= 6
        THEN [val |-> v, bits |-> bits - 12, out |-> t.out \o <<d(bits), d(bits - 6)>>]
        ELSE [val |-> v, bits |-> bits - 6, out |-> Append(t.out, d(bits))]
  <2> DEFINE w == (t.val * 256 + b) % 2^16
  <2>1. EncodeByte(t, b) =
          IF bits >= 6
          THEN [val |-> w, bits |-> bits - 12,
                out |-> t.out \o <<Bits(w, bits, 6), Bits(w, bits - 6, 6)>>]
          ELSE [val |-> w, bits |-> bits - 6, out |-> Append(t.out, Bits(w, bits, 6))]
    BY Zenon DEF EncodeByte
  <2>2. w = v
    BY <1>3, SMT
  <2> HIDE DEF w, bits
  <2> QED
    BY <2>1, <2>2, Zenon
<1>4. d(0) \in Digit /\ d(2) \in Digit /\ d(4) \in Digit /\ d(6) \in Digit
  BY <1>2, SMT
<1>5. CASE t.bits = -6
  <2>1. t.bits + 8 = 2 /\ ~(t.bits + 8 >= 6) /\ 2 - 6 = -4
    BY <1>5, SMT
  <2>4. EncodeByte(t, b) = [val |-> v, bits |-> -4, out |-> Append(t.out, d(2))]
    BY <1>8, <2>1
  <2>5. Append(t.out, d(2)) \in Seq(Digit)
    <3> HIDE DEF d
    <3> QED
      BY <1>1, <1>4, AppendProperties, SMT
  <2> QED
    BY <1>2, <1>5, <2>4, <2>5, SMT DEF Encoder
<1>6. CASE t.bits = -4
  <2>1. t.bits + 8 = 4 /\ ~(t.bits + 8 >= 6) /\ 4 - 6 = -2
    BY <1>6, SMT
  <2>4. EncodeByte(t, b) = [val |-> v, bits |-> -2, out |-> Append(t.out, d(4))]
    BY <1>8, <2>1
  <2>5. Append(t.out, d(4)) \in Seq(Digit)
    <3> HIDE DEF d
    <3> QED
      BY <1>1, <1>4, AppendProperties, SMT
  <2> QED
    BY <1>2, <1>6, <2>4, <2>5, SMT DEF Encoder
<1>7. CASE t.bits = -2
  <2>1. t.bits + 8 = 6 /\ t.bits + 8 >= 6 /\ 6 - 12 = -6 /\ 6 - 6 = 0
    BY <1>7, SMT
  <2>2. EncodeByte(t, b) = [val |-> v, bits |-> -6, out |-> t.out \o <<d(6), d(0)>>]
    BY <1>8, <2>1
  <2>3. t.out \o <<d(6), d(0)>> = Append(Append(t.out, d(6)), d(0))
    <3> HIDE DEF d
    <3> QED
      BY <1>1, <1>4, OneOrTwo, SMT
  <2>4. EncodeByte(t, b) = [val |-> v, bits |-> -6, out |-> Append(Append(t.out, d(6)), d(0))]
    BY <2>2, <2>3, Zenon
  <2>5. Append(Append(t.out, d(6)), d(0)) \in Seq(Digit)
    <3> HIDE DEF d
    <3>1. Append(t.out, d(6)) \in Seq(Digit)
      BY <1>1, <1>4, AppendProperties, SMT
    <3> QED
      BY <1>4, <3>1, AppendProperties, SMT
  <2> QED
    BY <1>2, <1>7, <2>4, <2>5, SMT DEF Encoder
<1> QED
  BY <1>1, <1>5, <1>6, <1>7, SMT

\* The encoder takes byte after byte.
Encoding(G, e0, x, n) ==
    /\ G \in [0..n -> Encoder] /\ G[0] = e0
    /\ \A k \in 1..n : G[k] = EncodeByte(G[k - 1], x[k])

\* So a fold is computed, element by element.
LEMMA EncodeRuns ==
    ASSUME NEW e0 \in Encoder, NEW x \in Seq(Byte), NEW n \in Nat, n = Len(x)
    PROVE  \E G : Encoding(G, e0, x, n) /\ FoldLeft(EncodeByte, e0, x) = G[n]
<1> DEFINE F == [p \in Encoder \X Byte |-> EncodeByte(p[1], p[2])]
           H == CHOOSE it : it = [S \in SUBSET (DOMAIN x) |->
                  IF S = {} THEN e0 ELSE EncodeByte(it[S \ {Max(S)}], x[Max(S)])]
<1>1. DOMAIN x = 1..n /\ e0 \in Encoder /\ x \in Seq(Byte)
  OBVIOUS
<1>2. ASSUME NEW t0 \in Encoder, NEW e \in Byte PROVE EncodeByte(t0, e) \in Encoder
  BY <1>2, EncodeByteIs
<1>3. F \in [Encoder \X Byte -> Encoder]
  BY <1>2
<1>4. \A t0 \in Encoder, e \in Byte : F[<<t0, e>>] = EncodeByte(t0, e)
  OBVIOUS
<1> HIDE DEF F
<1>5. PICK it : Folding(it, F, e0, x, n)
  BY FoldExists
<1>6. \A S \in SUBSET (1..n) : it[S] \in Encoder
  BY <1>1, <1>3, <1>5, FoldStays
<1>7. ASSUME NEW S \in SUBSET (1..n), S # {}
      PROVE  x[Max(S)] \in Byte /\ S \ {Max(S)} \in SUBSET (1..n)
  <2>1. Max(S) \in 1..n
    BY <1>7, Greatest
  <2> QED
    BY <1>1, <2>1, ElementOfSeq
<1>8. it = [S \in SUBSET (DOMAIN x) |->
              IF S = {} THEN e0 ELSE EncodeByte(it[S \ {Max(S)}], x[Max(S)])]
  BY <1>1, <1>4, <1>5, <1>6, <1>7 DEF Folding
<1>9. H = [S \in SUBSET (DOMAIN x) |->
              IF S = {} THEN e0 ELSE EncodeByte(H[S \ {Max(S)}], x[Max(S)])]
  BY <1>8
<1>10. FoldLeft(EncodeByte, e0, x) = H[DOMAIN x]
  BY DEF FoldLeft, MapThenFoldSet
<1> HIDE DEF H
<1>11. Computes(H, Encoder, F, e0, x, n)
  <2> SUFFICES ASSUME NEW S \in SUBSET (1..n)
               PROVE  /\ S = {} => H[S] = e0
                      /\ S # {} /\ H[S \ {Max(S)}] \in Encoder =>
                           H[S] = F[<<H[S \ {Max(S)}], x[Max(S)]>>]
    BY DEF Computes
  <2>1. H[S] = IF S = {} THEN e0 ELSE EncodeByte(H[S \ {Max(S)}], x[Max(S)])
    BY <1>1, <1>9
  <2> QED
    BY <1>4, <1>7, <2>1
<1>12. PICK G : Runs(G, Encoder, F, e0, x, n) /\ G[n] = H[1..n]
  <2>1. Foldable(Encoder, Byte, F, e0, x, n)
    BY <1>1, <1>3 DEF Foldable
  <2> QED
    BY ONLY <2>1, <1>11, FoldRuns
<1>13. FoldLeft(EncodeByte, e0, x) = G[n]
  BY <1>1, <1>10, <1>12
<1>14. \A k \in 1..n : x[k] \in Byte
  BY <1>1, ElementOfSeq
<1>15. \A k \in 1..n : G[k] = EncodeByte(G[k - 1], x[k])
  <2> SUFFICES ASSUME NEW k \in 1..n PROVE G[k] = EncodeByte(G[k - 1], x[k])
    OBVIOUS
  <2>1. k - 1 \in 0..n
    OBVIOUS
  <2>2. G[k - 1] \in Encoder /\ G[k] = F[<<G[k - 1], x[k]>>]
    BY <1>12, <2>1 DEF Runs
  <2>3. x[k] \in Byte
    BY <1>14
  <2> QED
    BY <1>4, <2>2, <2>3
<1>16. Encoding(G, e0, x, n)
  BY <1>12, <1>15 DEF Runs, Encoding
<1> QED
  BY <1>13, <1>16

\* The encoder before a group of three bytes.
AtGroup(t, m) == t \in Encoder /\ t.bits = -6 /\ Len(t.out) = m

\* After one byte more, and after two.
LEMMA EncodePartIs ==
    ASSUME NEW t, NEW m \in Nat, AtGroup(t, m), NEW a \in Byte, NEW b \in Byte,
           NEW t1, t1 = EncodeByte(t, a), NEW t2, t2 = EncodeByte(t1, b)
    PROVE  /\ t1 \in Encoder /\ t1.bits = -4 /\ t1.val % 256 = a
           /\ Extends(t1.out, t.out, First(a), Digit)
           /\ t2 \in Encoder /\ t2.bits = -2 /\ t2.val % 256 = b
           /\ Extends(t2.out, t1.out, Second(a, b), Digit)
<1> DEFINE v1 == Shift(t.val, a)
           v2 == Shift(t1.val, b)
<1>1. t \in Encoder /\ t.val \in Accu /\ t.out \in Seq(Digit) /\ t.bits = -6
  BY DEF AtGroup, Encoder
<1>2. v1 \in Accu /\ Bits(v1, 2, 6) = (v1 \div 4) % 64 /\ Bits(v1, 2, 6) \in Digit
  BY <1>1, ShiftIs
<1>3. v1 % 256 = a /\ \E u \in Byte : v1 = u * 256 + a
  BY <1>1, ByteIn, SMT DEF Shift, Accu
<1>4. Bits(v1, 2, 6) = First(a)
  BY <1>2, <1>3, ReadOff, SMT
<1>5. t1 = [val |-> v1, bits |-> -4, out |-> Append(t.out, First(a))] /\ t1 \in Encoder
  <2> HIDE DEF v1
  <2>1. v1 = Shift(t.val, a)
    BY DEF v1
  <2> QED
    BY <1>1, <1>4, <2>1, EncodeByteIs
<1>6. t1.val = v1 /\ t1.bits = -4 /\ t1.out = Append(t.out, First(a)) /\ t1.out \in Seq(Digit)
  BY <1>5 DEF Encoder
<1> HIDE DEF v1
<1>7. v2 \in Accu /\ Bits(v2, 4, 6) = (v2 \div 16) % 64 /\ Bits(v2, 4, 6) \in Digit
  BY <1>2, <1>6, ShiftIs
<1>8. v2 % 256 = b /\ v2 = a * 256 + b
  <2>1. v1 \in Nat /\ v1 < 65536 /\ v2 = (v1 * 256 + b) % 65536
    BY <1>2, <1>6, SMT DEF Shift, Accu
  <2> HIDE DEF v2
  <2>2. v2 % 256 = b /\ v2 = (v1 % 256) * 256 + b
    BY <2>1, ByteIn, SMT
  <2> QED
    BY <1>3, <2>2, SMT
<1>9. Bits(v2, 4, 6) = Second(a, b)
  BY <1>7, <1>8, ReadOff, SMT
<1>10. t2 = [val |-> v2, bits |-> -2, out |-> Append(t1.out, Second(a, b))] /\ t2 \in Encoder
  <2> HIDE DEF v2
  <2>1. v2 = Shift(t1.val, b)
    BY DEF v2
  <2>2. /\ EncodeByte(t1, b) = [val |-> v2, bits |-> -2, out |-> Append(t1.out, Bits(v2, 4, 6))]
        /\ EncodeByte(t1, b) \in Encoder
    BY <1>5, <1>6, <2>1, EncodeByteIs, ZenonT(30)
  <2> QED
    BY <1>9, <2>2
<1>11. t2.val = v2 /\ t2.bits = -2 /\ t2.out = Append(t1.out, Second(a, b))
  BY <1>10
<1>12. First(a) \in Digit /\ Second(a, b) \in Digit
  BY DigitsAre
<1>13. Extends(t1.out, t.out, First(a), Digit) /\ Extends(t2.out, t1.out, Second(a, b), Digit)
  BY <1>1, <1>6, <1>11, <1>12, AppendIs
<1> HIDE DEF v2
<1> QED
  BY <1>3, <1>5, <1>6, <1>8, <1>10, <1>11, <1>13

\* The digits p of a group of three bytes after the m digits of o.
Group(p, o, m, a, b, c) ==
    /\ p \in Seq(Digit) /\ Len(p) = m + 4
    /\ p[m + 1] = First(a) /\ p[m + 2] = Second(a, b)
    /\ p[m + 3] = Third(b, c) /\ p[m + 4] = Fourth(c)
    /\ \A i \in 1..m : p[i] = o[i]

\* So the encoder spells it.
LEMMA EncodeGroupIs ==
    ASSUME NEW t, NEW m \in Nat, AtGroup(t, m), NEW a \in Byte, NEW b \in Byte, NEW c \in Byte,
           NEW t3, t3 = EncodeByte(EncodeByte(EncodeByte(t, a), b), c)
    PROVE  AtGroup(t3, m + 4) /\ Group(t3.out, t.out, m, a, b, c)
<1> DEFINE t1 == EncodeByte(t, a)
           t2 == EncodeByte(t1, b)
           v == Shift(t2.val, c)
           p == Append(t2.out, Third(b, c))
<1>1. t3 = EncodeByte(t2, c)
  OBVIOUS
<1>2. t1 = EncodeByte(t, a) /\ t2 = EncodeByte(t1, b)
  OBVIOUS
<1> HIDE DEF t1, t2
<1>3. /\ t1 \in Encoder /\ Extends(t1.out, t.out, First(a), Digit)
      /\ t2 \in Encoder /\ t2.bits = -2 /\ t2.val % 256 = b
      /\ Extends(t2.out, t1.out, Second(a, b), Digit)
  BY <1>2, EncodePartIs
<1>4. t2.val \in Accu /\ t2.out \in Seq(Digit)
  BY <1>3 DEF Encoder
<1>5. /\ v \in Accu /\ Bits(v, 6, 6) = (v \div 64) % 64 /\ Bits(v, 0, 6) = v % 64
  BY <1>4, ShiftIs
<1>6. v = b * 256 + c
  BY <1>3, <1>4, ByteIn, SMT DEF Shift, Accu
<1>7. Bits(v, 6, 6) = Third(b, c) /\ Bits(v, 0, 6) = Fourth(c)
  BY <1>5, <1>6, ReadOff, SMT
<1>8. t3 = [val |-> v, bits |-> -6, out |-> Append(p, Fourth(c))] /\ t3 \in Encoder
  <2>1. v = Shift(t2.val, c)
    BY DEF v
  <2> HIDE DEF v
  <2> QED
    BY <1>1, <1>3, <1>7, <2>1, EncodeByteIs
<1>9. t3.bits = -6 /\ t3.out = Append(p, Fourth(c))
  BY <1>8
<1>10. Third(b, c) \in Digit /\ Fourth(c) \in Digit
  BY DigitsAre
<1>11. Extends(p, t2.out, Third(b, c), Digit)
  BY <1>4, <1>10, AppendIs
<1> HIDE DEF p, v
<1>12. Extends(t3.out, p, Fourth(c), Digit)
  BY <1>9, <1>10, <1>11, AppendIs DEF Extends
<1>13. Len(t.out) = m
  BY DEF AtGroup
<1>14. Len(t1.out) = m + 1 /\ Len(t2.out) = m + 2 /\ Len(p) = m + 3 /\ Len(t3.out) = m + 4
  BY <1>3, <1>11, <1>12, <1>13 DEF Extends
<1>15. \A i \in 1..m : t3.out[i] = t.out[i]
  <2> TAKE i \in 1..m
  <2>1. i \in 1..(m + 1) /\ i \in 1..(m + 2) /\ i \in 1..(m + 3)
    OBVIOUS
  <2>2. t3.out[i] = p[i] /\ p[i] = t2.out[i]
    BY <1>11, <1>12, <1>14, <2>1 DEF Extends
  <2>3. t2.out[i] = t1.out[i] /\ t1.out[i] = t.out[i]
    BY <1>3, <1>13, <1>14, <2>1 DEF Extends
  <2> QED
    BY <2>2, <2>3
<1>16. t3.out[m + 1] = First(a)
  <2>1. m + 1 \in 1..(m + 1) /\ m + 1 \in 1..(m + 2) /\ m + 1 \in 1..(m + 3)
    OBVIOUS
  <2>2. t3.out[m + 1] = p[m + 1] /\ p[m + 1] = t2.out[m + 1] /\ t2.out[m + 1] = t1.out[m + 1]
    BY <1>3, <1>11, <1>12, <1>14, <2>1, SMTT(30) DEF Extends
  <2> QED
    BY <1>3, <1>13, <2>2 DEF Extends
<1>17. t3.out[m + 2] = Second(a, b)
  <2>1. m + 2 \in 1..(m + 2) /\ m + 2 \in 1..(m + 3) /\ (m + 1) + 1 = m + 2
    OBVIOUS
  <2>2. t3.out[m + 2] = p[m + 2] /\ p[m + 2] = t2.out[m + 2]
    BY <1>11, <1>12, <1>14, <2>1 DEF Extends
  <2>3. t2.out[m + 2] = Second(a, b)
    BY <1>3, <1>14, <2>1 DEF Extends
  <2> QED
    BY <2>2, <2>3
<1>18. t3.out[m + 3] = Third(b, c) /\ t3.out[m + 4] = Fourth(c)
  <2>1. m + 3 \in 1..(m + 3) /\ (m + 2) + 1 = m + 3 /\ (m + 3) + 1 = m + 4
    OBVIOUS
  <2> QED
    BY <1>11, <1>12, <1>14, <2>1 DEF Extends
<1>19. t3.out \in Seq(Digit)
  BY <1>12 DEF Extends
<1> QED
  BY <1>8, <1>9, <1>14, <1>15, <1>16, <1>17, <1>18, <1>19 DEF AtGroup, Group

\* o spells the first q groups of three of the bytes x.
Spells(o, x, q) ==
    \A j \in 0..(q - 1) :
        /\ o[4 * j + 1] = First(x[3 * j + 1])
        /\ o[4 * j + 2] = Second(x[3 * j + 1], x[3 * j + 2])
        /\ o[4 * j + 3] = Third(x[3 * j + 2], x[3 * j + 3])
        /\ o[4 * j + 4] = Fourth(x[3 * j + 3])

\* Longer sequences spell what their beginnings do, and a group more.
LEMMA SpellsMore ==
    ASSUME NEW o, NEW p, NEW x, NEW q \in Nat, Spells(o, x, q),
           \A i \in 1..(4 * q) : p[i] = o[i]
    PROVE  /\ Spells(p, x, q)
           /\ Group(p, o, 4 * q, x[3 * q + 1], x[3 * q + 2], x[3 * q + 3]) => Spells(p, x, q + 1)
<1>1. ASSUME NEW j \in 0..(q - 1)
      PROVE  /\ p[4 * j + 1] = First(x[3 * j + 1])
             /\ p[4 * j + 2] = Second(x[3 * j + 1], x[3 * j + 2])
             /\ p[4 * j + 3] = Third(x[3 * j + 2], x[3 * j + 3])
             /\ p[4 * j + 4] = Fourth(x[3 * j + 3])
  <2>1. /\ 4 * j + 1 \in 1..(4 * q) /\ 4 * j + 2 \in 1..(4 * q)
        /\ 4 * j + 3 \in 1..(4 * q) /\ 4 * j + 4 \in 1..(4 * q)
    OBVIOUS
  <2>2. /\ p[4 * j + 1] = o[4 * j + 1] /\ p[4 * j + 2] = o[4 * j + 2]
        /\ p[4 * j + 3] = o[4 * j + 3] /\ p[4 * j + 4] = o[4 * j + 4]
    BY <2>1
  <2> QED
    BY <2>2 DEF Spells
<1>2. ASSUME Group(p, o, 4 * q, x[3 * q + 1], x[3 * q + 2], x[3 * q + 3]),
             NEW j \in 0..((q + 1) - 1)
      PROVE  /\ p[4 * j + 1] = First(x[3 * j + 1])
             /\ p[4 * j + 2] = Second(x[3 * j + 1], x[3 * j + 2])
             /\ p[4 * j + 3] = Third(x[3 * j + 2], x[3 * j + 3])
             /\ p[4 * j + 4] = Fourth(x[3 * j + 3])
  <2>1. j \in 0..(q - 1) \/ j = q
    OBVIOUS
  <2>2. CASE j = q
    BY <1>2, <2>2 DEF Group
  <2> QED
    BY <1>1, <2>1, <2>2
<1> QED
  BY <1>1, <1>2 DEF Spells

\* The encoder has spelled q groups after 3q bytes.
LEMMA EncodeGroupsAre ==
    ASSUME NEW e0, e0 = [val |-> 0, bits |-> -6, out |-> <<>>],
           NEW x \in Seq(Byte), NEW n, n = Len(x), NEW G, Encoding(G, e0, x, n),
           NEW q \in Nat, 3 * q <= n
    PROVE  AtGroup(G[3 * q], 4 * q) /\ Spells(G[3 * q].out, x, q)
<1> DEFINE P == {k \in 0..q : AtGroup(G[3 * k], 4 * k) /\ Spells(G[3 * k].out, x, k)}
<1>1. n \in Nat /\ \A i \in 1..n : x[i] \in Byte
  BY ElementOfSeq
<1>2. 0 \in P
  <2>1. G[3 * 0] = e0 /\ 4 * 0 = 0 /\ 0 \in 0..q
    BY DEF Encoding
  <2>2. AtGroup(e0, 0)
    BY EmptySeq DEF AtGroup, Encoder, Accu
  <2>3. Spells(e0.out, x, 0)
    BY DEF Spells
  <2> QED
    BY <2>1, <2>2, <2>3
<1>3. ASSUME NEW k \in 1..q, k - 1 \in P PROVE k \in P
  <2> DEFINE j == k - 1
             t == G[3 * j]
             u == G[3 * k]
             a == x[3 * j + 1]
             b == x[3 * j + 2]
             c == x[3 * j + 3]
  <2>1. /\ 3 * j + 1 \in 1..n /\ 3 * j + 2 \in 1..n /\ 3 * j + 3 \in 1..n
        /\ (3 * j + 1) - 1 = 3 * j /\ (3 * j + 2) - 1 = 3 * j + 1 /\ (3 * j + 3) - 1 = 3 * j + 2
        /\ 3 * j + 3 = 3 * k /\ 4 * j + 4 = 4 * k /\ j \in Nat /\ 4 * j \in Nat /\ j + 1 = k
        /\ k \in 0..q
    BY <1>1
  <2>2. /\ G[3 * j + 1] = EncodeByte(G[3 * j], a)
        /\ G[3 * j + 2] = EncodeByte(G[3 * j + 1], b)
        /\ G[3 * j + 3] = EncodeByte(G[3 * j + 2], c)
    BY <2>1 DEF Encoding
  <2>3. u = EncodeByte(EncodeByte(EncodeByte(t, a), b), c)
    BY <2>1, <2>2
  <2>4. a \in Byte /\ b \in Byte /\ c \in Byte
    BY <1>1, <2>1
  <2>5. AtGroup(t, 4 * j) /\ Spells(t.out, x, j)
    BY <1>3
  <2> HIDE DEF t, u, a, b, c, j
  <2>6. AtGroup(u, 4 * j + 4) /\ Group(u.out, t.out, 4 * j, a, b, c)
    BY <2>1, <2>3, <2>4, <2>5, EncodeGroupIs
  <2>7. \A i \in 1..(4 * j) : u.out[i] = t.out[i]
    BY <2>6 DEF Group
  <2>8. Spells(u.out, x, j + 1)
    BY <2>1, <2>5, <2>6, <2>7, SpellsMore DEF a, b, c
  <2> QED
    BY <2>1, <2>6, <2>8 DEF u
<1>4. \A k \in 0..q : k \in P
  <2> HIDE DEF P
  <2> QED
    BY <1>2, <1>3, Upto
<1> QED
  BY <1>4

\* The digits w with k pads after them.
Padded(p, w, k) == p = w \o [i \in 1..k |-> Pad]

PadsLast(p, w, k) ==
    /\ p \in Seq(0..64) /\ Len(p) = Len(w) + k
    /\ \A i \in 1..Len(w) : p[i] = w[i]
    /\ \A i \in 1..k : p[Len(w) + i] = Pad

\* The padding stands last.
LEMMA PaddedIs ==
    ASSUME NEW w \in Seq(Digit), NEW k \in 0..3,
           NEW p, Padded(p, w, k)
    PROVE  PadsLast(p, w, k)
<1> DEFINE u == [i \in 1..k |-> Pad]
           l == Len(w)
<1>1. u \in Seq(0..64) /\ Len(u) = k /\ \A i \in 1..k : u[i] = Pad
  BY SMT DEF Pad
<1>2. w \in Seq(0..64)
  BY SeqMonotonic, SMT DEF Digit
<1>3. p = w \o u
  BY DEF Padded
<1> HIDE DEF u
<1>4. l \in Nat /\ k \in Nat
  BY SMT
<1>5. /\ p \in Seq(0..64) /\ Len(p) = l + k
      /\ \A i \in 1..(l + k) : p[i] = IF i <= l THEN w[i] ELSE u[i - l]
  <2>1. /\ p \in Seq(0..64) /\ Len(p) = Len(w) + Len(u)
        /\ \A i \in 1..(Len(w) + Len(u)) : p[i] = IF i <= Len(w) THEN w[i] ELSE u[i - Len(w)]
    BY ONLY <1>1, <1>2, <1>3, ConcatProperties
  <2> QED
    BY <1>1, <2>1
<1>6. \A i \in 1..l : p[i] = w[i]
  BY <1>4, <1>5, SMT
<1>7. ASSUME NEW i \in 1..k PROVE p[l + i] = Pad
  <2>1. l + i \in 1..(l + k) /\ ~(l + i <= l) /\ (l + i) - l = i
    BY <1>4, SMT
  <2> QED
    BY <1>1, <1>5, <2>1, SMT
<1> QED
  BY <1>5, <1>6, <1>7, Zenon DEF PadsLast

\* The digits o of 3q + r bytes x.
Encoded(o, x, q, r) ==
    /\ o \in Seq(0..64) /\ Spells(o, x, q)
    /\ Len(o) = IF r = 0 THEN 4 * q ELSE 4 * q + 4
    /\ r = 1 => /\ o[4 * q + 1] = First(x[3 * q + 1])
                /\ o[4 * q + 2] = Second(x[3 * q + 1], 0)
                /\ o[4 * q + 3] = Pad /\ o[4 * q + 4] = Pad
    /\ r = 2 => /\ o[4 * q + 1] = First(x[3 * q + 1])
                /\ o[4 * q + 2] = Second(x[3 * q + 1], x[3 * q + 2])
                /\ o[4 * q + 3] = Third(x[3 * q + 2], 0)
                /\ o[4 * q + 4] = Pad

\* The last bits of an accumulator that ends in the byte b.
LEMMA LastBits ==
    ASSUME NEW u \in Accu, NEW b \in Byte, u % 256 = b
    PROVE  Bits(u * 256, 4, 6) = Second(b, 0) /\ Bits(u * 256, 6, 6) = Third(b, 0)
<1>1. u \in Nat /\ u < 65536
  BY SMT DEF Accu
<1> DEFINE h == u \div 256
<1>2. h \in 0..255 /\ u = h * 256 + b
  BY <1>1, SMT
<1> HIDE DEF h
<1>3. h \in Byte
  BY <1>2, SMT DEF Byte
<1>4. ((u * 256) \div 16) % 64 = (b % 4) * 16 /\ ((u * 256) \div 64) % 64 = (b % 16) * 4
  <2>1. h \in Byte /\ b \in Byte /\ u = h * 256 + b
    BY <1>2, <1>3
  <2> QED
    BY ONLY <2>1, ReadOff, SMT
<1>5. Bits(u * 256, 4, 6) = ((u * 256) \div 16) % 64
  BY Powers, SMT DEF Bits
<1>6. Bits(u * 256, 6, 6) = ((u * 256) \div 64) % 64
  BY Powers, SMT DEF Bits
<1>7. Second(b, 0) = (b % 4) * 16 /\ Third(b, 0) = (b % 16) * 4
  BY DigitsAre, SMT
<1> QED
  BY <1>4, <1>5, <1>6, <1>7, SMT

\* So b64encode ends: with a digit for the last bits and padding.
LEMMA EncodedIs ==
    ASSUME NEW x \in Seq(Byte), NEW q \in Nat, NEW r \in 0..2, Len(x) = 3 * q + r
    PROVE  Encoded(B64Encode(x), x, q, r)
<1> DEFINE n == Len(x)
           e0 == [val |-> 0, bits |-> -6, out |-> <<>>]
           t == FoldLeft(EncodeByte, e0, x)
           whole == IF t.bits > -6
                    THEN Append(t.out, Bits(t.val * 256, t.bits + 8, 6)) ELSE t.out
           k == (4 - (Len(whole) % 4)) % 4
           o == B64Encode(x)
<1>1. n \in Nat /\ n = Len(x) /\ \A i \in 1..n : x[i] \in Byte
  BY ElementOfSeq
<1>2. e0 \in Encoder /\ e0 = [val |-> 0, bits |-> -6, out |-> <<>>]
  BY EmptySeq DEF Encoder, Accu
<1>3. Padded(o, whole, k)
  BY Zenon DEF B64Encode, Padded
<1> HIDE DEF n, e0, o
<1>4. PICK G : Encoding(G, e0, x, n) /\ FoldLeft(EncodeByte, e0, x) = G[n]
  BY <1>1, <1>2, EncodeRuns
<1>5. t = G[n] /\ n = 3 * q + r
  BY <1>1, <1>4
<1> HIDE DEF t
<1>6. AtGroup(G[3 * q], 4 * q) /\ Spells(G[3 * q].out, x, q)
  BY <1>1, <1>2, <1>4, <1>5, EncodeGroupsAre
<1>7. 4 * q \in Nat /\ 3 * q \in Nat
  OBVIOUS
<1>8. CASE r = 0
  <2>1. t = G[3 * q] /\ ~(t.bits > -6) /\ t.out \in Seq(Digit) /\ Len(t.out) = 4 * q
    BY <1>5, <1>6, <1>7, <1>8 DEF AtGroup, Encoder
  <2>2. whole = t.out
    BY <2>1
  <2> HIDE DEF whole
  <2>3. k = 0
    <3>1. (4 * q) % 4 = 0
      BY <1>7, SMT
    <3>2. Len(whole) % 4 = 0
      BY <2>1, <2>2, <3>1
    <3> QED
      BY <3>2
  <2> HIDE DEF k
  <2>4. o \in Seq(0..64) /\ Len(o) = Len(whole) + k /\ \A i \in 1..(4 * q) : o[i] = whole[i]
    <3>1. whole \in Seq(Digit) /\ Len(whole) = 4 * q /\ k \in 0..3
      BY <2>1, <2>2, <2>3
    <3>2. /\ o \in Seq(0..64) /\ Len(o) = Len(whole) + k
          /\ \A i \in 1..Len(whole) : o[i] = whole[i]
      <4>1. PadsLast(o, whole, k)
        BY <1>3, <3>1, PaddedIs
      <4> QED
        BY <4>1 DEF PadsLast
    <3> QED
      BY <3>1, <3>2
  <2>5. Spells(o, x, q)
    BY <1>6, <2>1, <2>2, <2>4, SpellsMore
  <2> QED
    BY <1>7, <1>8, <2>1, <2>2, <2>3, <2>4, <2>5 DEF Encoded, o
<1>9. CASE r = 1
  <2> DEFINE a == x[3 * q + 1]
  <2>1. 3 * q + 1 \in 1..n /\ (3 * q + 1) - 1 = 3 * q /\ n = 3 * q + 1
    BY <1>5, <1>7, <1>9
  <2>2. a \in Byte /\ t = EncodeByte(G[3 * q], a)
    BY <1>1, <1>4, <1>5, <2>1 DEF Encoding
  <2> HIDE DEF a
  <2>3. t \in Encoder /\ t.bits = -4 /\ t.val % 256 = a
        /\ Extends(t.out, G[3 * q].out, First(a), Digit)
    BY <1>6, <1>7, <2>2, EncodePartIs
  <2>4. t.val \in Accu /\ t.out \in Seq(Digit)
    BY <2>3 DEF Encoder
  <2>5. whole = Append(t.out, Second(a, 0))
    BY <2>2, <2>3, <2>4, LastBits
  <2>6. Second(a, 0) \in Digit
    <3>1. 0 \in Byte
      BY SMT DEF Byte
    <3> QED
      BY <2>2, <3>1, DigitsAre
  <2>7. Extends(whole, t.out, Second(a, 0), Digit)
    BY <2>4, <2>5, <2>6, AppendIs
  <2>8. Len(G[3 * q].out) = 4 * q
    BY <1>6 DEF AtGroup
  <2>9. Len(whole) = 4 * q + 2 /\ Len(t.out) = 4 * q + 1 /\ whole \in Seq(Digit)
    BY <1>7, <2>3, <2>7, <2>8 DEF Extends
  <2> HIDE DEF whole
  <2>10. k = 2
    BY <1>7, <2>9
  <2> HIDE DEF k
  <2>11. /\ o \in Seq(0..64) /\ Len(o) = Len(whole) + 2
         /\ \A i \in 1..Len(whole) : o[i] = whole[i]
         /\ \A i \in 1..2 : o[Len(whole) + i] = Pad
    <3>1. k \in 0..3
      BY <2>10
    <3>2. /\ o \in Seq(0..64) /\ Len(o) = Len(whole) + k
          /\ \A i \in 1..Len(whole) : o[i] = whole[i]
          /\ \A i \in 1..k : o[Len(whole) + i] = Pad
      <4>1. PadsLast(o, whole, k)
        BY <1>3, <2>9, <3>1, PaddedIs
      <4> QED
        BY <4>1 DEF PadsLast
    <3> QED
      BY <2>10, <3>2
  <2>12. o[4 * q + 3] = Pad /\ o[4 * q + 4] = Pad /\ Len(o) = 4 * q + 4
    <3>1. (4 * q + 2) + 1 = 4 * q + 3 /\ (4 * q + 2) + 2 = 4 * q + 4 /\ 1 \in 1..2 /\ 2 \in 1..2
      BY <1>7
    <3> QED
      BY <2>9, <2>11, <3>1
  <2>13. o[4 * q + 2] = Second(a, 0) /\ o[4 * q + 1] = First(a)
    <3>1. /\ 4 * q + 1 \in 1..(4 * q + 2) /\ 4 * q + 2 \in 1..(4 * q + 2)
          /\ 4 * q + 1 \in 1..(4 * q + 1) /\ (4 * q + 1) + 1 = 4 * q + 2
      BY <1>7
    <3>2. o[4 * q + 1] = whole[4 * q + 1] /\ o[4 * q + 2] = whole[4 * q + 2]
      BY <2>9, <2>11, <3>1
    <3>3. whole[4 * q + 1] = t.out[4 * q + 1] /\ whole[4 * q + 2] = Second(a, 0)
      BY <2>7, <2>9, <3>1 DEF Extends
    <3>4. t.out[4 * q + 1] = First(a)
      BY <2>3, <2>8 DEF Extends
    <3> QED
      BY <3>2, <3>3, <3>4
  <2>14. \A i \in 1..(4 * q) : o[i] = G[3 * q].out[i]
    <3> TAKE i \in 1..(4 * q)
    <3>1. i \in 1..(4 * q + 2) /\ i \in 1..(4 * q + 1)
      BY <1>7
    <3>2. o[i] = whole[i] /\ whole[i] = t.out[i]
      BY <2>7, <2>9, <2>11, <3>1 DEF Extends
    <3>3. t.out[i] = G[3 * q].out[i]
      BY <2>3, <2>8 DEF Extends
    <3> QED
      BY <3>2, <3>3
  <2>15. Spells(o, x, q)
    BY <1>6, <2>14, SpellsMore
  <2> QED
    BY <1>9, <2>11, <2>12, <2>13, <2>15 DEF Encoded, a, o
<1>10. CASE r = 2
  <2> DEFINE a == x[3 * q + 1]
             b == x[3 * q + 2]
             s1 == G[3 * q + 1]
  <2>1. /\ 3 * q + 1 \in 1..n /\ (3 * q + 1) - 1 = 3 * q
        /\ 3 * q + 2 \in 1..n /\ (3 * q + 2) - 1 = 3 * q + 1 /\ n = 3 * q + 2
    BY <1>5, <1>7, <1>10
  <2>2. /\ a \in Byte /\ b \in Byte /\ s1 = EncodeByte(G[3 * q], a)
        /\ t = EncodeByte(s1, b)
    BY <1>1, <1>4, <1>5, <2>1 DEF Encoding
  <2> HIDE DEF a, b, s1
  <2>3. /\ s1 \in Encoder /\ Extends(s1.out, G[3 * q].out, First(a), Digit)
        /\ t \in Encoder /\ t.bits = -2 /\ t.val % 256 = b
        /\ Extends(t.out, s1.out, Second(a, b), Digit)
    BY <1>6, <1>7, <2>2, EncodePartIs
  <2>4. t.val \in Accu /\ t.out \in Seq(Digit)
    BY <2>3 DEF Encoder
  <2>5. whole = Append(t.out, Third(b, 0))
    BY <2>2, <2>3, <2>4, LastBits
  <2>6. Third(b, 0) \in Digit
    <3>1. 0 \in Byte
      BY SMT DEF Byte
    <3> QED
      BY <2>2, <3>1, DigitsAre
  <2>7. Extends(whole, t.out, Third(b, 0), Digit)
    BY <2>4, <2>5, <2>6, AppendIs
  <2>8. Len(G[3 * q].out) = 4 * q
    BY <1>6 DEF AtGroup
  <2>9. /\ Len(whole) = 4 * q + 3 /\ Len(t.out) = 4 * q + 2 /\ Len(s1.out) = 4 * q + 1
        /\ whole \in Seq(Digit)
    BY <1>7, <2>3, <2>7, <2>8 DEF Extends
  <2> HIDE DEF whole
  <2>10. k = 1
    BY <1>7, <2>9
  <2> HIDE DEF k
  <2>11. /\ o \in Seq(0..64) /\ Len(o) = Len(whole) + 1
         /\ \A i \in 1..Len(whole) : o[i] = whole[i]
         /\ \A i \in 1..1 : o[Len(whole) + i] = Pad
    <3>1. k \in 0..3
      BY <2>10
    <3>2. /\ o \in Seq(0..64) /\ Len(o) = Len(whole) + k
          /\ \A i \in 1..Len(whole) : o[i] = whole[i]
          /\ \A i \in 1..k : o[Len(whole) + i] = Pad
      <4>1. PadsLast(o, whole, k)
        BY <1>3, <2>9, <3>1, PaddedIs
      <4> QED
        BY <4>1 DEF PadsLast
    <3> QED
      BY <2>10, <3>2
  <2>12. o[4 * q + 4] = Pad /\ Len(o) = 4 * q + 4
    <3>1. (4 * q + 3) + 1 = 4 * q + 4 /\ 1 \in 1..1
      BY <1>7
    <3> QED
      BY <2>9, <2>11, <3>1
  <2>13. o[4 * q + 3] = Third(b, 0) /\ o[4 * q + 2] = Second(a, b) /\ o[4 * q + 1] = First(a)
    <3>1. /\ 4 * q + 1 \in 1..(4 * q + 3) /\ 4 * q + 2 \in 1..(4 * q + 3)
          /\ 4 * q + 3 \in 1..(4 * q + 3) /\ 4 * q + 1 \in 1..(4 * q + 2)
          /\ 4 * q + 2 \in 1..(4 * q + 2) /\ 4 * q + 1 \in 1..(4 * q + 1)
          /\ (4 * q + 1) + 1 = 4 * q + 2 /\ (4 * q + 2) + 1 = 4 * q + 3
      BY <1>7
    <3>2. /\ o[4 * q + 1] = whole[4 * q + 1] /\ o[4 * q + 2] = whole[4 * q + 2]
          /\ o[4 * q + 3] = whole[4 * q + 3]
      BY <2>9, <2>11, <3>1
    <3>3. /\ whole[4 * q + 1] = t.out[4 * q + 1] /\ whole[4 * q + 2] = t.out[4 * q + 2]
          /\ whole[4 * q + 3] = Third(b, 0)
      BY <2>7, <2>9, <3>1 DEF Extends
    <3>4. t.out[4 * q + 1] = s1.out[4 * q + 1] /\ t.out[4 * q + 2] = Second(a, b)
      BY <2>3, <2>9, <3>1 DEF Extends
    <3>5. s1.out[4 * q + 1] = First(a)
      BY <2>3, <2>8 DEF Extends
    <3> QED
      BY <3>2, <3>3, <3>4, <3>5
  <2>14. \A i \in 1..(4 * q) : o[i] = G[3 * q].out[i]
    <3> TAKE i \in 1..(4 * q)
    <3>1. i \in 1..(4 * q + 3) /\ i \in 1..(4 * q + 2) /\ i \in 1..(4 * q + 1)
      BY <1>7
    <3>2. o[i] = whole[i] /\ whole[i] = t.out[i]
      BY <2>7, <2>9, <2>11, <3>1 DEF Extends
    <3>3. t.out[i] = s1.out[i] /\ s1.out[i] = G[3 * q].out[i]
      BY <2>3, <2>8, <2>9, <3>1 DEF Extends
    <3> QED
      BY <3>2, <3>3
  <2>15. Spells(o, x, q)
    BY <1>6, <2>14, SpellsMore
  <2> QED
    BY <1>10, <2>11, <2>12, <2>13, <2>15 DEF Encoded, a, b, o
<1> QED
  BY <1>8, <1>9, <1>10

Decoder == [done : BOOLEAN, val : Accu, bits : {-8, -2, -4, -6}, out : Seq(Byte)]
Symbol == 0..64
Pull(u, d) == (u * 64 + d) % 65536

\* The accumulator takes a digit; eight bits of it are a byte.
LEMMA PullIs ==
    ASSUME NEW u \in Accu, NEW d \in Digit
    PROVE  /\ Pull(u, d) \in Accu /\ Pull(u, d) % 64 = d
           /\ Pull(u, d) % 4096 = (u % 64) * 64 + d
           /\ Bits(Pull(u, d), 0, 8) = Pull(u, d) % 256
           /\ Bits(Pull(u, d), 2, 8) = (Pull(u, d) \div 4) % 256
           /\ Bits(Pull(u, d), 4, 8) = (Pull(u, d) \div 16) % 256
           /\ Bits(Pull(u, d), 0, 8) \in Byte /\ Bits(Pull(u, d), 2, 8) \in Byte
           /\ Bits(Pull(u, d), 4, 8) \in Byte
<1> DEFINE v == Pull(u, d)
<1>1. u \in Nat /\ u < 65536
  BY SMT DEF Accu
<1>2. v \in Nat /\ v < 65536 /\ v % 64 = d /\ v % 4096 = (u % 64) * 64 + d
  BY <1>1, DigitIn, SMT DEF Pull
<1> HIDE DEF v
<1>3. Bits(v, 0, 8) = v % 256 /\ v % 256 \in 0..255
  <2>1. v \div 1 = v
    BY <1>2, SMT
  <2> QED
    BY <1>2, <2>1, Powers, SMT DEF Bits
<1>4. Bits(v, 2, 8) = (v \div 4) % 256 /\ (v \div 4) % 256 \in 0..255
  BY <1>2, Powers, SMT DEF Bits
<1>5. Bits(v, 4, 8) = (v \div 16) % 256 /\ (v \div 16) % 256 \in 0..255
  BY <1>2, Powers, SMT DEF Bits
<1> QED
  BY <1>2, <1>3, <1>4, <1>5, SMT DEF v, Accu, Byte

\* A digit, taken by the decoder; padding ends it (b64decode).
LEMMA DecodeDigitIs ==
    ASSUME NEW t \in Decoder, NEW d \in Symbol, NEW v, v = Pull(t.val, d)
    PROVE  /\ t.done \/ d = Pad => DecodeDigit(t, d) = [t EXCEPT !.done = TRUE]
           /\ d \in Digit /\ ~t.done /\ t.bits = -8 => DecodeDigit(t, d) =
                [done |-> FALSE, val |-> v, bits |-> -2, out |-> t.out]
           /\ d \in Digit /\ ~t.done /\ t.bits = -2 => DecodeDigit(t, d) =
                [done |-> FALSE, val |-> v, bits |-> -4, out |-> Append(t.out, Bits(v, 4, 8))]
           /\ d \in Digit /\ ~t.done /\ t.bits = -4 => DecodeDigit(t, d) =
                [done |-> FALSE, val |-> v, bits |-> -6, out |-> Append(t.out, Bits(v, 2, 8))]
           /\ d \in Digit /\ ~t.done /\ t.bits = -6 => DecodeDigit(t, d) =
                [done |-> FALSE, val |-> v, bits |-> -8, out |-> Append(t.out, Bits(v, 0, 8))]
           /\ DecodeDigit(t, d) \in Decoder
<1>1. /\ t.done \in BOOLEAN /\ t.val \in Accu /\ t.out \in Seq(Byte)
      /\ t.bits = -8 \/ t.bits = -2 \/ t.bits = -4 \/ t.bits = -6
      /\ t = [done |-> t.done, val |-> t.val, bits |-> t.bits, out |-> t.out]
  BY SMT DEF Decoder
<1>2. v = (t.val * 64 + d) % 2^16
  BY Powers, SMT DEF Pull
<1>0. d \in 0..64
  BY DEF Symbol
<1>3. DecodeDigit(t, d) =
        IF t.done \/ d = Pad THEN [t EXCEPT !.done = TRUE]
        ELSE IF t.bits + 6 >= 0
        THEN [t EXCEPT !.val = v, !.bits = t.bits - 2,
                       !.out = Append(t.out, Bits(v, t.bits + 6, 8))]
        ELSE [t EXCEPT !.val = v, !.bits = t.bits + 6]
  <2> DEFINE w == (t.val * 64 + d) % 2^16
  <2>1. DecodeDigit(t, d) =
          IF t.done \/ d = Pad THEN [t EXCEPT !.done = TRUE]
          ELSE IF t.bits + 6 >= 0
          THEN [t EXCEPT !.val = w, !.bits = t.bits - 2,
                         !.out = Append(t.out, Bits(w, t.bits + 6, 8))]
          ELSE [t EXCEPT !.val = w, !.bits = t.bits + 6]
    BY SMT DEF DecodeDigit
  <2>2. w = v
    BY <1>2, SMT
  <2> HIDE DEF w
  <2> QED
    BY <2>1, <2>2, SMT
<1>4. CASE t.done \/ d = Pad
  <2>1. DecodeDigit(t, d) = [t EXCEPT !.done = TRUE]
    BY <1>3, <1>4
  <2>2. DecodeDigit(t, d) \in Decoder
    BY <2>1 DEF Decoder
  <2>3. ~(d \in Digit /\ ~t.done)
    BY <1>4, SMT DEF Pad, Digit
  <2> QED
    BY <2>1, <2>2, <2>3
<1>5. CASE ~(t.done \/ d = Pad)
  <2>1. d \in Digit /\ ~t.done /\ t.done = FALSE
    BY <1>0, <1>1, <1>5, SMT DEF Pad, Digit
  <2>2. v \in Accu /\ Bits(v, 0, 8) \in Byte /\ Bits(v, 2, 8) \in Byte /\ Bits(v, 4, 8) \in Byte
    BY <1>1, <2>1, PullIs
  <2> DEFINE b(f) == Bits(v, f, 8)
             o(f) == Append(t.out, b(f))
  <2>3. b(0) \in Byte /\ b(2) \in Byte /\ b(4) \in Byte
    BY <2>2
  <2> HIDE DEF b
  <2>4. o(0) \in Seq(Byte) /\ o(2) \in Seq(Byte) /\ o(4) \in Seq(Byte)
    BY <1>1, <2>3, AppendProperties
  <2> HIDE DEF o
  <2>5. DecodeDigit(t, d) =
          IF t.bits + 6 >= 0
          THEN [done |-> FALSE, val |-> v, bits |-> t.bits - 2, out |-> o(t.bits + 6)]
          ELSE [done |-> FALSE, val |-> v, bits |-> t.bits + 6, out |-> t.out]
    BY <1>1, <1>3, <1>5, <2>1 DEF Decoder, o, b
  <2>6. CASE t.bits = -8
    <3>1. ~(t.bits + 6 >= 0) /\ t.bits + 6 = -2
      BY <2>6
    <3>2. DecodeDigit(t, d) = [done |-> FALSE, val |-> v, bits |-> -2, out |-> t.out]
      BY <2>5, <3>1
    <3>3. DecodeDigit(t, d) \in Decoder
      BY <1>1, <2>2, <3>2 DEF Decoder
    <3> QED
      BY <1>5, <2>6, <3>2, <3>3
  <2>7. CASE t.bits = -2
    <3>1. t.bits + 6 >= 0 /\ t.bits + 6 = 4 /\ t.bits - 2 = -4
      BY <2>7
    <3>2. DecodeDigit(t, d) = [done |-> FALSE, val |-> v, bits |-> -4, out |-> o(4)]
      BY <2>5, <3>1
    <3>3. DecodeDigit(t, d) \in Decoder
      BY <1>1, <2>2, <2>4, <3>2 DEF Decoder
    <3> QED
      BY <1>5, <2>7, <3>2, <3>3 DEF o, b
  <2>8. CASE t.bits = -4
    <3>1. t.bits + 6 >= 0 /\ t.bits + 6 = 2 /\ t.bits - 2 = -6
      BY <2>8
    <3>2. DecodeDigit(t, d) = [done |-> FALSE, val |-> v, bits |-> -6, out |-> o(2)]
      BY <2>5, <3>1
    <3>3. DecodeDigit(t, d) \in Decoder
      BY <1>1, <2>2, <2>4, <3>2 DEF Decoder
    <3> QED
      BY <1>5, <2>8, <3>2, <3>3 DEF o, b
  <2>9. CASE t.bits = -6
    <3>1. t.bits + 6 >= 0 /\ t.bits + 6 = 0 /\ t.bits - 2 = -8
      BY <2>9
    <3>2. DecodeDigit(t, d) = [done |-> FALSE, val |-> v, bits |-> -8, out |-> o(0)]
      BY <2>5, <3>1
    <3>3. DecodeDigit(t, d) \in Decoder
      BY <1>1, <2>2, <2>4, <3>2 DEF Decoder
    <3> QED
      BY <1>5, <2>9, <3>2, <3>3 DEF o, b
  <2> QED
    BY <1>1, <2>6, <2>7, <2>8, <2>9
<1> QED
  BY <1>4, <1>5

\* The decoder takes digit after digit.
Decoding(G, c0, o, n) ==
    /\ G \in [0..n -> Decoder] /\ G[0] = c0
    /\ \A k \in 1..n : G[k] = DecodeDigit(G[k - 1], o[k])

\* So a fold is computed, element by element.
LEMMA DecodeRuns ==
    ASSUME NEW c0 \in Decoder, NEW o \in Seq(Symbol), NEW n \in Nat, n = Len(o)
    PROVE  \E G : Decoding(G, c0, o, n) /\ FoldLeft(DecodeDigit, c0, o) = G[n]
<1> DEFINE F == [p \in Decoder \X Symbol |-> DecodeDigit(p[1], p[2])]
           H == CHOOSE it : it = [S \in SUBSET (DOMAIN o) |->
                  IF S = {} THEN c0 ELSE DecodeDigit(it[S \ {Max(S)}], o[Max(S)])]
<1>1. DOMAIN o = 1..n /\ c0 \in Decoder /\ o \in Seq(Symbol)
  OBVIOUS
<1>2. ASSUME NEW t0 \in Decoder, NEW e \in Symbol PROVE DecodeDigit(t0, e) \in Decoder
  BY <1>2, DecodeDigitIs
<1>3. F \in [Decoder \X Symbol -> Decoder]
  BY <1>2
<1>4. \A t0 \in Decoder, e \in Symbol : F[<<t0, e>>] = DecodeDigit(t0, e)
  OBVIOUS
<1> HIDE DEF F
<1>5. PICK it : Folding(it, F, c0, o, n)
  BY FoldExists
<1>6. \A S \in SUBSET (1..n) : it[S] \in Decoder
  BY <1>1, <1>3, <1>5, FoldStays
<1>7. ASSUME NEW S \in SUBSET (1..n), S # {}
      PROVE  o[Max(S)] \in Symbol /\ S \ {Max(S)} \in SUBSET (1..n)
  <2>1. Max(S) \in 1..n
    BY <1>7, Greatest
  <2> QED
    BY <1>1, <2>1, ElementOfSeq
<1>8. it = [S \in SUBSET (DOMAIN o) |->
              IF S = {} THEN c0 ELSE DecodeDigit(it[S \ {Max(S)}], o[Max(S)])]
  BY <1>1, <1>4, <1>5, <1>6, <1>7 DEF Folding
<1>9. H = [S \in SUBSET (DOMAIN o) |->
              IF S = {} THEN c0 ELSE DecodeDigit(H[S \ {Max(S)}], o[Max(S)])]
  BY <1>8
<1>10. FoldLeft(DecodeDigit, c0, o) = H[DOMAIN o]
  BY DEF FoldLeft, MapThenFoldSet
<1> HIDE DEF H
<1>11. Computes(H, Decoder, F, c0, o, n)
  <2> SUFFICES ASSUME NEW S \in SUBSET (1..n)
               PROVE  /\ S = {} => H[S] = c0
                      /\ S # {} /\ H[S \ {Max(S)}] \in Decoder =>
                           H[S] = F[<<H[S \ {Max(S)}], o[Max(S)]>>]
    BY DEF Computes
  <2>1. H[S] = IF S = {} THEN c0 ELSE DecodeDigit(H[S \ {Max(S)}], o[Max(S)])
    BY <1>1, <1>9
  <2> QED
    BY <1>4, <1>7, <2>1
<1>12. PICK G : Runs(G, Decoder, F, c0, o, n) /\ G[n] = H[1..n]
  <2>1. Foldable(Decoder, Symbol, F, c0, o, n)
    BY <1>1, <1>3 DEF Foldable
  <2> QED
    BY ONLY <2>1, <1>11, FoldRuns
<1>13. FoldLeft(DecodeDigit, c0, o) = G[n]
  BY <1>1, <1>10, <1>12
<1>14. \A k \in 1..n : o[k] \in Symbol
  BY <1>1, ElementOfSeq
<1>15. \A k \in 1..n : G[k] = DecodeDigit(G[k - 1], o[k])
  <2> SUFFICES ASSUME NEW k \in 1..n PROVE G[k] = DecodeDigit(G[k - 1], o[k])
    OBVIOUS
  <2>1. k - 1 \in 0..n
    OBVIOUS
  <2>2. G[k - 1] \in Decoder /\ G[k] = F[<<G[k - 1], o[k]>>]
    BY <1>12, <2>1 DEF Runs
  <2>3. o[k] \in Symbol
    BY <1>14
  <2> QED
    BY <1>4, <2>2, <2>3
<1>16. Decoding(G, c0, o, n)
  BY <1>12, <1>15 DEF Runs, Decoding
<1> QED
  BY <1>13, <1>16

\* The decoder before a group of four digits, having written y.
Ready(t, y) == t \in Decoder /\ ~t.done /\ t.bits = -8 /\ t.out = y

\* And in the middle of one, with the digit d last.
Holding(t, bits, y, d) ==
    t \in Decoder /\ ~t.done /\ t.bits = bits /\ t.out = y /\ t.val % 64 = d

\* The first digit of a group.
LEMMA DecodeFirst ==
    ASSUME NEW t, NEW y \in Seq(Byte), Ready(t, y), NEW d \in Digit
    PROVE  Holding(DecodeDigit(t, d), -2, y, d)
<1> DEFINE v == Pull(t.val, d)
<1>1. t \in Decoder /\ ~t.done /\ t.bits = -8 /\ t.out = y /\ t.val \in Accu /\ d \in Symbol
  BY SMT DEF Ready, Decoder, Digit, Symbol
<1>2. v = Pull(t.val, d) /\ v % 64 = d
  BY <1>1, PullIs
<1> HIDE DEF v
<1>3. /\ DecodeDigit(t, d) = [done |-> FALSE, val |-> v, bits |-> -2, out |-> t.out]
      /\ DecodeDigit(t, d) \in Decoder
  BY <1>1, <1>2, DecodeDigitIs
<1> QED
  BY <1>1, <1>2, <1>3 DEF Holding

\* The second, the third and the fourth: a byte each.
LEMMA DecodeNext ==
    ASSUME NEW t, NEW y \in Seq(Byte), NEW a \in Byte, NEW b \in Byte, NEW c \in Byte
    PROVE  /\ Holding(t, -2, y, First(a)) =>
                Holding(DecodeDigit(t, Second(a, b)), -4, Append(y, a), Second(a, b))
           /\ Holding(t, -4, y, Second(a, b)) =>
                Holding(DecodeDigit(t, Third(b, c)), -6, Append(y, b), Third(b, c))
           /\ Holding(t, -6, y, Third(b, c)) =>
                Ready(DecodeDigit(t, Fourth(c)), Append(y, c))
<1>1. /\ Second(a, b) \in Digit /\ Third(b, c) \in Digit /\ Fourth(c) \in Digit
  BY DigitsAre
<1>2. \A d \in Digit : d \in Symbol
  BY SMT DEF Digit, Symbol
<1>3. ASSUME NEW d \in Digit, t \in Decoder, ~t.done, NEW v, v = Pull(t.val, d)
      PROVE  /\ v \in Nat /\ v < 65536 /\ v % 64 = d /\ v % 4096 = (t.val % 64) * 64 + d
             /\ Bits(v, 0, 8) = v % 256 /\ Bits(v, 2, 8) = (v \div 4) % 256
             /\ Bits(v, 4, 8) = (v \div 16) % 256
  <2>1. t.val \in Accu
    BY <1>3 DEF Decoder
  <2>2. v \in Accu
    BY <1>3, <2>1, PullIs
  <2>3. v \in Nat /\ v < 65536
    BY <2>2 DEF Accu
  <2> QED
    BY <1>3, <2>1, <2>3, PullIs
<1>4. ASSUME Holding(t, -2, y, First(a))
      PROVE  Holding(DecodeDigit(t, Second(a, b)), -4, Append(y, a), Second(a, b))
  <2> DEFINE d == Second(a, b)
             v == Pull(t.val, d)
  <2>1. t \in Decoder /\ ~t.done /\ t.bits = -2 /\ t.out = y /\ t.val % 64 = First(a)
    BY <1>4 DEF Holding
  <2>2. d \in Digit /\ d \in Symbol /\ v = Pull(t.val, d) /\ d = Second(a, b)
    BY <1>1, <1>2
  <2> HIDE DEF d, v
  <2>3. /\ v \in Nat /\ v < 65536 /\ v % 64 = d /\ v % 4096 = First(a) * 64 + d
        /\ Bits(v, 4, 8) = (v \div 16) % 256
    BY <1>3, <2>1, <2>2
  <2>4. Bits(v, 4, 8) = a
    BY <2>2, <2>3, ReadBack
  <2>5. /\ DecodeDigit(t, d) = [done |-> FALSE, val |-> v, bits |-> -4, out |-> Append(y, a)]
        /\ DecodeDigit(t, d) \in Decoder
    BY <2>1, <2>2, <2>4, DecodeDigitIs
  <2> QED
    BY <2>2, <2>3, <2>5 DEF Holding
<1>5. ASSUME Holding(t, -4, y, Second(a, b))
      PROVE  Holding(DecodeDigit(t, Third(b, c)), -6, Append(y, b), Third(b, c))
  <2> DEFINE d == Third(b, c)
             v == Pull(t.val, d)
  <2>1. t \in Decoder /\ ~t.done /\ t.bits = -4 /\ t.out = y /\ t.val % 64 = Second(a, b)
    BY <1>5 DEF Holding
  <2>2. d \in Digit /\ d \in Symbol /\ v = Pull(t.val, d) /\ d = Third(b, c)
    BY <1>1, <1>2
  <2> HIDE DEF d, v
  <2>3. /\ v \in Nat /\ v < 65536 /\ v % 64 = d /\ v % 4096 = Second(a, b) * 64 + d
        /\ Bits(v, 2, 8) = (v \div 4) % 256
    BY <1>3, <2>1, <2>2
  <2>4. Bits(v, 2, 8) = b
    BY <2>2, <2>3, ReadBack
  <2>5. /\ DecodeDigit(t, d) = [done |-> FALSE, val |-> v, bits |-> -6, out |-> Append(y, b)]
        /\ DecodeDigit(t, d) \in Decoder
    BY <2>1, <2>2, <2>4, DecodeDigitIs
  <2> QED
    BY <2>2, <2>3, <2>5 DEF Holding
<1>6. ASSUME Holding(t, -6, y, Third(b, c))
      PROVE  Ready(DecodeDigit(t, Fourth(c)), Append(y, c))
  <2> DEFINE d == Fourth(c)
             v == Pull(t.val, d)
  <2>1. t \in Decoder /\ ~t.done /\ t.bits = -6 /\ t.out = y /\ t.val % 64 = Third(b, c)
    BY <1>6 DEF Holding
  <2>2. d \in Digit /\ d \in Symbol /\ v = Pull(t.val, d) /\ d = Fourth(c)
    BY <1>1, <1>2
  <2> HIDE DEF d, v
  <2>3. /\ v \in Nat /\ v < 65536 /\ v % 4096 = Third(b, c) * 64 + d
        /\ Bits(v, 0, 8) = v % 256
    BY <1>3, <2>1, <2>2
  <2>4. Bits(v, 0, 8) = c
    BY <2>2, <2>3, ReadBack
  <2>5. /\ DecodeDigit(t, d) = [done |-> FALSE, val |-> v, bits |-> -8, out |-> Append(y, c)]
        /\ DecodeDigit(t, d) \in Decoder
    BY <2>1, <2>2, <2>4, DecodeDigitIs
  <2> QED
    BY <2>2, <2>3, <2>5 DEF Ready
<1> QED
  BY <1>4, <1>5, <1>6

\* After a pad nothing more is written.
LEMMA DecodeEnd ==
    ASSUME NEW t \in Decoder, NEW d \in Symbol, t.done \/ d = Pad
    PROVE  /\ DecodeDigit(t, d) \in Decoder /\ DecodeDigit(t, d).done
           /\ DecodeDigit(t, d).out = t.out
<1>1. DecodeDigit(t, d) = [t EXCEPT !.done = TRUE] /\ DecodeDigit(t, d) \in Decoder
  BY DecodeDigitIs
<1> QED
  BY <1>1 DEF Decoder

\* The decoder has read the first 3q bytes after 4q digits.
LEMMA DecodeGroupsAre ==
    ASSUME NEW c0, c0 = [done |-> FALSE, val |-> 0, bits |-> -8, out |-> <<>>],
           NEW x \in Seq(Byte), NEW n, n = Len(x),
           NEW o \in Seq(Symbol), NEW m, m = Len(o), NEW G, Decoding(G, c0, o, m),
           NEW q \in Nat, 3 * q <= n, 4 * q <= m, Spells(o, x, q)
    PROVE  Ready(G[4 * q], Prefix(x, 3 * q))
<1> DEFINE P == {k \in 0..q : Ready(G[4 * k], Prefix(x, 3 * k))}
<1>1. n \in Nat /\ m \in Nat /\ \A i \in 1..n : x[i] \in Byte
  BY ElementOfSeq
<1>0. Prefixed(Byte, x, n)
  BY PrefixIs
<1>2. 0 \in P
  <2>1. G[4 * 0] = c0 /\ 3 * 0 = 0 /\ 0 \in 0..q
    BY DEF Decoding
  <2>2. Prefix(x, 0) = <<>>
    BY <1>0 DEF Prefixed
  <2>3. Ready(c0, <<>>)
    BY EmptySeq DEF Ready, Decoder, Accu
  <2> QED
    BY <2>1, <2>2, <2>3
<1>3. ASSUME NEW k \in 1..q, k - 1 \in P PROVE k \in P
  <2> DEFINE j == k - 1
             t == G[4 * j]
             y == Prefix(x, 3 * j)
             a == x[3 * j + 1]
             b == x[3 * j + 2]
             c == x[3 * j + 3]
             t1 == G[4 * j + 1]
             t2 == G[4 * j + 2]
             t3 == G[4 * j + 3]
             t4 == G[4 * j + 4]
  <2>1. /\ 3 * j + 1 \in 1..n /\ 3 * j + 2 \in 1..n /\ 3 * j + 3 \in 1..n
        /\ (3 * j + 1) - 1 = 3 * j /\ (3 * j + 2) - 1 = 3 * j + 1 /\ (3 * j + 3) - 1 = 3 * j + 2
        /\ 4 * j + 1 \in 1..m /\ 4 * j + 2 \in 1..m /\ 4 * j + 3 \in 1..m /\ 4 * j + 4 \in 1..m
        /\ (4 * j + 1) - 1 = 4 * j /\ (4 * j + 2) - 1 = 4 * j + 1
        /\ (4 * j + 3) - 1 = 4 * j + 2 /\ (4 * j + 4) - 1 = 4 * j + 3
        /\ 3 * j + 3 = 3 * k /\ 4 * j + 4 = 4 * k /\ j \in 0..(q - 1) /\ 3 * j \in 0..n
        /\ k \in 0..q
    BY <1>1
  <2>2. /\ o[4 * j + 1] = First(a) /\ o[4 * j + 2] = Second(a, b)
        /\ o[4 * j + 3] = Third(b, c) /\ o[4 * j + 4] = Fourth(c)
    BY <2>1 DEF Spells
  <2>3. /\ t1 = DecodeDigit(t, First(a)) /\ t2 = DecodeDigit(t1, Second(a, b))
        /\ t3 = DecodeDigit(t2, Third(b, c)) /\ t4 = DecodeDigit(t3, Fourth(c))
    BY <2>1, <2>2 DEF Decoding
  <2>4. a \in Byte /\ b \in Byte /\ c \in Byte
    BY <1>1, <2>1
  <2>5. Ready(t, y) /\ y \in Seq(Byte)
    BY <1>0, <1>3, <2>1 DEF Prefixed
  <2>6. /\ Append(y, a) = Prefix(x, 3 * j + 1)
        /\ Append(Prefix(x, 3 * j + 1), b) = Prefix(x, 3 * j + 2)
        /\ Append(Prefix(x, 3 * j + 2), c) = Prefix(x, 3 * j + 3)
    BY <1>0, <2>1 DEF Prefixed
  <2>7. Append(y, a) \in Seq(Byte) /\ Append(Append(y, a), b) \in Seq(Byte)
    BY <2>4, <2>5, AppendProperties
  <2>8. First(a) \in Digit
    BY <2>4, DigitsAre
  <2> HIDE DEF t, y, a, b, c, t1, t2, t3, t4, j
  <2>9. Holding(t1, -2, y, First(a))
    BY <2>3, <2>5, <2>8, DecodeFirst
  <2>10. Holding(t2, -4, Append(y, a), Second(a, b))
    BY <2>3, <2>4, <2>5, <2>9, DecodeNext
  <2>11. Holding(t3, -6, Append(Append(y, a), b), Third(b, c))
    BY <2>3, <2>4, <2>7, <2>10, DecodeNext
  <2>12. Ready(t4, Append(Append(Append(y, a), b), c))
    BY <2>3, <2>4, <2>7, <2>11, DecodeNext
  <2> QED
    BY <2>1, <2>6, <2>12 DEF t4
<1>4. \A k \in 0..q : k \in P
  <2> HIDE DEF P
  <2> QED
    BY <1>2, <1>3, Upto
<1> QED
  BY <1>4

\* b64decode undoes b64encode.
LEMMA DecodedIs ==
    ASSUME NEW x \in Seq(Byte)
    PROVE  B64Decode(B64Encode(x)) = x
<1> DEFINE n == Len(x)
           q == n \div 3
           r == n % 3
           o == B64Encode(x)
           m == Len(o)
           c0 == [done |-> FALSE, val |-> 0, bits |-> -8, out |-> <<>>]
           t == FoldLeft(DecodeDigit, c0, o)
<1>1. n \in Nat /\ n = Len(x) /\ \A i \in 1..n : x[i] \in Byte
  BY ElementOfSeq
<1>2. Prefixed(Byte, x, n)
  BY PrefixIs
<1> HIDE DEF n
<1>3. q \in Nat /\ r \in 0..2 /\ n = 3 * q + r
  BY <1>1, SMT
<1>4. B64Decode(o) = t.out
  BY DEF B64Decode
<1> HIDE DEF q, r
<1>5. Encoded(o, x, q, r)
  BY <1>1, <1>3, EncodedIs
<1> HIDE DEF o
<1>6. o \in Seq(Symbol) /\ Spells(o, x, q) /\ m = IF r = 0 THEN 4 * q ELSE 4 * q + 4
  BY <1>5 DEF Encoded, Symbol
<1>7. c0 \in Decoder /\ c0 = [done |-> FALSE, val |-> 0, bits |-> -8, out |-> <<>>]
  BY EmptySeq DEF Decoder, Accu
<1>8. m \in Nat /\ m = Len(o) /\ 4 * q <= m /\ 3 * q <= n
  BY <1>3, <1>6
<1> HIDE DEF m, c0
<1>9. PICK G : Decoding(G, c0, o, m) /\ FoldLeft(DecodeDigit, c0, o) = G[m]
  BY <1>6, <1>7, <1>8, DecodeRuns
<1>10. t = G[m]
  BY <1>9
<1> HIDE DEF t
<1>11. Ready(G[4 * q], Prefix(x, 3 * q))
  BY <1>1, <1>3, <1>6, <1>7, <1>8, <1>9, DecodeGroupsAre
<1>12. Prefix(x, n) = x
  BY <1>2 DEF Prefixed
<1> DEFINE y == Prefix(x, 3 * q)
           a == x[3 * q + 1]
           b == x[3 * q + 2]
<1>13. y \in Seq(Byte)
  <2>1. 3 * q \in 0..n
    BY <1>3, <1>8, <1>1
  <2> QED
    BY <1>2, <2>1 DEF Prefixed
<1>14. 0 \in Byte
  BY SMT DEF Byte
<1>15. CASE r = 0
  <2>1. m = 4 * q /\ n = 3 * q
    BY <1>3, <1>6, <1>15
  <2> QED
    BY <1>4, <1>10, <1>11, <1>12, <2>1 DEF Ready, o
<1>16. CASE r # 0
  <2> DEFINE t1 == G[4 * q + 1]
             t2 == G[4 * q + 2]
             t3 == G[4 * q + 3]
  <2>1. /\ m = 4 * q + 4 /\ 4 * q + 1 \in 1..m /\ 4 * q + 2 \in 1..m /\ 4 * q + 3 \in 1..m
        /\ 4 * q + 4 \in 1..m /\ (4 * q + 1) - 1 = 4 * q /\ (4 * q + 2) - 1 = 4 * q + 1
        /\ (4 * q + 3) - 1 = 4 * q + 2 /\ (4 * q + 4) - 1 = 4 * q + 3
        /\ 3 * q + 1 \in 1..n /\ (3 * q + 1) - 1 = 3 * q
    BY <1>3, <1>6, <1>16
  <2>2. /\ t1 = DecodeDigit(G[4 * q], o[4 * q + 1]) /\ t2 = DecodeDigit(t1, o[4 * q + 2])
        /\ t3 = DecodeDigit(t2, o[4 * q + 3]) /\ t = DecodeDigit(t3, o[4 * q + 4])
    BY <1>9, <1>10, <2>1 DEF Decoding
  <2>3. a \in Byte /\ First(a) \in Digit /\ o[4 * q + 1] = First(a)
    <3>1. a \in Byte
      BY <1>1, <2>1
    <3> QED
      BY <1>3, <1>5, <1>16, <3>1, DigitsAre DEF Encoded
  <2>4. Append(y, a) = Prefix(x, 3 * q + 1)
    BY <1>2, <2>1 DEF Prefixed
  <2>5. Append(y, a) \in Seq(Byte)
    BY <1>13, <2>3, AppendProperties
  <2>6. Pad \in Symbol
    BY SMT DEF Pad, Symbol
  <2> HIDE DEF t1, t2, t3, y, a
  <2>7. Holding(t1, -2, y, First(a))
    BY <1>11, <1>13, <2>2, <2>3, DecodeFirst DEF y
  <2>8. CASE r = 1
    <3>1. o[4 * q + 2] = Second(a, 0) /\ o[4 * q + 3] = Pad /\ o[4 * q + 4] = Pad
      BY <1>5, <2>8 DEF Encoded, a
    <3>2. Holding(t2, -4, Append(y, a), Second(a, 0))
      BY <1>13, <1>14, <2>2, <2>3, <2>7, <3>1, DecodeNext
    <3>3. t2 \in Decoder /\ t2.out = Append(y, a)
      BY <3>2 DEF Holding
    <3>4. t3 \in Decoder /\ t3.done /\ t3.out = Append(y, a)
      BY <2>2, <2>6, <3>1, <3>3, DecodeEnd
    <3>5. t.out = Append(y, a)
      BY <2>2, <2>6, <3>1, <3>4, DecodeEnd
    <3>6. n = 3 * q + 1
      BY <1>3, <2>8
    <3> QED
      BY <1>4, <1>12, <2>4, <3>5, <3>6 DEF o
  <2>9. CASE r = 2
    <3>1. /\ o[4 * q + 2] = Second(a, b) /\ o[4 * q + 3] = Third(b, 0)
          /\ o[4 * q + 4] = Pad
      BY <1>5, <2>9 DEF Encoded, a
    <3>2. 3 * q + 2 \in 1..n /\ (3 * q + 2) - 1 = 3 * q + 1 /\ n = 3 * q + 2
      BY <1>3, <2>9
    <3>3. b \in Byte /\ Append(Prefix(x, 3 * q + 1), b) = Prefix(x, 3 * q + 2)
      BY <1>1, <1>2, <3>2 DEF Prefixed
    <3> HIDE DEF b
    <3>4. Holding(t2, -4, Append(y, a), Second(a, b))
      BY <1>13, <1>14, <2>2, <2>3, <2>7, <3>1, <3>3, DecodeNext
    <3>5. Holding(t3, -6, Append(Append(y, a), b), Third(b, 0))
      BY <1>14, <2>2, <2>3, <2>5, <3>1, <3>3, <3>4, DecodeNext
    <3>6. t3 \in Decoder /\ t3.out = Append(Append(y, a), b)
      BY <3>5 DEF Holding
    <3>7. t.out = Append(Append(y, a), b)
      BY <2>2, <2>6, <3>1, <3>6, DecodeEnd
    <3> QED
      BY <1>4, <1>12, <2>4, <3>2, <3>3, <3>7 DEF o
  <2> QED
    BY <1>3, <1>16, <2>8, <2>9
<1> QED
  BY <1>15, <1>16

\* The four bytes of a passcode, the lowest first.
LEMMA FourBytes ==
    ASSUME NEW n \in Nat, n \div 256^3 < 256
    PROVE  /\ \A k \in 0..3 : (n \div 256^k) % 256 \in Byte
           /\ ((n \div 256^0) % 256) + 256 * ((n \div 256^1) % 256)
                + 256^2 * ((n \div 256^2) % 256) + 256^3 * ((n \div 256^3) % 256) = n
<1> DEFINE h == n \div 16777216
           l == n % 16777216
           m == l \div 65536
           p == l % 65536
           j == p \div 256
           i == p % 256
<1>1. h \in 0..255 /\ l \in Nat /\ l < 16777216 /\ n = h * 16777216 + l
  <2>1. n \div 16777216 < 256
    BY Powers, SMT
  <2> QED
    BY <2>1, SMTT(20)
<1> HIDE DEF h, l
<1>2. m \in 0..255 /\ p \in Nat /\ p < 65536 /\ l = m * 65536 + p
  BY <1>1, SMTT(20)
<1> HIDE DEF m, p
<1>3. j \in 0..255 /\ i \in 0..255 /\ p = j * 256 + i
  BY <1>2, SMTT(20)
<1> HIDE DEF j, i
<1> DEFINE w == h * 256 + m
           u == w * 256 + j
<1>5. w \in Int /\ w \in Nat /\ u \in Int /\ u \in Nat /\ w = h * 256 + m /\ u = w * 256 + j
  BY <1>1, <1>2, <1>3, SMT
<1>6. n = w * 65536 + p /\ n = u * 256 + i
  BY <1>1, <1>2, <1>3, SMTT(20)
<1> HIDE DEF w, u
<1>7. n \div 1 = n /\ n % 256 = i /\ n \div 256 = u
  <2>1. n = u * 256 + i
    BY <1>6
  <2> QED
    BY <1>3, <1>5, <2>1, SMTT(20)
<1>8. n \div 65536 = w
  BY <1>2, <1>5, <1>6, SMTT(20)
<1>9. u % 256 = j /\ w % 256 = m
  <2>1. u % 256 = j
    BY <1>3, <1>5, SMTT(20)
  <2>2. w % 256 = m
    BY <1>1, <1>2, <1>5, SMTT(20)
  <2> QED
    BY <2>1, <2>2
<1>10. n \div 16777216 = h /\ h % 256 = h
  BY <1>1, SMTT(20)
<1>11. /\ (n \div 256^0) % 256 = i /\ (n \div 256^1) % 256 = j
       /\ (n \div 256^2) % 256 = m /\ (n \div 256^3) % 256 = h
  <2>1. n \div 256^0 = n /\ n \div 256^1 = u
    BY <1>7, Powers, SMT
  <2>2. n \div 256^2 = w
    BY <1>8, Powers, SMT
  <2>3. n \div 256^3 = h
    BY <1>10, Powers, SMT
  <2>4. h % 256 = h
    BY <1>10, SMT
  <2> QED
    BY <1>7, <1>9, <2>1, <2>2, <2>3, <2>4, ZenonT(30)
<1>12. i + 256 * j + 65536 * m + 16777216 * h = n
  BY <1>1, <1>2, <1>3, SMTT(20)
<1>13. i + 256 * j + 256^2 * m + 256^3 * h = n
  <2>1. 256^2 * m = 65536 * m /\ 256^3 * h = 16777216 * h
    BY Powers, SMT
  <2> QED
    BY <1>12, <2>1, SMT
<1>14. ASSUME NEW k \in 0..3 PROVE (n \div 256^k) % 256 \in Byte
  <2>1. k = 0 \/ k = 1 \/ k = 2 \/ k = 3
    BY SMT
  <2>2. i \in Byte /\ j \in Byte /\ m \in Byte /\ h \in Byte
    BY <1>1, <1>2, <1>3, SMT DEF Byte
  <2> QED
    <3>1. CASE k = 0
      BY <1>11, <2>2, <3>1, Zenon
    <3>2. CASE k = 1
      BY <1>11, <2>2, <3>2, Zenon
    <3>3. CASE k = 2
      BY <1>11, <2>2, <3>3, Zenon
    <3>4. CASE k = 3
      BY <1>11, <2>2, <3>4, Zenon
    <3> QED
      BY <2>1, <3>1, <3>2, <3>3, <3>4
<1> QED
  BY <1>11, <1>13, <1>14, ZenonT(30)

\* A byte of the passcodes of zone (UI::deckToYdke).
ByteOf(zone, i) == (Code[zone[(i + 3) \div 4]] \div 256^((i - 1) % 4)) % 256

\* The bytes x hold those of the j-th passcode of zone.
FourOf(x, zone, j) ==
    /\ x[4 * j - 3] = (Code[zone[j]] \div 256^0) % 256
    /\ x[4 * j - 2] = (Code[zone[j]] \div 256^1) % 256
    /\ x[4 * j - 1] = (Code[zone[j]] \div 256^2) % 256
    /\ x[4 * j] = (Code[zone[j]] \div 256^3) % 256

\* The bytes of a section are four for each card.
LEMMA BytesAre ==
    ASSUME NEW zone \in Seq(Card), NEW x, x = Bytes(zone), NEW n, n = Len(zone)
    PROVE  /\ x \in Seq(Byte) /\ Len(x) = 4 * n
           /\ \A j \in 1..n : FourOf(x, zone, j)
<1>1. n \in Nat /\ \A j \in 1..n : zone[j] \in Card
  BY ElementOfSeq
<1>2. \A c \in Card : Code[c] \in Nat /\ Code[c] \div 256^3 < 256
  <2>1. Code \in [Card -> Nat \ {0}] /\ \A c \in Card : Code[c] \div 256^3 < 256
    BY DeckBuilderAssumption
  <2> QED
    BY <2>1
<1>3. x = [i \in 1..(4 * n) |-> ByteOf(zone, i)]
  BY DEF Bytes, ByteOf
<1>4. ASSUME NEW i \in 1..(4 * n) PROVE ByteOf(zone, i) \in Byte
  <2> DEFINE j == (i + 3) \div 4
             k == (i - 1) % 4
  <2>1. j \in 1..n /\ k \in 0..3
    BY <1>1, SMTT(20)
  <2>2. ByteOf(zone, i) = (Code[zone[j]] \div 256^k) % 256
    BY DEF ByteOf
  <2> HIDE DEF j, k
  <2>3. zone[j] \in Card
    BY <1>1, <2>1
  <2> DEFINE c == Code[zone[j]]
  <2>4. c \in Nat /\ c \div 256^3 < 256
    BY <1>2, <2>3
  <2>5. ByteOf(zone, i) = (c \div 256^k) % 256
    BY <2>2
  <2> HIDE DEF c
  <2>6. \A e \in 0..3 : (c \div 256^e) % 256 \in Byte
    BY <2>4, FourBytes, ZenonT(30)
  <2> QED
    BY <2>1, <2>5, <2>6, Zenon
<1>5. x \in Seq(Byte) /\ Len(x) = 4 * n
  BY <1>1, <1>3, <1>4
<1>6. ASSUME NEW j \in 1..n, NEW k \in 0..3
      PROVE  x[4 * j - 3 + k] = (Code[zone[j]] \div 256^k) % 256
  <2> DEFINE i == 4 * j - 3 + k
  <2>0. i = 4 * j - 3 + k
    OBVIOUS
  <2> HIDE DEF i
  <2>1. i \in 1..(4 * n)
    BY <1>1, <2>0, SMT
  <2>2. (i + 3) \div 4 = j
    BY <1>1, <2>0, SMTT(20)
  <2>3. (i - 1) % 4 = k
    <3>1. i - 1 = (j - 1) * 4 + k /\ j - 1 \in Int
      BY <1>1, <2>0, SMT
    <3> DEFINE q == j - 1
    <3> HIDE DEF q
    <3>2. i - 1 = q * 4 + k /\ q \in Int
      BY <3>1 DEF q
    <3> QED
      BY <3>2, SMTT(20)
  <2>4. x[i] = ByteOf(zone, i)
    BY <1>3, <2>1
  <2> QED
    BY <2>0, <2>2, <2>3, <2>4, Zenon DEF ByteOf
<1>7. ASSUME NEW j \in 1..n PROVE FourOf(x, zone, j)
  <2>1. /\ x[4 * j - 3 + 0] = (Code[zone[j]] \div 256^0) % 256
        /\ x[4 * j - 3 + 1] = (Code[zone[j]] \div 256^1) % 256
        /\ x[4 * j - 3 + 2] = (Code[zone[j]] \div 256^2) % 256
        /\ x[4 * j - 3 + 3] = (Code[zone[j]] \div 256^3) % 256
    <3>1. 0 \in 0..3 /\ 1 \in 0..3 /\ 2 \in 0..3 /\ 3 \in 0..3
      BY SMT
    <3>2. \A k \in 0..3 : x[4 * j - 3 + k] = (Code[zone[j]] \div 256^k) % 256
      BY <1>6, ZenonT(30)
    <3> QED
      BY <3>1, <3>2, ZenonT(30)
  <2>2. /\ 4 * j - 3 + 0 = 4 * j - 3 /\ 4 * j - 3 + 1 = 4 * j - 2
        /\ 4 * j - 3 + 2 = 4 * j - 1 /\ 4 * j - 3 + 3 = 4 * j
    BY <1>1, SMT
  <2>3. /\ x[4 * j - 3 + 0] = x[4 * j - 3] /\ x[4 * j - 3 + 1] = x[4 * j - 2]
        /\ x[4 * j - 3 + 2] = x[4 * j - 1] /\ x[4 * j - 3 + 3] = x[4 * j]
    BY <2>2, Zenon
  <2>4. x[4 * j - 3] = (Code[zone[j]] \div 256^0) % 256
    BY <2>1, <2>3, Zenon
  <2>5. x[4 * j - 2] = (Code[zone[j]] \div 256^1) % 256
    BY <2>1, <2>3, Zenon
  <2>6. x[4 * j - 1] = (Code[zone[j]] \div 256^2) % 256
    BY <2>1, <2>3, Zenon
  <2>7. x[4 * j] = (Code[zone[j]] \div 256^3) % 256
    BY <2>1, <2>3, Zenon
  <2> QED
    BY <2>4, <2>5, <2>6, <2>7, Zenon DEF FourOf
<1> QED
  BY <1>5, <1>7, Zenon

\* They are read as the passcodes again: none is 0, and none is dropped.
LEMMA PasscodesAre ==
    ASSUME NEW zone \in Seq(Card)
    PROVE  Passcodes(Bytes(zone)) = [i \in 1..Len(zone) |-> Code[zone[i]]]
<1> DEFINE x == Bytes(zone)
           n == Len(zone)
           Four(i) == x[4*i - 3] + 256 * x[4*i - 2] + 256^2 * x[4*i - 1] + 256^3 * x[4*i]
           code == [i \in 1..(Len(x) \div 4) |-> Four(i)]
           q == [i \in 1..n |-> Code[zone[i]]]
<1>1. n \in Nat /\ n = Len(zone) /\ \A j \in 1..n : zone[j] \in Card
  BY ElementOfSeq
<1>2. \A c \in Card : Code[c] \in Nat \ {0} /\ Code[c] \div 256^3 < 256
  <2>1. Code \in [Card -> Nat \ {0}] /\ \A c \in Card : Code[c] \div 256^3 < 256
    BY DeckBuilderAssumption
  <2> QED
    BY <2>1
<1>3. Passcodes(x) = Keep(code, Nat \ {0})
  BY DEF Passcodes
<1>4. x = Bytes(zone)
  OBVIOUS
<1> HIDE DEF x, n
<1>5. Len(x) = 4 * n /\ \A j \in 1..n : FourOf(x, zone, j)
  BY <1>1, <1>4, BytesAre
<1>6. Len(x) \div 4 = n
  BY <1>1, <1>5, SMT
<1>7. ASSUME NEW i \in 1..n PROVE Four(i) = Code[zone[i]]
  <2>1. Code[zone[i]] \in Nat /\ Code[zone[i]] \div 256^3 < 256
    BY <1>1, <1>2
  <2>2. ((Code[zone[i]] \div 256^0) % 256) + 256 * ((Code[zone[i]] \div 256^1) % 256)
          + 256^2 * ((Code[zone[i]] \div 256^2) % 256)
          + 256^3 * ((Code[zone[i]] \div 256^3) % 256) = Code[zone[i]]
    BY <2>1, FourBytes, ZenonT(30)
  <2> DEFINE b(k) == (Code[zone[i]] \div 256^k) % 256
  <2>3. b(0) + 256 * b(1) + 256^2 * b(2) + 256^3 * b(3) = Code[zone[i]]
    BY <2>2
  <2>4. FourOf(x, zone, i)
    BY <1>5
  <2>5. /\ x[4 * i - 3] = b(0) /\ x[4 * i - 2] = b(1)
        /\ x[4 * i - 1] = b(2) /\ x[4 * i] = b(3)
    BY <2>4, Zenon DEF FourOf
  <2> HIDE DEF b
  <2> QED
    BY <2>3, <2>5
<1> HIDE DEF Four
<1>8. code = q
  BY <1>6, <1>7
<1>9. q \in Seq(Nat \ {0}) /\ \A i \in 1..Len(q) : q[i] \in Nat \ {0}
  BY <1>1, <1>2
<1> HIDE DEF code, q
<1>10. Keep(q, Nat \ {0}) = q
  BY <1>9, KeepIs
<1> QED
  BY <1>3, <1>8, <1>10 DEF x, q, n

\* A share code is the deck: UI::deckFromYdke undoes UI::deckToYdke.
LEMMA ShareRound ==
    ASSUME NEW d \in AnyDeck
    PROVE  FromYdke(ToYdke(d)) = d
<1> DEFINE codes(z) == Passcodes(B64Decode(ToYdke(d)[z]))
           cards(z) == [i \in DOMAIN codes(z) |-> CHOOSE c \in Card : Code[c] = codes(z)[i]]
<1>1. FromYdke(ToYdke(d)) = [z \in Zone |-> cards(z)]
  BY DEF FromYdke
<1>2. ASSUME NEW z \in Zone PROVE cards(z) = d[z]
  <2> DEFINE zone == d[z]
             n == Len(zone)
  <2>1. zone \in Seq(Card)
    BY DEF AnyDeck
  <2>2. n \in Nat /\ (\A i \in 1..n : zone[i] \in Card) /\ zone = [i \in 1..n |-> zone[i]]
    BY <2>1, ElementOfSeq
  <2>3. ToYdke(d)[z] = B64Encode(Bytes(zone))
    BY DEF ToYdke
  <2>4. Bytes(zone) \in Seq(Byte)
    BY <2>1, BytesAre
  <2>5. codes(z) = [i \in 1..n |-> Code[zone[i]]]
    BY <2>1, <2>3, <2>4, DecodedIs, PasscodesAre
  <2> HIDE DEF codes
  <2>6. DOMAIN codes(z) = 1..n
    BY <2>5
  <2>7. ASSUME NEW i \in 1..n PROVE (CHOOSE c \in Card : Code[c] = codes(z)[i]) = zone[i]
    <3>1. codes(z)[i] = Code[zone[i]] /\ zone[i] \in Card
      BY <2>2, <2>5
    <3>2. \A c \in Card : Code[c] = Code[zone[i]] => c = zone[i]
      BY <3>1, DeckBuilderAssumption
    <3> QED
      BY <3>1, <3>2
  <2>8. cards(z) = [i \in 1..n |-> zone[i]]
    BY <2>6, <2>7
  <2> QED
    BY <2>2, <2>8
<1> HIDE DEF cards
<1>3. [z \in Zone |-> cards(z)] = [z \in Zone |-> d[z]]
  BY <1>2
<1>4. d = [z \in Zone |-> d[z]]
  BY DEF AnyDeck
<1> QED
  BY <1>1, <1>3, <1>4

-----------------------------------------------------------------------------
(* The inductive invariant of the builder.                                  *)

AFormat == [name : 1..Formats, limit : [Card -> 0..Copies]]
Builder ==
    [screen : {"lobby", "builder", "duel"}, siding : BOOLEAN, pool : BOOLEAN,
     edit : AnyDeck, saved : AnyDeck, list : Seq(1..Decks), sel : Nat,
     lists : Seq(AFormat), fmt : Nat]

\* What the files hold is decks and formats, and so does the builder.
BuilderType ==
    /\ DOMAIN ydk \subseteq 1..Decks /\ ydk \in [DOMAIN ydk -> AnyDeck]
    /\ match \in [file : 0..Decks, temp : AnyDeck]
    /\ DOMAIN conf \subseteq 1..Formats /\ conf \in [DOMAIN conf -> AFormat]
    /\ s \in Builder
    /\ g \in [open : 0..Decks, torn : SUBSET (1..Decks)]

\* The list shows no file that is not there: the program removes none.
ListIsThere == \A i \in DOMAIN s.list : s.list[i] \in DOMAIN ydk

\* Unless it is torn, the open file holds what the builder takes for saved,
\* whether or not the deck on the table is still that.
SavedIsStored ==
    (g.open # 0 /\ g.open \notin g.torn) =>
        g.open \in DOMAIN ydk /\ ydk[g.open] = s.saved

BuilderInv == BuilderType /\ ListIsThere /\ SavedIsStored

\* A listing names files that are there.
LEMMA ListingIs ==
    ASSUME NEW n \in Nat, NEW dir
    PROVE  /\ Listing(n, dir) \in Seq(1..n)
           /\ \A i \in DOMAIN Listing(n, dir) : Listing(n, dir)[i] \in DOMAIN dir
<1> DEFINE q == [i \in 1..n |-> i]
           l == Listing(n, dir)
           B == (1..n) \cap DOMAIN dir
<1>1. q \in Seq(1..n)
  OBVIOUS
<1>2. l \in Seq(B)
  BY <1>1, KeepIs DEF Listing
<1> HIDE DEF l
<1>3. \A i \in DOMAIN l : l[i] \in B
  BY <1>2, ElementOfSeq
<1>4. l \in Seq(1..n)
  BY <1>2, SeqMonotonic
<1> QED
  BY <1>3, <1>4 DEF l

\* Files with names in N that hold elements of A.
FilesOf(dir, N, A) == DOMAIN dir \subseteq N /\ dir \in [DOMAIN dir -> A]

\* A file written stands beside the others.
LEMMA PutIs ==
    ASSUME NEW A, NEW N, NEW dir, FilesOf(dir, N, A), NEW n \in N, NEW what \in A
    PROVE  FilesOf(Put(dir, n, what), N, A) /\ n \in DOMAIN Put(dir, n, what)
  BY DEF Put, FilesOf

\* The limits are read from formats (UI::loadBanlists).
LEMMA LoadBanlistsIs ==
    ASSUME NEW dir, DOMAIN dir \subseteq 1..Formats, dir \in [DOMAIN dir -> AFormat]
    PROVE  LoadBanlists(dir) \in Seq(AFormat)
<1> DEFINE listed == Listing(Formats, dir)
           loaded == [i \in DOMAIN listed |-> dir[listed[i]]]
           W == {f \in ToSet(loaded) : f.limit # NoLimit}
<1>1. listed \in Seq(1..Formats) /\ \A i \in DOMAIN listed : listed[i] \in DOMAIN dir
  BY DeckBuilderAssumption, ListingIs
<1>2. LoadBanlists(dir) = Keep(loaded, W)
  BY DEF LoadBanlists
<1> HIDE DEF listed
<1>3. loaded \in Seq(AFormat)
  <2>1. DOMAIN listed = 1..Len(listed) /\ Len(listed) \in Nat
    BY <1>1
  <2>2. \A i \in 1..Len(listed) : dir[listed[i]] \in AFormat
    BY <1>1, <2>1
  <2> QED
    BY <2>1, <2>2
<1> HIDE DEF loaded, W
<1>4. Keep(loaded, W) \in Seq(AFormat \cap W)
  BY <1>3, KeepIs
<1> QED
  BY <1>2, <1>4, SeqMonotonic

\* The limits in force are numbers.
LEMMA CardLimitIs ==
    ASSUME BuilderType
    PROVE  CardLimit \in Limits
<1>1. s.lists \in Seq(AFormat) /\ Copies \in Nat
  BY DeckBuilderAssumption DEF BuilderType, Builder
<1>2. ASSUME NEW c \in Card PROVE Limit(Format, c) \in Nat
  <2>1. CASE s.fmt \in DOMAIN s.lists
    <3> DEFINE f == s.lists[s.fmt]
    <3>1. f \in AFormat
      BY <1>1, <2>1
    <3>2. Format = <<f>> /\ Format # <<>> /\ Format[1] = f
      BY <2>1 DEF Format
    <3> HIDE DEF f
    <3>3. f.limit[c] \in 0..Copies
      BY <3>1 DEF AFormat
    <3> QED
      BY <1>1, <3>2, <3>3 DEF Limit
  <2>2. CASE s.fmt \notin DOMAIN s.lists
    BY <1>1, <2>2 DEF Format, Limit
  <2> QED
    BY <2>1, <2>2
<1> QED
  BY <1>2 DEF CardLimit, Limits

\* The parts of the state.
LEMMA Parts ==
    ASSUME BuilderType
    PROVE  /\ s.edit \in AnyDeck /\ s.saved \in AnyDeck /\ s.list \in Seq(1..Decks)
           /\ s.lists \in Seq(AFormat) /\ s.fmt \in Nat /\ s.sel \in Nat
           /\ Decks \in Nat \ {0} /\ NoCards \in AnyDeck
           /\ \A n : LoadYdk(n) \in AnyDeck
           /\ LoadMatch \in AnyDeck
<1>1. NoCards \in AnyDeck
  BY EmptySeq DEF NoCards, AnyDeck
<1>2. \A n : LoadYdk(n) \in AnyDeck
  BY <1>1 DEF BuilderType, LoadYdk
<1> QED
  BY <1>1, <1>2, DeckBuilderAssumption DEF BuilderType, Builder, LoadMatch

\* A list that is read again shows the files there are (refreshDeckFiles).
LEMMA RefreshIs ==
    ASSUME NEW t \in Builder, NEW dir, NEW u, u = RefreshDeckFiles(t, dir)
    PROVE  /\ u \in Builder /\ u.saved = t.saved
           /\ \A i \in DOMAIN u.list : u.list[i] \in DOMAIN dir
<1> DEFINE l == Listing(Decks, dir)
           k == IF t.sel <= Len(l) THEN t.sel ELSE IF l = <<>> THEN 0 ELSE 1
<1>1. l \in Seq(1..Decks) /\ \A i \in DOMAIN l : l[i] \in DOMAIN dir
  BY DeckBuilderAssumption, ListingIs
<1>2. u = [t EXCEPT !.list = l, !.sel = k]
  BY DEF RefreshDeckFiles
<1>3. k \in Nat
  BY DEF Builder
<1> HIDE DEF l, k
<1> QED
  BY <1>1, <1>2, <1>3 DEF Builder

\* An edit leaves a deck.
LEMMA EditIs ==
    ASSUME BuilderInv, NEW d \in AnyDeck, Edit(d, g)
    PROVE  BuilderInv'
<1>1. s' = [s EXCEPT !.edit = d] /\ UNCHANGED <<ydk, match, conf, g>>
  BY DEF Edit, Files
<1>2. s' \in Builder /\ s'.list = s.list /\ s'.saved = s.saved
  BY <1>1 DEF BuilderInv, BuilderType, Builder
<1> QED
  BY <1>1, <1>2 DEF BuilderInv, BuilderType, ListIsThere, SavedIsStored

\* A step that changes neither files, lists, decks nor ghosts keeps the invariant.
LEMMA ShowIs ==
    ASSUME BuilderInv, s' \in Builder, s'.list = s.list, s'.saved = s.saved,
           UNCHANGED <<ydk, conf, g>>, match' \in [file : 0..Decks, temp : AnyDeck]
    PROVE  BuilderInv'
  BY DEF BuilderInv, BuilderType, ListIsThere, SavedIsStored

\* It holds at the start.
LEMMA BuilderInitIs == Init => BuilderInv
<1> SUFFICES ASSUME Init PROVE BuilderInv
  OBVIOUS
<1>1. PICK names \in SUBSET (2..Decks) : ydk = [n \in names |-> Starter]
  BY DEF Init
<1>2. Starter \in AnyDeck /\ Decks \in Nat \ {0} /\ Copies \in Nat \ {0}
      /\ Formats \in Nat \ {0} /\ FileOf \in [1..Formats -> 1..Formats]
      /\ EditorLimits \subseteq [Card -> 0..Copies]
  BY DeckBuilderAssumption DEF AnyDeck
<1>3. NoCards \in AnyDeck
  BY EmptySeq DEF NoCards, AnyDeck
<1>4. DOMAIN ydk \subseteq 1..Decks /\ ydk \in [DOMAIN ydk -> AnyDeck]
  BY <1>1, <1>2
<1>5. match \in [file : 0..Decks, temp : AnyDeck]
  BY <1>2, <1>3 DEF Init
<1>6. PICK limit \in EditorLimits \ {NoLimit} :
          conf = [f \in {FileOf[1]} |-> [name |-> 1, limit |-> limit]]
  BY DEF Init
<1>7. DOMAIN conf \subseteq 1..Formats /\ conf \in [DOMAIN conf -> AFormat]
  <2>1. FileOf[1] \in 1..Formats /\ 1 \in 1..Formats
    BY <1>2
  <2>2. [name |-> 1, limit |-> limit] \in AFormat
    BY <1>2, <2>1 DEF AFormat
  <2> QED
    BY <1>6, <2>1, <2>2
<1>8. LoadBanlists(conf) \in Seq(AFormat)
  BY <1>7, LoadBanlistsIs
<1>9. /\ Listing(Decks, ydk) \in Seq(1..Decks)
      /\ \A i \in DOMAIN Listing(Decks, ydk) : Listing(Decks, ydk)[i] \in DOMAIN ydk
  BY <1>2, ListingIs
<1>10. s = [screen |-> "lobby", siding |-> FALSE, pool |-> FALSE, edit |-> NoCards,
            saved |-> NoCards, list |-> Listing(Decks, ydk), sel |-> 0,
            lists |-> LoadBanlists(conf), fmt |-> 0]
  BY DEF Init
<1>11. s \in Builder
  BY <1>3, <1>8, <1>9, <1>10 DEF Builder
<1>12. g = [open |-> 0, torn |-> {}]
  BY DEF Init, Ghosts
<1>13. g \in [open : 0..Decks, torn : SUBSET (1..Decks)]
  BY <1>2, <1>12
<1> QED
  BY <1>4, <1>5, <1>7, <1>9, <1>10, <1>11, <1>12, <1>13
  DEF BuilderInv, BuilderType, ListIsThere, SavedIsStored

\* A save that is on the disk is the deck; one that is not is known, or torn.
LEMMA SaveIs ==
    ASSUME BuilderInv, NEW n \in 1..Decks, Save(n)
    PROVE  BuilderInv'
<1> DEFINE d == s.edit
<1>0. /\ DOMAIN ydk \subseteq 1..Decks /\ ydk \in [DOMAIN ydk -> AnyDeck]
      /\ s \in Builder /\ d \in AnyDeck /\ NoCards \in AnyDeck
      /\ g \in [open : 0..Decks, torn : SUBSET (1..Decks)] /\ n \in 0..Decks
  BY Parts DEF BuilderInv, BuilderType
<1>1. PICK dir \in SaveYdk(ydk, n, d) :
        /\ ydk' = dir
        /\ s' = RefreshDeckFiles(IF n \in DOMAIN dir THEN [s EXCEPT !.saved = d] ELSE s, dir)
        /\ g' = IF n \in DOMAIN dir
                THEN [g EXCEPT !.open = n,
                               !.torn = IF n \in DOMAIN dir /\ dir[n] = d
                                        THEN @ \ {n} ELSE @ \cup {n}]
                ELSE g
  BY DEF Save
<1>2. match' = match /\ conf' = conf
  BY DEF Save
<1>3. dir = ydk \/ dir = Put(ydk, n, d) \/ dir = Put(ydk, n, NoCards)
  BY DEF SaveYdk
<1>4. \/ dir = ydk
      \/ \E what \in AnyDeck : dir = Put(ydk, n, what)
  BY <1>0, <1>3
<1>5. /\ DOMAIN dir \subseteq 1..Decks /\ dir \in [DOMAIN dir -> AnyDeck]
      /\ n \notin DOMAIN dir => dir = ydk
  <2>1. CASE dir = ydk
    BY <1>0, <2>1
  <2>2. ASSUME NEW what \in AnyDeck, dir = Put(ydk, n, what)
        PROVE  /\ DOMAIN dir \subseteq 1..Decks /\ dir \in [DOMAIN dir -> AnyDeck]
               /\ n \in DOMAIN dir
    <3>1. FilesOf(ydk, 1..Decks, AnyDeck)
      BY <1>0 DEF FilesOf
    <3>2. FilesOf(Put(ydk, n, what), 1..Decks, AnyDeck) /\ n \in DOMAIN Put(ydk, n, what)
      BY <3>1, PutIs
    <3> QED
      BY <2>2, <3>2 DEF FilesOf
  <2> QED
    BY <1>4, <2>1, <2>2
<1> DEFINE t == IF n \in DOMAIN dir THEN [s EXCEPT !.saved = d] ELSE s
<1>6. t \in Builder /\ t.saved = IF n \in DOMAIN dir THEN d ELSE s.saved
  BY <1>0 DEF Builder
<1>7. s' = RefreshDeckFiles(t, dir)
  BY <1>1
<1> HIDE DEF t
<1>8. /\ s' \in Builder /\ s'.saved = t.saved
      /\ \A i \in DOMAIN s'.list : s'.list[i] \in DOMAIN dir
  BY <1>6, <1>7, RefreshIs
<1> HIDE DEF d
<1>9. CASE n \in DOMAIN dir
  <2> DEFINE torn == IF dir[n] = d THEN g.torn \ {n} ELSE g.torn \cup {n}
  <2>1. g' = [g EXCEPT !.open = n, !.torn = torn]
    BY <1>1, <1>9
  <2>2. torn \in SUBSET (1..Decks) /\ (n \notin torn => dir[n] = d)
    BY <1>0
  <2> HIDE DEF torn
  <2>3. g'.open = n /\ g'.torn = torn /\ g' \in [open : 0..Decks, torn : SUBSET (1..Decks)]
    BY <1>0, <2>1, <2>2
  <2>4. SavedIsStored'
    BY <1>1, <1>6, <1>8, <1>9, <2>2, <2>3 DEF SavedIsStored
  <2> QED
    BY <1>1, <1>2, <1>5, <1>8, <2>3, <2>4 DEF BuilderInv, BuilderType, ListIsThere
<1>10. CASE n \notin DOMAIN dir
  <2>1. g' = g /\ ydk' = ydk /\ s'.saved = s.saved
    BY <1>1, <1>5, <1>6, <1>8, <1>10
  <2>2. SavedIsStored'
    BY <2>1 DEF BuilderInv, SavedIsStored
  <2> QED
    BY <1>0, <1>1, <1>2, <1>5, <1>8, <2>1, <2>2 DEF BuilderInv, BuilderType, ListIsThere
<1> QED
  BY <1>9, <1>10

\* A deck selected is the file's.
LEMMA SelectIs ==
    ASSUME BuilderInv, NEW i \in DOMAIN s.list, SelectDeck(i)
    PROVE  BuilderInv'
<1> DEFINE n == s.list[i]
<1>1. n \in DOMAIN ydk /\ n \in 1..Decks /\ LoadYdk(n) = ydk[n] /\ ydk[n] \in AnyDeck
  BY Parts, ElementOfSeq DEF BuilderInv, BuilderType, ListIsThere, LoadYdk
<1>2. /\ s' = [s EXCEPT !.sel = i, !.edit = LoadYdk(n), !.saved = LoadYdk(n)]
      /\ g' = [g EXCEPT !.open = n] /\ UNCHANGED <<ydk, match, conf>>
  BY DEF SelectDeck, Files
<1>3. i \in Nat
  BY Parts DEF BuilderInv
<1> HIDE DEF n
<1>4. s' \in Builder /\ s'.list = s.list /\ s'.saved = ydk[n]
  BY <1>1, <1>2, <1>3 DEF BuilderInv, BuilderType, Builder
<1>5. g' \in [open : 0..Decks, torn : SUBSET (1..Decks)] /\ g'.open = n
  BY <1>1, <1>2 DEF BuilderInv, BuilderType
<1>6. SavedIsStored'
  BY <1>1, <1>2, <1>4, <1>5 DEF SavedIsStored
<1>7. ListIsThere'
  BY <1>2, <1>4 DEF BuilderInv, ListIsThere
<1> QED
  BY <1>2, <1>4, <1>5, <1>6, <1>7 DEF BuilderInv, BuilderType

\* A card put into a section, or taken out of it, leaves a deck.
LEMMA SectionIs ==
    ASSUME NEW d \in AnyDeck, NEW z \in Zone, NEW q \in Seq(Card)
    PROVE  [d EXCEPT ![z] = q] \in AnyDeck
  BY DEF AnyDeck

\* A card moved is taken out and put in.
LEMMA MoveIs ==
    ASSUME BuilderInv, NEW from \in Zone, NEW to \in Zone, NEW i \in DOMAIN s.edit[from],
           NEW j \in 0..Len(s.edit[to]), Move(from, i, to, j)
    PROVE  BuilderInv'
<1> DEFINE c == s.edit[from][i]
           rest == [s.edit EXCEPT ![from] = RemoveAt(s.edit[from], i)]
           at == IF j = 0 THEN Len(rest[to]) + 1 ELSE IF from = to /\ j > i THEN j - 1 ELSE j
           d == [rest EXCEPT ![to] = InsertAt(rest[to], at, c)]
<1>1. s.edit \in AnyDeck /\ s.edit[from] \in Seq(Card) /\ s.edit[to] \in Seq(Card)
  BY Parts DEF BuilderInv, AnyDeck
<1>2. i \in 1..Len(s.edit[from]) /\ Len(s.edit[from]) \in Nat /\ Len(s.edit[to]) \in Nat
      /\ c \in Card
  BY <1>1, ElementOfSeq
<1>3. /\ RemoveAt(s.edit[from], i) \in Seq(Card)
      /\ Len(RemoveAt(s.edit[from], i)) = Len(s.edit[from]) - 1
  BY <1>1, <1>2, RemoveAtIs
<1>4. rest \in AnyDeck /\ rest[to] \in Seq(Card)
      /\ rest[to] = IF from = to THEN RemoveAt(s.edit[from], i) ELSE s.edit[to]
  BY <1>1, <1>3 DEF AnyDeck
<1>5. Edit(d, g)
  BY DEF Move
<1> HIDE DEF rest, c
<1>6. at \in 1..(Len(rest[to]) + 1)
  <2> DEFINE l == Len(rest[to])
             k == Len(s.edit[to])
  <2>1. l \in Nat /\ k \in Nat /\ j \in 0..k /\ i \in Nat /\ i >= 1
    BY <1>2, <1>4
  <2>2. CASE from = to
    <3>1. l = k - 1 /\ i \in 1..k
      BY <1>2, <1>3, <1>4, <2>2
    <3> HIDE DEF l, k
    <3>2. at = IF j = 0 THEN l + 1 ELSE IF j > i THEN j - 1 ELSE j
      BY <2>2 DEF l
    <3> HIDE DEF at
    <3>3. at \in 1..(l + 1)
      BY <2>1, <3>1, <3>2
    <3> QED
      BY <3>3 DEF l
  <2>3. CASE from # to
    <3>1. l = k
      BY <1>4, <2>3
    <3> HIDE DEF l, k
    <3>2. at = IF j = 0 THEN l + 1 ELSE j
      BY <2>3 DEF l
    <3> HIDE DEF at
    <3>3. at \in 1..(l + 1)
      BY <2>1, <3>1, <3>2
    <3> QED
      BY <3>3 DEF l
  <2> QED
    BY <2>2, <2>3
<1> HIDE DEF at
<1>7. InsertAt(rest[to], at, c) \in Seq(Card)
  BY <1>2, <1>4, <1>6, InsertAtIs
<1>8. d \in AnyDeck
  BY <1>4, <1>7, SectionIs
<1> HIDE DEF d
<1> QED
  BY <1>5, <1>8, EditIs

\* A format saved is a format, and so are those read back.
LEMMA SaveFormatIs ==
    ASSUME BuilderInv, NEW n \in 1..Formats, NEW limit \in EditorLimits, SaveFormat(n, limit)
    PROVE  BuilderInv'
<1> DEFINE what == [name |-> n, limit |-> limit]
           lists == LoadBanlists(conf')
           named == {i \in DOMAIN lists : lists[i].name = n}
           k == IF named = {} THEN s.fmt
                ELSE CHOOSE i \in named : \A j \in named : j <= i
<1>1. /\ conf' = Put(conf, FileOf[n], what)
      /\ s' = [s EXCEPT !.lists = lists, !.fmt = k]
      /\ UNCHANGED <<ydk, match, g>>
  BY DEF SaveFormat
<1>2. FileOf[n] \in 1..Formats /\ limit \in [Card -> 0..Copies]
  BY DeckBuilderAssumption
<1>3. what \in AFormat
  BY <1>2 DEF AFormat
<1> HIDE DEF what
<1>4. DOMAIN conf' \subseteq 1..Formats /\ conf' \in [DOMAIN conf' -> AFormat]
  <2>1. FilesOf(conf, 1..Formats, AFormat)
    BY DEF BuilderInv, BuilderType, FilesOf
  <2>2. FilesOf(Put(conf, FileOf[n], what), 1..Formats, AFormat)
    BY <1>2, <1>3, <2>1, PutIs
  <2> QED
    BY <1>1, <2>2 DEF FilesOf
<1>5. lists \in Seq(AFormat)
  BY <1>4, LoadBanlistsIs
<1> HIDE DEF lists
<1>6. named \subseteq 1..Len(lists) /\ Len(lists) \in Nat
  BY <1>5
<1>7. s.fmt \in Nat
  BY Parts DEF BuilderInv
<1> HIDE DEF named, k
<1>8. k \in Nat
  <2>1. CASE named = {}
    BY <1>7, <2>1 DEF k
  <2>2. CASE named # {}
    <3> DEFINE l == Len(lists)
    <3>1. l \in Nat /\ named \subseteq 1..l
      BY <1>6
    <3> HIDE DEF l
    <3>2. \E i \in named : \A j \in named : j <= i
      <4>1. named \in SUBSET (1..l)
        BY <3>1
      <4> QED
        BY <2>2, <3>1, <4>1, Greatest
    <3>3. k \in named
      BY <2>2, <3>2 DEF k
    <3> QED
      BY <3>1, <3>3
  <2> QED
    BY <2>1, <2>2
<1>9. s' \in Builder /\ s'.list = s.list /\ s'.saved = s.saved
  BY <1>1, <1>5, <1>8 DEF BuilderInv, BuilderType, Builder
<1> QED
  BY <1>1, <1>4, <1>9 DEF BuilderInv, BuilderType, ListIsThere, SavedIsStored

\* Every step keeps the invariant.
LEMMA BuilderNextIs == BuilderInv /\ [Next]_vars => BuilderInv'
<1> SUFFICES ASSUME BuilderInv, [Next]_vars PROVE BuilderInv'
  OBVIOUS
<1>a. BuilderType /\ s \in Builder /\ match \in [file : 0..Decks, temp : AnyDeck]
  BY DEF BuilderInv, BuilderType
<1>b. s.edit \in AnyDeck /\ NoCards \in AnyDeck /\ LoadMatch \in AnyDeck
  BY <1>a, Parts
<1>c. \A z \in Zone : s.edit[z] \in Seq(Card) /\ DOMAIN s.edit[z] = 1..Len(s.edit[z])
                      /\ Len(s.edit[z]) \in Nat
  BY <1>b DEF AnyDeck
<1>d. Shared \subseteq AnyDeck
  BY DeckBuilderAssumption DEF AnyDeck
<1>e. ASSUME NEW t \in Builder, s' = RefreshDeckFiles(t, ydk), t.saved = s.saved,
             UNCHANGED <<ydk, match, conf, g>>
      PROVE  BuilderInv'
  <2>1. /\ s' \in Builder /\ s'.saved = t.saved
        /\ \A i \in DOMAIN s'.list : s'.list[i] \in DOMAIN ydk
    BY <1>e, RefreshIs
  <2> QED
    BY <1>e, <2>1 DEF BuilderInv, BuilderType, ListIsThere, SavedIsStored
<1>1. ASSUME NEW pool \in BOOLEAN, OpenBuilder(pool) PROVE BuilderInv'
  <2> DEFINE t == [s EXCEPT !.screen = "builder", !.pool = pool]
  <2>1. t \in Builder /\ t.saved = s.saved
    BY <1>a DEF Builder
  <2>2. s' = RefreshDeckFiles(t, ydk) /\ UNCHANGED <<ydk, match, conf, g>>
    BY <1>1 DEF OpenBuilder, Show, Files
  <2> HIDE DEF t
  <2> QED
    BY <1>e, <2>1, <2>2
<1>2. CASE ExitPool
  <2>1. s' = [s EXCEPT !.pool = FALSE] /\ UNCHANGED <<ydk, match, conf, g>>
    BY <1>2 DEF ExitPool, Show, Files
  <2>2. s' \in Builder /\ s'.list = s.list /\ s'.saved = s.saved
    BY <1>a, <2>1 DEF Builder
  <2> QED
    BY <1>a, <2>1, <2>2, ShowIs
<1>3. CASE Leave \/ LeaveAndDiscard
  <2>1. s' = [s EXCEPT !.screen = "lobby"] /\ UNCHANGED <<ydk, match, conf, g>>
    BY <1>3 DEF Leave, LeaveAndDiscard, Show, Files
  <2>2. s' \in Builder /\ s'.list = s.list /\ s'.saved = s.saved
    BY <1>a, <2>1 DEF Builder
  <2> QED
    BY <1>a, <2>1, <2>2, ShowIs
<1>4. CASE Refresh
  <2>1. s' = RefreshDeckFiles(s, ydk) /\ UNCHANGED <<ydk, match, conf, g>>
    BY <1>4 DEF Refresh, Show, Files
  <2> QED
    BY <1>a, <1>e, <2>1
<1>5. ASSUME NEW i \in DOMAIN s.list, SelectDeck(i) PROVE BuilderInv'
  BY <1>5, SelectIs
<1>6. ASSUME NEW n \in 1..Decks, Save(n) PROVE BuilderInv'
  BY <1>6, SaveIs
<1>7. ASSUME NEW z \in Zone, NEW c \in Card, AddCard(z, c) PROVE BuilderInv'
  <2> DEFINE d == [s.edit EXCEPT ![z] = Append(s.edit[z], c)]
  <2>1. Append(s.edit[z], c) \in Seq(Card)
    BY <1>c, AppendProperties
  <2>2. d \in AnyDeck
    BY <1>b, <2>1, SectionIs
  <2>3. Edit(d, g)
    BY <1>7 DEF AddCard
  <2> HIDE DEF d
  <2> QED
    BY <2>2, <2>3, EditIs
<1>8. ASSUME NEW z \in Zone, NEW c \in Card, NEW at \in DOMAIN s.edit[z], DropCard(z, c, at)
      PROVE  BuilderInv'
  <2> DEFINE d == [s.edit EXCEPT ![z] = InsertAt(s.edit[z], at, c)]
  <2>1. s.edit[z] \in Seq(Card) /\ at \in 1..(Len(s.edit[z]) + 1)
    BY <1>c
  <2>2. InsertAt(s.edit[z], at, c) \in Seq(Card)
    BY <2>1, InsertAtIs
  <2>3. d \in AnyDeck
    BY <1>b, <2>2, SectionIs
  <2>4. Edit(d, g)
    BY <1>8 DEF DropCard
  <2> HIDE DEF d
  <2> QED
    BY <2>3, <2>4, EditIs
<1>9. ASSUME NEW z \in Zone, NEW i \in DOMAIN s.edit[z], RemoveOne(z, i) PROVE BuilderInv'
  <2> DEFINE d == [s.edit EXCEPT ![z] = RemoveAt(s.edit[z], i)]
  <2>1. s.edit[z] \in Seq(Card) /\ i \in 1..Len(s.edit[z])
    BY <1>c
  <2>2. RemoveAt(s.edit[z], i) \in Seq(Card)
    BY <2>1, RemoveAtIs
  <2>3. d \in AnyDeck
    BY <1>b, <2>2, SectionIs
  <2>4. Edit(d, g)
    BY <1>9 DEF RemoveOne
  <2> HIDE DEF d
  <2> QED
    BY <2>3, <2>4, EditIs
<1>10. ASSUME NEW z \in Zone, NEW c \in Card, RemoveEvery(z, c) PROVE BuilderInv'
  <2> DEFINE k == Keep(s.edit[z], Card \ {c})
             d == [s.edit EXCEPT ![z] = k]
  <2>1. s.edit[z] \in Seq(Card)
    BY <1>c
  <2>2. k \in Seq(Card \cap (Card \ {c}))
    BY <2>1, KeepIs
  <2>3. k \in Seq(Card)
    BY <2>2, SeqMonotonic
  <2>4. Edit(d, g)
    BY <1>10 DEF RemoveEvery
  <2> HIDE DEF k
  <2>5. d \in AnyDeck
    BY <1>b, <2>3, SectionIs
  <2> HIDE DEF d
  <2> QED
    BY <2>4, <2>5, EditIs
<1>11. ASSUME NEW from \in Zone, NEW to \in Zone, NEW i \in DOMAIN s.edit[from],
              NEW j \in 0..Len(s.edit[to]), Move(from, i, to, j)
       PROVE  BuilderInv'
  BY <1>11, MoveIs
<1>12. CASE SortDeck
  BY <1>12, <1>b, SortedIs, EditIs DEF SortDeck
<1>13. CASE TidyDeck
  <2>1. Tidied(s.edit, CardLimit) \in AnyDeck
    BY <1>a, <1>b, CardLimitIs, TidiedIs
  <2> QED
    BY <1>13, <2>1, EditIs DEF TidyDeck
<1>14. CASE PasteText
  <2>1. PICK d \in Shared : Edit(FromText(ToText(d)), g)
    BY <1>14 DEF PasteText, Paste
  <2>2. FromText(ToText(d)) = d /\ d \in AnyDeck
    BY <1>d, TextRoundTrip
  <2> QED
    BY <2>1, <2>2, EditIs
<1>15. CASE PasteCode
  <2>1. PICK d \in Shared : Edit(FromYdke(ToYdke(d)), g)
    BY <1>15 DEF PasteCode, Paste
  <2>2. FromYdke(ToYdke(d)) = d /\ d \in AnyDeck
    BY <1>d, ShareRound
  <2> QED
    BY <2>1, <2>2, EditIs
<1>16. ASSUME NEW i \in 0..Len(s.lists), SelectFormat(i) PROVE BuilderInv'
  <2>1. s' = [s EXCEPT !.fmt = i] /\ UNCHANGED <<ydk, match, conf, g>> /\ i \in Nat
    BY <1>16, <1>a DEF SelectFormat, Files, Builder
  <2>2. s' \in Builder /\ s'.list = s.list /\ s'.saved = s.saved
    BY <1>a, <2>1 DEF Builder
  <2> QED
    BY <1>a, <2>1, <2>2, ShowIs
<1>17. ASSUME NEW n \in 1..Formats, NEW limit \in EditorLimits, SaveFormat(n, limit)
       PROVE  BuilderInv'
  BY <1>17, SaveFormatIs
<1>18. ASSUME NEW n \in DOMAIN ydk, StartMatch(n) PROVE BuilderInv'
  <2>1. /\ match' = [file |-> n, temp |-> NoCards]
        /\ s' = [s EXCEPT !.screen = "duel", !.siding = FALSE] /\ UNCHANGED <<ydk, conf, g>>
    BY <1>18 DEF StartMatch
  <2>2. n \in 0..Decks
    BY <1>a DEF BuilderType
  <2>3. match' \in [file : 0..Decks, temp : AnyDeck]
    BY <1>b, <2>1, <2>2
  <2>4. s' \in Builder /\ s'.list = s.list /\ s'.saved = s.saved
    BY <1>a, <2>1 DEF Builder
  <2> QED
    BY <2>1, <2>3, <2>4, ShowIs
<1>19. CASE SideDeck
  <2>1. /\ s' = [s EXCEPT !.screen = "builder", !.siding = TRUE,
                          !.edit = LoadMatch, !.saved = LoadMatch]
        /\ g' = [g EXCEPT !.open = 0] /\ UNCHANGED <<ydk, match, conf>>
    BY <1>19 DEF SideDeck, Files
  <2>2. s' \in Builder /\ s'.list = s.list
    BY <1>a, <1>b, <2>1 DEF Builder
  <2>3. g' \in [open : 0..Decks, torn : SUBSET (1..Decks)] /\ g'.open = 0
    <3>1. g \in [open : 0..Decks, torn : SUBSET (1..Decks)] /\ 0 \in 0..Decks
      BY <1>a, Parts DEF BuilderType
    <3> QED
      BY <2>1, <3>1
  <2> QED
    BY <2>1, <2>2, <2>3 DEF BuilderInv, BuilderType, ListIsThere, SavedIsStored
<1>20. CASE StartNext
  <2>1. PICK kept \in BOOLEAN, started \in BOOLEAN :
          /\ match' = [file |-> 0, temp |-> IF kept THEN s.edit ELSE NoCards]
          /\ s' = [s EXCEPT !.siding = FALSE,
                            !.screen = IF started THEN "duel" ELSE "builder"]
    BY <1>20 DEF StartNext
  <2>2. UNCHANGED <<ydk, conf, g>>
    BY <1>20 DEF StartNext
  <2>3. match' \in [file : 0..Decks, temp : AnyDeck]
    BY <1>a, <1>b, <2>1, Parts
  <2>4. s' \in Builder /\ s'.list = s.list /\ s'.saved = s.saved
    BY <1>a, <2>1 DEF Builder
  <2> QED
    BY <2>2, <2>3, <2>4, ShowIs
<1>21. CASE EndMatch
  <2>1. /\ s' = [s EXCEPT !.screen = "lobby"] /\ match' = [file |-> 0, temp |-> NoCards]
        /\ UNCHANGED <<ydk, conf, g>>
    BY <1>21 DEF EndMatch
  <2>2. match' \in [file : 0..Decks, temp : AnyDeck]
    BY <1>a, <1>b, <2>1, Parts
  <2>3. s' \in Builder /\ s'.list = s.list /\ s'.saved = s.saved
    BY <1>a, <2>1 DEF Builder
  <2> QED
    BY <2>1, <2>2, <2>3, ShowIs
<1>22. CASE UNCHANGED vars
  BY <1>22 DEF vars, BuilderInv, BuilderType, ListIsThere, SavedIsStored
<1> QED
  BY <1>1, <1>2, <1>3, <1>4, <1>5, <1>6, <1>7, <1>8, <1>9, <1>10, <1>11, <1>12, <1>13,
     <1>14, <1>15, <1>16, <1>17, <1>18, <1>19, <1>20, <1>21, <1>22 DEF Next

\* The builder's invariant holds in every run.
LEMMA BuilderRuns == Spec => []BuilderInv
  BY BuilderInitIs, BuilderNextIs, PTL DEF Spec

-----------------------------------------------------------------------------
(* The builder's theorems.                                                  *)

\* SavedMeansStored, for every number of files, every card pool and every
\* deck: a deck that shows no unsaved changes is what its file holds, unless
\* overwriting that file failed (UI::drawDeckBuilder, UI::saveYdk).
THEOREM SavedStaysStored == Spec => []SavedMeansStored
<1>1. BuilderInv => SavedMeansStored
  BY DEF BuilderInv, SavedIsStored, SavedMeansStored, Dirty
<1> QED
  BY <1>1, BuilderRuns, PTL

\* TidyMakesLegal, for every deck, format and limit on the sections
\* (UI::tidyEditDeck, UI::deckLegality).
THEOREM TidyAlwaysMakesLegal == Spec => []TidyMakesLegal
<1>1. BuilderInv => TidyMakesLegal
  <2> SUFFICES ASSUME BuilderInv PROVE TidyMakesLegal
    OBVIOUS
  <2>1. s.edit \in AnyDeck /\ CardLimit \in Limits
    BY Parts, CardLimitIs DEF BuilderInv
  <2> QED
    BY <2>1, TidyIs DEF TidyMakesLegal
<1> QED
  BY <1>1, BuilderRuns, PTL

\* ShareRoundTrip, for every deck and every passcode of 32 bits: .ydk text and
\* base64 codes lose nothing (UI::deckToYdke, UI::deckFromYdke, b64encode,
\* b64decode, UI::deckFromYdkText).
THEOREM SharingLosesNothing == Spec => []ShareRoundTrip
<1>1. BuilderInv => ShareRoundTrip
  BY Parts, TextRoundTrip, ShareRound DEF BuilderInv, ShareRoundTrip
<1> QED
  BY <1>1, BuilderRuns, PTL

=============================================================================
