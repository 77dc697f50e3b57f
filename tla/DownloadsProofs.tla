--------------------------- MODULE DownloadsProofs ---------------------------
(***************************************************************************)
(* Proofs about Downloads: a card's art is fetched once at a time and the  *)
(* counter is right, no file is read that a worker is writing, and the     *)
(* installer that is launched is whole and of a newer release, for any     *)
(* number of cards, workers, settings and tags.                            *)
(***************************************************************************)
EXTENDS Downloads, FiniteSetTheorems, TLAPS

-----------------------------------------------------------------------------
(* The state maps, the queue and the workers.                              *)
Working == {"fetching", "copying", "fetched"}
Exited  == [at |-> "exited"]
Jobs == {Idle, Exited}
          \cup [at : Working \cup {"counting"}, code : Code, ok : BOOLEAN]

ArtType ==
    /\ st \in [Code -> {"None", "InFlight", "Done", "Failed"}]
    /\ queue \in Seq(Code) /\ count \in Int
    /\ job \in [Worker -> Jobs]
    /\ file \in [Code -> {"none", "small", "torn", "full", "bad"}]
    /\ tex \in [Code -> {"none", "unknown", "small", "torn", "full", "bad"}]
    /\ upgrading \subseteq Code

\* Worker w has code c, from the queue to the setting of its state.
Has(w, c) == job[w].at \in Working /\ job[w].code = c
InFlight  == {c \in Code : st[c] = "InFlight"}
Counting  == {w \in Worker : job[w].at = "counting"}
Adding    == IF ui = "adding" THEN 1 ELSE 0

\* A code in flight is in one place of the queue or at one worker.
QueuedOnce == \A i, j \in DOMAIN queue : queue[i] = queue[j] => i = j
HadOnce == \A c \in Code : \A v, w \in Worker : Has(v, c) /\ Has(w, c) => v = w
Either == \A i \in DOMAIN queue : \A w \in Worker : ~Has(w, queue[i])
Somebody == \A c \in Code : st[c] = "InFlight" <=> \/ \E i \in DOMAIN queue : queue[i] = c
                                                 \/ \E w \in Worker : Has(w, c)
\* The counter.
Counted == count + Adding = Cardinality(InFlight) + Cardinality(Counting)
\* A texture is upgraded only when there is one to upgrade, until the end.
UpgradesSome == ui # "gone" => \A c \in upgrading : tex[c] # "none"

ArtInv == /\ ArtType /\ QueuedOnce /\ HadOnce /\ Either /\ Somebody
          /\ Counted /\ UpgradesSome

-----------------------------------------------------------------------------
(* What a worker's entry can be.                                           *)
LEMMA JobIs ==
    ASSUME NEW j \in Jobs
    PROVE  /\ j.at = "idle" <=> j = Idle
           /\ j.at = "exited" <=> j = Exited
           /\ j.at \in {"idle", "exited"} \cup Working \cup {"counting"}
           /\ j.at \in Working \cup {"counting"} => j.code \in Code
BY DEF Jobs, Idle, Exited, Working

\* The jobs a worker is given.
LEMMA JobType ==
    /\ Idle \in Jobs /\ Exited \in Jobs
    /\ Idle.at = "idle" /\ Exited.at = "exited"
    /\ \A c \in Code, at \in Working \cup {"counting"}, ok \in BOOLEAN :
         /\ Doing(c, at, ok) \in Jobs
         /\ Doing(c, at, ok).at = at /\ Doing(c, at, ok).code = c
         /\ Doing(c, at, ok).ok = ok
BY DEF Jobs, Idle, Exited, Working, Doing

\* The counter is over finite sets.
LEMMA AllFinite ==
    /\ IsFiniteSet(InFlight) /\ IsFiniteSet(Counting)
    /\ Cardinality(InFlight) \in Nat /\ Cardinality(Counting) \in Nat
<1>1. InFlight \in SUBSET Code /\ Counting \in SUBSET Worker
  BY DEF InFlight, Counting
<1>2. IsFiniteSet(InFlight) /\ IsFiniteSet(Counting)
  BY <1>1, CardArtAssumption, FS_Subset
<1>. QED  BY <1>2, FS_CardinalityType

-----------------------------------------------------------------------------
(* ArtInv is inductive.                                                    *)

\* Steps that leave the state map, the queue and the workers alone.
LEMMA ArtQuiet ==
    ASSUME ArtInv, UNCHANGED <<st, queue, job, count>>, Adding' = Adding,
           ArtType', UpgradesSome'
    PROVE  ArtInv'
<1>1. InFlight' = InFlight /\ Counting' = Counting
  BY DEF InFlight, Counting
<1>2. \A w, c : Has(w, c)' = Has(w, c)
  BY DEF Has
<1>. QED  BY <1>1, <1>2 DEF ArtInv, QueuedOnce, HadOnce, Either, Somebody, Counted

\* ImageFetcher::request.
LEMMA ArtRequest ==
    ASSUME ArtInv, NEW c \in Code, ui = "free", Request(c), UNCHANGED <<job, count, file>>,
           tex' \in [Code -> {"none", "unknown", "small", "torn", "full", "bad"}],
           upgrading' \subseteq Code, UpgradesSome'
    PROVE  ArtInv'
<1>1. CASE ~Accepts(c)
  <2>1. UNCHANGED <<st, queue, ui>>
    BY <1>1 DEF Request
  <2>. QED  BY <2>1, ArtQuiet DEF ArtInv, ArtType, Adding
<1>2. CASE Accepts(c)
  <2>1. /\ st' = [st EXCEPT ![c] = "InFlight"] /\ queue' = Append(queue, c)
        /\ ui' = "adding" /\ st[c] = "None" /\ queue \in Seq(Code)
    BY <1>2 DEF Request, Accepts, ArtInv, ArtType
  <2>2. \A d \in Code : st'[d] = IF d = c THEN "InFlight" ELSE st[d]
    BY <2>1 DEF ArtInv, ArtType
  <2>3. /\ \A i \in DOMAIN queue : i \in DOMAIN queue' /\ queue'[i] = queue[i] /\ queue[i] \in Code
        /\ \A i \in DOMAIN queue' : (i \in DOMAIN queue /\ queue'[i] = queue[i])
                                    \/ (i = Len(queue) + 1 /\ queue'[i] = c)
        /\ Len(queue) + 1 \in DOMAIN queue' /\ queue'[Len(queue) + 1] = c
    BY <2>1
  <2>4. /\ \A i \in DOMAIN queue : queue[i] # c
        /\ \A w \in Worker : ~Has(w, c)
    BY <2>1 DEF ArtInv, Somebody
  <2>5. \A w, d : Has(w, d)' = Has(w, d)
    BY DEF Has
  <2>6. ArtType'
    BY <2>1 DEF ArtInv, ArtType
  <2>7. QueuedOnce'
    BY <2>3, <2>4 DEF ArtInv, QueuedOnce
  <2>8. HadOnce'
    BY <2>5 DEF ArtInv, HadOnce
  <2>9. Either'
    BY <2>3, <2>4, <2>5 DEF ArtInv, Either
  <2>10. Somebody'
    BY <2>2, <2>3, <2>5 DEF ArtInv, Somebody
  <2>11. Counted'
    <3>1. InFlight' = InFlight \cup {c} /\ c \notin InFlight
      BY <2>1, <2>2 DEF InFlight
    <3>2. Counting' = Counting /\ Adding = 0 /\ Adding' = 1
      BY <2>1 DEF Counting, Adding
    <3>3. Cardinality(InFlight') = Cardinality(InFlight) + 1
      BY <3>1, AllFinite, FS_AddElement
    <3>. QED  BY <3>2, <3>3, AllFinite DEF ArtInv, ArtType, Counted
  <2>. QED  BY <2>6, <2>7, <2>8, <2>9, <2>10, <2>11 DEF ArtInv
<1>. QED  BY <1>1, <1>2

\* Renderer::getCardTexture.
LEMMA ArtView ==
    ASSUME ArtInv, NEW c \in Code, View(c)
    PROVE  ArtInv'
<1>1. ui = "free" /\ UNCHANGED <<count, job, file>> /\ ArtType
  BY DEF View, ArtInv
<1>2. /\ tex' = tex \/ \E what \in {"unknown", "small", "torn", "full", "bad"} :
                          tex' = [tex EXCEPT ![c] = what]
      /\ \/ UNCHANGED upgrading
         \/ tex'[c] # "none" /\ upgrading' \subseteq upgrading \cup {c}
  <2>1. CASE /\ file[c] \in {"none", "torn", "bad"} /\ Missing(c)
             /\ upgrading' = IF Upgraded(c) THEN upgrading \ {c} ELSE upgrading
    <3>1. CASE Upgraded(c)
      <4>1. tex' = [tex EXCEPT ![c] = "unknown"]
        BY <2>1, <3>1 DEF Missing, Cache, Upgraded
      <4>2. tex'[c] = "unknown" /\ upgrading' \subseteq upgrading \cup {c}
        BY <1>1, <2>1, <3>1, <4>1 DEF ArtType
      <4>. QED  BY <4>1, <4>2
    <3>2. CASE ~Upgraded(c)
      BY <2>1, <3>2 DEF Missing, Cache
    <3>. QED  BY <3>1, <3>2
  <2>2. CASE /\ file[c] # "none" /\ Cache(c, file[c])
             /\ upgrading' \subseteq upgrading \cup {c}
    <3>1. file[c] \in {"small", "torn", "full", "bad"}
      BY <1>1, <2>2 DEF ArtType
    <3>2. tex' = [tex EXCEPT ![c] = file[c]] /\ upgrading' \subseteq upgrading \cup {c}
      BY <2>2 DEF Cache
    <3>3. tex'[c] = file[c]
      BY <1>1, <3>2 DEF ArtType
    <3>. QED  BY <3>1, <3>2, <3>3
  <2>. QED  BY <2>1, <2>2 DEF View
<1>3. /\ tex' \in [Code -> {"none", "unknown", "small", "torn", "full", "bad"}]
      /\ \A d \in Code : tex[d] # "none" => tex'[d] # "none"
  BY <1>1, <1>2 DEF ArtType
<1>4. UpgradesSome' /\ upgrading' \subseteq Code
  BY <1>1, <1>2, <1>3 DEF ArtInv, ArtType, UpgradesSome
<1>5. Request(c) \/ UNCHANGED <<st, queue, ui>>
  BY DEF View, Missing
<1>6. CASE Request(c)
  BY <1>1, <1>3, <1>4, <1>6, ArtRequest
<1>7. CASE UNCHANGED <<st, queue, ui>>
  BY <1>1, <1>3, <1>4, <1>7, ArtQuiet DEF ArtType, Adding
<1>. QED  BY <1>5, <1>6, <1>7

\* Renderer::prefetchCard.
LEMMA ArtPrefetch ==
    ASSUME ArtInv, NEW c \in Code, Prefetch(c)
    PROVE  ArtInv'
<1>1. ui = "free" /\ Request(c) /\ UNCHANGED <<count, job, file, tex, upgrading>>
  BY DEF Prefetch
<1>2. UpgradesSome'
  BY <1>1 DEF ArtInv, UpgradesSome
<1>. QED  BY <1>1, <1>2, ArtRequest DEF ArtInv, ArtType

\* The rest of request; the settings; the end.
LEMMA ArtUi ==
    ASSUME ArtInv, Count \/ SetImageDownload \/ SetMirrors \/ Stop \/ Joined
    PROVE  ArtInv'
<1>1. CASE Count
  <2>1. /\ UNCHANGED <<st, queue, job, file, tex, upgrading>>
        /\ ui = "adding" /\ ui' = "free" /\ count' = count + 1
    BY <1>1 DEF Count
  <2>2. ArtType' /\ UpgradesSome'
    BY <2>1 DEF ArtInv, ArtType, UpgradesSome
  <2>3. InFlight' = InFlight /\ Counting' = Counting
    BY <2>1 DEF InFlight, Counting
  <2>4. Counted'
    <3>1. count \in Int /\ Adding = 1 /\ Adding' = 0
      BY <2>1 DEF Adding, ArtInv, ArtType
    <3>. QED  BY <2>1, <2>3, <3>1 DEF ArtInv, Counted
  <2>5. \A w, c : Has(w, c)' = Has(w, c)
    BY <2>1 DEF Has
  <2>. QED  BY <2>1, <2>2, <2>4, <2>5 DEF ArtInv, QueuedOnce, HadOnce, Either, Somebody
<1>2. CASE SetImageDownload \/ Stop
  BY <1>2, ArtQuiet DEF SetImageDownload, Stop, ArtInv, ArtType, UpgradesSome, Adding
<1>3. CASE Joined
  <2>1. /\ UNCHANGED <<st, queue, job, count, file, upgrading>> /\ Adding' = Adding
        /\ ui' = "gone" /\ tex' = [c \in Code |-> "none"]
    BY <1>3 DEF Joined, Adding
  <2>2. ArtType' /\ UpgradesSome'
    BY <2>1 DEF ArtInv, ArtType, UpgradesSome
  <2>. QED  BY <2>1, <2>2, ArtQuiet
<1>4. CASE SetMirrors
  <2>1. /\ UNCHANGED <<queue, job, count, file, tex, upgrading, ui>>
        /\ st' = [c \in Code |-> IF c \in Rearmed THEN "None" ELSE st[c]]
    BY <1>4 DEF SetMirrors
  <2>2. ArtType' /\ UpgradesSome'
    BY <2>1 DEF ArtInv, ArtType, UpgradesSome
  <2>3. \A c \in Code : st'[c] = "InFlight" <=> st[c] = "InFlight"
    BY <2>1 DEF Rearmed
  <2>4. InFlight' = InFlight /\ Counting' = Counting /\ Adding' = Adding
    BY <2>1, <2>3 DEF InFlight, Counting, Adding
  <2>5. \A w, c : Has(w, c)' = Has(w, c)
    BY <2>1 DEF Has
  <2>. QED
    BY <2>1, <2>2, <2>3, <2>4, <2>5
       DEF ArtInv, QueuedOnce, HadOnce, Either, Somebody, Counted
<1>. QED  BY <1>1, <1>2, <1>3, <1>4

-----------------------------------------------------------------------------
(* The workers.                                                            *)

\* workerLoop: a job leaves the queue for the worker.
LEMMA ArtTake ==
    ASSUME ArtInv, NEW w \in Worker, Take(w)
    PROVE  ArtInv'
<1>. DEFINE c == Head(queue)
            j == Doing(c, "fetching", FALSE)
<1>1. /\ job[w] = Idle /\ queue # <<>> /\ queue \in Seq(Code) /\ c \in Code
      /\ job' = [job EXCEPT ![w] = j] /\ queue' = Tail(queue)
      /\ UNCHANGED <<st, count, file, tex, upgrading, ui>>
  BY DEF Take, WorkerSets, ArtInv, ArtType
<1>2. job[w].at = "idle" /\ j.at = "fetching" /\ j.code = c /\ j \in Jobs
  BY <1>1, JobType DEF Working
<1>3. \A v \in Worker : job'[v] = IF v = w THEN j ELSE job[v]
  BY <1>1 DEF ArtInv, ArtType
<1>. HIDE DEF j
<1>4. ArtType' /\ UpgradesSome'
  BY <1>1, <1>2, <1>3 DEF ArtInv, ArtType, UpgradesSome
<1>5. \A v \in Worker : \A d : Has(v, d)' <=> (Has(v, d) \/ (v = w /\ d = c))
  BY <1>2, <1>3 DEF Has, Working
<1>6. \A i \in DOMAIN queue' : /\ i \in Nat /\ i + 1 \in DOMAIN queue /\ i + 1 # 1
                               /\ queue'[i] = queue[i + 1]
  BY <1>1
<1>7. /\ 1 \in DOMAIN queue /\ queue[1] = c
      /\ \A i \in DOMAIN queue : i = 1 \/ (i - 1 \in DOMAIN queue' /\ queue'[i - 1] = queue[i])
  BY <1>1
<1>. HIDE DEF c
<1>8. QueuedOnce'
  BY <1>6 DEF ArtInv, QueuedOnce
<1>9. HadOnce'
  BY <1>5, <1>7 DEF ArtInv, HadOnce, Either
<1>10. Either'
  BY <1>5, <1>6, <1>7 DEF ArtInv, Either, QueuedOnce
<1>11. Somebody'
  <2>1. ASSUME NEW d \in Code
        PROVE  \/ \E i \in DOMAIN queue' : queue'[i] = d
               \/ \E v \in Worker : Has(v, d)'
               <=> \/ \E i \in DOMAIN queue : queue[i] = d
                   \/ \E v \in Worker : Has(v, d)
    <3>1. (\E v \in Worker : Has(v, d)') <=> (\E v \in Worker : Has(v, d)) \/ d = c
      BY <1>5
    <3>2. (\E i \in DOMAIN queue : queue[i] = d)
            <=> d = c \/ \E i \in DOMAIN queue' : queue'[i] = d
      BY <1>6, <1>7
    <3>. QED  BY <3>1, <3>2
  <2>. QED  BY <1>1, <2>1 DEF ArtInv, Somebody
<1>12. Counted'
  <2>1. InFlight' = InFlight /\ Counting' = Counting /\ Adding' = Adding
    BY <1>1, <1>2, <1>3 DEF InFlight, Counting, Adding
  <2>. QED  BY <1>1, <2>1 DEF ArtInv, Counted
<1>. QED  BY <1>4, <1>8, <1>9, <1>10, <1>11, <1>12 DEF ArtInv

\* Steps of a worker that keep what it has.
LEMMA ArtWorks ==
    ASSUME ArtInv, NEW w \in Worker, NEW j \in Jobs, job' = [job EXCEPT ![w] = j],
           \/ job[w].at \in Working /\ j.at \in Working /\ j.code = job[w].code
           \/ job[w].at = "idle" /\ j.at = "exited",
           UNCHANGED <<st, queue, count, tex, upgrading, ui>>,
           file' \in [Code -> {"none", "small", "torn", "full", "bad"}]
    PROVE  ArtInv'
<1>1. \A v \in Worker : job'[v] = IF v = w THEN j ELSE job[v]
  BY DEF ArtInv, ArtType
<1>2. ArtType' /\ UpgradesSome'
  BY <1>1 DEF ArtInv, ArtType, UpgradesSome
<1>3. \A v \in Worker : \A d : Has(v, d)' <=> Has(v, d)
  BY <1>1 DEF Has, Working
<1>4. InFlight' = InFlight /\ Counting' = Counting /\ Adding' = Adding
  BY <1>1 DEF InFlight, Counting, Adding, Working
<1>. QED  BY <1>2, <1>3, <1>4 DEF ArtInv, QueuedOnce, HadOnce, Either, Somebody, Counted

\* The state is set: the code is in flight no more, and is yet to be counted.
LEMMA ArtSet ==
    ASSUME ArtInv, NEW w \in Worker, SetState(w)
    PROVE  ArtInv'
<1>0. job[w].at = "fetched" /\ job[w] \in Jobs
  BY DEF SetState, ArtInv, ArtType
<1>. PICK c \in Code : c = job[w].code
  BY <1>0, JobIs DEF Working
<1>. DEFINE s == IF job[w].ok THEN "Done" ELSE "Failed"
            j == [job[w] EXCEPT !.at = "counting"]
<1>1. /\ st' = [st EXCEPT ![c] = s] /\ job' = [job EXCEPT ![w] = j]
      /\ UNCHANGED <<queue, count, file, tex, upgrading, ui>>
  BY DEF SetState, WorkerSets
<1>2. Has(w, c) /\ s \in {"Done", "Failed"}
  BY <1>0 DEF Has, Working
<1>3. j \in Jobs /\ j.at = "counting"
  BY <1>0 DEF Jobs, Idle, Exited, Working
<1>4. /\ \A v \in Worker : job'[v] = IF v = w THEN j ELSE job[v]
      /\ \A d \in Code : st'[d] = IF d = c THEN s ELSE st[d]
  BY <1>1 DEF ArtInv, ArtType
<1>5. ArtType' /\ UpgradesSome'
  BY <1>1, <1>2, <1>3 DEF ArtInv, ArtType, UpgradesSome
<1>. HIDE DEF j, s
<1>6. \A v \in Worker : \A d : Has(v, d)' <=> (Has(v, d) /\ v # w)
  BY <1>0, <1>3, <1>4 DEF Has, Working
<1>7. \A d : Has(w, d) <=> d = c
  BY <1>2 DEF Has
<1>8. HadOnce' /\ Either'
  BY <1>1, <1>6 DEF ArtInv, HadOnce, Either
<1>9. QueuedOnce'
  BY <1>1 DEF ArtInv, QueuedOnce
<1>10. Somebody'
  <2>1. ASSUME NEW d \in Code, d # c
        PROVE  (\E v \in Worker : Has(v, d)') <=> (\E v \in Worker : Has(v, d))
    BY <1>6, <1>7, <2>1
  <2>2. ~(\E v \in Worker : Has(v, c)') /\ ~(\E i \in DOMAIN queue : queue[i] = c)
    BY <1>2, <1>6 DEF ArtInv, HadOnce, Either
  <2>. QED  BY <1>1, <1>2, <1>4, <2>1, <2>2 DEF ArtInv, Somebody
<1>11. Counted'
  <2>1. c \in InFlight /\ InFlight' = InFlight \ {c}
    <3>1. st[c] = "InFlight"
      BY <1>2 DEF ArtInv, Somebody
    <3>. QED  BY <1>2, <1>4, <3>1 DEF InFlight
  <2>2. w \notin Counting /\ Counting' = Counting \cup {w} /\ Adding' = Adding
    BY <1>0, <1>1, <1>3, <1>4 DEF Counting, Adding
  <2>3. Cardinality(InFlight') = Cardinality(InFlight) - 1
    BY <2>1, AllFinite, FS_RemoveElement
  <2>4. Cardinality(Counting') = Cardinality(Counting) + 1
    BY <2>2, AllFinite, FS_AddElement
  <2>. QED  BY <1>1, <2>2, <2>3, <2>4, AllFinite DEF ArtInv, Counted
<1>. QED  BY <1>5, <1>8, <1>9, <1>10, <1>11 DEF ArtInv

\* And the worker counts it.
LEMMA ArtCountDown ==
    ASSUME ArtInv, NEW w \in Worker, CountDown(w)
    PROVE  ArtInv'
<1>1. /\ job[w].at = "counting" /\ count' = count - 1
      /\ job' = [job EXCEPT ![w] = Idle]
      /\ UNCHANGED <<st, queue, file, tex, upgrading, ui>>
  BY DEF CountDown, WorkerSets
<1>2. \A v \in Worker : job'[v] = IF v = w THEN Idle ELSE job[v]
  BY <1>1 DEF ArtInv, ArtType
<1>3. ArtType' /\ UpgradesSome'
  BY <1>1, JobType DEF ArtInv, ArtType, UpgradesSome
<1>4. \A v \in Worker : \A d : Has(v, d)' <=> Has(v, d)
  BY <1>1, <1>2, JobType DEF Has, Working
<1>5. Counted'
  <2>1. /\ w \in Counting /\ Counting' = Counting \ {w}
        /\ InFlight' = InFlight /\ Adding' = Adding
    BY <1>1, <1>2, JobType DEF Counting, InFlight, Adding
  <2>2. Cardinality(Counting') = Cardinality(Counting) - 1
    BY <2>1, AllFinite, FS_RemoveElement
  <2>3. count \in Int /\ Adding \in Int
    BY DEF ArtInv, ArtType, Adding
  <2>. QED  BY <1>1, <2>1, <2>2, <2>3, AllFinite DEF ArtInv, Counted
<1>. QED  BY <1>1, <1>3, <1>4, <1>5 DEF ArtInv, QueuedOnce, HadOnce, Either, Somebody

\* Every step of a worker.
LEMMA ArtWorker ==
    ASSUME ArtInv, NEW w \in Worker, WorkerStep(w)
    PROVE  ArtInv'
<1>0. job[w] \in Jobs
  BY DEF ArtInv, ArtType
<1>1. CASE Exit(w)
  <2>1. /\ job[w].at = "idle" /\ job' = [job EXCEPT ![w] = Exited]
        /\ UNCHANGED <<st, queue, count, file, tex, upgrading, ui>>
    BY <1>1, JobType DEF Exit, WorkerSets, Exited
  <2>. QED  BY <2>1, JobType, ArtWorks DEF ArtInv, ArtType
<1>2. CASE Fetch(w) \/ Copied(w)
  <2>. DEFINE c == job[w].code
  <2>1. job[w].at \in {"fetching", "copying"}
    BY <1>2 DEF Fetch, Copied
  <2>2. c \in Code
    BY <1>0, <2>1, JobIs DEF Working
  <2>3. PICK at \in {"fetched", "copying"}, ok \in BOOLEAN :
          job' = [job EXCEPT ![w] = Doing(c, at, ok)]
    BY <1>2 DEF Fetch, Copied, WorkerSets
  <2>4. /\ UNCHANGED <<st, queue, count, tex, upgrading, ui>>
        /\ UNCHANGED file \/ \E f \in {"torn", "full", "bad"} : file' = [file EXCEPT ![c] = f]
    BY <1>2 DEF Fetch, Copied, Served
  <2>5. file' \in [Code -> {"none", "small", "torn", "full", "bad"}]
    BY <2>4 DEF ArtInv, ArtType
  <2>. DEFINE j == Doing(c, at, ok)
  <2>6. j \in Jobs /\ j.at \in Working /\ j.code = c
    BY <2>2, JobType DEF Working
  <2>7. job' = [job EXCEPT ![w] = j] /\ job[w].at \in Working
    BY <2>1, <2>3 DEF Working
  <2>. HIDE DEF j
  <2>. QED  BY <2>4, <2>5, <2>6, <2>7, ArtWorks
<1>. QED
  BY <1>1, <1>2, ArtTake, ArtSet, ArtCountDown DEF WorkerStep

\* No art has been asked for at the start.
LEMMA ArtStarts ==
    ASSUME ArtInit PROVE ArtInv
<1>1. ArtType
  BY JobType, CardArtAssumption DEF ArtInit, ArtType
<1>2. InFlight = {} /\ Counting = {} /\ Adding = 0 /\ count = 0
  BY JobType DEF ArtInit, InFlight, Counting, Adding
<1>3. Counted
  BY <1>2, FS_EmptySet DEF Counted
<1>4. \A w \in Worker : \A c : ~Has(w, c)
  BY JobType DEF ArtInit, Has, Working
<1>. QED
  BY <1>1, <1>3, <1>4 DEF ArtInit, ArtInv, QueuedOnce, HadOnce, Either, Somebody,
     UpgradesSome

\* Every step of the downloads.
LEMMA ArtStep ==
    ASSUME ArtInv, [Next]_vars
    PROVE  ArtInv'
<1>1. CASE UNCHANGED artVars
  BY <1>1, ArtQuiet DEF artVars, ArtInv, ArtType, UpgradesSome, Adding
<1>2. CASE \E c \in Code : View(c) \/ Prefetch(c)
  BY <1>2, ArtView, ArtPrefetch
<1>3. CASE Count \/ SetImageDownload \/ SetMirrors \/ Stop \/ Joined
  BY <1>3, ArtUi
<1>4. CASE \E w \in Worker : ArtThread(w)
  BY <1>4, ArtWorker DEF ArtThread
<1>. QED
  BY <1>1, <1>2, <1>3, <1>4 DEF Next, Frame, CloseWindow, Shutdown, UpdateThreads, vars

\* The inductive invariant of the card art holds.
LEMMA ArtCorrect == Spec => []ArtInv
<1>1. Init => ArtInv
  BY ArtStarts DEF Init
<1>2. ArtInv /\ [Next]_vars => ArtInv'
  BY ArtStep
<1>. QED  BY <1>1, <1>2, PTL DEF Spec

\* A code in flight is in the queue once or at one worker, never at two, who
\* would write the same .part file; and the counter the lobby shows is the
\* number of codes in flight, but for what is between the lock and its counting
\* (ImageFetcher::request, workerLoop).
THEOREM FetchedOnce == Spec => []FetchedOnceAndCounted
<1>1. ArtInv => FetchedOnceAndCounted
  <2>. SUFFICES ASSUME ArtInv PROVE FetchedOnceAndCounted
    OBVIOUS
  <2>1. \A c \in Code, w \in Worker : w \in Fetches(c) <=> Has(w, c)
    <3>1. \A w \in Worker : job[w].at \in {"idle", "exited"} \cup Working \cup {"counting"}
      BY JobIs DEF ArtInv, ArtType
    <3>. QED  BY <3>1 DEF Fetches, Busy, Has, Working
  <2>2. ASSUME NEW c \in Code
        PROVE  Cardinality({i \in DOMAIN queue : queue[i] = c}) + Cardinality(Fetches(c))
                 = IF st[c] = "InFlight" THEN 1 ELSE 0
    <3>. DEFINE Q == {i \in DOMAIN queue : queue[i] = c}
                F == Fetches(c)
    <3>1. F \subseteq Worker
      BY DEF Fetches
    <3>2. CASE \E i \in DOMAIN queue : queue[i] = c
      <4>1. PICK i \in DOMAIN queue : queue[i] = c
        BY <3>2
      <4>2. Q = {i}
        BY <4>1 DEF ArtInv, QueuedOnce
      <4>3. F = {}
        BY <2>1, <3>1, <4>1 DEF ArtInv, Either
      <4>4. st[c] = "InFlight"
        BY <4>1 DEF ArtInv, Somebody
      <4>5. Cardinality(Q) = 1 /\ Cardinality(F) = 0
        BY <4>2, <4>3, FS_Singleton, FS_EmptySet
      <4>. QED  BY <4>4, <4>5
    <3>3. CASE \E w \in Worker : Has(w, c)
      <4>1. PICK w \in Worker : Has(w, c)
        BY <3>3
      <4>2. F = {w}
        BY <2>1, <3>1, <4>1 DEF ArtInv, HadOnce
      <4>3. Q = {}
        BY <4>1 DEF ArtInv, Either
      <4>4. st[c] = "InFlight"
        BY <4>1 DEF ArtInv, Somebody
      <4>5. Cardinality(Q) = 0 /\ Cardinality(F) = 1
        BY <4>2, <4>3, FS_Singleton, FS_EmptySet
      <4>. QED  BY <4>4, <4>5
    <3>4. CASE /\ ~(\E i \in DOMAIN queue : queue[i] = c)
               /\ ~(\E w \in Worker : Has(w, c))
      <4>1. Q = {} /\ F = {} /\ st[c] # "InFlight"
        BY <2>1, <3>1, <3>4 DEF ArtInv, Somebody
      <4>. QED  BY <4>1, FS_EmptySet
    <3>. QED  BY <3>2, <3>3, <3>4
  <2>3. count + (IF ui = "adding" THEN 1 ELSE 0)
          = Cardinality({c \in Code : st[c] = "InFlight"})
            + Cardinality({w \in Worker : job[w].at = "counting"})
    BY DEF ArtInv, Counted, Adding, InFlight, Counting
  <2>. QED  BY <2>2, <2>3 DEF FetchedOnceAndCounted
<1>. QED  BY <1>1, ArtCorrect, PTL

\* What the texture of a card that is being copied over does in a step.
NotRead == \A c \in Code : on /\ (\E w \in Fetches(c) : job[w].at = "copying")
                             => tex'[c] \in {tex[c], "none"}

\* No step reads the file of a card that a worker is copying over.
LEMMA NotReadStep ==
    ASSUME ArtInv, [Next]_vars
    PROVE  NotRead
<1>. SUFFICES ASSUME NEW c \in Code, on, NEW w \in Fetches(c), job[w].at = "copying"
              PROVE  tex'[c] \in {tex[c], "none"}
  BY DEF NotRead
<1>1. st[c] = "InFlight"
  <2>1. w \in Worker /\ Has(w, c)
    BY DEF Fetches, Has, Working
  <2>. QED  BY <2>1 DEF ArtInv, Somebody
<1>2. CASE \E d \in Code : View(d)
  <2>1. PICK d \in Code : View(d)
    BY <1>2
  <2>2. d # c
    \* It waits: in flight and not being upgraded; or it has its stale texture.
    <3>1. ~View(c)
      BY <1>1 DEF View, Upgraded, Waits, ArtInv, UpgradesSome
    <3>. QED  BY <2>1, <3>1
  <2>3. tex' = tex \/ \E what : tex' = [tex EXCEPT ![d] = what]
    BY <2>1 DEF View, Missing, Cache
  <2>. QED  BY <2>2, <2>3 DEF ArtInv, ArtType
<1>3. CASE Joined
  BY <1>3 DEF Joined
<1>4. CASE ~(\E d \in Code : View(d)) /\ ~Joined
  <2>1. UNCHANGED tex
    BY <1>4 DEF Next, Frame, CloseWindow, Shutdown, UpdateThreads, ArtThread, vars, artVars,
       Prefetch, Count, SetImageDownload, SetMirrors, Stop, WorkerStep, Take, Exit, Fetch,
       Copied, SetState, CountDown
  <2>. QED  BY <2>1
<1>. QED  BY <1>2, <1>3, <1>4

\* "A half-written image is never observed by the renderer's loadTexture"
\* (ImageFetcher.cpp:232), not even when the rename turns into a copy over the
\* file, while downloads are on (Renderer::getCardTexture).
THEOREM NotReadWhileWritten == Spec => NeverReadsWhileWritten
<1>1. ArtInv /\ [Next]_vars => [NotRead]_artVars
  BY NotReadStep
<1>2. Spec => [][NotRead]_artVars
  BY <1>1, ArtCorrect, PTL DEF Spec
<1>. QED  BY <1>2 DEF NeverReadsWhileWritten, NotRead

-----------------------------------------------------------------------------
(* The installer.                                                          *)

\* An offered release is above this one once the check is over; there is a .part
\* file only while the download runs, and an installer of this session once it is
\* ready.
SetupInv ==
    /\ latest # NoRelease => /\ check = "finished"
                             /\ IsNewer(ParseVer(latest), ParseVer(Current))
    /\ part \in {"none", "whole", "cut"}
    /\ part # "none" => download = "Running"
    /\ download = "Ready" => setup \in {"whole", "cut"}
    /\ launched # "none" => launched \in {"whole", "cut"} /\ latest # NoRelease

\* The first number that differs decides the order of releases.
LEMMA FirstDecides ==
    ASSUME NEW a, NEW b, IsNewer(a, b)
    PROVE  Above(a, b)
<1>1. PICK i \in 1..3 : a[i] > b[i] /\ \A j \in 1..(i - 1) : a[j] = b[j]
  BY DEF IsNewer
<1>2. CASE i = 1
  BY <1>1, <1>2 DEF Above
<1>3. CASE i = 2
  BY <1>1, <1>3 DEF Above
<1>4. CASE i = 3
  BY <1>1, <1>4 DEF Above
<1>. QED  BY <1>2, <1>3, <1>4

\* Every step keeps SetupInv.
LEMMA SetupStep ==
    ASSUME SetupInv, [Next]_vars
    PROVE  SetupInv'
<1>1. CASE UNCHANGED updVars
  BY <1>1 DEF SetupInv, updVars
<1>2. CASE UpdUi
  BY <1>2 DEF UpdUi, UpdateNow, InstallAndRestart, Later, Notice, SetupInv
<1>3. CASE Answered
  BY <1>3 DEF Answered, SetupInv
<1>4. CASE Written
  BY <1>4 DEF Written, SetupInv
<1>5. CASE Renamed
  BY <1>5 DEF Renamed, SetupInv
<1>. QED
  BY <1>1, <1>2, <1>3, <1>4, <1>5
     DEF Next, Frame, CloseWindow, Shutdown, ArtThread, UpdateThreads, UpdThreads, vars

\* The installer that is launched is the one this session's download put in place,
\* and is of a release above the running program (UI.cpp:4680, UpdateChecker.cpp:248).
THEOREM InstallerSafe == Spec => []InstallerIsNew
<1>1. Init => SetupInv
  BY DEF Init, UpdInit, SetupInv
<1>2. SetupInv /\ [Next]_vars => SetupInv'
  BY SetupStep
<1>3. SetupInv => InstallerIsNew
  BY FirstDecides DEF SetupInv, InstallerIsNew
<1>. QED  BY <1>1, <1>2, <1>3, PTL DEF Spec
=============================================================================
