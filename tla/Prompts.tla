------------------------------ MODULE Prompts ------------------------------
(***************************************************************************)
(* How the engine's requests are answered in an offline duel.              *)
(* DuelManager::handleMsg parses a request of the engine and either shows  *)
(* it (m_selection) or answers it on the spot: zones, positions, counters, *)
(* sums, orders and announcements that no seat is asked about.  A request  *)
(* that is shown waits for the player, who clicks on what                  *)
(* UI::drawSelectionPanel and the field offer, or for the automatic        *)
(* opponent (autoRespondP2, with aiIdlePhase and aiBattlePhase).  The      *)
(* engine takes the answer or rejects it with MSG_RETRY and asks again.    *)
(*                                                                         *)
(* Practice has the pump, the pacing and the timeline, and takes requests  *)
(* and answers as they come; here it is their contents that matter.        *)
(***************************************************************************)
EXTENDS Integers, Sequences, FiniteSetsExt, SequencesExt

CONSTANTS
    Requests,       \* what the engine may ask, see Takes for the fields
    Codes,          \* card codes
    Atk,            \* their ATK, as the card database has it
    Blockers,       \* codes with DEF above a low ATK
    ActivationCap,  \* effects the opponent activates in a turn (6)
    ActionCap,      \* answers of the opponent in a turn (120)
    RetryCap,       \* kMaxRetries (16)
    MaxTurns        \* bound: turns of a duel

ASSUME AtkAssumption == Atk \in [Codes -> Nat] /\ Blockers \subseteq Codes
ASSUME CapsAssumption ==
    {ActivationCap, ActionCap, RetryCap, MaxTurns} \subseteq Nat

Seats == {0, 1}
\* The duels there are, by what arms the automatic opponent, with the player's
\* seat: a coin toss, second in a board break, first in a hand-trap gauntlet.
Setups == ({"plain", "passive"} \X Seats) \cup {<<"boardbreak", 1>>, <<"gauntlet", 0>>}
NoRequest == [kind |-> "none", seat |-> 0]

VARIABLES
    asked,      \* the request the engine stands at
    sel,        \* m_selection
    pending,    \* m_responseQueued with the engine's response buffer: {} or {answer}
    blocked,    \* m_blocked
    retry,      \* m_retryCount
    turn,       \* m_field.turnCount and m_field.turnPlayer
    ai,         \* the opponent's memory: m_aiDoneThisTurn and the rest
    picks,      \* m_selSelIdx: the cards staged for a Confirm, as a set
    humanSeat,  \* m_humanSeat
    mode,       \* m_passiveAI, m_defensiveAI and m_gauntletAI
    loose,      \* ghost: picks were left behind by an Undo or a board click
    given       \* ghost: who gave the answer that is pending
promptVars == <<asked, sel, pending, blocked, retry, turn, ai, picks, humanSeat,
          mode, loose, given>>

-----------------------------------------------------------------------------
(* Answers: the shapes of response the engine's buffer may hold.            *)

Num(n)     == [shape |-> "int", v |-> n]
Cards(s)   == [shape |-> "cards", v |-> s]      \* respondMultipleCards
One(i)     == [shape |-> "one", v |-> i]        \* respondUnselect
Places(s)  == [shape |-> "places", v |-> s]     \* three bytes for each
Counts(s)  == [shape |-> "counts", v |-> s]
Order(s)   == [shape |-> "order", v |-> s]
BitMask(S) == [shape |-> "bits", v |-> S]

\* respondIdleCmd packs an action and an index in one word; the engine unpacks.
Half       == 65536
Word(t, s) == Num(((s % Half) * Half) + (t % Half))
CmdOf(w)   == w % Half
IndexOf(w) == w \div Half

\* A bit of the place flag as a zone: the low half is the asked seat's side, of
\* which bits 0-6 are monster zones and 8-15 spell and trap zones.
ZoneBits == (0..31) \ {7, 23}
Zone(bit, seat) ==
    [player |-> IF bit < 16 THEN seat ELSE 1 - seat,
     loc    |-> IF bit % 16 < 8 THEN "mzone" ELSE "szone",
     seq    |-> bit % 8]
FreeBits(r) == ZoneBits \ r.taken

Indices(s) == 0..Len(s) - 1
Distinct(s) == Cardinality(Range(s)) = Len(s)
Total(s) ==
    LET sum[i \in 0..Len(s)] == IF i = 0 THEN 0 ELSE sum[i - 1] + s[i]
    IN  sum[Len(s)]

\* The numbers of S from the least to the greatest.
Ascending(S) ==
    [k \in 1..Cardinality(S) |-> CHOOSE x \in S : Cardinality({y \in S : y <= x}) = k]

-----------------------------------------------------------------------------
(* The engine's rules, from the message layouts handleMsg reads.            *)

\* A card of a sum request has one value, or two of which it counts as either.
Values(p) == IF p[2] > 0 THEN {p[1], p[2]} ELSE {p[1]}
Sums(s) ==
    LET sums[i \in 0..Len(s)] ==
          IF i = 0 THEN {0} ELSE {x + y : x \in sums[i - 1], y \in Values(s[i])}
    IN  sums[Len(s)]
Lows(s)  == [k \in DOMAIN s |-> Min(Values(s[k]))]
Highs(s) == [k \in DOMAIN s |-> Max(Values(s[k]))]
Covers(s, acc) ==       \* it is reached, and no card could be spared
    s # <<>> /\ Total(Highs(s)) >= acc /\ Total(Lows(s)) - Min(Range(Lows(s))) < acc

Picked(r, S) ==
    LET idx == Ascending(S) IN r.must \o [k \in DOMAIN idx |-> r.opt[idx[k] + 1]]
MeetsSum(r, S) ==
    /\ Cardinality(S) >= r.min
    /\ r.max > 0 => Cardinality(S) <= r.max
    /\ IF r.exact THEN r.acc \in Sums(Picked(r, S)) ELSE Covers(Picked(r, S), r.acc)

Command(r, w) ==
    LET t == CmdOf(w)
        i == IndexOf(w)
    IN  \/ t \in DOMAIN r.lists /\ i < Len(r.lists[t])
        \/ i = 0 /\ t \in r.phases

\* Whether the engine goes on with answer a to request r.
Takes(r, a) ==
    CASE r.kind \in {"idle", "battle"} -> a.shape = "int" /\ Command(r, a.v)
      [] r.kind \in {"yesno", "effectyn"} -> a.shape = "int" /\ a.v \in {0, 1}
      [] r.kind \in {"option", "number"} -> a.shape = "int" /\ a.v \in 0..r.n - 1
      [] r.kind \in {"card", "tribute"} ->
            /\ a.shape = "cards" /\ Distinct(a.v)
            /\ Range(a.v) \subseteq Indices(r.cards)
            /\ Len(a.v) >= r.min /\ Len(a.v) <= r.max
      [] r.kind = "chain" ->
            a.shape = "int" /\ (a.v \in Indices(r.cards) \/ (a.v = -1 /\ ~r.forced))
      [] r.kind = "unselect" ->
            \/ a.shape = "one" /\ a.v \in Indices(r.cards)
            \/ a = Num(-1) /\ (r.finishable \/ r.cancelable)
      [] r.kind \in {"place", "disfield"} ->
            /\ a.shape = "places" /\ Distinct(a.v) /\ Len(a.v) = Max({1, r.count})
            /\ Range(a.v) \subseteq {Zone(b, r.seat) : b \in FreeBits(r)}
      [] r.kind = "position" -> a.shape = "int" /\ a.v \in r.mask
      [] r.kind = "sort" ->
            a.shape = "order" /\ Distinct(a.v) /\ Range(a.v) = 0..r.n - 1
      [] r.kind = "counter" ->
            /\ a.shape = "counts" /\ Len(a.v) = Len(r.avail)
            /\ \A i \in DOMAIN a.v : a.v[i] \in 0..r.avail[i]
            /\ Total(a.v) = r.count
      [] r.kind = "sum" ->
            /\ a.shape = "cards" /\ Distinct(a.v)
            /\ Range(a.v) \subseteq Indices(r.opt) /\ MeetsSum(r, Range(a.v))
      [] r.kind = "announce" ->
            a.shape = "bits" /\ a.v \subseteq r.avail /\ Cardinality(a.v) = r.count
      [] r.kind = "declare" -> a.shape = "int" /\ a.v \in r.legal

\* The engine asks only what can be answered: it offers something, no less than
\* it wants, and a sum can be met.
Offered(cards) == cards \in Seq([code : Codes, owner : Seats])
Commands(r, types, phases) ==
    /\ r.lists \in [types -> Seq(Codes)] /\ r.phases \subseteq phases
    /\ \A t \in types : Len(r.lists[t]) <= Half
    /\ r.phases # {} \/ \E t \in types : r.lists[t] # <<>>
Answerable(r) ==
    CASE r.kind = "idle"   -> Commands(r, 0..5, {6, 7})
      [] r.kind = "battle" ->
            Commands(r, 0..1, {2, 3}) /\ r.direct \subseteq DOMAIN r.lists[1]
      [] r.kind \in {"yesno", "effectyn"} -> TRUE
      [] r.kind \in {"option", "number"} -> r.n \in Nat \ {0}
      [] r.kind \in {"card", "tribute"} ->
            /\ Offered(r.cards) /\ r.min \in 0..Len(r.cards)
            /\ r.max \in Nat \ {0} /\ r.min <= r.max
      [] r.kind = "chain" ->
            Offered(r.cards) /\ r.forced \in BOOLEAN /\ (r.forced => r.cards # <<>>)
      [] r.kind = "unselect" ->
            /\ Offered(r.cards) /\ {r.finishable, r.cancelable} \subseteq BOOLEAN
            /\ r.cards # <<>> \/ r.finishable \/ r.cancelable
      [] r.kind \in {"place", "disfield"} ->
            /\ r.count \in 0..8
            /\ Max({1, r.count}) <= Cardinality(FreeBits(r))
      [] r.kind = "position" -> r.mask \subseteq {1, 2, 4, 8} /\ r.mask # {}
      [] r.kind = "sort" -> r.n \in Nat
      [] r.kind = "counter" ->
            r.avail \in Seq(Nat) /\ r.count \in 0..Total(r.avail)
      [] r.kind = "sum" ->
            /\ {r.min, r.max} \subseteq Nat /\ r.acc \in Nat \ {0}
            /\ {r.must, r.opt} \subseteq Seq((Nat \ {0}) \X Nat)
            /\ \E S \in SUBSET Indices(r.opt) : MeetsSum(r, S)
      [] r.kind = "announce" ->
            /\ r.avail \subseteq Nat /\ IsFiniteSet(r.avail)
            /\ r.count \in 1..Cardinality(r.avail)
      [] r.kind = "declare" -> r.legal \subseteq Codes /\ r.legal # {}
      [] OTHER -> FALSE

ASSUME RequestsAssumption == \A r \in Requests : r.seat \in Seats /\ Answerable(r)

-----------------------------------------------------------------------------
(* What handleMsg answers by itself.                                        *)

\* Faulty: a zone that was taken is not marked as used.
FaultyAutoPlaces(r) ==
    LET n == Min({8, Max({1, r.count})})
    IN  [k \in 1..n |-> Zone(IF FreeBits(r) = {} THEN 0 ELSE Min(FreeBits(r)), r.seat)]

\* The first free zones, in the order of the bits; no more than eight.
AutoPlaces(r) ==
    LET n == Min({8, Max({1, r.count})})
        free == Ascending(FreeBits(r))
    IN  [k \in 1..n |-> Zone(IF k <= Len(free) THEN free[k] ELSE 0, r.seat)]

\* Counters are taken from the first cards that have them.
AutoCounts(r) ==
    LET left[i \in 0..Len(r.avail)] ==
          IF i = 0 THEN r.count ELSE left[i - 1] - Min({left[i - 1], r.avail[i]})
    IN  [i \in DOMAIN r.avail |-> left[i - 1] - left[i]]

\* sumReachable: of each card, the amounts that it and those after it come to.
Reachable(all, acc) ==
    LET n == Len(all)
        reach[i \in 1..(n + 1)] ==
          IF i > n THEN {0}
          ELSE LET rest == reach[i + 1]
               IN  {a \in 1..acc : \E v \in Values(all[i]) : a - v \in rest}
    IN  all # <<>> /\ acc \in reach[1]

\* solveSelectSum: the sets its search may end with.  Which of them it meets
\* first, and its budget of 300,000 nodes, are left out.
Solutions(r) ==
    LET n == Len(r.opt)
        most == IF r.max <= 0 \/ r.max > n THEN n ELSE r.max
    IN  {S \in SUBSET Indices(r.opt) :
           /\ Cardinality(S) >= r.min /\ Cardinality(S) <= most
           /\ IF r.exact THEN Reachable(Picked(r, S), r.acc)
              ELSE Covers(Picked(r, S), r.acc)}

FirstOptions(r) == [k \in 1..Min({r.min, Len(r.opt)}) |-> k - 1]

\* The lowest bits, or all of them when none was to be announced.
AutoBits(r) ==
    LET bits == Ascending(r.avail)
        low == {bits[k] : k \in 1..Min({r.count, Len(bits)})}
    IN  IF low = {} THEN r.avail ELSE low

\* The opponent's position: its walls go to face-up defence.
AutoPosition(r) ==
    LET first == IF r.mask = {} THEN 1 ELSE Min(r.mask)
    IN  CASE 4 \in r.mask /\ r.code \in Blockers -> 4
          [] 1 \in r.mask /\ ~(4 \in r.mask /\ r.code \in Blockers) -> 1
          [] OTHER -> first

\* Faulty: the player is taken to sit at seat 0.
FaultyHumanPicksZone(r) == r.kind = "place" /\ r.count = 1 /\ r.seat = 0
HumanPicksZone(r) == r.kind = "place" /\ r.count = 1 /\ r.seat = humanSeat

AutoSums(r) ==
    IF Solutions(r) = {} THEN {FirstOptions(r)} ELSE {Ascending(S) : S \in Solutions(r)}

\* A chain window without an option is passed in silence.
PassesChain(r) == r.kind = "chain" /\ r.cards = <<>> /\ ~r.forced

PlayerDeclares(r) == r.kind = "declare" /\ r.seat = humanSeat
PlayerPicksNumber(r) == r.kind = "number" /\ r.seat = humanSeat /\ r.n > 1

\* The answers handleMsg may give to r without showing it.
InlineAnswers(r) ==
    CASE PassesChain(r) -> {Num(-1)}
      [] r.kind \in {"place", "disfield"} /\ ~HumanPicksZone(r) -> {Places(AutoPlaces(r))}
      [] r.kind = "position" /\ r.seat # humanSeat -> {Num(AutoPosition(r))}
      [] r.kind = "sort" /\ r.n \in 1..15 -> {Order([k \in 1..r.n |-> k - 1])}
      [] r.kind = "counter" -> {Counts(AutoCounts(r))}
      [] r.kind = "sum" -> {Cards(s) : s \in AutoSums(r)}
      [] r.kind = "announce" -> {BitMask(AutoBits(r))}
      [] r.kind = "declare" /\ ~PlayerDeclares(r) -> {Num(0)}
      [] r.kind = "number" /\ ~PlayerPicksNumber(r) -> {Num(0)}
      [] OTHER -> {}

-----------------------------------------------------------------------------
(* What the screen offers the player, by kind of prompt.                    *)

ListedWords(r) == UNION {{Word(t, i) : i \in Indices(r.lists[t])} : t \in DOMAIN r.lists}
PhaseWords(r) == {Word(t, 0) : t \in r.phases}
ChainRows(r) == {Num(i) : i \in Indices(r.cards)} \cup IF r.forced THEN {} ELSE {Num(-1)}

\* Only the zones of the player's own side have a button or a tile that glows.
ZoneButtons(r) == {Places(<<Zone(b, r.seat)>>) : b \in {x \in FreeBits(r) : x < 16}}

PositionButtons(r) == {Num(p) : p \in r.mask}

\* Finish is offered unless the engine allows neither finishing nor cancelling.
MustUnselect(r) == ~(r.finishable \/ r.cancelable)
MaterialClicks(r) ==
    {One(i) : i \in Indices(r.cards)} \cup IF MustUnselect(r) THEN {} ELSE {Num(-1)}

\* One card of one is sent with the click; other numbers are collected first.
FastSingle(r) == r.min = 1 /\ r.max = 1
SingleClicks(r) == IF FastSingle(r) THEN {Cards(<<i>>) : i \in Indices(r.cards)} ELSE {}

\* A search of all the cards there are.
DeclareHits == {Num(c) : c \in Codes}

Buttons(r) ==
    CASE r.kind \in {"idle", "battle"} -> ListedWords(r) \cup PhaseWords(r)
      [] r.kind \in {"yesno", "effectyn"} -> {Num(0), Num(1)}
      [] r.kind \in {"option", "number"} -> {Num(i) : i \in 0..r.n - 1}
      [] r.kind = "chain"    -> ChainRows(r)
      [] r.kind = "place"    -> ZoneButtons(r)
      [] r.kind = "position" -> PositionButtons(r)
      [] r.kind = "unselect" -> MaterialClicks(r)
      [] r.kind = "declare"  -> DeclareHits
      [] r.kind \in {"card", "tribute"} -> SingleClicks(r)

-----------------------------------------------------------------------------
(* The automatic opponent.                                                  *)

TurnPlayer == (turn - 1) % 2
Passive == mode # "plain"
Defends == mode \in {"boardbreak", "gauntlet"}
NoMemory == [used |-> {}, turn |-> 0, acts |-> 0, actTurn |-> 0, def |-> {}]

Move(a, m) == [a |-> a, ai |-> m]
Strongest(list, S) ==   \* the first of them
    CHOOSE i \in S : \A j \in S : \/ Atk[list[i]] > Atk[list[j]]
                                  \/ Atk[list[i]] = Atk[list[j]] /\ i <= j
Weakest(cards) ==
    CHOOSE i \in Indices(cards) : \A j \in Indices(cards) :
        \/ Atk[cards[i + 1].code] < Atk[cards[j + 1].code]
        \/ Atk[cards[i + 1].code] = Atk[cards[j + 1].code] /\ i <= j

\* aiIdlePhase.  The first move there is: an effect not activated this turn, a
\* special summon not tried this turn, a normal summon, a set, the Battle Phase
\* if it has a monster (either may be), the end of the turn.
IdleMoves(r, m) ==
    LET fresh == [m EXCEPT !.used = IF turn # m.turn THEN {} ELSE @, !.turn = turn]
        spent == {u \in fresh.used : u[1] = "act"}
        New(t, tag) == {i \in DOMAIN r.lists[t] : <<tag, r.lists[t][i]>> \notin fresh.used}
        effects == IF Cardinality(spent) >= ActivationCap THEN {} ELSE New(5, "act")
        Play(t, i) == Word(t, i - 1)
        Remember(tag, code) == [fresh EXCEPT !.used = @ \cup {<<tag, code>>}]
    IN  CASE Passive -> {Move(Word(7, 0), m)}
          [] ~Passive /\ effects # {} ->
               {Move(Play(5, Min(effects)), Remember("act", r.lists[5][Min(effects)]))}
          [] ~Passive /\ effects = {} /\ New(1, "sp") # {} ->
               LET i == Strongest(r.lists[1], New(1, "sp"))
               IN  {Move(Play(1, i), Remember("sp", r.lists[1][i]))}
          [] OTHER ->
               {Move(a, fresh) : a \in
                 CASE r.lists[0] # <<>> -> {Play(0, Strongest(r.lists[0], DOMAIN r.lists[0]))}
                   [] r.lists[0] = <<>> /\ r.lists[4] # <<>> -> {Play(4, 1)}
                   [] OTHER -> {Word(7, 0)} \cup {Word(t, 0) : t \in r.phases \cap {6}}}

\* aiBattlePhase.  Whether the strongest attacker beats a blocker is left open.
BattleMoves(r, m) ==
    LET attack == {Word(1, i - 1) : i \in
                     IF r.direct # {} THEN {Min(r.direct)}
                     ELSE IF r.lists[1] = <<>> THEN {}
                     ELSE {Strongest(r.lists[1], DOMAIN r.lists[1])}}
    IN  {Move(a, m) : a \in IF Passive THEN {Word(3, 0)}
                            ELSE IF r.direct # {} THEN attack
                            ELSE attack \cup {Word(3, 0)}}

\* Its own triggers are used once a turn each, as far as it remembers.
EffectMoves(r, m) ==
    LET tag == <<"yn", r.code>>
    IN  IF TurnPlayer = r.seat /\ tag \notin m.used
        THEN {Move(Num(1), [m EXCEPT !.used = @ \cup {tag}])}
        ELSE {Move(Num(0), m)}

\* A board that defends itself answers the player's turn with each card once;
\* without the gauntlet only if the player has a monster (either may be).
ChainMoves(r, m) ==
    LET New == {i \in DOMAIN r.cards : r.cards[i].code \notin m.def}
        disrupts == Defends /\ TurnPlayer # r.seat /\ New # {}
    IN  IF r.forced THEN {Move(Num(0), m)}
        ELSE (IF disrupts
              THEN {Move(Num(Min(New) - 1), [m EXCEPT !.def = @ \cup {r.cards[Min(New)].code}])}
              ELSE {})
             \cup IF disrupts /\ mode = "gauntlet" THEN {} ELSE {Move(Num(-1), m)}

\* The player's strongest card, or the first; the weakest tribute or material.
Target(r) ==
    LET theirs == {i \in DOMAIN r.cards : r.cards[i].owner # r.seat}
        codes == [i \in DOMAIN r.cards |-> r.cards[i].code]
    IN  IF theirs = {} THEN 0 ELSE Strongest(codes, theirs) - 1

\* The passive way out of each prompt, once it has answered too often.
BailOut(r) ==
    CASE r.kind = "idle"   -> Word(7, 0)
      [] r.kind = "battle" -> Word(3, 0)
      [] r.kind = "chain"  -> Num(IF r.forced THEN 0 ELSE -1)
      [] r.kind \in {"card", "tribute"} -> IF r.cards # <<>> THEN Cards(<<0>>) ELSE Num(0)
      [] r.kind = "unselect" -> Num(-1)
      [] OTHER -> Num(0)

\* autoRespondP2, before it has answered too often.
FreeMoves(r, m) ==
    CASE r.kind = "idle"     -> IdleMoves(r, m)
      [] r.kind = "battle"   -> BattleMoves(r, m)
      [] r.kind \in {"yesno", "option"} -> {Move(Num(0), m)}
      [] r.kind = "effectyn" -> EffectMoves(r, m)
      [] r.kind = "chain"    -> ChainMoves(r, m)
      [] r.kind \in {"card", "tribute"} ->
           {Move(IF r.cards = <<>> THEN Num(0)
                 ELSE Cards(<<IF r.kind = "card" THEN Target(r) ELSE Weakest(r.cards)>>), m)}
      [] r.kind = "unselect" ->
           {Move(IF r.finishable \/ r.cards = <<>> THEN Num(-1)
                 ELSE One(Weakest(r.cards)), m)}

\* autoRespondP2: no move at all for a prompt it does not know.
AutoMoves(r) ==
    LET again == turn = ai.actTurn
        m == [ai EXCEPT !.actTurn = turn,
                        !.acts = Min({ActionCap, IF again THEN @ ELSE 0}) + 1,
                        !.def = IF again THEN @ ELSE {}]
    IN  IF r.kind \notin {"idle", "battle", "yesno", "effectyn", "option", "card",
                           "tribute", "chain", "unselect"} THEN {}
        ELSE IF m.acts > ActionCap THEN {Move(BailOut(r), m)}
        ELSE FreeMoves(r, m)

-----------------------------------------------------------------------------
(* The engine asks, and takes or rejects.                                   *)

Init ==
    /\ asked = NoRequest /\ sel = NoRequest /\ pending = {} /\ blocked = FALSE
    /\ retry = 0 /\ turn = 1 /\ ai = NoMemory /\ picks = {}
    /\ (\E d \in Setups : mode = d[1] /\ humanSeat = d[2])
    /\ loose = FALSE /\ given = "nobody"

Players(r) == r # NoRequest /\ r.seat = humanSeat
Shown(r) == ~(r.kind = "sort")      \* its handler sets no selection
Pickers == {"card", "tribute"}
OffPanel == {"none", "idle", "battle", "place", "chain"}

\* The panel is drawn for prompts that are not on the field, and for a paused
\* duel, and drops the picks staged for another prompt.  One of the opponent's
\* prompts is on the screen only while the duel is paced.
PicksAfterDrawing(r) ==
    IF r.kind \in OffPanel \cup Pickers THEN {picks}
    ELSE {{}} \cup IF Players(r) THEN {} ELSE {picks}
Keep(p) == picks' = p /\ loose' = (loose /\ p # {})
Leave == UNCHANGED picks /\ loose' = (loose \/ picks # {})

\* submitResponse: any answer ends a pause.
SubmitAnswer(a, who) ==
    pending' = {a} /\ sel' = NoRequest /\ blocked' = FALSE /\ given' = who

Handle(r) ==
    LET inline == InlineAnswers(r)
    IN  \/ \E a \in inline : SubmitAnswer(a, "handler") /\ UNCHANGED <<picks, loose>>
        \/ /\ inline = {}
           /\ sel' = (IF Shown(r) THEN r ELSE NoRequest)
           /\ pending' = {} /\ given' = "nobody"
           /\ \E p \in PicksAfterDrawing(sel') : Keep(p)
           /\ UNCHANGED blocked

\* Idle and battle commands are the turn player's.
EngineAsks ==
    /\ asked = NoRequest /\ ~blocked
    /\ \E r \in Requests :
         /\ r.kind \in {"idle", "battle"} => r.seat = TurnPlayer
         /\ asked' = r /\ Handle(r)
    /\ UNCHANGED <<retry, turn, ai, humanSeat, mode>>

NewTurn ==
    /\ asked = NoRequest /\ turn < MaxTurns
    /\ turn' = turn + 1
    /\ UNCHANGED <<asked, sel, pending, blocked, retry, ai, picks, humanSeat, mode, loose, given>>

\* The engine goes on with the answer.
EngineTakes ==
    /\ \E a \in pending : Takes(asked, a)
    /\ asked' = NoRequest /\ pending' = {} /\ retry' = 0 /\ given' = "nobody"
    /\ UNCHANGED <<sel, blocked, turn, ai, picks, humanSeat, mode, loose>>

\* MSG_RETRY, and the request again.  Counting stops above the cap.
EngineRejects ==
    /\ \E a \in pending : ~Takes(asked, a)
    /\ retry' = Min({retry + 1, RetryCap + 1})
    /\ Handle(asked)
    /\ UNCHANGED <<asked, turn, ai, humanSeat, mode>>

-----------------------------------------------------------------------------
(* The player answers.                                                      *)

Asking == Players(sel)
Answered == UNCHANGED <<asked, retry, turn, ai, humanSeat, mode>>

\* One click that answers; that of a card prompt drops what was staged.
PlayerClicks ==
    /\ Asking
    /\ \E a \in Buttons(sel) : SubmitAnswer(a, "player")
    /\ IF sel.kind \in Pickers THEN Keep({}) ELSE UNCHANGED <<picks, loose>>
    /\ Answered

\* The setting "auto-pass empty phases": on to the next one.
AutoPass ==
    LET next == CASE sel.kind = "idle"   -> IF 6 \in sel.phases THEN {6} ELSE sel.phases \cap {7}
                  [] sel.kind = "battle" -> IF 2 \in sel.phases THEN {2} ELSE sel.phases \cap {3}
    IN  /\ Asking /\ sel.kind \in {"idle", "battle"} /\ ListedWords(sel) = {}
        /\ \E t \in next : SubmitAnswer(Word(t, 0), "player")
        /\ UNCHANGED <<picks, loose>>
        /\ Answered

Collects(r) == r.kind \in Pickers /\ ~FastSingle(r)

Toggle ==
    /\ Asking /\ Collects(sel)
    /\ \E i \in Indices(sel.cards) :
         IF i \in picks THEN Keep(picks \ {i})
         ELSE Cardinality(picks) < sel.max /\ Keep(picks \cup {i})
    /\ UNCHANGED <<asked, sel, pending, blocked, retry, turn, ai, humanSeat, mode, given>>

Confirm ==
    /\ Asking /\ Collects(sel)
    /\ Cardinality(picks) >= sel.min /\ Cardinality(picks) <= sel.max
    /\ SubmitAnswer(Cards(SetToSeq(picks)), IF loose THEN "leftover" ELSE "player")
    /\ Keep({})
    /\ Answered

\* A click on a glowing card of the field answers at once, whatever was staged
\* and however many cards are wanted; a tribute goes out as a bare number.
BoardClick ==
    /\ Asking /\ sel.kind \in Pickers \cup {"unselect"}
    /\ \E i \in sel.board :
         SubmitAnswer(CASE sel.kind = "card"     -> Cards(<<i>>)
                  [] sel.kind = "tribute"  -> Num(i)
                  [] sel.kind = "unselect" -> One(i), "board")
    /\ Leave /\ Answered

-----------------------------------------------------------------------------
(* The opponent answers, or the duel is paused.                             *)

Waits == sel # NoRequest /\ ~Players(sel) /\ ~blocked

\* Faulty: the cap is not looked at.
FaultyOpponentAnswers ==
    /\ Waits
    /\ \E m \in AutoMoves(sel) : SubmitAnswer(m.a, "opponent") /\ ai' = m.ai
    /\ UNCHANGED <<asked, retry, turn, picks, humanSeat, mode, loose>>

OpponentAnswers ==
    /\ Waits /\ retry <= RetryCap
    /\ \E m \in AutoMoves(sel) : SubmitAnswer(m.a, "opponent") /\ ai' = m.ai
    /\ UNCHANGED <<asked, retry, turn, picks, humanSeat, mode, loose>>

Pause(r) ==
    /\ blocked' = TRUE
    /\ IF r.kind \in Pickers THEN UNCHANGED <<picks, loose>> ELSE Keep({})
    /\ UNCHANGED <<asked, sel, pending, retry, turn, ai, humanSeat, mode, given>>

PauseOpponent ==
    /\ Waits /\ (retry > RetryCap \/ AutoMoves(sel) = {})
    /\ Pause(sel)

\* The engine waits and the handler neither answered nor showed anything.
PauseUnanswered ==
    /\ asked # NoRequest /\ sel = NoRequest /\ pending = {} /\ ~blocked
    /\ Pause(sel)

-----------------------------------------------------------------------------
(* Undo and a new duel: neither touches the picks, nor what the opponent has  *)
(* done this turn but for the disruptions of a board that is armed again.     *)

Restarted ==
    /\ asked' = NoRequest /\ sel' = NoRequest /\ pending' = {}
    /\ blocked' = FALSE /\ retry' = 0 /\ given' = "nobody"
    /\ Leave

\* startDuel disarms the opponent, and the rebuild does not arm it again.
Rewind ==
    /\ asked # NoRequest
    /\ turn' \in 1..turn
    /\ mode' = (IF Defends THEN "passive" ELSE mode)
    /\ Restarted
    /\ UNCHANGED <<ai, humanSeat>>

NextDuel ==
    /\ turn' = 1 /\ \E d \in Setups : mode' = d[1] /\ humanSeat' = d[2]
    /\ ai' = (IF mode' \in {"boardbreak", "gauntlet"} THEN [ai EXCEPT !.def = {}] ELSE ai)
    /\ Restarted

PlayerActs == PlayerClicks \/ AutoPass \/ Toggle \/ Confirm \/ BoardClick
Opponent == OpponentAnswers \/ PauseOpponent
EngineJudges == EngineTakes \/ EngineRejects
Next == EngineAsks \/ NewTurn \/ EngineJudges \/ PlayerActs \/ Opponent \/ PauseUnanswered
        \/ Rewind \/ NextDuel

\* The pump runs every frame and asks nobody else for the opponent's answer.
Spec == Init /\ [][Next]_promptVars /\ WF_promptVars(EngineJudges) /\ WF_promptVars(Opponent)

-----------------------------------------------------------------------------
(* Properties.                                                              *)

\* Where the automatic opponent sends what the engine refuses: one card when
\* several are wanted, a pass when it may not, a phase it cannot enter.
FallsShort(r) ==
    \/ r.kind \in Pickers /\ (r.min > 1 \/ r.cards = <<>>)
    \/ r.kind = "idle" /\ 7 \notin r.phases
    \/ r.kind = "battle" /\ 3 \notin r.phases
    \/ r.kind = "unselect" /\ MustUnselect(r) /\ (ai.acts > ActionCap \/ r.cards = <<>>)

\* The engine takes every answer that goes out: each that a handler works out
\* (zones, counters, sums, bits, positions), each that the player can give with
\* the buttons and the staged picks, and the opponent's.  Not meant are a card
\* named by search, which the engine is left to judge (DuelManager.cpp:2107), the
\* opponent's where it falls short, a click on the board, and picks left behind.
AnswersAreTaken ==
    \A a \in pending :
        \/ Takes(asked, a)
        \/ asked.kind = "declare"
        \/ given \in {"board", "leftover"}
        \/ given = "opponent" /\ FallsShort(asked)

\* Only zones of the other side are free, which have no button.
OnlyOpponentZones(r) == r.kind = "place" /\ \A b \in FreeBits(r) : b >= 16

\* Nobody is left with a prompt that cannot be answered: what is shown to the
\* player has a button or a set of cards the engine takes, and what is shown to
\* the opponent, from whichever seat, has a move.
PromptsCanBeAnswered ==
    sel # NoRequest =>
        IF Players(sel)
        THEN \/ \E a \in Buttons(sel) : Takes(sel, a)
             \/ sel.kind \in Pickers /\ \E S \in SUBSET Indices(sel.cards) :
                    Takes(sel, Cards(SetToSeq(S)))
             \/ OnlyOpponentZones(sel)
        ELSE AutoMoves(sel) # {}

\* A prompt of the opponent does not keep the duel busy for ever: the engine
\* takes an answer, or after so many rejected ones the duel is paused.
OpponentSettles ==
    (sel # NoRequest /\ ~Players(sel)) ~> (asked = NoRequest \/ blocked)
=============================================================================
