------------------------------- MODULE Arcade -------------------------------
(***************************************************************************)
(* The Arcade screens of one machine, src/src/UI.cpp and                   *)
(* src/src/ArcadeSave.h: Master Saga campaigns (packs, keys, the prize     *)
(* wheel, crafting), Progression runs and the sealed Draft.  All three     *)
(* work on the one m_arcade in memory; a campaign is a file that every     *)
(* change rewrites in place, and the program can be killed at any moment.  *)
(*                                                                         *)
(* A pack is a card here (the code draws 8, or 24 packs of a set at once). *)
(* The leaderboard and the duels between members are GroupDuel's.          *)
(*                                                                         *)
(* Definitions named Faulty... are not used: each is a plausible bug in     *)
(* the definition below it, which a property must catch.                   *)
(***************************************************************************)
EXTENDS Integers, FiniteSets, Functions, FiniteSetsExt

CONSTANTS
    Name,           \* campaign names
    Sealed,         \* the name of a sealed draft
    Card,           \* the dataset: the cards,
    Key,            \*   the archetypes big enough for a secret pack,
    RarityOf,       \*   a card's rarity (0 N, 1 R, 2 SR, 3 UR)
    KeysOf,         \*   and its archetypes
    LastSet,        \* the sets of a progression run are 0..LastSet
    PacksPerCycle,  \* 10 in the code
    Prizes,         \* the wheel: credits and bonus packs of each wedge
    MaxPulls,       \* bound: packs opened (credits bound what is crafted)
    MaxRecords,     \* bound: results recorded
    MaxKills        \* bound: kills of the program

ASSUME ArcadeAssumption ==
    /\ Sealed \notin Name
    /\ IsFiniteSet(Card)
    /\ RarityOf \in [Card -> 0..3] /\ KeysOf \in [Card -> SUBSET Key]
    /\ LastSet \in Nat /\ PacksPerCycle \in Nat
    /\ \A p \in Prizes : {p.sr, p.nr, p.packs} \subseteq Nat
    /\ {MaxPulls, MaxRecords, MaxKills} \subseteq Nat

VARIABLES
    file,       \* assets/arcade/<name>.arcade
    app,        \* the program
    log,        \* ghost: what each campaign was given and what it spent
    pulls, records, kills      \* ghosts, for the bounds
vars == <<file, app, log, pulls, records, kills>>

-----------------------------------------------------------------------------
(* ArcadeSave, and the program's flags around it.                           *)

NoKey == "none"
Idle == [st |-> "hidden", prize |-> "none"]

ArcadeSave(n) ==
    [exists |-> TRUE, name |-> n, master |-> PacksPerCycle,
     secret |-> PacksPerCycle, spins |-> 0, prog |-> -1, progOpened |-> -1,
     sr |-> 0, nr |-> 0, keys |-> {}, okeys |-> {}, pool |-> [c \in Card |-> 0]]
NoSave(n) == [ArcadeSave(n) EXCEPT !.exists = FALSE]

AppInit ==
    [screen |-> "Lobby", mode |-> 0, loaded |-> FALSE, draft |-> FALSE,
     gated |-> FALSE, pick |-> NoKey, wheel |-> Idle, a |-> NoSave(Sealed)]

\* What a campaign has received since its last result, and in all.
NoLog == [torn |-> FALSE, master |-> 0, secret |-> 0, bonus |-> 0,
          cards |-> 0, credits |-> 0]

Opened(a) == a.progOpened >= a.prog
Complete(a) == a.prog >= LastSet /\ Opened(a)
Bucket(k) == {c \in Card : k \in KeysOf[c]}

\* UI::draw: a draft lives only in the deck builder.
Drawn(s) ==
    IF s.draft /\ s.screen # "Builder"
    THEN [s EXCEPT !.draft = FALSE, !.gated = FALSE, !.loaded = FALSE,
                   !.a = NoSave(Sealed)]
    ELSE s

\* A click that changes the program only, or the campaign and its file.
Click(s) == app' = Drawn(s) /\ UNCHANGED <<file, log, pulls, records, kills>>
Keep(a) == app' = [app EXCEPT !.a = a] /\ file' = [file EXCEPT ![a.name] = a]
Note(n, l) == log' = [log EXCEPT ![n] = l]

-----------------------------------------------------------------------------
(* Packs: copies for the pool, keys for super and ultra rares.              *)

Packs == SUBSET Card \ {{}}
SecretPacks(k) == {p \in Packs : p \cap Bucket(k) # {}}

Grants(c) == IF RarityOf[c] >= 2 THEN KeysOf[c] ELSE {}

AddCards(a, cards) ==
    [a EXCEPT !.pool = [c \in Card |-> @[c] + IF c \in cards THEN 1 ELSE 0]]
ApplyPack(a, cards) ==
    [AddCards(a, cards) EXCEPT !.keys = @ \cup UNION {Grants(c) : c \in cards}]

Pull == pulls < MaxPulls /\ pulls' = pulls + 1 /\ UNCHANGED <<records, kills>>
Got(n, cards) == [log[n] EXCEPT !.cards = @ + Cardinality(cards)]

-----------------------------------------------------------------------------
(* The lobby, the mode picker and the list of campaigns.                    *)

EnterArcade ==
    app.screen = "Lobby" /\ Click([app EXCEPT !.screen = "Arcade", !.mode = 0])

Decks ==
    app.screen = "Lobby" /\ Click([app EXCEPT !.screen = "Builder", !.gated = FALSE])

At(mode) == app.screen = "Arcade" /\ app.mode = mode

\* The wheel is a window over the whole run view: nothing else can be clicked.
RunView == At(1) /\ app.loaded /\ app.wheel.st = "hidden"

Back ==
    /\ app.screen = "Arcade" /\ ~(At(1) /\ app.loaded /\ app.wheel.st # "hidden")
    /\ app' = IF app.mode = 0 THEN [app EXCEPT !.screen = "Lobby"]
              ELSE [app EXCEPT !.mode = 0, !.loaded = FALSE]
    /\ file' = IF app.loaded THEN [file EXCEPT ![app.a.name] = app.a] ELSE file
    /\ UNCHANGED <<log, pulls, records, kills>>

PickMasterSaga == At(0) /\ Click([app EXCEPT !.mode = 1])
PickProgression == At(0) /\ Click([app EXCEPT !.mode = 3, !.loaded = FALSE])

\* startDraft: a campaign that is still loaded is saved, then makes room.
StartDraft(cards) ==
    /\ At(0) /\ Pull
    /\ file' = IF app.loaded THEN [file EXCEPT ![app.a.name] = app.a] ELSE file
    /\ app' = [app EXCEPT !.screen = "Builder", !.loaded = TRUE, !.draft = TRUE,
                          !.gated = TRUE,
                          !.a = AddCards([ArcadeSave(Sealed) EXCEPT !.exists = FALSE],
                                         cards)]
    /\ UNCHANGED log

FileList == At(1) /\ ~app.loaded

Load(n) ==
    /\ FileList /\ file[n].exists
    /\ Click([app EXCEPT !.loaded = TRUE, !.a = file[n], !.pick = NoKey])

Delete(n) ==
    /\ FileList /\ file[n].exists
    /\ file' = [file EXCEPT ![n] = NoSave(n)] /\ Note(n, NoLog)
    /\ UNCHANGED <<app, pulls, records, kills>>

Create(n) ==
    /\ FileList /\ ~file[n].exists
    /\ file' = [file EXCEPT ![n] = ArcadeSave(n)]
    /\ app' = [app EXCEPT !.loaded = TRUE, !.a = ArcadeSave(n), !.pick = NoKey]
    /\ UNCHANGED <<log, pulls, records, kills>>

-----------------------------------------------------------------------------
(* The run view of a campaign.                                              *)

FaultyOpenMaster(cards) ==
    /\ RunView /\ app.a.master > 0 /\ Pull
    /\ app' = [app EXCEPT !.a = ApplyPack([@ EXCEPT !.master = @ - 1], cards)]
    /\ Note(app.a.name, [Got(app.a.name, cards) EXCEPT !.master = @ + 1])
    /\ UNCHANGED file
OpenMaster(cards) ==
    /\ RunView /\ app.a.master > 0 /\ Pull
    /\ Keep(ApplyPack([app.a EXCEPT !.master = @ - 1], cards))
    /\ Note(app.a.name, [Got(app.a.name, cards) EXCEPT !.master = @ + 1])

\* A second click on the picked key clears the pick.
PickKey(k) ==
    /\ RunView /\ k \in app.a.keys
    /\ Click([app EXCEPT !.pick = IF @ = k THEN NoKey ELSE k])

\* Nothing asks whether the picked key belongs to the campaign on screen.
OpenSecret(cards) ==
    /\ RunView /\ app.a.secret > 0 /\ app.pick # NoKey /\ Pull
    /\ cards \in SecretPacks(app.pick)
    /\ Keep(ApplyPack([app.a EXCEPT !.secret = @ - 1, !.okeys = @ \cup {app.pick}],
                      cards))
    /\ Note(app.a.name, [Got(app.a.name, cards) EXCEPT !.secret = @ + 1])

\* arcadeRecordResult: the next cycle.
Restock(a) ==
    [a EXCEPT !.master = PacksPerCycle, !.secret = PacksPerCycle, !.keys = {},
              !.okeys = {}, !.spins = @ + 1]
RecordResult ==
    /\ RunView /\ records < MaxRecords /\ records' = records + 1
    /\ LET a == Restock(app.a)
       IN /\ app' = [app EXCEPT !.a = a, !.pick = NoKey, !.wheel = Idle]
          /\ file' = [file EXCEPT ![a.name] = a]
    /\ Note(app.a.name, [log[app.a.name] EXCEPT !.master = 0, !.secret = 0, !.bonus = 0])
    /\ UNCHANGED <<pulls, kills>>

\* The prize is drawn when the wheel starts and paid when it is claimed.
Spin(p) ==
    /\ RunView /\ app.a.spins > 0
    /\ Click([app EXCEPT !.wheel = [st |-> "spinning", prize |-> p]])

WheelStops ==
    /\ At(1) /\ app.loaded /\ app.wheel.st = "spinning"
    /\ Click([app EXCEPT !.wheel.st = "result"])

Claim ==
    /\ At(1) /\ app.loaded /\ app.wheel.st = "result"
    /\ LET p == app.wheel.prize
           n == app.a.name
           a == [app.a EXCEPT !.sr = @ + p.sr, !.nr = @ + p.nr,
                              !.secret = @ + p.packs, !.spins = Max({0, @ - 1})]
       IN /\ app' = [app EXCEPT !.a = a, !.wheel = Idle]
          /\ file' = [file EXCEPT ![n] = a]
          /\ Note(n, [log[n] EXCEPT !.bonus = @ + p.packs,
                                    !.credits = @ + p.sr + p.nr])
    /\ UNCHANGED <<pulls, records, kills>>

\* The craft tab: one credit, one card of a pack opened in this cycle.
Craft(c) ==
    /\ RunView
    /\ \E k \in app.a.okeys : c \in Bucket(k)
    /\ \/ /\ RarityOf[c] = 2 /\ app.a.sr > 0
          /\ Keep([AddCards(app.a, {c}) EXCEPT !.sr = @ - 1])
       \/ /\ RarityOf[c] <= 1 /\ app.a.nr > 0
          /\ Keep([AddCards(app.a, {c}) EXCEPT !.nr = @ - 1])
    /\ Note(app.a.name, [Got(app.a.name, {c}) EXCEPT !.credits = @ - 1])
    /\ UNCHANGED <<pulls, records, kills>>

CloseSave ==
    /\ RunView
    /\ file' = [file EXCEPT ![app.a.name] = app.a]
    /\ app' = [app EXCEPT !.loaded = FALSE]
    /\ UNCHANGED <<log, pulls, records, kills>>

-----------------------------------------------------------------------------
(* Progression: a run climbs the sets one by one.                           *)

StartPage == At(3) /\ (~app.loaded \/ app.a.prog < 0)
SetView == At(3) /\ app.loaded /\ app.a.prog >= 0

Continue(n) ==
    /\ StartPage /\ file[n].exists /\ file[n].prog >= 0
    /\ Click([app EXCEPT !.loaded = TRUE, !.a = file[n]])

\* The duplicate test searches from the beginning of one list of files to the
\* end of another and compares with the end of a third.  With no file at all
\* the three ends are equal; otherwise the name is refused, or the program is
\* killed for reading outside the list (Killed).
StartRun(n) ==
    /\ StartPage /\ \A m \in Name : ~file[m].exists
    /\ LET a == [ArcadeSave(n) EXCEPT !.prog = 0]
       IN /\ app' = [app EXCEPT !.loaded = TRUE, !.a = a]
          /\ file' = [file EXCEPT ![n] = a]
    /\ UNCHANGED <<log, pulls, records, kills>>

OpenSet(cards) ==
    /\ SetView /\ ~Opened(app.a) /\ Pull
    /\ Keep([AddCards(app.a, cards) EXCEPT !.progOpened = app.a.prog])
    /\ Note(app.a.name, Got(app.a.name, cards))

Playing == SetView /\ Opened(app.a) /\ ~Complete(app.a)

WonSet ==
    /\ Playing /\ records < MaxRecords /\ records' = records + 1
    /\ Keep([app.a EXCEPT !.prog = Min({@ + 1, LastSet})])
    /\ UNCHANGED <<log, pulls, kills>>

\* The loser's packs: none when no tournament pack is known.
LostSet(cards) ==
    /\ Playing /\ Pull
    /\ Keep(AddCards(app.a, cards)) /\ Note(app.a.name, Got(app.a.name, cards))

CloseRun ==
    /\ SetView
    /\ file' = [file EXCEPT ![app.a.name] = app.a]
    /\ app' = [app EXCEPT !.loaded = FALSE]
    /\ UNCHANGED <<log, pulls, records, kills>>

-----------------------------------------------------------------------------
(* The deck builder, as far as the campaign goes.                           *)

BuildDeck ==
    (RunView \/ Playing) /\ Click([app EXCEPT !.screen = "Builder", !.gated = TRUE])

LeaveBuilder ==
    app.screen = "Builder" /\ Click([app EXCEPT !.screen = "Lobby"])

\* "Exit pool", or "End draft".
ExitPool ==
    /\ app.screen = "Builder" /\ app.gated /\ app.loaded
    /\ Click(IF app.draft
             THEN [app EXCEPT !.gated = FALSE, !.draft = FALSE, !.loaded = FALSE,
                              !.a = NoSave(Sealed)]
             ELSE [app EXCEPT !.gated = FALSE])

-----------------------------------------------------------------------------
(* Kills.  A save truncates the file and writes it anew, counters and keys  *)
(* before cards: a kill in between leaves an empty file, which reads as a   *)
(* fresh campaign, or one with only some of its cards.                      *)

Kill == kills < MaxKills /\ kills' = kills + 1 /\ app' = AppInit
        /\ UNCHANGED <<pulls, records>>

Killed == Kill /\ UNCHANGED <<file, log>>

WithCards(a, kept) ==
    [a EXCEPT !.pool = [c \in Card |-> IF c \in kept THEN @[c] ELSE 0]]
KilledWhileSaving ==
    /\ app.screen = "Arcade" /\ app.loaded /\ Kill
    /\ LET n == app.a.name
       IN /\ \/ file' = [file EXCEPT ![n] = ArcadeSave(n)]
             \/ \E kept \in SUBSET Card :
                    file' = [file EXCEPT ![n] = WithCards(app.a, kept)]
          /\ Note(n, [log[n] EXCEPT !.torn = TRUE])

-----------------------------------------------------------------------------
Init ==
    /\ file = [n \in Name \cup {Sealed} |-> NoSave(n)]
    /\ app = AppInit
    /\ log = [n \in Name \cup {Sealed} |-> NoLog]
    /\ pulls = 0 /\ records = 0 /\ kills = 0

MasterSaga ==
    \/ \E n \in Name : Load(n) \/ Delete(n) \/ Create(n)
    \/ \E cards \in Packs : OpenMaster(cards) \/ OpenSecret(cards)
    \/ \E k \in Key : PickKey(k)
    \/ \E p \in Prizes : Spin(p)
    \/ \E c \in Card : Craft(c)
    \/ RecordResult \/ WheelStops \/ Claim \/ CloseSave
Progression ==
    \/ \E n \in Name : Continue(n) \/ StartRun(n)
    \/ \E cards \in Packs : OpenSet(cards)
    \/ \E cards \in Packs \cup {{}} : LostSet(cards)
    \/ WonSet \/ CloseRun
Screens ==
    \/ EnterArcade \/ Decks \/ Back \/ PickMasterSaga \/ PickProgression
    \/ \E cards \in Packs : StartDraft(cards)
    \/ BuildDeck \/ LeaveBuilder \/ ExitPool
Next == MasterSaga \/ Progression \/ Screens \/ Killed \/ KilledWhileSaving

Spec == Init /\ [][Next]_vars

-----------------------------------------------------------------------------
(* Properties.                                                              *)

\* What is on file is what was given less what was spent, whenever the
\* program is killed: no pack is opened twice, no credit is spent twice, no
\* card is lost.  A save cut in half may hand packs out again, but never a
\* card or a credit (applyPack, arcadeRecordResult, the wheel, the craft tab).
BooksBalance ==
    \A n \in Name : file[n].exists =>
        LET f == file[n]
            l == log[n]
        IN /\ SumFunction(f.pool) <= l.cards /\ f.sr + f.nr <= l.credits
           /\ ~l.torn =>
                /\ SumFunction(f.pool) = l.cards /\ f.sr + f.nr = l.credits
                /\ f.master + l.master = PacksPerCycle
                /\ f.secret + l.secret = PacksPerCycle + l.bonus
=============================================================================
