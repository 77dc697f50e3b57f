---------------------------- MODULE DeckBuilder ----------------------------
(***************************************************************************)
(* The deck builder, UI::drawDeckBuilder in src/src/UI.cpp, and what it     *)
(* works with: the .ydk files, the share codes, Sort and Tidy, the formats *)
(* (banlists) and their editor, the card pool of the Arcade, per-deck       *)
(* sleeves, and siding between the games of a match.                       *)
(*                                                                         *)
(* A deck, a format and a sleeve are reached from the program by an INDEX   *)
(* into a list that is read again from the disk; the deck on the table and *)
(* the file it came from are tied by a name typed in a box.  File names are *)
(* numbers, in the order of the sorted directory.                          *)
(*                                                                         *)
(* Definitions named Faulty... are not used: each is a plausible bug in     *)
(* the definition below it, which a property must catch.                   *)
(***************************************************************************)
EXTENDS Integers, FiniteSets, SequencesExt

CONSTANTS
    MainCard, ExtraCard,     \* the dataset
    Code,                    \* a card's passcode
    Rank,                    \* and its place: type, level, ATK, name
    Owned,                   \* copies of a card in the Arcade pool
    Decks,                   \* deck files are named 1..Decks
    Starter,                 \* the deck of the files at the start
    Shared,                  \* decks that may come from the clipboard
    Formats, FileOf,         \* formats are named 1..Formats, FileOf their files
    EditorLimits,            \* limits a format may be given in the editor
    Copies,                  \* 3 in the code
    MainMin, MainMax, SideMax,   \* 40, 60 and 15 in the code (extra: 15)
    MaxChanges,              \* bound: edits of the deck and writes of files
    MaxFailures              \* bound: writes that fail

Card == MainCard \cup ExtraCard
Zone == {"main", "extra", "side"}

ASSUME DeckBuilderAssumption ==
    /\ MainCard \cap ExtraCard = {}
    /\ Card \cap {"#created", "#main", "#extra", "!side"} = {}
    /\ Code \in [Card -> Nat \ {0}] /\ Rank \in [Card -> Nat]
    /\ \A c \in Card : Code[c] \div 256^3 < 256      \* a uint32_t
    /\ \A c, e \in Card : Code[c] = Code[e] \/ Rank[c] = Rank[e] => c = e
    /\ Owned \in [Card -> Nat]
    /\ Starter \in [Zone -> Seq(Card)] /\ Shared \subseteq [Zone -> Seq(Card)]
    /\ {Decks, Formats, Copies, MainMin, MainMax, SideMax} \subseteq Nat \ {0}
    /\ FileOf \in [1..Formats -> 1..Formats]
    /\ EditorLimits \subseteq [Card -> 0..Copies]
    /\ {MaxChanges, MaxFailures} \subseteq Nat

VARIABLES
    ydk,        \* assets/decks: the deck files that exist
    match,      \* the match's deck: none, a deck file, or the temp file
    conf,       \* assets/lflists: the formats that exist
    s,          \* the builder
    g,          \* ghosts: see Ghosts
    changes, failures       \* ghosts, for the bounds
vars == <<ydk, match, conf, s, g, changes, failures>>

-----------------------------------------------------------------------------
(* Decks.                                                                   *)

NoCards == [z \in Zone |-> <<>>]
Count(zone, c) == Cardinality({i \in DOMAIN zone : zone[i] = c})
InDeck(d, c) == Count(d["main"], c) + Count(d["extra"], c) + Count(d["side"], c)
Size(d) == Len(d["main"]) + Len(d["extra"]) + Len(d["side"])
Cap(z) == IF z = "main" THEN MainMax ELSE SideMax

LegalIn(z, c) ==
    CASE z = "main" -> c \in MainCard
      [] z = "extra" -> c \in ExtraCard
      [] z = "side" -> TRUE

Limit(format, c) == IF format = <<>> THEN Copies ELSE format[1].limit[c]

Legality(d, limit) ==
    IF Len(d["main"]) < MainMin THEN "short"
    ELSE IF \E z \in Zone : Len(d[z]) > Cap(z) THEN "long"
    ELSE IF \E c \in Card : InDeck(d, c) > limit[c] THEN "copies" ELSE "legal"

\* The elements of q that are in S.
Keep(q, S) == FoldLeft(LAMBDA t, x : IF x \in S THEN Append(t, x) ELSE t, <<>>, q)

\* sortEditDeck: each card after those that rank no higher.
Placed(t, c) ==
    InsertAt(t, Cardinality({i \in DOMAIN t : Rank[t[i]] <= Rank[c]}) + 1, c)
Sorted(d) == [z \in Zone |-> FoldLeft(Placed, <<>>, d[z])]

\* tidyEditDeck: main, extra, side, with one count of copies for the three.
TidyStep(limit, z, t, c) ==
    IF t.seen[c] < limit[c] /\ Len(t.deck[z]) < Cap(z)
    THEN [deck |-> [t.deck EXCEPT ![z] = Append(@, c)],
          seen |-> [t.seen EXCEPT ![c] = @ + 1]]
    ELSE t
FaultyTrim(limit, z, t, zone) ==
    FoldLeft(LAMBDA u, c : TidyStep(limit, z, u, c),
             [t EXCEPT !.seen = [c \in Card |-> 0]], zone)
Trim(limit, z, t, zone) == FoldLeft(LAMBDA u, c : TidyStep(limit, z, u, c), t, zone)
Tidied(d, limit) ==
    LET none == [deck |-> NoCards, seen |-> [c \in Card |-> 0]] IN
    Trim(limit, "side",
         Trim(limit, "extra", Trim(limit, "main", none, d["main"]), d["extra"]),
         d["side"]).deck

-----------------------------------------------------------------------------
(* .ydk text: a line is a marker or a card.                                 *)

ToText(d) ==
    <<"#created", "#main">> \o d["main"] \o <<"#extra">> \o d["extra"]
        \o <<"!side">> \o d["side"]

TextLine(t, l) ==
    CASE l = "#main"  -> [t EXCEPT !.zone = "main"]
      [] l = "#extra" -> [t EXCEPT !.zone = "extra"]
      [] l = "!side"  -> [t EXCEPT !.zone = "side"]
      [] l \in Card   -> [t EXCEPT !.deck[t.zone] = Append(@, l)]
      [] OTHER -> t
FromText(lines) == FoldLeft(TextLine, [zone |-> "main", deck |-> NoCards], lines).deck

(* ydke:// codes: base64 of little-endian 32-bit passcodes.  A digit is     *)
(* 0..63, Pad is '='.  Only the low 16 bits of the code's int accumulator  *)
(* are ever read: val is kept modulo 2^16.                                 *)

Pad == 64
Bytes(zone) ==
    [i \in 1..(4 * Len(zone)) |->
        (Code[zone[(i + 3) \div 4]] \div 256^((i - 1) % 4)) % 256]
Bits(val, from, width) == (val \div 2^from) % 2^width

EncodeByte(t, byte) ==
    LET v == (t.val * 256 + byte) % 2^16
        bits == t.bits + 8
    IN IF bits >= 6
       THEN [val |-> v, bits |-> bits - 12,
             out |-> t.out \o <<Bits(v, bits, 6), Bits(v, bits - 6, 6)>>]
       ELSE [val |-> v, bits |-> bits - 6, out |-> Append(t.out, Bits(v, bits, 6))]
FaultyB64Encode(bytes) ==
    LET t == FoldLeft(EncodeByte, [val |-> 0, bits |-> -6, out |-> <<>>], bytes)
    IN t.out \o [i \in 1..((4 - (Len(t.out) % 4)) % 4) |-> Pad]
B64Encode(bytes) ==
    LET t == FoldLeft(EncodeByte, [val |-> 0, bits |-> -6, out |-> <<>>], bytes)
        whole == IF t.bits > -6
                 THEN Append(t.out, Bits(t.val * 256, t.bits + 8, 6)) ELSE t.out
    IN whole \o [i \in 1..((4 - (Len(whole) % 4)) % 4) |-> Pad]

DecodeDigit(t, d) ==
    LET v == (t.val * 64 + d) % 2^16 IN
    IF t.done \/ d = Pad THEN [t EXCEPT !.done = TRUE]
    ELSE IF t.bits + 6 >= 0
    THEN [t EXCEPT !.val = v, !.bits = @ - 2,
                   !.out = Append(@, Bits(v, t.bits + 6, 8))]
    ELSE [t EXCEPT !.val = v, !.bits = @ + 6]
B64Decode(digits) ==
    FoldLeft(DecodeDigit, [done |-> FALSE, val |-> 0, bits |-> -8, out |-> <<>>], digits).out

ToYdke(d) == [z \in Zone |-> B64Encode(Bytes(d[z]))]

\* Four bytes are a passcode (0 is dropped); a rest of fewer is ignored.
Passcodes(bytes) ==
    LET code == [i \in 1..(Len(bytes) \div 4) |->
                    bytes[4*i - 3] + 256 * bytes[4*i - 2]
                      + 256^2 * bytes[4*i - 1] + 256^3 * bytes[4*i]]
    IN Keep(code, Nat \ {0})
FromYdke(parts) ==
    [z \in Zone |->
        LET codes == Passcodes(B64Decode(parts[z]))
        IN [i \in DOMAIN codes |-> CHOOSE c \in Card : Code[c] = codes[i]]]

-----------------------------------------------------------------------------
(* Files, lists and indices.  An index of 0 is the code's -1: nothing.       *)

Listing(n, files) == Keep([i \in 1..n |-> i], DOMAIN files)
Put(files, n, what) ==
    [k \in DOMAIN files \cup {n} |-> IF k = n THEN what ELSE files[k]]
LoadYdk(n) == IF n \in DOMAIN ydk THEN ydk[n] ELSE NoCards
LoadMatch == IF match.file = 0 THEN match.temp ELSE LoadYdk(match.file)

RefreshDeckFiles(t, files) ==
    LET list == Listing(Decks, files) IN
    [t EXCEPT !.list = list,
              !.sel = IF @ <= Len(list) THEN @ ELSE IF list = <<>> THEN 0 ELSE 1]

\* saveYdk: nobody looks at the stream.  A failed write leaves the file as
\* it was, or truncated.
SaveYdk(files, n, d) ==
    {Put(files, n, d)}
      \cup IF failures < MaxFailures THEN {files, Put(files, n, NoCards)} ELSE {}

\* loadBanlists: a format without a limit below Copies is not a format.
NoLimit == [c \in Card |-> Copies]
LoadBanlists(files) ==
    LET listed == Listing(Formats, files)
        loaded == [i \in DOMAIN listed |-> files[listed[i]]]
    IN Keep(loaded, {f \in ToSet(loaded) : f.limit # NoLimit})

Format == IF s.fmt \in DOMAIN s.lists THEN <<s.lists[s.fmt]>> ELSE <<>>
CardLimit == [c \in Card |-> Limit(Format, c)]
PoolLimit ==
    [c \in Card |-> IF s.pool /\ Owned[c] < CardLimit[c] THEN Owned[c] ELSE CardLimit[c]]

\* Ghosts: the file the deck was last loaded from or saved to, and the files whose
\* overwriting failed.
Ghosts == [open |-> 0, torn |-> {}]

Init ==
    /\ \E names \in SUBSET (2..Decks) : ydk = [n \in names |-> Starter]
    /\ match = [file |-> 0, temp |-> NoCards]
    /\ \E limit \in EditorLimits \ {NoLimit} :
          conf = [f \in {FileOf[1]} |-> [name |-> 1, limit |-> limit]]
    /\ s = [screen |-> "lobby", siding |-> FALSE, pool |-> FALSE, edit |-> NoCards,
            saved |-> NoCards, list |-> Listing(Decks, ydk), sel |-> 0,
            lists |-> LoadBanlists(conf), fmt |-> 0]
    /\ g = Ghosts
    /\ changes = 0 /\ failures = 0

-----------------------------------------------------------------------------
(* Coming and going.                                                        *)

InBuilder == s.screen = "builder"
Dirty == s.edit # s.saved
Files == <<ydk, match, conf>>
Counters == <<changes, failures>>
Change == changes < MaxChanges /\ changes' = changes + 1
Show(t) == s' = t /\ UNCHANGED <<Files, g, Counters>>

\* The DECKS tile, and "Build Deck from Pool" in the Arcade.
OpenBuilder(pool) ==
    /\ s.screen = "lobby"
    /\ Show(RefreshDeckFiles([s EXCEPT !.screen = "builder", !.pool = pool], ydk))

ExitPool == InBuilder /\ s.pool /\ Show([s EXCEPT !.pool = FALSE])

\* Escape, or Back, with nothing unsaved; or Back and "Leave & discard".
Leave == InBuilder /\ ~s.siding /\ ~Dirty /\ Show([s EXCEPT !.screen = "lobby"])
LeaveAndDiscard == InBuilder /\ ~s.siding /\ Dirty /\ Show([s EXCEPT !.screen = "lobby"])

Refresh == InBuilder /\ Show(RefreshDeckFiles(s, ydk))

SelectDeck(i) ==
    /\ InBuilder /\ i \in DOMAIN s.list
    /\ LET n == s.list[i]  d == LoadYdk(n) IN
       /\ s' = [s EXCEPT !.sel = i, !.edit = d, !.saved = d]
       /\ g' = [g EXCEPT !.open = n]
    /\ UNCHANGED <<Files, Counters>>

\* Save, or Ctrl+S, under any name that stands in the box (selecting a deck
\* fills it in): a regular file under the name counts as success.
FaultySave(n) ==
    /\ InBuilder /\ Change
    /\ \E files \in SaveYdk(ydk, n, s.edit) :
       LET right == n \in DOMAIN files /\ files[n] = s.edit
       IN /\ ydk' = files
          /\ s' = RefreshDeckFiles([s EXCEPT !.saved = s.edit], files)
          /\ g' = [g EXCEPT !.open = n,
                            !.torn = IF right \/ n \notin DOMAIN files THEN @ \ {n} ELSE @ \cup {n}]
          /\ failures' = failures + IF right THEN 0 ELSE 1
    /\ UNCHANGED <<match, conf>>
Save(n) ==
    /\ InBuilder /\ Change
    /\ \E files \in SaveYdk(ydk, n, s.edit) :
       LET landed == n \in DOMAIN files
           right == landed /\ files[n] = s.edit
       IN /\ ydk' = files
          /\ s' = RefreshDeckFiles(IF landed THEN [s EXCEPT !.saved = s.edit] ELSE s, files)
          /\ g' = IF landed
                  THEN [g EXCEPT !.open = n,
                                 !.torn = IF right THEN @ \ {n} ELSE @ \cup {n}]
                  ELSE g
          /\ failures' = failures + IF right THEN 0 ELSE 1
    /\ UNCHANGED <<match, conf>>

-----------------------------------------------------------------------------
(* Editing.                                                                 *)

Edit(d, h) ==
    /\ InBuilder /\ Change
    /\ s' = [s EXCEPT !.edit = d] /\ g' = h
    /\ UNCHANGED <<Files, failures>>

\* Some search or filter finds every card; in pool mode owned ones are listed.
Listed == {c \in Card : s.pool => Owned[c] > 0}

\* A click on a listed card, or its menu; or a drag of it to a place.  Both
\* count the copies in the three sections against the limit.
AddCard(z, c) ==
    /\ c \in Listed /\ LegalIn(z, c)
    /\ InDeck(s.edit, c) < PoolLimit[c] /\ Len(s.edit[z]) < Cap(z)
    /\ Edit([s.edit EXCEPT ![z] = Append(@, c)], g)
DropCard(z, c, at) ==
    /\ c \in Listed /\ LegalIn(z, c) /\ at \in DOMAIN s.edit[z]
    /\ InDeck(s.edit, c) < PoolLimit[c] /\ Len(s.edit[z]) < Cap(z)
    /\ Edit([s.edit EXCEPT ![z] = InsertAt(@, at, c)], g)

RemoveOne(z, i) == i \in DOMAIN s.edit[z] /\ Edit([s.edit EXCEPT ![z] = RemoveAt(@, i)], g)
RemoveEvery(z, c) ==
    /\ Count(s.edit[z], c) > 1
    /\ Edit([s.edit EXCEPT ![z] = Keep(@, Card \ {c})], g)

\* A drag from one place to another, before the card at j, or (0) to the end.
Move(from, i, to, j) ==
    /\ i \in DOMAIN s.edit[from] /\ j \in 0..Len(s.edit[to])
    /\ LET c == s.edit[from][i]
           rest == [s.edit EXCEPT ![from] = RemoveAt(@, i)]
           at == IF j = 0 THEN Len(rest[to]) + 1 ELSE IF from = to /\ j > i THEN j - 1 ELSE j
       IN LegalIn(to, c) /\ Edit([rest EXCEPT ![to] = InsertAt(@, at, c)], g)

SortDeck == Edit(Sorted(s.edit), g)
TidyDeck == Edit(Tidied(s.edit, CardLimit), g)

\* Paste, or Ctrl+V, of .ydk text or a share code: whatever it holds, if it
\* holds a card.
Paste(d) == Size(d) > 0 /\ Edit(d, g)
PasteText == \E d \in Shared : Paste(FromText(ToText(d)))
PasteCode == \E d \in Shared : Paste(FromYdke(ToYdke(d)))

-----------------------------------------------------------------------------
(* Formats.                                                                 *)

SelectFormat(i) ==
    /\ InBuilder /\ i \in 0..Len(s.lists)
    /\ s' = [s EXCEPT !.fmt = i]
    /\ UNCHANGED <<g, Files, Counters>>

\* The editor: a name and limits, saved under the name's characters that may
\* stand in a file name, read back, and selected.
SaveFormat(n, limit) ==
    /\ InBuilder /\ Change
    /\ conf' = Put(conf, FileOf[n], [name |-> n, limit |-> limit])
    /\ LET lists == LoadBanlists(conf')
           named == {i \in DOMAIN lists : lists[i].name = n}
       IN s' = [s EXCEPT !.lists = lists,
                         !.fmt = IF named = {} THEN @
                                 ELSE CHOOSE i \in named : \A j \in named : j <= i]
    /\ UNCHANGED <<ydk, match, g, failures>>

-----------------------------------------------------------------------------
(* A match: its setup, "Side Deck" between games, and the next game.        *)

StartMatch(n) ==
    /\ s.screen = "lobby" /\ n \in DOMAIN ydk
    /\ match' = [file |-> n, temp |-> NoCards]
    /\ s' = [s EXCEPT !.screen = "duel", !.siding = FALSE]
    /\ UNCHANGED <<ydk, conf, g, Counters>>

SideDeck ==
    /\ s.screen = "duel"
    /\ s' = [s EXCEPT !.screen = "builder", !.siding = TRUE,
                      !.edit = LoadMatch, !.saved = LoadMatch]
    /\ g' = [g EXCEPT !.open = 0]
    /\ UNCHANGED <<Files, Counters>>

\* "Start Game n": the deck goes to the temp file, which no list shows; if
\* the write fails the file is truncated.
StartNext ==
    /\ InBuilder /\ s.siding /\ Change
    /\ \E kept \in BOOLEAN : \E started \in BOOLEAN :
       /\ kept \/ failures < MaxFailures
       /\ match' = [file |-> 0, temp |-> IF kept THEN s.edit ELSE NoCards]
       /\ failures' = failures + IF kept THEN 0 ELSE 1
       /\ s' = [s EXCEPT !.siding = FALSE,
                         !.screen = IF started THEN "duel" ELSE "builder"]
    /\ UNCHANGED <<ydk, conf, g>>

\* The match's deck is not used after the match.
EndMatch ==
    /\ s.screen = "duel" /\ s' = [s EXCEPT !.screen = "lobby"]
    /\ match' = [file |-> 0, temp |-> NoCards]
    /\ UNCHANGED <<ydk, conf, g, Counters>>

Next ==
    \/ \E pool \in BOOLEAN : OpenBuilder(pool)
    \/ ExitPool
    \/ Leave
    \/ LeaveAndDiscard
    \/ Refresh
    \/ \E i \in DOMAIN s.list : SelectDeck(i)
    \/ \E n \in 1..Decks : Save(n)
    \/ \E z \in Zone, c \in Card : AddCard(z, c)
    \/ \E z \in Zone, c \in Card : \E at \in DOMAIN s.edit[z] : DropCard(z, c, at)
    \/ \E z \in Zone : \E i \in DOMAIN s.edit[z] : RemoveOne(z, i)
    \/ \E z \in Zone, c \in Card : RemoveEvery(z, c)
    \/ \E from, to \in Zone : \E i \in DOMAIN s.edit[from], j \in 0..Len(s.edit[to]) :
          Move(from, i, to, j)
    \/ SortDeck
    \/ TidyDeck
    \/ PasteText
    \/ PasteCode
    \/ \E i \in 0..Len(s.lists) : SelectFormat(i)
    \/ \E n \in 1..Formats, limit \in EditorLimits : SaveFormat(n, limit)
    \/ \E n \in DOMAIN ydk : StartMatch(n)
    \/ SideDeck
    \/ StartNext
    \/ EndMatch

Spec == Init /\ [][Next]_vars

-----------------------------------------------------------------------------
(* Properties                                                               *)

\* A deck that shows no unsaved changes is on the disk: the file it was last
\* loaded from or saved to holds exactly its cards, through every edit, rename,
\* reload and siding -- unless overwriting that file failed, which the program
\* cannot tell from success (UI.cpp:14007-14012).
SavedMeansStored ==
    (~Dirty /\ g.open # 0 /\ g.open \notin g.torn) =>
        /\ g.open \in DOMAIN ydk
        /\ ydk[g.open] = s.edit

\* Tidy, applied to any deck the builder can hold, leaves a deck that is legal
\* but for being short, leaves a legal deck alone, and has nothing to do twice.
TidyMakesLegal ==
    LET t == Tidied(s.edit, CardLimit) IN
    /\ Legality(t, CardLimit) \in {"legal", "short"}
    /\ Legality(s.edit, CardLimit) = "legal" => t = s.edit
    /\ Tidied(t, CardLimit) = t

\* A deck copied as text or as a share code and pasted again is the same deck,
\* card by card, whatever the number of cards in a section does to the padding.
ShareRoundTrip ==
    FromText(ToText(s.edit)) = s.edit /\ FromYdke(ToYdke(s.edit)) = s.edit
=============================================================================
