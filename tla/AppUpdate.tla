----------------------------- MODULE AppUpdate -----------------------------
(***************************************************************************)
(* The in-app updater (edo::UpdateChecker) and its notice in the lobby:    *)
(* one thread asks for the latest release, another downloads the installer *)
(* beside its place and renames it, and the UI launches it and quits.      *)
(*                                                                         *)
(* A version is the sequence of its tokens: numbers, and V, Dot and Rest   *)
(* for a leading v, a dot and anything else, such as "-beta".              *)
(***************************************************************************)
EXTENDS Integers, Sequences

CONSTANTS
    Tag,            \* tag names a release may have
    Current         \* kAppVersion

VARIABLES
    check,      \* the check: asking, or finished (m_finished)
    latest,     \* m_latest when m_updateAvailable, else no release
    download,   \* m_dlState
    part,       \* the installer's .part file: none, or whole or cut off, and not yet
                \* renamed
    setup,      \* the installer: old (of an earlier update), none, whole, cut
    dismissed,  \* m_updateDismissed
    launched    \* which installer was launched, none before; g_quit follows

updVars == <<check, latest, download, part, setup, dismissed, launched>>

NoRelease == <<>>
V == -1
Dot == -2
Rest == -3

\* Faulty: only the first number that differs by being smaller ends it.
FaultyIsNewer(a, b) == \E i \in 1..3 : a[i] > b[i]

\* isNewer on parsed versions: the first difference decides.
IsNewer(a, b) ==
    \E i \in 1..3 : a[i] > b[i] /\ \A j \in 1..(i - 1) : a[j] = b[j]

\* parseVer: up to three numbers with dots between them; what is missing is 0.
ParseVer(s) ==
    LET start == IF s # <<>> /\ Head(s) = V THEN 2 ELSE 1
        At(k)     == start + 2 * (k - 1)
        Number(k) == At(k) \in DOMAIN s /\ s[At(k)] \in Nat
        Reads(k)  == /\ \A j \in 1..k : Number(j)
                     /\ \A j \in 1..(k - 1) : s[At(j) + 1] = Dot
    IN  [k \in 1..3 |-> IF Reads(k) THEN s[At(k)] ELSE 0]

UpdInit ==
    /\ check = "asking"
    /\ latest = NoRelease
    /\ download = "Idle" /\ part = "none"
    /\ setup = "old"
    /\ dismissed = FALSE
    /\ launched = "none"

-----------------------------------------------------------------------------
\* run: nothing is known without an answer; an older release is not offered.
\* (A release without an installer has a notice that only opens its page.)
Answered ==
    /\ check = "asking"
    /\ check' = "finished"
    /\ \/ UNCHANGED latest
       \/ \E t \in Tag : IsNewer(ParseVer(t), ParseVer(Current)) /\ latest' = t
    /\ UNCHANGED <<download, part, setup, dismissed, launched>>

Notice == latest # NoRelease /\ ~dismissed

\* "Update now": beginDownload.
UpdateNow ==
    /\ Notice /\ download = "Idle"
    /\ download' = "Running"
    /\ UNCHANGED <<check, latest, part, setup, dismissed, launched>>

\* httpDownloadToFile: the .part file is written, or the download fails and it is
\* removed.  One byte is enough: got is not compared with total, nor fclose's result
\* looked at, so what a connection brought that ended early is kept as well.
Written ==
    /\ download = "Running" /\ part = "none"
    /\ \/ part' \in {"whole", "cut"} /\ UNCHANGED download
       \/ download' = "Failed" /\ UNCHANGED part
    /\ UNCHANGED <<check, latest, setup, dismissed, launched>>

\* The old installer is removed and the new one renamed, which may be refused;
\* then the path and m_dlState are set under the lock.
Renamed ==
    /\ part # "none"
    /\ part' = "none"
    /\ \/ setup' = part /\ download' = "Ready"
       \/ setup' \in {"none", "old"} /\ download' = "Failed"
    /\ UNCHANGED <<check, latest, dismissed, launched>>

\* "Install & Restart": runInstaller, which may be refused; g_quit when it was
\* launched.
InstallAndRestart ==
    /\ Notice /\ download = "Ready"
    /\ launched' \in {setup, "none"}
    /\ UNCHANGED <<check, latest, download, part, setup, dismissed>>

\* "Later", hidden while a download runs.
Later ==
    /\ Notice /\ download # "Running"
    /\ dismissed' = TRUE
    /\ UNCHANGED <<check, latest, download, part, setup, launched>>

UpdUi == UpdateNow \/ InstallAndRestart \/ Later
UpdThreads == Answered \/ Written \/ Renamed
=============================================================================
