----------------------------- MODULE Downloads -----------------------------
(***************************************************************************)
(* Everything the program fetches while it runs, on one UI thread: card    *)
(* art (CardArt) and its own update (AppUpdate).  Both have threads of     *)
(* their own, and both stand between g_quit and the end of the process:    *)
(* Renderer::shutdown joins the art workers, ~UpdateChecker its download.  *)
(***************************************************************************)
EXTENDS CardArt, AppUpdate

VARIABLE
    quit        \* g_quit

vars == <<artVars, updVars, quit>>

Init == ArtInit /\ UpdInit /\ quit = FALSE

\* A frame's input and drawing; the installer that was launched ends the loop.
Frame ==
    /\ ~quit
    /\ \/ /\ \/ \E c \in Code : View(c) \/ Prefetch(c)
             \/ Count
             \/ SetImageDownload
             \/ SetMirrors
          /\ UNCHANGED <<updVars, quit>>
       \/ /\ ui = "free" /\ UpdUi
          /\ quit' = (launched' # "none")
          /\ UNCHANGED artVars

\* SDL_QUIT, between two frames.
CloseWindow ==
    /\ ui = "free" /\ ~quit
    /\ quit' = TRUE
    /\ UNCHANGED <<artVars, updVars>>

\* Game::shutdown: ~UpdateChecker joins its threads, then the Renderer its own.
Shutdown ==
    /\ quit
    /\ (Stop /\ check = "finished" /\ download # "Running") \/ Joined
    /\ UNCHANGED <<updVars, quit>>

ArtThread(w) == WorkerStep(w) /\ UNCHANGED <<updVars, quit>>
UpdateThreads == UpdThreads /\ UNCHANGED <<artVars, quit>>

Next ==
    \/ Frame
    \/ CloseWindow
    \/ Shutdown
    \/ \E w \in Worker : ArtThread(w)
    \/ UpdateThreads

\* Every card on the screen is drawn in every frame, and threads run: transfers
\* have timeouts.  Nobody has to click.
DrawCard(c) == ~quit /\ View(c) /\ UNCHANGED <<updVars, quit>>
EndRequest == ~quit /\ Count /\ UNCHANGED <<updVars, quit>>

Fairness ==
    /\ \A c \in Code : WF_vars(DrawCard(c))
    /\ WF_vars(EndRequest)
    /\ WF_vars(Shutdown)
    /\ \A w \in Worker : WF_vars(ArtThread(w))
    /\ WF_vars(UpdateThreads)

Spec == Init /\ [][Next]_vars /\ Fairness

-----------------------------------------------------------------------------
(* Properties                                                               *)

\* The order of releases: the first number weighs most, the third least.
Above(a, b) ==
    \/ a[1] > b[1]
    \/ a[1] = b[1] /\ a[2] > b[2]
    \/ a[1] = b[1] /\ a[2] = b[2] /\ a[3] > b[3]

\* The installer that is launched is the one this session's download put in place,
\* not one an earlier update left there, not one whose rename was refused; and it is
\* of a release above the running program (UI.cpp:4680, UpdateChecker.cpp:248).
\* Whether the download brought all of it the code does not know.
InstallerIsNew ==
    launched # "none" => /\ launched \in {"whole", "cut"}
                         /\ Above(ParseVer(latest), ParseVer(Current))
=============================================================================
