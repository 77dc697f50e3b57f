------------------------------ MODULE CardArt -------------------------------
(***************************************************************************)
(* Card art on demand: edo::ImageFetcher, its queue, state map and worker  *)
(* pool, and the Renderer that asks for textures every frame.              *)
(*                                                                         *)
(* The UI thread draws a card (View) or queues a deck's art (Prefetch); a  *)
(* request changes the state map and the queue under m_mx and counts the   *)
(* code after it has let go of the lock.  Workers take jobs, fetch, write  *)
(* beside the file and rename, set the state under m_mx and count down     *)
(* after it.  What a host answers is left open: nothing, or a body, which  *)
(* need not be a picture.                                                  *)
(*                                                                         *)
(* The worker that is told of nothing waits until there is a job or an end *)
(* (m_cv); a wake-up that stop() may lose is not modelled.                 *)
(***************************************************************************)
EXTENDS Integers, Sequences, FiniteSets

CONSTANTS
    Code,           \* cards on the screen
    Thumbnail,      \* cards whose art was bundled as a thumbnail
    Worker,         \* the pool's threads
    MaxSettings     \* bound: changes of the two settings

ASSUME CardArtAssumption ==
    /\ IsFiniteSet(Code) /\ IsFiniteSet(Worker)
    /\ Thumbnail \subseteq Code /\ MaxSettings \in Nat

VARIABLES
    st,         \* m_state
    queue,      \* m_queue
    count,      \* m_inFlightCount
    job,        \* what each worker is at
    file,       \* assets/cards/<code>.jpg: none, small (an old thumbnail), torn
                \* while it is being copied over, full, bad (what was served is no
                \* picture, or a part of one)
    tex,        \* m_cardTextures: none, unknown (the placeholder), or what was
                \* read from the file
    upgrading,  \* m_upgradingArt
    on,         \* m_downloadImages, and the fetcher's m_enabled
    running,    \* m_running
    ui,         \* the UI thread: free, adding (before a request's counting),
                \* joining in stop(), gone
    settled,    \* ghost: what was cached with downloads off or after a failure
    settings    \* bounded by MaxSettings

artVars == <<st, queue, count, job, file, tex, upgrading, on, running, ui,
             settled, settings>>

Idle == [at |-> "idle"]
Doing(c, at, ok) == [at |-> at, code |-> c, ok |-> ok]

ArtInit ==
    /\ st = [c \in Code |-> "None"]
    /\ queue = <<>>
    /\ count = 0
    /\ job = [w \in Worker |-> Idle]
    /\ file = [c \in Code |-> IF c \in Thumbnail THEN "small" ELSE "none"]
    /\ tex = [c \in Code |-> "none"]
    /\ upgrading = {}
    /\ on \in BOOLEAN
    /\ running = TRUE
    /\ ui = "free"
    /\ settled = {}
    /\ settings = 0

-----------------------------------------------------------------------------
(* The UI thread                                                            *)

\* The early returns of ImageFetcher::request.
Accepts(c) == on /\ running /\ st[c] = "None"

\* ImageFetcher::request up to the end of the lock.
Request(c) ==
    IF Accepts(c)
    THEN /\ st' = [st EXCEPT ![c] = "InFlight"]
         /\ queue' = Append(queue, c)
         /\ ui' = "adding"
    ELSE UNCHANGED <<st, queue, ui>>

\* The rest of it.
Count ==
    /\ ui = "adding"
    /\ count' = count + 1
    /\ ui' = "free"
    /\ UNCHANGED <<st, queue, job, file, tex, upgrading, on, running, settled,
                   settings>>

Cache(c, what) ==
    /\ tex' = [tex EXCEPT ![c] = what]
    /\ settled' = IF ~on \/ st[c] = "Failed" THEN settled \cup {c} ELSE settled

\* A finished upgrade, whose stale texture is dropped.
Upgraded(c) == c \in upgrading /\ st[c] = "Done"

\* Faulty: the file is read while the fetch may be writing it.
FaultyWaits(c) == FALSE

\* The placeholder is shown, and nothing cached, while a first fetch runs.
Waits(c) == on /\ c \notin upgrading /\ st[c] = "InFlight"

\* Faulty: the placeholder is cached with the request.
FaultyMissing(c) ==
    /\ Cache(c, "unknown")
    /\ IF on THEN Request(c) ELSE UNCHANGED <<st, queue, ui>>

\* Nothing that can be decoded on disk: a download, or the placeholder for good.
Missing(c) ==
    IF on /\ st[c] \in {"None", "InFlight"}
    THEN Request(c) /\ UNCHANGED <<tex, settled>>
    ELSE Cache(c, "unknown") /\ UNCHANGED <<st, queue, ui>>

\* Renderer::getCardTexture within the frame's budget.
View(c) ==
    /\ ui = "free"
    /\ tex[c] = "none" \/ Upgraded(c)
    /\ ~Waits(c)
    /\ \/ /\ file[c] \in {"none", "torn", "bad"}      \* loadTexture refuses it
          /\ Missing(c)
          /\ upgrading' = IF Upgraded(c) THEN upgrading \ {c} ELSE upgrading
       \/ /\ file[c] # "none"
          /\ LET upgrade == on /\ file[c] = "small" /\ st[c] = "None"
             IN  /\ Cache(c, file[c])
                 /\ IF upgrade THEN Request(c) ELSE UNCHANGED <<st, queue, ui>>
                 /\ upgrading' = IF upgrade THEN upgrading \cup {c}
                                 ELSE upgrading \ {c}
    /\ UNCHANGED <<count, job, file, on, running, settings>>

\* Renderer::prefetchCard.
Prefetch(c) ==
    /\ ui = "free" /\ on /\ tex[c] = "none" /\ file[c] = "none" /\ st[c] = "None"
    /\ Request(c)
    /\ UNCHANGED <<count, job, file, tex, upgrading, on, running, settled, settings>>

\* Renderer::setImageDownload.
SetImageDownload ==
    /\ ui = "free" /\ settings < MaxSettings
    /\ on' = ~on
    /\ settings' = settings + 1
    /\ UNCHANGED <<st, queue, count, job, file, tex, upgrading, running, ui, settled>>

\* Faulty: what is being fetched is armed as well.
FaultyRearmed == {c \in Code : st[c] \in {"Failed", "InFlight"}}

Rearmed == {c \in Code : st[c] = "Failed"}

\* ImageFetcher::setMirrors.
SetMirrors ==
    /\ ui = "free" /\ on /\ settings < MaxSettings
    /\ st' = [c \in Code |-> IF c \in Rearmed THEN "None" ELSE st[c]]
    /\ settings' = settings + 1
    /\ UNCHANGED <<queue, count, job, file, tex, upgrading, on, running, ui, settled>>

\* Renderer::shutdown: stop() lets the workers empty the queue and joins them.
Stop ==
    /\ ui = "free"
    /\ running' = FALSE
    /\ ui' = "joining"
    /\ UNCHANGED <<st, queue, count, job, file, tex, upgrading, on, settled, settings>>

Joined ==
    /\ ui = "joining" /\ \A w \in Worker : job[w].at = "exited"
    /\ tex' = [c \in Code |-> "none"]
    /\ ui' = "gone"
    /\ UNCHANGED <<st, queue, count, job, file, upgrading, on, running, settled,
                   settings>>

-----------------------------------------------------------------------------
(* The workers                                                              *)

WorkerSets(w, j) == job' = [job EXCEPT ![w] = j]

Take(w) ==
    /\ job[w] = Idle /\ queue # <<>>
    /\ WorkerSets(w, Doing(Head(queue), "fetching", FALSE))
    /\ queue' = Tail(queue)
    /\ UNCHANGED <<st, count, file, tex, upgrading, on, running, ui, settled, settings>>

Exit(w) ==
    /\ job[w] = Idle /\ queue = <<>> /\ ~running
    /\ WorkerSets(w, [at |-> "exited"])
    /\ UNCHANGED <<st, queue, count, file, tex, upgrading, on, running, ui, settled,
                   settings>>

\* What a fetch that succeeds has put in place: a 200 with a body is enough.  It may
\* be no picture, or cut short by the host or by an fclose that nobody looks at.
Served == {"full", "bad"}

\* fetchToFile: no host serves anything, or the file beside cannot be written;
\* or it is renamed; or a rename that is refused turns into a copy.
Fetch(w) ==
    /\ job[w].at = "fetching"
    /\ LET c == job[w].code
       IN  \/ WorkerSets(w, Doing(c, "fetched", FALSE)) /\ UNCHANGED file
           \/ /\ WorkerSets(w, Doing(c, "fetched", TRUE))
              /\ file' \in {[file EXCEPT ![c] = f] : f \in Served}
           \/ /\ WorkerSets(w, Doing(c, "copying", TRUE))
              /\ file' = [file EXCEPT ![c] = "torn"]
    /\ UNCHANGED <<st, queue, count, tex, upgrading, on, running, ui, settled, settings>>

\* The copy ends, or breaks off and leaves what was written.
Copied(w) ==
    /\ job[w].at = "copying"
    /\ \/ /\ file' \in {[file EXCEPT ![job[w].code] = f] : f \in Served}
          /\ WorkerSets(w, Doing(job[w].code, "fetched", TRUE))
       \/ /\ WorkerSets(w, Doing(job[w].code, "fetched", FALSE))
          /\ UNCHANGED file
    /\ UNCHANGED <<st, queue, count, tex, upgrading, on, running, ui, settled, settings>>

SetState(w) ==
    /\ job[w].at = "fetched"
    /\ st' = [st EXCEPT ![job[w].code] = IF job[w].ok THEN "Done" ELSE "Failed"]
    /\ WorkerSets(w, [job[w] EXCEPT !.at = "counting"])
    /\ UNCHANGED <<queue, count, file, tex, upgrading, on, running, ui, settled,
                   settings>>

CountDown(w) ==
    /\ job[w].at = "counting"
    /\ count' = count - 1
    /\ WorkerSets(w, Idle)
    /\ UNCHANGED <<st, queue, file, tex, upgrading, on, running, ui, settled, settings>>

WorkerStep(w) ==
    Take(w) \/ Exit(w) \/ Fetch(w) \/ Copied(w) \/ SetState(w) \/ CountDown(w)

-----------------------------------------------------------------------------
(* Properties                                                               *)

Busy(w) == job[w].at \notin {"idle", "exited"}
Fetches(c) == {w \in Worker : Busy(w) /\ job[w].code = c /\ job[w].at # "counting"}

\* A code in flight is in the queue once or at one worker, never at two, who
\* would write the same .part file; and the counter the lobby shows is the number
\* of codes in flight, but for a request and the workers between the lock and
\* their counting (request, workerLoop).
FetchedOnceAndCounted ==
    /\ \A c \in Code :
          Cardinality({i \in DOMAIN queue : queue[i] = c}) + Cardinality(Fetches(c))
              = IF st[c] = "InFlight" THEN 1 ELSE 0
    /\ count + (IF ui = "adding" THEN 1 ELSE 0)
          = Cardinality({c \in Code : st[c] = "InFlight"})
            + Cardinality({w \in Worker : job[w].at = "counting"})

\* "A half-written image is never observed by the renderer's loadTexture"
\* (ImageFetcher.cpp:232): while downloads are on, no file is read that a worker is
\* writing, not even when the rename is refused and turns into a copy over it.
NeverReadsWhileWritten ==
    [][\A c \in Code : on /\ (\E w \in Fetches(c) : job[w].at = "copying")
                        => tex'[c] \in {tex[c], "none"}]_artVars

\* A picture that has landed is shown, in place of the placeholder and of a thumbnail
\* (getCardTexture), unless something was cached for good while downloads were
\* off or after a failure.  (A body that is no picture has landed too: then the
\* placeholder, or what can be decoded of it, stays for the session.)
LandedArtAppears ==
    \A c \in Code :
        st[c] = "Done" ~>
            (tex[c] = "full" \/ file[c] = "bad" \/ c \in settled
                \/ ui \in {"joining", "gone"})
=============================================================================
