------------------------------ MODULE ImageJobs ------------------------------
(***************************************************************************)
(* How images come into the private machine: an archive that is uploaded,  *)
(* shown and confirmed (image_import.rs), downloads asked for on the page  *)
(* (preflight.rs: PullTasks), the download a new channel needs and the one *)
(* the runtime's start needs (manager.rs, infra.rs).  All of them end in   *)
(* the same names of the same Docker (docker.rs: pull_retag_with_progress).*)
(*                                                                         *)
(* Simplifications:                                                        *)
(*  - The archives imported all claim one name, the downloads others.      *)
(*  - A mirror serves one architecture; the mirrors are tried in an order  *)
(*    of their own each time, as their reachability decides it.            *)
(*  - Names locked to a manifest (mihomo) are downloads that cannot be     *)
(*    mistaken: only a mirror that serves the right content is used.       *)
(*  - A finished download is forgotten at any time, and so is a preview    *)
(*    nobody loads: the hour and the half hour are left out.               *)
(***************************************************************************)
EXTENDS Integers, FiniteSets

CONSTANTS Tickets,      \* archives uploaded
          Places,       \* previews kept at once (4 in the code)
          Confirmers,   \* handlers of confirm
          Images,       \* names that are downloaded
          Jobs,         \* ids of download tasks
          Waiters,      \* who waits for a download of its own: a creation, the runtime's start
          MaxActive,    \* downloads at once (2 in the code)
          RightMirrors, WrongMirrors,  \* mirrors that serve this machine's architecture, and another
          MaxImageFaults  \* BOUND: failing calls, lost answers, timeouts

ASSUME ImageAssumption ==
  /\ Places \in Nat \ {0} /\ MaxActive \in Nat \ {0} /\ MaxImageFaults \in Nat
  /\ "nothing" \notin Tickets /\ "load" \notin Jobs \cup Waiters

VARIABLES
  tickets,   \* JOBS: per archive its status, whether it is listed, whether it still has its file
  sending,   \* the archive whose upload holds UPLOAD
  confirms,  \* confirm: per handler how far it is, with which ticket
  loading,   \* the task that loads, and before it the handler that holds LOAD
  loads,     \* how often each archive was given to Docker
  pulls,     \* PullTasks
  workers,   \* the downloads under way: step, image, mirror, mirrors left
  names,     \* Docker: what the names mean
  permits,   \* Activity: who keeps the runtime from being released
  giving,    \* the runtime is being released
  imageFaults

importVars == <<tickets, sending, confirms, loading, loads>>
pullVars == <<pulls, workers>>
imageVars == <<importVars, pullVars, names, permits, giving, imageFaults>>

Mirrors == RightMirrors \cup WrongMirrors
Nothing == "nothing"
Workers == Jobs \cup Waiters
NoTicket == [status |-> "none", listed |-> FALSE, file |-> FALSE]
Unused == [at |-> "idle", t |-> Nothing]
Resting == [at |-> "off", image |-> Nothing, mirror |-> Nothing, left |-> {}]

ImageTypeOK ==
  /\ tickets \in [Tickets -> [status : {"none", "preview", "loading", "done", "error"},
                              listed : BOOLEAN, file : BOOLEAN]]
  /\ sending \in Tickets \cup {Nothing}
  /\ confirms \in [Confirmers -> [at : {"idle", "seen", "waits"}, t : Tickets \cup {Nothing}]]
  /\ loading \in [at : {"idle", "held", "compare", "import", "readback"}, t : Tickets \cup {Nothing}]
  /\ loads \in [Tickets -> Nat]
  /\ pulls \in [Jobs -> [status : {"none", "running", "done", "error"}, image : Images \cup {Nothing},
                         over : BOOLEAN]]
  /\ workers \in [Workers -> [at : {"off", "look", "choose", "pull", "inspect", "refuse", "tag", "clean"},
                              image : Images \cup {Nothing}, mirror : Mirrors \cup {Nothing},
                              left : SUBSET Mirrors]]
  /\ names.template \in Tickets \cup {Nothing}
  /\ names.local \in [Images -> {Nothing, "right", "wrong"}]
  /\ names.mirror \in [Images \X Mirrors -> {Nothing, "right", "wrong"}]
  /\ permits \subseteq {"load"} \cup Workers /\ giving \in BOOLEAN
  /\ imageFaults \in 0 .. MaxImageFaults

ImageInit ==
  /\ tickets = [t \in Tickets |-> NoTicket] /\ sending = Nothing
  /\ confirms = [c \in Confirmers |-> Unused] /\ loading = Unused /\ loads = [t \in Tickets |-> 0]
  /\ pulls = [j \in Jobs |-> [status |-> "none", image |-> Nothing, over |-> FALSE]]
  /\ workers = [w \in Workers |-> Resting]
  /\ names = [template |-> Nothing, local |-> [i \in Images |-> Nothing],
              mirror |-> [x \in Images \X Mirrors |-> Nothing]]
  /\ permits = {} /\ giving = FALSE /\ imageFaults = MaxImageFaults

Mishap == imageFaults > 0 /\ imageFaults' = imageFaults - 1
Fine == UNCHANGED imageFaults

---------------------------------------------------------------------------
\* image_import.rs
Listed == {t \in Tickets : tickets[t].listed}

PlaceFree == Cardinality(Listed) < Places
Preview(t) ==
  /\ sending = Nothing /\ tickets[t] = NoTicket /\ PlaceFree
  /\ sending' = t
  /\ Fine /\ UNCHANGED <<tickets, confirms, loading, loads, pullVars, names, permits, giving>>
PreviewReady(t) ==
  /\ sending = t /\ sending' = Nothing
  /\ \/ Fine /\ tickets' = [tickets EXCEPT ![t] = [status |-> "preview", listed |-> TRUE, file |-> TRUE]]
     \/ Mishap /\ UNCHANGED tickets
  /\ UNCHANGED <<confirms, loading, loads, pullVars, names, permits, giving>>

\* discard, and prune once a preview is old: never while it loads.  discard holds the
\* table from its look at the status to the removal; a confirmation that takes the ticket
\* in between needs no table, and is one that takes it behind the removal.
Forgets(t) ==
  /\ tickets[t].listed /\ tickets[t].status # "loading"
  /\ tickets' = [tickets EXCEPT ![t].listed = FALSE]
  /\ Fine /\ UNCHANGED <<sending, confirms, loading, loads, pullVars, names, permits, giving>>

\* confirm: the ticket is looked at, LOAD taken, and the runtime's permit awaited.
ConfirmLooks(c, t) ==
  /\ confirms[c] = Unused /\ tickets[t].listed /\ tickets[t].status = "preview"
  /\ confirms' = [confirms EXCEPT ![c] = [at |-> "seen", t |-> t]]
  /\ Fine /\ UNCHANGED <<tickets, sending, loading, loads, pullVars, names, permits, giving>>
ConfirmHolds(c) ==
  /\ confirms[c].at = "seen"
  /\ IF loading = Unused
     THEN /\ loading' = [at |-> "held", t |-> Nothing]
          /\ confirms' = [confirms EXCEPT ![c].at = "waits"]
     ELSE /\ confirms' = [confirms EXCEPT ![c] = Unused] /\ UNCHANGED loading
  /\ Fine /\ UNCHANGED <<tickets, sending, loads, pullVars, names, permits, giving>>

Taken(t) == tickets[t].status # "preview" \/ ~tickets[t].file
\* The permit is there: the ticket is looked at again, taken, and handed to the task.
ConfirmTakes(c) ==
  /\ confirms[c].at = "waits" /\ ~giving
  /\ confirms' = [confirms EXCEPT ![c] = Unused]
  /\ LET t == confirms[c].t IN
     IF Taken(t) THEN loading' = Unused /\ UNCHANGED <<tickets, permits>>
     ELSE /\ tickets' = [tickets EXCEPT ![t].status = "loading", ![t].file = FALSE]
          /\ loading' = [at |-> "compare", t |-> t]
          /\ permits' = permits \cup {"load"}
  /\ Fine /\ UNCHANGED <<sending, loads, pullVars, names, giving>>

\* load: Docker is asked before and after; only the answer after it counts.
LoadEnds(status) ==
  /\ tickets' = [tickets EXCEPT ![loading.t].status = status]
  /\ loading' = Unused /\ permits' = permits \ {"load"}
LoadGoes(at) == loading' = [loading EXCEPT !.at = at] /\ UNCHANGED <<tickets, permits>>
Matches == names.template = loading.t
LoadCompares ==
  /\ loading.at = "compare"
  /\ \/ Fine /\ IF Matches THEN LoadEnds("done") ELSE LoadGoes("import")
     \/ Mishap /\ LoadEnds("error")
  /\ UNCHANGED <<sending, confirms, loads, pullVars, names, giving>>
LoadSends ==
  /\ loading.at = "import"
  /\ loads' = [loads EXCEPT ![loading.t] = @ + 1]
  /\ \/ /\ Fine /\ LoadGoes("readback")
        /\ names' = [names EXCEPT !.template = loading.t]
     \/ /\ Mishap
        /\ LoadGoes("readback") \/ LoadEnds("error")
        /\ UNCHANGED names \/ names' = [names EXCEPT !.template = loading.t]
  /\ UNCHANGED <<sending, confirms, pullVars, giving>>
\* A variant: the end of the transfer counts as success.
LoadTrusted == TRUE
LoadConfirmed == Matches
LoadReadsBack ==
  /\ loading.at = "readback"
  /\ \/ Fine /\ LoadEnds(IF LoadConfirmed THEN "done" ELSE "error")
     \/ Mishap /\ LoadEnds("error")
  /\ UNCHANGED <<sending, confirms, loads, pullVars, names, giving>>

ImportNext ==
  \/ \E t \in Tickets : Preview(t) \/ PreviewReady(t) \/ Forgets(t)
                        \/ \E c \in Confirmers : ConfirmLooks(c, t)
  \/ \E c \in Confirmers : ConfirmHolds(c) \/ ConfirmTakes(c)
  \/ LoadCompares \/ LoadSends \/ LoadReadsBack

---------------------------------------------------------------------------
\* preflight.rs: the table of downloads.
Active == {j \in Jobs : pulls[j].status # "none" /\ ~pulls[j].over}
Shared(i) == \E j \in Active : pulls[j].image = i
Worker(w, i) ==
  workers' = [workers EXCEPT ![w] = [at |-> "choose", image |-> i, mirror |-> Nothing, left |-> Mirrors]]
StartPull(j, i) ==
  /\ ~giving /\ pulls[j].status = "none" /\ ~Shared(i) /\ Cardinality(Active) < MaxActive
  /\ pulls' = [pulls EXCEPT ![j] = [status |-> "running", image |-> i, over |-> FALSE]]
  /\ Worker(j, i) /\ permits' = permits \cup {j}
  /\ Fine /\ UNCHANGED <<importVars, names, giving>>
\* prune: finished downloads are forgotten.
ForgetsPull(j) ==
  /\ pulls[j].over
  /\ pulls' = [pulls EXCEPT ![j] = [status |-> "none", image |-> Nothing, over |-> FALSE]]
  /\ Fine /\ UNCHANGED <<importVars, workers, names, permits, giving>>

\* ensure_image_mirrored and ensure_mihomo_image: the caller waits, so nobody shares them.
EnsureImage(w, i) ==
  /\ workers[w] = Resting /\ ~giving
  /\ names.local[i] = Nothing
  /\ Worker(w, i) /\ permits' = permits \cup {w}
  /\ Fine /\ UNCHANGED <<importVars, pulls, names, giving>>
\* ensure_bundled_images: an archive of the application's own, loaded when the name is free.
LoadBundled(i) ==
  /\ ~giving /\ names.local[i] = Nothing
  /\ names' = [names EXCEPT !.local[i] = "right"]
  /\ Mishap /\ UNCHANGED <<importVars, pullVars, permits, giving>>

WorkerGoes(w, at) == workers' = [workers EXCEPT ![w].at = at] /\ UNCHANGED <<pulls, permits>>
\* set_task, and PullCompletion when the task is dropped: also if it was cut off.
WorkerEnds(w, status) ==
  /\ workers' = [workers EXCEPT ![w] = Resting] /\ permits' = permits \ {w}
  /\ IF w \in Jobs THEN pulls' = [pulls EXCEPT ![w].status = status, ![w].over = TRUE]
     ELSE UNCHANGED pulls
\* An error of a mirror leads to the next one.
NextMirror(w) == WorkerGoes(w, "choose")
Source(w) == <<workers[w].image, workers[w].mirror>>

Chooses(w) ==
  /\ workers[w].at = "choose"
  /\ \/ \E m \in workers[w].left :
          /\ workers' = [workers EXCEPT ![w].at = "pull", ![w].mirror = m, ![w].left = @ \ {m}]
          /\ UNCHANGED <<pulls, permits>>
     \/ workers[w].left = {} /\ WorkerEnds(w, "error")
  /\ Fine /\ UNCHANGED <<importVars, names, giving>>
Fetches(w) ==
  /\ workers[w].at = "pull"
  /\ \/ /\ Fine /\ WorkerGoes(w, "inspect")
        /\ names' = [names EXCEPT !.mirror[Source(w)] =
                       IF workers[w].mirror \in RightMirrors THEN "right" ELSE "wrong"]
     \/ Mishap /\ NextMirror(w) /\ UNCHANGED names
  /\ UNCHANGED <<importVars, giving>>
ArchFits(w) == names.mirror[Source(w)] = "right"
Inspects(w) ==
  /\ workers[w].at = "inspect"
  /\ IF names.mirror[Source(w)] = Nothing THEN NextMirror(w)
     ELSE WorkerGoes(w, IF ArchFits(w) THEN "tag" ELSE "refuse")
  /\ Fine /\ UNCHANGED <<importVars, names, giving>>
Refuses(w) ==
  /\ workers[w].at = "refuse"
  /\ names' = [names EXCEPT !.mirror[Source(w)] = Nothing]
  /\ NextMirror(w)
  /\ Fine /\ UNCHANGED <<importVars, giving>>
Tags(w) ==
  /\ workers[w].at = "tag"
  /\ \/ /\ Fine /\ names.mirror[Source(w)] # Nothing
        /\ names' = [names EXCEPT !.local[workers[w].image] = names.mirror[Source(w)]]
        /\ WorkerGoes(w, "clean")
     \/ /\ IF names.mirror[Source(w)] = Nothing THEN Fine ELSE Mishap
        /\ NextMirror(w) /\ UNCHANGED names
  /\ UNCHANGED <<importVars, giving>>
\* The mirror's own name is removed; a failure is only reported.
Cleans(w) ==
  /\ workers[w].at = "clean"
  /\ \/ Fine /\ names' = [names EXCEPT !.mirror[Source(w)] = Nothing]
     \/ Mishap /\ UNCHANGED names
  /\ WorkerEnds(w, "done")
  /\ UNCHANGED <<importVars, giving>>
CutOff(w) ==
  /\ workers[w].at # "off" /\ Mishap /\ WorkerEnds(w, "error")
  /\ UNCHANGED <<importVars, names, giving>>

PullNext ==
  \/ \E j \in Jobs : ForgetsPull(j) \/ \E i \in Images : StartPull(j, i)
  \/ \E i \in Images : LoadBundled(i) \/ \E w \in Waiters : EnsureImage(w, i)
  \/ \E w \in Workers : \/ Chooses(w) \/ Fetches(w) \/ Inspects(w) \/ Refuses(w) \/ Tags(w)
                        \/ Cleans(w) \/ CutOff(w)

\* The runtime is released only when nobody holds a permit (RuntimeLifecycle).
Releases ==
  /\ giving' = ~giving /\ (giving \/ permits = {})
  /\ Fine /\ UNCHANGED <<importVars, pullVars, names, permits>>
\* Somebody gives the template's name to another image, or removes it.
NameMoves ==
  /\ \E t \in Tickets \cup {Nothing} : t # names.template /\ names' = [names EXCEPT !.template = t]
  /\ Mishap /\ UNCHANGED <<importVars, pullVars, permits, giving>>

\* The archives and the downloads meet in the runtime's permits only.
ArchiveNext == ImportNext \/ NameMoves \/ Releases
DownloadNext == PullNext \/ Releases
ImageNext == ArchiveNext \/ DownloadNext
ImageSpec == ImageInit /\ [][ImageNext]_imageVars

---------------------------------------------------------------------------
\* An archive is given to Docker at most once however often it is confirmed; at most
\* Places tickets are listed; and a ticket says that it loads exactly while the load that
\* has LOAD is about it.  A ticket that was forgotten between the confirmation's look and
\* its taking loads all the same, unlisted, with a file beside those of the listed ones.
ImportedOnce ==
  /\ \A t \in Tickets : loads[t] <= 1
  /\ Cardinality(Listed) <= Places
  /\ \A t \in Tickets : tickets[t].status = "loading" <=> (loading.t = t)
\* No name is given to an image of another architecture, though tasks, a new channel and
\* the start of the runtime fetch it through the same names of the mirrors.
NameFits == \A i \in Images : names.local[i] # "wrong"
\* At most MaxActive downloads of the page, never two of one image, and a task that is
\* over is marked as such: it gives its place back.
PlacesReturn ==
  /\ Cardinality(Active) <= MaxActive
  /\ \A j, k \in Active : j # k => pulls[j].image # pulls[k].image
  /\ \A j \in Active : workers[j].at # "off"
\* While anything is fetched or loaded the runtime is not released.
NotReleasedMeanwhile ==
  giving => loading.at \in {"idle", "held"} /\ \A w \in Workers : workers[w].at = "off"
ImagesInOrder == ImportedOnce /\ NameFits /\ PlacesReturn /\ NotReleasedMeanwhile

\* "Done" is said only in a step in which Docker named the archive's own image.
DoneIsConfirmed ==
  [][\A t \in Tickets : tickets[t].status # "done" /\ tickets'[t].status = "done" =>
       names.template = t]_imageVars

\* While it loads a ticket stays on the list, though the dialog is closed or the preview
\* gets old: whoever confirmed it can ask for the outcome (discard, prune).
LoadIsFollowed ==
  [][\A t \in Tickets : tickets[t].listed /\ tickets[t].status = "loading" =>
       tickets'[t].listed]_imageVars

\* ImagesInOrder at any time, and what a step may never do to a ticket
\* (image_import.rs: discard, confirm, load; preflight.rs: PullTasks).
ImagesKept == []ImagesInOrder /\ DoneIsConfirmed /\ LoadIsFollowed
=============================================================================
