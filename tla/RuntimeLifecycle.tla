------------------------- MODULE RuntimeLifecycle -------------------------
(***************************************************************************)
(* The on-demand runtime of the desktop core: one virtual machine that     *)
(* requests start when they need it, that an idle watcher releases after a *)
(* quiet period, that the user can restart and that quitting stops.        *)
(*                                                                         *)
(* Coordinator (runtime_lifecycle.rs) is a mutex-protected record.  Every  *)
(* action below that reads or writes it is one critical section of that    *)
(* mutex; steps of different tasks interleave between critical sections.   *)
(* The callers are those of runtime.rs, shutdown.rs and health.rs.         *)
(*                                                                         *)
(* Simplifications:                                                        *)
(*  - State.active is the number of live Activity values.  The model keeps *)
(*    the values themselves: `outer` (a request's or a check's permit) and *)
(*    `inner` (the permit runtime::ensure and Coordinator::ensure take on  *)
(*    top of it).  active = 0 is Idle.                                     *)
(*  - State.revision is compared for equality with a remembered value and  *)
(*    nothing else.  The model keeps the set `stale` of the watchers whose *)
(*    remembered revision is no longer the current one.                    *)
(*  - can_release reads the channels, the recovery journal, the stop       *)
(*    intents, the pending configuration, the viewers and the containers;  *)
(*    `inUse` says that one of them forbids the release.                   *)
(*  - idle_health_ready reads what the watchdog published last; `healthy`  *)
(*    says that it found the gateway Healthy no more than 60 s ago.        *)
(*  - attempt, detail and error only feed the status page.                 *)
(***************************************************************************)
EXTENDS Integers, FiniteSets

CONSTANTS Requests,  \* tasks that use the runtime: write requests, page actions
          Checks,    \* maintenance tasks: the watchdog and its repairs
          Nobody,    \* no request holds the restart lock
          None,      \* no release deadline
          Grace,     \* IDLE_GRACE, in ticks
          MaxLag     \* BOUND: ticks one can_release may take

ASSUME TasksAssumption ==
  /\ Requests \cap Checks = {}
  /\ Nobody \notin Requests
  /\ {"idle", "quit"} \cap Requests = {}
ASSUME TimeAssumption == Grace \in Nat /\ MaxLag \in Nat /\ None \notin Int

VARIABLES
  phase,    \* State.phase
  closing,  \* State.closing
  outer,    \* holders of a permit
  inner,    \* requests that hold ensure's permit as well
  left,     \* State.deadline minus the present, or None
  flight,   \* State.flight: the task launched, and how far it is
  stale,    \* watchers whose remembered revision is outdated
  pc,       \* what each request is doing
  outcome,  \* what a request's flight receiver has got
  idle,     \* the idle watcher: spawn_idle and release_at
  lag,      \* ticks since the idle watcher read the clock
  healthy,  \* idle_health_ready: checked lately, and found Healthy
  restarter,\* holder of the RESTART lock
  quit,     \* shutdown::run
  inUse,    \* a durable reason not to release the runtime
  vm        \* the virtual machine

\* Auxiliary: ticks since a request last took or dropped a permit.
VARIABLE quiet

coordinator == <<phase, closing, outer, inner, left, flight>>
tasks == <<pc, outcome, restarter>>
watcher == <<idle, lag, healthy>>
vars == <<coordinator, stale, tasks, watcher, quit, inUse, vm, quiet>>

Watchers == Requests \cup {"idle", "quit"}
Phases == {"Dormant", "Starting", "Ready", "Waiting", "Releasing", "Failed"}
\* "recheck" and "teardown" are the two halves of release_inner.
Flights == {"none", "start", "recheck", "teardown", "restart"}

QuietCap == Grace + MaxLag

TypeOK ==
  /\ phase \in Phases
  /\ closing \in BOOLEAN
  /\ outer \subseteq Requests \cup Checks
  /\ inner \subseteq Requests
  /\ left \in (-MaxLag .. Grace) \cup {None}
  /\ flight \in Flights
  /\ stale \subseteq Watchers
  /\ pc \in [Requests -> {"out", "admitting", "blocked", "held", "probing",
                          "entering", "deciding", "joined", "using",
                          "restarting"}]
  /\ outcome \in [Requests -> {"none", "ok", "failed"}]
  /\ idle \in {"asleep", "checking", "yes", "no", "error", "waiting"}
  /\ lag \in 0 .. MaxLag
  /\ healthy \in BOOLEAN
  /\ restarter \in Requests \cup {Nobody}
  /\ quit \in {"open", "closing", "checking", "draining", "drained", "gaveUp",
               "channelsDone", "stopping", "exited"}
  /\ inUse \in BOOLEAN
  /\ vm \in {"off", "on"}
  /\ quiet \in 0 .. QuietCap

Init ==
  /\ phase = "Dormant"
  /\ closing = FALSE
  /\ outer = {}
  /\ inner = {}
  /\ left = None
  /\ flight = "none"
  /\ stale = {}
  /\ pc = [r \in Requests |-> "out"]
  /\ outcome = [r \in Requests |-> "none"]
  /\ idle = "asleep"
  /\ lag = 0
  /\ healthy = FALSE
  /\ restarter = Nobody
  /\ quit = "open"
  /\ inUse \in BOOLEAN
  /\ vm \in {"off", "on"}
  /\ quiet = 0

---------------------------------------------------------------------------
\* Coordinator helpers

Idle == outer = {} /\ inner = {}
Serving == phase \in {"Ready", "Waiting"}

\* publish: the revision moves on, so every remembered one is outdated, and the
\* watch channel wakes who waits for that.
CountOnly == stale' = stale \cup {"idle"}
Publish == stale' = Watchers

\* A permit is refused once quitting and delayed while the runtime is released.
AdmissibleWhileReleasing == ~closing
AdmissibleWhileClosing == phase # "Releasing"
Admissible == ~closing /\ phase # "Releasing"

\* A request's permit starts the quiet period again; a check's does not.
KeepsWaiting == UNCHANGED <<phase, left>>
RestartsQuiet ==
  /\ left' = None
  /\ phase' = IF phase = "Waiting" THEN "Ready" ELSE phase

\* unavailable(): observed trouble; the next explicit ensure starts again.
MarkUnavailable ==
  IF ~closing /\ Serving
    THEN phase' = "Failed" /\ left' = None /\ Publish
    ELSE UNCHANGED <<phase, left, stale>>

---------------------------------------------------------------------------
\* Requests: track_request, Coordinator::activity, runtime::ensure

\* A call of activity() subscribes to the revision before it looks.
Arrive(r) ==
  /\ pc[r] = "out"
  /\ pc' = [pc EXCEPT ![r] = "admitting"]
  /\ stale' = stale \ {r}
  /\ UNCHANGED <<coordinator, outcome, restarter, watcher, quit, inUse, vm, quiet>>

AdmitRefused(r) ==
  /\ pc[r] = "admitting"
  /\ closing
  /\ pc' = [pc EXCEPT ![r] = "out"]
  /\ restarter' = IF restarter = r THEN Nobody ELSE restarter
  /\ UNCHANGED <<coordinator, stale, outcome, watcher, quit, inUse, vm, quiet>>

AdmitGranted(r) ==
  /\ pc[r] = "admitting"
  /\ Admissible
  /\ outer' = outer \cup {r}
  /\ RestartsQuiet
  /\ Publish
  /\ pc' = [pc EXCEPT ![r] = "held"]
  /\ quiet' = 0
  /\ UNCHANGED <<closing, inner, flight, outcome, restarter, watcher, quit, inUse, vm>>

\* The release has begun: wait for the next change of the revision.
AdmitWaits(r) ==
  /\ pc[r] = "admitting"
  /\ ~closing /\ phase = "Releasing"
  /\ pc' = [pc EXCEPT ![r] = "blocked"]
  /\ UNCHANGED <<coordinator, stale, outcome, restarter, watcher, quit, inUse, vm, quiet>>

Wake(r) ==
  /\ pc[r] = "blocked"
  /\ r \in stale
  /\ pc' = [pc EXCEPT ![r] = "admitting"]
  /\ stale' = stale \ {r}
  /\ UNCHANGED <<coordinator, outcome, restarter, watcher, quit, inUse, vm, quiet>>

\* Dropping every permit r holds (Activity::drop), and its flight receiver.
Drop(r) ==
  /\ outer' = outer \ {r}
  /\ inner' = inner \ {r}
  /\ Publish
  /\ quiet' = 0
  /\ pc' = [pc EXCEPT ![r] = "out"]
  /\ outcome' = [outcome EXCEPT ![r] = "none"]
  /\ restarter' = IF restarter = r THEN Nobody ELSE restarter

\* The caller goes away while its future waits: the flight goes on without it.
Abandon(r) ==
  /\ r # restarter
  /\ \/ /\ pc[r] = "blocked"
        /\ pc' = [pc EXCEPT ![r] = "out"]
        /\ UNCHANGED <<outer, inner, stale, quiet, outcome, restarter>>
     \/ pc[r] = "joined" /\ Drop(r)
  /\ UNCHANGED <<phase, closing, left, flight, watcher, quit, inUse, vm>>

\* runtime::ensure looks at the machine itself when the phase says it serves.
EnsureBegins(r) ==
  /\ pc[r] = "held"
  /\ pc' = [pc EXCEPT ![r] = IF Serving THEN "probing" ELSE "entering"]
  /\ UNCHANGED <<coordinator, stale, outcome, restarter, watcher, quit, inUse, vm, quiet>>

MachineObserved(r) ==
  /\ pc[r] = "probing"
  /\ pc' = [pc EXCEPT ![r] = "entering"]
  /\ IF vm = "on" THEN UNCHANGED <<phase, left, stale>> ELSE MarkUnavailable
  /\ UNCHANGED <<closing, outer, inner, flight, outcome, restarter, watcher,
                 quit, inUse, vm, quiet>>

\* The machine's state cannot be read, or the inner permit is refused.
EnsureFailsEarly(r) ==
  /\ pc[r] = "probing" \/ (pc[r] = "entering" /\ closing)
  /\ Drop(r)
  /\ UNCHANGED <<phase, closing, left, flight, watcher, quit, inUse, vm>>

EnsureEnters(r) ==
  /\ pc[r] = "entering"
  /\ Admissible
  /\ inner' = inner \cup {r}
  /\ RestartsQuiet
  /\ Publish
  /\ pc' = [pc EXCEPT ![r] = "deciding"]
  /\ quiet' = 0
  /\ UNCHANGED <<closing, outer, flight, outcome, restarter, watcher, quit, inUse, vm>>

\* One round of Coordinator::ensure's loop: quitting, serving, join or start.
EnsureRefused(r) ==
  /\ pc[r] = "deciding"
  /\ closing
  /\ Drop(r)
  /\ UNCHANGED <<phase, closing, left, flight, watcher, quit, inUse, vm>>

EnsureServing(r) ==
  /\ pc[r] = "deciding"
  /\ ~closing /\ Serving
  /\ inner' = inner \ {r}
  /\ Publish
  /\ quiet' = 0
  /\ pc' = [pc EXCEPT ![r] = "using"]
  /\ UNCHANGED <<phase, closing, outer, left, flight, outcome, restarter,
                 watcher, quit, inUse, vm>>

EnsureJoins(r) ==
  /\ pc[r] = "deciding"
  /\ ~closing /\ phase \in {"Starting", "Releasing"}
  /\ pc' = [pc EXCEPT ![r] = "joined"]
  /\ UNCHANGED <<coordinator, stale, outcome, restarter, watcher, quit, inUse, vm, quiet>>

\* The task launched, runtime::start, first forgets the last check.
EnsureStarts(r) ==
  /\ pc[r] = "deciding"
  /\ ~closing /\ phase \in {"Dormant", "Failed"}
  /\ phase' = "Starting"
  /\ flight' = "start"
  /\ Publish
  /\ healthy' = FALSE
  /\ pc' = [pc EXCEPT ![r] = "joined"]
  /\ UNCHANGED <<closing, outer, inner, left, outcome, restarter, idle, lag, quit,
                 inUse, vm, quiet>>

EnsureReturns(r) ==
  /\ pc[r] = "joined"
  /\ \/ /\ outcome[r] = "ok"
        /\ inner' = inner \ {r}
        /\ Publish
        /\ quiet' = 0
        /\ pc' = [pc EXCEPT ![r] = "using"]
        /\ outcome' = [outcome EXCEPT ![r] = "none"]
        /\ UNCHANGED <<outer, restarter>>
     \/ outcome[r] = "failed" /\ Drop(r)
  /\ UNCHANGED <<phase, closing, left, flight, watcher, quit, inUse, vm>>

\* The operation itself: it may start or stop channels, edit rules, open a view.
ChangeIntent(r) ==
  /\ pc[r] \in {"held", "using"}
  /\ inUse' = ~inUse
  /\ UNCHANGED <<coordinator, stale, tasks, watcher, quit, vm, quiet>>

Finish(r) ==
  /\ pc[r] \in {"held", "using"}
  /\ Drop(r)
  /\ UNCHANGED <<phase, closing, left, flight, watcher, quit, inUse, vm>>

---------------------------------------------------------------------------
\* restart_route and stop_for_restart

\* What a launched stop may assume: nobody uses the runtime, nothing is launched.
RestartAllowed == ~closing /\ Idle /\ flight = "none"

RestartBegins(r) ==
  /\ pc[r] = "out"
  /\ restarter = Nobody
  /\ RestartAllowed
  /\ restarter' = r
  /\ phase' = "Releasing"
  /\ left' = None
  /\ flight' = "restart"
  /\ Publish
  /\ pc' = [pc EXCEPT ![r] = "restarting"]
  /\ UNCHANGED <<closing, outer, inner, outcome, watcher, quit, inUse, vm, quiet>>

\* The stop is over: ask for a permit like any request, or give up.
RestartStopped(r) ==
  /\ pc[r] = "restarting"
  /\ \/ /\ outcome[r] = "ok"
        /\ pc' = [pc EXCEPT ![r] = "admitting"]
        /\ stale' = stale \ {r}
        /\ UNCHANGED restarter
     \/ /\ outcome[r] = "failed"
        /\ pc' = [pc EXCEPT ![r] = "out"]
        /\ restarter' = Nobody
        /\ UNCHANGED stale
  /\ outcome' = [outcome EXCEPT ![r] = "none"]
  /\ UNCHANGED <<coordinator, watcher, quit, inUse, vm, quiet>>

---------------------------------------------------------------------------
\* Maintenance: checks occupy the runtime but are refused rather than delayed.

CheckBegins(c) ==
  /\ c \notin outer
  /\ Admissible
  /\ outer' = outer \cup {c}
  /\ KeepsWaiting
  /\ Publish
  /\ UNCHANGED <<closing, inner, flight, tasks, watcher, quit, inUse, vm, quiet>>

\* The watchdog publishes what its round found.
CheckPublishes(c) ==
  /\ c \in outer
  /\ healthy' \in BOOLEAN
  /\ UNCHANGED <<coordinator, stale, tasks, idle, lag, quit, inUse, vm, quiet>>

\* What was published is 60 s old, or was withdrawn: by a round that found the
\* runtime not serving, or by a repair by hand.
HealthLapses ==
  /\ healthy
  /\ healthy' = FALSE
  /\ UNCHANGED <<coordinator, stale, tasks, idle, lag, quit, inUse, vm, quiet>>

\* The watchdog saw the machine down several times in a row.
CheckReportsDown(c) ==
  /\ c \in outer
  /\ MarkUnavailable
  /\ UNCHANGED <<closing, outer, inner, flight, tasks, watcher, quit, inUse, vm, quiet>>

CheckEnds(c) ==
  /\ c \in outer
  /\ outer' = outer \ {c}
  /\ Publish
  /\ UNCHANGED <<phase, closing, inner, left, flight, tasks, watcher, quit,
                 inUse, vm, quiet>>

---------------------------------------------------------------------------
\* Coordinator::launch: the flight runs in a task of its own.

PhaseAfterOrClosing(result, success) ==
  IF closing THEN "Closing" ELSE IF result = "ok" THEN success ELSE "Failed"
PhaseAfter(result, success) == IF result = "ok" THEN success ELSE "Failed"

\* The receivers of this flight get its outcome; those of an earlier one keep theirs.
DeliverSuccess(result) ==
  outcome' = [r \in Requests |->
                IF pc[r] \in {"joined", "restarting"} /\ result = "ok"
                  THEN result ELSE outcome[r]]
Deliver(result) ==
  outcome' = [r \in Requests |->
                IF pc[r] \in {"joined", "restarting"} /\ outcome[r] = "none"
                  THEN result ELSE outcome[r]]

EndFlight(result, success) ==
  /\ phase' = PhaseAfter(result, success)
  /\ flight' = "none"
  /\ left' = None
  /\ Deliver(result)
  /\ idle' = IF idle = "waiting" THEN "asleep" ELSE idle
  /\ Publish
  /\ UNCHANGED <<closing, outer, inner, pc, restarter, lag, healthy, quit, quiet>>

\* runtime::start brings the machine up, then everything that runs in it.
MachineStarts ==
  /\ flight = "start" /\ vm = "off"
  /\ vm' = "on"
  /\ UNCHANGED <<coordinator, stale, tasks, watcher, quit, inUse, quiet>>

StartEnds ==
  /\ flight = "start"
  /\ \E result \in {"ok", "failed"} :
       /\ result = "ok" => vm = "on"
       /\ EndFlight(result, "Ready")
  /\ UNCHANGED <<inUse, vm>>

\* release_inner asks can_release again, now that no operation can begin.
ReleaseConfirmed ==
  /\ flight = "recheck"
  /\ ~inUse
  /\ flight' = "teardown"
  /\ UNCHANGED <<phase, closing, outer, inner, left, stale, tasks, watcher, quit,
                 inUse, vm, quiet>>

\* Still in use, or not confirmable.
ReleaseCancelled ==
  /\ flight = "recheck"
  /\ EndFlight("failed", "Dormant")
  /\ UNCHANGED <<inUse, vm>>

\* restart_route stops every channel first; a partial stop cancels the restart.
ChannelsStopForRestart ==
  /\ flight = "restart" /\ inUse
  /\ inUse' = FALSE
  /\ UNCHANGED <<coordinator, stale, tasks, watcher, quit, vm, quiet>>

MachineStops ==
  /\ vm = "on"
  /\ flight = "teardown" \/ (flight = "restart" /\ ~inUse)
  /\ vm' = "off"
  /\ UNCHANGED <<coordinator, stale, tasks, watcher, quit, inUse, quiet>>

\* Success needs the read-back of a stopped machine.
StopEnds ==
  /\ flight \in {"teardown", "restart"}
  /\ \E result \in {"ok", "failed"} :
       /\ result = "ok" => vm = "off"
       /\ EndFlight(result, "Dormant")
  /\ UNCHANGED <<inUse, vm>>

\* The machine dies on its own.
MachineLost ==
  /\ vm = "on"
  /\ vm' = "off"
  /\ UNCHANGED <<coordinator, stale, tasks, watcher, quit, inUse, quiet>>

---------------------------------------------------------------------------
\* The idle watcher: release_at in three parts, then the flight.

\* A round that finds the gateway not healthy, or not checked lately, is skipped.
IdleBegins ==
  /\ idle = "asleep"
  /\ healthy
  /\ ~closing /\ Idle /\ Serving
  /\ idle' = "checking"
  /\ lag' = 0
  /\ stale' = stale \ {"idle"}
  /\ UNCHANGED <<coordinator, tasks, healthy, quit, inUse, vm, quiet>>

\* can_release, without the mutex.
IdleReads ==
  /\ idle = "checking"
  /\ idle' \in {IF inUse THEN "no" ELSE "yes", "error"}
  /\ UNCHANGED <<coordinator, stale, tasks, lag, healthy, quit, inUse, vm, quiet>>

\* The answer counts only if nothing has changed since the watcher looked.
AnswerCounts == ~closing /\ Idle /\ "idle" \notin stale

IdleDiscards ==
  /\ idle \in {"yes", "no", "error"}
  /\ ~AnswerCounts
  /\ idle' = "asleep"
  /\ lag' = 0
  /\ UNCHANGED <<coordinator, stale, tasks, healthy, quit, inUse, vm, quiet>>

IdleDenied ==
  /\ idle \in {"no", "error"}
  /\ AnswerCounts
  /\ phase' = "Ready"
  /\ left' = None
  /\ Publish
  /\ idle' = "asleep"
  /\ lag' = 0
  /\ UNCHANGED <<closing, outer, inner, flight, tasks, healthy, quit, inUse, vm, quiet>>

\* The deadline in force (get_or_insert keeps an earlier one), and whether the clock the watcher read is before it.
DeadlineEachRound == Grace - lag
Deadline == IF left = None THEN Grace - lag ELSE left
BeforeDeadline == Deadline + lag > 0

IdleWaits ==
  /\ idle = "yes"
  /\ AnswerCounts
  /\ BeforeDeadline
  /\ phase' = "Waiting"
  /\ left' = Deadline
  /\ Publish
  /\ idle' = "asleep"
  /\ lag' = 0
  /\ UNCHANGED <<closing, outer, inner, flight, tasks, healthy, quit, inUse, vm, quiet>>

IdleReleases ==
  /\ idle = "yes"
  /\ AnswerCounts
  /\ ~BeforeDeadline
  /\ phase' = "Releasing"
  /\ left' = None
  /\ flight' = "recheck"
  /\ Publish
  /\ idle' = "waiting"
  /\ lag' = 0
  /\ UNCHANGED <<closing, outer, inner, tasks, healthy, quit, inUse, vm, quiet>>

TickedLeft == IF left = None \/ left = -MaxLag THEN left ELSE left - 1

Tick ==
  /\ IF idle \in {"checking", "yes", "no", "error"}
       THEN lag < MaxLag /\ lag' = lag + 1
       ELSE UNCHANGED lag
  /\ left' = TickedLeft
  /\ quiet' = IF quiet < QuietCap THEN quiet + 1 ELSE quiet
  /\ UNCHANGED <<phase, closing, outer, inner, flight, stale, tasks, idle, healthy,
                 quit, inUse, vm>>

---------------------------------------------------------------------------
\* shutdown::run: close the entrance, wait for accepted work, stop the rest.

BeginClosing ==
  /\ quit = "open"
  /\ quit' = "closing"
  /\ closing' = TRUE
  /\ left' = None
  /\ Publish
  /\ UNCHANGED <<phase, outer, inner, flight, tasks, watcher, inUse, vm, quiet>>

\* quiesce subscribes, closes again and looks.
QuiesceBegins ==
  /\ quit = "closing"
  /\ quit' = "checking"
  /\ closing' = TRUE
  /\ left' = None
  /\ Publish
  /\ UNCHANGED <<phase, outer, inner, flight, tasks, watcher, inUse, vm, quiet>>

Drained == Idle /\ flight = "none"

QuiesceLooks ==
  /\ quit = "checking"
  /\ quit' = IF Drained THEN "drained" ELSE "draining"
  /\ UNCHANGED <<coordinator, stale, tasks, watcher, inUse, vm, quiet>>

QuiesceWakes ==
  /\ quit = "draining"
  /\ "quit" \in stale
  /\ quit' = "checking"
  /\ stale' = stale \ {"quit"}
  /\ UNCHANGED <<coordinator, tasks, watcher, inUse, vm, quiet>>

\* The budget of the step is used up: go on without the work that is left.
QuiesceGivesUp ==
  /\ quit \in {"checking", "draining"}
  /\ quit' = "gaveUp"
  /\ UNCHANGED <<coordinator, stale, tasks, watcher, inUse, vm, quiet>>

QuitStopsChannels ==
  /\ quit \in {"drained", "gaveUp"}
  /\ quit' = "channelsDone"
  /\ inUse' \in {inUse, FALSE}
  /\ UNCHANGED <<coordinator, stale, tasks, watcher, vm, quiet>>

\* start_in_flight: quitting leaves a machine that is still being started alone.
StartInFlight == phase = "Starting" /\ flight # "none"

QuitStopsMachine ==
  /\ quit = "channelsDone"
  /\ ~StartInFlight
  /\ quit' = "stopping"
  /\ UNCHANGED <<coordinator, stale, tasks, watcher, inUse, vm, quiet>>

\* stop_vm is FALSE while the process boots, and skipped beside a start.
QuitLeavesMachine ==
  /\ quit = "channelsDone"
  /\ quit' = "exited"
  /\ UNCHANGED <<coordinator, stale, tasks, watcher, inUse, vm, quiet>>

QuitMachineStopped ==
  /\ quit = "stopping"
  /\ quit' = "exited"
  /\ vm' \in {"off", vm}
  /\ UNCHANGED <<coordinator, stale, tasks, watcher, inUse, quiet>>

Exited == quit = "exited" /\ UNCHANGED vars

---------------------------------------------------------------------------

RequestStep(r) ==
  \/ AdmitRefused(r) \/ AdmitGranted(r) \/ AdmitWaits(r) \/ Wake(r)
  \/ EnsureBegins(r) \/ MachineObserved(r) \/ EnsureFailsEarly(r)
  \/ EnsureEnters(r) \/ EnsureRefused(r) \/ EnsureServing(r)
  \/ EnsureJoins(r) \/ EnsureStarts(r) \/ EnsureReturns(r)
  \/ RestartStopped(r) \/ Finish(r)

FlightStep ==
  \/ MachineStarts \/ StartEnds
  \/ ReleaseConfirmed \/ ReleaseCancelled
  \/ ChannelsStopForRestart \/ MachineStops \/ StopEnds

IdleStep ==
  \/ IdleBegins \/ IdleReads
  \/ IdleDiscards \/ IdleDenied \/ IdleWaits \/ IdleReleases

QuitStep ==
  \/ QuiesceBegins \/ QuiesceLooks \/ QuiesceWakes \/ QuiesceGivesUp
  \/ QuitStopsChannels \/ QuitStopsMachine \/ QuitLeavesMachine
  \/ QuitMachineStopped

\* After the process has exited nothing of it moves.
Alive == quit # "exited"

Next ==
  \/ /\ Alive
     /\ \/ \E r \in Requests : \/ RequestStep(r) \/ Arrive(r) \/ Abandon(r)
                               \/ ChangeIntent(r) \/ RestartBegins(r)
        \/ \E c \in Checks : \/ CheckBegins(c) \/ CheckPublishes(c)
                             \/ CheckReportsDown(c) \/ CheckEnds(c)
        \/ HealthLapses
        \/ FlightStep
        \/ MachineLost
        \/ IdleStep
        \/ Tick
        \/ BeginClosing
        \/ QuitStep
  \/ Exited

Spec == Init /\ [][Next]_vars

\* The executor runs every runnable task, handlers return, commands have time
\* limits, and time passes whatever the idle watcher does.  Arrivals, restarts,
\* quitting and lost machines are never promised.
Fairness ==
  /\ \A r \in Requests : WF_vars(Alive /\ RequestStep(r))
  /\ \A c \in Checks : WF_vars(Alive /\ CheckEnds(c))
  /\ WF_vars(Alive /\ (StartEnds \/ ReleaseCancelled \/ StopEnds))
  /\ WF_vars(Alive /\ IdleStep)
  /\ SF_vars(Alive /\ Tick)
  /\ WF_vars(Alive /\ (QuiesceBegins \/ QuiesceLooks \/ QuiesceWakes))

LiveSpec == Spec /\ Fairness

---------------------------------------------------------------------------
\* Safety

\* A release or a restart owns the runtime alone: from the moment it is admitted
\* until its task has ended nobody holds a permit, so no operation works on a
\* machine that is being stopped (activity, maintenance, release_at,
\* stop_for_restart).  The Releasing branch of ensure is therefore unreachable.
ExclusiveRelease == phase = "Releasing" => Idle

\* The phase says Starting or Releasing exactly while such a task runs: nobody
\* else writes the phase meanwhile, no second task is launched, and the unwraps
\* of `flight` in ensure cannot panic.  release_at's answer and unavailable()
\* arrive late and are the ones that could overwrite it.
FlightMatchesPhase ==
  /\ phase = "Starting" <=> flight = "start"
  /\ phase = "Releasing" <=> flight \in {"recheck", "teardown", "restart"}

\* Whoever waits for the outcome of a flight waits for one that still runs.
NoOrphanWaiter ==
  /\ \A r \in Requests :
       /\ pc[r] = "joined" /\ outcome[r] = "none" => flight = "start"
       /\ pc[r] = "restarting" /\ outcome[r] = "none" => flight = "restart"
  /\ idle = "waiting" => flight \in {"recheck", "teardown"}

\* The idle release tears down only a runtime that nothing durable needs, though
\* operations that began and ended while can_release ran changed that.
TeardownOnlyUnused == flight = "teardown" => ~inUse

\* An operation whose ensure succeeded keeps the runtime until it returns its
\* permit: it may meet a failed or restarted machine, never a released one.
UsersKeepRuntime ==
  \A r \in Requests : pc[r] = "using" => phase \notin {"Dormant", "Releasing"}

\* Quitting stops the machine beside no start, even when the budget for the
\* accepted work is used up; and once quiesce has returned nothing is left.
QuitStopsAlone ==
  /\ quit = "stopping" => flight # "start"
  /\ quit = "drained" => Idle /\ flight = "none"

\* An idle release begins only after Grace ticks without a request, however long
\* the checks took and whatever maintenance ran in between.
GraceRespected ==
  [][flight = "none" /\ flight' = "recheck" => quiet >= Grace]_vars

\* Quitting is final: no permit is given and no task is launched any more.
QuitIsFinal ==
  [][closing => /\ closing'
                /\ outer' \subseteq outer /\ inner' \subseteq inner
                /\ flight = "none" => flight' = "none"]_vars

---------------------------------------------------------------------------
\* The inductive invariant behind the safety properties

\* A request's permits follow from where it is.
PermitsFollowPc ==
  \A r \in Requests :
    /\ r \in outer <=> pc[r] \in {"held", "probing", "entering", "deciding",
                                  "joined", "using"}
    /\ r \in inner <=> pc[r] \in {"deciding", "joined"}

\* While the revision is the one the idle watcher remembers, the runtime is as
\* it was when it looked: serving, without permits, and quiet since then.
Judging == idle \in {"checking", "yes", "no", "error"}
AnswerMeansUnchanged ==
  Judging /\ "idle" \notin stale => Serving /\ Idle /\ quiet >= lag

\* A deadline in force is Grace ticks after the last request, or later; none is
\* in force while a request holds a permit.
DeadlineCoversQuiet ==
  left # None => left + quiet >= Grace /\ outer \cap Requests = {}

ClosingFollowsQuit == closing = (quit # "open")

\* A flight that answered with success left a runtime that is not dormant.
SuccessMeansStarted ==
  \A r \in Requests : pc[r] = "joined" => phase \notin {"Dormant", "Releasing"}

IInv ==
  /\ TypeOK
  /\ ExclusiveRelease /\ FlightMatchesPhase /\ NoOrphanWaiter
  /\ TeardownOnlyUnused /\ UsersKeepRuntime /\ QuitStopsAlone
  /\ PermitsFollowPc /\ AnswerMeansUnchanged /\ DeadlineCoversQuiet
  /\ ClosingFollowsQuit /\ SuccessMeansStarted

---------------------------------------------------------------------------
\* Liveness

\* A caller that asked for the runtime gets it or an error: no wake-up is lost
\* between looking and waiting, and a flight whose first caller went away still
\* answers the others.  activity() is not a queue, so a waiter can be overtaken
\* by one release after another; the promise is for finitely many releases.
RequestAnswered ==
  <>[](phase # "Releasing") =>
    \A r \in Requests : []<>(pc[r] \in {"out", "held", "using"} \/ quit = "exited")

\* Accepted work and the tasks it waits for always end, so quitting can wait for
\* them: closing the entrance blocks nobody inside.
QuitDrains == []<>(quit = "open" \/ Drained \/ quit = "exited")

\* A runtime left alone is given back: if from some time on no request uses it,
\* nothing durable needs it, the watchdog goes on finding the gateway healthy and
\* can_release gives an answer, it is not serving for ever.  The watchdog's rounds
\* hold permits and move the revision for ever; each can cost the idle watcher a
\* round, and none may start the quiet period again.  That not every round is
\* lost, the idle loop comes round four times as often, is assumed
\* (runtime.rs:103-120, health.rs:614, 753; release_at, runtime_lifecycle.rs:222-259).
LeftAlone == /\ outer \cap Requests = {} /\ inner = {}
             /\ ~inUse /\ ~closing /\ idle # "error" /\ healthy
SomeRoundCounts == []<><<IdleWaits \/ IdleReleases>>_vars
IdleIsReleased == <>[]LeftAlone /\ SomeRoundCounts => []<>(~Serving)

\* Whoever releases, restarts or quits the runtime is alone with it: the machine
\* is torn down only while it is unused, no permit is given out meanwhile, who was
\* told that it serves keeps it until done, and the quit stops it only after every
\* accepted operation and no start is in flight (runtime_lifecycle.rs:140-215).
UseIsExclusive ==
  ExclusiveRelease /\ TeardownOnlyUnused /\ UsersKeepRuntime /\ QuitStopsAlone

\* Nobody waits for ever: who asked for the runtime is answered, and whoever quits
\* sees the accepted work come to its end (runtime_lifecycle.rs:105-215, 260-300).
WorkEnds == RequestAnswered /\ QuitDrains
===========================================================================
