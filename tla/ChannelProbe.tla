--------------------------- MODULE ChannelProbe ---------------------------
(***************************************************************************)
(* One channel under its probes (lifecycle.rs): samples that read the      *)
(* channel under its operation lock, a probe of up to 32 s that runs       *)
(* without the lock and reports afterwards, the set of lost channels that  *)
(* the entry kernel blocks, and the background worker that brings the      *)
(* kernel up to date with that set.  Beside them run the handlers that     *)
(* change the channel, the runtime's start, release and loss, and the      *)
(* quit.                                                                   *)
(*                                                                         *)
(* Simplifications:                                                        *)
(*  - Slot.generation, RebuildQueue.revision and RebuildQueue.recovery are *)
(*    only compared for equality with a remembered value.  The model keeps *)
(*    the outcome of the comparison with the value remembered: `fresh`,    *)
(*    `revised`, `recovered`.                                              *)
(*  - A sample that joins a flight waits for its answer and, if the        *)
(*    generation moved, samples again; the samplers here sample again      *)
(*    anyway.  The replies, the cached reply and the latency curve are not *)
(*    modelled.                                                            *)
(*  - manager::rebuild is config_apply::apply: it holds the apply lock,    *)
(*    reads the channels and the lost set, and installs what it read.      *)
(*    `blocks` is the installed configuration's verdict on the channel.    *)
(*  - Steps of one task with no await between them are one action.         *)
(***************************************************************************)
EXTENDS Integers

CONSTANTS Samplers,    \* "background": spawn_sampler; "page": /status and /health
          LostAfter,   \* LOST_AFTER
          MaxFailures, \* BOUND: rebuilds that fail
          MaxHandlers, \* BOUND: handlers that arrive
          MayQuit      \* whether the application may be quit

ASSUME ProbeAssumption ==
  /\ Samplers \subseteq {"background", "page"}
  /\ LostAfter \in Nat \ {0} /\ MaxFailures \in Nat /\ MaxHandlers \in Nat
  /\ MayQuit \in BOOLEAN

VARIABLES
  custom,    \* vpn_type is "custom": blocked until an address is proved
  status,    \* channels.status
  target,    \* what verify_target::pick finds
  holder,    \* the handler: the step it is at
  op,        \* the handler: the operation
  undo,      \* update_inner's copy of target and status, for its rollback
  seen,      \* per sampler: what its snapshot said, or NoSnapshot
  probing,   \* ProbeState.in_flight with what the task captured, and
             \* ProbeState.background_requested (wanted)
  failures,  \* ProbeState.failures
  lost,      \* ProbeState.lost, and the channel's membership of LOST
  resync,    \* ProbeState.resync
  handshake, \* the host target is in ProbeState.handshake_ok
  queue,     \* RebuildQueue: pending, due, revised, recovered
  worker,    \* the rebuild worker ("off" when not running)
  applying,  \* holder of the apply lock, and the verdict it has read
  blocks,    \* the kernel blocks the channel's rules
  runtime,   \* the coordinator's phase, as far as this component asks
  closing,   \* Lifecycle.closing
  budget,    \* rebuild failures left
  arrivals   \* handlers still to arrive

\* Auxiliary: a handler's own rebuild failed, the journal has it pending.
VARIABLE owed
\* Auxiliary: the row's logged_in was measured on the present instance and address.
VARIABLE proved
\* Auxiliary: background verdicts "down" about the present instance in a row.
VARIABLE streak

row == <<custom, status, target>>
handler == <<holder, op, undo>>
probe == <<failures, lost, resync, handshake>>
kernel == <<applying, blocks, owed>>
bounds == <<budget, arrivals>>
probeVars == <<row, handler, seen, probing, probe, queue, worker, kernel,
               runtime, closing, bounds, proved, streak>>

Live == {"running", "logged_in"}
NoSnapshot == [target |-> "unread", open |-> FALSE, fresh |-> FALSE]
NoFlight == [on |-> FALSE, target |-> "none", open |-> FALSE, wanted |-> FALSE,
             fresh |-> FALSE, genuine |-> FALSE]
\* What a flight captured no longer matters once the generation has moved.
StaleFlight == [NoFlight EXCEPT !.on = TRUE]
NoCopy == [target |-> "none", status |-> "stopped", proved |-> FALSE]
NoQueue == [pending |-> FALSE, due |-> FALSE, revised |-> FALSE, recovered |-> FALSE]
Operations == {"start", "stop", "verify", "retarget"}
Targets == {"none", "url", "host"}

ProbeTypeOK ==
  /\ custom \in BOOLEAN
  /\ status \in Live \cup {"stopped", "error"}
  /\ target \in Targets
  /\ holder \in {"out", "ensuring", "admitted", "locked", "changed", "applying",
                 "undone", "reapplying"}
  /\ op \in Operations \cup {"none"}
  /\ undo \in [target : Targets, status : Live \cup {"stopped", "error"},
               proved : BOOLEAN]
  /\ seen \in [Samplers -> [target : Targets \cup {"unread"}, open : BOOLEAN,
                            fresh : BOOLEAN]]
  /\ probing \in [on : BOOLEAN, target : Targets, open : BOOLEAN, wanted : BOOLEAN,
                  fresh : BOOLEAN, genuine : BOOLEAN]
  /\ {lost, resync, handshake, blocks, closing, owed, proved} \subseteq BOOLEAN
  /\ failures \in 0 .. LostAfter
  /\ queue \in [pending : BOOLEAN, due : BOOLEAN, revised : BOOLEAN,
                recovered : BOOLEAN]
  /\ worker \in {"off", "awake", "rebuilding", "refused"}
  /\ applying \in [by : {"nobody", "worker", "handler"}, verdict : BOOLEAN]
  /\ runtime \in {"off", "starting", "recovering", "serving", "releasing"}
  /\ budget \in 0 .. MaxFailures /\ arrivals \in 0 .. MaxHandlers
  /\ streak \in 0 .. LostAfter

ProbeInit ==
  /\ custom \in BOOLEAN
  /\ status = "stopped"
  /\ target \in IF custom THEN {"none", "url"} ELSE Targets
  /\ holder = "out" /\ op = "none" /\ undo = NoCopy
  /\ seen = [s \in Samplers |-> NoSnapshot]
  /\ probing = NoFlight
  /\ failures = 0 /\ lost = FALSE /\ resync = FALSE /\ handshake = FALSE
  /\ queue = NoQueue
  /\ worker = "off"
  /\ applying = [by |-> "nobody", verdict |-> FALSE]
  /\ blocks = FALSE
  /\ runtime = "off"
  /\ closing = FALSE
  /\ budget = MaxFailures /\ arrivals = MaxHandlers
  /\ owed = FALSE /\ proved = FALSE /\ streak = 0

---------------------------------------------------------------------------
\* The operation lock, the generation and the lost set.

OperationHeld ==
  holder \in {"locked", "changed", "applying", "undone", "reapplying"}

\* manager::channel_blocked.
Blocked ==
  \/ status = "error"
  \/ lost
  \/ custom /\ status # "stopped" /\ (target = "none" \/ status # "logged_in")

\* generation.fetch_add: what was remembered before is no longer current.
NextGeneration ==
  /\ seen' = [s \in Samplers |-> [seen[s] EXCEPT !.fresh = FALSE]]
  /\ probing' = IF probing.on THEN StaleFlight ELSE NoFlight

\* ProbeState::lift, after failures = 0.
Lifted == lost' = FALSE /\ failures' = 0 /\ resync' = (resync \/ lost)

\* ProbeState::verified.
Counts(t) == t = "url" \/ handshake

\* spawn_rebuild and start_rebuild_worker.
StartedWorker == IF worker = "off" /\ ~closing THEN "awake" ELSE worker
SpawnRebuild ==
  /\ queue' = [queue EXCEPT !.pending = TRUE, !.revised = (worker = "rebuilding")]
  /\ worker' = StartedWorker
NoRebuild == UNCHANGED <<queue, worker>>

---------------------------------------------------------------------------
\* sample_with_origin.

\* A background sample is scheduled only while the runtime serves.
Look(s) ==
  /\ seen[s] = NoSnapshot
  /\ ~closing /\ ~OperationHeld
  /\ status \in Live
  /\ s = "background" => runtime = "serving"
  /\ seen' = [seen EXCEPT ![s] = [target |-> target, fresh |-> TRUE,
                                 open |-> custom /\ status = "logged_in"]]
  /\ UNCHANGED <<row, handler, probing, probe, queue, worker, kernel, runtime,
                 closing, bounds, proved, streak>>

GivesUp(s) ==
  /\ seen' = [seen EXCEPT ![s] = NoSnapshot]
  /\ UNCHANGED <<row, handler, probing, probe, queue, worker, kernel, runtime,
                 closing, bounds, proved, streak>>

\* The channel is busy, changed, or the runtime is not serving.
SampleEnds(s) ==
  /\ seen[s] # NoSnapshot
  /\ IF seen[s].target = "none"
       THEN OperationHeld \/ ~seen[s].fresh \/ status \notin Live
       ELSE runtime # "serving" \/ ~seen[s].fresh
  /\ GivesUp(s)

\* Without a target there is nothing to prove and no ground to block.
TargetMissing(s) ==
  /\ seen[s] # NoSnapshot /\ seen[s].target = "none"
  /\ ~OperationHeld /\ seen[s].fresh /\ status \in Live
  /\ status' = "running"
  /\ lost' = FALSE /\ failures' = 0 /\ resync' = FALSE
  /\ IF lost \/ resync \/ (custom /\ status = "logged_in")
       THEN SpawnRebuild ELSE NoRebuild
  /\ streak' = 0
  /\ proved' = FALSE
  /\ seen' = [seen EXCEPT ![s] = NoSnapshot]
  /\ UNCHANGED <<custom, target, handler, probing, handshake, kernel, runtime,
                 closing, bounds>>

Join(s) ==
  /\ seen[s].fresh /\ seen[s].target # "none"
  /\ runtime = "serving"
  /\ probing.on
  /\ probing' = [probing EXCEPT !.wanted = @ \/ s = "background"]
  /\ seen' = [seen EXCEPT ![s] = NoSnapshot]
  /\ UNCHANGED <<row, handler, probe, queue, worker, kernel, runtime, closing,
                 bounds, proved, streak>>

\* The flight is genuine while the instance and the address it probes stay.
TakeOff(s) ==
  /\ seen[s].fresh /\ seen[s].target # "none"
  /\ runtime = "serving" /\ ~closing
  /\ ~probing.on
  /\ probing' = [on |-> TRUE, target |-> seen[s].target, open |-> seen[s].open,
                 wanted |-> s = "background", fresh |-> TRUE, genuine |-> TRUE]
  /\ seen' = [seen EXCEPT ![s] = NoSnapshot]
  /\ UNCHANGED <<row, handler, probe, queue, worker, kernel, runtime, closing,
                 bounds, proved, streak>>

---------------------------------------------------------------------------
\* The flight reports.

\* The channel is busy or changed, or the probe itself failed: nothing is written.
ReportDiscarded ==
  /\ probing.on
  /\ probing' = NoFlight
  /\ UNCHANGED <<row, handler, seen, probe, queue, worker, kernel, runtime,
                 closing, bounds, proved, streak>>

\* set_probe_result writes only to a running channel of the same generation.
ReportUnchecked == probing.on /\ ~OperationHeld /\ ~closing /\ status \in Live
ReportAccepted ==
  probing.on /\ ~OperationHeld /\ probing.fresh /\ ~closing /\ status \in Live

\* The rebuild a report asks for: a threshold crossed, a lift not yet followed
\* by one, or a custom channel whose gate the verdict moves.
RebuildAfter(up) ==
  lost' # lost \/ resync \/ (custom /\ up # probing.open)

ReportUp ==
  /\ ReportAccepted
  /\ status' = "logged_in"
  /\ proved' = probing.genuine
  /\ handshake' = (handshake \/ probing.target = "host")
  /\ IF probing.wanted
       THEN failures' = 0 /\ lost' = FALSE /\ streak' = 0
       ELSE UNCHANGED <<failures, lost, streak>>
  /\ IF RebuildAfter(TRUE) THEN SpawnRebuild ELSE NoRebuild
  /\ resync' = FALSE
  /\ probing' = NoFlight
  /\ UNCHANGED <<custom, target, handler, seen, kernel, runtime, closing, bounds>>

Capped(n) == IF n < LostAfter THEN n + 1 ELSE n

ReportDown ==
  /\ ReportAccepted
  /\ status' = "running"
  /\ proved' = FALSE
  /\ IF Counts(probing.target)
       THEN /\ failures' = IF probing.wanted THEN Capped(failures) ELSE failures
            /\ lost' = (lost \/ (probing.wanted /\ failures' >= LostAfter))
       ELSE /\ lost' = FALSE
            /\ failures' = IF lost THEN 0 ELSE failures
  /\ streak' = IF probing.genuine /\ probing.wanted THEN Capped(streak) ELSE streak
  /\ IF RebuildAfter(FALSE) THEN SpawnRebuild ELSE NoRebuild
  /\ resync' = FALSE
  /\ probing' = NoFlight
  /\ UNCHANGED <<custom, target, handler, seen, handshake, kernel, runtime, closing,
                 bounds>>

---------------------------------------------------------------------------
\* The rebuild worker.

\* A rebuild begins: the apply lock, then the channels and the lost set.
ReadVerdict(by) ==
  /\ applying.by = "nobody"
  /\ applying' = [by |-> by, verdict |-> Blocked]
  /\ UNCHANGED <<blocks, owed>>

Installed == blocks' = applying.verdict /\ owed' = FALSE
Unlock == applying' = [by |-> "nobody", verdict |-> FALSE]

WorkerLeaves ==
  /\ worker = "awake"
  /\ ~queue.pending \/ closing
  /\ worker' = "off"
  /\ UNCHANGED <<row, handler, seen, probing, probe, queue, kernel, runtime,
                 closing, bounds, proved, streak>>

WorkerMayRun == worker = "awake" /\ queue.pending /\ ~closing /\ ~queue.due

WorkerBegins ==
  /\ WorkerMayRun
  /\ runtime # "releasing"
  /\ ReadVerdict("worker")
  /\ worker' = "rebuilding"
  /\ UNCHANGED <<row, handler, seen, probing, probe, queue, runtime, closing,
                 bounds, proved, streak>>

\* Coordinator::maintenance gives no permit during a release; pending stays.
WorkerRefused ==
  /\ WorkerMayRun
  /\ runtime = "releasing"
  /\ worker' = "refused"
  /\ UNCHANGED <<row, handler, seen, probing, probe, queue, kernel, runtime,
                 closing, bounds, proved, streak>>

WorkerGone ==
  /\ worker = "refused"
  /\ worker' = "off"
  /\ UNCHANGED <<row, handler, seen, probing, probe, queue, kernel, runtime,
                 closing, bounds, proved, streak>>

ClearsPending == FALSE
\* What was asked for while the rebuild ran is still to be done.
PendingAfterRebuild == queue.revised

WorkerInstalls ==
  /\ worker = "rebuilding" /\ runtime = "serving"
  /\ Installed /\ Unlock
  /\ queue' = [NoQueue EXCEPT !.pending = PendingAfterRebuild]
  /\ worker' = "awake"
  /\ UNCHANGED <<row, handler, seen, probing, probe, runtime, closing, bounds,
                 proved, streak>>

\* A failed rebuild waits, unless the runtime or the link came back meanwhile.
DueAfterFailure == ~queue.recovered

WorkerFails ==
  /\ worker = "rebuilding"
  /\ runtime = "serving" => budget > 0
  /\ budget' = IF runtime = "serving" THEN budget - 1 ELSE budget
  /\ UNCHANGED arrivals
  /\ queue' = [NoQueue EXCEPT !.pending = TRUE, !.due = DueAfterFailure]
  /\ worker' = "awake"
  /\ Unlock
  /\ UNCHANGED <<row, handler, seen, probing, probe, blocks, owed, runtime,
                 closing, proved, streak>>

\* rebuild_delay passes.
DuePasses ==
  /\ queue.due
  /\ queue' = [queue EXCEPT !.due = FALSE]
  /\ UNCHANGED <<row, handler, seen, probing, probe, worker, kernel, runtime,
                 closing, bounds, proved, streak>>

RetryAfterRecovery ==
  /\ queue' = [queue EXCEPT !.due = FALSE, !.recovered = (worker = "rebuilding")]
  /\ worker' = IF queue.pending THEN StartedWorker ELSE worker

\* The watchdog sees the link healthy again.
LinkRecovers ==
  /\ runtime = "serving" /\ ~closing
  /\ RetryAfterRecovery
  /\ UNCHANGED <<row, handler, seen, probing, probe, kernel, runtime, closing,
                 bounds, proved, streak>>

---------------------------------------------------------------------------
\* Handlers that change the channel.  start_inner ensures the runtime first;
\* the others take the runtime as they find it.

HandlerArrives(o) ==
  /\ holder = "out" /\ arrivals > 0
  /\ arrivals' = arrivals - 1
  /\ op' = o
  /\ holder' = IF o = "start" THEN "ensuring" ELSE "admitted"
  /\ UNCHANGED <<row, undo, seen, probing, probe, queue, worker, kernel, runtime,
                 closing, budget, proved, streak>>

HandlerLeaves ==
  /\ holder' = "out"
  /\ op' = "none" /\ undo' = NoCopy

\* ensure begins the start, or finds the runtime serving.
EnsureBegins ==
  /\ holder = "ensuring"
  /\ runtime \in {"off", "serving"} /\ ~closing
  /\ IF runtime = "off"
       THEN runtime' = "starting" /\ UNCHANGED holder
       ELSE holder' = "admitted" /\ UNCHANGED runtime
  /\ UNCHANGED <<row, op, undo, seen, probing, probe, queue, worker, kernel,
                 closing, bounds, proved, streak>>

\* The machine and its services are up.
StartRecovers ==
  /\ runtime = "starting"
  /\ runtime' = "recovering"
  /\ UNCHANGED <<row, handler, seen, probing, probe, queue, worker, kernel,
                 closing, bounds, proved, streak>>

\* The start recovers every channel under its operation lock, then rebuilds.
\* A start takes seconds: a worker that was refused a permit is gone by then.
RuntimeStarts ==
  /\ runtime = "recovering"
  /\ ~OperationHeld
  /\ applying.by = "nobody"
  /\ worker # "refused"
  /\ runtime' = "serving"
  /\ \/ blocks' = Blocked /\ owed' = FALSE /\ UNCHANGED budget
     \/ budget > 0 /\ budget' = budget - 1 /\ owed' = TRUE /\ UNCHANGED blocks
  /\ UNCHANGED arrivals
  /\ holder' = IF holder = "ensuring" THEN "admitted" ELSE holder
  /\ RetryAfterRecovery
  /\ UNCHANGED <<row, op, undo, seen, probing, probe, applying, closing, proved,
                 streak>>

StartFails ==
  /\ runtime = "starting"
  /\ runtime' = "off"
  /\ HandlerLeaves
  /\ UNCHANGED <<row, seen, probing, probe, queue, worker, kernel, closing,
                 bounds, proved, streak>>

\* mutate: a new generation, and the count starts over.
Mutates == op # "verify"

HandlerLocks ==
  /\ holder = "admitted"
  /\ ~closing /\ runtime # "releasing"
  /\ holder' = "locked"
  /\ IF Mutates
       THEN NextGeneration /\ Lifted /\ streak' = 0
       ELSE UNCHANGED <<seen, probing, lost, failures, resync, streak>>
  /\ UNCHANGED <<row, op, undo, handshake, queue, worker, kernel,
                 runtime, closing, bounds, proved>>

\* activity and access refuse once the application is closing.
HandlerRefused ==
  /\ holder \in {"ensuring", "admitted"} /\ closing
  /\ runtime \notin {"starting", "recovering"}
  /\ HandlerLeaves
  /\ UNCHANGED <<row, seen, probing, probe, queue, worker, kernel, runtime,
                 closing, bounds, proved, streak>>

NewInstance == probing' = [probing EXCEPT !.genuine = FALSE]

\* The change itself.
StartsChannel ==
  /\ op = "start"
  /\ status' \in {"running", "error"}
  /\ NewInstance /\ proved' = FALSE
  /\ holder' = "changed"
  /\ UNCHANGED <<target, undo>>
StopsChannel ==
  /\ op = "stop"
  /\ status' = "stopped"
  /\ NewInstance /\ proved' = FALSE
  /\ holder' = "changed"
  /\ UNCHANGED <<target, undo>>
\* update_channel saves a custom channel's address and withdraws the proof.
Retargets ==
  /\ op = "retarget" /\ custom
  /\ target' \in {"none", "url"}
  /\ status' = IF status = "logged_in" THEN "running" ELSE status
  /\ undo' = [target |-> target, status |-> status, proved |-> proved]
  /\ NewInstance /\ proved' = FALSE
  /\ holder' = "changed"
HandlerChanges ==
  /\ holder = "locked"
  /\ StartsChannel \/ StopsChannel \/ Retargets
  /\ UNCHANGED <<custom, op, seen, probe, queue, worker, kernel, runtime, closing,
                 bounds, streak>>

\* A change of the name, a request refused, an address that does not answer.
HandlerKeeps ==
  /\ holder = "locked"
  /\ HandlerLeaves
  /\ UNCHANGED <<row, seen, probing, probe, queue, worker, kernel, runtime,
                 closing, bounds, proved, streak>>

\* verify_target: the probe ran under the lock; address and proof are saved
\* together, and target_confirmed_locked starts a new generation.
TargetConfirmed ==
  /\ holder = "locked" /\ op = "verify"
  /\ status \in Live
  /\ target' = "url" /\ status' = "logged_in" /\ proved' = TRUE
  /\ NextGeneration
  /\ lost' = FALSE /\ failures' = 0 /\ resync' = FALSE
  /\ streak' = 0
  /\ holder' = "changed"
  /\ UNCHANGED <<custom, op, undo, handshake, queue, worker, kernel,
                 runtime, closing, bounds>>

HandlerApplies ==
  /\ holder \in {"changed", "undone"}
  /\ ReadVerdict("handler")
  /\ holder' = IF holder = "changed" THEN "applying" ELSE "reapplying"
  /\ UNCHANGED <<row, op, undo, seen, probing, probe, queue, worker, runtime,
                 closing, bounds, proved, streak>>

HandlerInstalls ==
  /\ holder \in {"applying", "reapplying"} /\ runtime = "serving"
  /\ Installed /\ Unlock
  /\ HandlerLeaves
  /\ UNCHANGED <<row, seen, probing, probe, queue, worker, runtime, closing,
                 bounds, proved, streak>>

ApplyFails ==
  /\ runtime = "serving" => budget > 0
  /\ budget' = IF runtime = "serving" THEN budget - 1 ELSE budget
  /\ UNCHANGED arrivals
  /\ Unlock /\ owed' = TRUE /\ UNCHANGED blocks

\* update_inner takes the address back when the kernel did not follow.
RollsBack ==
  /\ holder = "applying" /\ op = "retarget"
  /\ ApplyFails
  /\ target' = undo.target
  /\ status' = IF undo.status \in Live THEN undo.status ELSE status
  /\ proved' = undo.proved
  /\ holder' = "undone"
  /\ UNCHANGED <<custom, op, undo, seen, probing, probe, queue, worker, runtime,
                 closing, streak>>

HandlerFails ==
  /\ holder = "reapplying" \/ (holder = "applying" /\ op # "retarget")
  /\ ApplyFails
  /\ HandlerLeaves
  /\ UNCHANGED <<row, seen, probing, probe, queue, worker, runtime, closing,
                 proved, streak>>

\* add_rules and the like take no operation lock: a host to probe comes or goes.
\* Their own rebuild renders the same verdict on the channel.
RulesEdited ==
  /\ ~custom /\ target # "url"
  /\ target' = IF target = "none" THEN "host" ELSE "none"
  /\ UNCHANGED <<custom, status, handler, seen, probing, probe, queue, worker,
                 kernel, runtime, closing, bounds, proved, streak>>

---------------------------------------------------------------------------
\* The runtime and the quit.

\* Every operation, flight and rebuild holds an activity of the runtime.
InUse == probing.on \/ OperationHeld \/ worker = "rebuilding"

\* An idle release needs a stopped channel; a restart stops it, without the lock.
ReleaseBegins ==
  /\ runtime = "serving" /\ ~closing /\ ~InUse
  /\ runtime' = "releasing"
  /\ status' = IF status \in Live THEN "stopped" ELSE status
  /\ proved' = FALSE
  /\ UNCHANGED <<custom, target, handler, seen, probing, probe, queue, worker,
                 kernel, closing, bounds, streak>>

\* The release ends, or fails: either way the runtime must be ensured again.
ReleaseEnds ==
  /\ runtime = "releasing"
  /\ runtime' = "off"
  /\ UNCHANGED <<row, handler, seen, probing, probe, queue, worker, kernel,
                 closing, bounds, proved, streak>>

\* Coordinator::unavailable.
RuntimeLost ==
  /\ runtime = "serving"
  /\ runtime' = "off"
  /\ UNCHANGED <<row, handler, seen, probing, probe, queue, worker, kernel,
                 closing, bounds, proved, streak>>

BeginsClosing ==
  /\ MayQuit /\ ~closing
  /\ closing' = TRUE
  /\ UNCHANGED <<row, handler, seen, probing, probe, queue, worker, kernel,
                 runtime, bounds, proved, streak>>

Reports == ReportDiscarded \/ ReportUp \/ ReportDown
\* A verdict somebody in the background waits for, not a page alone.
BackgroundReports == probing.wanted /\ (ReportUp \/ ReportDown)
SamplerStep(s) ==
  Look(s) \/ SampleEnds(s) \/ TargetMissing(s) \/ Join(s) \/ TakeOff(s)
WorkerStep ==
  \/ WorkerLeaves \/ WorkerBegins \/ WorkerRefused \/ WorkerGone
  \/ WorkerInstalls \/ WorkerFails
HandlerStep ==
  \/ EnsureBegins \/ HandlerLocks \/ HandlerRefused \/ HandlerChanges
  \/ HandlerKeeps \/ TargetConfirmed \/ HandlerApplies \/ HandlerInstalls
  \/ RollsBack \/ HandlerFails
RuntimeStep == StartRecovers \/ RuntimeStarts \/ StartFails \/ ReleaseEnds

ProbeNext ==
  \/ \E s \in Samplers : SamplerStep(s)
  \/ Reports
  \/ WorkerStep \/ DuePasses \/ LinkRecovers
  \/ \E o \in Operations : HandlerArrives(o)
  \/ HandlerStep
  \/ RulesEdited
  \/ RuntimeStep \/ ReleaseBegins \/ RuntimeLost \/ BeginsClosing

\* The sampler's ticker, the tasks it starts, the worker and the timers all
\* run on, and the apply lock is a fair mutex.  A probe that is tried again and
\* again comes to a verdict some time: without one nothing can be told.
ProbeFairness ==
  /\ WF_probeVars(SamplerStep("background"))
  /\ SF_probeVars(BackgroundReports)
  /\ WF_probeVars(Reports)
  /\ WF_probeVars(WorkerStep) /\ WF_probeVars(DuePasses)
  /\ WF_probeVars(HandlerStep) /\ WF_probeVars(RuntimeStep)
  /\ SF_probeVars(HandlerApplies) /\ SF_probeVars(WorkerBegins)
  /\ SF_probeVars(RuntimeStarts)

ProbeSpec == ProbeInit /\ [][ProbeNext]_probeVars /\ ProbeFairness

---------------------------------------------------------------------------
\* Properties.

\* A channel shown as logged in was measured on the instance and the address
\* it has now, however long the probe took and whatever happened meanwhile.
LoggedInIsProved == status = "logged_in" => proved

\* A channel is taken for lost only after LOST_AFTER background verdicts in a
\* row on this instance: what an earlier one failed does not count.
LostTakesRun == lost => streak >= LostAfter

\* A stopped channel has no rules in the kernel (store::effective_rules).
KernelBehind == runtime = "serving" /\ status # "stopped" /\ blocks # Blocked

\* The kernel's rules do not stay behind the lost set and the custom gate: the
\* worker or a handler brings them up to date while the runtime serves, unless
\* a handler reported that its own rebuild failed.  A handler at work puts the
\* samples off, so the promise is for a channel left alone.
KernelFollows == []<>(~KernelBehind \/ owed \/ closing \/ holder # "out")

\* "The criterion of the entry's configuration and of the probe's answer is one: a
\* custom channel is let through after a proof, and blocked at once when it is not
\* connected" (manager.rs:62-64).  The code breaks it where two samplers sample: a
\* report asks whether the gate moves (521) of the status its sampler read before it
\* waited for the probe's lock, and another verdict may have come in between.
GateFollows == custom => KernelFollows

\* Every handler ends: none waits for a start that waits for its lock.
HandlersEnd == []<>(holder = "out")

\* The probes neither claim a login nobody proved nor take traffic away without
\* the failures that call for it (lifecycle.rs:20-60, 318-470).
ProbeHonest == LoggedInIsProved /\ LostTakesRun

\* What the probes and the handlers have found is true, also when work fails and
\* is undone; a handler that waits for the runtime is never waited for by it; and a
\* verdict reaches the kernel, that on a custom channel where one sampler alone
\* samples (lifecycle.rs:479-523): with two it may not, see GateFollows.
OneSampler == Samplers = {"background"}
VerdictsArrive ==
  /\ [][ProbeHonest']_probeVars
  /\ HandlersEnd
  /\ (custom => OneSampler) => KernelFollows
===========================================================================
