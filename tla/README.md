# Formal models of multi-vpn-gateway

The program connects one machine to several VPNs at once. Every VPN client runs in a container of a
private virtual machine; an instance of mihomo in the same machine ("the kernel" below) routes traffic
to the clients by domain and address. A desktop core written in Rust (`src/desktop/core`) prepares the
machine when somebody needs it, gives it back when nobody does, creates, replaces and deletes the
client containers, and keeps the kernel's configuration equal to what is saved. A Python stack
(`src/app`) does a part of the same without a machine of its own and shares the database schema.

Almost everything that is hard in this code is hard because of *when* things happen: requests that
arrive while the machine is being stopped, a process that ends between two of the twenty steps of a
container replacement, a reload request that arrives after its sender gave up. These modules describe
those orders of events, TLC enumerates them on small instances, and TLAPS proves most of the safety
properties for every instance: every one of the coordinator, the configuration journal, the version switch,
the probes, the takeover, the helper, the forwards, the watchdog, and of what serves the channels (section 6).

Contents: 1 inventory · 2 modules and how they correspond to the code · 3 runs · 4 fairness ·
5 mutants · 6 proofs · 7 what the runs found · 8 what is not modelled · 9 plan

## 1. Inventory

"R" is `src/desktop/core/src`. The hard behaviours, each with its line, are the `hazards` of
`PROJECT.json`.

| Component | State | Operations | Interacts with | What makes it correct |
|---|---|---|---|---|
| **Runtime coordinator** `R/runtime_lifecycle.rs`, `R/runtime.rs` | one mutex-protected record: phase, `closing`, number of permits, deadline, revision, the task in flight | `activity`, `maintenance`, `ensure`, `launch`, `unavailable`, `release_at`, `stop_for_restart`, `quiesce` | every write request, the watchdog, the idle watcher, the restart route, shutdown | a release or restart meets no operation; one task at a time; nobody waits for a task that is over; the quiet period is whole; quitting is final |
| **Ordered shutdown** `R/shutdown.rs` | resume list on disk, step and budgets | steps Tun, Proxy, Remember, Quiesce, Containers, Vm | coordinator, entry, channels, VM | each step runs once and in order, accepted work ends first, the list names what ran |
| **Configuration journal** `R/config_apply.rs`, `R/config_apply_store.rs`, `src/app/config_apply_schema.sql` | row `config_apply_state`, lock file, startup file on host and in the container | `apply` = snapshot, prepare, readback, reload, observe, flush, write, deliver, confirm | every writer of settings, the kernel, the rebuild worker | "nothing pending" means the kernel runs exactly what is saved, in both halves, and would after a restart |
| **Container replacement** `R/replacement*.rs` | row `channel_replacements`; containers, names, restart policies, volumes in Docker | `replace`, `recover`, `cleanup`, `reconcile_waiting`, `resume`, `before_stop`, `discard`, `recover_all` | channel handlers, probes, the runtime's start | one client at a time, a way back until settled, all or nothing, no data lost, no leftovers |
| **Stop intents** `R/stop_intents.rs` | row `channel_stop_intents` | `request`, `apply`, `confirmed`, `recover_all` | replacement, handlers, the runtime's start | a stop that was saved is carried out, and nothing logs in before |
| **Channel handlers** `R/api.rs` | rows of `channels`, `channel_runtime`; settings queued for the next start | create, update, start, stop, restore, delete, login, notes and files, export and import | all of the above | see replacement; a backup gives back what was asked, writers of one row do not undo each other |
| **Channel mutation and probing** `R/lifecycle.rs` | per-channel slot: operation lock, generation, shared probe; set of lost channels; rebuild queue | `probe`, `rebuild worker`, retry after recovery | handlers, configuration journal | an old result is never stored for a new container; a requested rebuild is made |
| **Rules and container plans** `R/manager.rs` | none (pure) | `ordered_rules`, `render`, plans per adapter | journal, replacement | a failed channel blocks its rules instead of leaking them |
| **Store** `R/store.rs` | SQLite | single transactions | all | - |
| **Data upgrade** `R/upgrade*.rs` | marker files in both directories and their parent | prepare, activate, resume, rollback, finish | file system | after any interruption exactly one of both data sets is active, known and complete |
| **noVNC pool** `R/novnc.rs`, `R/tunnel.rs` | viewers with expiry, SSH children | ensure, renew, release, sweep | login page, channel lock | a forward lives as long as somebody looks |
| **Privileged helper** `src/desktop/helper/src` | lease with deadline and mode, restart backoff | apply, renew, release, supervise | entry | without renewals the network is restored |
| **Entry** `R/entry.rs`, `R/takeover.rs` | OS state: TUN, system proxy, owner | enable, disable, take over | helper, shutdown | never left pointing at a dead port |
| **Health watchdog** `R/health.rs` | failure counters | checks, bounded repairs | coordinator, VM, kernel | repairs occupy the runtime, report what is down |
| **Images** `R/image_import.rs`, `R/preflight.rs`, `R/vm_image_cache.rs` | previews with their files, the load under way, the table of downloads, names in Docker | upload, confirm, discard, download, bundled load | Docker, the runtime's permits, a new channel | an archive is loaded once and is the one that was shown; no name gets another architecture's image |
| **Installers** `R/installer_upload.rs` | a status file per channel, the attempts of this process, Docker's execs | upload, deliver, run, report | channel lock, the container's life | one installer at a time, and its reported end is how it ended |
| **Event log** `R/events.rs` | ring, bounded queue, a file per day, the switch's marker file | record, write, switch, new day, new process | everything reports to it | every event is on disk, on its way or counted as lost |
| **Start and settings** `R/runtime.rs`, `R/infra.rs`, `R/app_settings.rs` | network, kernel container, configuration volume, forward; settings file with the login item and the channels to resume | start, restart, quit, open a window | coordinator, VM, Docker, UI | a kernel that runs is whole; what was in use is connected again |
| **VM and Docker access** `R/vm.rs`, `R/docker*.rs` | external programs | start, stop, inspect | all | readbacks, not exit codes, decide |
| **Reporting** diagnostics, traffic, causes | samples | read only | - | - |
| **HTTP, UI, shells, images** | - | - | - | - |

Hard behaviours, by kind:

- *interleaving and stale state*: answers computed outside the coordinator's mutex (`can_release`, the
  machine's state, a probe) are used after the world has moved on;
- *crash and restart*: the journal rows are written before and after each effect on Docker, and the
  process may end, the machine may restart, or the recovery itself may be cut off in between;
- *lost answers*: every Docker command may have worked although its answer was lost, and the kernel may
  execute a reload whose sender is gone;
- *partial failure*: the file on the host written, the one in the container not; a stop that fails at
  the start of the runtime; a copy that ends half-way;
- *liveness*: wake-ups by a revision counter rather than a queue, retries that must not be kept from
  converging, a quit that waits for accepted work.

## 2. Modules

```
component                                    proofs                   checked by
RuntimeLifecycle                             RuntimeLifecycleProofs   MCRuntimeLifecycle, MCRuntimeLive
ConfigApply                                  ConfigApplyProofs        MCChanges
Replacement                                  ReplacementProofs        MCChanges
ChannelProbe, Takeover, Forwards, Watchdog   DesktopProofs            MCDesktop (Takeover's liveness:
                                                                      MCRuntimeLive)
UpgradeSwitch                                DesktopProofs            MCDesktop
HelperContract <= TunHelper (refinement)     TunHelperProofs          MCDesktop
RuleRoutes                                   DesktopProofs            MCDesktop
HelperContract <- TunEntry (composition)     EntryProofs              MCEntry
ResolverFiles                                EntryProofs              MCEntry
RuntimeStart, ImageJobs, Installer, EventLog ServicesProofs           MCServices
ChannelBook                                  ChannelBookProofs        MCServices
```

`PROJECT.json` ("map") gives the lines each definition stands for. Definitions commented as a variant
stand just before the one they vary and are not part of the model: they are the mutants of section 5.
The MC modules put components side by side that share no variable; `part` says which of them a
behaviour is about and the others rest, so the number of states is the sum and not the product.

### RuntimeLifecycle - the coordinator and its callers

Every action that touches the coordinator's record is one critical section of its mutex. The record's
fields are `phase`, `closing`, `left` (deadline), `flight`, and the permits; the number `active` is kept
as the sets `outer` and `inner` of who holds one, the revision as the set `stale` of the watchers that
have not seen the last change. A request's path (`pc`) is `track_request`, `activity()`,
`runtime::ensure`, `Coordinator::ensure`, flight, use, drop. Further actors: maintenance checks, the
launched task (start; the two halves of `release_inner`; restart), the idle watcher in the three parts
of `release_at` (look, `can_release` without the mutex, judge), the restart route, `shutdown::run`, the
clock, and a machine that dies. `inUse` stands for what `can_release` reads. `healthy` is
`idle_health_ready`: the watchdog published Healthy (`CheckPublishes`, inside the maintenance check that found it)
and that is not older than 60 s (`HealthLapses`); a round of the idle loop begins only then. A start of the
runtime resets it.
Auxiliary: `quiet`, the ticks since a request last took or dropped a permit.

### ConfigApply - from a saved setting to a confirmed configuration

`src` is what is saved together with `source_revision`, as the triggers count it; `row` is the journal
row; `kernel` is what mihomo runs, with the proxies and the rules as two halves because a reload
switches them one after the other and a readback reads them one after the other; `host` and `boot` are
the two startup files. An attempt (`pc`, `work`) goes through `config_apply::apply` call by call; between
any two calls settings are saved, the kernel stops or starts from a startup file, another process tries,
or the attempt dies. `work.seen` is a ghost: how much of its version the attempt's readings found. `put` is the
reload request: it is sent, half executed, done, and with
`Late = TRUE` it may survive its sender, whose 10 s are over. Modelled is the managed desktop's form (a deferred save when
Docker is not connected). Digests are the configurations themselves.

### Replacement - one channel's container

State: the channel's rows (`ch`), the journal row (`rec`), the stop intent, the containers with name,
volume, owner label, policy and configuration (`box`), the volumes with their content as a number
(`vols`), the copying container (`helper`), how far the runtime's start is (`env`), and the handler that
holds the channel's operation lock (`job`). `job.pc` names the next call: `r.*` replace, `v.*` recover,
`c.*` cleanup, `s.*` stop, `w.*` reconcile_waiting, `t.*` resume, `d.*` delete, `u.*` update. Where the
code insists on something before it acts the model has a conjunct of `Expected`; a step whose
conditions fail ends in `failed`, and what an error means depends on the procedure (`Failed`).
Faults: a call fails without effect (`CallFails`), works but is reported as failed (`Acknowledged`), the
process ends (`Crash`), the machine restarts and brings back what the restart policy says
(`MachineRestarts`), somebody removes the container (`BoxLost`).
Simplifications: one step for "send the command, ignore its answer, read back"; an exited container
stays exited over a restart of the machine; self-installed clients are never replaced and are left out;
the pause of 60 s between two cleanups is left out; numbers are reused once nothing names them.
Auxiliary: `wanted`, the user's last word about the channel.

### ChannelProbe - probes, lost channels, the rebuild worker

A sample reads the channel under its operation lock, probes up to 32 s without it, and reports; `fresh`
and `revised` are the outcome of comparing the generation and the revision with the remembered ones.
The worker takes `pending` after its delay, rebuilds, and clears `pending` only if nothing asked again;
handlers stop, start and change the channel beside it; the runtime is released, lost and started.
Assumption: a start of the runtime takes longer than a worker needs to notice that it was refused.

### Takeover - who has the network

`wish` is `takeover.json`, `plan` what the loop applied last, `proxies` the automatic proxy of each
network service, `world` what a detection finds. Callers of `takeover_put`, the loop, the page's switch,
parking, resuming, the quit and the user in the System Settings interleave.

### HelperContract, TunHelper, TunEntry - the privileged helper and its client

`HelperContract` is what the helper promises: what is wanted changes only with a higher generation, the
network is held only under a lease, a lease that ended is followed by a release. `TunHelper` is the
daemon in detail (requests, ticks, engine with backoff, routes read back, shadows, resolver files) and
implements the contract (`KeepsContract`; `ReleasesAfterLease` is its liveness). Over a restart the wish comes
from the state file, which leaves its domains out (`OnDisk`): a request of the same generation that names them is
refused then, and the core's next generation brings them back. `TunEntry` is written
against the contract alone: the switch, the reconciliation, the idle release and the quit with requests
that arrive late or never.

### ResolverFiles - the helper's files in a directory of the user's

Journal, file, nonce; every write is a step and the helper may be killed between any two.

### UpgradeSwitch - the offline switch of the data directory

prepare, activate, resume, rollback and finish against an application that leases and edits the data,
with a kill between any two steps. `sameDir` is whether source and target are one path. `SwitchIsCurrent`
says that the exchange happens only on what the activation began with: the original as it was copied, a
target nobody has worked in since. It does not say that no work moves to the retained directory: what a
target other than the original held before the activation does, and edits made in the copy do on a
rollback; the commands are meant to (`R/upgrade_switch.rs:248-274`).

### RuleRoutes - one rule set, six readers

The kernel's lines, the rule tester, the PAC, the TUN's routes with the VPN servers' own addresses carved
out, and the egress guard in the machine are computed from the database at different moments. A pattern is a sequence
(labels from the top, or leading bits), matching is being a prefix. `GUARD_REQUESTS` drops a request
that equals the last one; the watchdog's unconditional pass closes the gap.

### Forwards - SSH children that outlive the core

One forward (a login window or the gateway's own), its viewers and grace, the bounded `ensure`, the
record that lets the next process of the core find the child, process ids that are reused. Checking a
recorded child and killing it is one step. A recorded id that belongs to a stranger blocks the window as
long as the stranger lives: intended (`forward_owner.rs:139`).

### Watchdog - the gateway's ladder

The loop of `health.rs` in rounds: probe, `decide`, the two repairs, the hand's repair, the pause switch,
sleep and wake. Assumptions: a repair lasts at most `Longest` rounds, a start at least one, and the
monotonic clock stands still while the machine sleeps. A restart that was skipped because the port served
again still counts as a restart, as in the code.

### RuntimeStart - the steps of a start, a restart and a quitting

One start is `task` with the step it has reached (guard, recovery, network, kernel, connection, forward),
a restart and a quitting are `restart` and `quitting` with what they found in use; a machine or an
application that dies, the handlers that start and stop a channel, the page that connects channels again when a window
opens (`page`), and the two writers of the settings file meet them. Who may begin when is the coordinator's
business and appears as a guard (`stage`). Ghosts: `calm` and `used` of a restart and a quitting, and `resume`, the list the
settings file should have.

### ChannelBook - a channel's settings and who writes them

`book` is a channel's row with its encrypted config, `queued` its settings waiting for a start or being
applied, `work` what each page's request is doing, `exporter` and `importer` a backup read channel by
channel and one brought in. A replacement is only the time between saving its record and its outcome.
Password and server are kept twice, in a column and in the config; `Effective` is what the client connects
with. Ghosts: `wish`, what the user last asked for; `settled` and `asked` in a backup's entry; `was` and `one` of a
replacement.

### ImageJobs, Installer, EventLog

`ImageJobs`: archives (upload, preview with a deadline, confirmation, load), the page's downloads and those of
a new channel and of the start, all ending in the same names of one Docker. `Installer`: the upload handler, the
task that runs the installer by an exec whose answer may be lost, a container that stops and starts, a
core that dies, and readers that find an attempt without a task and write that down. `EventLog`: ring,
bounded queue, one writer with a file per day, a switch kept as a marker file, a process that dies and one
that starts and reads what is there. Their simplifications head each module.

## 3. Runs

| Run | Instance | Shows |
|---|---|---|
| `runtime_safety` | 2 requests, 1 check, quiet period 2 ticks, `can_release` at most 1 tick; symmetry | a release or restart meets no operation and no quit, nobody waits for a task that is over, the quiet period is whole, quitting is final |
| `runtime_live` | 2 requests, 1 check, quiet period 1 tick; takeover: 1 service, 2 modes | who asked for the runtime is answered and quitting can wait for all accepted work (`WorkEnds`); a runtime left alone is given back though the watchdog's checks recur (`IdleIsReleased`); a network taken over by another VPN is given up, and a plan that stays is applied in the end (`NetworkIsGiven`) |
| `changes_safety` | configuration: 2 appliers, 2 rule versions, 2 edits, 1 failure. Replacement: 2 settings versions, 3 requests, 3 faults, containers removed by others; symmetry | `Confirmed`: nothing pending means the kernel runs what is saved and both startup files hold it; `Reversible`, `SettledIsWhole`, `NoDataLost`, `StopIsRespected` of a replacement |
| `changes_live` | late reloads, 1 edit, 1 failure; 2 requests, 2 faults | a version that counts as read back was seen running (`VerifiedWasRunning`); retrying confirms; a start settles what was cut off and removes what it left (`RestartFinishes`) |
| `desktop_safety` | 7 parts, see `MCDesktopSafety.cfg` | probes, takeover, helper, switch, rules, forwards and ladder keep their promises in every interleaving |
| `desktop_live` | 5 parts, each with the fairness of its component: probes with one sampler, failing rebuilds, a handler and quitting; helper, forwards, watchdog, rules | verdicts reach the kernel and handlers end (`VerdictsArrive`), the helper repairs and releases, an unwatched window goes, the gateway comes to rest, the guard catches up |
| `entry_safety` | 2 rule sets, 2 requests, 2 starts, 1 lost message; 2 domains, 3 writes | the entry serves the newest rules, stays off, is not woken (`EntryFollows`); the user's resolver files survive and none of ours is forgotten (`ResolverKept`) |
| `services_safety` | start: 1 channel, 2 starts, 1 restart, 1 fault; book: 1 channel, 2 writers, 3 changes, 1 import, 1 fault; 2 archives, 2 downloads; 2 uploads in 2 containers; log: queue of 1, 1 line a day, 2 switchers, 2 processes | `HostKept`, `SettingsKept`, `ImagesKept`, `InstallsAreKnown`, `EventsAccounted` |
| `custom_gate` | ChannelProbe alone, the page's and the background's sampler, no failure | section 7 |
| `watchdog_wake`, `server_guard`, `replacement_stuck` | - | section 7 |

Why the bounds are enough to be interesting:

- *Coordinator.* Two requests are needed for joining a start, for a restart beside a request and for a
  waiter overtaken by another; the proofs (section 6) remove the bound. `Grace = 2` and `MaxLag = 1` let a
  deadline be set, survive a round and fall due while an answer is late.
- *Configuration.* Two edits and a failure let a first attempt fail behind any step, a second one
  succeed, and a setting change in between; `ConfirmedIsTrue` removes these bounds. `Confirmed` is not claimed of
  behaviours in which a request outlives its attempt: a request that
  arrives after everything was confirmed changes the kernel, and nothing in the code can prevent that
  until the next readback. What the code promises even then is `VerifiedWasRunning`.
- *Replacement.* A replacement (first request) that fails (first fault) and whose recovery is cut off
  (second fault) and stopped or deleted (second request) before another fault and request is the depth of
  the code's own case distinctions. The same properties also hold with 4 requests and 3 faults (5.9 million
  states), in a run too long for the project.
- *Probes.* `LostAfter = 2` tells a first failure from a streak; two
  handlers let the channel change twice behind a probe (`desktop_safety`); failures and one handler are enough for the
  worker's questions (`desktop_live`). Both runs have the background's sampler only. That the page's shares its
  flights and crosses it is covered for `ProbeHonest` by the proof, which is for any set of samplers, and for the
  verdicts' way into the kernel by `custom_gate`, where it goes wrong for a custom channel. For any other channel
  `VerdictsArrive` claims it with two samplers as well, and TLC agrees (`desktop_live`'s constants with both,
  a run by hand).
- *Takeover.* Two services and the modes `auto` and `system_proxy` where safety is asked; one service, `auto`
  and the mode with both entries where the plan has to be applied in the end (`runtime_live`).
- *Helper.* Three generations: one in force, a newer one, and a late old one.
- *Switch.* Two edits distinguish an edit before the copy, before the activation and after it.
- *Rules.* Two channels and three patterns, one inside another; three address bits hold a reserved, a
  private, a LAN and a public range and a server inside the LAN.
- *Forwards.* Two process ids and three spawns force an id to be reused.
- *Watchdog.* `Attempts = 2` has a rebuild and a restart, `Window = 6` lets old attempts be forgotten.
- *Entry.* Two requests, two starts and one lost message: an answer that crosses a restart of the helper.
- *Start.* Two starts and a restart let a step be repeated on what a failed one left; one fault is enough to
  leave it. *Book.* Two writers of one row, three changes (create, edit, another; an edit changes the server, the switch, or password and switch), and one import of a
  backup that this core wrote or that was edited by hand. *Images, installers.* Two of each that can be
  confused, two uploads so that a delivery meets an earlier one still running, or its record.
  *Log.* A queue of one and a day of one line are full at once; two processes, so that one reads what
  another left. The proofs of section 6 remove these bounds.

Runs that say `CHECK_DEADLOCK FALSE` bound the outside world (edits, faults, spawns), after which a part
that has nothing left to do rests; `runtime_safety` and the runs of the journals check for deadlock.

## 4. Fairness

- *RuntimeLifecycle*: the executor runs every task that can run, handlers return, launched tasks end
  (each has a time budget), the idle watcher loops. Time passes (`SF` on `Tick`: it is disabled again and
  again while a reading is at its longest). Nothing promises that requests arrive, that the user restarts
  or quits, that maintenance begins or that a machine dies. `RequestAnswered` assumes that only finitely
  many releases happen, because `activity()` looks again after each wake-up and is not a queue.
  `IdleIsReleased` assumes that from some time on no request uses the runtime, `can_release` does not fail and the
  watchdog finds the gateway healthy whenever it looks, often enough (a check older than 60 s costs the round,
  the watchdog looks every 20 s). The watchdog goes on checking for ever; a check that begins or ends between a round's
  look and its judgement costs that round too. That this does not happen to every round (`SomeRoundCounts`)
  is an assumption about time the model cannot make for itself: the idle loop comes round every 5 s.
- *ConfigApply*: an attempt goes on to its end (each call has a time limit); attempts are made again and
  again (the rebuild worker's backoff, the watchdog's recovery, the retry button); the kernel handles
  what it got and is started again. Edits and failures are bounded and never promised.
- *Replacement*: the handler that holds the lock goes on, the copy goes on, a process that ended is
  started again, and a running channel is probed again and again (`CleanUp`).
- *ChannelProbe*: the background sampler loops and reports (`SF`: the lock it needs is free again and
  again, tokio's mutex is a queue), the worker and handlers go on, a runtime that ended is started again.
- *Takeover* (a part of `MCRuntimeLive`): the loop's rounds, applying a plan, parking and resuming. A caller waiting for the lock has
  `SF`, the lock being a queue.
- *TunHelper*: ticks every 2 s; the timeouts of a readback and a retry and the backoff come due.
- *Forwards*: the ensure under its 20 s budget, leases and graces end, the sweep (`SF`: it needs the
  channel's lock, a queue), the core is started again.
- *Watchdog*: the loop, the repairs in the background and the hand's repair go on.
- *RuleRoutes*: a rebuild and its `tun_sync`, the guard's tasks, the watchdog's pass, the observation of
  server addresses.

A behaviour of `DesktopLive` is about one part and has the fairness of that part's component: the parts that
rest keep every promise, so each property is asked of the component itself. A promise whose goal holds wherever
nothing is owed is written `[]<>goal`; it is then the same as `owed ~> goal`, and cheaper to check. UpgradeSwitch,
TunEntry, ResolverFiles and the parts of `MCServices` claim no liveness: commands are typed by the user,
requests may be lost, and what follows a failure there waits for somebody to ask again.

## 5. Mutants

For each property of each passing run `PROJECT.json` names a change of one definition, of the kind a
mistake in the code would be, that makes TLC find the property violated under the same configuration:
a permit given while the runtime is released, the deadline restarted with every round, a flush forgotten
after a failure, a delivery skipped because the host's file looks right, a candidate left running, the
exit code of the copy ignored, the phase read again instead of `config_applied`, and so on. They are
the evidence that the properties say something about the code.

## 6. Proofs

`RuntimeLifecycleProofs` proves for any finite or infinite set of requests and of checks, any quiet
period and any lag, from two assumptions about the constants (`TasksAssumption`: requests, checks and
the special values are different; `TimeAssumption`: the times are natural numbers and `None` is none):

| Theorem | Statement |
|---|---|
| `TypeCorrect` | `Spec => []TypeOK` |
| `Invariance` | `Spec => []IInv` |
| `ReleaseIsExclusive`, `TeardownIsSafe`, `UseIsProtected`, `QuitIsAlone`; together `UseStaysExclusive` | `Spec => []UseIsExclusive` |
| `OneFlightPerPhase`, `WaitersAreServed` | phase and task agree; `NoOrphanWaiter` |
| `GraceIsRespected`, `QuittingIsFinal` | its two action properties |

The argument. None of the invariants is inductive alone. `IInv` adds what the code relies on without
saying so:

- `PermitsFollowPc`: a request holds the permits its position says, so "no permits" tells where
  everybody is;
- `AnswerMeansUnchanged`: while the revision is the remembered one, the runtime still serves, nobody
  holds a permit, and at least the lag has passed since the last request. This is what makes an answer
  computed outside the mutex usable, and the reason why `Publish` must follow every change;
- `DeadlineCoversQuiet`: a deadline in force is at least the quiet period behind the last request. It
  carries `GraceRespected` over rounds of the watcher, maintenance and clock lag;
- `ClosingFollowsQuit`: only the shutdown sets `closing`;
- `SuccessMeansStarted`: a request that waits for a start, or got its answer, is in a runtime that is
  neither dormant nor being released. It closes the gap between the end of the flight and the moment
  its waiter continues, and shows on the way that the `Releasing` branch of `ensure` is unreachable.

`TypeStep` and `ConsistentStep` have one step per action, split by conjunct where the action disturbs
more than one of them. `GraceRespected` follows because only `IdleReleases` moves the flight
from none to recheck (`OnlyIdleReleases`).

`DesktopProofs` proves of UpgradeSwitch for any number of edits, kills and commands, and for one directory or two:

| Theorem | Statement |
|---|---|
| `SwitchTypeCorrect` | `SwitchSpec => []SwitchTypeOK` |
| `DirectoriesAlwaysClear`, `RunsOnSettledDataAlways`; together `SwitchStaysSafe` | `SwitchSpec => []SwitchSafe` |
| `ExchangeAlwaysCurrent`, `RollbackIsFinalAlways`; together `SwitchStaysCurrent` | the action property `SwitchIsCurrent` |

The strengthening ties the phase in the journal to the marker in each directory for every step a command
can be killed at; `CopyIsFresh` carries "nobody edited since the copy" from the check to the exchange,
because the lease keeps the application out in between.

The other modules, each from its own inductive invariant:

| Module | Theorem | Property of a run | Inductive invariant |
|---|---|---|---|
| `ConfigApplyProofs` | `ConfigInvariance`, `ReadbackIsTrue` | `VerifiedWasRunning` | `ConfigInv` |
| | `NumbersAreTaken`, `ConfirmedMeansFresh`, `ConfirmedIsTrue` | `Confirmed` | (the last of behaviours with `[]RequestsInTime`) |
| | `ChangesAreBoth`, `ConfigTypesAreKept`, `ChangesTypesAreKept` | `ChangesTypeOK` | and `Earned`, `Numbered` |
| `TunHelperProofs` | `HelperInvariance`, `HelperIsTrue`, `ForeignRoutesStay` | `HelperKeepsWord` | `HelperInv` |
| | `HelperImplementsContract` | the refinement of `HelperContract` | |
| | `DesktopIsEach`, `DesktopTypesAreKept` | `DesktopTypeOK` | those of its components |
| `ReplacementProofs` | `ReplacementInvariance`, `ReplacementTypes` | | `ReplacementInv` |
| | `OldContainerIsThere`, `ReplacementIsReversible` | `Reversible` | and `OldIsThere` |
| | `SettledChannelIsWhole` | `SettledIsWhole` | |
| | `DataIsNotLost` | `NoDataLost` | |
| | `UserIsRespected` | `StopIsRespected` | |
| `EntryProofs` | `ResolverInvariance`, `ResolverIsHonest` | `ResolverKept` | `ResolverInv` |
| | `EntryInvariance`, `EntryIsFollowed` | `EntryFollows` | `EntryInv` |
| | `EntryMeetsContract` | its helper is one of `HelperContract`'s | |
| | `EntryTypesAreKept`, `TunnelTypesAreKept` | `TunnelTypeOK` | `EntryBounded` |
| `DesktopProofs` | `ProbeInvariance`, `ProbesAreHonest` | `ProbeHonest` | `ProbeInv` |
| | `WatchdogInvariance`, `LadderIsKept` | `LadderKept` | `WatchdogInv` |
| | `ForwardInvariance`, `ForwardsAreKept` | `ForwardsKept` | `ForwardInv` |
| | `TakeoverInvariance`, `DecisionsAreKept` | `TakeoverKept` | `TakeoverInv` |
| | `GuardIsTheNewest` | the guard's part of `RulesFollowed` | `GuardInv` |
| | `RulesAreFollowed`; of the run `RulesAreKept` | `RulesFollowed`; `RulesKept`, which says it of the behaviours about the rules | `RulesInv`, with `GuardIsTheNewest` |
| | `WatchdogTypesAreKept`, `ForwardTypesAreKept`, `TakeoverTypesAreKept`, `RuleTypesAreKept` | the components' parts of `DesktopTypeOK` | and `ClocksFit` |
| `ServicesProofs` | `HostInvariance`, `HostIsKept` | `HostKept` | `HostInv` |
| | `ImageInvariance`, `ImagesAreKept` | `ImagesKept` | `ImageInv` |
| | `InstallInvariance`, `InstallersAreKnown` | `InstallsAreKnown` | `InstallInv` |
| | `LogInvariance`, `EventsAreAccounted` | `EventsAccounted` | `LogInv` |
| | `ServicesTypesAreKept` | `ServicesTypeOK` | `PartInv` |
| `ChannelBookProofs` | `BookInvariance`, `SettingsAreKept` | `SettingsKept` | `BookInv` |
| | `BookTypesAreKept` | the book's part of `ServicesTypeOK` | and `QueuesServed` |

What each invariant adds to the property, and why the property does not carry itself:

- *Configuration.* `Lock` says who holds the journal's lock and where; `Current` that an attempt whose
  ticket is still the row's has seen no newer version; `Requests` and `Stamped` that no copy of a number, in the
  kernel, a file or a request under way, is beyond the row's and that equal numbers name equal
  configurations; `Sources` that what the row calls tracked is what is saved; `Freshness` that "flushed" was
  true of this revision. `ConfirmedRuns` has to know that the kernel cannot be switched
  by anybody between the last readback and `confirm`, which is exactly what a request that outlives its attempt breaks: hence the
  condition `[]RequestsInTime` on the behaviour in `ConfirmedIsTrue`, and only there. It is no assumption on the
  constants: with `Late = TRUE` a PUT may be given up and still be executed, and the theorem speaks of the
  behaviours where none is. `changes_safety` has `Late = FALSE`, where all behaviours are so. `ConfirmedMeansFresh`, `NumbersAreTaken` and `ReadbackIsTrue` hold with late
  requests. That no number outgrows the edits is not inductive either, because an attempt takes the switch when it
  begins and the settings later: `Earned` counts the changes along the way from the row's version to the
  attempt's and from there to what is saved now, and says that all of them were paid for.
- *Helper.* `OwnRoutesTracked`: a route the helper set is in its record until it is withdrawn, also while a
  withdrawal fails half-way; `AppliedStop`: the generation that was applied last and wants nothing has an engine
  at rest. A lemma on withdrawing (`Withdraws`) is used by every action that takes routes back. Each of the
  daemon's steps is then shown to be a step of the contract or to leave it alone.
- *Replacement.* `PhaseFits`, `KindFits` and `RecordFits` tie the handler's next call to the journal's phase, to
  who asked and to what was read when the record was made; a process that dies leaves the row alone, so that these
  are what the next process finds. `BoxesFit` names every container there can be in a phase (the old one, the
  candidate, the restored one, each under names of its own), `RowFits` the one the channel's row names, `RunsFit`
  who may run, `WorkFits` what the handler has in its hands and has already removed. `HelperFits` and `VolumesFit`
  carry the copy: whole once it counts, the old volume kept as long as there is a way back, nothing else with our
  label. `WishFits`: whatever runs or would be started is wanted, or its stop is recorded. `OldIsThere` (the old
  container stands from the beginning of a replacement to its end) is proved on top of it, because removing a
  container that somebody else has removed already is a step of the environment as well. The action properties
  need to know what a step leaves alone; `RecordStays`, `VolumesStay`, `BoxesStay` and `OnlyLaunchingStarts` say
  it once for each group of actions.
- *Entry.* `RulesAreOwed`: rules that are not served yet have a reconciliation that has not begun, by the numbers
  of `tun_sync`; `AsksFit`: what the task with the lock asks for, and in which state of the runtime;
  `AnswersAreTrue`: what an acknowledgement says holds until the lock is given back; `OffIsDown`, `QuitIsDown`,
  `IdleIsDown`: off, a quit's stop and a release are down, and no request under way would change that.
  `EntryBounded` counts: what is left of a bound pays for every
  request, reconciliation and change that can still come, so that no counter of the model passes the bound it is
  declared with.
- *Guard.* `GuardInv`: one task at a time has read the tables, and what it has read is what was read last.
- *Rules.* Three facts about the operators come first. The effective rules can be listed in their order (a rule
  stands behind as many as come before it, by cardinality), and in any such list the first line that matches is the
  most specific rule that binds, for the kernel as for the rule tester (`LinesDecide`). What `subtract` leaves of
  a network covers exactly the addresses of the network that are none of the servers' (`SubtractCovers`): the
  recursion is a choice of a function that satisfies its equation, so a solution is given (`Carved`, the largest
  networks without a server) and the covering shown for whichever was chosen, by a least counterexample over the
  length of the path. `RulesInv` then says of the state: `RowsFit` (the rows have numbers of their own), `LinesFit`
  (while no rebuild is pending, the kernel's lines list the effective rules, with the reserved network behind them),
  `RoutesFit` (while neither a rebuild nor a `tun_sync` is pending, the routes lead to what is bound, less a set of
  addresses seen at some time that contains all the present ones). `RulesFollowed` says what a reader then sees.
- *Resolver files.* `Remembered`: whatever stands in a file of ours is in the journal or in what the journal
  writes next; `Withdrawn`: what the journal gave up is no longer on disk.
- *Probes.* `FreshIsGenuine`, `FreshHasLooked`: a snapshot that would pass the comparison was taken of this
  instance and revision; `CopyIsProved`: the state that a failed change of address goes back to was measured;
  `FailuresAreVerdicts`: the counted failures are verdicts in a row.
- *Watchdog.* `Agrees`: the ladder's list of attempts and the tally of the outage are the same story;
  `LockAgrees`, `BannerAgrees`: who repairs, and what is said about it.
- *Forwards.* `RecordIsOurs`, `HandleRecorded`, `SpawnedIsOurs`, `StepsAgree`: a process id in the record, in the
  handle or in the operation is one of our instances or was reused by somebody the code recognises;
  `AllCovered` says of each process of ours who will end it.
- *Takeover.* `CallsAgree`, `OffHolds`, `JobAgrees`, `HandAgrees`: each caller between two of its awaits knows
  what `closing` and the last wish allow it to open.
- *Start, restart, quitting.* `StagesAgree` (the coordinator's stage and the three flows), `KernelAgrees` (at each
  step of a start what the kernel has), `ServesWhole`, `RestartAgrees`, `QuitAgrees` (an undisturbed restart or
  quitting still has the list it took), `SettingsAgree` (whoever holds the settings' lock has read what is there).
- *Images.* `TicketsAgree`, `LoadIsHeld` (one load, and a confirmation behind it), `FetchersAgree`, `NamesServe` (a
  mirror's name means what that mirror serves), `PullsInOrder`, `PermitsAgree`.
- *Installers.* `NumbersAgree`, `TasksAgree`, `RunsAreKnown` (an exec that runs has a record or a task that knows
  it), `ResultsHold`.
- *Event log.* `WriterAgrees`, `SwitchesAgree`, and `LossesCounted`, an equation between sets and numbers: the
  events with a number that are neither on disk, in the queue nor with the writer are as many as were counted, at most;
  the cardinality lemmas are proved first. `ListsTyped`: what is in the ring, the queue and the files are events, also
  when the next process has read the days back (`FlatIsList`, over a recursive function of the library, as for
  `subtract` above).
- *Settings.* `ChannelsFit` (row, queue and wish), `LocksAgree` (one writer in a channel), `ExportAgrees` (what an
  export has read of a channel that has not changed since is what it is), `DocumentsAgree`. `QueuesServed`: a
  replacement under way has the writer that carries it out, and settings wait only at a channel that has a container.

The assumptions about constants stand in the modules that declare them, and TLC evaluates them in the runs. They
say that bounds are numbers, that special values are none of the ordinary ones (`ConfigAssumption`,
`AbsentAssumption`, `ImageAssumption`, `TasksAssumption`), that there is at least one place for a download,
one process id, one number for a container and one for a write (`ImageAssumption`, `ForwardAssumption`,
`ReplacementAssumption`; a channel may begin with a container and its data), and four things about the code's own
numbers and inputs: `WatchdogAssumption`, that all attempts with their cooldown fit into the window in which attempts
are remembered (`R/health.rs`: 45 s of cooldown, a window of 15 min); `RuleAssumption` and `NetworkAssumption`, that a
pattern is a domain or a network, that all addresses have one length (the entry routes IPv4 only,
`R/entry.rs:913-922`) and that no network is
longer than an address (`normalize_stored_rule` of `R/webutil.rs` skips such a row); `BookAssumption`, that an edit
names known fields and a new password is not empty; `TakeoverAssumption`, that modes are those of the interface.

Two attempts failed for a good reason. `ReadbackWasWhole` (ConfigApply), the promise of `R/config_apply.rs:109`,
is false: three late requests can switch the kernel away after the first of the readings and back before the
last; what is true, and proved, is `VerifiedWasRunning`. And a restored channel connects to the server it had
only if its column and its config named one server before (`OneServer` in ChannelBook; section 7).

The runs check several components that share no state, one per behaviour. `ChangesAreBoth` and `DesktopIsEach`
show that a behaviour of such a run is one of each of its components, so that the theorems about these hold of the
runs; the type invariants of the runs follow from those of the components (the probes' needs no fairness).

Only model-checked: all liveness, and with it the sentence that verdicts reach the kernel. Liveness under fairness,
`ENABLED`, induction over data and recursive operators (the event log's order of numbers over all days) are beyond
what the available provers do.

## 7. What the runs found

- **`watchdog_wake`** - `R/health.rs:240-241` says that a wake clears what an earlier giving up left behind
  and the next tick acts. `force_heal` clears `gave_up` and the cooldown, but neither `heal_times` nor
  `restarted`; after a ladder that ended with a restart the first decision gives up again.
- **`server_guard`** - `R/server_guard.rs:13` says a route comes back once an address has not been seen for
  15 minutes. `observe` compares two sets from which the expired entry is already gone (70), so nothing
  calls `tun_sync` and the route stays away until some other change of the rules.
- **`replacement_stuck`** - a recovery cut off after it named the restored container `vpn-<cid>`
  (`R/replacement.rs:348`), followed by a stop, which records that the old client did not run (512),
  takes at its next attempt the branch that renames the old container (333-335) to a name the half-made
  one keeps; only the other branch removes that one (342). The stop is never confirmed; deleting the
  channel is the way out.

- **`custom_gate`** - `R/manager.rs:62-64` says that kernel, probe and rule tester block a custom channel by one
  criterion, `R/lifecycle.rs:519-520` that the first success opens it and a clear failure closes it at once. The flight
  decides whether the kernel must change from the status read before the wait for the probe's lock
  (`R/lifecycle.rs:355`, 412, 434, 521). The page reads `logged_in`; the background's flight reports "down", stores
  `running` and has the rules blocked; the page's own probe, behind it, says "up", stores `logged_in` and
  sees no change to what it read. The channel is shown as logged in and its rules stay blocked
  (`GateFollows`). The window is narrow: a report between the reading and the lock.

Disagreements stated as properties in the modules, that TLC also finds violated, without a run in the
project:

- `SavedMeansPending` (ConfigApply): the schema (`src/app/config_apply_schema.sql:17`) says a saved change
  is pending at once. Its trigger takes `stopped` and `error` for one class (33), the Rust core renders no
  rules for the one and blocking rules for the other.
- `StopPreventsLogin` (Replacement): `docs/development.md:141` says a stop is saved first so that recovery
  does not log in. At the runtime's start a stop that fails is only logged (`R/stop_intents.rs:79-81`) and
  `recover_all` (`R/replacement.rs:422`) then starts the old client with the stop still pending.
- `DeletedLeavesNoVolume` (Replacement): `R/replacement.rs:118` says all labelled volumes are removed before
  the configuration is; a channel without container and record deleted while the runtime is off loses its
  rows only (`R/api.rs:1381`).
- `QuitStopsEntry`, `EnabledComesBack` (TunEntry): a quit's release may be lost with its connection
  (`R/entry.rs:1208-1211`), the lease then ends it; after an idle release the entry comes back only if the
  resumption's one request gets through (`R/runtime.rs:283`; `docs/development.md:149`).
- `PublishesOnlyWhenReady` (TunHelper): the resolver files are written in the tick in which the engine was
  started (`src/desktop/helper/src/main.rs:503-508`), although 342 says they wait for it to be ready.
- `FinishedCanBeArchived` (UpgradeSwitch): `docs/development.md:171`; a rollback that was killed behind its
  last step refuses `finish` (`R/upgrade_switch.rs:237`) until `resume` has run.
- `ReadbackWasWhole` (ConfigApply): `R/config_apply.rs:109` says the second reading of the proxies refuses a version
  put together across a switch; two more switches in between pass it.

Observed, without a run of its own: `replace` marks a channel whose container is gone as failed even if
the user stopped it (`R/replacement.rs:191`), so that a change of settings that fails before its record
begins makes the next one start the client (`wanted` in the model takes this as given); the second
question of `release_inner` guards against the outside only (without the condition `~inUse` in
`ReleaseConfirmed` the safety run still passes, because nothing inside the process can change the
answer once the release is admitted); `api.rs:644`, `shutdown.rs:45` and
`replacement.rs:191` set a status without asking for a rebuild, and what makes that harmless is that the next attempt
reads the present state.

Observed while modelling what serves the channels, and left as the code has it (the properties say what is true
nevertheless):

- *Start, quitting.* A quitting during a restart finds the channels already stopped and replaces the resume list
  (`R/shutdown.rs:77`); a window's clearing of the list, accepted before the quitting, may run behind it; a stop
  between a restart's stop and its connecting is undone; a restart that fails leaves what it stopped; a core that
  dies between the login item and the saved settings leaves them apart.
- *Settings.* An export lists the channels once and reads each config later (`R/api.rs:1913-1995`), so an edit in
  between, or a backup written by hand, brings in a channel with two servers (`R/api.rs:2142-2144`); a change that
  is taken back or dropped then gives the other one. The password of an imported channel is only in its
  config, and a replacement that is taken back writes the empty column over it
  (`R/replacement_store.rs:259-272`). An export while a change is applied tells the old settings.
- *Installers.* Asking for the status loads, judges and saves in three steps, and may put "interrupted" over a record
  saved in between (`R/installer_upload.rs:75-86`); `persist_queued` comes before `mark_active`.
- *Images.* A confirmation asks the preview's status again and not whether it is still listed: a preview that is
  discarded, or pruned, between the look-up and the take (`R/image_import.rs:145-179`) loads unlisted, with its file
  kept beyond the number of places. `ImagesKept` promises less: once it loads, a listed one stays listed.
  Two downloads through one mirror share its name.
- *Event log.* Two switchings at once, or a marker that cannot be written, leave flag and marker apart until the next
  start; a line cut off by a crash takes the next event with it; a full day is left out without being counted;
  a page that survives the core asks from a number the new core has not reached (`src/app/ui/js/data.js`).

## 8. Not modelled

- *Out of the question's scope*: formatting, parsing, the wording and transport of the HTTP interface,
  reporting, UI, shells, image scripts.
- *Data rather than control*: adapters, container plans, encryption.
- *Abstracted into a choice*: Colima, Docker, mihomo and SQLite are modelled as far as the code depends
  on them: a command may work or not and its answer may be lost; a transaction is one step; SQLite's own
  crash safety is taken for granted.
- *The Python twin*: the same schema, modelled through the Rust callers.
- *A hazard without a property*: the status a replacement writes for a missing container
  (`R/replacement.rs:191`); see `PROJECT.json`.

## 9. Plan

Every safety invariant and action property that a passing run checks is proved; what stays with TLC is
liveness (section 6). What is left to model: the Python stack's own writers of the shared schema.
