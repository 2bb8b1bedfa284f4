---------------------------- MODULE RuntimeStart ----------------------------
(* What one start of the runtime does, step by step, and what meets it: a      *)
(* restart the user asked for, quitting, a machine or an application that      *)
(* dies, and the settings file that remembers which channels to connect again  *)
(* (runtime.rs, infra.rs, vm.rs, runtime_network.rs, shutdown.rs,              *)
(* app_settings.rs).                                                           *)
(*                                                                             *)
(* Who may begin when is the coordinator's business (RuntimeLifecycle); here   *)
(* its rules are guards.  A channel is its container and its row: how one is   *)
(* started or stopped in detail is in Replacement, the guard in RuleRoutes.    *)
EXTENDS Naturals

CONSTANTS
  HostChannels,
  MaxStarts,     \* start tasks of one behaviour
  MaxRestarts,
  MaxHostFaults  \* calls that fail, machines and applications that die

ASSUME HostConstants == MaxStarts \in Nat /\ MaxRestarts \in Nat /\ MaxHostFaults \in Nat

VARIABLES
  machine,    \* on, and whether the egress guard was applied since it came up
  bridge,     \* the runtime's network: "none", "own" or "foreign"
  kernel,     \* mihomo's container, and whether its volume holds a configuration
  tunnel,     \* our SSH forward to the kernel
  linked,     \* AppState holds a Docker connection
  alive,      \* containers Docker runs, or runs again once the machine is up
  row,        \* the status in the database
  intents,    \* stops that are saved and not yet confirmed
  settings,   \* app-settings.json: the channels to resume and the login switch
  update,     \* what a PUT that holds the lock of the settings has read
  item,       \* the login item's file exists
  page,       \* the list a window read when it opened, and whether it cleared it
  resume,     \* the list that was written last
  stage,      \* "dormant", "starting", "ready", "failed" or "releasing"
  task,       \* where the start task is, and how many were launched
  asks,       \* per channel, the handler that holds a permit
  restart,    \* its place, the channels to connect, and those it found in use
  quitting,       \* the step of shutdown, and the channels in use when it began
  hostFaults

bases == <<machine, bridge, kernel, tunnel, linked>>
chans == <<alive, row, intents>>
saved == <<settings, update, item, page, resume>>
flows == <<stage, task, asks, restart, quitting>>
hostVars == <<bases, chans, saved, flows, hostFaults>>

Off == [on |-> FALSE, guarded |-> FALSE]
NoKernel == [state |-> "none", publishes |-> FALSE, file |-> FALSE]
NoPage == [at |-> "no", ids |-> {}]
NoRestart == [at |-> "no", ids |-> {}, used |-> {}, failed |-> {}, calm |-> TRUE, count |-> 0]
NoQuit == [at |-> "no", used |-> {}, calm |-> TRUE]

HostInit ==
  /\ machine = Off /\ tunnel = FALSE /\ linked = FALSE
  /\ bridge \in {"none", "own", "foreign"}
  \* An earlier version left a kernel that publishes its ports.
  /\ kernel \in {NoKernel, [state |-> "up", publishes |-> TRUE, file |-> TRUE]}
  /\ bridge = "none" => kernel = NoKernel
  /\ row = [c \in HostChannels |-> "stopped"] /\ alive = {} /\ intents = {}
  /\ settings = [resume |-> {}, login |-> FALSE] /\ update = <<>> /\ item = FALSE
  /\ page = NoPage /\ resume = {}
  /\ stage = "dormant" /\ task = [at |-> "no", count |-> 0]
  /\ asks = [c \in HostChannels |-> "none"]
  /\ restart = NoRestart /\ quitting = NoQuit /\ hostFaults = 0

Answers == machine.on /\ linked
\* A call fails by itself, which is counted, or because something is not there.
Breaks == hostFaults < MaxHostFaults /\ hostFaults' = hostFaults + 1
Succeeds == UNCHANGED hostFaults

\* The coordinator gives a permit, and lets a start begin.
Admits == quitting.at = "no" /\ stage # "releasing"

-----------------------------------------------------------------------------
(* runtime::start                                                             *)

Waits == \/ \E c \in HostChannels : asks[c] = "start"
         \/ restart.at = "ensure"
         \/ restart.at = "connect" /\ restart.ids # {}

\* ensure: nobody else starts, and what serves is asked whether it still runs.
StartBegins ==
  /\ Waits /\ Admits /\ task.at = "no" /\ task.count < MaxStarts
  /\ stage = "ready" => ~machine.on
  /\ stage' = "starting" /\ task' = [at |-> "look", count |-> task.count + 1]
  /\ UNCHANGED <<bases, chans, saved, asks, restart, quitting, hostFaults>>

Goto(step) ==
  /\ task' = [task EXCEPT !.at = step] /\ Succeeds
  /\ UNCHANGED <<chans, saved, stage, asks, restart, quitting>>

\* The machine is started only if it does not run; Docker then brings back what
\* ran when it went, but not what was stopped ("unless-stopped").
Boot ==
  /\ task.at = "look"
  /\ machine' = [machine EXCEPT !.on = TRUE]
  /\ Goto("docker") /\ UNCHANGED <<bridge, kernel, tunnel, linked>>

Connect ==
  /\ task.at = "docker" /\ machine.on
  /\ linked' = TRUE
  /\ Goto("network") /\ UNCHANGED <<machine, bridge, kernel, tunnel>>

\* An existing network is never made anew: its channels would be cut off.
Network ==
  /\ task.at = "network" /\ Answers /\ bridge # "foreign"
  /\ bridge' = "own"
  /\ Goto("guard") /\ UNCHANGED <<machine, kernel, tunnel, linked>>

Guard ==
  /\ task.at = "guard" /\ Answers
  /\ machine' = [machine EXCEPT !.guarded = TRUE]
  /\ Goto("stops") /\ UNCHANGED <<bridge, kernel, tunnel, linked>>

RecoverStops ==
  /\ task.at = "stops" /\ Answers /\ Succeeds
  /\ alive' = alive \ intents /\ intents' = {}
  /\ row' = [c \in HostChannels |-> IF c \in intents THEN "stopped" ELSE row[c]]
  /\ task' = [task EXCEPT !.at = "kernel"]
  /\ UNCHANGED <<bases, saved, stage, asks, restart, quitting>>

\* ensure_mihomo leaves a kernel alone that runs and publishes nothing.  Any
\* other is removed and made again: a container that was created and never
\* started may not have got its file.
Untouched == kernel.state = "up" /\ ~kernel.publishes

EnsureKernel ==
  /\ task.at = "kernel" /\ Answers /\ bridge = "own"
  /\ IF Untouched THEN Goto("tunnel") /\ UNCHANGED kernel
                  ELSE Goto("create") /\ kernel' = [NoKernel EXCEPT !.file = kernel.file]
  /\ UNCHANGED <<machine, bridge, tunnel, linked>>

MakeKernel ==
  /\ Answers
  /\ \/ task.at = "create" /\ kernel' = [kernel EXCEPT !.state = "created"] /\ Goto("deliver")
     \/ task.at = "deliver" /\ kernel' = [kernel EXCEPT !.file = TRUE] /\ Goto("launch")
     \/ task.at = "launch" /\ kernel' = [kernel EXCEPT !.state = "up"] /\ Goto("tunnel")
  /\ UNCHANGED <<machine, bridge, tunnel, linked>>

Forward ==
  /\ task.at = "tunnel" /\ Answers
  /\ tunnel' = TRUE
  /\ Goto("ctrl") /\ UNCHANGED <<machine, bridge, kernel, linked>>

\* The controller answers; the replacements are settled and the rules synced, of
\* which a failure is only logged; the entry resumes.
Controllable == Answers /\ kernel.state = "up" /\ tunnel
StartReady ==
  /\ task.at = "ctrl" /\ Controllable /\ Succeeds
  /\ task' = [task EXCEPT !.at = "no"] /\ stage' = "ready"
  /\ restart' = IF restart.at = "ensure" THEN [restart EXCEPT !.at = "connect"] ELSE restart
  /\ UNCHANGED <<bases, chans, saved, asks, quitting>>

\* A step that fails ends the start, leaves everything as it is, and fails the
\* requests that wait for it.
StartBreaks ==
  /\ task.at # "no"
  /\ \/ Breaks
     \/ Succeeds /\ task.at # "look" /\ ~machine.on
     \/ Succeeds /\ task.at = "network" /\ bridge = "foreign"
     \/ Succeeds /\ task.at = "ctrl" /\ ~Controllable
  /\ task' = [task EXCEPT !.at = "no"] /\ stage' = "failed"
  /\ asks' = [c \in HostChannels |-> IF asks[c] = "start" THEN "none" ELSE asks[c]]
  /\ \/ restart.at = "ensure" /\ restart' = [restart EXCEPT !.at = "no"]
     \/ restart.at = "connect" /\ \E c \in restart.ids :
          restart' = [restart EXCEPT !.ids = @ \ {c}, !.failed = @ \cup {c}]
     \/ (restart.at # "ensure" /\ (restart.at = "connect" => restart.ids = {}))
          /\ UNCHANGED restart
  /\ UNCHANGED <<bases, chans, saved, quitting>>

StartStep ==
  \/ StartBegins \/ Boot \/ Connect \/ Network \/ Guard \/ RecoverStops \/ EnsureKernel
  \/ MakeKernel \/ Forward \/ StartReady \/ StartBreaks

-----------------------------------------------------------------------------
(* The handlers of the channels                                               *)

Ask(c, what) ==
  /\ Admits /\ asks[c] = "none"
  /\ asks' = [asks EXCEPT ![c] = what]
  /\ UNCHANGED <<bases, chans, saved, stage, task, restart, quitting, hostFaults>>

\* api::start once the runtime serves: a stop that is saved is confirmed first.
Started(c) ==
  /\ stage = "ready" /\ Answers /\ Succeeds
  /\ alive' = alive \cup {c} /\ row' = [row EXCEPT ![c] = "running"] /\ intents' = intents \ {c}

\* When quitting began the runtime is not started for it any more.
NotStarted(c) ==
  /\ \/ stage = "ready" /\ Breaks
     \/ stage = "ready" /\ machine.on /\ ~linked /\ Succeeds
     \/ quitting.at # "no" /\ task.at = "no" /\ Succeeds
  /\ \E confirmed \in SUBSET ({c} \cap intents) :
       /\ confirmed # {} => Answers
       /\ alive' = alive \ confirmed /\ intents' = intents \ confirmed
       /\ \E status \in {IF c \in confirmed THEN "stopped" ELSE row[c]}
                          \cup (IF c \in intents' THEN {} ELSE {"error"}) :
            row' = [row EXCEPT ![c] = status]

StartHandler(c) ==
  /\ asks[c] = "start" /\ (Started(c) \/ NotStarted(c))
  /\ asks' = [asks EXCEPT ![c] = "none"]
  /\ UNCHANGED <<bases, saved, stage, task, restart, quitting>>

\* api::stop does not start the runtime: the intent is saved and waits.
StopHandler(c) ==
  /\ asks[c] = "stop"
  /\ \/ /\ Answers /\ Succeeds
        /\ alive' = alive \ {c} /\ row' = [row EXCEPT ![c] = "stopped"]
        /\ intents' = intents \ {c}
     \/ /\ Breaks \/ (~Answers /\ Succeeds)
        /\ intents' = intents \cup {c} /\ UNCHANGED <<alive, row>>
  /\ asks' = [asks EXCEPT ![c] = "none"]
  /\ restart' = [restart EXCEPT !.calm = FALSE]
  /\ UNCHANGED <<bases, saved, stage, task, quitting>>

HandlerStep ==
  \E c \in HostChannels : \/ Ask(c, "start") \/ Ask(c, "stop")
                      \/ StartHandler(c) \/ StopHandler(c)

-----------------------------------------------------------------------------
(* app_settings                                                               *)

InUse == {c \in HostChannels : row[c] = "running" /\ c \notin intents}

\* set_resume_channels and update take turns at the file: each loads it, changes
\* its own field and saves the whole.
SettingsFree == update = <<>>

Remembers(ids) ==
  /\ SettingsFree
  /\ settings' = [settings EXCEPT !.resume = ids] /\ resume' = ids
  /\ UNCHANGED <<update, item>>

\* update: the login item is written before the settings are saved, and undone
\* if they are not.
LoginBegins ==
  /\ Admits /\ SettingsFree /\ Succeeds
  /\ item' = ~settings.login /\ update' = <<settings>>
  /\ UNCHANGED <<bases, chans, settings, page, resume, flows>>

NotUndone == item
Undone == update[1].login
LoginSaved ==
  /\ update # <<>>
  /\ \/ settings' = [update[1] EXCEPT !.login = ~@] /\ Succeeds /\ UNCHANGED item
     \/ Breaks /\ item' = Undone /\ UNCHANGED settings
  /\ update' = <<>>
  /\ UNCHANGED <<bases, chans, page, resume, flows>>

\* A window that opens connects what the list names, and clears it before.
PageReads ==
  /\ page.at = "open"
  /\ page' = IF settings.resume = {} THEN NoPage ELSE [at |-> "clear", ids |-> settings.resume]
  /\ UNCHANGED <<bases, chans, settings, update, item, resume, flows, hostFaults>>

PageClears ==
  /\ page.at = "clear" /\ Admits /\ Remembers({}) /\ Succeeds
  /\ page' = [page EXCEPT !.at = "connect"]
  /\ UNCHANGED <<bases, chans, flows>>

PageConnects ==
  /\ page.at = "connect" /\ Admits /\ Succeeds
  /\ \E c \in page.ids :
       /\ asks[c] = "none" /\ asks' = [asks EXCEPT ![c] = "start"]
       /\ page' = IF page.ids = {c} THEN NoPage ELSE [page EXCEPT !.ids = @ \ {c}]
  /\ UNCHANGED <<bases, chans, settings, update, item, resume, stage, task, restart, quitting>>

SettingsStep == LoginBegins \/ LoginSaved \/ PageReads \/ PageClears \/ PageConnects

-----------------------------------------------------------------------------
(* restart_route                                                              *)

RestartStarts ==
  /\ restart.at \in {"no", "done"} /\ restart.count < MaxRestarts
  /\ Admits /\ task.at = "no" /\ \A c \in HostChannels : asks[c] = "none"
  /\ stage' = "releasing"
  /\ restart' = [NoRestart EXCEPT !.at = "list", !.used = InUse, !.count = restart.count + 1]
  /\ UNCHANGED <<bases, chans, saved, task, asks, quitting, hostFaults>>

\* The list is saved, and kept, before the first channel is stopped.
RestartLists ==
  /\ restart.at = "list" /\ Remembers(InUse) /\ Succeeds
  /\ restart' = [restart EXCEPT !.at = "stop", !.ids = InUse]
  /\ UNCHANGED <<bases, chans, page, stage, task, asks, quitting>>

\* stop_all_channels: every channel that is not stopped, side by side.  A stop
\* that is not confirmed leaves its row; the container may be stopped or not.
Unstopped == {c \in HostChannels : row[c] # "stopped"}
StopAll(good, gone) ==
  /\ good \subseteq gone /\ gone \subseteq Unstopped
  /\ alive' = alive \ gone
  /\ row' = [c \in HostChannels |-> IF c \in good THEN "stopped" ELSE row[c]]
  /\ UNCHANGED intents

RestartStops ==
  /\ restart.at = "stop" /\ Answers /\ Succeeds
  /\ StopAll(Unstopped, Unstopped)
  /\ restart' = [restart EXCEPT !.at = "drop"]
  /\ UNCHANGED <<bases, saved, stage, task, asks, quitting>>

RestartDrops ==
  /\ restart.at = "drop" /\ Succeeds
  /\ tunnel' = FALSE
  /\ restart' = [restart EXCEPT !.at = "machine"]
  /\ UNCHANGED <<machine, bridge, kernel, linked, chans, saved, stage, task, asks, quitting>>

\* vm::stop may report anything: what counts is that the machine is seen stopped.
RestartMachine ==
  /\ restart.at = "machine" /\ Succeeds
  /\ machine' = Off /\ linked' = FALSE /\ stage' = "dormant"
  /\ restart' = [restart EXCEPT !.at = IF quitting.at = "no" THEN "ensure" ELSE "no"]
  /\ UNCHANGED <<bridge, kernel, tunnel, chans, saved, task, asks, quitting>>

\* A step of the stopping that fails cancels the restart where it is.
RestartBreaks ==
  /\ restart.at \in {"list", "stop", "drop", "machine"}
  /\ \/ Breaks
     \/ restart.at = "stop" /\ ~Answers /\ Succeeds
  /\ \/ /\ restart.at = "stop" /\ Answers
        /\ \E good, gone \in SUBSET Unstopped : good # Unstopped /\ StopAll(good, gone)
     \/ ~(restart.at = "stop" /\ Answers) /\ UNCHANGED chans
  /\ machine' \in IF restart.at = "machine" THEN {machine, Off} ELSE {machine}
  /\ stage' = "failed" /\ restart' = [restart EXCEPT !.at = "no"]
  /\ UNCHANGED <<bridge, kernel, tunnel, linked, saved, task, asks, quitting>>

\* The runtime may have been started for another request already.
RestartEnsured ==
  /\ restart.at = "ensure" /\ task.at = "no" /\ Succeeds
  /\ \/ quitting.at # "no" /\ restart' = [restart EXCEPT !.at = "no"]
     \/ Admits /\ stage = "ready" /\ machine.on /\ restart' = [restart EXCEPT !.at = "connect"]
  /\ UNCHANGED <<bases, chans, saved, stage, task, asks, quitting>>

\* api::start for one channel after the other; those that fail are reported.
RestartConnects ==
  /\ restart.at = "connect"
  /\ \E c \in restart.ids :
       \/ Started(c) /\ restart' = [restart EXCEPT !.ids = @ \ {c}]
       \/ NotStarted(c)
            /\ restart' = [restart EXCEPT !.ids = @ \ {c}, !.failed = @ \cup {c}]
  /\ UNCHANGED <<bases, saved, stage, task, asks, quitting>>

RestartEnds ==
  /\ restart.at = "connect" /\ restart.ids = {}
  /\ restart' = [restart EXCEPT !.at = "done"]
  /\ UNCHANGED <<bases, chans, saved, stage, task, asks, quitting, hostFaults>>

RestartStep ==
  \/ RestartStarts \/ RestartLists \/ RestartStops \/ RestartDrops \/ RestartMachine
  \/ RestartBreaks \/ RestartEnsured \/ RestartConnects \/ RestartEnds

-----------------------------------------------------------------------------
(* shutdown                                                                   *)

InFlight == \/ task.at # "no" \/ restart.at \notin {"no", "done"}
            \/ \E c \in HostChannels : asks[c] # "none"

\* What is in use is remembered before anything is stopped.
QuitBegins ==
  /\ quitting.at = "no"
  /\ quitting' = [at |-> "remember", used |-> InUse, calm |-> ~InFlight /\ update = <<>>]
  /\ restart' = [restart EXCEPT !.calm = FALSE]
  /\ UNCHANGED <<bases, chans, saved, stage, task, asks, hostFaults>>

QuitGoes(step) == quitting' = [quitting EXCEPT !.at = step]

\* Each step has a budget: when it is spent the next one begins.
RememberStep ==
  /\ quitting.at = "remember"
  /\ \/ Remembers(InUse) /\ Succeeds /\ QuitGoes("quiesce")
     \/ Breaks /\ quitting' = [quitting EXCEPT !.at = "quiesce", !.calm = FALSE]
          /\ UNCHANGED <<settings, update, item, resume>>
  /\ UNCHANGED <<bases, chans, page, stage, task, asks, restart>>

QuiesceStep ==
  /\ quitting.at = "quiesce" /\ (Breaks \/ (~InFlight /\ Succeeds))
  /\ QuitGoes("containers")
  /\ UNCHANGED <<bases, chans, saved, stage, task, asks, restart>>

ContainersStep ==
  /\ quitting.at = "containers"
  /\ \/ Answers /\ Succeeds /\ StopAll(Unstopped, Unstopped)
     \/ Answers /\ Breaks /\ \E good, gone \in SUBSET Unstopped : StopAll(good, gone)
     \/ ~Answers /\ Succeeds /\ UNCHANGED chans
  /\ QuitGoes("machine")
  /\ UNCHANGED <<bases, saved, stage, task, asks, restart>>

\* The process ends with whatever it had under way.
ProcessEnds ==
  /\ linked' = FALSE /\ tunnel' = FALSE /\ stage' = "dormant" /\ page' = NoPage
  /\ asks' = [c \in HostChannels |-> "none"] /\ update' = <<>>
  /\ restart' = [NoRestart EXCEPT !.count = restart.count]
  /\ task' = [task EXCEPT !.at = "no"]

\* A machine whose start is under way is left to the next application.
MachineStep ==
  /\ quitting.at = "machine"
  /\ \/ task.at = "no" /\ Succeeds /\ machine' = Off
     \/ (task.at # "no" \/ restart.at # "no") /\ Succeeds /\ UNCHANGED machine
     \/ task.at = "no" /\ Breaks /\ machine' \in {machine, Off}
  /\ ProcessEnds /\ QuitGoes("over")
  /\ UNCHANGED <<bridge, kernel, chans, settings, item, resume>>

\* The application dies; the forward it leaves is reclaimed before the next serves.
Dies ==
  /\ quitting.at # "over" /\ Breaks /\ ProcessEnds
  /\ quitting' = [NoQuit EXCEPT !.at = "over", !.calm = FALSE]
  /\ UNCHANGED <<machine, bridge, kernel, chans, settings, item, resume>>

Opens ==
  /\ quitting.at = "over" /\ quitting' = NoQuit
  /\ page' = [NoPage EXCEPT !.at = "open"]
  /\ UNCHANGED <<bases, chans, settings, update, item, resume, stage, task, asks, restart,
                 hostFaults>>

MachineDies ==
  /\ machine.on /\ Breaks
  /\ machine' = Off /\ tunnel' = FALSE /\ restart' = [restart EXCEPT !.calm = FALSE]
  /\ UNCHANGED <<bridge, kernel, linked, chans, saved, stage, task, asks, quitting>>

QuitGoesOn ==
  \/ QuitBegins \/ RememberStep \/ QuiesceStep \/ ContainersStep \/ MachineStep
  \/ Dies \/ Opens \/ MachineDies

HostNext == StartStep \/ HandlerStep \/ SettingsStep \/ RestartStep \/ QuitGoesOn
HostSpec == HostInit /\ [][HostNext]_hostVars

-----------------------------------------------------------------------------
HostTypeOK ==
  /\ machine \in [on : BOOLEAN, guarded : BOOLEAN]
  /\ bridge \in {"none", "own", "foreign"} /\ tunnel \in BOOLEAN /\ linked \in BOOLEAN
  /\ kernel \in [state : {"none", "created", "up"}, publishes : BOOLEAN, file : BOOLEAN]
  /\ alive \subseteq HostChannels /\ intents \subseteq HostChannels /\ resume \subseteq HostChannels
  /\ row \in [HostChannels -> {"stopped", "running", "error"}]
  /\ settings \in [resume : SUBSET HostChannels, login : BOOLEAN] /\ item \in BOOLEAN
  /\ update \in {<<>>} \cup {<<s>> : s \in [resume : SUBSET HostChannels, login : BOOLEAN]}
  /\ page \in [at : {"no", "open", "clear", "connect"}, ids : SUBSET HostChannels]
  /\ stage \in {"dormant", "starting", "ready", "failed", "releasing"}
  /\ task.count \in 0..MaxStarts
  /\ asks \in [HostChannels -> {"none", "start", "stop"}]
  /\ restart.count \in 0..MaxRestarts /\ hostFaults \in 0..MaxHostFaults

\* A kernel that runs has a configuration and its network, whichever step of the
\* starts before it failed.
KernelIsWhole == kernel.state = "up" => kernel.file /\ bridge # "none"

\* A restart that ended without the user's hand or a dead machine between: what
\* was in use when it began runs again, behind the guard of the machine's new
\* life, or is named among those that failed.
RestartReturns ==
  restart.at = "done" /\ restart.calm /\ stage = "ready" =>
    /\ machine.on /\ machine.guarded /\ Controllable
    /\ restart.used \subseteq alive \cup restart.failed

\* A quitting that met nothing under way leaves the list of what was in use.
QuitRemembers == quitting.at = "over" /\ quitting.calm => settings.resume = quitting.used

\* No update of the settings undoes another.
NothingUndone == settings.resume = resume

\* A change of the login switch that is answered leaves item and settings agreed,
\* saved or not.
ItemAgrees ==
  [][update # <<>> /\ update' = <<>> /\ quitting'.at # "over" => item' = settings'.login]_hostVars

\* The promises of a start that is repeated, a restart, a quitting and the file they
\* share.
HostKept == [](KernelIsWhole /\ RestartReturns /\ QuitRemembers /\ NothingUndone) /\ ItemAgrees
=============================================================================
