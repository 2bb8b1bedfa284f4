------------------------------ MODULE Watchdog ------------------------------
(* The gateway's watchdog (health.rs): every 20 s it asks whether the port the *)
(* user's proxy dials still carries data, and climbs a ladder of two steps     *)
(* when it does not: build the SSH forward again (seconds, no container is     *)
(* touched), and, when that keeps failing, restart the kernel's container.  It *)
(* meets the hand's own repair (routes.rs), the switch that pauses it, a       *)
(* machine that sleeps, and a runtime that stops or is started again.          *)
(*   - The steps of an iteration of the loop are separate actions: the world   *)
(*     and the switch move between what a step read and what it is used for.   *)
(*   - Time is counted in rounds of the loop and stands still while the        *)
(*     machine sleeps, as the monotonic clock the code uses does.              *)
EXTENDS Integers, FiniteSets

CONSTANTS
  Debounce,         \* FAIL_STREAK_BEFORE_HEAL
  Cooldown,         \* HEAL_COOLDOWN_MS, in rounds: no action before it has passed
  Window,           \* FLAP_WINDOW_MS, in rounds: older repairs are not counted
  Attempts,         \* FLAP_GIVEUP_COUNT: repairs of the forward before the restart
  Longest,          \* the rounds a repair of its own may last: its commands are bounded
  MaxBreakdowns,    \* bound on what goes wrong in the world, a failed command included
  MaxToggles,       \* bound on the uses of the switch and of the hand's repair
  MaxSleeps         \* bound on the machine's sleeps and the runtime's restarts

ASSUME WatchdogAssumption ==
  /\ {Debounce, Cooldown, Window, Attempts, Longest} \subseteq Nat \ {0}
  /\ (Cooldown + Longest) * Attempts <= Window
  /\ {MaxBreakdowns, MaxToggles, MaxSleeps} \subseteq Nat

VARIABLES
  phase,     \* the runtime: "serving", "resting" or "closing"
  gateway,   \* [machine, docker, kernel, forward]: what is really there
  allowed,   \* self_heal_enabled
  ladder,    \* the Watchdog: [streak, cool, heals, restarted, gaveUp]
  round,     \* the loop: [at, read, was, health, gone, woke]
  banner,    \* HealthSnapshot: [checked, healing, gaveUp]
  auto,      \* the repair the loop spawned: [at, action, age]
  hand,      \* the repair asked for by hand: where it is
  lock,      \* gateway_repair: who holds it
  count,     \* [tunnels, restarts]: what this ladder has decided so far
  used       \* [faults, toggles, sleeps]: uses of the bounds

watchdogVars ==
  <<phase, gateway, allowed, ladder, round, banner, auto, hand, lock, count, used>>

Healths == {"healthy", "forward_dead", "container_down", "transport_dead",
            "transport_degraded", "vm_down"}
Broken == {"forward_dead", "transport_dead"}

\* proxy_serves: a real handshake through the forward to the kernel.
Serves == gateway.machine /\ gateway.forward /\ gateway.kernel = "well"

\* check: Docker's answer first, then the port; the machine's own SSH tells a
\* broken transport from a machine that is gone.
Health ==
  IF ~gateway.machine \/ gateway.docker = "lost"
    THEN IF Serves THEN "transport_degraded"
         ELSE IF gateway.machine THEN "transport_dead" ELSE "vm_down"
  ELSE IF gateway.docker = "mute"
    THEN IF Serves THEN "transport_degraded" ELSE "transport_dead"
  ELSE IF gateway.kernel = "stopped" THEN "container_down"
  ELSE IF Serves THEN "healthy" ELSE "forward_dead"

Spend(kind) == used' = [used EXCEPT ![kind] = @ + 1]

-----------------------------------------------------------------------------
(* The ladder: pure decisions about one sample *)

Fresh == [streak |-> 0, cool |-> Cooldown, heals |-> {}, restarted |-> FALSE, gaveUp |-> FALSE]
NoTries == [tunnels |-> 0, restarts |-> 0]

\* The rounds that have passed since the last action and since each repair of
\* the forward; the clock does not advance while the machine sleeps.
Aged(l) ==
  [l EXCEPT !.cool = IF @ < Cooldown THEN @ + 1 ELSE @,
            !.heals = {age + 1 : age \in @} \cap (0 .. Window - 1)]

\* force_heal: after a sleep the forward is known to be dead, so the next sample
\* need neither be repeated nor wait, and an earlier surrender is taken back.
ForceStartsOver(l) == [Fresh EXCEPT !.streak = Debounce]
ForceHeal(l) == [l EXCEPT !.streak = Debounce, !.cool = Cooldown, !.gaveUp = FALSE]

Pressed(l) == [l EXCEPT !.streak = IF @ < Debounce THEN @ + 1 ELSE @]
MayAct(l) == ~l.gaveUp /\ l.streak >= Debounce /\ l.cool = Cooldown

\* The action of a sample.
ActionFor(l, health) ==
  IF health \notin Broken \/ ~MayAct(Pressed(l)) THEN "none"
  ELSE IF Cardinality(l.heals) < Attempts THEN "tunnel"
  ELSE IF l.restarted THEN "none" ELSE "restart"

\* Only a healthy sample ends the outage: a transport that works by half keeps
\* the ladder where it is.
EndsOutage(health) == health = "healthy"

\* The cooldown runs from the last action.
CoolsAnew(cool, action) == 0
CoolAfter(cool, action) == IF action = "none" THEN cool ELSE 0

Decided(l, health) ==
  IF EndsOutage(health) THEN Fresh
  ELSE IF health \notin Broken THEN l
  ELSE LET p == Pressed(l)
           action == ActionFor(l, health)
       IN  [p EXCEPT !.cool = CoolAfter(@, action),
                     !.heals = IF action = "tunnel" THEN @ \cup {0} ELSE @,
                     !.restarted = @ \/ action = "restart",
                     !.gaveUp = @ \/ (MayAct(p) /\ action = "none")]

-----------------------------------------------------------------------------
(* The loop *)

LoopAt(at) == round.at = at

\* The runtime does not serve: the loop starts over with it, and the last
\* sample no longer counts as one.
ShownAtRest == [banner EXCEPT !.checked = FALSE]
LoopRests ==
  /\ LoopAt("idle") /\ phase = "resting"
  /\ ladder' = Fresh /\ count' = NoTries
  /\ round' = [round EXCEPT !.gone = 0]
  /\ banner' = ShownAtRest
  /\ UNCHANGED <<phase, gateway, allowed, auto, hand, lock, used>>

LoopEnds ==
  /\ LoopAt("idle") /\ phase = "closing"
  /\ round' = [round EXCEPT !.at = "ended"]
  /\ UNCHANGED <<phase, gateway, allowed, ladder, banner, auto, hand, lock, count, used>>

\* A round begins: the switch is read here and used at the round's end.
LoopBegins(woke) ==
  LET resumed == allowed /\ ~round.was
      aged == IF resumed THEN Fresh ELSE IF woke THEN ladder ELSE Aged(ladder)
  IN
  /\ LoopAt("idle") /\ phase = "serving"
  /\ woke => used.sleeps < MaxSleeps
  /\ auto.age < Longest
  /\ auto' = IF auto.at = "none" \/ woke THEN auto ELSE [auto EXCEPT !.age = @ + 1]
  /\ ladder' = IF woke /\ allowed THEN ForceHeal(aged) ELSE aged
  /\ count' = IF resumed THEN NoTries ELSE count
  /\ round' = [round EXCEPT !.at = "sampling", !.read = allowed, !.was = allowed, !.woke = woke]
  /\ \/ woke /\ Spend("sleeps") /\ gateway' = [gateway EXCEPT !.forward = FALSE]
     \/ ~woke /\ UNCHANGED <<used, gateway>>
  /\ UNCHANGED <<phase, allowed, banner, hand, lock>>

\* VmDownStreak: the third round in a row, and only the third.
Streak(health) == IF health # "vm_down" THEN 0 ELSE IF round.gone < 4 THEN round.gone + 1 ELSE 4
ReportsGone(health) == Streak(health) = 3

\* The port is probed; Docker's connection may come back by itself.  The third
\* loss of the machine in a row stops the runtime and ends the round.
LoopSamples ==
  /\ LoopAt("sampling")
  /\ \/ gateway' = gateway
     \/ /\ gateway.docker = "lost" /\ gateway.machine
        /\ gateway' = [gateway EXCEPT !.docker = "ok"]
  /\ LET health == Health' IN
     /\ round' = [round EXCEPT !.at = IF ReportsGone(health) THEN "idle" ELSE "deciding",
                               !.health = health, !.gone = Streak(health)]
     /\ banner' = [banner EXCEPT !.checked = TRUE]
     /\ phase' = IF ReportsGone(health) /\ phase = "serving" THEN "resting" ELSE phase
  /\ UNCHANGED <<allowed, ladder, auto, hand, lock, count, used>>

\* try_gateway_repair
LockFree == lock = "free" /\ phase # "closing"

\* Paused: the banner says so, and nothing is decided.
LoopSkips ==
  /\ LoopAt("deciding") /\ ~round.read
  /\ round' = [round EXCEPT !.at = "idle"]
  /\ banner' = [banner EXCEPT !.healing = FALSE, !.gaveUp = FALSE]
  /\ UNCHANGED <<phase, gateway, allowed, ladder, auto, hand, lock, count, used>>

\* Somebody repairs already: the sample is shown and not counted.
LoopWaits ==
  /\ LoopAt("deciding") /\ round.read /\ ~LockFree
  /\ round' = [round EXCEPT !.at = "idle"]
  /\ banner' = [banner EXCEPT !.healing = TRUE, !.gaveUp = FALSE]
  /\ UNCHANGED <<phase, gateway, allowed, ladder, auto, hand, lock, count, used>>

LoopDecides ==
  LET action == ActionFor(ladder, round.health)
      after == Decided(ladder, round.health)
  IN
  /\ LoopAt("deciding") /\ round.read /\ LockFree
  /\ round' = [round EXCEPT !.at = "idle"]
  /\ ladder' = after
  /\ banner' = [banner EXCEPT !.healing = round.health \in Broken /\ ~after.gaveUp,
                              !.gaveUp = after.gaveUp]
  /\ count' = IF EndsOutage(round.health) THEN NoTries
              ELSE [tunnels |-> IF action = "tunnel" /\ count.tunnels < Attempts
                                  THEN count.tunnels + 1 ELSE count.tunnels,
                    restarts |-> IF action = "restart" /\ count.restarts < 2
                                   THEN count.restarts + 1 ELSE count.restarts]
  /\ \/ /\ action # "none" /\ phase = "serving"
        /\ auto' = [at |-> "begun", action |-> action, age |-> 0] /\ lock' = "auto"
     \/ /\ action = "none" \/ phase # "serving"
        /\ UNCHANGED <<auto, lock>>
  /\ UNCHANGED <<phase, gateway, allowed, hand, used>>

-----------------------------------------------------------------------------
(* The two repairs.  Both use heal_transport and restart_router. *)

MayFail == used.faults < MaxBreakdowns
MayRestore == gateway.docker = "lost" /\ gateway.machine

\* heal_transport's first half: Docker's own connection is made again when it
\* is dead, and its failure does not end the repair.
RestoresDocker ==
  \/ /\ MayRestore
     /\ gateway' = [gateway EXCEPT !.docker = "ok"]
     /\ UNCHANGED used
  \/ /\ MayRestore /\ MayFail
     /\ Spend("faults") /\ UNCHANGED gateway
  \/ ~MayRestore /\ UNCHANGED <<gateway, used>>

\* tunnel::ensure, once its attempts are over: a forward that serves is left
\* alone; another one needs the kernel's address, and serves if the kernel does.
CanForward == gateway.machine /\ gateway.docker # "lost" /\ gateway.kernel # "stopped"
EnsuresForward(ok) ==
  \/ Serves /\ ok = TRUE /\ UNCHANGED <<gateway, used>>
  \/ /\ ~Serves /\ CanForward
     /\ gateway' = [gateway EXCEPT !.forward = TRUE]
     /\ ok = (gateway.kernel = "well") /\ UNCHANGED used
  \/ /\ ~Serves /\ CanForward /\ MayFail
     /\ gateway' = [gateway EXCEPT !.forward = FALSE] /\ ok = FALSE /\ Spend("faults")
  \/ ~Serves /\ ~CanForward /\ ok = FALSE /\ UNCHANGED <<gateway, used>>

\* docker restart: the container has another address afterwards, so the forward
\* no longer leads to it.
RestartsKernel(ok) ==
  \/ /\ gateway.machine /\ gateway.docker = "ok" /\ ok = TRUE
     /\ gateway' = [gateway EXCEPT !.kernel = "well", !.forward = FALSE] /\ UNCHANGED used
  \/ /\ gateway.machine /\ gateway.docker = "ok" /\ ok = FALSE /\ MayFail
     /\ gateway' = [gateway EXCEPT !.forward = FALSE] /\ Spend("faults")
  \/ /\ ~gateway.machine \/ gateway.docker # "ok"
     /\ ok = FALSE /\ UNCHANGED <<gateway, used>>

AutoEnds == auto' = [at |-> "none", action |-> "none", age |-> 0] /\ lock' = "free"
AutoTo(at) == auto' = [auto EXCEPT !.at = at] /\ UNCHANGED lock

\* The spawned task looks at the switch again, and, after it has gathered its
\* evidence, once more before it touches anything.
StillAllowed == allowed
AutoGathers ==
  /\ auto.at = "begun"
  /\ IF allowed THEN AutoTo("ready") ELSE AutoEnds
  /\ UNCHANGED <<phase, gateway, allowed, ladder, round, banner, hand, count, used>>
\* A restart is called off when the port serves again by then.
AutoStopsEarly ==
  /\ auto.at = "ready"
  /\ ~StillAllowed \/ (auto.action = "restart" /\ Serves)
  /\ AutoEnds
  /\ UNCHANGED <<phase, gateway, allowed, ladder, round, banner, hand, count, used>>
AutoTouches ==
  /\ auto.at = "ready" /\ StillAllowed
  /\ \/ auto.action = "tunnel" /\ RestoresDocker /\ AutoTo("forwards")
     \/ /\ auto.action = "restart" /\ ~Serves
        /\ \E ok \in BOOLEAN :
             RestartsKernel(ok) /\ (IF ok THEN AutoTo("forwards") ELSE AutoEnds)
  /\ UNCHANGED <<phase, allowed, ladder, round, banner, hand, count>>
AutoForwards ==
  /\ auto.at = "forwards"
  /\ \E ok \in BOOLEAN : EnsuresForward(ok)
  /\ AutoEnds
  /\ UNCHANGED <<phase, allowed, ladder, round, banner, hand, count>>

AutoStep == AutoGathers \/ AutoStopsEarly \/ AutoTouches \/ AutoForwards

\* heal_proxy: the lock first, then the runtime, then the same two steps.
HandBegins ==
  /\ hand = "none" /\ used.toggles < MaxToggles /\ LockFree
  /\ lock' = "hand" /\ hand' = "begun" /\ Spend("toggles")
  /\ UNCHANGED <<phase, gateway, allowed, ladder, round, banner, auto, count>>
HandEnds == hand' = "none" /\ lock' = "free"
HandTo(at) == hand' = at /\ UNCHANGED lock
HandEnsures ==
  /\ hand = "begun"
  /\ \/ phase = "serving" /\ HandTo("restores")
     \/ phase # "serving" /\ HandEnds
  /\ UNCHANGED <<phase, gateway, allowed, ladder, round, banner, auto, count, used>>
HandRestores ==
  /\ hand = "restores" /\ RestoresDocker /\ HandTo("forwards")
  /\ UNCHANGED <<phase, allowed, ladder, round, banner, auto, count>>
Confirmed == banner' = [checked |-> FALSE, healing |-> FALSE, gaveUp |-> FALSE]
HandForwards ==
  /\ hand = "forwards"
  /\ \E ok \in BOOLEAN :
       /\ EnsuresForward(ok)
       /\ IF ok THEN HandEnds /\ Confirmed ELSE HandTo("restarts") /\ UNCHANGED banner
  /\ UNCHANGED <<phase, allowed, ladder, round, auto, count>>
HandRestarts ==
  /\ hand = "restarts"
  /\ \E ok \in BOOLEAN : RestartsKernel(ok) /\ (IF ok THEN HandTo("finishes") ELSE HandEnds)
  /\ UNCHANGED <<phase, allowed, ladder, round, banner, auto, count>>
HandFinishes ==
  /\ hand = "finishes"
  /\ \E ok \in BOOLEAN :
       EnsuresForward(ok) /\ (IF ok THEN Confirmed ELSE UNCHANGED banner)
  /\ HandEnds
  /\ UNCHANGED <<phase, allowed, ladder, round, auto, count>>

HandStep ==
  \/ HandEnsures \/ HandRestores \/ HandForwards \/ HandRestarts \/ HandFinishes

-----------------------------------------------------------------------------
(* The world *)

Toggles ==
  /\ used.toggles < MaxToggles
  /\ allowed' = ~allowed /\ Spend("toggles")
  /\ UNCHANGED <<phase, gateway, ladder, round, banner, auto, hand, lock, count>>

Fails ==
  /\ MayFail /\ Spend("faults")
  /\ \/ gateway' = [gateway EXCEPT !.forward = FALSE]
     \/ \E d \in {"lost", "mute"} : gateway' = [gateway EXCEPT !.docker = d]
     \/ \E k \in {"stuck", "stopped"} : gateway' = [gateway EXCEPT !.kernel = k]
     \/ gateway' = [gateway EXCEPT !.machine = FALSE, !.forward = FALSE, !.docker = "lost"]
  /\ UNCHANGED <<phase, allowed, ladder, round, banner, auto, hand, lock, count>>
\* What recovers without the watchdog.
Mends ==
  /\ \/ gateway.docker = "mute" /\ gateway' = [gateway EXCEPT !.docker = "ok"]
     \/ gateway.kernel # "well" /\ gateway' = [gateway EXCEPT !.kernel = "well"]
  /\ UNCHANGED <<phase, allowed, ladder, round, banner, auto, hand, lock, count, used>>

\* The runtime is released or stopped only when nothing holds a permit; a start
\* gives it a machine, a kernel and a forward, and takes at least a round.
Stops ==
  /\ phase = "serving" /\ LoopAt("idle") /\ auto.at = "none" /\ hand \in {"none", "begun"}
  /\ used.sleeps < MaxSleeps /\ Spend("sleeps")
  /\ phase' = "resting"
  /\ gateway' = [machine |-> FALSE, docker |-> "lost", kernel |-> "well", forward |-> FALSE]
  /\ UNCHANGED <<allowed, ladder, round, banner, auto, hand, lock, count>>
Starts ==
  /\ phase = "resting" /\ LoopAt("idle") /\ ladder = Fresh /\ round.gone = 0
  /\ phase' = "serving"
  /\ gateway' = [machine |-> TRUE, docker |-> "ok", kernel |-> "well", forward |-> TRUE]
  /\ UNCHANGED <<allowed, ladder, round, banner, auto, hand, lock, count, used>>
Closes ==
  /\ phase # "closing" /\ phase' = "closing"
  /\ UNCHANGED <<gateway, allowed, ladder, round, banner, auto, hand, lock, count, used>>

-----------------------------------------------------------------------------
WatchdogInit ==
  /\ phase = "resting" /\ allowed = TRUE
  /\ gateway = [machine |-> FALSE, docker |-> "lost", kernel |-> "well", forward |-> FALSE]
  /\ ladder = Fresh /\ count = NoTries
  /\ round = [at |-> "idle", read |-> TRUE, was |-> TRUE, health |-> "healthy", gone |-> 0,
              woke |-> FALSE]
  /\ banner = [checked |-> FALSE, healing |-> FALSE, gaveUp |-> FALSE]
  /\ auto = [at |-> "none", action |-> "none", age |-> 0] /\ hand = "none" /\ lock = "free"
  /\ used = [faults |-> 0, toggles |-> 0, sleeps |-> 0]

LoopStep ==
  \/ LoopRests \/ LoopEnds \/ LoopSamples \/ LoopSkips \/ LoopWaits \/ LoopDecides
  \/ \E woke \in BOOLEAN : LoopBegins(woke)

WatchdogNext ==
  \/ LoopStep \/ AutoStep \/ HandBegins \/ HandStep
  \/ Toggles \/ Fails \/ Mends \/ Stops \/ Starts \/ Closes

WatchdogSpec == WatchdogInit /\ [][WatchdogNext]_watchdogVars

\* The loop's timer keeps ticking and a spawned repair runs to its end; the
\* commands it waits for are all bounded.
WatchdogFairness ==
  /\ WF_watchdogVars(LoopStep)
  /\ WF_watchdogVars(AutoStep)
  /\ WF_watchdogVars(HandStep)

-----------------------------------------------------------------------------
WatchdogTypeOK ==
  /\ phase \in {"serving", "resting", "closing"}
  /\ gateway \in [machine : BOOLEAN, docker : {"ok", "mute", "lost"},
                  kernel : {"well", "stuck", "stopped"}, forward : BOOLEAN]
  /\ allowed \in BOOLEAN
  /\ ladder \in [streak : 0 .. Debounce, cool : 0 .. Cooldown, heals : SUBSET (0 .. Window - 1),
                 restarted : BOOLEAN, gaveUp : BOOLEAN]
  /\ round \in [at : {"idle", "sampling", "deciding", "ended"}, read : BOOLEAN, was : BOOLEAN,
                health : Healths, gone : 0 .. 4, woke : BOOLEAN]
  /\ banner \in [checked : BOOLEAN, healing : BOOLEAN, gaveUp : BOOLEAN]
  /\ auto \in [at : {"none", "begun", "ready", "forwards"}, action : {"none", "tunnel", "restart"},
              age : 0 .. Longest]
  /\ hand \in {"none", "begun", "restores", "forwards", "restarts", "finishes"}
  /\ lock \in {"free", "auto", "hand"}
  /\ count \in [tunnels : 0 .. Attempts, restarts : 0 .. 2]

\* The kernel's container is restarted at most once in an outage, and the watchdog
\* gives up only after that, each after the forward was repaired as often as the
\* ladder asks: neither a sleep, a machine that comes and goes nor a transport
\* that works by half shortens the ladder or lets it start over
\* (health.rs:161-228, 242-246).
RestartIsEarned ==
  /\ count.restarts <= 1
  /\ count.restarts = 1 => count.tunnels = Attempts
  /\ ladder.gaveUp => count.restarts = 1

\* The watchdog's repair and the one asked for by hand never touch the forward or
\* the container at the same time (lifecycle.rs:185-188).
RepairsAreAlone == auto.at = "none" \/ hand = "none"

\* While the runtime serves, a banner that asks the user to step in says so of a
\* sample that was taken, and the watchdog has really stopped trying.
BannerIsHonest ==
  phase = "serving" /\ LoopAt("idle") /\ banner.checked /\ banner.gaveUp => ladder.gaveUp

\* Once the user pauses the watchdog, its repair begins nothing more: it neither
\* builds a connection nor restarts the container (health.rs:654, 667, 687).
AutoTouchesAnything == AutoTouches /\ gateway' # gateway
PauseIsRespected == AutoTouchesAnything => allowed

\* A gateway that stays broken is repaired, or the watchdog gives up and says so:
\* it is never left broken with the ladder waiting, once the machine, the switch
\* and the runtime stay as they are.
GatewayAtRest == Serves \/ ladder.gaveUp \/ gateway.kernel = "stopped" \/ ~gateway.machine
           \/ ~allowed \/ phase # "serving"
GatewaySettles == []<>GatewayAtRest

\* health.rs:240-241 and its test (1276-1282): after a sleep an earlier surrender no longer
\* holds this repair back: the first decision after the wake acts.
WakeActs ==
  LoopDecides /\ round.woke /\ round.health \in Broken /\ phase = "serving"
    => auto'.at = "begun"
WakeIsHealed == [][WakeActs]_watchdogVars

\* The ladder is climbed rung by rung by one repairer, the banner tells the truth
\* about it, and a pause of the user holds: after every step and in every step.
LadderKept ==
  [][RestartIsEarned' /\ RepairsAreAlone' /\ BannerIsHonest' /\ PauseIsRespected]_watchdogVars
=============================================================================
