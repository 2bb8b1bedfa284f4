------------------------------ MODULE Takeover ------------------------------
(***************************************************************************)
(* How the application takes the network over: the wish of the user        *)
(* (takeover.json), the background loop that compares what it detects with *)
(* the plan it applied last (takeover.rs), and everybody who writes the    *)
(* automatic proxy of a network service (entry.rs): the loop, a PUT, the   *)
(* switch of the page, the idle release and the resumption after it, the   *)
(* quit, and the user in the System Settings.                              *)
(*                                                                         *)
(* Simplifications:                                                        *)
(*  - A detection reads everything at once, and so does the look at one    *)
(*    service before it is switched off or on again.                       *)
(*  - The entry of TUN is its mark and whether its engine runs; TunEntry   *)
(*    has the rest.  The helper never resolves names (entry.rs:600 passes  *)
(*    no DNS port), so tun_handles_domains is false.                       *)
(*  - Time is counted in rounds of the loop.                               *)
(***************************************************************************)
EXTENDS Naturals, Sequences, FiniteSets

CONSTANTS Services,    \* the network services of the machine
          TakeoverModes,       \* the modes the user chooses from
          RetryRounds, \* RETRY_AFTER, in rounds
          MaxWorld,    \* BOUND: changes made by the user's hand and other programs
          MaxAsks,     \* BOUND: PUTs and uses of the switch
          MaxTroubles  \* BOUND: commands that fail, ends of the process

ASSUME TakeoverAssumption ==
  /\ Services # {} /\ IsFiniteSet(Services) /\ RetryRounds \in Nat
  /\ TakeoverModes # {} /\ TakeoverModes \subseteq {"auto", "tun", "clash", "system_proxy", "tun_system_proxy"}
  /\ MaxWorld \in Nat /\ MaxAsks \in Nat /\ MaxTroubles \in Nat

VARIABLES
  autoproxy,  \* of each service: the URL, and whether it is on
  service,    \* the primary service
  tun,        \* the mark of the entry, whether its engine runs, the helper's presence
  clash,      \* Clash answers
  legacy,     \* the other application's TUN is there
  wish,       \* takeover.json
  lastPlan,    \* LAST: the plan executed last, and whether that failed
  age,        \* rounds since it failed
  sightings,       \* OBSERVATIONS
  work,        \* who has LAST locked, and what is left to execute
  calls,      \* the calls of system_proxy_apply, of the job and of the switch
  proxyLock,  \* who has PROXY_MUTATION_LOCK
  suspended,  \* IDLE_PROXY_SERVICES
  looked,     \* the services the idle release or the resumption has dealt with
  stage,      \* the runtime, as far as the loop asks
  quitting,   \* the quit, up to its park_all
  credit      \* what is left of the bounds

\* Auxiliary: the switch was used last to turn the proxy off.
VARIABLE switchedOff
\* Auxiliary: the user changed the primary service under an applied plan.
VARIABLE byHand

setup == <<autoproxy, service>>
outside == <<clash, legacy, credit>>
memory == <<lastPlan, age, sightings>>
release == <<suspended, looked, stage>>
ghosts == <<switchedOff, byHand>>
takeoverVars == <<setup, tun, outside, wish, memory, work, calls, proxyLock, release, quitting, ghosts>>

Callers == {"job", "switch"}
Plans == [tun : BOOLEAN, proxy : BOOLEAN,
          effective : {"clash", "tun", "system_proxy", "none"},
          via : {"clash", "none", "system_proxy"},
          action : {"none", "install_tun", "enable_system_proxy", "close_other_app"}]
NoPlan == [tun |-> FALSE, proxy |-> FALSE, effective |-> "none", via |-> "none", action |-> "none"]
WishSet == [mode : TakeoverModes, ok : BOOLEAN]
Verdicts == {"keep", "on", "off"}
Urls == {"none", "ours", "old", "custom", "legacy"}
NoWork == [by |-> "nobody", at |-> "free", plan |-> NoPlan, tun |-> "keep", proxy |-> "keep", ok |-> TRUE]
NoCall == [at |-> "none", on |-> FALSE, svc |-> CHOOSE s \in Services : TRUE]

TakeoverTypeOK ==
  /\ autoproxy \in [Services -> [url : Urls, on : BOOLEAN]] /\ service \in Services
  /\ tun \in [mark : BOOLEAN, alive : BOOLEAN, installed : BOOLEAN]
  /\ {clash, legacy, switchedOff, byHand} \subseteq BOOLEAN
  /\ wish \in WishSet
  /\ lastPlan \in [known : BOOLEAN, failed : BOOLEAN, plan : Plans] /\ age \in 0 .. RetryRounds
  /\ Len(sightings) <= 3 /\ \A i \in DOMAIN sightings : sightings[i] \in [wish : WishSet, plan : Plans, other : BOOLEAN]
  /\ work \in [by : {"nobody", "loop", "put"}, at : {"free", "tun", "proxy", "wait"}, plan : Plans,
              tun : Verdicts, proxy : Verdicts, ok : BOOLEAN]
  /\ calls \in [Callers -> [at : {"none", "queued", "url", "on", "clear", "ok", "failed"},
                            on : BOOLEAN, svc : Services]]
  /\ proxyLock \in Callers \cup {"nobody", "idle", "resume", "quit"}
  /\ suspended \subseteq Services /\ looked \subseteq Services
  /\ stage \in {"off", "resuming", "serving", "parking", "failed"}
  /\ quitting \in {"no", "asked", "parked", "unsure"}

TakeoverInit ==
  /\ autoproxy = [s \in Services |-> [url |-> "none", on |-> FALSE]]
  /\ service = NoCall.svc
  /\ tun = [mark |-> FALSE, alive |-> FALSE, installed |-> TRUE]
  /\ clash = FALSE /\ legacy = FALSE
  /\ wish \in [mode : TakeoverModes, ok : {FALSE}]
  /\ lastPlan = [known |-> FALSE, failed |-> FALSE, plan |-> NoPlan] /\ age = 0 /\ sightings = <<>>
  /\ work = NoWork /\ calls = [c \in Callers |-> NoCall] /\ proxyLock = "nobody"
  /\ suspended = {} /\ looked = {} /\ stage = "off" /\ quitting = "no"
  /\ credit = [world |-> MaxWorld, asks |-> MaxAsks, troubles |-> MaxTroubles]
  /\ switchedOff = FALSE /\ byHand = FALSE

Uses(kind) == credit[kind] > 0 /\ credit' = [credit EXCEPT ![kind] = @ - 1]

---------------------------------------------------------------------------
\* detect and the pure functions over what it read.

Opened(s, url) == autoproxy[s] = [url |-> url, on |-> TRUE]
OtherTakes == legacy \/ \E s \in Services : Opened(s, "legacy")

Detection ==
  [other |-> OtherTakes, clash |-> clash, installed |-> tun.installed, mark |-> tun.mark,
   alive |-> tun.mark /\ tun.alive,
   proxy |-> IF ~autoproxy[service].on \/ autoproxy[service].url = "none" THEN "off"
             ELSE IF autoproxy[service].url = "ours" THEN "current"
             ELSE IF autoproxy[service].url = "old" THEN "stale" ELSE "foreign"]

\* decide.
Decide(w, d) ==
  LET auto == w.mode = "auto"
      wantsTun == w.mode \in {"auto", "tun", "tun_system_proxy"} /\ d.installed
      wantsProxy == w.mode \in {"system_proxy", "tun_system_proxy"} \/ (auto /\ ~d.clash /\ w.ok)
      clashDoes == w.mode = "clash" \/ (auto /\ d.clash)
      missing == ~d.installed /\ (w.mode \in {"tun", "tun_system_proxy"} \/ (auto /\ ~d.clash))
  IN [tun |-> wantsTun, proxy |-> wantsProxy,
      effective |-> IF clashDoes THEN "clash" ELSE IF wantsTun THEN "tun"
                    ELSE IF wantsProxy THEN "system_proxy" ELSE "none",
      via |-> IF clashDoes \/ (w.mode = "tun" /\ d.clash) THEN "clash"
              ELSE IF w.mode = "tun" THEN "none" ELSE "system_proxy",
      action |-> IF missing THEN "install_tun"
                 ELSE IF auto /\ ~d.clash /\ ~w.ok THEN "enable_system_proxy" ELSE "none"]

Retreat == [NoPlan EXCEPT !.action = "close_other_app"]
Observation(d) ==
  [wish |-> wish, plan |-> IF d.other THEN Retreat ELSE Decide(wish, d), other |-> d.other]

\* settle: three equal observations, two if the other application is there.
Steady(s) ==
  LET n == IF s[Len(s)].other THEN 2 ELSE 3
  IN Len(s) >= n /\ \A i \in (Len(s) + 1 - n) .. Len(s) : s[i] = s[Len(s)]

\* round: what differs from the plan applied before, where it is not so already.
Verdict(on) == IF on THEN "on" ELSE "off"
Differences(plan, d, before) ==
  [tun |-> IF (~before.known \/ before.plan.tun # plan.tun)
              /\ (IF plan.tun THEN ~d.alive ELSE d.mark)
           THEN Verdict(plan.tun) ELSE "keep",
   proxy |-> IF (~before.known \/ before.plan.proxy # plan.proxy)
                /\ d.proxy \in (IF plan.proxy THEN {"off", "stale"} ELSE {"current", "stale"})
             THEN Verdict(plan.proxy) ELSE "keep"]

\* The other application: everything of ours is closed, whatever was applied.
RetreatByEngine(d) ==
  [tun |-> IF d.alive THEN "off" ELSE "keep",
   proxy |-> IF d.proxy \in {"current", "stale"} THEN "off" ELSE "keep"]
RetreatSteps(d) ==
  [tun |-> IF d.mark THEN "off" ELSE "keep",
   proxy |-> IF d.proxy \in {"current", "stale"} THEN "off" ELSE "keep"]

---------------------------------------------------------------------------
\* The loop of spawn.

\* A plan that failed does not count as applied.
Before == [lastPlan EXCEPT !.known = @ /\ ~lastPlan.failed]
Unapplied == [lastPlan EXCEPT !.known = FALSE]
LoopCompares == Before
Paused(plan) == lastPlan.known /\ lastPlan.failed /\ lastPlan.plan = plan /\ age < RetryRounds
Pushed(o) == IF Len(sightings) = 3 THEN Append(Tail(sightings), o) ELSE Append(sightings, o)

Records(plan, ok) ==
  /\ lastPlan' = [known |-> TRUE, failed |-> ~ok, plan |-> plan]
  /\ age' = 0
  /\ byHand' = (byHand /\ ok /\ lastPlan.known /\ lastPlan.plan.proxy = plan.proxy)

Executes(by, plan, steps) ==
  work' = [by |-> by, at |-> "tun", plan |-> plan, tun |-> steps.tun, proxy |-> steps.proxy, ok |-> TRUE]
Nothing(steps) == steps.tun = "keep" /\ steps.proxy = "keep"

LoopRound ==
  /\ work = NoWork /\ quitting = "no"
  /\ IF stage # "serving"
     THEN sightings' = <<>> /\ UNCHANGED <<lastPlan, age, byHand, work>>
     ELSE LET d == Detection
              now == Pushed(Observation(d))
              plan == now[Len(now)].plan
              steps == IF d.other THEN RetreatSteps(d) ELSE Differences(plan, d, LoopCompares)
              older == IF age < RetryRounds THEN age + 1 ELSE age
          IN /\ sightings' = now
             /\ IF ~Steady(now) \/ (Paused(plan) /\ (d.other \/ ~Nothing(steps)))
                THEN age' = older /\ UNCHANGED <<lastPlan, byHand, work>>
                ELSE IF Nothing(steps) THEN Records(plan, TRUE) /\ UNCHANGED work
                ELSE Executes("loop", plan, steps) /\ age' = older /\ UNCHANGED <<lastPlan, byHand>>
  /\ UNCHANGED <<setup, tun, outside, wish, calls, proxyLock, release, quitting, switchedOff>>

\* PUT: refused beside the other application, executed at once otherwise.
Puts ==
  /\ work = NoWork /\ stage # "parking" /\ quitting = "no" /\ ~OtherTakes
  /\ Uses("asks")
  /\ \E m \in TakeoverModes, ok \in BOOLEAN :
       wish' = [mode |-> m, ok |-> ok \/ m \in {"system_proxy", "tun_system_proxy"}]
  /\ sightings' = <<>> /\ age' = 0 /\ byHand' = FALSE
  /\ LET plan == Decide(wish', Detection)
         steps == Differences(plan, Detection, Unapplied)
     IN IF stage = "serving" /\ ~Nothing(steps)
        THEN Executes("put", plan, steps) /\ lastPlan' = Unapplied
        ELSE /\ lastPlan' = [known |-> stage = "serving", failed |-> FALSE, plan |-> plan]
             /\ UNCHANGED work
  /\ UNCHANGED <<setup, tun, clash, legacy, calls, proxyLock, release, quitting, switchedOff>>

\* apply: tun_apply, then system_proxy_apply; the mark goes even if the stop fails.
JobTun ==
  /\ work.at = "tun"
  /\ \/ work.tun = "keep" /\ UNCHANGED <<tun, credit>> /\ work' = [work EXCEPT !.at = "proxy"]
     \/ /\ work.tun = "off"
        /\ tun' = [tun EXCEPT !.mark = FALSE, !.alive = FALSE]
        /\ work' = [work EXCEPT !.at = "proxy"] /\ UNCHANGED credit
     \/ /\ work.tun = "on" /\ quitting = "no" /\ ~OtherTakes
        /\ tun' = [tun EXCEPT !.mark = TRUE, !.alive = TRUE]
        /\ work' = [work EXCEPT !.at = "proxy"] /\ UNCHANGED credit
     \/ /\ work.tun = "on"
        /\ IF quitting # "no" \/ OtherTakes THEN UNCHANGED credit ELSE Uses("troubles")
        /\ work' = [work EXCEPT !.at = "proxy", !.ok = FALSE] /\ UNCHANGED tun
  /\ UNCHANGED <<setup, clash, legacy, wish, memory, calls, proxyLock, release, quitting, ghosts>>

JobProxy ==
  /\ work.at = "proxy"
  /\ work' = [work EXCEPT !.at = "wait"]
  /\ IF work.proxy = "keep" THEN calls' = [calls EXCEPT !["job"].at = "ok"]
     ELSE calls' = [calls EXCEPT !["job"] = [NoCall EXCEPT !.at = "queued", !.on = work.proxy = "on"]]
  /\ UNCHANGED <<setup, tun, outside, wish, memory, proxyLock, release, quitting, ghosts>>

JobEnds ==
  /\ work.at = "wait" /\ calls["job"].at \in {"ok", "failed"}
  /\ Records(work.plan, work.ok /\ calls["job"].at = "ok")
  /\ work' = NoWork /\ calls' = [calls EXCEPT !["job"] = NoCall]
  /\ UNCHANGED <<setup, tun, outside, wish, sightings, proxyLock, release, quitting, switchedOff>>

---------------------------------------------------------------------------
\* system_proxy_apply, under PROXY_MUTATION_LOCK.

SwitchUsed ==
  /\ calls["switch"].at = "none" /\ stage # "parking" /\ quitting = "no"
  /\ Uses("asks")
  /\ \E on \in BOOLEAN : calls' = [calls EXCEPT !["switch"] = [NoCall EXCEPT !.at = "queued", !.on = on]]
  /\ UNCHANGED <<setup, tun, clash, legacy, wish, memory, work, proxyLock, release, quitting, ghosts>>

\* ensure_entry_open: looked at behind the lock, and before each command.
NotClosing == quitting = "no"

\* ensure_no_other_app; the service is chosen now.
CallBegins(c) ==
  /\ calls[c].at = "queued" /\ proxyLock = "nobody"
  /\ IF calls[c].on /\ (~NotClosing \/ OtherTakes)
     THEN calls' = [calls EXCEPT ![c].at = "failed"] /\ UNCHANGED proxyLock
     ELSE /\ proxyLock' = c
          /\ calls' = [calls EXCEPT ![c].at = "url", ![c].svc = service]
  /\ UNCHANGED <<setup, tun, outside, wish, memory, work, release, quitting, ghosts>>

CallFails(c) ==
  /\ calls[c].at \in {"url", "on"}
  /\ \/ Uses("troubles")
     \/ calls[c].on /\ ~NotClosing /\ UNCHANGED credit
  /\ calls' = [calls EXCEPT ![c].at = "failed"] /\ proxyLock' = "nobody"
  /\ UNCHANGED <<setup, tun, clash, legacy, wish, memory, work, release, quitting, ghosts>>

SetsUrl(c) ==
  /\ calls[c].at = "url" /\ calls[c].on /\ NotClosing
  /\ autoproxy' = [autoproxy EXCEPT ![calls[c].svc].url = "ours"]
  /\ calls' = [calls EXCEPT ![c].at = "on"]
  /\ switchedOff' = FALSE
  /\ UNCHANGED <<service, tun, outside, wish, memory, work, proxyLock, release, quitting, byHand>>

SetsOn(c) ==
  /\ calls[c].at = "on" /\ NotClosing
  /\ autoproxy' = [autoproxy EXCEPT ![calls[c].svc].on = TRUE]
  /\ calls' = [calls EXCEPT ![c].at = "clear"]
  /\ UNCHANGED <<service, tun, outside, wish, memory, work, proxyLock, release, quitting, ghosts>>

\* Switching off closes every service that is on with an address of ours.
OwnProxy(s) == Opened(s, "ours") \/ Opened(s, "old")
SetsOff(c) ==
  /\ calls[c].at = "url" /\ ~calls[c].on
  /\ autoproxy' = [s \in Services |-> IF OwnProxy(s) THEN [autoproxy[s] EXCEPT !.on = FALSE] ELSE autoproxy[s]]
  /\ calls' = [calls EXCEPT ![c].at = "clear"]
  /\ UNCHANGED <<service, tun, outside, wish, memory, work, proxyLock, release, quitting, ghosts>>

\* An explicit switch cancels what the idle release meant to have resumed.
KeepsSuspended == suspended
Cancelled == {}
CallEnds(c) ==
  /\ calls[c].at = "clear"
  /\ suspended' = Cancelled
  /\ switchedOff' = ~calls[c].on
  /\ calls' = [calls EXCEPT ![c] = IF c = "switch" THEN NoCall ELSE [@ EXCEPT !.at = "ok"]]
  /\ proxyLock' = "nobody"
  /\ UNCHANGED <<setup, tun, outside, wish, memory, work, looked, stage, quitting, byHand>>

SwitchFailed ==
  /\ calls["switch"].at = "failed"
  /\ calls' = [calls EXCEPT !["switch"] = NoCall]
  /\ UNCHANGED <<setup, tun, outside, wish, memory, work, proxyLock, release, quitting, ghosts>>

Applying(c) ==
  CallBegins(c) \/ CallFails(c) \/ SetsUrl(c) \/ SetsOn(c) \/ SetsOff(c) \/ CallEnds(c)

---------------------------------------------------------------------------
\* park_for_idle and resume_after_idle; the runtime waits for requests to end.

ParkingBegins ==
  /\ stage = "serving" /\ quitting = "no"
  /\ work = NoWork /\ calls["switch"].at = "none" /\ proxyLock = "nobody"
  /\ stage' = "parking" /\ proxyLock' = "idle" /\ looked' = {}
  /\ tun' = [tun EXCEPT !.alive = FALSE]
  /\ UNCHANGED <<setup, outside, wish, memory, work, calls, suspended, quitting, ghosts>>

\* Remembered before it is written.
ParksService(s) ==
  /\ proxyLock = "idle" /\ s \notin looked
  /\ looked' = looked \cup {s}
  /\ IF Opened(s, "ours")
     THEN /\ suspended' = suspended \cup {s}
          /\ \/ autoproxy' = [autoproxy EXCEPT ![s].on = FALSE] /\ UNCHANGED <<credit, stage, proxyLock>>
             \/ /\ Uses("troubles") /\ UNCHANGED autoproxy
                /\ stage' = "failed" /\ proxyLock' = "nobody"
     ELSE UNCHANGED <<suspended, autoproxy, credit, stage, proxyLock>>
  /\ UNCHANGED <<service, tun, clash, legacy, wish, memory, work, calls, quitting, ghosts>>

ParkingEnds ==
  /\ proxyLock = "idle" /\ looked = Services
  /\ stage' = "off" /\ proxyLock' = "nobody"
  /\ UNCHANGED <<setup, tun, outside, wish, memory, work, calls, suspended, looked, quitting, ghosts>>

StartBegins ==
  /\ stage \in {"off", "failed"} /\ quitting = "no"
  /\ stage' = "resuming" /\ looked' = {}
  /\ UNCHANGED <<setup, tun, outside, wish, memory, work, calls, proxyLock, suspended, quitting, ghosts>>

ResumeBegins ==
  /\ stage = "resuming" /\ proxyLock = "nobody"
  /\ IF NotClosing THEN proxyLock' = "resume" /\ UNCHANGED stage
     ELSE stage' = "failed" /\ UNCHANGED proxyLock
  /\ UNCHANGED <<setup, tun, outside, wish, memory, work, calls, suspended, looked, quitting, ghosts>>

\* idle_resume_step: kept beside the other application, forgotten if changed.
ResumesService(s) ==
  /\ proxyLock = "resume" /\ s \in suspended \ looked
  /\ \/ /\ autoproxy[s] = [url |-> "ours", on |-> FALSE] /\ OtherTakes
        /\ looked' = looked \cup {s}
        /\ UNCHANGED <<suspended, autoproxy, credit, stage, proxyLock>>
     \/ /\ autoproxy[s] = [url |-> "ours", on |-> FALSE] /\ ~OtherTakes /\ NotClosing
        /\ \/ /\ autoproxy' = [autoproxy EXCEPT ![s].on = TRUE]
              /\ suspended' = suspended \ {s} /\ UNCHANGED <<credit, looked, stage, proxyLock>>
           \/ /\ Uses("troubles") /\ stage' = "failed" /\ proxyLock' = "nobody"
              /\ UNCHANGED <<suspended, autoproxy, looked>>
     \/ /\ autoproxy[s] = [url |-> "ours", on |-> FALSE] /\ ~OtherTakes /\ quitting # "no"
        /\ stage' = "failed" /\ proxyLock' = "nobody"
        /\ UNCHANGED <<suspended, autoproxy, credit, looked>>
     \/ /\ autoproxy[s] # [url |-> "ours", on |-> FALSE]
        /\ suspended' = suspended \ {s}
        /\ UNCHANGED <<autoproxy, credit, looked, stage, proxyLock>>
  /\ UNCHANGED <<service, tun, clash, legacy, wish, memory, work, calls, quitting, ghosts>>

ResumingEnds ==
  /\ proxyLock = "resume" /\ suspended \subseteq looked
  /\ stage' = "serving" /\ proxyLock' = "nobody"
  /\ tun' = [tun EXCEPT !.alive = tun.mark /\ ~OtherTakes]
  /\ UNCHANGED <<setup, outside, wish, memory, work, calls, suspended, looked, quitting, ghosts>>

\* The machine is lost; the next request starts the runtime.
MachineGone ==
  /\ stage = "serving" /\ Uses("troubles")
  /\ stage' = "failed"
  /\ UNCHANGED <<setup, tun, clash, legacy, wish, memory, work, calls, proxyLock, suspended, looked,
                 quitting, ghosts>>

IdleSteps ==
  \/ ParkingBegins \/ ParkingEnds \/ StartBegins \/ ResumeBegins \/ ResumingEnds \/ MachineGone
  \/ \E s \in Services : ParksService(s) \/ ResumesService(s)

---------------------------------------------------------------------------
\* The quit: begin_shutdown, then system_proxy_park_all under the lock.

QuitAsked ==
  /\ quitting = "no"
  /\ quitting' = "asked"
  /\ UNCHANGED <<setup, tun, outside, wish, memory, work, calls, proxyLock, release, ghosts>>

\* Only the present address counts; a command that fails is passed over.
QuitParks ==
  /\ quitting = "asked" /\ proxyLock = "nobody"
  /\ \/ /\ autoproxy' = [s \in Services |->
                           IF Opened(s, "ours") THEN [autoproxy[s] EXCEPT !.on = FALSE] ELSE autoproxy[s]]
        /\ quitting' = "parked" /\ UNCHANGED credit
     \/ Uses("troubles") /\ quitting' = "unsure" /\ UNCHANGED autoproxy
  /\ UNCHANGED <<service, tun, clash, legacy, wish, memory, work, calls, proxyLock, release, ghosts>>

\* The next process may listen on another port.
ProcessAnew ==
  /\ Uses("troubles")
  /\ \/ UNCHANGED autoproxy
     \/ autoproxy' = [s \in Services |->
          IF autoproxy[s].url = "ours" THEN [autoproxy[s] EXCEPT !.url = "old"] ELSE autoproxy[s]]
  /\ lastPlan' = Unapplied /\ age' = 0 /\ sightings' = <<>>
  /\ work' = NoWork /\ calls' = [c \in Callers |-> NoCall] /\ proxyLock' = "nobody"
  /\ suspended' = {} /\ looked' = {} /\ stage' = "off" /\ quitting' = "no"
  /\ byHand' = FALSE
  /\ UNCHANGED <<service, tun, clash, legacy, wish, switchedOff>>

---------------------------------------------------------------------------
\* The user's hand and other programs.

ByHand(s) ==
  /\ Uses("world")
  /\ autoproxy' \in {[autoproxy EXCEPT ![s] = [url |-> "custom", on |-> TRUE]],
                     [autoproxy EXCEPT ![s].on = FALSE]}
  /\ autoproxy' # autoproxy
  /\ byHand' = (byHand \/ (s = service /\ lastPlan.known /\ ~lastPlan.failed /\ lastPlan.plan.proxy
                           /\ work = NoWork))
  /\ UNCHANGED <<service, tun, clash, legacy, wish, memory, work, calls, proxyLock, release, quitting,
                 switchedOff>>

WorldChanges ==
  /\ Uses("world")
  /\ \/ clash' = ~clash /\ UNCHANGED <<legacy, service, autoproxy, tun>>
     \/ legacy' = ~legacy /\ UNCHANGED <<clash, service, autoproxy, tun>>
     \/ service' \in Services \ {service} /\ UNCHANGED <<clash, legacy, autoproxy, tun>>
     \/ /\ \E s \in Services : autoproxy' = [autoproxy EXCEPT ![s] = [url |-> "legacy", on |-> TRUE]]
        /\ UNCHANGED <<clash, legacy, service, tun>>
     \/ /\ tun' \in {[tun EXCEPT !.alive = FALSE], [tun EXCEPT !.installed = ~@]}
        /\ UNCHANGED <<clash, legacy, service, autoproxy>>
  /\ UNCHANGED <<wish, memory, work, calls, proxyLock, release, quitting, ghosts>>

JobSteps == JobTun \/ JobProxy \/ JobEnds
TakeoverNext ==
  \/ LoopRound \/ Puts \/ JobSteps \/ SwitchUsed \/ SwitchFailed
  \/ \E c \in Callers : Applying(c)
  \/ IdleSteps \/ QuitAsked \/ QuitParks \/ ProcessAnew
  \/ \E s \in Services : ByHand(s)
  \/ WorldChanges

TakeoverSpec == TakeoverInit /\ [][TakeoverNext]_takeoverVars

\* The loop ticks, and whoever is inside goes on; nothing outside is promised.
TakeoverFairness ==
  /\ WF_takeoverVars(LoopRound)
  /\ WF_takeoverVars(JobSteps)
  /\ \A c \in Callers : SF_takeoverVars(CallBegins(c)) /\ WF_takeoverVars(Applying(c))
  /\ WF_takeoverVars(ParkingEnds \/ ResumingEnds \/ \E s \in Services : ParksService(s) \/ ResumesService(s))

---------------------------------------------------------------------------
\* Properties.

\* After the quit has closed the proxies nobody opens one again.
QuitLeavesNoProxy == quitting = "parked" => \A s \in Services : ~Opened(s, "ours")

\* What the user switched off in the page is not resumed after an idle release.
TurnedOn(s) == proxyLock = "resume" /\ ~autoproxy[s].on /\ autoproxy'[s] = [url |-> "ours", on |-> TRUE]
OffIsNotResumed == [][\A s \in Services : TurnedOn(s) => ~switchedOff]_takeoverVars

\* What the user changed by hand under an applied plan is left alone by the
\* loop until that plan is replaced: through an idle release, a lost machine,
\* another application, a Clash that comes and goes.
LoopOpens ==
  /\ work.by = "loop" /\ calls["job"].at = "on" /\ calls'["job"].at = "clear"
  /\ calls["job"].svc = service
HandIsRespected == [][LoopOpens => ~byHand]_takeoverVars

\* Beside another application that stays, the entry is closed in the end.
OtherStays == OtherTakes /\ stage = "serving" /\ quitting = "no"
OursClosed == ~tun.mark /\ ~OwnProxy(service)
OtherGetsNetwork == <>[]OtherStays => <>[]OursClosed

\* A plan that stays the same is applied in the end, failures included.
Calm == stage = "serving" /\ quitting = "no" /\ ~OtherTakes
PlanIsApplied ==
  <>[]Calm => <>[](lastPlan.known /\ ~lastPlan.failed /\ lastPlan.plan = Decide(wish, Detection))

\* The user's hand comes first: neither the loop nor a resumption undoes what was
\* switched by hand (takeover.rs:358-400, entry.rs:553-593).
HandComesFirst == OffIsNotResumed /\ HandIsRespected

\* The network goes to whoever it belongs to: another app that takes it over gets
\* it, and with the network to itself the plan is carried out.
NetworkIsGiven == OtherGetsNetwork /\ PlanIsApplied

\* What the user decided about the proxies holds: nobody opens one after the quit
\* has closed them, and their hand comes first (entry.rs:553-640, takeover.rs:358-400).
TakeoverKept == []QuitLeavesNoProxy /\ HandComesFirst
=============================================================================
