------------------------------ MODULE TunHelper ------------------------------
(***************************************************************************)
(* The privileged helper of the TUN entry (helper/src/main.rs, lease.rs,   *)
(* routes.rs): a root daemon that keeps what the application wants on      *)
(* disk, and every two seconds draws the engine process, the kernel's      *)
(* routes and the resolver files towards it, as long as a lease lasts.     *)
(* The identity modelled is the leased one.                                *)
(*                                                                         *)
(* Simplifications:                                                        *)
(*  - Requests and ticks hold the mutex from end to end and are single     *)
(*    actions.  A request may carry any generation: a client that timed    *)
(*    out may have sent it long ago.                                       *)
(*  - An engine that ends takes its device and the routes on it with it.   *)
(*  - One system call fails per tick at most.  Clocks are events that may  *)
(*    come at any time: the lease's end, the 10 s of a readback, the 30 s  *)
(*    of a shadowed route, the backoff's end (its length is left out).     *)
(*  - applied_generation is kept as its equality with the generation       *)
(*    wanted; resolver files are there or not (ResolverFiles has them).    *)
(***************************************************************************)
EXTENDS Naturals

CONSTANTS Cidrs,          \* networks a rule can name
          Wanted,         \* what clients ask for: [config, routes, dns]
          MaxGeneration,  \* BOUND: generations a client uses
          MaxEvents,      \* BOUND: changes by others, engine ends, restarts
          MaxFaults       \* BOUND: ticks in which a system call fails

Configs == {"port1", "port2"}
\* dns: the request names domains.  The port they are asked at is in the config.
Wants == [config : Configs, routes : SUBSET Cidrs, dns : BOOLEAN]

ASSUME HelperAssumption ==
  /\ Wanted \subseteq Wants
  /\ MaxGeneration \in Nat /\ MaxEvents \in Nat /\ MaxFaults \in Nat

VARIABLES
  desired,    \* Desired: generation, running and what is wanted
  lease,      \* Lease: "none", "ok" and "down" (upstream_ok), "expired"
  child,      \* the engine process is alive
  engine,     \* engine_config: what the engine was started with, or "none"
  owned,      \* networks this process added
  shadowed,   \* networks somebody else had first
  mode,       \* route_mode
  applied,    \* applied_generation = desired.generation
  backoff,    \* the next start of the engine is not due yet
  readback,   \* the kernel's table was read in the last 10 s
  retried,    \* shadowed was cleared in the last 30 s
  published,  \* resolver files of ours exist
  routeTable,     \* the routing table: per network "free", "foreign", or ours by mode
  events,     \* events left
  faults      \* faults left

process == <<child, engine, backoff>>
routing == <<owned, shadowed, mode, readback, retried>>
helperVars == <<desired, lease, process, routing, applied, published, routeTable, events, faults>>

Modes == {"forward", "reject"}

HelperTypeOK ==
  /\ desired \in [generation : 0 .. MaxGeneration, running : BOOLEAN, want : Wants]
  /\ lease \in {"none", "ok", "down", "expired"}
  /\ child \in BOOLEAN /\ backoff \in BOOLEAN /\ applied \in BOOLEAN
  /\ readback \in BOOLEAN /\ retried \in BOOLEAN /\ published \in BOOLEAN
  /\ engine \in Configs \cup {"none"}
  /\ owned \subseteq Cidrs /\ shadowed \subseteq Cidrs
  /\ mode \in Modes \cup {"off"}
  /\ routeTable \in [Cidrs -> Modes \cup {"free", "foreign"}]
  /\ events \in 0 .. MaxEvents /\ faults \in 0 .. MaxFaults

HelperInit ==
  /\ desired = [generation |-> 0, running |-> FALSE,
                want |-> [config |-> "port1", routes |-> {}, dns |-> FALSE]]
  /\ lease = "none" /\ child = FALSE /\ engine = "none"
  /\ owned = {} /\ shadowed = {} /\ mode = "off"
  /\ applied = FALSE /\ backoff = FALSE /\ readback = FALSE /\ retried = FALSE
  /\ published = FALSE
  /\ routeTable = [c \in Cidrs |-> "free"]
  /\ events = MaxEvents /\ faults = MaxFaults

---------------------------------------------------------------------------
\* What is read off the state.

Valid == lease \in {"ok", "down"}
\* Lease::mode
LeaseMode ==
  IF ~desired.running \/ ~Valid THEN "off" ELSE IF lease = "ok" THEN "forward" ELSE "reject"

Ours(c) == routeTable[c] \in Modes
\* The device goes with the engine, and the kernel drops the routes on it.
WithoutDevice(table) == [c \in Cidrs |-> IF table[c] \in Modes THEN "free" ELSE table[c]]

\* status: what the application reads as "pending: false".
StatusApplied == applied /\ child = (LeaseMode # "off") /\ mode = LeaseMode

---------------------------------------------------------------------------
\* Withdrawing routes.

Faults == {"none", "netstat", "delete", "add", "kill", "spawn", "resolver"}

\* A network we added is ours as long as the table has it as we added it.
StillOurs(table, c, m) == table[c] = m

\* withdraw_selected: what is owned, the table, and whether it succeeded.
Withdrawn(table, own, selected, m, fault) ==
  LET kept == {c \in own : StillOurs(table, c, m)}
      gone == IF fault = "delete" THEN {} ELSE kept \cap selected
  IN IF own = {} \/ selected = {} THEN [owned |-> own, table |-> table, ok |-> TRUE]
     ELSE IF fault = "netstat" THEN [owned |-> own, table |-> table, ok |-> FALSE]
     ELSE [owned |-> kept \ gone,
           table |-> [c \in Cidrs |-> IF c \in gone THEN "free" ELSE table[c]],
           ok |-> (kept \ gone) \cap selected = {}]

WithdrawnAll(fault) == Withdrawn(routeTable, owned, owned, mode, fault)

---------------------------------------------------------------------------
\* One tick, reconcile_leased: the lease is over.

Settled(clean, gone) == clean /\ gone

\* reconcile_resolvers, to no files.
FilesLeft(fault) == published /\ fault = "resolver"

\* Files, routes, engine: each is tried whatever became of the others.
Releases(fault) ==
  LET gone == fault # "kill" \/ ~child
      clean == WithdrawnAll(fault).ok /\ (fault # "resolver" \/ ~published)
      settled == Settled(clean, gone)
  IN /\ published' = FilesLeft(fault)
     /\ owned' = WithdrawnAll(fault).owned
     /\ routeTable' = IF gone THEN WithoutDevice(WithdrawnAll(fault).table)
                  ELSE WithdrawnAll(fault).table
     /\ child' = ~gone
     /\ shadowed' = IF settled THEN {} ELSE shadowed
     /\ mode' = IF settled THEN "off" ELSE mode
     /\ engine' = IF settled THEN "none" ELSE engine
     /\ backoff' = (backoff /\ ~settled)
     /\ applied' = (settled \/ (applied /\ fault # "resolver"))
     /\ UNCHANGED <<readback, retried>>

LeaseOver(fault) == LeaseMode = "off" /\ Releases(fault) /\ UNCHANGED <<desired, lease>>

\* The engine runs with another configuration: everything of ours goes first.
ConfigChanged(fault) ==
  /\ LeaseMode # "off" /\ child /\ engine # desired.want.config
  /\ published' = FilesLeft(fault)
  /\ applied' = (applied /\ fault # "resolver")
  /\ owned' = WithdrawnAll(fault).owned
  /\ IF WithdrawnAll(fault).ok
       THEN /\ child' = (fault = "kill") /\ engine' = "none" /\ backoff' = FALSE
            /\ routeTable' = IF child' THEN WithdrawnAll(fault).table
                         ELSE WithoutDevice(WithdrawnAll(fault).table)
       ELSE UNCHANGED process /\ routeTable' = WithdrawnAll(fault).table
  /\ UNCHANGED <<desired, lease, shadowed, mode, readback, retried>>

\* The engine has ended, or has not been started yet.
EngineDown(fault) ==
  /\ LeaseMode # "off" /\ ~child
  /\ published' = FilesLeft(fault)
  /\ applied' = FALSE
  /\ LET ended == engine # "none"
         starts == ~ended /\ ~backoff
     IN /\ child' = (starts /\ fault # "spawn")
        /\ backoff' = (ended \/ backoff \/ (starts /\ fault = "spawn"))
  /\ engine' = IF child' THEN desired.want.config ELSE "none"
  /\ UNCHANGED <<desired, lease, routing, routeTable>>

---------------------------------------------------------------------------
\* The engine is up: reconcile_routes, which may stop at three places.

Switched(fault) ==
  IF mode = LeaseMode THEN [owned |-> owned, table |-> routeTable, ok |-> TRUE]
  ELSE WithdrawnAll(fault)

RereadNever(own, table) == own
Reread(own, table) == IF readback THEN own ELSE {c \in own : StillOurs(table, c, LeaseMode)}

Present(fault) == Reread(Switched(fault).owned, Switched(fault).table)
Trimmed(fault) ==
  Withdrawn(Switched(fault).table, Present(fault), Present(fault) \ desired.want.routes,
            LeaseMode, fault)

Shadows == IF mode = LeaseMode /\ retried THEN shadowed ELSE {}

ModeBlocked(fault) ==
  /\ ~Switched(fault).ok
  /\ owned' = Switched(fault).owned /\ routeTable' = Switched(fault).table
  /\ UNCHANGED <<shadowed, mode, readback, retried>>

ReadBlocked(fault) ==
  /\ Switched(fault).ok /\ ~readback /\ fault = "netstat"
  /\ owned' = Switched(fault).owned /\ routeTable' = Switched(fault).table
  /\ mode' = LeaseMode
  /\ shadowed' = IF mode = LeaseMode THEN shadowed ELSE {}
  /\ UNCHANGED <<readback, retried>>

RoutesRead(fault) ==
  /\ Switched(fault).ok /\ (readback \/ fault # "netstat")
  /\ mode' = LeaseMode /\ readback' = TRUE /\ retried' = TRUE

DeleteBlocked(fault) ==
  /\ RoutesRead(fault) /\ ~Trimmed(fault).ok
  /\ owned' = Trimmed(fault).owned /\ routeTable' = Trimmed(fault).table
  /\ shadowed' = Shadows

AddsMissing(fault) ==
  LET table == Trimmed(fault).table
      missing == desired.want.routes \ (Trimmed(fault).owned \cup Shadows)
      exists == {c \in missing : table[c] # "free"}
      added == IF fault = "add" THEN {} ELSE missing \ exists
  IN /\ RoutesRead(fault) /\ Trimmed(fault).ok
     /\ owned' = Trimmed(fault).owned \cup added
     /\ routeTable' = [c \in Cidrs |-> IF c \in added THEN LeaseMode ELSE table[c]]
     /\ shadowed' = (Shadows \cup exists) \cap desired.want.routes

RoutesReady(fault) ==
  RoutesRead(fault) /\ owned' = desired.want.routes /\ shadowed' = {}

\* The resolver files follow the routes, and spoil the success when they fail.
EngineUp(fault) ==
  /\ LeaseMode # "off" /\ child /\ engine = desired.want.config
  /\ ModeBlocked(fault) \/ ReadBlocked(fault) \/ DeleteBlocked(fault) \/ AddsMissing(fault)
  /\ published' = IF fault = "resolver" THEN published
                  ELSE RoutesReady(fault) /\ desired.want.dns
  /\ applied' = (RoutesReady(fault)
                  /\ (fault = "resolver" => ~desired.want.dns /\ ~published))
  /\ UNCHANGED <<desired, lease, process>>

Reconcile(fault) == LeaseOver(fault) \/ ConfigChanged(fault) \/ EngineDown(fault) \/ EngineUp(fault)

Spends(fault) == (fault = "none" /\ UNCHANGED faults) \/ (faults > 0 /\ faults' = faults - 1)

Tick == \E fault \in Faults : Spends(fault) /\ Reconcile(fault) /\ UNCHANGED events

---------------------------------------------------------------------------
\* Requests.  A refused request changes nothing.

Outdated(g) == FALSE
Refused(g) == g <= desired.generation

Ensure(g, w, ok) ==
  /\ \/ /\ ~Refused(g)
        /\ desired' = [generation |-> g, running |-> TRUE, want |-> w]
        /\ applied' = FALSE
     \/ /\ g = desired.generation /\ g # 0 /\ desired.running /\ w = desired.want
        /\ UNCHANGED <<desired, applied>>
  /\ lease' = IF ok THEN "ok" ELSE "down"
  /\ UNCHANGED <<process, routing, published, routeTable, events, faults>>

\* An expired lease can be renewed, one that was never granted cannot.
Renew(g, ok) ==
  /\ desired.running /\ lease # "none"
  /\ g = desired.generation /\ g # 0
  /\ lease' = IF ok THEN "ok" ELSE "down"
  /\ UNCHANGED <<desired, process, routing, applied, published, routeTable, events, faults>>

Stop(g) ==
  /\ ~Refused(g) \/ (g = desired.generation /\ g # 0 /\ ~desired.running)
  /\ desired' = [desired EXCEPT !.generation = g, !.running = FALSE]
  /\ lease' = "none"
  /\ \E fault \in Faults : Spends(fault) /\ Releases(fault)
  /\ UNCHANGED events

---------------------------------------------------------------------------
\* What else happens.

LeaseExpires ==
  /\ Valid
  /\ lease' = "expired"
  /\ UNCHANGED <<desired, process, routing, applied, published, routeTable, events, faults>>

ReadbackDue ==
  /\ readback /\ readback' = FALSE
  /\ UNCHANGED <<desired, lease, process, owned, shadowed, mode, retried, applied, published,
                 routeTable, events, faults>>

RetryDue ==
  /\ retried /\ retried' = FALSE
  /\ UNCHANGED <<desired, lease, process, owned, shadowed, mode, readback, applied, published,
                 routeTable, events, faults>>

BackoffOver ==
  /\ backoff /\ backoff' = FALSE
  /\ UNCHANGED <<desired, lease, child, engine, routing, applied, published, routeTable, events,
                 faults>>

\* Others add, replace and remove routes.
RouteChanges(c) ==
  /\ events > 0 /\ events' = events - 1
  /\ \E r \in {"free", "foreign"} : r # routeTable[c] /\ routeTable' = [routeTable EXCEPT ![c] = r]
  /\ UNCHANGED <<desired, lease, process, routing, applied, published, faults>>

EngineEnds ==
  /\ child /\ events > 0 /\ events' = events - 1
  /\ child' = FALSE
  /\ routeTable' = WithoutDevice(routeTable)
  /\ UNCHANGED <<desired, lease, engine, backoff, routing, applied, published, faults>>

\* The domains are not written to the state file.
OnDisk == [w \in Wants |-> [w EXCEPT !.dns = FALSE]]

\* launchd starts the helper again: files withdrawn, strays killed, state read.
HelperRestarts ==
  /\ events > 0 /\ events' = events - 1
  /\ lease' = "none" /\ child' = FALSE /\ engine' = "none"
  /\ owned' = {} /\ shadowed' = {} /\ mode' = "off"
  /\ applied' = FALSE /\ backoff' = FALSE /\ readback' = FALSE /\ retried' = FALSE
  /\ published' = FALSE
  /\ routeTable' = WithoutDevice(routeTable)
  /\ desired' = [desired EXCEPT !.want = OnDisk[desired.want]]
  /\ UNCHANGED faults

Requests ==
  \E g \in 1 .. MaxGeneration :
    \/ Stop(g)
    \/ \E ok \in BOOLEAN : Renew(g, ok) \/ \E w \in Wanted : Ensure(g, w, ok)
Others == (\E c \in Cidrs : RouteChanges(c)) \/ EngineEnds \/ HelperRestarts

TimePasses == ReadbackDue \/ RetryDue \/ BackoffOver

HelperNext == Tick \/ Requests \/ LeaseExpires \/ TimePasses \/ Others

HelperSpec == HelperInit /\ [][HelperNext]_helperVars

\* The reconciler's thread; clocks run.
HelperFairness ==
  /\ WF_helperVars(Tick)
  /\ WF_helperVars(ReadbackDue) /\ WF_helperVars(RetryDue) /\ WF_helperVars(BackoffOver)

---------------------------------------------------------------------------
\* Properties.

\* Whatever route is on our device was added by this process and in the mode
\* it knows of, so that the withdrawal by mode finds it.
OwnRoutesTracked == \A c \in Cidrs : Ours(c) => c \in owned /\ routeTable[c] = mode /\ child

\* When the helper reports a stop as applied nothing of ours is left.
QuietWhenStopped ==
  LeaseMode = "off" /\ StatusApplied /\ owned = {} =>
    ~published /\ engine = "none" /\ \A c \in Cidrs : ~Ours(c)

\* The daemon leaves other owners' routes alone, those that replaced its own too.
ForeignRoutesKept ==
  [][events' = events => \A c \in Cidrs : routeTable[c] = "foreign" => routeTable'[c] = "foreign"]_helperVars

\* An entry that stays wanted gets and keeps its routes, whoever removes them;
\* only a network somebody else routes is left out, and taken once it is free.
Wishes == Valid /\ desired.running
RoutesRepaired ==
  <>[]Wishes => <>[](Wishes /\ \A c \in desired.want.routes : routeTable[c] # "free")

\* Resolver files are published only after the engine and its routes are there.
PublishesOnlyWhenReady ==
  [][~published /\ published' =>
       \A c \in desired.want.routes : routeTable'[c] \in Modes]_helperVars

---------------------------------------------------------------------------
\* The helper keeps its contract.

Contract == INSTANCE HelperContract WITH
  Goals <- Wants,
  OnDisk <- OnDisk,
  generation <- desired.generation,
  running <- desired.running,
  goal <- desired.want,
  leased <- desired.running /\ Valid,
  engaged <- child \/ published \/ \E c \in Cidrs : Ours(c)

KeepsContract == Contract!ContractSafety
ReleasesAfterLease == Contract!ContractReleases

\* The detailed helper keeps the contract the core relies on, and takes only
\* routes of its own: each is recorded before it exists, none is left when the
\* engine has stopped, and a route of somebody else is never deleted
\* (main.rs:446-553).
HelperKeepsWord ==
  /\ KeepsContract
  /\ ForeignRoutesKept
  /\ [](OwnRoutesTracked /\ QuietWhenStopped)

\* Routes that were lost come back, and a core that does not renew its lease loses
\* them.
HelperGoesOn == RoutesRepaired /\ ReleasesAfterLease
=============================================================================
