------------------------------ MODULE Forwards ------------------------------
(***************************************************************************)
(* One SSH forward the core holds: the login window of a channel           *)
(* (novnc.rs) or the gateway's own tunnel (tunnel.rs), with the ownership  *)
(* record that outlives the core (forward_owner.rs).                       *)
(*                                                                         *)
(* An operation runs under the channel's operation lock, so one is in      *)
(* flight at a time; leases end, processes exit, process ids are reused,   *)
(* the 20 s budget runs out and the core may die between any two of its    *)
(* steps.  A process is the id it has and the instance it is, which is     *)
(* what its start time and command line tell apart.                        *)
(***************************************************************************)
EXTENDS Naturals, FiniteSets

CONSTANTS
    Kinds,           \* which of "window" and "gateway" are looked at
    Viewers,         \* the login pages that may be open
    Ids,             \* process ids
    MaxSpawns,       \* bound: processes that ever get an id
    MaxExits,        \* bound: processes that exit by themselves
    MaxMoves,        \* bound: stops, starts, opened pages
    MaxCrashes       \* bound: times the core dies

ASSUME ForwardAssumption ==
    /\ Kinds \subseteq {"window", "gateway"} /\ Kinds # {}
    /\ IsFiniteSet(Ids) /\ Ids # {} /\ 0 \notin Ids
    /\ \A bnd \in {MaxSpawns, MaxExits, MaxMoves, MaxCrashes} : bnd \in Nat

VARIABLES
    owner,           \* the kind of forward
    serving,         \* the channel's status is running or logged_in
    entry,           \* the pool has an entry for the channel
    handle,          \* the process the core holds a handle on, or NoId
    viewers,         \* viewers whose lease runs
    oldClient,       \* an old client without a viewer opened the window
    grace,           \* release_after lies ahead
    operation,       \* the operation that holds the lock
    proc,            \* the process table: the instance of each id, or 0
    forwards,        \* the instances that are our ssh processes
    record,          \* the ownership file: its id and instance, or NoRecord
    releasing,       \* the runtime is being released for idleness
    up,              \* the core runs
    instances,       \* processes ever started
    orphaned,        \* history: forwards that lived through a crash unrecorded
    hurt,            \* history: processes of others the core has signalled
    exits, moves, crashes

fwdVars == <<owner, serving, entry, handle, viewers, oldClient, grace, operation, proc, forwards,
             record, releasing, up, instances, orphaned, hurt, exits, moves, crashes>>
leaseVars == <<viewers, oldClient, grace>>
worldVars == <<owner, serving, releasing, up, orphaned, exits, moves, crashes>>

NoId == 0
NoRecord == [id |-> NoId, inst |-> 0]
NoOperation == [kind |-> "none", step |-> "idle", id |-> NoId, viewer |-> {}]
Alive(id) == id # NoId /\ proc[id] # 0
Watched == oldClient \/ viewers # {}
Moves == moves < MaxMoves /\ moves' = moves + 1

\* Ending a process: one of ours, or, should it ever happen, another's.
Kill(id) ==
    /\ proc' = [p \in Ids |-> IF p = id THEN 0 ELSE proc[p]]
    /\ hurt' = hurt \cup (IF Alive(id) /\ proc[id] \notin forwards THEN {proc[id]} ELSE {})

At(step) == up /\ operation.step = step
Goes(step) == operation' = [operation EXCEPT !.step = step]
OpEnds == operation' = NoOperation

-----------------------------------------------------------------------------
(* Operations on the window take the channel's lock and the pool's. *)

AcquireAdmitted == ~releasing /\ owner = "window"

\* login: a page with a lease of its own, or an old client without one.
Acquire(who) ==
    /\ up /\ operation = NoOperation /\ AcquireAdmitted /\ Moves
    /\ operation' = [kind |-> "acquire", step |-> "check", id |-> NoId, viewer |-> who]
    /\ UNCHANGED <<owner, serving, entry, handle, leaseVars, proc, forwards, record, releasing,
                   up, instances, orphaned, hurt, exits, crashes>>

\* The lease starts only once the window serves; it also ends the grace.
AcquireEnds ==
    /\ At("ready") /\ operation.kind = "acquire"
    /\ entry' = TRUE /\ grace' = FALSE
    /\ IF operation.viewer = {} THEN oldClient' = TRUE /\ UNCHANGED viewers
                         ELSE viewers' = viewers \cup operation.viewer /\ UNCHANGED oldClient
    /\ OpEnds
    /\ UNCHANGED <<handle, proc, forwards, record, instances, hurt, worldVars>>

LeaseEnds(v) ==
    /\ v \in viewers /\ viewers' = viewers \ {v}
    /\ UNCHANGED <<entry, handle, oldClient, grace, operation, proc, forwards, record, instances, hurt, worldVars>>

GraceEnds ==
    /\ grace /\ grace' = FALSE
    /\ UNCHANGED <<entry, handle, viewers, oldClient, operation, proc, forwards, record, instances, hurt, worldVars>>

\* Only a viewer that was there starts the grace.
Release(v) ==
    /\ up /\ operation = NoOperation /\ entry /\ Moves
    /\ viewers' = viewers \ {v}
    /\ grace' = (grace \/ (v \in viewers /\ viewers' = {} /\ ~oldClient))
    /\ UNCHANGED <<owner, serving, entry, handle, oldClient, operation, proc, forwards, record, releasing,
                   up, instances, orphaned, hurt, exits, crashes>>

LockTaken == operation = NoOperation
DropsUnwatched ==
    /\ up /\ owner = "window" /\ entry /\ LockTaken
    /\ (~Watched /\ ~grace) \/ ~serving
    /\ entry' = FALSE /\ handle' = NoId /\ viewers' = {} /\ oldClient' = FALSE /\ grace' = FALSE
    /\ Kill(handle)
    /\ UNCHANGED <<operation, forwards, record, instances, worldVars>>

\* The watchdog repairs the gateway, and the window while somebody watches it.
WatchdogRepairs ==
    /\ up /\ operation = NoOperation /\ ~releasing
    /\ owner = "window" => entry /\ Watched /\ serving
    /\ operation' = [kind |-> "repair", step |-> "check", id |-> NoId, viewer |-> {}]
    /\ UNCHANGED <<entry, handle, leaseVars, proc, forwards, record, instances, hurt, worldVars>>

\* stop and delete: the entry goes, the port and the record stay.
StopDrops ==
    /\ up /\ operation = NoOperation /\ owner = "window" /\ serving /\ Moves
    /\ serving' = FALSE
    /\ entry' = FALSE /\ handle' = NoId /\ viewers' = {} /\ oldClient' = FALSE /\ grace' = FALSE
    /\ Kill(handle)
    /\ UNCHANGED <<owner, operation, forwards, record, releasing, up, instances, orphaned, exits, crashes>>

ChannelStarts ==
    /\ owner = "window" /\ ~serving /\ Moves /\ serving' = TRUE
    /\ UNCHANGED <<owner, entry, handle, leaseVars, operation, proc, forwards, record, releasing, up,
                   instances, orphaned, hurt, exits, crashes>>

\* Idle release: nobody may watch when it is decided, and logins wait from then on.
IdleBegins ==
    /\ up /\ operation = NoOperation /\ ~releasing /\ Moves
    /\ owner = "window" => ~Watched
    /\ releasing' = TRUE
    /\ UNCHANGED <<owner, serving, entry, handle, leaseVars, operation, proc, forwards, record, up,
                   instances, orphaned, hurt, exits, crashes>>

\* Each child must be seen gone; otherwise its handle stays and the release fails.
DropAll ==
    /\ up /\ releasing /\ operation = NoOperation
    /\ releasing' = FALSE
    /\ \/ /\ Kill(handle) /\ handle' = NoId
          /\ entry' = FALSE /\ viewers' = {} /\ oldClient' = FALSE /\ grace' = FALSE
       \/ Alive(handle) /\ UNCHANGED <<proc, hurt, handle, entry, leaseVars>>
    /\ UNCHANGED <<owner, serving, operation, forwards, record, up, instances, orphaned, exits, moves, crashes>>

-----------------------------------------------------------------------------
(* ensure: check, drop what is held, reclaim the record, spawn, record, wait. *)

\* A window that runs and serves is kept; an exited child is forgotten.
WindowChecks ==
    /\ At("check") /\ owner = "window"
    /\ handle' = (IF Alive(handle) THEN handle ELSE NoId)
    /\ \/ ~serving /\ OpEnds
       \/ serving /\ Alive(handle) /\ Goes("ready")
       \/ serving /\ Goes("drop")
    /\ UNCHANGED <<entry, leaseVars, proc, forwards, record, instances, hurt, worldVars>>

\* The gateway first settles a record it holds no process for.
GatewayChecks ==
    /\ At("check") /\ owner = "gateway"
    /\ \/ handle = NoId /\ record # NoRecord /\ Goes("reclaim")
       \/ handle # NoId /\ Alive(handle) /\ Goes("ready")
       \/ (handle # NoId \/ record = NoRecord) /\ Goes("drop")
    /\ UNCHANGED <<entry, handle, leaseVars, proc, forwards, record, instances, hurt, worldVars>>

\* The gateway's child must be seen gone; otherwise the attempt fails.
DropChild ==
    /\ At("drop")
    /\ \/ /\ Kill(handle) /\ handle' = NoId
          /\ Goes(IF owner = "window" THEN "reclaim" ELSE "spawn")
       \/ owner = "gateway" /\ Alive(handle) /\ Goes("failed") /\ UNCHANGED <<handle, proc, hurt>>
    /\ UNCHANGED <<entry, leaseVars, forwards, record, instances, worldVars>>

\* A variant: any process under the recorded id will do.
SameId == Alive(record.id)
\* Same id, same start time, same command.
IdentityMatches == Alive(record.id) /\ proc[record.id] = record.inst

ReclaimReads ==
    /\ At("reclaim")
    /\ \/ record = NoRecord /\ Goes("spawn") /\ UNCHANGED record
       \/ record # NoRecord /\ ~Alive(record.id) /\ record' = NoRecord /\ Goes("spawn")
       \/ record # NoRecord /\ Alive(record.id) /\ IdentityMatches /\ Goes("signal") /\ UNCHANGED record
       \/ record # NoRecord /\ Alive(record.id) /\ Goes("failed") /\ UNCHANGED record
    /\ UNCHANGED <<entry, handle, leaseVars, proc, forwards, instances, hurt, worldVars>>

\* The identity is read again after the slow look at the sockets.
ReclaimSignals ==
    /\ At("signal")
    /\ \/ IdentityMatches /\ Kill(record.id) /\ record' = NoRecord /\ Goes("spawn")
       \/ Goes("failed") /\ UNCHANGED <<proc, hurt, record>>
    /\ UNCHANGED <<entry, handle, leaseVars, forwards, instances, worldVars>>

\* A start-up pass only reclaims.
StartupEnds ==
    /\ At("spawn") \/ At("failed")
    /\ operation.kind = "startup" /\ OpEnds
    /\ UNCHANGED <<entry, handle, leaseVars, proc, forwards, record, instances, hurt, worldVars>>

Spawns(id) ==
    /\ At("spawn") /\ operation.kind # "startup"
    /\ instances < MaxSpawns /\ proc[id] = 0
    /\ instances' = instances + 1
    /\ proc' = [proc EXCEPT ![id] = instances']
    /\ forwards' = forwards \cup {instances'}
    /\ operation' = [operation EXCEPT !.step = "record", !.id = id]
    /\ UNCHANGED <<entry, handle, leaseVars, record, hurt, worldVars>>

Recorded == [id |-> operation.id, inst |-> proc[operation.id]]
\* Recording fails when the process is gone already or the file cannot be
\* written; the handle is dropped then, which ends the process.
RecordsOwner ==
    /\ At("record")
    /\ \/ /\ Alive(operation.id)
          /\ record' = Recorded
          /\ handle' = operation.id /\ entry' = (owner = "window")
          /\ operation' = [operation EXCEPT !.step = "wait", !.id = NoId]
          /\ UNCHANGED <<proc, hurt>>
       \/ /\ Kill(operation.id)
          /\ operation' = [operation EXCEPT !.step = "failed", !.id = NoId]
          /\ UNCHANGED <<record, handle, entry>>
    /\ UNCHANGED <<leaseVars, forwards, instances, worldVars>>

\* A window that never serves loses its process; the gateway's stays for the
\* next attempt.
Waits ==
    /\ At("wait")
    /\ \/ Alive(handle) /\ Goes("ready") /\ UNCHANGED <<handle, proc, hurt>>
       \/ ~Alive(handle) /\ Goes("failed") /\ handle' = NoId /\ UNCHANGED <<proc, hurt>>
       \/ /\ Goes("failed")
          /\ IF owner = "window" THEN Kill(handle) /\ handle' = NoId
                                  ELSE UNCHANGED <<handle, proc, hurt>>
    /\ UNCHANGED <<entry, leaseVars, forwards, record, instances, worldVars>>

\* Another attempt, or the operation reports its failure.
Retries ==
    /\ At("failed") /\ operation.kind # "startup"
    /\ Goes(IF owner = "window" THEN "drop" ELSE "check") \/ OpEnds
    /\ UNCHANGED <<entry, handle, leaseVars, proc, forwards, record, instances, hurt, worldVars>>

RepairEnds ==
    /\ At("ready") /\ operation.kind = "repair" /\ OpEnds
    /\ UNCHANGED <<entry, handle, leaseVars, proc, forwards, record, instances, hurt, worldVars>>

\* A variant: only a login is bounded.
LoginOnly == {"acquire"}
Budgeted == {"acquire", "repair"}
\* Out of budget: a spawned process without an owner dies with its handle; the
\* window drops its child as well, the gateway keeps it for later checks.
BudgetSpent ==
    /\ up /\ operation.kind \in Budgeted /\ operation.step # "ready"
    /\ LET loose == IF Alive(operation.id) THEN {operation.id} ELSE {}
           ended == loose \cup (IF owner = "window" /\ Alive(handle) THEN {handle} ELSE {})
       IN  /\ proc' = [p \in Ids |-> IF p \in ended THEN 0 ELSE proc[p]]
           /\ hurt' = hurt \cup ({proc[p] : p \in ended} \ forwards)
    /\ handle' = (IF owner = "window" THEN NoId ELSE handle)
    /\ OpEnds
    /\ UNCHANGED <<entry, leaseVars, forwards, record, instances, worldVars>>

-----------------------------------------------------------------------------
(* The world. *)

ProcessExits(id) ==
    /\ Alive(id) /\ exits < MaxExits
    /\ proc' = [proc EXCEPT ![id] = 0] /\ exits' = exits + 1
    /\ UNCHANGED <<owner, serving, entry, handle, leaseVars, operation, forwards, record, releasing, up,
                   instances, orphaned, hurt, moves, crashes>>

\* A handle keeps the id of an exited child from being reused until it is read.
Reapable(id) == id # handle /\ id # operation.id
\* Somebody else's process gets a free id.
Stranger(id) ==
    /\ instances < MaxSpawns /\ proc[id] = 0 /\ Reapable(id)
    /\ instances' = instances + 1 /\ proc' = [proc EXCEPT ![id] = instances']
    /\ UNCHANGED <<entry, handle, leaseVars, operation, forwards, record, hurt, worldVars>>

\* SIGKILL: handles are gone, the ssh processes and the record are not.
CoreDies ==
    /\ up /\ crashes < MaxCrashes /\ crashes' = crashes + 1
    /\ up' = FALSE /\ releasing' = FALSE
    /\ orphaned' = orphaned \cup (IF Alive(operation.id) THEN {proc[operation.id]} ELSE {})
    /\ operation' = NoOperation /\ entry' = FALSE /\ handle' = NoId
    /\ viewers' = {} /\ oldClient' = FALSE /\ grace' = FALSE
    /\ UNCHANGED <<owner, serving, proc, forwards, record, instances, hurt, exits, moves>>

\* The records are reclaimed before anything else.
CoreStarts ==
    /\ ~up /\ up' = TRUE
    /\ operation' = [kind |-> "startup", step |-> "reclaim", id |-> NoId, viewer |-> {}]
    /\ UNCHANGED <<owner, serving, entry, handle, leaseVars, proc, forwards, record, releasing,
                   instances, orphaned, hurt, exits, moves, crashes>>

ForwardInit ==
    /\ owner \in Kinds /\ serving = TRUE /\ entry = FALSE /\ handle = NoId
    /\ viewers = {} /\ oldClient = FALSE /\ grace = FALSE /\ operation = NoOperation
    /\ proc = [p \in Ids |-> 0] /\ forwards = {} /\ record = NoRecord
    /\ releasing = FALSE /\ up = TRUE /\ instances = 0 /\ orphaned = {} /\ hurt = {}
    /\ exits = 0 /\ moves = 0 /\ crashes = 0

EnsureSteps ==
    \/ WindowChecks \/ GatewayChecks \/ DropChild \/ ReclaimReads \/ ReclaimSignals
    \/ StartupEnds \/ (\E id \in Ids : Spawns(id)) \/ RecordsOwner \/ Waits \/ Retries
    \/ RepairEnds \/ AcquireEnds \/ BudgetSpent

ForwardNext ==
    \/ EnsureSteps
    \/ \E v \in Viewers : Acquire({v}) \/ Release(v) \/ LeaseEnds(v)
    \/ Acquire({}) \/ GraceEnds \/ DropsUnwatched \/ WatchdogRepairs
    \/ StopDrops \/ ChannelStarts \/ IdleBegins \/ DropAll
    \/ \E id \in Ids : ProcessExits(id) \/ Stranger(id)
    \/ CoreDies \/ CoreStarts

ForwardSpec == ForwardInit /\ [][ForwardNext]_fwdVars

\* The budget and the leases run out, the watchdog comes round, the core is
\* started again.
ForwardFairness ==
    /\ WF_fwdVars(EnsureSteps) /\ WF_fwdVars(BudgetSpent)
    /\ WF_fwdVars(\E v \in Viewers : LeaseEnds(v)) /\ WF_fwdVars(GraceEnds)
    /\ SF_fwdVars(DropsUnwatched) /\ WF_fwdVars(DropAll) /\ WF_fwdVars(CoreStarts)

-----------------------------------------------------------------------------
ForwardTypeOK ==
    /\ handle \in Ids \cup {NoId} /\ record.id \in Ids \cup {NoId}
    /\ viewers \subseteq Viewers /\ forwards \subseteq 1..instances
    /\ proc \in [Ids -> 0..instances]
    /\ \A b \in {serving, entry, oldClient, grace, releasing, up} : b \in BOOLEAN

\* No forward runs loose: a live ssh process of ours is the one the core holds,
\* the one its operation is about to record, or the recorded one - except one
\* the core died on between starting and recording it; and no process of
\* somebody else is ever signalled, however ids are reused
\* (forward_owner.rs:1 and reclaim_inner).
NothingLoose ==
    /\ hurt = {}
    /\ \A p \in Ids : proc[p] \in forwards =>
          \/ p \in {handle, operation.id}
          \/ record = [id |-> p, inst |-> proc[p]]
          \/ proc[p] \in orphaned

\* While a page is open its window is only taken away because the channel
\* stopped or the core died, and a page that is answered finds the window's
\* process held by the core (novnc.rs acquire, watchdog_tick, drop_all,
\* has_viewers).
WatchedStays ==
    /\ entry /\ Watched /\ ~entry' => ~serving' \/ ~serving \/ ~up'
    /\ viewers' \ viewers # {} => handle' # NoId

\* A window nobody watches any more is taken down, by the next core if this one
\* dies (novnc.rs watchdog_tick).
UnwatchedGoes == []<>(owner # "window" \/ ~entry \/ Watched)

\* The forwards the core starts are under its control all the time, and a page
\* somebody looks at is not taken away.
ForwardsKept == [][NothingLoose' /\ WatchedStays]_fwdVars
=============================================================================
