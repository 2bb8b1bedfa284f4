------------------------------ MODULE TunEntry ------------------------------
(***************************************************************************)
(* The application's half of the TUN entry (entry.rs): the switch, the     *)
(* reconciliation after every rebuild, the release of an idle runtime and  *)
(* the resumption after it, another application's takeover, and the quit.  *)
(* They share a lock, two process flags, the enabled mark on disk, and a   *)
(* helper that keeps HelperContract and answers late, or not at all.       *)
(*                                                                         *)
(* Simplifications:                                                        *)
(*  - The helper takes connections in order, so an answer to `status`      *)
(*    means that every request sent earlier has been handled.  `wire` is   *)
(*    the one request that can be outstanding.                             *)
(*  - The status of a mutation and the request it leads to are one step,   *)
(*    and so is a renewal.                                                 *)
(*  - The helper is installed and its version current.                     *)
(***************************************************************************)
EXTENDS HelperContract

CONSTANTS MaxRuleEdits,     \* BOUND: rule changes
          MaxRequests,  \* BOUND: requests sent to the helper
          MaxStarts,    \* BOUND: starts of the runtime
          MaxEntryFaults     \* BOUND: answers lost, restarts, other applications

ASSUME EntryAssumption ==
  /\ MaxRuleEdits \in Nat /\ MaxRequests \in Nat /\ MaxStarts \in Nat /\ MaxEntryFaults \in Nat
  /\ Goals # {}

VARIABLES
  flag,      \* tun-entry.json: enabled
  parked,    \* TUN_PARKED
  pending,   \* TUN_RESUME_PENDING
  entryClosing,   \* ENTRY_CLOSING
  vm,        \* the runtime, as far as the entry asks; "idle": released
  stale,     \* the started runtime's configuration is still to be applied
  rebuilding,  \* a rebuild whose tun_sync is still to come
  syncs,     \* tun_sync calls that wait, by revision
  counters,  \* TUN_SYNC_REVISION, TUN_SYNC_COMPLETED, and `observed`
  waiting,   \* tasks that wait for TUN_MUTATION_LOCK
  lockHolder,    \* the one that has it
  at,        \* where it is
  ask,       \* what it asks the helper for, under which generation
  wire,      \* the request the helper has not handled
  rules,     \* the routes of the effective rules
  other,     \* "up": another application has taken the network over
  left       \* what is left of the bounds

\* Auxiliary: the rules the last reconciliation began with.
VARIABLE served
\* Auxiliary: a request has failed, so that the application cannot know.
VARIABLE unsure
\* Auxiliary: how far the quit's tun_park is.
VARIABLE quit

flags == <<flag, parked, pending, entryClosing>>
syncing == <<rebuilding, syncs, counters, served>>
task == <<waiting, lockHolder, at, ask>>
world == <<rules, other, left>>
entryVars == <<contractVars, flags, vm, stale, syncing, task, wire, unsure, quit, world>>

Tasks == {"enable", "disable", "sync", "idle", "resume", "quit"}
Nobody == "nobody"
NoAsk == [kind |-> "none", goal |-> CHOOSE r \in Goals : TRUE, gen |-> 0]
NoWire == [kind |-> "none", goal |-> CHOOSE r \in Goals : TRUE, gen |-> 0, by |-> Nobody]
Revisions == 0 .. (MaxRuleEdits + 2 * MaxStarts)

EntryTypeOK ==
  /\ generation \in 0 .. MaxRequests /\ goal \in Goals
  /\ {running, leased, engaged, flag, parked, pending, entryClosing} \subseteq BOOLEAN
  /\ {stale, rebuilding, unsure} \subseteq BOOLEAN
  /\ vm \in {"off", "starting", "resuming", "serving", "releasing", "idle", "failed"}
  /\ syncs \subseteq Revisions
  /\ counters \in [revision : Revisions, completed : Revisions, observed : Revisions]
  /\ counters.completed <= counters.observed /\ counters.observed <= counters.revision
  /\ waiting \subseteq Tasks /\ lockHolder \in Tasks \cup {Nobody}
  /\ at \in {"free", "status", "await", "readback", "confirm", "acked", "failed"}
  /\ ask \in [kind : {"none", "ensure", "resume", "stop", "yield"}, goal : Goals,
              gen : 0 .. MaxRequests]
  /\ wire \in [kind : {"none", "ensure", "stop"}, goal : Goals, gen : 0 .. MaxRequests,
               by : Tasks \cup {Nobody}]
  /\ rules \in Goals /\ served \in Goals /\ other \in {"never", "up", "gone"}
  /\ quit \in {"no", "parking", "parked", "done"}

\* The mark and what the helper wants have survived an earlier application.
EntryInit ==
  /\ flag \in BOOLEAN /\ running = flag /\ leased \in {FALSE, running} /\ engaged = leased
  /\ generation = 0 /\ goal = NoAsk.goal
  /\ parked = FALSE /\ pending = FALSE /\ entryClosing = FALSE
  /\ vm = "off" /\ stale = FALSE /\ rebuilding = FALSE
  /\ syncs = {} /\ counters = [revision |-> 0, completed |-> 0, observed |-> 0]
  /\ waiting = {} /\ lockHolder = Nobody /\ at = "free" /\ ask = NoAsk /\ wire = NoWire
  /\ rules = NoAsk.goal /\ served = rules /\ other = "never"
  /\ left = [edits |-> MaxRuleEdits, starts |-> MaxStarts, faults |-> MaxEntryFaults]
  /\ unsure = FALSE /\ quit = "no"

---------------------------------------------------------------------------
\* The helper as a caller sees it.

EntryUp == running /\ leased                     \* status: running
HasDesired(r) == EntryUp /\ goal = r             \* helper_has_desired
Released == ~EntryUp /\ ~engaged                 \* idle_helper_stopped

Loses == left.faults > 0 /\ left' = [left EXCEPT !.faults = @ - 1]

\* The lock is given back.
Frees == lockHolder' = Nobody /\ at' = "free" /\ ask' = NoAsk
\* What the task will ask for, once it has read the status.
Asks(t, kind) ==
  /\ lockHolder' = t /\ at' = "status"
  /\ ask' = [kind |-> kind, goal |-> rules, gen |-> 0]
Takes(t) == lockHolder = Nobody /\ t \in waiting /\ waiting' = waiting \ {t}

Calls(t) == t \notin waiting /\ lockHolder # t /\ waiting' = waiting \cup {t}

---------------------------------------------------------------------------
\* helper_mutation: status, request under the next generation, answer.

\* helper_ensure_if_changed and ensure_helper_applied do not repeat what is
\* wanted already; an idle release finds out that there is nothing to stop.
Sends ==
  /\ at = "status" /\ wire = NoWire
  /\ \/ /\ lockHolder \in {"sync", "resume"} /\ ask.kind \in {"ensure", "resume"}
        /\ HasDesired(ask.goal)
        /\ at' = IF ask.kind = "resume" THEN "confirm" ELSE "acked"
        /\ UNCHANGED <<ask, wire>>
     \/ /\ lockHolder = "idle" /\ (Released \/ ~flag)
        /\ at' = IF Released THEN "acked" ELSE "failed"
        /\ UNCHANGED <<ask, wire>>
     \/ /\ ~(lockHolder \in {"sync", "resume"} /\ ask.kind \in {"ensure", "resume"}
             /\ HasDesired(ask.goal))
        /\ ~(lockHolder = "idle" /\ (Released \/ ~flag))
        /\ generation < MaxRequests
        /\ ask' = [ask EXCEPT !.gen = generation + 1]
        /\ wire' = [kind |-> IF ask.kind \in {"stop", "yield"} THEN "stop" ELSE "ensure",
                    goal |-> ask.goal, gen |-> generation + 1, by |-> lockHolder]
        /\ at' = "await"
  /\ UNCHANGED <<contractVars, flags, vm, stale, syncing, waiting, lockHolder, unsure, quit, world>>

\* The connection fails, or status is not answered in time.
StatusLost ==
  /\ at = "status" /\ Loses
  /\ at' = "failed"
  /\ UNCHANGED <<contractVars, flags, vm, stale, syncing, waiting, lockHolder, ask, wire, unsure,
                 quit, rules, other>>

\* A stop is acknowledged only if the engine is gone, a resumption is watched.
HelperHandles ==
  /\ wire # NoWire
  /\ \/ wire.kind = "stop" /\ ContractStop(wire.gen)
     \/ wire.kind = "ensure" /\ ContractEnsure(wire.gen, wire.goal)
  /\ wire' = NoWire
  /\ at' = IF at # "await" THEN at
           ELSE IF wire.kind = "stop" THEN IF engaged' THEN "failed" ELSE "acked"
           ELSE IF ask.kind = "resume" THEN "confirm" ELSE "acked"
  /\ UNCHANGED <<flags, vm, stale, syncing, waiting, lockHolder, ask, unsure, quit, world>>

\* The answer does not come; the request may still be handled.
AnswerLost ==
  /\ at = "await" /\ Loses
  /\ at' = "readback"
  /\ wire' \in {wire, NoWire}
  /\ UNCHANGED <<contractVars, flags, vm, stale, syncing, waiting, lockHolder, ask, unsure, quit,
                 rules, other>>

\* Only the status is read again, the request is never repeated.
ReadsBack ==
  /\ at = "readback"
  /\ \/ /\ wire = NoWire
        /\ LET stop == ask.kind \in {"stop", "yield"}
               matches == /\ generation = ask.gen
                          /\ IF stop THEN Released ELSE HasDesired(ask.goal)
           IN at' = IF ~matches THEN "failed"
                    ELSE IF ask.kind = "resume" THEN "confirm" ELSE "acked"
        /\ UNCHANGED left
     \/ Loses /\ at' = "failed"
  /\ UNCHANGED <<contractVars, flags, vm, stale, syncing, waiting, lockHolder, ask, wire, unsure,
                 quit, rules, other>>

\* ensure_helper_applied: the goal must stay ours until it is applied.
ConfirmsApplied ==
  /\ at = "confirm" /\ wire = NoWire
  /\ \/ HasDesired(ask.goal) /\ engaged /\ at' = "acked"
     \/ ~HasDesired(ask.goal) /\ at' = "failed"
  /\ UNCHANGED <<contractVars, flags, vm, stale, syncing, waiting, lockHolder, ask, wire, unsure,
                 quit, world>>

\* The budgets of a resumption, of the quit's step and of an idle release.
BudgetEnds ==
  /\ lockHolder \in {"resume", "quit", "idle"} \/ ask.kind = "resume"
  /\ at \in {"status", "await", "readback", "confirm"}
  /\ Loses
  /\ at' = "failed"
  /\ UNCHANGED <<contractVars, flags, vm, stale, syncing, waiting, lockHolder, ask, wire, unsure,
                 quit, rules, other>>

Conversation == Sends \/ StatusLost \/ HelperHandles \/ AnswerLost \/ ReadsBack \/ ConfirmsApplied \/ BudgetEnds

---------------------------------------------------------------------------
\* tun_apply.

Toggles ==
  /\ \E t \in {"enable", "disable"} : Calls(t)
  /\ {"enable", "disable"} \cap (waiting \cup {lockHolder}) = {}
  /\ UNCHANGED <<contractVars, flags, vm, stale, syncing, lockHolder, at, ask, wire, unsure, quit,
                 world>>

\* ensure_entry_open, behind the lock.
Open == ~entryClosing

TakesEnable ==
  /\ Takes("enable")
  /\ IF Open /\ other # "up" THEN Asks("enable", "ensure") ELSE UNCHANGED <<lockHolder, at, ask>>
  /\ UNCHANGED <<contractVars, flags, vm, stale, syncing, wire, unsure, quit, world>>

EnableEnds ==
  /\ lockHolder = "enable" /\ at \in {"acked", "failed"}
  /\ IF at = "acked" THEN flag' = TRUE /\ parked' = FALSE /\ pending' = FALSE
     ELSE UNCHANGED <<flag, parked, pending>>
  /\ unsure' = (at = "failed")
  /\ Frees
  /\ UNCHANGED <<contractVars, entryClosing, vm, stale, syncing, waiting, wire, quit, world>>

\* The mark goes first, so that no reconciliation starts the engine again.
TakesDisable ==
  /\ Takes("disable")
  /\ flag' = FALSE /\ pending' = FALSE
  /\ Asks("disable", "stop")
  /\ UNCHANGED <<contractVars, parked, entryClosing, vm, stale, syncing, wire, unsure, quit, world>>

DisableEnds ==
  /\ lockHolder = "disable" /\ at \in {"acked", "failed"}
  /\ unsure' = (at = "failed")
  /\ Frees
  /\ UNCHANGED <<contractVars, flags, vm, stale, syncing, waiting, wire, quit, world>>

---------------------------------------------------------------------------
\* tun_sync: one reconciliation serves everybody who asked before it began.

\* A rule is changed.  A runtime that is starting has its rebuild to come.
RuleChanges ==
  /\ left.edits > 0 /\ left' = [left EXCEPT !.edits = @ - 1]
  /\ rules' \in Goals \ {rules}
  /\ rebuilding' = (rebuilding \/ vm \in {"resuming", "serving", "releasing"})
  /\ UNCHANGED <<contractVars, flags, vm, stale, syncs, counters, served, task, wire, unsure,
                 quit, other>>

Spawned == /\ counters' = [counters EXCEPT !.revision = @ + 1]
           /\ syncs' = syncs \cup {counters.revision + 1}

RebuildEnds ==
  /\ rebuilding
  /\ rebuilding' = FALSE /\ stale' = FALSE
  /\ Spawned
  /\ UNCHANGED <<contractVars, flags, vm, served, task, wire, unsure, quit, world>>

\* The journal of the configuration has the rebuild tried again.
RebuildRetried ==
  /\ stale /\ ~rebuilding /\ vm = "serving"
  /\ rebuilding' = TRUE
  /\ UNCHANGED <<contractVars, flags, vm, stale, syncs, counters, served, task, wire, unsure,
                 quit, world>>

SyncFree == "sync" \notin waiting /\ lockHolder # "sync"
SyncTurn(r) ==
  /\ SyncFree /\ r \in syncs
  /\ syncs' = syncs \ {r}
  /\ IF r <= counters.completed THEN UNCHANGED <<counters, waiting>>
     ELSE /\ counters' = [counters EXCEPT !.observed = counters.revision]
          /\ waiting' = waiting \cup {"sync"}
  /\ UNCHANGED <<contractVars, flags, vm, stale, rebuilding, served, lockHolder, at, ask, wire,
                 unsure, quit, world>>

CompletesAll == counters' = [counters EXCEPT !.completed = counters.revision]
Completes == counters' = [counters EXCEPT !.completed = counters.observed]

\* tun_sync_once behind the lock; what it sees now decides.
TakesSync ==
  /\ Takes("sync")
  /\ served' = rules
  /\ \/ /\ entryClosing \/ ~flag \/ (parked /\ ~pending)
        /\ Completes
        /\ UNCHANGED <<flags, lockHolder, at, ask>>
     \/ /\ ~entryClosing /\ flag /\ pending
        /\ Asks("sync", IF other = "up" THEN "yield" ELSE "resume")
        /\ UNCHANGED <<flags, counters>>
     \/ /\ ~entryClosing /\ flag /\ ~pending /\ ~parked /\ other = "up"
        /\ parked' = TRUE
        /\ Asks("sync", "stop")
        /\ UNCHANGED <<flag, pending, entryClosing, counters>>
     \/ /\ ~entryClosing /\ flag /\ ~pending /\ ~parked /\ other # "up"
        /\ Asks("sync", "ensure")
        /\ UNCHANGED <<flags, counters>>
  /\ UNCHANGED <<contractVars, vm, stale, rebuilding, syncs, wire, unsure, quit, world>>

\* resume_tun_locked sets both flags by its result; giving way is a failure.
ResumedWell == at = "acked" /\ ask.kind = "resume"

SyncEnds ==
  /\ lockHolder = "sync" /\ at \in {"acked", "failed"}
  /\ IF ask.kind \in {"resume", "yield"} THEN parked' = ~ResumedWell /\ pending' = ~ResumedWell
     ELSE UNCHANGED <<parked, pending>>
  /\ unsure' = (at = "failed")
  /\ Completes
  /\ Frees
  /\ UNCHANGED <<contractVars, flag, entryClosing, vm, stale, rebuilding, syncs, served, waiting,
                 wire, quit, world>>

---------------------------------------------------------------------------
\* The runtime: start, resume_after_idle, park_for_idle.

EntryStarts ==
  /\ vm \in {"off", "idle", "failed"} /\ ~entryClosing
  /\ left.starts > 0 /\ left' = [left EXCEPT !.starts = @ - 1]
  /\ vm' = "starting"
  /\ UNCHANGED <<contractVars, flags, stale, syncing, task, wire, unsure, quit, rules, other>>

\* The rebuild of a start; with its configuration pending nothing is resumed.
StartRebuilds ==
  /\ vm = "starting"
  /\ \/ stale' = FALSE /\ vm' = "resuming" /\ UNCHANGED left
     \/ Loses /\ stale' = TRUE /\ vm' = "serving"
  /\ Spawned
  /\ UNCHANGED <<contractVars, flags, rebuilding, served, task, wire, unsure, quit, rules, other>>

ResumeCalled ==
  /\ vm = "resuming" /\ "resume" \notin waiting /\ lockHolder # "resume"
  /\ \/ entryClosing /\ vm' = "failed" /\ UNCHANGED <<parked, waiting>>
     \/ ~entryClosing /\ parked /\ flag /\ Calls("resume") /\ UNCHANGED <<vm, parked>>
     \/ ~entryClosing /\ ~(parked /\ flag) /\ parked' = FALSE /\ vm' = "serving"
        /\ UNCHANGED waiting
  /\ UNCHANGED <<contractVars, flag, pending, entryClosing, stale, syncing, lockHolder, at, ask, wire,
                 unsure, quit, world>>

\* Both conditions are looked at again behind the lock.
StillEnabled == flag
TakesResume ==
  /\ Takes("resume")
  /\ \/ entryClosing /\ vm' = "failed" /\ UNCHANGED <<lockHolder, at, ask>>
     \/ ~entryClosing /\ ~StillEnabled /\ vm' = "serving" /\ UNCHANGED <<lockHolder, at, ask>>
     \/ /\ ~entryClosing /\ StillEnabled /\ UNCHANGED vm
        /\ Asks("resume", IF other = "up" THEN "yield" ELSE "resume")
  /\ UNCHANGED <<contractVars, flags, stale, syncing, wire, unsure, quit, world>>

ResumptionEnds ==
  /\ lockHolder = "resume" /\ at \in {"acked", "failed"}
  /\ parked' = ~ResumedWell /\ pending' = ~ResumedWell
  /\ unsure' = (at = "failed")
  /\ vm' = "serving"
  /\ Frees
  /\ UNCHANGED <<contractVars, flag, entryClosing, stale, syncing, waiting, wire, quit, world>>

IdleReleases ==
  /\ vm = "serving" /\ ~entryClosing /\ ~stale /\ ~rebuilding
  /\ vm' = "releasing" /\ Calls("idle")
  /\ UNCHANGED <<contractVars, flags, stale, syncing, lockHolder, at, ask, wire, unsure, quit, world>>

\* Parked at once, and no longer owed a resumption by a reconciliation.
KeepsPending == pending
DropsPending == FALSE
TakesIdle ==
  /\ Takes("idle")
  /\ parked' = TRUE /\ pending' = DropsPending
  /\ Asks("idle", "stop")
  /\ UNCHANGED <<contractVars, flag, entryClosing, vm, stale, syncing, wire, unsure, quit, world>>

ParkEnds ==
  /\ lockHolder = "idle" /\ at \in {"acked", "failed"}
  /\ vm' = IF at = "acked" THEN "idle" ELSE "failed"
  /\ unsure' = (at = "failed")
  /\ Frees
  /\ UNCHANGED <<contractVars, flags, stale, syncing, waiting, wire, quit, world>>

---------------------------------------------------------------------------
\* The quit: begin_shutdown, tun_park; and the end of the process.

QuitBegins ==
  /\ ~entryClosing
  /\ entryClosing' = TRUE
  /\ IF flag THEN parked' = TRUE /\ pending' = FALSE /\ Calls("quit") /\ quit' = "parking"
     ELSE quit' = "done" /\ UNCHANGED <<parked, pending, waiting>>
  /\ UNCHANGED <<contractVars, flag, vm, stale, syncing, lockHolder, at, ask, wire, unsure, world>>

TakesQuit ==
  /\ Takes("quit")
  /\ parked' = TRUE /\ pending' = FALSE
  /\ Asks("quit", "stop")
  /\ UNCHANGED <<contractVars, flag, entryClosing, vm, stale, syncing, wire, unsure, quit, world>>

QuitEnds ==
  /\ \/ /\ lockHolder = "quit" /\ at \in {"acked", "failed"}
        /\ quit' = IF at = "acked" THEN "parked" ELSE "done"
        /\ unsure' = (at = "failed")
        /\ Frees /\ UNCHANGED <<waiting, left>>
     \/ \* The step's budget ends while another task has the lock.
        /\ "quit" \in waiting /\ waiting' = waiting \ {"quit"} /\ Loses
        /\ quit' = "done" /\ unsure' = TRUE /\ UNCHANGED <<lockHolder, at, ask>>
  /\ UNCHANGED <<contractVars, flags, vm, stale, syncing, wire, rules, other>>

\* Ended or killed, and started again; the lease and the mark outlive it.
ProcessEnds ==
  /\ Loses
  /\ parked' = FALSE /\ pending' = FALSE /\ entryClosing' = FALSE
  /\ vm' = "off" /\ stale' = FALSE /\ rebuilding' = FALSE
  /\ syncs' = {} /\ counters' = [revision |-> 0, completed |-> 0, observed |-> 0]
  /\ waiting' = {} /\ Frees
  /\ unsure' = (unsure \/ lockHolder # Nobody)
  /\ quit' = "no"
  /\ UNCHANGED <<contractVars, flag, served, wire, rules, other>>

---------------------------------------------------------------------------
\* The helper's own steps and the rest of the world.

\* tun_renew: only for an entry that is meant to be up.
Renews ==
  /\ lockHolder = Nobody /\ wire = NoWire
  /\ ~entryClosing /\ ~parked /\ flag
  /\ ContractRenew
  /\ UNCHANGED <<flags, vm, stale, syncing, task, wire, unsure, quit, world>>

HelperMoves ==
  /\ \/ ~engaged /\ ContractEngage /\ UNCHANGED left
     \/ engaged /\ ~EntryUp /\ ContractRelease /\ UNCHANGED left
     \/ engaged /\ EntryUp /\ ContractRelease /\ Loses
     \/ ContractExpire /\ Loses
  /\ UNCHANGED <<flags, vm, stale, syncing, task, wire, unsure, quit, rules, other>>

HelperRestart ==
  /\ Loses
  /\ ContractRestart
  /\ wire' = NoWire
  /\ at' = IF at = "await" THEN "readback" ELSE at
  /\ UNCHANGED <<flags, vm, stale, syncing, waiting, lockHolder, ask, unsure, quit, rules, other>>

OtherApp ==
  /\ \/ other # "up" /\ Loses /\ other' = "up"
     \/ other = "up" /\ UNCHANGED left /\ other' = "gone"
  /\ UNCHANGED <<contractVars, flags, vm, stale, syncing, task, wire, unsure, quit, rules>>

SwitchSteps == Toggles \/ TakesEnable \/ EnableEnds \/ TakesDisable \/ DisableEnds
SyncSteps ==
  \/ RuleChanges \/ RebuildEnds \/ RebuildRetried \/ TakesSync \/ SyncEnds
  \/ \E r \in syncs : SyncTurn(r)
RuntimeSteps ==
  \/ EntryStarts \/ StartRebuilds \/ ResumeCalled \/ TakesResume \/ ResumptionEnds
  \/ IdleReleases \/ TakesIdle \/ ParkEnds
QuitSteps == QuitBegins \/ TakesQuit \/ QuitEnds \/ ProcessEnds

EntryNext ==
  \/ Conversation \/ SwitchSteps \/ SyncSteps \/ RuntimeSteps \/ QuitSteps
  \/ Renews \/ HelperMoves \/ HelperRestart \/ OtherApp

EntrySpec == EntryInit /\ [][EntryNext]_entryVars

---------------------------------------------------------------------------
\* Properties.

Unasked == lockHolder = Nobody /\ waiting = {} /\ wire = NoWire
Synced == ~rebuilding /\ syncs = {} /\ SyncFree

\* A reconciliation that was skipped was served: once none is left, the last
\* one began after the last change of the rules.
SyncServesLatest == vm = "serving" /\ Synced => served = rules

\* Switched off means off: as long as every request was answered, no late
\* reconciliation or resumption turns the entry on again.
DisabledStaysOff == ~flag /\ Unasked /\ ~unsure => ~EntryUp

\* After the quit has confirmed the stop nothing turns the entry on again.
QuitStaysOff == quit = "parked" => ~EntryUp /\ wire.kind # "ensure"

\* A released runtime's entry stays down until somebody switches it on or the
\* runtime is started.
IdleStaysDown ==
  [][vm = "idle" /\ ~running /\ running' => wire.by = "enable"]_entryVars

\* The entry the user has enabled comes back with the runtime, where nobody
\* else has taken the network over: it is not parked any more, or the next
\* reconciliation owes it the resumption.
EnabledComesBack ==
  vm = "serving" /\ flag /\ ~entryClosing /\ ~stale /\ other = "never" /\ Unasked /\ Synced
    => ~parked \/ pending

\* A quit during which no request failed leaves no entry behind.
QuitStopsEntry == quit \in {"parked", "done"} /\ Unasked /\ ~unsure => ~EntryUp

\* An entry that was switched off, or whose stop a quit has confirmed, stays off,
\* whatever requests, reconciliations and resumptions were under way.
OffStaysOff == DisabledStaysOff /\ QuitStaysOff

\* The entry follows the wishes of the user: the newest rules are served, and an
\* entry that is switched off, stopped by a quit or released with an idle runtime
\* stays down until somebody switches it on (entry.rs:560-700, 900-1010).
EntryFollows == [](SyncServesLatest /\ OffStaysOff) /\ IdleStaysDown
=============================================================================
