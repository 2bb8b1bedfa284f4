---------------------------- MODULE ConfigApply ----------------------------
(***************************************************************************)
(* How a saved setting becomes the configuration the kernel (mihomo) runs. *)
(* The database row config_apply_state is the journal: triggers count the  *)
(* changes of the source (source_revision), an attempt records what it     *)
(* wants to run (prepare), and only a readback of the kernel confirms it.  *)
(*                                                                         *)
(* One attempt (config_apply::apply) holds a lock file from its first read *)
(* to its end, also across processes; it can be cancelled or die anywhere. *)
(* Between two of its steps settings are saved, the kernel restarts, and   *)
(* requests whose answer was lost still arrive.                            *)
(*                                                                         *)
(* Simplifications:                                                        *)
(*  - One channel.  A configuration is the rules in force, or NoRules, and *)
(*    where they lead; a digest is the configuration itself.               *)
(*  - The attempt number is compared for equality with the newest only.    *)
(*    The model keeps who prepared the newest attempt.                     *)
(*  - verified_at only tells a row that was never confirmed from others.   *)
(*  - `gated` stands for what the process holds in memory and the journal  *)
(*    does not track: the channel is lost, or custom and not verified.     *)
(***************************************************************************)
EXTENDS Integers, FiniteSets

CONSTANTS Appliers,   \* tasks of any process that apply the configuration
          Nobody,     \* nobody holds the lock, nobody has prepared
          Contents,   \* versions of the enabled rules
          NoRules,    \* the configuration without rules
          Absent,     \* no file, no version, no error, no request
          Late,       \* requests outlive the attempt that sent them
          MaxEdits,   \* BOUND: changes of the settings
          MaxFailures   \* BOUND: failures of any kind

ASSUME ConfigAssumption ==
  /\ Nobody \notin Appliers
  /\ NoRules \notin Contents
  /\ Late \in BOOLEAN /\ MaxEdits \in Nat /\ MaxFailures \in Nat

VARIABLES
  src,     \* source_revision and the tables it covers
  off,     \* the routing-off flag file
  gated,   \* the in-memory gate of the channel
  row,     \* config_apply_state without source_revision
  lock,    \* holder of mihomo-apply.lock
  pc, work, \* the attempt of each applier
  put,     \* the reload request each applier sent
  kernel,  \* what mihomo runs
  host, boot,     \* the startup file on the host and in the container
  edits, failures   \* budgets used

settings == <<src, off, gated, edits>>
files == <<host, boot>>
configVars == <<settings, row, lock, pc, work, put, kernel, files, failures>>

Statuses == {"live", "error", "stopped"}
Dead == {"stopped", "error"}

\* ordered_rules over effective_rules_with: a stopped channel has no rules, one
\* that failed or is gated blocks what its rules match.
Render(content, status, isOff, gate) ==
  IF isOff \/ status = "stopped" THEN <<NoRules, "none">>
  ELSE <<content, IF status = "error" \/ gate THEN "reject" ELSE "channel">>

Configs == (Contents \X {"reject", "channel"}) \cup {<<NoRules, "none">>}
Stamps == [gen : 1 .. MaxEdits + 1, cfg : Configs]
Codes == {"unconfirmed", "runtime_idle", "reload_failed", "readback_failed",
          "readback_mismatch", "dns_flush_failed", "write_failed", "delivery_failed"}
Errors == {Absent} \cup Codes

\* What is absent is none of the values that may be present.
ASSUME AbsentAssumption ==
  /\ Absent \notin Codes \cup Configs
  /\ Absent \notin [gen : Nat, cfg : Configs]
  /\ Absent \notin [stage : {"sent", "half", "done"}, stamp : [gen : Nat, cfg : Configs]]

NoJob == [base |-> Absent, off |-> FALSE, docker |-> FALSE, prevRev |-> -1,
          prevErr |-> Absent, prevHash |-> Absent, rev |-> -1, cfg |-> Absent,
          gen |-> 0, pass |-> "first", flush |-> FALSE,
          reloadFailed |-> FALSE, seen |-> "nothing"]

ConfigTypeOK ==
  /\ src \in [rev : 0 .. MaxEdits, content : Contents, status : Statuses]
  /\ off \in BOOLEAN /\ gated \in BOOLEAN
  /\ row \in [rev : -1 .. MaxEdits, off : BOOLEAN \cup {Absent},
              gen : 0 .. MaxEdits + 1, hash : Configs \cup {Absent},
              attempt : Appliers \cup {Nobody}, appGen : 0 .. MaxEdits + 1,
              appHash : Configs \cup {Absent}, verified : BOOLEAN, err : Errors]
  /\ lock \in Appliers \cup {Nobody}
  /\ pc \in [Appliers -> {"idle", "snapshot", "prepare", "prepared", "proxies",
                          "rules", "again", "put", "putting", "observe", "observed",
                          "flush", "write", "deliver", "confirm"}]
  /\ work \in [Appliers ->
       [base : Stamps \cup {Absent}, off : BOOLEAN, docker : BOOLEAN,
        prevRev : -1 .. MaxEdits, prevErr : Errors, prevHash : Configs \cup {Absent},
        rev : -1 .. MaxEdits, cfg : Configs \cup {Absent}, gen : 0 .. MaxEdits + 1,
        pass : {"first", "second", "final"}, flush : BOOLEAN,
        reloadFailed : BOOLEAN, seen : {"nothing", "loading", "whole"}]]
  /\ put \in [Appliers -> {Absent} \cup
                [stage : {"sent", "half", "done"}, stamp : Stamps]]
  /\ kernel \in [up : BOOLEAN, proxies : Stamps \cup {Absent},
                 rules : Stamps \cup {Absent}, fresh : BOOLEAN]
  /\ host \in Stamps \cup {Absent} /\ boot \in Stamps \cup {Absent}
  /\ edits \in 0 .. MaxEdits /\ failures \in 0 .. MaxFailures

ConfigInit ==
  /\ src \in [rev : {0}, content : Contents, status : Statuses]
  /\ off = FALSE /\ gated = FALSE
  /\ row = [rev |-> -1, off |-> Absent, gen |-> 0, hash |-> Absent,
            attempt |-> Nobody, appGen |-> 0, appHash |-> Absent,
            verified |-> FALSE, err |-> Absent]
  /\ lock = Nobody
  /\ pc = [p \in Appliers |-> "idle"]
  /\ work = [p \in Appliers |-> NoJob]
  /\ put = [p \in Appliers |-> Absent]
  /\ kernel = [up |-> TRUE, proxies |-> Absent, rules |-> Absent, fresh |-> TRUE]
  /\ host = Absent /\ boot = Absent
  /\ edits = 0 /\ failures = 0

\* journal::status
Pending ==
  \/ ~row.verified \/ row.err # Absent
  \/ src.rev # row.rev \/ row.off # off
  \/ row.gen # row.appGen \/ row.hash # row.appHash

---------------------------------------------------------------------------
\* Settings are saved, by anybody and at any time.

Edit == edits < MaxEdits /\ edits' = edits + 1

SaveRules ==
  /\ Edit
  /\ \E c \in Contents \ {src.content} :
       src' = [src EXCEPT !.content = c, !.rev = @ + 1]
  /\ UNCHANGED <<off, gated, row, lock, pc, work, put, kernel, files, failures>>

\* The update trigger compares the two classes of status, not the statuses.
StatusRevision(old, new) ==
  IF (old \in Dead) # (new \in Dead) THEN 1 ELSE 0

SetStatus ==
  /\ Edit
  /\ \E s \in Statuses \ {src.status} :
       src' = [src EXCEPT !.status = s, !.rev = @ + StatusRevision(src.status, s)]
  /\ UNCHANGED <<off, gated, row, lock, pc, work, put, kernel, files, failures>>

\* container_id changes: the proxies keep their names, their addresses are new.
ReplaceInstance ==
  /\ Edit
  /\ src' = [src EXCEPT !.rev = @ + 1]
  /\ kernel' = [kernel EXCEPT !.fresh = FALSE]
  /\ UNCHANGED <<off, gated, row, lock, pc, work, put, files, failures>>

ToggleRouting ==
  /\ Edit
  /\ off' = ~off
  /\ UNCHANGED <<src, gated, row, lock, pc, work, put, kernel, files, failures>>

GateChanges ==
  /\ Edit
  /\ gated' = ~gated
  /\ UNCHANGED <<src, off, row, lock, pc, work, put, kernel, files, failures>>

---------------------------------------------------------------------------
\* An attempt: config_apply::apply

LockFree == lock = Nobody

Goto(p, label) == pc' = [pc EXCEPT ![p] = label]
AttemptEnds(p) ==
  /\ Goto(p, "idle")
  /\ work' = [work EXCEPT ![p] = NoJob]
  /\ lock' = IF lock = p THEN Nobody ELSE lock
\* A request whose sender is gone: it reaches the kernel only if it can be late.
Forget(p) ==
  put' = IF Late /\ put[p] # Absent /\ put[p].stage # "done" THEN put
         ELSE [put EXCEPT ![p] = Absent]

Failure == failures < MaxFailures /\ failures' = failures + 1

\* stamp: the version with its number as a marker.
Stamp(p) == [gen |-> work[p].gen, cfg |-> work[p].cfg]

TicketIsCurrent(p) ==
  /\ row.attempt = p
  /\ row.rev = work[p].rev /\ row.off = work[p].off
  /\ row.gen = work[p].gen /\ row.hash = work[p].cfg

\* journal::failed, then the attempt returns; a newer attempt is left alone.
FailsWith(p, code) ==
  /\ row' = IF TicketIsCurrent(p) THEN [row EXCEPT !.err = code] ELSE row
  /\ AttemptEnds(p)
  /\ Forget(p)

BeginAttempt(p) ==
  /\ pc[p] = "idle" /\ put[p] = Absent
  /\ LockFree
  /\ lock' = p
  /\ Goto(p, "snapshot")
  /\ work' = [work EXCEPT ![p] =
       [NoJob EXCEPT !.base = host, !.off = off, !.docker = kernel.up,
                     !.prevRev = row.rev, !.prevErr = row.err,
                     !.prevHash = row.appHash]]
  /\ UNCHANGED <<settings, row, put, kernel, files, failures>>

\* One read transaction; the digest of what it saw.
Snapshot(p) ==
  /\ pc[p] = "snapshot"
  /\ Goto(p, "prepare")
  /\ work' = [work EXCEPT ![p].rev = src.rev,
       ![p].cfg = Render(src.content, src.status, work[p].off, gated)]
  /\ UNCHANGED <<settings, row, lock, put, kernel, files, failures>>

GenerationPerAttempt(digest) == row.gen + 1
NextGeneration(digest) == IF row.hash # digest THEN row.gen + 1 ELSE row.gen

OffWithDigest(p) == IF row.hash = work[p].cfg THEN row.off ELSE work[p].off
DesiredOff(p) == work[p].off

\* One write transaction; the source must still be the one that was read.
Prepare(p) ==
  /\ pc[p] = "prepare"
  /\ src.rev = work[p].rev
  /\ LET gen == NextGeneration(work[p].cfg)
     IN /\ row' = [row EXCEPT !.rev = work[p].rev, !.off = DesiredOff(p), !.gen = gen,
                              !.hash = work[p].cfg, !.attempt = p, !.err = "unconfirmed"]
        /\ work' = [work EXCEPT ![p].gen = gen]
  /\ Goto(p, "prepared")
  /\ UNCHANGED <<settings, lock, put, kernel, files, failures>>

\* The source moved: read again, or give up after eight tries.
PrepareRefused(p) ==
  /\ pc[p] = "prepare"
  /\ src.rev # work[p].rev
  /\ \/ Goto(p, "snapshot") /\ UNCHANGED <<work, lock>>
     \/ AttemptEnds(p)
  /\ UNCHANGED <<settings, row, put, kernel, files, failures>>

\* Without a container engine the setting is saved for the next start.
Defer(p) ==
  /\ pc[p] = "prepared"
  /\ ~work[p].docker
  /\ FailsWith(p, "runtime_idle")
  /\ UNCHANGED <<settings, kernel, files, failures>>

StartReadback(p) ==
  /\ pc[p] = "prepared"
  /\ work[p].docker
  /\ Goto(p, "proxies")
  /\ UNCHANGED <<settings, row, lock, work, put, kernel, files, failures>>

RulesMatch(p) == kernel.rules # Absent /\ kernel.rules.cfg = work[p].cfg

\* `seen`: at the last readings the kernel runs the whole version and nothing else,
\* or has its proxies and is loading its rules.
Whole(p) == kernel.proxies = Stamp(p) /\ RulesMatch(p)
Loading(p) ==
  \E q \in Appliers : put[q] # Absent /\ put[q].stage = "half" /\ put[q].stamp = Stamp(p)
Seen(p) == IF Whole(p) THEN "whole" ELSE IF Loading(p) THEN "loading" ELSE "nothing"

\* needs_dns_flush of a first readback that matches.
NeedsFlush(p) ==
  \/ work[p].prevRev # work[p].rev
  \/ work[p].prevErr \notin {Absent, "delivery_failed", "write_failed"}

Verified(p) ==
  /\ Goto(p, IF work[p].pass = "final" THEN "confirm" ELSE "observe")
  /\ work' = [work EXCEPT ![p].flush = IF work[p].pass = "first" THEN NeedsFlush(p) ELSE @,
                        ![p].seen = IF @ = "whole" THEN @ ELSE Seen(p)]
  /\ UNCHANGED <<row, lock, put>>

\* A first readback that fails or differs leads to a reload, a later one ends.
NotVerified(p, code) ==
  \/ /\ work[p].pass = "first"
     /\ Goto(p, "put")
     /\ UNCHANGED <<row, lock, work, put>>
  \/ work[p].pass # "first" /\ FailsWith(p, code)

MismatchCode(p) ==
  IF work[p].pass = "second" /\ work[p].reloadFailed THEN "reload_failed"
  ELSE "readback_mismatch"

\* readback: the proxies, the rules, and the proxies once more.
ReadProxies(p) ==
  /\ pc[p] = "proxies"
  /\ kernel.up
  /\ IF kernel.proxies = Stamp(p)
       THEN /\ Goto(p, "rules")
            /\ UNCHANGED <<row, lock, work, put>>
       ELSE NotVerified(p, MismatchCode(p))
  /\ UNCHANGED <<settings, kernel, files, failures>>

ReadRules(p) ==
  /\ pc[p] = "rules"
  /\ kernel.up
  /\ IF RulesMatch(p)
       THEN /\ Goto(p, "again")
            /\ work' = [work EXCEPT ![p].seen = Seen(p)]
            /\ UNCHANGED <<row, lock, put>>
       ELSE NotVerified(p, MismatchCode(p))
  /\ UNCHANGED <<settings, kernel, files, failures>>

TrustFirstReading(p) == TRUE
ProxiesUnchanged(p) == kernel.proxies = Stamp(p)
ReadAgain(p) ==
  /\ pc[p] = "again"
  /\ kernel.up
  /\ IF ProxiesUnchanged(p) THEN Verified(p) ELSE NotVerified(p, MismatchCode(p))
  /\ UNCHANGED <<settings, kernel, files, failures>>

ReadFails(p) ==
  /\ pc[p] \in {"proxies", "rules", "again"}
  /\ IF kernel.up THEN Failure ELSE UNCHANGED failures
  /\ NotVerified(p, "readback_failed")
  /\ UNCHANGED <<settings, kernel, files>>

\* The reload request and the kernel's work on it.

SendPut(p) ==
  /\ pc[p] = "put"
  /\ kernel.up
  /\ put' = [put EXCEPT ![p] = [stage |-> "sent", stamp |-> Stamp(p)]]
  /\ Goto(p, "putting")
  /\ UNCHANGED <<settings, row, lock, work, kernel, files, failures>>

\* It applies one request at a time, the proxies before the rules.
KernelTakesProxies(p) ==
  /\ put[p] # Absent /\ put[p].stage = "sent"
  /\ \A q \in Appliers : put[q] # Absent => put[q].stage # "half"
  /\ put' = [put EXCEPT ![p].stage = "half"]
  /\ kernel' = [kernel EXCEPT !.proxies = put[p].stamp, !.fresh = TRUE]
  /\ UNCHANGED <<settings, row, lock, pc, work, files, failures>>

KernelTakesRules(p) ==
  /\ put[p] # Absent /\ put[p].stage = "half"
  /\ put' = IF pc[p] = "putting" THEN [put EXCEPT ![p].stage = "done"]
            ELSE [put EXCEPT ![p] = Absent]
  /\ kernel' = [kernel EXCEPT !.rules = put[p].stamp]
  /\ UNCHANGED <<settings, row, lock, pc, work, files, failures>>

SecondReadback(p, failed) ==
  /\ Goto(p, "proxies")
  /\ work' = [work EXCEPT ![p].pass = "second", ![p].reloadFailed = failed]

PutAnswered(p) ==
  /\ pc[p] = "putting"
  /\ put[p] # Absent /\ put[p].stage = "done"
  /\ put' = [put EXCEPT ![p] = Absent]
  /\ SecondReadback(p, FALSE)
  /\ UNCHANGED <<settings, row, lock, kernel, files, failures>>

\* Refused, unreachable, or no answer in time: read back, never send it again.
PutFails(p) ==
  /\ \/ pc[p] = "put" /\ ~kernel.up /\ UNCHANGED <<put, failures>>
     \/ /\ pc[p] = "putting"
        /\ put[p] # Absent => Late \/ put[p].stage # "half"
        /\ IF put[p] # Absent THEN Failure ELSE UNCHANGED failures
        /\ Forget(p)
  /\ SecondReadback(p, TRUE)
  /\ UNCHANGED <<settings, row, lock, kernel, files>>

\* journal::observed: the kernel runs it, the startup files are not written yet.
Observe(p) ==
  /\ pc[p] = "observe"
  /\ IF TicketIsCurrent(p)
       THEN /\ row' = [row EXCEPT !.appGen = row.gen, !.appHash = row.hash,
                                  !.verified = TRUE, !.err = "unconfirmed"]
            /\ Goto(p, "observed")
            /\ UNCHANGED <<lock, work>>
       ELSE AttemptEnds(p) /\ UNCHANGED row
  /\ UNCHANGED <<settings, put, kernel, files, failures>>

ReloadUnanswered(p) ==
  /\ pc[p] = "observed"
  /\ work[p].reloadFailed
  /\ FailsWith(p, "reload_failed")
  /\ UNCHANGED <<settings, kernel, files, failures>>

GoOn(p) ==
  /\ pc[p] = "observed"
  /\ ~work[p].reloadFailed
  /\ Goto(p, IF work[p].flush THEN "flush" ELSE "write")
  /\ UNCHANGED <<settings, row, lock, work, put, kernel, files, failures>>

Flush(p) ==
  /\ pc[p] = "flush"
  /\ kernel.up
  /\ kernel' = [kernel EXCEPT !.fresh = TRUE]
  /\ Goto(p, "write")
  /\ UNCHANGED <<settings, row, lock, work, put, files, failures>>

FlushFails(p) ==
  /\ pc[p] = "flush"
  /\ IF kernel.up THEN Failure ELSE UNCHANGED failures
  /\ kernel' \in {kernel, [kernel EXCEPT !.fresh = @ \/ kernel.up]}
  /\ FailsWith(p, "dns_flush_failed")
  /\ UNCHANGED <<settings, files>>

\* Files are replaced by rename: an error leaves the old one.
Stale(p) == work[p].base # Stamp(p)
WriteHost(p) ==
  /\ pc[p] = "write"
  /\ host' = IF Stale(p) THEN Stamp(p) ELSE host
  /\ Goto(p, "deliver")
  /\ UNCHANGED <<settings, row, lock, work, put, kernel, boot, failures>>

WriteFails(p) ==
  /\ pc[p] = "write"
  /\ Stale(p)
  /\ Failure
  /\ FailsWith(p, "write_failed")
  /\ UNCHANGED <<settings, kernel, files>>

NeedsDelivery(p) ==
  Stale(p) \/ work[p].prevErr # Absent \/ work[p].prevHash # work[p].cfg

ReadsAfterFlush(p) == work[p].flush
ReadsOnceMore(p) == NeedsDelivery(p) \/ work[p].flush

\* persist_container: the upload, the rename and the readback of the file.
Deliver(p) ==
  /\ pc[p] = "deliver"
  /\ NeedsDelivery(p) => kernel.up
  /\ boot' = IF NeedsDelivery(p) THEN Stamp(p) ELSE boot
  /\ IF ReadsOnceMore(p)
       THEN /\ Goto(p, "proxies")
            /\ work' = [work EXCEPT ![p].pass = "final"]
       ELSE Goto(p, "confirm") /\ UNCHANGED work
  /\ UNCHANGED <<settings, row, lock, put, kernel, host, failures>>

DeliverFails(p) ==
  /\ pc[p] = "deliver"
  /\ NeedsDelivery(p)
  /\ IF kernel.up THEN Failure ELSE UNCHANGED failures
  /\ boot' \in {boot, IF kernel.up THEN Stamp(p) ELSE boot}
  /\ FailsWith(p, "delivery_failed")
  /\ UNCHANGED <<settings, kernel, host>>

\* journal::confirmed
Confirm(p) ==
  /\ pc[p] = "confirm"
  /\ row' = IF TicketIsCurrent(p)
              THEN [row EXCEPT !.appGen = row.gen, !.appHash = row.hash,
                               !.verified = TRUE, !.err = Absent]
              ELSE row
  /\ AttemptEnds(p)
  /\ UNCHANGED <<settings, put, kernel, files, failures>>

\* The task is cancelled or its process dies: the lock goes with it.
Dies(p) ==
  /\ pc[p] # "idle"
  /\ put[p] # Absent => Late \/ put[p].stage # "half"
  /\ Failure
  /\ AttemptEnds(p)
  /\ Forget(p)
  /\ UNCHANGED <<settings, row, kernel, files>>

---------------------------------------------------------------------------
\* The kernel's container stops and starts with its startup file, or is created
\* again from the host's.

KernelStops ==
  /\ kernel.up
  /\ Failure
  /\ kernel' = [up |-> FALSE, proxies |-> Absent, rules |-> Absent, fresh |-> TRUE]
  /\ put' = [p \in Appliers |-> Absent]
  /\ UNCHANGED <<settings, row, lock, pc, work, files>>

KernelStarts ==
  /\ ~kernel.up
  /\ boot' \in {boot, host}
  /\ kernel' = [up |-> TRUE, proxies |-> boot', rules |-> boot', fresh |-> TRUE]
  /\ UNCHANGED <<settings, row, lock, pc, work, put, host, failures>>

---------------------------------------------------------------------------

AttemptStep(p) ==
  \/ Snapshot(p) \/ Prepare(p) \/ PrepareRefused(p) \/ Defer(p) \/ StartReadback(p)
  \/ ReadProxies(p) \/ ReadRules(p) \/ ReadAgain(p) \/ ReadFails(p)
  \/ SendPut(p) \/ PutAnswered(p) \/ PutFails(p)
  \/ Observe(p) \/ ReloadUnanswered(p) \/ GoOn(p) \/ Flush(p) \/ FlushFails(p)
  \/ WriteHost(p) \/ WriteFails(p) \/ Deliver(p) \/ DeliverFails(p) \/ Confirm(p)

KernelStep ==
  \/ \E p \in Appliers : KernelTakesProxies(p) \/ KernelTakesRules(p)
  \/ KernelStarts

ConfigNext ==
  \/ SaveRules \/ SetStatus \/ ReplaceInstance \/ ToggleRouting \/ GateChanges
  \/ \E p \in Appliers : BeginAttempt(p) \/ AttemptStep(p) \/ Dies(p)
  \/ KernelStep \/ KernelStops

ConfigSpec == ConfigInit /\ [][ConfigNext]_configVars

\* Attempts go on to their end, failed ones are retried (the rebuild worker's
\* backoff, the watchdog's recovery, the page's retry), the kernel handles what it
\* has got and is started again.  Edits and failures are never promised.
LiveSpec ==
  /\ ConfigSpec
  /\ \A p \in Appliers : WF_configVars(AttemptStep(p))
  /\ WF_configVars(\E p \in Appliers : BeginAttempt(p))
  /\ WF_configVars(KernelStep)

---------------------------------------------------------------------------
\* Properties

Newest == [gen |-> row.gen, cfg |-> row.hash]

\* The configurations the tracked settings stand for.  The journal does not track
\* the gate, and its trigger takes `stopped` and `error` for the same.
Tracked ==
  {Render(src.content, s, off, g) :
     s \in {s \in Statuses : (s \in Dead) = (src.status \in Dead)}, g \in BOOLEAN}

\* When nothing is pending the kernel runs exactly the newest version, in both of
\* its halves, and that version is what is saved: no order of saves, crashes,
\* restarts and failed requests ends in a false confirmation.
ConfirmedRuns ==
  ~Pending /\ kernel.up =>
    /\ kernel.proxies = Newest /\ kernel.rules = Newest
    /\ row.hash \in Tracked

\* When nothing is pending both startup files hold that version, so a kernel that
\* restarts or is created again comes back with it: delivery may be skipped only
\* where it was completed before.
ConfirmedSurvives == ~Pending => host = Newest /\ boot = Newest

\* When nothing is pending the kernel resolves no channel to an instance that was
\* replaced: of all the attempts that may have failed since, the one that confirms
\* knows whether the cache was flushed for this revision.
ConfirmedIsFresh == ~Pending /\ kernel.up => kernel.fresh

\* No request is under way but of an attempt that waits for its answer.
RequestsInTime == \A p \in Appliers : put[p] # Absent => pc[p] = "putting"

\* A version number names one configuration, wherever a copy of it survives: the
\* readback decides by the marker what the kernel runs.
Copies ==
  {kernel.proxies, kernel.rules, host, boot, Newest} \cup
  {put[p].stamp : p \in {p \in Appliers : put[p] # Absent}}
OneConfigPerGeneration ==
  \A a, b \in Copies \ {Absent} : a.gen = b.gen => a.cfg = b.cfg

ReadBack(p) ==
  pc[p] \in {"observe", "observed", "flush", "write", "deliver", "confirm"}

\* A version counts as read back only if, when its rules or its proxies were last
\* read, the kernel ran all of it or had just turned to it: a request that arrives
\* late and switches the kernel between the readings cannot put a match together
\* from two versions.
VerifiedWasRunning == \A p \in Appliers : ReadBack(p) => work[p].seen # "nothing"

\* What the comment at the readback promises is more: proxies, rules and proxies that
\* match were one version.  Three late requests can switch the kernel away after the
\* first of these readings and back before the last.
ReadbackWasWhole == \A p \in Appliers : ReadBack(p) => work[p].seen = "whole"

\* Nothing that failed keeps a later attempt from confirming: after finitely many
\* edits and failures retrying always gets there.
RetryConverges == []<>(~Pending)

\* The schema says that a saved change is pending from its own transaction on.  A
\* channel that is stopped after an error changes the configuration, from blocked
\* to absent rules, and leaves the journal confirmed.
SavedConfig == Render(src.content, src.status, off, FALSE)
SavedMeansPending ==
  [][SavedConfig' # SavedConfig => Pending']_configVars

\* "Confirmed" in the journal is worth something: the kernel runs that
\* configuration, it survives a restart of the kernel, it is the newest one asked
\* for, and no generation was ever given to two configurations
\* (config_apply.rs:61-185, config_apply_store.rs).
Confirmed ==
  ConfirmedRuns /\ ConfirmedSurvives /\ ConfirmedIsFresh /\ OneConfigPerGeneration
===========================================================================
