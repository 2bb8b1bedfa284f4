------------------------- MODULE ConfigApplyProofs -------------------------
(***************************************************************************)
(* Proofs about ConfigApply, for every set of appliers and contents and    *)
(* every number of edits and failures.                                     *)
(*                                                                         *)
(* That "confirmed" is true is far from inductive.  The invariant follows  *)
(* an attempt through its steps and says, for each stretch of them, what   *)
(* the attempt has established and nothing since can have undone:          *)
(*   Lock       one attempt at a time, so that its ticket stays current;   *)
(*   Requests   what the kernel is loading, and that its two halves differ *)
(*              only while it does;                                        *)
(*   Stamped    a number stands for one configuration;                     *)
(*   Sources    an unchanged source revision means an unchanged source;    *)
(*   Freshness  where no flush is due, no address is out of date;          *)
(*   Delivered  what the two startup files hold, and what the kernel runs  *)
(*              when it started from one of them meanwhile.                *)
(* The type invariant needs two more, for the bounds of the numbers:       *)
(*   Earned     every number was paid for with an edit, but the first;     *)
(*   Numbered   what goes round has a number, and none is from the future. *)
(* The end carries both components' results over to the run that has both. *)
(***************************************************************************)
EXTENDS MCChanges, ReplacementProofs, TLAPS

Labels == {"idle", "snapshot", "prepare", "prepared", "proxies", "rules", "again", "put",
           "putting", "observe", "observed", "flush", "write", "deliver", "confirm"}
Marks == [gen : Nat, cfg : Configs]

Sourcing == [rev : Nat, content : Contents, status : Statuses]
Rows == [rev : Int, off : BOOLEAN \cup {Absent}, gen : Nat, hash : Configs \cup {Absent},
         attempt : Appliers \cup {Nobody}, appGen : Nat, appHash : Configs \cup {Absent},
         verified : BOOLEAN, err : Errors]
Works == [base : Marks \cup {Absent}, off : BOOLEAN, docker : BOOLEAN, prevRev : Int,
          prevErr : Errors, prevHash : Configs \cup {Absent}, rev : Int,
          cfg : Configs \cup {Absent}, gen : Nat, pass : {"first", "second", "final"},
          flush : BOOLEAN, reloadFailed : BOOLEAN, seen : {"nothing", "loading", "whole"}]
Puts == {Absent} \cup [stage : {"sent", "half", "done"}, stamp : Marks]
Kernels == [up : BOOLEAN, proxies : Marks \cup {Absent}, rules : Marks \cup {Absent},
            fresh : BOOLEAN]

\* The types the other parts rely on; the numbers are not bounded here.
Typed ==
  /\ src \in Sourcing /\ off \in BOOLEAN /\ gated \in BOOLEAN
  /\ row \in Rows
  /\ lock \in Appliers \cup {Nobody}
  /\ pc \in [Appliers -> Labels] /\ work \in [Appliers -> Works]
  /\ put \in [Appliers -> Puts]
  /\ kernel \in Kernels
  /\ host \in Marks \cup {Absent} /\ boot \in Marks \cup {Absent}

\* Phases of an attempt.
Working(p) == pc[p] # "idle"
Prepared(p) == pc[p] \notin {"idle", "snapshot", "prepare"}
Reading(p) == pc[p] \in {"proxies", "rules", "again"}
Ending(p) == pc[p] = "confirm" \/ (Reading(p) /\ work[p].pass = "final")

\* One attempt at a time; which readback leads where.
Lock ==
  /\ \A p \in Appliers : Working(p) <=> lock = p
  /\ \A p \in Appliers :
       /\ pc[p] \in {"snapshot", "prepare", "prepared", "put", "putting"} => work[p].pass = "first"
       /\ pc[p] \in {"observe", "observed", "flush", "write", "deliver"} => work[p].pass # "final"
       /\ pc[p] \notin {"idle", "snapshot"} => work[p].cfg \in Configs

\* What was prepared is the newest thing in the journal, and not confirmed.
Current == \A p \in Appliers : Prepared(p) => TicketIsCurrent(p) /\ row.err # Absent

Half(p) == put[p] # Absent /\ put[p].stage = "half"
Sending(p) == pc[p] \in {"snapshot", "prepare", "prepared", "put"}
                \/ (Reading(p) /\ work[p].pass = "first")

Requests ==
  /\ \A p \in Appliers : Half(p) => kernel.up /\ kernel.proxies = put[p].stamp
  /\ \A p, q \in Appliers : Half(p) /\ Half(q) => p = q
  /\ \A p \in Appliers : put[p] # Absent => kernel.up
  /\ \A p \in Appliers : Sending(p) => put[p] = Absent
  /\ ~Late => \A p \in Appliers : put[p] # Absent => pc[p] = "putting"
  /\ kernel.proxies = kernel.rules \/ \E p \in Appliers : Half(p)

Stamped ==
  /\ OneConfigPerGeneration
  /\ \A c \in Copies \ {Absent} : c.gen =< row.gen

TrackedAs(o) ==
  {Render(src.content, s, o, g) :
     s \in {s \in Statuses : (s \in Dead) = (src.status \in Dead)}, g \in BOOLEAN}

Sources ==
  /\ row.rev =< src.rev
  /\ row.rev = src.rev => row.hash \in TrackedAs(row.off)
  /\ \A p \in Appliers :
       /\ work[p].rev =< src.rev /\ work[p].prevRev =< src.rev
       /\ pc[p] = "prepare" /\ work[p].rev = src.rev => work[p].cfg \in TrackedAs(work[p].off)

\* Errors that leave no flush to be done.
Flushed == {Absent, "delivery_failed", "write_failed"}
UpToDate(rev) == rev = src.rev /\ kernel.up => kernel.fresh

FreshFor(p) ==
  /\ Working(p) /\ work[p].prevErr \in Flushed => UpToDate(work[p].prevRev)
  /\ pc[p] = "putting" /\ put[p] # Absent /\ put[p].stage # "sent" => UpToDate(work[p].rev)
  /\ Working(p) /\ work[p].pass = "second" /\ ~work[p].reloadFailed => UpToDate(work[p].rev)
  /\ pc[p] \in {"observe", "observed"} /\ work[p].pass = "first" /\ ~work[p].flush
       => UpToDate(work[p].rev)
  /\ pc[p] \in {"write", "deliver"} \/ Ending(p) => UpToDate(work[p].rev)
Freshness ==
  /\ row.err \in Flushed => UpToDate(row.rev)
  /\ \A p \in Appliers : FreshFor(p)

KernelHas(v) == kernel.up => kernel.proxies = v /\ kernel.rules = v

\* Before the delivery a file is what the attempt found, after it what it delivered;
\* only the version that was confirmed last needs no delivery.
DeliveredFor(p) ==
  /\ Working(p) /\ pc[p] # "deliver" /\ ~Ending(p) => host = work[p].base
  /\ pc[p] = "deliver" => host = Stamp(p)
  /\ Ending(p) => host = Stamp(p) /\ boot = Stamp(p)
  /\ Working(p) /\ ~Ending(p) /\ work[p].prevErr = Absent /\ work[p].prevHash # Absent
       => (host = work[p].base => boot = host)
  /\ pc[p] \in {"observe", "observed", "flush", "write", "deliver"} /\ ~NeedsDelivery(p)
       => KernelHas(Stamp(p))
  /\ pc[p] = "confirm" => KernelHas(Stamp(p))
Settled ==
  row.verified /\ row.err = Absent
    => /\ host = Newest /\ boot = Newest /\ KernelHas(Newest)
       /\ row.appHash = row.hash /\ row.appGen = row.gen
Delivered ==
  /\ ~row.verified => row.appHash = Absent
  /\ Settled
  /\ \A p \in Appliers : DeliveredFor(p)

ConfigInv ==
  Typed /\ Lock /\ Current /\ Requests /\ Stamped /\ Sources /\ Freshness /\ VerifiedWasRunning

-----------------------------------------------------------------------------
\* A configuration is the rules of the source, or none.
LEMMA RenderType ==
  ASSUME NEW c \in Contents, NEW s \in Statuses, NEW o \in BOOLEAN, NEW g \in BOOLEAN
  PROVE  Render(c, s, o, g) \in Configs
BY DEF Render, Configs, Statuses

\* An applier at rest keeps no ticket, which is a ticket of the type.
LEMMA NoJobType == NoJob \in Works
BY DEF NoJob, Works, Errors, Codes, Configs

\* Every step keeps the types: one lemma per group of variables, over the steps
\* that change it.
LEMMA SourceTyped ==
  ASSUME Typed, SaveRules \/ SetStatus \/ ReplaceInstance
  PROVE  src' \in Sourcing
<1>1. src \in Sourcing
  BY DEF Typed
<1>2. src.rev + 1 \in Nat /\ src.rev + 0 \in Nat
  BY <1>1 DEF Sourcing
<1>3. SaveRules => src' \in Sourcing
  <2>1. ASSUME NEW c \in Contents, src' = [src EXCEPT !.content = c, !.rev = @ + 1]
        PROVE  src' \in Sourcing
    BY <1>1, <1>2, <2>1 DEF Sourcing
  <2> QED
    BY <2>1 DEF SaveRules
<1>4. SetStatus => src' \in Sourcing
  <2>1. ASSUME NEW t \in Statuses,
               src' = [src EXCEPT !.status = t, !.rev = @ + StatusRevision(src.status, t)]
        PROVE  src' \in Sourcing
    <3>1. src.rev + StatusRevision(src.status, t) \in Nat
      BY <1>2 DEF StatusRevision
    <3> QED
      BY <1>1, <2>1, <3>1 DEF Sourcing
  <2> QED
    BY <2>1 DEF SetStatus
<1>5. ReplaceInstance => src' \in Sourcing
  BY <1>1, <1>2 DEF Sourcing, ReplaceInstance
<1> QED
  BY <1>3, <1>4, <1>5

\* What an attempt writes into the journal row keeps its fields.
LEMMA RowTyped ==
  ASSUME Typed, NEW p \in Appliers, work[p].cfg \in Configs
  PROVE  /\ Prepare(p) \/ Observe(p) \/ Confirm(p) => row' \in Rows
         /\ \A code \in Errors : FailsWith(p, code) => row' \in Rows
<1>1. work[p] \in Works
  BY DEF Typed
<1>2. Prepare(p) => row' \in Rows
  <2>1. ASSUME NEW r \in Int, NEW o \in BOOLEAN, NEW g \in Nat
        PROVE  [row EXCEPT !.rev = r, !.off = o, !.gen = g, !.hash = work[p].cfg,
                           !.attempt = p, !.err = "unconfirmed"] \in Rows
    BY DEF Typed, Rows, Errors, Codes
  <2>2. work[p].rev \in Int /\ work[p].off \in BOOLEAN /\ NextGeneration(work[p].cfg) \in Nat
    BY <1>1 DEF Works, Typed, Rows, NextGeneration
  <2>3. [row EXCEPT !.rev = work[p].rev, !.off = work[p].off, !.gen = NextGeneration(work[p].cfg),
                    !.hash = work[p].cfg, !.attempt = p, !.err = "unconfirmed"] \in Rows
    BY <2>1, <2>2
  <2> QED
    BY <2>3, Zenon DEF Prepare, DesiredOff
<1>3. Observe(p) => row' \in Rows
  <2>1. [row EXCEPT !.appGen = row.gen, !.appHash = row.hash, !.verified = TRUE,
                    !.err = "unconfirmed"] \in Rows
    BY DEF Typed, Rows, Errors, Codes
  <2> QED
    BY <2>1 DEF Typed, Observe
<1>4. Confirm(p) => row' \in Rows
  <2>1. [row EXCEPT !.appGen = row.gen, !.appHash = row.hash, !.verified = TRUE,
                    !.err = Absent] \in Rows
    BY DEF Typed, Rows, Errors, Codes
  <2> QED
    BY <2>1 DEF Typed, Confirm
<1>5. \A code \in Errors : FailsWith(p, code) => row' \in Rows
  BY DEF Typed, Rows, FailsWith
<1> QED
  BY <1>2, <1>3, <1>4, <1>5

\* An attempt that ends gives everything back in its type.
LEMMA EndTyped ==
  ASSUME Typed, NEW p \in Appliers, AttemptEnds(p)
  PROVE  /\ pc' \in [Appliers -> Labels] /\ work' \in [Appliers -> Works]
         /\ lock' \in Appliers \cup {Nobody}
BY NoJobType DEF AttemptEnds, Goto, Typed, Labels

\* A request that is forgotten leaves the others.
LEMMA ForgetTyped ==
  ASSUME Typed, NEW p \in Appliers, Forget(p)
  PROVE  put' \in [Appliers -> Puts]
BY DEF Forget, Typed, Puts

\* A failure recorded in the journal, and the end it brings, keep the types.
LEMMA FailTyped ==
  ASSUME Typed, Lock, NEW p \in Appliers, pc[p] \notin {"idle", "snapshot"},
         NEW code \in Errors, FailsWith(p, code)
  PROVE  /\ row' \in Rows /\ lock' \in Appliers \cup {Nobody}
         /\ pc' \in [Appliers -> Labels] /\ work' \in [Appliers -> Works]
         /\ put' \in [Appliers -> Puts]
<1>1. work[p].cfg \in Configs
  BY DEF Lock
<1>2. row' \in Rows
  BY <1>1, RowTyped
<1> QED
  BY <1>2, EndTyped, ForgetTyped DEF FailsWith

\* The record of an attempt.
LEMMA WorkTyped ==
  ASSUME Typed, Lock, NEW p \in Appliers
  PROVE  /\ BeginAttempt(p) => work' \in [Appliers -> Works]
         /\ Snapshot(p) => work' \in [Appliers -> Works]
         /\ Prepare(p) => work' \in [Appliers -> Works]
         /\ SecondReadback(p, TRUE) \/ SecondReadback(p, FALSE) => work' \in [Appliers -> Works]
         /\ Verified(p) => work' \in [Appliers -> Works]
         /\ work' = [work EXCEPT ![p].seen = Seen(p)] => work' \in [Appliers -> Works]
         /\ Deliver(p) => work' \in [Appliers -> Works]
<1>1. work[p] \in Works /\ row \in Rows /\ src \in Sourcing /\ kernel \in Kernels
  BY DEF Typed
<1>2. ASSUME NEW w \in Works, work' = [work EXCEPT ![p] = w] PROVE work' \in [Appliers -> Works]
  BY <1>2 DEF Typed
<1>3. BeginAttempt(p) => work' \in [Appliers -> Works]
  <2>1. [NoJob EXCEPT !.base = host, !.off = off, !.docker = kernel.up, !.prevRev = row.rev,
                      !.prevErr = row.err, !.prevHash = row.appHash] \in Works
    BY <1>1, NoJobType DEF Works, Rows, Kernels, Typed
  <2> QED
    BY <1>2, <2>1 DEF BeginAttempt
<1>4. Snapshot(p) => work' \in [Appliers -> Works]
  <2>1. Render(src.content, src.status, work[p].off, gated) \in Configs
    BY <1>1, RenderType DEF Sourcing, Works, Typed
  <2>2. ASSUME NEW n \in Int, NEW c \in Configs
        PROVE  [work[p] EXCEPT !.rev = n, !.cfg = c] \in Works
    BY <1>1 DEF Works
  <2>3. src.rev \in Int
    BY <1>1 DEF Sourcing
  <2> QED
    BY <1>2, <2>1, <2>2, <2>3 DEF Snapshot, Typed
<1>5. Prepare(p) => work' \in [Appliers -> Works]
  <2>1. [work[p] EXCEPT !.gen = NextGeneration(work[p].cfg)] \in Works
    BY <1>1 DEF Works, Rows, NextGeneration
  <2> QED
    BY <1>2, <2>1 DEF Prepare, Typed
<1>6. ASSUME NEW failed \in BOOLEAN, SecondReadback(p, failed) PROVE work' \in [Appliers -> Works]
  <2>1. [work[p] EXCEPT !.pass = "second", !.reloadFailed = failed] \in Works
    BY <1>1 DEF Works
  <2> QED
    BY <1>2, <1>6, <2>1 DEF SecondReadback, Typed
<1>7. Seen(p) \in {"nothing", "loading", "whole"}
  BY DEF Seen
<1>8. Verified(p) => work' \in [Appliers -> Works]
  <2>1. NeedsFlush(p) \in BOOLEAN
    BY DEF NeedsFlush
  <2>2. ASSUME NEW f \in BOOLEAN, NEW e \in {"nothing", "loading", "whole"}
        PROVE  [work[p] EXCEPT !.flush = f, !.seen = e] \in Works
    BY <1>1 DEF Works
  <2>3. work[p].flush \in BOOLEAN /\ work[p].seen \in {"nothing", "loading", "whole"}
    BY <1>1 DEF Works
  <2> QED
    BY ZenonT(40), <1>2, <1>7, <2>1, <2>2, <2>3 DEF Verified, Typed
<1>9. ASSUME NEW e \in {"nothing", "loading", "whole"}, work' = [work EXCEPT ![p].seen = e]
      PROVE  work' \in [Appliers -> Works]
  <2>1. [work[p] EXCEPT !.seen = e] \in Works
    BY <1>1 DEF Works
  <2> QED
    BY <1>2, <1>9, <2>1 DEF Typed
<1>10. Deliver(p) => work' \in [Appliers -> Works]
  <2>1. [work[p] EXCEPT !.pass = "final"] \in Works
    BY <1>1 DEF Works
  <2> QED
    BY <1>1, <1>2, <2>1 DEF Deliver, Typed
<1> QED
  BY <1>3, <1>4, <1>5, <1>6, <1>7, <1>8, <1>9, <1>10
\* The ticket of an attempt names a number and a configuration.
LEMMA StampType ==
  ASSUME Typed, Lock, NEW p \in Appliers, pc[p] \notin {"idle", "snapshot"}
  PROVE  Stamp(p) \in Marks
<1>1. work[p].gen \in Nat
  BY DEF Typed, Works
<1> QED
  BY <1>1 DEF Stamp, Marks, Lock

\* A request that is sent, or half taken by the kernel, is a request of the type.
LEMMA PutTyped ==
  ASSUME Typed, Lock, NEW p \in Appliers
  PROVE  /\ SendPut(p) => put' \in [Appliers -> Puts]
         /\ KernelTakesProxies(p) \/ KernelTakesRules(p) => put' \in [Appliers -> Puts]
<1>1. SendPut(p) => put' \in [Appliers -> Puts]
  <2>1. SendPut(p) => [stage |-> "sent", stamp |-> Stamp(p)] \in Puts
    BY StampType DEF SendPut, Puts
  <2> QED
    BY <2>1 DEF SendPut, Typed
<1>2. ASSUME put[p] # Absent, NEW g \in {"half", "done"} PROVE [put[p] EXCEPT !.stage = g] \in Puts
  BY <1>2 DEF Typed, Puts
<1>3. KernelTakesProxies(p) => put' \in [Appliers -> Puts]
  BY <1>2 DEF KernelTakesProxies, Typed
<1>4. KernelTakesRules(p) => put' \in [Appliers -> Puts]
  <2>1. Absent \in Puts
    BY DEF Puts
  <2> QED
    BY <1>2, <2>1 DEF KernelTakesRules, Typed
<1> QED
  BY <1>1, <1>3, <1>4

\* What the kernel becomes by itself, by a flush or by a request keeps its type.
LEMMA KernelTyped ==
  ASSUME Typed
  PROVE  /\ ReplaceInstance \/ KernelStops \/ KernelStarts => kernel' \in Kernels
         /\ \A p \in Appliers : Flush(p) \/ FlushFails(p) => kernel' \in Kernels
         /\ \A p \in Appliers :
              KernelTakesProxies(p) \/ KernelTakesRules(p) => kernel' \in Kernels
<1>1. kernel \in Kernels /\ host \in Marks \cup {Absent} /\ boot \in Marks \cup {Absent}
  BY DEF Typed
<1>2. \A f \in BOOLEAN : [kernel EXCEPT !.fresh = f] \in Kernels
  BY <1>1 DEF Kernels
<1>3. ReplaceInstance => kernel' \in Kernels
  BY <1>2 DEF ReplaceInstance
<1>4. \A p \in Appliers : Flush(p) \/ FlushFails(p) => kernel' \in Kernels
  <2>1. (kernel.fresh \/ kernel.up) \in BOOLEAN
    OBVIOUS
  <2> QED
    BY <1>1, <1>2, <2>1 DEF Flush, FlushFails
<1>5. \A p \in Appliers : put[p] # Absent => put[p].stamp \in Marks
  BY DEF Typed, Puts
<1>6. \A p \in Appliers : KernelTakesProxies(p) \/ KernelTakesRules(p) => kernel' \in Kernels
  BY <1>1, <1>5 DEF KernelTakesProxies, KernelTakesRules, Kernels
<1>7. \A b \in Marks \cup {Absent}, u \in BOOLEAN :
        [up |-> u, proxies |-> b, rules |-> b, fresh |-> TRUE] \in Kernels
  BY DEF Kernels
<1>8. KernelStops => kernel' \in Kernels
  BY <1>7 DEF KernelStops
<1>9. KernelStarts => kernel' \in Kernels
  <2>1. KernelStarts => boot' \in Marks \cup {Absent}
    BY <1>1 DEF KernelStarts
  <2> QED
    BY <1>7, <2>1 DEF KernelStarts
<1> QED
  BY <1>3, <1>4, <1>6, <1>8, <1>9

\* Every step keeps the types: the part Typed.
LEMMA TypedStep ==
  ASSUME Typed, Lock, [ConfigNext]_configVars
  PROVE  Typed'
<1>1. ASSUME SaveRules \/ SetStatus \/ ReplaceInstance \/ ToggleRouting \/ GateChanges PROVE Typed'
  <2>1. src' \in Sourcing
    BY <1>1, SourceTyped DEF ToggleRouting, GateChanges, Typed
  <2>2. off' \in BOOLEAN /\ gated' \in BOOLEAN
    BY <1>1, Zenon DEF SaveRules, SetStatus, ReplaceInstance, ToggleRouting, GateChanges, Typed
  <2>3. kernel' \in Kernels
    BY <1>1, KernelTyped DEF SaveRules, SetStatus, ReplaceInstance, ToggleRouting, GateChanges, Typed
  <2> QED
    BY <1>1, <2>1, <2>2, <2>3
       DEF SaveRules, SetStatus, ReplaceInstance, ToggleRouting, GateChanges, files, Typed
<1>2. ASSUME NEW p \in Appliers, NEW l \in Labels, Goto(p, l) PROVE pc' \in [Appliers -> Labels]
  BY <1>2 DEF Goto, Typed
<1> USE DEF Labels
<1>3. ASSUME NEW p \in Appliers, BeginAttempt(p) \/ Snapshot(p) \/ StartReadback(p) \/ GoOn(p)
      PROVE  Typed'
  <2>1. work' \in [Appliers -> Works]
    BY <1>3, WorkTyped DEF StartReadback, GoOn, Typed
  <2>2. lock' \in Appliers \cup {Nobody} /\ pc' \in [Appliers -> Labels]
    BY <1>2, <1>3 DEF BeginAttempt, Snapshot, StartReadback, GoOn, Typed
  <2> QED
    BY <1>3, <2>1, <2>2 DEF BeginAttempt, Snapshot, StartReadback, GoOn, settings, files, Typed
<1>4. ASSUME NEW p \in Appliers, Prepare(p) PROVE Typed'
  <2>1. work[p].cfg \in Configs
    BY <1>4 DEF Prepare, Lock
  <2>2. row' \in Rows /\ work' \in [Appliers -> Works] /\ pc' \in [Appliers -> Labels]
    BY <1>2, <1>4, <2>1, RowTyped, WorkTyped DEF Prepare
  <2> QED
    BY <1>4, <2>2 DEF Prepare, settings, files, Typed
<1>5. ASSUME NEW p \in Appliers, PrepareRefused(p) PROVE Typed'
  <2>1. /\ lock' \in Appliers \cup {Nobody}
        /\ work' \in [Appliers -> Works] /\ pc' \in [Appliers -> Labels]
    BY <1>2, <1>5, EndTyped DEF PrepareRefused, Typed
  <2> QED
    BY <1>5, <2>1 DEF PrepareRefused, settings, files, Typed
<1>6. ASSUME NEW p \in Appliers, pc[p] \notin {"idle", "snapshot"}, NEW code \in Errors,
             FailsWith(p, code), kernel' \in Kernels, UNCHANGED <<src, off, gated, host>>,
             boot' \in Marks \cup {Absent}
      PROVE  Typed'
  BY <1>6, FailTyped DEF Typed
<1>7. ASSUME NEW p \in Appliers, Defer(p) \/ ReloadUnanswered(p) \/ WriteFails(p) PROVE Typed'
  BY <1>6, <1>7 DEF Defer, ReloadUnanswered, WriteFails, settings, files, Errors, Codes, Typed
<1>8. ASSUME NEW p \in Appliers, FlushFails(p) PROVE Typed'
  <2>1. kernel' \in Kernels
    BY <1>8, KernelTyped
  <2> QED
    BY <1>6, <1>8, <2>1 DEF FlushFails, settings, files, Errors, Codes, Typed
<1>9. ASSUME NEW p \in Appliers, DeliverFails(p) PROVE Typed'
  <2>1. boot' \in Marks \cup {Absent}
    BY <1>9, StampType DEF DeliverFails, Typed
  <2> QED
    BY <1>6, <1>9, <2>1 DEF DeliverFails, settings, Errors, Codes, Typed
<1>10. ASSUME NEW p \in Appliers, Reading(p), NEW code \in Errors, NotVerified(p, code),
              UNCHANGED <<src, off, gated, kernel, host, boot>>
       PROVE  Typed'
  <2>1. CASE FailsWith(p, code)
    BY <1>6, <1>10, <2>1 DEF Reading, Typed
  <2>2. CASE Goto(p, "put") /\ UNCHANGED <<row, lock, work, put>>
    BY <1>2, <1>10, <2>2 DEF Typed
  <2> QED
    BY <1>10, <2>1, <2>2 DEF NotVerified
<1>11. ASSUME NEW p \in Appliers, ReadProxies(p) PROVE Typed'
  <2>1. CASE NotVerified(p, MismatchCode(p))
    BY <1>10, <1>11, <2>1 DEF ReadProxies, Reading, MismatchCode, settings, files, Errors, Codes
  <2>2. CASE Goto(p, "rules") /\ UNCHANGED <<row, lock, work, put>>
    BY <1>2, <1>11, <2>2 DEF ReadProxies, settings, files, Typed
  <2> QED
    BY <1>11, <2>1, <2>2 DEF ReadProxies
<1>12. ASSUME NEW p \in Appliers, ReadRules(p) PROVE Typed'
  <2>1. CASE NotVerified(p, MismatchCode(p))
    BY <1>10, <1>12, <2>1 DEF ReadRules, Reading, MismatchCode, settings, files, Errors, Codes
  <2>2. CASE /\ Goto(p, "again") /\ work' = [work EXCEPT ![p].seen = Seen(p)]
             /\ UNCHANGED <<row, lock, put>>
    <3>1. work' \in [Appliers -> Works] /\ pc' \in [Appliers -> Labels]
      BY <1>2, <2>2, WorkTyped
    <3> QED
      BY <1>12, <2>2, <3>1 DEF ReadRules, settings, files, Typed
  <2> QED
    BY <1>12, <2>1, <2>2 DEF ReadRules
<1>13. ASSUME NEW p \in Appliers, ReadAgain(p) PROVE Typed'
  <2>1. CASE NotVerified(p, MismatchCode(p))
    BY <1>10, <1>13, <2>1 DEF ReadAgain, Reading, MismatchCode, settings, files, Errors, Codes
  <2>2. CASE Verified(p)
    <3>1. work' \in [Appliers -> Works] /\ pc' \in [Appliers -> Labels]
      BY <1>2, <2>2, WorkTyped DEF Verified
    <3> QED
      BY <1>13, <2>2, <3>1 DEF ReadAgain, Verified, settings, files, Typed
  <2> QED
    BY <1>13, <2>1, <2>2 DEF ReadAgain
<1>14. ASSUME NEW p \in Appliers, ReadFails(p) PROVE Typed'
  BY <1>10, <1>14 DEF ReadFails, Reading, settings, files, Errors, Codes
<1>15. ASSUME NEW p \in Appliers, SendPut(p) PROVE Typed'
  <2>1. put' \in [Appliers -> Puts] /\ pc' \in [Appliers -> Labels]
    BY <1>2, <1>15, PutTyped DEF SendPut
  <2> QED
    BY <1>15, <2>1 DEF SendPut, settings, files, Typed
<1>16. ASSUME NEW p \in Appliers, PutAnswered(p) \/ PutFails(p) PROVE Typed'
  <2>1. work' \in [Appliers -> Works] /\ pc' \in [Appliers -> Labels]
    BY <1>2, <1>16, WorkTyped DEF PutAnswered, PutFails, SecondReadback
  <2>2. put' \in [Appliers -> Puts]
    BY <1>16, ForgetTyped DEF PutAnswered, PutFails, Typed, Puts
  <2> QED
    BY <1>16, <2>1, <2>2 DEF PutAnswered, PutFails, settings, files, Typed
<1>17. ASSUME NEW p \in Appliers, Observe(p) PROVE Typed'
  <2>1. row' \in Rows
    BY <1>17, RowTyped DEF Observe, Lock
  <2>2. /\ lock' \in Appliers \cup {Nobody}
        /\ work' \in [Appliers -> Works] /\ pc' \in [Appliers -> Labels]
    BY <1>2, <1>17, EndTyped DEF Observe, Typed
  <2> QED
    BY <1>17, <2>1, <2>2 DEF Observe, settings, files, Typed
<1>18. ASSUME NEW p \in Appliers, Confirm(p) PROVE Typed'
  <2>1. row' \in Rows
    BY <1>18, RowTyped DEF Confirm, Lock
  <2>2. /\ lock' \in Appliers \cup {Nobody}
        /\ work' \in [Appliers -> Works] /\ pc' \in [Appliers -> Labels]
    BY <1>18, EndTyped DEF Confirm
  <2> QED
    BY <1>18, <2>1, <2>2 DEF Confirm, settings, files, Typed
<1>19. ASSUME NEW p \in Appliers, Flush(p) PROVE Typed'
  <2>1. kernel' \in Kernels /\ pc' \in [Appliers -> Labels]
    BY <1>2, <1>19, KernelTyped DEF Flush
  <2> QED
    BY <1>19, <2>1 DEF Flush, settings, files, Typed
<1>20. ASSUME NEW p \in Appliers, WriteHost(p) PROVE Typed'
  <2>1. host' \in Marks \cup {Absent} /\ pc' \in [Appliers -> Labels]
    BY <1>2, <1>20, StampType DEF WriteHost, Typed
  <2> QED
    BY <1>20, <2>1 DEF WriteHost, settings, Typed
<1>21. ASSUME NEW p \in Appliers, Deliver(p) PROVE Typed'
  <2>1. boot' \in Marks \cup {Absent} /\ pc' \in [Appliers -> Labels]
    BY <1>2, <1>21, StampType DEF Deliver, Typed
  <2>2. work' \in [Appliers -> Works]
    BY <1>21, WorkTyped
  <2> QED
    BY <1>21, <2>1, <2>2 DEF Deliver, settings, Typed
<1>22. ASSUME NEW p \in Appliers, Dies(p) PROVE Typed'
  <2>1. /\ lock' \in Appliers \cup {Nobody} /\ put' \in [Appliers -> Puts]
        /\ work' \in [Appliers -> Works] /\ pc' \in [Appliers -> Labels]
    BY <1>22, EndTyped, ForgetTyped DEF Dies
  <2> QED
    BY <1>22, <2>1 DEF Dies, settings, files, Typed
<1>23. ASSUME NEW p \in Appliers, KernelTakesProxies(p) \/ KernelTakesRules(p) PROVE Typed'
  <2>1. put' \in [Appliers -> Puts] /\ kernel' \in Kernels
    BY <1>23, PutTyped, KernelTyped
  <2> QED
    BY <1>23, <2>1 DEF KernelTakesProxies, KernelTakesRules, settings, files, Typed
<1>24. CASE KernelStops
  <2>1. put' \in [Appliers -> Puts] /\ kernel' \in Kernels
    BY <1>24, KernelTyped DEF KernelStops, Puts
  <2> QED
    BY <1>24, <2>1 DEF KernelStops, settings, files, Typed
<1>25. CASE KernelStarts
  <2>1. boot' \in Marks \cup {Absent} /\ kernel' \in Kernels
    BY <1>25, KernelTyped DEF KernelStarts, Typed
  <2> QED
    BY <1>25, <2>1 DEF KernelStarts, settings, Typed
<1>26. CASE UNCHANGED configVars
  BY <1>26 DEF configVars, settings, files, Typed
<1> QED
  BY <1>1, <1>3, <1>4, <1>5, <1>7, <1>8, <1>9, <1>11, <1>12, <1>13, <1>14, <1>15, <1>16, <1>17,
     <1>18, <1>19, <1>20, <1>21, <1>22, <1>23, <1>24, <1>25, <1>26
     DEF ConfigNext, AttemptStep, KernelStep

-----------------------------------------------------------------------------
\* The lock: an attempt that ends gives it back, one that goes on keeps it, and
\* nobody else moves meanwhile.
Fits(label, w) ==
  /\ label \in {"snapshot", "prepare", "prepared", "put", "putting"} => w.pass = "first"
  /\ label \in {"observe", "observed", "flush", "write", "deliver"} => w.pass # "final"
  /\ label # "snapshot" => w.cfg \in Configs

\* The end of an attempt frees the lock for everybody.
LEMMA LockEnd ==
  ASSUME Typed, Lock, NEW p \in Appliers, AttemptEnds(p), Working(p)
  PROVE  Lock'
<1>1. lock = p /\ p # Nobody
  BY ConfigAssumption DEF Lock
<1>2. \A q \in Appliers : pc'[q] = "idle"
  BY <1>1 DEF Lock, Working, AttemptEnds, Goto, Typed
<1>3. lock' = Nobody
  BY <1>1 DEF AttemptEnds
<1> QED
  BY <1>2, <1>3, ConfigAssumption DEF Lock, Working

\* An attempt that goes on keeps the lock and fits its new label.
LEMMA LockGoes ==
  ASSUME Typed, Lock, NEW p \in Appliers, NEW label \in Labels \ {"idle"}, Goto(p, label),
         NEW w, work' = [work EXCEPT ![p] = w], Fits(label, w), Working(p), lock' = lock
  PROVE  Lock'
BY SMTT(30) DEF Typed, Lock, Goto, Fits, Working

\* Every step keeps the exclusion of attempts: the part Lock.
LEMMA LockStep ==
  ASSUME Typed, Lock, [ConfigNext]_configVars
  PROVE  Lock'
<1> USE DEF Labels
<1>1. CASE UNCHANGED <<pc, work, lock>>
  BY <1>1 DEF Lock, Working
<1>2. ASSUME NEW p \in Appliers, BeginAttempt(p) PROVE Lock'
  BY <1>2, ConfigAssumption DEF BeginAttempt, LockFree, Goto, NoJob, Lock, Working, Typed
<1>3. ASSUME NEW p \in Appliers, Working(p), AttemptEnds(p) PROVE Lock'
  BY <1>3, LockEnd
<1>4. ASSUME NEW p \in Appliers, Working(p), NEW label \in Labels \ {"idle"}, Goto(p, label),
             UNCHANGED <<work, lock>>, Fits(label, work[p])
      PROVE  Lock'
  <2>1. work' = [work EXCEPT ![p] = work[p]]
    BY <1>4 DEF Typed
  <2> QED
    BY <1>4, <2>1, LockGoes
<1>5. ASSUME NEW p \in Appliers, Snapshot(p) PROVE Lock'
  <2> DEFINE w == [work[p] EXCEPT !.rev = src.rev,
                     !.cfg = Render(src.content, src.status, work[p].off, gated)]
  <2>1. work' = [work EXCEPT ![p] = w] /\ work[p].off \in BOOLEAN /\ work[p] \in Works
    BY <1>5 DEF Snapshot, Typed, Works
  <2>2. w.cfg \in Configs /\ w.pass = work[p].pass
    BY <2>1, RenderType DEF Typed, Sourcing, Works
  <2>3. Fits("prepare", w)
    BY <1>5, <2>2 DEF Fits, Lock, Snapshot
  <2> HIDE DEF w
  <2> QED
    BY <1>5, <2>1, <2>3, LockGoes DEF Snapshot, Working
<1>6. ASSUME NEW p \in Appliers, Prepare(p) PROVE Lock'
  <2> DEFINE w == [work[p] EXCEPT !.gen = NextGeneration(work[p].cfg)]
  <2>1. work' = [work EXCEPT ![p] = w] /\ work[p] \in Works
    BY <1>6 DEF Prepare, Typed
  <2>2. Fits("prepared", w)
    BY <1>6, <2>1 DEF Fits, Lock, Prepare, Works
  <2> HIDE DEF w
  <2> QED
    BY <1>6, <2>1, <2>2, LockGoes DEF Prepare, Working
<1>7. ASSUME NEW p \in Appliers, PrepareRefused(p) PROVE Lock'
  <2>1. Working(p)
    BY <1>7 DEF PrepareRefused, Working
  <2>2. Fits("snapshot", work[p])
    BY <1>7 DEF Fits, Lock, PrepareRefused
  <2> QED
    BY <1>3, <1>4, <1>7, <2>1, <2>2 DEF PrepareRefused
<1>8. ASSUME NEW p \in Appliers,
             Defer(p) \/ ReloadUnanswered(p) \/ FlushFails(p) \/ WriteFails(p) \/ DeliverFails(p)
               \/ Confirm(p) \/ Dies(p)
      PROVE  Lock'
  BY <1>3, <1>8 DEF Defer, ReloadUnanswered, FlushFails, WriteFails, DeliverFails, FailsWith,
     Confirm, Dies, Working
<1>9. ASSUME NEW p \in Appliers, StartReadback(p) \/ SendPut(p) \/ GoOn(p) \/ Flush(p) \/ WriteHost(p)
      PROVE  Lock'
  BY <1>4, <1>9 DEF StartReadback, SendPut, GoOn, Flush, WriteHost, Fits, Working, Lock
<1>10. ASSUME NEW p \in Appliers, Reading(p), NEW code, NotVerified(p, code) PROVE Lock'
  BY <1>3, <1>4, <1>10 DEF NotVerified, FailsWith, Reading, Working, Fits, Lock
<1>11. ASSUME NEW p \in Appliers, ReadProxies(p) PROVE Lock'
  BY <1>4, <1>10, <1>11 DEF ReadProxies, Reading, Working, Fits, Lock
<1>12. ASSUME NEW p \in Appliers, ReadRules(p) PROVE Lock'
  <2>1. CASE Goto(p, "again") /\ work' = [work EXCEPT ![p].seen = Seen(p)] /\ lock' = lock
    <3> DEFINE w == [work[p] EXCEPT !.seen = Seen(p)]
    <3>1. work' = [work EXCEPT ![p] = w] /\ work[p] \in Works
      BY <2>1 DEF Typed
    <3>2. Fits("again", w)
      BY <1>12, <3>1 DEF Fits, Lock, ReadRules, Works
    <3> HIDE DEF w
    <3> QED
      BY <1>12, <2>1, <3>1, <3>2, LockGoes DEF ReadRules, Working
  <2> QED
    BY <1>10, <1>12, <2>1 DEF ReadRules, Reading
<1>13. ASSUME NEW p \in Appliers, ReadAgain(p) PROVE Lock'
  <2>1. CASE Verified(p)
    <3> DEFINE f == IF work[p].pass = "first" THEN NeedsFlush(p) ELSE work[p].flush
               e == IF work[p].seen = "whole" THEN work[p].seen ELSE Seen(p)
               w == [work[p] EXCEPT !.flush = f, !.seen = e]
               l == IF work[p].pass = "final" THEN "confirm" ELSE "observe"
    <3>1. work' = [work EXCEPT ![p] = w] /\ work[p] \in Works
      BY <2>1 DEF Verified, Typed
    <3>2. w.pass = work[p].pass /\ w.cfg = work[p].cfg
      BY <3>1 DEF Works
    <3>3. Fits(l, w)
      BY <1>13, <3>2 DEF Fits, Lock, ReadAgain
    <3>4. Goto(p, l) /\ lock' = lock
      BY <2>1 DEF Verified
    <3> HIDE DEF w
    <3> QED
      BY <1>13, <3>1, <3>3, <3>4, LockGoes DEF ReadAgain, Working
  <2> QED
    BY <1>10, <1>13, <2>1 DEF ReadAgain, Reading
<1>14. ASSUME NEW p \in Appliers, ReadFails(p) PROVE Lock'
  BY <1>10, <1>14 DEF ReadFails, Reading
<1>15. ASSUME NEW p \in Appliers, PutAnswered(p) \/ PutFails(p) PROVE Lock'
  <2>1. ASSUME NEW failed, SecondReadback(p, failed), lock' = lock, pc[p] \in {"put", "putting"}
        PROVE  Lock'
    <3> DEFINE w == [work[p] EXCEPT !.pass = "second", !.reloadFailed = failed]
    <3>1. work' = [work EXCEPT ![p] = w] /\ work[p] \in Works
      BY <2>1 DEF SecondReadback, Typed
    <3>2. Fits("proxies", w)
      BY <2>1, <3>1 DEF Fits, Lock, Works
    <3> HIDE DEF w
    <3> QED
      BY <2>1, <3>1, <3>2, LockGoes DEF SecondReadback, Working
  <2> QED
    BY <1>15, <2>1 DEF PutAnswered, PutFails
<1>16. ASSUME NEW p \in Appliers, Observe(p) PROVE Lock'
  BY <1>3, <1>4, <1>16 DEF Observe, Working, Fits, Lock
<1>17. ASSUME NEW p \in Appliers, Deliver(p) PROVE Lock'
  <2>1. CASE Goto(p, "proxies") /\ work' = [work EXCEPT ![p].pass = "final"]
    <3> DEFINE w == [work[p] EXCEPT !.pass = "final"]
    <3>1. work' = [work EXCEPT ![p] = w] /\ work[p] \in Works
      BY <2>1 DEF Typed
    <3>2. Fits("proxies", w)
      BY <1>17, <3>1 DEF Fits, Lock, Works, Deliver
    <3> HIDE DEF w
    <3> QED
      BY <1>17, <2>1, <3>1, <3>2, LockGoes DEF Deliver, Working
  <2>2. CASE Goto(p, "confirm") /\ UNCHANGED work
    BY <1>4, <1>17, <2>2 DEF Deliver, Working, Fits, Lock
  <2> QED
    BY <1>17, <2>1, <2>2 DEF Deliver
<1> QED
  BY <1>1, <1>2, <1>5, <1>6, <1>7, <1>8, <1>9, <1>11, <1>12, <1>13, <1>14, <1>15, <1>16, <1>17
     DEF ConfigNext, AttemptStep, KernelStep, SaveRules, SetStatus, ReplaceInstance, ToggleRouting,
         GateChanges, KernelTakesProxies, KernelTakesRules, KernelStarts, KernelStops, configVars

-----------------------------------------------------------------------------
\* While an attempt works every other is idle; when it ends all are.
LEMMA Alone ==
  ASSUME Lock, NEW p \in Appliers, Working(p), NEW q \in Appliers, q # p
  PROVE  pc[q] = "idle"
BY DEF Lock, Working

\* With one attempt at a time, nobody works once it has ended.
LEMMA AllIdle ==
  ASSUME Typed, Lock, NEW p \in Appliers, Working(p), AttemptEnds(p)
  PROVE  \A q \in Appliers : pc'[q] = "idle" /\ work'[p] = NoJob
BY Alone DEF AttemptEnds, Goto, Typed

\* A step of an attempt that goes on without touching what its ticket names.
KeepsTicket(p) ==
  /\ work'[p].rev = work[p].rev /\ work'[p].off = work[p].off
  /\ work'[p].gen = work[p].gen /\ work'[p].cfg = work[p].cfg

\* The readbacks and what they note keep the ticket itself.
LEMMA TicketKept ==
  ASSUME Typed, NEW p \in Appliers,
         \/ UNCHANGED work \/ SecondReadback(p, TRUE) \/ SecondReadback(p, FALSE) \/ Verified(p)
         \/ work' = [work EXCEPT ![p].seen = Seen(p)] \/ work' = [work EXCEPT ![p].pass = "final"]
  PROVE  KeepsTicket(p)
<1>1. work[p] \in Works
  BY SMTT(30) DEF Typed
<1> QED
  BY <1>1 DEF Typed, Works, SecondReadback, Verified, KeepsTicket

\* Nobody changes the journal under an attempt that holds a ticket: the part Current.
LEMMA CurrentStep ==
  ASSUME Typed, Lock, Current, [ConfigNext]_configVars
  PROVE  Current'
<1>1. CASE UNCHANGED <<pc, row, work>>
  BY <1>1 DEF Current, Prepared, TicketIsCurrent
<1>2. ASSUME NEW p \in Appliers, Working(p), AttemptEnds(p) PROVE Current'
  BY <1>2, AllIdle DEF Current, Prepared
<1>3. ASSUME NEW p \in Appliers, Prepared(p), KeepsTicket(p), row' = row,
             NEW label \in Labels, Goto(p, label)
      PROVE  Current'
  <2>1. \A q \in Appliers \ {p} : pc'[q] = "idle"
    BY <1>3, Alone DEF Goto, Typed, Prepared, Working
  <2> QED
    BY <1>3, <2>1 DEF Current, Prepared, TicketIsCurrent, KeepsTicket
<1>4. ASSUME NEW p \in Appliers, BeginAttempt(p) \/ Snapshot(p) PROVE Current'
  <2>1. pc' = [pc EXCEPT ![p] = pc'[p]] /\ pc'[p] \in {"snapshot", "prepare"}
    BY <1>4 DEF BeginAttempt, Snapshot, Goto, Typed
  <2>2. \A q \in Appliers : ~Prepared(q)'
    BY <1>4, <2>1, Alone, ConfigAssumption
       DEF BeginAttempt, Snapshot, LockFree, Lock, Working, Prepared, Typed
  <2> QED
    BY <2>2 DEF Current
<1>5. ASSUME NEW p \in Appliers, Prepare(p) PROVE Current'
  <2>1. \A q \in Appliers \ {p} : pc'[q] = "idle"
    BY <1>5, Alone DEF Goto, Typed, Prepare, Working
  <2>2. work[p] \in Works /\ row \in Rows
    BY DEF Typed
  <2>3. /\ work'[p].rev = work[p].rev /\ work'[p].off = work[p].off
        /\ work'[p].cfg = work[p].cfg /\ work'[p].gen = NextGeneration(work[p].cfg)
    BY <1>5, <2>2 DEF Prepare, Typed, Works
  <2>4. /\ row'.rev = work[p].rev /\ row'.off = work[p].off /\ row'.hash = work[p].cfg
        /\ row'.gen = NextGeneration(work[p].cfg) /\ row'.attempt = p /\ row'.err = "unconfirmed"
    BY <1>5, <2>2 DEF Prepare, Rows, DesiredOff
  <2>5. "unconfirmed" # Absent
    BY AbsentAssumption DEF Codes
  <2> QED
    BY <2>1, <2>3, <2>4, <2>5 DEF Current, TicketIsCurrent, Prepared
<1>6. ASSUME NEW p \in Appliers, PrepareRefused(p) PROVE Current'
  <2>1. CASE AttemptEnds(p)
    BY <1>2, <1>6, <2>1 DEF PrepareRefused, Working
  <2>2. CASE Goto(p, "snapshot") /\ UNCHANGED work
    <3>1. \A q \in Appliers : ~Prepared(q)'
      BY <1>6, <2>2, Alone DEF PrepareRefused, Goto, Typed, Prepared, Working
    <3> QED
      BY <3>1 DEF Current
  <2> QED
    BY <1>6, <2>1, <2>2 DEF PrepareRefused
<1>7. ASSUME NEW p \in Appliers,
             Defer(p) \/ ReloadUnanswered(p) \/ FlushFails(p) \/ WriteFails(p) \/ DeliverFails(p)
               \/ Confirm(p) \/ Dies(p)
      PROVE  Current'
  BY <1>2, <1>7 DEF Defer, ReloadUnanswered, FlushFails, WriteFails, DeliverFails, FailsWith,
     Confirm, Dies, Working
<1> USE DEF Labels
<1>8. ASSUME NEW p \in Appliers, StartReadback(p) \/ SendPut(p) \/ GoOn(p) \/ Flush(p) \/ WriteHost(p)
      PROVE  Current'
  BY <1>3, <1>8, TicketKept DEF StartReadback, SendPut, GoOn, Flush, WriteHost, Prepared
<1>9. ASSUME NEW p \in Appliers, Reading(p), NEW code, NotVerified(p, code) PROVE Current'
  BY <1>2, <1>3, <1>9, TicketKept DEF NotVerified, FailsWith, Reading, Prepared, Working
<1>10. ASSUME NEW p \in Appliers,
              ReadProxies(p) \/ ReadRules(p) \/ ReadAgain(p) \/ ReadFails(p)
       PROVE  Current'
  <2>1. Reading(p) /\ Prepared(p)
    BY <1>10 DEF ReadProxies, ReadRules, ReadAgain, ReadFails, Reading, Prepared
  <2>2. CASE \E code \in Errors : NotVerified(p, code)
    BY <1>9, <2>1, <2>2
  <2>3. CASE Goto(p, "rules") /\ UNCHANGED <<row, work>>
    BY <1>3, <2>1, <2>3, TicketKept
  <2>4. CASE Goto(p, "again") /\ row' = row /\ work' = [work EXCEPT ![p].seen = Seen(p)]
    BY <1>3, <2>1, <2>4, TicketKept
  <2>5. CASE Verified(p)
    BY <1>3, <2>1, <2>5, TicketKept DEF Verified
  <2> QED
    BY <1>10, <2>2, <2>3, <2>4, <2>5
       DEF ReadProxies, ReadRules, ReadAgain, ReadFails, MismatchCode, Errors, Codes
<1>11. ASSUME NEW p \in Appliers, PutAnswered(p) \/ PutFails(p) PROVE Current'
  BY <1>3, <1>11, TicketKept DEF PutAnswered, PutFails, SecondReadback, Prepared
<1>12. ASSUME NEW p \in Appliers, Observe(p) PROVE Current'
  <2>1. CASE AttemptEnds(p)
    BY <1>2, <1>12, <2>1 DEF Observe, Working
  <2>2. CASE /\ TicketIsCurrent(p) /\ UNCHANGED work /\ Goto(p, "observed")
             /\ row' = [row EXCEPT !.appGen = row.gen, !.appHash = row.hash,
                                   !.verified = TRUE, !.err = "unconfirmed"]
    <3>1. \A q \in Appliers \ {p} : pc'[q] = "idle"
      BY <1>12, <2>2, Alone DEF Goto, Typed, Observe, Working
    <3>2. /\ row'.rev = row.rev /\ row'.off = row.off /\ row'.hash = row.hash
          /\ row'.gen = row.gen /\ row'.attempt = row.attempt /\ row'.err = "unconfirmed"
      BY <2>2 DEF Typed, Rows
    <3>3. "unconfirmed" # Absent
      BY AbsentAssumption DEF Codes
    <3> QED
      BY <2>2, <3>1, <3>2, <3>3 DEF Current, TicketIsCurrent, Prepared
  <2> QED
    BY <1>12, <2>1, <2>2 DEF Observe
<1>13. ASSUME NEW p \in Appliers, Deliver(p) PROVE Current'
  BY <1>3, <1>13, TicketKept DEF Deliver, Prepared
<1> QED
  BY <1>1, <1>4, <1>5, <1>6, <1>7, <1>8, <1>10, <1>11, <1>12, <1>13
     DEF ConfigNext, AttemptStep, KernelStep, SaveRules, SetStatus, ReplaceInstance, ToggleRouting,
         GateChanges, KernelTakesProxies, KernelTakesRules, KernelStarts, KernelStops, configVars

-----------------------------------------------------------------------------
\* What the kernel is loading.  An attempt that moves may at most forget a request
\* of its own that the kernel is not in the middle of.
KernelSame ==
  kernel'.up = kernel.up /\ kernel'.proxies = kernel.proxies /\ kernel'.rules = kernel.rules
PutsKept(p) == put' = put \/ (~Half(p) /\ put' = [put EXCEPT ![p] = Absent])

\* A step that leaves the kernel and everybody else's requests alone keeps Requests.
LEMMA RequestsKept ==
  ASSUME Typed, Requests, NEW p \in Appliers, KernelSame, PutsKept(p),
         \A q \in Appliers \ {p} : pc'[q] = pc[q] /\ work'[q] = work[q],
         Sending(p)' => put'[p] = Absent,
         ~Late => (put'[p] # Absent => pc'[p] = "putting")
  PROVE  Requests'
<1>1. \A q \in Appliers : put'[q] # Absent => put'[q] = put[q]
  BY DEF PutsKept, Typed
<1>2. \A q \in Appliers : Half(q)' <=> Half(q)
  BY DEF PutsKept, Half, Typed
<1>3. \A q \in Appliers \ {p} : put'[q] = put[q] /\ (Sending(q)' <=> Sending(q))
  BY DEF PutsKept, Typed, Sending, Reading
<1>4. \A q \in Appliers : Half(q)' => kernel'.up /\ kernel'.proxies = put'[q].stamp
  BY <1>1, <1>2 DEF Requests, KernelSame, Half
<1>5. kernel'.proxies = kernel'.rules \/ \E q \in Appliers : Half(q)'
  BY <1>2 DEF Requests, KernelSame
<1>6. \A q \in Appliers : put'[q] # Absent => kernel'.up
  BY <1>1 DEF Requests, KernelSame
<1>7. \A q \in Appliers : Sending(q)' => put'[q] = Absent
  BY <1>3 DEF Requests
<1>8. ~Late => \A q \in Appliers : put'[q] # Absent => pc'[q] = "putting"
  BY <1>3 DEF Requests
<1> QED
  BY <1>2, <1>4, <1>5, <1>6, <1>7, <1>8 DEF Requests

\* An attempt that ends, cancelled or with an error.
LEMMA RequestsEnd ==
  ASSUME Typed, Requests, NEW p \in Appliers, KernelSame, AttemptEnds(p), Working(p),
         \/ put' = put /\ pc[p] # "putting"
         \/ Forget(p) /\ (put[p] # Absent => Late \/ put[p].stage # "half")
  PROVE  Requests'
<1>1. /\ pc'[p] = "idle"
      /\ \A q \in Appliers \ {p} : pc'[q] = pc[q] /\ work'[q] = work[q]
  BY DEF AttemptEnds, Goto, Typed
<1>2. PutsKept(p) /\ (~Late => put'[p] = Absent)
  BY DEF Forget, PutsKept, Half, Typed, Requests
<1> QED
  BY <1>1, <1>2, RequestsKept DEF Sending, Reading

\* A failure before a request is sent keeps Requests.
LEMMA RequestsFail ==
  ASSUME Typed, Requests, NEW p \in Appliers, KernelSame, NEW code, FailsWith(p, code), Working(p),
         pc[p] # "putting"
  PROVE  Requests'
<1>1. put[p] # Absent => Late
  BY DEF Requests
<1> QED
  BY <1>1, RequestsEnd DEF FailsWith

\* An attempt that goes on with nothing sent, or leaves what is late behind.
LEMMA RequestsGoOn ==
  ASSUME Typed, Requests, NEW p \in Appliers, KernelSame, put' = put, pc[p] # "putting",
         NEW label \in Labels, Goto(p, label),
         NEW w, work' = [work EXCEPT ![p] = w],
         \/ put[p] = Absent
         \/ /\ label \notin {"snapshot", "prepare", "prepared", "put"}
            /\ label \in {"proxies", "rules", "again"} => w.pass # "first"
  PROVE  Requests'
<1>1. \A q \in Appliers \ {p} : pc'[q] = pc[q] /\ work'[q] = work[q]
  BY DEF Goto, Typed
<1>2. pc'[p] = label /\ work'[p] = w
  BY DEF Goto, Typed
<1>3. ~Late => put[p] = Absent
  BY DEF Requests
<1> QED
  BY <1>1, <1>2, <1>3, RequestsKept DEF PutsKept, Sending, Reading

\* The kernel takes one half of a request and then the other: never two mixed.
LEMMA RequestsTaken ==
  ASSUME Typed, Requests, NEW p \in Appliers
  PROVE  KernelTakesProxies(p) \/ KernelTakesRules(p) => Requests'
<1>1. ASSUME KernelTakesProxies(p) PROVE Requests'
  <2>1. put[p] \in Puts /\ put[p] # Absent /\ kernel \in Kernels
    BY <1>1 DEF KernelTakesProxies, Typed
  <2>2. /\ put'[p] = [put[p] EXCEPT !.stage = "half"]
        /\ \A q \in Appliers \ {p} : put'[q] = put[q] /\ ~Half(q)
    BY <1>1 DEF KernelTakesProxies, Typed, Half
  <2>3. put'[p].stage = "half" /\ put'[p].stamp = put[p].stamp /\ put'[p] # Absent
    BY <2>1, <2>2, AbsentAssumption DEF Puts, Marks
  <2>4. kernel'.up = kernel.up /\ kernel'.proxies = put[p].stamp
    BY <1>1, <2>1 DEF KernelTakesProxies, Kernels
  <2>5. /\ Half(p)' /\ (\A q \in Appliers \ {p} : ~Half(q)') /\ kernel.up
        /\ \A q \in Appliers : Sending(q)' <=> Sending(q)
    BY <1>1, <2>1, <2>2, <2>3 DEF Half, Requests, KernelTakesProxies, Sending, Reading
  <2> QED
    BY <1>1, <2>1, <2>2, <2>3, <2>4, <2>5 DEF Requests, KernelTakesProxies
<1>2. ASSUME KernelTakesRules(p) PROVE Requests'
  <2>1. put[p] \in Puts /\ put[p] # Absent /\ kernel \in Kernels /\ Half(p)
    BY <1>2 DEF KernelTakesRules, Typed, Half
  <2>2. /\ put'[p] = Absent \/ (pc[p] = "putting" /\ put'[p].stage = "done" /\ put'[p] # Absent)
        /\ \A q \in Appliers \ {p} : put'[q] = put[q] /\ ~Half(q)
    BY <1>2, <2>1, AbsentAssumption DEF KernelTakesRules, Typed, Requests, Puts, Marks
  <2>3. kernel'.up = kernel.up /\ kernel'.proxies = kernel.proxies /\ kernel'.rules = put[p].stamp
    BY <1>2, <2>1 DEF KernelTakesRules, Kernels
  <2>4. kernel.proxies = put[p].stamp /\ kernel.up
    BY <2>1 DEF Requests
  <2>5. /\ \A q \in Appliers : ~Half(q)'
        /\ \A q \in Appliers : Sending(q)' <=> Sending(q)
    BY <1>2, <2>2 DEF Half, KernelTakesRules, Sending, Reading
  <2> QED
    BY <1>2, <2>1, <2>2, <2>3, <2>4, <2>5 DEF Requests, KernelTakesRules
<1> QED
  BY <1>1, <1>2

\* Every step keeps what the kernel is loading: the part Requests.
LEMMA RequestsStep ==
  ASSUME Typed, Lock, Requests, [ConfigNext]_configVars
  PROVE  Requests'
<1> USE DEF Labels
<1>1. CASE UNCHANGED <<pc, work, put>> /\ KernelSame
  BY <1>1 DEF Requests, Half, Sending, Reading, KernelSame
<1>2. (\A f \in BOOLEAN : kernel' = [kernel EXCEPT !.fresh = f] => KernelSame)
      /\ (kernel' = kernel => KernelSame)
  BY DEF KernelSame, Typed, Kernels
<1>3. ASSUME NEW p \in Appliers, kernel' = kernel, put' = put, UNCHANGED work, pc[p] # "putting",
             NEW label \in Labels, Goto(p, label),
             put[p] = Absent
               \/ label \notin {"snapshot", "prepare", "prepared", "put", "proxies", "rules", "again"}
      PROVE  Requests'
  <2>1. /\ KernelSame /\ PutsKept(p) /\ pc'[p] = label /\ work'[p] = work[p]
        /\ \A q \in Appliers \ {p} : pc'[q] = pc[q] /\ work'[q] = work[q]
    BY <1>2, <1>3 DEF Typed, Goto, PutsKept
  <2>2. ~Late => put'[p] = Absent
    BY <1>3 DEF Requests
  <2>3. Sending(p)' => put'[p] = Absent
    BY <1>3, <2>1 DEF Sending, Reading
  <2> QED
    BY <2>1, <2>2, <2>3, RequestsKept
<1>4. ASSUME NEW p \in Appliers, BeginAttempt(p) PROVE Requests'
  <2>1. KernelSame /\ \E w : work' = [work EXCEPT ![p] = w]
    BY <1>2, <1>4 DEF BeginAttempt
  <2> QED
    BY <1>4, <2>1, RequestsGoOn DEF BeginAttempt
<1>5. ASSUME NEW p \in Appliers, Snapshot(p) PROVE Requests'
  <2>1. KernelSame /\ \E w : work' = [work EXCEPT ![p] = w]
    BY <1>2, <1>5 DEF Snapshot, Typed
  <2>2. put[p] = Absent
    BY <1>5 DEF Snapshot, Requests, Sending
  <2> QED
    BY <1>5, <2>1, <2>2, RequestsGoOn DEF Snapshot
<1>6. ASSUME NEW p \in Appliers, Prepare(p) PROVE Requests'
  <2>1. KernelSame /\ \E w : work' = [work EXCEPT ![p] = w]
    BY <1>2, <1>6 DEF Prepare, Typed
  <2>2. put[p] = Absent
    BY <1>6 DEF Prepare, Requests, Sending
  <2> QED
    BY <1>6, <2>1, <2>2, RequestsGoOn DEF Prepare
<1>7. ASSUME NEW p \in Appliers, PrepareRefused(p) PROVE Requests'
  <2>1. put[p] = Absent /\ KernelSame
    BY <1>2, <1>7 DEF PrepareRefused, Requests, Sending
  <2>2. CASE AttemptEnds(p)
    BY <1>7, <2>1, <2>2, RequestsEnd DEF PrepareRefused, Working
  <2> QED
    BY <1>3, <1>7, <2>1, <2>2 DEF PrepareRefused
<1>8. ASSUME NEW p \in Appliers, Defer(p) \/ ReloadUnanswered(p) \/ WriteFails(p) \/ DeliverFails(p)
      PROVE  Requests'
  BY <1>2, <1>8, RequestsFail DEF Defer, ReloadUnanswered, WriteFails, DeliverFails, Working
<1>9. ASSUME NEW p \in Appliers, FlushFails(p) PROVE Requests'
  <2>1. (kernel.fresh \/ kernel.up) \in BOOLEAN
    OBVIOUS
  <2>2. KernelSame
    BY <1>2, <1>9, <2>1 DEF FlushFails
  <2> QED
    BY <1>9, <2>2, RequestsFail DEF FlushFails, Working
<1>10. ASSUME NEW p \in Appliers, Confirm(p) \/ Dies(p) PROVE Requests'
  BY <1>2, <1>10, RequestsEnd DEF Confirm, Dies, Working
<1>11. ASSUME NEW p \in Appliers, StartReadback(p) \/ GoOn(p) \/ WriteHost(p) PROVE Requests'
  <2>1. pc[p] = "prepared" => put[p] = Absent
    BY DEF Requests, Sending
  <2> QED
    BY <1>3, <1>11, <2>1 DEF StartReadback, GoOn, WriteHost
<1>12. ASSUME NEW p \in Appliers, Flush(p) PROVE Requests'
  <2>1. KernelSame
    BY <1>2, <1>12 DEF Flush
  <2>2. work' = [work EXCEPT ![p] = work[p]]
    BY <1>12 DEF Flush, Typed
  <2> QED
    BY <1>12, <2>1, <2>2, RequestsGoOn DEF Flush
<1>13. ASSUME NEW p \in Appliers, Reading(p), kernel' = kernel, NEW code, NotVerified(p, code)
       PROVE  Requests'
  <2>1. CASE FailsWith(p, code)
    BY <1>2, <1>13, <2>1, RequestsFail DEF Reading, Working
  <2>2. CASE work[p].pass = "first" /\ Goto(p, "put") /\ UNCHANGED <<row, lock, work, put>>
    <3>1. put[p] = Absent /\ pc[p] # "putting"
      BY <1>13, <2>2 DEF Requests, Sending, Reading
    <3> QED
      BY <1>3, <1>13, <2>2, <3>1
  <2> QED
    BY <1>13, <2>1, <2>2 DEF NotVerified
<1>14. ASSUME NEW p \in Appliers, Reading(p), kernel' = kernel, put' = put,
              NEW label \in {"rules", "again", "observe", "confirm"}, Goto(p, label),
              NEW w, work' = [work EXCEPT ![p] = w], w.pass = work[p].pass
       PROVE  Requests'
  <2>1. put[p] = Absent \/ (label \in {"rules", "again"} => w.pass # "first")
    BY <1>14 DEF Requests, Sending
  <2>2. KernelSame /\ pc[p] # "putting"
    BY <1>2, <1>14 DEF Reading
  <2> QED
    BY <1>14, <2>1, <2>2, RequestsGoOn
<1>15. ASSUME NEW p \in Appliers, ReadProxies(p) PROVE Requests'
  <2>1. CASE Goto(p, "rules") /\ UNCHANGED <<row, lock, work, put>>
    <3>1. work' = [work EXCEPT ![p] = work[p]]
      BY <2>1 DEF Typed
    <3> QED
      BY <1>14, <1>15, <2>1, <3>1 DEF ReadProxies, Reading
  <2> QED
    BY <1>13, <1>15, <2>1 DEF ReadProxies, Reading
<1>16. ASSUME NEW p \in Appliers, ReadRules(p) PROVE Requests'
  <2>1. CASE Goto(p, "again") /\ work' = [work EXCEPT ![p].seen = Seen(p)] /\ put' = put
    <3> DEFINE w == [work[p] EXCEPT !.seen = Seen(p)]
    <3>1. work' = [work EXCEPT ![p] = w] /\ w.pass = work[p].pass
      BY <2>1 DEF Typed, Works
    <3> HIDE DEF w
    <3> QED
      BY <1>14, <1>16, <2>1, <3>1 DEF ReadRules, Reading
  <2> QED
    BY <1>13, <1>16, <2>1 DEF ReadRules, Reading
<1>17. ASSUME NEW p \in Appliers, ReadAgain(p) PROVE Requests'
  <2>1. CASE Verified(p)
    <3> DEFINE f == IF work[p].pass = "first" THEN NeedsFlush(p) ELSE work[p].flush
               e == IF work[p].seen = "whole" THEN work[p].seen ELSE Seen(p)
               w == [work[p] EXCEPT !.flush = f, !.seen = e]
               l == IF work[p].pass = "final" THEN "confirm" ELSE "observe"
    <3>1. work' = [work EXCEPT ![p] = w] /\ w.pass = work[p].pass
      BY <2>1 DEF Verified, Typed, Works
    <3>2. Goto(p, l) /\ put' = put /\ l \in {"observe", "confirm"}
      BY <2>1 DEF Verified
    <3> HIDE DEF w, l
    <3> QED
      BY <1>14, <1>17, <3>1, <3>2 DEF ReadAgain, Reading
  <2> QED
    BY <1>13, <1>17, <2>1 DEF ReadAgain, Reading
<1>18. ASSUME NEW p \in Appliers, ReadFails(p) PROVE Requests'
  BY <1>13, <1>18 DEF ReadFails, Reading
<1>19. ASSUME NEW p \in Appliers, SendPut(p) PROVE Requests'
  <2>1. put[p] = Absent /\ KernelSame
    BY <1>2, <1>19 DEF SendPut, Requests, Sending
  <2>2. put'[p] # Absent /\ put'[p].stage = "sent" /\ pc'[p] = "putting" /\ kernel'.up
        /\ \A q \in Appliers \ {p} : put'[q] = put[q] /\ pc'[q] = pc[q]
    <3>1. [stage |-> "sent", stamp |-> Stamp(p)] # Absent
      BY <1>19, StampType, AbsentAssumption DEF SendPut, Marks
    <3> QED
      BY <1>19, <3>1 DEF SendPut, Goto, Typed
  <2>3. \A q \in Appliers : (Half(q)' <=> Half(q)) /\ (q # p => (Sending(q)' <=> Sending(q)))
    BY <1>19, <2>1, <2>2 DEF Half, Sending, Reading, SendPut
  <2>4. ~Sending(p)' /\ ~Half(p)
    BY <2>1, <2>2 DEF Sending, Reading, Half
  <2> QED
    BY <2>1, <2>2, <2>3, <2>4 DEF Requests, KernelSame
<1>20. ASSUME NEW p \in Appliers, NEW failed, SecondReadback(p, failed), kernel' = kernel,
              PutsKept(p), ~Late => put'[p] = Absent
       PROVE  Requests'
  <2>1. /\ pc'[p] = "proxies" /\ work'[p].pass = "second"
        /\ \A q \in Appliers \ {p} : pc'[q] = pc[q] /\ work'[q] = work[q]
    BY <1>20 DEF SecondReadback, Goto, Typed, Works
  <2>2. ~Sending(p)' /\ KernelSame
    BY <1>2, <1>20, <2>1 DEF Sending, Reading
  <2> QED
    BY <1>20, <2>1, <2>2, RequestsKept
<1>21. ASSUME NEW p \in Appliers, PutAnswered(p) PROVE Requests'
  <2>1. PutsKept(p) /\ put'[p] = Absent
    BY <1>21 DEF PutAnswered, PutsKept, Half, Typed
  <2> QED
    BY <1>20, <1>21, <2>1 DEF PutAnswered
<1>22. ASSUME NEW p \in Appliers, PutFails(p) PROVE Requests'
  <2>1. PutsKept(p) /\ (~Late => put'[p] = Absent)
    BY <1>22 DEF PutFails, PutsKept, Half, Forget, Typed, Requests, Sending
  <2> QED
    BY <1>20, <1>22, <2>1 DEF PutFails
<1>23. ASSUME NEW p \in Appliers, Observe(p) PROVE Requests'
  <2>1. KernelSame
    BY <1>2, <1>23 DEF Observe
  <2> QED
    BY <1>3, <1>23, <2>1, RequestsEnd DEF Observe, Working
<1>24. ASSUME NEW p \in Appliers, Deliver(p) PROVE Requests'
  <2>1. CASE Goto(p, "proxies") /\ work' = [work EXCEPT ![p].pass = "final"]
    <3> DEFINE w == [work[p] EXCEPT !.pass = "final"]
    <3>1. work' = [work EXCEPT ![p] = w] /\ w.pass = "final" /\ KernelSame
      BY <1>2, <1>24, <2>1 DEF Typed, Works, Deliver
    <3> HIDE DEF w
    <3> QED
      BY <1>24, <2>1, <3>1, RequestsGoOn DEF Deliver
  <2> QED
    BY <1>3, <1>24, <2>1 DEF Deliver
<1>25. CASE KernelStops
  <2>1. /\ \A q \in Appliers : put'[q] = Absent
        /\ kernel'.proxies = kernel'.rules
    BY <1>25 DEF KernelStops
  <2> QED
    BY <2>1 DEF Requests, Half
<1>26. CASE KernelStarts
  <2>1. /\ \A q \in Appliers : put[q] = Absent /\ put'[q] = put[q]
        /\ kernel'.proxies = kernel'.rules
    BY <1>26 DEF KernelStarts, Requests
  <2> QED
    BY <2>1 DEF Requests, Half
<1>27. ASSUME SaveRules \/ SetStatus \/ ReplaceInstance \/ ToggleRouting \/ GateChanges PROVE Requests'
  BY <1>1, <1>2, <1>27 DEF SaveRules, SetStatus, ReplaceInstance, ToggleRouting, GateChanges
<1>28. CASE UNCHANGED configVars
  BY <1>1, <1>2, <1>28 DEF configVars
<1> QED
  BY <1>4, <1>5, <1>6, <1>7, <1>8, <1>9, <1>10, <1>11, <1>12, <1>15, <1>16, <1>17, <1>18, <1>19,
     <1>21, <1>22, <1>23, <1>24, <1>25, <1>26, <1>27, <1>28, RequestsTaken
     DEF ConfigNext, AttemptStep, KernelStep

-----------------------------------------------------------------------------
\* A last reading that matches: the two halves of the kernel are of one version, or
\* it is loading the very version whose proxies it has.
LEMMA ReadingIsTrue ==
  ASSUME Typed, Lock, Requests, NEW p \in Appliers, pc[p] = "again", kernel.proxies = Stamp(p)
  PROVE  Seen(p) # "nothing"
<1>1. Stamp(p) # Absent /\ Stamp(p).cfg = work[p].cfg
  BY StampType, AbsentAssumption DEF Marks, Stamp
<1>2. CASE kernel.proxies = kernel.rules
  BY <1>1, <1>2 DEF Seen, Whole, RulesMatch
<1>3. CASE \E q \in Appliers : Half(q)
  <2>1. Loading(p)
    BY SMTT(30), <1>3 DEF Loading, Half, Requests
  <2> QED
    BY <2>1 DEF Seen
<1> QED
  BY <1>2, <1>3 DEF Requests

\* No step brings a readback to its end without the kernel having run the version.
LEMMA VerifiedStep ==
  ASSUME Typed, Lock, Requests, VerifiedWasRunning, [ConfigNext]_configVars
  PROVE  VerifiedWasRunning'
<1>1. CASE UNCHANGED <<pc, work>>
  BY <1>1 DEF VerifiedWasRunning, ReadBack
<1>2. ASSUME NEW p \in Appliers, NEW label, Goto(p, label),
             \A q \in Appliers \ {p} : work'[q] = work[q],
             \/ label \in {"idle", "snapshot", "prepare", "prepared", "proxies", "rules", "again",
                          "put", "putting"}
             \/ ReadBack(p) /\ work' = work
             \/ work'[p].seen # "nothing"
      PROVE  VerifiedWasRunning'
  BY <1>2 DEF Goto, Typed, VerifiedWasRunning, ReadBack
<1>3. ASSUME NEW p \in Appliers, AttemptEnds(p) PROVE VerifiedWasRunning'
  BY <1>2, <1>3 DEF AttemptEnds, Typed
<1>4. ASSUME NEW p \in Appliers, BeginAttempt(p) \/ Snapshot(p) \/ Prepare(p) \/ StartReadback(p)
               \/ SendPut(p) \/ PutAnswered(p) \/ PutFails(p)
      PROVE  VerifiedWasRunning'
  BY <1>2, <1>4 DEF BeginAttempt, Snapshot, Prepare, StartReadback, SendPut, PutAnswered, PutFails,
     SecondReadback, Typed
<1>5. ASSUME NEW p \in Appliers, PrepareRefused(p) PROVE VerifiedWasRunning'
  BY <1>2, <1>3, <1>5 DEF PrepareRefused
<1>6. ASSUME NEW p \in Appliers,
             Defer(p) \/ ReloadUnanswered(p) \/ FlushFails(p) \/ WriteFails(p) \/ DeliverFails(p)
               \/ Confirm(p) \/ Dies(p)
      PROVE  VerifiedWasRunning'
  BY <1>3, <1>6 DEF Defer, ReloadUnanswered, FlushFails, WriteFails, DeliverFails, FailsWith,
     Confirm, Dies
<1>7. ASSUME NEW p \in Appliers, NEW code, NotVerified(p, code) PROVE VerifiedWasRunning'
  BY <1>2, <1>3, <1>7 DEF NotVerified, FailsWith
<1>8. ASSUME NEW p \in Appliers, ReadProxies(p) \/ ReadRules(p) \/ ReadFails(p)
      PROVE  VerifiedWasRunning'
  BY <1>2, <1>7, <1>8 DEF ReadProxies, ReadRules, ReadFails, Typed
<1>9. ASSUME NEW p \in Appliers, ReadAgain(p) PROVE VerifiedWasRunning'
  <2>1. CASE kernel.proxies = Stamp(p) /\ Verified(p)
    <3>1. Seen(p) # "nothing"
      BY <1>9, <2>1, ReadingIsTrue DEF ReadAgain
    <3>2. work'[p].seen # "nothing" /\ \A q \in Appliers \ {p} : work'[q] = work[q]
      BY <2>1, <3>1 DEF Verified, Typed, Works
    <3> QED
      BY <1>2, <2>1, <3>2 DEF Verified
  <2> QED
    BY <1>7, <1>9, <2>1 DEF ReadAgain, ProxiesUnchanged
<1>10. ASSUME NEW p \in Appliers, Observe(p) \/ GoOn(p) \/ Flush(p) \/ WriteHost(p)
       PROVE  VerifiedWasRunning'
  BY <1>2, <1>3, <1>10 DEF Observe, GoOn, Flush, WriteHost, ReadBack
<1>11. ASSUME NEW p \in Appliers, Deliver(p) PROVE VerifiedWasRunning'
  BY <1>2, <1>11 DEF Deliver, ReadBack, Typed
<1> QED
  BY <1>1, <1>4, <1>5, <1>6, <1>8, <1>9, <1>10, <1>11
     DEF ConfigNext, AttemptStep, KernelStep, SaveRules, SetStatus, ReplaceInstance, ToggleRouting,
         GateChanges, KernelTakesProxies, KernelTakesRules, KernelStarts, KernelStops, configVars

-----------------------------------------------------------------------------
\* Where copies of a version come from: from other copies, or from the journal.
Sends == {put[p].stamp : p \in {p \in Appliers : put[p] # Absent}}

\* The ticket of a prepared attempt is the newest version of the journal.
LEMMA TicketIsNewest ==
  ASSUME Typed, Current, NEW p \in Appliers, Prepared(p)
  PROVE  Stamp(p) = Newest
BY DEF Current, TicketIsCurrent, Stamp, Newest

\* The kernel takes its versions from a request or from a startup file.
LEMMA KernelCopies ==
  ASSUME Typed, [ConfigNext]_configVars
  PROVE  {kernel'.proxies, kernel'.rules}
           \subseteq {kernel.proxies, kernel.rules, host, boot, Absent} \cup Sends
<1>1. kernel \in Kernels
  BY DEF Typed
<1>2. ASSUME NEW f, kernel' = [kernel EXCEPT !.fresh = f]
      PROVE  kernel'.proxies = kernel.proxies /\ kernel'.rules = kernel.rules
  BY <1>1, <1>2 DEF Kernels
<1>3. ASSUME NEW p \in Appliers, FlushFails(p)
      PROVE  kernel'.proxies = kernel.proxies /\ kernel'.rules = kernel.rules
  BY <1>1, <1>3 DEF FlushFails, Kernels
<1>4. ASSUME NEW p \in Appliers, KernelTakesProxies(p)
      PROVE  kernel'.proxies \in Sends /\ kernel'.rules = kernel.rules
  BY <1>1, <1>4 DEF KernelTakesProxies, Kernels, Sends
<1>5. ASSUME NEW p \in Appliers, KernelTakesRules(p)
      PROVE  kernel'.rules \in Sends /\ kernel'.proxies = kernel.proxies
  BY <1>1, <1>5 DEF KernelTakesRules, Kernels, Sends
<1>6. KernelStarts => kernel'.proxies \in {host, boot} /\ kernel'.rules \in {host, boot}
  BY DEF KernelStarts
<1>7. KernelStops => kernel'.proxies = Absent /\ kernel'.rules = Absent
  BY DEF KernelStops
<1>8. ReplaceInstance \/ (\E p \in Appliers : Flush(p))
        => kernel'.proxies = kernel.proxies /\ kernel'.rules = kernel.rules
  BY <1>2 DEF ReplaceInstance, Flush
<1>9. \/ kernel' = kernel \/ ReplaceInstance \/ KernelStarts \/ KernelStops
      \/ \E p \in Appliers : Flush(p) \/ FlushFails(p) \/ KernelTakesProxies(p) \/ KernelTakesRules(p)
  BY DEF ConfigNext, AttemptStep, KernelStep, SaveRules, SetStatus, ToggleRouting, GateChanges,
     BeginAttempt, Snapshot, Prepare, PrepareRefused, Defer, StartReadback, ReadProxies, ReadRules,
     ReadAgain, ReadFails, SendPut, PutAnswered, PutFails, Observe, ReloadUnanswered, GoOn,
     WriteHost, WriteFails, Deliver, DeliverFails, Confirm, Dies, configVars
<1> QED
  BY <1>3, <1>4, <1>5, <1>6, <1>7, <1>8, <1>9

\* A startup file takes its version from the attempt that is current.
LEMMA FileCopies ==
  ASSUME Typed, Current, [ConfigNext]_configVars
  PROVE  /\ {host', boot'} \subseteq {host, boot, Newest}
         /\ {host', boot'} \subseteq {host, boot} \/ \E p \in Appliers : Prepared(p)
<1>1. ASSUME NEW p \in Appliers, WriteHost(p) \/ Deliver(p) \/ DeliverFails(p)
      PROVE  {host', boot'} \subseteq {host, boot, Newest} /\ Prepared(p)
  <2>1. Stamp(p) = Newest /\ Prepared(p)
    BY <1>1, TicketIsNewest DEF WriteHost, Deliver, DeliverFails, Prepared
  <2> QED
    BY <1>1, <2>1 DEF WriteHost, Deliver, DeliverFails
<1>2. KernelStarts => {host', boot'} \subseteq {host, boot}
  BY DEF KernelStarts
<1>3. \/ UNCHANGED files \/ KernelStarts
      \/ \E p \in Appliers : WriteHost(p) \/ Deliver(p) \/ DeliverFails(p)
  BY DEF ConfigNext, AttemptStep, KernelStep, SaveRules, SetStatus, ReplaceInstance, ToggleRouting,
     GateChanges, BeginAttempt, Snapshot, Prepare, PrepareRefused, Defer, StartReadback,
     ReadProxies, ReadRules, ReadAgain, ReadFails, SendPut, PutAnswered, PutFails, Observe,
     ReloadUnanswered, GoOn, Flush, FlushFails, WriteFails, Confirm, Dies, KernelTakesProxies,
     KernelTakesRules, KernelStops, configVars
<1> QED
  BY <1>1, <1>2, <1>3 DEF files

\* Only the newest version is sent.
LEMMA PutCopies ==
  ASSUME Typed, Current, [ConfigNext]_configVars
  PROVE  /\ Sends' \subseteq Sends \cup {Newest}
         /\ Sends' \subseteq Sends \/ \E p \in Appliers : Prepared(p)
<1>1. ASSUME NEW p \in Appliers, SendPut(p) PROVE Sends' \subseteq Sends \cup {Newest} /\ Prepared(p)
  <2>1. Stamp(p) = Newest /\ Prepared(p)
    BY <1>1, TicketIsNewest DEF SendPut, Prepared
  <2>2. /\ put'[p].stamp = Newest
        /\ \A q \in Appliers \ {p} : put'[q] = put[q]
    BY <1>1, <2>1 DEF SendPut, Typed
  <2> QED
    BY <2>1, <2>2 DEF Sends
<1>2. ASSUME NEW p \in Appliers, KernelTakesProxies(p) \/ KernelTakesRules(p)
      PROVE  Sends' \subseteq Sends
  <2>1. put[p] \in Puts /\ put[p] # Absent
    BY <1>2 DEF KernelTakesProxies, KernelTakesRules, Typed
  <2>2. /\ put'[p] = Absent \/ put'[p].stamp = put[p].stamp
        /\ \A q \in Appliers \ {p} : put'[q] = put[q]
    BY <1>2, <2>1 DEF KernelTakesProxies, KernelTakesRules, Puts, Typed
  <2> QED
    BY <2>1, <2>2 DEF Sends
<1>3. ASSUME \A q \in Appliers : put'[q] \in {put[q], Absent} PROVE Sends' \subseteq Sends
  BY <1>3 DEF Sends
<1>4. \A p \in Appliers : Forget(p) => \A q \in Appliers : put'[q] \in {put[q], Absent}
  BY DEF Forget, Typed
<1>5. KernelStops => \A q \in Appliers : put'[q] \in {put[q], Absent}
  BY DEF KernelStops
<1>6. \A p \in Appliers : PutAnswered(p) => \A q \in Appliers : put'[q] \in {put[q], Absent}
  BY DEF PutAnswered, Typed
<1>7. \/ put' = put \/ KernelStops
      \/ \E p \in Appliers : SendPut(p) \/ PutAnswered(p) \/ Forget(p) \/ KernelTakesProxies(p)
                               \/ KernelTakesRules(p)
  BY ZenonT(40) DEF ConfigNext, AttemptStep, KernelStep, SaveRules, SetStatus, ReplaceInstance, ToggleRouting,
     GateChanges, BeginAttempt, Snapshot, Prepare, PrepareRefused, Defer, StartReadback,
     ReadProxies, ReadRules, ReadAgain, ReadFails, NotVerified, Verified, FailsWith, PutFails,
     Observe, ReloadUnanswered, GoOn, Flush, FlushFails, WriteHost, WriteFails, Deliver,
     DeliverFails, Confirm, Dies, KernelStarts, configVars
<1> QED
  BY <1>1, <1>2, <1>3, <1>4, <1>5, <1>6, <1>7

\* The journal keeps its newest version, or gives a new number to the next.
LEMMA NewestGrows ==
  ASSUME Typed, [ConfigNext]_configVars
  PROVE  Newest' = Newest \/ (row'.gen = row.gen + 1 /\ Newest'.gen = row.gen + 1)
<1>1. row \in Rows
  BY DEF Typed
<1>2. ASSUME NEW p \in Appliers, Prepare(p)
      PROVE  Newest' = Newest \/ (row'.gen = row.gen + 1 /\ Newest'.gen = row.gen + 1)
  <2>1. row'.gen = NextGeneration(work[p].cfg) /\ row'.hash = work[p].cfg
    BY <1>1, <1>2 DEF Prepare, Rows
  <2> QED
    BY <2>1 DEF Newest, NextGeneration
<1>3. \A p \in Appliers : Observe(p) \/ Confirm(p) => row'.gen = row.gen /\ row'.hash = row.hash
  BY <1>1 DEF Observe, Confirm, Rows
<1>4. ASSUME NEW p \in Appliers, NEW code, FailsWith(p, code)
      PROVE  row'.gen = row.gen /\ row'.hash = row.hash
  BY <1>1, <1>4 DEF FailsWith, Rows
<1>5. \/ row' = row
      \/ \E p \in Appliers : \/ Prepare(p) \/ Observe(p) \/ Confirm(p)
                              \/ \E code \in Errors : FailsWith(p, code)
  BY ZenonT(40) DEF ConfigNext, AttemptStep, KernelStep, SaveRules, SetStatus, ReplaceInstance, ToggleRouting,
     GateChanges, BeginAttempt, Snapshot, PrepareRefused, Defer, StartReadback, ReadProxies,
     ReadRules, ReadAgain, ReadFails, NotVerified, Verified, MismatchCode, Errors, Codes, SendPut,
     PutAnswered, PutFails, ReloadUnanswered, GoOn, Flush, FlushFails, WriteHost, WriteFails,
     Deliver, DeliverFails, Dies, KernelTakesProxies, KernelTakesRules, KernelStarts, KernelStops,
     configVars
<1> QED
  BY <1>2, <1>3, <1>4, <1>5 DEF Newest

\* A number keeps standing for one configuration: the part Stamped.
LEMMA VersionsStep ==
  ASSUME Typed, Current, Stamped, [ConfigNext]_configVars
  PROVE  Stamped'
<1>1. Copies = {kernel.proxies, kernel.rules, host, boot, Newest} \cup Sends
  BY DEF Copies, Sends
<1>2. Copies' = {kernel'.proxies, kernel'.rules, host', boot', Newest'} \cup Sends'
  BY DEF Copies, Sends
<1>3. Copies' \ {Absent} \subseteq (Copies \ {Absent}) \cup {Newest'}
  BY <1>1, <1>2, KernelCopies, FileCopies, PutCopies
<1>4. \A c \in Copies \ {Absent} : c.gen \in Nat
  <2>1. \A c \in Sends : c \in Marks
    BY DEF Sends, Typed, Puts
  <2>2. {kernel.proxies, kernel.rules, host, boot} \subseteq Marks \cup {Absent}
    BY DEF Typed, Kernels
  <2>3. Newest.gen \in Nat
    BY DEF Newest, Typed, Rows
  <2> QED
    BY <1>1, <2>1, <2>2, <2>3 DEF Marks
<1>5. row.gen \in Nat /\ row'.gen = Newest'.gen /\ row.gen = Newest.gen
  BY DEF Typed, Rows, Newest
<1>6. Newest' \in Copies \/ Newest'.gen = row.gen + 1
  BY <1>1, NewestGrows
<1>7. row'.gen \in Nat /\ row'.gen >= row.gen
  BY <1>5, NewestGrows
<1>8. \A c \in Copies' \ {Absent} : c.gen =< row'.gen
  BY <1>3, <1>4, <1>5, <1>7 DEF Stamped
<1>9. OneConfigPerGeneration'
  <2>1. CASE Newest' \in Copies
    BY <1>3, <2>1 DEF Stamped, OneConfigPerGeneration
  <2>2. CASE Newest'.gen = row.gen + 1
    <3>1. \A c \in Copies \ {Absent} : c.gen # Newest'.gen
      BY <1>4, <1>5, <2>2 DEF Stamped
    <3> QED
      BY <1>3, <3>1 DEF Stamped, OneConfigPerGeneration
  <2> QED
    BY <1>6, <2>1, <2>2
<1> QED
  BY <1>8, <1>9 DEF Stamped

-----------------------------------------------------------------------------
\* What an attempt found is written when it begins and when it reads the source,
\* and not again.
SameTicket(p) ==
  /\ work'[p].base = work[p].base /\ work'[p].off = work[p].off
  /\ work'[p].prevRev = work[p].prevRev /\ work'[p].prevErr = work[p].prevErr
  /\ work'[p].prevHash = work[p].prevHash /\ work'[p].rev = work[p].rev
  /\ work'[p].cfg = work[p].cfg

\* What a step can do to the ticket of an applier.
LEMMA JobsMove ==
  ASSUME Typed, [ConfigNext]_configVars, NEW q \in Appliers
  PROVE  \/ BeginAttempt(q) \/ Snapshot(q)
         \/ pc'[q] = "idle" /\ work'[q] = NoJob
         \/ SameTicket(q) /\ (pc'[q] \notin {"snapshot", "prepare"} \/ pc'[q] = pc[q]
                             \/ PrepareRefused(q))
<1> DEFINE Goal == \/ BeginAttempt(q) \/ Snapshot(q)
                   \/ pc'[q] = "idle" /\ work'[q] = NoJob
                   \/ SameTicket(q) /\ (pc'[q] \notin {"snapshot", "prepare"} \/ pc'[q] = pc[q]
                                       \/ PrepareRefused(q))
<1>1. work[q] \in Works
  BY DEF Typed
<1>2. ASSUME NEW p \in Appliers, AttemptEnds(p) PROVE Goal
  BY <1>2 DEF AttemptEnds, Goto, Typed, SameTicket
<1>3. ASSUME NEW p \in Appliers, NEW label, Goto(p, label), UNCHANGED work,
             label \notin {"snapshot", "prepare"} \/ (label = "snapshot" /\ PrepareRefused(p))
      PROVE  Goal
  BY <1>3 DEF Goto, Typed, SameTicket
<1>4. CASE UNCHANGED <<pc, work>>
  BY <1>4 DEF SameTicket
<1>5. ASSUME NEW p \in Appliers, BeginAttempt(p) \/ Snapshot(p) PROVE Goal
  BY <1>5 DEF BeginAttempt, Snapshot, Goto, Typed, SameTicket
<1>6. ASSUME NEW p \in Appliers, PrepareRefused(p) PROVE Goal
  BY <1>2, <1>3, <1>6 DEF PrepareRefused
<1>7. ASSUME NEW p \in Appliers, NEW code, NotVerified(p, code) PROVE Goal
  BY <1>2, <1>3, <1>7 DEF NotVerified, FailsWith
<1>8. ASSUME NEW p \in Appliers, Prepare(p) PROVE Goal
  BY <1>1, <1>8 DEF Prepare, Goto, Typed, SameTicket, Works
<1>9. ASSUME NEW p \in Appliers, NEW failed, SecondReadback(p, failed) PROVE Goal
  BY <1>1, <1>9 DEF SecondReadback, Goto, Typed, SameTicket, Works
<1>10. ASSUME NEW p \in Appliers, Verified(p) PROVE Goal
  BY <1>1, <1>10 DEF Verified, Goto, Typed, SameTicket, Works
<1>11. ASSUME NEW p \in Appliers, ReadRules(p) PROVE Goal
  <2>1. CASE Goto(p, "again") /\ work' = [work EXCEPT ![p].seen = Seen(p)]
    BY <1>1, <2>1 DEF Goto, Typed, SameTicket, Works
  <2> QED
    BY <1>7, <1>11, <2>1 DEF ReadRules
<1>12. ASSUME NEW p \in Appliers, Deliver(p) PROVE Goal
  <2>1. CASE Goto(p, "proxies") /\ work' = [work EXCEPT ![p].pass = "final"]
    BY <1>1, <2>1 DEF Goto, Typed, SameTicket, Works
  <2> QED
    BY <1>3, <1>12, <2>1 DEF Deliver
<1>13. ASSUME NEW p \in Appliers,
              Defer(p) \/ ReloadUnanswered(p) \/ FlushFails(p) \/ WriteFails(p) \/ DeliverFails(p)
                \/ Confirm(p) \/ Dies(p)
       PROVE  Goal
  BY <1>2, <1>13 DEF Defer, ReloadUnanswered, FlushFails, WriteFails, DeliverFails, FailsWith,
     Confirm, Dies
<1>14. ASSUME NEW p \in Appliers,
              StartReadback(p) \/ SendPut(p) \/ GoOn(p) \/ Flush(p) \/ WriteHost(p) \/ Observe(p)
       PROVE  Goal
  BY <1>2, <1>3, <1>14 DEF StartReadback, SendPut, GoOn, Flush, WriteHost, Observe
<1>15. ASSUME NEW p \in Appliers, ReadProxies(p) \/ ReadAgain(p) \/ ReadFails(p) PROVE Goal
  BY <1>3, <1>7, <1>10, <1>15 DEF ReadProxies, ReadAgain, ReadFails
<1>16. ASSUME NEW p \in Appliers, PutAnswered(p) \/ PutFails(p) PROVE Goal
  BY <1>9, <1>16 DEF PutAnswered, PutFails
<1> QED
  BY <1>4, <1>5, <1>6, <1>8, <1>11, <1>12, <1>13, <1>14, <1>15, <1>16
     DEF ConfigNext, AttemptStep, KernelStep, SaveRules, SetStatus, ReplaceInstance, ToggleRouting,
         GateChanges, KernelTakesProxies, KernelTakesRules, KernelStarts, KernelStops, configVars

\* The columns of the journal that say what is wanted change in `prepare` only.
LEMMA RowMoves ==
  ASSUME Typed, [ConfigNext]_configVars
  PROVE  \/ \E p \in Appliers : Prepare(p)
         \/ /\ row'.rev = row.rev /\ row'.off = row.off
            /\ row'.gen = row.gen /\ row'.hash = row.hash
<1>1. row \in Rows
  BY DEF Typed
<1>2. \A p \in Appliers : Observe(p) \/ Confirm(p)
        => /\ row'.rev = row.rev /\ row'.off = row.off
           /\ row'.gen = row.gen /\ row'.hash = row.hash
  BY <1>1 DEF Observe, Confirm, Rows
<1>3. ASSUME NEW p \in Appliers, NEW code, FailsWith(p, code)
      PROVE  /\ row'.rev = row.rev /\ row'.off = row.off
             /\ row'.gen = row.gen /\ row'.hash = row.hash
  BY <1>1, <1>3 DEF FailsWith, Rows
<1>4. \/ row' = row
      \/ \E p \in Appliers : \/ Prepare(p) \/ Observe(p) \/ Confirm(p)
                              \/ \E code \in Errors : FailsWith(p, code)
  BY DEF ConfigNext, AttemptStep, KernelStep, SaveRules, SetStatus, ReplaceInstance, ToggleRouting,
     GateChanges, BeginAttempt, Snapshot, PrepareRefused, Defer, StartReadback, ReadProxies,
     ReadRules, ReadAgain, ReadFails, NotVerified, Verified, MismatchCode, Errors, Codes, SendPut,
     PutAnswered, PutFails, ReloadUnanswered, GoOn, Flush, FlushFails, WriteHost, WriteFails,
     Deliver, DeliverFails, Dies, KernelTakesProxies, KernelTakesRules, KernelStarts, KernelStops,
     configVars
<1> QED
  BY <1>2, <1>3, <1>4

\* The source changes only together with its revision.
LEMMA SourceMoves ==
  ASSUME Typed, [ConfigNext]_configVars
  PROVE  /\ src'.rev \in Nat /\ src'.rev >= src.rev
         /\ src'.rev = src.rev => \A o : TrackedAs(o)' = TrackedAs(o)
<1>1. src \in Sourcing
  BY DEF Typed
<1>2. ASSUME src' = src
      PROVE  /\ src'.rev \in Nat /\ src'.rev >= src.rev
             /\ src'.rev = src.rev => \A o : TrackedAs(o)' = TrackedAs(o)
  BY <1>1, <1>2 DEF Sourcing, TrackedAs, Render
<1>3. SaveRules \/ ReplaceInstance => src'.rev = src.rev + 1
  BY <1>1 DEF SaveRules, ReplaceInstance, Sourcing
<1>4. ASSUME SetStatus
      PROVE  /\ src'.rev \in Nat /\ src'.rev >= src.rev
             /\ src'.rev = src.rev => \A o : TrackedAs(o)' = TrackedAs(o)
  <2>1. PICK t \in Statuses : src' = [src EXCEPT !.status = t,
                                           !.rev = @ + StatusRevision(src.status, t)]
    BY <1>4 DEF SetStatus
  <2>2. /\ src'.status = t /\ src'.content = src.content
        /\ src'.rev = src.rev + StatusRevision(src.status, t)
    BY <1>1, <2>1 DEF Sourcing
  <2>3. src'.rev \in Nat /\ src'.rev >= src.rev
    BY <1>1, <2>2 DEF Sourcing, StatusRevision
  <2>4. src'.rev = src.rev => (t \in Dead) = (src.status \in Dead)
    BY SMTT(30), <1>1, <2>2 DEF Sourcing, StatusRevision
  <2> QED
    BY <2>2, <2>3, <2>4 DEF TrackedAs, Render
<1>5. src' = src \/ SaveRules \/ SetStatus \/ ReplaceInstance
  BY DEF ConfigNext, AttemptStep, KernelStep, ToggleRouting, GateChanges, BeginAttempt, Snapshot,
     Prepare, PrepareRefused, Defer, StartReadback, ReadProxies, ReadRules, ReadAgain, ReadFails,
     SendPut, PutAnswered, PutFails, Observe, ReloadUnanswered, GoOn, Flush, FlushFails, WriteHost,
     WriteFails, Deliver, DeliverFails, Confirm, Dies, KernelTakesProxies, KernelTakesRules,
     KernelStarts, KernelStops, settings, configVars
<1>6. src.rev \in Nat
  BY <1>1 DEF Sourcing
<1> QED
  BY <1>2, <1>3, <1>4, <1>5, <1>6

\* An unchanged revision keeps meaning an unchanged source: the part Sources.
LEMMA SourcesStep ==
  ASSUME Typed, Sources, [ConfigNext]_configVars
  PROVE  Sources'
<1>1. row \in Rows /\ src \in Sourcing /\ src.rev \in Nat /\ src'.rev \in Nat /\ src'.rev >= src.rev
  BY SourceMoves DEF Typed, Sourcing
<1>2. row'.rev =< src'.rev /\ (row'.rev = src'.rev => (row.hash \in TrackedAs(row.off))')
  <2>1. ASSUME NEW p \in Appliers, Prepare(p)
        PROVE  row'.rev = src'.rev /\ (row.hash \in TrackedAs(row.off))'
    <3>1. /\ row'.rev = work[p].rev /\ row'.off = work[p].off /\ row'.hash = work[p].cfg
          /\ src' = src /\ src.rev = work[p].rev /\ pc[p] = "prepare"
      BY <1>1, <2>1 DEF Prepare, Rows, DesiredOff, settings
    <3>2. work[p].cfg \in TrackedAs(work[p].off)
      BY <3>1 DEF Sources
    <3> QED
      BY <3>1, <3>2 DEF TrackedAs
  <2>2. CASE /\ row'.rev = row.rev /\ row'.off = row.off
             /\ row'.gen = row.gen /\ row'.hash = row.hash
    <3>1. row.rev \in Int /\ row.rev =< src.rev
      BY <1>1 DEF Rows, Sources
    <3>2. ASSUME row.rev = src'.rev PROVE (row.hash \in TrackedAs(row.off))'
      <4>1. src'.rev = src.rev /\ row.hash \in TrackedAs(row.off)
        BY <1>1, <3>1, <3>2 DEF Sources
      <4>2. PICK o : o = row.off
        OBVIOUS
      <4>3. row'.off = o /\ row'.hash \in TrackedAs(o)'
        BY <2>2, <4>1, <4>2, SourceMoves
      <4> QED
        BY <4>3 DEF TrackedAs
    <3> QED
      BY <1>1, <2>2, <3>1, <3>2
  <2> QED
    BY <1>1, <2>1, <2>2, RowMoves
<1>3. ASSUME NEW q \in Appliers
      PROVE  /\ work'[q].rev =< src'.rev /\ work'[q].prevRev =< src'.rev
             /\ pc'[q] = "prepare" /\ work'[q].rev = src'.rev
                  => (work[q].cfg \in TrackedAs(work[q].off))'
  <2>1. work[q] \in Works /\ work[q].rev =< src.rev /\ work[q].prevRev =< src.rev
    BY DEF Typed, Sources
  <2>2. CASE BeginAttempt(q)
    BY <1>1, <2>1, <2>2 DEF BeginAttempt, Goto, Typed, NoJob, Rows, Sources
  <2>3. CASE Snapshot(q)
    <3>1. /\ work'[q].rev = src.rev /\ work'[q].prevRev = work[q].prevRev
          /\ work'[q].off = work[q].off /\ work[q].off \in BOOLEAN
          /\ work'[q].cfg = Render(src.content, src.status, work[q].off, gated)
      BY <2>1, <2>3 DEF Snapshot, Typed, Works
    <3>2. src' = src /\ src.status \in Statuses /\ gated \in BOOLEAN
      BY <1>1, <2>3 DEF Snapshot, settings, Sourcing, Typed
    <3>3. (work[q].cfg \in TrackedAs(work[q].off))'
      BY <3>1, <3>2 DEF TrackedAs
    <3> QED
      BY <1>1, <2>1, <3>1, <3>2, <3>3
  <2>4. CASE pc'[q] = "idle" /\ work'[q] = NoJob
    BY <1>1, <2>4 DEF NoJob
  <2>5. CASE SameTicket(q) /\ (pc'[q] \notin {"snapshot", "prepare"} \/ pc'[q] = pc[q]
                             \/ PrepareRefused(q))
    <3>1. work'[q].rev =< src'.rev /\ work'[q].prevRev =< src'.rev
      BY <1>1, <2>1, <2>5 DEF SameTicket, Works
    <3>2. pc'[q] = "prepare" => pc[q] = "prepare"
      BY <2>5 DEF PrepareRefused, AttemptEnds, Goto, Typed
    <3>3. ASSUME pc[q] = "prepare", work[q].rev = src'.rev
          PROVE  (work[q].cfg \in TrackedAs(work[q].off))'
      <4>1. src'.rev = src.rev /\ work[q].cfg \in TrackedAs(work[q].off) /\ work[q].off \in BOOLEAN
        BY <1>1, <2>1, <3>3 DEF Sources, Works
      <4> QED
        BY SMTT(30), <2>5, <4>1, SourceMoves DEF TrackedAs, SameTicket
    <3> QED
      BY <2>5, <3>1, <3>2, <3>3 DEF SameTicket
  <2> QED
    BY <2>2, <2>3, <2>4, <2>5, JobsMove
<1> QED
  BY <1>2, <1>3 DEF Sources

-----------------------------------------------------------------------------
\* An applier's step leaves the other appliers alone.
LEMMA OthersKept ==
  ASSUME Typed, NEW p \in Appliers, BeginAttempt(p) \/ AttemptStep(p) \/ Dies(p),
         NEW q \in Appliers \ {p}
  PROVE  pc'[q] = pc[q] /\ work'[q] = work[q] /\ put'[q] = put[q]
<1> DEFINE Goal == pc'[q] = pc[q] /\ work'[q] = work[q] /\ put'[q] = put[q]
<1>1. (AttemptEnds(p) => pc'[q] = pc[q] /\ work'[q] = work[q]) /\ (Forget(p) => put'[q] = put[q])
  BY DEF AttemptEnds, Goto, Forget, Typed
<1>2. \A code : FailsWith(p, code) => Goal
  BY <1>1 DEF FailsWith
<1>3. \A code : NotVerified(p, code) => Goal
  BY <1>2 DEF NotVerified, Goto, Typed
<1>4. Verified(p) => Goal
  BY DEF Verified, Goto, Typed
<1>5. BeginAttempt(p) \/ Snapshot(p) \/ Prepare(p) \/ StartReadback(p) \/ SendPut(p) \/ GoOn(p)
        \/ Flush(p) \/ WriteHost(p) \/ Deliver(p) => Goal
  BY DEF BeginAttempt, Snapshot, Prepare, StartReadback, SendPut, GoOn, Flush, WriteHost, Deliver,
     Goto, Typed
<1>6. PrepareRefused(p) \/ Confirm(p) \/ Dies(p) \/ Observe(p) => Goal
  BY <1>1 DEF PrepareRefused, Confirm, Dies, Observe, Goto, Typed
<1>7. Defer(p) \/ ReloadUnanswered(p) \/ FlushFails(p) \/ WriteFails(p) \/ DeliverFails(p) => Goal
  BY <1>2 DEF Defer, ReloadUnanswered, FlushFails, WriteFails, DeliverFails
<1>8. ReadProxies(p) \/ ReadRules(p) \/ ReadAgain(p) \/ ReadFails(p) => Goal
  BY <1>3, <1>4 DEF ReadProxies, ReadRules, ReadAgain, ReadFails, Goto, Typed
<1>9. PutAnswered(p) \/ PutFails(p) => Goal
  BY <1>1 DEF PutAnswered, PutFails, SecondReadback, Goto, Typed
<1> QED
  BY <1>5, <1>6, <1>7, <1>8, <1>9 DEF AttemptStep

\* The kernel's addresses go out of date only with a new revision of the source.
LEMMA FreshnessKept ==
  ASSUME Typed, [ConfigNext]_configVars, NEW rev \in Int, rev =< src.rev, UpToDate(rev)
  PROVE  UpToDate(rev)'
<1>1. src \in Sourcing /\ src.rev \in Nat /\ kernel \in Kernels
  BY DEF Typed, Sourcing
<1>2. src'.rev \in Nat /\ src'.rev >= src.rev
  BY SourceMoves
<1>3. ReplaceInstance => src'.rev = src.rev + 1
  BY <1>1 DEF ReplaceInstance, Sourcing
<1>4. KernelStarts \/ KernelStops => (kernel'.up => kernel'.fresh)
  BY DEF KernelStarts, KernelStops
<1>5. ASSUME NEW p \in Appliers,
             KernelTakesProxies(p) \/ KernelTakesRules(p) \/ Flush(p) \/ FlushFails(p)
      PROVE  kernel'.up = kernel.up /\ (kernel.fresh => kernel'.fresh)
  <2>1. (kernel.fresh \/ kernel.up) \in BOOLEAN
    OBVIOUS
  <2>2. /\ \A f \in BOOLEAN : LET k == [kernel EXCEPT !.fresh = f]
                              IN k.up = kernel.up /\ k.fresh = f
        /\ \A m : LET k == [kernel EXCEPT !.rules = m]
                   IN k.up = kernel.up /\ k.fresh = kernel.fresh
        /\ \A m : LET k == [kernel EXCEPT !.proxies = m, !.fresh = TRUE]
                   IN k.up = kernel.up /\ k.fresh
    BY <1>1 DEF Kernels
  <2>3. CASE KernelTakesProxies(p) \/ KernelTakesRules(p)
    BY ZenonT(40), <2>2, <2>3 DEF KernelTakesProxies, KernelTakesRules
  <2>4. CASE Flush(p)
    BY <2>2, <2>4 DEF Flush
  <2>5. CASE FlushFails(p)
    BY <2>1, <2>2, <2>5 DEF FlushFails
  <2> QED
    BY <1>5, <2>3, <2>4, <2>5
<1>6. \/ kernel' = kernel \/ ReplaceInstance \/ KernelStarts \/ KernelStops
      \/ \E p \in Appliers : KernelTakesProxies(p) \/ KernelTakesRules(p) \/ Flush(p) \/ FlushFails(p)
  BY DEF ConfigNext, AttemptStep, KernelStep, ToggleRouting, GateChanges, SaveRules, SetStatus,
     BeginAttempt, Snapshot, Prepare, PrepareRefused, Defer, StartReadback, ReadProxies, ReadRules,
     ReadAgain, ReadFails, SendPut, PutAnswered, PutFails, Observe, ReloadUnanswered, GoOn,
     WriteHost, WriteFails, Deliver, DeliverFails, Confirm, Dies, configVars
<1>7. \/ src'.rev > src.rev
      \/ (kernel'.up => kernel'.fresh)
      \/ kernel'.up = kernel.up /\ (kernel.fresh => kernel'.fresh)
  BY <1>1, <1>3, <1>4, <1>5, <1>6
<1>8. ASSUME rev = src'.rev, kernel'.up PROVE kernel'.fresh
  <2>1. rev = src.rev
    BY <1>1, <1>2, <1>8
  <2>2. kernel.up => kernel.fresh
    BY <2>1 DEF UpToDate
  <2>3. ~(src'.rev > src.rev)
    BY <1>1, <1>2, <1>8, <2>1
  <2> QED
    BY <1>7, <1>8, <2>2, <2>3
<1> QED
  BY <1>8 DEF UpToDate

\* A step of somebody else leaves what an attempt knows of the flushes.
LEMMA FreshForKept ==
  ASSUME Typed, Sources, [ConfigNext]_configVars, NEW p \in Appliers, FreshFor(p),
         pc'[p] = pc[p], work'[p] = work[p], put'[p] \in {put[p], Absent}
  PROVE  FreshFor(p)'
<1>1. /\ work[p].rev \in Int /\ work[p].rev =< src.rev
      /\ work[p].prevRev \in Int /\ work[p].prevRev =< src.rev
  BY DEF Typed, Works, Sources
<1>2. PICK r, s : r = work[p].rev /\ s = work[p].prevRev
  OBVIOUS
<1>3. (UpToDate(r) => UpToDate(r)') /\ (UpToDate(s) => UpToDate(s)')
  BY <1>1, <1>2, FreshnessKept
<1>4. work'[p].rev = r /\ work'[p].prevRev = s
  BY <1>2
<1> QED
  BY <1>2, <1>3, <1>4 DEF FreshFor, Working, Ending, Reading, UpToDate

\* A step of the attempt itself keeps what it knows of the flushes.
LEMMA FreshOwn ==
  ASSUME Typed, Lock, Requests, Sources, Freshness, [ConfigNext]_configVars, NEW p \in Appliers,
         BeginAttempt(p) \/ AttemptStep(p) \/ Dies(p)
  PROVE  FreshFor(p)'
<1> DEFINE ticket == work[p]
<1>1. /\ ticket \in Works /\ ticket.rev \in Int /\ ticket.rev =< src.rev
      /\ ticket.prevRev \in Int /\ ticket.prevRev =< src.rev
      /\ row.rev \in Int /\ row.rev =< src.rev
      /\ pc[p] \in Labels
  BY DEF Typed, Works, Rows, Sources
<1>2. \A rev \in Int : rev =< src.rev /\ UpToDate(rev)
        => (rev = src'.rev /\ kernel'.up => kernel'.fresh)
  BY FreshnessKept DEF UpToDate
<1>3. FreshFor(p)
  BY DEF Freshness
<1> HIDE DEF ticket
<1>4. AttemptEnds(p) => FreshFor(p)'
  BY DEF AttemptEnds, Goto, Typed, FreshFor, Working, Ending, Reading
<1>5. \A code : FailsWith(p, code) => FreshFor(p)'
  BY <1>4 DEF FailsWith
<1>6. ASSUME NEW label \in Labels, pc'[p] = label, Working(p),
             NEW w, work'[p] = w, w.rev = ticket.rev,
             w.prevRev = ticket.prevRev, w.prevErr = ticket.prevErr,
             label = "putting" => put'[p].stage = "sent",
             (\/ w.pass = "second" /\ ~w.reloadFailed
              \/ label \in {"observe", "observed"} /\ w.pass = "first" /\ ~w.flush
              \/ label \in {"write", "deliver", "confirm"}
              \/ label \in {"proxies", "rules", "again"} /\ w.pass = "final")
             => UpToDate(ticket.rev)
      PROVE  FreshFor(p)'
  <2>1. ticket.prevErr \in Flushed => UpToDate(ticket.prevRev)
    BY <1>3, <1>6 DEF FreshFor, ticket
  <2>2. (UpToDate(ticket.rev) => (ticket.rev = src'.rev /\ kernel'.up => kernel'.fresh))
        /\ (UpToDate(ticket.prevRev) => (ticket.prevRev = src'.rev /\ kernel'.up => kernel'.fresh))
    BY <1>1, <1>2
  <2>3. w.prevErr \in Flushed => UpToDate(work[p].prevRev)'
    BY <1>6, <2>1, <2>2 DEF UpToDate
  <2>4. UpToDate(ticket.rev) => UpToDate(work[p].rev)'
    BY <1>6, <2>2 DEF UpToDate
  <2>5. ~(label = "putting" /\ put'[p].stage # "sent")
    BY <1>6
  <2>6. w.pass = "second" /\ ~w.reloadFailed => UpToDate(work[p].rev)'
    BY <1>6, <2>4
  <2>7. label \in {"observe", "observed"} /\ w.pass = "first" /\ ~w.flush => UpToDate(work[p].rev)'
    BY <1>6, <2>4
  <2>8. label \in {"write", "deliver"} \/ Ending(p)' => UpToDate(work[p].rev)'
    BY <1>6, <2>4 DEF Ending, Reading
  <2> QED
    BY <1>6, <2>3, <2>5, <2>6, <2>7, <2>8 DEF FreshFor
<1>7. ASSUME NEW label \in Labels, Goto(p, label), Working(p), work' = work,
             label # "putting",
             (\/ ticket.pass = "second" /\ ~ticket.reloadFailed
              \/ label \in {"observe", "observed"} /\ ticket.pass = "first" /\ ~ticket.flush
              \/ label \in {"write", "deliver", "confirm"}
              \/ label \in {"proxies", "rules", "again"} /\ ticket.pass = "final")
             => UpToDate(ticket.rev)
      PROVE  FreshFor(p)'
  BY <1>6, <1>7 DEF Goto, Typed, ticket
<1>8. CASE BeginAttempt(p)
  <2>1. /\ pc'[p] = "snapshot" /\ work'[p].prevRev = row.rev /\ work'[p].prevErr = row.err
        /\ work'[p].pass = "first"
    BY <1>8 DEF BeginAttempt, Goto, Typed, NoJob
  <2>2. row.err \in Flushed => (row.rev = src'.rev /\ kernel'.up => kernel'.fresh)
    BY <1>1, <1>2 DEF Freshness
  <2> QED
    BY <2>1, <2>2 DEF FreshFor, Ending, Reading, UpToDate
<1>9. CASE Snapshot(p)
  <2>1. /\ pc'[p] = "prepare" /\ work'[p].prevRev = ticket.prevRev /\ work'[p].prevErr = ticket.prevErr
        /\ work'[p].pass = "first"
    BY <1>1, <1>9 DEF Snapshot, Goto, Typed, ticket, Works, Lock
  <2>2. ticket.prevErr \in Flushed => (ticket.prevRev = src'.rev /\ kernel'.up => kernel'.fresh)
    BY <1>1, <1>2, <1>3, <1>9 DEF FreshFor, ticket, Snapshot, Working
  <2> QED
    BY <2>1, <2>2 DEF FreshFor, Ending, Reading, UpToDate
<1>10. CASE Prepare(p)
  <2>1. /\ pc'[p] = "prepared" /\ work'[p].rev = ticket.rev /\ work'[p].prevRev = ticket.prevRev
        /\ work'[p].prevErr = ticket.prevErr /\ work'[p].pass = "first" /\ Working(p)
    BY <1>1, <1>10 DEF Prepare, Goto, Typed, ticket, Works, Lock, Working
  <2> QED
    BY <1>6, <2>1 DEF Labels
<1>11. CASE PrepareRefused(p)
  <2>1. ticket.pass = "first" /\ Working(p)
    BY <1>11 DEF PrepareRefused, Lock, ticket, Working
  <2> QED
    BY <1>4, <1>7, <1>11, <2>1 DEF PrepareRefused, Labels
<1>12. CASE Defer(p) \/ ReloadUnanswered(p) \/ FlushFails(p) \/ WriteFails(p) \/ DeliverFails(p)
              \/ Confirm(p) \/ Dies(p)
  BY <1>4, <1>5, <1>12 DEF Defer, ReloadUnanswered, FlushFails, WriteFails, DeliverFails, Confirm,
     Dies
<1>13. CASE StartReadback(p)
  <2>1. ticket.pass = "first" /\ Working(p)
    BY <1>13 DEF StartReadback, Lock, ticket, Working
  <2> QED
    BY <1>7, <1>13, <2>1 DEF StartReadback, Labels
<1>14. ASSUME Reading(p)
       PROVE  /\ Working(p) /\ ticket.pass \in {"first", "second", "final"}
              /\ ticket.pass = "second" /\ ~ticket.reloadFailed => UpToDate(ticket.rev)
              /\ ticket.pass = "final" => UpToDate(ticket.rev)
  <2>1. Working(p)
    BY <1>14 DEF Reading, Working
  <2> QED
    BY <1>1, <1>3, <1>14, <2>1 DEF FreshFor, Ending, ticket, Works
<1>15. ASSUME NEW code, NotVerified(p, code), Reading(p) PROVE FreshFor(p)'
  BY <1>5, <1>7, <1>14, <1>15 DEF NotVerified, Labels, ticket
<1>16. CASE ReadProxies(p)
  BY <1>7, <1>14, <1>15, <1>16 DEF ReadProxies, Reading, Labels
<1>17. CASE ReadRules(p)
  <2>1. CASE Goto(p, "again") /\ work' = [work EXCEPT ![p].seen = Seen(p)]
    <3>1. /\ pc'[p] = "again" /\ work'[p].rev = ticket.rev /\ work'[p].prevRev = ticket.prevRev
          /\ work'[p].prevErr = ticket.prevErr /\ work'[p].pass = ticket.pass
          /\ work'[p].reloadFailed = ticket.reloadFailed /\ Reading(p)
      BY <1>1, <1>17, <2>1 DEF Goto, Typed, ticket, Works, ReadRules, Reading
    <3> QED
      BY <1>6, <1>14, <3>1 DEF Labels
  <2> QED
    BY <1>15, <1>17, <2>1 DEF ReadRules, Reading
<1>18. CASE ReadAgain(p)
  <2>1. CASE Verified(p)
    <3> DEFINE l == IF ticket.pass = "final" THEN "confirm" ELSE "observe"
               fl == IF ticket.pass = "first" THEN NeedsFlush(p) ELSE ticket.flush
    <3>1. /\ pc'[p] = l /\ work'[p].rev = ticket.rev /\ work'[p].prevRev = ticket.prevRev
          /\ work'[p].prevErr = ticket.prevErr /\ work'[p].pass = ticket.pass
          /\ work'[p].reloadFailed = ticket.reloadFailed /\ Reading(p) /\ work'[p].flush = fl
      BY <1>1, <1>18, <2>1 DEF Verified, Goto, Typed, ticket, Works, ReadAgain, Reading
    <3>2. ticket.pass = "first" /\ ~fl => UpToDate(ticket.rev)
      BY <1>3, <1>14, <3>1 DEF FreshFor, NeedsFlush, ticket, Flushed
    <3>3. l \in {"observe", "confirm"} /\ (l = "confirm" => ticket.pass = "final")
      OBVIOUS
    <3> HIDE DEF l, fl
    <3> QED
      BY <1>6, <1>14, <3>1, <3>2, <3>3 DEF Labels
  <2> QED
    BY <1>15, <1>18, <2>1 DEF ReadAgain, Reading
<1>19. CASE ReadFails(p)
  BY <1>15, <1>19 DEF ReadFails, Reading
<1>20. CASE SendPut(p)
  <2>1. /\ pc'[p] = "putting" /\ work'[p] = ticket /\ put'[p].stage = "sent" /\ ticket.pass = "first"
        /\ Working(p)
    BY <1>20 DEF SendPut, Goto, Typed, ticket, Lock, Working
  <2> QED
    BY <1>6, <2>1 DEF Labels
<1>21. ASSUME NEW failed \in BOOLEAN, SecondReadback(p, failed), Working(p),
              ~failed => UpToDate(ticket.rev)
       PROVE  FreshFor(p)'
  <2>1. /\ pc'[p] = "proxies" /\ work'[p].rev = ticket.rev /\ work'[p].prevRev = ticket.prevRev
        /\ work'[p].prevErr = ticket.prevErr /\ work'[p].pass = "second"
        /\ work'[p].reloadFailed = failed
    BY <1>1, <1>21 DEF SecondReadback, Goto, Typed, ticket, Works
  <2> QED
    BY <1>6, <1>21, <2>1 DEF Labels
<1>22. CASE PutAnswered(p)
  <2>1. UpToDate(ticket.rev) /\ Working(p)
    BY <1>3, <1>22 DEF PutAnswered, FreshFor, ticket, Working
  <2> QED
    BY <1>21, <1>22, <2>1 DEF PutAnswered
<1>23. CASE PutFails(p)
  <2>1. Working(p)
    BY <1>23 DEF PutFails, Working
  <2> QED
    BY <1>21, <1>23, <2>1 DEF PutFails
<1>24. CASE Observe(p)
  <2>1. ASSUME pc[p] = "observe"
        PROVE  /\ ticket.pass = "second" /\ ~ticket.reloadFailed => UpToDate(ticket.rev)
               /\ ticket.pass = "first" /\ ~ticket.flush => UpToDate(ticket.rev)
               /\ Working(p)
    BY <1>3, <2>1 DEF FreshFor, ticket, Working
  <2> QED
    BY <1>4, <1>7, <1>24, <2>1 DEF Observe, Labels
<1>25. CASE GoOn(p)
  <2>1. /\ ticket.pass = "second" => UpToDate(ticket.rev)
        /\ ticket.pass = "first" /\ ~ticket.flush => UpToDate(ticket.rev)
        /\ Working(p)
    BY <1>3, <1>25 DEF FreshFor, ticket, Working, GoOn
  <2>2. ticket.pass \in {"first", "second"}
    BY <1>1, <1>25 DEF GoOn, Lock, Works, ticket
  <2> QED
    BY <1>7, <1>25, <2>1, <2>2 DEF GoOn, Labels, ticket
<1>26. CASE Flush(p)
  <2>1. kernel'.fresh
    BY <1>26 DEF Flush, Typed, Kernels
  <2> QED
    BY <2>1 DEF FreshFor, UpToDate
<1>27. CASE WriteHost(p)
  <2>1. UpToDate(ticket.rev) /\ Working(p)
    BY <1>3, <1>27 DEF FreshFor, ticket, Working, WriteHost
  <2> QED
    BY <1>7, <1>27, <2>1 DEF WriteHost, Labels
<1>28. CASE Deliver(p)
  <2>1. UpToDate(ticket.rev) /\ Working(p)
    BY <1>3, <1>28 DEF FreshFor, ticket, Working, Deliver
  <2>2. CASE Goto(p, "proxies") /\ work' = [work EXCEPT ![p].pass = "final"]
    <3>1. /\ pc'[p] = "proxies" /\ work'[p].rev = ticket.rev /\ work'[p].prevRev = ticket.prevRev
          /\ work'[p].prevErr = ticket.prevErr
      BY <1>1, <2>2 DEF Goto, Typed, ticket, Works
    <3> QED
      BY <1>6, <2>1, <3>1 DEF Labels
  <2> QED
    BY <1>7, <1>28, <2>1, <2>2 DEF Deliver, Labels
<1> QED
  BY <1>8, <1>9, <1>10, <1>11, <1>12, <1>13, <1>16, <1>17, <1>18, <1>19, <1>20, <1>22, <1>23,
     <1>24, <1>25, <1>26, <1>27, <1>28 DEF AttemptStep

\* Where an error that leaves no flush to be done comes from.
LEMMA ErrorMoves ==
  ASSUME Typed, Current, [ConfigNext]_configVars
  PROVE  \/ row'.err = row.err /\ row'.rev = row.rev
         \/ row'.err \notin Flushed
         \/ \E p \in Appliers : (pc[p] \in {"write", "deliver"} \/ Ending(p)) /\ row'.rev = work[p].rev
<1> DEFINE Same == row'.err = row.err /\ row'.rev = row.rev
           Known(p) == (pc[p] \in {"write", "deliver"} \/ Ending(p)) /\ row'.rev = work[p].rev
<1>1. row \in Rows /\ \A p \in Appliers : Prepared(p) => row.rev = work[p].rev
  BY DEF Typed, Current, TicketIsCurrent
<1>2. ASSUME NEW p \in Appliers, NEW code, FailsWith(p, code)
      PROVE  Same \/ (row'.err = code /\ row'.rev = row.rev)
  BY <1>1, <1>2 DEF FailsWith, Rows
<1>3. ASSUME NEW p \in Appliers, Prepare(p) \/ Observe(p) PROVE Same \/ row'.err \notin Flushed
  BY <1>1, <1>3, AbsentAssumption DEF Prepare, Observe, Rows, Flushed, Codes
<1>4. ASSUME NEW p \in Appliers, Confirm(p) PROVE Known(p)
  BY <1>1, <1>4 DEF Confirm, Ending, Prepared, Rows
<1>5. ASSUME NEW p \in Appliers, WriteFails(p) PROVE Same \/ Known(p)
  BY <1>1, <1>2, <1>5 DEF WriteFails, Prepared
<1>6. ASSUME NEW p \in Appliers, DeliverFails(p) PROVE Same \/ Known(p)
  BY <1>1, <1>2, <1>6 DEF DeliverFails, Prepared
<1>7. ASSUME NEW p \in Appliers,
             NEW code \in Codes \ {"write_failed", "delivery_failed"}, FailsWith(p, code)
      PROVE  Same \/ row'.err \notin Flushed
  BY <1>2, <1>7, AbsentAssumption DEF Flushed
<1>8. \/ row' = row
      \/ \E p \in Appliers : \/ Prepare(p) \/ Observe(p) \/ Confirm(p) \/ WriteFails(p)
                             \/ DeliverFails(p)
                             \/ \E code \in Codes \ {"write_failed", "delivery_failed"} : FailsWith(p, code)
  BY ZenonT(40) DEF ConfigNext, AttemptStep, KernelStep, SaveRules, SetStatus, ReplaceInstance, ToggleRouting,
     GateChanges, BeginAttempt, Snapshot, PrepareRefused, Defer, StartReadback, ReadProxies,
     ReadRules, ReadAgain, ReadFails, NotVerified, Verified, MismatchCode, Codes, SendPut,
     PutAnswered, PutFails, ReloadUnanswered, GoOn, Flush, FlushFails, WriteHost,
     Deliver, Dies, KernelTakesProxies, KernelTakesRules, KernelStarts, KernelStops,
     configVars
<1> QED
  BY <1>3, <1>4, <1>5, <1>6, <1>7, <1>8

\* Where no flush is due no address goes out of date: the part Freshness.
LEMMA FreshnessStep ==
  ASSUME Typed, Lock, Current, Requests, Sources, Freshness, [ConfigNext]_configVars
  PROVE  Freshness'
<1>1. row.rev \in Int /\ row.rev =< src.rev
      /\ \A p \in Appliers : work[p].rev \in Int /\ work[p].rev =< src.rev
  BY DEF Typed, Rows, Works, Sources
<1>2. \A rev \in Int : rev =< src.rev /\ UpToDate(rev)
        => (rev = src'.rev /\ kernel'.up => kernel'.fresh)
  BY FreshnessKept DEF UpToDate
<1>3. row'.err \in Flushed => UpToDate(row.rev)'
  <2>1. CASE row'.err = row.err /\ row'.rev = row.rev
    BY <1>1, <1>2, <2>1 DEF Freshness, UpToDate
  <2>2. ASSUME NEW p \in Appliers, pc[p] \in {"write", "deliver"} \/ Ending(p),
               row'.rev = work[p].rev
        PROVE  UpToDate(row.rev)'
    <3>1. UpToDate(work[p].rev)
      BY <2>2 DEF Freshness, FreshFor
    <3> QED
      BY <1>1, <1>2, <2>2, <3>1 DEF UpToDate
  <2> QED
    BY <2>1, <2>2, ErrorMoves
<1>4. ASSUME NEW p \in Appliers, BeginAttempt(p) \/ AttemptStep(p) \/ Dies(p), NEW q \in Appliers
      PROVE  FreshFor(q)'
  <2>1. CASE q = p
    BY <1>4, <2>1, FreshOwn
  <2>2. CASE q # p
    <3>1. pc'[q] = pc[q] /\ work'[q] = work[q] /\ put'[q] = put[q]
      BY <1>4, <2>2, OthersKept
    <3> QED
      BY <3>1, FreshForKept DEF Freshness
  <2> QED
    BY <2>1, <2>2
<1>5. ASSUME kernel'.fresh, NEW q \in Appliers PROVE FreshFor(q)'
  BY <1>5 DEF FreshFor, UpToDate
<1>6. ASSUME NEW p \in Appliers, KernelTakesProxies(p), NEW q \in Appliers PROVE FreshFor(q)'
  BY <1>5, <1>6 DEF KernelTakesProxies, Typed, Kernels
<1>7. ASSUME NEW p \in Appliers, KernelTakesRules(p), NEW q \in Appliers PROVE FreshFor(q)'
  <2>1. put'[q] \in {put[q], Absent} => FreshFor(q)'
    BY <1>7, FreshForKept DEF KernelTakesRules, Freshness
  <2>2. CASE q = p /\ put'[q] \notin {put[q], Absent}
    <3>1. pc[p] = "putting" /\ put[p] # Absent /\ put[p].stage = "half"
      BY <1>7, <2>2 DEF KernelTakesRules, Typed
    <3>2. UpToDate(work[p].rev)
      BY <3>1 DEF Freshness, FreshFor
    <3>3. work[p].rev = src'.rev /\ kernel'.up => kernel'.fresh
      BY <1>1, <1>2, <3>2
    <3>4. pc'[p] = "putting" /\ work' = work /\ work[p].pass = "first"
          /\ (work[p].prevErr \in Flushed => UpToDate(work[p].prevRev))
      BY <1>7, <3>1 DEF KernelTakesRules, Lock, Freshness, FreshFor, Working
    <3>5. work[p].prevErr \in Flushed
            => (work[p].prevRev = src'.rev /\ kernel'.up => kernel'.fresh)
      BY <1>2, <3>4 DEF Typed, Works, Sources
    <3>6. UpToDate(work[p].rev)' /\ (work[p].prevErr \in Flushed => UpToDate(work[p].prevRev)')
      BY <3>3, <3>4, <3>5 DEF UpToDate
    <3> QED
      BY <2>2, <3>4, <3>6 DEF FreshFor, Ending, Reading
  <2>3. q # p => put'[q] = put[q]
    BY <1>7 DEF KernelTakesRules, Typed
  <2> QED
    BY <2>1, <2>2, <2>3
<1>8. ASSUME KernelStarts \/ KernelStops, NEW q \in Appliers PROVE FreshFor(q)'
  BY <1>5, <1>8 DEF KernelStarts, KernelStops
<1>9. ASSUME UNCHANGED <<pc, work, put>>, NEW q \in Appliers PROVE FreshFor(q)'
  BY <1>9, FreshForKept DEF Freshness
<1>10. \A q \in Appliers : FreshFor(q)'
  BY <1>4, <1>6, <1>7, <1>8, <1>9 DEF ConfigNext, KernelStep, SaveRules, SetStatus, ReplaceInstance,
     ToggleRouting, GateChanges, configVars
<1> QED
  BY <1>3, <1>10 DEF Freshness

-----------------------------------------------------------------------------
\* What the kernel runs, and the startup files, change in few steps.
LEMMA KernelMoves ==
  ASSUME Typed, [ConfigNext]_configVars
  PROVE  \/ KernelSame
         \/ \E p \in Appliers : KernelTakesProxies(p) \/ KernelTakesRules(p)
         \/ KernelStarts \/ KernelStops
<1>1. ASSUME NEW f \in BOOLEAN, kernel' = [kernel EXCEPT !.fresh = f] PROVE KernelSame
  BY <1>1 DEF KernelSame, Typed, Kernels
<1>2. (kernel.fresh \/ kernel.up) \in BOOLEAN
  OBVIOUS
<1>3. ReplaceInstance \/ (\E p \in Appliers : Flush(p) \/ FlushFails(p)) => KernelSame
  BY <1>1, <1>2 DEF ReplaceInstance, Flush, FlushFails, KernelSame
<1>4. kernel' = kernel => KernelSame
  BY DEF KernelSame
<1> QED
  BY <1>3, <1>4 DEF ConfigNext, AttemptStep, KernelStep, ToggleRouting, GateChanges, SaveRules,
     SetStatus, BeginAttempt, Snapshot, Prepare, PrepareRefused, Defer, StartReadback, ReadProxies,
     ReadRules, ReadAgain, ReadFails, SendPut, PutAnswered, PutFails, Observe, ReloadUnanswered,
     GoOn, WriteHost, WriteFails, Deliver, DeliverFails, Confirm, Dies, configVars

\* Who writes the two startup files.
LEMMA FilesMove ==
  ASSUME Typed, [ConfigNext]_configVars
  PROVE  \/ host' = host /\ boot' = boot
         \/ KernelStarts
         \/ \E p \in Appliers : WriteHost(p) \/ Deliver(p) \/ DeliverFails(p)
BY ZenonT(40) DEF ConfigNext, AttemptStep, KernelStep, ToggleRouting, GateChanges, SaveRules, ReplaceInstance,
   SetStatus, BeginAttempt, Snapshot, Prepare, PrepareRefused, Defer, StartReadback, ReadProxies,
   ReadRules, ReadAgain, ReadFails, SendPut, PutAnswered, PutFails, Observe, ReloadUnanswered,
   GoOn, Flush, FlushFails, WriteFails, Confirm, Dies, KernelTakesProxies, KernelTakesRules,
   KernelStops, files, configVars

\* With no attempt, or one that ends, nothing is said of it.
LEMMA DeliveredIdle ==
  ASSUME NEW p \in Appliers, pc'[p] = "idle"
  PROVE  DeliveredFor(p)'
BY DEF DeliveredFor, Working, Ending, Reading

\* Steps of the kernel and of the settings, seen by an attempt.
LEMMA DeliveredKept ==
  ASSUME Typed, Lock, Requests, RequestsInTime, [ConfigNext]_configVars, NEW p \in Appliers, DeliveredFor(p),
         pc'[p] = pc[p], work'[p] = work[p], host' = host, boot' = boot \/ KernelStarts,
         KernelSame \/ KernelStarts \/ KernelStops
           \/ \E q \in Appliers : KernelTakesProxies(q) \/ KernelTakesRules(q)
  PROVE  DeliveredFor(p)'
<1>1. work[p] \in Works /\ Stamp(p)' = Stamp(p) /\ (NeedsDelivery(p)' <=> NeedsDelivery(p))
      /\ (Working(p)' <=> Working(p)) /\ (Ending(p)' <=> Ending(p))
  BY DEF Typed, Stamp, NeedsDelivery, Stale, Working, Ending, Reading
<1>2. boot' = boot \/ boot' = host
  BY DEF KernelStarts
<1>3. ASSUME KernelHas(Stamp(p)), pc[p] # "putting", Working(p), KernelStarts => boot' = Stamp(p)
      PROVE  kernel'.up => kernel'.proxies = Stamp(p) /\ kernel'.rules = Stamp(p)
  <2>1. ~\E q \in Appliers : KernelTakesProxies(q) \/ KernelTakesRules(q)
    <3>1. \A q \in Appliers : put[q] = Absent
      BY <1>3, Alone DEF RequestsInTime
    <3> QED
      BY <3>1 DEF KernelTakesProxies, KernelTakesRules
  <2>2. CASE KernelSame
    BY <1>3, <2>2 DEF KernelHas, KernelSame
  <2>3. CASE KernelStarts \/ KernelStops
    BY <1>3, <2>3 DEF KernelStarts, KernelStops
  <2> QED
    BY <2>1, <2>2, <2>3
<1>4. ASSUME pc[p] \in {"observe", "observed", "flush", "write", "deliver"}, ~NeedsDelivery(p)
      PROVE  KernelHas(Stamp(p)) /\ boot = Stamp(p) /\ host = Stamp(p)
  <2>1. work[p].cfg # Absent
    BY <1>4, AbsentAssumption DEF Lock
  <2> QED
    BY <1>4, <2>1 DEF DeliveredFor, NeedsDelivery, Stale, Working, Ending, Reading
<1>5. pc[p] = "confirm" => KernelHas(Stamp(p)) /\ boot = Stamp(p) /\ host = Stamp(p)
  BY DEF DeliveredFor, Ending
<1>6. (pc[p] \in {"observe", "observed", "flush", "write", "deliver"} /\ ~NeedsDelivery(p))
        \/ pc[p] = "confirm" => KernelHas(Stamp(p))'
  BY <1>1, <1>2, <1>3, <1>4, <1>5 DEF Working, KernelHas
<1>7. /\ Working(p) /\ pc[p] # "deliver" /\ ~Ending(p) => host' = work[p].base
      /\ pc[p] = "deliver" => host' = Stamp(p)
      /\ Ending(p) => host' = Stamp(p) /\ boot' = Stamp(p)
      /\ Working(p) /\ ~Ending(p) /\ work[p].prevErr = Absent /\ work[p].prevHash # Absent
           => (host' = work[p].base => boot' = host')
  BY <1>2 DEF DeliveredFor
<1> QED
  BY <1>1, <1>6, <1>7 DEF DeliveredFor

\* A reading that matches while no request is late: both halves match.
LEMMA ReadingIsWhole ==
  ASSUME Typed, Lock, Requests, RequestsInTime, NEW p \in Appliers, pc[p] = "again",
         kernel.proxies = Stamp(p)
  PROVE  KernelHas(Stamp(p))
<1>1. \A q \in Appliers : put[q] = Absent
  BY Alone DEF RequestsInTime, Working
<1> QED
  BY <1>1 DEF Requests, Half, KernelHas

\* A step of the attempt itself keeps what it knows of the startup files.
LEMMA DeliveredOwn ==
  ASSUME Typed, Lock, Requests, Delivered, RequestsInTime, NEW p \in Appliers,
         BeginAttempt(p) \/ AttemptStep(p) \/ Dies(p)
  PROVE  DeliveredFor(p)'
<1> DEFINE ticket == work[p]
<1>1. /\ ticket \in Works /\ pc[p] \in Labels /\ DeliveredFor(p)
      /\ pc[p] \notin {"idle", "snapshot"} => ticket.cfg \in Configs /\ ticket.cfg # Absent
  BY AbsentAssumption DEF Typed, Delivered, Lock
<1> HIDE DEF ticket
<1>2. AttemptEnds(p) => DeliveredFor(p)'
  BY DeliveredIdle DEF AttemptEnds, Goto, Typed
<1>3. \A code : FailsWith(p, code) => DeliveredFor(p)'
  BY <1>2 DEF FailsWith
<1>4. /\ \A f \in BOOLEAN : kernel' = [kernel EXCEPT !.fresh = f] => KernelSame
      /\ kernel' = kernel => KernelSame
  BY DEF KernelSame, Typed, Kernels
<1>5. ASSUME KernelSame PROVE \A v : KernelHas(v)
        => (kernel'.up => kernel'.proxies = v /\ kernel'.rules = v)
  BY <1>5 DEF KernelSame, KernelHas
\* Steps before the delivery.
<1>6. ASSUME NEW label \in Labels, pc'[p] = label, NEW w, work'[p] = w, Working(p), w.base = ticket.base,
             w.prevErr = ticket.prevErr, w.prevHash = ticket.prevHash, UNCHANGED files, KernelSame,
             ~Ending(p), pc[p] # "deliver", label \notin {"deliver", "confirm"},
             label \in {"proxies", "rules", "again"} => w.pass # "final",
             label \in {"observe", "observed", "flush", "write"}
               => w.gen = ticket.gen /\ w.cfg = ticket.cfg /\ (~NeedsDelivery(p) => KernelHas(Stamp(p)))
      PROVE  DeliveredFor(p)'
  <2>1. host' = host /\ boot' = boot /\ host = ticket.base
        /\ (ticket.prevErr = Absent /\ ticket.prevHash # Absent => boot = host)
    BY <1>1, <1>6 DEF DeliveredFor, files, ticket
  <2>2. ~Ending(p)'
    BY <1>6 DEF Ending, Reading
  <2>3. ASSUME label \in {"observe", "observed", "flush", "write"}, ~NeedsDelivery(p)'
        PROVE  KernelHas(Stamp(p))'
    <3>1. Stamp(p)' = Stamp(p) /\ ~NeedsDelivery(p)
      BY <1>6, <2>3 DEF Stamp, NeedsDelivery, Stale, ticket
    <3> QED
      BY <1>5, <1>6, <2>3, <3>1 DEF KernelHas
  <2> QED
    BY <1>6, <2>1, <2>2, <2>3 DEF DeliveredFor
\* Steps after it.
<1>7. ASSUME Ending(p), NEW label \in {"rules", "again", "confirm"}, pc'[p] = label,
             NEW w, work'[p] = w, w.pass = "final",
             w.gen = ticket.gen, w.cfg = ticket.cfg, UNCHANGED files, KernelSame,
             label = "confirm" => KernelHas(Stamp(p))
      PROVE  DeliveredFor(p)'
  <2>1. host = Stamp(p) /\ boot = Stamp(p) /\ Stamp(p)' = Stamp(p)
    BY <1>1, <1>7 DEF DeliveredFor, Stamp, ticket
  <2>2. label = "confirm" => KernelHas(Stamp(p))'
    BY <1>5, <1>7, <2>1 DEF KernelHas
  <2>3. Ending(p)'
    BY <1>7 DEF Ending, Reading
  <2> QED
    BY <1>7, <2>1, <2>2, <2>3 DEF DeliveredFor, files
<1>8. ASSUME NEW label \in Labels, Goto(p, label), work' = work, Working(p), UNCHANGED files,
             KernelSame, ~Ending(p), pc[p] # "deliver", label \notin {"deliver", "confirm"},
             label \in {"proxies", "rules", "again"} => ticket.pass # "final",
             label \in {"observe", "observed", "flush", "write"} /\ ~NeedsDelivery(p)
               => KernelHas(Stamp(p))
      PROVE  DeliveredFor(p)'
  BY <1>6, <1>8 DEF Goto, Typed, ticket
<1>9. CASE BeginAttempt(p)
  <2>1. /\ pc'[p] = "snapshot" /\ work'[p].base = host /\ work'[p].prevErr = row.err
        /\ work'[p].prevHash = row.appHash /\ host' = host /\ boot' = boot
    BY <1>9 DEF BeginAttempt, Goto, Typed, NoJob, files
  <2>2. row.err = Absent /\ row.appHash # Absent => boot = host
    BY DEF Delivered, Settled
  <2> QED
    BY <2>1, <2>2 DEF DeliveredFor, Ending, Reading
<1>10. CASE Snapshot(p) \/ Prepare(p)
  <2>1. /\ pc'[p] \in {"prepare", "prepared"} /\ work'[p].base = ticket.base
        /\ work'[p].prevErr = ticket.prevErr /\ work'[p].prevHash = ticket.prevHash
    BY <1>1, <1>10 DEF Snapshot, Prepare, Goto, Typed, ticket, Works
  <2>2. KernelSame /\ Working(p) /\ ~Ending(p) /\ pc[p] # "deliver" /\ UNCHANGED files
    BY <1>4, <1>10 DEF Snapshot, Prepare, Working, Ending, Reading
  <2> QED
    BY <1>6, <2>1, <2>2 DEF Labels
<1>11. CASE PrepareRefused(p)
  <2>1. KernelSame /\ Working(p) /\ ~Ending(p) /\ pc[p] # "deliver" /\ UNCHANGED files
    BY <1>4, <1>11 DEF PrepareRefused, Working, Ending, Reading
  <2> QED
    BY <1>2, <1>8, <1>11, <2>1 DEF PrepareRefused, Labels
<1>12. CASE Defer(p) \/ ReloadUnanswered(p) \/ FlushFails(p) \/ WriteFails(p) \/ DeliverFails(p)
              \/ Confirm(p) \/ Dies(p)
  BY <1>2, <1>3, <1>12 DEF Defer, ReloadUnanswered, FlushFails, WriteFails, DeliverFails, Confirm,
     Dies
<1>13. CASE StartReadback(p)
  <2>1. KernelSame /\ Working(p) /\ ~Ending(p) /\ pc[p] # "deliver" /\ UNCHANGED files
        /\ ticket.pass = "first"
    BY <1>4, <1>13 DEF StartReadback, Working, Ending, Reading, Lock, ticket
  <2> QED
    BY <1>8, <1>13, <2>1 DEF StartReadback, Labels
<1>14. ASSUME NEW code, NotVerified(p, code), Reading(p), kernel' = kernel, UNCHANGED files
       PROVE  DeliveredFor(p)'
  <2>1. ticket.pass = "first" => ~Ending(p)
    BY <1>14 DEF Ending, Reading, ticket
  <2> QED
    BY <1>3, <1>4, <1>8, <1>14, <2>1 DEF NotVerified, Labels, ticket, Reading, Working
<1>15. ASSUME Reading(p), NEW label \in Labels, pc'[p] = label, NEW w, work'[p] = w,
              w.base = ticket.base, w.prevErr = ticket.prevErr, w.prevHash = ticket.prevHash,
              w.gen = ticket.gen, w.cfg = ticket.cfg, w.pass = ticket.pass, kernel' = kernel, UNCHANGED files,
              label \in {"rules", "again"}
                \/ (KernelHas(Stamp(p)) /\ label = IF ticket.pass = "final" THEN "confirm" ELSE "observe")
       PROVE  DeliveredFor(p)'
  <2>1. Working(p) /\ pc[p] # "deliver" /\ (Ending(p) <=> ticket.pass = "final") /\ KernelSame
    BY <1>4, <1>15 DEF Ending, Reading, ticket, Working
  <2>2. CASE ticket.pass = "final"
    BY <1>7, <1>15, <2>1, <2>2
  <2>3. CASE ticket.pass # "final"
    BY <1>6, <1>15, <2>1, <2>3
  <2> QED
    BY <2>2, <2>3
<1>16. CASE ReadProxies(p)
  <2>1. CASE Goto(p, "rules") /\ UNCHANGED <<row, lock, work, put>>
    BY <1>15, <1>16, <2>1 DEF ReadProxies, Reading, Labels, ticket, Goto, Typed, settings
  <2> QED
    BY <1>14, <1>16, <2>1 DEF ReadProxies, Reading
<1>17. CASE ReadRules(p)
  <2>1. CASE Goto(p, "again") /\ work' = [work EXCEPT ![p].seen = Seen(p)]
    <3>1. /\ pc'[p] = "again" /\ work'[p].base = ticket.base /\ work'[p].prevErr = ticket.prevErr
          /\ work'[p].prevHash = ticket.prevHash /\ work'[p].gen = ticket.gen
          /\ work'[p].cfg = ticket.cfg /\ work'[p].pass = ticket.pass
      BY <1>1, <2>1 DEF Goto, Typed, ticket, Works
    <3>2. Reading(p) /\ kernel' = kernel /\ UNCHANGED files
      BY <1>17 DEF ReadRules, Reading
    <3> QED
      BY <1>15, <3>1, <3>2 DEF Labels
  <2> QED
    BY <1>14, <1>17, <2>1 DEF ReadRules, Reading
<1>18. CASE ReadAgain(p)
  <2>1. Reading(p) /\ kernel' = kernel /\ UNCHANGED files
    BY <1>18 DEF ReadAgain, Reading
  <2>2. CASE Verified(p) /\ kernel.proxies = Stamp(p)
    <3> DEFINE l == IF ticket.pass = "final" THEN "confirm" ELSE "observe"
    <3>1. /\ pc'[p] = l /\ work'[p].base = ticket.base /\ work'[p].prevErr = ticket.prevErr
          /\ work'[p].prevHash = ticket.prevHash /\ work'[p].gen = ticket.gen
          /\ work'[p].cfg = ticket.cfg /\ work'[p].pass = ticket.pass
      BY <1>1, <2>2 DEF Verified, Goto, Typed, ticket, Works
    <3>2. KernelHas(Stamp(p))
      BY <1>18, <2>2, ReadingIsWhole DEF ReadAgain
    <3>3. l \in Labels
      BY DEF Labels
    <3> QED
      BY <1>15, <2>1, <3>1, <3>2, <3>3
  <2> QED
    BY <1>14, <1>18, <2>1, <2>2 DEF ReadAgain, ProxiesUnchanged
<1>19. CASE ReadFails(p)
  BY <1>14, <1>19 DEF ReadFails, Reading
<1>20. CASE SendPut(p)
  <2>1. KernelSame /\ Working(p) /\ ~Ending(p) /\ pc[p] # "deliver" /\ UNCHANGED files
    BY <1>4, <1>20 DEF SendPut, Working, Ending, Reading
  <2> QED
    BY <1>8, <1>20, <2>1 DEF SendPut, Labels
<1>21. ASSUME NEW failed, SecondReadback(p, failed), pc[p] \in {"put", "putting"}, kernel' = kernel,
              UNCHANGED files
       PROVE  DeliveredFor(p)'
  <2>1. /\ pc'[p] = "proxies" /\ work'[p].base = ticket.base /\ work'[p].prevErr = ticket.prevErr
        /\ work'[p].prevHash = ticket.prevHash /\ work'[p].pass = "second"
    BY <1>1, <1>21 DEF SecondReadback, Goto, Typed, ticket, Works
  <2>2. KernelSame /\ Working(p) /\ ~Ending(p) /\ pc[p] # "deliver"
    BY <1>4, <1>21 DEF Working, Ending, Reading
  <2> QED
    BY <1>6, <1>21, <2>1, <2>2 DEF Labels
<1>22. CASE PutAnswered(p) \/ PutFails(p)
  BY <1>21, <1>22 DEF PutAnswered, PutFails
<1>23. CASE Observe(p) \/ GoOn(p) \/ Flush(p)
  <2>1. KernelSame /\ Working(p) /\ ~Ending(p) /\ pc[p] # "deliver" /\ UNCHANGED files
        /\ (~NeedsDelivery(p) => KernelHas(Stamp(p)))
    BY <1>1, <1>4, <1>23 DEF Observe, GoOn, Flush, Working, Ending, Reading, DeliveredFor
  <2> QED
    BY <1>2, <1>8, <1>23, <2>1 DEF Observe, GoOn, Flush, Labels
<1>24. CASE WriteHost(p)
  <2>1. /\ pc'[p] = "deliver" /\ work' = work /\ boot' = boot /\ KernelSame /\ pc[p] = "write"
        /\ Stamp(p)' = Stamp(p) /\ (NeedsDelivery(p)' <=> NeedsDelivery(p))
        /\ host' = IF ticket.base # Stamp(p) THEN Stamp(p) ELSE host
    BY <1>4, <1>24 DEF WriteHost, Goto, Typed, Stamp, NeedsDelivery, Stale, ticket
  <2>2. host = ticket.base /\ (ticket.prevErr = Absent /\ ticket.prevHash # Absent => boot = host)
        /\ (~NeedsDelivery(p) => KernelHas(Stamp(p)))
    BY <1>1, <2>1 DEF DeliveredFor, Working, Ending, Reading, ticket
  <2>3. ~NeedsDelivery(p) => KernelHas(Stamp(p))'
    BY <1>5, <2>1, <2>2 DEF KernelHas
  <2> QED
    BY <2>1, <2>2, <2>3 DEF DeliveredFor, Working, Ending, Reading, ticket
<1>25. CASE Deliver(p)
  <2>1. /\ host' = host /\ host = Stamp(p) /\ KernelSame /\ pc[p] = "deliver"
        /\ boot' = IF NeedsDelivery(p) THEN Stamp(p) ELSE boot
    BY <1>1, <1>4, <1>25 DEF Deliver, DeliveredFor
  <2>2. ~NeedsDelivery(p) => boot = Stamp(p) /\ KernelHas(Stamp(p))
    BY <1>1, <2>1 DEF DeliveredFor, NeedsDelivery, Stale, Working, Ending, Reading, ticket
  <2>3. CASE Goto(p, "proxies") /\ work' = [work EXCEPT ![p].pass = "final"]
    <3>1. pc'[p] = "proxies" /\ work'[p].pass = "final" /\ Stamp(p)' = Stamp(p)
      BY <1>1, <2>3 DEF Goto, Typed, Stamp, Works, ticket
    <3> QED
      BY <2>1, <2>2, <3>1 DEF DeliveredFor, Working, Ending, Reading
  <2>4. CASE ~ReadsOnceMore(p) /\ Goto(p, "confirm") /\ UNCHANGED work
    <3>1. pc'[p] = "confirm" /\ Stamp(p)' = Stamp(p) /\ ~NeedsDelivery(p)
      BY <2>4 DEF Goto, Typed, Stamp, ReadsOnceMore
    <3>2. KernelHas(Stamp(p))'
      BY <1>5, <2>1, <2>2, <3>1 DEF KernelHas
    <3> QED
      BY <2>1, <2>2, <3>1, <3>2 DEF DeliveredFor, Working, Ending, Reading
  <2> QED
    BY <1>25, <2>3, <2>4 DEF Deliver
<1> QED
  BY <1>9, <1>10, <1>11, <1>12, <1>13, <1>16, <1>17, <1>18, <1>19, <1>20, <1>22, <1>23, <1>24,
     <1>25 DEF AttemptStep

\* What a step can do to the journal row as far as its confirmation goes.
LEMMA RowSettles ==
  ASSUME Typed, [ConfigNext]_configVars
  PROVE  \/ row' = row
         \/ row'.err # Absent
            /\ (row'.verified \/ (row'.verified = row.verified /\ row'.appHash = row.appHash))
         \/ \E p \in Appliers : Confirm(p)
<1> DEFINE Opens == row'.err # Absent
             /\ (row'.verified \/ (row'.verified = row.verified /\ row'.appHash = row.appHash))
<1>1. row \in Rows
  BY DEF Typed
<1>2. ASSUME NEW p \in Appliers, NEW code \in Codes, FailsWith(p, code) PROVE row' = row \/ Opens
  BY <1>1, <1>2, AbsentAssumption DEF FailsWith, Rows
<1>3. ASSUME NEW p \in Appliers, Prepare(p) \/ Observe(p) PROVE row' = row \/ Opens
  BY ZenonT(40), <1>1, <1>3, AbsentAssumption DEF Prepare, Observe, Rows, Codes
<1>4. \/ row' = row
      \/ \E p \in Appliers : Prepare(p) \/ Observe(p) \/ Confirm(p) \/ \E code \in Codes : FailsWith(p, code)
  BY ZenonT(40) DEF ConfigNext, AttemptStep, KernelStep, SaveRules, SetStatus, ReplaceInstance, ToggleRouting,
     GateChanges, BeginAttempt, Snapshot, PrepareRefused, Defer, StartReadback, ReadProxies,
     ReadRules, ReadAgain, ReadFails, NotVerified, Verified, MismatchCode, Codes, SendPut,
     PutAnswered, PutFails, ReloadUnanswered, GoOn, Flush, FlushFails, WriteHost, WriteFails,
     Deliver, DeliverFails, Dies, KernelTakesProxies, KernelTakesRules, KernelStarts, KernelStops,
     configVars
<1> QED
  BY <1>2, <1>3, <1>4

\* Nothing moves a settled version but a new attempt.
LEMMA SettledStep ==
  ASSUME Typed, Lock, Current, Requests, Delivered, RequestsInTime, [ConfigNext]_configVars
  PROVE  (~row'.verified => row'.appHash = Absent) /\ Settled'
<1>1. CASE row' = row
  <2>1. ASSUME row.verified, row.err = Absent
        PROVE  host' = Newest /\ boot' = Newest /\ KernelHas(Newest)' /\ Newest' = Newest
    <3>1. \A p \in Appliers : ~Prepared(p) /\ put[p] = Absent
      BY <2>1 DEF Current, RequestsInTime, Prepared
    <3>2. /\ ~\E p \in Appliers : WriteHost(p) \/ Deliver(p) \/ DeliverFails(p)
          /\ ~\E p \in Appliers : KernelTakesProxies(p) \/ KernelTakesRules(p)
      BY <3>1 DEF WriteHost, Deliver, DeliverFails, KernelTakesProxies, KernelTakesRules, Prepared
    <3>3. host = Newest /\ boot = Newest /\ KernelHas(Newest) /\ Newest' = Newest
      BY <1>1, <2>1 DEF Delivered, Settled, Newest
    <3>4. host' = Newest /\ boot' = Newest
      BY <3>2, <3>3, FilesMove DEF KernelStarts
    <3>5. CASE KernelSame
      <4>1. kernel.up => kernel.proxies = Newest /\ kernel.rules = Newest
        BY <3>3 DEF KernelHas
      <4>2. kernel'.up => kernel'.proxies = Newest' /\ kernel'.rules = Newest'
        BY <3>3, <3>5, <4>1 DEF KernelSame
      <4> QED
        BY <3>3, <3>4, <4>2 DEF KernelHas
    <3>6. CASE KernelStarts \/ KernelStops
      BY <3>3, <3>4, <3>6 DEF KernelStarts, KernelStops, KernelHas
    <3> QED
      BY <3>2, <3>3, <3>4, <3>5, <3>6, KernelMoves
  <2> QED
    BY <1>1, <2>1 DEF Delivered, Settled
<1>2. CASE row'.err # Absent
           /\ (row'.verified \/ (row'.verified = row.verified /\ row'.appHash = row.appHash))
  BY <1>2 DEF Delivered, Settled
<1>3. ASSUME NEW p \in Appliers, Confirm(p)
      PROVE  (~row'.verified => row'.appHash = Absent) /\ Settled'
  <2>1. /\ row' = [row EXCEPT !.appGen = row.gen, !.appHash = row.hash, !.verified = TRUE, !.err = Absent]
        /\ Newest = Stamp(p) /\ host' = host /\ boot' = boot /\ kernel' = kernel
        /\ host = Stamp(p) /\ boot = Stamp(p) /\ KernelHas(Stamp(p))
    BY <1>3 DEF Confirm, Current, Prepared, TicketIsCurrent, Newest, Stamp, Delivered, DeliveredFor,
       Ending, files
  <2>2. /\ Newest' = Newest /\ row'.verified /\ row'.appHash = row'.hash /\ row'.appGen = row'.gen
    BY <2>1 DEF Typed, Rows, Newest
  <2>3. KernelHas(Newest)'
    BY <2>1, <2>2 DEF KernelHas
  <2> QED
    BY <2>1, <2>2, <2>3 DEF Settled
<1> QED
  BY <1>1, <1>2, <1>3, RowSettles

\* While no request is late every step keeps the part Delivered.
LEMMA DeliveredStep ==
  ASSUME Typed, Lock, Current, Requests, Delivered, RequestsInTime, [ConfigNext]_configVars
  PROVE  Delivered'
<1>1. ASSUME NEW p \in Appliers, BeginAttempt(p) \/ AttemptStep(p) \/ Dies(p), NEW q \in Appliers
      PROVE  DeliveredFor(q)'
  <2>1. CASE q = p
    BY <1>1, <2>1, DeliveredOwn
  <2>2. CASE q # p
    <3>1. BeginAttempt(p) \/ pc[p] # "idle"
      BY <1>1 DEF AttemptStep, Snapshot, Prepare, PrepareRefused, Defer, StartReadback, ReadProxies,
         ReadRules, ReadAgain, ReadFails, SendPut, PutAnswered, PutFails, Observe, ReloadUnanswered,
         GoOn, Flush, FlushFails, WriteHost, WriteFails, Deliver, DeliverFails, Confirm, Dies
    <3>2. pc[q] = "idle"
      BY <2>2, <3>1, Alone, ConfigAssumption DEF Working, Lock, BeginAttempt, LockFree
    <3>3. pc'[q] = "idle"
      BY <1>1, <2>2, <3>2, OthersKept
    <3> QED
      BY <3>3, DeliveredIdle
  <2> QED
    BY <2>1, <2>2
<1>2. ASSUME UNCHANGED <<pc, work, host>>, boot' = boot \/ KernelStarts,
             KernelSame \/ KernelStarts \/ KernelStops
               \/ \E q \in Appliers : KernelTakesProxies(q) \/ KernelTakesRules(q),
             NEW p \in Appliers
      PROVE  DeliveredFor(p)'
  BY <1>2, DeliveredKept DEF Delivered
<1>3. ASSUME NEW q \in Appliers, KernelTakesProxies(q) \/ KernelTakesRules(q), NEW p \in Appliers
      PROVE  DeliveredFor(p)'
  BY <1>2, <1>3 DEF KernelTakesProxies, KernelTakesRules, files
<1>4. ASSUME KernelStarts \/ KernelStops, NEW p \in Appliers PROVE DeliveredFor(p)'
  BY <1>2, <1>4 DEF KernelStarts, KernelStops, files
<1>5. ASSUME SaveRules \/ SetStatus \/ ReplaceInstance \/ ToggleRouting \/ GateChanges
               \/ UNCHANGED configVars, NEW p \in Appliers
      PROVE  DeliveredFor(p)'
  <2>1. KernelSame
    BY <1>5 DEF KernelSame, SaveRules, SetStatus, ReplaceInstance, ToggleRouting, GateChanges, configVars,
       Typed, Kernels
  <2>2. UNCHANGED <<pc, work, host, boot>>
    BY <1>5 DEF SaveRules, SetStatus, ReplaceInstance, ToggleRouting, GateChanges, configVars, files
  <2> QED
    BY <1>2, <2>1, <2>2
<1>6. \A p \in Appliers : DeliveredFor(p)'
  BY <1>1, <1>3, <1>4, <1>5 DEF ConfigNext, KernelStep
<1> QED
  BY <1>6, SettledStep DEF Delivered

-----------------------------------------------------------------------------
\* The empty journal satisfies every part.
LEMMA ConfigInitially ==
  ASSUME ConfigInit
  PROVE  ConfigInv /\ Delivered
<1>1. row.rev = -1 /\ row.err = Absent /\ row.gen = 0 /\ row.hash = Absent /\ ~row.verified
      /\ row.appHash = Absent
  BY DEF ConfigInit
<1>2. \A p \in Appliers : /\ pc[p] = "idle" /\ put[p] = Absent /\ work[p] = NoJob
  BY DEF ConfigInit
<1>3. kernel.proxies = Absent /\ kernel.rules = Absent /\ host = Absent /\ boot = Absent
  BY DEF ConfigInit
<1>4. Typed
  <2>1. row \in Rows
    BY DEF ConfigInit, Rows, Errors
  <2>2. kernel \in Kernels
    BY DEF ConfigInit, Kernels
  <2>3. src \in Sourcing
    BY DEF ConfigInit, Sourcing
  <2>4. work \in [Appliers -> Works] /\ pc \in [Appliers -> Labels] /\ put \in [Appliers -> Puts]
    BY NoJobType DEF ConfigInit, Labels, Puts
  <2> QED
    BY <2>1, <2>2, <2>3, <2>4 DEF ConfigInit, Typed
<1>5. Lock
  BY <1>2, ConfigAssumption DEF Lock, Working, ConfigInit
<1>6. Current
  BY <1>2 DEF Current, Prepared
<1>7. Requests
  BY <1>2, <1>3 DEF Requests, Half, Sending, Reading
<1>8. Stamped
  <2>1. \A c \in Copies \ {Absent} : c = Newest
    BY <1>2, <1>3 DEF Copies
  <2>2. Newest.gen = 0
    BY <1>1 DEF Newest
  <2> QED
    BY <1>1, <2>1, <2>2 DEF Stamped, OneConfigPerGeneration
<1>9. Sources
  <2>1. src.rev = 0
    BY DEF ConfigInit
  <2> QED
    BY <1>1, <1>2, <2>1 DEF Sources, NoJob
<1>10. Freshness
  <2>1. kernel.fresh
    BY DEF ConfigInit
  <2> QED
    BY <2>1 DEF Freshness, FreshFor, UpToDate
<1>11. VerifiedWasRunning
  BY <1>2 DEF VerifiedWasRunning, ReadBack
<1>12. Delivered
  BY <1>1, <1>2 DEF Delivered, Settled, DeliveredFor, Working, Ending, Reading
<1> QED
  BY <1>4, <1>5, <1>6, <1>7, <1>8, <1>9, <1>10, <1>11, <1>12 DEF ConfigInv

\* Every step keeps the invariant.
LEMMA ConfigStep ==
  ASSUME ConfigInv, [ConfigNext]_configVars
  PROVE  ConfigInv'
BY TypedStep, LockStep, CurrentStep, RequestsStep, VersionsStep, SourcesStep, FreshnessStep,
   VerifiedStep DEF ConfigInv

\* The invariant of the attempts, with late requests or without.
THEOREM ConfigInvariance == ConfigSpec => []ConfigInv
<1>1. ConfigInit => ConfigInv
  BY ConfigInitially
<1>2. ConfigInv /\ [ConfigNext]_configVars => ConfigInv'
  BY ConfigStep
<1> QED
  BY <1>1, <1>2, PTL DEF ConfigSpec

\* What an attempt reports as read back was running: requests that arrive late cannot
\* put a match together from two versions (config_apply.rs:100-117).
THEOREM ReadbackIsTrue == ConfigSpec => []VerifiedWasRunning
<1>1. ConfigInv => VerifiedWasRunning
  BY DEF ConfigInv
<1> QED
  BY <1>1, ConfigInvariance, PTL

\* A generation number is given to one configuration only, late requests or not
\* (config_apply_store.rs, prepare).
THEOREM NumbersAreTaken == ConfigSpec => []OneConfigPerGeneration
<1>1. ConfigInv => OneConfigPerGeneration
  BY DEF ConfigInv, Stamped
<1> QED
  BY <1>1, ConfigInvariance, PTL

\* Nobody is left with the addresses of an instance that was replaced once the journal
\* says that nothing is pending, late requests or not.
THEOREM ConfirmedMeansFresh == ConfigSpec => []ConfirmedIsFresh
<1>1. ConfigInv => ConfirmedIsFresh
  BY DEF ConfigInv, ConfirmedIsFresh, Freshness, Flushed, UpToDate, Pending
<1> QED
  BY <1>1, ConfigInvariance, PTL

\* As long as no PUT outlives its attempt, "confirmed" is worth what it says: the kernel
\* runs the newest version, in both halves, and so will a kernel that starts again.  The
\* attempt gives a PUT up after 10 s (config_apply.rs:183-184): in a behaviour in which
\* the kernel carries such a one out later, ReadbackIsTrue and ConfirmedMeansFresh hold.
THEOREM ConfirmedIsTrue == ConfigSpec /\ []RequestsInTime => []Confirmed
<1>1. ConfigInit => ConfigInv /\ Delivered
  BY ConfigInitially
<1>2. ConfigInv /\ Delivered /\ RequestsInTime /\ [ConfigNext]_configVars => ConfigInv' /\ Delivered'
  BY ConfigStep, DeliveredStep DEF ConfigInv
<1>3. ConfigInv /\ Delivered => Confirmed
  <2> SUFFICES ASSUME ConfigInv, Delivered PROVE Confirmed
    OBVIOUS
  <2>1. OneConfigPerGeneration
    BY DEF ConfigInv, Stamped
  <2>2. ConfirmedIsFresh
    BY DEF ConfigInv, ConfirmedIsFresh, Freshness, Flushed, UpToDate, Pending
  <2>3. ASSUME ~Pending
        PROVE  /\ host = Newest /\ boot = Newest /\ KernelHas(Newest)
               /\ row.hash \in Tracked
    <3>1. host = Newest /\ boot = Newest /\ KernelHas(Newest)
      BY <2>3 DEF Pending, Delivered, Settled
    <3>2. row.hash \in TrackedAs(row.off) /\ row.off = off
      BY <2>3 DEF Pending, ConfigInv, Sources
    <3> QED
      BY <3>1, <3>2 DEF TrackedAs, Tracked
  <2> QED
    BY <2>1, <2>2, <2>3 DEF Confirmed, ConfirmedRuns, ConfirmedSurvives, KernelHas
<1> QED
  BY <1>1, <1>2, <1>3, PTL DEF ConfigSpec

-----------------------------------------------------------------------------
\* The bounds.  A version gets a number of its own when it differs from the one
\* before, so that each number was paid for with an edit, but for the first: what an
\* attempt takes is the switch as it began (o) and the settings as it read them (i),
\* at two times between which there may be edits.
Now == <<src.content, src.status, gated>>
Inputs == Contents \X Statuses \X BOOLEAN
Version(i, o) == Render(i[1], i[2], o, i[3])
Apart(x, y) == IF x = y THEN 0 ELSE 1

\* The numbers of the journal r, its way to the switch o and the settings i, and from
\* there to what the switch f and the settings j are now, within n edits.
Covers(r, o, i, f, j, n) ==
  IF r.hash = Absent
  THEN r.gen = 0 /\ Apart(o, f) + Apart(i, j) =< n
  ELSE \E u \in Inputs :
         /\ r.hash = Version(u, r.off)
         /\ r.gen + Apart(r.off, o) + Apart(o, f) + Apart(u, i) + Apart(i, j) =< n + 1

LEMMA ApartIs ==
  /\ \A x, y : Apart(x, y) \in {0, 1}
  /\ \A x : Apart(x, x) = 0
  /\ \A x, y, z : Apart(x, z) =< Apart(x, y) + Apart(y, z)
BY DEF Apart

\* One more edit covers one more change, of the switch or of the settings.
LEMMA CoversOn ==
  ASSUME NEW r, NEW s, s.hash = r.hash, s.gen = r.gen, s.off = r.off, r.gen \in Nat,
         NEW o, NEW i, NEW f, NEW j, NEW n \in Nat, NEW g, NEW h, NEW k \in Nat,
         Covers(r, o, i, f, j, n),
         \/ g = f /\ h = j /\ k = n
         \/ k = n + 1 /\ (g = f \/ h = j)
  PROVE  Covers(s, o, i, g, h, k)
<1>1. Apart(o, g) + Apart(i, h) + n =< Apart(o, f) + Apart(i, j) + k
      /\ Apart(o, g) \in {0, 1} /\ Apart(i, h) \in {0, 1} /\ Apart(o, f) \in {0, 1} /\ Apart(i, j) \in {0, 1}
  BY DEF Apart
<1>2. CASE r.hash = Absent
  BY <1>1, <1>2 DEF Covers
<1>3. CASE r.hash # Absent
  <2>1. PICK u \in Inputs :
          /\ r.hash = Version(u, r.off)
          /\ r.gen + Apart(r.off, o) + Apart(o, f) + Apart(u, i) + Apart(i, j) =< n + 1
    BY <1>3 DEF Covers
  <2>2. Apart(r.off, o) \in {0, 1} /\ Apart(u, i) \in {0, 1}
    BY ApartIs
  <2>3. r.gen + Apart(r.off, o) + Apart(o, g) + Apart(u, i) + Apart(i, h) =< k + 1
    BY <1>1, <2>1, <2>2
  <2> QED
    BY <1>3, <2>1, <2>3 DEF Covers
<1> QED
  BY <1>2, <1>3

\* What covers a way covers the shorter ones.
LEMMA CoversLess ==
  ASSUME NEW r, r.gen \in Nat, NEW o, NEW i, NEW f, NEW j, NEW n \in Nat, Covers(r, o, i, f, j, n)
  PROVE  /\ Covers(r, o, j, f, j, n) /\ Covers(r, f, j, f, j, n)
         /\ r.gen =< n + 1
<1>1. Apart(o, f) \in {0, 1} /\ Apart(i, j) \in {0, 1} /\ Apart(f, f) = 0 /\ Apart(j, j) = 0
  BY ApartIs
<1>2. CASE r.hash = Absent
  BY <1>1, <1>2 DEF Covers
<1>3. CASE r.hash # Absent
  <2>1. PICK u \in Inputs :
          /\ r.hash = Version(u, r.off)
          /\ r.gen + Apart(r.off, o) + Apart(o, f) + Apart(u, i) + Apart(i, j) =< n + 1
    BY <1>3 DEF Covers
  <2>2. /\ Apart(r.off, o) \in {0, 1} /\ Apart(u, i) \in {0, 1}
        /\ Apart(u, j) \in {0, 1} /\ Apart(r.off, f) \in {0, 1}
        /\ Apart(u, j) =< Apart(u, i) + Apart(i, j)
        /\ Apart(r.off, f) =< Apart(r.off, o) + Apart(o, f)
    BY ApartIs
  <2>3. /\ r.gen + Apart(r.off, o) + Apart(o, f) + Apart(u, j) + Apart(j, j) =< n + 1
        /\ r.gen + Apart(r.off, f) + Apart(f, f) + Apart(u, j) + Apart(j, j) =< n + 1
        /\ r.gen =< n + 1
    BY <1>1, <2>1, <2>2
  <2> QED
    BY <1>3, <2>1, <2>3 DEF Covers
<1> QED
  BY <1>2, <1>3

\* A version that differs was covered.
LEMMA CoversNext ==
  ASSUME NEW r, NEW s, r.gen \in Nat, NEW o, NEW m \in Inputs, NEW f, NEW j, NEW n \in Nat,
         Covers(r, o, m, f, j, n),
         s.hash = Version(m, o), s.off = o, s.hash # Absent,
         s.gen = IF r.hash # s.hash THEN r.gen + 1 ELSE r.gen
  PROVE  Covers(s, f, j, f, j, n)
<1>1. /\ Apart(o, f) \in {0, 1} /\ Apart(m, j) \in {0, 1} /\ Apart(f, f) = 0 /\ Apart(j, j) = 0
  BY ApartIs
<1>2. s.gen + Apart(o, f) + Apart(m, j) =< n + 1 /\ s.gen \in Nat
  <2>1. CASE r.hash = Absent
    BY <1>1, <2>1 DEF Covers
  <2>2. CASE r.hash # Absent
    <3>1. PICK u \in Inputs :
            /\ r.hash = Version(u, r.off)
            /\ r.gen + Apart(r.off, o) + Apart(o, f) + Apart(u, m) + Apart(m, j) =< n + 1
      BY <2>2 DEF Covers
    <3>2. Apart(r.off, o) \in {0, 1} /\ Apart(u, m) \in {0, 1}
      BY ApartIs
    <3>3. r.hash # s.hash => Apart(r.off, o) = 1 \/ Apart(u, m) = 1
      BY <3>1 DEF Apart
    <3> QED
      BY <1>1, <3>1, <3>2, <3>3
  <2> QED
    BY <2>1, <2>2
<1>3. s.gen + Apart(s.off, f) + Apart(f, f) + Apart(m, j) + Apart(j, j) =< n + 1
  BY <1>1, <1>2
<1> QED
  BY <1>3 DEF Covers

\* In every state the number of the journal is paid for, and so is the next one.
Paid(o, i) == Covers(row, o, i, off, Now, edits)
PaidFor(p) ==
  /\ pc[p] = "snapshot" => Paid(work[p].off, Now)
  /\ pc[p] = "prepare" => \E m \in Inputs : work[p].cfg = Version(m, work[p].off) /\ Paid(work[p].off, m)
Earned ==
  /\ edits \in 0 .. MaxEdits /\ failures \in 0 .. MaxFailures /\ src.rev =< edits
  /\ Paid(off, Now) /\ \A p \in Appliers : PaidFor(p)

\* An edit is one change of the switch or of the settings.
LEMMA EditMoves ==
  ASSUME Typed, [ConfigNext]_configVars
  PROVE  \/ UNCHANGED <<src, off, gated, edits>>
         \/ /\ edits < MaxEdits /\ edits' = edits + 1 /\ src'.rev =< src.rev + 1
            /\ off' = off \/ Now' = Now
<1>1. src \in Sourcing
  BY DEF Typed
<1>2. src.rev \in Nat
  BY <1>1 DEF Sourcing
<1>3. SaveRules => off' = off /\ src'.rev = src.rev + 1
  BY <1>1 DEF SaveRules, Sourcing
<1>4. ASSUME SetStatus PROVE off' = off /\ src'.rev =< src.rev + 1
  <2>1. PICK t \in Statuses : src' = [src EXCEPT !.status = t, !.rev = @ + StatusRevision(src.status, t)]
    BY <1>4 DEF SetStatus
  <2>2. StatusRevision(src.status, t) \in {0, 1} /\ src'.rev = src.rev + StatusRevision(src.status, t)
    BY <1>1, <2>1 DEF StatusRevision, Sourcing
  <2> QED
    BY <1>2, <1>4, <2>2 DEF SetStatus
<1>5. ReplaceInstance => off' = off /\ src'.rev = src.rev + 1
  BY <1>1 DEF ReplaceInstance, Sourcing
<1>6. ToggleRouting => Now' = Now /\ src'.rev = src.rev
  BY DEF ToggleRouting, Now
<1>7. GateChanges => off' = off /\ src'.rev = src.rev
  BY DEF GateChanges
<1>8. \/ UNCHANGED <<src, off, gated, edits>>
      \/ SaveRules \/ SetStatus \/ ReplaceInstance \/ ToggleRouting \/ GateChanges
  BY ZenonT(60)
     DEF ConfigNext, AttemptStep, KernelStep, BeginAttempt, Snapshot, Prepare, PrepareRefused, Defer,
         StartReadback, ReadProxies, ReadRules, ReadAgain, ReadFails, SendPut, PutAnswered, PutFails, Observe,
         ReloadUnanswered, GoOn, Flush, FlushFails, WriteHost, WriteFails, Deliver, DeliverFails, Confirm, Dies,
         KernelTakesProxies, KernelTakesRules, KernelStarts, KernelStops, settings, configVars
<1>9. SaveRules \/ SetStatus \/ ReplaceInstance \/ ToggleRouting \/ GateChanges => Edit
  BY DEF SaveRules, SetStatus, ReplaceInstance, ToggleRouting, GateChanges
<1> QED
  BY <1>2, <1>3, <1>4, <1>5, <1>6, <1>7, <1>8, <1>9 DEF Edit

\* Failures come from their bound.
LEMMA FailuresMove == [ConfigNext]_configVars => UNCHANGED failures \/ Failure
BY ZenonT(60) DEF ConfigNext, AttemptStep, KernelStep, SaveRules, SetStatus, ReplaceInstance, ToggleRouting, GateChanges,
     BeginAttempt, Snapshot, Prepare, PrepareRefused, Defer, StartReadback, ReadProxies, ReadRules,
     ReadAgain, ReadFails, SendPut, PutAnswered, PutFails, Observe, ReloadUnanswered, GoOn, Flush, FlushFails,
     WriteHost, WriteFails, Deliver, DeliverFails, Confirm, Dies, KernelTakesProxies, KernelTakesRules,
     KernelStarts, KernelStops, configVars

LEMMA EarnedStep ==
  ASSUME Typed, Lock, Earned, [ConfigNext]_configVars
  PROVE  Earned'
<1>1. row \in Rows /\ row.gen \in Nat /\ src.rev \in Nat
  BY DEF Typed, Rows, Sourcing
<1>2. edits \in Nat /\ edits' \in Nat /\ edits' \in 0 .. MaxEdits /\ src'.rev =< edits'
  <2>1. src'.rev \in Nat
    BY SourceMoves
  <2>2. CASE UNCHANGED <<src, off, gated, edits>>
    BY <2>2 DEF Earned
  <2>3. CASE edits < MaxEdits /\ edits' = edits + 1 /\ src'.rev =< src.rev + 1
    BY <1>1, <2>1, <2>3, ConfigAssumption DEF Earned
  <2> QED
    BY <2>2, <2>3, EditMoves
<1>3. failures' \in 0 .. MaxFailures
  BY FailuresMove, ConfigAssumption DEF Earned, Failure
<1>4. Now \in Inputs
  BY DEF Typed, Now, Inputs, Sourcing
<1>5. CASE /\ row'.off = row.off /\ row'.gen = row.gen /\ row'.hash = row.hash
  <2>1. ASSUME NEW o, NEW i, Paid(o, i)
        PROVE  Covers(row', o, i, off', Now', edits')
    <3>1. \/ off' = off /\ Now' = Now /\ edits' = edits
          \/ edits' = edits + 1 /\ (off' = off \/ Now' = Now)
      BY EditMoves DEF Now
    <3>2. Covers(row, o, i, off, Now, edits)
      BY <2>1 DEF Paid
    <3> QED
      BY <1>1, <1>2, <1>5, <3>1, <3>2, CoversOn
  <2>2. ASSUME NEW o, NEW i, Paid(o, i)
        PROVE  Covers(row', o, Now', off', Now', edits') /\ Covers(row', off', Now', off', Now', edits')
    <3>1. row'.gen \in Nat
      BY <1>1, <1>5
    <3> QED
      BY <1>2, <2>1, <2>2, <3>1, CoversLess
  <2>3. Paid(off, Now)'
    BY <2>2 DEF Earned, Paid
  <2>4. ASSUME NEW q \in Appliers PROVE PaidFor(q)'
    <3>1. PaidFor(q)
      BY DEF Earned
    <3>2. CASE BeginAttempt(q)
      <4>1. pc'[q] = "snapshot" /\ work'[q].off = off /\ UNCHANGED <<src, off, gated, edits, row>>
        BY <3>2 DEF BeginAttempt, Goto, Typed, NoJob, settings
      <4> QED
        BY <4>1 DEF Earned, PaidFor, Paid, Now
    <3>3. CASE Snapshot(q)
      <4>1. /\ pc[q] = "snapshot" /\ pc'[q] = "prepare" /\ UNCHANGED <<src, off, gated, edits, row>>
            /\ work'[q].off = work[q].off
            /\ work'[q].cfg = Render(src.content, src.status, work[q].off, gated)
        BY <3>3 DEF Snapshot, Goto, Typed, settings, Works
      <4>2. work'[q].cfg = Version(Now, work'[q].off)
        BY <4>1 DEF Version, Now
      <4>3. Covers(row', work'[q].off, Now, off', Now', edits')
        BY <3>1, <4>1 DEF PaidFor, Paid, Now
      <4> QED
        BY <1>4, <4>1, <4>2, <4>3 DEF PaidFor, Paid
    <3>4. CASE pc'[q] \notin {"snapshot", "prepare"}
      BY <3>4 DEF PaidFor
    <3>5. CASE SameTicket(q) /\ pc'[q] = "snapshot" /\ pc[q] \in {"snapshot", "prepare"}
      <4>1. \E i : Paid(work[q].off, i)
        BY <3>1, <3>5 DEF PaidFor
      <4>2. Covers(row', work[q].off, Now', off', Now', edits')
        BY <2>2, <4>1
      <4> QED
        BY <3>5, <4>2 DEF PaidFor, Paid, SameTicket
    <3>6. CASE SameTicket(q) /\ pc'[q] = "prepare" /\ pc[q] = "prepare"
      <4>1. PICK m \in Inputs : work[q].cfg = Version(m, work[q].off) /\ Paid(work[q].off, m)
        BY <3>1, <3>6 DEF PaidFor
      <4>2. Covers(row', work[q].off, m, off', Now', edits')
        BY <2>1, <4>1
      <4> QED
        BY <3>6, <4>1, <4>2 DEF PaidFor, Paid, SameTicket
    <3>7. PrepareRefused(q) => pc[q] = "prepare" /\ pc'[q] \in {"snapshot", "idle"}
      BY DEF PrepareRefused, Goto, AttemptEnds, Typed
    <3> QED
      BY <3>2, <3>3, <3>4, <3>5, <3>6, <3>7, JobsMove
  <2> QED
    BY <1>2, <1>3, <2>3, <2>4 DEF Earned
<1>6. ASSUME NEW p \in Appliers, Prepare(p) PROVE Earned'
  <2>1. /\ row'.hash = work[p].cfg /\ row'.off = work[p].off
        /\ row'.gen = IF row.hash # work[p].cfg THEN row.gen + 1 ELSE row.gen
        /\ UNCHANGED <<src, off, gated, edits, failures>>
    BY <1>1, <1>6 DEF Prepare, NextGeneration, DesiredOff, Rows, settings
  <2>2. PICK m \in Inputs : work[p].cfg = Version(m, work[p].off) /\ Paid(work[p].off, m)
    BY <1>6 DEF Earned, PaidFor, Prepare
  <2>3. row'.hash # Absent
    BY <1>6, <2>1, AbsentAssumption DEF Lock, Prepare
  <2>4. Covers(row', off, Now, off, Now, edits)
    BY <1>1, <1>2, <2>1, <2>2, <2>3, CoversNext DEF Paid
  <2>5. Paid(off, Now)'
    BY <2>1, <2>4 DEF Paid, Now
  <2>6. \A q \in Appliers : pc'[q] \notin {"snapshot", "prepare"}
    BY <1>6 DEF Prepare, Goto, Lock, Working, Typed
  <2> QED
    BY <1>2, <1>3, <2>5, <2>6 DEF Earned, PaidFor
<1> QED
  BY <1>5, <1>6, RowMoves

\* The numbers that go round, and where a version may stand.
Placed == {kernel.proxies, kernel.rules, host, boot} \cup Sends
Numbered ==
  /\ \A v \in Placed \ {Absent} : v.gen >= 1
  /\ row.rev >= -1 /\ row.appGen =< row.gen /\ (row.hash # Absent => row.gen >= 1)
  /\ \A p \in Appliers :
       /\ work[p].rev >= -1 /\ work[p].prevRev >= -1 /\ work[p].gen =< row.gen
       /\ work[p].base # Absent => work[p].base.gen >= 1 /\ work[p].base.gen =< row.gen

\* A ticket keeps its number unless it is prepared or given up.
LEMMA NumberMoves ==
  ASSUME Typed, [ConfigNext]_configVars, NEW q \in Appliers
  PROVE  Prepare(q) \/ work'[q].gen \in {work[q].gen, 0}
<1> DEFINE Goal == Prepare(q) \/ work'[q].gen \in {work[q].gen, 0}
<1>1. work[q] \in Works /\ NoJob.gen = 0
  BY DEF Typed, NoJob
<1>2. ASSUME NEW p \in Appliers, AttemptEnds(p) \/ BeginAttempt(p) PROVE Goal
  <2>1. CASE AttemptEnds(p)
    BY <1>1, <2>1 DEF AttemptEnds, Typed
  <2>2. CASE BeginAttempt(p)
    <3>1. p = q => work'[q].gen = 0
      BY <2>2 DEF BeginAttempt, Typed, NoJob
    <3>2. p # q => work'[q] = work[q]
      BY <2>2 DEF BeginAttempt, Typed
    <3> QED
      BY <3>1, <3>2
  <2> QED
    BY <1>2, <2>1, <2>2
<1>3. UNCHANGED work => Goal
  OBVIOUS
<1>4. ASSUME NEW p \in Appliers, NEW code, NotVerified(p, code) PROVE Goal
  BY <1>2, <1>3, <1>4 DEF NotVerified, FailsWith
<1>5. ASSUME NEW p \in Appliers, NEW failed, SecondReadback(p, failed) PROVE Goal
  BY <1>1, <1>5 DEF SecondReadback, Typed, Works
<1>6. ASSUME NEW p \in Appliers, Verified(p) \/ Snapshot(p) PROVE Goal
  BY <1>1, <1>6 DEF Verified, Snapshot, Typed, Works
<1>7. ASSUME NEW p \in Appliers,
             work' = [work EXCEPT ![p].seen = Seen(p)] \/ work' = [work EXCEPT ![p].pass = "final"]
      PROVE  Goal
  BY SMTT(30), <1>1, <1>7 DEF Typed, Works
<1>8. ASSUME NEW p \in Appliers, Prepare(p) PROVE Goal
  BY <1>8 DEF Prepare, Typed
<1>9. ASSUME NEW p \in Appliers,
             \/ PrepareRefused(p) \/ Defer(p) \/ StartReadback(p) \/ ReadProxies(p) \/ ReadRules(p) \/ ReadAgain(p)
             \/ ReadFails(p)
      PROVE  Goal
  BY <1>2, <1>3, <1>4, <1>6, <1>7, <1>9
     DEF PrepareRefused, Defer, StartReadback, ReadProxies, ReadRules, ReadAgain, ReadFails, FailsWith
<1>10. ASSUME NEW p \in Appliers,
             \/ SendPut(p) \/ PutAnswered(p) \/ PutFails(p) \/ Observe(p) \/ ReloadUnanswered(p) \/ GoOn(p) \/ Flush(p)
             \/ FlushFails(p) \/ WriteHost(p) \/ WriteFails(p) \/ Deliver(p) \/ DeliverFails(p) \/ Confirm(p)
             \/ Dies(p)
      PROVE  Goal
  BY <1>2, <1>3, <1>5, <1>7, <1>10
     DEF SendPut, PutAnswered, PutFails, Observe, ReloadUnanswered, GoOn, Flush, FlushFails, WriteHost, WriteFails,
         Deliver, DeliverFails, Confirm, Dies, FailsWith
<1>11. SaveRules \/ SetStatus \/ ReplaceInstance \/ ToggleRouting \/ GateChanges \/ KernelStep \/ KernelStops
         \/ UNCHANGED configVars => Goal
  BY <1>3 DEF SaveRules, SetStatus, ReplaceInstance, ToggleRouting, GateChanges, KernelStep, KernelTakesProxies,
     KernelTakesRules, KernelStarts, KernelStops, configVars
<1> QED
  BY <1>2, <1>6, <1>8, <1>9, <1>10, <1>11 DEF ConfigNext, AttemptStep

\* What is applied has the number of what was wanted.
LEMMA AppliedMoves ==
  ASSUME Typed, [ConfigNext]_configVars
  PROVE  row'.appGen \in {row.appGen, row.gen} /\ row'.gen >= row.gen /\ row'.gen \in Nat
<1>1. row \in Rows
  BY DEF Typed
<1>2. \A p \in Appliers : Observe(p) \/ Confirm(p) \/ Prepare(p) => row'.appGen \in {row.appGen, row.gen}
  BY <1>1 DEF Observe, Confirm, Prepare, Rows
<1>3. ASSUME NEW p \in Appliers, NEW code, FailsWith(p, code) PROVE row'.appGen = row.appGen
  BY <1>1, <1>3 DEF FailsWith, Rows
<1>4. \/ row' = row
      \/ \E p \in Appliers : \/ Prepare(p) \/ Observe(p) \/ Confirm(p)
                              \/ \E code \in Errors : FailsWith(p, code)
  BY DEF ConfigNext, AttemptStep, KernelStep, SaveRules, SetStatus, ReplaceInstance, ToggleRouting,
     GateChanges, BeginAttempt, Snapshot, PrepareRefused, Defer, StartReadback, ReadProxies,
     ReadRules, ReadAgain, ReadFails, NotVerified, Verified, MismatchCode, Errors, Codes, SendPut,
     PutAnswered, PutFails, ReloadUnanswered, GoOn, Flush, FlushFails, WriteHost, WriteFails,
     Deliver, DeliverFails, Dies, KernelTakesProxies, KernelTakesRules, KernelStarts, KernelStops,
     configVars
<1>5. row'.gen >= row.gen /\ row'.gen \in Nat
  <2>1. ASSUME NEW p \in Appliers, Prepare(p) PROVE row'.gen \in {row.gen, row.gen + 1}
    BY <1>1, <2>1 DEF Prepare, NextGeneration, Rows
  <2> QED
    BY <1>1, <2>1, RowMoves DEF Rows
<1> QED
  BY <1>2, <1>3, <1>4, <1>5

LEMMA NumberedStep ==
  ASSUME Typed, Lock, Current, Stamped, Earned, Numbered, [ConfigNext]_configVars
  PROVE  Numbered'
<1>1. row.gen \in Nat /\ row.rev \in Int /\ row.appGen \in Nat /\ src.rev \in Nat
  BY DEF Typed, Rows, Sourcing
<1>2. row'.appGen =< row'.gen /\ row'.gen >= row.gen /\ row'.gen \in Nat
  BY <1>1, AppliedMoves DEF Numbered
<1>3. row'.rev >= -1
  <2>1. ASSUME NEW p \in Appliers, Prepare(p) PROVE row'.rev = work[p].rev
    BY <2>1 DEF Prepare, Typed, Rows
  <2> QED
    BY <2>1, RowMoves DEF Numbered
<1>7. row'.hash # Absent => row'.gen >= 1
  <2>1. ASSUME NEW p \in Appliers, Prepare(p) PROVE row'.hash # Absent => row'.gen >= 1
    <3>1. row'.gen = (IF row.hash # work[p].cfg THEN row.gen + 1 ELSE row.gen) /\ row'.hash = work[p].cfg
      BY <2>1 DEF Prepare, NextGeneration, Typed, Rows
    <3> QED
      BY <1>1, <3>1 DEF Numbered
  <2> QED
    BY <2>1, RowMoves DEF Numbered
<1>4. ASSUME NEW p \in Appliers, Prepared(p) PROVE row.gen >= 1
  <2>1. row.hash = work[p].cfg /\ work[p].cfg \in Configs
    BY <1>4 DEF Current, TicketIsCurrent, Lock, Prepared
  <2>2. row.hash # Absent
    BY <2>1, AbsentAssumption
  <2> QED
    BY <2>2 DEF Numbered
<1>5. \A v \in Placed' \ {Absent} : v.gen >= 1
  <2>1. Placed' \subseteq Placed \cup {Absent} \cup {v \in {Newest} : \E p \in Appliers : Prepared(p)}
    BY KernelCopies, FileCopies, PutCopies DEF Placed
  <2> QED
    BY <1>4, <2>1 DEF Numbered, Newest
<1>6. ASSUME NEW q \in Appliers
      PROVE  /\ work'[q].rev >= -1 /\ work'[q].prevRev >= -1 /\ work'[q].gen =< row'.gen
             /\ work'[q].base # Absent => work'[q].base.gen >= 1 /\ work'[q].base.gen =< row'.gen
  <2>1. work'[q].gen =< row'.gen
    <3>1. CASE Prepare(q)
      BY <1>2, <3>1 DEF Prepare, Typed, Rows, Works
    <3>2. CASE work'[q].gen \in {work[q].gen, 0}
      <4>1. work[q].gen \in Nat /\ work[q].gen =< row.gen
        BY DEF Numbered, Typed, Works
      <4> QED
        BY <1>1, <1>2, <3>2, <4>1
    <3> QED
      BY <3>1, <3>2, NumberMoves
  <2>2. /\ work[q].rev >= -1 /\ work[q].prevRev >= -1
        /\ work[q].base # Absent => work[q].base.gen >= 1 /\ work[q].base.gen =< row.gen
        /\ work[q].base # Absent => work[q].base.gen \in Nat
    BY DEF Numbered, Typed, Works, Marks
  <2>3. CASE BeginAttempt(q)
    <3>1. /\ work'[q].base = host /\ work'[q].rev = -1 /\ work'[q].prevRev = row.rev
      BY <2>3 DEF BeginAttempt, Typed, NoJob
    <3>2. host # Absent => host.gen >= 1 /\ host.gen =< row.gen /\ host.gen \in Nat
      BY DEF Numbered, Placed, Stamped, Copies, Typed, Marks
    <3> QED
      BY <1>1, <1>2, <2>1, <3>1, <3>2 DEF Numbered
  <2>4. CASE Snapshot(q)
    <3>1. work'[q].base = work[q].base /\ work'[q].rev = src.rev /\ work'[q].prevRev = work[q].prevRev
      BY <2>4 DEF Snapshot, Typed, Works
    <3> QED
      BY <1>1, <1>2, <2>1, <2>2, <3>1
  <2>5. CASE work'[q] = NoJob
    BY <2>1, <2>5 DEF NoJob
  <2>6. CASE SameTicket(q)
    BY <1>1, <1>2, <2>1, <2>2, <2>6 DEF SameTicket
  <2> QED
    BY <2>3, <2>4, <2>5, <2>6, JobsMove
<1> QED
  BY <1>2, <1>3, <1>5, <1>6, <1>7 DEF Numbered

\* All together have the types of the runs.
LEMMA ConfigTypes ==
  ASSUME ConfigInv, Earned, Numbered
  PROVE  ConfigTypeOK
<1>1. Typed /\ Stamped /\ Sources
  BY DEF ConfigInv
<1>2. row.gen \in Nat /\ row.gen =< MaxEdits + 1
  <2>1. row.gen \in Nat /\ edits \in Nat /\ edits =< MaxEdits
    BY <1>1, ConfigAssumption DEF Typed, Rows, Earned
  <2>2. row.gen =< edits + 1
    BY <2>1, CoversLess DEF Earned, Paid
  <2> QED
    BY <2>1, <2>2, ConfigAssumption
<1>3. src.rev \in 0 .. MaxEdits
  BY <1>1, ConfigAssumption DEF Typed, Sourcing, Earned
<1>4. ASSUME NEW v \in Marks, v.gen >= 1, v.gen =< row.gen PROVE v \in Stamps
  <2>1. v.gen \in 1 .. MaxEdits + 1 /\ v = [gen |-> v.gen, cfg |-> v.cfg] /\ v.cfg \in Configs
    BY <1>2, <1>4, ConfigAssumption DEF Marks
  <2> QED
    BY <2>1 DEF Stamps
<1>5. ASSUME NEW v \in Placed, v \in Marks \cup {Absent} PROVE v \in Stamps \cup {Absent}
  <2>1. CASE v # Absent
    <3>1. v.gen >= 1 /\ v.gen =< row.gen
      BY <1>1, <1>5, <2>1 DEF Numbered, Stamped, Copies, Placed, Sends
    <3> QED
      BY <1>4, <1>5, <2>1, <3>1
  <2> QED
    BY <2>1
<1>6. row \in [rev : -1 .. MaxEdits, off : BOOLEAN \cup {Absent},
              gen : 0 .. MaxEdits + 1, hash : Configs \cup {Absent},
              attempt : Appliers \cup {Nobody}, appGen : 0 .. MaxEdits + 1,
              appHash : Configs \cup {Absent}, verified : BOOLEAN, err : Errors]
  <2>1. row.rev \in -1 .. MaxEdits /\ row.gen \in 0 .. MaxEdits + 1 /\ row.appGen \in 0 .. MaxEdits + 1
    BY <1>1, <1>2, <1>3, ConfigAssumption DEF Typed, Rows, Sources, Numbered
  <2> QED
    BY <1>1, <2>1 DEF Typed, Rows
<1>7. ASSUME NEW p \in Appliers
      PROVE  work[p] \in [base : Stamps \cup {Absent}, off : BOOLEAN, docker : BOOLEAN,
        prevRev : -1 .. MaxEdits, prevErr : Errors, prevHash : Configs \cup {Absent},
        rev : -1 .. MaxEdits, cfg : Configs \cup {Absent}, gen : 0 .. MaxEdits + 1,
        pass : {"first", "second", "final"}, flush : BOOLEAN,
        reloadFailed : BOOLEAN, seen : {"nothing", "loading", "whole"}]
  <2>1. work[p] \in Works
    BY <1>1 DEF Typed
  <2>2. work[p].base \in Stamps \cup {Absent}
    BY <1>4, <2>1 DEF Works, Numbered
  <2>3. work[p].rev \in -1 .. MaxEdits /\ work[p].prevRev \in -1 .. MaxEdits /\ work[p].gen \in 0 .. MaxEdits + 1
    BY <1>1, <1>2, <1>3, <2>1, ConfigAssumption DEF Works, Sources, Numbered
  <2> QED
    BY <2>1, <2>2, <2>3 DEF Works
<1>8. kernel \in [up : BOOLEAN, proxies : Stamps \cup {Absent}, rules : Stamps \cup {Absent}, fresh : BOOLEAN]
      /\ host \in Stamps \cup {Absent} /\ boot \in Stamps \cup {Absent}
  <2>1. {kernel.proxies, kernel.rules, host, boot} \subseteq Stamps \cup {Absent}
    BY <1>1, <1>5 DEF Typed, Kernels, Placed
  <2> QED
    BY <1>1, <2>1 DEF Typed, Kernels
<1>9. ASSUME NEW p \in Appliers PROVE put[p] \in {Absent} \cup [stage : {"sent", "half", "done"}, stamp : Stamps]
  <2>1. CASE put[p] # Absent
    <3>1. put[p].stamp \in Marks /\ put[p].stamp \in Sends /\ put[p].stamp \in Placed
          /\ put[p] \in [stage : {"sent", "half", "done"}, stamp : Marks]
      BY <1>1, <2>1 DEF Typed, Puts, Sends, Placed
    <3>2. put[p].stamp # Absent
      BY <3>1, AbsentAssumption DEF Marks
    <3>3. put[p].stamp \in Stamps
      BY <1>5, <3>1, <3>2
    <3> QED
      BY <3>1, <3>3
  <2> QED
    BY <2>1
<1>10. work = [p \in Appliers |-> work[p]] /\ put = [p \in Appliers |-> put[p]]
  BY <1>1 DEF Typed
<1>11. src \in [rev : 0 .. MaxEdits, content : Contents, status : Statuses]
  BY <1>1, <1>3 DEF Typed, Sourcing
<1> QED
  BY <1>1, <1>6, <1>7, <1>8, <1>9, <1>10, <1>11 DEF Typed, Labels, Earned, ConfigTypeOK

\* At first nothing has a number.
LEMMA NumbersBegin == ConfigInit => Earned /\ Numbered
<1> SUFFICES ASSUME ConfigInit PROVE Earned /\ Numbered
  OBVIOUS
<1>1. Earned
  <2>1. Paid(off, Now)
    BY DEF ConfigInit, Paid, Covers, Apart
  <2>2. \A p \in Appliers : pc[p] = "idle"
    BY DEF ConfigInit
  <2>3. edits = 0 /\ failures = 0 /\ src.rev = 0
    BY DEF ConfigInit
  <2> QED
    BY <2>1, <2>2, <2>3, ConfigAssumption DEF Earned, PaidFor
<1>2. Numbered
  <2>1. Placed = {Absent}
    BY DEF ConfigInit, Placed, Sends
  <2>2. row.rev = -1 /\ row.appGen = 0 /\ row.gen = 0 /\ row.hash = Absent
    BY DEF ConfigInit
  <2>3. \A p \in Appliers : work[p].rev = -1 /\ work[p].prevRev = -1 /\ work[p].gen = 0 /\ work[p].base = Absent
    BY DEF ConfigInit, NoJob
  <2> QED
    BY <2>1, <2>2, <2>3 DEF Numbered
<1> QED
  BY <1>1, <1>2

\* Every step keeps the bounds.
LEMMA BoundsStep ==
  ASSUME ConfigInv, Earned, Numbered, [ConfigNext]_configVars
  PROVE  Earned' /\ Numbered'
BY EarnedStep, NumberedStep DEF ConfigInv

\* Every value of the journal, the attempts and the kernel keeps its type; no number of a
\* version is greater than the edits that were made and one.
THEOREM ConfigTypesAreKept == ConfigSpec => []ConfigTypeOK
<1>1. ConfigInit => Earned /\ Numbered
  BY NumbersBegin
<1>2. ConfigInv /\ Earned /\ Numbered /\ [ConfigNext]_configVars => Earned' /\ Numbered'
  BY BoundsStep
<1>3. ConfigSpec => [](Earned /\ Numbered)
  BY <1>1, <1>2, ConfigInvariance, PTL DEF ConfigSpec
<1>4. ConfigInv /\ Earned /\ Numbered => ConfigTypeOK
  BY ConfigTypes
<1> QED
  BY <1>3, <1>4, ConfigInvariance, PTL

-----------------------------------------------------------------------------
\* The run of the two components

\* A behaviour of the run is one of the journal and one of the replacement, so that
\* what either of them promises holds of the run.
THEOREM ChangesAreBoth == ChangesSpec => ConfigSpec /\ ReplacementSpec
<1>1. ChangesInit => ConfigInit /\ ReplacementInit
  BY DEF ChangesInit
<1>2. [ChangesNext]_changesVars => [ConfigNext]_configVars
  BY DEF ChangesNext, changesVars
<1>3. [ChangesNext]_changesVars => [ReplacementNext]_replacementVars
  BY DEF ChangesNext, changesVars
<1> QED
  BY <1>1, <1>2, <1>3, PTL DEF ChangesSpec, ConfigSpec, ReplacementSpec

\* Every value of the journal of the settings and of the replacement keeps its type
\* (config_apply.rs and replacement.rs): a version costs an edit, an operation a begin.
THEOREM ChangesTypesAreKept == ChangesSpec => []ChangesTypeOK
<1>1. ConfigTypeOK /\ ReplacementTypeOK => ChangesTypeOK
  BY DEF ChangesTypeOK
<1> QED
  BY <1>1, ChangesAreBoth, ConfigTypesAreKept, ReplacementTypes, PTL
=============================================================================
