--------------------------- MODULE DesktopProofs ---------------------------
(***************************************************************************)
(* Proofs about the components around the runtime that MCDesktop checks on *)
(* small instances: the probes of a channel, the watchdog's ladder, the    *)
(* SSH forwards, the takeover of the network, the rules with their readers *)
(* and the guard, and the switch of the data directory.  Each is proved    *)
(* for every value of its own constants.                                   *)
(***************************************************************************)
EXTENDS ChannelProbe, Watchdog, Forwards, Takeover, RuleRoutes, UpgradeSwitch, FiniteSetTheorems,
        SequenceTheorems, WellFoundedInduction, TLAPS

-----------------------------------------------------------------------------
(* ChannelProbe *)

\* A handler that may change the instance or the address works at it.
Mutating == holder = "locked" /\ op # "verify"

\* A flight whose generation is current probes the present instance, and while a
\* handler mutates the channel none does, nor can one take off.
FreshIsGenuine ==
  /\ probing.fresh => probing.genuine
  /\ Mutating => ~probing.fresh /\ \A s \in Samplers : ~seen[s].fresh

\* A current snapshot has looked.
FreshHasLooked == \A s \in Samplers : seen[s].fresh => seen[s].target # "unread"

\* The copy update_inner goes back to was proved if it says so, and the address
\* under trial is not.
CopyIsProved ==
  holder \in {"changed", "applying"} /\ op = "retarget" =>
    status # "logged_in" /\ (undo.status = "logged_in" => undo.proved)

\* The failures counted are among the verdicts in a row on this instance.
FailuresAreVerdicts == failures <= streak

\* The type invariant with its parts named, for the proofs.
Snapshots == [target : Targets \cup {"unread"}, open : BOOLEAN, fresh : BOOLEAN]
Flights == [on : BOOLEAN, target : Targets, open : BOOLEAN, wanted : BOOLEAN,
            fresh : BOOLEAN, genuine : BOOLEAN]
Copies == [target : Targets, status : Live \cup {"stopped", "error"}, proved : BOOLEAN]
Queues == [pending : BOOLEAN, due : BOOLEAN, revised : BOOLEAN, recovered : BOOLEAN]
Readings == [by : {"nobody", "worker", "handler"}, verdict : BOOLEAN]
RowTyped == custom \in BOOLEAN /\ status \in Live \cup {"stopped", "error"} /\ target \in Targets
HandlerTyped ==
  /\ holder \in {"out", "ensuring", "admitted", "locked", "changed", "applying",
                 "undone", "reapplying"}
  /\ op \in Operations \cup {"none"} /\ undo \in Copies
SampleTyped == seen \in [Samplers -> Snapshots] /\ probing \in Flights
CountTyped ==
  /\ lost \in BOOLEAN /\ resync \in BOOLEAN /\ handshake \in BOOLEAN /\ proved \in BOOLEAN
  /\ failures \in 0 .. LostAfter /\ streak \in 0 .. LostAfter
WorkerTyped == queue \in Queues /\ worker \in {"off", "awake", "rebuilding", "refused"}
KernelTyped == applying \in Readings /\ blocks \in BOOLEAN /\ owed \in BOOLEAN
RuntimeTyped ==
  /\ runtime \in {"off", "starting", "recovering", "serving", "releasing"} /\ closing \in BOOLEAN
  /\ budget \in 0 .. MaxFailures /\ arrivals \in 0 .. MaxHandlers
ProbeTyped ==
  /\ RowTyped /\ HandlerTyped /\ SampleTyped /\ CountTyped /\ WorkerTyped /\ KernelTyped
  /\ RuntimeTyped

\* The types of the proof are those the runs check.
LEMMA TypedIsTypeOK == ProbeTyped <=> ProbeTypeOK
<1> USE DEF ProbeTyped, ProbeTypeOK, RowTyped, HandlerTyped, SampleTyped, CountTyped, WorkerTyped,
            KernelTyped, RuntimeTyped, Snapshots, Flights, Copies, Queues, Readings
<1>1. {lost, resync, handshake, blocks, closing, owed, proved} \subseteq BOOLEAN
      <=> /\ lost \in BOOLEAN /\ resync \in BOOLEAN /\ handshake \in BOOLEAN /\ blocks \in BOOLEAN
          /\ closing \in BOOLEAN /\ owed \in BOOLEAN /\ proved \in BOOLEAN
  OBVIOUS
<1> QED
  BY <1>1

ProbeInv ==
  /\ ProbeTyped
  /\ FreshIsGenuine /\ FreshHasLooked /\ CopyIsProved /\ FailuresAreVerdicts
  /\ ProbeHonest

\* Nothing probed, nothing claimed: the invariant holds at the beginning.
LEMMA ProbeInvInit == ProbeInit => ProbeInv
<1> SUFFICES ASSUME ProbeInit PROVE ProbeInv
  OBVIOUS
<1> USE DEF ProbeInit
<1>1. undo \in Copies /\ probing \in Flights /\ queue \in Queues /\ applying \in Readings
  BY DEF NoCopy, NoFlight, NoQueue, Targets, Copies, Flights, Queues, Readings
<1>2. seen \in [Samplers -> Snapshots]
  BY DEF NoSnapshot, Snapshots
<1>3. failures \in 0 .. LostAfter /\ budget \in 0 .. MaxFailures /\ arrivals \in 0 .. MaxHandlers
      /\ streak \in 0 .. LostAfter
  BY ProbeAssumption
<1>4. ProbeTyped
  BY <1>1, <1>2, <1>3 DEF ProbeTyped, RowTyped, HandlerTyped, SampleTyped, CountTyped, WorkerTyped,
     KernelTyped, RuntimeTyped, Targets
<1>5. FreshIsGenuine /\ FreshHasLooked /\ CopyIsProved /\ FailuresAreVerdicts /\ ProbeHonest
  BY DEF FreshIsGenuine, FreshHasLooked, NoSnapshot, Mutating, NoFlight, CopyIsProved,
         FailuresAreVerdicts, ProbeHonest, LoggedInIsProved, LostTakesRun
<1> QED
  BY <1>4, <1>5 DEF ProbeInv

\* The fields of what a sample and a flight remember.
LEMMA SampleFields ==
  ASSUME ProbeTyped
  PROVE  /\ probing \in Flights /\ probing.on \in BOOLEAN /\ probing.target \in Targets
         /\ probing.open \in BOOLEAN /\ probing.wanted \in BOOLEAN
         /\ probing.fresh \in BOOLEAN /\ probing.genuine \in BOOLEAN
         /\ NoFlight \in Flights /\ StaleFlight \in Flights /\ NoSnapshot \in Snapshots
         /\ \A s \in Samplers : /\ seen[s] \in Snapshots /\ seen[s].fresh \in BOOLEAN
                               /\ seen[s].target \in Targets \cup {"unread"}
                               /\ seen[s].open \in BOOLEAN
BY DEF ProbeTyped, SampleTyped, Flights, Snapshots, NoFlight, StaleFlight, NoSnapshot, Targets

\* What a report asks of the worker, and the worker of the apply lock.
LEMMA RebuildTypes ==
  ASSUME ProbeTyped
  PROVE  /\ SpawnRebuild \/ NoRebuild => WorkerTyped'
         /\ RetryAfterRecovery => WorkerTyped'
         /\ Blocked \in BOOLEAN
         /\ \A by \in {"worker", "handler"} : ReadVerdict(by) => KernelTyped'
         /\ Unlock => applying' \in Readings
         /\ Installed => blocks' \in BOOLEAN /\ owed' \in BOOLEAN
<1> USE DEF ProbeTyped
<1>1. Blocked \in BOOLEAN
  BY DEF Blocked, RowTyped, CountTyped
<1>2. SpawnRebuild \/ NoRebuild => WorkerTyped'
  BY DEF WorkerTyped, Queues, SpawnRebuild, NoRebuild, StartedWorker
<1>3. RetryAfterRecovery => WorkerTyped'
  BY DEF WorkerTyped, Queues, RetryAfterRecovery, StartedWorker
<1>4. \A by \in {"worker", "handler"} : ReadVerdict(by) => KernelTyped'
  BY <1>1 DEF KernelTyped, Readings, ReadVerdict
<1>5. Unlock => applying' \in Readings
  BY DEF Unlock, Readings
<1>6. Installed => blocks' \in BOOLEAN /\ owed' \in BOOLEAN
  <2>1. applying.verdict \in BOOLEAN
    BY DEF KernelTyped, Readings
  <2> QED
    BY <2>1 DEF Installed
<1> QED
  BY <1>1, <1>2, <1>3, <1>4, <1>5, <1>6

\* The samples.
LEMMA SamplerKeeps ==
  ASSUME ProbeInv, NEW s \in Samplers, SamplerStep(s)
  PROVE  ProbeInv'
<1> USE DEF ProbeInv, FreshIsGenuine, FreshHasLooked, Mutating, CopyIsProved, FailuresAreVerdicts,
            ProbeHonest, LoggedInIsProved, LostTakesRun, row, handler, probe, kernel, bounds
<1> USE DEF ProbeTyped, RowTyped, HandlerTyped, SampleTyped, CountTyped, KernelTyped, RuntimeTyped
<1>1. CASE Look(s)
  <2>1. [target |-> target, fresh |-> TRUE, open |-> custom /\ status = "logged_in"] \in Snapshots
    BY DEF Snapshots
  <2> QED
    BY <1>1, <2>1, SampleFields DEF Look, WorkerTyped, OperationHeld, Targets
<1>2. CASE SampleEnds(s)
  BY <1>2, SampleFields DEF SampleEnds, GivesUp, WorkerTyped, NoSnapshot
<1>3. CASE TargetMissing(s)
  <2>1. status' = "running" /\ ~lost' /\ failures' = 0 /\ ~resync' /\ ~proved' /\ streak' = 0
        /\ lost' \in BOOLEAN /\ resync' \in BOOLEAN /\ proved' \in BOOLEAN
        /\ holder # "locked" /\ UNCHANGED <<custom, target, handler, probing, handshake, kernel, runtime,
                                         closing, bounds>>
    BY <1>3 DEF TargetMissing, OperationHeld
  <2>2. seen' = [seen EXCEPT ![s] = NoSnapshot]
    BY <1>3 DEF TargetMissing
  <2>3. seen' \in [Samplers -> Snapshots] /\ \A t \in Samplers : seen'[t] \in {seen[t], NoSnapshot}
    BY <2>2, SampleFields
  <2>4. WorkerTyped'
    BY <1>3, RebuildTypes DEF TargetMissing
  <2>5. ProbeTyped'
    BY <2>1, <2>3, <2>4, ProbeAssumption DEF Live
  <2> QED
    BY <2>1, <2>3, <2>5 DEF NoSnapshot
<1>4. CASE Join(s)
  <2>1. probing' \in Flights /\ probing'.fresh = probing.fresh /\ probing'.genuine = probing.genuine
    BY <1>4 DEF Join, Flights
  <2> QED
    BY <1>4, <2>1, SampleFields DEF Join, WorkerTyped, NoSnapshot
<1>5. CASE TakeOff(s)
  <2>1. probing' \in Flights /\ probing'.genuine
    BY <1>5, SampleFields DEF TakeOff, Flights
  <2> QED
    BY <1>5, <2>1, SampleFields DEF TakeOff, WorkerTyped, NoSnapshot
<1> QED
  BY <1>1, <1>2, <1>3, <1>4, <1>5 DEF SamplerStep

\* The flight reports: what it says is about the present instance.
LEMMA ReportKeeps ==
  ASSUME ProbeInv, Reports
  PROVE  ProbeInv'
<1> USE DEF ProbeInv, FreshIsGenuine, FreshHasLooked, Mutating, CopyIsProved, FailuresAreVerdicts,
            ProbeHonest, LoggedInIsProved, LostTakesRun, row, handler, probe, kernel, bounds
<1> USE DEF ProbeTyped, RowTyped, HandlerTyped, SampleTyped, CountTyped, KernelTyped, RuntimeTyped
<1>1. CASE ReportDiscarded
  BY <1>1, SampleFields DEF ReportDiscarded, WorkerTyped, NoFlight
<1>2. ASSUME ReportUp \/ ReportDown
      PROVE  /\ probing' = NoFlight /\ ~OperationHeld /\ probing.fresh /\ probing.genuine
             /\ UNCHANGED <<custom, target, handler, seen, kernel, runtime, closing, bounds>>
             /\ resync' \in BOOLEAN /\ (SpawnRebuild \/ NoRebuild)
             /\ handshake' \in BOOLEAN
  BY <1>2 DEF ReportUp, ReportDown, ReportAccepted
<1>3. ASSUME ReportUp \/ ReportDown, status' \in Live, lost' \in BOOLEAN, proved' \in BOOLEAN,
             failures' \in 0 .. LostAfter, streak' \in 0 .. LostAfter,
             failures' <= streak', lost' => streak' >= LostAfter,
             status' = "logged_in" => proved'
      PROVE  ProbeInv'
  <2>1. WorkerTyped'
    BY <1>2, <1>3, RebuildTypes
  <2>2. probing' \in Flights /\ ~probing'.fresh
    <3>1. probing' = NoFlight
      BY <1>2, <1>3
    <3>2. NoFlight \in Flights
      BY SampleFields
    <3> QED
      BY <3>1, <3>2 DEF NoFlight
  <2>3. ProbeTyped'
    BY <1>2, <1>3, <2>1, <2>2
  <2> QED
    BY <1>2, <1>3, <2>3, <2>2 DEF OperationHeld
<1>4. CASE ReportUp
  <2>1. status' = "logged_in" /\ proved'
    BY <1>2, <1>4 DEF ReportUp
  <2>2. \/ failures' = 0 /\ ~lost' /\ streak' = 0
        \/ failures' = failures /\ lost' = lost /\ streak' = streak
    BY <1>4 DEF ReportUp
  <2>3. lost' \in BOOLEAN /\ proved' \in BOOLEAN /\ status' \in Live
    BY <2>1, <2>2, <1>4 DEF ReportUp, Live
  <2>4. /\ failures' \in 0 .. LostAfter /\ streak' \in 0 .. LostAfter
        /\ failures' <= streak' /\ (lost' => streak' >= LostAfter)
    BY <2>2, ProbeAssumption
  <2> QED
    BY <1>3, <1>4, <2>1, <2>3, <2>4
<1>5. CASE ReportDown
  <2>1. status' = "running" /\ ~proved'
    BY <1>5 DEF ReportDown
  <2>2. streak' = IF probing.wanted THEN Capped(streak) ELSE streak
    BY <1>2, <1>5 DEF ReportDown
  <2>3. \/ /\ failures' = IF probing.wanted THEN Capped(failures) ELSE failures
           /\ lost' = (lost \/ (probing.wanted /\ failures' >= LostAfter))
        \/ /\ ~lost' /\ failures' \in {0, failures}
    BY <1>5 DEF ReportDown
  <2>4. /\ failures' \in 0 .. LostAfter /\ streak' \in 0 .. LostAfter
        /\ failures' <= streak' /\ (lost' => streak' >= LostAfter)
    BY <2>2, <2>3, ProbeAssumption DEF Capped
  <2>5. lost' \in BOOLEAN /\ proved' \in BOOLEAN /\ status' \in Live
    BY <2>1, <2>3, <1>5 DEF ReportDown, Live
  <2> QED
    BY <1>3, <1>5, <2>1, <2>4, <2>5
<1> QED
  BY <1>1, <1>4, <1>5 DEF Reports

\* The rebuild worker and its timers touch nothing the promises are about.
LEMMA WorkerKeeps ==
  ASSUME ProbeInv, WorkerStep \/ DuePasses \/ LinkRecovers
  PROVE  ProbeInv'
<1> USE DEF row, handler, probe, kernel, bounds
<1>1. ProbeTyped
  BY DEF ProbeInv
<1>2. WorkerTyped'
  BY <1>1, RebuildTypes
     DEF ProbeTyped, WorkerTyped, Queues, WorkerStep, WorkerLeaves, WorkerBegins, WorkerRefused,
         WorkerGone, WorkerInstalls, WorkerFails, DuePasses, LinkRecovers, PendingAfterRebuild,
         DueAfterFailure, NoQueue
<1>3. KernelTyped'
  BY <1>1, RebuildTypes
     DEF ProbeTyped, KernelTyped, WorkerStep, WorkerLeaves, WorkerBegins, WorkerRefused,
         WorkerGone, WorkerInstalls, WorkerFails, DuePasses, LinkRecovers
<1>4. RuntimeTyped'
  BY <1>1, ProbeAssumption
     DEF ProbeTyped, RuntimeTyped, WorkerStep, WorkerLeaves, WorkerBegins, WorkerRefused,
         WorkerGone, WorkerInstalls, WorkerFails, DuePasses, LinkRecovers
<1>5. UNCHANGED <<row, handler, seen, probing, probe, proved, streak>>
  BY DEF WorkerStep, WorkerLeaves, WorkerBegins, WorkerRefused, WorkerGone, WorkerInstalls,
         WorkerFails, DuePasses, LinkRecovers
<1> QED
  BY <1>1, <1>2, <1>3, <1>4, <1>5
     DEF ProbeInv, ProbeTyped, RowTyped, HandlerTyped, SampleTyped, CountTyped, FreshIsGenuine,
         FreshHasLooked, Mutating, CopyIsProved, FailuresAreVerdicts, ProbeHonest,
         LoggedInIsProved, LostTakesRun

\* A new generation leaves nothing current.
LEMMA NextGenerationResult ==
  ASSUME ProbeTyped, NextGeneration
  PROVE  SampleTyped' /\ ~probing'.fresh /\ \A s \in Samplers : ~seen'[s].fresh
<1>1. probing' \in Flights /\ ~probing'.fresh
  BY SampleFields DEF NextGeneration, StaleFlight, NoFlight
<1>2. \A s \in Samplers : [seen[s] EXCEPT !.fresh = FALSE] \in Snapshots
                         /\ ~[seen[s] EXCEPT !.fresh = FALSE].fresh
  BY SampleFields DEF Snapshots
<1>3. seen' = [s \in Samplers |-> [seen[s] EXCEPT !.fresh = FALSE]]
  BY DEF NextGeneration
<1>4. seen' \in [Samplers -> Snapshots] /\ \A s \in Samplers : ~seen'[s].fresh
  BY <1>2, <1>3
<1> QED
  BY <1>1, <1>4 DEF SampleTyped

\* The handlers: the lock moves the generation before anything changes, and the
\* copy that is restored was true when it was made.
LEMMA HandlerKeepsProbes ==
  ASSUME ProbeInv, HandlerStep \/ \E o \in Operations : HandlerArrives(o)
  PROVE  ProbeInv'
<1> USE DEF ProbeInv, FreshIsGenuine, FreshHasLooked, Mutating, CopyIsProved, FailuresAreVerdicts,
            ProbeHonest, LoggedInIsProved, LostTakesRun, row, handler, probe, kernel, bounds
<1> USE DEF ProbeTyped, RowTyped, HandlerTyped, SampleTyped, CountTyped, RuntimeTyped
<1>1. NoCopy \in Copies
  BY DEF NoCopy, Copies, Targets
<1>2. CASE \E o \in Operations : HandlerArrives(o)
  <2>1. PICK o \in Operations : HandlerArrives(o)
    BY <1>2
  <2>2. op' \in Operations /\ holder' \in {"ensuring", "admitted"} /\ arrivals' \in 0 .. MaxHandlers
        /\ UNCHANGED <<row, undo, seen, probing, probe, queue, worker, kernel, runtime,
                     closing, budget, proved, streak>>
    BY <2>1, ProbeAssumption DEF HandlerArrives
  <2> QED
    BY <2>2 DEF WorkerTyped, KernelTyped
<1>3. CASE EnsureBegins \/ HandlerRefused \/ HandlerKeeps
  BY <1>1, <1>3 DEF EnsureBegins, HandlerRefused, HandlerKeeps, HandlerLeaves, WorkerTyped, KernelTyped
<1>4. CASE HandlerLocks
  <2>1. CASE Mutates
    <3>1. NextGeneration /\ ~lost' /\ failures' = 0 /\ resync' = (resync \/ lost) /\ streak' = 0
          /\ lost' \in BOOLEAN /\ resync' \in BOOLEAN
      BY <1>4, <2>1 DEF HandlerLocks, Lifted
    <3>2. SampleTyped' /\ ~probing'.fresh /\ \A s \in Samplers : ~seen'[s].fresh
      BY <3>1, NextGenerationResult
    <3> QED
      BY <1>4, <3>1, <3>2, ProbeAssumption DEF HandlerLocks, WorkerTyped, KernelTyped
  <2>2. CASE ~Mutates
    BY <1>4, <2>2 DEF HandlerLocks, Mutates, WorkerTyped, KernelTyped
  <2> QED
    BY <2>1, <2>2
<1>5. CASE HandlerChanges
  <2>1. /\ holder = "locked" /\ holder' = "changed" /\ op # "verify" /\ op' = op /\ Mutating
        /\ NewInstance /\ ~proved' /\ proved' \in BOOLEAN
        /\ UNCHANGED <<custom, seen, probe, queue, worker, kernel, runtime, closing, bounds, streak>>
    BY <1>5 DEF HandlerChanges, StartsChannel, StopsChannel, Retargets
  <2>2. probing' \in Flights /\ ~probing'.fresh
    BY <2>1 DEF NewInstance, Flights
  <2>3. RowTyped' /\ status' # "logged_in"
    BY <1>5, <2>1 DEF HandlerChanges, StartsChannel, StopsChannel, Retargets, Live, Targets
  <2>4. undo' \in Copies /\ (op = "retarget" => (undo'.status = "logged_in" => undo'.proved))
    <3>1. [target |-> target, status |-> status, proved |-> proved] \in Copies
      BY DEF Copies
    <3> QED
      BY <1>5, <3>1 DEF HandlerChanges, StartsChannel, StopsChannel, Retargets
  <2> QED
    BY <2>1, <2>2, <2>3, <2>4 DEF WorkerTyped, KernelTyped
<1>6. CASE TargetConfirmed
  <2>1. SampleTyped' /\ ~probing'.fresh /\ \A s \in Samplers : ~seen'[s].fresh
    BY <1>6, NextGenerationResult DEF TargetConfirmed
  <2>2. /\ target' = "url" /\ status' = "logged_in" /\ proved' = TRUE /\ lost' = FALSE /\ failures' = 0
        /\ resync' = FALSE /\ streak' = 0 /\ holder' = "changed" /\ op = "verify"
        /\ UNCHANGED <<custom, op, undo, handshake, queue, worker, kernel, runtime, closing, bounds>>
    BY <1>6 DEF TargetConfirmed
  <2>3. failures' \in 0 .. LostAfter /\ streak' \in 0 .. LostAfter
    BY <2>2, ProbeAssumption
  <2>4. RowTyped' /\ CountTyped'
    BY <2>2, <2>3 DEF Live, Targets
  <2>5. ProbeTyped'
    BY <2>1, <2>2, <2>4 DEF WorkerTyped, KernelTyped
  <2> QED
    BY <2>1, <2>2, <2>5
<1>7. CASE HandlerApplies
  <2>1. KernelTyped'
    BY <1>7, RebuildTypes DEF HandlerApplies
  <2> QED
    BY <1>7, <2>1 DEF HandlerApplies, WorkerTyped
<1>8. CASE HandlerInstalls
  <2>1. KernelTyped'
    BY <1>8, RebuildTypes DEF HandlerInstalls, KernelTyped
  <2> QED
    BY <1>1, <1>8, <2>1 DEF HandlerInstalls, HandlerLeaves, WorkerTyped
<1>9. CASE RollsBack
  <2>1. KernelTyped' /\ RuntimeTyped'
    BY <1>9, RebuildTypes, ProbeAssumption DEF RollsBack, ApplyFails, KernelTyped
  <2>2. undo.target \in Targets /\ undo.status \in Live \cup {"stopped", "error"}
        /\ undo.proved \in BOOLEAN
    BY DEF Copies
  <2>3. status' = "logged_in" => proved'
    BY <1>9 DEF RollsBack
  <2> QED
    BY <1>9, <2>1, <2>2, <2>3 DEF RollsBack, WorkerTyped
<1>10. CASE HandlerFails
  <2>1. KernelTyped' /\ RuntimeTyped'
    BY <1>10, RebuildTypes, ProbeAssumption DEF HandlerFails, ApplyFails, KernelTyped
  <2> QED
    BY <1>1, <1>10, <2>1 DEF HandlerFails, HandlerLeaves, WorkerTyped
<1> QED
  BY <1>2, <1>3, <1>4, <1>5, <1>6, <1>7, <1>8, <1>9, <1>10 DEF HandlerStep

\* The runtime, its loss, the quit, and edits of the rules.
LEMMA AroundKeeps ==
  ASSUME ProbeInv, RulesEdited \/ RuntimeStep \/ ReleaseBegins \/ RuntimeLost \/ BeginsClosing
  PROVE  ProbeInv'
<1> USE DEF ProbeInv, FreshIsGenuine, FreshHasLooked, Mutating, CopyIsProved, FailuresAreVerdicts,
            ProbeHonest, LoggedInIsProved, LostTakesRun, row, handler, probe, kernel, bounds
<1> USE DEF ProbeTyped, RowTyped, HandlerTyped, SampleTyped, CountTyped, RuntimeTyped
<1>1. CASE RulesEdited
  BY <1>1 DEF RulesEdited, WorkerTyped, KernelTyped, Targets
<1>2. CASE ReleaseBegins
  <2>1. status' = (IF status \in Live THEN "stopped" ELSE status) /\ ~proved' /\ proved' \in BOOLEAN
        /\ runtime' = "releasing"
        /\ UNCHANGED <<custom, target, handler, seen, probing, probe, queue, worker, kernel, closing,
                     bounds, streak>>
    BY <1>2 DEF ReleaseBegins
  <2>2. RowTyped' /\ status' # "logged_in"
    BY <2>1 DEF Live
  <2> QED
    BY <2>1, <2>2 DEF WorkerTyped, KernelTyped
<1>3. CASE RuntimeStarts
  <2>1. Blocked \in BOOLEAN /\ WorkerTyped'
    BY <1>3, RebuildTypes DEF RuntimeStarts
  <2>2. KernelTyped' /\ RuntimeTyped'
    <3>1. \/ blocks' = Blocked /\ owed' = FALSE /\ UNCHANGED budget
          \/ budget > 0 /\ budget' = budget - 1 /\ owed' = TRUE /\ UNCHANGED blocks
      BY <1>3 DEF RuntimeStarts
    <3>2. UNCHANGED <<arrivals, applying, closing>> /\ runtime' = "serving"
      BY <1>3 DEF RuntimeStarts
    <3>3. budget' \in 0 .. MaxFailures
      BY <3>1, ProbeAssumption
    <3>4. blocks' \in BOOLEAN /\ owed' \in BOOLEAN
      BY <2>1, <3>1 DEF KernelTyped
    <3> QED
      BY <3>2, <3>3, <3>4 DEF KernelTyped
  <2>3. holder' \in {holder, "admitted"} /\ (holder' # holder => holder = "ensuring")
        /\ UNCHANGED <<row, op, undo, seen, probing, probe, proved, streak>>
    BY <1>3 DEF RuntimeStarts
  <2> QED
    BY <2>1, <2>2, <2>3
<1>4. CASE StartRecovers \/ ReleaseEnds \/ RuntimeLost \/ BeginsClosing
  <2>1. RuntimeTyped' /\ UNCHANGED <<row, handler, seen, probing, probe, queue, worker, kernel, proved, streak>>
    BY <1>4 DEF StartRecovers, ReleaseEnds, RuntimeLost, BeginsClosing
  <2> QED
    BY <2>1 DEF WorkerTyped, KernelTyped
<1>5. CASE StartFails
  <2>1. NoCopy \in Copies
    BY DEF NoCopy, Copies, Targets
  <2> QED
    BY <1>5, <2>1 DEF StartFails, HandlerLeaves, WorkerTyped, KernelTyped
<1> QED
  BY <1>1, <1>2, <1>3, <1>4, <1>5 DEF RuntimeStep

\* The invariant holds in every state of every behaviour, fair or not.
THEOREM ProbeInvariance == ProbeInit /\ [][ProbeNext]_probeVars => []ProbeInv
<1>1. ASSUME ProbeInv, [ProbeNext]_probeVars PROVE ProbeInv'
  <2>1. CASE ProbeNext
    BY <1>1, <2>1, SamplerKeeps, ReportKeeps, WorkerKeeps, HandlerKeepsProbes, AroundKeeps DEF ProbeNext
  <2>2. CASE UNCHANGED probeVars
    BY <1>1, <2>2
       DEF probeVars, row, handler, probe, kernel, bounds, ProbeInv, ProbeTyped, RowTyped, HandlerTyped,
           SampleTyped, CountTyped, WorkerTyped, KernelTyped, RuntimeTyped, FreshIsGenuine,
           FreshHasLooked, Mutating, CopyIsProved, FailuresAreVerdicts, ProbeHonest,
           LoggedInIsProved, LostTakesRun
  <2> QED
    BY <1>1, <2>1, <2>2
<1> QED
  BY <1>1, ProbeInvInit, PTL

\* A channel shown as logged in was measured on its present instance and address,
\* and one taken for lost failed often enough on it (lifecycle.rs:20-60, 318-470).
THEOREM ProbesAreHonest == ProbeSpec => [](ProbeTypeOK /\ ProbeHonest)
<1>1. ProbeInv => ProbeTypeOK /\ ProbeHonest
  BY TypedIsTypeOK DEF ProbeInv
<1> QED
  BY <1>1, ProbeInvariance, PTL DEF ProbeSpec

-----------------------------------------------------------------------------
(* Watchdog *)

\* gateway_repair is held by whoever repairs.
LockAgrees ==
  /\ auto.at # "none" => lock = "auto"
  /\ hand # "none" => lock = "hand"

\* A surrender is shown that the ladder does not stand by only until the loop,
\* which has just reported the machine gone, comes to rest.
BannerAgrees ==
  LoopAt("idle") /\ banner.checked /\ banner.gaveUp /\ ~ladder.gaveUp =>
    phase # "serving" /\ (phase = "resting" => round.gone = 3)

Gateways == [machine : BOOLEAN, docker : {"ok", "mute", "lost"},
             kernel : {"well", "stuck", "stopped"}, forward : BOOLEAN]
Ladders == [streak : 0 .. Debounce, cool : 0 .. Cooldown, heals : SUBSET (0 .. Window - 1),
            restarted : BOOLEAN, gaveUp : BOOLEAN]
Rounds == [at : {"idle", "sampling", "deciding", "ended"}, read : BOOLEAN, was : BOOLEAN,
           health : Healths, gone : 0 .. 4, woke : BOOLEAN]
Banners == [checked : BOOLEAN, healing : BOOLEAN, gaveUp : BOOLEAN]
Autos == [at : {"none", "begun", "ready", "forwards"}, action : {"none", "tunnel", "restart"},
          age : 0 .. Longest]
Tallies == [tunnels : 0 .. Attempts, restarts : 0 .. 2]

\* The constants of the watchdog as separate facts.
LEMMA WatchdogBounds ==
  /\ Debounce \in Nat /\ Debounce > 0 /\ Cooldown \in Nat /\ Cooldown > 0 /\ Window \in Nat /\ Window > 0
  /\ Attempts \in Nat /\ Attempts > 0 /\ Longest \in Nat /\ Longest > 0
BY WatchdogAssumption

\* What the ladder knows agrees with what it has decided: repairs of the forward
\* still in the window are among the counted ones, and the restart is counted.
Agrees(l, c) ==
  /\ l \in Ladders /\ c \in Tallies
  /\ Cardinality(l.heals) <= c.tunnels
  /\ c.restarts = (IF l.restarted THEN 1 ELSE 0)
  /\ l.restarted => c.tunnels = Attempts
  /\ l.gaveUp => l.restarted

\* The type invariant with its parts named.
WatchdogTyped ==
  /\ phase \in {"serving", "resting", "closing"} /\ gateway \in Gateways /\ allowed \in BOOLEAN
  /\ round \in Rounds /\ banner \in Banners /\ auto \in Autos
  /\ hand \in {"none", "begun", "restores", "forwards", "restarts", "finishes"}
  /\ lock \in {"free", "auto", "hand"}

WatchdogInv == WatchdogTyped /\ Agrees(ladder, count) /\ LockAgrees /\ BannerAgrees

\* The types the other parts rely on, one by one.
LEMMA WatchdogIsTyped ==
  WatchdogTyped /\ ladder \in Ladders /\ count \in Tallies <=> WatchdogTypeOK
BY DEF WatchdogTyped, WatchdogTypeOK, Gateways, Ladders, Rounds, Banners, Autos, Tallies

\* The invariant gives what the ladder promises.
LEMMA WatchdogPromises ==
  ASSUME WatchdogInv
  PROVE  RestartIsEarned /\ RepairsAreAlone /\ BannerIsHonest
<1>1. ladder.restarted \in BOOLEAN /\ count.restarts \in 0 .. 2
  BY DEF WatchdogInv, Agrees, Ladders, Tallies
<1> QED
  BY <1>1 DEF WatchdogInv, Agrees, LockAgrees, BannerAgrees, RestartIsEarned, RepairsAreAlone, BannerIsHonest

\* The window holds finitely many repairs.
LEMMA HealsFinite ==
  ASSUME NEW h \in SUBSET (0 .. Window - 1)
  PROVE  IsFiniteSet(h) /\ Cardinality(h) \in Nat
<1>1. IsFiniteSet(0 .. Window - 1)
  BY WatchdogBounds, FS_Interval
<1>2. IsFiniteSet(h)
  BY <1>1, FS_Subset
<1> QED
  BY <1>2, FS_CardinalityType

\* A ladder that has decided nothing.
LEMMA FreshAgrees == Agrees(Fresh, NoTries)
<1>1. Fresh.heals = {} /\ Cardinality({}) = 0
  BY FS_EmptySet DEF Fresh
<1>2. Fresh \in Ladders /\ NoTries \in Tallies
  BY WatchdogBounds DEF Fresh, NoTries, Ladders, Tallies
<1> QED
  BY <1>1, <1>2 DEF Agrees, Fresh, NoTries

\* Time only takes repairs out of the window.
LEMMA AgedAgrees ==
  ASSUME NEW l \in Ladders, NEW c \in Tallies, Agrees(l, c)
  PROVE  Agrees(Aged(l), c) /\ Aged(l).gaveUp = l.gaveUp
<1> DEFINE older == {r + 1 : r \in l.heals} \cap (0 .. Window - 1)
           f == [x \in older |-> x - 1]
<1>1. l.heals \in SUBSET (0 .. Window - 1) /\ older \in SUBSET (0 .. Window - 1)
  BY DEF Ladders
<1>2. IsFiniteSet(l.heals) /\ Cardinality(l.heals) \in Nat /\ Cardinality(older) \in Nat
  BY <1>1, HealsFinite
<1>3. f \in Injection(older, l.heals)
  <2>1. \A x \in older : x \in Int /\ x - 1 \in l.heals
    BY <1>1, WatchdogBounds
  <2>2. \A x, y \in older : f[x] = f[y] => x = y
    BY <2>1
  <2> QED
    BY <2>1, <2>2 DEF Injection, IsInjective
<1>4. Cardinality(older) <= Cardinality(l.heals)
  BY <1>2, <1>3, FS_Injection
<1> HIDE DEF older
<1>5. /\ Aged(l) = [l EXCEPT !.cool = IF @ < Cooldown THEN @ + 1 ELSE @, !.heals = older]
  BY DEF Aged, older
<1>6. (IF l.cool < Cooldown THEN l.cool + 1 ELSE l.cool) \in 0 .. Cooldown
  BY WatchdogBounds DEF Ladders
<1>7. Aged(l) \in Ladders
  BY <1>1, <1>5, <1>6 DEF Ladders
<1>8. Aged(l).heals = older /\ Aged(l).restarted = l.restarted
  BY <1>5 DEF Ladders
<1>9. Aged(l).gaveUp = l.gaveUp
  BY <1>5 DEF Ladders
<1> QED
  BY <1>2, <1>4, <1>7, <1>8, <1>9 DEF Agrees, Tallies

\* A sleep makes the ladder bolder, it does not let it start over.
LEMMA ForcedAgrees ==
  ASSUME NEW l \in Ladders, NEW c \in Tallies, Agrees(l, c)
  PROVE  Agrees(ForceHeal(l), c)
<1>1. ForceHeal(l) \in Ladders
  <2>1. Debounce \in 0 .. Debounce /\ Cooldown \in 0 .. Cooldown
    BY WatchdogBounds
  <2> QED
    BY <2>1 DEF ForceHeal, Ladders
<1>2. ForceHeal(l).heals = l.heals /\ ForceHeal(l).restarted = l.restarted
  BY DEF ForceHeal, Ladders
<1>3. ~ForceHeal(l).gaveUp
  BY DEF ForceHeal, Ladders
<1> QED
  BY <1>1, <1>2, <1>3 DEF Agrees

\* What LoopDecides adds to the count.
CountAfter(c, l, health) ==
  LET action == ActionFor(l, health)
  IN  IF EndsOutage(health) THEN NoTries
      ELSE [tunnels |-> IF action = "tunnel" /\ c.tunnels < Attempts
                          THEN c.tunnels + 1 ELSE c.tunnels,
            restarts |-> IF action = "restart" /\ c.restarts < 2
                           THEN c.restarts + 1 ELSE c.restarts]

\* A decision climbs one rung at most, and counts it.
LEMMA DecidedAgrees ==
  ASSUME NEW l \in Ladders, NEW c \in Tallies, Agrees(l, c), NEW health
  PROVE  Agrees(Decided(l, health), CountAfter(c, l, health))
<1> DEFINE action == ActionFor(l, health)
           d == Decided(l, health)
           n == CountAfter(c, l, health)
<1>1. CASE EndsOutage(health)
  BY <1>1, FreshAgrees DEF Decided, CountAfter
<1>2. CASE ~EndsOutage(health) /\ health \notin Broken
  <2>1. d = l /\ action = "none"
    BY <1>2 DEF Decided, ActionFor
  <2>2. n = [tunnels |-> c.tunnels, restarts |-> c.restarts]
    BY <1>2, <2>1 DEF CountAfter
  <2> QED
    BY <2>1, <2>2 DEF Agrees, Tallies
<1>3. CASE ~EndsOutage(health) /\ health \in Broken
  <2> DEFINE p == Pressed(l)
  <2>1. p \in Ladders /\ p.heals = l.heals /\ p.restarted = l.restarted /\ p.gaveUp = l.gaveUp
    BY WatchdogBounds DEF Pressed, Ladders
  <2>2. /\ action \in {"none", "tunnel", "restart"}
        /\ action = "tunnel" => Cardinality(l.heals) < Attempts
        /\ action = "restart" => Cardinality(l.heals) >= Attempts /\ ~l.restarted
        /\ action = "none" /\ MayAct(p) => l.restarted
    <3>1. Cardinality(l.heals) \in Nat
      BY HealsFinite DEF Ladders
    <3> QED
      BY <1>3, <3>1, WatchdogBounds DEF ActionFor
  <2>3. l.heals \in SUBSET (0 .. Window - 1) /\ l.heals \cup {0} \in SUBSET (0 .. Window - 1)
    BY WatchdogBounds DEF Ladders
  <2>4. /\ Cardinality(l.heals) \in Nat
        /\ Cardinality(l.heals \cup {0}) \in Nat
        /\ Cardinality(l.heals \cup {0}) <= Cardinality(l.heals) + 1
    <3>1. IsFiniteSet(l.heals) /\ Cardinality(l.heals) \in Nat
      BY <2>3, HealsFinite
    <3>2. Cardinality(l.heals \cup {0}) =
            IF 0 \in l.heals THEN Cardinality(l.heals) ELSE Cardinality(l.heals) + 1
      BY <3>1, FS_AddElement
    <3> QED
      BY <3>1, <3>2
  <2> HIDE DEF action, p
  <2>5. d = [p EXCEPT !.cool = CoolAfter(@, action),
                      !.heals = IF action = "tunnel" THEN @ \cup {0} ELSE @,
                      !.restarted = @ \/ action = "restart",
                      !.gaveUp = @ \/ (MayAct(p) /\ action = "none")]
    BY <1>3 DEF Decided, action, p
  <2>6. d.heals = (IF action = "tunnel" THEN l.heals \cup {0} ELSE l.heals)
    BY <2>1, <2>5 DEF Ladders
  <2>7. d.restarted = (l.restarted \/ action = "restart")
    BY <2>1, <2>5 DEF Ladders
  <2>8. d.gaveUp = (l.gaveUp \/ (MayAct(p) /\ action = "none"))
    BY <2>1, <2>5 DEF Ladders
  <2>9. d \in Ladders
    <3>1. CoolAfter(p.cool, action) \in 0 .. Cooldown
      BY <2>1, WatchdogBounds DEF CoolAfter, Ladders
    <3>2. (IF action = "tunnel" THEN p.heals \cup {0} ELSE p.heals) \in SUBSET (0 .. Window - 1)
      BY <2>1, <2>3
    <3>3. MayAct(p) \in BOOLEAN /\ p.restarted \in BOOLEAN /\ p.gaveUp \in BOOLEAN
      BY <2>1 DEF MayAct, Ladders
    <3>4. (p.restarted \/ action = "restart") \in BOOLEAN
          /\ (p.gaveUp \/ (MayAct(p) /\ action = "none")) \in BOOLEAN
      OBVIOUS
    <3> QED
      BY <2>1, <2>5, <3>1, <3>2, <3>4 DEF Ladders
  <2> HIDE DEF d
  <2>10. /\ n.tunnels = (IF action = "tunnel" /\ c.tunnels < Attempts THEN c.tunnels + 1 ELSE c.tunnels)
         /\ n.restarts = (IF action = "restart" /\ c.restarts < 2 THEN c.restarts + 1 ELSE c.restarts)
         /\ n = [tunnels |-> n.tunnels, restarts |-> n.restarts]
    BY <1>3 DEF CountAfter, action
  <2>11. n \in Tallies
    BY <2>10, WatchdogBounds DEF Tallies
  <2> HIDE DEF n
  <2>12. c.tunnels \in 0 .. Attempts /\ c.restarts \in 0 .. 2
    BY DEF Tallies
  <2>13. l.restarted \in BOOLEAN /\ (d.restarted <=> l.restarted \/ action = "restart")
    BY <2>7 DEF Ladders
  <2>14. Cardinality(d.heals) <= n.tunnels
    BY <2>2, <2>4, <2>6, <2>10, <2>12, WatchdogBounds DEF Agrees
  <2>15. n.restarts = (IF d.restarted THEN 1 ELSE 0)
    <3>1. CASE action = "restart"
      BY <2>2, <2>10, <2>12, <2>13, <3>1 DEF Agrees
    <3>2. CASE action # "restart"
      BY <2>10, <2>12, <2>13, <3>2 DEF Agrees
    <3> QED
      BY <3>1, <3>2
  <2>16. d.restarted => n.tunnels = Attempts
    <3>1. CASE action = "restart"
      BY <2>2, <2>4, <2>10, <2>12, <3>1, WatchdogBounds DEF Agrees
    <3>2. CASE action # "restart"
      BY <2>10, <2>12, <2>13, <3>2 DEF Agrees
    <3> QED
      BY <3>1, <3>2
  <2>17. d.gaveUp => d.restarted
    BY <2>2, <2>7, <2>8 DEF Agrees
  <2> QED
    BY <2>9, <2>11, <2>14, <2>15, <2>16, <2>17 DEF Agrees, d, n
<1> QED
  BY <1>1, <1>2, <1>3

\* A watchdog that begins has repaired nothing.
LEMMA WatchdogInvInit == WatchdogInit => WatchdogInv
<1> SUFFICES ASSUME WatchdogInit PROVE WatchdogInv
  OBVIOUS
<1>1. WatchdogTyped
  BY WatchdogBounds DEF WatchdogInit, WatchdogTyped, Gateways, Rounds, Banners, Autos, Healths
<1>2. Agrees(ladder, count)
  BY FreshAgrees DEF WatchdogInit
<1> QED
  BY <1>1, <1>2 DEF WatchdogInv, WatchdogInit, LockAgrees, BannerAgrees, LoopAt

\* The loop: every round climbs, keeps or resets ladder and count together, and
\* says so on the banner.
LEMMA LoopKeeps ==
  ASSUME WatchdogInv, LoopStep
  PROVE  WatchdogInv'
<1> USE DEF WatchdogInv, WatchdogTyped, LockAgrees, BannerAgrees, LoopAt
<1>1. CASE LoopRests
  <2>1. round' \in Rounds /\ round'.at = "idle"
    BY <1>1 DEF LoopRests, Rounds
  <2>2. banner' \in Banners /\ ~banner'.checked
    BY <1>1 DEF LoopRests, ShownAtRest, Banners
  <2>3. Agrees(ladder', count')
    BY <1>1, FreshAgrees DEF LoopRests
  <2> QED
    BY <1>1, <2>1, <2>2, <2>3 DEF LoopRests
<1>2. CASE LoopEnds
  <2>1. round' \in Rounds /\ round'.at = "ended"
    BY <1>2 DEF LoopEnds, Rounds
  <2> QED
    BY <1>2, <2>1 DEF LoopEnds
<1>3. ASSUME NEW woke \in BOOLEAN, LoopBegins(woke) PROVE WatchdogInv'
  <2> DEFINE resumed == allowed /\ ~round.was
             aged == IF resumed THEN Fresh ELSE IF woke THEN ladder ELSE Aged(ladder)
             after == IF woke /\ allowed THEN ForceHeal(aged) ELSE aged
             tally == IF resumed THEN NoTries ELSE count
  <2>1. Agrees(ladder, count) /\ ladder \in Ladders /\ count \in Tallies
    BY DEF Agrees
  <2>2. Agrees(aged, tally)
    BY <2>1, FreshAgrees, AgedAgrees
  <2>3. Agrees(after, tally)
    BY <2>2, ForcedAgrees DEF Agrees
  <2>4. ladder' = after /\ count' = tally
    BY <1>3 DEF LoopBegins
  <2>5. auto' \in Autos /\ (auto'.at = "none" <=> auto.at = "none")
    BY <1>3, WatchdogBounds DEF LoopBegins, Autos
  <2>6. round' \in Rounds /\ round'.at = "sampling"
    BY <1>3 DEF LoopBegins, Rounds
  <2>7. gateway' \in Gateways
    BY <1>3 DEF LoopBegins, Gateways
  <2>8. UNCHANGED <<phase, allowed, banner, hand, lock>>
    BY <1>3 DEF LoopBegins
  <2> HIDE DEF after, tally
  <2>9. Agrees(ladder', count')
    BY <2>3, <2>4
  <2> QED
    BY <2>5, <2>6, <2>7, <2>8, <2>9
<1>4. CASE LoopSamples
  <2>1. gateway' \in Gateways
    BY <1>4 DEF LoopSamples, Gateways
  <2>2. Health' \in Healths
    BY DEF Health, Healths
  <2>3. Streak(Health') \in 0 .. 4
    BY DEF Streak, Rounds
  <2>4. /\ round' = [round EXCEPT !.at = IF ReportsGone(Health') THEN "idle" ELSE "deciding",
                               !.health = Health', !.gone = Streak(Health')]
        /\ banner' = [banner EXCEPT !.checked = TRUE]
        /\ phase' = IF ReportsGone(Health') /\ phase = "serving" THEN "resting" ELSE phase
        /\ UNCHANGED <<allowed, ladder, auto, hand, lock, count>>
    BY <1>4 DEF LoopSamples
  <2>5. round' \in Rounds
    BY <2>2, <2>3, <2>4 DEF Rounds
  <2>6. round'.at = "idle" => round'.gone = 3 /\ phase' # "serving"
    BY <2>4 DEF Rounds, ReportsGone
  <2>7. banner' \in Banners
    BY <2>4 DEF Banners
  <2> QED
    BY <2>1, <2>4, <2>5, <2>6, <2>7
<1>5. CASE LoopSkips \/ LoopWaits
  <2>1. round' \in Rounds /\ banner' \in Banners /\ ~banner'.gaveUp
    BY <1>5 DEF LoopSkips, LoopWaits, Rounds, Banners
  <2> QED
    BY <1>5, <2>1 DEF LoopSkips, LoopWaits
<1>6. CASE LoopDecides
  <2>1. ladder' = Decided(ladder, round.health) /\ count' = CountAfter(count, ladder, round.health)
    BY <1>6 DEF LoopDecides, CountAfter
  <2>2. Agrees(ladder', count')
    BY <2>1, DecidedAgrees DEF Agrees
  <2>3. round' \in Rounds /\ round'.at = "idle"
    BY <1>6 DEF LoopDecides, Rounds
  <2>4. ladder'.gaveUp \in BOOLEAN
    BY <2>2 DEF Agrees, Ladders
  <2>5. banner' \in Banners /\ banner'.gaveUp = ladder'.gaveUp
    BY <1>6, <2>1, <2>4 DEF LoopDecides, Banners
  <2>6. \/ auto' = [at |-> "begun", action |-> ActionFor(ladder, round.health), age |-> 0] /\ lock' = "auto"
        \/ UNCHANGED <<auto, lock>>
    BY <1>6 DEF LoopDecides
  <2>7. auto' \in Autos /\ (auto'.at # "none" => lock' = "auto")
    <3>1. ActionFor(ladder, round.health) \in {"none", "tunnel", "restart"}
      BY DEF ActionFor
    <3> QED
      BY <2>6, <3>1, WatchdogBounds DEF Autos
  <2>8. hand # "none" => UNCHANGED lock
    BY <1>6 DEF LoopDecides, LockFree
  <2>9. lock' \in {"free", "auto", "hand"} /\ UNCHANGED <<phase, gateway, allowed, hand>>
    BY <1>6, <2>6 DEF LoopDecides
  <2> QED
    BY <2>2, <2>3, <2>5, <2>7, <2>8, <2>9
<1> QED
  BY <1>1, <1>2, <1>3, <1>4, <1>5, <1>6 DEF LoopStep

\* What the two repairs do to the gateway.
LEMMA RepairTypes ==
  ASSUME gateway \in Gateways
  PROVE  /\ RestoresDocker => gateway' \in Gateways
         /\ \A ok \in BOOLEAN : EnsuresForward(ok) \/ RestartsKernel(ok) => gateway' \in Gateways
<1>1. RestoresDocker => gateway' \in Gateways
  BY DEF RestoresDocker, Gateways
<1>2. \A ok \in BOOLEAN : EnsuresForward(ok) => gateway' \in Gateways
  BY DEF EnsuresForward, Gateways
<1>3. \A ok \in BOOLEAN : RestartsKernel(ok) => gateway' \in Gateways
  BY DEF RestartsKernel, Gateways
<1> QED
  BY <1>1, <1>2, <1>3

\* The repairs give the lock back when they end, and touch no ladder.
LEMMA RepairsKeep ==
  ASSUME WatchdogInv, AutoStep \/ HandBegins \/ HandStep
  PROVE  WatchdogInv'
<1>1. UNCHANGED <<phase, allowed, ladder, round, count>>
  BY DEF AutoStep, AutoGathers, AutoStopsEarly, AutoTouches, AutoForwards, HandBegins, HandStep,
         HandEnsures, HandRestores, HandForwards, HandRestarts, HandFinishes
<1>2. gateway' \in Gateways
  BY RepairTypes DEF WatchdogInv, WatchdogTyped, AutoStep, AutoGathers, AutoStopsEarly, AutoTouches,
         AutoForwards, HandBegins, HandStep, HandEnsures, HandRestores, HandForwards, HandRestarts,
         HandFinishes
<1>3. UNCHANGED banner \/ Confirmed
  BY DEF AutoStep, AutoGathers, AutoStopsEarly, AutoTouches, AutoForwards, HandBegins, HandStep,
         HandEnsures, HandRestores, HandForwards, HandRestarts, HandFinishes
<1>4. banner' \in Banners /\ (UNCHANGED banner \/ ~banner'.checked)
  <2>1. CASE UNCHANGED banner
    BY <2>1 DEF WatchdogInv, WatchdogTyped
  <2>2. CASE Confirmed
    <3>1. banner' = [checked |-> FALSE, healing |-> FALSE, gaveUp |-> FALSE]
      BY <2>2 DEF Confirmed
    <3> QED
      BY <3>1 DEF Banners
  <2> QED
    BY <1>3, <2>1, <2>2
<1>5. /\ auto' \in Autos /\ lock' \in {"free", "auto", "hand"}
      /\ hand' \in {"none", "begun", "restores", "forwards", "restarts", "finishes"}
      /\ LockAgrees'
  <2> USE DEF WatchdogInv, WatchdogTyped, LockAgrees
  <2>1. CASE AutoStep
    <3>1. AutoEnds \/ \E at \in {"ready", "forwards"} : AutoTo(at)
      BY <2>1 DEF AutoStep, AutoGathers, AutoStopsEarly, AutoTouches, AutoForwards
    <3>2. auto.at # "none" /\ UNCHANGED hand
      BY <2>1 DEF AutoStep, AutoGathers, AutoStopsEarly, AutoTouches, AutoForwards
    <3>3. auto' \in Autos /\ (auto'.at = "none" \/ UNCHANGED lock) /\ lock' \in {"free", lock}
      BY <3>1, WatchdogBounds DEF AutoEnds, AutoTo, Autos
    <3> QED
      BY <3>2, <3>3
  <2>2. CASE HandBegins
    BY <2>2 DEF HandBegins, LockFree
  <2>3. CASE HandStep
    <3>1. HandEnds \/ \E at \in {"restores", "forwards", "restarts", "finishes"} : HandTo(at)
      BY <2>3 DEF HandStep, HandEnsures, HandRestores, HandForwards, HandRestarts, HandFinishes
    <3>2. hand # "none" /\ UNCHANGED auto
      BY <2>3 DEF HandStep, HandEnsures, HandRestores, HandForwards, HandRestarts, HandFinishes
    <3> QED
      BY <3>1, <3>2 DEF HandEnds, HandTo
  <2> QED
    BY <2>1, <2>2, <2>3
<1> QED
  BY <1>1, <1>2, <1>4, <1>5 DEF WatchdogInv, WatchdogTyped, BannerAgrees, LoopAt

\* The world, the switch and the runtime.
LEMMA WorldKeeps ==
  ASSUME WatchdogInv, Toggles \/ Fails \/ Mends \/ Stops \/ Starts \/ Closes
  PROVE  WatchdogInv'
<1> USE DEF WatchdogInv, WatchdogTyped, LockAgrees, BannerAgrees, LoopAt
<1>1. CASE Toggles \/ Closes
  BY <1>1 DEF Toggles, Closes
<1>2. CASE Fails \/ Mends
  <2>1. gateway' \in Gateways
    BY <1>2 DEF Fails, Mends, Gateways
  <2> QED
    BY <1>2, <2>1 DEF Fails, Mends
<1>3. CASE Stops
  <2>1. gateway' \in Gateways
    BY <1>3 DEF Stops, Gateways
  <2> QED
    BY <1>3, <2>1 DEF Stops
<1>4. CASE Starts
  <2>1. gateway' \in Gateways
    BY <1>4 DEF Starts, Gateways
  <2>2. round.gone = 0 /\ ladder = Fresh
    BY <1>4 DEF Starts
  <2> QED
    BY <1>4, <2>1, <2>2 DEF Starts
<1> QED
  BY <1>1, <1>2, <1>3, <1>4

\* The ladder, the tally, the lock and the banner of the watchdog agree at every
\* moment (health.rs).
THEOREM WatchdogInvariance == WatchdogSpec => []WatchdogInv
<1>1. ASSUME WatchdogInv, [WatchdogNext]_watchdogVars PROVE WatchdogInv'
  <2>1. CASE WatchdogNext
    BY <1>1, <2>1, LoopKeeps, RepairsKeep, WorldKeeps DEF WatchdogNext
  <2>2. CASE UNCHANGED watchdogVars
    BY <1>1, <2>2 DEF watchdogVars, WatchdogInv, WatchdogTyped, LockAgrees, BannerAgrees, LoopAt
  <2> QED
    BY <1>1, <2>1, <2>2
<1> QED
  BY <1>1, WatchdogInvInit, PTL DEF WatchdogSpec

\* The ladder is climbed rung by rung by one repairer, and the banner tells the
\* truth about it, whatever sleeps, pauses and losses come between
\* (health.rs:161-246, lifecycle.rs:185-188).
THEOREM LadderIsKept == WatchdogSpec => LadderKept
<1>1. WatchdogInv => RestartIsEarned /\ RepairsAreAlone /\ BannerIsHonest
  BY WatchdogPromises
<1>2. ASSUME WatchdogInv', [WatchdogNext]_watchdogVars
      PROVE  [RestartIsEarned' /\ RepairsAreAlone' /\ BannerIsHonest' /\ PauseIsRespected]_watchdogVars
  <2>1. RestartIsEarned' /\ RepairsAreAlone' /\ BannerIsHonest'
    BY <1>1, <1>2, PTL
  <2>2. PauseIsRespected
    BY DEF PauseIsRespected, AutoTouchesAnything, AutoTouches, StillAllowed
  <2> QED
    BY <2>1, <2>2
<1> QED
  BY <1>2, WatchdogInvariance, PTL DEF WatchdogSpec, LadderKept

-----------------------------------------------------------------------------
(* Forwards *)

ForwardSteps == {"idle", "check", "drop", "reclaim", "signal", "spawn", "record", "wait", "ready", "failed"}
ForwardOps == [kind : {"none", "acquire", "repair", "startup"}, step : ForwardSteps,
               id : Ids \cup {NoId}, viewer : SUBSET Viewers]
ForwardTyped ==
  /\ owner \in {"window", "gateway"} /\ instances \in Nat
  /\ handle \in Ids \cup {NoId} /\ operation \in ForwardOps
  /\ record \in [id : Ids \cup {NoId}, inst : Nat]
  /\ viewers \subseteq Viewers /\ forwards \subseteq 1 .. instances
  /\ proc \in [Ids -> 0 .. instances]
  /\ serving \in BOOLEAN /\ entry \in BOOLEAN /\ oldClient \in BOOLEAN /\ grace \in BOOLEAN
  /\ releasing \in BOOLEAN /\ up \in BOOLEAN

\* The record names one of our processes, and while the core has a handle it is
\* the handle's: the id may be free by then, but nobody else has it.
RecordIsOurs == record = NoRecord \/ (record.id \in Ids /\ record.inst \in forwards)
HandleRecorded == handle # NoId => record.id = handle /\ proc[handle] \in {0, record.inst}

\* The process an operation is about to record.
SpawnedIsOurs ==
  operation.id # NoId => operation.step = "record" /\ proc[operation.id] \in forwards \cup {0}

\* What an operation may rely on at its step: from the reclaim on no child is held,
\* from the spawn on the recorded process is gone.
StepsAgree ==
  /\ operation.step \in {"reclaim", "signal", "spawn", "record"} => handle = NoId
  /\ operation.step \in {"spawn", "record"} => record = NoRecord \/ proc[record.id] # record.inst
  /\ operation.step = "drop" /\ owner = "gateway" => handle # NoId \/ record = NoRecord
  /\ operation.step = "ready" => handle # NoId

\* Nothing is under way while the core is down or the runtime is released, and a
\* release has begun only when nobody watched.
RestAgrees ==
  /\ ~up => handle = NoId /\ ~releasing /\ operation = NoOperation
  /\ releasing => operation = NoOperation /\ (owner = "window" => ~Watched)
  /\ owner = "gateway" => ~entry /\ operation.kind # "acquire"

\* NothingLoose, field by field.
AllCovered ==
  /\ hurt = {}
  /\ \A p \in Ids : proc[p] \in forwards =>
        \/ p = handle \/ p = operation.id
        \/ record.id = p /\ record.inst = proc[p]
        \/ proc[p] \in orphaned

ForwardInv ==
  /\ ForwardTyped /\ RecordIsOurs /\ HandleRecorded /\ SpawnedIsOurs /\ StepsAgree /\ RestAgrees
  /\ AllCovered

\* A forward of ours that somebody records is under the control of the core.
LEMMA CoveredIsNotLoose ==
  ASSUME ForwardTyped
  PROVE  AllCovered <=> NothingLoose
<1>1. \A p \in Ids : record = [id |-> p, inst |-> proc[p]] <=> record.id = p /\ record.inst = proc[p]
  BY DEF ForwardTyped
<1> QED
  BY <1>1 DEF AllCovered, NothingLoose

\* Before the first forward there is nothing to cover.
LEMMA ForwardInvInit == ForwardInit => ForwardInv
<1> SUFFICES ASSUME ForwardInit PROVE ForwardInv
  OBVIOUS
<1> USE DEF ForwardInit, NoRecord, NoOperation, NoId
<1>1. operation \in ForwardOps
  BY DEF ForwardOps, ForwardSteps
<1>2. owner \in {"window", "gateway"}
  BY ForwardAssumption
<1>3. ForwardTyped
  <2>1. proc \in [Ids -> 0 .. instances] /\ instances \in Nat
    OBVIOUS
  <2>2. record \in [id : Ids \cup {NoId}, inst : Nat]
    OBVIOUS
  <2> QED
    BY <1>1, <1>2, <2>1, <2>2 DEF ForwardTyped
<1> QED
  BY <1>3 DEF ForwardInv, RecordIsOurs, HandleRecorded, SpawnedIsOurs, StepsAgree, RestAgrees, AllCovered

\* What the core ends is its own: the process it holds, or is about to record.
LEMMA OwnProcesses ==
  ASSUME ForwardInv
  PROVE  /\ Alive(handle) => handle \in Ids /\ proc[handle] \in forwards
         /\ Alive(operation.id) => operation.id \in Ids /\ proc[operation.id] \in forwards
         /\ IdentityMatches => record.id \in Ids /\ proc[record.id] \in forwards
BY DEF ForwardInv, ForwardTyped, ForwardOps, RecordIsOurs, HandleRecorded, SpawnedIsOurs, Alive,
       IdentityMatches, NoRecord, NoId

\* What a signal does to the processes.
LEMMA KillResult ==
  ASSUME ForwardInv, NEW id, Alive(id) => id \in Ids /\ proc[id] \in forwards, Kill(id)
  PROVE  /\ hurt' = {} /\ proc' \in [Ids -> 0 .. instances]
         /\ \A p \in Ids : proc'[p] = IF p = id THEN 0 ELSE proc[p]
BY DEF ForwardInv, ForwardTyped, AllCovered, Kill

\* A step of an operation.
LEMMA GoesResult ==
  ASSUME ForwardInv, NEW step \in ForwardSteps, Goes(step)
  PROVE  /\ operation' \in ForwardOps /\ operation'.step = step
         /\ operation'.id = operation.id /\ operation'.kind = operation.kind
BY DEF ForwardInv, ForwardTyped, ForwardOps, Goes

\* To do nothing is an operation of the type.
LEMMA NoOperationIsTyped ==
  NoOperation \in ForwardOps /\ NoOperation.step = "idle" /\ NoOperation.id = NoId
  /\ NoOperation.kind = "none"
BY DEF NoOperation, ForwardOps, ForwardSteps, NoId

\* The login pages, their leases and the time that passes.
LEMMA PagesKeep ==
  ASSUME ForwardInv, \/ \E v \in Viewers : Acquire({v}) \/ Release(v) \/ LeaseEnds(v)
                     \/ Acquire({}) \/ GraceEnds \/ WatchdogRepairs \/ ChannelStarts \/ IdleBegins
  PROVE  ForwardInv'
<1> USE DEF ForwardInv, ForwardTyped, RecordIsOurs, HandleRecorded, SpawnedIsOurs, StepsAgree,
            RestAgrees, AllCovered
<1>1. ASSUME NEW who \in SUBSET Viewers, Acquire(who) PROVE ForwardInv'
  <2>1. /\ operation' = [kind |-> "acquire", step |-> "check", id |-> NoId, viewer |-> who]
        /\ up /\ ~releasing /\ owner = "window" /\ operation = NoOperation
        /\ UNCHANGED <<owner, serving, entry, handle, leaseVars, proc, forwards, record, releasing,
                     up, instances, orphaned, hurt>>
    BY <1>1 DEF Acquire, AcquireAdmitted
  <2>2. operation' \in ForwardOps /\ operation'.id = NoId /\ operation'.step = "check"
    BY <2>1 DEF ForwardOps, ForwardSteps
  <2> QED
    BY <2>1, <2>2, NoOperationIsTyped DEF leaseVars
<1>2. ASSUME NEW v \in Viewers, Release(v) \/ LeaseEnds(v) PROVE ForwardInv'
  <2>1. /\ viewers' = viewers \ {v} /\ grace' \in BOOLEAN
        /\ UNCHANGED <<owner, serving, entry, handle, oldClient, operation, proc, forwards, record, releasing,
                     up, instances, orphaned, hurt>>
    BY <1>2 DEF Release, LeaseEnds, worldVars
  <2>2. Watched' => Watched
    BY <2>1 DEF Watched
  <2> QED
    BY <2>1, <2>2
<1>3. CASE WatchdogRepairs
  <2>1. operation' \in ForwardOps /\ operation'.id = NoId /\ operation'.step = "check"
        /\ operation'.kind = "repair"
    BY <1>3 DEF WatchdogRepairs, ForwardOps, ForwardSteps
  <2> QED
    BY <1>3, <2>1, NoOperationIsTyped DEF WatchdogRepairs, worldVars, leaseVars
<1>4. CASE GraceEnds \/ ChannelStarts \/ IdleBegins
  <2>1. /\ serving' \in BOOLEAN /\ grace' \in BOOLEAN
        /\ \/ UNCHANGED releasing
           \/ releasing' = TRUE /\ operation = NoOperation /\ up /\ (owner = "window" => ~Watched)
        /\ UNCHANGED <<owner, entry, handle, viewers, oldClient, operation, proc, forwards, record,
                     up, instances, orphaned, hurt>>
    BY <1>4 DEF GraceEnds, ChannelStarts, IdleBegins, worldVars, leaseVars
  <2>2. Watched' <=> Watched
    BY <2>1 DEF Watched
  <2>3. ForwardTyped'
    BY <2>1
  <2>4. RestAgrees'
    <3>1. CASE UNCHANGED releasing
      BY <2>1, <2>2, <3>1
    <3>2. CASE releasing' = TRUE /\ operation = NoOperation /\ up /\ (owner = "window" => ~Watched)
      BY <2>1, <2>2, <3>2
    <3> QED
      BY <2>1, <3>1, <3>2
  <2> QED
    BY <2>1, <2>3, <2>4
<1> QED
  BY <1>1, <1>2, <1>3, <1>4

\* The window is taken down.
LEMMA DropsKeep ==
  ASSUME ForwardInv, DropsUnwatched \/ StopDrops \/ DropAll
  PROVE  ForwardInv'
<1> USE DEF ForwardInv, ForwardTyped, RecordIsOurs, HandleRecorded, SpawnedIsOurs, StepsAgree,
            RestAgrees, AllCovered
<1>1. operation = NoOperation /\ UNCHANGED <<owner, operation, forwards, record, up, instances, orphaned>>
  BY DEF DropsUnwatched, StopDrops, DropAll, LockTaken, worldVars
<1>2. CASE Kill(handle) /\ handle' = NoId /\ entry' = FALSE /\ viewers' = {} /\ oldClient' = FALSE
           /\ grace' = FALSE /\ serving' \in BOOLEAN /\ releasing' \in {releasing, FALSE}
  <2>1. /\ hurt' = {} /\ proc' \in [Ids -> 0 .. instances]
        /\ \A p \in Ids : proc'[p] = IF p = handle THEN 0 ELSE proc[p]
    BY <1>2, OwnProcesses, KillResult
  <2>2. AllCovered'
    BY <1>1, <1>2, <2>1, NoOperationIsTyped
  <2>3. ForwardTyped'
    BY <1>1, <1>2, <2>1
  <2>4. ~Watched' /\ handle' = NoId
    BY <1>2 DEF Watched
  <2>5. RecordIsOurs' /\ HandleRecorded' /\ SpawnedIsOurs'
    BY <1>1, <2>1, <2>4, NoOperationIsTyped DEF NoId
  <2>6. StepsAgree'
    BY <1>1, NoOperationIsTyped
  <2>7. RestAgrees'
    <3>1. (releasing' => releasing) /\ ~entry' /\ operation' = NoOperation
      <4>1. ~entry' /\ operation' = NoOperation
        BY <1>1, <1>2
      <4>2. CASE releasing' = releasing
        BY <4>1, <4>2
      <4>3. CASE releasing' = FALSE
        BY <4>1, <4>3
      <4> QED
        BY <1>2, <4>2, <4>3
    <3>2. ~up' => ~releasing'
      BY <1>1, <3>1
    <3> QED
      BY <1>1, <2>4, <3>1, <3>2, NoOperationIsTyped
  <2> QED
    BY <2>2, <2>3, <2>5, <2>6, <2>7
<1>3. CASE UNCHANGED <<proc, hurt, handle, entry, leaseVars, serving>> /\ releasing' = FALSE
  BY <1>1, <1>3, NoOperationIsTyped DEF leaseVars
<1>4. CASE DropsUnwatched
  BY <1>2, <1>4 DEF DropsUnwatched, worldVars
<1>5. CASE StopDrops
  BY <1>2, <1>5 DEF StopDrops
<1>6. CASE DropAll
  BY <1>2, <1>3, <1>6 DEF DropAll
<1> QED
  BY <1>4, <1>5, <1>6

\* The steps of ensure, up to the spawn.
LEMMA EnsureKeeps ==
  ASSUME ForwardInv, WindowChecks \/ GatewayChecks \/ DropChild \/ ReclaimReads \/ ReclaimSignals
  PROVE  ForwardInv'
<1> USE DEF ForwardInv, ForwardTyped, RecordIsOurs, HandleRecorded, SpawnedIsOurs, StepsAgree,
            RestAgrees, AllCovered
<1>1. /\ up /\ ~releasing /\ operation.id = NoId
      /\ UNCHANGED <<owner, serving, releasing, up, orphaned, entry, viewers, oldClient, grace,
                   forwards, instances>>
      /\ (Watched' <=> Watched)
  <2>1. up /\ operation.step \in {"check", "drop", "reclaim", "signal"}
    BY DEF WindowChecks, GatewayChecks, DropChild, ReclaimReads, ReclaimSignals, At
  <2>2. UNCHANGED <<owner, serving, releasing, up, orphaned, entry, viewers, oldClient, grace,
                  forwards, instances>>
    BY DEF WindowChecks, GatewayChecks, DropChild, ReclaimReads, ReclaimSignals, worldVars, leaseVars
  <2>3. ~releasing /\ operation.id = NoId
    BY <2>1, NoOperationIsTyped
  <2>4. Watched' <=> Watched
    BY <2>2 DEF Watched
  <2> QED
    BY <2>1, <2>2, <2>3, <2>4
<1>2. CASE WindowChecks
  <2>1. /\ handle' = (IF Alive(handle) THEN handle ELSE NoId) /\ owner = "window"
        /\ UNCHANGED <<proc, record, hurt>>
    BY <1>2 DEF WindowChecks
  <2>2. /\ operation' \in ForwardOps /\ operation'.id = NoId /\ operation'.step \in {"idle", "ready", "drop"}
        /\ (operation'.step = "ready" => Alive(handle))
    <3>1. CASE OpEnds
      BY <3>1, NoOperationIsTyped DEF OpEnds
    <3>2. CASE Alive(handle) /\ Goes("ready")
      BY <1>1, <3>2, GoesResult DEF ForwardSteps
    <3>3. CASE Goes("drop")
      BY <1>1, <3>3, GoesResult DEF ForwardSteps
    <3> QED
      BY <1>2, <3>1, <3>2, <3>3 DEF WindowChecks
  <2>3. AllCovered'
    <3>1. ~Alive(handle) => handle = NoId \/ (proc[handle] = 0 /\ proc[handle] \notin forwards)
      BY DEF Alive
    <3> QED
      BY <1>1, <2>1, <2>2, <3>1 DEF NoId
  <2> QED
    BY <1>1, <2>1, <2>2, <2>3 DEF Alive
<1>3. CASE GatewayChecks
  <2>1. owner = "gateway" /\ UNCHANGED <<handle, proc, record, hurt>>
    BY <1>3 DEF GatewayChecks
  <2>2. /\ operation' \in ForwardOps /\ operation'.id = NoId /\ operation'.kind = operation.kind
        /\ \/ handle = NoId /\ operation'.step = "reclaim"
           \/ handle # NoId /\ operation'.step = "ready"
           \/ (handle # NoId \/ record = NoRecord) /\ operation'.step = "drop"
    BY <1>1, <1>3, GoesResult DEF GatewayChecks, ForwardSteps
  <2> QED
    BY <1>1, <2>1, <2>2
<1>4. CASE DropChild
  <2>1. UNCHANGED record /\ operation.step = "drop"
    BY <1>4 DEF DropChild, At
  <2>2. CASE Kill(handle) /\ handle' = NoId /\ Goes(IF owner = "window" THEN "reclaim" ELSE "spawn")
    <3>1. /\ hurt' = {} /\ proc' \in [Ids -> 0 .. instances]
          /\ \A p \in Ids : proc'[p] = IF p = handle THEN 0 ELSE proc[p]
      BY <2>2, OwnProcesses, KillResult
    <3>2. /\ operation' \in ForwardOps /\ operation'.id = NoId /\ operation'.kind = operation.kind
          /\ operation'.step = (IF owner = "window" THEN "reclaim" ELSE "spawn")
      BY <1>1, <2>2, GoesResult DEF ForwardSteps
    <3>3. AllCovered'
      BY <1>1, <2>1, <2>2, <3>1, <3>2 DEF NoId
    <3>4. owner = "gateway" => record = NoRecord \/ proc'[record.id] # record.inst
      <4>1. CASE owner = "gateway" /\ handle # NoId
        BY <2>1, <3>1, <4>1 DEF NoRecord, NoId
      <4> QED
        BY <2>1, <4>1
    <3>5. ForwardTyped'
      BY <1>1, <2>1, <2>2, <3>1, <3>2
    <3> QED
      BY <1>1, <2>1, <2>2, <3>1, <3>2, <3>3, <3>4, <3>5
  <2>3. CASE owner = "gateway" /\ Goes("failed") /\ UNCHANGED <<handle, proc, hurt>>
    <3>1. /\ operation' \in ForwardOps /\ operation'.id = NoId /\ operation'.kind = operation.kind
          /\ operation'.step = "failed"
      BY <1>1, <2>3, GoesResult DEF ForwardSteps
    <3> QED
      BY <1>1, <2>1, <2>3, <3>1
  <2> QED
    BY <1>4, <2>2, <2>3 DEF DropChild
<1>5. CASE ReclaimReads
  <2>1. UNCHANGED <<handle, proc, hurt>> /\ handle = NoId
    BY <1>5 DEF ReclaimReads, At
  <2>2. /\ operation' \in ForwardOps /\ operation'.id = NoId /\ operation'.kind = operation.kind
        /\ \/ record' = NoRecord /\ operation'.step = "spawn" /\ ~Alive(record.id)
           \/ record' = record /\ operation'.step \in {"signal", "failed"}
    BY <1>1, <1>5, GoesResult DEF ReclaimReads, ForwardSteps, NoRecord, NoId, Alive
  <2>3. CASE record' = NoRecord /\ operation'.step = "spawn" /\ ~Alive(record.id)
    <3>1. AllCovered'
      BY <1>1, <2>1, <2>2, <2>3 DEF Alive, NoId
    <3>2. ForwardTyped'
      BY <1>1, <2>1, <2>2, <2>3 DEF NoRecord
    <3> QED
      BY <1>1, <2>1, <2>2, <2>3, <3>1, <3>2
  <2>4. CASE record' = record /\ operation'.step \in {"signal", "failed"}
    BY <1>1, <2>1, <2>2, <2>4
  <2> QED
    BY <2>2, <2>3, <2>4
<1>6. CASE ReclaimSignals
  <2>1. UNCHANGED handle /\ handle = NoId
    BY <1>6 DEF ReclaimSignals, At
  <2>2. CASE IdentityMatches /\ Kill(record.id) /\ record' = NoRecord /\ Goes("spawn")
    <3>1. /\ hurt' = {} /\ proc' \in [Ids -> 0 .. instances]
          /\ \A p \in Ids : proc'[p] = IF p = record.id THEN 0 ELSE proc[p]
      BY <2>2, OwnProcesses, KillResult
    <3>2. /\ operation' \in ForwardOps /\ operation'.id = NoId /\ operation'.kind = operation.kind
          /\ operation'.step = "spawn"
      BY <1>1, <2>2, GoesResult DEF ForwardSteps
    <3>3. AllCovered'
      BY <1>1, <2>1, <2>2, <3>1, <3>2 DEF NoId
    <3>4. ForwardTyped'
      BY <1>1, <2>1, <2>2, <3>1, <3>2 DEF NoRecord
    <3> QED
      BY <1>1, <2>1, <2>2, <3>1, <3>2, <3>3, <3>4
  <2>3. CASE Goes("failed") /\ UNCHANGED <<proc, hurt, record>>
    <3>1. /\ operation' \in ForwardOps /\ operation'.id = NoId /\ operation'.kind = operation.kind
          /\ operation'.step = "failed"
      BY <1>1, <2>3, GoesResult DEF ForwardSteps
    <3> QED
      BY <1>1, <2>1, <2>3, <3>1
  <2> QED
    BY <1>6, <2>2, <2>3 DEF ReclaimSignals
<1> QED
  BY <1>2, <1>3, <1>4, <1>5, <1>6

\* The steps of ensure from the spawn on: the record follows the process, and
\* whatever ends the operation in between ends the process.
LEMMA SpawnKeeps ==
  ASSUME ForwardInv,
         \/ \E id \in Ids : Spawns(id)
         \/ StartupEnds \/ RecordsOwner \/ Waits \/ Retries \/ RepairEnds \/ AcquireEnds
  PROVE  ForwardInv'
<1> USE DEF ForwardInv, ForwardTyped, RecordIsOurs, HandleRecorded, SpawnedIsOurs, StepsAgree,
            RestAgrees, AllCovered
<1>1. /\ up /\ ~releasing /\ operation # NoOperation /\ operation.step # "idle"
      /\ UNCHANGED <<owner, serving, releasing, up, orphaned>>
  <2>1. up /\ operation.step \in {"spawn", "failed", "record", "wait", "ready"}
    BY DEF Spawns, StartupEnds, RecordsOwner, Waits, Retries, RepairEnds, AcquireEnds, At
  <2>2. UNCHANGED <<owner, serving, releasing, up, orphaned>>
    BY DEF Spawns, StartupEnds, RecordsOwner, Waits, Retries, RepairEnds, AcquireEnds, worldVars
  <2> QED
    BY <2>1, <2>2, NoOperationIsTyped
<1>2. ASSUME NEW id \in Ids, Spawns(id) PROVE ForwardInv'
  <2>1. /\ operation.step = "spawn" /\ operation.id = NoId /\ handle = NoId /\ proc[id] = 0
        /\ instances' = instances + 1 /\ proc' = [proc EXCEPT ![id] = instances + 1]
        /\ forwards' = forwards \cup {instances + 1}
        /\ operation' = [operation EXCEPT !.step = "record", !.id = id]
        /\ UNCHANGED <<entry, handle, viewers, oldClient, grace, record, hurt>>
    BY <1>2 DEF Spawns, At, leaseVars
  <2>2. /\ operation' \in ForwardOps /\ operation'.id = id /\ operation'.step = "record"
        /\ operation'.kind = operation.kind
    BY <2>1 DEF ForwardOps, ForwardSteps
  <2>3. /\ proc' \in [Ids -> 0 .. instances'] /\ proc'[id] = instances + 1
        /\ \A p \in Ids \ {id} : proc'[p] = proc[p] /\ proc[p] # instances + 1
        /\ forwards' \subseteq 1 .. instances' /\ instances' \in Nat
    BY <2>1
  <2>4. AllCovered'
    BY <1>1, <2>1, <2>2, <2>3
  <2>5. record = NoRecord \/ proc'[record.id] # record.inst
    BY <2>1, <2>3 DEF NoRecord
  <2>6. ForwardTyped'
    BY <1>1, <2>1, <2>2, <2>3
  <2>7. RecordIsOurs' /\ HandleRecorded' /\ SpawnedIsOurs' /\ StepsAgree'
    BY <2>1, <2>2, <2>3, <2>5 DEF NoRecord
  <2>8. RestAgrees'
    BY <1>1, <2>1, <2>2
  <2> QED
    BY <2>4, <2>6, <2>7, <2>8
<1>3. CASE RecordsOwner
  <2>1. operation.step = "record" /\ handle = NoId /\ UNCHANGED <<forwards, instances, viewers, oldClient, grace>>
    BY <1>3 DEF RecordsOwner, At, leaseVars
  <2>2. CASE /\ Alive(operation.id) /\ record' = Recorded /\ handle' = operation.id
             /\ entry' = (owner = "window")
             /\ operation' = [operation EXCEPT !.step = "wait", !.id = NoId]
             /\ UNCHANGED <<proc, hurt>>
    <3>1. /\ operation' \in ForwardOps /\ operation'.id = NoId /\ operation'.step = "wait"
          /\ operation'.kind = operation.kind
      BY <2>2 DEF ForwardOps, ForwardSteps
    <3>2. operation.id \in Ids /\ proc[operation.id] \in forwards
      BY <2>2, OwnProcesses
    <3>3. record' = [id |-> operation.id, inst |-> proc[operation.id]]
      BY <2>2 DEF Recorded
    <3>4. AllCovered'
      BY <1>1, <2>1, <2>2, <3>1, <3>2, <3>3 DEF NoRecord, NoId
    <3>5. ForwardTyped'
      BY <1>1, <2>1, <2>2, <3>1, <3>2, <3>3
    <3>6. RestAgrees'
      BY <1>1, <2>2, <3>1
    <3> QED
      BY <2>1, <2>2, <3>1, <3>2, <3>3, <3>4, <3>5, <3>6
  <2>3. CASE /\ Kill(operation.id)
             /\ operation' = [operation EXCEPT !.step = "failed", !.id = NoId]
             /\ UNCHANGED <<record, handle, entry>>
    <3>1. /\ operation' \in ForwardOps /\ operation'.id = NoId /\ operation'.step = "failed"
          /\ operation'.kind = operation.kind
      BY <2>3 DEF ForwardOps, ForwardSteps
    <3>2. /\ hurt' = {} /\ proc' \in [Ids -> 0 .. instances]
          /\ \A p \in Ids : proc'[p] = IF p = operation.id THEN 0 ELSE proc[p]
      BY <2>3, OwnProcesses, KillResult
    <3>3. AllCovered'
      BY <1>1, <2>1, <2>3, <3>1, <3>2
    <3>4. RestAgrees'
      BY <1>1, <2>3, <3>1
    <3>5. ForwardTyped'
      BY <1>1, <2>1, <2>3, <3>1, <3>2
    <3> QED
      BY <2>1, <2>3, <3>1, <3>2, <3>3, <3>4, <3>5
  <2> QED
    BY <1>3, <2>2, <2>3 DEF RecordsOwner
<1>4. CASE Waits
  <2>1. operation.step = "wait" /\ operation.id = NoId
        /\ UNCHANGED <<entry, forwards, record, instances, viewers, oldClient, grace>>
    BY <1>4 DEF Waits, At, leaseVars
  <2>2. ASSUME NEW step \in {"ready", "failed"}, Goes(step)
        PROVE  /\ operation' \in ForwardOps /\ operation'.id = NoId /\ operation'.step = step
               /\ operation'.kind = operation.kind
    BY <2>1, <2>2, GoesResult DEF ForwardSteps
  <2>3. RestAgrees'
    BY <1>1, <1>4, <2>1, <2>2 DEF Waits
  <2>4. CASE Alive(handle) /\ Goes("ready") /\ UNCHANGED <<handle, proc, hurt>>
    BY <1>1, <2>1, <2>2, <2>3, <2>4 DEF Alive
  <2>5. CASE ~Alive(handle) /\ Goes("failed") /\ handle' = NoId /\ UNCHANGED <<proc, hurt>>
    <3>1. ~Alive(handle) => handle = NoId \/ (proc[handle] = 0 /\ proc[handle] \notin forwards)
      BY DEF Alive
    <3>2. AllCovered'
      BY <1>1, <2>1, <2>2, <2>5, <3>1 DEF NoId
    <3> QED
      BY <1>1, <2>1, <2>2, <2>3, <2>5, <3>2
  <2>6. CASE Goes("failed") /\ UNCHANGED <<handle, proc, hurt>>
    BY <1>1, <2>1, <2>2, <2>3, <2>6
  <2>7. CASE Goes("failed") /\ Kill(handle) /\ handle' = NoId
    <3>1. /\ hurt' = {} /\ proc' \in [Ids -> 0 .. instances]
          /\ \A p \in Ids : proc'[p] = IF p = handle THEN 0 ELSE proc[p]
      BY <2>7, OwnProcesses, KillResult
    <3>2. AllCovered'
      BY <1>1, <2>1, <2>2, <2>7, <3>1 DEF NoId
    <3>3. ForwardTyped'
      BY <1>1, <2>1, <2>2, <2>7, <3>1
    <3> QED
      BY <1>1, <2>1, <2>2, <2>3, <2>7, <3>1, <3>2, <3>3
  <2> QED
    BY <1>4, <2>4, <2>5, <2>6, <2>7 DEF Waits
<1>5. CASE Retries
  <2>1. /\ operation.step = "failed" /\ operation.id = NoId
        /\ UNCHANGED <<entry, handle, viewers, oldClient, grace, proc, forwards, record, instances, hurt>>
    BY <1>5 DEF Retries, At, leaseVars
  <2>2. /\ operation' \in ForwardOps /\ operation'.id = NoId
        /\ operation'.kind \in {operation.kind, "none"}
        /\ operation'.step \in {"idle", "check", "drop"}
        /\ (operation'.step = "drop" => owner = "window")
    <3>1. CASE OpEnds
      BY <3>1, NoOperationIsTyped DEF OpEnds
    <3>2. CASE Goes(IF owner = "window" THEN "drop" ELSE "check")
      BY <2>1, <3>2, GoesResult DEF ForwardSteps
    <3> QED
      BY <1>5, <3>1, <3>2 DEF Retries
  <2> QED
    BY <1>1, <2>1, <2>2
<1>6. CASE StartupEnds \/ RepairEnds
  <2>1. /\ operation' = NoOperation /\ operation.id = NoId
        /\ UNCHANGED <<entry, handle, viewers, oldClient, grace, proc, forwards, record, instances, hurt>>
    BY <1>6 DEF StartupEnds, RepairEnds, OpEnds, At, leaseVars
  <2> QED
    BY <1>1, <2>1, NoOperationIsTyped
<1>7. CASE AcquireEnds
  <2>1. /\ operation' = NoOperation /\ operation.id = NoId /\ owner = "window" /\ operation \in ForwardOps
        /\ entry' = TRUE /\ grace' = FALSE /\ oldClient' \in BOOLEAN
        /\ UNCHANGED <<handle, proc, forwards, record, instances, hurt>>
    BY <1>7 DEF AcquireEnds, OpEnds, At
  <2>2. viewers' \subseteq Viewers
    BY <1>7, <2>1 DEF AcquireEnds, ForwardOps
  <2> QED
    BY <1>1, <2>1, <2>2, NoOperationIsTyped
<1> QED
  BY <1>2, <1>3, <1>4, <1>5, <1>6, <1>7

\* The budget runs out at any step of an operation.
LEMMA BudgetKeeps ==
  ASSUME ForwardInv, BudgetSpent
  PROVE  ForwardInv'
<1> USE DEF ForwardInv, ForwardTyped, RecordIsOurs, HandleRecorded, SpawnedIsOurs, StepsAgree,
            RestAgrees, AllCovered
<1> DEFINE loose == IF Alive(operation.id) THEN {operation.id} ELSE {}
           ended == loose \cup (IF owner = "window" /\ Alive(handle) THEN {handle} ELSE {})
<1>1. /\ up /\ operation # NoOperation /\ operation' = NoOperation
      /\ handle' = (IF owner = "window" THEN NoId ELSE handle)
      /\ proc' = [p \in Ids |-> IF p \in ended THEN 0 ELSE proc[p]]
      /\ hurt' = hurt \cup ({proc[p] : p \in ended} \ forwards)
      /\ UNCHANGED <<owner, serving, releasing, up, orphaned, entry, viewers, oldClient, grace, forwards,
                   record, instances>>
  BY NoOperationIsTyped DEF BudgetSpent, OpEnds, worldVars, leaseVars, Budgeted
<1>2. \A p \in ended : p \in Ids /\ proc[p] \in forwards
  BY OwnProcesses
<1>3. \A p \in Ids : p = operation.id /\ proc[p] # 0 => p \in ended
  BY ForwardAssumption DEF Alive, NoId
<1>4. \A p \in Ids : owner = "window" /\ p = handle /\ proc[p] # 0 => p \in ended
  BY ForwardAssumption DEF Alive, NoId
<1> HIDE DEF ended
<1>5. /\ hurt' = {} /\ proc' \in [Ids -> 0 .. instances]
      /\ \A p \in Ids : proc'[p] = proc[p] \/ proc'[p] = 0
      /\ \A p \in Ids : p \in ended => proc'[p] = 0
  BY <1>1, <1>2
<1>6. AllCovered'
  <2>1. \A n \in forwards : n # 0
    OBVIOUS
  <2>2. ASSUME NEW p \in Ids, proc'[p] \in forwards'
        PROVE  /\ proc'[p] = proc[p] /\ proc[p] # 0 /\ proc[p] \in forwards
               /\ p # operation.id /\ (p = handle => owner # "window")
    <3>1. proc'[p] # 0 /\ forwards' = forwards
      BY <1>1, <2>1, <2>2
    <3>2. proc'[p] = proc[p] /\ p \notin ended
      BY <1>5, <3>1
    <3>3. proc[p] # 0
      BY <3>1, <3>2
    <3>4. p # operation.id
      BY <1>3, <3>2, <3>3
    <3>5. ~(p = handle /\ owner = "window")
      BY <1>4, <3>2, <3>3
    <3> QED
      BY <2>2, <3>1, <3>2, <3>4, <3>5
  <2>3. ASSUME NEW p \in Ids, proc'[p] \in forwards'
        PROVE  \/ p = handle'
               \/ record'.id = p /\ record'.inst = proc'[p]
               \/ proc'[p] \in orphaned'
    BY <1>1, <2>2, <2>3
  <2> QED
    BY <1>5, <2>3
<1>7. ForwardTyped'
  BY <1>1, <1>5, NoOperationIsTyped
<1>8. RestAgrees'
  BY <1>1, NoOperationIsTyped
<1> QED
  BY <1>1, <1>5, <1>6, <1>7, <1>8, NoOperationIsTyped DEF NoId

\* Processes come and go, and so does the core.
LEMMA ProcessesKeep ==
  ASSUME ForwardInv,
         \/ \E id \in Ids : ProcessExits(id) \/ Stranger(id)
         \/ CoreDies \/ CoreStarts
  PROVE  ForwardInv'
<1> USE DEF ForwardInv, ForwardTyped, RecordIsOurs, HandleRecorded, SpawnedIsOurs, StepsAgree,
            RestAgrees, AllCovered
<1>1. ASSUME NEW id \in Ids, ProcessExits(id) PROVE ForwardInv'
  <2>1. /\ proc' = [proc EXCEPT ![id] = 0]
        /\ UNCHANGED <<owner, serving, entry, handle, viewers, oldClient, grace, operation, forwards, record,
                     releasing, up, instances, orphaned, hurt>>
    BY <1>1 DEF ProcessExits, leaseVars
  <2>2. Watched' <=> Watched
    BY <2>1 DEF Watched
  <2>3. proc' \in [Ids -> 0 .. instances] /\ \A p \in Ids : proc'[p] = IF p = id THEN 0 ELSE proc[p]
    BY <2>1
  <2>4. \A n \in forwards : n # 0
    OBVIOUS
  <2>5. AllCovered'
    BY <2>1, <2>3, <2>4
  <2>6. record = NoRecord \/ proc[record.id] # record.inst => record = NoRecord \/ proc'[record.id] # record.inst
    BY <2>3, <2>4
  <2> QED
    BY <2>1, <2>2, <2>3, <2>5, <2>6
<1>2. ASSUME NEW id \in Ids, Stranger(id) PROVE ForwardInv'
  <2>1. /\ instances' = instances + 1 /\ proc' = [proc EXCEPT ![id] = instances + 1] /\ proc[id] = 0
        /\ id # handle /\ id # operation.id
        /\ UNCHANGED <<owner, serving, entry, handle, viewers, oldClient, grace, operation, forwards, record,
                     releasing, up, orphaned, hurt>>
    BY <1>2 DEF Stranger, Reapable, leaseVars, worldVars
  <2>2. Watched' <=> Watched
    BY <2>1 DEF Watched
  <2>3. /\ proc' \in [Ids -> 0 .. instances'] /\ instances' \in Nat
        /\ \A p \in Ids : proc'[p] = IF p = id THEN instances + 1 ELSE proc[p]
    BY <2>1
  <2>4. \A n \in forwards : n # instances + 1 /\ n \in 1 .. instances'
    BY <2>1
  <2>5. AllCovered'
    BY <2>1, <2>3, <2>4
  <2>6. record = NoRecord \/ proc[record.id] # record.inst => record = NoRecord \/ proc'[record.id] # record.inst
    BY <2>3, <2>4
  <2> QED
    BY <2>1, <2>2, <2>3, <2>4, <2>5, <2>6
<1>3. CASE CoreDies
  <2>1. /\ up' = FALSE /\ releasing' = FALSE /\ operation' = NoOperation /\ entry' = FALSE /\ handle' = NoId
        /\ viewers' = {} /\ oldClient' = FALSE /\ grace' = FALSE
        /\ orphaned' = orphaned \cup (IF Alive(operation.id) THEN {proc[operation.id]} ELSE {})
        /\ UNCHANGED <<owner, serving, proc, forwards, record, instances, hurt>>
    BY <1>3 DEF CoreDies
  <2>2. \A p \in Ids : proc[p] \in forwards => p # NoId /\ proc[p] # 0
    BY ForwardAssumption DEF NoId
  <2>3. AllCovered'
    BY <2>1, <2>2, NoOperationIsTyped DEF Alive
  <2> QED
    BY <2>1, <2>3, NoOperationIsTyped
<1>4. CASE CoreStarts
  <2>1. /\ up' = TRUE /\ ~up
        /\ operation' = [kind |-> "startup", step |-> "reclaim", id |-> NoId, viewer |-> {}]
        /\ UNCHANGED <<owner, serving, entry, handle, viewers, oldClient, grace, proc, forwards, record,
                     releasing, instances, orphaned, hurt>>
    BY <1>4 DEF CoreStarts, leaseVars
  <2>2. operation' \in ForwardOps /\ operation'.id = NoId /\ operation'.step = "reclaim"
        /\ operation'.kind = "startup"
    BY <2>1 DEF ForwardOps, ForwardSteps
  <2> QED
    BY <2>1, <2>2, NoOperationIsTyped
<1> QED
  BY <1>1, <1>2, <1>3, <1>4

\* Record, handle and step of the operation agree at every moment with the processes
\* that are alive (forward_owner.rs, novnc.rs).
THEOREM ForwardInvariance == ForwardSpec => []ForwardInv
<1>1. ASSUME ForwardInv, [ForwardNext]_fwdVars PROVE ForwardInv'
  <2>1. CASE ForwardNext
    BY <1>1, <2>1, PagesKeep, DropsKeep, EnsureKeeps, SpawnKeeps, BudgetKeeps, ProcessesKeep
       DEF ForwardNext, EnsureSteps
  <2>2. CASE UNCHANGED fwdVars
    BY <1>1, <2>2
       DEF fwdVars, leaseVars, ForwardInv, ForwardTyped, RecordIsOurs, HandleRecorded, SpawnedIsOurs,
           StepsAgree, RestAgrees, AllCovered, Watched
  <2> QED
    BY <1>1, <2>1, <2>2
<1> QED
  BY <1>1, ForwardInvInit, PTL DEF ForwardSpec

\* A page that is answered finds the window's process held.
LEMMA ViewersFindWindow ==
  ASSUME ForwardInv, ForwardNext
  PROVE  viewers' \ viewers # {} => handle' # NoId
<1> USE DEF ForwardInv, ForwardTyped
<1>1. CASE AcquireEnds
  BY <1>1 DEF AcquireEnds, At, StepsAgree
<1>2. CASE viewers' \subseteq viewers
  BY <1>2
<1>3. AcquireEnds \/ viewers' \subseteq viewers
  <2>1. EnsureSteps => AcquireEnds \/ viewers' = viewers
    BY DEF EnsureSteps, WindowChecks, GatewayChecks, DropChild, ReclaimReads, ReclaimSignals, StartupEnds,
           Spawns, RecordsOwner, Waits, Retries, RepairEnds, BudgetSpent, leaseVars
  <2>2. (\E v \in Viewers : Acquire({v}) \/ Release(v) \/ LeaseEnds(v)) => viewers' \subseteq viewers
    BY DEF Acquire, Release, LeaseEnds, leaseVars
  <2>3. Acquire({}) \/ GraceEnds \/ DropsUnwatched \/ WatchdogRepairs \/ StopDrops \/ ChannelStarts
        \/ IdleBegins \/ DropAll \/ CoreDies \/ CoreStarts => viewers' \subseteq viewers
    BY DEF Acquire, GraceEnds, DropsUnwatched, WatchdogRepairs, StopDrops, ChannelStarts, IdleBegins,
           DropAll, CoreDies, CoreStarts, leaseVars
  <2>4. (\E id \in Ids : ProcessExits(id) \/ Stranger(id)) => viewers' = viewers
    BY DEF ProcessExits, Stranger, leaseVars
  <2> QED
    BY <2>1, <2>2, <2>3, <2>4 DEF ForwardNext
<1> QED
  BY <1>1, <1>2, <1>3

\* A window somebody watches goes only with the channel or with the core.
LEMMA WatchedIsKept ==
  ASSUME ForwardInv, ForwardNext, entry, Watched, ~entry'
  PROVE  ~serving' \/ ~serving \/ ~up'
<1> USE DEF ForwardInv, RestAgrees
<1>1. EnsureSteps => entry' \in {entry, TRUE, owner = "window"}
  BY DEF EnsureSteps, WindowChecks, GatewayChecks, DropChild, ReclaimReads, ReclaimSignals, StartupEnds,
         Spawns, RecordsOwner, Waits, Retries, RepairEnds, AcquireEnds, BudgetSpent
<1>2. owner = "window"
  BY DEF ForwardTyped
<1>3. ~EnsureSteps
  BY <1>1, <1>2
<1>4. ~\E v \in Viewers : Acquire({v}) \/ Release(v) \/ LeaseEnds(v)
  BY DEF Acquire, Release, LeaseEnds
<1>5. ~(Acquire({}) \/ GraceEnds \/ WatchdogRepairs \/ ChannelStarts \/ IdleBegins \/ CoreStarts)
  BY DEF Acquire, GraceEnds, WatchdogRepairs, ChannelStarts, IdleBegins, CoreStarts
<1>6. ~\E id \in Ids : ProcessExits(id) \/ Stranger(id)
  BY DEF ProcessExits, Stranger
<1>7. ~DropAll
  BY <1>2 DEF DropAll
<1>8. CASE DropsUnwatched
  BY <1>8 DEF DropsUnwatched
<1>9. CASE StopDrops
  BY <1>9 DEF StopDrops
<1>10. CASE CoreDies
  BY <1>10 DEF CoreDies
<1> QED
  BY <1>3, <1>4, <1>5, <1>6, <1>7, <1>8, <1>9, <1>10 DEF ForwardNext

\* The forwards the core starts are under its control all the time, no process of
\* somebody else is signalled, and a page somebody looks at is not taken away
\* (forward_owner.rs reclaim_inner, novnc.rs acquire and watchdog_tick).
THEOREM ForwardsAreKept == ForwardSpec => ForwardsKept
<1>1. ForwardInv => NothingLoose
  BY CoveredIsNotLoose DEF ForwardInv
<1>2. ASSUME ForwardInv, ForwardInv', [ForwardNext]_fwdVars
      PROVE  [NothingLoose' /\ WatchedStays]_fwdVars
  <2>1. NothingLoose'
    BY <1>1, <1>2, PTL
  <2>2. CASE ForwardNext
    BY <1>2, <2>1, <2>2, ViewersFindWindow, WatchedIsKept DEF WatchedStays
  <2> QED
    BY <1>2, <2>2
<1> QED
  BY <1>2, ForwardInvariance, PTL DEF ForwardSpec, ForwardsKept

-----------------------------------------------------------------------------
(* Takeover *)

Proxies == [url : Urls, on : BOOLEAN]
Sightings == [wish : WishSet, plan : Plans, other : BOOLEAN]
LastPlans == [known : BOOLEAN, failed : BOOLEAN, plan : Plans]
Works == [by : {"nobody", "loop", "put"}, at : {"free", "tun", "proxy", "wait"}, plan : Plans,
          tun : Verdicts, proxy : Verdicts, ok : BOOLEAN]
Calls == [at : {"none", "queued", "url", "on", "clear", "ok", "failed"}, on : BOOLEAN, svc : Services]
Tuns == [mark : BOOLEAN, alive : BOOLEAN, installed : BOOLEAN]
WorldTyped ==
  /\ autoproxy \in [Services -> Proxies] /\ service \in Services
  /\ tun \in Tuns /\ clash \in BOOLEAN /\ legacy \in BOOLEAN
PlanTyped ==
  /\ wish \in WishSet /\ lastPlan \in LastPlans /\ age \in 0 .. RetryRounds
  /\ sightings \in Seq(Sightings) /\ Len(sightings) <= 3
  /\ work \in Works
LockTyped ==
  /\ calls \in [Callers -> Calls] /\ proxyLock \in Callers \cup {"nobody", "idle", "resume", "quit"}
  /\ suspended \subseteq Services /\ looked \subseteq Services
  /\ stage \in {"off", "resuming", "serving", "parking", "failed"}
  /\ quitting \in {"no", "asked", "parked", "unsure"}
GhostTyped == switchedOff \in BOOLEAN /\ byHand \in BOOLEAN
TakeoverTyped == WorldTyped /\ PlanTyped /\ LockTyped /\ GhostTyped

\* A call that writes holds the lock; one that turns on has taken back the last
\* use of the switch, and one that has turned off has left nothing of ours open.
NoneOfOurs == \A s \in Services : ~Opened(s, "ours")
CallsAgree ==
  \A c \in Callers :
    /\ calls[c].at \in {"url", "on", "clear"} => proxyLock = c
    /\ calls[c].at = "on" => calls[c].on /\ ~switchedOff
    /\ calls[c].at = "clear" /\ ~calls[c].on => NoneOfOurs

\* While the switch is off there is nothing to resume and nothing to park.
OffHolds == switchedOff => suspended = {} /\ NoneOfOurs

\* The call of the job does what the round decided.
JobAgrees ==
  /\ work.at # "wait" => calls["job"] = NoCall
  /\ calls["job"].on => work.proxy = "on"

\* The user's hand stands against an applied plan that wants the proxy, so the
\* loop finds no difference to that plan.
HandAgrees ==
  /\ byHand => lastPlan.known /\ ~lastPlan.failed /\ lastPlan.plan.proxy
  /\ work.by = "loop" /\ work.proxy = "on" => ~byHand

TakeoverInv ==
  TakeoverTyped /\ QuitLeavesNoProxy /\ CallsAgree /\ OffHolds /\ JobAgrees /\ HandAgrees

\* A service is open at an address if that is its address and it is on.
LEMMA OpenIsUrlAndOn ==
  ASSUME NEW p \in Proxies, NEW u
  PROVE  (p = [url |-> u, on |-> TRUE]) <=> p.url = u /\ p.on
BY DEF Proxies

\* A step that turns no service on to our address opens nothing of ours.
LEMMA NothingOpens ==
  ASSUME WorldTyped, autoproxy' \in [Services -> Proxies], NoneOfOurs,
         \A s \in Services :
           autoproxy'[s].url = "ours" /\ autoproxy'[s].on => autoproxy[s].url = "ours" /\ autoproxy[s].on
  PROVE  NoneOfOurs'
<1>1. \A s \in Services : autoproxy[s] \in Proxies /\ autoproxy'[s] \in Proxies
  BY DEF WorldTyped
<1>2. \A s \in Services : ~(autoproxy[s].url = "ours" /\ autoproxy[s].on)
  BY <1>1, OpenIsUrlAndOn DEF NoneOfOurs, Opened
<1> QED
  BY <1>1, <1>2, OpenIsUrlAndOn DEF NoneOfOurs, Opened

\* No call is a call of the type: the machine has a network service.
LEMMA NoCallIsTyped == /\ NoCall \in Calls /\ NoCall.at = "none" /\ NoCall.on = FALSE
                       /\ NoCall.svc \in Services
BY TakeoverAssumption DEF NoCall, Calls

\* The plans the application decides on are plans.
LEMMA DecidedIsPlan ==
  ASSUME NEW w, NEW d, w.ok \in BOOLEAN, d.installed \in BOOLEAN, d.clash \in BOOLEAN
  PROVE  Decide(w, d) \in Plans
BY DEF Decide, Plans

\* Doing nothing and the retreat beside another application are plans.
LEMMA NoPlanIsTyped == NoPlan \in Plans /\ Retreat \in Plans
BY DEF NoPlan, Retreat, Plans

\* The rest between two rounds is work of the type.
LEMMA NoWorkIsTyped == /\ NoWork \in Works
                       /\ NoWork.by = "nobody" /\ NoWork.at = "free" /\ NoWork.proxy = "keep"
BY NoPlanIsTyped DEF NoWork, Works, Verdicts

\* What is compared are verdicts; where a plan that wants the proxy was applied
\* and the next one wants it too, the proxy is kept.
LEMMA DifferencesAreVerdicts ==
  ASSUME NEW plan \in Plans, NEW d, NEW before
  PROVE  /\ Differences(plan, d, before).tun \in Verdicts
         /\ Differences(plan, d, before).proxy \in Verdicts
         /\ Differences(plan, d, before).proxy = "on" =>
              plan.proxy /\ (~before.known \/ before.plan.proxy # plan.proxy)
BY DEF Differences, Verdict, Verdicts, Plans

\* The retreat never turns a proxy on.
LEMMA RetreatOpensNothing ==
  ASSUME NEW d
  PROVE  /\ RetreatSteps(d).tun \in Verdicts
         /\ RetreatSteps(d).proxy \in Verdicts /\ RetreatSteps(d).proxy # "on"
BY DEF RetreatSteps, Verdicts

\* An observation keeps the window of three.
LEMMA PushedKeepsThree ==
  ASSUME sightings \in Seq(Sightings), Len(sightings) <= 3, NEW o \in Sightings
  PROVE  /\ Pushed(o) \in Seq(Sightings) /\ Len(Pushed(o)) <= 3 /\ Len(Pushed(o)) >= 1
         /\ Pushed(o)[Len(Pushed(o))] = o
<1>1. ASSUME NEW t \in Seq(Sightings), Len(t) <= 2
      PROVE  /\ Append(t, o) \in Seq(Sightings) /\ Len(Append(t, o)) = Len(t) + 1
             /\ Append(t, o)[Len(t) + 1] = o
  BY <1>1
<1>2. CASE Len(sightings) = 3
  <2>1. Tail(sightings) \in Seq(Sightings) /\ Len(Tail(sightings)) = 2
    BY SMTT(30), <1>2
  <2> DEFINE moved == Append(Tail(sightings), o)
  <2>2. Pushed(o) = moved
    BY <1>2 DEF Pushed
  <2>3. moved \in Seq(Sightings) /\ Len(moved) = 3 /\ moved[3] = o
    BY <1>1, <2>1
  <2> HIDE DEF moved
  <2>4. Len(Pushed(o)) = 3 /\ Pushed(o) \in Seq(Sightings) /\ Pushed(o)[3] = o
    BY <2>2, <2>3
  <2> QED
    BY <2>4
<1>3. CASE Len(sightings) # 3
  <2>1. Len(sightings) <= 2
    <3>1. Len(sightings) \in Nat
      BY LenProperties
    <3>2. \A n \in Nat : n <= 3 /\ n # 3 => n <= 2
      OBVIOUS
    <3> QED
      BY <1>3, <3>1, <3>2
  <2>2. Pushed(o) = Append(sightings, o)
    BY <1>3 DEF Pushed
  <2> QED
    BY <1>1, <2>1, <2>2
<1> QED
  BY <1>2, <1>3

\* A detection tells what decide asks for.
LEMMA DetectionIsTyped ==
  ASSUME WorldTyped
  PROVE  Detection.installed \in BOOLEAN /\ Detection.clash \in BOOLEAN /\ Detection.other \in BOOLEAN
BY DEF WorldTyped, Tuns, Detection, OtherTakes, Opened

\* An observation holds a plan.
LEMMA ObservationIsTyped ==
  ASSUME WorldTyped, wish \in WishSet
  PROVE  Observation(Detection) \in Sightings /\ Observation(Detection).plan \in Plans
<1>1. wish.ok \in BOOLEAN
  BY DEF WishSet
<1>2. Decide(wish, Detection) \in Plans
  BY <1>1, DecidedIsPlan, DetectionIsTyped
<1> HIDE DEF Decide
<1> QED
  BY <1>2, NoPlanIsTyped, DetectionIsTyped DEF Observation, Sightings

\* Before anything is applied the invariant holds.
LEMMA TakeoverInvInit == TakeoverInit => TakeoverInv
<1> SUFFICES ASSUME TakeoverInit PROVE TakeoverInv
  OBVIOUS
<1>1. WorldTyped
  BY NoCallIsTyped DEF TakeoverInit, WorldTyped, Proxies, Tuns, Urls
<1>2. PlanTyped
  <2>1. sightings \in Seq(Sightings) /\ Len(sightings) <= 3
    BY DEF TakeoverInit
  <2>2. wish \in WishSet /\ lastPlan \in LastPlans
    BY NoPlanIsTyped DEF TakeoverInit, WishSet, LastPlans
  <2>3. work \in Works
    BY NoWorkIsTyped DEF TakeoverInit
  <2>4. age \in 0 .. RetryRounds
    BY TakeoverAssumption DEF TakeoverInit
  <2> QED
    BY <2>1, <2>2, <2>3, <2>4 DEF PlanTyped
<1>3. LockTyped /\ GhostTyped
  BY NoCallIsTyped DEF TakeoverInit, LockTyped, GhostTyped
<1>4. QuitLeavesNoProxy /\ CallsAgree /\ OffHolds /\ HandAgrees
  BY NoCallIsTyped DEF TakeoverInit, QuitLeavesNoProxy, CallsAgree, OffHolds, HandAgrees, NoWork
<1>5. JobAgrees
  BY NoCallIsTyped DEF TakeoverInit, JobAgrees, Callers
<1> QED
  BY <1>1, <1>2, <1>3, <1>4, <1>5 DEF TakeoverInv, TakeoverTyped

\* What a plan that was executed leaves behind.
LEMMA RecordsKeepHand ==
  ASSUME PlanTyped, GhostTyped, NEW plan \in Plans, NEW ok \in BOOLEAN, Records(plan, ok),
         byHand => lastPlan.known /\ ~lastPlan.failed /\ lastPlan.plan.proxy
  PROVE  /\ lastPlan' \in LastPlans /\ age' \in 0 .. RetryRounds /\ byHand' \in BOOLEAN
         /\ byHand' => lastPlan'.known /\ ~lastPlan'.failed /\ lastPlan'.plan.proxy
         /\ byHand' => byHand
<1>1. lastPlan' \in LastPlans
  BY DEF Records, LastPlans
<1>2. age' \in 0 .. RetryRounds
  BY TakeoverAssumption DEF Records
<1>3. byHand' \in BOOLEAN /\ (byHand' => byHand)
  BY DEF Records, GhostTyped
<1>4. byHand' => lastPlan'.known /\ ~lastPlan'.failed /\ lastPlan'.plan.proxy
  BY DEF Records, GhostTyped
<1> QED
  BY <1>1, <1>2, <1>3, <1>4

\* The loop decides nothing against the hand of the user.
LEMMA RoundKeeps ==
  ASSUME TakeoverInv, LoopRound
  PROVE  TakeoverInv'
<1> USE DEF TakeoverInv, TakeoverTyped
<1>1. /\ work = NoWork /\ quitting = "no"
      /\ UNCHANGED <<autoproxy, service, tun, clash, legacy, wish, calls, proxyLock, suspended, looked,
                     stage, quitting, switchedOff>>
  BY DEF LoopRound, setup, outside, release
<1>2. WorldTyped' /\ LockTyped' /\ QuitLeavesNoProxy' /\ CallsAgree' /\ OffHolds'
  BY <1>1 DEF WorldTyped, LockTyped, QuitLeavesNoProxy, CallsAgree, OffHolds, NoneOfOurs, Opened
<1> DEFINE d == Detection
           now == Pushed(Observation(d))
           plan == now[Len(now)].plan
           steps == IF d.other THEN RetreatSteps(d) ELSE Differences(plan, d, LoopCompares)
           older == IF age < RetryRounds THEN age + 1 ELSE age
<1>3. plan \in Plans /\ now \in Seq(Sightings) /\ Len(now) <= 3
  BY ObservationIsTyped, PushedKeepsThree DEF PlanTyped
<1>4. /\ steps.tun \in Verdicts /\ steps.proxy \in Verdicts
      /\ steps.proxy = "on" => ~LoopCompares.known \/ LoopCompares.plan.proxy # plan.proxy
      /\ steps.proxy = "on" => plan.proxy
  BY <1>3, DifferencesAreVerdicts, RetreatOpensNothing
<1>5. steps.proxy = "on" => ~byHand
  BY <1>3, <1>4 DEF LoopCompares, Before, PlanTyped, LastPlans, Plans, HandAgrees
<1>6. older \in 0 .. RetryRounds
  BY TakeoverAssumption DEF PlanTyped
<1>7. \/ /\ sightings' = <<>> /\ UNCHANGED <<lastPlan, age, byHand, work>>
      \/ sightings' = now /\ age' = older /\ UNCHANGED <<lastPlan, byHand, work>>
      \/ sightings' = now /\ Records(plan, TRUE) /\ UNCHANGED work
      \/ sightings' = now /\ Executes("loop", plan, steps) /\ age' = older /\ UNCHANGED <<lastPlan, byHand>>
  BY DEF LoopRound
<1> HIDE DEF d, now, plan, steps, older
<1>8. sightings' \in Seq(Sightings) /\ Len(sightings') <= 3
  <2>1. CASE sightings' = <<>>
    BY <2>1
  <2>2. CASE sightings' = now
    BY <1>3, <2>2
  <2> QED
    BY <1>7, <2>1, <2>2
<1>9. CASE UNCHANGED <<lastPlan, byHand, work>> /\ age' \in 0 .. RetryRounds
  BY <1>1, <1>2, <1>8, <1>9 DEF PlanTyped, GhostTyped, JobAgrees, HandAgrees
<1>10. CASE Records(plan, TRUE) /\ UNCHANGED work
  <2>1. /\ lastPlan' \in LastPlans /\ age' \in 0 .. RetryRounds /\ byHand' \in BOOLEAN
        /\ byHand' => lastPlan'.known /\ ~lastPlan'.failed /\ lastPlan'.plan.proxy
        /\ byHand' => byHand
    BY <1>3, <1>10, RecordsKeepHand DEF HandAgrees
  <2>2. PlanTyped'
    BY <1>1, <1>8, <1>10, <2>1 DEF PlanTyped
  <2>3. GhostTyped' /\ JobAgrees' /\ HandAgrees'
    BY <1>1, <1>10, <2>1 DEF GhostTyped, JobAgrees, HandAgrees
  <2> QED
    BY <1>2, <2>2, <2>3
<1>11. CASE Executes("loop", plan, steps) /\ age' = older /\ UNCHANGED <<lastPlan, byHand>>
  <2>1. /\ work' \in Works
        /\ work'.by = "loop" /\ work'.at = "tun" /\ work'.proxy = steps.proxy
    BY <1>3, <1>4, <1>11 DEF Executes, Works
  <2>2. PlanTyped'
    BY <1>1, <1>6, <1>8, <1>11, <2>1 DEF PlanTyped
  <2>3. GhostTyped' /\ HandAgrees'
    BY <1>1, <1>5, <1>11, <2>1 DEF GhostTyped, HandAgrees
  <2>4. JobAgrees'
    BY <1>1, <2>1, NoCallIsTyped DEF JobAgrees, NoWork
  <2> QED
    BY <1>2, <2>2, <2>3, <2>4
<1> QED
  BY <1>6, <1>7, <1>9, <1>10, <1>11 DEF PlanTyped

\* A PUT is the user's word: it takes the hand back.
LEMMA PutKeeps ==
  ASSUME TakeoverInv, Puts
  PROVE  TakeoverInv'
<1> USE DEF TakeoverInv, TakeoverTyped
<1>1. /\ work = NoWork /\ sightings' = <<>> /\ age' = 0 /\ byHand' = FALSE
      /\ UNCHANGED <<autoproxy, service, tun, clash, legacy, calls, proxyLock, suspended, looked,
                     stage, quitting, switchedOff>>
  BY DEF Puts, setup, release
<1>2. WorldTyped' /\ LockTyped' /\ GhostTyped' /\ QuitLeavesNoProxy' /\ CallsAgree' /\ OffHolds'
  BY ZenonT(40), <1>1 DEF WorldTyped, LockTyped, GhostTyped, QuitLeavesNoProxy, CallsAgree, OffHolds, NoneOfOurs, Opened
<1>3. wish' \in WishSet /\ wish'.ok \in BOOLEAN
  BY DEF Puts, WishSet
<1> DEFINE d == Detection
           plan == Decide(wish', d)
           steps == Differences(plan, d, Unapplied)
<1>4. plan \in Plans
  BY <1>3, DecidedIsPlan, DetectionIsTyped
<1>5. steps.tun \in Verdicts /\ steps.proxy \in Verdicts
  BY <1>4, DifferencesAreVerdicts
<1>6. \/ Executes("put", plan, steps) /\ lastPlan' = Unapplied
      \/ /\ lastPlan' = [known |-> stage = "serving", failed |-> FALSE, plan |-> plan]
         /\ UNCHANGED work
  BY DEF Puts
<1> HIDE DEF plan, steps
<1>7. lastPlan' \in LastPlans
  <2>1. Unapplied \in LastPlans
    BY DEF PlanTyped, LastPlans, Unapplied
  <2>2. [known |-> stage = "serving", failed |-> FALSE, plan |-> plan] \in LastPlans
    BY <1>4 DEF LastPlans
  <2> QED
    BY <1>6, <2>1, <2>2
<1>8. work' \in Works /\ work'.by # "loop" /\ work'.at # "wait"
  <2>1. CASE Executes("put", plan, steps)
    <3>1. work' = [by |-> "put", at |-> "tun", plan |-> plan, tun |-> steps.tun, proxy |-> steps.proxy,
                   ok |-> TRUE]
      BY <2>1 DEF Executes
    <3> QED
      BY <1>4, <1>5, <3>1 DEF Works
  <2>2. CASE UNCHANGED work
    BY <1>1, <2>2, NoWorkIsTyped
  <2> QED
    BY <1>6, <2>1, <2>2
<1>9. PlanTyped'
  BY <1>1, <1>3, <1>7, <1>8, TakeoverAssumption DEF PlanTyped
<1>10. JobAgrees' /\ HandAgrees'
  BY <1>1, <1>8, NoCallIsTyped DEF JobAgrees, HandAgrees, NoWork
<1> QED
  BY <1>2, <1>9, <1>10

\* What the job does with the tunnel, and its call of system_proxy_apply.
LEMMA JobKeeps ==
  ASSUME TakeoverInv, JobSteps
  PROVE  TakeoverInv'
<1> USE DEF TakeoverInv, TakeoverTyped
<1>1. CASE JobTun
  <2>1. /\ work.at = "tun" /\ tun' \in Tuns
        /\ work' = [work EXCEPT !.at = "proxy"] \/ work' = [work EXCEPT !.at = "proxy", !.ok = FALSE]
        /\ UNCHANGED <<autoproxy, service, clash, legacy, wish, lastPlan, age, sightings, calls, proxyLock,
                       suspended, looked, stage, quitting, switchedOff, byHand>>
    BY <1>1 DEF JobTun, setup, memory, release, ghosts, WorldTyped, Tuns
  <2>2. work' \in Works /\ work'.by = work.by /\ work'.proxy = work.proxy /\ work'.at = "proxy"
    BY <2>1 DEF PlanTyped, Works
  <2>3. TakeoverTyped'
    BY <2>1, <2>2 DEF WorldTyped, PlanTyped, LockTyped, GhostTyped
  <2>4. QuitLeavesNoProxy' /\ CallsAgree' /\ OffHolds'
    BY <2>1 DEF QuitLeavesNoProxy, CallsAgree, OffHolds, NoneOfOurs, Opened
  <2>5. JobAgrees' /\ HandAgrees'
    BY <2>1, <2>2 DEF JobAgrees, HandAgrees
  <2> QED
    BY <2>3, <2>4, <2>5
<1>2. CASE JobProxy
  <2>1. /\ work.at = "proxy" /\ work' = [work EXCEPT !.at = "wait"]
        /\ UNCHANGED <<autoproxy, service, tun, clash, legacy, wish, lastPlan, age, sightings, proxyLock,
                       suspended, looked, stage, quitting, switchedOff, byHand>>
    BY <1>2 DEF JobProxy, setup, outside, memory, release, ghosts
  <2>2. work' \in Works /\ work'.by = work.by /\ work'.proxy = work.proxy /\ work'.at = "wait"
    BY <2>1 DEF PlanTyped, Works
  <2>3. /\ calls["job"] = NoCall /\ calls' = [calls EXCEPT !["job"] = calls'["job"]]
        /\ calls'["job"] \in Calls /\ calls'["job"].at \in {"ok", "queued"}
        /\ calls'["job"].on => work.proxy = "on"
    <3>1. calls["job"] = NoCall /\ "job" \in Callers
      BY <2>1 DEF JobAgrees, Callers
    <3>2. CASE work.proxy = "keep"
      <4>1. calls' = [calls EXCEPT !["job"] = [NoCall EXCEPT !.at = "ok"]]
        BY <1>2, <3>1, <3>2 DEF JobProxy
      <4>2. [NoCall EXCEPT !.at = "ok"] \in Calls /\ [NoCall EXCEPT !.at = "ok"].at = "ok"
            /\ [NoCall EXCEPT !.at = "ok"].on = FALSE
        BY NoCallIsTyped DEF Calls
      <4>3. calls'["job"] = [NoCall EXCEPT !.at = "ok"]
        BY <3>1, <4>1 DEF LockTyped
      <4> QED
        BY <3>1, <4>1, <4>2, <4>3
    <3>3. CASE work.proxy # "keep"
      <4> DEFINE call == [NoCall EXCEPT !.at = "queued", !.on = work.proxy = "on"]
      <4>1. calls' = [calls EXCEPT !["job"] = call]
        BY <1>2, <3>3 DEF JobProxy
      <4>2. call \in Calls /\ call.at = "queued" /\ (call.on => work.proxy = "on")
        BY NoCallIsTyped DEF Calls
      <4> HIDE DEF call
      <4>3. calls'["job"] = call
        BY <3>1, <4>1 DEF LockTyped
      <4> QED
        BY <3>1, <4>1, <4>2, <4>3
    <3> QED
      BY <3>2, <3>3
  <2>4. TakeoverTyped'
    BY <2>1, <2>2, <2>3 DEF WorldTyped, PlanTyped, LockTyped, GhostTyped
  <2>5. QuitLeavesNoProxy' /\ OffHolds'
    BY <2>1 DEF QuitLeavesNoProxy, OffHolds, NoneOfOurs, Opened
  <2>6. CallsAgree'
    BY <2>1, <2>3 DEF CallsAgree, LockTyped, NoneOfOurs, Opened
  <2>7. JobAgrees' /\ HandAgrees'
    BY <2>1, <2>2, <2>3 DEF JobAgrees, HandAgrees
  <2> QED
    BY <2>4, <2>5, <2>6, <2>7
<1>3. CASE JobEnds
  <2>1. /\ work.at = "wait" /\ work' = NoWork /\ calls' = [calls EXCEPT !["job"] = NoCall]
        /\ Records(work.plan, work.ok /\ calls["job"].at = "ok")
        /\ UNCHANGED <<autoproxy, service, tun, clash, legacy, wish, sightings, proxyLock,
                       suspended, looked, stage, quitting, switchedOff>>
    BY <1>3 DEF JobEnds, setup, outside, release
  <2>2. work.plan \in Plans /\ (work.ok /\ calls["job"].at = "ok") \in BOOLEAN
    BY DEF PlanTyped, Works
  <2>3. /\ lastPlan' \in LastPlans /\ age' \in 0 .. RetryRounds /\ byHand' \in BOOLEAN
        /\ byHand' => lastPlan'.known /\ ~lastPlan'.failed /\ lastPlan'.plan.proxy
    BY <2>1, <2>2, RecordsKeepHand DEF HandAgrees
  <2>4. NoWork \in Works /\ NoWork.by = "nobody"
    BY NoPlanIsTyped DEF NoWork, Works, Verdicts
  <2>5. /\ calls' \in [Callers -> Calls] /\ calls'["job"] = NoCall
        /\ \A c \in Callers : c # "job" => calls'[c] = calls[c]
    BY <2>1, NoCallIsTyped DEF LockTyped, Callers
  <2>6. TakeoverTyped'
    BY <2>1, <2>3, <2>4, <2>5 DEF WorldTyped, PlanTyped, LockTyped, GhostTyped
  <2>7. QuitLeavesNoProxy' /\ OffHolds'
    BY <2>1 DEF QuitLeavesNoProxy, OffHolds, NoneOfOurs, Opened
  <2>8. CallsAgree'
    BY <2>1, <2>5, NoCallIsTyped DEF CallsAgree, NoneOfOurs, Opened
  <2>9. JobAgrees' /\ HandAgrees'
    BY <2>1, <2>3, <2>4, <2>5, NoCallIsTyped DEF JobAgrees, HandAgrees
  <2> QED
    BY <2>6, <2>7, <2>8, <2>9
<1> QED
  BY <1>1, <1>2, <1>3 DEF JobSteps

\* One call of system_proxy_apply is replaced by one that agrees.
LEMMA CallChangesAgree ==
  ASSUME LockTyped, CallsAgree, NEW c \in Callers, NEW call \in Calls,
         calls' = [calls EXCEPT ![c] = call],
         UNCHANGED switchedOff, NoneOfOurs => NoneOfOurs',
         proxyLock' = proxyLock \/ proxyLock \in {c, "nobody"},
         call.at \in {"url", "on", "clear"} => proxyLock' = c,
         call.at = "on" => call.on /\ ~switchedOff,
         call.at = "clear" /\ ~call.on => NoneOfOurs'
  PROVE  CallsAgree' /\ calls' \in [Callers -> Calls] /\ calls'[c] = call
<1>1. /\ calls' \in [Callers -> Calls] /\ calls'[c] = call
      /\ \A b \in Callers : b # c => calls'[b] = calls[b]
  BY DEF LockTyped
<1>2. \A b \in Callers : b # c /\ calls[b].at \in {"url", "on", "clear"} => proxyLock' = b
  BY DEF CallsAgree, Callers
<1> QED
  BY <1>1, <1>2 DEF CallsAgree

\* The switch of the page is used, and a call of it that failed is told.
LEMMA SwitchKeeps ==
  ASSUME TakeoverInv, SwitchUsed \/ SwitchFailed
  PROVE  TakeoverInv'
<1> USE DEF TakeoverInv, TakeoverTyped
<1>1. /\ UNCHANGED <<autoproxy, service, tun, clash, legacy, wish, lastPlan, age, sightings, work, proxyLock,
                     suspended, looked, stage, quitting, switchedOff, byHand>>
  BY DEF SwitchUsed, SwitchFailed, setup, outside, memory, release, ghosts
<1>2. PICK call \in Calls : /\ calls' = [calls EXCEPT !["switch"] = call]
                            /\ call.at \in {"none", "queued"}
  <2>1. CASE SwitchFailed
    BY <2>1, NoCallIsTyped DEF SwitchFailed
  <2>2. CASE SwitchUsed
    <3>1. PICK on \in BOOLEAN : calls' = [calls EXCEPT !["switch"] = [NoCall EXCEPT !.at = "queued", !.on = on]]
      BY <2>2 DEF SwitchUsed
    <3>2. [NoCall EXCEPT !.at = "queued", !.on = on] \in Calls
          /\ [NoCall EXCEPT !.at = "queued", !.on = on].at = "queued"
      BY NoCallIsTyped DEF Calls
    <3> QED
      BY <3>1, <3>2
  <2> QED
    BY <2>1, <2>2
<1>3. NoneOfOurs => NoneOfOurs'
  BY <1>1 DEF NoneOfOurs, Opened
<1>4. CallsAgree' /\ calls' \in [Callers -> Calls]
  BY <1>1, <1>2, <1>3, CallChangesAgree DEF Callers
<1>5. TakeoverTyped'
  BY <1>1, <1>4 DEF WorldTyped, PlanTyped, LockTyped, GhostTyped
<1>6. QuitLeavesNoProxy' /\ OffHolds'
  BY <1>1 DEF QuitLeavesNoProxy, OffHolds, NoneOfOurs, Opened
<1>7. JobAgrees' /\ HandAgrees'
  BY <1>1, <1>2 DEF JobAgrees, HandAgrees, LockTyped, Callers
<1> QED
  BY <1>4, <1>5, <1>6, <1>7

\* A call of system_proxy_apply keeps its word under the lock: it opens while
\* nobody quits, and by opening it takes the last use of the switch back.
LEMMA ApplyingKeeps ==
  ASSUME TakeoverInv, NEW c \in Callers, Applying(c)
  PROVE  TakeoverInv'
<1> USE DEF TakeoverInv, TakeoverTyped
<1>1. /\ calls[c] \in Calls
      /\ calls[c].at \in {"url", "on", "clear"} => proxyLock = c
  BY DEF LockTyped, CallsAgree
<1>2. /\ calls[c].at \in {"queued", "url", "on", "clear"}
      /\ UNCHANGED <<service, tun, clash, legacy, wish, lastPlan, age, sightings, work, looked, stage, quitting,
                     byHand>>
  BY DEF Applying, CallBegins, CallFails, SetsUrl, SetsOn, SetsOff, CallEnds, setup, outside, memory, release,
         ghosts
<1>3. PlanTyped' /\ HandAgrees'
  BY <1>2 DEF PlanTyped, HandAgrees
<1>4. ASSUME NEW call \in Calls, calls' = [calls EXCEPT ![c] = call], call.on = calls[c].on \/ c = "switch"
      PROVE  JobAgrees'
  <2>1. c = "job" => work.at = "wait"
    BY <1>2, NoCallIsTyped DEF JobAgrees
  <2> QED
    BY <1>2, <1>4, <2>1 DEF JobAgrees, LockTyped, Callers
<1>5. CASE CallBegins(c) \/ CallFails(c)
  <2>1. /\ UNCHANGED <<autoproxy, suspended, switchedOff>>
        /\ proxyLock' = proxyLock \/ proxyLock \in {c, "nobody"}
    BY <1>1, <1>5 DEF CallBegins, CallFails, setup, outside, release, ghosts
  <2>2. PICK call \in Calls : /\ calls' = [calls EXCEPT ![c] = call] /\ call.on = calls[c].on
                              /\ call.at \in {"failed", "url"} /\ (call.at = "url" => proxyLock' = c)
                              /\ proxyLock' \in {proxyLock, c, "nobody"}
    <3>1. CASE CallBegins(c)
      <4>1. service \in Services
        BY DEF WorldTyped
      <4>2. [calls[c] EXCEPT !.at = "failed"] \in Calls /\ [calls[c] EXCEPT !.at = "url", !.svc = service] \in Calls
        BY <1>1, <4>1 DEF Calls
      <4>3. \/ calls' = [calls EXCEPT ![c] = [calls[c] EXCEPT !.at = "failed"]] /\ UNCHANGED proxyLock
            \/ calls' = [calls EXCEPT ![c] = [calls[c] EXCEPT !.at = "url", !.svc = service]] /\ proxyLock' = c
        BY <3>1 DEF CallBegins
      <4> QED
        BY <1>1, <4>2, <4>3 DEF Calls
    <3>2. CASE CallFails(c)
      <4>1. [calls[c] EXCEPT !.at = "failed"] \in Calls
        BY <1>1 DEF Calls
      <4> QED
        BY <1>1, <3>2, <4>1 DEF CallFails, Calls
    <3> QED
      BY <1>5, <3>1, <3>2
  <2>3. NoneOfOurs => NoneOfOurs'
    BY <2>1 DEF NoneOfOurs, Opened
  <2>4. CallsAgree' /\ calls' \in [Callers -> Calls]
    BY <2>1, <2>2, <2>3, CallChangesAgree
  <2>5. WorldTyped' /\ LockTyped' /\ GhostTyped'
    BY <1>2, <2>1, <2>2, <2>4 DEF WorldTyped, LockTyped, GhostTyped
  <2>6. QuitLeavesNoProxy' /\ OffHolds'
    BY <1>2, <2>1 DEF QuitLeavesNoProxy, OffHolds, NoneOfOurs, Opened
  <2> QED
    BY <1>3, <1>4, <2>2, <2>4, <2>5, <2>6
<1>6. CASE SetsUrl(c)
  <2> DEFINE call == [calls[c] EXCEPT !.at = "on"]
  <2>1. /\ calls[c].at = "url" /\ calls[c].on /\ quitting = "no"
        /\ autoproxy' = [autoproxy EXCEPT ![calls[c].svc].url = "ours"]
        /\ calls' = [calls EXCEPT ![c] = call] /\ switchedOff' = FALSE
        /\ UNCHANGED <<proxyLock, suspended>>
    BY <1>6 DEF SetsUrl, NotClosing, release
  <2>2. call \in Calls /\ call.on /\ call.at = "on" /\ call.on = calls[c].on
    BY <1>1, <2>1 DEF Calls
  <2> HIDE DEF call
  <2>3. calls' \in [Callers -> Calls] /\ calls'[c] = call /\ \A b \in Callers : b # c => calls'[b] = calls[b]
    BY <2>1, <2>2 DEF LockTyped
  <2>4. autoproxy' \in [Services -> Proxies]
    BY <2>1 DEF WorldTyped, Proxies, Urls
  <2>5. CallsAgree'
    <3>1. proxyLock = c
      BY <1>1, <2>1
    <3>2. \A b \in Callers : b # c => calls'[b].at \notin {"url", "on", "clear"}
      BY <2>3, <3>1 DEF CallsAgree
    <3> QED
      BY <2>1, <2>2, <2>3, <3>1, <3>2 DEF CallsAgree
  <2>6. WorldTyped' /\ LockTyped' /\ GhostTyped'
    BY <1>2, <2>1, <2>3, <2>4 DEF WorldTyped, LockTyped, GhostTyped
  <2>7. QuitLeavesNoProxy' /\ OffHolds'
    BY <1>2, <2>1 DEF QuitLeavesNoProxy, OffHolds
  <2> QED
    BY <1>3, <1>4, <2>1, <2>2, <2>5, <2>6, <2>7
<1>7. CASE SetsOn(c)
  <2> DEFINE call == [calls[c] EXCEPT !.at = "clear"]
  <2>1. /\ calls[c].at = "on" /\ quitting = "no"
        /\ autoproxy' = [autoproxy EXCEPT ![calls[c].svc].on = TRUE]
        /\ calls' = [calls EXCEPT ![c] = call]
        /\ UNCHANGED <<proxyLock, suspended, switchedOff>>
    BY <1>7 DEF SetsOn, NotClosing, release, ghosts
  <2>2. calls[c].on /\ ~switchedOff
    BY <2>1 DEF CallsAgree
  <2>3. call \in Calls /\ call.on /\ call.at = "clear" /\ call.on = calls[c].on
    BY <1>1, <2>2 DEF Calls
  <2> HIDE DEF call
  <2>4. calls' \in [Callers -> Calls] /\ calls'[c] = call /\ \A b \in Callers : b # c => calls'[b] = calls[b]
    BY <2>1, <2>3 DEF LockTyped
  <2>5. autoproxy' \in [Services -> Proxies]
    BY <2>1 DEF WorldTyped, Proxies
  <2>6. CallsAgree'
    <3>1. proxyLock = c
      BY <1>1, <2>1
    <3>2. \A b \in Callers : b # c => calls'[b].at \notin {"url", "on", "clear"}
      BY <2>4, <3>1 DEF CallsAgree
    <3> QED
      BY <2>1, <2>3, <2>4, <3>1, <3>2 DEF CallsAgree
  <2>7. WorldTyped' /\ LockTyped' /\ GhostTyped'
    BY <1>2, <2>1, <2>4, <2>5 DEF WorldTyped, LockTyped, GhostTyped
  <2>8. QuitLeavesNoProxy' /\ OffHolds'
    BY <1>2, <2>1, <2>2 DEF QuitLeavesNoProxy, OffHolds
  <2> QED
    BY <1>3, <1>4, <2>1, <2>3, <2>6, <2>7, <2>8
<1>8. CASE SetsOff(c)
  <2> DEFINE call == [calls[c] EXCEPT !.at = "clear"]
  <2>1. /\ calls[c].at = "url" /\ ~calls[c].on
        /\ autoproxy' = [s \in Services |-> IF OwnProxy(s) THEN [autoproxy[s] EXCEPT !.on = FALSE]
                                                           ELSE autoproxy[s]]
        /\ calls' = [calls EXCEPT ![c] = call]
        /\ UNCHANGED <<proxyLock, suspended, switchedOff>>
    BY <1>8 DEF SetsOff, release, ghosts
  <2>2. call \in Calls /\ ~call.on /\ call.at = "clear" /\ call.on = calls[c].on
    BY <1>1, <2>1 DEF Calls
  <2> HIDE DEF call
  <2>3. autoproxy' \in [Services -> Proxies]
    BY <2>1 DEF WorldTyped, Proxies
  <2>4. NoneOfOurs'
    <3>1. ASSUME NEW s \in Services, autoproxy'[s].url = "ours", autoproxy'[s].on PROVE FALSE
      <4>1. autoproxy[s] \in Proxies /\ autoproxy'[s] \in Proxies
        BY <2>3 DEF WorldTyped
      <4>2. CASE OwnProxy(s)
        BY <2>1, <3>1, <4>1, <4>2 DEF Proxies
      <4>3. CASE ~OwnProxy(s)
        <5>1. autoproxy'[s] = autoproxy[s]
          BY <2>1, <4>3
        <5> QED
          BY <3>1, <4>1, <4>3, <5>1, OpenIsUrlAndOn DEF OwnProxy, Opened
      <4> QED
        BY <4>2, <4>3
    <3>2. \A s \in Services : autoproxy'[s] \in Proxies
      BY <2>3
    <3> QED
      BY <3>1, <3>2, OpenIsUrlAndOn DEF NoneOfOurs, Opened
  <2>5. CallsAgree' /\ calls' \in [Callers -> Calls]
    <3>1. proxyLock' = c /\ proxyLock' = proxyLock /\ UNCHANGED switchedOff
      BY <1>1, <2>1
    <3>2. /\ call.at = "on" => call.on /\ ~switchedOff
          /\ call.at \in {"url", "on", "clear"} => proxyLock' = c
      BY <2>2, <3>1
    <3> QED
      BY <2>1, <2>2, <2>4, <3>1, <3>2, CallChangesAgree
  <2>6. WorldTyped' /\ LockTyped' /\ GhostTyped'
    BY <1>2, <2>1, <2>3, <2>5 DEF WorldTyped, LockTyped, GhostTyped
  <2>7. QuitLeavesNoProxy' /\ OffHolds'
    BY <1>2, <2>1, <2>4 DEF QuitLeavesNoProxy, OffHolds, NoneOfOurs
  <2> QED
    BY <1>3, <1>4, <2>1, <2>2, <2>5, <2>6, <2>7
<1>9. CASE CallEnds(c)
  <2>1. /\ calls[c].at = "clear" /\ suspended' = {} /\ switchedOff' = ~calls[c].on
        /\ proxyLock' = "nobody" /\ UNCHANGED autoproxy
    BY <1>9 DEF CallEnds, setup, Cancelled
  <2>2. PICK call \in Calls : /\ calls' = [calls EXCEPT ![c] = call] /\ call.at \in {"none", "ok"}
                              /\ call.on = calls[c].on \/ c = "switch"
    <3>1. [calls[c] EXCEPT !.at = "ok"] \in Calls /\ [calls[c] EXCEPT !.at = "ok"].on = calls[c].on
      BY <1>1 DEF Calls
    <3>2. calls' = [calls EXCEPT ![c] = IF c = "switch" THEN NoCall ELSE [calls[c] EXCEPT !.at = "ok"]]
      BY <1>9 DEF CallEnds
    <3>3. CASE c = "switch"
      BY <3>2, <3>3, NoCallIsTyped
    <3>4. CASE c # "switch"
      <4>1. [calls[c] EXCEPT !.at = "ok"].at = "ok"
        BY <1>1 DEF Calls
      <4> QED
        BY <3>1, <3>2, <3>4, <4>1
    <3> QED
      BY <3>3, <3>4
  <2>3. calls' \in [Callers -> Calls] /\ calls'[c] = call /\ \A b \in Callers : b # c => calls'[b] = calls[b]
    BY <2>2 DEF LockTyped
  <2>4. CallsAgree'
    <3>1. \A b \in Callers : calls'[b].at \notin {"url", "on", "clear"}
      BY <1>1, <2>1, <2>2, <2>3 DEF CallsAgree
    <3> QED
      BY <3>1 DEF CallsAgree
  <2>5. OffHolds'
    <3>1. switchedOff' => NoneOfOurs
      BY <2>1 DEF CallsAgree
    <3> QED
      BY <2>1, <3>1 DEF OffHolds, NoneOfOurs, Opened
  <2>6. WorldTyped' /\ LockTyped' /\ GhostTyped' /\ QuitLeavesNoProxy'
    BY <1>1, <1>2, <2>1, <2>3 DEF WorldTyped, LockTyped, GhostTyped, Calls, QuitLeavesNoProxy, Opened
  <2> QED
    BY <1>3, <1>4, <2>2, <2>4, <2>5, <2>6
<1> QED
  BY <1>5, <1>6, <1>7, <1>8, <1>9 DEF Applying

\* The idle release, and the start that ends it: what is remembered under the lock
\* is what is turned on again under the lock.
LEMMA IdleKeeps ==
  ASSUME TakeoverInv, IdleSteps
  PROVE  TakeoverInv'
<1> USE DEF TakeoverInv, TakeoverTyped
<1>1. /\ UNCHANGED <<service, clash, legacy, wish, lastPlan, age, sightings, work, calls, quitting,
                     switchedOff, byHand>>
  BY DEF IdleSteps, ParkingBegins, ParkingEnds, StartBegins, ResumeBegins, ResumingEnds, MachineGone,
         ParksService, ResumesService, setup, outside, memory, release, ghosts
<1>2. PlanTyped' /\ GhostTyped' /\ JobAgrees' /\ HandAgrees'
  BY <1>1 DEF PlanTyped, GhostTyped, JobAgrees, HandAgrees
<1>3. /\ proxyLock \in {"nobody", "idle", "resume"} \/ UNCHANGED proxyLock
      /\ proxyLock' \in {"nobody", "idle", "resume"} \/ UNCHANGED proxyLock
      /\ proxyLock \in Callers => UNCHANGED autoproxy
  BY DEF IdleSteps, ParkingBegins, ParkingEnds, StartBegins, ResumeBegins, ResumingEnds, MachineGone,
         ParksService, ResumesService, setup, release, Callers
<1>4. CallsAgree'
  <2>1. \A c \in Callers : calls[c].at \in {"url", "on", "clear"} => proxyLock' = c /\ UNCHANGED autoproxy
    BY <1>3 DEF CallsAgree, Callers
  <2> QED
    BY <1>1, <2>1 DEF CallsAgree, NoneOfOurs, Opened
<1>5. /\ tun' \in Tuns
      /\ proxyLock' \in Callers \cup {"nobody", "idle", "resume", "quit"}
      /\ stage' \in {"off", "resuming", "serving", "parking", "failed"}
  BY DEF IdleSteps, ParkingBegins, ParkingEnds, StartBegins, ResumeBegins, ResumingEnds, MachineGone,
         ParksService, ResumesService, setup, release, WorldTyped, LockTyped, Tuns, OtherTakes, Opened
<1>6. suspended' \subseteq Services /\ looked' \subseteq Services
  BY DEF IdleSteps, ParkingBegins, ParkingEnds, StartBegins, ResumeBegins, ResumingEnds, MachineGone,
         ParksService, ResumesService, release, LockTyped
<1>7. CASE UNCHANGED <<autoproxy, suspended>>
  <2>1. WorldTyped' /\ LockTyped'
    BY <1>1, <1>5, <1>6, <1>7 DEF WorldTyped, LockTyped
  <2>2. QuitLeavesNoProxy' /\ OffHolds'
    BY <1>1, <1>7 DEF QuitLeavesNoProxy, OffHolds, NoneOfOurs, Opened
  <2> QED
    BY <1>2, <1>4, <2>1, <2>2
<1>8. ASSUME NEW s \in Services, ParksService(s) PROVE TakeoverInv'
  <2>1. autoproxy' = autoproxy \/ autoproxy' = [autoproxy EXCEPT ![s].on = FALSE]
    BY <1>8 DEF ParksService
  <2>2. autoproxy' \in [Services -> Proxies]
    BY <2>1 DEF WorldTyped, Proxies
  <2>3. \A r \in Services :
          autoproxy'[r].url = "ours" /\ autoproxy'[r].on => autoproxy[r].url = "ours" /\ autoproxy[r].on
    BY <2>1 DEF WorldTyped, Proxies
  <2>4. NoneOfOurs => NoneOfOurs'
    BY <2>2, <2>3, NothingOpens
  <2>5. Opened(s, "ours") \/ suspended' = suspended
    BY <1>8 DEF ParksService
  <2>6. OffHolds'
    BY <1>1, <2>4, <2>5 DEF OffHolds, NoneOfOurs
  <2>7. QuitLeavesNoProxy'
    BY <1>1, <2>4 DEF QuitLeavesNoProxy, NoneOfOurs
  <2>8. WorldTyped' /\ LockTyped'
    BY <1>1, <1>5, <1>6, <2>2 DEF WorldTyped, LockTyped
  <2> QED
    BY <1>2, <1>4, <2>6, <2>7, <2>8
<1>9. ASSUME NEW s \in Services, ResumesService(s) PROVE TakeoverInv'
  <2>1. /\ s \in suspended /\ suspended' \subseteq suspended
        /\ autoproxy' = autoproxy \/ (quitting = "no" /\ autoproxy' = [autoproxy EXCEPT ![s].on = TRUE])
    BY <1>9 DEF ResumesService, NotClosing
  <2>2. autoproxy' \in [Services -> Proxies]
    BY <2>1 DEF WorldTyped, Proxies
  <2>3. ~switchedOff
    BY <2>1 DEF OffHolds
  <2>4. OffHolds'
    BY <1>1, <2>3 DEF OffHolds
  <2>5. QuitLeavesNoProxy'
    BY <1>1, <2>1 DEF QuitLeavesNoProxy, Opened
  <2>6. WorldTyped' /\ LockTyped'
    BY <1>1, <1>5, <1>6, <2>2 DEF WorldTyped, LockTyped
  <2> QED
    BY <1>2, <1>4, <2>4, <2>5, <2>6
<1>10. UNCHANGED <<autoproxy, suspended>> \/ \E s \in Services : ParksService(s) \/ ResumesService(s)
  BY DEF IdleSteps, ParkingBegins, ParkingEnds, StartBegins, ResumeBegins, ResumingEnds, MachineGone,
         setup, release
<1> HIDE DEF TakeoverInv, TakeoverTyped
<1> QED
  BY <1>7, <1>8, <1>9, <1>10

\* The quit closes what is open under our address; the next process knows nothing
\* of the plans, the calls and the release of the one before.
LEMMA QuitKeeps ==
  ASSUME TakeoverInv, QuitAsked \/ QuitParks \/ ProcessAnew
  PROVE  TakeoverInv'
<1> USE DEF TakeoverInv, TakeoverTyped
<1>1. CASE QuitAsked
  <2>1. /\ quitting' = "asked"
        /\ UNCHANGED <<autoproxy, service, tun, clash, legacy, wish, lastPlan, age, sightings, work, calls,
                       proxyLock, suspended, looked, stage, switchedOff, byHand>>
    BY <1>1 DEF QuitAsked, setup, outside, memory, release, ghosts
  <2>2. TakeoverTyped'
    BY <2>1 DEF WorldTyped, PlanTyped, LockTyped, GhostTyped
  <2>3. QuitLeavesNoProxy' /\ CallsAgree' /\ OffHolds' /\ JobAgrees' /\ HandAgrees'
    BY <2>1 DEF QuitLeavesNoProxy, CallsAgree, OffHolds, JobAgrees, HandAgrees, NoneOfOurs, Opened
  <2> QED
    BY <2>2, <2>3
<1>2. CASE QuitParks
  <2>1. /\ proxyLock = "nobody" /\ quitting' \in {"parked", "unsure"}
        /\ \/ autoproxy' = [s \in Services |->
                              IF Opened(s, "ours") THEN [autoproxy[s] EXCEPT !.on = FALSE] ELSE autoproxy[s]]
           \/ autoproxy' = autoproxy /\ quitting' = "unsure"
        /\ UNCHANGED <<service, tun, clash, legacy, wish, lastPlan, age, sightings, work, calls,
                       proxyLock, suspended, looked, stage, switchedOff, byHand>>
    BY <1>2 DEF QuitParks, memory, release, ghosts
  <2>2. autoproxy' \in [Services -> Proxies]
    BY <2>1 DEF WorldTyped, Proxies
  <2>3. TakeoverTyped'
    BY <2>1, <2>2 DEF WorldTyped, PlanTyped, LockTyped, GhostTyped
  <2>4. autoproxy' # autoproxy => NoneOfOurs'
    <3>1. ASSUME NEW s \in Services, autoproxy' # autoproxy PROVE ~(autoproxy'[s].url = "ours" /\ autoproxy'[s].on)
      <4>1. autoproxy[s] \in Proxies
        BY DEF WorldTyped
      <4>2. CASE Opened(s, "ours")
        BY <2>1, <3>1, <4>1, <4>2 DEF Proxies
      <4>3. CASE ~Opened(s, "ours")
        <5>1. autoproxy'[s] = autoproxy[s]
          BY <2>1, <4>3
        <5> QED
          BY <4>1, <4>3, <5>1, OpenIsUrlAndOn DEF Opened
      <4> QED
        BY <4>2, <4>3
    <3>2. \A s \in Services : autoproxy'[s] \in Proxies
      BY <2>2
    <3> QED
      BY <3>1, <3>2, OpenIsUrlAndOn DEF NoneOfOurs, Opened
  <2>5. CASE autoproxy' = autoproxy /\ quitting' = "unsure"
    BY <2>1, <2>5, <2>3 DEF QuitLeavesNoProxy, CallsAgree, OffHolds, JobAgrees, HandAgrees, NoneOfOurs, Opened
  <2>6. CASE NoneOfOurs'
    BY <2>1, <2>6, <2>3 DEF QuitLeavesNoProxy, CallsAgree, OffHolds, JobAgrees, HandAgrees, NoneOfOurs
  <2>7. CASE autoproxy' = autoproxy /\ quitting' # "unsure"
    <3>1. ASSUME NEW s \in Services PROVE ~(autoproxy[s].url = "ours" /\ autoproxy[s].on)
      <4>1. autoproxy[s] \in Proxies
        BY DEF WorldTyped
      <4>2. CASE Opened(s, "ours")
        <5>1. autoproxy'[s] = [autoproxy[s] EXCEPT !.on = FALSE]
          BY <2>1, <2>7, <4>2
        <5> QED
          BY <2>7, <4>1, <5>1 DEF Proxies
      <4>3. CASE ~Opened(s, "ours")
        BY <4>1, <4>3, OpenIsUrlAndOn DEF Opened
      <4> QED
        BY <4>2, <4>3
    <3>2. \A s \in Services : autoproxy'[s] \in Proxies
      BY <2>2
    <3> QED
      BY <2>6, <2>7, <3>1, <3>2, OpenIsUrlAndOn DEF NoneOfOurs, Opened
  <2> QED
    BY <2>4, <2>5, <2>6, <2>7
<1>3. CASE ProcessAnew
  <2>1. /\ lastPlan' = Unapplied /\ age' = 0 /\ sightings' = <<>>
        /\ work' = NoWork /\ calls' = [c \in Callers |-> NoCall] /\ proxyLock' = "nobody"
        /\ suspended' = {} /\ looked' = {} /\ stage' = "off" /\ quitting' = "no"
        /\ byHand' = FALSE
        /\ UNCHANGED <<service, tun, clash, legacy, wish, switchedOff>>
        /\ \/ autoproxy' = autoproxy
           \/ autoproxy' = [s \in Services |->
                IF autoproxy[s].url = "ours" THEN [autoproxy[s] EXCEPT !.url = "old"] ELSE autoproxy[s]]
    BY <1>3 DEF ProcessAnew
  <2>2. autoproxy' \in [Services -> Proxies]
    BY <2>1 DEF WorldTyped, Proxies, Urls
  <2>3. \A r \in Services :
          autoproxy'[r].url = "ours" /\ autoproxy'[r].on => autoproxy[r].url = "ours" /\ autoproxy[r].on
    BY <2>1 DEF WorldTyped, Proxies
  <2>4. NoneOfOurs => NoneOfOurs'
    BY <2>2, <2>3, NothingOpens
  <2>5. Unapplied \in LastPlans /\ NoWork \in Works
    BY NoPlanIsTyped DEF PlanTyped, LastPlans, Unapplied, NoWork, Works, Verdicts
  <2>6. PlanTyped'
    BY <2>1, <2>5, TakeoverAssumption DEF PlanTyped
  <2>7. WorldTyped' /\ LockTyped' /\ GhostTyped'
    BY <2>1, <2>2, NoCallIsTyped DEF WorldTyped, LockTyped, GhostTyped
  <2>8. QuitLeavesNoProxy' /\ CallsAgree' /\ OffHolds'
    BY <2>1, <2>4, NoCallIsTyped DEF QuitLeavesNoProxy, CallsAgree, OffHolds
  <2>9. JobAgrees' /\ HandAgrees'
    BY <2>1, NoCallIsTyped DEF JobAgrees, HandAgrees, NoWork, Callers
  <2> QED
    BY <2>6, <2>7, <2>8, <2>9
<1> QED
  BY <1>1, <1>2, <1>3

\* The user's hand and other programs open no service at our address, and the
\* hand stands only while nothing is being executed.
LEMMA OutsideKeeps ==
  ASSUME TakeoverInv, (\E s \in Services : ByHand(s)) \/ WorldChanges
  PROVE  TakeoverInv'
<1> USE DEF TakeoverInv, TakeoverTyped
<1>1. UNCHANGED <<wish, lastPlan, age, sightings, work, calls, proxyLock, suspended, looked, stage, quitting,
                  switchedOff>>
  BY DEF ByHand, WorldChanges, memory, release, ghosts
<1>2. \/ autoproxy' = autoproxy
      \/ \E s \in Services : \/ autoproxy' = [autoproxy EXCEPT ![s] = [url |-> "custom", on |-> TRUE]]
                             \/ autoproxy' = [autoproxy EXCEPT ![s].on = FALSE]
                             \/ autoproxy' = [autoproxy EXCEPT ![s] = [url |-> "legacy", on |-> TRUE]]
  BY DEF ByHand, WorldChanges
<1>3. autoproxy' \in [Services -> Proxies]
  <2>1. /\ [url |-> "custom", on |-> TRUE] \in Proxies /\ [url |-> "legacy", on |-> TRUE] \in Proxies
        /\ \A q \in Proxies : [q EXCEPT !.on = FALSE] \in Proxies
    BY DEF Proxies, Urls
  <2>2. autoproxy \in [Services -> Proxies]
    BY DEF WorldTyped
  <2> QED
    BY <1>2, <2>1, <2>2
<1>4. \A r \in Services :
        autoproxy'[r].url = "ours" /\ autoproxy'[r].on => autoproxy[r].url = "ours" /\ autoproxy[r].on
  BY <1>2 DEF WorldTyped, Proxies
<1>5. NoneOfOurs => NoneOfOurs'
  BY <1>3, <1>4, NothingOpens
<1>6. service' \in Services /\ tun' \in Tuns /\ clash' \in BOOLEAN /\ legacy' \in BOOLEAN
  BY DEF ByHand, WorldChanges, WorldTyped, Tuns
<1>7. /\ byHand' \in BOOLEAN
      /\ byHand' => byHand \/ (lastPlan.known /\ ~lastPlan.failed /\ lastPlan.plan.proxy /\ work = NoWork)
  <2>1. CASE WorldChanges
    BY <2>1 DEF WorldChanges, ghosts, GhostTyped
  <2>2. ASSUME NEW s \in Services, ByHand(s)
        PROVE  \/ byHand' = byHand
               \/ byHand' = TRUE /\ lastPlan.known /\ ~lastPlan.failed /\ lastPlan.plan.proxy /\ work = NoWork
    <3> DEFINE stands == s = service /\ lastPlan.known /\ ~lastPlan.failed /\ lastPlan.plan.proxy /\ work = NoWork
    <3>1. byHand' = (byHand \/ stands)
      BY <2>2 DEF ByHand
    <3>2. stands => lastPlan.known /\ ~lastPlan.failed /\ lastPlan.plan.proxy /\ work = NoWork
      OBVIOUS
    <3>3. byHand \in BOOLEAN /\ stands \in BOOLEAN
      BY DEF GhostTyped
    <3> HIDE DEF stands
    <3> QED
      BY <3>1, <3>2, <3>3
  <2>3. byHand \in BOOLEAN
    BY DEF GhostTyped
  <2> QED
    BY <2>1, <2>2, <2>3
<1>8. TakeoverTyped'
  BY <1>1, <1>3, <1>6, <1>7 DEF WorldTyped, PlanTyped, LockTyped, GhostTyped
<1>9. QuitLeavesNoProxy' /\ CallsAgree' /\ OffHolds'
  BY <1>1, <1>5 DEF QuitLeavesNoProxy, CallsAgree, OffHolds, NoneOfOurs
<1>10. JobAgrees' /\ HandAgrees'
  BY <1>1, <1>7 DEF JobAgrees, HandAgrees, NoWork
<1>11. TakeoverInv'
  BY <1>8, <1>9, <1>10
<1> HIDE DEF TakeoverInv, TakeoverTyped
<1> QED
  BY <1>11

\* The wish, the plan applied last, the calls and the hand of the user agree at
\* every moment of the takeover (takeover.rs, entry.rs system_proxy_apply).
THEOREM TakeoverInvariance == TakeoverSpec => []TakeoverInv
<1>1. ASSUME TakeoverInv, [TakeoverNext]_takeoverVars PROVE TakeoverInv'
  <2>1. CASE TakeoverNext
    <3>1. CASE LoopRound \/ Puts \/ JobSteps
      BY <1>1, <3>1, RoundKeeps, PutKeeps, JobKeeps
    <3>2. CASE SwitchUsed \/ SwitchFailed
      BY <1>1, <3>2, SwitchKeeps
    <3>3. CASE \E c \in Callers : Applying(c)
      BY <1>1, <3>3, ApplyingKeeps
    <3>4. CASE IdleSteps
      BY <1>1, <3>4, IdleKeeps
    <3>5. CASE QuitAsked \/ QuitParks \/ ProcessAnew
      BY <1>1, <3>5, QuitKeeps
    <3>6. CASE \E s \in Services : ByHand(s)
      BY <1>1, <3>6, OutsideKeeps
    <3>7. CASE WorldChanges
      BY <1>1, <3>7, OutsideKeeps
    <3> QED
      BY <2>1, <3>1, <3>2, <3>3, <3>4, <3>5, <3>6, <3>7 DEF TakeoverNext
  <2>2. CASE UNCHANGED takeoverVars
    <3>1. UNCHANGED <<autoproxy, service, tun, clash, legacy, wish, lastPlan, age, sightings, work, calls,
                      proxyLock, suspended, looked, stage, quitting, switchedOff, byHand>>
      BY <2>2 DEF takeoverVars, setup, outside, memory, release, ghosts
    <3>2. TakeoverTyped'
      BY <1>1, <3>1 DEF TakeoverInv, TakeoverTyped, WorldTyped, PlanTyped, LockTyped, GhostTyped
    <3>3. QuitLeavesNoProxy' /\ CallsAgree' /\ OffHolds' /\ JobAgrees' /\ HandAgrees'
      BY <1>1, <3>1 DEF TakeoverInv, QuitLeavesNoProxy, CallsAgree, OffHolds, JobAgrees, HandAgrees, NoneOfOurs,
                        Opened
    <3> QED
      BY <3>2, <3>3 DEF TakeoverInv
  <2> QED
    BY <1>1, <2>1, <2>2
<1> QED
  BY <1>1, TakeoverInvInit, PTL DEF TakeoverSpec

\* Only the resumption turns a service on while it holds the lock, and it does so
\* only for a service it remembers.
LEMMA ResumedWasRemembered ==
  ASSUME TakeoverInv, TakeoverNext, NEW s \in Services, TurnedOn(s)
  PROVE  ~switchedOff
<1> USE DEF TakeoverInv, TakeoverTyped
<1>1. /\ proxyLock = "resume" /\ ~autoproxy[s].on
      /\ autoproxy'[s] = [url |-> "ours", on |-> TRUE]
      /\ autoproxy[s] \in Proxies
  BY DEF TurnedOn, WorldTyped
<1>2. autoproxy'[s].url = "ours" /\ autoproxy'[s].on
  BY <1>1
<1>3. autoproxy'[s] # autoproxy[s] /\ autoproxy' # autoproxy
  BY <1>1, <1>2
<1>4. ~(LoopRound \/ Puts \/ JobSteps \/ SwitchUsed \/ SwitchFailed \/ QuitAsked)
  BY <1>3 DEF LoopRound, Puts, JobSteps, JobTun, JobProxy, JobEnds, SwitchUsed, SwitchFailed, QuitAsked, setup
<1>5. \A c \in Callers : ~Applying(c)
  <2>1. ASSUME NEW c \in Callers, Applying(c) PROVE FALSE
    <3>1. calls[c].at \notin {"url", "on", "clear"}
      BY <1>1 DEF CallsAgree, Callers
    <3>2. CallBegins(c)
      BY <2>1, <3>1 DEF Applying, CallFails, SetsUrl, SetsOn, SetsOff, CallEnds
    <3> QED
      BY <1>3, <3>2 DEF CallBegins, setup
  <2> QED
    BY <2>1
<1>6. ~QuitParks
  BY <1>1 DEF QuitParks
<1>7. ~ProcessAnew
  BY <1>1, <1>2 DEF ProcessAnew, Proxies, WorldTyped
<1>8. \A r \in Services : ~ByHand(r)
  BY <1>1, <1>2 DEF ByHand, Proxies, WorldTyped
<1>9. ~WorldChanges
  BY <1>1, <1>2, <1>3 DEF WorldChanges, Proxies, WorldTyped
<1>10. IdleSteps
  BY <1>4, <1>5, <1>6, <1>7, <1>8, <1>9 DEF TakeoverNext
<1>11. \A r \in Services : ~ParksService(r)
  BY <1>1 DEF ParksService
<1>12. \E r \in Services : ResumesService(r)
  BY <1>3, <1>10, <1>11 DEF IdleSteps, ParkingBegins, ParkingEnds, StartBegins, ResumeBegins, ResumingEnds,
                           MachineGone, setup
<1>13. suspended # {}
  BY <1>12 DEF ResumesService
<1> QED
  BY <1>13 DEF OffHolds

\* A call of the job turns on what the round of the loop decided to turn on.
LEMMA LoopOpensByPlan ==
  ASSUME TakeoverInv, LoopOpens
  PROVE  ~byHand
<1>1. calls["job"].on /\ work.by = "loop"
  BY DEF TakeoverInv, CallsAgree, LoopOpens, Callers
<1> QED
  BY <1>1 DEF TakeoverInv, JobAgrees, HandAgrees

\* Nobody opens a proxy after the quit has closed them, what the switch turned off
\* is not resumed, and the loop leaves alone what the user changed by hand under
\* an applied plan (entry.rs:553-640, takeover.rs:358-400).
THEOREM DecisionsAreKept == TakeoverSpec => TakeoverKept
<1>1. TakeoverInv => QuitLeavesNoProxy
  BY DEF TakeoverInv
<1>2. ASSUME TakeoverInv, [TakeoverNext]_takeoverVars
      PROVE  /\ [\A s \in Services : TurnedOn(s) => ~switchedOff]_takeoverVars
             /\ [LoopOpens => ~byHand]_takeoverVars
  BY <1>2, ResumedWasRemembered, LoopOpensByPlan
<1> QED
  BY <1>1, <1>2, TakeoverInvariance, PTL
     DEF TakeoverSpec, TakeoverKept, HandComesFirst, OffIsNotResumed, HandIsRespected

-----------------------------------------------------------------------------
(* RuleRoutes: the egress guard. *)

\* A task has read nothing or the policy that was read last: the lock is held
\* from the read to the end of the script, so that no older one is left.
GuardInv == guardTasks \in Seq({{}, {lastRead}}) /\ GuardIsNewest

\* A queue without one of its tasks holds the others.
LEMMA TaskRemoved ==
  ASSUME NEW S, NEW q \in Seq(S), NEW i \in DOMAIN q
  PROVE  RemoveAt(q, i) \in Seq(S)
<1>1. SubSeq(q, 1, i - 1) \in Seq(S) /\ SubSeq(q, i + 1, Len(q)) \in Seq(S)
  BY SubSeqProperties
<1> QED
  BY <1>1, ConcatProperties DEF RemoveAt

\* Every step keeps the guard's tasks and what it holds together.
LEMMA GuardStep ==
  ASSUME GuardInv, [RuleNext]_ruleVars
  PROVE  GuardInv'
<1> USE DEF GuardInv, GuardIsNewest
<1>1. CASE UNCHANGED guardVars
  BY <1>1 DEF guardVars
<1>2. CASE Rebuild \/ WatchdogGuard
  <2>1. UNCHANGED <<guard, lastRead, guardFailed>>
    BY <1>2 DEF Rebuild, WatchdogGuard
  <2>2. guardTasks' = guardTasks \/ guardTasks' = Append(guardTasks, {})
    <3>1. WatchdogGuard => guardTasks' = Append(guardTasks, {})
      BY DEF WatchdogGuard
    <3> QED
      BY <1>2, <3>1 DEF Rebuild, Schedules
  <2>3. guardTasks' \in Seq({{}, {lastRead}})
    BY <2>2, AppendProperties
  <2>4. (\A i \in DOMAIN guardTasks' : guardTasks'[i] = {}) => \A i \in DOMAIN guardTasks : guardTasks[i] = {}
    BY <2>2, AppendProperties
  <2> QED
    BY <2>1, <2>3, <2>4
<1>3. ASSUME NEW i \in DOMAIN guardTasks, GuardReads(i) PROVE GuardInv'
  <2>1. guardTasks \in Seq({{}})
    BY <1>3 DEF GuardReads, GuardLockFree
  <2>2. guardTasks' = [guardTasks EXCEPT ![i] = {lastRead'}] /\ UNCHANGED <<guard, guardFailed>>
    BY <1>3 DEF GuardReads
  <2>3. guardTasks' \in Seq({{}, {lastRead'}})
    BY <2>1, <2>2
  <2>4. i \in DOMAIN guardTasks' /\ guardTasks'[i] # {}
    BY <2>1, <2>2
  <2> QED
    BY <2>3, <2>4
<1>4. ASSUME NEW i \in DOMAIN guardTasks, GuardScript(i) PROVE GuardInv'
  <2>1. guardTasks' \in Seq({{}, {lastRead}}) /\ lastRead' = lastRead
    BY <1>4, TaskRemoved DEF GuardScript
  <2>2. guardTasks[i] = {lastRead}
    BY <1>4 DEF GuardScript
  <2>3. guardFailed' = TRUE \/ guard' = lastRead
    BY <1>4, <2>2 DEF GuardScript
  <2> QED
    BY <2>1, <2>3
<1> QED
  BY <1>1, <1>2, <1>3, <1>4 DEF RuleNext, ruleVars, AddRules, DelRule, PatchRule, PatchRules, ChannelMoves,
     Dials, TunSync, AddressesAge, Observe, guardVars

\* The tasks that carry a policy to the egress guard never put an older one over
\* a newer one: with no script running and none failed the machine holds the
\* policy read last (health.rs GUARD_APPLY_LOCK).
THEOREM GuardIsTheNewest == RuleSpec => []GuardIsNewest
<1>1. RuleInit => GuardInv
  BY DEF RuleInit, GuardInv, GuardIsNewest
<1>2. GuardInv /\ [RuleNext]_ruleVars => GuardInv'
  BY GuardStep
<1>3. GuardInv => GuardIsNewest
  BY DEF GuardInv
<1> QED
  BY <1>1, <1>2, <1>3, PTL DEF RuleSpec

-----------------------------------------------------------------------------
(* RuleRoutes: the order of the rules.                                        *)

\* A set of numbers has a least one.
LEMMA LeastNumber ==
  ASSUME NEW S \in SUBSET Nat, S # {}
  PROVE  \E i \in S : \A j \in S : i <= j
<1>1. PICK i \in S : \A j \in S : ~(<<j, i>> \in OpToRel(<, Nat))
  BY WFMin, NatLessThanWellFounded
<1>2. \A j \in S : ~(j < i)
  BY <1>1 DEF OpToRel
<1> QED
  BY <1>2

\* A row and what it says.
Rows == [id : Nat, ch : RuleChannels, kind : {"domain", "ip"}, path : {p.path : p \in Patterns},
         on : BOOLEAN, locked : BOOLEAN]
RowsFit ==
  /\ bound \in Nat /\ rules \subseteq Rows
  /\ \A r \in rules : r.id \in 1..bound /\ \E p \in Patterns : p.kind = r.kind /\ p.path = r.path
  /\ \A r, s \in rules : r.id = s.id => r = s

\* A table has finitely many rows: each has a number of its own.
LEMMA RowsAreFinite ==
  ASSUME RowsFit
  PROVE  IsFiniteSet(EffectiveRules) /\ EffectiveRules \subseteq rules
<1>1. [r \in rules |-> r.id] \in Injection(rules, 1..bound)
  BY DEF RowsFit, Injection, IsInjective
<1>2. IsFiniteSet(rules)
  BY <1>1, FS_Interval, FS_Injection DEF RowsFit
<1> QED
  BY <1>2, FS_Subset DEF EffectiveRules

\* Any two rules have an order.
LEMMA OrderIsStrict ==
  ASSUME RowsFit
  PROVE  /\ \A r \in rules : ~ComesFirst(r, r) /\ Len(r.path) \in Nat /\ r.id \in Nat
         /\ \A r, s \in rules : r # s => ComesFirst(r, s) \/ ComesFirst(s, r)
         /\ \A r, s, t \in rules : ComesFirst(r, s) /\ ComesFirst(s, t) => ComesFirst(r, t)
<1>1. \A r \in rules : Len(r.path) \in Nat /\ r.id \in Nat /\ r.kind \in {"domain", "ip"}
  BY RuleAssumption DEF RowsFit, Rows
<1>2. \A r \in rules : ~ComesFirst(r, r)
  BY <1>1 DEF ComesFirst
<1>3. \A r, s \in rules : r # s => ComesFirst(r, s) \/ ComesFirst(s, r)
  BY <1>1 DEF ComesFirst, RowsFit
<1>4. \A r, s, t \in rules : ComesFirst(r, s) /\ ComesFirst(s, t) => ComesFirst(r, t)
  BY <1>1 DEF ComesFirst
<1> QED
  BY <1>1, <1>2, <1>3, <1>4

\* So that the rules can be listed in it: a rule stands behind as many as come first.
LEMMA OrderExists ==
  ASSUME RowsFit
  PROVE  \E s \in SetToSeqs(EffectiveRules) : \A i, j \in DOMAIN s : i < j => ComesFirst(s[i], s[j])
<1> DEFINE S == EffectiveRules
           n == Cardinality(S)
           Ahead(r) == {s \in S : ComesFirst(s, r)}
           rank == [r \in S |-> Cardinality(Ahead(r)) + 1]
<1>1. IsFiniteSet(S) /\ S \subseteq rules /\ n \in Nat
  BY RowsAreFinite, FS_CardinalityType
<1>2. \A r \in S : IsFiniteSet(Ahead(r)) /\ Cardinality(Ahead(r)) \in 0..n - 1
  <2> SUFFICES ASSUME NEW r \in S PROVE IsFiniteSet(Ahead(r)) /\ Cardinality(Ahead(r)) \in 0..n - 1
    OBVIOUS
  <2>1. Ahead(r) \in SUBSET S /\ r \notin Ahead(r)
    BY <1>1, OrderIsStrict
  <2>2. IsFiniteSet(Ahead(r)) /\ Cardinality(Ahead(r)) <= n /\ Cardinality(Ahead(r)) # n
    BY <1>1, <2>1, FS_Subset
  <2> QED
    BY <1>1, <2>2, FS_CardinalityType
<1>3. \A r, s \in S : ComesFirst(r, s) => rank[r] < rank[s]
  <2> SUFFICES ASSUME NEW r \in S, NEW s \in S, ComesFirst(r, s) PROVE rank[r] < rank[s]
    OBVIOUS
  <2>1. Ahead(r) \in SUBSET Ahead(s) /\ r \notin Ahead(r) /\ r \in Ahead(s)
    BY <1>1, OrderIsStrict
  <2>2. Cardinality(Ahead(r)) <= Cardinality(Ahead(s)) /\ Cardinality(Ahead(r)) # Cardinality(Ahead(s))
    BY <1>2, <2>1, FS_Subset
  <2>3. Cardinality(Ahead(r)) \in Int /\ Cardinality(Ahead(s)) \in Int
    BY <1>1, <1>2
  <2>4. rank[r] = Cardinality(Ahead(r)) + 1 /\ rank[s] = Cardinality(Ahead(s)) + 1
    OBVIOUS
  <2> HIDE DEF rank, Before
  <2> QED
    BY <2>2, <2>3, <2>4
<1>4. rank \in [S -> 1..n] /\ \A r, s \in S : rank[r] = rank[s] => r = s
  <2>1. rank \in [S -> 1..n]
    BY <1>1, <1>2
  <2> HIDE DEF rank
  <2>2. \A r, s \in S : rank[r] = rank[s] => r = s
    BY <1>1, <1>3, <2>1, OrderIsStrict
  <2> QED
    BY <2>1, <2>2
<1>5. \A i \in 1..n : \E r \in S : rank[r] = i
  <2>1. rank \in Injection(S, 1..n)
    BY <1>4 DEF Injection, IsInjective
  <2>2. IsFiniteSet(1..n) /\ Cardinality(1..n) = n
    BY <1>1, FS_Interval
  <2>3. rank \in Surjection(S, 1..n)
    BY <2>1, <2>2, FS_Injection
  <2> QED
    BY <2>3 DEF Surjection
<1> DEFINE order == [i \in 1..n |-> CHOOSE r \in S : rank[r] = i]
<1> HIDE DEF rank, S, n
<1>6. order \in [1..n -> S] /\ \A i \in 1..n : rank[order[i]] = i
  BY <1>5
<1>7. \A i, j \in 1..n : i # j => order[i] # order[j]
  BY <1>6
<1>8. \A i, j \in 1..n : i < j => ComesFirst(order[i], order[j])
  <2> SUFFICES ASSUME NEW i \in 1..n, NEW j \in 1..n, i < j PROVE ComesFirst(order[i], order[j])
    OBVIOUS
  <2>1. order[i] \in S /\ order[j] \in S /\ order[i] # order[j] /\ ~(rank[order[j]] < rank[order[i]])
    BY <1>1, <1>6
  <2> HIDE DEF order
  <2> QED
    BY <1>1, <1>3, <2>1, OrderIsStrict
<1>9. order \in SetToSeqs(S)
  BY <1>6, <1>7 DEF SetToSeqs, n
<1> QED
  BY <1>6, <1>8, <1>9 DEF S

\* The effective rules in their order.
RuleLine(r) == [kind |-> r.kind, path |-> r.path, target |-> IF Refusing(r.ch) THEN "REJECT" ELSE r.ch]
LastLine == [kind |-> "ip", path |-> Reserved, target |-> "REJECT"]
Enumerates(s, n) ==
  /\ s \in [1..n -> EffectiveRules]
  /\ \A r \in EffectiveRules : \E i \in 1..n : s[i] = r
  /\ \A i, j \in 1..n : i < j => ComesFirst(s[i], s[j])
LinesOf(lines) == \E n, s :
  /\ n \in Nat /\ Enumerates(s, n)
  /\ DOMAIN lines = 1..n + 1 /\ Len(lines) = n + 1
  /\ \A i \in 1..n : lines[i] = RuleLine(s[i])
  /\ lines[n + 1] = LastLine

\* The lines of a rebuild are those, with the reserved network behind them.
LEMMA LinesFollowOrder ==
  ASSUME RowsFit
  PROVE  /\ \E n, s : n \in Nat /\ Enumerates(s, n) /\ OrderedRules = [i \in 1..n |-> RuleLine(s[i])]
         /\ LinesOf(KernelLines)
<1> DEFINE n == Cardinality(EffectiveRules)
           Sorted(s) == \A i, j \in DOMAIN s : i < j => ComesFirst(s[i], s[j])
           s == CHOOSE t \in SetToSeqs(EffectiveRules) : Sorted(t)
           Lines == {RuleLine(r) : r \in EffectiveRules} \cup {LastLine}
<1>1. n \in Nat /\ IsFiniteSet(EffectiveRules)
  BY RowsAreFinite, FS_CardinalityType
<1>2. s \in SetToSeqs(EffectiveRules) /\ Sorted(s)
  BY OrderExists
<1>3. OrderedRules = [i \in DOMAIN s |-> RuleLine(s[i])]
  BY DEF OrderedRules, RuleLine
<1> HIDE DEF s
<1>4. s \in [1..n -> EffectiveRules] /\ \A i, j \in 1..n : i # j => s[i] # s[j]
  BY <1>2 DEF SetToSeqs
<1>5. \A r \in EffectiveRules : \E i \in 1..n : s[i] = r
  <2>1. s \in Injection(1..n, EffectiveRules)
    BY <1>4 DEF Injection, IsInjective
  <2>2. Cardinality(1..n) = n
    BY <1>1, FS_Interval
  <2>3. s \in Surjection(1..n, EffectiveRules)
    BY <1>1, <2>1, <2>2, FS_Injection
  <2> QED
    BY <2>3 DEF Surjection
<1> HIDE DEF n
<1>6. OrderedRules = [i \in 1..n |-> RuleLine(s[i])]
  BY <1>3, <1>4
<1>7. OrderedRules \in Seq(Lines) /\ Len(OrderedRules) = n
  BY <1>1, <1>4, <1>6
<1>8. <<LastLine>> \in Seq(Lines) /\ Len(<<LastLine>>) = 1 /\ <<LastLine>>[1] = LastLine
  OBVIOUS
<1>9. KernelLines = OrderedRules \o <<LastLine>>
  BY DEF KernelLines, LastLine
<1> HIDE DEF Lines
<1>10. Len(KernelLines) = n + 1 /\ DOMAIN KernelLines = 1..n + 1
  BY <1>1, <1>7, <1>8, <1>9, ConcatProperties
<1>11. \A i \in 1..n : KernelLines[i] = RuleLine(s[i])
  BY <1>1, <1>6, <1>7, <1>8, <1>9, ConcatProperties
<1>12. KernelLines[n + 1] = LastLine
  BY <1>1, <1>7, <1>8, <1>9, ConcatProperties
<1>13. Enumerates(s, n)
  BY <1>2, <1>4, <1>5 DEF Enumerates
<1> QED
  BY <1>1, <1>6, <1>10, <1>11, <1>12, <1>13 DEF LinesOf

\* The first line that matches decides.
LEMMA FirstDecides ==
  ASSUME NEW lines, NEW n \in Nat, DOMAIN lines = 1..n, NEW d
  PROVE  \/ FirstMatch(lines, d) = "DIRECT" /\ \A i \in 1..n : ~Matches(lines[i], d)
         \/ \E i \in 1..n : /\ Matches(lines[i], d) /\ FirstMatch(lines, d) = lines[i].target
                            /\ \A j \in 1..i - 1 : ~Matches(lines[j], d)
<1> DEFINE hits == {i \in 1..n : Matches(lines[i], d)}
           first == CHOOSE i \in hits : \A j \in hits : i <= j
<1>1. CASE hits = {}
  BY <1>1 DEF FirstMatch
<1>2. CASE hits # {}
  <2>1. first \in hits /\ \A j \in hits : first <= j
    <3>1. hits \in SUBSET Nat
      OBVIOUS
    <3> HIDE DEF hits
    <3>2. \E i \in hits : \A j \in hits : i <= j
      BY <1>2, <3>1, LeastNumber
    <3> QED
      BY <3>2
  <2>2. FirstMatch(lines, d) = lines[first].target
    BY <1>2 DEF FirstMatch
  <2> HIDE DEF first
  <2> QED
    BY <2>1, <2>2
<1> QED
  BY <1>1, <1>2

\* What binds a destination is among the effective rules.
LEMMA BindingIsEffective ==
  ASSUME NEW d
  PROVE  Binding(d) = {r \in EffectiveRules : Matches(r, d)}
BY DEF Binding, EffectiveRules, Serving

\* A line matches what its rule does.
LEMMA LineMatches ==
  ASSUME NEW r, NEW d
  PROVE  Matches(RuleLine(r), d) <=> Matches(r, d)
BY DEF RuleLine, Matches

Best(d) == CHOOSE r \in Binding(d) : \A s \in Binding(d) :
              \/ Len(s.path) < Len(r.path)
              \/ Len(s.path) = Len(r.path) /\ r.id <= s.id
RuleVerdict(d) == IF Refusing(Best(d).ch) THEN "REJECT" ELSE Best(d).ch

\* Ordered lines decide as the most specific rule says.
LEMMA OrderDecides ==
  ASSUME RowsFit, NEW n \in Nat, NEW s, Enumerates(s, n), NEW d, Binding(d) # {},
         NEW lines, NEW m \in Nat, n <= m, DOMAIN lines = 1..m,
         \A i \in 1..n : lines[i] = RuleLine(s[i])
  PROVE  FirstMatch(lines, d) = RuleVerdict(d)
<1>1. \A i \in 1..n : s[i] \in EffectiveRules /\ s[i] \in rules
  BY RowsAreFinite DEF Enumerates
<1>2. \A i \in 1..n : Matches(lines[i], d) <=> s[i] \in Binding(d)
  BY <1>1, LineMatches, BindingIsEffective
<1>3. \E i \in 1..n : s[i] \in Binding(d)
  BY BindingIsEffective DEF Enumerates
<1>4. PICK i \in 1..m : /\ Matches(lines[i], d) /\ FirstMatch(lines, d) = lines[i].target
                        /\ \A j \in 1..i - 1 : ~Matches(lines[j], d)
  <2>1. \E i \in 1..m : Matches(lines[i], d)
    BY <1>2, <1>3
  <2> QED
    BY <2>1, FirstDecides
<1>5. i \in 1..n
  BY <1>2, <1>3, <1>4
<1>6. s[i] \in Binding(d) /\ \A j \in 1..i - 1 : s[j] \notin Binding(d)
  BY <1>2, <1>4, <1>5
<1>7. \A t \in Binding(d) : t = s[i] \/ ComesFirst(s[i], t)
  BY <1>5, <1>6, BindingIsEffective DEF Enumerates
<1>8. \A t \in Binding(d) : /\ t \in rules /\ t.kind = s[i].kind
                            /\ Len(t.path) \in Nat /\ t.id \in Nat
  BY <1>6, OrderIsStrict DEF Binding, Matches
<1> DEFINE Beats(r, t) == \/ Len(t.path) < Len(r.path)
                          \/ Len(t.path) = Len(r.path) /\ r.id <= t.id
<1>9. \A t \in Binding(d) : Beats(s[i], t)
  BY <1>6, <1>7, <1>8 DEF ComesFirst
<1>10. \A t \in Binding(d) : (\A u \in Binding(d) : Beats(t, u)) => t = s[i]
  <2> SUFFICES ASSUME NEW t \in Binding(d), Beats(t, s[i]), Beats(s[i], t) PROVE t = s[i]
    BY <1>6, <1>9
  <2>1. t.id = s[i].id
    BY <1>6, <1>8
  <2> QED
    BY <1>6, <1>8, <2>1 DEF RowsFit
<1>11. Best(d) = s[i]
  BY <1>6, <1>9, <1>10 DEF Best
<1>12. lines[i] = RuleLine(s[i])
  BY <1>5
<1> QED
  BY <1>4, <1>11, <1>12 DEF RuleLine, RuleVerdict

\* What the lines of a present configuration do with a destination, what the
\* tester says and what the PAC file does.
LEMMA LinesDecide ==
  ASSUME RowsFit, NEW lines, LinesOf(lines), NEW d
  PROVE  /\ FirstMatch(lines, d) =
              IF Binding(d) # {} THEN RuleVerdict(d)
              ELSE IF Matches(Address(Reserved), d) THEN "REJECT" ELSE "DIRECT"
         /\ Binding(d) # {} => TesterSays(d) = FirstMatch(lines, d)
         /\ PacProxies(d) <=> \E i \in 1..(Len(lines) - 1) : Matches(lines[i], d)
<1>1. PICK n, s : /\ n \in Nat /\ Enumerates(s, n)
                  /\ DOMAIN lines = 1..n + 1 /\ Len(lines) = n + 1
                  /\ \A i \in 1..n : lines[i] = RuleLine(s[i])
                  /\ lines[n + 1] = LastLine
  BY DEF LinesOf
<1>2. \A i \in 1..n : Matches(lines[i], d) <=> s[i] \in Binding(d)
  BY <1>1, LineMatches, BindingIsEffective DEF Enumerates
<1>3. Binding(d) # {} <=> \E i \in 1..n : s[i] \in Binding(d)
  BY <1>1, BindingIsEffective DEF Enumerates
<1>4. Matches(lines[n + 1], d) <=> Matches(Address(Reserved), d)
  <2>1. lines[n + 1].kind = "ip" /\ lines[n + 1].path = Reserved
    BY <1>1 DEF LastLine
  <2> QED
    BY <2>1 DEF Matches, Address
<1>5. ASSUME Binding(d) = {}
      PROVE  FirstMatch(lines, d) = IF Matches(Address(Reserved), d) THEN "REJECT" ELSE "DIRECT"
  <2>1. \A i \in 1..n : ~Matches(lines[i], d)
    BY <1>2, <1>5
  <2>2. n + 1 \in Nat /\ n + 1 \in 1..n + 1
    BY <1>1
  <2>3. \/ FirstMatch(lines, d) = "DIRECT" /\ ~Matches(lines[n + 1], d)
        \/ Matches(lines[n + 1], d) /\ FirstMatch(lines, d) = lines[n + 1].target
    BY <1>1, <2>1, <2>2, FirstDecides
  <2>4. lines[n + 1].target = "REJECT"
    BY <1>1 DEF LastLine
  <2> QED
    BY <1>4, <2>3, <2>4
<1>6. ASSUME Binding(d) # {} PROVE FirstMatch(lines, d) = RuleVerdict(d)
  <2>1. n + 1 \in Nat /\ n <= n + 1
    BY <1>1
  <2> QED
    BY <1>1, <1>6, <2>1, OrderDecides
<1>7. ASSUME Binding(d) # {} PROVE TesterSays(d) = RuleVerdict(d)
  <2>1. PICK k, t : k \in Nat /\ Enumerates(t, k) /\ OrderedRules = [i \in 1..k |-> RuleLine(t[i])]
    BY LinesFollowOrder
  <2>2. DOMAIN OrderedRules = 1..k /\ \A i \in 1..k : OrderedRules[i] = RuleLine(t[i])
    BY <2>1
  <2>3. FirstMatch(OrderedRules, d) = RuleVerdict(d)
    BY <1>7, <2>1, <2>2, OrderDecides
  <2> QED
    BY <2>3 DEF TesterSays
<1>8. PacProxies(d) <=> \E i \in 1..n : s[i] \in Binding(d)
  BY <1>3, BindingIsEffective DEF PacProxies
<1> QED
  BY <1>1, <1>2, <1>5, <1>6, <1>7, <1>8

-----------------------------------------------------------------------------
(* RuleRoutes: the networks without the servers.                              *)

Paths == Seq({0, 1})
\* A path is a prefix of another when they agree on its length.
LEMMA PrefixMeans ==
  ASSUME NEW p \in Paths, NEW q \in Paths
  PROVE  IsPrefix(p, q) <=> Len(p) <= Len(q) /\ \A i \in 1..Len(p) : p[i] = q[i]
<1> SUFFICES ASSUME Len(p) <= Len(q)
             PROVE  SubSeq(p, 1, Len(p)) = SubSeq(q, 1, Len(p)) <=> \A i \in 1..Len(p) : p[i] = q[i]
  BY DEF IsPrefix
<1>1. SubSeq(p, 1, Len(p)) = [i \in 1..Len(p) |-> p[i]] /\ SubSeq(q, 1, Len(p)) = [i \in 1..Len(p) |-> q[i]]
  BY DEF Paths
<1> QED
  BY <1>1

\* Being a prefix is an order.
LEMMA PrefixOrder ==
  /\ \A p, q, t \in Paths : IsPrefix(p, q) /\ IsPrefix(q, t) => IsPrefix(p, t)
  /\ \A p, q \in Paths : IsPrefix(p, q) /\ Len(p) = Len(q) => p = q
  /\ \A p \in Paths : IsPrefix(p, p) /\ Len(p) \in Nat
<1>1. \A p \in Paths : Len(p) \in Nat
  BY DEF Paths
<1>2. ASSUME NEW p \in Paths, NEW q \in Paths, NEW t \in Paths, IsPrefix(p, q), IsPrefix(q, t)
      PROVE  IsPrefix(p, t)
  BY <1>1, <1>2, PrefixMeans
<1>3. ASSUME NEW p \in Paths, NEW q \in Paths, IsPrefix(p, q), Len(p) = Len(q)
      PROVE  p = q
  BY <1>3, PrefixMeans, SeqEqual DEF Paths
<1>4. \A p \in Paths : IsPrefix(p, p)
  BY <1>1, PrefixMeans
<1> QED
  BY <1>1, <1>2, <1>3, <1>4

\* One bit further, and one bit back.
Shorter(q) == SubSeq(q, 1, Len(q) - 1)
LEMMA LongerPath ==
  ASSUME NEW p \in Paths, NEW x \in {0, 1}
  PROVE  /\ Append(p, x) \in Paths /\ Len(Append(p, x)) = Len(p) + 1
         /\ \A i \in 1..Len(p) : Append(p, x)[i] = p[i]
         /\ Append(p, x)[Len(p) + 1] = x
BY AppendProperties DEF Paths

\* A network twice as large.
LEMMA ShorterPath ==
  ASSUME NEW q \in Paths, q # <<>>
  PROVE  /\ Shorter(q) \in Paths /\ Len(Shorter(q)) = Len(q) - 1 /\ Len(q) \in Nat \ {0}
         /\ \A i \in 1..Len(q) - 1 : Shorter(q)[i] = q[i]
<1> DEFINE n == Len(q) - 1
           f == SubSeq(q, 1, n)
<1>1. Len(q) \in Nat \ {0} /\ \A i \in 1..Len(q) : q[i] \in {0, 1}
  BY EmptySeq, LenProperties DEF Paths
<1>2. n \in Int /\ \A i \in 1..n : q[i] \in {0, 1}
  BY <1>1
<1>3. /\ f \in Seq({0, 1}) /\ Len(f) = IF 1 <= n THEN n - 1 + 1 ELSE 0
      /\ \A i \in 1..(n - 1 + 1) : f[i] = q[1 + i - 1]
  <2> HIDE DEF n
  <2> QED
    BY <1>2, SubSeqProperties
<1>4. Shorter(q) = f
  BY DEF Shorter
<1> HIDE DEF f
<1> QED
  BY <1>1, <1>3, <1>4 DEF Paths

\* A half lies in its whole.
LEMMA PathGrows ==
  ASSUME NEW p \in Paths, NEW x \in {0, 1}
  PROVE  IsPrefix(p, Append(p, x)) /\ Shorter(Append(p, x)) = p
<1> DEFINE r == Append(p, x)
           f == Shorter(r)
<1>1. /\ r \in Paths /\ Len(r) = Len(p) + 1 /\ Len(p) \in Nat
      /\ \A i \in 1..Len(p) : r[i] = p[i]
  BY LongerPath, PrefixOrder
<1> HIDE DEF r
<1>2. IsPrefix(p, r)
  BY <1>1, PrefixMeans
<1>3. r # <<>>
  BY <1>1, EmptySeq
<1>4. /\ f \in Paths /\ Len(f) = Len(r) - 1 /\ \A i \in 1..Len(r) - 1 : f[i] = r[i]
  BY <1>1, <1>3, ShorterPath
<1> HIDE DEF f
<1>5. Len(f) = Len(p) /\ \A i \in 1..Len(f) : f[i] = p[i]
  BY <1>1, <1>4
<1>6. f = p
  BY <1>4, <1>5, SeqEqual DEF Paths
<1> QED
  BY <1>2, <1>6 DEF f, r

\* What lies below a network lies in one of its halves.
LEMMA PathBranches ==
  ASSUME NEW p \in Paths, NEW q \in Paths, IsPrefix(p, q), p # q
  PROVE  \E x \in {0, 1} : IsPrefix(Append(p, x), q)
<1>1. Len(p) < Len(q) /\ Len(p) \in Nat /\ Len(q) \in Nat
  BY PrefixMeans, PrefixOrder
<1>2. q[Len(p) + 1] \in {0, 1}
  BY <1>1 DEF Paths
<1> DEFINE x == q[Len(p) + 1]
           r == Append(p, x)
<1>3. /\ r \in Paths /\ Len(r) = Len(p) + 1
      /\ \A i \in 1..Len(p) : r[i] = p[i]
      /\ r[Len(p) + 1] = x
  BY <1>2, LongerPath
<1>4. \A i \in 1..Len(p) : p[i] = q[i]
  BY PrefixMeans
<1> HIDE DEF r
<1>5. \A i \in 1..Len(r) : r[i] = q[i]
  BY <1>1, <1>3, <1>4
<1>6. IsPrefix(r, q)
  BY <1>1, <1>3, <1>5, PrefixMeans
<1> QED
  BY <1>2, <1>6 DEF r

\* and in what the network below it was taken from.
LEMMA PathShrinks ==
  ASSUME NEW p \in Paths, NEW q \in Paths, IsPrefix(p, q), p # q
  PROVE  q # <<>> /\ IsPrefix(p, Shorter(q))
<1>1. Len(p) < Len(q) /\ Len(p) \in Nat /\ Len(q) \in Nat
  BY PrefixMeans, PrefixOrder
<1>2. q # <<>>
  BY <1>1, EmptySeq
<1>3. \A i \in 1..Len(p) : p[i] = q[i]
  BY PrefixMeans
<1> QED
  BY <1>1, <1>2, <1>3, ShorterPath, PrefixMeans

-----------------------------------------------------------------------------
\* The recursion of subtract: below are the networks it may meet, and Carved is
\* what each of them is replaced by.
Networks(net, n) == {p \in Paths : Len(p) \in Len(net)..n}
Excludes(p, ips) == \E a \in ips : IsPrefix(p, a)
Pieces(net, n, ips, f) ==
  [p \in Networks(net, n) |->
     IF ~Excludes(p, ips) THEN {p}
     ELSE IF Len(p) = n THEN {}
     ELSE f[Append(p, 0)] \cup f[Append(p, 1)]]
Cut(net, n, ips, p) ==
  {q \in Networks(net, n) : IsPrefix(p, q) /\ ~Excludes(q, ips) /\ (q = p \/ Excludes(Shorter(q), ips))}
Carved(net, n, ips) == [p \in Networks(net, n) |-> Cut(net, n, ips, p)]

\* The recursion has a solution: the largest networks below p without an address of ips.
LEMMA CarvedIsSolution ==
  ASSUME NEW net \in Paths, NEW n \in Nat, NEW ips \in SUBSET Paths, \A a \in ips : Len(a) = n
  PROVE  Carved(net, n, ips) = Pieces(net, n, ips, Carved(net, n, ips))
<1> DEFINE N == Networks(net, n)
           C == Carved(net, n, ips)
           E(p) == Excludes(p, ips)
<1>1. \A p \in N : p \in Paths /\ Len(p) \in Nat /\ Len(p) >= Len(net) /\ Len(p) <= n
  BY PrefixOrder DEF Networks
<1>2. \A p \in N : C[p] = {q \in N : IsPrefix(p, q) /\ ~E(q) /\ (q = p \/ E(Shorter(q)))}
  <2>1. \A p \in N : C[p] = Cut(net, n, ips, p)
    BY DEF Carved
  <2> HIDE DEF C
  <2> QED
    BY <2>1 DEF Cut
<1>3. \A p, q \in Paths : IsPrefix(p, q) /\ E(q) => E(p)
  BY PrefixOrder DEF Excludes
<1> SUFFICES ASSUME NEW p \in N
             PROVE  C[p] = IF ~E(p) THEN {p}
                           ELSE IF Len(p) = n THEN {}
                           ELSE C[Append(p, 0)] \cup C[Append(p, 1)]
  BY DEF Pieces, Carved
<1> HIDE DEF C, E, N
<1>4. ASSUME NEW q \in N, IsPrefix(p, q), q # p, ~E(p) PROVE ~E(Shorter(q))
  <2>1. q # <<>> /\ IsPrefix(p, Shorter(q))
    BY <1>1, <1>4, PathShrinks
  <2> QED
    BY <1>1, <1>3, <1>4, <2>1, ShorterPath
<1>5. CASE ~E(p)
  BY <1>1, <1>2, <1>4, <1>5, PrefixOrder
<1>6. CASE E(p) /\ Len(p) = n
  <2>1. ASSUME NEW q \in N, IsPrefix(p, q) PROVE q = p
    <3>1. Len(p) <= Len(q)
      BY <1>1, <2>1, PrefixMeans
    <3> QED
      BY <1>1, <1>6, <2>1, <3>1, PrefixOrder
  <2> QED
    BY <1>2, <1>6, <2>1
<1>7. CASE E(p) /\ Len(p) # n
  <2>1. \A x \in {0, 1} : /\ Append(p, x) \in N /\ IsPrefix(p, Append(p, x))
                          /\ Shorter(Append(p, x)) = p
    <3> SUFFICES ASSUME NEW x \in {0, 1} PROVE /\ Append(p, x) \in N /\ IsPrefix(p, Append(p, x))
                                               /\ Shorter(Append(p, x)) = p
      OBVIOUS
    <3>1. Append(p, x) \in Paths /\ Len(Append(p, x)) = Len(p) + 1 /\ Len(net) \in Nat
      BY <1>1, LongerPath, PrefixOrder
    <3>2. Append(p, x) \in N
      BY <1>1, <1>7, <3>1 DEF N, Networks
    <3> QED
      BY <1>1, <3>2, PathGrows
  <2>2. ASSUME NEW q \in C[p] PROVE q \in C[Append(p, 0)] \cup C[Append(p, 1)]
    <3>1. q \in N /\ IsPrefix(p, q) /\ ~E(q) /\ q # p /\ E(Shorter(q))
      BY <1>2, <1>7, <2>2
    <3>2. PICK x \in {0, 1} : IsPrefix(Append(p, x), q)
      BY <1>1, <3>1, PathBranches
    <3>3. q \in C[Append(p, x)]
      BY <1>2, <2>1, <3>1, <3>2
    <3> QED
      BY <3>2, <3>3
  <2>3. ASSUME NEW x \in {0, 1}, NEW q \in C[Append(p, x)] PROVE q \in C[p]
    <3>1. /\ q \in N /\ IsPrefix(Append(p, x), q) /\ ~E(q)
          /\ q = Append(p, x) \/ E(Shorter(q))
      BY <1>2, <2>1, <2>3
    <3>2. IsPrefix(p, q)
      BY <1>1, <2>1, <3>1, PrefixOrder
    <3>3. E(Shorter(q))
      BY <1>7, <2>1, <3>1
    <3> QED
      BY <1>2, <3>1, <3>2, <3>3
  <2>4. C[p] = C[Append(p, 0)] \cup C[Append(p, 1)]
    BY <2>2, <2>3
  <2> QED
    BY <1>7, <2>4
<1> QED
  BY <1>5, <1>6, <1>7

\* Whatever the recursion computes covers exactly what is not excluded.
LEMMA PartsCover ==
  ASSUME NEW net \in Paths, NEW n \in Nat, NEW ips \in SUBSET Paths, \A a \in ips : Len(a) = n,
         NEW f, f = Pieces(net, n, ips, f), NEW a \in Paths, Len(a) = n, Len(net) <= n
  PROVE  (\E q \in f[net] : IsPrefix(q, a)) <=> IsPrefix(net, a) /\ a \notin ips
<1> DEFINE N == Networks(net, n)
           E(p) == Excludes(p, ips)
           Covers(p) == /\ \A q \in f[p] : q \in Paths /\ IsPrefix(p, q)
                        /\ IsPrefix(p, a) => ((\E q \in f[p] : IsPrefix(q, a)) <=> a \notin ips)
           Bad == {n - Len(p) : p \in {r \in N : ~Covers(r)}}
<1>1. \A p \in N : p \in Paths /\ Len(p) \in Nat /\ Len(p) >= Len(net) /\ Len(p) <= n
  BY PrefixOrder DEF Networks
<1>2. \A p \in N : f[p] = IF ~E(p) THEN {p}
                         ELSE IF Len(p) = n THEN {}
                         ELSE f[Append(p, 0)] \cup f[Append(p, 1)]
  BY DEF Pieces
<1>3. ASSUME NEW p \in N, \A r \in N : n - Len(r) < n - Len(p) => Covers(r) PROVE Covers(p)
  <2>1. CASE ~E(p)
    <3>1. f[p] = {p} /\ p \in Paths /\ IsPrefix(p, p)
      BY <1>1, <1>2, <2>1, PrefixOrder
    <3>2. IsPrefix(p, a) => a \notin ips
      BY <2>1 DEF Excludes
    <3> QED
      BY <3>1, <3>2
  <2>2. CASE E(p) /\ Len(p) = n
    <3>1. f[p] = {}
      BY <1>2, <2>2
    <3>2. \A b \in Paths : Len(b) = n /\ IsPrefix(p, b) => b = p
      BY <1>1, <2>2, PrefixOrder
    <3>3. p \in ips
      BY <2>2, <3>2 DEF Excludes
    <3> QED
      BY <3>1, <3>2, <3>3
  <2>3. CASE E(p) /\ Len(p) # n
    <3>1. f[p] = f[Append(p, 0)] \cup f[Append(p, 1)]
      BY <1>2, <2>3
    <3>2. \A x \in {0, 1} : /\ Append(p, x) \in N /\ Append(p, x) \in Paths
                            /\ IsPrefix(p, Append(p, x)) /\ n - Len(Append(p, x)) < n - Len(p)
      <4> SUFFICES ASSUME NEW x \in {0, 1}
                   PROVE  /\ Append(p, x) \in N /\ Append(p, x) \in Paths
                          /\ IsPrefix(p, Append(p, x)) /\ n - Len(Append(p, x)) < n - Len(p)
        OBVIOUS
      <4>1. Append(p, x) \in Paths /\ Len(Append(p, x)) = Len(p) + 1 /\ Len(net) \in Nat
        BY <1>1, LongerPath, PrefixOrder
      <4>2. Append(p, x) \in N
        BY <1>1, <2>3, <4>1 DEF Networks
      <4> QED
        BY <1>1, <4>1, <4>2, PathGrows
    <3>3. \A x \in {0, 1} : Covers(Append(p, x))
      BY <1>3, <3>2
    <3>4. \A q \in f[p] : q \in Paths /\ IsPrefix(p, q)
      BY <1>1, <3>1, <3>2, <3>3, PrefixOrder
    <3>5. ASSUME IsPrefix(p, a), a \notin ips PROVE \E q \in f[p] : IsPrefix(q, a)
      <4>1. PICK x \in {0, 1} : IsPrefix(Append(p, x), a)
        BY <1>1, <2>3, <3>5, PathBranches
      <4> QED
        BY <3>1, <3>3, <3>5, <4>1
    <3>6. ASSUME NEW q \in f[p], IsPrefix(q, a) PROVE a \notin ips
      <4>1. PICK x \in {0, 1} : q \in f[Append(p, x)]
        BY <3>1, <3>6
      <4>2. IsPrefix(Append(p, x), a)
        BY <3>2, <3>3, <3>6, <4>1, PrefixOrder
      <4> QED
        BY <3>3, <3>6, <4>1, <4>2
    <3> QED
      BY <3>4, <3>5, <3>6
  <2> QED
    BY <2>1, <2>2, <2>3
<1>4. Bad \in SUBSET Nat
  BY <1>1
<1>5. Bad = {}
  <2> SUFFICES ASSUME Bad # {} PROVE FALSE
    OBVIOUS
  <2>1. PICK m \in Bad : \A k \in Bad : m <= k
    <3> HIDE DEF Bad
    <3> QED
      BY <1>4, LeastNumber
  <2>2. PICK p \in N : ~Covers(p) /\ m = n - Len(p)
    OBVIOUS
  <2>3. \A r \in N : n - Len(r) < n - Len(p) => Covers(r)
    <3> SUFFICES ASSUME NEW r \in N, n - Len(r) < n - Len(p), ~Covers(r) PROVE FALSE
      OBVIOUS
    <3>1. n - Len(r) \in Bad
      OBVIOUS
    <3>2. m <= n - Len(r) /\ m = n - Len(p) /\ Len(r) \in Nat /\ Len(p) \in Nat
      BY <1>1, <2>1, <2>2, <3>1
    <3> QED
      BY <3>2
  <2> QED
    BY <1>3, <2>2, <2>3
<1>6. net \in N
  BY PrefixOrder DEF Networks
<1>7. Covers(net)
  BY <1>5, <1>6
<1> QED
  BY <1>7, PrefixOrder

\* subtract (server_guard.rs) leaves what it should, and nothing else.
LEMMA SubtractCovers ==
  ASSUME NEW net \in Paths, \A b \in Addresses : Len(net) <= Len(b),
         NEW ips \in SUBSET Addresses, NEW a \in Addresses
  PROVE  (\E q \in Subtract(net, ips) : IsPrefix(q, a)) <=> IsPrefix(net, a) /\ a \notin ips
<1> DEFINE n == Len(CHOOSE b \in Addresses : TRUE)
           f == CHOOSE g : g = Pieces(net, n, ips, g)
<1>1. /\ \A b \in Addresses : b \in Paths /\ Len(b) = n
      /\ n \in Nat /\ Len(net) <= n /\ Len(net) \in Nat
  BY NetworkAssumption, PrefixOrder DEF Paths
<1>2. Networks(net, n) = UNION {[1..m -> {0, 1}] : m \in Len(net)..n}
  <2> HIDE DEF n
  <2>1. ASSUME NEW p \in Networks(net, n) PROVE \E m \in Len(net)..n : p \in [1..m -> {0, 1}]
    BY <2>1, LenProperties DEF Networks, Paths
  <2>2. ASSUME NEW m \in Len(net)..n, NEW p \in [1..m -> {0, 1}] PROVE p \in Networks(net, n)
    <3>1. m \in Nat
      BY <1>1
    <3>2. p \in Seq({0, 1}) /\ Len(p) = m
      BY <3>1
    <3> QED
      BY <3>2 DEF Networks, Paths
  <2> QED
    BY <2>1, <2>2
<1>3. Subtract(net, ips) = f[net]
  BY <1>2 DEF Subtract, Pieces, Excludes
<1>4. f = Pieces(net, n, ips, f)
  <2> HIDE DEF n
  <2>1. Carved(net, n, ips) = Pieces(net, n, ips, Carved(net, n, ips))
    BY <1>1, CarvedIsSolution
  <2> QED
    BY <2>1
<1> HIDE DEF f, n
<1>5. (\E q \in f[net] : IsPrefix(q, a)) <=> IsPrefix(net, a) /\ a \notin ips
  BY <1>1, <1>4, PartsCover
<1> QED
  BY <1>3, <1>5

-----------------------------------------------------------------------------
(* RuleRoutes: the consumers.                                                 *)

\* What the inductive invariant says of the entries.
AddressesFit ==
  /\ lastSeen \in [Addresses -> Nat] /\ dialing \subseteq Addresses /\ everSeen \subseteq Addresses
  /\ Current \subseteq everSeen
Bound(a) == Binding(Address(a)) # {}
\* The routes lead to what is bound, less what was carved out for the addresses in C.
RoutesAre(C) == \A a \in Addresses :
  Routed(a) <=> IsPrefix(NatReturn, a) \/ (Bound(a) /\ a \notin C)
LinesFit == ~stale => LinesOf(kernelRules)
RoutesFit == ~stale /\ ~syncOwed =>
  \E C \in SUBSET everSeen : RoutesAre(C) /\ \A a \in Current : Bound(a) => a \in C
RulesInv == RowsFit /\ AddressesFit /\ LinesFit /\ RoutesFit

\* A computed set of routes is one.
LEMMA RouteSetFits ==
  ASSUME RowsFit, AddressesFit, NEW R, R = RouteSet, NEW a \in Addresses
  PROVE  (\E n \in R : IsPrefix(n, a)) <=> IsPrefix(NatReturn, a) \/ (Bound(a) /\ a \notin Current)
<1> DEFINE Nets == {r \in EffectiveRules : r.kind = "ip"}
<1>1. Bound(a) <=> \E r \in Nets : IsPrefix(r.path, a)
  BY BindingIsEffective DEF Bound, Matches, Address
<1>2. \A r \in Nets : r.path \in Paths /\ \A b \in Addresses : Len(r.path) <= Len(b)
  BY RowsAreFinite, NetworkAssumption DEF RowsFit, Paths
<1>3. Current \in SUBSET Addresses
  BY DEF Current
<1>4. \A r \in Nets : (\E q \in Subtract(r.path, Current) : IsPrefix(q, a)) <=> IsPrefix(r.path, a) /\ a \notin Current
  BY <1>2, <1>3, SubtractCovers
<1>5. \A n : n \in R <=> n = NatReturn \/ \E r \in Nets : n \in Subtract(r.path, Current)
  BY DEF RouteSet
<1> QED
  BY <1>1, <1>4, <1>5

\* The tables have not changed for the consumers.
LEMMA InputsKeep ==
  ASSUME UNCHANGED ruleInputs
  PROVE  /\ RowsFit => RowsFit'
         /\ \A lines : LinesOf(lines) => LinesOf(lines)'
         /\ \A a : Bound(a)' <=> Bound(a)
         /\ EffectiveRules' = EffectiveRules
<1> USE DEF ruleInputs
<1>1. RowsFit => RowsFit'
  BY DEF RowsFit
<1>2. EffectiveRules' = EffectiveRules
  BY DEF EffectiveRules, Folded
<1>3. \A r : RuleLine(r)' = RuleLine(r)
  BY DEF RuleLine, Refusing
<1>4. \A lines : LinesOf(lines) => LinesOf(lines)'
  BY <1>2, <1>3 DEF LinesOf, Enumerates
<1>5. \A a : Bound(a)' <=> Bound(a)
  BY <1>2, BindingIsEffective DEF Bound, Binding, Serving, Folded
<1> QED
  BY <1>1, <1>2, <1>4, <1>5

\* A lock on a rule is nothing to the consumers.
LEMMA LockKeeps ==
  ASSUME RowsFit, NEW r0 \in rules, rules' = (rules \ {r0}) \cup {[r0 EXCEPT !.locked = ~@]},
         UNCHANGED <<bound, channel, lostOnes, routingOff>>
  PROVE  /\ RowsFit'
         /\ \A lines : LinesOf(lines) => LinesOf(lines)'
         /\ \A a : Bound(a)' <=> Bound(a)
<1> DEFINE r1 == [r0 EXCEPT !.locked = ~@]
           T == [r \in rules |-> IF r = r0 THEN r1 ELSE r]
<1>1. /\ r1 \in Rows /\ r1.id = r0.id /\ r1.ch = r0.ch /\ r1.kind = r0.kind /\ r1.path = r0.path
      /\ r1.on = r0.on
  <2>1. r0 \in Rows
    BY DEF RowsFit
  <2>2. r0.locked \in BOOLEAN /\ r0 = [id |-> r0.id, ch |-> r0.ch, kind |-> r0.kind, path |-> r0.path,
                                     on |-> r0.on, locked |-> r0.locked]
    BY <2>1 DEF Rows
  <2>3. r1 = [id |-> r0.id, ch |-> r0.ch, kind |-> r0.kind, path |-> r0.path,
              on |-> r0.on, locked |-> ~r0.locked]
    BY <2>1 DEF Rows
  <2> HIDE DEF r1
  <2> QED
    BY <2>1, <2>2, <2>3 DEF Rows
<1>2. \A r \in rules : /\ T[r] \in rules' /\ T[r].id = r.id /\ T[r].ch = r.ch /\ T[r].kind = r.kind
                       /\ T[r].path = r.path /\ T[r].on = r.on /\ T[r] \in Rows
  BY <1>1 DEF RowsFit
<1>3. \A t \in rules' : \E r \in rules : t = T[r]
  OBVIOUS
<1> HIDE DEF T, r1
<1>4. RowsFit'
  BY <1>2, <1>3 DEF RowsFit
<1>5. \A r \in rules : T[r] \in EffectiveRules' <=> r \in EffectiveRules
  BY <1>2 DEF EffectiveRules, Folded
<1>6. \A t \in EffectiveRules' : \E r \in EffectiveRules : t = T[r]
  BY <1>3, <1>5 DEF EffectiveRules
<1>7. \A r, s \in rules : ComesFirst(T[r], T[s]) <=> ComesFirst(r, s)
  BY <1>2 DEF ComesFirst
<1>8. \A r \in rules : \A u : u = T[r] => RuleLine(u)' = RuleLine(r)
  BY <1>2 DEF RuleLine, Refusing
<1>9. ASSUME NEW lines, LinesOf(lines) PROVE LinesOf(lines)'
  <2>1. PICK n, s : /\ n \in Nat /\ Enumerates(s, n)
                    /\ DOMAIN lines = 1..n + 1 /\ Len(lines) = n + 1
                    /\ \A i \in 1..n : lines[i] = RuleLine(s[i])
                    /\ lines[n + 1] = LastLine
    BY <1>9 DEF LinesOf
  <2> PICK t : t = [i \in 1..n |-> T[s[i]]]
    OBVIOUS
  <2>2. \A i \in 1..n : s[i] \in EffectiveRules /\ s[i] \in rules
    BY <2>1, RowsAreFinite DEF Enumerates
  <2>3. t \in [1..n -> EffectiveRules']
    BY <1>5, <2>2
  <2>4. \A r \in EffectiveRules' : \E i \in 1..n : t[i] = r
    BY <1>6, <2>1 DEF Enumerates
  <2>5. \A i, j \in 1..n : i < j => ComesFirst(t[i], t[j])
    BY <1>7, <2>1, <2>2 DEF Enumerates
  <2>6. Enumerates(t, n)'
    <3>1. \A i, j \in 1..n : i < j => ComesFirst(t[i], t[j])'
      BY <2>5 DEF ComesFirst
    <3> QED
      BY <2>3, <2>4, <3>1 DEF Enumerates
  <2>7. \A i \in 1..n : lines[i] = RuleLine(t[i])'
    <3> SUFFICES ASSUME NEW i \in 1..n PROVE RuleLine(t[i])' = lines[i]
      OBVIOUS
    <3>1. PICK u : u = t[i]
      OBVIOUS
    <3>2. u = T[s[i]]
      BY <3>1
    <3> QED
      BY <1>8, <2>1, <2>2, <3>1, <3>2
  <2>8. LastLine' = LastLine
    BY DEF LastLine
  <2> QED
    BY <2>1, <2>6, <2>7, <2>8 DEF LinesOf
<1>10. ASSUME NEW a PROVE Bound(a)' <=> Bound(a)
  <2>1. Bound(a) <=> \E r \in EffectiveRules : Matches(r, Address(a))
    BY BindingIsEffective DEF Bound
  <2>2. Bound(a)' <=> \E r \in EffectiveRules' : Matches(r, Address(a))
    BY DEF Bound, Binding, EffectiveRules, Serving, Folded
  <2>3. \A r \in rules : Matches(T[r], Address(a)) <=> Matches(r, Address(a))
    BY <1>2 DEF Matches
  <2> QED
    BY <1>5, <1>6, <2>1, <2>2, <2>3, RowsAreFinite
<1> QED
  BY <1>4, <1>9, <1>10

\* Rows that keep their number, channel and pattern are still rows.
LEMMA RowsKeep ==
  ASSUME RowsFit, UNCHANGED bound, NEW T,
         \A t \in rules' : \E r \in rules : t = T[r],
         \A r \in rules : /\ T[r] \in Rows /\ T[r].id = r.id
                          /\ T[r].kind = r.kind /\ T[r].path = r.path
  PROVE  RowsFit'
<1>1. rules' \subseteq Rows
  BY DEF RowsFit
<1>2. \A t \in rules' : t.id \in 1..bound /\ \E p \in Patterns : p.kind = t.kind /\ p.path = t.path
  BY DEF RowsFit
<1>3. \A t, u \in rules' : t.id = u.id => t = u
  BY DEF RowsFit
<1> QED
  BY <1>1, <1>2, <1>3 DEF RowsFit, Rows

\* Every change to the tables leaves rows.
LEMMA RowsChange ==
  ASSUME RowsFit, RuleNext
  PROVE  RowsFit'
<1>1. ASSUME NEW c \in RuleChannels, NEW batch \in Batches, AddRules(c, batch) PROVE RowsFit'
  <2> DEFINE planned == Planned(c, batch)
  <2>1. planned \subseteq Patterns /\ IsFiniteSet(planned)
    <3>1. PICK p \in Patterns, q \in Patterns : batch = {p, q}
      BY DEF Batches
    <3>2. IsFiniteSet({p} \cup {q})
      BY FS_Singleton, FS_AddElement
    <3>3. planned \in SUBSET ({p} \cup {q})
      BY <3>1 DEF Planned
    <3>4. IsFiniteSet(planned)
      BY <3>2, <3>3, FS_Subset
    <3> QED
      BY <3>3, <3>4
  <2> DEFINE k == Cardinality(planned)
  <2>2. k \in Nat
    BY <2>1, FS_CardinalityType
  <2>3. PICK n \in 0..k, order \in SetToSeqs(planned) :
          bound' = bound + n /\ rules' = rules \cup {NewRule(c, order[i], bound + i) : i \in 1..n}
    BY <1>1 DEF AddRules
  <2>4. \A i \in 1..k : order[i] \in Patterns
    BY <2>1 DEF SetToSeqs
  <2> HIDE DEF planned, k
  <2>5. n \in Nat /\ bound' \in Nat /\ bound \in Nat
    BY <2>2, <2>3 DEF RowsFit
  <2>6. ASSUME NEW i \in 1..n
        PROVE  LET r == NewRule(c, order[i], bound + i)
               IN  /\ r \in Rows /\ r.id = bound + i
                   /\ \E p \in Patterns : p.kind = r.kind /\ p.path = r.path
    <3>1. order[i] \in Patterns
      BY <2>2, <2>3, <2>4
    <3>2. order[i].kind \in {"domain", "ip"}
      BY <3>1, RuleAssumption
    <3> QED
      BY <2>5, <3>1, <3>2 DEF NewRule, Rows
  <2>7. \A t \in rules' : t \in rules \/ \E i \in 1..n : t = NewRule(c, order[i], bound + i)
    BY <2>3
  <2>8. rules' \subseteq Rows
    BY <2>6, <2>7 DEF RowsFit
  <2>9. \A t \in rules' : t.id \in 1..bound' /\ \E p \in Patterns : p.kind = t.kind /\ p.path = t.path
    BY <2>3, <2>5, <2>6, <2>7 DEF RowsFit
  <2>10. \A t, u \in rules' : t.id = u.id => t = u
    <3> SUFFICES ASSUME NEW t \in rules', NEW u \in rules', t.id = u.id PROVE t = u
      OBVIOUS
    <3>1. CASE t \in rules /\ u \in rules
      BY <3>1 DEF RowsFit
    <3>2. CASE t \notin rules /\ u \notin rules
      BY <2>5, <2>6, <2>7, <3>2
    <3>3. CASE t \in rules <=> u \notin rules
      BY <2>5, <2>6, <2>7, <3>3 DEF RowsFit
    <3> QED
      BY <3>1, <3>2, <3>3
  <2> QED
    BY <2>5, <2>8, <2>9, <2>10 DEF RowsFit, Rows
<1>2. ASSUME NEW id, DelRule(id) PROVE RowsFit'
  BY <1>2 DEF DelRule, RowsFit, Rows
<1>3. ASSUME NEW id, PatchRule(id) PROVE RowsFit'
  <2>1. UNCHANGED bound
    BY <1>3 DEF PatchRule
  <2>2. PICK r0 \in rules : \/ rules' = (rules \ {r0}) \cup {[r0 EXCEPT !.on = ~@]}
                            \/ rules' = (rules \ {r0}) \cup {[r0 EXCEPT !.locked = ~@]}
    BY <1>3 DEF PatchRule
  <2>3. r0 \in Rows
    BY DEF RowsFit
  <2>4. PICK r1 : /\ rules' = (rules \ {r0}) \cup {r1}
                  /\ r1 = [r0 EXCEPT !.on = ~@] \/ r1 = [r0 EXCEPT !.locked = ~@]
    BY <2>2
  <2>5. r1 \in Rows /\ r1.id = r0.id /\ r1.kind = r0.kind /\ r1.path = r0.path
    BY <2>3, <2>4 DEF Rows
  <2> DEFINE T == [r \in rules |-> IF r = r0 THEN r1 ELSE r]
  <2>6. \A t \in rules' : \E r \in rules : t = T[r]
    BY <2>4
  <2>7. \A r \in rules : T[r] \in Rows /\ T[r].id = r.id /\ T[r].kind = r.kind /\ T[r].path = r.path
    BY <2>5 DEF RowsFit
  <2> HIDE DEF T
  <2> QED
    BY <2>1, <2>6, <2>7, RowsKeep
<1>4. ASSUME NEW ids, NEW on \in BOOLEAN, PatchRules(ids, on) PROVE RowsFit'
  <2>1. UNCHANGED bound
    BY <1>4 DEF PatchRules
  <2> DEFINE T == [r \in rules |-> IF Switchable(r, ids) THEN [r EXCEPT !.on = on] ELSE r]
  <2>2. \A t \in rules' : \E r \in rules : t = T[r]
    BY <1>4 DEF PatchRules
  <2>3. \A r \in rules : T[r] \in Rows /\ T[r].id = r.id /\ T[r].kind = r.kind /\ T[r].path = r.path
    <3> SUFFICES ASSUME NEW r \in rules
                 PROVE  T[r] \in Rows /\ T[r].id = r.id /\ T[r].kind = r.kind /\ T[r].path = r.path
      OBVIOUS
    <3>1. r \in Rows
      BY DEF RowsFit
    <3>2. LET t == [r EXCEPT !.on = on]
          IN  t \in Rows /\ t.id = r.id /\ t.kind = r.kind /\ t.path = r.path
      BY <3>1 DEF Rows
    <3> QED
      BY <3>1, <3>2
  <2> HIDE DEF T
  <2> QED
    BY <2>1, <2>2, <2>3, RowsKeep
<1>5. CASE UNCHANGED <<rules, bound>>
  BY <1>5 DEF RowsFit, Rows
<1>6. \/ \E c \in RuleChannels, batch \in Batches : AddRules(c, batch)
      \/ \E id : DelRule(id) \/ PatchRule(id)
      \/ \E ids \in SUBSET (1..bound), on \in BOOLEAN : PatchRules(ids, on)
      \/ UNCHANGED <<rules, bound>>
  <2>1. ASSUME \/ \E c \in RuleChannels : ChannelMoves(c)
               \/ \E a \in Addresses : Dials(a)
               \/ Rebuild \/ TunSync \/ AddressesAge \/ Observe \/ WatchdogGuard
               \/ \E i \in DOMAIN guardTasks : GuardReads(i) \/ GuardScript(i)
        PROVE  UNCHANGED <<rules, bound>>
    BY <2>1 DEF ChannelMoves, Dials, Rebuild, TunSync, AddressesAge, Observe, WatchdogGuard,
       GuardReads, GuardScript, ruleInputs
  <2> QED
    BY <2>1 DEF RuleNext
<1> QED
  BY <1>1, <1>2, <1>3, <1>4, <1>5, <1>6

\* Every step keeps what the consumers hold in line with the tables.
LEMMA RulesStep ==
  ASSUME RulesInv, [RuleNext]_ruleVars
  PROVE  RulesInv'
<1> USE DEF RulesInv
<1>1. PICK lines : lines = kernelRules
  OBVIOUS
<1>2. ASSUME UNCHANGED <<lastSeen, dialing, everSeen>> PROVE AddressesFit'
  BY <1>2 DEF AddressesFit, Current
<1>3. ASSUME stale' = TRUE, RuleNext, UNCHANGED tunVars PROVE RulesInv'
  BY <1>2, <1>3, RowsChange DEF LinesFit, RoutesFit, tunVars
<1>4. ASSUME RowsFit', LinesOf(lines) => LinesOf(lines)', \A a : Bound(a)' <=> Bound(a),
             UNCHANGED <<kernelRules, stale, tunVars>>
      PROVE  RulesInv'
  <2>1. LinesFit'
    BY <1>1, <1>4 DEF LinesFit
  <2>2. \A C : RoutesAre(C) => RoutesAre(C)'
    BY <1>4 DEF RoutesAre, Routed, tunVars
  <2>3. RoutesFit'
    BY <1>4, <2>2 DEF RoutesFit, tunVars, Current
  <2> QED
    BY <1>2, <1>4, <2>1, <2>3 DEF tunVars
<1>5. CASE Rebuild
  <2>1. UNCHANGED ruleInputs /\ UNCHANGED <<lastSeen, dialing, everSeen>> /\ syncOwed' = TRUE
    BY <1>5 DEF Rebuild
  <2>2. LinesOf(KernelLines)
    BY LinesFollowOrder
  <2>3. PICK new : new = KernelLines
    OBVIOUS
  <2>4. LinesOf(new)'
    BY <2>1, <2>2, <2>3, InputsKeep
  <2>5. kernelRules' = new \/ (UNCHANGED kernelRules /\ stale' = stale /\ stale)
    BY <1>5, <2>3 DEF Rebuild
  <2>6. LinesFit'
    BY <2>4, <2>5 DEF LinesFit
  <2> QED
    BY <1>2, <2>1, <2>6, InputsKeep DEF RoutesFit
<1>6. CASE UNCHANGED <<ruleInputs, kernelRules, stale>>
  <2>1. RowsFit' /\ LinesFit' /\ \A a : Bound(a)' <=> Bound(a)
    <3>1. LinesOf(lines) => LinesOf(lines)'
      BY <1>6, InputsKeep
    <3>2. LinesFit'
      BY <1>1, <1>6, <3>1 DEF LinesFit
    <3> QED
      BY <1>6, <3>2, InputsKeep
  <2>2. CASE UNCHANGED tunVars
    BY <1>4, <1>6, <2>1, <2>2, InputsKeep
  <2>3. CASE TunSync
    <3>1. UNCHANGED <<lastSeen, everSeen, dialing>> /\ tunRoutes' = RouteSet
      BY <2>3 DEF TunSync
    <3>2. PICK C : C = Current
      OBVIOUS
    <3>3. RoutesAre(C)'
      BY <2>1, <3>1, <3>2, RouteSetFits DEF RoutesAre, Routed
    <3>4. C \in SUBSET everSeen /\ C = Current'
      BY <3>1, <3>2 DEF AddressesFit, Current
    <3>5. RoutesFit'
      BY <3>1, <3>3, <3>4 DEF RoutesFit
    <3> QED
      BY <1>2, <2>1, <3>1, <3>5
  <2>4. CASE \E a \in Addresses : Dials(a)
    <3>1. dialing' \subseteq Addresses /\ UNCHANGED <<syncOwed, tunRoutes, lastSeen, everSeen>>
      BY <2>4 DEF Dials, AddressesFit
    <3>2. AddressesFit' /\ Current' = Current
      BY <3>1 DEF AddressesFit, Current
    <3>3. \A C : RoutesAre(C) => RoutesAre(C)'
      BY <2>1, <3>1 DEF RoutesAre, Routed
    <3>4. RoutesFit'
      BY <1>6, <2>1, <3>1, <3>2, <3>3 DEF RoutesFit
    <3> QED
      BY <2>1, <3>2, <3>4
  <2>5. CASE AddressesAge \/ Observe
    <3>1. UNCHANGED <<tunRoutes, dialing>>
      BY <2>5 DEF AddressesAge, Observe
    <3>2. \A C : RoutesAre(C) => RoutesAre(C)'
      BY <2>1, <3>1 DEF RoutesAre, Routed
    <3>3. AddressesFit' /\ everSeen \subseteq everSeen'
      <4>1. CASE AddressesAge
        BY <4>1 DEF AddressesAge, AddressesFit, Current
      <4>2. CASE Observe
        BY <4>2, RuleAssumption DEF Observe, AddressesFit, Current
      <4> QED
        BY <2>5, <4>1, <4>2
    <3>4. ~syncOwed' => ~syncOwed /\ \A a \in Current' : Bound(a) => a \in Current
      <4>1. CASE AddressesAge
        BY <4>1 DEF AddressesAge, AddressesFit, Current
      <4>2. CASE Observe
        <5>1. ~syncOwed' => ~syncOwed /\ InsideRules(Current) = InsideRules(Current')
          BY <4>2 DEF Observe, SetChanged, Current
        <5>2. \A a, S : a \in InsideRules(S) <=> a \in S /\ Bound(a)
          BY BindingIsEffective DEF InsideRules, Bound
        <5> QED
          BY <5>1, <5>2
      <4> QED
        BY <2>5, <4>1, <4>2
    <3>5. RoutesFit'
      BY <1>6, <2>1, <3>2, <3>3, <3>4 DEF RoutesFit
    <3> QED
      BY <2>1, <3>3, <3>5
  <2>6. \/ UNCHANGED tunVars \/ TunSync \/ (\E a \in Addresses : Dials(a)) \/ AddressesAge \/ Observe
        \/ Rebuild
    BY DEF RuleNext, ruleVars, tunVars, AddRules, DelRule, PatchRule, PatchRules, ChannelMoves,
       WatchdogGuard, GuardReads, GuardScript
  <2> QED
    BY <1>5, <2>2, <2>3, <2>4, <2>5, <2>6
<1>7. CASE \E id \in 1..bound : PatchRule(id) /\ ~(stale' = TRUE)
  <2>1. PICK r0 \in rules : /\ rules' = (rules \ {r0}) \cup {[r0 EXCEPT !.locked = ~@]}
                            /\ UNCHANGED <<bound, channel, lostOnes, routingOff, kernelRules, stale, tunVars>>
    BY <1>7 DEF PatchRule
  <2> QED
    BY <1>4, <2>1, LockKeeps
<1>8. \/ stale' = TRUE /\ RuleNext /\ UNCHANGED tunVars
      \/ Rebuild
      \/ UNCHANGED <<ruleInputs, kernelRules, stale>>
      \/ \E id \in 1..bound : PatchRule(id) /\ ~(stale' = TRUE)
  BY DEF RuleNext, ruleVars, ruleInputs, AddRules, DelRule, PatchRule, PatchRules, ChannelMoves, Dials,
     TunSync, AddressesAge, Observe, WatchdogGuard, GuardReads, GuardScript
<1> QED
  BY <1>3, <1>5, <1>6, <1>7, <1>8

\* The first state is in line.
LEMMA RulesStart ==
  ASSUME RuleInit
  PROVE  RulesInv
<1>1. RowsFit /\ AddressesFit
  BY DEF RuleInit, RowsFit, AddressesFit, Current
<1>2. LinesFit
  BY <1>1, LinesFollowOrder DEF LinesFit, RuleInit
<1>3. \A a : ~Bound(a)
  BY DEF RuleInit, Bound, Binding
<1>4. RoutesAre({})
  BY <1>3 DEF RuleInit, RoutesAre, Routed
<1>5. RoutesFit
  BY <1>3, <1>4 DEF RuleInit, RoutesFit
<1> QED
  BY <1>1, <1>2, <1>5 DEF RulesInv

\* What the invariant is for.
LEMMA RulesAgree ==
  ASSUME RulesInv
  PROVE  MostSpecificDecides /\ EntriesAgree
<1>1. ASSUME ~stale, NEW d
      PROVE  /\ FirstMatch(kernelRules, d) =
                  IF Binding(d) # {} THEN RuleVerdict(d)
                  ELSE IF Matches(Address(Reserved), d) THEN "REJECT" ELSE "DIRECT"
             /\ Binding(d) # {} => TesterSays(d) = FirstMatch(kernelRules, d)
             /\ PacProxies(d) <=> \E i \in 1..(Len(kernelRules) - 1) : Matches(kernelRules[i], d)
  <2>1. PICK lines : lines = kernelRules
    OBVIOUS
  <2> QED
    BY <1>1, <2>1, LinesDecide DEF RulesInv, LinesFit
<1>2. MostSpecificDecides
  BY <1>1 DEF MostSpecificDecides, RuleVerdict, Best
<1>3. ASSUME ~stale, ~syncOwed, NEW a \in Addresses
      PROVE  /\ Routed(a) => Binding(Address(a)) # {} \/ IsPrefix(NatReturn, a)
             /\ a \in Current /\ ~IsPrefix(NatReturn, a) => ~Routed(a)
             /\ Binding(Address(a)) # {} /\ ~Routed(a) => a \in everSeen
  BY <1>3 DEF RulesInv, RoutesFit, RoutesAre, Bound
<1>4. EntriesAgree
  BY <1>1, <1>3 DEF EntriesAgree
<1> QED
  BY <1>2, <1>4

\* Kernel, tester, PAC file and routes follow one rule set: the most specific
\* rule decides, the entries lead where the kernel does, no address of the VM's
\* own connections is routed back, and the guard is the newest (manager.rs
\* ordered_rules, entry.rs route_sets_for, server_guard.rs observe and carve,
\* health.rs GUARD_APPLY_LOCK).
THEOREM RulesAreFollowed == RuleSpec => []RulesFollowed
<1>1. RuleSpec => []RulesInv
  <2>1. RuleInit => RulesInv
    BY RulesStart
  <2>2. RulesInv /\ [RuleNext]_ruleVars => RulesInv'
    BY RulesStep
  <2> QED
    BY <2>1, <2>2, PTL DEF RuleSpec
<1>2. RulesInv /\ GuardIsNewest => RulesFollowed
  BY RulesAgree DEF RulesFollowed
<1> QED
  BY <1>1, <1>2, GuardIsTheNewest, PTL

-----------------------------------------------------------------------------
(* UpgradeSwitch.  None of its properties is inductive: each relies on what  *)
(* the command in progress has already seen, which no other process can      *)
(* change while the lease is held.                                           *)

\* The lease: nobody works in the directory while a command has it.
OneOwner == app \in {"leased", "running"} => command = Idle

\* A running application was allowed in, and nothing has moved since.
DataSettled == app = "running" => BootAllowed

\* How far a command may be, given the journal and the directories.
StepAgrees ==
  /\ command.step # "idle" => journal # "none"
  /\ command.step = "exchange" =>
       /\ command.name \in {"activate", "resume"}
       /\ journal = "prepared" /\ ~swapped
  /\ command.step \in {"unseal", "confirm"} => swapped /\ journal \in {"prepared", "active"}
  /\ command.step = "confirm" => ~sealed
  /\ command.step = "undo" => journal = "rolling_back" /\ swapped
  /\ command.step = "undone" => journal = "rolling_back" /\ ~swapped

\* What is in place, given the journal.
JournalAgrees ==
  /\ journal = "none" => ~swapped
  /\ journal = "active" => swapped /\ ~sealed
  /\ journal = "rolled_back" => ~swapped

\* The target is worked in, while it is not the copy, only where no move to the
\* copy can follow without a new activation.
WorkAgrees ==
  /\ hidden => journal \notin {"prepared", "active"}
  /\ command.step = "exchange" => ~edited

SwitchInv ==
  SwitchTypeOK /\ OneOwner /\ DataSettled /\ StepAgrees /\ JournalAgrees /\ WorkAgrees

\* The first run of the program satisfies every part.
LEMMA SwitchInvInit == SwitchInit => SwitchInv
<1> SUFFICES ASSUME SwitchInit PROVE SwitchInv
  OBVIOUS
<1>1. SwitchTypeOK
  <2>1. edits \in 0 .. MaxEdits
    BY MaxEditsAssumption DEF SwitchInit
  <2>2. command \in [name : Commands, step : Steps]
    BY DEF SwitchInit, Idle, Commands, Steps
  <2> QED
    BY <2>1, <2>2 DEF SwitchInit, SwitchTypeOK, Journals
<1>2. OneOwner /\ DataSettled /\ StepAgrees /\ JournalAgrees /\ WorkAgrees
  BY DEF SwitchInit, OneOwner, DataSettled, StepAgrees, JournalAgrees, WorkAgrees, Idle
<1> QED
  BY <1>1, <1>2 DEF SwitchInv

\* Every step of the application, and of the user, preserves the invariant.
LEMMA UserStep ==
  ASSUME SwitchInv,
         AppChecks \/ AppLeases \/ AppBoots \/ AppEdits \/ AppEnds
           \/ OriginalChanges \/ Prepare \/ PrepareEnds
  PROVE  SwitchInv'
<1> USE DEF SwitchInv
<1> SUFFICES ASSUME TRUE PROVE SwitchInv'
  OBVIOUS
<1>1. UNCHANGED <<disk, command>>
  BY DEF AppChecks, AppLeases, AppBoots, AppEdits, AppEnds, OriginalChanges, Prepare, PrepareEnds
<1>2. SwitchTypeOK'
  <2>1. edits' \in 0 .. MaxEdits
    BY MaxEditsAssumption DEF SwitchTypeOK, AppChecks, AppLeases, AppBoots, AppEdits, AppEnds,
      OriginalChanges, Prepare, PrepareEnds
  <2>2. /\ app' \in {"off", "checked", "leased", "running"}
        /\ copy' \in {"none", "drafting", "reviewed"}
    BY DEF SwitchTypeOK, AppChecks, AppLeases, AppBoots, AppEdits, AppEnds, OriginalChanges,
      Prepare, PrepareEnds
  <2>3. sameDir' \in BOOLEAN /\ edited' \in BOOLEAN /\ hidden' \in BOOLEAN
    BY Zenon DEF SwitchTypeOK, AppChecks, AppLeases, AppBoots, AppEdits, AppEnds,
      OriginalChanges, Prepare, PrepareEnds
  <2> QED
    BY <1>1, <2>1, <2>2, <2>3 DEF SwitchTypeOK, disk
<1>3. OneOwner'
  BY <1>1 DEF OneOwner, Leased, disk, AppChecks, AppLeases, AppBoots, AppEdits, AppEnds,
    OriginalChanges, Prepare, PrepareEnds
<1>4. DataSettled'
  BY <1>1 DEF DataSettled, BootAllowed, JournalAllowsBoot, RecheckAllows, disk, AppChecks, AppLeases,
    AppBoots, AppEdits, AppEnds, OriginalChanges, Prepare, PrepareEnds
<1>5. StepAgrees' /\ JournalAgrees'
  BY <1>1 DEF StepAgrees, JournalAgrees, disk
<1>6. WorkAgrees'
  <2>1. (hidden => journal \notin {"prepared", "active"})'
    BY <1>1 DEF WorkAgrees, DataSettled, BootAllowed, JournalAllowsBoot, disk, AppChecks, AppLeases,
      AppBoots, AppEdits, AppEnds, OriginalChanges, Prepare, PrepareEnds
  <2>2. (command.step = "exchange" => ~edited)'
    BY <1>1 DEF WorkAgrees, OneOwner, StepAgrees, Idle, disk, AppChecks, AppLeases, AppBoots,
      AppEdits, AppEnds, OriginalChanges, Prepare, PrepareEnds
  <2> QED
    BY <2>1, <2>2 DEF WorkAgrees
<1> QED
  BY <1>2, <1>3, <1>4, <1>5, <1>6

\* So does every step of a command, whatever it finds.
LEMMA CommandStep ==
  ASSUME SwitchInv,
         Activate \/ (\E c \in {"resume", "rollback", "finish"} : Begin(c))
           \/ ActivationInspects \/ Exchanges \/ Unseals \/ Confirms
           \/ RestoreInspects \/ ExchangesBack \/ RestoreConfirms
           \/ FinishInspects \/ Archives \/ Forgets \/ Killed
  PROVE  SwitchInv'
<1> USE DEF SwitchInv
<1> DEFINE Step == Activate \/ (\E c \in {"resume", "rollback", "finish"} : Begin(c))
                     \/ ActivationInspects \/ Exchanges \/ Unseals \/ Confirms
                     \/ RestoreInspects \/ ExchangesBack \/ RestoreConfirms
                     \/ FinishInspects \/ Archives \/ Forgets \/ Killed
<1>1. app' = app /\ (app' \in {"leased", "running"} => ~Step)
  <2>1. app' = app
    BY DEF Activate, Begin, ActivationInspects, Exchanges, Unseals, Confirms, RestoreInspects,
      ExchangesBack, RestoreConfirms, FinishInspects, Archives, Forgets, Killed, user
  <2>2. Step => app \notin {"leased", "running"}
    BY DEF OneOwner, Leased, Idle, Activate, Begin, ActivationInspects, Exchanges, Unseals,
      Confirms, RestoreInspects, ExchangesBack, RestoreConfirms, FinishInspects, Archives,
      Forgets, Killed
  <2> QED
    BY <2>1, <2>2
<1>2. OneOwner' /\ DataSettled'
  BY <1>1 DEF OneOwner, DataSettled
<1>3. CASE Activate
  BY <1>2, <1>3 DEF Activate, SwitchTypeOK, Journals, Commands, Steps, StepAgrees, JournalAgrees,
    WorkAgrees, CopyIsFresh
<1>4. ASSUME NEW c \in {"resume", "rollback", "finish"}, Begin(c) PROVE SwitchInv'
  BY <1>2, <1>4 DEF Begin, SwitchTypeOK, Commands, Steps, StepAgrees, JournalAgrees, WorkAgrees,
    disk, user
<1>5. CASE ActivationInspects
  BY <1>2, <1>5 DEF ActivationInspects, Restores, Phase, CopyIsFresh, To, Ends, Idle, SwitchTypeOK,
    Journals, Commands, Steps, StepAgrees, JournalAgrees, WorkAgrees, disk, user
<1>6. CASE Exchanges
  BY <1>2, <1>6 DEF Exchanges, To, SwitchTypeOK, Journals, Commands, Steps, StepAgrees,
    JournalAgrees, WorkAgrees, user
<1>7. CASE Unseals
  BY <1>2, <1>7 DEF Unseals, To, SwitchTypeOK, Journals, Commands, Steps, StepAgrees,
    JournalAgrees, WorkAgrees, user
<1>8. CASE Confirms
  BY <1>2, <1>8 DEF Confirms, Ends, Idle, SwitchTypeOK, Journals, Commands, Steps, StepAgrees,
    JournalAgrees, WorkAgrees, user
<1>9. CASE RestoreInspects
  BY <1>2, <1>9 DEF RestoreInspects, RecordsIntent, Restores, Phase, To, Ends, Idle, SwitchTypeOK,
    Journals, Commands, Steps, StepAgrees, JournalAgrees, WorkAgrees, user
<1>10. CASE ExchangesBack
  BY ZenonT(40), <1>2, <1>10 DEF ExchangesBack, To, SwitchTypeOK, Journals, Commands, Steps, StepAgrees,
    JournalAgrees, WorkAgrees, user
<1>11. CASE RestoreConfirms
  BY <1>2, <1>11 DEF RestoreConfirms, Ends, Idle, SwitchTypeOK, Journals, Commands, Steps,
    StepAgrees, JournalAgrees, WorkAgrees, user
<1>12. CASE FinishInspects
  BY <1>2, <1>12 DEF FinishInspects, Phase, HistoryAgrees, To, Ends, Idle, SwitchTypeOK, Journals,
    Commands, Steps, StepAgrees, JournalAgrees, WorkAgrees, disk, user
<1>13. CASE Archives
  BY <1>2, <1>13 DEF Archives, To, SwitchTypeOK, Journals, Commands, Steps, StepAgrees,
    JournalAgrees, WorkAgrees, user
<1>14. CASE Forgets
  BY <1>2, <1>14 DEF Forgets, Ends, Idle, SwitchTypeOK, Journals, Commands, Steps, StepAgrees,
    JournalAgrees, WorkAgrees
<1>15. CASE Killed
  BY <1>2, <1>15 DEF Killed, Ends, Idle, SwitchTypeOK, Journals, Commands, Steps, StepAgrees,
    JournalAgrees, WorkAgrees, disk, user
<1> QED
  BY <1>3, <1>4, <1>5, <1>6, <1>7, <1>8, <1>9, <1>10, <1>11, <1>12, <1>13, <1>14, <1>15

\* Every step of the switch keeps every part.
LEMMA SwitchInvNext == SwitchInv /\ [SwitchNext]_switchVars => SwitchInv'
<1> SUFFICES ASSUME SwitchInv, [SwitchNext]_switchVars PROVE SwitchInv'
  OBVIOUS
<1>1. CASE UNCHANGED switchVars
  BY <1>1 DEF switchVars, SwitchInv, SwitchTypeOK, OneOwner, DataSettled, BootAllowed,
    JournalAllowsBoot, StepAgrees, JournalAgrees, WorkAgrees
<1>2. CASE SwitchNext
  BY <1>2, UserStep, CommandStep DEF SwitchNext, Command, Application
<1> QED
  BY <1>1, <1>2

\* So they hold always.
LEMMA SwitchInvariant == SwitchSpec => []SwitchInv
<1> QED
  BY SwitchInvInit, SwitchInvNext, PTL DEF SwitchSpec

---------------------------------------------------------------------------
\* The records of the switch keep their form.
THEOREM SwitchTypeCorrect == SwitchSpec => []SwitchTypeOK
<1>1. SwitchInv => SwitchTypeOK
  BY DEF SwitchInv
<1> QED
  BY <1>1, SwitchInvariant, PTL

\* Wherever a command is killed, the journal and the directories still say
\* together what is left to do.
THEOREM DirectoriesAlwaysClear == SwitchSpec => []DirectoriesClear
<1>1. SwitchInv => DirectoriesClear
  BY DEF SwitchInv, JournalAgrees, DirectoriesClear, Phase, SwitchTypeOK, Journals
<1> QED
  BY <1>1, SwitchInvariant, PTL

\* The application only runs on data that no switch is about to move.
THEOREM RunsOnSettledDataAlways == SwitchSpec => []RunsOnSettledData
<1>1. SwitchInv => RunsOnSettledData
  BY DEF SwitchInv, DataSettled, BootAllowed, JournalAllowsBoot, RunsOnSettledData
<1> QED
  BY <1>1, SwitchInvariant, PTL

\* The copy moves in only while the original is what was copied and the target what
\* the activation began with.
THEOREM ExchangeAlwaysCurrent == SwitchSpec => ExchangeIsCurrent
<1>1. SwitchInv /\ [SwitchNext]_switchVars => [~swapped /\ swapped' => ~hidden /\ ~edited]_switchVars
  <2> SUFFICES ASSUME SwitchInv, SwitchNext, ~swapped, swapped' PROVE ~hidden /\ ~edited
    BY DEF switchVars
  <2>1. command.step = "exchange"
    BY DEF SwitchNext, Command, Application, Activate, Begin, ActivationInspects, Exchanges,
      Unseals, Confirms, RestoreInspects, ExchangesBack, RestoreConfirms, FinishInspects, Archives,
      Forgets, Killed, AppChecks, AppLeases, AppBoots, AppEdits, AppEnds, OriginalChanges, Prepare,
      PrepareEnds, StepAgrees, disk, SwitchInv
  <2> QED
    BY <2>1 DEF SwitchInv, WorkAgrees, StepAgrees
<1> QED
  BY <1>1, SwitchInvariant, PTL DEF SwitchSpec, ExchangeIsCurrent

\* What was rolled back is never moved in again by a retry.
THEOREM RollbackIsFinalAlways == SwitchSpec => RollbackIsFinal
<1>1. SwitchInv /\ [SwitchNext]_switchVars => [StaysRolledBack]_switchVars
  <2> SUFFICES ASSUME SwitchInv, SwitchNext, journal \in {"rolling_back", "rolled_back"}
               PROVE  /\ journal' \in {"none", "rolling_back", "rolled_back"}
                      /\ swapped' => swapped
    BY DEF StaysRolledBack
  <2>1. command.step \notin {"exchange", "unseal", "confirm"}
    BY DEF SwitchInv, StepAgrees
  <2>2. journal' \in {"none", "rolling_back", "rolled_back"}
    BY <2>1 DEF SwitchNext, Command, Application, Activate, Begin, ActivationInspects, Exchanges,
      Unseals, Confirms, RestoreInspects, RecordsIntent, ExchangesBack, RestoreConfirms,
      FinishInspects, Archives, Forgets, Killed, AppChecks, AppLeases, AppBoots, AppEdits, AppEnds,
      OriginalChanges, Prepare, PrepareEnds, disk
  <2>3. swapped' => swapped
    BY <2>1 DEF SwitchNext, Command, Application, Activate, Begin, ActivationInspects, Exchanges,
      Unseals, Confirms, RestoreInspects, RecordsIntent, ExchangesBack, RestoreConfirms,
      FinishInspects, Archives, Forgets, Killed, AppChecks, AppLeases, AppBoots, AppEdits, AppEnds,
      OriginalChanges, Prepare, PrepareEnds, disk
  <2> QED
    BY <2>2, <2>3
<1> QED
  BY <1>1, SwitchInvariant, PTL DEF SwitchSpec, RollbackIsFinal

\* Killed or not, the commands leave directories whose markers tell which side is
\* which, and the application runs only on a settled one.
THEOREM SwitchStaysSafe == SwitchSpec => []SwitchSafe
<1>1. DirectoriesClear /\ RunsOnSettledData => SwitchSafe
  BY DEF SwitchSafe
<1> QED
  BY <1>1, DirectoriesAlwaysClear, RunsOnSettledDataAlways, PTL

\* An activation takes effect only on what it began with, the original as it was
\* copied and a target nobody worked in since, and never after a rollback has begun.
THEOREM SwitchStaysCurrent == SwitchSpec => SwitchIsCurrent
BY ExchangeAlwaysCurrent, RollbackIsFinalAlways DEF SwitchIsCurrent

-----------------------------------------------------------------------------
(* The type invariants the runs check *)

\* The values of the watchdog keep their types (health.rs): its counters stay within
\* the ladder's bounds, and the container is never restarted more than twice.
THEOREM WatchdogTypesAreKept == WatchdogSpec => []WatchdogTypeOK
<1>1. WatchdogInv => WatchdogTypeOK
  BY WatchdogIsTyped DEF WatchdogInv, Agrees
<1> QED
  BY <1>1, WatchdogInvariance, PTL

\* The values of the forwards keep their types (novnc.rs, forward_owner.rs).
THEOREM ForwardTypesAreKept == ForwardSpec => []ForwardTypeOK
<1>1. ForwardInv => ForwardTypeOK
  BY DEF ForwardInv, ForwardTyped, ForwardTypeOK
<1> QED
  BY <1>1, ForwardInvariance, PTL

\* The values of the takeover keep their types (takeover.rs, system_proxy.rs): no more
\* than three observations are kept, and a failed plan ages up to its retry.
THEOREM TakeoverTypesAreKept == TakeoverSpec => []TakeoverTypeOK
<1>1. ASSUME TakeoverInv PROVE TakeoverTypeOK
  <2>1. \A i \in DOMAIN sightings : sightings[i] \in Sightings
    BY <1>1 DEF TakeoverInv, TakeoverTyped, PlanTyped
  <2> QED
    BY <1>1, <2>1 DEF TakeoverInv, TakeoverTyped, WorldTyped, PlanTyped, LockTyped, GhostTyped, TakeoverTypeOK,
       Proxies, Tuns, LastPlans, Works, Calls, Sightings
<1> QED
  BY <1>1, TakeoverInvariance, PTL

\* The ages of the addresses and the switches of the consumers.
ClocksFit ==
  /\ lastSeen \in [Addresses -> 0 .. Keep] /\ dialing \subseteq Addresses
  /\ stale \in BOOLEAN /\ syncOwed \in BOOLEAN /\ guardFailed \in BOOLEAN

LEMMA ClocksKeep ==
  ASSUME ClocksFit, [RuleNext]_ruleVars
  PROVE  ClocksFit'
<1> USE RuleAssumption DEF ClocksFit
<1>1. ASSUME NEW c \in RuleChannels, NEW batch \in Batches, AddRules(c, batch) PROVE ClocksFit'
  BY <1>1 DEF AddRules, tunVars, guardVars
<1>2. ASSUME NEW id, DelRule(id) \/ PatchRule(id) PROVE ClocksFit'
  BY <1>2 DEF DelRule, PatchRule, tunVars, guardVars
<1>3. ASSUME NEW ids, NEW on \in BOOLEAN, PatchRules(ids, on) PROVE ClocksFit'
  BY <1>3 DEF PatchRules, tunVars, guardVars
<1>4. ASSUME NEW c \in RuleChannels, ChannelMoves(c) PROVE ClocksFit'
  BY <1>4 DEF ChannelMoves, tunVars, guardVars
<1>5. ASSUME NEW d \in Addresses, Dials(d) PROVE ClocksFit'
  BY <1>5 DEF Dials, guardVars
<1>6. CASE Rebuild
  BY <1>6 DEF Rebuild
<1>7. CASE TunSync
  BY <1>7 DEF TunSync, guardVars
<1>8. CASE AddressesAge
  <2>1. lastSeen' \in [Addresses -> 0 .. Keep]
    BY <1>8 DEF AddressesAge
  <2> QED
    BY <1>8, <2>1 DEF AddressesAge, guardVars
<1>9. CASE Observe
  <2>1. lastSeen' \in [Addresses -> 0 .. Keep] /\ syncOwed' \in BOOLEAN
    BY <1>9 DEF Observe, SetChanged
  <2> QED
    BY <1>9, <2>1 DEF Observe, guardVars
<1>10. CASE WatchdogGuard \/ \E i \in DOMAIN guardTasks : GuardReads(i) \/ GuardScript(i)
  BY <1>10 DEF WatchdogGuard, GuardReads, GuardScript, tunVars
<1>11. CASE UNCHANGED ruleVars
  BY <1>11 DEF ruleVars
<1> QED
  BY <1>1, <1>2, <1>3, <1>4, <1>5, <1>6, <1>7, <1>8, <1>9, <1>10, <1>11 DEF RuleNext

\* The rules, the ages of the addresses and the switches of the consumers keep their
\* types, and no two rules have one number (rules.rs, server_guard.rs).
THEOREM RuleTypesAreKept == RuleSpec => []RuleTypeOK
<1>1. ASSUME RuleInit PROVE ClocksFit
  <2>1. 0 \in 0 .. Keep
    BY RuleAssumption
  <2>2. lastSeen \in [Addresses -> 0 .. Keep]
    BY <1>1, <2>1 DEF RuleInit
  <2> QED
    BY <1>1, <2>2 DEF RuleInit, ClocksFit
<1>2. RuleSpec => []ClocksFit
  BY <1>1, ClocksKeep, PTL DEF RuleSpec
<1>3. ASSUME RowsFit, ClocksFit PROVE RuleTypeOK
  <2>1. ASSUME NEW r \in rules
        PROVE  r \in [id : 1..bound, ch : RuleChannels, kind : {"domain", "ip"},
                      path : {p.path : p \in Patterns}, on : BOOLEAN, locked : BOOLEAN]
    <3>1. r \in Rows /\ r.id \in 1..bound /\ r.path \in {p.path : p \in Patterns}
      BY <1>3 DEF RowsFit
    <3> QED
      BY <3>1 DEF Rows
  <2> QED
    BY <1>3, <2>1 DEF RowsFit, ClocksFit, RuleTypeOK
<1>4. RuleInit => RowsFit
  BY RulesStart DEF RulesInv
<1>5. RowsFit /\ [RuleNext]_ruleVars => RowsFit'
  BY RowsChange DEF RowsFit, ruleVars
<1> QED
  BY <1>2, <1>3, <1>4, <1>5, PTL DEF RuleSpec
=============================================================================
