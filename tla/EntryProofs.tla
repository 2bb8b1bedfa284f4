---------------------------- MODULE EntryProofs ----------------------------
(***************************************************************************)
(* Proofs about the two ends of the entry: the helper's resolver files and *)
(* the application's switch, for all constants.                            *)
(*                                                                         *)
(* ResolverFiles: that every published file is in the journal on disk is   *)
(* not inductive, for a save writes the whole journal of the memory over   *)
(* the one on disk.  The invariant adds that a published file is also what *)
(* the memory says of it (Remembered), and that the domain a job works on  *)
(* holds no file of ours between its removal and its publication           *)
(* (Withdrawn).                                                            *)
(*                                                                         *)
(* TunEntry: none of the three promises is inductive.  A reconciliation is *)
(* owed over three states: a rebuild, a counted call, a task in the queue  *)
(* for the lock (RulesAreOwed).  "Switched off is down" needs that an      *)
(* acknowledgement is true as long as the lock is held and leaves no       *)
(* request behind (AnswersAreTrue), and that a failure is remembered.      *)
(* That nothing wakes an idle entry needs what the task with the lock may  *)
(* ask for, and that an entry neither parked nor switched off runs         *)
(* (IdleIsDown).                                                           *)
(***************************************************************************)
EXTENDS MCEntry, TLAPS

Ours(c) == c \notin {Free, User}

\* A published file is what both journals say.
Remembered == \A d \in Domains : Ours(file[d]) => records[d] = file[d] /\ state[d] = file[d]

\* Past the removal, the domain at hand holds no file of ours.
Withdrawn ==
  /\ job.on /\ job.step # "pick" => job.now \in Domains
  /\ job.on /\ job.step \notin {"pick", "remove"} => ~Ours(file[job.now])
  /\ job.on /\ job.step = "publish" => records = state /\ Ours(state[job.now])

ResolverInv == ResolverTypeOK /\ Remembered /\ Withdrawn

\* What the user wrote is none of the contents the helper writes.
LEMMA UserIsNobodys == User \notin Contents /\ User # Free
BY DEF User, Free, Contents

\* What this program writes into a resolver file carries its mark.
LEMMA OwnIsOurs ==
  ASSUME NEW n \in 1 .. MaxWrites, NEW port \in Ports
  PROVE  Own(n, port) \in Contents /\ Ours(Own(n, port))
BY DEF Own, Contents, Ours, Free, User

Jobs == [on : BOOLEAN, boot : BOOLEAN, want : SUBSET Domains, port : Ports,
         todo : SUBSET Domains, now : Domains \cup {"none"}, step : StepNames]

\* However a job goes on or ends, it stays a job.
LEMMA JobMoves ==
  ASSUME job \in Jobs
  PROVE  /\ \A step \in StepNames : Goes(step) => job' \in Jobs
         /\ NextDomain \/ Fails \/ job' = NoJob => job' \in Jobs
<1>1. NoJob \in Jobs
  BY DEF NoJob, Jobs, Ports, StepNames
<1>2. ASSUME NEW step \in StepNames, Goes(step) PROVE job' \in Jobs
  BY <1>2 DEF Goes, Jobs
<1>3. NextDomain => job' \in Jobs
  BY ZenonT(40) DEF NextDomain, Jobs, StepNames
<1> QED
  BY <1>1, <1>2, <1>3 DEF Fails

\* Every step keeps the types: nothing but what Contents lists is ever written.
LEMMA ResolverTypeStep ==
  ASSUME ResolverTypeOK, Withdrawn, [ResolverNext]_resolverVars
  PROVE  ResolverTypeOK'
<1> USE ResolverAssumption
<1>1. ResolverTypeOK <=> /\ job \in Jobs
                         /\ file \in [Domains -> Contents \cup {User}]
                         /\ records \in [Domains -> Contents]
                         /\ state \in [Domains -> Contents]
                         /\ nonce \in 0 .. MaxWrites /\ users \in 0 .. MaxUser
                         /\ breaks \in 0 .. MaxBreaks
  BY DEF ResolverTypeOK, Jobs
<1>2. ResolverTypeOK' <=> /\ job' \in Jobs
                          /\ file' \in [Domains -> Contents \cup {User}]
                          /\ records' \in [Domains -> Contents]
                          /\ state' \in [Domains -> Contents]
                          /\ nonce' \in 0 .. MaxWrites /\ users' \in 0 .. MaxUser
                          /\ breaks' \in 0 .. MaxBreaks
  BY DEF ResolverTypeOK, Jobs
<1>3. Free \in Contents
  BY DEF Contents
<1> USE DEF StepNames
<1>4. job' \in Jobs
  <2>1. ASSUME NEW w \in SUBSET Domains, NEW port \in Ports, Begins(w, port)
        PROVE  job' \in Jobs
    <3>1. job' = [on |-> TRUE, boot |-> FALSE, want |-> w, port |-> port, todo |-> Domains,
                  now |-> "none", step |-> "pick"]
      BY ZenonT(40), <2>1 DEF Begins, NoJob
    <3> QED
      BY <3>1 DEF Jobs
  <2>2. ASSUME NEW d \in Domains, Picks(d) PROVE job' \in Jobs
    BY <1>1, <2>2 DEF Picks, Jobs
  <2>3. ResolverEnds \/ Removes \/ Drops \/ Inserts \/ Publishes => job' \in Jobs
    BY <1>1, JobMoves DEF ResolverEnds, Removes, Drops, Inserts, Publishes, SaveFails
  <2>4. ASSUME Restarts PROVE job' \in Jobs
    <3>1. NoJob \in Jobs
      BY DEF NoJob, Jobs, Ports
    <3> QED
      BY <2>4, <3>1 DEF Restarts, Jobs
  <2> QED
    BY <1>1, <2>1, <2>2, <2>3, <2>4
       DEF ResolverNext, ResolverSteps, UserWrites, resolverVars
<1>5. /\ records' \in [Domains -> Contents] /\ state' \in [Domains -> Contents]
      /\ nonce' \in 0 .. MaxWrites
  <2>1. Drops => state' \in [Domains -> Contents] /\ records' \in {records, state'}
    BY <1>1, <1>3 DEF Drops, Saves, SaveFails
  <2>2. CASE Inserts
    <3>1. nonce' \in 1 .. MaxWrites /\ job.port \in Ports
      BY <1>1, <2>2 DEF Inserts, Jobs
    <3>2. Own(nonce', job.port) \in Contents
      BY <3>1, OwnIsOurs
    <3>3. state' \in [Domains -> Contents]
      BY <1>1, <2>2, <3>2 DEF Inserts
    <3>4. records' \in {records, state'}
      BY <2>2 DEF Inserts, InsertSaves, Saves, SaveFails
    <3> QED
      BY <1>1, <3>1, <3>3, <3>4
  <2> QED
    BY <1>1, <2>1, <2>2 DEF ResolverNext, ResolverSteps, Begins, Picks, ResolverEnds, Removes,
       Drops, Publishes, Restarts, UserWrites, resolverVars
<1>6. file' \in [Domains -> Contents \cup {User}]
  BY ZenonT(40), <1>1, <1>3 DEF ResolverNext, ResolverSteps, Begins, Picks, ResolverEnds, Removes, Drops,
     Inserts, Publishes, Restarts, UserWrites, resolverVars, At, Withdrawn
<1>7. users' \in 0 .. MaxUser
  <2>1. users' = users \/ (users > 0 /\ users' = users - 1)
    BY DEF ResolverNext, ResolverSteps, Begins, Picks, ResolverEnds, Removes, Drops, Inserts,
       Publishes, Restarts, UserWrites, resolverVars
  <2> QED
    BY <1>1, <2>1
<1>8. breaks' \in 0 .. MaxBreaks
  <2>1. breaks' = breaks \/ (breaks > 0 /\ breaks' = breaks - 1)
    BY DEF ResolverNext, ResolverSteps, Begins, Picks, ResolverEnds, Removes, Drops, Saves,
       SaveFails, Inserts, InsertSaves, Publishes, Restarts, UserWrites, resolverVars
  <2> QED
    BY <1>1, <2>1
<1> QED
  BY <1>2, <1>4, <1>5, <1>6, <1>7, <1>8

\* Every step keeps the journals true to the files.  No step changes the entry
\* of a published file but the one that removes the file first.
LEMMA ResolverStep ==
  ASSUME ResolverInv, [ResolverNext]_resolverVars
  PROVE  (Remembered /\ Withdrawn)'
<1> USE DEF ResolverInv, ResolverTypeOK, Remembered, Withdrawn
<1>1. Free \in Contents /\ User # Free /\ User \notin Contents
  BY UserIsNobodys DEF Contents
<1>2. ASSUME NEW w \in SUBSET Domains, NEW port \in Ports, Begins(w, port)
      PROVE  (Remembered /\ Withdrawn)'
  BY <1>2 DEF Begins, NoJob
<1>3. ASSUME NEW d \in Domains, Picks(d) PROVE (Remembered /\ Withdrawn)'
  BY <1>3 DEF Picks, Ours, At
<1>4. CASE ResolverEnds
  BY <1>4 DEF ResolverEnds, NoJob
<1>5. CASE Removes
  BY <1>1, <1>5 DEF Removes, OursByContent, Goes, At, Ours
<1>6. CASE Drops
  <2>1. /\ job.on /\ job.now \in Domains /\ ~Ours(file[job.now]) /\ file' = file
        /\ state' = [state EXCEPT ![job.now] = Free]
    BY <1>6 DEF Drops, At
  <2>2. \A d \in Domains : Ours(file[d]) => state'[d] = state[d]
    BY <2>1
  <2>3. CASE records' = state' /\ (Goes("insert") \/ NextDomain)
    BY <2>1, <2>2, <2>3 DEF Goes, NextDomain
  <2>4. CASE SaveFails
    BY <2>1, <2>2, <2>4 DEF SaveFails, Fails, NoJob
  <2> QED
    BY <1>6, <2>3, <2>4 DEF Drops, Saves
<1>7. CASE Inserts
  <2>1. nonce' \in 1 .. MaxWrites /\ job.port \in Ports /\ job.now \in Domains
    BY <1>7, ResolverAssumption DEF Inserts, At
  <2>2. Ours(Own(nonce', job.port))
    BY <2>1, OwnIsOurs
  <2> QED
    BY <1>7, <2>1, <2>2 DEF Inserts, InsertSaves, Saves, SaveFails, Fails, Goes, NoJob, At
<1>8. CASE Publishes
  <2>1. /\ job.on /\ job.step = "publish" /\ job.now \in Domains
        /\ records = state /\ records' = records /\ state' = state
    BY <1>8 DEF Publishes, At
  <2>2. CASE file' = [file EXCEPT ![job.now] = state[job.now]] /\ NextDomain
    BY <2>1, <2>2 DEF NextDomain
  <2>3. CASE file' = file /\ Goes("relinquish")
    BY <2>1, <2>3 DEF Goes
  <2>4. CASE file' = file /\ Fails
    BY <2>4, <2>1 DEF Fails, NoJob
  <2> QED
    BY <1>8, <2>2, <2>3, <2>4 DEF Publishes
<1>9. CASE Restarts
  BY <1>9 DEF Restarts, NoJob
<1>10. ASSUME NEW d \in Domains, UserWrites(d) PROVE (Remembered /\ Withdrawn)'
  BY <1>10 DEF UserWrites, Ours
<1>11. CASE UNCHANGED resolverVars
  BY <1>11 DEF resolverVars
<1> QED
  BY <1>2, <1>3, <1>4, <1>5, <1>6, <1>7, <1>8, <1>9, <1>10, <1>11
     DEF ResolverNext, ResolverSteps

\* Before anything ran there is no job, and no file of ours.
LEMMA ResolverStart == ResolverInit => ResolverInv
BY ResolverAssumption DEF ResolverInit, ResolverInv, ResolverTypeOK, Remembered, Withdrawn,
   NoJob, Contents, Ours, Free, User, Ports, StepNames

\* The inductive invariant, with the types it includes, always holds.
THEOREM ResolverInvariance == ResolverSpec => []ResolverInv
<1>1. ResolverInv /\ [ResolverNext]_resolverVars => ResolverInv'
  BY ResolverTypeStep, ResolverStep DEF ResolverInv
<1> QED
  BY ResolverStart, <1>1, PTL DEF ResolverSpec

\* A step that is not the user's leaves a file of the user's alone.
LEMMA UserFileStays ==
  ASSUME ResolverInv, [ResolverNext]_resolverVars, users' = users,
         NEW d \in Domains, file[d] = User
  PROVE  file'[d] = User
<1> USE DEF ResolverInv, ResolverTypeOK
<1>1. CASE Removes
  BY <1>1, UserIsNobodys DEF Removes, OursByContent
<1>2. CASE Publishes
  BY <1>2, UserIsNobodys DEF Publishes
<1>3. ASSUME NEW e \in Domains, UserWrites(e) PROVE FALSE
  BY <1>3 DEF UserWrites
<1>4. CASE UNCHANGED file
  BY <1>4
<1> QED
  BY <1>1, <1>2, <1>3, <1>4 DEF ResolverNext, ResolverSteps, Begins, Picks, ResolverEnds, Drops,
     Inserts, Restarts, resolverVars

\* The helper never loses track of a file it published and never touches one of
\* the user's, whatever is killed, fails or is edited where (resolver.rs:60-210).
THEOREM ResolverIsHonest == ResolverSpec => ResolverKept
<1>1. ResolverInv => NothingForgotten
  BY DEF ResolverInv, Remembered, NothingForgotten, Ours
<1>2. ResolverInv /\ [ResolverNext]_resolverVars
        => [users' = users => \A d \in Domains : file[d] = User => file'[d] = User]_resolverVars
  BY UserFileStays
<1> QED
  BY ResolverInvariance, <1>1, <1>2, PTL DEF ResolverSpec, ResolverKept, UserFilesKept

-----------------------------------------------------------------------------
(* TunEntry. *)

\* The types the proof relies on, the counters that only bound a run left out.
Counters == [revision : Nat, completed : Nat, observed : Nat]
Kinds == {"none", "ensure", "resume", "stop", "yield"}
Places == {"free", "status", "await", "readback", "confirm", "acked", "failed"}
Asking == [kind : Kinds, goal : Goals, gen : Nat]
Wires == [kind : {"none", "ensure", "stop"}, goal : Goals, gen : Nat, by : Tasks \cup {Nobody}]
EntryTyped ==
  /\ flag \in BOOLEAN /\ parked \in BOOLEAN /\ pending \in BOOLEAN /\ entryClosing \in BOOLEAN
  /\ rebuilding \in BOOLEAN /\ unsure \in BOOLEAN
  /\ running \in BOOLEAN /\ leased \in BOOLEAN /\ engaged \in BOOLEAN
  /\ rules \in Goals /\ goal \in Goals /\ generation \in Nat
  /\ counters \in Counters /\ syncs \subseteq Nat
  /\ counters.completed <= counters.observed /\ counters.observed <= counters.revision
  /\ lockHolder \in Tasks \cup {Nobody} /\ at \in Places
  /\ ask \in Asking
  /\ wire \in Wires

\* Rules that no reconciliation has begun with have one to come.
RulesAreOwed ==
  served # rules /\ vm \in {"resuming", "serving", "releasing"} =>
    \/ rebuilding \/ "sync" \in waiting
    \/ counters.revision \in syncs /\ counters.observed < counters.revision

\* What the task with the lock asks for, and in which state of the runtime.
AsksFit ==
  /\ lockHolder \notin waiting /\ waiting \subseteq Tasks
  /\ lockHolder = Nobody <=> at = "free"
  /\ lockHolder = "enable" => ask.kind = "ensure"
  /\ lockHolder \in {"disable", "idle", "quit"} => ask.kind = "stop"
  /\ lockHolder = "sync" => flag /\ ask.kind \in {"ensure", "resume", "stop", "yield"}
  /\ lockHolder = "resume" => flag /\ ask.kind \in {"resume", "yield"}
  /\ lockHolder = "resume" \/ "resume" \in waiting => vm = "resuming"
  /\ lockHolder = "idle" \/ "idle" \in waiting => vm = "releasing"
  /\ at = "await" =>
       wire # NoWire /\ wire.kind = IF ask.kind \in {"stop", "yield"} THEN "stop" ELSE "ensure"
  /\ at = "confirm" => ask.kind = "resume"

\* An acknowledgement leaves no request behind, and is true as long as the lock is held.
AnswersAreTrue ==
  at = "acked" =>
    /\ wire = NoWire
    /\ lockHolder = "enable" => running
    /\ lockHolder \in {"disable", "idle", "quit"} => ~EntryUp

\* Switched off, with nothing failed and nobody at work, is down.
OffIsDown ==
  ~flag /\ ~unsure /\ lockHolder = Nobody => ~EntryUp /\ wire.kind # "ensure"

\* A quit closes the entry first; what it has stopped stays so.
QuitIsDown ==
  /\ lockHolder = "quit" \/ "quit" \in waiting \/ quit = "parked" => entryClosing
  /\ quit = "parked" => /\ ~EntryUp /\ wire.kind # "ensure"
                        /\ lockHolder = Nobody \/ ask.kind = "stop"

\* With a released runtime nothing that is under way wakes the entry but the switch.
IdleIsDown ==
  /\ lockHolder = "idle" => parked /\ ~pending
  /\ vm = "idle" =>
    /\ ~pending /\ ~(lockHolder = "sync" /\ ask.kind \in {"resume", "yield"})
    /\ ~parked /\ flag /\ ~entryClosing => running
    /\ lockHolder = "sync" /\ ask.kind = "ensure" => running /\ wire.kind # "stop"
    /\ wire.kind = "ensure" /\ wire.by # "enable" => running
    /\ wire.kind = "stop" \/ (lockHolder # Nobody /\ ask.kind = "stop") =>
         parked \/ ~flag \/ entryClosing

\* The first request is none, and both kinds of request keep their types.
LEMMA AskingTyped == NoAsk \in Asking /\ NoWire \in Wires
BY EntryAssumption DEF NoAsk, NoWire, Kinds, Asking, Wires, Tasks, Nobody

\* What a step does to the lock, to the conversation with the helper, to the
\* counters of tun_sync, and to the helper.
LEMMA EntryMoves ==
  ASSUME [EntryNext]_entryVars
  PROVE  /\ rules' = rules \/ rules' \in Goals
         /\ lockHolder' \in {lockHolder} \cup Tasks \cup {Nobody} /\ at' \in {at} \cup Places
         /\ \/ ask' \in {ask, NoAsk}
            \/ \E k \in Kinds : ask' = [kind |-> k, goal |-> rules, gen |-> 0]
            \/ ask' = [ask EXCEPT !.gen = generation + 1]
         /\ \/ wire' \in {wire, NoWire}
            \/ \E k \in {"ensure", "stop"} :
                 wire' = [kind |-> k, goal |-> ask.goal, gen |-> generation + 1, by |-> lockHolder]
         /\ \/ counters' = counters /\ syncs' \subseteq syncs
            \/ Spawned
            \/ Completes /\ syncs' \subseteq syncs
            \/ counters' = [counters EXCEPT !.observed = counters.revision] /\ syncs' \subseteq syncs
            \/ counters' = [revision |-> 0, completed |-> 0, observed |-> 0] /\ syncs' = {}
         /\ UNCHANGED contractVars \/ HelperHandles \/ Renews \/ HelperMoves \/ HelperRestart
<1> USE DEF Sends, StatusLost, Loses, HelperHandles, ContractStop, ContractEnsure, AnswerLost, ReadsBack,
    HasDesired, Released, ConfirmsApplied, BudgetEnds, Toggles, Calls, TakesEnable, Takes, Asks,
    Open, EnableEnds, Frees, TakesDisable, DisableEnds, RuleChanges, RebuildEnds, Spawned,
    RebuildRetried, TakesSync, Completes, SyncEnds, ResumedWell, EntryStarts, StartRebuilds,
    ResumeCalled, TakesResume, StillEnabled, ResumptionEnds, IdleReleases, TakesIdle,
    DropsPending, ParkEnds, QuitBegins, TakesQuit, QuitEnds, ProcessEnds, Renews, ContractRenew,
    HelperMoves, ContractEngage, ContractRelease, ContractExpire, HelperRestart,
    ContractRestart, OtherApp, SyncTurn, SyncFree, EntryNext, Conversation, SwitchSteps,
    SyncSteps, RuntimeSteps, QuitSteps, entryVars, contractVars, want, flags, syncing, task,
    world
<1>1. rules' = rules \/ rules' \in Goals
  OBVIOUS
<1>2. lockHolder' \in {lockHolder} \cup Tasks \cup {Nobody}
  BY DEF Tasks
<1>3. at' \in {at} \cup Places
  BY DEF Places
<1>4. \/ ask' \in {ask, NoAsk}
      \/ \E k \in Kinds : ask' = [kind |-> k, goal |-> rules, gen |-> 0]
      \/ ask' = [ask EXCEPT !.gen = generation + 1]
  BY DEF Kinds
<1>5. \/ wire' \in {wire, NoWire}
      \/ \E k \in {"ensure", "stop"} :
           wire' = [kind |-> k, goal |-> ask.goal, gen |-> generation + 1, by |-> lockHolder]
  OBVIOUS
<1>6. \/ counters' = counters /\ syncs' \subseteq syncs
      \/ Spawned
      \/ Completes /\ syncs' \subseteq syncs
      \/ counters' = [counters EXCEPT !.observed = counters.revision] /\ syncs' \subseteq syncs
      \/ counters' = [revision |-> 0, completed |-> 0, observed |-> 0] /\ syncs' = {}
  OBVIOUS
<1>7. UNCHANGED contractVars \/ HelperHandles \/ Renews \/ HelperMoves \/ HelperRestart
  OBVIOUS
<1> QED
  BY <1>1, <1>2, <1>3, <1>4, <1>5, <1>6, <1>7

\* A step sets or clears a flag, and leaves the others.
LEMMA FlagMoves ==
  ASSUME EntryTyped, [EntryNext]_entryVars
  PROVE  /\ flag' \in BOOLEAN /\ parked' \in BOOLEAN /\ pending' \in BOOLEAN
         /\ entryClosing' \in BOOLEAN /\ rebuilding' \in BOOLEAN /\ unsure' \in BOOLEAN
<1> USE DEF EntryTyped, Sends, StatusLost, Loses, HelperHandles, ContractStop, ContractEnsure, AnswerLost, ReadsBack,
    HasDesired, Released, ConfirmsApplied, BudgetEnds, Toggles, Calls, TakesEnable, Takes, Asks,
    Open, EnableEnds, Frees, TakesDisable, DisableEnds, RuleChanges, RebuildEnds, Spawned,
    RebuildRetried, TakesSync, Completes, SyncEnds, ResumedWell, EntryStarts, StartRebuilds,
    ResumeCalled, TakesResume, StillEnabled, ResumptionEnds, IdleReleases, TakesIdle,
    DropsPending, ParkEnds, QuitBegins, TakesQuit, QuitEnds, ProcessEnds, Renews, ContractRenew,
    HelperMoves, ContractEngage, ContractRelease, ContractExpire, HelperRestart,
    ContractRestart, OtherApp, SyncTurn, SyncFree, EntryNext, Conversation, SwitchSteps,
    SyncSteps, RuntimeSteps, QuitSteps, entryVars, contractVars, want, flags, syncing, task,
    world
<1>1. flag' \in BOOLEAN
  OBVIOUS
<1>2. parked' \in BOOLEAN
  OBVIOUS
<1>3. pending' \in BOOLEAN
  OBVIOUS
<1>4. entryClosing' \in BOOLEAN
  OBVIOUS
<1>5. rebuilding' \in BOOLEAN
  OBVIOUS
<1>6. unsure' \in BOOLEAN
  OBVIOUS
<1> QED
  BY <1>1, <1>2, <1>3, <1>4, <1>5, <1>6

\* Every step keeps the types.
LEMMA EntryTypedStep ==
  ASSUME EntryTyped, [EntryNext]_entryVars
  PROVE  EntryTyped'
<1> USE DEF EntryTyped
<1>1. running' \in BOOLEAN /\ leased' \in BOOLEAN /\ engaged' \in BOOLEAN /\ goal' \in Goals /\ generation' \in Nat
  BY EntryMoves, ContractAssumption DEF contractVars, want, HelperHandles, Renews, HelperMoves, HelperRestart,
     ContractStop, ContractEnsure, ContractRenew, ContractEngage, ContractRelease, ContractExpire,
     ContractRestart, Wires
<1>2. rules' \in Goals /\ lockHolder' \in Tasks \cup {Nobody} /\ at' \in Places
  BY EntryMoves
<1>3. ask' \in Asking
  BY AskingTyped, EntryMoves DEF Asking
<1>4. wire' \in Wires
  BY AskingTyped, EntryMoves DEF Wires, Asking
<1>5. /\ counters' \in Counters /\ syncs' \subseteq Nat
      /\ counters'.completed <= counters'.observed /\ counters'.observed <= counters'.revision
  BY EntryMoves DEF Counters, Spawned, Completes
<1> QED
  BY FlagMoves, <1>1, <1>2, <1>3, <1>4, <1>5

EntryControl == RulesAreOwed /\ AsksFit /\ AnswersAreTrue /\ OffIsDown /\ QuitIsDown /\ IdleIsDown
EntryInv == EntryTyped /\ EntryControl

\* Every step of the conversation, the switch, the reconciliation, the runtime
\* and the quit keeps what each of them relies on.
LEMMA EntryControlStep ==
  ASSUME EntryInv, [EntryNext]_entryVars
  PROVE  EntryControl'
<1> USE DEF EntryInv, EntryTyped, EntryControl, RulesAreOwed, AsksFit, AnswersAreTrue, OffIsDown,
    QuitIsDown, IdleIsDown, contractVars, want, flags, syncing, task, world, EntryUp, NoWire, Tasks,
    Nobody, Kinds, Counters
<1>1. CASE Sends
  <2>1. CASE at' = "await"
    <3>1. /\ wire' # NoWire /\ wire'.by = lockHolder
          /\ wire'.kind = IF ask.kind \in {"stop", "yield"} THEN "stop" ELSE "ensure"
      BY <1>1, <2>1 DEF Sends
    <3>2. ask'.kind = ask.kind
      BY <1>1, <2>1 DEF Sends, Asking
    <3> QED
      BY <1>1, <2>1, <3>1, <3>2 DEF Sends
  <2>2. CASE at' # "await"
    BY <1>1, <2>2 DEF Sends, HasDesired, Released
  <2> QED
    BY <2>1, <2>2
<1>2. CASE StatusLost
  BY <1>2 DEF StatusLost, Loses
<1>3. CASE HelperHandles
  <2>1. CASE wire.kind = "stop" /\ ContractStop(wire.gen)
    BY <1>3, <2>1 DEF HelperHandles, ContractStop, Wires
  <2>2. CASE wire.kind = "ensure" /\ ContractEnsure(wire.gen, wire.goal)
    BY <1>3, <2>2 DEF HelperHandles, ContractEnsure, Wires
  <2> QED
    BY <1>3, <2>1, <2>2 DEF HelperHandles
<1>4. CASE AnswerLost
  BY <1>4 DEF AnswerLost, Loses
<1>5. CASE ReadsBack
  BY <1>5 DEF ReadsBack, Loses, HasDesired, Released
<1>6. CASE ConfirmsApplied
  BY <1>6 DEF ConfirmsApplied, HasDesired
<1>7. CASE BudgetEnds
  BY <1>7 DEF BudgetEnds, Loses
<1>8. CASE Toggles
  BY <1>8 DEF Toggles, Calls
<1>9. CASE TakesEnable
  BY <1>9 DEF TakesEnable, Takes, Asks, Open
<1>10. CASE EnableEnds
  <2>1. at = "failed" => unsure' = TRUE
    BY <1>10 DEF EnableEnds
  <2>2. at = "acked" => flag' = TRUE /\ parked' = FALSE /\ pending' = FALSE
    BY <1>10 DEF EnableEnds
  <2> QED
    BY <1>10, <2>1, <2>2 DEF EnableEnds, Frees
<1>11. CASE TakesDisable
  BY <1>11 DEF TakesDisable, Takes, Asks
<1>12. CASE DisableEnds
  <2>1. at = "failed" => unsure' = TRUE
    BY <1>12 DEF DisableEnds
  <2> QED
    BY <1>12, <2>1 DEF DisableEnds, Frees
<1>13. CASE RuleChanges
  <2>1. vm \in {"resuming", "serving", "releasing"} => rebuilding' = TRUE
    BY <1>13 DEF RuleChanges
  <2> QED
    BY <1>13, <2>1 DEF RuleChanges
<1>14. CASE RebuildEnds
  BY <1>14 DEF RebuildEnds, Spawned
<1>15. CASE RebuildRetried
  BY <1>15 DEF RebuildRetried
<1>16. CASE TakesSync
  BY <1>16 DEF TakesSync, Takes, Asks, Completes
<1>17. CASE SyncEnds
  BY <1>17 DEF SyncEnds, Frees, Completes, ResumedWell
<1>18. CASE EntryStarts
  BY <1>18 DEF EntryStarts
<1>19. CASE StartRebuilds
  BY <1>19 DEF StartRebuilds, Loses, Spawned
<1>20. CASE ResumeCalled
  <2>1. "idle" \in waiting' <=> "idle" \in waiting
    BY <1>20 DEF ResumeCalled, Calls
  <2>2. /\ "sync" \in waiting' <=> "sync" \in waiting
        /\ "quit" \in waiting' <=> "quit" \in waiting
    BY <1>20 DEF ResumeCalled, Calls
  <2>3. CASE entryClosing \/ ~(parked /\ flag)
    BY <1>20, <2>3 DEF ResumeCalled
  <2>4. CASE ~entryClosing /\ parked /\ flag
    <3>1. /\ vm' = vm /\ parked' = parked /\ waiting' = waiting \cup {"resume"}
          /\ lockHolder # "resume" /\ vm = "resuming"
      BY <1>20, <2>4 DEF ResumeCalled, Calls
    <3> QED
      BY <1>20, <2>1, <2>2, <3>1 DEF ResumeCalled
  <2> QED
    BY <2>3, <2>4
<1>21. CASE TakesResume
  BY <1>21 DEF TakesResume, Takes, Asks, StillEnabled
<1>22. CASE ResumptionEnds
  BY <1>22 DEF ResumptionEnds, Frees, ResumedWell
<1>23. CASE IdleReleases
  BY <1>23 DEF IdleReleases, Calls
<1>24. CASE TakesIdle
  BY <1>24 DEF TakesIdle, Takes, Asks, DropsPending
<1>25. CASE ParkEnds
  <2>1. at = "failed" => unsure' = TRUE
    BY <1>25 DEF ParkEnds
  <2> QED
    BY <1>25, <2>1 DEF ParkEnds, Frees
<1>26. CASE QuitBegins
  <2>1. waiting' = (IF flag THEN waiting \cup {"quit"} ELSE waiting) /\ (flag => lockHolder # "quit")
    BY <1>26 DEF QuitBegins, Calls
  <2>2. "resume" \in waiting' <=> "resume" \in waiting
    BY <2>1
  <2>3. /\ "idle" \in waiting' <=> "idle" \in waiting
        /\ "sync" \in waiting' <=> "sync" \in waiting
    BY <2>1
  <2>4. AsksFit'
    BY <1>26, <2>1, <2>2, <2>3 DEF QuitBegins
  <2>5. (QuitIsDown /\ IdleIsDown)'
    BY <1>26 DEF QuitBegins, Calls
  <2> QED
    BY <1>26, <2>3, <2>4, <2>5 DEF QuitBegins
<1>27. CASE TakesQuit
  BY <1>27 DEF TakesQuit, Takes, Asks
<1>28. CASE QuitEnds
  BY <1>28 DEF QuitEnds, Frees, Loses
<1>29. CASE ProcessEnds
  BY <1>29 DEF ProcessEnds, Loses, Frees
<1>30. CASE Renews
  BY <1>30 DEF Renews, ContractRenew
<1>31. CASE HelperMoves
  BY <1>31 DEF HelperMoves, ContractEngage, ContractRelease, ContractExpire, Loses
<1>32. CASE HelperRestart
  BY <1>32 DEF HelperRestart, ContractRestart, Loses
<1>33. CASE OtherApp
  BY <1>33 DEF OtherApp, Loses
<1>34. ASSUME NEW r \in syncs, SyncTurn(r) PROVE EntryControl'
  BY <1>34 DEF SyncTurn, SyncFree
<1>35. CASE UNCHANGED entryVars
  BY <1>35 DEF entryVars
<1> QED
  BY <1>1, <1>2, <1>3, <1>4, <1>5, <1>6, <1>7, <1>8, <1>9, <1>10, <1>11, <1>12, <1>13, <1>14,
     <1>15, <1>16, <1>17, <1>18, <1>19, <1>20, <1>21, <1>22, <1>23, <1>24, <1>25, <1>26,
     <1>27, <1>28, <1>29, <1>30, <1>31, <1>32, <1>33, <1>34, <1>35
     DEF EntryNext, Conversation, SwitchSteps, SyncSteps, RuntimeSteps, QuitSteps

\* At first nothing is under way, and what is down is not engaged.
LEMMA EntryStart == EntryInit => EntryInv
<1> SUFFICES ASSUME EntryInit PROVE EntryInv
  OBVIOUS
<1> USE EntryAssumption, AskingTyped DEF EntryInit
<1>1. running \in BOOLEAN /\ leased \in BOOLEAN /\ engaged \in BOOLEAN /\ (~flag => ~leased)
  OBVIOUS
<1>2. NoAsk.goal \in Goals
  BY DEF Asking
<1>3. /\ counters \in Counters
      /\ counters.completed <= counters.observed /\ counters.observed <= counters.revision
  BY DEF Counters
<1>4. EntryTyped
  BY <1>1, <1>2, <1>3 DEF EntryTyped, Places, Nobody
<1>5. EntryControl
  BY <1>1 DEF Nobody, EntryControl, RulesAreOwed, AsksFit, AnswersAreTrue, OffIsDown, QuitIsDown,
     IdleIsDown, EntryUp, NoWire
<1> QED
  BY <1>4, <1>5 DEF EntryInv

\* The invariant of the entry holds for ever: whatever waits, asks or was asked
\* before, what the application believes of the helper is true where it acts on it
\* (entry.rs).
THEOREM EntryInvariance == EntrySpec => []EntryInv
<1>1. EntryInv /\ [EntryNext]_entryVars => EntryInv'
  BY EntryTypedStep, EntryControlStep DEF EntryInv
<1> QED
  BY EntryStart, <1>1, PTL DEF EntrySpec

\* The entry follows the wishes of the user (EntryFollows): the newest rules are
\* served, and what was switched off, stopped by a quit or released with the
\* runtime stays down (entry.rs:560-700, 900-1010).
THEOREM EntryIsFollowed == EntrySpec => EntryFollows
<1>1. EntryInv => SyncServesLatest
  BY DEF EntryInv, EntryControl, RulesAreOwed, SyncServesLatest, Synced, SyncFree
<1>2. EntryInv => OffStaysOff
  BY DEF EntryInv, EntryControl, OffIsDown, QuitIsDown, OffStaysOff, DisabledStaysOff, QuitStaysOff,
     Unasked
<1>3. EntryInv /\ [EntryNext]_entryVars =>
        [vm = "idle" /\ ~running /\ running' => wire.by = "enable"]_entryVars
  BY EntryMoves DEF EntryInv, EntryTyped, EntryControl, IdleIsDown, contractVars, want, HelperHandles, Renews,
     HelperMoves, HelperRestart, ContractStop, ContractRenew, ContractEngage, ContractRelease,
     ContractExpire, ContractRestart
<1> QED
  BY <1>1, <1>2, <1>3, EntryInvariance, PTL DEF EntrySpec, EntryFollows, IdleStaysDown

\* The helper that the entry talks to is one that keeps its contract, whatever
\* is lost or late: what TunHelper is proved to do is all that the entry relies
\* on (entry.rs:960-1080 against src/desktop/helper/src/main.rs).
THEOREM EntryMeetsContract == EntrySpec => [][ContractNext]_contractVars
<1>1. EntryTyped /\ [EntryNext]_entryVars => [ContractNext]_contractVars
  <2> SUFFICES ASSUME EntryTyped, [EntryNext]_entryVars PROVE [ContractNext]_contractVars
    OBVIOUS
  <2>1. CASE HelperHandles
    <3>1. ContractStop(wire.gen) \/ ContractEnsure(wire.gen, wire.goal)
      BY <2>1 DEF HelperHandles
    <3>2. wire.gen \in Nat /\ wire.goal \in Goals
      BY DEF EntryTyped, Wires
    <3> QED
      BY <3>1, <3>2 DEF ContractNext, ContractRequest, ContractStop, ContractEnsure
  <2>2. CASE Renews \/ HelperMoves \/ HelperRestart
    BY <2>2 DEF Renews, HelperMoves, HelperRestart, ContractNext, ContractRequest, ContractOwnStep
  <2> QED
    BY <2>1, <2>2, EntryMoves
<1>2. EntryInv => EntryTyped
  BY DEF EntryInv
<1> QED
  BY <1>1, <1>2, EntryInvariance, PTL DEF EntrySpec

-----------------------------------------------------------------------------
(* The types of both, with the counters that bound a run. *)

\* What is left of the bounds pays for every tun_sync still to come.
Owed == (IF vm = "starting" THEN 2 ELSE 0) + (IF rebuilding \/ stale THEN 1 ELSE 0)
EntryBounded ==
  /\ left \in [edits : Nat, starts : Nat, faults : Nat]
  /\ counters.revision + left.edits + 2 * left.starts + Owed <= MaxRuleEdits + 2 * MaxStarts
  /\ \A n \in syncs : n <= counters.revision
  /\ generation <= MaxRequests /\ ask.gen <= MaxRequests /\ wire.gen <= MaxRequests
  /\ stale \in BOOLEAN /\ served \in Goals /\ other \in {"never", "up", "gone"}
  /\ vm \in {"off", "starting", "resuming", "serving", "releasing", "idle", "failed"}
  /\ quit \in {"no", "parking", "parked", "done"}

\* Both invariants together have the types.
LEMMA EntryTypes == EntryInv /\ EntryBounded => EntryTypeOK
<1> SUFFICES ASSUME EntryInv, EntryBounded PROVE EntryTypeOK
  OBVIOUS
<1>1. EntryTyped /\ waiting \subseteq Tasks
  BY DEF EntryInv, EntryControl, AsksFit
<1>2. counters.revision \in Nat /\ counters.completed \in Nat /\ counters.observed \in Nat
      /\ counters = [revision |-> counters.revision, completed |-> counters.completed,
                     observed |-> counters.observed]
  BY <1>1 DEF EntryTyped, Counters
<1>3. counters.revision <= MaxRuleEdits + 2 * MaxStarts
  <2>1. Owed \in Nat
    BY DEF Owed
  <2> QED
    BY <1>2, <2>1, EntryAssumption DEF EntryBounded
<1>4. counters \in [revision : Revisions, completed : Revisions, observed : Revisions]
  BY <1>1, <1>2, <1>3, EntryAssumption DEF EntryTyped, Revisions
<1>5. syncs \subseteq Revisions
  BY <1>1, <1>2, <1>3, EntryAssumption DEF EntryTyped, EntryBounded, Revisions
<1>6. ask \in [kind : {"none", "ensure", "resume", "stop", "yield"}, goal : Goals, gen : 0 .. MaxRequests]
  BY <1>1, EntryAssumption DEF EntryTyped, EntryBounded, Asking, Kinds
<1>7. wire \in [kind : {"none", "ensure", "stop"}, goal : Goals, gen : 0 .. MaxRequests,
                by : Tasks \cup {Nobody}]
  BY <1>1, EntryAssumption DEF EntryTyped, EntryBounded, Wires
<1>8. {running, leased, engaged, flag, parked, pending, entryClosing} \subseteq BOOLEAN
      /\ {stale, rebuilding, unsure} \subseteq BOOLEAN
  BY <1>1 DEF EntryTyped, EntryBounded
<1> QED
  BY <1>1, <1>4, <1>5, <1>6, <1>7, <1>8, EntryAssumption DEF EntryTyped, EntryBounded, EntryTypeOK, Places

\* The first state is within the bounds.
LEMMA EntryBoundedStart == EntryInit => EntryBounded
<1> SUFFICES ASSUME EntryInit PROVE EntryBounded
  OBVIOUS
<1>1. NoAsk.goal \in Goals /\ ask.gen = 0 /\ wire.gen = 0
  BY EntryAssumption DEF EntryInit, NoAsk, NoWire
<1>2. left.edits = MaxRuleEdits /\ left.starts = MaxStarts /\ Owed = 0 /\ counters.revision = 0
  BY DEF EntryInit, Owed
<1>3. 0 + MaxRuleEdits + 2 * MaxStarts + 0 <= MaxRuleEdits + 2 * MaxStarts
  BY EntryAssumption
<1>4. left \in [edits : Nat, starts : Nat, faults : Nat]
      /\ counters.revision + left.edits + 2 * left.starts + Owed <= MaxRuleEdits + 2 * MaxStarts
  BY <1>2, <1>3, EntryAssumption DEF EntryInit
<1>5. generation <= MaxRequests /\ ask.gen <= MaxRequests /\ wire.gen <= MaxRequests
  BY <1>1, EntryAssumption DEF EntryInit
<1>6. served \in Goals /\ syncs = {}
  BY <1>1 DEF EntryInit
<1> QED
  BY <1>4, <1>5, <1>6 DEF EntryInit, EntryBounded

\* What a step does to the bounds, the runtime and the values nobody else looks at.
LEMMA LeftMoves ==
  ASSUME [EntryNext]_entryVars
  PROVE  /\ \/ UNCHANGED left
            \/ left.faults > 0 /\ left' = [left EXCEPT !.faults = @ - 1]
            \/ RuleChanges \/ EntryStarts
         /\ stale' = stale \/ stale' = FALSE \/ StartRebuilds
         /\ rebuilding' = rebuilding \/ rebuilding' = FALSE \/ RuleChanges \/ RebuildRetried
         /\ \/ vm' = vm \/ (vm' = "starting" /\ EntryStarts)
            \/ vm' \in {"off", "resuming", "serving", "releasing", "idle", "failed"}
         /\ waiting' \subseteq waiting \cup Tasks
         /\ quit' = quit \/ quit' \in {"no", "parking", "parked", "done"}
         /\ other' = other \/ other' \in {"up", "gone"}
         /\ served' = served \/ served' = rules
         /\ wire' \in {wire, NoWire} \/ generation < MaxRequests
         /\ \/ ask' \in {ask, NoAsk}
            \/ \E k \in Kinds : ask' = [kind |-> k, goal |-> rules, gen |-> 0]
            \/ ask' = [ask EXCEPT !.gen = generation + 1] /\ generation < MaxRequests
         /\ \/ UNCHANGED counters \/ Completes \/ RebuildEnds \/ StartRebuilds
            \/ counters' = [counters EXCEPT !.observed = counters.revision]
            \/ counters' = [revision |-> 0, completed |-> 0, observed |-> 0]
<1> USE DEF Sends, StatusLost, Loses, HelperHandles, ContractStop, ContractEnsure, AnswerLost, ReadsBack,
    HasDesired, Released, ConfirmsApplied, BudgetEnds, Toggles, Calls, TakesEnable, Takes, Asks,
    Open, EnableEnds, Frees, TakesDisable, DisableEnds, RuleChanges, RebuildEnds, Spawned,
    RebuildRetried, TakesSync, Completes, SyncEnds, ResumedWell, EntryStarts, StartRebuilds,
    ResumeCalled, TakesResume, StillEnabled, ResumptionEnds, IdleReleases, TakesIdle,
    DropsPending, ParkEnds, QuitBegins, TakesQuit, QuitEnds, ProcessEnds, Renews, ContractRenew,
    HelperMoves, ContractEngage, ContractRelease, ContractExpire, HelperRestart,
    ContractRestart, OtherApp, SyncTurn, SyncFree, EntryNext, Conversation, SwitchSteps,
    SyncSteps, RuntimeSteps, QuitSteps, entryVars, contractVars, want, flags, syncing, task,
    world
<1>1. \/ UNCHANGED left
      \/ left.faults > 0 /\ left' = [left EXCEPT !.faults = @ - 1]
      \/ RuleChanges \/ EntryStarts
  OBVIOUS
<1>2. stale' = stale \/ stale' = FALSE \/ StartRebuilds
  OBVIOUS
<1>3. rebuilding' = rebuilding \/ rebuilding' = FALSE \/ RuleChanges \/ RebuildRetried
  OBVIOUS
<1>4. \/ vm' = vm \/ (vm' = "starting" /\ EntryStarts)
      \/ vm' \in {"off", "resuming", "serving", "releasing", "idle", "failed"}
  OBVIOUS
<1>5. waiting' \subseteq waiting \cup Tasks
  BY DEF Tasks
<1>6. quit' = quit \/ quit' \in {"no", "parking", "parked", "done"}
  OBVIOUS
<1>7. other' = other \/ other' \in {"up", "gone"}
  OBVIOUS
<1>8. served' = served \/ served' = rules
  OBVIOUS
<1>9. wire' \in {wire, NoWire} \/ generation < MaxRequests
  OBVIOUS
<1>10. \/ ask' \in {ask, NoAsk}
       \/ \E k \in Kinds : ask' = [kind |-> k, goal |-> rules, gen |-> 0]
       \/ ask' = [ask EXCEPT !.gen = generation + 1] /\ generation < MaxRequests
  BY DEF Kinds
<1>11. \/ UNCHANGED counters \/ Completes \/ RebuildEnds \/ StartRebuilds
       \/ counters' = [counters EXCEPT !.observed = counters.revision]
       \/ counters' = [revision |-> 0, completed |-> 0, observed |-> 0]
  OBVIOUS
<1> QED
  BY <1>1, <1>2, <1>3, <1>4, <1>5, <1>6, <1>7, <1>8, <1>9, <1>10, <1>11

\* Every step pays for what it owes.
LEMMA EntryBoundedStep ==
  ASSUME EntryInv, EntryBounded, [EntryNext]_entryVars
  PROVE  EntryBounded'
<1>1. EntryTyped /\ EntryTyped'
  BY EntryTypedStep DEF EntryInv
<1>2. /\ counters.revision \in Nat /\ counters'.revision \in Nat /\ Owed \in {0, 1, 2, 3}
      /\ counters = [revision |-> counters.revision, completed |-> counters.completed,
                     observed |-> counters.observed]
  BY <1>1 DEF EntryTyped, Counters, Owed
<1>3. \/ Spawned
      \/ counters'.revision \in {0, counters.revision} /\ \A n \in syncs' : n <= counters'.revision
  BY <1>2, EntryMoves DEF EntryBounded, Completes
<1>4. /\ left' \in [edits : Nat, starts : Nat, faults : Nat]
      /\ counters'.revision + left'.edits + 2 * left'.starts + Owed' <= MaxRuleEdits + 2 * MaxStarts
  <2> DEFINE n == counters.revision  e == left.edits  s == left.starts  o == Owed
             Fits(m, c, t, w) == m + c + 2 * t + w <= MaxRuleEdits + 2 * MaxStarts
  <2>1. n \in Nat /\ e \in Nat /\ s \in Nat /\ o \in 0..3 /\ Fits(n, e, s, o)
    BY <1>2 DEF EntryBounded
  <2>10. left' \in [edits : Nat, starts : Nat, faults : Nat]
    <3>1. CASE RuleChanges \/ EntryStarts
      BY <3>1 DEF EntryBounded, RuleChanges, EntryStarts
    <3>2. CASE UNCHANGED left \/ (left.faults > 0 /\ left' = [left EXCEPT !.faults = @ - 1])
      BY <3>2 DEF EntryBounded
    <3> QED
      BY <3>1, <3>2, LeftMoves
  <2> HIDE DEF Fits
  <2>9. ASSUME NEW m \in Nat, NEW c \in Nat, NEW t \in Nat, NEW w \in Nat,
               m + c + 2 * t + w <= n + e + 2 * s + o
        PROVE  Fits(m, c, t, w)
    BY <2>1, <2>9, EntryAssumption DEF Fits
  <2>2. ASSUME RuleChanges
        PROVE  Fits(counters'.revision, left'.edits, left'.starts, Owed')
    <3>1. left'.edits = e - 1 /\ left'.starts = s /\ e > 0 /\ counters' = counters /\ Owed' <= o + 1 /\ Owed' \in 0..3
      BY <1>1, <2>2 DEF RuleChanges, Owed, syncing, EntryBounded
    <3>2. left'.edits \in Nat /\ left'.starts \in Nat /\ counters'.revision \in Nat /\ Owed' \in Nat
      BY <1>2, <2>10, <3>1
    <3>3. counters'.revision + left'.edits + 2 * left'.starts + Owed' <= n + e + 2 * s + o
      BY <2>1, <3>1, <3>2
    <3> QED
      BY <2>9, <3>2, <3>3
  <2>3. ASSUME EntryStarts
        PROVE  Fits(counters'.revision, left'.edits, left'.starts, Owed')
    <3>1. left'.edits = e /\ left'.starts = s - 1 /\ s > 0 /\ counters' = counters /\ Owed' <= o + 2 /\ Owed' \in 0..3
      BY <1>1, <2>3 DEF EntryStarts, Owed, syncing, EntryBounded
    <3>2. left'.edits \in Nat /\ left'.starts \in Nat /\ counters'.revision \in Nat /\ Owed' \in Nat
      BY <1>2, <2>10, <3>1
    <3>3. counters'.revision + left'.edits + 2 * left'.starts + Owed' <= n + e + 2 * s + o
      BY <2>1, <3>1, <3>2
    <3> QED
      BY <2>9, <3>2, <3>3
  <2>4. ASSUME StartRebuilds
        PROVE  Fits(counters'.revision, left'.edits, left'.starts, Owed')
    <3>1. left'.edits = e /\ left'.starts = s /\ counters'.revision = n + 1 /\ Owed' <= o - 1 /\ Owed' \in 0..3
      BY <1>1, <1>2, <2>4 DEF StartRebuilds, Spawned, Loses, Owed, syncing, EntryBounded, EntryTyped, Counters
    <3>2. left'.edits \in Nat /\ left'.starts \in Nat /\ counters'.revision \in Nat /\ Owed' \in Nat
      BY <1>2, <2>10, <3>1
    <3>3. counters'.revision + left'.edits + 2 * left'.starts + Owed' <= n + e + 2 * s + o
      BY <2>1, <3>1, <3>2
    <3> QED
      BY <2>9, <3>2, <3>3
  <2>5. ASSUME RebuildEnds
        PROVE  Fits(counters'.revision, left'.edits, left'.starts, Owed')
    <3>1. left' = left /\ counters'.revision = n + 1 /\ Owed' <= o - 1 /\ Owed' \in 0..3
      BY <1>1, <1>2, <2>5 DEF RebuildEnds, Spawned, Owed, world, EntryBounded, EntryTyped, Counters
    <3>2. left'.edits \in Nat /\ left'.starts \in Nat /\ counters'.revision \in Nat /\ Owed' \in Nat
      BY <1>2, <2>10, <3>1
    <3>3. counters'.revision + left'.edits + 2 * left'.starts + Owed' <= n + e + 2 * s + o
      BY <2>1, <3>1, <3>2
    <3> QED
      BY <2>9, <3>2, <3>3
  <2>6. ASSUME ~(RuleChanges \/ EntryStarts \/ StartRebuilds \/ RebuildEnds)
        PROVE  Fits(counters'.revision, left'.edits, left'.starts, Owed')
    <3>1. left'.edits = e /\ left'.starts = s
      BY <2>6, LeftMoves DEF EntryBounded
    <3>2. Owed' <= o /\ Owed' \in 0..3
      <4>1. vm' = vm \/ vm' # "starting"
        BY <2>6, LeftMoves
      <4>2. rebuilding' \/ stale' => rebuilding \/ stale
        BY <2>6, LeftMoves DEF RebuildRetried
      <4> QED
        BY <4>1, <4>2 DEF Owed
    <3>3. counters'.revision <= n /\ counters'.revision \in Nat
      <4>1. \/ UNCHANGED counters \/ counters' = [counters EXCEPT !.completed = counters.observed]
            \/ counters' = [counters EXCEPT !.observed = counters.revision]
            \/ counters' = [revision |-> 0, completed |-> 0, observed |-> 0]
        BY <2>6, LeftMoves DEF Completes
      <4>2. counters'.revision \in {0, counters.revision}
        BY <1>2, <4>1
      <4> QED
        BY <2>1, <4>2
    <3>4. left'.edits \in Nat /\ left'.starts \in Nat /\ counters'.revision \in Nat /\ Owed' \in Nat
      BY <1>2, <2>10, <3>2
    <3>5. counters'.revision + left'.edits + 2 * left'.starts + Owed' <= n + e + 2 * s + o
      BY <2>1, <3>1, <3>2, <3>3, <3>4
    <3> QED
      BY <2>9, <3>4, <3>5
  <2>11. Fits(counters'.revision, left'.edits, left'.starts, Owed')
    BY <2>2, <2>3, <2>4, <2>5, <2>6
  <2> QED
    BY <2>10, <2>11 DEF Fits
<1>5. generation' <= MaxRequests /\ ask'.gen <= MaxRequests /\ wire'.gen <= MaxRequests
  <2>1. generation \in Nat /\ generation <= MaxRequests /\ MaxRequests \in Nat
    BY <1>1, EntryAssumption DEF EntryBounded, EntryTyped
  <2>2. ask'.gen <= MaxRequests
    <3>1. ask \in Asking /\ ask.gen <= MaxRequests
      BY <1>1 DEF EntryBounded, EntryTyped
    <3>2. \/ ask' \in {ask, NoAsk}
          \/ \E k \in Kinds : ask' = [kind |-> k, goal |-> rules, gen |-> 0]
          \/ ask' = [ask EXCEPT !.gen = generation + 1] /\ generation < MaxRequests
      BY LeftMoves
    <3>3. NoAsk.gen = 0
      BY DEF NoAsk
    <3> QED
      BY <2>1, <3>1, <3>2, <3>3 DEF Asking
  <2>4. wire'.gen <= MaxRequests
    <3>1. wire \in Wires /\ wire.gen <= MaxRequests
      BY <1>1 DEF EntryBounded, EntryTyped
    <3>2. wire' \in {wire, NoWire} \/ generation < MaxRequests
      BY LeftMoves
    <3>3. \/ wire' \in {wire, NoWire}
          \/ \E k \in {"ensure", "stop"} :
               wire' = [kind |-> k, goal |-> ask.goal, gen |-> generation + 1, by |-> lockHolder]
      BY EntryMoves
    <3>4. NoWire.gen = 0
      BY DEF NoWire
    <3> QED
      BY <2>1, <3>1, <3>2, <3>3, <3>4
  <2>3. generation' <= MaxRequests
    BY <1>1, EntryMoves DEF EntryBounded, EntryTyped, contractVars, want, HelperHandles, Renews, HelperMoves,
       HelperRestart, ContractStop, ContractEnsure, ContractRenew, ContractEngage, ContractRelease,
       ContractExpire, ContractRestart
  <2> QED
    BY <2>2, <2>3, <2>4
<1>6. \A n \in syncs' : n <= counters'.revision
  BY <1>1, <1>2, <1>3 DEF Spawned, EntryTyped, EntryBounded, Counters
<1>7. /\ stale' \in BOOLEAN /\ served' \in Goals /\ other' \in {"never", "up", "gone"}
      /\ vm' \in {"off", "starting", "resuming", "serving", "releasing", "idle", "failed"}
      /\ quit' \in {"no", "parking", "parked", "done"}
  BY <1>1, LeftMoves DEF EntryBounded, EntryTyped, StartRebuilds
<1> QED
  BY <1>4, <1>5, <1>6, <1>7 DEF EntryBounded

\* Every value of the entry stays in the set the code can produce; the revisions
\* of tun_sync count no more than the edits and the starts (entry.rs:888-1010).
THEOREM EntryTypesAreKept == EntrySpec => []EntryTypeOK
<1>1. EntryInit => EntryBounded
  BY EntryBoundedStart
<1>2. EntryInv /\ EntryBounded /\ [EntryNext]_entryVars => EntryBounded'
  BY EntryBoundedStep
<1>3. EntryInv /\ EntryBounded => EntryTypeOK
  BY EntryTypes
<1> QED
  BY <1>1, <1>2, <1>3, EntryInvariance, PTL DEF EntrySpec

\* Both components of MCEntry, side by side: every value of either stays in the set
\* its code can produce (entry.rs, helper/src/resolver.rs).
THEOREM TunnelTypesAreKept == TunnelSpec => []TunnelTypeOK
<1>1. TunnelInit => EntryInit /\ ResolverInit
  BY DEF TunnelInit
<1>2. [TunnelNext]_<<part, entryVars, resolverVars>> => [EntryNext]_entryVars /\ [ResolverNext]_resolverVars
  BY DEF TunnelNext
<1>3. ResolverInv /\ EntryTypeOK => TunnelTypeOK
  BY DEF ResolverInv, TunnelTypeOK
<1>4. TunnelSpec => EntrySpec /\ ResolverSpec
  BY <1>1, <1>2, PTL DEF TunnelSpec, EntrySpec, ResolverSpec
<1> QED
  BY <1>3, <1>4, EntryTypesAreKept, ResolverInvariance, PTL
=============================================================================
