---------------------------- MODULE Replacement ----------------------------
(***************************************************************************)
(* One channel's client container is replaced by another: because its      *)
(* settings changed, because it is started, or because it was lost.  The   *)
(* journal row of channel_replacements says how far the change got; the    *)
(* containers, their names, their restart policies and the data volumes    *)
(* are Docker's and outlive the process.                                   *)
(*                                                                         *)
(* Handlers hold the channel's operation lock from their first read to     *)
(* their last write, so one `job` runs at a time; it can fail at any call, *)
(* be cut off by a crash, or find that the machine restarted meanwhile.    *)
(*                                                                         *)
(* Simplifications:                                                        *)
(*  - A command ("send it, ignore the answer, read back") is one step:     *)
(*    it takes effect or not, and the readback may fail either way.        *)
(*  - `settings` is a version of what a replacement changes: the           *)
(*    connection fields and the encrypted configuration.  Name and notes   *)
(*    are saved elsewhere.                                                 *)
(*  - Of the channel's status only "stopped or not" is kept.               *)
(*  - A volume's content is a number that a running client increases.      *)
(*  - Whether a probe is possible and succeeds depends on the client type, *)
(*    the rules and the network: validation ends either way the code can.  *)
(*  - Operation and container numbers are reused once nothing names them;  *)
(*    the code draws them at random.                                       *)
(*  - Self-installed clients are started in place and never replaced.      *)
(***************************************************************************)
EXTENDS Integers, FiniteSets

CONSTANTS Versions,    \* versions of the channel's settings
          Unset,       \* no version, no container
          MaxOp,       \* BOUND: operation numbers in use at a time
          MaxId,       \* BOUND: container numbers in use at a time
          MaxData,     \* BOUND: writes of the clients
          MaxAsks,     \* BOUND: requests of the user
          MaxFaults,   \* BOUND: failures of any kind
          Losses       \* whether somebody else removes containers

ASSUME ReplacementAssumption ==
  /\ Unset \notin Versions /\ Unset \notin Int
  /\ MaxOp \in Nat /\ MaxId \in Nat \ {0} /\ MaxData \in Nat \ {0}
  /\ Losses \in BOOLEAN
  /\ MaxAsks \in Nat /\ MaxFaults \in Nat

VARIABLES
  ch,      \* the rows of channels and channel_runtime
  rec,     \* the row of channel_replacements
  intent,  \* the row of channel_stop_intents
  box,     \* the channel's containers
  vols,    \* the content of its volumes
  helper,  \* the container that copies one volume into another
  env,     \* how far the runtime's start is: docker and the recoveries
  job,     \* the handler that holds the operation lock
  asks, faults  \* budgets used

\* Auxiliary: the user's last word about the channel was to start it, or the code
\* found its container gone since he stopped it.
VARIABLE wanted

docker == <<box, vols, helper>>
rows == <<ch, rec, intent>>
counters == <<asks, faults>>
replacementVars == <<rows, docker, env, job, counters, wanted>>

Ops == 1 .. MaxOp
Ids == 1 .. MaxId
Gone == -2
Torn == -1
Empty == 0

Phases == {"none", "queued", "preparing", "prepared", "switching", "validating",
           "awaiting_login", "committed", "rolling_back", "rolled_back", "deleting"}
Terminal == {"committed", "rolled_back"}
\* What a handler reports as not restored.
Unresolved == Phases \ ({"none", "awaiting_login"} \cup Terminal)

Main == <<"main", 0>>
Previous == <<"previous", rec.op>>
NextName(restore) == <<IF restore THEN "restore" ELSE "next", rec.op>>
Names == {Main} \cup ({"previous", "next", "restore"} \X Ops)

NoRec == [phase |-> "none", op |-> 0, new |-> Unset, old |-> Unset,
          initial |-> FALSE, src |-> FALSE, oldId |-> Unset, oldVol |-> 0,
          oldRun |-> FALSE, oldAlways |-> FALSE, start |-> FALSE,
          applied |-> FALSE, newId |-> Unset]
NoHelper == [op |-> 0, src |-> 0, state |-> "none"]

\* A handler; the procedure it is in when an error of it means more than giving
\* up ("replace", or "undo" for the recovery of a failed replacement); where it
\* is; the settings asked for; whether a start is asked for, or what it read; the
\* container at work; whether the handler records an unrestored failure.
Idle == [kind |-> "none", part |-> "none", pc |-> "idle", want |-> Unset,
         force |-> FALSE, cur |-> Unset, mark |-> FALSE]

Kinds == {"none", "update", "start", "stop", "restore", "delete", "boot", "cleanup"}
PCs == {"idle", "failed", "replace",
        "r.begin", "r.volume", "r.create", "r.prepared", "r.switching", "r.policy",
        "r.halt", "r.copy", "r.run", "r.wait", "r.copied", "r.backup", "r.rename",
        "r.validating", "r.start", "r.apply", "r.always",
        "v.begin", "v.helper", "v.policy", "v.halt", "v.unname", "v.old", "v.discard",
        "v.absent", "v.oldPolicy", "v.oldHalt", "v.oldName", "v.partial",
        "v.create", "v.rename", "v.start", "v.restore", "v.always",
        "c.begin", "c.current", "c.old", "c.next", "c.restored", "c.volume", "c.finish",
        "s.before", "s.oldPolicy", "s.oldHalt", "s.inspect", "s.confirm",
        "w.begin", "w.note", "w.resumed", "w.always",
        "t.resume", "t.remove", "t.create", "t.note", "t.rename", "t.start",
        "t.resumed", "t.always", "u.save",
        "d.start", "d.begin", "d.bare", "d.helper", "d.remove", "d.volumes", "d.deleted"}

ReplacementTypeOK ==
  /\ ch \in [exists : BOOLEAN, settings : Versions, id : Ids \cup {Unset},
             vol : 0 .. MaxOp, stopped : BOOLEAN]
  /\ rec \in [phase : Phases, op : 0 .. MaxOp, new : Versions \cup {Unset},
              old : Versions \cup {Unset}, initial : BOOLEAN, src : BOOLEAN,
              oldId : Ids \cup {Unset}, oldVol : 0 .. MaxOp, oldRun : BOOLEAN,
              oldAlways : BOOLEAN, start : BOOLEAN, applied : BOOLEAN,
              newId : Ids \cup {Unset}]
  /\ intent \in BOOLEAN
  /\ DOMAIN box \subseteq Ids
  /\ \A i \in DOMAIN box :
       box[i] \in [name : Names, vol : 0 .. MaxOp, op : 0 .. MaxOp, restore : BOOLEAN,
                   state : {"created", "running", "exited"}, always : BOOLEAN,
                   cfg : Versions]
  /\ vols \in [0 .. MaxOp -> Gone .. MaxData]
  /\ helper \in [op : 0 .. MaxOp, src : 0 .. MaxOp,
                 state : {"none", "created", "running", "done", "failed"}]
  /\ env \in {"off", "stops", "replacements", "ready"}
  /\ job \in [kind : Kinds, part : {"none", "replace", "undo"}, pc : PCs,
              want : Versions \cup {Unset}, force : BOOLEAN, cur : Ids \cup {Unset},
              mark : BOOLEAN]
  /\ asks \in 0 .. MaxAsks /\ faults \in 0 .. MaxFaults
  /\ wanted \in BOOLEAN

\* A channel that was never started, or one whose container runs or is stopped.
ReplacementInit ==
  /\ rec = NoRec /\ intent = FALSE
  /\ helper = NoHelper /\ env = "off" /\ job = Idle
  /\ asks = 0 /\ faults = 0
  /\ \E v \in Versions, state \in {"absent", "running", "exited"} :
       /\ ch = [exists |-> TRUE, settings |-> v, vol |-> 0,
                id |-> IF state = "absent" THEN Unset ELSE 1,
                stopped |-> state # "running"]
       /\ box = [i \in IF state = "absent" THEN {} ELSE {1} |->
                   [name |-> Main, vol |-> 0, op |-> 0, restore |-> FALSE,
                    state |-> state, always |-> TRUE, cfg |-> v]]
       /\ vols = [o \in 0 .. MaxOp |-> IF o = 0 /\ state # "absent" THEN 1 ELSE Gone]
       /\ wanted = (state = "running")

---------------------------------------------------------------------------
\* Reading Docker

Exists(i) == i \in DOMAIN box
Runs(i) == Exists(i) /\ box[i].state = "running"
Named(n) == {i \in DOMAIN box : box[i].name = n}
Free(n) == Named(n) = {}
Users(o) == {i \in DOMAIN box : box[i].vol = o}

\* owned: the container of this operation under its own name or, if asked for,
\* under the channel's.
OwnedBy(restore) == {i \in DOMAIN box : box[i].op = rec.op /\ box[i].restore = restore}
Owned(restore, canonical) ==
  {i \in OwnedBy(restore) : \/ box[i].name = NextName(restore)
                            \/ canonical /\ box[i].name = Main}
The(S) == CHOOSE x \in S : TRUE

\* Numbers no resource and no row names.
FreeOps == Ops \ ({rec.op, ch.vol, helper.op} \cup {box[i].op : i \in DOMAIN box}
                   \cup {o \in Ops : vols[o] # Gone})
FreeIds == Ids \ (DOMAIN box \cup {ch.id, rec.oldId, rec.newId})
FreshOp == The(FreeOps)
FreshId == The(FreeIds)

\* The volume not selected: the old one, unless there was none, or the candidate's.
Surplus == IF rec.phase = "rolled_back" THEN {rec.op}
           ELSE IF rec.src THEN {rec.oldVol} ELSE {}

\* The volumes labelled with the channel: those of its replacements.
Labelled == {o \in Ops : vols[o] # Gone}

IsOurs(i, names, vol) ==
  Exists(i) /\ box[i].name \in names /\ box[i].vol = vol

\* A container may be renamed from one of the two names to the other one.
CanRename(i, from, to) ==
  Exists(i) /\ (box[i].name = to \/ (box[i].name = from /\ Free(to)))

\* check_volume_users
SourceQuiet ==
  \A i \in Users(rec.oldVol) \cup Users(rec.op) :
    /\ ~Runs(i)
    /\ i = rec.oldId \/ i \in OwnedBy(FALSE)
    /\ rec.oldId = Unset => i \notin Users(rec.oldVol)

---------------------------------------------------------------------------
\* Commands and the job

Change(i, f, value) == box' = [box EXCEPT ![i][f] = value]
SetPolicy(i, always) == Change(i, "always", always)
Halt(i) == Change(i, "state", IF box[i].state = "running" THEN "exited" ELSE box[i].state)
Launch(i) == Change(i, "state", "running")
Rename(i, n) == Change(i, "name", n)
RemoveAll(S) == box' = [i \in DOMAIN box \ S |-> box[i]]
NewBox(i, restore, vol, version) ==
  LET b == [name |-> NextName(restore), vol |-> vol, op |-> rec.op, restore |-> restore,
            state |-> "created", always |-> FALSE, cfg |-> version]
  IN  box' = [j \in DOMAIN box \cup {i} |-> IF j = i THEN b ELSE box[j]]

At(p) == job.pc = p
Fault == faults < MaxFaults /\ faults' = faults + 1
Proceeds(next) == job' = next /\ UNCHANGED <<counters, env, wanted>>
\* A command: its answer or its readback may be an error although it was done.
Acknowledged(next) ==
  /\ UNCHANGED <<asks, env, wanted>>
  /\ \/ job' = next /\ UNCHANGED faults
     \/ Fault /\ job' = [job EXCEPT !.pc = "failed"]
\* A command on containers, then the step p.
Command(p) == Acknowledged([job EXCEPT !.pc = p]) /\ UNCHANGED <<rows, vols, helper>>
\* A transaction, or a decision, then the step p.
Then(p) == Proceeds([job EXCEPT !.pc = p]) /\ UNCHANGED docker
Ends == Proceeds(Idle) /\ UNCHANGED docker

\* Where a recovery, a cleanup or a stop that succeeded returns to; the recovery
\* of a failed replacement reports that failure.
Return ==
  IF job.part = "undo" THEN "failed"
  ELSE IF job.part = "replace" THEN "idle"
  ELSE IF job.kind = "stop" \/ (job.kind = "start" /\ intent) THEN "s.inspect"
  ELSE IF job.kind = "start" THEN "replace"
  ELSE IF job.kind = "update" THEN "u.save"
  ELSE "idle"
Returns ==
  IF Return = "idle" THEN Ends
  ELSE Then(Return)

---------------------------------------------------------------------------
\* What the steps insist on before they change anything (the ensure!s and the
\* failing reads); a step whose conditions do not hold ends in "failed".

Doomed == ({rec.oldId} \cap DOMAIN box) \cup Owned(FALSE, TRUE) \cup Owned(TRUE, TRUE)

ReplaceExpects ==
  /\ At("replace") => rec.phase \in {"none", "queued"}
  /\ At("r.begin") => IF Exists(ch.id)
                      THEN IsOurs(ch.id, {Main}, ch.vol) /\ vols[ch.vol] # Gone
                      ELSE Free(Main)
  /\ At("r.copy") => /\ helper.state = "none" /\ SourceQuiet
                     /\ IF rec.oldId = Unset THEN Free(Main)
                        ELSE IsOurs(rec.oldId, {Main}, rec.oldVol)
  /\ At("r.copied") => SourceQuiet
  /\ At("r.backup") => CanRename(rec.oldId, Main, Previous)
  /\ At("r.rename") => CanRename(job.cur, NextName(FALSE), Main)
  /\ At("r.apply") => Exists(job.cur) /\ (rec.start => Runs(job.cur))

RecoverExpects ==
  /\ At("v.begin") => rec.phase \notin {"queued", "deleting"}
  /\ At("v.unname") => \A i \in Owned(FALSE, TRUE) : CanRename(i, Main, NextName(FALSE))
  /\ At("v.old") => \/ rec.initial /\ Free(Main)
                    \/ ~rec.initial /\ Exists(rec.oldId)
                       /\ box[rec.oldId].name \in {Main, Previous}
  /\ At("v.oldName") => IF rec.oldRun THEN CanRename(rec.oldId, Main, Previous)
                        ELSE CanRename(rec.oldId, Previous, Main)
  /\ At("v.create") => Free(NextName(TRUE))
  /\ At("v.rename") => CanRename(job.cur, NextName(TRUE), Main)
  /\ At("v.restore") => Exists(job.cur)

CleanupExpects ==
  /\ At("c.begin") /\ rec.phase \in Terminal =>
       IF rec.initial /\ rec.phase = "rolled_back" THEN ch.id = Unset /\ Free(Main)
       ELSE Exists(ch.id)
  /\ At("c.current") => IsOurs(ch.id, {Main}, ch.vol)
  /\ At("c.old") /\ Exists(rec.oldId) /\ rec.oldId # ch.id =>
       box[rec.oldId].name = Previous /\ ~Runs(rec.oldId)
  /\ At("c.volume") => \A o \in Surplus : Users(o) = {}

StopExpects ==
  /\ At("s.before") => rec.phase # "deleting"
  /\ At("s.before") /\ rec.phase \in Unresolved \ {"queued"} /\ ~rec.initial =>
       IsOurs(rec.oldId, {Main, Previous}, rec.oldVol)
  /\ At("s.inspect") => IF Free(Main) THEN ~Exists(ch.id) ELSE Named(Main) = {ch.id}

WaitExpects ==
  /\ At("w.begin") => /\ Owned(FALSE, TRUE) # {}
                      /\ CanRename(The(Owned(FALSE, TRUE)), NextName(FALSE), Main)
  /\ At("t.resume") => rec.phase \in {"none", "queued", "awaiting_login"} \cup Terminal
  /\ At("t.resume") /\ rec.phase = "awaiting_login" => vols[rec.op] # Gone
  /\ At("t.create") => Free(NextName(FALSE))
  /\ At("t.rename") => CanRename(job.cur, NextName(FALSE), Main)
  /\ At("t.resumed") => Runs(job.cur)

DeleteExpects ==
  /\ At("d.begin") => /\ Exists(rec.oldId) => IsOurs(rec.oldId, {Main, Previous}, rec.oldVol)
                      /\ Named(Main) \subseteq Doomed
  /\ At("d.volumes") => \A o \in Labelled : Users(o) = {}

\* identity: a command is given to a container that is there.
Given == /\ job.pc \in {"r.policy", "r.halt", "v.oldPolicy", "v.oldHalt", "s.oldPolicy",
                        "s.oldHalt"} => Exists(rec.oldId)
         /\ job.pc \in {"r.start", "v.start", "v.always", "w.always", "t.start",
                        "t.always"} => Exists(job.cur)

Expected == /\ Given /\ ReplaceExpects /\ RecoverExpects /\ CleanupExpects
            /\ StopExpects /\ WaitExpects /\ DeleteExpects

---------------------------------------------------------------------------
\* replace

\* A channel whose container is gone is marked, whatever its status was; from then
\* on a change starts it.
Replace ==
  /\ At("replace")
  /\ LET lost == ch.id # Unset /\ ~Exists(ch.id)
     IN  ch' = [ch EXCEPT !.stopped = @ /\ ~lost] /\ wanted' = (wanted \/ lost)
  /\ job' = [job EXCEPT !.pc = "r.begin", !.part = "replace", !.force = @ \/ ~ch.stopped]
  /\ UNCHANGED <<rec, intent, docker, counters, env>>

BeginRecord ==
  /\ At("r.begin") /\ FreeOps # {}
  /\ LET old == Exists(ch.id)
     IN  rec' = [phase |-> "preparing", op |-> FreshOp, new |-> job.want,
                 old |-> ch.settings, initial |-> ~old, src |-> vols[ch.vol] # Gone,
                 oldId |-> IF old THEN ch.id ELSE Unset, oldVol |-> ch.vol,
                 oldRun |-> Runs(ch.id), oldAlways |-> old /\ box[ch.id].always,
                 start |-> job.force, applied |-> FALSE, newId |-> Unset]
  /\ Then("r.volume") /\ UNCHANGED <<ch, intent>>

EnsureVolume ==
  /\ At("r.volume")
  /\ vols' = [vols EXCEPT ![rec.op] = Empty]
  /\ Acknowledged([job EXCEPT !.pc = "r.create"]) /\ UNCHANGED <<rows, box, helper>>

CreateCandidate ==
  /\ At("r.create") /\ FreeIds # {}
  /\ NewBox(FreshId, FALSE, rec.op, rec.new)
  /\ Acknowledged([job EXCEPT !.pc = "r.prepared", !.cur = FreshId])
  /\ UNCHANGED <<rows, vols, helper>>

Advance(p, phase, q) ==
  /\ At(p) /\ rec' = [rec EXCEPT !.phase = phase]
  /\ Then(q) /\ UNCHANGED <<ch, intent>>
NotePrepared ==
  /\ At("r.prepared")
  /\ rec' = [rec EXCEPT !.phase = "prepared", !.newId = job.cur]
  /\ Then("r.switching") /\ UNCHANGED <<ch, intent>>
NoteSwitching == Advance("r.switching", "switching",
                         IF rec.oldId # Unset THEN "r.policy"
                         ELSE IF rec.src THEN "r.copy" ELSE "r.rename")
NoteValidating == Advance("r.validating", "validating",
                          IF rec.start THEN "r.start" ELSE "r.apply")

HoldOld == At("r.policy") /\ SetPolicy(rec.oldId, FALSE) /\ Command("r.halt")
StopOld == At("r.halt") /\ Halt(rec.oldId) /\ Command("r.copy")

\* copy_volume: the copying container is created, run and removed.
CreateHelper ==
  /\ At("r.copy")
  /\ helper' = [op |-> rec.op, src |-> rec.oldVol, state |-> "created"]
  /\ Acknowledged([job EXCEPT !.pc = "r.run"]) /\ UNCHANGED <<rows, box, vols>>
RunHelper ==
  /\ At("r.run")
  /\ job' = [job EXCEPT !.pc = "r.wait"]
  /\ \/ /\ helper' = [helper EXCEPT !.state = "running"]
        /\ vols' = [vols EXCEPT ![helper.op] = Torn]
        /\ UNCHANGED faults
     \/ Fault /\ UNCHANGED <<helper, vols>>
  /\ UNCHANGED <<rows, box, asks, env, wanted>>
\* (wrong) Once the copying container is removed the copy counts as made.
IgnoresExitCode ==
  /\ At("r.wait") /\ helper.state # "running"
  /\ helper' = NoHelper
  /\ Acknowledged([job EXCEPT !.pc = "r.copied"])
  /\ UNCHANGED <<rows, box, vols>>
\* After its end, or after 180 seconds.
EndHelper ==
  /\ At("r.wait")
  /\ helper' = NoHelper
  /\ \/ /\ helper.state = "done"
        /\ Acknowledged([job EXCEPT !.pc = "r.copied"])
     \/ /\ helper.state \in {"created", "failed"}
        /\ Proceeds([job EXCEPT !.pc = "failed"])
     \/ /\ helper.state = "running" /\ Fault
        /\ job' = [job EXCEPT !.pc = "failed"] /\ UNCHANGED <<asks, env, wanted>>
  /\ UNCHANGED <<rows, box, vols>>
RecheckSource ==
  /\ At("r.copied")
  /\ Then(IF rec.oldId = Unset THEN "r.rename" ELSE "r.backup") /\ UNCHANGED rows
BackUpOld == At("r.backup") /\ Rename(rec.oldId, Previous) /\ Command("r.rename")
NameCandidate == At("r.rename") /\ Rename(job.cur, Main) /\ Command("r.validating")

\* Started, initialised and probed: an error of either of these is the command's.
StartCandidate == At("r.start") /\ Launch(job.cur) /\ Command("r.apply")

\* The login is waited for when there is something to go back to; the answer to
\* the transaction may be lost.
Apply ==
  /\ At("r.apply")
  /\ \E phase \in {"committed", "awaiting_login"} :
       /\ phase = "awaiting_login" => rec.oldId # Unset \/ rec.src \/ rec.new # rec.old
       /\ rec' = [rec EXCEPT !.phase = phase]
  /\ ch' = [ch EXCEPT !.settings = rec.new, !.id = job.cur, !.vol = rec.op,
                      !.stopped = ~Runs(job.cur)]
  /\ Acknowledged([job EXCEPT !.pc = "r.always"]) /\ UNCHANGED <<intent, docker>>
\* A failure here is only logged.
KeepRunning ==
  /\ At("r.always")
  /\ \/ SetPolicy(job.cur, TRUE) /\ UNCHANGED faults
     \/ Fault /\ UNCHANGED box
  /\ job' = IF rec.phase = "committed" THEN [job EXCEPT !.pc = "c.begin"] ELSE Idle
  /\ UNCHANGED <<rows, vols, helper, asks, env, wanted>>

ReplaceStep ==
  \/ Replace \/ BeginRecord \/ EnsureVolume \/ CreateCandidate \/ NotePrepared
  \/ NoteSwitching \/ HoldOld \/ StopOld \/ CreateHelper \/ RunHelper \/ EndHelper
  \/ RecheckSource \/ BackUpOld \/ NameCandidate \/ NoteValidating \/ StartCandidate
  \/ Apply \/ KeepRunning

\* The end of a handler that met an error.  A replacement that began and is not
\* applied is recovered first; update and start record what is not restored.
Failed ==
  /\ At("failed")
  /\ IF job.part = "replace" /\ rec.phase \in Unresolved \ {"queued"}
     THEN /\ Proceeds([job EXCEPT !.pc = "v.begin", !.part = "undo"])
          /\ UNCHANGED <<rows, docker>>
     ELSE /\ LET marked == /\ job.mark /\ job.part # "none"
                           /\ \/ rec.phase \in Unresolved
                              \/ job.kind = "start" /\ ch.id = Unset
             IN  ch' = [ch EXCEPT !.stopped = @ /\ ~marked]
          /\ Ends /\ UNCHANGED <<rec, intent>>

---------------------------------------------------------------------------
\* recover

\* (wrong) Whether the change was applied is read off the phase again.
ForgetsApplied ==
  /\ At("v.begin")
  /\ IF rec.phase = "none" THEN Returns /\ UNCHANGED rec
     ELSE IF rec.phase \in Terminal THEN Then("c.begin") /\ UNCHANGED rec
     ELSE /\ Then("v.helper")
          /\ rec' = [rec EXCEPT !.phase = "rolling_back",
                                !.applied = rec.phase = "awaiting_login"]
  /\ UNCHANGED <<ch, intent>>
BeginRecovery ==
  /\ At("v.begin")
  /\ IF rec.phase = "none" THEN Returns /\ UNCHANGED rec
     ELSE IF rec.phase \in Terminal THEN Then("c.begin") /\ UNCHANGED rec
     ELSE /\ Then("v.helper")
          /\ rec' = [rec EXCEPT !.phase = "rolling_back",
                                !.applied = IF rec.phase = "rolling_back" THEN @
                                            ELSE rec.phase = "awaiting_login"]
  /\ UNCHANGED <<ch, intent>>
RemoveHelper(p, q) ==
  /\ At(p)
  /\ helper' = IF helper.op = rec.op THEN NoHelper ELSE helper
  /\ Acknowledged([job EXCEPT !.pc = q]) /\ UNCHANGED <<rows, box, vols>>
\* The candidate is held, stopped and loses the channel's name.
OnCandidate(p, field, value, q) ==
  /\ At(p)
  /\ box' = [i \in DOMAIN box |-> IF i \in Owned(FALSE, TRUE)
                                  THEN [box[i] EXCEPT ![field] = value] ELSE box[i]]
  /\ Command(q)
HoldCandidate == OnCandidate("v.policy", "always", FALSE, "v.halt")
StopCandidate ==
  /\ At("v.halt")
  /\ IF Owned(FALSE, TRUE) = {} THEN UNCHANGED box ELSE Halt(The(Owned(FALSE, TRUE)))
  /\ Command("v.unname")
UnnameCandidate == OnCandidate("v.unname", "name", NextName(FALSE), "v.old")

\* A running old container under its name is left alone; one that did not run is
\* put back; any other is backed up and a container like it is made.
ChooseRestore ==
  /\ At("v.old")
  /\ IF rec.initial THEN Then("v.discard")
     ELSE IF Runs(rec.oldId) /\ box[rec.oldId].name = Main
     THEN Proceeds([job EXCEPT !.pc = "v.restore", !.cur = rec.oldId]) /\ UNCHANGED docker
     ELSE Then(IF rec.oldRun THEN "v.oldPolicy" ELSE "v.oldHalt")
  /\ UNCHANGED rows

DiscardCandidate == At("v.discard") /\ RemoveAll(Owned(FALSE, FALSE)) /\ Command("v.absent")
RestoreAbsent ==
  /\ At("v.absent")
  /\ ch' = [ch EXCEPT !.settings = IF rec.applied THEN rec.old ELSE @, !.id = Unset,
                      !.vol = rec.oldVol, !.stopped = ~rec.start]
  /\ rec' = [rec EXCEPT !.phase = "rolled_back"]
  /\ Then("c.begin") /\ UNCHANGED intent

HoldOldAgain == At("v.oldPolicy") /\ SetPolicy(rec.oldId, FALSE) /\ Command("v.oldHalt")
StopOldAgain == At("v.oldHalt") /\ Halt(rec.oldId) /\ Command("v.oldName")
NameOld ==
  /\ At("v.oldName")
  /\ Rename(rec.oldId, IF rec.oldRun THEN Previous ELSE Main)
  /\ Acknowledged([job EXCEPT !.pc = IF rec.oldRun THEN "v.partial" ELSE "v.restore",
                           !.cur = rec.oldId])
  /\ UNCHANGED <<rows, vols, helper>>
\* (wrong) What an earlier attempt made stays in the way.
KeepsPartial == At("v.partial") /\ Command("v.create") /\ UNCHANGED box
RemovePartial == At("v.partial") /\ RemoveAll(Owned(TRUE, TRUE)) /\ Command("v.create")
\* Docker makes a volume a container is created with.
CreateRestored ==
  /\ At("v.create") /\ FreeIds # {}
  /\ NewBox(FreshId, TRUE, rec.oldVol, rec.old)
  /\ vols' = [vols EXCEPT ![rec.oldVol] = IF @ = Gone THEN Empty ELSE @]
  /\ Acknowledged([job EXCEPT !.pc = "v.rename", !.cur = FreshId])
  /\ UNCHANGED <<rows, helper>>
NameRestored == At("v.rename") /\ Rename(job.cur, Main) /\ Command("v.start")
StartRestored == At("v.start") /\ Launch(job.cur) /\ Command("v.restore")

Restore ==
  /\ At("v.restore")
  /\ ch' = [ch EXCEPT !.settings = IF rec.applied THEN rec.old ELSE @, !.id = job.cur,
                      !.vol = rec.oldVol, !.stopped = ~Runs(job.cur)]
  /\ rec' = [rec EXCEPT !.phase = "rolled_back"]
  /\ Then("v.always") /\ UNCHANGED intent
PolicyRestored ==
  At("v.always") /\ SetPolicy(job.cur, rec.oldAlways) /\ Command("c.begin")

RecoverStep ==
  \/ BeginRecovery \/ RemoveHelper("v.helper", "v.policy") \/ HoldCandidate
  \/ StopCandidate \/ UnnameCandidate \/ ChooseRestore \/ DiscardCandidate
  \/ RestoreAbsent \/ HoldOldAgain \/ StopOldAgain \/ NameOld \/ RemovePartial
  \/ CreateRestored \/ NameRestored \/ StartRestored \/ Restore \/ PolicyRestored

---------------------------------------------------------------------------
\* cleanup

BeginCleanup ==
  /\ At("c.begin")
  /\ IF rec.phase \notin Terminal THEN Returns
     ELSE Then(IF rec.initial /\ rec.phase = "rolled_back" THEN "c.next" ELSE "c.current")
  /\ UNCHANGED rows
PolicyCurrent ==
  /\ At("c.current")
  /\ SetPolicy(ch.id, rec.phase = "committed" \/ rec.oldAlways)
  /\ Command("c.old")
RemoveOld == At("c.old") /\ RemoveAll({rec.oldId} \ {ch.id}) /\ Command("c.next")
RemoveCandidate ==
  At("c.next") /\ RemoveAll(Owned(FALSE, FALSE) \ {ch.id}) /\ Command("c.restored")
\* (wrong) Only the candidate counts as left over.
KeepsRestored == At("c.restored") /\ Command("c.volume") /\ UNCHANGED box
RemoveRestored ==
  At("c.restored") /\ RemoveAll(Owned(TRUE, FALSE) \ {ch.id}) /\ Command("c.volume")
RemoveVolume ==
  /\ At("c.volume")
  /\ vols' = [o \in DOMAIN vols |-> IF o \in Surplus THEN Gone ELSE vols[o]]
  /\ Acknowledged([job EXCEPT !.pc = "c.finish"]) /\ UNCHANGED <<rows, box, helper>>
Finish == At("c.finish") /\ rec' = NoRec /\ Returns /\ UNCHANGED <<ch, intent>>

CleanupStep == \/ BeginCleanup \/ PolicyCurrent \/ RemoveOld \/ RemoveCandidate
               \/ RemoveRestored \/ RemoveVolume \/ Finish

---------------------------------------------------------------------------
\* Stopping: before_stop and stop_intents::apply

BeforeStop ==
  /\ At("s.before")
  /\ IF rec.phase \in {"none", "queued"} THEN Then("s.inspect") /\ UNCHANGED rec
     ELSE IF rec.phase = "awaiting_login" THEN Then("w.begin") /\ UNCHANGED rec
     ELSE IF rec.phase \in Terminal THEN Then("c.begin") /\ UNCHANGED rec
     ELSE IF rec.initial
     THEN Then("v.begin") /\ rec' = [rec EXCEPT !.start = FALSE]
     ELSE Then("s.oldPolicy") /\ rec' = [rec EXCEPT !.oldRun = FALSE, !.start = FALSE]
  /\ UNCHANGED <<ch, intent>>
HoldStopped == At("s.oldPolicy") /\ SetPolicy(rec.oldId, FALSE) /\ Command("s.oldHalt")
HaltStopped == At("s.oldHalt") /\ Halt(rec.oldId) /\ Command("v.begin")
StopCurrent ==
  /\ At("s.inspect")
  /\ IF Free(Main) THEN UNCHANGED box ELSE Halt(ch.id)
  /\ Command("s.confirm")
ConfirmStop ==
  /\ At("s.confirm")
  /\ intent' = FALSE /\ ch' = [ch EXCEPT !.stopped = TRUE] /\ UNCHANGED rec
  /\ IF job.kind = "start" THEN Then("t.resume") ELSE Ends

StopStep == BeforeStop \/ HoldStopped \/ HaltStopped \/ StopCurrent \/ ConfirmStop

---------------------------------------------------------------------------
\* While the login is waited for: reconcile_waiting and resume

ReconcileName ==
  /\ At("w.begin")
  /\ LET i == The(Owned(FALSE, TRUE))
     IN  /\ Rename(i, Main)
         /\ Acknowledged([job EXCEPT !.pc = "w.note", !.cur = i, !.force = Runs(i)])
  /\ UNCHANGED <<rows, vols, helper>>
NoteId(p, q) ==
  /\ At(p) /\ rec' = [rec EXCEPT !.newId = job.cur]
  /\ Then(q) /\ UNCHANGED <<ch, intent>>
Resumed(p, q) ==
  /\ At(p)
  /\ ch' = [ch EXCEPT !.id = job.cur, !.vol = rec.op, !.stopped = ~Runs(job.cur)]
  /\ Then(q) /\ UNCHANGED <<rec, intent>>
ReconcilePolicy ==
  /\ At("w.always")
  /\ IF job.force THEN SetPolicy(job.cur, TRUE) ELSE UNCHANGED box
  /\ Acknowledged(IF Return = "s.inspect" THEN [job EXCEPT !.pc = "s.inspect"] ELSE Idle)
  /\ UNCHANGED <<rows, vols, helper>>

\* A start goes on with the settings that wait, or replaces the container by one
\* like it.
Resume ==
  /\ At("t.resume")
  /\ LET cand == The(Owned(FALSE, TRUE))
         starting == [job EXCEPT !.want = ch.settings, !.force = TRUE, !.mark = TRUE]
     IN  Proceeds(
           IF rec.phase = "none" THEN [starting EXCEPT !.pc = "replace"]
           ELSE IF rec.phase \in Terminal THEN [starting EXCEPT !.pc = "c.begin"]
           ELSE IF rec.phase = "queued"
           THEN [job EXCEPT !.pc = "replace", !.want = rec.new, !.force = TRUE]
           ELSE IF Owned(FALSE, TRUE) = {} THEN [job EXCEPT !.pc = "t.create"]
           ELSE IF Runs(cand) THEN [job EXCEPT !.pc = "w.begin"]
           ELSE IF box[cand].state = "created"
           THEN [job EXCEPT !.pc = "t.note", !.cur = cand]
           ELSE [job EXCEPT !.pc = "t.remove"])
  /\ UNCHANGED <<rows, docker>>
RemoveExited == At("t.remove") /\ RemoveAll(Owned(FALSE, TRUE)) /\ Command("t.create")
CreateAgain ==
  /\ At("t.create") /\ FreeIds # {}
  /\ NewBox(FreshId, FALSE, rec.op, ch.settings)
  /\ Acknowledged([job EXCEPT !.pc = "t.note", !.cur = FreshId])
  /\ UNCHANGED <<rows, vols, helper>>
NameAgain == At("t.rename") /\ Rename(job.cur, Main) /\ Command("t.start")
StartAgain == At("t.start") /\ Launch(job.cur) /\ Command("t.resumed")
PolicyAgain ==
  /\ At("t.always") /\ SetPolicy(job.cur, TRUE)
  /\ Acknowledged(Idle) /\ UNCHANGED <<rows, vols, helper>>

WaitStep ==
  \/ ReconcileName \/ NoteId("w.note", "w.resumed") \/ Resumed("w.resumed", "w.always")
  \/ ReconcilePolicy \/ Resume \/ RemoveExited \/ CreateAgain
  \/ NoteId("t.note", "t.rename") \/ NameAgain \/ StartAgain
  \/ Resumed("t.resumed", "t.always") \/ PolicyAgain

---------------------------------------------------------------------------
\* Deleting the channel: discard, or by name when nothing is unfinished

BeginDelete ==
  /\ At("d.start")
  /\ IF rec.phase = "none" THEN Then("d.bare") /\ UNCHANGED rec
     ELSE Then("d.begin") /\ rec' = [rec EXCEPT !.phase = "deleting"]
  /\ UNCHANGED <<ch, intent>>
CheckDoomed == At("d.begin") /\ Then("d.helper") /\ UNCHANGED rows
RemoveBare == At("d.bare") /\ RemoveAll(Named(Main)) /\ Command("d.volumes")
\* One of them at a time.
RemoveDoomed ==
  /\ At("d.remove")
  /\ IF Doomed = {} THEN Then("d.volumes") /\ UNCHANGED rows
     ELSE \E i \in Doomed : RemoveAll({i}) /\ Command("d.remove")
RemoveVolumes ==
  /\ At("d.volumes")
  /\ IF Labelled = {} THEN Then("d.deleted")
     ELSE \E o \in Labelled : /\ vols' = [vols EXCEPT ![o] = Gone]
                              /\ Acknowledged([job EXCEPT !.pc = "d.volumes"])
                              /\ UNCHANGED <<box, helper>>
  /\ UNCHANGED rows
Deleted ==
  /\ At("d.deleted")
  /\ ch' = [ch EXCEPT !.exists = FALSE] /\ rec' = NoRec /\ intent' = FALSE
  /\ Ends

DeleteStep == \/ BeginDelete \/ CheckDoomed \/ RemoveBare
              \/ RemoveHelper("d.helper", "d.remove")
              \/ RemoveDoomed \/ RemoveVolumes \/ Deleted

---------------------------------------------------------------------------
\* Requests of the user; each waits for the channel's operation lock

Asked == job = Idle /\ ch.exists /\ asks < MaxAsks /\ asks' = asks + 1
Begin(k, p) == job' = [Idle EXCEPT !.kind = k, !.pc = p]
\* start and restore make the runtime ready first.
Ready == env = "ready"

UpdateAsked ==
  /\ Asked /\ UNCHANGED <<rows, docker, env, faults, wanted>>
  /\ \/ rec.phase \in {"none", "queued"}
     \/ rec.phase \in Terminal /\ env # "off"
  /\ \E v \in Versions :
       job' = [Idle EXCEPT !.kind = "update", !.want = v,
                           !.pc = IF rec.phase \in Terminal THEN "c.begin" ELSE "u.save"]
\* Without the runtime, or before a stop is confirmed, the settings of a channel
\* that has a container are queued; settings like the present ones empty the queue.
SaveSettings ==
  /\ At("u.save")
  /\ IF \/ rec.phase = "queued"
        \/ (intent \/ env = "off") /\ job.want # ch.settings /\ ch.id # Unset
     THEN /\ FreeOps # {}
          /\ rec' = IF job.want = ch.settings THEN NoRec
                    ELSE [NoRec EXCEPT !.phase = "queued", !.op = FreshOp, !.new = job.want,
                                       !.oldId = ch.id, !.oldVol = ch.vol]
          /\ Ends /\ UNCHANGED <<ch, intent>>
     ELSE IF job.want # ch.settings /\ ch.id # Unset
     THEN /\ Proceeds([job EXCEPT !.pc = "replace", !.mark = TRUE])
          /\ UNCHANGED <<rows, docker>>
     ELSE /\ ch' = [ch EXCEPT !.settings = job.want]
          /\ Ends /\ UNCHANGED <<rec, intent>>

StartAsked ==
  /\ Asked /\ Ready
  /\ Begin("start", IF intent THEN "s.before" ELSE "t.resume")
  /\ wanted' = TRUE /\ UNCHANGED <<rows, docker, env, faults>>

\* The intent is saved first; without the runtime that is all.
StopAsked ==
  /\ Asked /\ rec.phase # "deleting"
  /\ intent' = (intent \/ ch.id # Unset \/ rec.phase # "none")
  /\ ch' = [ch EXCEPT !.stopped = TRUE]
  /\ IF env # "off" /\ intent' THEN Begin("stop", "s.before") ELSE UNCHANGED job
  /\ wanted' = FALSE /\ UNCHANGED <<rec, docker, env, faults>>

\* (wrong) A restore does not ask whether a stop is pending.
RestoresDespiteStop ==
  /\ Asked /\ rec.phase \in {"awaiting_login", "rolling_back"} /\ Ready
  /\ Begin("restore", "v.begin")
  /\ UNCHANGED <<rows, docker, env, faults, wanted>>
\* The settings before the change, and the client as it was.
RestoreAsked ==
  /\ Asked /\ rec.phase \notin {"none", "deleting"} \cup Terminal
  /\ \/ /\ rec.phase = "queued"
        /\ rec' = NoRec /\ UNCHANGED <<job, wanted>>
     \/ /\ rec.phase # "queued" /\ Ready /\ ~intent
        /\ Begin("restore", "v.begin") /\ UNCHANGED rec
        /\ wanted' = (wanted \/ rec.oldRun)
  /\ UNCHANGED <<ch, intent, docker, env, faults>>

DeleteAsked ==
  /\ Asked
  /\ \/ /\ env = "off" /\ ch.id = Unset /\ rec.phase = "none"
        /\ ch' = [ch EXCEPT !.exists = FALSE] /\ intent' = FALSE
        /\ UNCHANGED <<rec, job>>
     \/ env # "off" /\ Begin("delete", "d.start") /\ UNCHANGED rows
  /\ UNCHANGED <<docker, env, faults, wanted>>

Ask == UpdateAsked \/ StartAsked \/ StopAsked \/ RestoreAsked \/ DeleteAsked

---------------------------------------------------------------------------
\* The start of the runtime applies the stops, then the unfinished replacements;
\* an error of either is only logged.

StartRuntime ==
  env = "off" /\ env' = "stops" /\ UNCHANGED <<rows, docker, job, counters, wanted>>
RecoverStops ==
  /\ env = "stops" /\ job = Idle /\ env' = "replacements"
  /\ IF intent THEN Begin("stop", "s.before") ELSE UNCHANGED job
  /\ UNCHANGED <<rows, docker, counters, wanted>>
RecoverAll ==
  /\ env = "replacements" /\ job = Idle /\ env' = "ready"
  /\ IF rec.phase \in {"none", "queued"} THEN UNCHANGED job
     ELSE Begin("boot", CASE rec.phase = "awaiting_login" -> "w.begin"
                          [] rec.phase = "deleting" -> "d.start"
                          [] OTHER -> "v.begin")
  /\ UNCHANGED <<rows, docker, counters, wanted>>

\* (wrong) The phase of an older journal.
ConfirmsByOldName ==
  /\ job = Idle /\ Ready /\ rec.phase = "awaiting_login" /\ Runs(ch.id)
  /\ rec' = [rec EXCEPT !.phase = "confirmed"]
  /\ UNCHANGED <<ch, intent, docker, env, job, counters, wanted>>
\* A probe of the running client succeeded; after that, or in any later probe of
\* a running channel, what is left over is cleaned up.
ProbeConfirms ==
  /\ job = Idle /\ Ready /\ rec.phase = "awaiting_login" /\ ~intent /\ ~ch.stopped
  /\ ch.id = rec.newId /\ Runs(ch.id)
  /\ rec' = [rec EXCEPT !.phase = "committed"]
  /\ UNCHANGED <<ch, intent, docker, env, job, counters, wanted>>
CleanUp ==
  /\ job = Idle /\ Ready /\ rec.phase \in Terminal /\ ~intent /\ ~ch.stopped
  /\ Begin("cleanup", "c.begin")
  /\ UNCHANGED <<rows, docker, env, counters, wanted>>

---------------------------------------------------------------------------
\* Docker, the clients and the faults

ClientWrites ==
  /\ \E i \in DOMAIN box :
       /\ Runs(i) /\ vols[box[i].vol] \in Empty .. MaxData - 1
       /\ vols' = [vols EXCEPT ![box[i].vol] = @ + 1]
  /\ UNCHANGED <<rows, box, helper, env, job, counters, wanted>>
\* The copy of a volume that somebody writes to is worth nothing.
HelperCopies ==
  /\ helper.state = "running"
  /\ helper' = [helper EXCEPT !.state = "done"]
  /\ vols' = [vols EXCEPT ![helper.op] =
                IF \E i \in Users(helper.src) \cup Users(helper.op) : Runs(i)
                THEN Torn ELSE vols[helper.src]]
  /\ UNCHANGED <<rows, box, env, job, counters, wanted>>

\* The process ends; nothing but the handler is lost.
Crash ==
  /\ Fault /\ env # "off"
  /\ env' = "off" /\ job' = Idle /\ UNCHANGED <<rows, docker, asks, wanted>>
\* The machine stops: only the restart policy brings a container back.
MachineRestarts ==
  /\ Fault
  /\ box' = [i \in DOMAIN box |-> IF Runs(i) /\ ~box[i].always
                                  THEN [box[i] EXCEPT !.state = "exited"] ELSE box[i]]
  /\ helper' = [helper EXCEPT !.state = IF @ = "running" THEN "failed" ELSE @]
  /\ UNCHANGED <<rows, vols, env, job, asks, wanted>>
\* Somebody removes the container while nothing is going on.
BoxLost ==
  /\ Losses /\ Fault
  /\ job = Idle /\ rec.phase \in {"none", "queued"} /\ Exists(ch.id)
  /\ RemoveAll({ch.id}) /\ UNCHANGED <<rows, vols, helper, env, job, asks, wanted>>
\* Any call may fail and do nothing.
CallFails ==
  /\ job.pc \notin {"idle", "failed"} /\ Fault
  /\ job' = [job EXCEPT !.pc = "failed"]
  /\ UNCHANGED <<rows, docker, env, asks, wanted>>
Refused ==
  /\ ~Expected /\ job' = [job EXCEPT !.pc = "failed"]
  /\ UNCHANGED <<rows, docker, env, counters, wanted>>

Handler == \/ Failed \/ Refused
           \/ Expected /\ \/ ReplaceStep \/ RecoverStep \/ CleanupStep \/ StopStep
                          \/ WaitStep \/ DeleteStep \/ SaveSettings
Boot == StartRuntime \/ RecoverStops \/ RecoverAll
Environment == ClientWrites \/ HelperCopies \/ Crash \/ MachineRestarts \/ BoxLost \/ CallFails
\* The lock is free and nobody asks for anything.
Rest == job = Idle /\ UNCHANGED replacementVars

ReplacementNext == Handler \/ Ask \/ Boot \/ ProbeConfirms \/ CleanUp \/ Environment \/ Rest

\* Handlers run on, the copy goes on, a process that ended is started again, and
\* a running channel is probed again and again.
Fairness == /\ WF_replacementVars(Handler) /\ WF_replacementVars(HelperCopies)
            /\ WF_replacementVars(Boot) /\ WF_replacementVars(CleanUp)
ReplacementSpec == ReplacementInit /\ [][ReplacementNext]_replacementVars
FairSpec == ReplacementSpec /\ Fairness

---------------------------------------------------------------------------
\* Properties

Begun == Phases \ ({"none", "queued", "deleting"} \cup Terminal)

\* Never do two containers of the channel run: the old client and the candidate
\* would log in with one account and write to each other's data.
OneClientRuns == \A i, j \in DOMAIN box : Runs(i) /\ Runs(j) => i = j

\* Until the replacement is settled the way back is there: the old container under
\* one of its two names with its own volume, or at least that volume, untouched.
WayBackIsKept ==
  rec.phase \in Begun =>
    /\ rec.oldId # Unset => IsOurs(rec.oldId, {Main, Previous}, rec.oldVol)
    /\ rec.src => vols[rec.oldVol] >= Empty

\* A replacement is applied as a whole or not at all, and a recovery that is cut
\* off and begun anew still knows which (config_applied): settings and volume are
\* both the new ones or both the old ones.
AllOrNothing ==
  LET new == /\ ch.settings = rec.new /\ ch.vol = rec.op
      old == /\ ch.settings = rec.old /\ ch.vol = rec.oldVol
  IN  /\ rec.phase \in {"preparing", "prepared", "switching", "validating"} => old
      /\ rec.phase \in {"awaiting_login", "committed"} => new
      /\ rec.phase = "rolling_back" => IF rec.applied THEN new ELSE old
      /\ rec.phase = "rolled_back" => old

\* Outside a replacement the channel's row describes its container: the name, the
\* volume and the settings it was made with are the saved ones.
RowsDescribeContainer ==
  rec.phase \in {"none", "queued"} \cup Terminal =>
    /\ Exists(ch.id) => /\ IsOurs(ch.id, {Main}, ch.vol)
                        /\ box[ch.id].cfg = ch.settings
    /\ ch.id = Unset => Free(Main)

\* No data the client saved is lost: the content of the selected volume never
\* falls behind, but by the user's going back to the settings before a change.
NoDataLost ==
  [][ \/ rec.phase = "rolling_back" /\ rec.applied
      \/ rec.phase = "deleting" \/ job.kind = "delete"
      \/ vols'[ch'.vol] >= vols[ch.vol] ]_replacementVars

\* What no record speaks of is only the channel's present container and volume:
\* each replacement, however often it was cut off, takes its leftovers with it.
NoLeftovers ==
  rec.phase \in {"none", "queued"} /\ job.kind # "delete" =>
    /\ DOMAIN box \subseteq {ch.id}
    /\ Labelled \subseteq {ch.vol} /\ helper.state = "none"

\* A deleted channel leaves no container and none of its labelled volumes, but for
\* the selected one of a channel without a container that was deleted while the
\* runtime was off.
DeletedIsGone ==
  ~ch.exists => /\ DOMAIN box = {} /\ helper.state = "none"
                /\ Labelled \subseteq IF ch.id = Unset THEN {ch.vol} ELSE {}
\* Before the configuration is deleted all labelled volumes of the channel are
\* removed (replacement.rs:118-119).
DeletedLeavesNoVolume == ~ch.exists => Labelled = {}

\* A deletion that began can only be finished: it starts no client, and neither a
\* crash nor a restart turns it into a recovery.
DeleteIsFinal ==
  [][ rec.phase = "deleting" =>
        /\ rec'.phase = "deleting" \/ ~ch'.exists
        /\ \A i \in DOMAIN box' : box'[i].state = "running" => Runs(i) ]_replacementVars

\* Neither a change of its settings nor the recovery of one starts a client the
\* user stopped, as long as its container is there.
Starts == \E i \in DOMAIN box' : box'[i].state = "running" /\ ~Runs(i)
StoppedIsNotStarted == [][~wanted /\ ~intent /\ ~rec.oldRun => ~Starts]_replacementVars

\* No client is started while a stop is pending, other than by the recovery of the
\* replacements when the runtime starts.
PendingStopIsNotStarted == [][intent /\ intent' /\ job.kind # "boot" => ~Starts]_replacementVars
\* A stop during an unfinished operation is saved first, so that its recovery does
\* not log in once more (docs/development.md:141).
StopPreventsLogin == [][intent /\ intent' => ~Starts]_replacementVars

\* Outside a replacement a client that runs comes back after a restart of the
\* machine, although a replacement takes the restart policy from each container.
ClientComesBack ==
  rec.phase \in {"none", "queued"} /\ Runs(ch.id) => box[ch.id].always

\* Once no more faults happen, a start of the process settles what was begun,
\* unless a stop is asked for as well.
RestartSettles ==
  (rec.phase \in Begun \ {"awaiting_login"} /\ env = "off" /\ faults = MaxFaults /\ ~intent)
    ~> (rec.phase \notin Begun \ {"awaiting_login"} \/ intent)
\* What a settled replacement of a running channel left is removed.
LeftoversRemoved ==
  (rec.phase \in Terminal /\ faults = MaxFaults)
    ~> (rec.phase \notin Terminal \/ ch.stopped \/ intent)
\* A stop that was saved is confirmed when the environment is back
\* (stop_intents.rs:1).
StopIsConfirmed == (intent /\ env = "off" /\ faults = MaxFaults) ~> ~intent

\* At every step of a replacement, crash included: one client at most is logged
\* in, the way back exists, and settings and volume belong together
\* (replacement.rs:205-470).
Reversible == OneClientRuns /\ WayBackIsKept /\ AllOrNothing

\* Between replacements the rows are the truth: they describe the container that
\* is there, nothing else is left of the channel, its client comes back after a
\* restart, and a deleted channel is gone (replacement.rs:95-190, 470-625).
SettledIsWhole ==
  RowsDescribeContainer /\ NoLeftovers /\ ClientComesBack /\ DeletedIsGone

\* What the user decided is final: no change or recovery starts a client that was
\* stopped or is being stopped, and a deletion that began never turns back
\* (stop_intents.rs:1-120, replacement.rs:95-135).
StopIsRespected == StoppedIsNotStarted /\ PendingStopIsNotStarted /\ DeleteIsFinal

\* Starting again finishes what was cut off: the replacement comes to an end, and
\* what it left of the old and the new client is removed (replacement.rs:205-470).
RestartFinishes == RestartSettles /\ LeftoversRemoved
=============================================================================
