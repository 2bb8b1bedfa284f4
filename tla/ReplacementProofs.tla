-------------------------- MODULE ReplacementProofs --------------------------
(***************************************************************************)
(* Proofs about Replacement: the phase in the journal, the containers, the *)
(* volumes and the rows fit together at every step of every procedure,     *)
(* whatever fails, crashes or restarts.  The invariant is a conjunction by *)
(* topic; each action keeps it by a lemma of its own.  The properties      *)
(* follow from it, the action properties with what most steps leave alone. *)
(***************************************************************************)
EXTENDS Replacement, TLAPS

-----------------------------------------------------------------------------
\* The types by component

Boxes == [name : Names, vol : 0 .. MaxOp, op : 0 .. MaxOp, restore : BOOLEAN,
          state : {"created", "running", "exited"}, always : BOOLEAN, cfg : Versions]
Jobs == [kind : Kinds, part : {"none", "replace", "undo"}, pc : PCs,
         want : Versions \cup {Unset}, force : BOOLEAN, cur : Ids \cup {Unset},
         mark : BOOLEAN]
Records == [phase : Phases, op : 0 .. MaxOp, new : Versions \cup {Unset},
            old : Versions \cup {Unset}, initial : BOOLEAN, src : BOOLEAN,
            oldId : Ids \cup {Unset}, oldVol : 0 .. MaxOp, oldRun : BOOLEAN,
            oldAlways : BOOLEAN, start : BOOLEAN, applied : BOOLEAN,
            newId : Ids \cup {Unset}]
RowsTyped ==
  /\ ch \in [exists : BOOLEAN, settings : Versions, id : Ids \cup {Unset},
             vol : 0 .. MaxOp, stopped : BOOLEAN]
  /\ rec \in Records /\ intent \in BOOLEAN /\ wanted \in BOOLEAN
BoxesTyped == DOMAIN box \subseteq Ids /\ \A i \in DOMAIN box : box[i] \in Boxes
VolumesTyped ==
  /\ vols \in [0 .. MaxOp -> Gone .. MaxData]
  /\ helper \in [op : 0 .. MaxOp, src : 0 .. MaxOp,
                 state : {"none", "created", "running", "done", "failed"}]
JobTyped ==
  /\ job \in Jobs /\ env \in {"off", "stops", "replacements", "ready"}
  /\ asks \in 0 .. MaxAsks /\ faults \in 0 .. MaxFaults

\* Together they are the type invariant of the module.
LEMMA TypeParts == ReplacementTypeOK <=> RowsTyped /\ BoxesTyped /\ VolumesTyped /\ JobTyped
BY DEF ReplacementTypeOK, RowsTyped, BoxesTyped, VolumesTyped, JobTyped, Records, Boxes, Jobs

-----------------------------------------------------------------------------
\* What a step does to its handler

\* All but where it is.
SameJob == /\ job'.kind = job.kind /\ job'.part = job.part /\ job'.want = job.want
           /\ job'.force = job.force /\ job'.mark = job.mark

\* Where an error leads.
LEMMA FailedIsAPlace == "failed" \in PCs
BY DEF PCs

\* A command leaves its handler at the next step or failed.
LEMMA CommandGoes ==
  ASSUME JobTyped, NEW p \in PCs, Acknowledged([job EXCEPT !.pc = p])
  PROVE  /\ JobTyped' /\ SameJob /\ job'.cur = job.cur /\ job'.pc \in {p, "failed"}
         /\ UNCHANGED <<env, wanted>>
BY ReplacementAssumption, FailedIsAPlace DEF Acknowledged, Fault, JobTyped, Jobs, SameJob

\* One that finds or makes the container to work at remembers it.
LEMMA CommandTakes ==
  ASSUME JobTyped, NEW p \in PCs \ {"failed"}, NEW c \in Ids \cup {Unset},
         Acknowledged([job EXCEPT !.pc = p, !.cur = c])
  PROVE  /\ JobTyped' /\ SameJob /\ job'.pc \in {p, "failed"} /\ (job'.pc = p => job'.cur = c)
         /\ UNCHANGED <<env, wanted>>
<1>1. /\ UNCHANGED <<asks, env, wanted>>
      /\ \/ job' = [job EXCEPT !.pc = p, !.cur = c] /\ UNCHANGED faults
         \/ faults < MaxFaults /\ faults' = faults + 1 /\ job' = [job EXCEPT !.pc = "failed"]
  BY DEF Acknowledged, Fault
<1>2. CASE job' = [job EXCEPT !.pc = p, !.cur = c] /\ UNCHANGED faults
  BY <1>1, <1>2 DEF JobTyped, Jobs, SameJob
<1>3. CASE faults < MaxFaults /\ faults' = faults + 1 /\ job' = [job EXCEPT !.pc = "failed"]
  BY <1>1, <1>3, FailedIsAPlace, ReplacementAssumption DEF JobTyped, Jobs, SameJob
<1> QED
  BY <1>1, <1>2, <1>3

\* A transaction or a decision goes on.
LEMMA ThenGoes ==
  ASSUME JobTyped, NEW p \in PCs, Proceeds([job EXCEPT !.pc = p])
  PROVE  /\ JobTyped' /\ SameJob /\ job'.cur = job.cur /\ job'.pc = p
         /\ UNCHANGED <<env, wanted>>
BY DEF Proceeds, counters, JobTyped, Jobs, SameJob

\* The end of a handler.
LEMMA IdleGoes ==
  ASSUME JobTyped, Proceeds(Idle)
  PROVE  JobTyped' /\ job' = Idle /\ UNCHANGED <<env, wanted>>
BY ReplacementAssumption DEF Proceeds, counters, JobTyped, Jobs, Idle, PCs, Kinds

-----------------------------------------------------------------------------
\* What is recorded: a replacement that began, ended or is being discarded.
Quiet == {"none", "queued"}
Open == Begun \cup Terminal
Recorded == Open \cup {"deleting"}

\* The two kinds of container a replacement makes.
Candidate(i) == box[i].op = rec.op /\ ~box[i].restore
Restored(i) == box[i].op = rec.op /\ box[i].restore

-----------------------------------------------------------------------------
\* Where a handler is in its procedure

Copying == {"r.run", "r.wait"}
Copied == {"r.copied", "r.backup", "r.rename", "r.validating"}
Switching == {"r.policy", "r.halt", "r.copy"} \cup Copying \cup Copied
Replacing == {"r.volume", "r.create", "r.prepared", "r.switching", "r.start", "r.apply"} \cup Switching
PutBack == {"v.create", "v.rename", "v.start"}
Exchanged == {"v.oldName", "v.partial"} \cup PutBack
Unnamed == {"v.old", "v.discard", "v.absent", "v.oldPolicy", "v.oldHalt", "v.restore"} \cup Exchanged
Helperless == {"v.policy", "v.halt", "v.unname"} \cup Unnamed
Recovering == {"v.helper"} \cup Helperless
Settling == {"c.old", "c.next", "c.restored", "c.volume", "c.finish"}
Reconciled == {"w.note", "w.resumed", "w.always"}
Renewed == {"t.note", "t.rename", "t.start", "t.resumed", "t.always"}
Waiting == {"w.begin", "t.remove", "t.create"} \cup Reconciled \cup Renewed
Deleting == {"d.start", "d.begin", "d.bare", "d.helper", "d.remove", "d.volumes", "d.deleted"}
Starting == {"t.resume", "t.remove", "t.create"} \cup Renewed

\* Each procedure runs in its phases.
PhaseFits ==
  /\ job.pc \in {"r.begin", "u.save"} => rec.phase \in Quiet
  /\ job.pc \in {"r.volume", "r.create", "r.prepared"} => rec.phase = "preparing"
  /\ job.pc = "r.switching" => rec.phase = "prepared"
  /\ job.pc \in Switching => rec.phase = "switching"
  /\ job.pc \in {"r.start", "r.apply"} => rec.phase = "validating"
  /\ job.pc = "r.always" => rec.phase \in {"committed", "awaiting_login"}
  /\ job.pc \in Recovering => rec.phase = "rolling_back"
  /\ job.pc = "v.always" => rec.phase = "rolled_back"
  /\ job.pc \in {"c.begin", "c.current"} \cup Settling => rec.phase \in Terminal
  /\ job.pc \in {"s.oldPolicy", "s.oldHalt"} =>
       rec.phase \in Begun \ {"awaiting_login"} /\ ~rec.initial /\ ~rec.oldRun /\ ~rec.start
  /\ job.pc \in {"s.inspect", "s.confirm"} => rec.phase \in Quiet \cup {"awaiting_login"}
  /\ job.pc \in Waiting => rec.phase = "awaiting_login"
  /\ job.pc = "d.bare" => rec.phase = "none"
  /\ job.pc \in {"d.begin", "d.helper", "d.remove"} => rec.phase = "deleting"
  /\ job.pc \in {"d.volumes", "d.deleted"} => rec.phase \in {"none", "deleting"}

\* Who runs it, and that no stop is pending where a client may be started.
KindFits ==
  /\ job.kind = "start" => wanted
  /\ job.kind = "update" /\ job.mark => rec.phase # "queued"
  /\ job.part # "none" => job.kind \in {"start", "update"} /\ ~intent /\ rec.phase # "deleting"
  /\ job.pc \in {"s.before", "s.oldPolicy", "s.oldHalt", "s.inspect", "s.confirm"} \cup Waiting
       => job.part = "none"
  /\ job.kind = "update" /\ job.part = "none" =>
       /\ job.pc \in {"replace", "u.save", "failed", "c.begin", "c.current"} \cup Settling
       /\ ~job.force /\ job.want \in Versions
  /\ job.kind = "start" /\ job.part = "none" /\ ~intent =>
       job.want \in Versions \/ job.pc \in Starting \cup Waiting \cup {"failed"}
  /\ job.pc = "replace" => job.kind \in {"start", "update"} /\ job.part = "none" /\ ~intent
  /\ job.pc = "replace" /\ job.kind = "update" => ch.id # Unset /\ ~job.force
  /\ job.pc \in {"r.begin", "r.always"} \cup Replacing => job.part = "replace"
  /\ job.pc \in Starting => job.kind = "start" /\ job.part = "none" /\ ~intent
  /\ job.pc = "u.save" => job.kind = "update" /\ job.part = "none"
  /\ job.pc \in {"replace", "r.begin", "u.save"} => job.want \in Versions
  /\ job.pc \in Deleting => /\ ch.exists /\ job.part = "none"
                            /\ job.kind = "delete" \/ rec.phase = "deleting"
  /\ ~ch.exists => job = Idle /\ rec.phase = "none" /\ ~intent

\* What was read when the replacement began.
RecordFits ==
  /\ rec.phase = "none" => rec = NoRec
  /\ rec.phase # "none" => rec.op \in Ops /\ rec.op # rec.oldVol
  /\ rec.phase = "queued"
       => rec.oldId = ch.id /\ rec.oldVol = ch.vol /\ ch.id # Unset /\ rec.new \in Versions
  /\ rec.phase \in Open =>
       /\ rec.new \in Versions /\ rec.old \in Versions
       /\ rec.initial <=> rec.oldId = Unset
       /\ rec.initial => ~rec.oldRun /\ ~rec.oldAlways
       /\ ~rec.initial => rec.src
       /\ rec.oldRun => rec.oldAlways
  /\ job.pc \in {"v.discard", "v.absent"} => rec.initial
  /\ job.pc \in {"v.oldPolicy", "v.oldHalt", "v.restore", "v.always"} \cup Exchanged
       => ~rec.initial
  /\ job.pc \in {"v.partial"} \cup PutBack => rec.oldRun
  /\ job.pc \in {"r.policy", "r.halt", "r.backup"} => rec.oldId # Unset
  /\ job.pc \in {"r.copy"} \cup Copying => rec.src
  /\ job.pc = "r.start" => rec.start
  /\ job.pc = "c.current" => ~(rec.initial /\ rec.phase = "rolled_back")

-----------------------------------------------------------------------------
\* The containers

\* Between replacements there is the channel's own; during one there are the old
\* container, the candidate and the restored one, each under names of its own.
BoxesFit ==
  /\ rec.phase \in Quiet => DOMAIN box \subseteq {ch.id}
  /\ rec.phase = "queued" => \A i \in DOMAIN box : box[i].op # rec.op
  /\ \A i, j \in DOMAIN box : box[i].name = box[j].name => i = j
  /\ rec.phase \in Recorded =>
       /\ \A i \in DOMAIN box : i = rec.oldId \/ box[i].op = rec.op
       /\ Exists(rec.oldId)
            => IsOurs(rec.oldId, {Main, Previous}, rec.oldVol) /\ box[rec.oldId].op # rec.op
       /\ \A i \in DOMAIN box : Candidate(i)
            => box[i].vol = rec.op /\ box[i].name \in {NextName(FALSE), Main}
       /\ \A i \in DOMAIN box : Restored(i) => 
            /\ box[i].vol = rec.oldVol /\ box[i].name \in {NextName(TRUE), Main}
            /\ rec.phase \in {"rolling_back", "rolled_back", "deleting"}
       /\ \A i, j \in DOMAIN box : Candidate(i) /\ Candidate(j) => i = j
       /\ \A i, j \in DOMAIN box : Restored(i) /\ Restored(j) => i = j
  /\ rec.phase \in Open =>
       /\ Exists(rec.oldId) => box[rec.oldId].cfg = rec.old /\ (Runs(rec.oldId) => rec.oldAlways)
       /\ \A i \in DOMAIN box : Candidate(i) => box[i].cfg = rec.new
       /\ \A i \in DOMAIN box : Restored(i) => box[i].cfg = rec.old /\ rec.oldAlways

\* Which container the row of the channel names.
RowFits ==
  /\ rec.phase \in Quiet /\ Exists(ch.id) =>
       /\ IsOurs(ch.id, {Main}, ch.vol) /\ box[ch.id].cfg = ch.settings
       /\ Runs(ch.id) => box[ch.id].always
  /\ rec.phase \in {"awaiting_login", "committed"} /\ Exists(ch.id) => Candidate(ch.id)
  /\ rec.phase = "committed" /\ Exists(ch.id) => box[ch.id].name = Main
  /\ rec.phase = "rolled_back" =>
       /\ rec.initial => ch.id = Unset /\ DOMAIN box = {}
       /\ Exists(ch.id) => (ch.id = rec.oldId \/ Restored(ch.id)) /\ box[ch.id].name = Main
       /\ \A i \in DOMAIN box : Candidate(i) => box[i].name = NextName(FALSE)
  /\ ch.id = Unset /\ rec.phase \in Terminal => Free(Main)

\* Who may run: the old client until it was halted, then the candidate under the
\* channel's name, and in a recovery the restored one after both were halted.
RunsFit ==
  /\ OneClientRuns
  /\ rec.phase \in {"preparing", "prepared", "switching"} =>
       \A i \in DOMAIN box : Candidate(i) => box[i].state = "created"
  /\ job.pc \in {"r.copy", "r.start", "r.apply"} \cup Copying \cup Copied
       \/ rec.phase \in {"validating", "awaiting_login", "committed"} =>
       ~Runs(rec.oldId)
  /\ rec.phase \in {"validating", "awaiting_login", "committed"} =>
       \A i \in DOMAIN box : Candidate(i) /\ Runs(i) => box[i].name = Main
  /\ job.pc \in {"v.unname"} \cup Unnamed \/ rec.phase = "rolled_back" =>
       \A i \in DOMAIN box : Candidate(i) => ~Runs(i)
  /\ job.pc \in Exchanged => ~Runs(rec.oldId)
  /\ job.pc = "s.confirm" => \A i \in DOMAIN box : ~Runs(i)

\* The container a handler is working on, and what it has already removed.
WorkFits ==
  /\ job.pc \in {"r.volume", "r.create", "t.create", "v.absent"}
       => \A i \in DOMAIN box : ~Candidate(i)
  /\ job.pc \in {"r.always"} \cup (Replacing \ {"r.volume", "r.create"})
       => Exists(job.cur) /\ Candidate(job.cur)
  /\ job.pc \in {"r.validating", "r.start", "r.apply", "r.always"} => box[job.cur].name = Main
  /\ job.pc \in Unnamed => \A i \in DOMAIN box : Candidate(i) => box[i].name = NextName(FALSE)
  /\ job.pc = "v.create" => \A i \in DOMAIN box : ~Restored(i)
  /\ job.pc \in {"v.rename", "v.start"} => Exists(job.cur) /\ Restored(job.cur)
  /\ job.pc = "v.start" => box[job.cur].name = Main
  /\ job.pc = "v.restore" => /\ Exists(job.cur) /\ (job.cur = rec.oldId \/ Restored(job.cur))
                             /\ box[job.cur].name = Main
  /\ job.pc \in Reconciled \cup Renewed => Exists(job.cur) /\ Candidate(job.cur)
  /\ job.pc \in Reconciled \cup {"t.start", "t.resumed", "t.always"} => box[job.cur].name = Main
  /\ job.pc \in Settling => 
       \/ rec.initial /\ rec.phase = "rolled_back"
       \/ Exists(ch.id) /\ (Runs(ch.id) => box[ch.id].always)
  /\ job.pc \in Settling \ {"c.old"} /\ Exists(rec.oldId) => rec.oldId = ch.id
  /\ job.pc \in {"c.restored", "c.volume", "c.finish"} => \A i \in DOMAIN box : Candidate(i)
       => i = ch.id
  /\ job.pc \in {"c.volume", "c.finish"} => \A i \in DOMAIN box : Restored(i) => i = ch.id
  /\ job.pc \in {"d.volumes", "d.deleted"} => DOMAIN box = {}
  /\ ~ch.exists => DOMAIN box = {}

-----------------------------------------------------------------------------
\* The volumes

\* The copying container belongs to the operation and is gone before the copy
\* counts, before a recovery goes on and before a deletion ends.
HelperFits ==
  /\ helper.state # "none"
       => helper.op = rec.op /\ rec.phase \in {"switching", "rolling_back", "deleting"}
  /\ job.pc \in {"r.policy", "r.halt", "r.copy"} => helper.state = "none"
  /\ job.pc \in Copied \cup Helperless \cup {"d.remove", "d.volumes", "d.deleted"}
       => helper.state = "none"
  /\ job.pc \in Copying => helper.op = rec.op /\ helper.src = rec.oldVol
  /\ job.pc = "r.run" => helper.state = "created"
  /\ job.pc = "r.wait" /\ helper.state = "done" => vols[rec.op] = vols[rec.oldVol]

\* The selected volume is whole, the old one is kept, the candidate's is a copy
\* when the candidate counts, and there are no others.
VolumesFit ==
  /\ vols[0] # Torn
  /\ rec.phase \in Quiet => Labelled \subseteq {ch.vol} /\ vols[ch.vol] # Torn
  /\ rec.phase = "queued" => vols[rec.op] = Gone
  /\ rec.phase \in Open => Labelled \subseteq {rec.op, rec.oldVol} 
  /\ rec.phase \in Open /\ ~rec.src => vols[rec.oldVol] = Gone
  /\ rec.phase \in Begun \cup {"rolled_back"} /\ rec.src => vols[rec.oldVol] >= Empty
  /\ job.pc \in {"r.create", "r.prepared", "r.switching", "r.policy", "r.halt", "r.copy"}
       => vols[rec.op] = Empty
  /\ job.pc \in Copied \/ rec.phase = "validating"
       => vols[rec.op] >= Empty /\ vols[rec.op] >= vols[rec.oldVol]
  /\ rec.phase \in {"awaiting_login", "committed"} => vols[rec.op] >= Empty
  /\ job.pc = "c.finish" => Labelled \subseteq {ch.vol}
  /\ job.pc = "d.deleted" => Labelled = {}
  /\ ~ch.exists => Labelled \subseteq IF ch.id = Unset THEN {ch.vol} ELSE {}

-----------------------------------------------------------------------------
\* The user's last word

\* Whatever runs, or would be started, the user wants or is about to stop.
WishFits ==
  /\ (\E i \in DOMAIN box : Runs(i)) => wanted \/ intent
  /\ ch.exists /\ rec.phase \in Quiet \cup Terminal /\ ~ch.stopped /\ ch.id # Unset
       => wanted \/ intent
  /\ rec.phase \in (Begun \cup Terminal) \ {"awaiting_login"} /\ rec.oldRun => wanted \/ intent
  /\ job.pc = "v.begin" /\ rec.oldRun => wanted \/ intent
  /\ job.pc = "r.begin" /\ job.force => wanted
  /\ job.pc \in Replacing /\ rec.start => wanted
  /\ job.pc \in {"v.begin"} \cup Recovering /\ intent /\ job.kind # "boot" => ~rec.oldRun

ReplacementInv ==
  /\ RowsTyped /\ BoxesTyped /\ VolumesTyped /\ JobTyped /\ PhaseFits /\ KindFits /\ RecordFits
       /\ AllOrNothing
  /\ BoxesFit /\ RowFits /\ RunsFit /\ WorkFits /\ HelperFits /\ VolumesFit /\ WishFits
-----------------------------------------------------------------------------
\* What a command does to the containers, field by field

SameNames(S) == \A j \in S : box'[j].name = box[j].name
SameStates(S) == \A j \in S : box'[j].state = box[j].state
SamePolicies(S) == \A j \in S : box'[j].always = box[j].always
\* What a container was made with never changes.
SameMakes(S) == \A j \in S :
  /\ box'[j].vol = box[j].vol /\ box'[j].op = box[j].op
  /\ box'[j].restore = box[j].restore /\ box'[j].cfg = box[j].cfg

\* A restart policy changes nothing else.
LEMMA PolicyMoves ==
  ASSUME BoxesTyped, NEW i \in DOMAIN box, NEW v \in BOOLEAN, SetPolicy(i, v)
  PROVE  /\ DOMAIN box' = DOMAIN box /\ BoxesTyped'
         /\ SameMakes(DOMAIN box) /\ SameNames(DOMAIN box) /\ SameStates(DOMAIN box)
         /\ SamePolicies(DOMAIN box \ {i}) /\ box'[i].always = v
BY DEF SetPolicy, Change, BoxesTyped, Boxes, SameMakes, SameNames, SameStates, SamePolicies

\* Nor does a stop, which is seen by a running container only.
LEMMA HaltMoves ==
  ASSUME BoxesTyped, NEW i \in DOMAIN box, Halt(i)
  PROVE  /\ DOMAIN box' = DOMAIN box /\ BoxesTyped'
         /\ SameMakes(DOMAIN box) /\ SameNames(DOMAIN box) /\ SamePolicies(DOMAIN box)
         /\ SameStates(DOMAIN box \ {i}) /\ box'[i].state # "running"
         /\ box[i].state = "created" => box'[i].state = "created"
BY DEF Halt, Change, BoxesTyped, Boxes, SameMakes, SameNames, SameStates, SamePolicies

\* A start starts one container.
LEMMA LaunchMoves ==
  ASSUME BoxesTyped, NEW i \in DOMAIN box, Launch(i)
  PROVE  /\ DOMAIN box' = DOMAIN box /\ BoxesTyped'
         /\ SameMakes(DOMAIN box) /\ SameNames(DOMAIN box) /\ SamePolicies(DOMAIN box)
         /\ SameStates(DOMAIN box \ {i}) /\ box'[i].state = "running"
BY DEF Launch, Change, BoxesTyped, Boxes, SameMakes, SameNames, SameStates, SamePolicies

\* A new name is all a renamed container gets.
LEMMA RenameMoves ==
  ASSUME BoxesTyped, NEW i \in DOMAIN box, NEW n \in Names, Rename(i, n)
  PROVE  /\ DOMAIN box' = DOMAIN box /\ BoxesTyped'
         /\ SameMakes(DOMAIN box) /\ SameStates(DOMAIN box) /\ SamePolicies(DOMAIN box)
         /\ SameNames(DOMAIN box \ {i}) /\ box'[i].name = n
BY DEF Rename, Change, BoxesTyped, Boxes, SameMakes, SameNames, SameStates, SamePolicies, Names

\* Removing some containers leaves the others as they are.
LEMMA RemoveMoves ==
  ASSUME BoxesTyped, NEW S, RemoveAll(S)
  PROVE  /\ DOMAIN box' = DOMAIN box \ S /\ BoxesTyped'
         /\ SameMakes(DOMAIN box \ S) /\ SameNames(DOMAIN box \ S)
         /\ SameStates(DOMAIN box \ S) /\ SamePolicies(DOMAIN box \ S)
BY DEF RemoveAll, BoxesTyped, Boxes, SameMakes, SameNames, SameStates, SamePolicies, Names

\* A new container has the operation's name and volume and does not run.
MadeAs(i, b, o, v) ==
  /\ DOMAIN box' = DOMAIN box \cup {i} /\ BoxesTyped'
  /\ SameMakes(DOMAIN box) /\ SameNames(DOMAIN box)
  /\ SameStates(DOMAIN box) /\ SamePolicies(DOMAIN box)
  /\ box'[i].name = NextName(b) /\ box'[i].vol = o /\ box'[i].op = rec.op
  /\ box'[i].restore = b /\ box'[i].state = "created" /\ box'[i].cfg = v

LEMMA NewMoves ==
  ASSUME BoxesTyped, NEW i \in Ids \ DOMAIN box, NEW b \in BOOLEAN, NEW o \in 0 .. MaxOp,
         NEW v \in Versions, rec.op \in Ops, NewBox(i, b, o, v)
  PROVE  MadeAs(i, b, o, v)
<1>1. NextName(b) \in Names
  BY DEF NextName, Names
<1> DEFINE n == [name |-> NextName(b), vol |-> o, op |-> rec.op, restore |-> b,
                 state |-> "created", always |-> FALSE, cfg |-> v]
<1>2. n \in Boxes
  BY <1>1 DEF Boxes, Ops
<1>3. DOMAIN box' = DOMAIN box \cup {i}
        /\ \A j \in DOMAIN box' : box'[j] = IF j = i THEN n ELSE box[j]
  BY DEF NewBox
<1>4. BoxesTyped'
  BY <1>2, <1>3 DEF BoxesTyped, Boxes, Ids, Names
<1> QED
  BY <1>3, <1>4 DEF MadeAs, SameMakes, SameNames, SameStates, SamePolicies

\* The candidate is held by its restart policy, which changes nothing else.
LEMMA HoldMoves ==
  ASSUME BoxesTyped, NEW S,
         box' = [i \in DOMAIN box |-> IF i \in S THEN [box[i] EXCEPT !["always"] = FALSE] ELSE box[i]]
  PROVE  /\ DOMAIN box' = DOMAIN box /\ BoxesTyped'
         /\ SameMakes(DOMAIN box) /\ SameNames(DOMAIN box) /\ SameStates(DOMAIN box)
BY DEF BoxesTyped, Boxes, SameMakes, SameNames, SameStates

\* One volume gets another content.
LEMMA VolumeMoves ==
  ASSUME VolumesTyped, NEW o \in 0 .. MaxOp, NEW v \in Gone .. MaxData,
         vols' = [vols EXCEPT ![o] = v]
  PROVE  /\ vols' \in [0 .. MaxOp -> Gone .. MaxData] /\ vols'[o] = v
         /\ \A p \in 0 .. MaxOp : p # o => vols'[p] = vols[p]
<1>1. vols \in [0 .. MaxOp -> Gone .. MaxData]
  BY DEF VolumesTyped
<1> QED
  BY <1>1

\* A number drawn for an operation is used by nothing.
LEMMA FreshOps ==
  ASSUME FreeOps # {}
  PROVE  /\ FreshOp \in Ops /\ FreshOp # rec.op /\ FreshOp # ch.vol /\ vols[FreshOp] = Gone
         /\ \A i \in DOMAIN box : box[i].op # FreshOp
BY DEF FreshOp, The, FreeOps

\* Nor is one drawn for a container.
LEMMA FreshIds ==
  ASSUME FreeIds # {}
  PROVE  FreshId \in Ids \ DOMAIN box /\ FreshId # ch.id /\ FreshId # rec.oldId
BY DEF FreshId, The, FreeIds

\* Whoever is chosen is one of those there are.
LEMMA TheIsOne == ASSUME NEW S, S # {} PROVE The(S) \in S
BY DEF The

\* No handler at all.
LEMMA IdleIsAJob == Idle \in Jobs
BY DEF Idle, Jobs, Kinds, PCs

\* A handler that ends after a command, or fails in it.
LEMMA CommandEnds ==
  ASSUME JobTyped, Acknowledged(Idle)
  PROVE  /\ JobTyped' /\ UNCHANGED <<env, wanted>>
         /\ \/ job' = Idle
            \/ SameJob /\ job'.cur = job.cur /\ job'.pc = "failed"
<1>1. /\ UNCHANGED <<asks, env, wanted>>
      /\ \/ job' = Idle /\ UNCHANGED faults
         \/ faults < MaxFaults /\ faults' = faults + 1 /\ job' = [job EXCEPT !.pc = "failed"]
  BY DEF Acknowledged, Fault
<1>2. Idle \in Jobs
  BY IdleIsAJob
<1>3. CASE job' = Idle /\ UNCHANGED faults
  BY <1>1, <1>2, <1>3 DEF JobTyped
<1>4. CASE faults < MaxFaults /\ faults' = faults + 1 /\ job' = [job EXCEPT !.pc = "failed"]
  BY <1>1, <1>4, FailedIsAPlace, ReplacementAssumption DEF JobTyped, Jobs, SameJob
<1> QED
  BY <1>1, <1>3, <1>4

\* Where a recovery, a cleanup or a stop returns to.
LEMMA ReturnsGo ==
  ASSUME JobTyped, Returns
  PROVE  /\ JobTyped' /\ UNCHANGED <<env, wanted, box, vols, helper>>
         /\ \/ job' = Idle
            \/ /\ SameJob /\ job'.cur = job.cur
               /\ \/ job'.pc = "failed"
                  \/ job.part = "none" /\ job'.pc = "s.inspect"
                       /\ (job.kind = "stop" \/ (job.kind = "start" /\ intent))
                  \/ job.part = "none" /\ job'.pc = "replace" /\ job.kind = "start" /\ ~intent
                  \/ job.part = "none" /\ job'.pc = "u.save" /\ job.kind = "update"
<1>1. {"failed", "s.inspect", "replace", "u.save"} \subseteq PCs
  BY DEF PCs
<1>2. /\ Return \in {"failed", "s.inspect", "replace", "u.save", "idle"}
      /\ Return = "s.inspect"
           => job.part = "none" /\ (job.kind = "stop" \/ (job.kind = "start" /\ intent))
      /\ Return = "replace" => job.part = "none" /\ job.kind = "start" /\ ~intent
      /\ Return = "u.save" => job.part = "none" /\ job.kind = "update"
  BY DEF Return, JobTyped, Jobs
<1>3. CASE Return = "idle"
  BY <1>3, IdleGoes DEF Returns, Ends, docker
<1>4. CASE Return # "idle"
  <2>1. Return \in PCs /\ Proceeds([job EXCEPT !.pc = Return]) /\ UNCHANGED docker
    BY <1>1, <1>2, <1>4 DEF Returns, Then
  <2> QED
    BY <2>1, <1>2, <1>4, ThenGoes DEF docker
<1> QED
  BY <1>3, <1>4

\* A channel marked as one that should run is as it was but for the mark.
LEMMA MarkMoves ==
  ASSUME RowsTyped, NEW M \in BOOLEAN, ch' = [ch EXCEPT !.stopped = @ /\ ~M], UNCHANGED <<rec,
         intent>>,
         wanted' \in BOOLEAN
  PROVE  /\ RowsTyped'
         /\ M => ch' = [ch EXCEPT !.stopped = FALSE]
         /\ ~M => ch' = ch
         /\ ch'.exists = ch.exists /\ ch'.settings = ch.settings /\ ch'.id = ch.id
              /\ ch'.vol = ch.vol
         /\ ch'.stopped => ch.stopped
<1>1. /\ ch \in [exists : BOOLEAN, settings : Versions, id : Ids \cup {Unset},
                 vol : 0 .. MaxOp, stopped : BOOLEAN]
      /\ ch.stopped \in BOOLEAN
  BY DEF RowsTyped
<1>2. CASE M
  <2>1. ch' = [ch EXCEPT !.stopped = FALSE]
    BY <1>2
  <2>2. /\ ch' \in [exists : BOOLEAN, settings : Versions, id : Ids \cup {Unset},
                   vol : 0 .. MaxOp, stopped : BOOLEAN]
        /\ ch'.exists = ch.exists /\ ch'.settings = ch.settings /\ ch'.id = ch.id
        /\ ch'.vol = ch.vol /\ ch'.stopped = FALSE
    BY <1>1, <2>1
  <2>3. RowsTyped'
    BY <2>2 DEF RowsTyped, Records
  <2> QED
    BY <1>2, <2>1, <2>2, <2>3
<1>3. CASE ~M
  <2>1. (ch.stopped /\ ~M) = ch.stopped
    BY <1>1, <1>3
  <2>2. ch' = ch
    BY <1>1, <2>1
  <2>3. RowsTyped'
    BY <2>2 DEF RowsTyped, Records
  <2> QED
    BY <1>3, <2>2, <2>3
<1> QED
  BY <1>2, <1>3

\* A recovery is recorded with whether the change was applied.
LEMMA RecoveryIsARecord ==
  ASSUME RowsTyped, NEW b \in BOOLEAN
  PROVE  [rec EXCEPT !.phase = "rolling_back", !.applied = b] \in Records
BY DEF RowsTyped, Records, Phases

\* A stop takes the wish to start from the record.
LEMMA StopIsARecord ==
  ASSUME RowsTyped
  PROVE  /\ [rec EXCEPT !.start = FALSE] \in Records
         /\ [rec EXCEPT !.start = FALSE].start = FALSE
         /\ [rec EXCEPT !.start = FALSE].oldRun = rec.oldRun
         /\ [rec EXCEPT !.oldRun = FALSE, !.start = FALSE] \in Records
         /\ [rec EXCEPT !.oldRun = FALSE, !.start = FALSE].start = FALSE
         /\ [rec EXCEPT !.oldRun = FALSE, !.start = FALSE].oldRun = FALSE
BY DEF RowsTyped, Records

\* No record at all.
LEMMA NoRecIsARecord == NoRec \in Records
BY ReplacementAssumption DEF NoRec, Records, Phases

\* The record of settings that wait.
LEMMA QueueIsARecord ==
  ASSUME RowsTyped, NEW o \in 0 .. MaxOp, NEW v \in Versions
  PROVE  [NoRec EXCEPT !.phase = "queued", !.op = o, !.new = v, !.oldId = ch.id, !.oldVol = ch.vol] \in Records
<1> DEFINE r == [NoRec EXCEPT !.phase = "queued", !.op = o, !.new = v, !.oldId = ch.id, !.oldVol = ch.vol]
<1>1. NoRec \in Records
  BY NoRecIsARecord
<1>2. "queued" \in Phases /\ ch.id \in Ids \cup {Unset} /\ ch.vol \in 0 .. MaxOp
        /\ v \in Versions \cup {Unset}
  BY DEF Phases, RowsTyped
<1>3. r \in Records
  BY <1>1, <1>2 DEF Records
<1> QED
  BY <1>1, <1>3

\* A handler that begins.
LEMMA BeginGoes ==
  ASSUME NEW k \in Kinds, NEW p \in PCs, Begin(k, p)
  PROVE  /\ job' \in Jobs /\ job'.kind = k /\ job'.pc = p /\ job'.part = "none" /\ ~job'.force
              /\ ~job'.mark
         /\ job'.want = Unset /\ job'.cur = Unset
BY DEF Begin, Idle, Jobs, Kinds, PCs

\* A record in another phase.
LEMMA PhaseIsARecord ==
  ASSUME RowsTyped, NEW p \in Phases
  PROVE  [rec EXCEPT !.phase = p] \in Records
BY DEF RowsTyped, Records

\* A handler at another place, with another container.
LEMMA PlaceIsAJob ==
  ASSUME JobTyped
  PROVE  /\ \A p \in PCs : [job EXCEPT !.pc = p] \in Jobs
         /\ \A p \in PCs, c \in Ids \cup {Unset} : [job EXCEPT !.pc = p, !.cur = c] \in Jobs
BY DEF JobTyped, Jobs
-----------------------------------------------------------------------------
\* The phases and the places in a procedure, and what is read of a container.
USE ReplacementAssumption
    DEF Begun, Terminal, Phases, Quiet, Open, Recorded, Copying, Copied, Switching,
        Replacing, PutBack, Exchanged, Unnamed, Helperless, Recovering, Settling,
        Reconciled, Renewed, Waiting, Starting, Deleting, At, Exists, Runs, IsOurs, Candidate,
        Restored, Main, Previous, NextName, SameMakes, SameNames, SameStates,
        SamePolicies, SameJob, rows

\* The containers during a replacement.
LEMMA BoxesOpen ==
  ASSUME rec'.phase \in Open,
         \A i, j \in DOMAIN box' : box'[i].name = box'[j].name => i = j,
         \A i \in DOMAIN box' : i = rec'.oldId \/ box'[i].op = rec'.op,
         Exists(rec.oldId)' =>
           /\ IsOurs(rec.oldId, {Main, Previous}, rec.oldVol)' /\ box'[rec'.oldId].op # rec'.op
           /\ box'[rec'.oldId].cfg = rec'.old /\ (Runs(rec.oldId)' => rec'.oldAlways),
         \A i \in DOMAIN box' : Candidate(i)' =>
           box'[i].vol = rec'.op /\ box'[i].name \in {NextName(FALSE)', Main}
             /\ box'[i].cfg = rec'.new,
         \A i \in DOMAIN box' : Restored(i)' =>
           box'[i].vol = rec'.oldVol /\ box'[i].name \in {NextName(TRUE)', Main}
             /\ box'[i].cfg = rec'.old,
         (\E i \in DOMAIN box' : Restored(i)')
           => rec'.oldAlways /\ rec'.phase \in {"rolling_back", "rolled_back"},
         \A i, j \in DOMAIN box' : Candidate(i)' /\ Candidate(j)' => i = j,
         \A i, j \in DOMAIN box' : Restored(i)' /\ Restored(j)' => i = j
  PROVE  BoxesFit'
BY DEF BoxesFit

\* Fewer containers, of which fewer may run, fit as well as before.
LEMMA BoxesRemain ==
  ASSUME BoxesFit, UNCHANGED rows, DOMAIN box' \subseteq DOMAIN box,
         SameMakes(DOMAIN box'), SameNames(DOMAIN box'),
         \A i \in DOMAIN box' : box'[i].state = "running" => box[i].state = "running"
  PROVE  BoxesFit'
BY DEF BoxesFit

\* And the row that names one of them.
LEMMA RowRemains ==
  ASSUME RowFits, UNCHANGED rows, DOMAIN box' \subseteq DOMAIN box,
         SameMakes(DOMAIN box'), SameNames(DOMAIN box'), SamePolicies(DOMAIN box'),
         \A i \in DOMAIN box' : box'[i].state = "running" => box[i].state = "running"
  PROVE  RowFits'
<1>1. Free(Main) => Free(Main)'
  BY DEF Free, Named
<1> QED
  BY <1>1 DEF RowFits

\* What a cleanup has removed when it comes to the next thing.
LEMMA SettlingWork ==
  ASSUME job'.pc \in Settling \cup {"failed"}, ch'.exists,
         job'.pc \in Settling =>
           \/ rec'.initial /\ rec'.phase = "rolled_back"
           \/ Exists(ch.id)' /\ (Runs(ch.id)' => box'[ch'.id].always),
         job'.pc \in Settling \ {"c.old"} /\ Exists(rec.oldId)' => rec'.oldId = ch'.id,
         job'.pc \in {"c.restored", "c.volume", "c.finish"}
           => \A i \in DOMAIN box' : Candidate(i)' => i = ch'.id,
         job'.pc \in {"c.volume", "c.finish"} => \A i \in DOMAIN box' : Restored(i)' => i = ch'.id
  PROVE  WorkFits'
BY DEF WorkFits

\* The old client will not come back by itself.
LEMMA HoldOldKeeps ==
  ASSUME ReplacementInv, Expected, HoldOld
  PROVE  ReplacementInv'
<1> USE DEF ReplacementInv
<1>1. rec.oldId \in DOMAIN box /\ SetPolicy(rec.oldId, FALSE) /\ job.pc = "r.policy"
  BY DEF Expected, Given, HoldOld
<1>2. /\ DOMAIN box' = DOMAIN box /\ BoxesTyped' /\ SameMakes(DOMAIN box)
      /\ SameNames(DOMAIN box) /\ SameStates(DOMAIN box)
      /\ SamePolicies(DOMAIN box \ {rec.oldId}) /\ box'[rec.oldId].always = FALSE
  BY <1>1, PolicyMoves DEF RowsTyped, Records
<1>3. /\ JobTyped' /\ SameJob /\ job'.cur = job.cur /\ job'.pc \in {"r.halt", "failed"}
      /\ UNCHANGED <<env, wanted, rows, vols, helper>>
  BY CommandGoes DEF HoldOld, Command, PCs
<1> USE <1>1, <1>2, <1>3
<1>4. RowsTyped' /\ VolumesTyped'
  BY DEF RowsTyped, VolumesTyped, Records
<1>5. PhaseFits' /\ KindFits' /\ RecordFits' /\ AllOrNothing'
  BY DEF PhaseFits, KindFits, Idle, RecordFits, AllOrNothing
<1>6. BoxesFit' /\ RowFits'
  BY DEF PhaseFits, BoxesFit, RowFits, Free, Named
<1>7. RunsFit' /\ WorkFits'
  BY DEF PhaseFits, KindFits, Idle, RunsFit, WorkFits, OneClientRuns
<1>8. HelperFits' /\ VolumesFit' /\ WishFits'
  BY DEF PhaseFits, KindFits, Idle, HelperFits, VolumesFit, WishFits, Labelled
<1> QED
  BY <1>4, <1>5, <1>6, <1>7, <1>8

\* The old client is halted.
LEMMA StopOldKeeps ==
  ASSUME ReplacementInv, Expected, StopOld
  PROVE  ReplacementInv'
<1> USE DEF ReplacementInv
<1>1. rec.oldId \in DOMAIN box /\ Halt(rec.oldId) /\ job.pc = "r.halt"
  BY DEF Expected, Given, StopOld
<1>2. /\ DOMAIN box' = DOMAIN box /\ BoxesTyped' /\ SameMakes(DOMAIN box)
      /\ SameNames(DOMAIN box) /\ SamePolicies(DOMAIN box)
      /\ SameStates(DOMAIN box \ {rec.oldId}) /\ box'[rec.oldId].state # "running"
      /\ box[rec.oldId].state = "created" => box'[rec.oldId].state = "created"
  BY <1>1, HaltMoves
<1>3. /\ JobTyped' /\ SameJob /\ job'.cur = job.cur /\ job'.pc \in {"r.copy", "failed"}
      /\ UNCHANGED <<env, wanted, rows, vols, helper>>
  BY CommandGoes DEF StopOld, Command, PCs
<1> USE <1>1, <1>2, <1>3
<1>4. RowsTyped' /\ VolumesTyped'
  BY DEF RowsTyped, VolumesTyped, Records
<1>5. PhaseFits' /\ KindFits' /\ RecordFits' /\ AllOrNothing'
  BY DEF PhaseFits, KindFits, Idle, RecordFits, AllOrNothing
<1>6. BoxesFit' /\ RowFits'
  BY DEF PhaseFits, BoxesFit, RowFits, Free, Named
<1>7. RunsFit' /\ WorkFits'
  BY DEF PhaseFits, KindFits, Idle, RunsFit, WorkFits, OneClientRuns
<1>8. HelperFits' /\ VolumesFit' /\ WishFits'
  BY DEF PhaseFits, KindFits, Idle, HelperFits, VolumesFit, WishFits, Labelled
<1> QED
  BY <1>4, <1>5, <1>6, <1>7, <1>8

\* The old container steps aside.
LEMMA BackUpOldKeeps ==
  ASSUME ReplacementInv, Expected, BackUpOld
  PROVE  ReplacementInv'
<1> USE DEF ReplacementInv
<1>1. rec.oldId \in DOMAIN box /\ Rename(rec.oldId, Previous) /\ job.pc = "r.backup"
        /\ Previous \in Names
  BY DEF Expected, ReplaceExpects, CanRename, BackUpOld, Names, Ops, RecordFits, PhaseFits
<1>2. /\ DOMAIN box' = DOMAIN box /\ BoxesTyped' /\ SameMakes(DOMAIN box)
      /\ SameStates(DOMAIN box) /\ SamePolicies(DOMAIN box)
      /\ SameNames(DOMAIN box \ {rec.oldId}) /\ box'[rec.oldId].name = Previous
  BY <1>1, RenameMoves
<1>3. /\ JobTyped' /\ SameJob /\ job'.cur = job.cur /\ job'.pc \in {"r.rename", "failed"}
      /\ UNCHANGED <<env, wanted, rows, vols, helper>>
  BY CommandGoes DEF BackUpOld, Command, PCs
<1> USE <1>1, <1>2, <1>3
<1>4. RowsTyped' /\ VolumesTyped'
  BY DEF RowsTyped, VolumesTyped, Records
<1>5. PhaseFits' /\ KindFits' /\ RecordFits' /\ AllOrNothing'
  BY DEF PhaseFits, KindFits, Idle, RecordFits, AllOrNothing
<1>6. BoxesFit' /\ RowFits'
  BY DEF PhaseFits, BoxesFit, RowFits, Free, Named
<1>7. RunsFit' /\ WorkFits'
  BY DEF PhaseFits, KindFits, Idle, RunsFit, WorkFits, OneClientRuns
<1>8. HelperFits' /\ VolumesFit' /\ WishFits'
  BY DEF PhaseFits, KindFits, Idle, HelperFits, VolumesFit, WishFits, Labelled
<1> QED
  BY <1>4, <1>5, <1>6, <1>7, <1>8

\* The candidate takes the channel's name.
LEMMA NameCandidateKeeps ==
  ASSUME ReplacementInv, Expected, NameCandidate
  PROVE  ReplacementInv'
<1> USE DEF ReplacementInv
<1>1. job.cur \in DOMAIN box /\ Rename(job.cur, Main) /\ job.pc = "r.rename" /\ Main \in Names
  BY DEF Expected, ReplaceExpects, CanRename, NameCandidate, Names, Ops, RecordFits, PhaseFits
<1>2. /\ DOMAIN box' = DOMAIN box /\ BoxesTyped' /\ SameMakes(DOMAIN box)
      /\ SameStates(DOMAIN box) /\ SamePolicies(DOMAIN box)
      /\ SameNames(DOMAIN box \ {job.cur}) /\ box'[job.cur].name = Main
  BY <1>1, RenameMoves
<1>3. /\ JobTyped' /\ SameJob /\ job'.cur = job.cur /\ job'.pc \in {"r.validating", "failed"}
      /\ UNCHANGED <<env, wanted, rows, vols, helper>>
  BY CommandGoes DEF NameCandidate, Command, PCs
<1> USE <1>1, <1>2, <1>3
<1>4. RowsTyped' /\ VolumesTyped'
  BY DEF RowsTyped, VolumesTyped, Records
<1>5. PhaseFits' /\ KindFits' /\ RecordFits' /\ AllOrNothing'
  BY DEF PhaseFits, KindFits, Idle, RecordFits, AllOrNothing
<1>6. BoxesFit' /\ RowFits'
  BY DEF PhaseFits, BoxesFit, RowFits, Free, Named, Expected, ReplaceExpects, CanRename,
      WorkFits
<1>7. RunsFit' /\ WorkFits'
  BY DEF PhaseFits, KindFits, Idle, RunsFit, WorkFits, OneClientRuns, Expected, ReplaceExpects,
      CanRename
<1>8. HelperFits' /\ VolumesFit' /\ WishFits'
  BY DEF PhaseFits, KindFits, Idle, HelperFits, VolumesFit, WishFits, Labelled
<1> QED
  BY <1>4, <1>5, <1>6, <1>7, <1>8

\* The candidate is started when the old client is halted.
LEMMA StartCandidateKeeps ==
  ASSUME ReplacementInv, Expected, StartCandidate
  PROVE  ReplacementInv'
<1> USE DEF ReplacementInv
<1>1. job.cur \in DOMAIN box /\ Launch(job.cur) /\ job.pc = "r.start"
  BY DEF Expected, Given, StartCandidate
<1>2. /\ DOMAIN box' = DOMAIN box /\ BoxesTyped' /\ SameMakes(DOMAIN box)
      /\ SameNames(DOMAIN box) /\ SamePolicies(DOMAIN box)
      /\ SameStates(DOMAIN box \ {job.cur}) /\ box'[job.cur].state = "running"
  BY <1>1, LaunchMoves
<1>3. /\ JobTyped' /\ SameJob /\ job'.cur = job.cur /\ job'.pc \in {"r.apply", "failed"}
      /\ UNCHANGED <<env, wanted, rows, vols, helper>>
  BY CommandGoes DEF StartCandidate, Command, PCs
<1> USE <1>1, <1>2, <1>3
<1>4. RowsTyped' /\ VolumesTyped'
  BY DEF RowsTyped, VolumesTyped, Records
<1>5. PhaseFits' /\ KindFits' /\ RecordFits' /\ AllOrNothing'
  BY DEF PhaseFits, KindFits, Idle, RecordFits, AllOrNothing
<1>6. BoxesFit' /\ RowFits'
  BY DEF PhaseFits, BoxesFit, RowFits, Free, Named, WorkFits, RunsFit
<1>7. RunsFit' /\ WorkFits'
  BY DEF PhaseFits, KindFits, Idle, RunsFit, WorkFits, OneClientRuns, BoxesFit
<1>8. HelperFits' /\ VolumesFit' /\ WishFits'
  BY DEF PhaseFits, KindFits, Idle, HelperFits, VolumesFit, WishFits, Labelled, RecordFits,
      BoxesFit
<1> QED
  BY <1>4, <1>5, <1>6, <1>7, <1>8

\* The old client, running under another name, is held again.
LEMMA HoldOldAgainKeeps ==
  ASSUME ReplacementInv, Expected, HoldOldAgain
  PROVE  ReplacementInv'
<1> USE DEF ReplacementInv
<1>1. rec.oldId \in DOMAIN box /\ SetPolicy(rec.oldId, FALSE) /\ job.pc = "v.oldPolicy"
  BY DEF Expected, Given, HoldOldAgain
<1>2. /\ DOMAIN box' = DOMAIN box /\ BoxesTyped' /\ SameMakes(DOMAIN box)
      /\ SameNames(DOMAIN box) /\ SameStates(DOMAIN box)
      /\ SamePolicies(DOMAIN box \ {rec.oldId}) /\ box'[rec.oldId].always = FALSE
  BY <1>1, PolicyMoves DEF RowsTyped, Records
<1>3. /\ JobTyped' /\ SameJob /\ job'.cur = job.cur /\ job'.pc \in {"v.oldHalt", "failed"}
      /\ UNCHANGED <<env, wanted, rows, vols, helper>>
  BY CommandGoes DEF HoldOldAgain, Command, PCs
<1> USE <1>1, <1>2, <1>3
<1>4. RowsTyped' /\ VolumesTyped'
  BY DEF RowsTyped, VolumesTyped, Records
<1>5. PhaseFits' /\ KindFits' /\ RecordFits' /\ AllOrNothing'
  BY DEF PhaseFits, KindFits, Idle, RecordFits, AllOrNothing
<1>6. BoxesFit' /\ RowFits'
  BY DEF PhaseFits, BoxesFit, RowFits, Free, Named
<1>7. RunsFit' /\ WorkFits'
  BY DEF PhaseFits, KindFits, Idle, RunsFit, WorkFits, OneClientRuns, RecordFits
<1>8. HelperFits' /\ VolumesFit' /\ WishFits'
  BY DEF PhaseFits, KindFits, Idle, HelperFits, VolumesFit, WishFits, Labelled
<1> QED
  BY <1>4, <1>5, <1>6, <1>7, <1>8

\* And halted.
LEMMA StopOldAgainKeeps ==
  ASSUME ReplacementInv, Expected, StopOldAgain
  PROVE  ReplacementInv'
<1> USE DEF ReplacementInv
<1>1. rec.oldId \in DOMAIN box /\ Halt(rec.oldId) /\ job.pc = "v.oldHalt"
  BY DEF Expected, Given, StopOldAgain
<1>2. /\ DOMAIN box' = DOMAIN box /\ BoxesTyped' /\ SameMakes(DOMAIN box)
      /\ SameNames(DOMAIN box) /\ SamePolicies(DOMAIN box)
      /\ SameStates(DOMAIN box \ {rec.oldId}) /\ box'[rec.oldId].state # "running"
      /\ box[rec.oldId].state = "created" => box'[rec.oldId].state = "created"
  BY <1>1, HaltMoves
<1>3. /\ JobTyped' /\ SameJob /\ job'.cur = job.cur /\ job'.pc \in {"v.oldName", "failed"}
      /\ UNCHANGED <<env, wanted, rows, vols, helper>>
  BY CommandGoes DEF StopOldAgain, Command, PCs
<1> USE <1>1, <1>2, <1>3
<1>4. RowsTyped' /\ VolumesTyped'
  BY DEF RowsTyped, VolumesTyped, Records
<1>5. PhaseFits' /\ KindFits' /\ RecordFits' /\ AllOrNothing'
  BY DEF PhaseFits, KindFits, Idle, RecordFits, AllOrNothing
<1>6. BoxesFit' /\ RowFits'
  BY DEF PhaseFits, BoxesFit, RowFits, Free, Named
<1>7. RunsFit' /\ WorkFits'
  BY DEF PhaseFits, KindFits, Idle, RunsFit, WorkFits, OneClientRuns, BoxesFit
<1>8. HelperFits' /\ VolumesFit' /\ WishFits'
  BY DEF PhaseFits, KindFits, Idle, HelperFits, VolumesFit, WishFits, Labelled
<1> QED
  BY <1>4, <1>5, <1>6, <1>7, <1>8

\* The restored container takes the channel's name.
LEMMA NameRestoredKeeps ==
  ASSUME ReplacementInv, Expected, NameRestored
  PROVE  ReplacementInv'
<1> USE DEF ReplacementInv
<1>1. job.cur \in DOMAIN box /\ Rename(job.cur, Main) /\ job.pc = "v.rename" /\ Main \in Names
  BY DEF Expected, RecoverExpects, CanRename, NameRestored, Names, Ops, RecordFits, PhaseFits
<1>2. /\ DOMAIN box' = DOMAIN box /\ BoxesTyped' /\ SameMakes(DOMAIN box)
      /\ SameStates(DOMAIN box) /\ SamePolicies(DOMAIN box)
      /\ SameNames(DOMAIN box \ {job.cur}) /\ box'[job.cur].name = Main
  BY <1>1, RenameMoves
<1>3. /\ JobTyped' /\ SameJob /\ job'.cur = job.cur /\ job'.pc \in {"v.start", "failed"}
      /\ UNCHANGED <<env, wanted, rows, vols, helper>>
  BY CommandGoes DEF NameRestored, Command, PCs
<1> USE <1>1, <1>2, <1>3
<1>4. RowsTyped' /\ VolumesTyped'
  BY DEF RowsTyped, VolumesTyped, Records
<1>5. PhaseFits' /\ KindFits' /\ RecordFits' /\ AllOrNothing'
  BY DEF PhaseFits, KindFits, Idle, RecordFits, AllOrNothing
<1>6. BoxesFit' /\ RowFits'
  BY DEF PhaseFits, BoxesFit, RowFits, Free, Named, Expected, RecoverExpects, CanRename,
      WorkFits
<1>7. RunsFit' /\ WorkFits'
  BY DEF PhaseFits, KindFits, Idle, RunsFit, WorkFits, OneClientRuns, Expected, RecoverExpects,
      CanRename
<1>8. HelperFits' /\ VolumesFit' /\ WishFits'
  BY DEF PhaseFits, KindFits, Idle, HelperFits, VolumesFit, WishFits, Labelled
<1> QED
  BY <1>4, <1>5, <1>6, <1>7, <1>8

\* The restored client starts when the old one and the candidate are halted.
LEMMA StartRestoredKeeps ==
  ASSUME ReplacementInv, Expected, StartRestored
  PROVE  ReplacementInv'
<1> USE DEF ReplacementInv
<1>1. job.cur \in DOMAIN box /\ Launch(job.cur) /\ job.pc = "v.start"
  BY DEF Expected, Given, StartRestored
<1>2. /\ DOMAIN box' = DOMAIN box /\ BoxesTyped' /\ SameMakes(DOMAIN box)
      /\ SameNames(DOMAIN box) /\ SamePolicies(DOMAIN box)
      /\ SameStates(DOMAIN box \ {job.cur}) /\ box'[job.cur].state = "running"
  BY <1>1, LaunchMoves
<1>3. /\ JobTyped' /\ SameJob /\ job'.cur = job.cur /\ job'.pc \in {"v.restore", "failed"}
      /\ UNCHANGED <<env, wanted, rows, vols, helper>>
  BY CommandGoes DEF StartRestored, Command, PCs
<1> USE <1>1, <1>2, <1>3
<1>4. RowsTyped' /\ VolumesTyped'
  BY DEF RowsTyped, VolumesTyped, Records
<1>5. PhaseFits' /\ KindFits' /\ RecordFits' /\ AllOrNothing'
  BY DEF PhaseFits, KindFits, Idle, RecordFits, AllOrNothing
<1>6. BoxesFit' /\ RowFits'
  BY DEF PhaseFits, BoxesFit, RowFits, Free, Named, WorkFits, RunsFit
<1>7. RunsFit' /\ WorkFits'
  BY DEF PhaseFits, KindFits, Idle, RunsFit, WorkFits, OneClientRuns, BoxesFit
<1>8. HelperFits' /\ VolumesFit' /\ WishFits'
  BY DEF PhaseFits, KindFits, Idle, HelperFits, VolumesFit, WishFits, Labelled, RecordFits,
      BoxesFit
<1> QED
  BY <1>4, <1>5, <1>6, <1>7, <1>8

\* What was put back gets the old client's restart policy.
LEMMA PolicyRestoredKeeps ==
  ASSUME ReplacementInv, Expected, PolicyRestored
  PROVE  ReplacementInv'
<1> USE DEF ReplacementInv
<1>1. job.cur \in DOMAIN box /\ SetPolicy(job.cur, rec.oldAlways) /\ job.pc = "v.always"
  BY DEF Expected, Given, PolicyRestored, RowsTyped, Records
<1>2. /\ DOMAIN box' = DOMAIN box /\ BoxesTyped' /\ SameMakes(DOMAIN box)
      /\ SameNames(DOMAIN box) /\ SameStates(DOMAIN box)
      /\ SamePolicies(DOMAIN box \ {job.cur}) /\ box'[job.cur].always = rec.oldAlways
  BY <1>1, PolicyMoves DEF RowsTyped, Records
<1>3. /\ JobTyped' /\ SameJob /\ job'.cur = job.cur /\ job'.pc \in {"c.begin", "failed"}
      /\ UNCHANGED <<env, wanted, rows, vols, helper>>
  BY CommandGoes DEF PolicyRestored, Command, PCs
<1> USE <1>1, <1>2, <1>3
<1>4. RowsTyped' /\ VolumesTyped'
  BY DEF RowsTyped, VolumesTyped, Records
<1>5. PhaseFits' /\ KindFits' /\ RecordFits' /\ AllOrNothing'
  BY DEF PhaseFits, KindFits, Idle, RecordFits, AllOrNothing
<1>6. BoxesFit' /\ RowFits'
  BY DEF PhaseFits, BoxesFit, RowFits, Free, Named
<1>7. RunsFit' /\ WorkFits'
  BY DEF PhaseFits, KindFits, Idle, RunsFit, WorkFits, OneClientRuns
<1>8. HelperFits' /\ VolumesFit' /\ WishFits'
  BY DEF PhaseFits, KindFits, Idle, HelperFits, VolumesFit, WishFits, Labelled
<1> QED
  BY <1>4, <1>5, <1>6, <1>7, <1>8

\* A stop holds the old client first.
LEMMA HoldStoppedKeeps ==
  ASSUME ReplacementInv, Expected, HoldStopped
  PROVE  ReplacementInv'
<1> USE DEF ReplacementInv
<1>1. rec.oldId \in DOMAIN box /\ SetPolicy(rec.oldId, FALSE) /\ job.pc = "s.oldPolicy"
  BY DEF Expected, Given, HoldStopped
<1>2. /\ DOMAIN box' = DOMAIN box /\ BoxesTyped' /\ SameMakes(DOMAIN box)
      /\ SameNames(DOMAIN box) /\ SameStates(DOMAIN box)
      /\ SamePolicies(DOMAIN box \ {rec.oldId}) /\ box'[rec.oldId].always = FALSE
  BY <1>1, PolicyMoves DEF RowsTyped, Records
<1>3. /\ JobTyped' /\ SameJob /\ job'.cur = job.cur /\ job'.pc \in {"s.oldHalt", "failed"}
      /\ UNCHANGED <<env, wanted, rows, vols, helper>>
  BY CommandGoes DEF HoldStopped, Command, PCs
<1> USE <1>1, <1>2, <1>3
<1>4. RowsTyped' /\ VolumesTyped'
  BY DEF RowsTyped, VolumesTyped, Records
<1>5. PhaseFits' /\ KindFits' /\ RecordFits' /\ AllOrNothing'
  BY DEF PhaseFits, KindFits, Idle, RecordFits, AllOrNothing
<1>6. BoxesFit' /\ RowFits'
  BY DEF PhaseFits, BoxesFit, RowFits, Free, Named
<1>7. RunsFit' /\ WorkFits'
  BY DEF PhaseFits, KindFits, Idle, RunsFit, WorkFits, OneClientRuns
<1>8. HelperFits' /\ VolumesFit' /\ WishFits'
  BY DEF PhaseFits, KindFits, Idle, HelperFits, VolumesFit, WishFits, Labelled
<1> QED
  BY <1>4, <1>5, <1>6, <1>7, <1>8

\* And halts it.
LEMMA HaltStoppedKeeps ==
  ASSUME ReplacementInv, Expected, HaltStopped
  PROVE  ReplacementInv'
<1> USE DEF ReplacementInv
<1>1. rec.oldId \in DOMAIN box /\ Halt(rec.oldId) /\ job.pc = "s.oldHalt"
  BY DEF Expected, Given, HaltStopped
<1>2. /\ DOMAIN box' = DOMAIN box /\ BoxesTyped' /\ SameMakes(DOMAIN box)
      /\ SameNames(DOMAIN box) /\ SamePolicies(DOMAIN box)
      /\ SameStates(DOMAIN box \ {rec.oldId}) /\ box'[rec.oldId].state # "running"
      /\ box[rec.oldId].state = "created" => box'[rec.oldId].state = "created"
  BY <1>1, HaltMoves
<1>3. /\ JobTyped' /\ SameJob /\ job'.cur = job.cur /\ job'.pc \in {"v.begin", "failed"}
      /\ UNCHANGED <<env, wanted, rows, vols, helper>>
  BY CommandGoes DEF HaltStopped, Command, PCs
<1> USE <1>1, <1>2, <1>3
<1>4. RowsTyped' /\ VolumesTyped'
  BY DEF RowsTyped, VolumesTyped, Records
<1>5. PhaseFits' /\ KindFits' /\ RecordFits' /\ AllOrNothing'
  BY DEF PhaseFits, KindFits, Idle, RecordFits, AllOrNothing
<1>6. BoxesFit' /\ RowFits'
  BY DEF PhaseFits, BoxesFit, RowFits, Free, Named
<1>7. RunsFit' /\ WorkFits'
  BY DEF PhaseFits, KindFits, Idle, RunsFit, WorkFits, OneClientRuns
<1>8. HelperFits' /\ VolumesFit' /\ WishFits'
  BY DEF PhaseFits, KindFits, Idle, HelperFits, VolumesFit, WishFits, Labelled
<1> QED
  BY <1>4, <1>5, <1>6, <1>7, <1>8

\* The candidate made again takes the channel's name.
LEMMA NameAgainKeeps ==
  ASSUME ReplacementInv, Expected, NameAgain
  PROVE  ReplacementInv'
<1> USE DEF ReplacementInv
<1>1. job.cur \in DOMAIN box /\ Rename(job.cur, Main) /\ job.pc = "t.rename" /\ Main \in Names
  BY DEF Expected, WaitExpects, CanRename, NameAgain, Names, Ops, RecordFits, PhaseFits
<1>2. /\ DOMAIN box' = DOMAIN box /\ BoxesTyped' /\ SameMakes(DOMAIN box)
      /\ SameStates(DOMAIN box) /\ SamePolicies(DOMAIN box)
      /\ SameNames(DOMAIN box \ {job.cur}) /\ box'[job.cur].name = Main
  BY <1>1, RenameMoves
<1>3. /\ JobTyped' /\ SameJob /\ job'.cur = job.cur /\ job'.pc \in {"t.start", "failed"}
      /\ UNCHANGED <<env, wanted, rows, vols, helper>>
  BY CommandGoes DEF NameAgain, Command, PCs
<1> USE <1>1, <1>2, <1>3
<1>4. RowsTyped' /\ VolumesTyped'
  BY DEF RowsTyped, VolumesTyped, Records
<1>5. PhaseFits' /\ KindFits' /\ RecordFits' /\ AllOrNothing'
  BY DEF PhaseFits, KindFits, Idle, RecordFits, AllOrNothing
<1>6. BoxesFit' /\ RowFits'
  BY DEF PhaseFits, BoxesFit, RowFits, Free, Named, Expected, WaitExpects, CanRename, WorkFits
<1>7. RunsFit' /\ WorkFits'
  BY DEF PhaseFits, KindFits, Idle, RunsFit, WorkFits, OneClientRuns, Expected, WaitExpects,
      CanRename
<1>8. HelperFits' /\ VolumesFit' /\ WishFits'
  BY DEF PhaseFits, KindFits, Idle, HelperFits, VolumesFit, WishFits, Labelled
<1> QED
  BY <1>4, <1>5, <1>6, <1>7, <1>8

\* A start starts the candidate again, beside a halted old client.
LEMMA StartAgainKeeps ==
  ASSUME ReplacementInv, Expected, StartAgain
  PROVE  ReplacementInv'
<1> USE DEF ReplacementInv
<1>1. job.cur \in DOMAIN box /\ Launch(job.cur) /\ job.pc = "t.start"
  BY DEF Expected, Given, StartAgain
<1>2. /\ DOMAIN box' = DOMAIN box /\ BoxesTyped' /\ SameMakes(DOMAIN box)
      /\ SameNames(DOMAIN box) /\ SamePolicies(DOMAIN box)
      /\ SameStates(DOMAIN box \ {job.cur}) /\ box'[job.cur].state = "running"
  BY <1>1, LaunchMoves
<1>3. /\ JobTyped' /\ SameJob /\ job'.cur = job.cur /\ job'.pc \in {"t.resumed", "failed"}
      /\ UNCHANGED <<env, wanted, rows, vols, helper>>
  BY CommandGoes DEF StartAgain, Command, PCs
<1> USE <1>1, <1>2, <1>3
<1>4. RowsTyped' /\ VolumesTyped'
  BY DEF RowsTyped, VolumesTyped, Records
<1>5. PhaseFits' /\ KindFits' /\ RecordFits' /\ AllOrNothing'
  BY DEF PhaseFits, KindFits, Idle, RecordFits, AllOrNothing
<1>6. BoxesFit' /\ RowFits'
  BY DEF PhaseFits, BoxesFit, RowFits, Free, Named, WorkFits, RunsFit
<1>7. RunsFit' /\ WorkFits'
  BY DEF PhaseFits, KindFits, Idle, RunsFit, WorkFits, OneClientRuns, BoxesFit
<1>8. HelperFits' /\ VolumesFit' /\ WishFits'
  BY DEF PhaseFits, KindFits, Idle, HelperFits, VolumesFit, WishFits, Labelled, KindFits,
      BoxesFit
<1> QED
  BY <1>4, <1>5, <1>6, <1>7, <1>8

\* The candidate's volume is made, empty.
LEMMA EnsureVolumeKeeps ==
  ASSUME ReplacementInv, Expected, EnsureVolume
  PROVE  ReplacementInv'
<1> USE DEF ReplacementInv
<1>1. job.pc = "r.volume" /\ vols' = [vols EXCEPT ![rec.op] = Empty]
  BY DEF EnsureVolume
<1>2. rec.op \in Ops /\ rec.op \in 0 .. MaxOp /\ ch.vol \in 0 .. MaxOp
        /\ rec.oldVol \in 0 .. MaxOp /\ rec.op # rec.oldVol
  BY <1>1 DEF RecordFits, PhaseFits, RowsTyped, Records, Ops
<1>3. \A o \in 0 .. MaxOp : vols'[o] = IF o = rec.op THEN Empty ELSE vols[o]
  BY <1>1 DEF VolumesTyped
<1>4. /\ JobTyped' /\ SameJob /\ job'.cur = job.cur /\ job'.pc \in {"r.create", "failed"}
      /\ UNCHANGED <<env, wanted, rows, box, helper>>
  BY CommandGoes DEF EnsureVolume, PCs
<1> USE <1>1, <1>2, <1>3, <1>4
<1>5. BoxesTyped' /\ RowsTyped' /\ VolumesTyped'
  BY DEF BoxesTyped, RowsTyped, VolumesTyped, Records, Gone, Empty
<1>6. PhaseFits' /\ KindFits' /\ RecordFits' /\ AllOrNothing'
  BY DEF PhaseFits, KindFits, Idle, RecordFits, AllOrNothing
<1>7. BoxesFit' /\ RowFits'
  BY DEF PhaseFits, BoxesFit, RowFits, Free, Named
<1>8. RunsFit' /\ WorkFits'
  BY DEF PhaseFits, KindFits, Idle, RunsFit, WorkFits, OneClientRuns
<1>9. HelperFits'
  BY DEF HelperFits, PhaseFits
<1>10. VolumesFit'
  BY DEF VolumesFit, PhaseFits, KindFits, Labelled, Empty, Gone, Torn, Ops
<1>11. WishFits'
  BY DEF WishFits
<1> QED
  BY <1>5, <1>6, <1>7, <1>8, <1>9, <1>10, <1>11

\* The candidate is made with the volume and the new settings.
LEMMA CreateCandidateKeeps ==
  ASSUME ReplacementInv, Expected, CreateCandidate
  PROVE  ReplacementInv'
<1> USE DEF ReplacementInv
<1>1. job.pc = "r.create" /\ rec.phase = "preparing" /\ rec.op \in Ops /\ rec.op \in 0 .. MaxOp
        /\ rec.new \in Versions
      /\ FreshId \in Ids \ DOMAIN box /\ FreshId # ch.id /\ FreshId # rec.oldId
  BY FreshIds DEF CreateCandidate, RecordFits, PhaseFits, Ops
<1>2. NewBox(FreshId, FALSE, rec.op, rec.new)
  BY DEF CreateCandidate
<1>3. /\ DOMAIN box' = DOMAIN box \cup {FreshId} /\ BoxesTyped'
      /\ SameMakes(DOMAIN box) /\ SameNames(DOMAIN box)
      /\ SameStates(DOMAIN box) /\ SamePolicies(DOMAIN box)
      /\ box'[FreshId].name = NextName(FALSE) /\ box'[FreshId].vol = rec.op
           /\ box'[FreshId].op = rec.op
      /\ box'[FreshId].restore = FALSE /\ box'[FreshId].state = "created"
           /\ box'[FreshId].cfg = rec.new
  <2>1. /\ BoxesTyped /\ FreshId \in Ids \ DOMAIN box /\ FALSE \in BOOLEAN /\ rec.op \in 0 .. MaxOp
        /\ rec.new \in Versions /\ rec.op \in Ops
    BY <1>1
  <2> HIDE DEF ReplacementInv
  <2>2. MadeAs(FreshId, FALSE, rec.op, rec.new)
    BY <2>1, <1>2, NewMoves
  <2> QED
    BY <2>2 DEF MadeAs
<1>4. /\ JobTyped' /\ SameJob /\ (job'.pc = "r.prepared" => job'.cur = FreshId)
           /\ job'.pc \in {"r.prepared", "failed"}
      /\ UNCHANGED <<env, wanted, rows, vols, helper>>
  BY <1>1, CommandTakes DEF CreateCandidate, PCs
<1>5. /\ \A i \in DOMAIN box : i = rec.oldId
      /\ Exists(rec.oldId) => box[rec.oldId].name # NextName(FALSE)
  BY <1>1 DEF WorkFits, BoxesFit, CreateCandidate
<1> USE <1>1, <1>2, <1>3, <1>4, <1>5
<1>6. RowsTyped' /\ VolumesTyped'
  BY DEF RowsTyped, VolumesTyped, Records
<1>7. PhaseFits' /\ KindFits' /\ RecordFits' /\ AllOrNothing'
  BY DEF PhaseFits, KindFits, Idle, RecordFits, AllOrNothing
<1>8. BoxesFit'
  BY SMTT(30) DEF PhaseFits, BoxesFit, RowFits, Free, Named
<1>9. RowFits'
  BY DEF PhaseFits, BoxesFit, RowFits, Free, Named
<1>10. RunsFit' /\ WorkFits'
  BY DEF PhaseFits, KindFits, Idle, RunsFit, WorkFits, OneClientRuns
<1>11. HelperFits' /\ VolumesFit' /\ WishFits'
  BY DEF PhaseFits, KindFits, Idle, HelperFits, VolumesFit, WishFits, Labelled
<1> QED
  BY <1>6, <1>7, <1>8, <1>9, <1>10, <1>11

\* The journal learns the candidate.
LEMMA NotePreparedKeeps ==
  ASSUME ReplacementInv, Expected, NotePrepared
  PROVE  ReplacementInv'
<1> USE DEF ReplacementInv
<1>1. job.pc = "r.prepared" /\ rec' = [rec EXCEPT !.phase = "prepared", !.newId = job.cur]
        /\ job.cur \in Ids \cup {Unset}
  BY DEF NotePrepared, JobTyped, Jobs
<1>2. JobTyped' /\ SameJob /\ job'.cur = job.cur /\ job'.pc = "r.switching"
        /\ UNCHANGED <<env, wanted, ch, intent, box, vols, helper>>
  BY ThenGoes DEF NotePrepared, Then, docker, PCs
<1> USE <1>1, <1>2
<1>3. BoxesTyped' /\ RowsTyped' /\ VolumesTyped'
  BY DEF BoxesTyped, RowsTyped, VolumesTyped, Records, RowsTyped, Records
<1>4. PhaseFits' /\ KindFits' /\ RecordFits' /\ AllOrNothing'
  BY DEF PhaseFits, KindFits, Idle, RecordFits, AllOrNothing, RowsTyped, Records
<1>5. BoxesFit' /\ RowFits'
  BY DEF PhaseFits, BoxesFit, RowFits, Free, Named, RowsTyped, Records
<1>6. RunsFit' /\ WorkFits'
  BY DEF PhaseFits, KindFits, Idle, RunsFit, WorkFits, OneClientRuns, RowsTyped, Records
<1>7. HelperFits' /\ VolumesFit' /\ WishFits'
  BY DEF PhaseFits, KindFits, Idle, HelperFits, VolumesFit, WishFits, Labelled, RowsTyped,
      Records
<1> QED
  BY <1>3, <1>4, <1>5, <1>6, <1>7

\* From here on the old client may be halted.
LEMMA NoteSwitchingKeeps ==
  ASSUME ReplacementInv, Expected, NoteSwitching
  PROVE  ReplacementInv'
<1> USE DEF ReplacementInv
<1>1. job.pc = "r.switching" /\ rec' = [rec EXCEPT !.phase = "switching"]
  BY DEF NoteSwitching, Advance
<1>2. ((IF rec.oldId # Unset THEN "r.policy"
                   ELSE IF rec.src THEN "r.copy" ELSE "r.rename")) \in PCs
  BY DEF PCs
<1>3. /\ JobTyped' /\ SameJob /\ job'.cur = job.cur
           /\ UNCHANGED <<env, wanted, ch, intent, box, vols, helper>>
      /\ job'.pc = (IF rec.oldId # Unset THEN "r.policy"
                   ELSE IF rec.src THEN "r.copy" ELSE "r.rename")
  BY <1>2, ThenGoes DEF NoteSwitching, Advance, Then, docker
<1>4. Unset \notin DOMAIN box
  BY DEF BoxesTyped, Ids
<1> USE <1>1, <1>2, <1>3, <1>4
<1>5. BoxesTyped' /\ RowsTyped' /\ VolumesTyped'
  BY DEF BoxesTyped, RowsTyped, VolumesTyped, Records, RowsTyped, Records
<1>6. PhaseFits' /\ KindFits' /\ RecordFits' /\ AllOrNothing'
  BY DEF PhaseFits, KindFits, Idle, RecordFits, AllOrNothing, RowsTyped, Records
<1>7. BoxesFit' /\ RowFits'
  BY DEF PhaseFits, BoxesFit, RowFits, Free, Named, RowsTyped, Records
<1>8. RunsFit' /\ WorkFits'
  BY DEF PhaseFits, KindFits, Idle, RunsFit, WorkFits, OneClientRuns, RecordFits, BoxesTyped,
      RowsTyped, Records
<1>9. HelperFits' /\ VolumesFit' /\ WishFits'
  BY DEF PhaseFits, KindFits, Idle, HelperFits, VolumesFit, WishFits, Labelled, RecordFits,
      VolumesTyped, RowsTyped, Records
<1> QED
  BY <1>5, <1>6, <1>7, <1>8, <1>9

\* From here on the candidate may be started.
LEMMA NoteValidatingKeeps ==
  ASSUME ReplacementInv, Expected, NoteValidating
  PROVE  ReplacementInv'
<1> USE DEF ReplacementInv
<1>1. job.pc = "r.validating" /\ rec' = [rec EXCEPT !.phase = "validating"]
  BY DEF NoteValidating, Advance
<1>2. ((IF rec.start THEN "r.start" ELSE "r.apply")) \in PCs
  BY DEF PCs
<1>3. /\ JobTyped' /\ SameJob /\ job'.cur = job.cur
           /\ UNCHANGED <<env, wanted, ch, intent, box, vols, helper>>
      /\ job'.pc = (IF rec.start THEN "r.start" ELSE "r.apply")
  BY <1>2, ThenGoes DEF NoteValidating, Advance, Then, docker
<1>4. Unset \notin DOMAIN box
  BY DEF BoxesTyped, Ids
<1> USE <1>1, <1>2, <1>3, <1>4
<1>5. BoxesTyped' /\ RowsTyped' /\ VolumesTyped'
  BY DEF BoxesTyped, RowsTyped, VolumesTyped, Records, RowsTyped, Records
<1>6. PhaseFits' /\ KindFits' /\ RecordFits' /\ AllOrNothing'
  BY DEF PhaseFits, KindFits, Idle, RecordFits, AllOrNothing, RowsTyped, Records
<1>7. BoxesFit' /\ RowFits'
  BY DEF PhaseFits, BoxesFit, RowFits, Free, Named, RowsTyped, Records
<1>8. RunsFit' /\ WorkFits'
  BY DEF PhaseFits, KindFits, Idle, RunsFit, WorkFits, OneClientRuns, BoxesFit, RowsTyped,
      Records
<1>9. HelperFits' /\ VolumesFit' /\ WishFits'
  BY DEF PhaseFits, KindFits, Idle, HelperFits, VolumesFit, WishFits, Labelled, RowsTyped,
      Records
<1> QED
  BY <1>5, <1>6, <1>7, <1>8, <1>9

\* The copying container is made while nobody uses either volume.
LEMMA CreateHelperKeeps ==
  ASSUME ReplacementInv, Expected, CreateHelper
  PROVE  ReplacementInv'
<1> USE DEF ReplacementInv
<1>1. job.pc = "r.copy" /\ helper' = [op |-> rec.op, src |-> rec.oldVol, state |-> "created"]
  BY DEF CreateHelper
<1>2. /\ JobTyped' /\ SameJob /\ job'.cur = job.cur /\ job'.pc \in {"r.run", "failed"}
      /\ UNCHANGED <<env, wanted, rows, box, vols>>
  BY CommandGoes DEF CreateHelper, PCs
<1> USE <1>1, <1>2
<1>3. BoxesTyped' /\ RowsTyped' /\ VolumesTyped'
  BY DEF BoxesTyped, RowsTyped, VolumesTyped, Records
<1>4. PhaseFits' /\ KindFits' /\ RecordFits' /\ AllOrNothing'
  BY DEF PhaseFits, KindFits, Idle, RecordFits, AllOrNothing
<1>5. BoxesFit' /\ RowFits'
  BY DEF PhaseFits, BoxesFit, RowFits, Free, Named
<1>6. RunsFit' /\ WorkFits'
  BY DEF PhaseFits, KindFits, Idle, RunsFit, WorkFits, OneClientRuns, Expected, ReplaceExpects,
      SourceQuiet
<1>7. HelperFits' /\ VolumesFit' /\ WishFits'
  BY DEF PhaseFits, KindFits, Idle, HelperFits, VolumesFit, WishFits, Labelled
<1> QED
  BY <1>3, <1>4, <1>5, <1>6, <1>7

\* Only a copy that ended well lets the replacement go on.
LEMMA EndHelperKeeps ==
  ASSUME ReplacementInv, Expected, EndHelper
  PROVE  ReplacementInv'
<1> USE DEF ReplacementInv
<1>1. job.pc = "r.wait" /\ helper' = NoHelper
  BY DEF EndHelper
<1>2. "r.copied" \in PCs /\ "failed" \in PCs
  BY DEF PCs
<1>3. /\ JobTyped' /\ SameJob /\ job'.cur = job.cur /\ job'.pc \in {"r.copied", "failed"}
      /\ (job'.pc = "r.copied" => helper.state = "done")
           /\ UNCHANGED <<env, wanted, rows, box, vols>>
  BY <1>2, CommandGoes, ThenGoes DEF EndHelper, Fault, JobTyped, Jobs
<1> USE <1>1, <1>2, <1>3
<1>4. BoxesTyped' /\ RowsTyped' /\ VolumesTyped'
  BY DEF BoxesTyped, RowsTyped, VolumesTyped, Records, NoHelper
<1>5. PhaseFits' /\ KindFits' /\ RecordFits' /\ AllOrNothing'
  BY DEF PhaseFits, KindFits, Idle, RecordFits, AllOrNothing
<1>6. BoxesFit' /\ RowFits'
  BY DEF PhaseFits, BoxesFit, RowFits, Free, Named
<1>7. RunsFit' /\ WorkFits'
  BY DEF PhaseFits, KindFits, Idle, RunsFit, WorkFits, OneClientRuns
<1>8. HelperFits' /\ VolumesFit' /\ WishFits'
  BY DEF PhaseFits, KindFits, Idle, HelperFits, VolumesFit, WishFits, Labelled, VolumesTyped,
      NoHelper, RecordFits
<1> QED
  BY <1>4, <1>5, <1>6, <1>7, <1>8

\* Nobody has used the volumes meanwhile.
LEMMA RecheckSourceKeeps ==
  ASSUME ReplacementInv, Expected, RecheckSource
  PROVE  ReplacementInv'
<1> USE DEF ReplacementInv
<1>1. job.pc = "r.copied" /\ UNCHANGED rows
  BY DEF RecheckSource
<1>2. (IF rec.oldId = Unset THEN "r.rename" ELSE "r.backup") \in PCs
  BY DEF PCs
<1>3. /\ JobTyped' /\ SameJob /\ job'.cur = job.cur
           /\ UNCHANGED <<env, wanted, box, vols, helper>>
      /\ job'.pc = IF rec.oldId = Unset THEN "r.rename" ELSE "r.backup"
  BY <1>2, ThenGoes DEF RecheckSource, Then, docker
<1> USE <1>1, <1>2, <1>3
<1>4. BoxesTyped' /\ RowsTyped' /\ VolumesTyped'
  BY DEF BoxesTyped, RowsTyped, VolumesTyped, Records
<1>5. PhaseFits' /\ KindFits' /\ RecordFits' /\ AllOrNothing'
  BY DEF PhaseFits, KindFits, Idle, RecordFits, AllOrNothing
<1>6. BoxesFit' /\ RowFits'
  BY DEF PhaseFits, BoxesFit, RowFits, Free, Named
<1>7. RunsFit' /\ WorkFits'
  BY DEF PhaseFits, KindFits, Idle, RunsFit, WorkFits, OneClientRuns
<1>8. HelperFits' /\ VolumesFit' /\ WishFits'
  BY DEF PhaseFits, KindFits, Idle, HelperFits, VolumesFit, WishFits, Labelled
<1> QED
  BY <1>4, <1>5, <1>6, <1>7, <1>8

\* The new settings, the candidate and its volume are taken over together.
LEMMA ApplyKeeps ==
  ASSUME ReplacementInv, Expected, Apply
  PROVE  ReplacementInv'
<1> USE DEF ReplacementInv
<1>1. /\ job.pc = "r.apply" /\ job.cur \in DOMAIN box
      /\ \E p \in {"committed", "awaiting_login"} : rec' = [rec EXCEPT !.phase = p]
      /\ ch' = [ch EXCEPT !.settings = rec.new, !.id = job.cur, !.vol = rec.op, !.stopped = ~Runs(job.cur)]
  BY DEF Apply, Expected, ReplaceExpects
<1>2. /\ job.cur \in Ids /\ rec.op \in 0 .. MaxOp /\ rec.op \in Ops /\ rec.new \in Versions
           /\ Unset \notin Ids
      /\ (~Runs(job.cur)) \in BOOLEAN
  BY <1>1 DEF BoxesTyped, RecordFits, PhaseFits, Ops, Ids
<1>3. /\ JobTyped' /\ SameJob /\ job'.cur = job.cur /\ job'.pc \in {"r.always", "failed"}
      /\ UNCHANGED <<env, wanted, intent, box, vols, helper>>
  BY CommandGoes DEF Apply, docker, PCs
<1>4. rec' \in Records /\ rec'.phase \in {"committed", "awaiting_login"}
  BY <1>1, PhaseIsARecord DEF RowsTyped, Records
<1>5. /\ rec'.op = rec.op /\ rec'.new = rec.new /\ rec'.old = rec.old
      /\ rec'.initial = rec.initial /\ rec'.src = rec.src /\ rec'.oldId = rec.oldId
           /\ rec'.oldVol = rec.oldVol
      /\ rec'.oldRun = rec.oldRun /\ rec'.oldAlways = rec.oldAlways /\ rec'.start = rec.start
  BY <1>1 DEF RowsTyped, Records
<1>6. /\ ch'.exists = ch.exists /\ ch'.settings = rec.new /\ ch'.id = job.cur /\ ch'.vol = rec.op
      /\ ch'.stopped = ~Runs(job.cur)
  BY <1>1 DEF RowsTyped
<1>7. RowsTyped'
  BY <1>1, <1>2, <1>3, <1>4 DEF RowsTyped
<1>8. job.pc = "r.apply" /\ job.cur \in DOMAIN box
  BY <1>1
<1> USE <1>2, <1>3, <1>4, <1>5, <1>6, <1>7, <1>8
<1>9. BoxesTyped' /\ VolumesTyped'
  BY DEF BoxesTyped, VolumesTyped
<1>10. PhaseFits' /\ KindFits' /\ RecordFits' /\ AllOrNothing'
  BY DEF PhaseFits, KindFits, Idle, RecordFits, AllOrNothing
<1>11. BoxesFit' /\ RowFits'
  BY DEF PhaseFits, BoxesFit, RowFits, Free, Named, WorkFits, RecordFits
<1>12. RunsFit' /\ WorkFits'
  BY DEF PhaseFits, KindFits, Idle, RunsFit, WorkFits, OneClientRuns
<1>13. HelperFits'
  BY DEF PhaseFits, KindFits, Idle, HelperFits, VolumesFit, WishFits, Labelled
<1>14. VolumesFit'
  BY DEF PhaseFits, KindFits, Idle, HelperFits, VolumesFit, WishFits, Labelled
<1>15. WishFits'
  BY DEF PhaseFits, KindFits, Idle, HelperFits, VolumesFit, WishFits, Labelled
<1> QED
  BY <1>9, <1>10, <1>11, <1>12, <1>13, <1>14, <1>15

\* While the copy is being written it is worth nothing.
LEMMA RunHelperKeeps ==
  ASSUME ReplacementInv, Expected, RunHelper
  PROVE  ReplacementInv'
<1> USE DEF ReplacementInv
<1>1. job.pc = "r.run" /\ job' = [job EXCEPT !.pc = "r.wait"] /\ helper.op = rec.op
        /\ rec.op \in Ops /\ rec.op # rec.oldVol
      /\ rec.phase = "switching" /\ ch.exists
  BY DEF RunHelper, HelperFits, RecordFits, PhaseFits, KindFits, Idle
<1>2. JobTyped' /\ SameJob /\ job'.cur = job.cur /\ job'.pc = "r.wait"
        /\ UNCHANGED <<env, wanted, rows, box>>
  BY DEF RunHelper, Fault, JobTyped, Jobs, PCs
<1>3. \/ helper' = [helper EXCEPT !.state = "running"] /\ vols' = [vols EXCEPT ![rec.op] = Torn]
      \/ UNCHANGED <<helper, vols>>
  BY <1>1 DEF RunHelper
<1>4. /\ rec.op \in 0 .. MaxOp /\ rec.oldVol \in 0 .. MaxOp /\ ch.vol \in 0 .. MaxOp
           /\ 0 \in 0 .. MaxOp /\ rec.op # 0
      /\ Torn \in Gone .. MaxData
  BY <1>1 DEF RowsTyped, Records, Gone, Torn, Ops
<1>5. vols' \in [0 .. MaxOp -> Gone .. MaxData] /\ \A o \in 0 .. MaxOp : o # rec.op
        => vols'[o] = vols[o]
  BY <1>1, <1>3, <1>4, VolumeMoves DEF VolumesTyped
<1>6. /\ helper'.op = helper.op /\ helper'.src = helper.src
           /\ (helper'.state # "done" \/ helper' = helper)
      /\ helper' \in [op : 0 .. MaxOp, src : 0 .. MaxOp, state : {"none", "created", "running", "done", "failed"}]
  BY <1>3 DEF VolumesTyped
<1>7. Labelled' \subseteq Labelled \cup {rec.op}
  BY <1>5 DEF Labelled, Ops
<1> USE <1>1, <1>2, <1>3, <1>4, <1>5, <1>6, <1>7
<1>8. BoxesTyped' /\ RowsTyped' /\ VolumesTyped'
  BY SMTT(30) DEF BoxesTyped, RowsTyped, VolumesTyped, Records
<1>9. PhaseFits' /\ KindFits' /\ RecordFits' /\ AllOrNothing'
  BY SMTT(30) DEF PhaseFits, KindFits, Idle, RecordFits, AllOrNothing
<1>10. BoxesFit' /\ RowFits'
  BY SMTT(30) DEF PhaseFits, BoxesFit, RowFits, Free, Named
<1>11. RunsFit' /\ WorkFits'
  BY SMTT(30) DEF PhaseFits, KindFits, Idle, RunsFit, WorkFits, OneClientRuns
<1>12. HelperFits'
  BY DEF HelperFits
<1>13. VolumesFit'
  BY DEF VolumesFit
<1>14. WishFits'
  BY DEF WishFits
<1> QED
  BY <1>8, <1>9, <1>10, <1>11, <1>12, <1>13, <1>14

\* The candidate comes back after a restart of the machine, unless that could not be set.
LEMMA KeepRunningKeeps ==
  ASSUME ReplacementInv, Expected, KeepRunning
  PROVE  ReplacementInv'
<1> USE DEF ReplacementInv
<1>1. job.pc = "r.always" /\ job.cur \in DOMAIN box /\ (SetPolicy(job.cur, TRUE) \/ UNCHANGED box)
  BY DEF KeepRunning, WorkFits
<1>2. "c.begin" \in PCs
  BY DEF PCs
<1>3. (job.cur \in DOMAIN box /\ SetPolicy(job.cur, TRUE)) =>
        /\ DOMAIN box' = DOMAIN box /\ BoxesTyped' /\ SameMakes(DOMAIN box)
        /\ SameNames(DOMAIN box) /\ SameStates(DOMAIN box)
  BY PolicyMoves
<1>4. /\ DOMAIN box' = DOMAIN box /\ BoxesTyped' /\ SameMakes(DOMAIN box)
      /\ SameNames(DOMAIN box) /\ SameStates(DOMAIN box)
  BY <1>1, <1>3 DEF BoxesTyped, Boxes
<1>5. job' = IF rec.phase = "committed" THEN [job EXCEPT !.pc = "c.begin"] ELSE Idle
  BY DEF KeepRunning
<1>6. [job EXCEPT !.pc = "c.begin"] \in Jobs
  BY <1>2 DEF JobTyped, Jobs
<1>7. job' \in Jobs
  BY <1>5, <1>6, IdleIsAJob
<1>8. faults' = faults \/ (faults < MaxFaults /\ faults' = faults + 1)
  BY DEF KeepRunning, Fault
<1>9. asks' = asks /\ faults' \in 0 .. MaxFaults /\ UNCHANGED <<env, wanted, rows, vols, helper>>
  BY <1>8 DEF KeepRunning, JobTyped
<1>10. /\ JobTyped' /\ UNCHANGED <<env, wanted, rows, vols, helper>>
       /\ IF rec.phase = "committed" THEN SameJob /\ job'.cur = job.cur
            /\ job'.pc = "c.begin" ELSE job' = Idle
  BY <1>5, <1>6, <1>7, <1>9 DEF JobTyped, Jobs
<1> USE <1>1, <1>2, <1>3, <1>4, <1>5, <1>6, <1>7, <1>8, <1>9, <1>10
<1>11. RowsTyped' /\ VolumesTyped'
  BY DEF RowsTyped, VolumesTyped, Records
<1>12. PhaseFits' /\ KindFits' /\ RecordFits' /\ AllOrNothing'
  BY DEF PhaseFits, KindFits, Idle, RecordFits, AllOrNothing
<1>13. BoxesFit' /\ RowFits'
  BY SMTT(30) DEF PhaseFits, BoxesFit, RowFits, Free, Named, Idle
<1>14. RunsFit' /\ WorkFits'
  BY DEF PhaseFits, KindFits, Idle, RunsFit, WorkFits, OneClientRuns, Idle
<1>15. HelperFits' /\ VolumesFit' /\ WishFits'
  BY DEF PhaseFits, KindFits, Idle, HelperFits, VolumesFit, WishFits, Labelled, Idle
<1> QED
  BY <1>11, <1>12, <1>13, <1>14, <1>15

\* A channel that lost its container is started, any other gets what it had.
LEMMA ReplaceKeeps ==
  ASSUME ReplacementInv, Expected, Replace
  PROVE  ReplacementInv'
<1> USE DEF ReplacementInv
<1>1. LET lost == ch.id # Unset /\ ~Exists(ch.id)
      IN  /\ ch' = [ch EXCEPT !.stopped = @ /\ ~lost] /\ wanted' = (wanted \/ lost)
        /\ lost \in BOOLEAN
  BY DEF Replace
<1>2. /\ job.pc = "replace" /\ rec.phase \in Quiet
      /\ job' = [job EXCEPT !.pc = "r.begin", !.part = "replace", !.force = @ \/ ~ch.stopped]
      /\ UNCHANGED <<rec, intent, box, vols, helper, env, asks, faults>>
  BY DEF Replace, Expected, ReplaceExpects, docker, counters
<1>3. (job.force \/ ~ch.stopped) \in BOOLEAN /\ "r.begin" \in PCs
  BY DEF PCs, RowsTyped, JobTyped, Jobs
<1>4. /\ JobTyped' /\ job'.kind = job.kind /\ job'.part = "replace" /\ job'.pc = "r.begin"
           /\ job'.want = job.want
      /\ (job'.force <=> job.force \/ ~ch.stopped) /\ job'.mark = job.mark /\ job'.cur = job.cur
  BY <1>2, <1>3 DEF JobTyped, Jobs
<1>5. wanted' \in BOOLEAN /\ (wanted => wanted')
  BY <1>1 DEF RowsTyped
<1>6. /\ RowsTyped' /\ (ch'.stopped => ch.stopped)
      /\ ch'.exists = ch.exists /\ ch'.settings = ch.settings /\ ch'.id = ch.id
           /\ ch'.vol = ch.vol
  BY <1>1, <1>2, <1>5, MarkMoves
<1>7. ch' = ch \/ wanted'
  BY <1>1, <1>2, <1>5, MarkMoves
<1> USE <1>1, <1>2, <1>3, <1>4, <1>5, <1>6, <1>7
<1>8. BoxesTyped' /\ VolumesTyped'
  BY DEF BoxesTyped, VolumesTyped
<1>9. PhaseFits' /\ KindFits' /\ RecordFits' /\ AllOrNothing'
  BY DEF PhaseFits, KindFits, Idle, RecordFits, AllOrNothing
<1>10. BoxesFit' /\ RowFits'
  BY DEF PhaseFits, BoxesFit, RowFits, Free, Named
<1>11. RunsFit' /\ WorkFits'
  BY DEF PhaseFits, KindFits, Idle, RunsFit, WorkFits, OneClientRuns
<1>12. HelperFits' /\ VolumesFit'
  BY DEF HelperFits, VolumesFit, Labelled, KindFits, Idle
<1>13. (job'.force => wanted') /\ ch.exists
  BY DEF KindFits, WishFits, Idle
<1>14. WishFits'
  BY <1>13 DEF WishFits
<1> QED
  BY <1>8, <1>9, <1>10, <1>11, <1>12, <1>13, <1>14

\* The record keeps what the channel has, under a number that nothing has.
LEMMA BeginRecordKeeps ==
  ASSUME ReplacementInv, Expected, BeginRecord
  PROVE  ReplacementInv'
<1> USE DEF ReplacementInv
<1>1. /\ job.pc = "r.begin" /\ rec.phase \in Quiet /\ job.want \in Versions
           /\ job.part = "replace"
      /\ UNCHANGED <<ch, intent>> /\ Then("r.volume")
      /\ IF Exists(ch.id) THEN IsOurs(ch.id, {Main}, ch.vol)
           /\ vols[ch.vol] # Gone ELSE Free(Main)
  BY DEF BeginRecord, PhaseFits, KindFits, Expected, ReplaceExpects
<1>2. /\ FreshOp \in Ops /\ FreshOp \in 0 .. MaxOp /\ FreshOp # ch.vol /\ vols[FreshOp] = Gone
      /\ \A i \in DOMAIN box : box[i].op # FreshOp
  BY FreshOps DEF BeginRecord, Ops
<1>3. "r.volume" \in PCs /\ (Runs(ch.id)) \in BOOLEAN
        /\ (Exists(ch.id) /\ box[ch.id].always) \in BOOLEAN
      /\ (Exists(ch.id) => box[ch.id] \in Boxes) /\ (~Exists(ch.id)) \in BOOLEAN
  BY DEF PCs, BoxesTyped
<1>4. JobTyped' /\ SameJob /\ job'.cur = job.cur /\ job'.pc = "r.volume"
        /\ UNCHANGED <<env, wanted, box, vols, helper>>
  BY <1>1, <1>3, ThenGoes DEF Then, docker
<1>5. /\ rec' \in Records /\ rec'.phase = "preparing" /\ rec'.op = FreshOp /\ rec'.new = job.want
      /\ rec'.old = ch.settings /\ (rec'.initial <=> ~Exists(ch.id))
           /\ (rec'.src <=> vols[ch.vol] # Gone)
      /\ rec'.oldId = (IF Exists(ch.id) THEN ch.id ELSE Unset) /\ rec'.oldVol = ch.vol
      /\ (rec'.oldRun <=> Runs(ch.id)) /\ (rec'.oldAlways <=> Exists(ch.id) /\ box[ch.id].always)
      /\ rec'.start = job.force
  BY <1>1, <1>2, <1>3 DEF BeginRecord, RowsTyped, JobTyped, Jobs, Records
<1>6. Unset \notin DOMAIN box
  BY DEF BoxesTyped, Ids
<1>7. \A i \in DOMAIN box : i = ch.id /\ box[i].cfg = ch.settings /\ (Runs(i) => box[i].always)
  BY <1>1 DEF BoxesFit, RowFits
<1> USE <1>1, <1>2, <1>3, <1>4, <1>5, <1>6, <1>7
<1>8. BoxesTyped' /\ RowsTyped' /\ VolumesTyped'
  BY DEF BoxesTyped, RowsTyped, VolumesTyped, Records, Records
<1>9. PhaseFits' /\ KindFits'
  BY DEF PhaseFits, KindFits, Idle
<1>10. RecordFits'
  BY DEF RecordFits, RowsTyped
<1>11. AllOrNothing'
  BY DEF AllOrNothing
<1>12. BoxesFit' /\ RowFits'
  BY DEF PhaseFits, BoxesFit, RowFits, Free, Named
<1>13. RunsFit' /\ WorkFits'
  BY DEF PhaseFits, KindFits, Idle, RunsFit, WorkFits, OneClientRuns
<1>14. HelperFits'
  BY DEF HelperFits
<1>15. Labelled \subseteq {ch.vol} /\ vols[0] # Torn /\ vols[ch.vol] # Torn
  BY DEF VolumesFit
<1>16. vols[ch.vol] = Gone \/ vols[ch.vol] >= Empty
  BY <1>15 DEF VolumesTyped, RowsTyped, Gone, Empty, Torn
<1>17. Labelled' \subseteq {ch.vol} /\ Labelled' = Labelled
  BY <1>15 DEF Labelled
<1>18. VolumesFit'
  BY <1>15, <1>16, <1>17 DEF VolumesFit
<1>19. WishFits'
  BY DEF WishFits
<1> QED
  BY <1>8, <1>9, <1>10, <1>11, <1>12, <1>13, <1>14, <1>15, <1>16, <1>17, <1>18, <1>19

\* A replacement that failed is undone, and an error is noted.
LEMMA FailedKeeps ==
  ASSUME ReplacementInv, Failed
  PROVE  ReplacementInv'
<1> USE DEF ReplacementInv
<1>1. job.pc = "failed" /\ "v.begin" \in PCs /\ rec' = rec /\ intent' = intent
  BY DEF Failed, PCs
<1>2. /\ UNCHANGED <<env, wanted, box, vols, helper, asks, faults>>
      /\ \/ /\ ch' = ch /\ job' = [job EXCEPT !.pc = "v.begin", !.part = "undo"]
            /\ job.part = "replace" /\ rec.phase \in Unresolved \ {"queued"}
         \/ /\ job' = Idle
            /\ LET marked == /\ job.mark /\ job.part # "none"
                             /\ rec.phase \in Unresolved \/ (job.kind = "start" /\ ch.id = Unset)
               IN  ch' = [ch EXCEPT !.stopped = @ /\ ~marked] /\ marked \in BOOLEAN
  BY <1>1 DEF Failed, Proceeds, Ends, docker, counters
<1>3. JobTyped'
  BY <1>1, <1>2, IdleIsAJob DEF JobTyped, Jobs
<1>4. wanted' = wanted /\ wanted' \in BOOLEAN
  BY <1>2 DEF RowsTyped
<1>5. \/ ch' = ch
      \/ /\ job' = Idle /\ ch' = [ch EXCEPT !.stopped = FALSE]
         /\ job.mark /\ job.part # "none"
              /\ (rec.phase \in Unresolved \/ (job.kind = "start" /\ ch.id = Unset))
  BY <1>1, <1>2, <1>4, MarkMoves
<1>6. ch' = ch \/ ch' = [ch EXCEPT !.stopped = FALSE]
  BY <1>5
<1>7. RowsTyped'
  BY <1>1, <1>4, <1>6 DEF RowsTyped
<1>8. ch'.exists = ch.exists /\ ch'.settings = ch.settings /\ ch'.id = ch.id /\ ch'.vol = ch.vol
  BY <1>6 DEF RowsTyped
<1>9. ch'.stopped => ch.stopped
  BY <1>6 DEF RowsTyped
<1>10. \/ /\ ch' = ch /\ job'.kind = job.kind /\ job'.part = "undo" /\ job'.pc = "v.begin"
               /\ job'.want = job.want
          /\ job'.cur = job.cur /\ job.part = "replace" /\ rec.phase \in Unresolved \ {"queued"}
       \/ job' = Idle
  BY <1>2 DEF JobTyped, Jobs
<1> USE <1>1, <1>2, <1>3, <1>4, <1>5, <1>6, <1>7, <1>8, <1>9, <1>10
<1>11. BoxesTyped' /\ RowsTyped' /\ VolumesTyped'
  BY DEF BoxesTyped, RowsTyped, VolumesTyped, Records, RowsTyped
<1>12. PhaseFits' /\ KindFits' /\ RecordFits' /\ AllOrNothing'
  BY DEF PhaseFits, KindFits, Idle, RecordFits, AllOrNothing, Unresolved
<1>13. BoxesFit' /\ RowFits'
  BY DEF PhaseFits, BoxesFit, RowFits, Free, Named
<1>14. RunsFit' /\ WorkFits'
  BY DEF PhaseFits, KindFits, Idle, RunsFit, WorkFits, OneClientRuns
<1>15. HelperFits' /\ VolumesFit' /\ WishFits'
  BY DEF PhaseFits, KindFits, Idle, HelperFits, VolumesFit, WishFits, Labelled, Unresolved
<1> QED
  BY <1>11, <1>12, <1>13, <1>14, <1>15

\* A recovery begins, or there is nothing to recover.
LEMMA BeginRecoveryKeeps ==
  ASSUME ReplacementInv, Expected, BeginRecovery
  PROVE  ReplacementInv'
<1> USE DEF ReplacementInv
<1>1. /\ job.pc = "v.begin" /\ rec.phase \in Open \cup {"none"}
           /\ {"c.begin", "v.helper"} \subseteq PCs
  BY DEF BeginRecovery, Expected, RecoverExpects, PCs, RowsTyped, Records
<1>2. /\ rec.phase = "none" => Returns /\ rec' = rec
      /\ rec.phase \in Terminal => Then("c.begin") /\ rec' = rec
      /\ rec.phase \in Open \ Terminal =>
           /\ Then("v.helper")
           /\ rec' = [rec EXCEPT !.phase = "rolling_back",
                                 !.applied = IF rec.phase = "rolling_back" THEN @ ELSE rec.phase = "awaiting_login"]
      /\ UNCHANGED <<ch, intent>>
  BY DEF BeginRecovery
<1>3. Then("c.begin") \/ Then("v.helper") =>
        /\ JobTyped' /\ SameJob /\ job'.cur = job.cur
        /\ UNCHANGED <<env, wanted, box, vols, helper>>
  BY <1>1, ThenGoes DEF Then, docker
<1>4. (Then("c.begin") => job'.pc = "c.begin") /\ (Then("v.helper") => job'.pc = "v.helper")
  BY <1>1, ThenGoes DEF Then
<1>5. Returns => /\ JobTyped' /\ UNCHANGED <<env, wanted, box, vols, helper>>
                 /\ \/ job' = Idle
                    \/ /\ SameJob /\ job'.cur = job.cur
                       /\ \/ job'.pc = "failed"
                          \/ job.part = "none" /\ job'.pc = "s.inspect"
                               /\ (job.kind = "stop" \/ (job.kind = "start" /\ intent))
                          \/ job.part = "none" /\ job'.pc = "replace" /\ job.kind = "start"
                               /\ ~intent
                          \/ job.part = "none" /\ job'.pc = "u.save" /\ job.kind = "update"
  BY ReturnsGo
<1>6. JobTyped' /\ UNCHANGED <<env, wanted, box, vols, helper, ch, intent>>
  BY <1>1, <1>2, <1>3, <1>5
<1>7. (IF rec.phase = "rolling_back" THEN rec.applied ELSE rec.phase = "awaiting_login") \in BOOLEAN
  BY DEF RowsTyped, Records
<1>8. rec.phase \in Open \ Terminal =>
        \E b \in BOOLEAN : rec' = [rec EXCEPT !.phase = "rolling_back", !.applied = b]
  BY <1>2, <1>7
<1>9. rec.phase \in Open \ Terminal =>
        (rec'.applied <=> IF rec.phase = "rolling_back" THEN rec.applied ELSE rec.phase = "awaiting_login")
  BY <1>2, <1>7 DEF RowsTyped, Records
<1>10. rec.phase \in Open \ Terminal =>
         /\ rec'.phase = "rolling_back" /\ rec'.op = rec.op /\ rec'.new = rec.new
              /\ rec'.old = rec.old
         /\ rec'.initial = rec.initial /\ rec'.src = rec.src /\ rec'.oldId = rec.oldId
              /\ rec'.oldVol = rec.oldVol
         /\ rec'.oldRun = rec.oldRun /\ rec'.oldAlways = rec.oldAlways /\ rec'.start = rec.start
  BY ZenonT(40), <1>8 DEF RowsTyped, Records
<1>11. rec.phase \in Open \ Terminal => rec' \in Records
  BY <1>8, RecoveryIsARecord
<1> USE <1>1, <1>2, <1>3, <1>4, <1>5, <1>6, <1>9, <1>10, <1>11
<1>12. RowsTyped'
  BY DEF RowsTyped
<1>13. BoxesTyped' /\ VolumesTyped'
  BY DEF BoxesTyped, VolumesTyped
<1>14. PhaseFits' /\ KindFits' /\ RecordFits' /\ AllOrNothing'
  BY DEF PhaseFits, KindFits, Idle, RecordFits, AllOrNothing
<1>15. BoxesFit' /\ RowFits'
  BY DEF PhaseFits, BoxesFit, RowFits, Free, Named
<1>16. RunsFit' /\ WorkFits'
  BY DEF PhaseFits, KindFits, Idle, RunsFit, WorkFits, OneClientRuns
<1>17. HelperFits' /\ VolumesFit' /\ WishFits'
  BY DEF PhaseFits, KindFits, Idle, HelperFits, VolumesFit, WishFits, Labelled
<1> QED
  BY <1>12, <1>13, <1>14, <1>15, <1>16, <1>17

\* A recovery ends the copy that may be under way.
LEMMA RecoveryDropsHelperKeeps ==
  ASSUME ReplacementInv, Expected, RemoveHelper("v.helper", "v.policy")
  PROVE  ReplacementInv'
<1> USE DEF ReplacementInv
<1>1. job.pc = "v.helper" /\ helper' = IF helper.op = rec.op THEN NoHelper ELSE helper
  BY DEF RemoveHelper
<1>2. /\ JobTyped' /\ SameJob /\ job'.cur = job.cur /\ job'.pc \in {"v.policy", "failed"}
      /\ UNCHANGED <<env, wanted, rows, box, vols>>
  BY CommandGoes DEF RemoveHelper, PCs
<1>3. helper' \in {helper, NoHelper} /\ helper'.state = "none"
  BY <1>1 DEF HelperFits, NoHelper
<1> USE <1>1, <1>2, <1>3
<1>4. BoxesTyped' /\ RowsTyped' /\ VolumesTyped'
  BY DEF BoxesTyped, RowsTyped, VolumesTyped, Records, NoHelper
<1>5. PhaseFits' /\ KindFits' /\ RecordFits' /\ AllOrNothing'
  BY DEF PhaseFits, KindFits, Idle, RecordFits, AllOrNothing
<1>6. BoxesFit' /\ RowFits'
  BY DEF PhaseFits, BoxesFit, RowFits, Free, Named
<1>7. RunsFit' /\ WorkFits'
  BY DEF PhaseFits, KindFits, Idle, RunsFit, WorkFits, OneClientRuns
<1>8. HelperFits' /\ VolumesFit' /\ WishFits'
  BY DEF PhaseFits, KindFits, Idle, HelperFits, VolumesFit, WishFits, Labelled
<1> QED
  BY <1>4, <1>5, <1>6, <1>7, <1>8

\* So does a deletion.
LEMMA DeletionDropsHelperKeeps ==
  ASSUME ReplacementInv, Expected, RemoveHelper("d.helper", "d.remove")
  PROVE  ReplacementInv'
<1> USE DEF ReplacementInv
<1>1. job.pc = "d.helper" /\ helper' = IF helper.op = rec.op THEN NoHelper ELSE helper
  BY DEF RemoveHelper
<1>2. /\ JobTyped' /\ SameJob /\ job'.cur = job.cur /\ job'.pc \in {"d.remove", "failed"}
      /\ UNCHANGED <<env, wanted, rows, box, vols>>
  BY CommandGoes DEF RemoveHelper, PCs
<1>3. helper' \in {helper, NoHelper} /\ helper'.state = "none"
  BY <1>1 DEF HelperFits, NoHelper
<1> USE <1>1, <1>2, <1>3
<1>4. BoxesTyped' /\ RowsTyped' /\ VolumesTyped'
  BY DEF BoxesTyped, RowsTyped, VolumesTyped, Records, NoHelper
<1>5. PhaseFits' /\ KindFits' /\ RecordFits' /\ AllOrNothing'
  BY DEF PhaseFits, KindFits, Idle, RecordFits, AllOrNothing
<1>6. BoxesFit' /\ RowFits'
  BY DEF PhaseFits, BoxesFit, RowFits, Free, Named
<1>7. RunsFit' /\ WorkFits'
  BY DEF PhaseFits, KindFits, Idle, RunsFit, WorkFits, OneClientRuns
<1>8. HelperFits' /\ VolumesFit' /\ WishFits'
  BY DEF PhaseFits, KindFits, Idle, HelperFits, VolumesFit, WishFits, Labelled
<1> QED
  BY <1>4, <1>5, <1>6, <1>7, <1>8

\* The candidate will not come back by itself.
LEMMA HoldCandidateKeeps ==
  ASSUME ReplacementInv, Expected, HoldCandidate
  PROVE  ReplacementInv'
<1> USE DEF ReplacementInv
<1>1. /\ job.pc = "v.policy" /\ rec.phase = "rolling_back"
      /\ box' = [i \in DOMAIN box |-> IF i \in Owned(FALSE, TRUE) THEN [box[i] EXCEPT !["always"] = FALSE] ELSE box[i]]
  BY DEF HoldCandidate, OnCandidate, PhaseFits
<1>2. /\ DOMAIN box' = DOMAIN box /\ BoxesTyped'
      /\ SameMakes(DOMAIN box) /\ SameNames(DOMAIN box) /\ SameStates(DOMAIN box)
  BY <1>1, HoldMoves
<1>3. /\ JobTyped' /\ SameJob /\ job'.cur = job.cur /\ job'.pc \in {"v.halt", "failed"}
      /\ UNCHANGED <<env, wanted, rows, vols, helper>>
  BY CommandGoes DEF HoldCandidate, OnCandidate, Command, PCs
<1>4. job.pc = "v.policy" /\ rec.phase = "rolling_back"
  BY <1>1
<1> USE <1>2, <1>3, <1>4
<1>5. RowsTyped' /\ VolumesTyped'
  BY DEF RowsTyped, VolumesTyped, Records
<1>6. PhaseFits' /\ KindFits' /\ RecordFits' /\ AllOrNothing'
  BY DEF PhaseFits, KindFits, Idle, RecordFits, AllOrNothing
<1>7. BoxesFit' /\ RowFits'
  BY DEF PhaseFits, BoxesFit, RowFits, Free, Named
<1>8. RunsFit' /\ WorkFits'
  BY DEF PhaseFits, KindFits, Idle, RunsFit, WorkFits, OneClientRuns
<1>9. HelperFits' /\ VolumesFit' /\ WishFits'
  BY DEF PhaseFits, KindFits, Idle, HelperFits, VolumesFit, WishFits, Labelled
<1> QED
  BY <1>5, <1>6, <1>7, <1>8, <1>9

\* The candidate is halted.
LEMMA StopCandidateKeeps ==
  ASSUME ReplacementInv, Expected, StopCandidate
  PROVE  ReplacementInv'
<1> USE DEF ReplacementInv
<1>1. job.pc = "v.halt" /\ rec.phase = "rolling_back"
  BY DEF StopCandidate, PhaseFits
<1>2. \A i \in DOMAIN box : i \in Owned(FALSE, TRUE) <=> Candidate(i)
  BY <1>1 DEF BoxesFit, Owned, OwnedBy
<1>3. UNCHANGED box \/ \E i \in DOMAIN box : Candidate(i) /\ Halt(i)
  BY <1>2, TheIsOne DEF StopCandidate, Owned, OwnedBy
<1>4. Owned(FALSE, TRUE) = {} \/ \E i \in DOMAIN box : Candidate(i) /\ Halt(i)
  BY <1>2, TheIsOne DEF StopCandidate, Owned, OwnedBy
<1>5. \A i \in DOMAIN box : Halt(i) =>
        /\ DOMAIN box' = DOMAIN box /\ BoxesTyped'
        /\ SameMakes(DOMAIN box) /\ SameNames(DOMAIN box) /\ SamePolicies(DOMAIN box)
        /\ SameStates(DOMAIN box \ {i}) /\ box'[i].state # "running"
  BY HaltMoves
<1>6. /\ DOMAIN box' = DOMAIN box /\ BoxesTyped'
      /\ SameMakes(DOMAIN box) /\ SameNames(DOMAIN box) /\ SamePolicies(DOMAIN box)
  BY <1>3, <1>5 DEF BoxesTyped, Boxes
<1>7. \A i \in DOMAIN box : box'[i].state = "running" => box[i].state = "running"
  BY <1>3, <1>5
<1>8. \A i, j \in DOMAIN box : Candidate(i) /\ Candidate(j) => i = j
  BY <1>1 DEF BoxesFit
<1>9. \A i \in DOMAIN box : Candidate(i) => box'[i].state # "running"
  BY <1>2, <1>4, <1>5, <1>8
<1>10. /\ JobTyped' /\ SameJob /\ job'.cur = job.cur /\ job'.pc \in {"v.unname", "failed"}
       /\ UNCHANGED <<env, wanted, rows, vols, helper>>
  BY CommandGoes DEF StopCandidate, Command, PCs
<1> USE <1>1, <1>6, <1>7, <1>9, <1>10
<1>11. RowsTyped' /\ VolumesTyped'
  BY DEF RowsTyped, VolumesTyped, Records
<1>12. PhaseFits' /\ KindFits' /\ RecordFits' /\ AllOrNothing'
  BY DEF PhaseFits, KindFits, Idle, RecordFits, AllOrNothing
<1>13. BoxesFit' /\ RowFits'
  BY DEF PhaseFits, BoxesFit, RowFits, Free, Named
<1>14. RunsFit' /\ WorkFits'
  BY DEF PhaseFits, KindFits, Idle, RunsFit, WorkFits, OneClientRuns
<1>15. HelperFits' /\ VolumesFit' /\ WishFits'
  BY DEF PhaseFits, KindFits, Idle, HelperFits, VolumesFit, WishFits, Labelled
<1> QED
  BY <1>11, <1>12, <1>13, <1>14, <1>15

\* The candidate gives the channel's name back.
LEMMA UnnameCandidateKeeps ==
  ASSUME ReplacementInv, Expected, UnnameCandidate
  PROVE  ReplacementInv'
<1> USE DEF ReplacementInv
<1>1. job.pc = "v.unname" /\ rec.phase = "rolling_back" /\ NextName(FALSE) \in Names
  BY DEF UnnameCandidate, OnCandidate, PhaseFits, RecordFits, Names
<1>2. \A i \in DOMAIN box : i \in Owned(FALSE, TRUE) <=> Candidate(i)
  BY <1>1 DEF BoxesFit, Owned, OwnedBy
<1>3. box' = [i \in DOMAIN box |-> IF i \in Owned(FALSE, TRUE) THEN [box[i] EXCEPT !["name"] = NextName(FALSE)] ELSE box[i]]
  BY DEF UnnameCandidate, OnCandidate
<1>4. /\ DOMAIN box' = DOMAIN box /\ SameMakes(DOMAIN box)
      /\ SameStates(DOMAIN box) /\ SamePolicies(DOMAIN box)
      /\ \A i \in DOMAIN box : box'[i].name = IF i \in Owned(FALSE, TRUE) THEN NextName(FALSE) ELSE box[i].name
  BY <1>1, <1>3 DEF BoxesTyped, Boxes
<1>5. /\ JobTyped' /\ SameJob /\ job'.cur = job.cur /\ job'.pc \in {"v.old", "failed"}
      /\ UNCHANGED <<env, wanted, rows, vols, helper>>
  BY CommandGoes DEF UnnameCandidate, OnCandidate, Command, PCs
<1>6. \A i \in DOMAIN box : box'[i].name = IF Candidate(i) THEN NextName(FALSE) ELSE box[i].name
  BY <1>2, <1>4
<1>7. \A i, j \in DOMAIN box : Candidate(i) /\ ~Candidate(j) => box[j].name # NextName(FALSE)
  BY <1>1, <1>2 DEF UnnameCandidate, Expected, RecoverExpects, BoxesFit, CanRename, Free, Named
<1>8. \A i, j \in DOMAIN box : box'[i].name = box'[j].name => i = j
  BY <1>1, <1>6, <1>7 DEF BoxesFit
<1>9. /\ DOMAIN box' = DOMAIN box /\ SameMakes(DOMAIN box)
      /\ SameStates(DOMAIN box) /\ SamePolicies(DOMAIN box)
  BY <1>4
<1>10. BoxesTyped'
  BY ZenonT(40), <1>1, <1>3 DEF BoxesTyped, Boxes
<1> USE <1>1, <1>5, <1>6, <1>8, <1>9, <1>10
<1>11. RowsTyped' /\ VolumesTyped'
  BY DEF RowsTyped, VolumesTyped, Records
<1>12. PhaseFits' /\ KindFits' /\ RecordFits' /\ AllOrNothing'
  BY DEF PhaseFits, KindFits, Idle, RecordFits, AllOrNothing
<1>13. BoxesFit' /\ RowFits'
  BY DEF PhaseFits, BoxesFit, RowFits, Free, Named
<1>14. RunsFit' /\ WorkFits'
  BY DEF PhaseFits, KindFits, Idle, RunsFit, WorkFits, OneClientRuns
<1>15. HelperFits' /\ VolumesFit' /\ WishFits'
  BY DEF PhaseFits, KindFits, Idle, HelperFits, VolumesFit, WishFits, Labelled
<1> QED
  BY <1>11, <1>12, <1>13, <1>14, <1>15

\* The old container is left, put back or replaced by one like it.
LEMMA ChooseRestoreKeeps ==
  ASSUME ReplacementInv, Expected, ChooseRestore
  PROVE  ReplacementInv'
<1> USE DEF ReplacementInv
<1>1. job.pc = "v.old" /\ {"v.discard", "v.restore", "v.oldPolicy", "v.oldHalt"} \subseteq PCs
  BY DEF ChooseRestore, PCs
<1>2. UNCHANGED <<rows, box, vols, helper>> /\ UNCHANGED <<asks, faults, env, wanted>>
  BY DEF ChooseRestore, Then, Proceeds, counters, docker
<1>3. /\ rec.initial => job' = [job EXCEPT !.pc = "v.discard"]
      /\ ~rec.initial => IF Runs(rec.oldId) /\ box[rec.oldId].name = Main
                          THEN job' = [job EXCEPT !.pc = "v.restore", !.cur = rec.oldId]
                          ELSE job' = [job EXCEPT !.pc = IF rec.oldRun THEN "v.oldPolicy" ELSE "v.oldHalt"]
  BY DEF ChooseRestore, Then, Proceeds
<1>4. \/ job' = [job EXCEPT !.pc = "v.discard"]
           \/ job' = [job EXCEPT !.pc = "v.restore", !.cur = rec.oldId]
      \/ job' = [job EXCEPT !.pc = "v.oldPolicy"] \/ job' = [job EXCEPT !.pc = "v.oldHalt"]
  BY <1>3
<1>5. rec.oldId \in Ids \cup {Unset}
  BY DEF RowsTyped, Records
<1>6. /\ [job EXCEPT !.pc = "v.discard"] \in Jobs
           /\ [job EXCEPT !.pc = "v.restore", !.cur = rec.oldId] \in Jobs
      /\ [job EXCEPT !.pc = "v.oldPolicy"] \in Jobs /\ [job EXCEPT !.pc = "v.oldHalt"] \in Jobs
  BY <1>1, <1>5, PlaceIsAJob
<1>7. job' \in Jobs
  BY <1>4, <1>6
<1>8. JobTyped'
  BY <1>2, <1>7 DEF JobTyped
<1>9. SameJob
  BY <1>3 DEF JobTyped, Jobs
<1>10. \/ rec.initial /\ job'.pc = "v.discard"
       \/ ~rec.initial /\ job'.pc = "v.restore" /\ job'.cur = rec.oldId /\ Runs(rec.oldId)
            /\ box[rec.oldId].name = Main
       \/ ~rec.initial /\ job'.pc \in {"v.oldPolicy", "v.oldHalt"}
  BY <1>3 DEF JobTyped, Jobs
<1> USE <1>1, <1>2, <1>8, <1>9, <1>10
<1>11. BoxesTyped' /\ RowsTyped' /\ VolumesTyped'
  BY DEF BoxesTyped, RowsTyped, VolumesTyped, Records
<1>12. PhaseFits' /\ KindFits' /\ RecordFits' /\ AllOrNothing'
  BY DEF PhaseFits, KindFits, Idle, RecordFits, AllOrNothing
<1>13. BoxesFit' /\ RowFits'
  BY DEF PhaseFits, BoxesFit, RowFits, Free, Named
<1>14. RunsFit' /\ WorkFits'
  BY DEF PhaseFits, KindFits, Idle, RunsFit, WorkFits, OneClientRuns
<1>15. HelperFits' /\ VolumesFit' /\ WishFits'
  BY DEF PhaseFits, KindFits, Idle, HelperFits, VolumesFit, WishFits, Labelled
<1> QED
  BY <1>11, <1>12, <1>13, <1>14, <1>15

\* A first container that failed is removed.
LEMMA DiscardCandidateKeeps ==
  ASSUME ReplacementInv, Expected, DiscardCandidate
  PROVE  ReplacementInv'
<1> USE DEF ReplacementInv
<1>1. job.pc = "v.discard" /\ RemoveAll(Owned(FALSE, FALSE))
  BY DEF DiscardCandidate
<1>2. /\ DOMAIN box' = DOMAIN box \ Owned(FALSE, FALSE) /\ BoxesTyped'
      /\ SameMakes(DOMAIN box \ Owned(FALSE, FALSE))
           /\ SameNames(DOMAIN box \ Owned(FALSE, FALSE))
      /\ SameStates(DOMAIN box \ Owned(FALSE, FALSE))
           /\ SamePolicies(DOMAIN box \ Owned(FALSE, FALSE))
  BY <1>1, RemoveMoves
<1>3. DOMAIN box' \subseteq DOMAIN box /\ BoxesTyped' /\ SameMakes(DOMAIN box')
      /\ SameNames(DOMAIN box') /\ SameStates(DOMAIN box') /\ SamePolicies(DOMAIN box')
  BY <1>2
<1>4. job.pc = "v.discard"
  BY <1>1
<1>5. /\ JobTyped' /\ SameJob /\ job'.cur = job.cur /\ job'.pc \in {"v.absent", "failed"}
      /\ UNCHANGED <<env, wanted, rows, vols, helper>>
  BY CommandGoes DEF DiscardCandidate, Command, PCs
<1>6. \A i \in DOMAIN box : i \in DOMAIN box' <=> ~Candidate(i)
  BY <1>1, <1>2 DEF WorkFits, Owned, OwnedBy
<1> USE <1>3, <1>4, <1>5, <1>6
<1>7. RowsTyped' /\ VolumesTyped'
  BY DEF RowsTyped, VolumesTyped, Records
<1>8. PhaseFits' /\ KindFits' /\ RecordFits' /\ AllOrNothing'
  BY DEF PhaseFits, KindFits, Idle, RecordFits, AllOrNothing
<1>9. BoxesFit' /\ RowFits'
  BY DEF PhaseFits, BoxesFit, RowFits, Free, Named
<1>10. RunsFit' /\ WorkFits'
  BY DEF PhaseFits, KindFits, Idle, RunsFit, WorkFits, OneClientRuns
<1>11. HelperFits' /\ VolumesFit' /\ WishFits'
  BY DEF PhaseFits, KindFits, Idle, HelperFits, VolumesFit, WishFits, Labelled
<1> QED
  BY <1>7, <1>8, <1>9, <1>10, <1>11

\* The channel has no container again.
LEMMA RestoreAbsentKeeps ==
  ASSUME ReplacementInv, Expected, RestoreAbsent
  PROVE  ReplacementInv'
<1> USE DEF ReplacementInv
<1>1. /\ job.pc = "v.absent" /\ rec.phase = "rolling_back" /\ rec.initial /\ "c.begin" \in PCs
      /\ ch' = [ch EXCEPT !.settings = IF rec.applied THEN rec.old ELSE @, !.id = Unset, !.vol = rec.oldVol, !.stopped = ~rec.start]
      /\ rec' = [rec EXCEPT !.phase = "rolled_back"]
  BY DEF RestoreAbsent, PhaseFits, RecordFits, PCs
<1>2. JobTyped' /\ SameJob /\ job'.cur = job.cur /\ job'.pc = "c.begin"
        /\ UNCHANGED <<env, wanted, intent, box, vols, helper>>
  BY <1>1, ThenGoes DEF RestoreAbsent, Then, docker
<1>3. (~rec.start) \in BOOLEAN /\ (IF rec.applied THEN rec.old ELSE ch.settings) = rec.old
        /\ rec.old \in Versions
  BY <1>1 DEF AllOrNothing, RecordFits
<1>4. /\ RowsTyped' /\ ch'.exists = ch.exists /\ ch'.settings = rec.old /\ ch'.id = Unset
           /\ ch'.vol = rec.oldVol
  BY <1>1, <1>2, <1>3 DEF RowsTyped, Records
<1>5. /\ rec'.phase = "rolled_back" /\ rec'.op = rec.op /\ rec'.new = rec.new
           /\ rec'.old = rec.old
      /\ rec'.initial = rec.initial /\ rec'.src = rec.src /\ rec'.oldId = rec.oldId
           /\ rec'.oldVol = rec.oldVol
      /\ rec'.oldRun = rec.oldRun /\ rec'.oldAlways = rec.oldAlways /\ rec'.start = rec.start
  BY <1>1 DEF RowsTyped, Records
<1>6. Unset \notin DOMAIN box
  BY DEF BoxesTyped, Ids
<1>7. DOMAIN box = {}
  BY <1>1, <1>6 DEF WorkFits, BoxesFit, RecordFits
<1>8. job.pc = "v.absent" /\ rec.phase = "rolling_back" /\ rec.initial
  BY <1>1
<1> USE <1>2, <1>4, <1>5, <1>6, <1>7, <1>8
<1>9. BoxesTyped' /\ VolumesTyped'
  BY DEF BoxesTyped, VolumesTyped
<1>10. PhaseFits' /\ KindFits' /\ RecordFits' /\ AllOrNothing'
  BY DEF PhaseFits, KindFits, Idle, RecordFits, AllOrNothing
<1>11. BoxesFit' /\ RowFits'
  BY DEF PhaseFits, BoxesFit, RowFits, Free, Named
<1>12. RunsFit' /\ WorkFits'
  BY DEF PhaseFits, KindFits, Idle, RunsFit, WorkFits, OneClientRuns
<1>13. HelperFits' /\ VolumesFit' /\ WishFits'
  BY DEF PhaseFits, KindFits, Idle, HelperFits, VolumesFit, WishFits, Labelled
<1> QED
  BY <1>9, <1>10, <1>11, <1>12, <1>13

\* The old container is put back, or steps aside for one like it.
LEMMA NameOldKeeps ==
  ASSUME ReplacementInv, Expected, NameOld
  PROVE  ReplacementInv'
<1> USE DEF ReplacementInv
<1>1. job.pc = "v.oldName" /\ rec.phase = "rolling_back" /\ rec.op \in Ops
  BY DEF NameOld, PhaseFits, RecordFits
<1>2. /\ rec.oldId \in DOMAIN box /\ rec.oldId \in Ids \cup {Unset}
      /\ (IF rec.oldRun THEN Previous ELSE Main) \in Names
      /\ (IF rec.oldRun THEN "v.partial" ELSE "v.restore") \in PCs \ {"failed"}
  BY <1>1 DEF Expected, RecoverExpects, CanRename, Names, PCs, RowsTyped, Records
<1>3. Rename(rec.oldId, (IF rec.oldRun THEN Previous ELSE Main))
  BY DEF NameOld
<1>4. /\ DOMAIN box' = DOMAIN box /\ BoxesTyped'
      /\ SameMakes(DOMAIN box) /\ SameStates(DOMAIN box) /\ SamePolicies(DOMAIN box)
      /\ SameNames(DOMAIN box \ {rec.oldId})
      /\ box'[rec.oldId].name = (IF rec.oldRun THEN Previous ELSE Main)
  BY <1>2, <1>3, RenameMoves
<1>5. /\ JobTyped' /\ SameJob /\ UNCHANGED <<env, wanted, rows, vols, helper>>
      /\ job'.pc \in {(IF rec.oldRun THEN "v.partial" ELSE "v.restore"), "failed"}
      /\ job'.pc = (IF rec.oldRun THEN "v.partial" ELSE "v.restore") => job'.cur = rec.oldId
  BY <1>2, CommandTakes DEF NameOld
<1>6. \A i \in DOMAIN box : i # rec.oldId => box[i].name # (IF rec.oldRun THEN Previous ELSE Main)
  BY <1>1 DEF BoxesFit, Expected, RecoverExpects, CanRename, Free, Named
<1>7. rec.oldId \in DOMAIN box
  BY <1>2
<1> USE <1>1, <1>4, <1>5, <1>6, <1>7
<1>8. RowsTyped' /\ VolumesTyped'
  BY DEF RowsTyped, VolumesTyped, Records
<1>9. PhaseFits' /\ KindFits' /\ RecordFits' /\ AllOrNothing'
  BY DEF PhaseFits, KindFits, Idle, RecordFits, AllOrNothing
<1>10. BoxesFit' /\ RowFits'
  BY DEF PhaseFits, BoxesFit, RowFits, Free, Named
<1>11. RunsFit'
  BY DEF PhaseFits, RunsFit, OneClientRuns
<1>12. WorkFits'
  BY DEF PhaseFits, KindFits, Idle, WorkFits, BoxesFit
<1>13. HelperFits' /\ VolumesFit' /\ WishFits'
  BY DEF PhaseFits, KindFits, Idle, HelperFits, VolumesFit, WishFits, Labelled
<1> QED
  BY <1>8, <1>9, <1>10, <1>11, <1>12, <1>13

\* What an earlier attempt made is removed.
LEMMA RemovePartialKeeps ==
  ASSUME ReplacementInv, Expected, RemovePartial
  PROVE  ReplacementInv'
<1> USE DEF ReplacementInv
<1>1. job.pc = "v.partial" /\ RemoveAll(Owned(TRUE, TRUE))
  BY DEF RemovePartial
<1>2. /\ DOMAIN box' = DOMAIN box \ Owned(TRUE, TRUE) /\ BoxesTyped'
      /\ SameMakes(DOMAIN box \ Owned(TRUE, TRUE)) /\ SameNames(DOMAIN box \ Owned(TRUE, TRUE))
      /\ SameStates(DOMAIN box \ Owned(TRUE, TRUE))
           /\ SamePolicies(DOMAIN box \ Owned(TRUE, TRUE))
  BY <1>1, RemoveMoves
<1>3. DOMAIN box' \subseteq DOMAIN box /\ BoxesTyped' /\ SameMakes(DOMAIN box')
      /\ SameNames(DOMAIN box') /\ SameStates(DOMAIN box') /\ SamePolicies(DOMAIN box')
  BY <1>2
<1>4. job.pc = "v.partial"
  BY <1>1
<1>5. /\ JobTyped' /\ SameJob /\ job'.cur = job.cur /\ job'.pc \in {"v.create", "failed"}
      /\ UNCHANGED <<env, wanted, rows, vols, helper>>
  BY CommandGoes DEF RemovePartial, Command, PCs
<1>6. \A i \in DOMAIN box : i \in DOMAIN box' <=> ~Restored(i)
  BY <1>1, <1>2 DEF BoxesFit, PhaseFits, Owned, OwnedBy
<1> USE <1>3, <1>4, <1>5, <1>6
<1>7. RowsTyped' /\ VolumesTyped'
  BY DEF RowsTyped, VolumesTyped, Records
<1>8. PhaseFits' /\ KindFits' /\ RecordFits' /\ AllOrNothing'
  BY DEF PhaseFits, KindFits, Idle, RecordFits, AllOrNothing
<1>9. BoxesFit' /\ RowFits'
  BY DEF PhaseFits, BoxesFit, RowFits, Free, Named
<1>10. RunsFit' /\ WorkFits'
  BY DEF PhaseFits, KindFits, Idle, RunsFit, WorkFits, OneClientRuns
<1>11. HelperFits' /\ VolumesFit' /\ WishFits'
  BY DEF PhaseFits, KindFits, Idle, HelperFits, VolumesFit, WishFits, Labelled
<1> QED
  BY <1>7, <1>8, <1>9, <1>10, <1>11

\* A container like the old one is made with the old volume.
LEMMA CreateRestoredKeeps ==
  ASSUME ReplacementInv, Expected, CreateRestored
  PROVE  ReplacementInv'
<1> USE DEF ReplacementInv
<1>1. job.pc = "v.create" /\ rec.phase = "rolling_back" /\ rec.op \in Ops
        /\ rec.op \in 0 .. MaxOp /\ rec.src
      /\ rec.oldVol \in 0 .. MaxOp /\ rec.old \in Versions /\ rec.oldRun /\ rec.oldAlways
           /\ ~rec.initial
  BY DEF CreateRestored, RecordFits, PhaseFits, Ops, RowsTyped, Records
<1>2. FreshId \in Ids \ DOMAIN box /\ FreshId # ch.id /\ FreshId # rec.oldId
  BY FreshIds DEF CreateRestored
<1>3. NewBox(FreshId, TRUE, rec.oldVol, rec.old)
  BY DEF CreateRestored
<1>4. /\ DOMAIN box' = DOMAIN box \cup {FreshId} /\ BoxesTyped'
      /\ SameMakes(DOMAIN box) /\ SameNames(DOMAIN box)
      /\ SameStates(DOMAIN box) /\ SamePolicies(DOMAIN box)
      /\ box'[FreshId].name = NextName(TRUE) /\ box'[FreshId].vol = rec.oldVol
           /\ box'[FreshId].op = rec.op
      /\ box'[FreshId].restore = TRUE /\ box'[FreshId].state = "created"
           /\ box'[FreshId].cfg = rec.old
  <2>1. /\ BoxesTyped /\ FreshId \in Ids \ DOMAIN box /\ TRUE \in BOOLEAN /\ rec.oldVol \in 0 .. MaxOp
        /\ rec.old \in Versions /\ rec.op \in Ops
    BY <1>1, <1>2
  <2> HIDE DEF ReplacementInv
  <2>2. MadeAs(FreshId, TRUE, rec.oldVol, rec.old)
    BY <2>1, <1>3, NewMoves
  <2> QED
    BY <2>2 DEF MadeAs
<1>5. vols[rec.oldVol] # Gone
  BY <1>1 DEF VolumesFit, Gone, Empty
<1>6. vols' = vols
  BY <1>1, <1>5 DEF CreateRestored, VolumesTyped
<1>7. /\ JobTyped' /\ SameJob /\ (job'.pc = "v.rename" => job'.cur = FreshId)
           /\ job'.pc \in {"v.rename", "failed"}
      /\ UNCHANGED <<env, wanted, rows, helper>>
  BY <1>2, CommandTakes DEF CreateRestored, PCs
<1>8. \A i \in DOMAIN box : box[i].name # NextName(TRUE)
  BY <1>1 DEF Expected, RecoverExpects, Free, Named
<1>9. \A i \in DOMAIN box : ~Restored(i)
  BY <1>1 DEF WorkFits, CreateRestored
<1>10. \A i, j \in DOMAIN box' : box'[i].name = box'[j].name => i = j
  BY <1>4, <1>8 DEF BoxesFit
<1> USE <1>1, <1>2, <1>4, <1>6, <1>7, <1>8, <1>9, <1>10
<1>11. RowsTyped' /\ VolumesTyped'
  BY DEF RowsTyped, VolumesTyped, Records
<1>12. PhaseFits' /\ KindFits' /\ RecordFits' /\ AllOrNothing'
  BY DEF PhaseFits, KindFits, Idle, RecordFits, AllOrNothing
<1>13. \A i \in DOMAIN box' : i = rec.oldId \/ box'[i].op = rec.op
  BY DEF BoxesFit
<1>14. Exists(rec.oldId)' =>
         /\ IsOurs(rec.oldId, {Main, Previous}, rec.oldVol)' /\ box'[rec.oldId].op # rec.op
         /\ box'[rec.oldId].cfg = rec.old /\ (Runs(rec.oldId)' => rec.oldAlways)
  BY DEF BoxesFit
<1>15. \A i \in DOMAIN box' : Candidate(i)' =>
         i \in DOMAIN box /\ box'[i].vol = rec.op /\ box'[i].name \in {NextName(FALSE), Main}
           /\ box'[i].cfg = rec.new
  BY DEF BoxesFit
<1>16. \A i \in DOMAIN box' : Restored(i)' =>
         i = FreshId /\ box'[i].vol = rec.oldVol /\ box'[i].name = NextName(TRUE)
           /\ box'[i].cfg = rec.old
  BY DEF BoxesFit
<1>17. \A i, j \in DOMAIN box' : Candidate(i)' /\ Candidate(j)' => i = j
  BY <1>13 DEF BoxesFit
<1>18. BoxesFit'
  BY <1>10, <1>13, <1>14, <1>15, <1>16, <1>17, BoxesOpen
<1>19. RowFits'
  BY DEF RowFits, Free, Named, PhaseFits
<1>20. RunsFit' /\ WorkFits'
  BY DEF PhaseFits, KindFits, Idle, RunsFit, WorkFits, OneClientRuns
<1>21. HelperFits' /\ VolumesFit' /\ WishFits'
  BY DEF PhaseFits, KindFits, Idle, HelperFits, VolumesFit, WishFits, Labelled
<1> QED
  BY <1>11, <1>12, <1>13, <1>14, <1>15, <1>16, <1>17, <1>18, <1>19, <1>20, <1>21

\* The old settings, volume and container are the channel's again.
LEMMA RestoreKeeps ==
  ASSUME ReplacementInv, Expected, Restore
  PROVE  ReplacementInv'
<1> USE DEF ReplacementInv
<1>1. /\ job.pc = "v.restore" /\ rec.phase = "rolling_back" /\ ~rec.initial
           /\ "v.always" \in PCs /\ job.cur \in DOMAIN box
      /\ job.cur \in Ids /\ Unset \notin Ids
  BY DEF Restore, PhaseFits, RecordFits, PCs, WorkFits, BoxesTyped, Ids
<1>2. ch' = [ch EXCEPT !.settings = IF rec.applied THEN rec.old ELSE @, !.id = job.cur, !.vol = rec.oldVol, !.stopped = ~Runs(job.cur)]
      /\ rec' = [rec EXCEPT !.phase = "rolled_back"]
  BY DEF Restore
<1>3. JobTyped' /\ SameJob /\ job'.cur = job.cur /\ job'.pc = "v.always"
        /\ UNCHANGED <<env, wanted, intent, box, vols, helper>>
  BY <1>1, ThenGoes DEF Restore, Then, docker
<1>4. (~Runs(job.cur)) \in BOOLEAN /\ (IF rec.applied THEN rec.old ELSE ch.settings) = rec.old
        /\ rec.old \in Versions
  BY <1>1 DEF AllOrNothing, RecordFits
<1>5. /\ RowsTyped' /\ ch'.exists = ch.exists /\ ch'.settings = rec.old /\ ch'.id = job.cur
           /\ ch'.vol = rec.oldVol
      /\ (ch'.stopped <=> ~Runs(job.cur))
  BY <1>1, <1>2, <1>3, <1>4 DEF RowsTyped, Records
<1>6. /\ rec'.phase = "rolled_back" /\ rec'.op = rec.op /\ rec'.new = rec.new
           /\ rec'.old = rec.old
      /\ rec'.initial = rec.initial /\ rec'.src = rec.src /\ rec'.oldId = rec.oldId
           /\ rec'.oldVol = rec.oldVol
      /\ rec'.oldRun = rec.oldRun /\ rec'.oldAlways = rec.oldAlways /\ rec'.start = rec.start
  BY <1>2 DEF RowsTyped, Records
<1> USE <1>1, <1>3, <1>5, <1>6
<1>7. BoxesTyped' /\ VolumesTyped'
  BY DEF BoxesTyped, VolumesTyped
<1>8. PhaseFits' /\ KindFits' /\ RecordFits' /\ AllOrNothing'
  BY DEF PhaseFits, KindFits, Idle, RecordFits, AllOrNothing
<1>9. BoxesFit' /\ RowFits'
  BY DEF PhaseFits, BoxesFit, RowFits, Free, Named, WorkFits, RecordFits
<1>10. RunsFit' /\ WorkFits'
  BY DEF PhaseFits, KindFits, Idle, RunsFit, WorkFits, OneClientRuns
<1>11. HelperFits' /\ VolumesFit' /\ WishFits'
  BY DEF PhaseFits, KindFits, Idle, HelperFits, VolumesFit, WishFits, Labelled
<1> QED
  BY <1>7, <1>8, <1>9, <1>10, <1>11

\* What is left of a settled replacement is removed, one thing after the other.
LEMMA BeginCleanupKeeps ==
  ASSUME ReplacementInv, Expected, BeginCleanup
  PROVE  ReplacementInv'
<1> USE DEF ReplacementInv
<1>1. /\ job.pc = "c.begin" /\ rec.phase \in Terminal
      /\ (IF rec.initial /\ rec.phase = "rolled_back" THEN "c.next" ELSE "c.current") \in PCs
  BY DEF BeginCleanup, PhaseFits, PCs
<1>2. UNCHANGED rows
        /\ Then(IF rec.initial /\ rec.phase = "rolled_back" THEN "c.next" ELSE "c.current")
  BY <1>1 DEF BeginCleanup
<1>3. JobTyped' /\ SameJob /\ job'.cur = job.cur /\ UNCHANGED <<env, wanted, box, vols, helper>>
      /\ job'.pc = IF rec.initial /\ rec.phase = "rolled_back" THEN "c.next" ELSE "c.current"
  BY <1>1, <1>2, ThenGoes DEF Then, docker
<1>4. Unset \notin DOMAIN box
  BY DEF BoxesTyped, Ids
<1> USE <1>1, <1>2, <1>3, <1>4
<1>5. BoxesTyped' /\ RowsTyped' /\ VolumesTyped'
  BY DEF BoxesTyped, RowsTyped, VolumesTyped, Records
<1>6. PhaseFits' /\ KindFits' /\ RecordFits' /\ AllOrNothing'
  BY DEF PhaseFits, KindFits, Idle, RecordFits, AllOrNothing
<1>7. BoxesFit' /\ RowFits'
  BY DEF PhaseFits, BoxesFit, RowFits, Free, Named
<1>8. RunsFit' /\ WorkFits'
  BY DEF PhaseFits, KindFits, Idle, RunsFit, WorkFits, OneClientRuns, RowFits, RecordFits
<1>9. HelperFits' /\ VolumesFit' /\ WishFits'
  BY DEF PhaseFits, KindFits, Idle, HelperFits, VolumesFit, WishFits, Labelled
<1> QED
  BY <1>5, <1>6, <1>7, <1>8, <1>9

\* The channel's container comes back as often as the settled change says.
LEMMA PolicyCurrentKeeps ==
  ASSUME ReplacementInv, Expected, PolicyCurrent
  PROVE  ReplacementInv'
<1> USE DEF ReplacementInv
<1>1. ch.id \in DOMAIN box /\ SetPolicy(ch.id, (rec.phase = "committed" \/ rec.oldAlways))
        /\ job.pc = "c.current"
  BY DEF Expected, CleanupExpects, PolicyCurrent
<1>2. /\ DOMAIN box' = DOMAIN box /\ BoxesTyped' /\ SameMakes(DOMAIN box)
      /\ SameNames(DOMAIN box) /\ SameStates(DOMAIN box)
      /\ SamePolicies(DOMAIN box \ {ch.id})
           /\ box'[ch.id].always = (rec.phase = "committed" \/ rec.oldAlways)
  BY <1>1, PolicyMoves DEF RowsTyped, Records
<1>3. /\ JobTyped' /\ SameJob /\ job'.cur = job.cur /\ job'.pc \in {"c.old", "failed"}
      /\ UNCHANGED <<env, wanted, rows, vols, helper>>
  BY CommandGoes DEF PolicyCurrent, Command, PCs
<1>4. rec.phase \in Terminal
  BY <1>1 DEF PhaseFits
<1>5. Runs(ch.id) => (rec.phase = "committed" \/ rec.oldAlways)
  BY <1>1, <1>4 DEF RowFits, BoxesFit, RecordFits
<1>6. Runs(ch.id) => box'[ch.id].always
  BY <1>2, <1>5
<1> USE <1>1, <1>2, <1>3, <1>4, <1>5, <1>6
<1>7. RowsTyped' /\ VolumesTyped'
  BY DEF RowsTyped, VolumesTyped, Records
<1>8. PhaseFits' /\ KindFits' /\ RecordFits' /\ AllOrNothing'
  BY DEF PhaseFits, KindFits, Idle, RecordFits, AllOrNothing
<1>9. BoxesFit' /\ RowFits'
  BY DEF PhaseFits, BoxesFit, RowFits, Free, Named
<1>10. RunsFit'
  BY DEF PhaseFits, RunsFit, OneClientRuns
<1>11. WorkFits'
  BY DEF PhaseFits, KindFits, Idle, WorkFits
<1>12. HelperFits' /\ VolumesFit' /\ WishFits'
  BY DEF PhaseFits, KindFits, Idle, HelperFits, VolumesFit, WishFits, Labelled
<1> QED
  BY <1>7, <1>8, <1>9, <1>10, <1>11, <1>12

\* The old container is removed, unless it is the channel's.
LEMMA RemoveOldKeeps ==
  ASSUME ReplacementInv, Expected, RemoveOld
  PROVE  ReplacementInv'
<1> USE DEF ReplacementInv
<1>1. job.pc = "c.old" /\ RemoveAll(({rec.oldId} \ {ch.id}))
  BY DEF RemoveOld
<1>2. /\ DOMAIN box' = DOMAIN box \ ({rec.oldId} \ {ch.id}) /\ BoxesTyped'
      /\ SameMakes(DOMAIN box \ ({rec.oldId} \ {ch.id}))
           /\ SameNames(DOMAIN box \ ({rec.oldId} \ {ch.id}))
      /\ SameStates(DOMAIN box \ ({rec.oldId} \ {ch.id}))
           /\ SamePolicies(DOMAIN box \ ({rec.oldId} \ {ch.id}))
  BY <1>1, RemoveMoves
<1>3. DOMAIN box' \subseteq DOMAIN box /\ BoxesTyped' /\ SameMakes(DOMAIN box')
      /\ SameNames(DOMAIN box') /\ SameStates(DOMAIN box') /\ SamePolicies(DOMAIN box')
  BY <1>2
<1>4. job.pc = "c.old"
  BY <1>1
<1>5. /\ JobTyped' /\ SameJob /\ job'.cur = job.cur /\ job'.pc \in {"c.next", "failed"}
      /\ UNCHANGED <<env, wanted, rows, vols, helper>>
  BY CommandGoes DEF RemoveOld, Command, PCs
<1>6. \A i \in DOMAIN box : i \in DOMAIN box' <=> ~(i = rec.oldId /\ i # ch.id)
  BY <1>1, <1>2
<1>7. Unset \notin DOMAIN box
  BY DEF BoxesTyped, Ids
<1> USE <1>3, <1>4, <1>5, <1>6, <1>7
<1>8. RowsTyped' /\ VolumesTyped'
  BY DEF RowsTyped, VolumesTyped, Records
<1>9. PhaseFits' /\ KindFits' /\ RecordFits' /\ AllOrNothing'
  BY DEF PhaseFits, KindFits, Idle, RecordFits, AllOrNothing
<1>10. BoxesFit'
  BY BoxesRemain
<1>11. RowFits'
  BY RowRemains
<1>12. RunsFit' /\ WorkFits'
  BY DEF PhaseFits, KindFits, Idle, RunsFit, WorkFits, OneClientRuns, RecordFits, BoxesFit
<1>13. HelperFits' /\ VolumesFit' /\ WishFits'
  BY DEF PhaseFits, KindFits, Idle, HelperFits, VolumesFit, WishFits, Labelled
<1> QED
  BY <1>8, <1>9, <1>10, <1>11, <1>12, <1>13

\* So is the candidate.
LEMMA RemoveCandidateKeeps ==
  ASSUME ReplacementInv, Expected, RemoveCandidate
  PROVE  ReplacementInv'
<1> USE DEF ReplacementInv
<1>1. job.pc = "c.next" /\ RemoveAll((Owned(FALSE, FALSE) \ {ch.id}))
  BY DEF RemoveCandidate
<1>2. /\ DOMAIN box' = DOMAIN box \ (Owned(FALSE, FALSE) \ {ch.id}) /\ BoxesTyped'
      /\ SameMakes(DOMAIN box \ (Owned(FALSE, FALSE) \ {ch.id}))
           /\ SameNames(DOMAIN box \ (Owned(FALSE, FALSE) \ {ch.id}))
      /\ SameStates(DOMAIN box \ (Owned(FALSE, FALSE) \ {ch.id}))
           /\ SamePolicies(DOMAIN box \ (Owned(FALSE, FALSE) \ {ch.id}))
  BY <1>1, RemoveMoves
<1>3. DOMAIN box' \subseteq DOMAIN box /\ BoxesTyped' /\ SameMakes(DOMAIN box')
      /\ SameNames(DOMAIN box') /\ SameStates(DOMAIN box') /\ SamePolicies(DOMAIN box')
  BY <1>2
<1>4. job.pc = "c.next"
  BY <1>1
<1>5. /\ JobTyped' /\ SameJob /\ job'.cur = job.cur /\ job'.pc \in {"c.restored", "failed"}
      /\ UNCHANGED <<env, wanted, rows, vols, helper>>
  BY CommandGoes DEF RemoveCandidate, Command, PCs
<1>6. \A i \in DOMAIN box : i \in DOMAIN box' <=> ~(Candidate(i)
        /\ box[i].name = NextName(FALSE) /\ i # ch.id)
  BY <1>1, <1>2 DEF Owned, OwnedBy
<1>7. rec.phase \in Terminal /\ (rec.initial /\ rec.phase = "rolled_back" => DOMAIN box = {})
  BY <1>1 DEF PhaseFits, RowFits
<1> USE <1>3, <1>4, <1>5, <1>6, <1>7
<1>8. RowsTyped' /\ VolumesTyped'
  BY DEF RowsTyped, VolumesTyped, Records
<1>9. PhaseFits' /\ KindFits' /\ RecordFits' /\ AllOrNothing'
  BY DEF PhaseFits, KindFits, Idle, RecordFits, AllOrNothing
<1>10. BoxesFit'
  BY BoxesRemain
<1>11. RowFits'
  BY RowRemains
<1>12. RunsFit'
  BY DEF PhaseFits, RunsFit, OneClientRuns
<1>13. job.pc = "c.next" /\ ch.exists
  BY DEF KindFits, Idle
<1>14. \A i \in DOMAIN box' : Candidate(i)' => i = ch.id
  BY DEF RowFits, BoxesFit, WorkFits
<1>15. (rec.initial /\ rec.phase = "rolled_back")
         \/ (Exists(ch.id)' /\ (Runs(ch.id)' => box'[ch.id].always))
  BY DEF WorkFits
<1>16. Exists(rec.oldId)' => rec.oldId = ch.id
  BY DEF WorkFits
<1>17. WorkFits'
  BY <1>13, <1>14, <1>15, <1>16, SettlingWork
<1>18. HelperFits' /\ VolumesFit' /\ WishFits'
  BY DEF PhaseFits, KindFits, Idle, HelperFits, VolumesFit, WishFits, Labelled
<1> QED
  BY <1>8, <1>9, <1>10, <1>11, <1>12, <1>13, <1>14, <1>15, <1>16, <1>17, <1>18

\* And the restored one.
LEMMA RemoveRestoredKeeps ==
  ASSUME ReplacementInv, Expected, RemoveRestored
  PROVE  ReplacementInv'
<1> USE DEF ReplacementInv
<1>1. job.pc = "c.restored" /\ RemoveAll((Owned(TRUE, FALSE) \ {ch.id}))
  BY DEF RemoveRestored
<1>2. /\ DOMAIN box' = DOMAIN box \ (Owned(TRUE, FALSE) \ {ch.id}) /\ BoxesTyped'
      /\ SameMakes(DOMAIN box \ (Owned(TRUE, FALSE) \ {ch.id}))
           /\ SameNames(DOMAIN box \ (Owned(TRUE, FALSE) \ {ch.id}))
      /\ SameStates(DOMAIN box \ (Owned(TRUE, FALSE) \ {ch.id}))
           /\ SamePolicies(DOMAIN box \ (Owned(TRUE, FALSE) \ {ch.id}))
  BY <1>1, RemoveMoves
<1>3. DOMAIN box' \subseteq DOMAIN box /\ BoxesTyped' /\ SameMakes(DOMAIN box')
      /\ SameNames(DOMAIN box') /\ SameStates(DOMAIN box') /\ SamePolicies(DOMAIN box')
  BY <1>2
<1>4. job.pc = "c.restored"
  BY <1>1
<1>5. /\ JobTyped' /\ SameJob /\ job'.cur = job.cur /\ job'.pc \in {"c.volume", "failed"}
      /\ UNCHANGED <<env, wanted, rows, vols, helper>>
  BY CommandGoes DEF RemoveRestored, Command, PCs
<1>6. \A i \in DOMAIN box : i \in DOMAIN box' <=> ~(Restored(i) /\ box[i].name = NextName(TRUE)
        /\ i # ch.id)
  BY <1>1, <1>2 DEF Owned, OwnedBy
<1>7. rec.phase \in Terminal /\ (rec.initial /\ rec.phase = "rolled_back" => DOMAIN box = {})
  BY <1>1 DEF PhaseFits, RowFits
<1> USE <1>3, <1>4, <1>5, <1>6, <1>7
<1>8. RowsTyped' /\ VolumesTyped'
  BY DEF RowsTyped, VolumesTyped, Records
<1>9. PhaseFits' /\ KindFits' /\ RecordFits' /\ AllOrNothing'
  BY DEF PhaseFits, KindFits, Idle, RecordFits, AllOrNothing
<1>10. BoxesFit'
  BY BoxesRemain
<1>11. RowFits'
  BY RowRemains
<1>12. RunsFit'
  BY DEF PhaseFits, RunsFit, OneClientRuns
<1>13. job.pc = "c.restored" /\ ch.exists
  BY DEF KindFits, Idle
<1>14. \A i \in DOMAIN box' : Candidate(i)' => i = ch.id
  BY DEF WorkFits
<1>15. \A i \in DOMAIN box' : Restored(i)' => i = ch.id
  BY DEF RowFits, BoxesFit, WorkFits
<1>16. (rec.initial /\ rec.phase = "rolled_back")
         \/ (Exists(ch.id)' /\ (Runs(ch.id)' => box'[ch.id].always))
  BY DEF WorkFits
<1>17. Exists(rec.oldId)' => rec.oldId = ch.id
  BY DEF WorkFits
<1>18. WorkFits'
  BY <1>13, <1>14, <1>15, <1>16, <1>17, SettlingWork
<1>19. HelperFits' /\ VolumesFit' /\ WishFits'
  BY DEF PhaseFits, KindFits, Idle, HelperFits, VolumesFit, WishFits, Labelled
<1> QED
  BY <1>8, <1>9, <1>10, <1>11, <1>12, <1>13, <1>14, <1>15, <1>16, <1>17, <1>18, <1>19

\* The volume that was not chosen is removed.
LEMMA RemoveVolumeKeeps ==
  ASSUME ReplacementInv, Expected, RemoveVolume
  PROVE  ReplacementInv'
<1> USE DEF ReplacementInv
<1>1. job.pc = "c.volume" /\ rec.phase \in Terminal /\ rec.op \in 0 .. MaxOp
        /\ rec.oldVol \in 0 .. MaxOp /\ rec.op # rec.oldVol /\ ch.vol \in 0 .. MaxOp
             /\ 0 \in 0 .. MaxOp
  BY DEF RemoveVolume, PhaseFits, RecordFits, RowsTyped, Records
<1>2. vols' = [o \in DOMAIN vols |-> IF o \in Surplus THEN Gone ELSE vols[o]]
        /\ DOMAIN vols = 0 .. MaxOp
  BY DEF RemoveVolume, VolumesTyped
<1>3. \A o \in 0 .. MaxOp : vols'[o] = IF o \in Surplus THEN Gone ELSE vols[o]
  BY <1>2
<1>4. vols' \in [0 .. MaxOp -> Gone .. MaxData]
  BY <1>2 DEF VolumesTyped, Gone
<1>5. /\ JobTyped' /\ SameJob /\ job'.cur = job.cur /\ job'.pc \in {"c.finish", "failed"}
      /\ UNCHANGED <<env, wanted, rows, box, helper>>
  BY CommandGoes DEF RemoveVolume, PCs
<1>6. \A o \in 0 .. MaxOp : vols'[o] = IF (rec.phase = "rolled_back" /\ o = rec.op)
        \/ (rec.phase = "committed" /\ rec.src /\ o = rec.oldVol) THEN Gone ELSE vols[o]
  BY <1>1, <1>3 DEF Surplus
<1> USE <1>1, <1>4, <1>5, <1>6
<1>7. BoxesTyped'
  BY DEF BoxesTyped, RowsTyped, VolumesTyped, Records
<1>8. RowsTyped'
  BY DEF BoxesTyped, RowsTyped, VolumesTyped, Records
<1>9. VolumesTyped'
  BY DEF BoxesTyped, RowsTyped, VolumesTyped, Records
<1>10. PhaseFits' /\ KindFits' /\ RecordFits' /\ AllOrNothing'
  BY DEF PhaseFits, KindFits, Idle, RecordFits, AllOrNothing
<1>11. BoxesFit' /\ RowFits'
  BY DEF PhaseFits, BoxesFit, RowFits, Free, Named
<1>12. RunsFit' /\ WorkFits'
  BY SMTT(30) DEF PhaseFits, KindFits, Idle, RunsFit, WorkFits, OneClientRuns
<1>13. HelperFits'
  BY DEF HelperFits, PhaseFits
<1>14. ch.exists
  BY DEF KindFits, Idle
<1>15. Labelled' \subseteq Labelled
  BY DEF Labelled, Ops
<1>16. Labelled' \subseteq {rec.op, rec.oldVol}
  BY <1>15 DEF VolumesFit
<1>17. ~rec.src => vols'[rec.oldVol] = Gone
  BY DEF VolumesFit
<1>18. /\ rec.phase = "rolled_back" /\ rec.src => vols'[rec.oldVol] >= Empty
       /\ rec.phase = "committed" => vols'[rec.op] >= Empty
  BY DEF VolumesFit
<1>19. vols'[0] # Torn
  BY DEF VolumesFit, Torn, Gone
<1>20. Labelled' \subseteq {ch.vol}
  BY SMTT(30) DEF VolumesFit, Labelled, Ops, AllOrNothing
<1>21. VolumesFit'
  BY <1>14, <1>16, <1>17, <1>18, <1>19, <1>20 DEF VolumesFit
<1>22. WishFits'
  BY DEF WishFits
<1> QED
  BY <1>7, <1>8, <1>9, <1>10, <1>11, <1>12, <1>13, <1>14, <1>15, <1>16, <1>17, <1>18, <1>19,
      <1>20, <1>21, <1>22

\* The record of a settled replacement is removed last.
LEMMA FinishKeeps ==
  ASSUME ReplacementInv, Expected, Finish
  PROVE  ReplacementInv'
<1> USE DEF ReplacementInv
<1>1. job.pc = "c.finish" /\ rec.phase \in Terminal /\ rec' = NoRec /\ UNCHANGED <<ch, intent>>
        /\ Unset \notin DOMAIN box
  BY DEF Finish, PhaseFits, BoxesTyped, Ids
<1>2. /\ JobTyped' /\ UNCHANGED <<env, wanted, box, vols, helper>>
      /\ \/ job' = Idle
         \/ /\ SameJob /\ job'.cur = job.cur
            /\ \/ job'.pc = "failed"
               \/ job.part = "none" /\ job'.pc = "s.inspect"
                    /\ (job.kind = "stop" \/ (job.kind = "start" /\ intent))
               \/ job.part = "none" /\ job'.pc = "replace" /\ job.kind = "start" /\ ~intent
               \/ job.part = "none" /\ job'.pc = "u.save" /\ job.kind = "update"
  BY ReturnsGo DEF Finish
<1>3. NoRec \in Records
  BY DEF Records, NoRec
<1>4. /\ rec'.phase = "none" /\ DOMAIN box \subseteq {ch.id}
      /\ Exists(ch.id)
           => IsOurs(ch.id, {Main}, ch.vol) /\ box[ch.id].cfg = ch.settings
             /\ (Runs(ch.id) => box[ch.id].always)
  BY <1>1 DEF NoRec, WorkFits, BoxesFit, RowFits, AllOrNothing, RecordFits
<1> USE <1>1, <1>2, <1>4
<1>5. RowsTyped'
  BY <1>3 DEF RowsTyped
<1>6. BoxesTyped' /\ VolumesTyped'
  BY DEF BoxesTyped, VolumesTyped
<1>7. PhaseFits' /\ KindFits' /\ RecordFits' /\ AllOrNothing'
  BY DEF PhaseFits, KindFits, Idle, RecordFits, AllOrNothing
<1>8. BoxesFit' /\ RowFits'
  BY DEF PhaseFits, BoxesFit, RowFits, Free, Named
<1>9. RunsFit' /\ WorkFits'
  BY DEF PhaseFits, KindFits, Idle, RunsFit, WorkFits, OneClientRuns
<1>10. HelperFits'
  BY DEF HelperFits, Idle
<1>11. VolumesFit'
  BY DEF VolumesFit, Labelled, KindFits, Idle, AllOrNothing, RecordFits, Empty, Torn, Gone
<1>12. WishFits'
  BY DEF WishFits, KindFits, Idle
<1> QED
  BY <1>5, <1>6, <1>7, <1>8, <1>9, <1>10, <1>11, <1>12

\* A stop settles first what is under way; what was begun will not start a client again.
LEMMA BeforeStopKeeps ==
  ASSUME ReplacementInv, Expected, BeforeStop
  PROVE  ReplacementInv'
<1> USE DEF ReplacementInv
<1>1. /\ job.pc = "s.before" /\ rec.phase # "deleting" /\ rec.phase \in Phases
           /\ UNCHANGED <<ch, intent>>
      /\ {"s.inspect", "w.begin", "c.begin", "v.begin", "s.oldPolicy"} \subseteq PCs
  BY DEF BeforeStop, Expected, StopExpects, PCs, RowsTyped, Records
<1>2. \/ rec.phase \in Quiet /\ Then("s.inspect") /\ rec' = rec
      \/ rec.phase = "awaiting_login" /\ Then("w.begin") /\ rec' = rec
      \/ rec.phase \in Terminal /\ Then("c.begin") /\ rec' = rec
      \/ rec.phase \in Begun \ {"awaiting_login"} /\ rec.initial /\ Then("v.begin")
           /\ rec' = [rec EXCEPT !.start = FALSE]
      \/ rec.phase \in Begun \ {"awaiting_login"} /\ ~rec.initial /\ Then("s.oldPolicy")
           /\ rec' = [rec EXCEPT !.oldRun = FALSE, !.start = FALSE]
  BY <1>1 DEF BeforeStop
<1>3. \A p \in {"s.inspect", "w.begin", "c.begin", "v.begin", "s.oldPolicy"} : Then(p) =>
        JobTyped' /\ SameJob /\ job'.cur = job.cur /\ job'.pc = p
          /\ UNCHANGED <<env, wanted, box, vols, helper>>
  BY <1>1, ThenGoes DEF Then, docker
<1>4. JobTyped' /\ SameJob /\ job'.cur = job.cur /\ UNCHANGED <<env, wanted, box, vols, helper>>
  BY <1>2, <1>3
<1>5. /\ rec'.phase = rec.phase /\ rec'.op = rec.op /\ rec'.new = rec.new /\ rec'.old = rec.old
      /\ rec'.initial = rec.initial /\ rec'.src = rec.src /\ rec'.oldId = rec.oldId
           /\ rec'.oldVol = rec.oldVol
  BY ZenonT(40), <1>2 DEF RowsTyped, Records
<1>6. \/ rec.phase \in Quiet /\ job'.pc = "s.inspect" /\ rec' = rec
      \/ rec.phase = "awaiting_login" /\ job'.pc = "w.begin" /\ rec' = rec
      \/ rec.phase \in Terminal /\ job'.pc = "c.begin" /\ rec' = rec
      \/ rec.phase \in Begun \ {"awaiting_login"} /\ rec.initial /\ job'.pc = "v.begin"
           /\ ~rec'.start /\ rec'.oldRun = rec.oldRun
      \/ rec.phase \in Begun \ {"awaiting_login"} /\ ~rec.initial /\ job'.pc = "s.oldPolicy"
           /\ ~rec'.start /\ ~rec'.oldRun
  BY <1>2, <1>3, StopIsARecord
<1>7. rec' \in Records
  BY <1>2, StopIsARecord DEF RowsTyped
<1>8. rec'.oldAlways = rec.oldAlways /\ rec'.applied = rec.applied
  BY <1>2 DEF RowsTyped, Records
<1> USE <1>1, <1>4, <1>5, <1>6, <1>7, <1>8
<1>9. RowsTyped'
  BY DEF RowsTyped
<1>10. BoxesTyped' /\ VolumesTyped'
  BY DEF BoxesTyped, VolumesTyped
<1>11. PhaseFits' /\ KindFits' /\ RecordFits' /\ AllOrNothing'
  BY DEF PhaseFits, KindFits, Idle, RecordFits, AllOrNothing
<1>12. BoxesFit' /\ RowFits'
  BY DEF PhaseFits, BoxesFit, RowFits, Free, Named
<1>13. RunsFit' /\ WorkFits'
  BY DEF PhaseFits, KindFits, Idle, RunsFit, WorkFits, OneClientRuns
<1>14. HelperFits'
  BY DEF HelperFits, PhaseFits
<1>15. VolumesFit'
  BY DEF VolumesFit, Labelled, KindFits, Idle
<1>16. WishFits'
  BY DEF WishFits, RecordFits, KindFits, Idle
<1> QED
  BY <1>9, <1>10, <1>11, <1>12, <1>13, <1>14, <1>15, <1>16

\* The container of the channel is halted.
LEMMA StopCurrentKeeps ==
  ASSUME ReplacementInv, Expected, StopCurrent
  PROVE  ReplacementInv'
<1> USE DEF ReplacementInv
<1>1. job.pc = "s.inspect" /\ rec.phase \in Quiet \cup {"awaiting_login"}
  BY DEF StopCurrent, PhaseFits
<1>2. \/ Free(Main) /\ ~Exists(ch.id) /\ UNCHANGED box
      \/ Named(Main) = {ch.id} /\ ch.id \in DOMAIN box /\ Halt(ch.id)
  BY DEF StopCurrent, Expected, StopExpects, Free, Named
<1>3. ch.id \in DOMAIN box /\ Halt(ch.id) =>
        /\ DOMAIN box' = DOMAIN box /\ BoxesTyped'
        /\ SameMakes(DOMAIN box) /\ SameNames(DOMAIN box) /\ SamePolicies(DOMAIN box)
        /\ SameStates(DOMAIN box \ {ch.id}) /\ box'[ch.id].state # "running"
  BY HaltMoves
<1>4. /\ DOMAIN box' = DOMAIN box /\ BoxesTyped'
      /\ SameMakes(DOMAIN box) /\ SameNames(DOMAIN box) /\ SamePolicies(DOMAIN box)
  BY <1>2, <1>3 DEF BoxesTyped, Boxes
<1>5. \A i \in DOMAIN box : box'[i].state = "running"
        => box[i].state = "running" /\ box[i].name # Main
  BY <1>2, <1>3 DEF Free, Named
<1>6. \A i \in DOMAIN box : Runs(i) => box[i].name = Main
  BY <1>1 DEF RowFits, RunsFit, BoxesFit
<1>7. \A i \in DOMAIN box : box'[i].state # "running"
  BY <1>5, <1>6
<1>8. /\ JobTyped' /\ SameJob /\ job'.cur = job.cur /\ job'.pc \in {"s.confirm", "failed"}
      /\ UNCHANGED <<env, wanted, rows, vols, helper>>
  BY CommandGoes DEF StopCurrent, Command, PCs
<1> USE <1>1, <1>4, <1>7, <1>8
<1>9. RowsTyped' /\ VolumesTyped'
  BY DEF RowsTyped, VolumesTyped, Records
<1>10. PhaseFits' /\ KindFits' /\ RecordFits' /\ AllOrNothing'
  BY DEF PhaseFits, KindFits, Idle, RecordFits, AllOrNothing
<1>11. BoxesFit'
  BY <1>1, <1>4, <1>5, <1>8, BoxesRemain
<1>12. RowFits'
  BY <1>1, <1>4, <1>5, <1>8, RowRemains
<1>13. RunsFit' /\ WorkFits'
  BY DEF PhaseFits, KindFits, Idle, RunsFit, WorkFits, OneClientRuns
<1>14. HelperFits' /\ VolumesFit' /\ WishFits'
  BY DEF PhaseFits, KindFits, Idle, HelperFits, VolumesFit, WishFits, Labelled
<1> QED
  BY <1>9, <1>10, <1>11, <1>12, <1>13, <1>14

\* The stop is confirmed when nothing of the channel runs.
LEMMA ConfirmStopKeeps ==
  ASSUME ReplacementInv, Expected, ConfirmStop
  PROVE  ReplacementInv'
<1> USE DEF ReplacementInv
<1>1. /\ job.pc = "s.confirm" /\ rec.phase \in Quiet \cup {"awaiting_login"} /\ "t.resume" \in PCs
      /\ intent' = FALSE /\ ch' = [ch EXCEPT !.stopped = TRUE] /\ rec' = rec
  BY DEF ConfirmStop, PCs, PhaseFits
<1>2. ch'.exists = ch.exists /\ ch'.settings = ch.settings /\ ch'.id = ch.id
        /\ ch'.vol = ch.vol /\ ch'.stopped
  BY <1>1 DEF RowsTyped
<1>3. /\ JobTyped' /\ UNCHANGED <<env, wanted, box, vols, helper>>
      /\ \/ job' = Idle
         \/ job.kind = "start" /\ SameJob /\ job'.cur = job.cur /\ job'.pc = "t.resume"
  BY <1>1, ThenGoes, IdleGoes DEF ConfirmStop, Then, Ends, docker
<1>4. RowsTyped'
  BY <1>1, <1>3 DEF RowsTyped
<1> USE <1>1, <1>2, <1>3, <1>4
<1>5. BoxesTyped' /\ VolumesTyped'
  BY DEF BoxesTyped, VolumesTyped
<1>6. PhaseFits' /\ KindFits' /\ RecordFits' /\ AllOrNothing'
  BY DEF PhaseFits, KindFits, Idle, RecordFits, AllOrNothing
<1>7. BoxesFit' /\ RowFits'
  BY DEF PhaseFits, BoxesFit, RowFits, Free, Named
<1>8. RunsFit' /\ WorkFits'
  BY DEF PhaseFits, KindFits, Idle, RunsFit, WorkFits, OneClientRuns
<1>9. HelperFits' /\ VolumesFit' /\ WishFits'
  BY DEF PhaseFits, KindFits, Idle, HelperFits, VolumesFit, WishFits, Labelled, RunsFit
<1> QED
  BY <1>5, <1>6, <1>7, <1>8, <1>9

\* While the login is waited for the candidate has the channel's name.
LEMMA ReconcileNameKeeps ==
  ASSUME ReplacementInv, Expected, ReconcileName
  PROVE  ReplacementInv'
<1> USE DEF ReplacementInv
<1>1. /\ job.pc = "w.begin" /\ rec.phase = "awaiting_login" /\ rec.op \in Ops
           /\ rec.op \in 0 .. MaxOp
      /\ Main \in Names
  BY SMTT(30) DEF ReconcileName, PhaseFits, RecordFits, Names, Ops
<1>2. PICK i \in DOMAIN box :
        /\ i \in Ids /\ Candidate(i) /\ CanRename(i, NextName(FALSE), Main) /\ Rename(i, Main)
        /\ Acknowledged([job EXCEPT !.pc = "w.note", !.cur = i, !.force = Runs(i)])
        /\ UNCHANGED <<rows, vols, helper>>
  BY <1>1, TheIsOne DEF ReconcileName, Expected, WaitExpects, Owned, OwnedBy, BoxesTyped
<1>3. /\ DOMAIN box' = DOMAIN box /\ BoxesTyped' /\ SameMakes(DOMAIN box)
      /\ SameStates(DOMAIN box) /\ SamePolicies(DOMAIN box)
      /\ SameNames(DOMAIN box \ {i}) /\ box'[i].name = Main
  BY <1>1, <1>2, RenameMoves
<1>4. "w.note" \in PCs /\ (Runs(i)) \in BOOLEAN
  BY DEF PCs
<1>5. /\ UNCHANGED <<env, wanted, rows, vols, helper>> /\ asks' = asks
      /\ \/ job' = [job EXCEPT !.pc = "w.note", !.cur = i, !.force = Runs(i)] /\ faults' = faults
         \/ job' = [job EXCEPT !.pc = "failed"] /\ faults < MaxFaults /\ faults' = faults + 1
  BY <1>2 DEF Acknowledged, Fault
<1>6. JobTyped'
  <2>1. CASE job' = [job EXCEPT !.pc = "w.note", !.cur = i, !.force = Runs(i)] /\ faults' = faults
    BY <1>2, <1>4, <1>5, <2>1 DEF JobTyped, Jobs
  <2>2. CASE job' = [job EXCEPT !.pc = "failed"] /\ faults < MaxFaults /\ faults' = faults + 1
    BY <1>5, <2>2, FailedIsAPlace DEF JobTyped, Jobs
  <2> QED
    BY <1>5, <2>1, <2>2
<1>7. /\ job'.kind = job.kind /\ job'.part = job.part /\ job'.want = job.want
           /\ job'.mark = job.mark
      /\ job'.pc \in {"w.note", "failed"} /\ (job'.pc = "w.note" => job'.cur = i)
  BY <1>5 DEF JobTyped, Jobs
<1>8. \A j \in DOMAIN box : j # i => box[j].name # Main
  BY <1>2 DEF CanRename, Free, Named, BoxesFit
<1>9. i \in DOMAIN box /\ Candidate(i)
  BY <1>2
<1>10. UNCHANGED <<env, wanted, rows, vols, helper>>
  BY <1>5
<1> USE <1>1, <1>3, <1>6, <1>7, <1>8, <1>9, <1>10
<1>11. RowsTyped' /\ VolumesTyped'
  BY DEF RowsTyped, VolumesTyped, Records
<1>12. PhaseFits' /\ KindFits' /\ RecordFits' /\ AllOrNothing'
  BY DEF PhaseFits, KindFits, Idle, RecordFits, AllOrNothing
<1>13. BoxesFit' /\ RowFits'
  BY DEF PhaseFits, BoxesFit, RowFits, Free, Named
<1>14. RunsFit' /\ WorkFits'
  BY DEF PhaseFits, KindFits, Idle, RunsFit, WorkFits, OneClientRuns, BoxesFit
<1>15. HelperFits' /\ VolumesFit' /\ WishFits'
  BY DEF PhaseFits, KindFits, Idle, HelperFits, VolumesFit, WishFits, Labelled
<1> QED
  BY <1>3, <1>6, <1>11, <1>12, <1>13, <1>14, <1>15

\* The journal learns the candidate it waits with.
LEMMA NoteReconciledKeeps ==
  ASSUME ReplacementInv, NoteId("w.note", "w.resumed")
  PROVE  ReplacementInv'
<1> USE DEF ReplacementInv
<1>1. job.pc = "w.note" /\ rec.phase = "awaiting_login"
        /\ rec' = [rec EXCEPT !.newId = job.cur] /\ job.cur \in Ids \cup {Unset}
             /\ "w.resumed" \in PCs
  BY DEF NoteId, PhaseFits, JobTyped, Jobs, PCs
<1>2. JobTyped' /\ SameJob /\ job'.cur = job.cur /\ job'.pc = "w.resumed"
        /\ UNCHANGED <<env, wanted, ch, intent, box, vols, helper>>
  BY <1>1, ThenGoes DEF NoteId, Then, docker
<1>3. /\ rec'.phase = rec.phase /\ rec'.op = rec.op /\ rec'.new = rec.new /\ rec'.old = rec.old
      /\ rec'.initial = rec.initial /\ rec'.src = rec.src /\ rec'.oldId = rec.oldId
           /\ rec'.oldVol = rec.oldVol
      /\ rec'.oldRun = rec.oldRun /\ rec'.oldAlways = rec.oldAlways /\ rec'.start = rec.start
  BY <1>1 DEF RowsTyped, Records
<1> USE <1>1, <1>2, <1>3
<1>4. RowsTyped'
  BY DEF RowsTyped, Records
<1>5. BoxesTyped' /\ VolumesTyped'
  BY DEF BoxesTyped, VolumesTyped
<1>6. PhaseFits' /\ KindFits' /\ RecordFits' /\ AllOrNothing'
  BY DEF PhaseFits, KindFits, Idle, RecordFits, AllOrNothing
<1>7. BoxesFit' /\ RowFits'
  BY DEF PhaseFits, BoxesFit, RowFits, Free, Named
<1>8. RunsFit' /\ WorkFits'
  BY DEF PhaseFits, KindFits, Idle, RunsFit, WorkFits, OneClientRuns
<1>9. HelperFits' /\ VolumesFit' /\ WishFits'
  BY DEF PhaseFits, KindFits, Idle, HelperFits, VolumesFit, WishFits, Labelled
<1> QED
  BY <1>4, <1>5, <1>6, <1>7, <1>8, <1>9

\* And the one a start goes on with.
LEMMA NoteRenewedKeeps ==
  ASSUME ReplacementInv, NoteId("t.note", "t.rename")
  PROVE  ReplacementInv'
<1> USE DEF ReplacementInv
<1>1. job.pc = "t.note" /\ rec.phase = "awaiting_login"
        /\ rec' = [rec EXCEPT !.newId = job.cur] /\ job.cur \in Ids \cup {Unset}
             /\ "t.rename" \in PCs
  BY DEF NoteId, PhaseFits, JobTyped, Jobs, PCs
<1>2. JobTyped' /\ SameJob /\ job'.cur = job.cur /\ job'.pc = "t.rename"
        /\ UNCHANGED <<env, wanted, ch, intent, box, vols, helper>>
  BY <1>1, ThenGoes DEF NoteId, Then, docker
<1>3. /\ rec'.phase = rec.phase /\ rec'.op = rec.op /\ rec'.new = rec.new /\ rec'.old = rec.old
      /\ rec'.initial = rec.initial /\ rec'.src = rec.src /\ rec'.oldId = rec.oldId
           /\ rec'.oldVol = rec.oldVol
      /\ rec'.oldRun = rec.oldRun /\ rec'.oldAlways = rec.oldAlways /\ rec'.start = rec.start
  BY <1>1 DEF RowsTyped, Records
<1> USE <1>1, <1>2, <1>3
<1>4. RowsTyped'
  BY DEF RowsTyped, Records
<1>5. BoxesTyped' /\ VolumesTyped'
  BY DEF BoxesTyped, VolumesTyped
<1>6. PhaseFits' /\ KindFits' /\ RecordFits' /\ AllOrNothing'
  BY DEF PhaseFits, KindFits, Idle, RecordFits, AllOrNothing
<1>7. BoxesFit' /\ RowFits'
  BY DEF PhaseFits, BoxesFit, RowFits, Free, Named
<1>8. RunsFit' /\ WorkFits'
  BY DEF PhaseFits, KindFits, Idle, RunsFit, WorkFits, OneClientRuns
<1>9. HelperFits' /\ VolumesFit' /\ WishFits'
  BY DEF PhaseFits, KindFits, Idle, HelperFits, VolumesFit, WishFits, Labelled
<1> QED
  BY <1>4, <1>5, <1>6, <1>7, <1>8, <1>9

\* The row names the candidate.
LEMMA RowReconciledKeeps ==
  ASSUME ReplacementInv, Resumed("w.resumed", "w.always")
  PROVE  ReplacementInv'
<1> USE DEF ReplacementInv
<1>1. /\ job.pc = "w.resumed" /\ rec.phase = "awaiting_login" /\ rec.op \in 0 .. MaxOp
           /\ job.cur \in DOMAIN box /\ Candidate(job.cur)
      /\ box[job.cur].name = Main /\ "w.always" \in PCs /\ Unset \notin Ids /\ job.cur \in Ids
  BY DEF Resumed, PhaseFits, PCs, RowsTyped, Records, WorkFits, BoxesTyped, Ids
<1>2. ch' = [ch EXCEPT !.id = job.cur, !.vol = rec.op, !.stopped = ~Runs(job.cur)]
        /\ (~Runs(job.cur)) \in BOOLEAN
  BY DEF Resumed
<1>3. JobTyped' /\ SameJob /\ job'.cur = job.cur /\ job'.pc = "w.always"
        /\ UNCHANGED <<env, wanted, rec, intent, box, vols, helper>>
  BY <1>1, ThenGoes DEF Resumed, Then, docker
<1>4. RowsTyped' /\ ch'.exists = ch.exists /\ ch'.settings = ch.settings /\ ch'.id = job.cur
        /\ ch'.vol = rec.op
  BY <1>1, <1>2, <1>3 DEF RowsTyped
<1> USE <1>1, <1>3, <1>4
<1>5. BoxesTyped' /\ VolumesTyped'
  BY DEF BoxesTyped, VolumesTyped
<1>6. PhaseFits' /\ KindFits' /\ RecordFits' /\ AllOrNothing'
  BY DEF PhaseFits, KindFits, Idle, RecordFits, AllOrNothing
<1>7. BoxesFit' /\ RowFits'
  BY DEF PhaseFits, BoxesFit, RowFits, Free, Named
<1>8. RunsFit' /\ WorkFits'
  BY DEF PhaseFits, KindFits, Idle, RunsFit, WorkFits, OneClientRuns
<1>9. HelperFits' /\ VolumesFit' /\ WishFits'
  BY DEF PhaseFits, KindFits, Idle, HelperFits, VolumesFit, WishFits, Labelled
<1> QED
  BY <1>5, <1>6, <1>7, <1>8, <1>9

\* So it does after a start.
LEMMA RowRenewedKeeps ==
  ASSUME ReplacementInv, Resumed("t.resumed", "t.always")
  PROVE  ReplacementInv'
<1> USE DEF ReplacementInv
<1>1. /\ job.pc = "t.resumed" /\ rec.phase = "awaiting_login" /\ rec.op \in 0 .. MaxOp
           /\ job.cur \in DOMAIN box /\ Candidate(job.cur)
      /\ box[job.cur].name = Main /\ "t.always" \in PCs /\ Unset \notin Ids /\ job.cur \in Ids
  BY DEF Resumed, PhaseFits, PCs, RowsTyped, Records, WorkFits, BoxesTyped, Ids
<1>2. ch' = [ch EXCEPT !.id = job.cur, !.vol = rec.op, !.stopped = ~Runs(job.cur)]
        /\ (~Runs(job.cur)) \in BOOLEAN
  BY DEF Resumed
<1>3. JobTyped' /\ SameJob /\ job'.cur = job.cur /\ job'.pc = "t.always"
        /\ UNCHANGED <<env, wanted, rec, intent, box, vols, helper>>
  BY <1>1, ThenGoes DEF Resumed, Then, docker
<1>4. RowsTyped' /\ ch'.exists = ch.exists /\ ch'.settings = ch.settings /\ ch'.id = job.cur
        /\ ch'.vol = rec.op
  BY <1>1, <1>2, <1>3 DEF RowsTyped
<1> USE <1>1, <1>3, <1>4
<1>5. BoxesTyped' /\ VolumesTyped'
  BY DEF BoxesTyped, VolumesTyped
<1>6. PhaseFits' /\ KindFits' /\ RecordFits' /\ AllOrNothing'
  BY DEF PhaseFits, KindFits, Idle, RecordFits, AllOrNothing
<1>7. BoxesFit' /\ RowFits'
  BY DEF PhaseFits, BoxesFit, RowFits, Free, Named
<1>8. RunsFit' /\ WorkFits'
  BY DEF PhaseFits, KindFits, Idle, RunsFit, WorkFits, OneClientRuns
<1>9. HelperFits' /\ VolumesFit' /\ WishFits'
  BY DEF PhaseFits, KindFits, Idle, HelperFits, VolumesFit, WishFits, Labelled
<1> QED
  BY <1>5, <1>6, <1>7, <1>8, <1>9

\* A start takes a candidate that has ended away.
LEMMA RemoveExitedKeeps ==
  ASSUME ReplacementInv, Expected, RemoveExited
  PROVE  ReplacementInv'
<1> USE DEF ReplacementInv
<1>1. job.pc = "t.remove" /\ RemoveAll(Owned(FALSE, TRUE))
  BY DEF RemoveExited
<1>2. /\ DOMAIN box' = DOMAIN box \ Owned(FALSE, TRUE) /\ BoxesTyped'
      /\ SameMakes(DOMAIN box \ Owned(FALSE, TRUE)) /\ SameNames(DOMAIN box \ Owned(FALSE, TRUE))
      /\ SameStates(DOMAIN box \ Owned(FALSE, TRUE))
           /\ SamePolicies(DOMAIN box \ Owned(FALSE, TRUE))
  BY <1>1, RemoveMoves
<1>3. DOMAIN box' \subseteq DOMAIN box /\ BoxesTyped' /\ SameMakes(DOMAIN box')
      /\ SameNames(DOMAIN box') /\ SameStates(DOMAIN box') /\ SamePolicies(DOMAIN box')
  BY <1>2
<1>4. job.pc = "t.remove"
  BY <1>1
<1>5. /\ JobTyped' /\ SameJob /\ job'.cur = job.cur /\ job'.pc \in {"t.create", "failed"}
      /\ UNCHANGED <<env, wanted, rows, vols, helper>>
  BY CommandGoes DEF RemoveExited, Command, PCs
<1>6. \A i \in DOMAIN box : i \in DOMAIN box' <=> ~Candidate(i)
  BY <1>1, <1>2 DEF BoxesFit, PhaseFits, Owned, OwnedBy
<1> USE <1>3, <1>4, <1>5, <1>6
<1>7. RowsTyped' /\ VolumesTyped'
  BY DEF RowsTyped, VolumesTyped, Records
<1>8. PhaseFits' /\ KindFits' /\ RecordFits' /\ AllOrNothing'
  BY DEF PhaseFits, KindFits, Idle, RecordFits, AllOrNothing
<1>9. BoxesFit'
  BY BoxesRemain
<1>10. RowFits'
  BY RowRemains
<1>11. RunsFit' /\ WorkFits'
  BY DEF PhaseFits, KindFits, Idle, RunsFit, WorkFits, OneClientRuns
<1>12. HelperFits' /\ VolumesFit' /\ WishFits'
  BY DEF PhaseFits, KindFits, Idle, HelperFits, VolumesFit, WishFits, Labelled
<1> QED
  BY <1>7, <1>8, <1>9, <1>10, <1>11, <1>12

\* And makes another.
LEMMA CreateAgainKeeps ==
  ASSUME ReplacementInv, Expected, CreateAgain
  PROVE  ReplacementInv'
<1> USE DEF ReplacementInv
<1>1. job.pc = "t.create" /\ rec.phase = "awaiting_login" /\ rec.op \in Ops
        /\ rec.op \in 0 .. MaxOp /\ ch.settings \in Versions /\ ch.settings = rec.new
      /\ FreshId \in Ids \ DOMAIN box /\ FreshId # ch.id /\ FreshId # rec.oldId
  BY FreshIds DEF CreateAgain, RecordFits, PhaseFits, Ops, RowsTyped, AllOrNothing
<1>2. NewBox(FreshId, FALSE, rec.op, ch.settings)
  BY DEF CreateAgain
<1>3. /\ DOMAIN box' = DOMAIN box \cup {FreshId} /\ BoxesTyped'
      /\ SameMakes(DOMAIN box) /\ SameNames(DOMAIN box)
      /\ SameStates(DOMAIN box) /\ SamePolicies(DOMAIN box)
      /\ box'[FreshId].name = NextName(FALSE) /\ box'[FreshId].vol = rec.op
           /\ box'[FreshId].op = rec.op
      /\ box'[FreshId].restore = FALSE /\ box'[FreshId].state = "created"
           /\ box'[FreshId].cfg = ch.settings
  <2>1. /\ BoxesTyped /\ FreshId \in Ids \ DOMAIN box /\ FALSE \in BOOLEAN /\ rec.op \in 0 .. MaxOp
        /\ ch.settings \in Versions /\ rec.op \in Ops
    BY <1>1
  <2> HIDE DEF ReplacementInv
  <2>2. MadeAs(FreshId, FALSE, rec.op, ch.settings)
    BY <2>1, <1>2, NewMoves
  <2> QED
    BY <2>2 DEF MadeAs
<1>4. /\ JobTyped' /\ SameJob /\ (job'.pc = "t.note" => job'.cur = FreshId)
           /\ job'.pc \in {"t.note", "failed"}
      /\ UNCHANGED <<env, wanted, rows, vols, helper>>
  BY <1>1, CommandTakes DEF CreateAgain, PCs
<1>5. /\ \A i \in DOMAIN box : i = rec.oldId
      /\ \A i \in DOMAIN box : box[i].name # NextName(FALSE)
  BY <1>1 DEF WorkFits, BoxesFit, CreateAgain
<1> USE <1>1, <1>3, <1>4, <1>5
<1>6. RowsTyped' /\ VolumesTyped'
  BY DEF RowsTyped, VolumesTyped, Records
<1>7. PhaseFits' /\ KindFits' /\ RecordFits' /\ AllOrNothing'
  BY DEF PhaseFits, KindFits, Idle, RecordFits, AllOrNothing
<1>8. \A i, j \in DOMAIN box' : box'[i].name = box'[j].name => i = j
  BY DEF BoxesFit
<1>9. Exists(rec.oldId)' =>
        /\ IsOurs(rec.oldId, {Main, Previous}, rec.oldVol)' /\ box'[rec.oldId].op # rec.op
        /\ box'[rec.oldId].cfg = rec.old /\ (Runs(rec.oldId)' => rec.oldAlways)
  BY DEF BoxesFit
<1>10. \A i \in DOMAIN box' : i # rec.oldId => i = FreshId
  BY <1>3, <1>5
<1>11. \A i \in DOMAIN box' : box'[i].op = rec.op => i = FreshId
  BY DEF BoxesFit
<1>12. BoxesFit'
  BY <1>6, <1>7, <1>8, <1>9, <1>10, BoxesOpen
<1>13. RowFits'
  BY DEF RowFits, PhaseFits
<1>14. RunsFit' /\ WorkFits'
  BY DEF PhaseFits, KindFits, Idle, RunsFit, WorkFits, OneClientRuns
<1>15. HelperFits' /\ VolumesFit' /\ WishFits'
  BY DEF PhaseFits, KindFits, Idle, HelperFits, VolumesFit, WishFits, Labelled
<1> QED
  BY <1>6, <1>7, <1>8, <1>9, <1>10, <1>11, <1>12, <1>13, <1>14, <1>15

\* The container started again comes back by itself.
LEMMA PolicyAgainKeeps ==
  ASSUME ReplacementInv, Expected, PolicyAgain
  PROVE  ReplacementInv'
<1> USE DEF ReplacementInv
<1>1. job.pc = "t.always" /\ rec.phase = "awaiting_login" /\ job.cur \in DOMAIN box
        /\ SetPolicy(job.cur, TRUE)
  BY DEF PolicyAgain, PhaseFits, WorkFits
<1>2. /\ DOMAIN box' = DOMAIN box /\ BoxesTyped' /\ SameMakes(DOMAIN box)
      /\ SameNames(DOMAIN box) /\ SameStates(DOMAIN box)
      /\ SamePolicies(DOMAIN box \ {job.cur}) /\ box'[job.cur].always = TRUE
  BY <1>1, PolicyMoves
<1>3. /\ JobTyped' /\ UNCHANGED <<env, wanted, rows, vols, helper>>
      /\ \/ job' = Idle
         \/ SameJob /\ job'.cur = job.cur /\ job'.pc = "failed"
  BY CommandEnds DEF PolicyAgain
<1> USE <1>1, <1>2, <1>3
<1>4. RowsTyped' /\ VolumesTyped'
  BY DEF RowsTyped, VolumesTyped, Records
<1>5. PhaseFits' /\ KindFits' /\ RecordFits' /\ AllOrNothing'
  BY DEF PhaseFits, KindFits, Idle, RecordFits, AllOrNothing
<1>6. BoxesFit'
  BY BoxesRemain
<1>7. RowFits'
  BY DEF RowFits, PhaseFits
<1>8. RunsFit' /\ WorkFits'
  BY DEF PhaseFits, KindFits, Idle, RunsFit, WorkFits, OneClientRuns
<1>9. HelperFits' /\ VolumesFit' /\ WishFits'
  BY DEF PhaseFits, KindFits, Idle, HelperFits, VolumesFit, WishFits, Labelled
<1> QED
  BY <1>4, <1>5, <1>6, <1>7, <1>8, <1>9

\* A client that ran comes back by itself again, and the handler goes on.
LEMMA ReconcilePolicyKeeps ==
  ASSUME ReplacementInv, Expected, ReconcilePolicy
  PROVE  ReplacementInv'
<1> USE DEF ReplacementInv
<1>1. /\ job.pc = "w.always" /\ rec.phase = "awaiting_login" /\ job.cur \in DOMAIN box
      /\ UNCHANGED <<rows, vols, helper>>
  BY DEF ReconcilePolicy, PhaseFits, WorkFits
<1>2. SetPolicy(job.cur, TRUE) =>
        /\ DOMAIN box' = DOMAIN box /\ BoxesTyped'
        /\ SameMakes(DOMAIN box) /\ SameNames(DOMAIN box) /\ SameStates(DOMAIN box)
  BY <1>1, PolicyMoves
<1>3. /\ DOMAIN box' = DOMAIN box /\ BoxesTyped'
      /\ SameMakes(DOMAIN box) /\ SameNames(DOMAIN box) /\ SameStates(DOMAIN box)
  BY <1>2 DEF ReconcilePolicy, BoxesTyped, Boxes
<1>4. /\ "s.inspect" \in PCs
      /\ Return = "s.inspect"
           => job.part = "none" /\ (job.kind = "stop" \/ (job.kind = "start" /\ intent))
  BY DEF PCs, Return, JobTyped, Jobs
<1>5. /\ JobTyped' /\ UNCHANGED <<env, wanted>>
      /\ \/ job' = Idle
         \/ /\ SameJob /\ job'.cur = job.cur
            /\ \/ job'.pc = "failed"
               \/ job'.pc = "s.inspect" /\ job.part = "none"
                    /\ (job.kind = "stop" \/ (job.kind = "start" /\ intent))
  BY <1>4, CommandGoes, CommandEnds DEF ReconcilePolicy
<1> USE <1>1, <1>3, <1>5
<1>6. RowsTyped' /\ VolumesTyped'
  BY DEF RowsTyped, VolumesTyped, Records
<1>7. PhaseFits' /\ KindFits' /\ RecordFits' /\ AllOrNothing'
  BY DEF PhaseFits, KindFits, Idle, RecordFits, AllOrNothing
<1>8. BoxesFit'
  BY DEF BoxesFit
<1>9. RowFits'
  BY DEF RowFits, PhaseFits
<1>10. RunsFit' /\ WorkFits'
  BY DEF PhaseFits, KindFits, Idle, RunsFit, WorkFits, OneClientRuns
<1>11. HelperFits' /\ VolumesFit' /\ WishFits'
  BY DEF PhaseFits, KindFits, Idle, HelperFits, VolumesFit, WishFits, Labelled
<1> QED
  BY <1>6, <1>7, <1>8, <1>9, <1>10, <1>11

\* A deletion is recorded, unless there is nothing to record it in.
LEMMA BeginDeleteKeeps ==
  ASSUME ReplacementInv, BeginDelete
  PROVE  ReplacementInv'
<1> USE DEF ReplacementInv
<1>1. /\ job.pc = "d.start" /\ ch.exists /\ {"d.bare", "d.begin"} \subseteq PCs
           /\ UNCHANGED <<ch, intent>>
      /\ rec.phase \in Phases
  BY DEF BeginDelete, KindFits, PCs, RowsTyped, Records
<1>2. \/ rec.phase = "none" /\ Then("d.bare") /\ rec' = rec
      \/ rec.phase # "none" /\ Then("d.begin") /\ rec' = [rec EXCEPT !.phase = "deleting"]
  BY DEF BeginDelete
<1>3. \A p \in {"d.bare", "d.begin"} : Then(p) =>
        JobTyped' /\ SameJob /\ job'.cur = job.cur /\ job'.pc = p
          /\ UNCHANGED <<env, wanted, box, vols, helper>>
  BY <1>1, ThenGoes DEF Then, docker
<1>4. JobTyped' /\ SameJob /\ job'.cur = job.cur /\ UNCHANGED <<env, wanted, box, vols, helper>>
  BY <1>2, <1>3
<1>5. /\ rec'.op = rec.op /\ rec'.new = rec.new /\ rec'.old = rec.old
      /\ rec'.initial = rec.initial /\ rec'.src = rec.src /\ rec'.oldId = rec.oldId
           /\ rec'.oldVol = rec.oldVol
      /\ rec'.oldRun = rec.oldRun /\ rec'.start = rec.start /\ rec' \in Records
  BY <1>2 DEF RowsTyped, Records, Phases
<1>6. \/ rec.phase = "none" /\ job'.pc = "d.bare" /\ rec' = rec
      \/ rec.phase # "none" /\ job'.pc = "d.begin" /\ rec'.phase = "deleting"
  BY <1>2, <1>3 DEF RowsTyped, Records
<1> USE <1>1, <1>4, <1>5, <1>6
<1>7. RowsTyped'
  BY DEF RowsTyped
<1>8. BoxesTyped' /\ VolumesTyped'
  BY DEF BoxesTyped, VolumesTyped
<1>9. PhaseFits' /\ KindFits' /\ RecordFits' /\ AllOrNothing'
  BY DEF PhaseFits, KindFits, Idle, RecordFits, AllOrNothing
<1>10. BoxesFit'
  BY DEF PhaseFits, BoxesFit, RowFits, RecordFits
<1>11. RowFits'
  BY DEF RowFits, PhaseFits, RecordFits
<1>12. RunsFit' /\ WorkFits'
  BY DEF PhaseFits, KindFits, Idle, RunsFit, WorkFits, OneClientRuns
<1>13. HelperFits'
  BY DEF HelperFits, PhaseFits
<1>14. VolumesFit'
  BY DEF VolumesFit, Labelled, KindFits, Idle
<1>15. WishFits'
  BY DEF WishFits, RecordFits, KindFits, Idle
<1> QED
  BY <1>7, <1>8, <1>9, <1>10, <1>11, <1>12, <1>13, <1>14, <1>15

\* Nobody else's container has the channel's name.
LEMMA CheckDoomedKeeps ==
  ASSUME ReplacementInv, CheckDoomed
  PROVE  ReplacementInv'
<1> USE DEF ReplacementInv
<1>1. job.pc = "d.begin" /\ "d.helper" \in PCs
  BY DEF CheckDoomed, PCs
<1>2. JobTyped' /\ SameJob /\ job'.cur = job.cur /\ job'.pc = "d.helper"
        /\ UNCHANGED <<env, wanted, rows, box, vols, helper>>
  BY <1>1, ThenGoes DEF CheckDoomed, Then, docker
<1> USE <1>1, <1>2
<1>3. BoxesTyped' /\ RowsTyped' /\ VolumesTyped'
  BY DEF BoxesTyped, RowsTyped, VolumesTyped, Records
<1>4. PhaseFits' /\ KindFits' /\ RecordFits' /\ AllOrNothing'
  BY DEF PhaseFits, KindFits, Idle, RecordFits, AllOrNothing
<1>5. BoxesFit' /\ RowFits'
  BY DEF PhaseFits, BoxesFit, RowFits, Free, Named
<1>6. RunsFit' /\ WorkFits'
  BY DEF PhaseFits, KindFits, Idle, RunsFit, WorkFits, OneClientRuns
<1>7. HelperFits' /\ VolumesFit' /\ WishFits'
  BY DEF PhaseFits, KindFits, Idle, HelperFits, VolumesFit, WishFits, Labelled
<1> QED
  BY <1>3, <1>4, <1>5, <1>6, <1>7

\* Without a record there is the channel's own container only.
LEMMA RemoveBareKeeps ==
  ASSUME ReplacementInv, Expected, RemoveBare
  PROVE  ReplacementInv'
<1> USE DEF ReplacementInv
<1>1. job.pc = "d.bare" /\ RemoveAll(Named(Main))
  BY DEF RemoveBare
<1>2. /\ DOMAIN box' = DOMAIN box \ Named(Main) /\ BoxesTyped'
      /\ SameMakes(DOMAIN box \ Named(Main)) /\ SameNames(DOMAIN box \ Named(Main))
      /\ SameStates(DOMAIN box \ Named(Main)) /\ SamePolicies(DOMAIN box \ Named(Main))
  BY <1>1, RemoveMoves
<1>3. DOMAIN box' \subseteq DOMAIN box /\ BoxesTyped' /\ SameMakes(DOMAIN box')
      /\ SameNames(DOMAIN box') /\ SameStates(DOMAIN box') /\ SamePolicies(DOMAIN box')
  BY <1>2
<1>4. job.pc = "d.bare"
  BY <1>1
<1>5. /\ JobTyped' /\ SameJob /\ job'.cur = job.cur /\ job'.pc \in {"d.volumes", "failed"}
      /\ UNCHANGED <<env, wanted, rows, vols, helper>>
  BY CommandGoes DEF RemoveBare, Command, PCs
<1>6. \A i \in DOMAIN box : i \in DOMAIN box' <=> box[i].name # Main
  BY <1>1, <1>2 DEF Named
<1>7. rec.phase = "none" /\ DOMAIN box' = {} /\ helper.state = "none" /\ ch.exists
  BY <1>1, <1>2, <1>6 DEF PhaseFits, BoxesFit, RowFits, HelperFits, KindFits
<1> USE <1>3, <1>4, <1>5, <1>6, <1>7
<1>8. RowsTyped' /\ VolumesTyped'
  BY DEF RowsTyped, VolumesTyped, Records
<1>9. PhaseFits' /\ KindFits' /\ RecordFits' /\ AllOrNothing'
  BY DEF PhaseFits, KindFits, Idle, RecordFits, AllOrNothing
<1>10. BoxesFit'
  BY BoxesRemain
<1>11. RowFits'
  BY RowRemains
<1>12. RunsFit' /\ WorkFits'
  BY DEF PhaseFits, KindFits, Idle, RunsFit, WorkFits, OneClientRuns
<1>13. HelperFits' /\ VolumesFit' /\ WishFits'
  BY DEF PhaseFits, KindFits, Idle, HelperFits, VolumesFit, WishFits, Labelled
<1> QED
  BY <1>8, <1>9, <1>10, <1>11, <1>12, <1>13

\* The containers of a channel to be deleted go one after the other.
LEMMA RemoveDoomedKeeps ==
  ASSUME ReplacementInv, RemoveDoomed
  PROVE  ReplacementInv'
<1> USE DEF ReplacementInv
<1>1. job.pc = "d.remove" /\ rec.phase = "deleting" /\ ch.exists /\ helper.state = "none"
        /\ {"d.volumes", "d.remove"} \subseteq PCs
  BY DEF RemoveDoomed, PhaseFits, KindFits, HelperFits, PCs
<1>2. /\ JobTyped' /\ SameJob /\ job'.cur = job.cur
           /\ UNCHANGED <<env, wanted, rows, vols, helper>>
      /\ \/ Doomed = {} /\ job'.pc = "d.volumes" /\ UNCHANGED box
         \/ job'.pc \in {"d.remove", "failed"} /\ \E i \in Doomed : RemoveAll({i})
  BY <1>1, ThenGoes, CommandGoes DEF RemoveDoomed, Then, Command, docker
<1>3. DOMAIN box' \subseteq DOMAIN box /\ BoxesTyped' /\ SameMakes(DOMAIN box')
      /\ SameNames(DOMAIN box') /\ SameStates(DOMAIN box') /\ SamePolicies(DOMAIN box')
  BY <1>2, RemoveMoves DEF BoxesTyped, Boxes
<1>4. Doomed = {} => \A i \in DOMAIN box : FALSE
  BY <1>1 DEF Doomed, BoxesFit, Owned, OwnedBy, BoxesTyped, Boxes
<1>5. JobTyped' /\ SameJob /\ job'.cur = job.cur /\ UNCHANGED <<env, wanted, rows, vols, helper>>
  BY <1>2
<1>6. job'.pc \in {"d.remove", "failed"} \/ (job'.pc = "d.volumes" /\ DOMAIN box' = {})
  BY <1>2, <1>4
<1> USE <1>1, <1>3, <1>5, <1>6
<1>7. RowsTyped' /\ VolumesTyped'
  BY DEF RowsTyped, VolumesTyped, Records
<1>8. PhaseFits' /\ KindFits' /\ RecordFits' /\ AllOrNothing'
  BY DEF PhaseFits, KindFits, Idle, RecordFits, AllOrNothing
<1>9. BoxesFit'
  BY BoxesRemain
<1>10. RowFits'
  BY RowRemains
<1>11. RunsFit' /\ WorkFits'
  BY DEF PhaseFits, KindFits, Idle, RunsFit, WorkFits, OneClientRuns
<1>12. HelperFits' /\ VolumesFit' /\ WishFits'
  BY DEF PhaseFits, KindFits, Idle, HelperFits, VolumesFit, WishFits, Labelled
<1> QED
  BY <1>7, <1>8, <1>9, <1>10, <1>11, <1>12

\* Then its volumes do.
LEMMA RemoveVolumesKeeps ==
  ASSUME ReplacementInv, RemoveVolumes
  PROVE  ReplacementInv'
<1> USE DEF ReplacementInv
<1>1. job.pc = "d.volumes" /\ rec.phase \in {"none", "deleting"} /\ ch.exists
        /\ helper.state = "none" /\ DOMAIN box = {} /\ {"d.volumes", "d.deleted"} \subseteq PCs
  BY DEF RemoveVolumes, PhaseFits, KindFits, HelperFits, WorkFits, PCs
<1>2. /\ JobTyped' /\ SameJob /\ job'.cur = job.cur
           /\ UNCHANGED <<env, wanted, rows, box, helper>>
      /\ \/ Labelled = {} /\ job'.pc = "d.deleted" /\ UNCHANGED vols
         \/ job'.pc \in {"d.volumes", "failed"}
              /\ \E o \in Labelled : vols' = [vols EXCEPT ![o] = Gone]
  BY <1>1, ThenGoes, CommandGoes DEF RemoveVolumes, Then, docker
<1>3. /\ vols' \in [0 .. MaxOp -> Gone .. MaxData]
      /\ \A o \in 0 .. MaxOp : vols'[o] \in {Gone, vols[o]}
  BY <1>2 DEF Labelled, Ops, Gone, VolumesTyped
<1>4. JobTyped' /\ SameJob /\ job'.cur = job.cur /\ UNCHANGED <<env, wanted, rows, box, helper>>
  BY <1>2
<1>5. job'.pc \in {"d.volumes", "failed"} \/ (job'.pc = "d.deleted" /\ Labelled' = {})
  BY <1>2 DEF Labelled
<1>6. 0 \in 0 .. MaxOp /\ ch.vol \in 0 .. MaxOp
  BY DEF RowsTyped
<1>7. Labelled' \subseteq Labelled
  BY <1>3 DEF Labelled, Ops
<1> USE <1>1, <1>3, <1>4, <1>5, <1>6, <1>7
<1>8. RowsTyped'
  BY DEF RowsTyped
<1>9. BoxesTyped'
  BY DEF BoxesTyped
<1>10. VolumesTyped'
  BY DEF VolumesTyped
<1>11. PhaseFits' /\ KindFits' /\ RecordFits' /\ AllOrNothing'
  BY DEF PhaseFits, KindFits, Idle, RecordFits, AllOrNothing
<1>12. BoxesFit' /\ RowFits'
  BY DEF PhaseFits, BoxesFit, RowFits, Free, Named
<1>13. RunsFit' /\ WorkFits'
  BY DEF PhaseFits, KindFits, Idle, RunsFit, WorkFits, OneClientRuns
<1>14. HelperFits'
  BY DEF HelperFits
<1>15. VolumesFit'
  BY DEF VolumesFit, Gone, Torn
<1>16. WishFits'
  BY DEF WishFits
<1> QED
  BY <1>8, <1>9, <1>10, <1>11, <1>12, <1>13, <1>14, <1>15, <1>16

\* And at last its rows.
LEMMA DeletedKeeps ==
  ASSUME ReplacementInv, Deleted
  PROVE  ReplacementInv'
<1> USE DEF ReplacementInv
<1>1. /\ job.pc = "d.deleted" /\ helper.state = "none" /\ DOMAIN box = {} /\ Labelled = {}
      /\ ch' = [ch EXCEPT !.exists = FALSE] /\ rec' = NoRec /\ intent' = FALSE
  BY DEF Deleted, HelperFits, WorkFits, VolumesFit
<1>2. /\ ch'.exists = FALSE /\ ch'.settings = ch.settings /\ ch'.id = ch.id /\ ch'.vol = ch.vol
  BY <1>1 DEF RowsTyped
<1>3. JobTyped' /\ job' = Idle /\ UNCHANGED <<env, wanted, box, vols, helper>>
  BY IdleGoes DEF Deleted, Ends, docker
<1>4. NoRec \in Records
  BY DEF Records, NoRec
<1>5. RowsTyped'
  BY <1>1, <1>3, <1>4 DEF RowsTyped
<1>6. rec'.phase = "none"
  BY <1>1 DEF NoRec
<1>7. vols[ch.vol] # Torn
  BY <1>1 DEF VolumesFit, Labelled, RowsTyped, Ops, Torn, Gone
<1> USE <1>1, <1>2, <1>3, <1>4, <1>5, <1>6, <1>7
<1>8. BoxesTyped' /\ VolumesTyped'
  BY DEF BoxesTyped, VolumesTyped
<1>9. PhaseFits' /\ KindFits' /\ RecordFits' /\ AllOrNothing'
  BY DEF PhaseFits, KindFits, Idle, RecordFits, AllOrNothing
<1>10. BoxesFit' /\ RowFits'
  BY DEF PhaseFits, BoxesFit, RowFits, Free, Named
<1>11. RunsFit' /\ WorkFits'
  BY DEF PhaseFits, KindFits, Idle, RunsFit, WorkFits, OneClientRuns
<1>12. HelperFits' /\ VolumesFit' /\ WishFits'
  BY DEF PhaseFits, KindFits, Idle, HelperFits, VolumesFit, WishFits, Labelled
<1> QED
  BY <1>8, <1>9, <1>10, <1>11, <1>12

\* Settings of a client that is to be stopped, or without a runtime, wait.
LEMMA SettingsWaitKeeps ==
  ASSUME ReplacementInv,
         (rec.phase = "queued"
           \/ ((intent \/ env = "off") /\ job.want # ch.settings /\ ch.id # Unset)),
         SaveSettings
  PROVE  ReplacementInv'
<1> USE DEF ReplacementInv
<1>1. /\ job.pc = "u.save" /\ rec.phase \in Quiet /\ job.want \in Versions
           /\ Unset \notin DOMAIN box /\ ~job.force
      /\ job.kind = "update" /\ job.part = "none" /\ helper.state = "none"
  BY DEF SaveSettings, PhaseFits, KindFits, BoxesTyped, Ids, HelperFits
<1>2. /\ FreeOps # {} /\ Ends /\ UNCHANGED <<ch, intent>> /\ ch.id # Unset
      /\ rec' = IF job.want = ch.settings THEN NoRec
                ELSE [NoRec EXCEPT !.phase = "queued", !.op = FreshOp, !.new = job.want, !.oldId = ch.id, !.oldVol = ch.vol]
  BY DEF SaveSettings, RecordFits
<1>3. JobTyped' /\ job' = Idle /\ UNCHANGED <<env, wanted, ch, intent, box, vols, helper>>
  BY <1>2, IdleGoes DEF Ends, docker
<1>4. /\ FreshOp \in Ops /\ FreshOp \in 0 .. MaxOp /\ FreshOp # ch.vol /\ vols[FreshOp] = Gone
      /\ \A i \in DOMAIN box : box[i].op # FreshOp
  BY <1>2, FreshOps DEF Ops
<1>5. /\ rec' \in Records
      /\ \/ rec' = NoRec
         \/ /\ rec'.phase = "queued" /\ rec'.op = FreshOp /\ rec'.new = job.want
                 /\ rec'.oldId = ch.id
            /\ rec'.oldVol = ch.vol
  BY <1>1, <1>2, <1>4, NoRecIsARecord, QueueIsARecord DEF NoRec
<1>6. NoRec.phase = "none"
  BY DEF NoRec
<1>7. rec'.phase \in Quiet
  BY <1>5, <1>6
<1> USE <1>1, <1>3, <1>4, <1>5, <1>6, <1>7
<1>8. RowsTyped'
  BY DEF RowsTyped
<1>9. BoxesTyped' /\ VolumesTyped'
  BY DEF BoxesTyped, VolumesTyped
<1>10. PhaseFits' /\ KindFits' /\ RecordFits' /\ AllOrNothing'
  BY DEF PhaseFits, KindFits, Idle, RecordFits, AllOrNothing
<1>11. BoxesFit' /\ RowFits'
  BY DEF PhaseFits, BoxesFit, RowFits, Free, Named
<1>12. RunsFit' /\ WorkFits'
  BY DEF PhaseFits, KindFits, Idle, RunsFit, WorkFits, OneClientRuns
<1>13. HelperFits' /\ VolumesFit' /\ WishFits'
  BY DEF PhaseFits, KindFits, Idle, HelperFits, VolumesFit, WishFits, Labelled
<1> QED
  BY <1>8, <1>9, <1>10, <1>11, <1>12, <1>13

\* Settings of a channel that has a container lead to another one.
LEMMA SettingsReplaceKeeps ==
  ASSUME ReplacementInv,
         ~(rec.phase = "queued"
           \/ ((intent \/ env = "off") /\ job.want # ch.settings
                /\ ch.id # Unset)), (job.want # ch.settings /\ ch.id # Unset),
         SaveSettings
  PROVE  ReplacementInv'
<1> USE DEF ReplacementInv
<1>1. /\ job.pc = "u.save" /\ rec.phase \in Quiet /\ job.want \in Versions
           /\ Unset \notin DOMAIN box /\ ~job.force
      /\ job.kind = "update" /\ job.part = "none" /\ helper.state = "none"
  BY DEF SaveSettings, PhaseFits, KindFits, BoxesTyped, Ids, HelperFits
<1>2. /\ Proceeds([job EXCEPT !.pc = "replace", !.mark = TRUE]) /\ UNCHANGED <<rows, docker>>
      /\ rec.phase = "none" /\ ~intent /\ ch.id # Unset /\ "replace" \in PCs
  BY <1>1 DEF SaveSettings, PCs
<1>3. /\ JobTyped' /\ job'.kind = job.kind /\ job'.part = job.part /\ job'.want = job.want
           /\ job'.force = job.force
      /\ job'.pc = "replace" /\ UNCHANGED <<env, wanted, rows, box, vols, helper>>
  BY <1>2 DEF Proceeds, docker, counters, JobTyped, Jobs
<1>4. rec.phase = "none" /\ ~intent /\ ch.id # Unset
  BY <1>2
<1> USE <1>1, <1>3, <1>4
<1>5. BoxesTyped' /\ RowsTyped' /\ VolumesTyped'
  BY DEF BoxesTyped, RowsTyped, VolumesTyped, Records
<1>6. PhaseFits' /\ KindFits' /\ RecordFits' /\ AllOrNothing'
  BY DEF PhaseFits, KindFits, Idle, RecordFits, AllOrNothing
<1>7. BoxesFit' /\ RowFits'
  BY DEF PhaseFits, BoxesFit, RowFits, Free, Named
<1>8. RunsFit' /\ WorkFits'
  BY DEF PhaseFits, KindFits, Idle, RunsFit, WorkFits, OneClientRuns
<1>9. HelperFits' /\ VolumesFit' /\ WishFits'
  BY DEF PhaseFits, KindFits, Idle, HelperFits, VolumesFit, WishFits, Labelled
<1> QED
  BY <1>5, <1>6, <1>7, <1>8, <1>9

\* Settings of a channel without one are only saved.
LEMMA SettingsAreSavedKeeps ==
  ASSUME ReplacementInv,
         ~(rec.phase = "queued"
           \/ ((intent \/ env = "off") /\ job.want # ch.settings
                /\ ch.id # Unset)), ~(job.want # ch.settings /\ ch.id # Unset),
         SaveSettings
  PROVE  ReplacementInv'
<1> USE DEF ReplacementInv
<1>1. /\ job.pc = "u.save" /\ rec.phase \in Quiet /\ job.want \in Versions
           /\ Unset \notin DOMAIN box /\ ~job.force
      /\ job.kind = "update" /\ job.part = "none" /\ helper.state = "none"
  BY DEF SaveSettings, PhaseFits, KindFits, BoxesTyped, Ids, HelperFits
<1>2. Ends /\ UNCHANGED <<rec, intent>> /\ ch' = [ch EXCEPT !.settings = job.want]
  BY DEF SaveSettings
<1>3. JobTyped' /\ job' = Idle /\ UNCHANGED <<env, wanted, rec, intent, box, vols, helper>>
  BY <1>2, IdleGoes DEF Ends, docker
<1>4. /\ RowsTyped' /\ ch'.exists = ch.exists /\ ch'.settings = job.want /\ ch'.id = ch.id
           /\ ch'.vol = ch.vol
      /\ ch'.stopped = ch.stopped
  BY <1>1, <1>2, <1>3 DEF RowsTyped
<1>5. rec.phase = "none" /\ (ch.id = Unset \/ job.want = ch.settings)
  BY <1>1
<1> USE <1>1, <1>3, <1>4, <1>5
<1>6. BoxesTyped' /\ VolumesTyped'
  BY DEF BoxesTyped, VolumesTyped
<1>7. PhaseFits' /\ KindFits' /\ RecordFits' /\ AllOrNothing'
  BY DEF PhaseFits, KindFits, Idle, RecordFits, AllOrNothing
<1>8. BoxesFit' /\ RowFits'
  BY DEF PhaseFits, BoxesFit, RowFits, Free, Named
<1>9. RunsFit' /\ WorkFits'
  BY DEF PhaseFits, KindFits, Idle, RunsFit, WorkFits, OneClientRuns
<1>10. HelperFits' /\ VolumesFit' /\ WishFits'
  BY DEF PhaseFits, KindFits, Idle, HelperFits, VolumesFit, WishFits, Labelled
<1> QED
  BY <1>6, <1>7, <1>8, <1>9, <1>10

\* A condition that does not hold ends the step.
LEMMA RefusedKeeps ==
  ASSUME ReplacementInv, Refused
  PROVE  ReplacementInv'
<1> USE DEF ReplacementInv
<1>1. /\ JobTyped' /\ SameJob /\ job'.cur = job.cur /\ job'.pc = "failed"
           /\ job.pc \notin {"idle"}
      /\ UNCHANGED <<env, wanted, rows, box, vols, helper>>
  BY FailedIsAPlace DEF Refused, docker, counters, JobTyped, Jobs, Expected, Given,
      ReplaceExpects, RecoverExpects, CleanupExpects, StopExpects, WaitExpects, DeleteExpects,
      Idle
<1> USE <1>1
<1>2. BoxesTyped' /\ RowsTyped' /\ VolumesTyped'
  BY DEF BoxesTyped, RowsTyped, VolumesTyped, Records
<1>3. PhaseFits' /\ KindFits' /\ RecordFits' /\ AllOrNothing'
  BY DEF PhaseFits, KindFits, Idle, RecordFits, AllOrNothing
<1>4. BoxesFit' /\ RowFits'
  BY DEF PhaseFits, BoxesFit, RowFits, Free, Named
<1>5. RunsFit' /\ WorkFits'
  BY DEF PhaseFits, KindFits, Idle, RunsFit, WorkFits, OneClientRuns
<1>6. HelperFits' /\ VolumesFit' /\ WishFits'
  BY DEF PhaseFits, KindFits, Idle, HelperFits, VolumesFit, WishFits, Labelled
<1> QED
  BY <1>2, <1>3, <1>4, <1>5, <1>6

\* A change of the settings begins.
LEMMA UpdateAskedKeeps ==
  ASSUME ReplacementInv, UpdateAsked
  PROVE  ReplacementInv'
<1> USE DEF ReplacementInv
<1>1. /\ job = Idle /\ ch.exists /\ asks' \in 0 .. MaxAsks
  BY DEF UpdateAsked, Asked, JobTyped
<1>2. UNCHANGED <<rows, box, vols, helper, env, faults, wanted>>
        /\ rec.phase \in Quiet \cup Terminal
  BY DEF UpdateAsked, docker
<1>3. PICK v \in Versions : job' = [Idle EXCEPT !.kind = "update", !.want = v,
                                     !.pc = IF rec.phase \in Terminal THEN "c.begin" ELSE "u.save"]
  BY DEF UpdateAsked
<1>4. (IF rec.phase \in Terminal THEN "c.begin" ELSE "u.save") \in PCs /\ "update" \in Kinds
  BY DEF PCs, Kinds
<1>5. /\ job' \in Jobs /\ job'.kind = "update" /\ job'.part = "none" /\ job'.want \in Versions
           /\ ~job'.force /\ ~job'.mark
      /\ job'.pc = IF rec.phase \in Terminal THEN "c.begin" ELSE "u.save"
  BY <1>3, <1>4 DEF Idle, Jobs
<1>6. JobTyped'
  BY <1>1, <1>2, <1>5 DEF JobTyped
<1>7. job = Idle /\ ch.exists
  BY <1>1
<1> USE <1>2, <1>5, <1>6, <1>7 DEF Idle
<1>8. BoxesTyped' /\ RowsTyped' /\ VolumesTyped'
  BY DEF BoxesTyped, RowsTyped, VolumesTyped, Records
<1>9. PhaseFits' /\ KindFits' /\ RecordFits' /\ AllOrNothing'
  BY DEF PhaseFits, KindFits, Idle, RecordFits, AllOrNothing
<1>10. BoxesFit' /\ RowFits'
  BY DEF PhaseFits, BoxesFit, RowFits, Free, Named
<1>11. RunsFit' /\ WorkFits'
  BY DEF PhaseFits, KindFits, Idle, RunsFit, WorkFits, OneClientRuns
<1>12. HelperFits' /\ VolumesFit' /\ WishFits'
  BY DEF PhaseFits, KindFits, Idle, HelperFits, VolumesFit, WishFits, Labelled
<1> QED
  BY <1>8, <1>9, <1>10, <1>11, <1>12

\* A start settles a stop that is pending first.
LEMMA StartAskedKeeps ==
  ASSUME ReplacementInv, StartAsked
  PROVE  ReplacementInv'
<1> USE DEF ReplacementInv
<1>1. /\ job = Idle /\ ch.exists /\ asks' \in 0 .. MaxAsks
  BY DEF StartAsked, Asked, JobTyped
<1>2. /\ UNCHANGED <<rows, box, vols, helper, env, faults>> /\ wanted' = TRUE
      /\ Begin("start", IF intent THEN "s.before" ELSE "t.resume")
  BY DEF StartAsked, docker
<1>3. (IF intent THEN "s.before" ELSE "t.resume") \in PCs /\ "start" \in Kinds
  BY DEF PCs, Kinds
<1>4. /\ job' \in Jobs /\ job'.kind = "start" /\ job'.part = "none"
      /\ job'.pc = IF intent THEN "s.before" ELSE "t.resume"
  BY <1>2, <1>3, BeginGoes
<1>5. JobTyped'
  BY <1>1, <1>2, <1>4 DEF JobTyped
<1>6. job = Idle /\ ch.exists /\ wanted' = TRUE /\ UNCHANGED <<rows, box, vols, helper, env>>
  BY <1>1, <1>2
<1> USE <1>4, <1>5, <1>6 DEF Idle
<1>7. BoxesTyped' /\ RowsTyped' /\ VolumesTyped'
  BY DEF BoxesTyped, RowsTyped, VolumesTyped, Records
<1>8. PhaseFits' /\ KindFits' /\ RecordFits' /\ AllOrNothing'
  BY DEF PhaseFits, KindFits, Idle, RecordFits, AllOrNothing
<1>9. BoxesFit' /\ RowFits'
  BY DEF PhaseFits, BoxesFit, RowFits, Free, Named
<1>10. RunsFit' /\ WorkFits'
  BY DEF PhaseFits, KindFits, Idle, RunsFit, WorkFits, OneClientRuns
<1>11. HelperFits' /\ VolumesFit' /\ WishFits'
  BY DEF PhaseFits, KindFits, Idle, HelperFits, VolumesFit, WishFits, Labelled
<1> QED
  BY <1>7, <1>8, <1>9, <1>10, <1>11

\* A stop is saved before anything else.
LEMMA StopAskedKeeps ==
  ASSUME ReplacementInv, StopAsked
  PROVE  ReplacementInv'
<1> USE DEF ReplacementInv
<1>1. /\ job = Idle /\ ch.exists /\ asks' \in 0 .. MaxAsks
  BY DEF StopAsked, Asked, JobTyped
<1>2. /\ UNCHANGED <<rec, box, vols, helper, env, faults>> /\ wanted' = FALSE
           /\ rec.phase # "deleting"
      /\ intent' = (intent \/ ch.id # Unset \/ rec.phase # "none")
           /\ ch' = [ch EXCEPT !.stopped = TRUE]
  BY DEF StopAsked, docker
<1>3. /\ ch'.exists = ch.exists /\ ch'.settings = ch.settings /\ ch'.id = ch.id
           /\ ch'.vol = ch.vol /\ ch'.stopped
      /\ (intent \/ ch.id # Unset \/ rec.phase # "none") \in BOOLEAN
  BY <1>2 DEF RowsTyped
<1>4. RowsTyped'
  BY <1>2, <1>3 DEF RowsTyped
<1>5. "stop" \in Kinds /\ "s.before" \in PCs /\ (Begin("stop", "s.before") \/ job' = job)
  BY DEF Kinds, PCs, StopAsked
<1>6. job' \in Jobs
        /\ (job' = Idle \/ (job'.kind = "stop" /\ job'.part = "none" /\ job'.pc = "s.before"))
  BY <1>1, <1>5, BeginGoes, IdleIsAJob
<1>7. JobTyped'
  BY <1>1, <1>2, <1>6 DEF JobTyped
<1>8. job = Idle /\ ch.exists /\ UNCHANGED <<rec, box, vols, helper, env>>
        /\ Unset \notin DOMAIN box
  BY <1>1, <1>2 DEF BoxesTyped, Ids
<1>9. (intent \/ ch.id # Unset \/ rec.phase # "none") => intent'
  BY <1>2
<1> USE <1>3, <1>4, <1>6, <1>7, <1>8, <1>9 DEF Idle
<1>10. BoxesTyped' /\ VolumesTyped'
  BY DEF BoxesTyped, VolumesTyped
<1>11. PhaseFits' /\ KindFits' /\ RecordFits' /\ AllOrNothing'
  BY DEF PhaseFits, KindFits, Idle, RecordFits, AllOrNothing
<1>12. BoxesFit' /\ RowFits'
  BY DEF PhaseFits, BoxesFit, RowFits, Free, Named
<1>13. RunsFit' /\ WorkFits'
  BY DEF PhaseFits, KindFits, Idle, RunsFit, WorkFits, OneClientRuns
<1>14. HelperFits'
  BY DEF HelperFits
<1>15. VolumesFit'
  BY DEF VolumesFit, Labelled
<1>16. WishFits'
  BY DEF WishFits, BoxesFit
<1> QED
  BY <1>10, <1>11, <1>12, <1>13, <1>14, <1>15, <1>16

\* Going back begins, or takes the waiting settings away.
LEMMA RestoreAskedKeeps ==
  ASSUME ReplacementInv, RestoreAsked
  PROVE  ReplacementInv'
<1> USE DEF ReplacementInv
<1>1. /\ job = Idle /\ ch.exists /\ asks' \in 0 .. MaxAsks
  BY DEF RestoreAsked, Asked, JobTyped
<1>2. /\ UNCHANGED <<ch, intent, box, vols, helper, env, faults>> /\ job = Idle /\ ch.exists
      /\ rec.phase \notin {"none", "deleting"} \cup Terminal
  BY <1>1 DEF RestoreAsked, docker
<1>3. "restore" \in Kinds /\ "v.begin" \in PCs
  BY DEF Kinds, PCs
<1>4. \/ rec.phase = "queued" /\ rec' = NoRec /\ job' = Idle /\ wanted' = wanted
      \/ /\ rec' = rec /\ job' \in Jobs /\ job'.kind = "restore" /\ job'.part = "none"
              /\ job'.pc = "v.begin"
         /\ ~intent /\ wanted' = (wanted \/ rec.oldRun)
  BY <1>1, <1>3, BeginGoes DEF RestoreAsked
<1>5. (wanted \/ rec.oldRun) \in BOOLEAN
  BY DEF RowsTyped, Records
<1>6. RowsTyped'
  BY <1>2, <1>4, <1>5, NoRecIsARecord DEF RowsTyped
<1>7. NoRec.phase = "none" /\ JobTyped'
  BY <1>1, <1>2, <1>4, IdleIsAJob DEF NoRec, JobTyped
<1>8. \/ rec.phase = "queued" /\ rec' = NoRec /\ job' = Idle /\ wanted' = wanted
      \/ /\ rec' = rec /\ job'.kind = "restore" /\ job'.part = "none" /\ job'.pc = "v.begin"
         /\ ~intent /\ (wanted \/ rec.oldRun => wanted')
  BY <1>4
<1> USE <1>2, <1>6, <1>7, <1>8 DEF Idle
<1>9. BoxesTyped' /\ VolumesTyped'
  BY DEF BoxesTyped, VolumesTyped
<1>10. PhaseFits' /\ KindFits' /\ RecordFits' /\ AllOrNothing'
  BY DEF PhaseFits, KindFits, Idle, RecordFits, AllOrNothing
<1>11. BoxesFit' /\ RowFits'
  BY DEF PhaseFits, BoxesFit, RowFits, Free, Named
<1>12. RunsFit' /\ WorkFits'
  BY DEF PhaseFits, KindFits, Idle, RunsFit, WorkFits, OneClientRuns
<1>13. HelperFits'
  BY DEF HelperFits
<1>14. VolumesFit'
  BY DEF VolumesFit, Labelled, RecordFits
<1>15. WishFits'
  BY DEF WishFits, RecordFits
<1> QED
  BY <1>9, <1>10, <1>11, <1>12, <1>13, <1>14, <1>15

\* A channel of which there is nothing is deleted at once.
LEMMA DeleteAskedKeeps ==
  ASSUME ReplacementInv, DeleteAsked
  PROVE  ReplacementInv'
<1> USE DEF ReplacementInv
<1>1. /\ job = Idle /\ ch.exists /\ asks' \in 0 .. MaxAsks
  BY DEF DeleteAsked, Asked, JobTyped
<1>2. UNCHANGED <<rec, box, vols, helper, env, faults, wanted>> /\ job = Idle /\ ch.exists
  BY <1>1 DEF DeleteAsked, docker
<1>3. "delete" \in Kinds /\ "d.start" \in PCs
  BY DEF Kinds, PCs
<1>4. \/ /\ ch.id = Unset /\ rec.phase = "none" /\ ch' = [ch EXCEPT !.exists = FALSE]
              /\ ~intent' /\ job' = Idle
      \/ /\ UNCHANGED rows /\ job' \in Jobs /\ job'.kind = "delete" /\ job'.part = "none"
              /\ job'.pc = "d.start"
  BY <1>1, <1>3, BeginGoes DEF DeleteAsked
<1>5. RowsTyped'
  BY <1>2, <1>4 DEF RowsTyped, DeleteAsked
<1>6. JobTyped' /\ Unset \notin DOMAIN box
  BY <1>1, <1>2, <1>4, IdleIsAJob DEF JobTyped, BoxesTyped, Ids
<1>7. \/ /\ ch.id = Unset /\ rec.phase = "none" /\ ~ch'.exists /\ ~intent' /\ job' = Idle
         /\ ch'.settings = ch.settings /\ ch'.id = ch.id /\ ch'.vol = ch.vol
              /\ ch'.stopped = ch.stopped
      \/ /\ UNCHANGED rows /\ job'.kind = "delete" /\ job'.part = "none" /\ job'.pc = "d.start"
  BY <1>4 DEF RowsTyped
<1> USE <1>2, <1>5, <1>6, <1>7 DEF Idle
<1>8. BoxesTyped' /\ VolumesTyped'
  BY DEF BoxesTyped, VolumesTyped
<1>9. PhaseFits' /\ KindFits' /\ RecordFits' /\ AllOrNothing'
  BY DEF PhaseFits, KindFits, Idle, RecordFits, AllOrNothing
<1>10. BoxesFit' /\ RowFits'
  BY DEF PhaseFits, BoxesFit, RowFits, Free, Named
<1>11. RunsFit'
  BY DEF RunsFit, OneClientRuns
<1>12. ~ch'.exists => \A i \in DOMAIN box : FALSE
  BY DEF BoxesFit
<1>13. WorkFits'
  BY <1>12 DEF WorkFits
<1>14. HelperFits'
  BY DEF HelperFits
<1>15. VolumesFit'
  BY DEF VolumesFit, Labelled
<1>16. WishFits'
  BY DEF WishFits, BoxesFit
<1> QED
  BY <1>8, <1>9, <1>10, <1>11, <1>12, <1>13, <1>14, <1>15, <1>16

\* The runtime comes up.
LEMMA StartRuntimeKeeps ==
  ASSUME ReplacementInv, StartRuntime
  PROVE  ReplacementInv'
<1> USE DEF ReplacementInv
<1>1. JobTyped' /\ UNCHANGED <<ch, rec, intent, box, vols, helper, job, wanted>>
  BY DEF StartRuntime, docker, counters, JobTyped
<1> USE <1>1
<1>2. BoxesTyped' /\ RowsTyped' /\ VolumesTyped'
  BY DEF BoxesTyped, RowsTyped, VolumesTyped, Records
<1>3. PhaseFits' /\ KindFits' /\ RecordFits' /\ AllOrNothing'
  BY DEF PhaseFits, KindFits, Idle, RecordFits, AllOrNothing
<1>4. BoxesFit' /\ RowFits'
  BY DEF PhaseFits, BoxesFit, RowFits, Free, Named
<1>5. RunsFit' /\ WorkFits'
  BY DEF PhaseFits, KindFits, Idle, RunsFit, WorkFits, OneClientRuns
<1>6. HelperFits' /\ VolumesFit' /\ WishFits'
  BY DEF PhaseFits, KindFits, Idle, HelperFits, VolumesFit, WishFits, Labelled
<1> QED
  BY <1>2, <1>3, <1>4, <1>5, <1>6

\* The stops that are pending are applied first.
LEMMA RecoverStopsKeeps ==
  ASSUME ReplacementInv, RecoverStops
  PROVE  ReplacementInv'
<1> USE DEF ReplacementInv
<1>1. UNCHANGED <<ch, rec, intent, box, vols, helper, wanted, asks, faults>> /\ job = Idle
        /\ env' = "replacements"
  BY DEF RecoverStops, docker, counters
<1>2. "stop" \in Kinds /\ "s.before" \in PCs
  BY DEF Kinds, PCs
<1>3. job' \in Jobs
        /\ (job' = Idle
             \/ (intent /\ job'.kind = "stop" /\ job'.part = "none" /\ job'.pc = "s.before"))
  BY <1>1, <1>2, BeginGoes, IdleIsAJob DEF RecoverStops
<1>4. JobTyped'
  BY <1>1, <1>3 DEF JobTyped
<1>5. intent => ch.exists
  BY <1>1 DEF KindFits
<1> USE <1>1, <1>3, <1>4, <1>5 DEF Idle
<1>6. BoxesTyped' /\ RowsTyped' /\ VolumesTyped'
  BY DEF BoxesTyped, RowsTyped, VolumesTyped, Records
<1>7. PhaseFits' /\ KindFits' /\ RecordFits' /\ AllOrNothing'
  BY DEF PhaseFits, KindFits, Idle, RecordFits, AllOrNothing
<1>8. BoxesFit' /\ RowFits'
  BY DEF PhaseFits, BoxesFit, RowFits, Free, Named
<1>9. RunsFit' /\ WorkFits'
  BY DEF PhaseFits, KindFits, Idle, RunsFit, WorkFits, OneClientRuns
<1>10. HelperFits' /\ VolumesFit' /\ WishFits'
  BY DEF PhaseFits, KindFits, Idle, HelperFits, VolumesFit, WishFits, Labelled
<1> QED
  BY <1>6, <1>7, <1>8, <1>9, <1>10

\* Then what was under way is settled.
LEMMA RecoverAllKeeps ==
  ASSUME ReplacementInv, RecoverAll
  PROVE  ReplacementInv'
<1> USE DEF ReplacementInv
<1>1. /\ UNCHANGED <<ch, rec, intent, box, vols, helper, wanted, asks, faults>> /\ job = Idle
           /\ env' = "ready"
      /\ rec.phase \in Phases
  BY DEF RecoverAll, docker, counters, RowsTyped, Records
<1>2. "boot" \in Kinds /\ {"w.begin", "d.start", "v.begin"} \subseteq PCs
  BY DEF Kinds, PCs
<1>3. \/ rec.phase \in Quiet /\ job' = Idle
      \/ rec.phase = "awaiting_login" /\ Begin("boot", "w.begin")
      \/ rec.phase = "deleting" /\ Begin("boot", "d.start")
      \/ rec.phase \in (Begun \cup Terminal) \ {"awaiting_login"} /\ Begin("boot", "v.begin")
  BY <1>1 DEF RecoverAll
<1>4. /\ job' \in Jobs
      /\ \/ rec.phase \in Quiet /\ job' = Idle
         \/ /\ job'.kind = "boot" /\ job'.part = "none" /\ ch.exists
            /\ \/ rec.phase = "awaiting_login" /\ job'.pc = "w.begin"
               \/ rec.phase = "deleting" /\ job'.pc = "d.start"
               \/ rec.phase \in (Begun \cup Terminal) \ {"awaiting_login"} /\ job'.pc = "v.begin"
  BY <1>1, <1>2, <1>3, BeginGoes, IdleIsAJob DEF KindFits
<1>5. JobTyped'
  BY <1>1, <1>4 DEF JobTyped
<1>6. job = Idle /\ UNCHANGED <<ch, rec, intent, box, vols, helper, wanted>>
  BY <1>1
<1> USE <1>4, <1>5, <1>6 DEF Idle
<1>7. BoxesTyped' /\ RowsTyped' /\ VolumesTyped'
  BY DEF BoxesTyped, RowsTyped, VolumesTyped, Records
<1>8. PhaseFits' /\ KindFits' /\ RecordFits' /\ AllOrNothing'
  BY DEF PhaseFits, KindFits, Idle, RecordFits, AllOrNothing
<1>9. BoxesFit' /\ RowFits'
  BY DEF PhaseFits, BoxesFit, RowFits, Free, Named
<1>10. RunsFit' /\ WorkFits'
  BY DEF PhaseFits, KindFits, Idle, RunsFit, WorkFits, OneClientRuns
<1>11. HelperFits' /\ VolumesFit' /\ WishFits'
  BY DEF PhaseFits, KindFits, Idle, HelperFits, VolumesFit, WishFits, Labelled
<1> QED
  BY <1>7, <1>8, <1>9, <1>10, <1>11

\* A candidate that answers is there to stay.
LEMMA ProbeConfirmsKeeps ==
  ASSUME ReplacementInv, ProbeConfirms
  PROVE  ReplacementInv'
<1> USE DEF ReplacementInv
<1>1. /\ UNCHANGED <<ch, intent, box, vols, helper, env, job, asks, faults, wanted>> /\ job = Idle
      /\ rec.phase = "awaiting_login" /\ ch.id \in DOMAIN box /\ Runs(ch.id)
  BY DEF ProbeConfirms, docker, counters
<1>2. /\ rec' \in Records /\ rec'.phase = "committed" /\ rec'.op = rec.op /\ rec'.new = rec.new
           /\ rec'.old = rec.old
      /\ rec'.initial = rec.initial /\ rec'.src = rec.src /\ rec'.oldId = rec.oldId
           /\ rec'.oldVol = rec.oldVol
      /\ rec'.oldRun = rec.oldRun /\ rec'.oldAlways = rec.oldAlways /\ rec'.start = rec.start
  BY DEF ProbeConfirms, RowsTyped, Records, Phases
<1>3. Candidate(ch.id) /\ box[ch.id].name = Main
  BY <1>1 DEF RowFits, RunsFit
<1>4. JobTyped' /\ Unset \notin DOMAIN box
  BY <1>1 DEF JobTyped, BoxesTyped, Ids
<1> USE <1>1, <1>2, <1>3, <1>4 DEF Idle
<1>5. RowsTyped'
  BY DEF RowsTyped
<1>6. BoxesTyped' /\ VolumesTyped'
  BY DEF BoxesTyped, VolumesTyped
<1>7. PhaseFits' /\ KindFits' /\ RecordFits' /\ AllOrNothing'
  BY DEF PhaseFits, KindFits, Idle, RecordFits, AllOrNothing
<1>8. BoxesFit'
  BY DEF BoxesFit
<1>9. RowFits'
  BY DEF RowFits
<1>10. RunsFit' /\ WorkFits'
  BY DEF PhaseFits, KindFits, Idle, RunsFit, WorkFits, OneClientRuns
<1>11. HelperFits'
  BY DEF HelperFits
<1>12. VolumesFit'
  BY DEF VolumesFit, Labelled
<1>13. WishFits'
  BY DEF WishFits
<1> QED
  BY <1>5, <1>6, <1>7, <1>8, <1>9, <1>10, <1>11, <1>12, <1>13

\* A later probe takes away what is left over.
LEMMA CleanUpKeeps ==
  ASSUME ReplacementInv, CleanUp
  PROVE  ReplacementInv'
<1> USE DEF ReplacementInv
<1>1. UNCHANGED <<ch, rec, intent, box, vols, helper, env, asks, faults, wanted>> /\ job = Idle
        /\ rec.phase \in Terminal
  BY DEF CleanUp, docker, counters
<1>2. "cleanup" \in Kinds /\ "c.begin" \in PCs /\ Begin("cleanup", "c.begin")
  BY DEF Kinds, PCs, CleanUp
<1>3. job' \in Jobs /\ job'.kind = "cleanup" /\ job'.part = "none" /\ job'.pc = "c.begin"
        /\ ch.exists
  BY <1>1, <1>2, BeginGoes DEF KindFits
<1>4. JobTyped'
  BY <1>1, <1>3 DEF JobTyped
<1> USE <1>1, <1>3, <1>4 DEF Idle
<1>5. BoxesTyped' /\ RowsTyped' /\ VolumesTyped'
  BY DEF BoxesTyped, RowsTyped, VolumesTyped, Records
<1>6. PhaseFits' /\ KindFits' /\ RecordFits' /\ AllOrNothing'
  BY DEF PhaseFits, KindFits, Idle, RecordFits, AllOrNothing
<1>7. BoxesFit' /\ RowFits'
  BY DEF PhaseFits, BoxesFit, RowFits, Free, Named
<1>8. RunsFit' /\ WorkFits'
  BY DEF PhaseFits, KindFits, Idle, RunsFit, WorkFits, OneClientRuns
<1>9. HelperFits' /\ VolumesFit' /\ WishFits'
  BY DEF PhaseFits, KindFits, Idle, HelperFits, VolumesFit, WishFits, Labelled
<1> QED
  BY <1>5, <1>6, <1>7, <1>8, <1>9

\* A crash takes the handler, and the runtime has to be started again.
LEMMA CrashKeeps ==
  ASSUME ReplacementInv, Crash
  PROVE  ReplacementInv'
<1> USE DEF ReplacementInv
<1>1. UNCHANGED <<ch, rec, intent, box, vols, helper, asks, wanted>> /\ job' = Idle
        /\ env' = "off"
  BY DEF Crash, docker
<1>2. faults' \in 0 .. MaxFaults
  BY DEF Crash, Fault, JobTyped
<1>3. JobTyped'
  BY <1>1, <1>2, IdleIsAJob DEF JobTyped
<1> USE <1>1, <1>3 DEF Idle
<1>4. BoxesTyped' /\ RowsTyped' /\ VolumesTyped'
  BY DEF BoxesTyped, RowsTyped, VolumesTyped, Records
<1>5. PhaseFits' /\ KindFits' /\ RecordFits' /\ AllOrNothing'
  BY DEF PhaseFits, KindFits, Idle, RecordFits, AllOrNothing
<1>6. BoxesFit' /\ RowFits'
  BY DEF PhaseFits, BoxesFit, RowFits, Free, Named
<1>7. RunsFit' /\ WorkFits'
  BY DEF PhaseFits, KindFits, Idle, RunsFit, WorkFits, OneClientRuns
<1>8. HelperFits' /\ VolumesFit' /\ WishFits'
  BY DEF PhaseFits, KindFits, Idle, HelperFits, VolumesFit, WishFits, Labelled
<1> QED
  BY <1>4, <1>5, <1>6, <1>7, <1>8

\* Any call may fail.
LEMMA CallFailsKeeps ==
  ASSUME ReplacementInv, CallFails
  PROVE  ReplacementInv'
<1> USE DEF ReplacementInv
<1>1. UNCHANGED <<ch, rec, intent, box, vols, helper, env, asks, wanted>>
        /\ job' = [job EXCEPT !.pc = "failed"] /\ job.pc # "idle"
  BY DEF CallFails, docker
<1>2. faults' \in 0 .. MaxFaults
  BY DEF CallFails, Fault, JobTyped
<1>3. JobTyped' /\ SameJob /\ job'.cur = job.cur /\ job'.pc = "failed"
  BY <1>1, <1>2, FailedIsAPlace DEF JobTyped, Jobs
<1>4. UNCHANGED <<ch, rec, intent, box, vols, helper, wanted>> /\ job.pc # "idle"
  BY <1>1
<1> USE <1>3, <1>4
<1>5. BoxesTyped' /\ RowsTyped' /\ VolumesTyped'
  BY DEF BoxesTyped, RowsTyped, VolumesTyped, Records
<1>6. PhaseFits' /\ KindFits' /\ RecordFits' /\ AllOrNothing'
  BY DEF PhaseFits, KindFits, Idle, RecordFits, AllOrNothing
<1>7. BoxesFit' /\ RowFits'
  BY DEF PhaseFits, BoxesFit, RowFits, Free, Named
<1>8. RunsFit' /\ WorkFits'
  BY DEF PhaseFits, KindFits, Idle, RunsFit, WorkFits, OneClientRuns
<1>9. HelperFits' /\ VolumesFit' /\ WishFits'
  BY DEF PhaseFits, KindFits, Idle, HelperFits, VolumesFit, WishFits, Labelled
<1> QED
  BY <1>5, <1>6, <1>7, <1>8, <1>9

\* A container that somebody removed is gone.
LEMMA BoxLostKeeps ==
  ASSUME ReplacementInv, BoxLost
  PROVE  ReplacementInv'
<1> USE DEF ReplacementInv
<1>1. /\ UNCHANGED <<ch, rec, intent, vols, helper, env, job, asks, wanted>> /\ RemoveAll({ch.id})
      /\ job = Idle /\ rec.phase \in Quiet
  BY DEF BoxLost
<1>2. faults' \in 0 .. MaxFaults
  BY DEF BoxLost, Fault, JobTyped
<1>3. DOMAIN box' \subseteq DOMAIN box /\ BoxesTyped' /\ SameMakes(DOMAIN box')
      /\ SameNames(DOMAIN box') /\ SameStates(DOMAIN box') /\ SamePolicies(DOMAIN box')
  BY <1>1, RemoveMoves DEF BoxesTyped, Boxes
<1>4. JobTyped'
  BY <1>1, <1>2 DEF JobTyped
<1>5. UNCHANGED <<ch, rec, intent, vols, helper, job, wanted>> /\ job = Idle
        /\ rec.phase \in Quiet
  BY <1>1
<1> USE <1>3, <1>4, <1>5 DEF Idle
<1>6. RowsTyped' /\ VolumesTyped'
  BY DEF RowsTyped, VolumesTyped, Records
<1>7. PhaseFits' /\ KindFits' /\ RecordFits' /\ AllOrNothing'
  BY DEF PhaseFits, KindFits, Idle, RecordFits, AllOrNothing
<1>8. BoxesFit'
  BY BoxesRemain
<1>9. RowFits'
  BY RowRemains
<1>10. RunsFit'
  BY DEF RunsFit, OneClientRuns
<1>11. WorkFits'
  BY DEF WorkFits, KindFits
<1>12. HelperFits' /\ VolumesFit' /\ WishFits'
  BY DEF PhaseFits, KindFits, Idle, HelperFits, VolumesFit, WishFits, Labelled
<1> QED
  BY <1>6, <1>7, <1>8, <1>9, <1>10, <1>11, <1>12

\* After the machine stopped only the containers that come back by themselves run.
LEMMA MachineRestartsKeeps ==
  ASSUME ReplacementInv, MachineRestarts
  PROVE  ReplacementInv'
<1> USE DEF ReplacementInv
<1>1. /\ UNCHANGED <<ch, rec, intent, vols, env, job, asks, wanted>>
      /\ box' = [i \in DOMAIN box |-> IF Runs(i)
           /\ ~box[i].always THEN [box[i] EXCEPT !.state = "exited"] ELSE box[i]]
      /\ helper' = [helper EXCEPT !.state = IF @ = "running" THEN "failed" ELSE @]
  BY DEF MachineRestarts
<1>2. faults' \in 0 .. MaxFaults
  BY DEF MachineRestarts, Fault, JobTyped
<1>3. /\ DOMAIN box' = DOMAIN box /\ BoxesTyped' /\ SameMakes(DOMAIN box) /\ SameNames(DOMAIN box)
      /\ SamePolicies(DOMAIN box)
      /\ \A i \in DOMAIN box : box'[i].state = "running" => box[i].state = "running"
      /\ \A i \in DOMAIN box : box[i].state = "created" => box'[i].state = "created"
  BY <1>1 DEF BoxesTyped, Boxes
<1>4. helper.state \in {"none", "created", "running", "done", "failed"}
  BY DEF VolumesTyped
<1>5. /\ VolumesTyped' /\ helper'.op = helper.op /\ helper'.src = helper.src
      /\ \/ helper'.state = helper.state
         \/ helper.state = "running" /\ helper'.state = "failed"
  BY <1>1, <1>4 DEF VolumesTyped
<1>6. JobTyped'
  BY <1>1, <1>2 DEF JobTyped
<1>7. UNCHANGED <<ch, rec, intent, vols, job, wanted>>
  BY <1>1
<1> USE <1>3, <1>5, <1>6, <1>7
<1>8. RowsTyped'
  BY DEF RowsTyped
<1>9. PhaseFits' /\ KindFits' /\ RecordFits' /\ AllOrNothing'
  BY DEF PhaseFits, KindFits, Idle, RecordFits, AllOrNothing
<1>10. BoxesFit'
  BY BoxesRemain
<1>11. RowFits'
  BY RowRemains
<1>12. RunsFit' /\ WorkFits'
  BY DEF PhaseFits, KindFits, Idle, RunsFit, WorkFits, OneClientRuns
<1>13. HelperFits' /\ VolumesFit' /\ WishFits'
  BY DEF PhaseFits, KindFits, Idle, HelperFits, VolumesFit, WishFits, Labelled
<1> QED
  BY <1>8, <1>9, <1>10, <1>11, <1>12, <1>13

\* A client writes to its own volume.
LEMMA ClientWritesKeeps ==
  ASSUME ReplacementInv, ClientWrites
  PROVE  ReplacementInv'
<1> USE DEF ReplacementInv
<1>1. UNCHANGED <<ch, rec, intent, box, helper, env, job, asks, faults, wanted>>
  BY DEF ClientWrites, counters
<1>2. PICK i \in DOMAIN box : /\ Runs(i) /\ vols[box[i].vol] \in Empty .. MaxData - 1
                              /\ vols' = [vols EXCEPT ![box[i].vol] = @ + 1]
  BY DEF ClientWrites
<1>3. box[i].vol \in 0 .. MaxOp /\ 0 \in 0 .. MaxOp /\ ch.vol \in 0 .. MaxOp
        /\ rec.op \in 0 .. MaxOp /\ rec.oldVol \in 0 .. MaxOp
  BY DEF BoxesTyped, Boxes, RowsTyped, Records
<1>4. vols[box[i].vol] + 1 \in Gone .. MaxData /\ vols[box[i].vol] >= Empty
  BY <1>2, <1>3 DEF Gone, Empty
<1>5. /\ vols' \in [0 .. MaxOp -> Gone .. MaxData]
      /\ \A o \in 0 .. MaxOp : IF o = box[i].vol THEN vols[o] >= Empty
           /\ vols'[o] = vols[o] + 1 ELSE vols'[o] = vols[o]
  BY <1>2, <1>3, <1>4 DEF VolumesTyped
<1>6. JobTyped' /\ i \in DOMAIN box /\ Runs(i)
  BY <1>1, <1>2 DEF JobTyped
<1>7. job.pc \in {"r.create", "r.prepared", "r.switching", "r.policy", "r.halt", "r.copy"}
        => box[i].vol # rec.op
  BY <1>6 DEF PhaseFits, BoxesFit, RunsFit, RecordFits
<1>8. job.pc \in Copying => box[i].vol # rec.op /\ box[i].vol # rec.oldVol
  BY <1>6 DEF PhaseFits, BoxesFit, RunsFit, RecordFits
<1>9. job.pc \in Copied \/ rec.phase = "validating" => box[i].vol # rec.oldVol
  BY <1>6 DEF PhaseFits, BoxesFit, RunsFit, RecordFits
<1>10. \A o \in 0 .. MaxOp : vols[o] \in Int
  BY DEF VolumesTyped, Gone
<1>11. \A o \in 0 .. MaxOp :
         /\ (vols'[o] = Gone) = (vols[o] = Gone)
         /\ vols[o] # Torn => vols'[o] # Torn
         /\ vols[o] >= Empty => vols'[o] >= Empty /\ vols'[o] >= vols[o]
         /\ o # box[i].vol => vols'[o] = vols[o]
  BY <1>5, <1>10 DEF Gone, Torn, Empty
<1>12. Labelled' = Labelled
  BY <1>11 DEF Labelled, Ops
<1>13. vols' \in [0 .. MaxOp -> Gone .. MaxData]
  BY <1>5
<1>14. rec.phase = "queued" => rec.op \in Ops
  BY DEF RecordFits
<1> USE <1>1, <1>3, <1>6, <1>7, <1>8, <1>9, <1>10, <1>11, <1>12, <1>13, <1>14
<1>15. RowsTyped' /\ BoxesTyped'
  BY DEF RowsTyped, BoxesTyped
<1>16. VolumesTyped'
  BY DEF VolumesTyped
<1>17. PhaseFits' /\ KindFits' /\ RecordFits' /\ AllOrNothing'
  BY DEF PhaseFits, KindFits, Idle, RecordFits, AllOrNothing
<1>18. BoxesFit' /\ RowFits'
  BY SMTT(30) DEF PhaseFits, BoxesFit, RowFits, Free, Named
<1>19. RunsFit'
  BY SMTT(30) DEF PhaseFits, KindFits, Idle, RunsFit, WorkFits, OneClientRuns
<1>20. WorkFits'
  BY SMTT(30) DEF PhaseFits, KindFits, Idle, RunsFit, WorkFits, OneClientRuns
<1>21. HelperFits'
  BY DEF PhaseFits, HelperFits
<1>22. /\ vols[rec.op] \in Int /\ vols[rec.oldVol] \in Int /\ vols'[rec.op] \in Int
       /\ vols[rec.op] >= Empty => vols'[rec.op] >= Empty /\ vols'[rec.op] >= vols[rec.op]
  BY DEF Gone
<1>23. job.pc \in Copied \/ rec.phase = "validating"
         => vols'[rec.op] >= Empty /\ vols'[rec.op] >= vols'[rec.oldVol]
  BY <1>22 DEF VolumesFit
<1>24. job.pc \in {"r.create", "r.prepared", "r.switching", "r.policy", "r.halt", "r.copy"}
         => vols'[rec.op] = Empty
  BY DEF VolumesFit
<1>25. /\ vols'[0] # Torn
       /\ rec.phase \in Quiet => vols'[ch.vol] # Torn
       /\ rec.phase = "queued" => vols'[rec.op] = Gone
  BY DEF VolumesFit
<1>26. /\ rec.phase \in Open /\ ~rec.src => vols'[rec.oldVol] = Gone
       /\ rec.phase \in Begun \cup {"rolled_back"} /\ rec.src => vols'[rec.oldVol] >= Empty
       /\ rec.phase \in {"awaiting_login", "committed"} => vols'[rec.op] >= Empty
  BY DEF VolumesFit
<1>27. VolumesFit'
  BY <1>23, <1>24, <1>25, <1>26 DEF VolumesFit
<1>28. WishFits'
  BY DEF WishFits
<1> QED
  BY <1>15, <1>16, <1>17, <1>18, <1>19, <1>20, <1>21, <1>22, <1>23, <1>24, <1>25, <1>26, <1>27,
      <1>28

\* The copy is made whole, or torn when somebody wrote meanwhile.
LEMMA HelperCopiesKeeps ==
  ASSUME ReplacementInv, HelperCopies
  PROVE  ReplacementInv'
<1> USE DEF ReplacementInv
<1>1. UNCHANGED <<ch, rec, intent, box, env, job, asks, faults, wanted>>
  BY DEF HelperCopies, counters
<1>2. /\ helper.state = "running" /\ helper' = [helper EXCEPT !.state = "done"]
      /\ helper.op = rec.op /\ rec.op \in Ops /\ rec.op # rec.oldVol /\ rec.op # 0
           /\ rec.op \in 0 .. MaxOp /\ helper.src \in 0 .. MaxOp
      /\ 0 \in 0 .. MaxOp /\ rec.oldVol \in 0 .. MaxOp /\ ch.vol \in 0 .. MaxOp
      /\ rec.phase \in {"switching", "rolling_back", "deleting"}
  BY DEF HelperCopies, HelperFits, RecordFits, VolumesTyped, Ops, RowsTyped, Records
<1>3. vols' = [vols EXCEPT ![rec.op] = IF (\E i \in Users(helper.src) \cup Users(rec.op) : Runs(i)) THEN Torn ELSE vols[helper.src]]
  BY <1>2 DEF HelperCopies
<1>4. /\ (IF (\E i \in Users(helper.src) \cup Users(rec.op) : Runs(i)) THEN Torn ELSE vols[helper.src]) \in Gone .. MaxData
      /\ vols \in [0 .. MaxOp -> Gone .. MaxData]
  BY <1>2 DEF VolumesTyped, Gone, Torn
<1>5. /\ vols' \in [0 .. MaxOp -> Gone .. MaxData] /\ \A o \in 0 .. MaxOp : o # rec.op
           => vols'[o] = vols[o]
      /\ vols'[rec.op] = IF (\E i \in Users(helper.src) \cup Users(rec.op) : Runs(i)) THEN Torn ELSE vols[helper.src]
  BY <1>2, <1>3, <1>4
<1>6. job.pc = "r.wait"
        => helper.src = rec.oldVol /\ ~(\E i \in Users(helper.src) \cup Users(rec.op) : Runs(i))
  BY <1>2 DEF Users, PhaseFits, BoxesFit, RunsFit, HelperFits, RecordFits
<1>7. job.pc = "r.wait" => vols'[rec.op] = vols[rec.oldVol]
  BY <1>5, <1>6
<1>8. vols' \in [0 .. MaxOp -> Gone .. MaxData] /\ \A o \in 0 .. MaxOp : o # rec.op
        => vols'[o] = vols[o]
  BY <1>5
<1>9. JobTyped' /\ helper'.op = helper.op /\ helper'.src = helper.src /\ helper'.state = "done"
  BY <1>1, <1>2 DEF JobTyped, VolumesTyped
<1>10. Labelled' \subseteq Labelled \cup {rec.op}
  BY <1>8 DEF Labelled, Ops
<1>11. VolumesTyped'
  BY <1>2, <1>8 DEF VolumesTyped
<1>12. /\ helper.state = "running" /\ helper.op = rec.op /\ rec.op # rec.oldVol /\ rec.op # 0
            /\ rec.op \in 0 .. MaxOp
       /\ 0 \in 0 .. MaxOp /\ rec.oldVol \in 0 .. MaxOp /\ ch.vol \in 0 .. MaxOp
       /\ rec.phase \in {"switching", "rolling_back", "deleting"}
  BY <1>2
<1>13. /\ job.pc \notin {"r.create", "r.prepared", "r.switching", "r.policy", "r.halt", "r.copy", "r.run"}
       /\ job.pc \notin Copied \cup {"c.finish", "d.deleted"} /\ ch.exists
  BY <1>2 DEF PhaseFits, HelperFits, KindFits
<1> USE <1>1, <1>7, <1>8, <1>9, <1>10, <1>11, <1>12, <1>13
<1>14. RowsTyped' /\ BoxesTyped'
  BY DEF RowsTyped, BoxesTyped
<1>15. PhaseFits' /\ KindFits' /\ RecordFits' /\ AllOrNothing'
  BY DEF PhaseFits, KindFits, Idle, RecordFits, AllOrNothing
<1>16. BoxesFit' /\ RowFits'
  BY DEF PhaseFits, BoxesFit, RowFits, Free, Named
<1>17. RunsFit' /\ WorkFits'
  BY DEF PhaseFits, KindFits, Idle, RunsFit, WorkFits, OneClientRuns
<1>18. HelperFits'
  BY DEF HelperFits
<1>19. VolumesFit'
  BY DEF VolumesFit
<1>20. WishFits'
  BY DEF WishFits
<1> QED
  BY <1>14, <1>15, <1>16, <1>17, <1>18, <1>19, <1>20

\* A start goes on with what waits, or replaces the client by one like it.
LEMMA ResumeKeeps ==
  ASSUME ReplacementInv, Expected, Resume
  PROVE  ReplacementInv'
<1> USE DEF ReplacementInv
<1>1. /\ job.pc = "t.resume" /\ job.kind = "start" /\ job.part = "none" /\ ~intent
      /\ rec.phase \in {"none", "queued", "awaiting_login"} \cup Terminal
      /\ UNCHANGED <<rows, box, vols, helper, asks, faults, env, wanted>>
      /\ {"replace", "c.begin", "t.create", "w.begin", "t.note", "t.remove"} \subseteq PCs
      /\ ch.settings \in Versions
  BY DEF Resume, Proceeds, counters, docker, KindFits, Expected, WaitExpects, PCs, RowsTyped
<1>2. \/ rec.phase = "none"
           /\ job' = [job EXCEPT !.want = ch.settings, !.force = TRUE, !.mark = TRUE, !.pc = "replace"]
      \/ rec.phase \in Terminal
           /\ job' = [job EXCEPT !.want = ch.settings, !.force = TRUE, !.mark = TRUE, !.pc = "c.begin"]
      \/ rec.phase = "queued"
           /\ job' = [job EXCEPT !.pc = "replace", !.want = rec.new, !.force = TRUE]
      \/ rec.phase = "awaiting_login" /\ Owned(FALSE, TRUE) = {}
           /\ job' = [job EXCEPT !.pc = "t.create"]
      \/ rec.phase = "awaiting_login" /\ job' = [job EXCEPT !.pc = "w.begin"]
      \/ rec.phase = "awaiting_login" /\ Owned(FALSE, TRUE) # {}
           /\ job' = [job EXCEPT !.pc = "t.note", !.cur = The(Owned(FALSE, TRUE))]
      \/ rec.phase = "awaiting_login" /\ job' = [job EXCEPT !.pc = "t.remove"]
  BY <1>1 DEF Resume, Proceeds
<1>3. rec.phase = "queued" => rec.new \in Versions
  BY DEF RecordFits
<1>4. Owned(FALSE, TRUE) # {}
        => The(Owned(FALSE, TRUE)) \in DOMAIN box /\ Candidate(The(Owned(FALSE, TRUE)))
          /\ The(Owned(FALSE, TRUE)) \in Ids
  BY TheIsOne DEF Owned, OwnedBy, BoxesTyped
<1>5. rec.phase = "awaiting_login" /\ Owned(FALSE, TRUE) = {}
        => \A i \in DOMAIN box : ~Candidate(i)
  BY <1>1 DEF BoxesFit, Owned, OwnedBy
<1>6. rec.phase = "awaiting_login" => job' \in Jobs
  BY <1>1, <1>2, <1>4 DEF JobTyped, Jobs
<1>7. rec.phase # "awaiting_login" => job' \in Jobs
  BY ZenonT(40), <1>1, <1>2, <1>3 DEF JobTyped, Jobs
<1>8. /\ job'.kind = "start" /\ job'.part = "none"
      /\ \/ rec.phase \in Quiet /\ job'.pc = "replace" /\ job'.want \in Versions
         \/ rec.phase \in Terminal /\ job'.pc = "c.begin" /\ job'.want \in Versions
         \/ /\ rec.phase = "awaiting_login" /\ job'.pc = "t.create"
                 /\ \A i \in DOMAIN box : ~Candidate(i)
         \/ rec.phase = "awaiting_login" /\ job'.pc \in {"w.begin", "t.remove"}
         \/ rec.phase = "awaiting_login" /\ job'.pc = "t.note" /\ job'.cur \in DOMAIN box
              /\ Candidate(job'.cur)
  BY <1>1, <1>2, <1>3, <1>4, <1>5 DEF JobTyped, Jobs
<1>9. JobTyped'
  BY <1>1, <1>6, <1>7 DEF JobTyped
<1>10. UNCHANGED <<rows, box, vols, helper, env, wanted>> /\ ~intent /\ job.kind = "start"
         /\ job.pc = "t.resume"
  BY <1>1
<1> USE <1>8, <1>9, <1>10
<1>11. BoxesTyped' /\ RowsTyped' /\ VolumesTyped'
  BY DEF BoxesTyped, RowsTyped, VolumesTyped, Records
<1>12. PhaseFits' /\ KindFits' /\ RecordFits' /\ AllOrNothing'
  BY DEF PhaseFits, KindFits, Idle, RecordFits, AllOrNothing
<1>13. BoxesFit' /\ RowFits'
  BY DEF PhaseFits, BoxesFit, RowFits, Free, Named
<1>14. RunsFit' /\ WorkFits'
  BY DEF PhaseFits, KindFits, Idle, RunsFit, WorkFits, OneClientRuns
<1>15. HelperFits' /\ VolumesFit' /\ WishFits'
  BY DEF PhaseFits, KindFits, Idle, HelperFits, VolumesFit, WishFits, Labelled
<1> QED
  BY <1>11, <1>12, <1>13, <1>14, <1>15

\* And nothing may happen.
LEMMA NothingKeeps ==
  ASSUME ReplacementInv, UNCHANGED replacementVars
  PROVE  ReplacementInv'
<1> USE DEF ReplacementInv
<1>1. UNCHANGED <<ch, rec, intent, box, vols, helper, env, job, asks, faults, wanted>>
  BY DEF replacementVars, docker, counters
<1> USE <1>1
<1>2. RowsTyped' /\ BoxesTyped'
  BY DEF RowsTyped, BoxesTyped
<1>3. VolumesTyped' /\ JobTyped'
  BY DEF VolumesTyped, JobTyped
<1>4. PhaseFits' /\ KindFits' /\ RecordFits' /\ AllOrNothing'
  BY DEF PhaseFits, KindFits, Idle, RecordFits, AllOrNothing
<1>5. BoxesFit' /\ RowFits'
  BY DEF PhaseFits, BoxesFit, RowFits, Free, Named
<1>6. RunsFit' /\ WorkFits'
  BY DEF PhaseFits, KindFits, Idle, RunsFit, WorkFits, OneClientRuns
<1>7. HelperFits' /\ VolumesFit' /\ WishFits'
  BY DEF PhaseFits, KindFits, Idle, HelperFits, VolumesFit, WishFits, Labelled
<1> QED
  BY <1>2, <1>3, <1>4, <1>5, <1>6, <1>7

-----------------------------------------------------------------------------
\* The invariant holds

\* A channel that was never started, or one whose container runs or is stopped.
LEMMA InitFits ==
  ASSUME ReplacementInit
  PROVE  ReplacementInv
<1>1. /\ rec = NoRec /\ intent = FALSE /\ helper = NoHelper /\ env = "off" /\ job = Idle
           /\ asks = 0 /\ faults = 0
  BY DEF ReplacementInit
<1>2. PICK v \in Versions, state \in {"absent", "running", "exited"} :
        /\ ch = [exists |-> TRUE, settings |-> v, vol |-> 0, id |-> IF state = "absent" THEN Unset ELSE 1,
                 stopped |-> state # "running"]
        /\ box = [i \in IF state = "absent" THEN {} ELSE {1} |->
                    [name |-> Main, vol |-> 0, op |-> 0, restore |-> FALSE, state |-> state, always |-> TRUE, cfg |-> v]]
        /\ vols = [o \in 0 .. MaxOp |-> IF o = 0 /\ state # "absent" THEN 1 ELSE Gone]
        /\ wanted = (state = "running")
  BY DEF ReplacementInit
<1> DEFINE only == IF state = "absent" THEN {} ELSE {1}
<1>3. /\ ch.exists /\ ch.settings = v /\ ch.vol = 0
           /\ ch.id = (IF state = "absent" THEN Unset ELSE 1)
      /\ wanted \in BOOLEAN /\ (state = "running" => wanted) /\ (state # "running" => ch.stopped)
  BY <1>2
<1>4. 1 \in Ids /\ Unset \notin Ids /\ Main \in Names /\ 0 \in 0 .. MaxOp
  BY DEF Ids, Names
<1>5. /\ DOMAIN box = only
      /\ \A i \in DOMAIN box :
           /\ box[i] = [name |-> Main, vol |-> 0, op |-> 0, restore |-> FALSE, state |-> state, always |-> TRUE, cfg |-> v]
           /\ state \in {"created", "running", "exited"}
  BY <1>2
<1>6. \A i \in DOMAIN box :
        /\ i = 1 /\ i = ch.id /\ box[i].name = Main /\ box[i].vol = 0 /\ box[i].op = 0
             /\ ~box[i].restore
        /\ box[i].state = state /\ box[i].always /\ box[i].cfg = v
  BY <1>3, <1>5
<1>7. /\ rec.phase = "none" /\ helper.state = "none" /\ ~intent
      /\ rec.op = 0 /\ job.pc = "idle" /\ job.part = "none" /\ job.kind = "none"
      /\ \A i, j \in DOMAIN box : i = j
  BY <1>1, <1>6 DEF NoRec, NoHelper, Idle
<1>8. RowsTyped
  <2>1. (state = "running") \in BOOLEAN /\ (state # "running") \in BOOLEAN
    /\ (IF state = "absent" THEN Unset ELSE 1) \in Ids \cup {Unset}
    BY <1>4
  <2> QED
    BY <1>1, <1>2, <1>4, <2>1, NoRecIsARecord DEF RowsTyped
<1>9. BoxesTyped
  BY <1>4, <1>5, <1>2 DEF BoxesTyped, Boxes
<1>10. VolumesTyped
  <2>1. \A o \in 0 .. MaxOp : (IF o = 0 /\ state # "absent" THEN 1 ELSE Gone) \in Gone .. MaxData
    BY DEF Gone
  <2>2. vols \in [0 .. MaxOp -> Gone .. MaxData]
    BY <1>2, <2>1
  <2>3. helper \in [op : 0 .. MaxOp, src : 0 .. MaxOp, state : {"none", "created", "running", "done", "failed"}]
    BY <1>1, <1>4 DEF NoHelper
  <2> QED
    BY <2>2, <2>3 DEF VolumesTyped
<1>11. JobTyped
  BY <1>1, IdleIsAJob DEF JobTyped
<1>12. vols[0] # Torn /\ Labelled = {}
  BY <1>2, <1>4 DEF Labelled, Ops, Torn, Gone
<1> USE <1>3, <1>4, <1>6, <1>7
<1>13. PhaseFits /\ KindFits /\ RecordFits /\ AllOrNothing
  BY <1>1 DEF PhaseFits, KindFits, RecordFits, AllOrNothing, Idle
<1>14. BoxesFit
  BY DEF BoxesFit
<1>15. RowFits
  BY DEF RowFits
<1>16. RunsFit /\ WorkFits
  BY <1>1 DEF RunsFit, WorkFits, OneClientRuns, Idle
<1>17. HelperFits /\ VolumesFit /\ WishFits
  BY <1>1, <1>12 DEF HelperFits, VolumesFit, WishFits, Idle
<1> QED
  BY <1>8, <1>9, <1>10, <1>11, <1>13, <1>14, <1>15, <1>16, <1>17 DEF ReplacementInv

\* A step of the replacement itself.
LEMMA ReplaceStepKeeps ==
  ASSUME ReplacementInv, Expected, ReplaceStep
  PROVE  ReplacementInv'
BY ReplaceKeeps, BeginRecordKeeps, EnsureVolumeKeeps, CreateCandidateKeeps, NotePreparedKeeps,
   NoteSwitchingKeeps, HoldOldKeeps, StopOldKeeps, CreateHelperKeeps, RunHelperKeeps,
   EndHelperKeeps,
   RecheckSourceKeeps, BackUpOldKeeps, NameCandidateKeeps, NoteValidatingKeeps,
   StartCandidateKeeps,
   ApplyKeeps, KeepRunningKeeps DEF ReplaceStep

\* Of the recovery.
LEMMA RecoverStepKeeps ==
  ASSUME ReplacementInv, Expected, RecoverStep
  PROVE  ReplacementInv'
BY BeginRecoveryKeeps, RecoveryDropsHelperKeeps, HoldCandidateKeeps, StopCandidateKeeps,
   UnnameCandidateKeeps, ChooseRestoreKeeps, DiscardCandidateKeeps, RestoreAbsentKeeps,
   HoldOldAgainKeeps, StopOldAgainKeeps, NameOldKeeps, RemovePartialKeeps, CreateRestoredKeeps,
   NameRestoredKeeps, StartRestoredKeeps, RestoreKeeps, PolicyRestoredKeeps DEF RecoverStep

\* Of the cleanup.
LEMMA CleanupStepKeeps ==
  ASSUME ReplacementInv, Expected, CleanupStep
  PROVE  ReplacementInv'
BY BeginCleanupKeeps, PolicyCurrentKeeps, RemoveOldKeeps, RemoveCandidateKeeps,
   RemoveRestoredKeeps,
   RemoveVolumeKeeps, FinishKeeps DEF CleanupStep

\* Of a stop.
LEMMA StopStepKeeps ==
  ASSUME ReplacementInv, Expected, StopStep
  PROVE  ReplacementInv'
BY BeforeStopKeeps, HoldStoppedKeeps, HaltStoppedKeeps, StopCurrentKeeps,
   ConfirmStopKeeps DEF StopStep

\* While the login is waited for.
LEMMA WaitStepKeeps ==
  ASSUME ReplacementInv, Expected, WaitStep
  PROVE  ReplacementInv'
BY ReconcileNameKeeps, NoteReconciledKeeps, RowReconciledKeeps, ReconcilePolicyKeeps, ResumeKeeps,
   RemoveExitedKeeps, CreateAgainKeeps, NoteRenewedKeeps, NameAgainKeeps, StartAgainKeeps,
   RowRenewedKeeps, PolicyAgainKeeps DEF WaitStep

\* Of a deletion.
LEMMA DeleteStepKeeps ==
  ASSUME ReplacementInv, Expected, DeleteStep
  PROVE  ReplacementInv'
BY BeginDeleteKeeps, CheckDoomedKeeps, RemoveBareKeeps, DeletionDropsHelperKeeps,
   RemoveDoomedKeeps,
   RemoveVolumesKeeps, DeletedKeeps DEF DeleteStep

\* Of any handler.
LEMMA HandlerKeeps ==
  ASSUME ReplacementInv, Handler
  PROVE  ReplacementInv'
BY FailedKeeps, RefusedKeeps, ReplaceStepKeeps, RecoverStepKeeps, CleanupStepKeeps, StopStepKeeps,
   WaitStepKeeps, DeleteStepKeeps, SettingsWaitKeeps, SettingsReplaceKeeps, SettingsAreSavedKeeps
   DEF Handler

\* What happens when no handler runs, or beside one.
LEMMA OthersKeep ==
  ASSUME ReplacementInv, Ask \/ Boot \/ ProbeConfirms \/ CleanUp \/ Environment \/ Rest
  PROVE  ReplacementInv'
BY UpdateAskedKeeps, StartAskedKeeps, StopAskedKeeps, RestoreAskedKeeps, DeleteAskedKeeps,
   StartRuntimeKeeps, RecoverStopsKeeps, RecoverAllKeeps, ProbeConfirmsKeeps, CleanUpKeeps,
   ClientWritesKeeps, HelperCopiesKeeps, CrashKeeps, MachineRestartsKeeps, BoxLostKeeps,
   CallFailsKeeps,
   NothingKeeps DEF Ask, Boot, Environment, Rest

\* Every step keeps the invariant.
LEMMA NextKeeps ==
  ASSUME ReplacementInv, [ReplacementNext]_replacementVars
  PROVE  ReplacementInv'
BY HandlerKeeps, OthersKeep, NothingKeeps DEF ReplacementNext


-----------------------------------------------------------------------------
\* What most steps leave alone

USE DEF Command, Then, Proceeds, Acknowledged, Ends, Returns, docker, counters

\* The steps that change the record of the replacement.
Recording ==
  \/ BeginRecord \/ NotePrepared \/ NoteSwitching \/ NoteValidating \/ Apply
  \/ (Expected /\ BeginRecovery) \/ RestoreAbsent \/ Restore \/ Finish \/ (Expected /\ BeforeStop)
  \/ NoteId("w.note", "w.resumed") \/ NoteId("t.note", "t.rename")
  \/ BeginDelete \/ Deleted \/ SaveSettings \/ RestoreAsked \/ ProbeConfirms

\* All others leave it alone.
LEMMA RecordStays ==
  ASSUME [ReplacementNext]_replacementVars
  PROVE  rec' = rec \/ Recording
<1> USE DEF Recording
<1>1. CASE ReplaceStep
  BY <1>1 DEF ReplaceStep, Replace, EnsureVolume, CreateCandidate, HoldOld, StopOld, CreateHelper,
      RunHelper, EndHelper, RecheckSource, BackUpOld, NameCandidate, StartCandidate, KeepRunning
<1>2. CASE Expected /\ RecoverStep
  BY <1>2 DEF RecoverStep, RemoveHelper, OnCandidate, HoldCandidate, StopCandidate,
     UnnameCandidate,
      ChooseRestore, DiscardCandidate, HoldOldAgain, StopOldAgain, NameOld, RemovePartial,
      CreateRestored,
      NameRestored, StartRestored, PolicyRestored
<1>3. CASE CleanupStep
  BY <1>3 DEF CleanupStep, BeginCleanup, PolicyCurrent, RemoveOld, RemoveCandidate,
     RemoveRestored, RemoveVolume
<1>4. CASE Expected /\ StopStep
  BY <1>4 DEF StopStep, HoldStopped, HaltStopped, StopCurrent, ConfirmStop
<1>5. CASE WaitStep
  BY <1>5 DEF WaitStep, ReconcileName, Resumed, ReconcilePolicy, Resume, RemoveExited,
     CreateAgain,
      NameAgain, StartAgain, PolicyAgain
<1>6. CASE DeleteStep
  BY <1>6 DEF DeleteStep, CheckDoomed, RemoveBare, RemoveHelper, RemoveDoomed, RemoveVolumes
<1>7. CASE Failed \/ Refused
  BY <1>7 DEF Failed, Refused
<1>8. CASE Ask \/ Boot \/ CleanUp
  BY <1>8 DEF Ask, UpdateAsked, StartAsked, StopAsked, DeleteAsked, Boot, StartRuntime,
     RecoverStops, RecoverAll, CleanUp
<1>9. CASE Environment \/ Rest \/ UNCHANGED replacementVars
  BY <1>9 DEF Environment, ClientWrites, HelperCopies, Crash, MachineRestarts, BoxLost,
     CallFails, Rest, replacementVars
<1> QED
  BY <1>1, <1>2, <1>3, <1>4, <1>5, <1>6, <1>7, <1>8, <1>9 DEF ReplacementNext, Handler

\* The steps that change a volume or select one.
Filling ==
  \/ EnsureVolume \/ RunHelper \/ Apply \/ RestoreAbsent \/ CreateRestored \/ Restore
       \/ RemoveVolume
  \/ Resumed("w.resumed", "w.always") \/ Resumed("t.resumed", "t.always")
  \/ RemoveVolumes \/ ClientWrites \/ HelperCopies

\* All others do neither.
LEMMA VolumesStay ==
  ASSUME RowsTyped, [ReplacementNext]_replacementVars
  PROVE  (vols' = vols /\ ch'.vol = ch.vol) \/ Filling
<1> USE DEF Filling, RowsTyped
<1>1. CASE ReplaceStep
  BY <1>1 DEF ReplaceStep, Replace, BeginRecord, CreateCandidate, NotePrepared, Advance,
     NoteSwitching,
      NoteValidating, HoldOld, StopOld, CreateHelper, EndHelper, RecheckSource, BackUpOld,
      NameCandidate,
      StartCandidate, KeepRunning
<1>2. CASE RecoverStep
  BY <1>2 DEF RecoverStep, BeginRecovery, RemoveHelper, OnCandidate, HoldCandidate, StopCandidate,
      UnnameCandidate, ChooseRestore, DiscardCandidate, HoldOldAgain, StopOldAgain, NameOld,
      RemovePartial,
      NameRestored, StartRestored, PolicyRestored
<1>3. CASE CleanupStep
  BY <1>3 DEF CleanupStep, BeginCleanup, PolicyCurrent, RemoveOld, RemoveCandidate,
     RemoveRestored, Finish
<1>4. CASE StopStep
  BY <1>4 DEF StopStep, BeforeStop, HoldStopped, HaltStopped, StopCurrent, ConfirmStop
<1>5. CASE WaitStep
  BY <1>5 DEF WaitStep, ReconcileName, NoteId, ReconcilePolicy, Resume, RemoveExited, CreateAgain,
      NameAgain, StartAgain, PolicyAgain
<1>6. CASE DeleteStep
  BY <1>6 DEF DeleteStep, BeginDelete, CheckDoomed, RemoveBare, RemoveHelper, RemoveDoomed,
     Deleted
<1>7. CASE Failed \/ Refused \/ SaveSettings
  BY <1>7 DEF Failed, Refused, SaveSettings
<1>8. CASE Ask \/ Boot \/ ProbeConfirms \/ CleanUp
  BY <1>8 DEF Ask, UpdateAsked, StartAsked, StopAsked, RestoreAsked, DeleteAsked, Boot,
     StartRuntime,
      RecoverStops, RecoverAll, ProbeConfirms, CleanUp
<1>9. CASE Environment \/ Rest \/ UNCHANGED replacementVars
  BY <1>9 DEF Environment, Crash, MachineRestarts, BoxLost, CallFails, Rest, replacementVars
<1> QED
  BY <1>1, <1>2, <1>3, <1>4, <1>5, <1>6, <1>7, <1>8, <1>9 DEF ReplacementNext, Handler

\* Steps that start no client and remove no container.
Calm == DOMAIN box \subseteq DOMAIN box' /\ ~Starts

\* Those on the containers that are there,
LEMMA CommandsAreCalm ==
  ASSUME BoxesTyped
  PROVE  /\ \A i, v : SetPolicy(i, v) => Calm
         /\ \A i : Halt(i) => Calm
         /\ \A i, n : Rename(i, n) => Calm
         /\ box' = box => Calm
<1> USE DEF Calm, Starts, Change, BoxesTyped, Boxes
<1>1. ASSUME NEW i, NEW v, SetPolicy(i, v) PROVE Calm
  BY <1>1 DEF SetPolicy
<1>2. ASSUME NEW i, Halt(i) PROVE Calm
  BY <1>2 DEF Halt
<1>3. ASSUME NEW i, NEW n, Rename(i, n) PROVE Calm
  BY <1>3 DEF Rename
<1>4. box' = box => Calm
  OBVIOUS
<1> QED
  BY <1>1, <1>2, <1>3, <1>4

\* those that make one,
LEMMA MakingIsCalm ==
  ASSUME BoxesTyped, NEW i, NEW b, NEW o, NEW v, NewBox(i, b, o, v)
  PROVE  Calm
BY DEF NewBox, Calm, Starts, BoxesTyped, Boxes

\* and those on the candidate.
LEMMA CandidateIsCalm ==
  ASSUME BoxesTyped, HoldCandidate \/ UnnameCandidate \/ StopCandidate
  PROVE  Calm
<1>1. CASE HoldCandidate
  BY <1>1 DEF HoldCandidate, OnCandidate, Calm, Starts, BoxesTyped, Boxes
<1>2. CASE UnnameCandidate
  BY <1>2 DEF UnnameCandidate, OnCandidate, Calm, Starts, BoxesTyped, Boxes
<1>3. CASE StopCandidate
  BY <1>3, CommandsAreCalm DEF StopCandidate
<1> QED
  BY <1>1, <1>2, <1>3

\* Removing starts nobody.
LEMMA RemovingStartsNobody ==
  ASSUME BoxesTyped, NEW S, RemoveAll(S)
  PROVE  ~Starts
BY DEF RemoveAll, Starts, BoxesTyped, Boxes

\* Nor does a restart of the machine.
LEMMA MachineIsCalm ==
  ASSUME BoxesTyped, MachineRestarts
  PROVE  Calm
BY DEF MachineRestarts, Calm, Starts, BoxesTyped, Boxes

\* The steps that start a client and those that remove a container.
Launching == StartCandidate \/ StartRestored \/ StartAgain
Removing ==
  \/ DiscardCandidate \/ RemovePartial \/ RemoveOld \/ RemoveCandidate \/ RemoveRestored
  \/ RemoveExited \/ RemoveBare \/ RemoveDoomed \/ BoxLost

\* All others are calm.
LEMMA BoxesStay ==
  ASSUME BoxesTyped, [ReplacementNext]_replacementVars
  PROVE  Calm \/ Launching \/ Removing
<1> USE CommandsAreCalm, MakingIsCalm, CandidateIsCalm, MachineIsCalm DEF Launching, Removing
<1>1. CASE ReplaceStep
  BY <1>1 DEF ReplaceStep, Replace, BeginRecord, EnsureVolume, CreateCandidate, NotePrepared,
     Advance,
      NoteSwitching, NoteValidating, HoldOld, StopOld, CreateHelper, RunHelper, EndHelper,
      RecheckSource,
      BackUpOld, NameCandidate, Apply, KeepRunning
<1>2. CASE RecoverStep
  BY <1>2 DEF RecoverStep, BeginRecovery, RemoveHelper, ChooseRestore, RestoreAbsent,
     HoldOldAgain,
      StopOldAgain, NameOld, CreateRestored, NameRestored, Restore, PolicyRestored
<1>3. CASE CleanupStep
  BY <1>3 DEF CleanupStep, BeginCleanup, PolicyCurrent, RemoveVolume, Finish
<1>4. CASE StopStep
  BY <1>4 DEF StopStep, BeforeStop, HoldStopped, HaltStopped, StopCurrent, ConfirmStop
<1>5. CASE WaitStep
  BY <1>5 DEF WaitStep, ReconcileName, NoteId, Resumed, ReconcilePolicy, Resume, CreateAgain,
      NameAgain, PolicyAgain
<1>6. CASE DeleteStep
  BY <1>6 DEF DeleteStep, BeginDelete, CheckDoomed, RemoveHelper, RemoveVolumes, Deleted
<1>7. CASE Failed \/ Refused \/ SaveSettings
  BY <1>7 DEF Failed, Refused, SaveSettings
<1>8. CASE Ask \/ Boot \/ ProbeConfirms \/ CleanUp
  BY <1>8 DEF Ask, UpdateAsked, StartAsked, StopAsked, RestoreAsked, DeleteAsked, Boot,
     StartRuntime,
      RecoverStops, RecoverAll, ProbeConfirms, CleanUp
<1>9. CASE Environment \/ Rest \/ UNCHANGED replacementVars
  BY <1>9 DEF Environment, ClientWrites, HelperCopies, Crash, CallFails, Rest, replacementVars
<1> QED
  BY <1>1, <1>2, <1>3, <1>4, <1>5, <1>6, <1>7, <1>8, <1>9 DEF ReplacementNext, Handler

-----------------------------------------------------------------------------
\* The way back

\* The old container is there from the beginning of a replacement to its end.
OldIsThere == rec.phase \in Begun /\ rec.oldId # Unset => Exists(rec.oldId)

\* A record that begins names a container that is there; no other step gives a
\* record that began another old container.
LEMMA OldIsNamedOnce ==
  ASSUME ReplacementInv, [ReplacementNext]_replacementVars, rec'.phase \in Begun,
         rec'.oldId # Unset
  PROVE  \/ rec.phase \in Begun /\ rec'.oldId = rec.oldId
         \/ Exists(rec'.oldId) /\ box' = box
<1> USE DEF ReplacementInv, RowsTyped, Records
<1>1. rec' = rec \/ Recording
  BY RecordStays
<1>2. CASE rec' = rec
  BY <1>2
<1>3. CASE BeginRecord
  BY <1>3 DEF BeginRecord
<1>4. CASE NotePrepared \/ NoteSwitching \/ NoteValidating
  <2>1. rec.phase \in {"preparing", "prepared", "switching"}
    BY <1>4 DEF NotePrepared, NoteSwitching, NoteValidating, Advance, PhaseFits
  <2>2. rec'.oldId = rec.oldId
    BY <1>4 DEF NotePrepared, NoteSwitching, NoteValidating, Advance
  <2> QED
    BY <2>1, <2>2
<1>5. CASE Apply
  BY <1>5 DEF Apply, PhaseFits
<1>6. CASE Expected /\ BeginRecovery
  BY <1>6 DEF BeginRecovery, Expected, RecoverExpects
<1>7. CASE RestoreAbsent \/ Restore \/ ProbeConfirms
  BY <1>7 DEF RestoreAbsent, Restore, ProbeConfirms
<1>8. CASE Expected /\ BeforeStop
  BY <1>8 DEF BeforeStop, Expected, StopExpects
<1>9. CASE NoteId("w.note", "w.resumed") \/ NoteId("t.note", "t.rename")
  BY <1>9 DEF NoteId, PhaseFits
<1>10. CASE BeginDelete
  BY <1>10 DEF BeginDelete
<1>11. CASE RestoreAsked
  BY <1>11 DEF RestoreAsked, NoRec
<1>12. CASE SaveSettings
  <2>1. \/ rec' \in {rec, NoRec}
        \/ rec' = [NoRec EXCEPT !.phase = "queued", !.op = FreshOp, !.new = job.want,
                               !.oldId = ch.id, !.oldVol = ch.vol]
    BY <1>12 DEF SaveSettings
  <2>2. CASE rec' \in {rec, NoRec}
    BY <2>2 DEF NoRec
  <2>3. ASSUME rec' = [NoRec EXCEPT !.phase = "queued", !.op = FreshOp, !.new = job.want,
                                    !.oldId = ch.id, !.oldVol = ch.vol]
        PROVE  rec'.phase = "queued"
    BY <2>3 DEF NoRec
  <2> QED
    BY <2>1, <2>2, <2>3
<1>13. CASE Finish \/ Deleted
  BY <1>13 DEF Finish, Deleted, NoRec
<1> QED
  BY <1>1, <1>2, <1>3, <1>4, <1>5, <1>6, <1>7, <1>8, <1>9, <1>10, <1>11, <1>12, <1>13
     DEF Recording

\* While a replacement is open nobody removes it.
LEMMA OldIsNotRemoved ==
  ASSUME ReplacementInv, [ReplacementNext]_replacementVars, rec.phase \in Begun, Exists(rec.oldId)
  PROVE  rec.oldId \in DOMAIN box'
<1> USE DEF ReplacementInv
<1>1. rec.oldId # Unset /\ box[rec.oldId].op # rec.op
  BY ReplacementAssumption DEF BoxesTyped, Ids, BoxesFit
<1>2. Calm \/ Launching \/ Removing
  BY BoxesStay
<1>3. CASE Calm
  BY <1>3 DEF Calm
<1>4. CASE Launching
  BY <1>4 DEF Launching, StartCandidate, StartRestored, StartAgain, Launch, Change
<1>5. CASE DiscardCandidate
  BY <1>1, <1>5 DEF DiscardCandidate, RecordFits
<1>6. CASE RemovePartial \/ RemoveExited
  BY <1>1, <1>6 DEF RemovePartial, RemoveExited, RemoveAll, Owned, OwnedBy
<1>7. CASE RemoveOld \/ RemoveCandidate \/ RemoveRestored
  BY <1>7 DEF RemoveOld, RemoveCandidate, RemoveRestored, PhaseFits
<1>8. CASE RemoveBare \/ RemoveDoomed \/ BoxLost
  BY <1>8 DEF RemoveBare, RemoveDoomed, BoxLost, PhaseFits
<1> QED
  BY <1>2, <1>3, <1>4, <1>5, <1>6, <1>7, <1>8 DEF Removing

\* So it is there at every moment between.
LEMMA OldStays ==
  ASSUME ReplacementInv, OldIsThere, [ReplacementNext]_replacementVars
  PROVE  OldIsThere'
<1> SUFFICES ASSUME rec'.phase \in Begun, rec'.oldId # Unset
             PROVE  rec'.oldId \in DOMAIN box'
  BY DEF OldIsThere
<1>1. CASE rec.phase \in Begun /\ rec'.oldId = rec.oldId
  BY <1>1, OldIsNotRemoved DEF OldIsThere
<1>2. CASE Exists(rec'.oldId) /\ box' = box
  BY <1>2
<1> QED
  BY <1>1, <1>2, OldIsNamedOnce

-----------------------------------------------------------------------------
\* The data

\* No step but a recovery that goes back behind the change, or a deletion, lets
\* the content of the selected volume fall behind.
LEMMA DataStays ==
  ASSUME ReplacementInv, [ReplacementNext]_replacementVars,
         ~(rec.phase = "rolling_back" /\ rec.applied), rec.phase # "deleting", job.kind # "delete"
  PROVE  vols'[ch'.vol] >= vols[ch.vol]
<1> USE DEF ReplacementInv
<1>1. /\ ch.vol \in 0 .. MaxOp /\ rec.op \in 0 .. MaxOp /\ rec.oldVol \in 0 .. MaxOp
      /\ vols \in [0 .. MaxOp -> Gone .. MaxData] /\ Gone \in Int /\ Empty \in Int /\ Torn \in Int
      /\ vols[ch.vol] \in Gone .. MaxData
  BY DEF RowsTyped, Records, VolumesTyped, Gone, Empty, Torn
<1>2. (vols' = vols /\ ch'.vol = ch.vol) \/ Filling
  BY VolumesStay
<1>3. CASE vols' = vols /\ ch'.vol = ch.vol
  BY <1>1, <1>3
<1>4. CASE EnsureVolume
  BY <1>1, <1>4 DEF EnsureVolume, PhaseFits, AllOrNothing, RecordFits
<1>5. CASE RunHelper
  <2>1. ch.vol # helper.op
    BY <1>5 DEF RunHelper, PhaseFits, AllOrNothing, RecordFits, HelperFits
  <2>2. ch'.vol = ch.vol /\ vols'[ch.vol] = vols[ch.vol]
    BY <1>1, <1>5, <2>1 DEF RunHelper
  <2> QED
    BY <1>1, <2>2
<1>6. CASE Apply
  <2>1. ch.vol = rec.oldVol /\ vols[rec.op] >= vols[rec.oldVol]
    BY <1>6 DEF Apply, PhaseFits, AllOrNothing, VolumesFit
  <2>2. ch'.vol = rec.op /\ vols' = vols
    BY <1>6 DEF Apply, RowsTyped
  <2> QED
    BY <2>1, <2>2
<1>7. CASE RestoreAbsent \/ Restore
  <2>1. ch.vol = rec.oldVol
    BY <1>7 DEF RestoreAbsent, Restore, PhaseFits, AllOrNothing
  <2>2. ch'.vol = rec.oldVol /\ vols' = vols
    BY <1>7 DEF RestoreAbsent, Restore, RowsTyped
  <2> QED
    BY <1>1, <2>1, <2>2
<1>8. CASE CreateRestored
  <2>1. ch'.vol = ch.vol /\ vols' = [vols EXCEPT ![rec.oldVol] = IF @ = Gone THEN Empty ELSE @]
    BY <1>8 DEF CreateRestored
  <2> QED
    BY <1>1, <2>1 DEF Gone, Empty
<1>9. CASE RemoveVolume
  <2>1. ch.vol \notin Surplus
    BY <1>1, <1>9 DEF RemoveVolume, PhaseFits, AllOrNothing, RecordFits, Surplus
  <2>2. ch'.vol = ch.vol /\ vols'[ch.vol] = vols[ch.vol]
    BY <1>1, <1>9, <2>1 DEF RemoveVolume
  <2> QED
    BY <1>1, <2>2
<1>10. CASE Resumed("w.resumed", "w.always") \/ Resumed("t.resumed", "t.always")
  <2>1. ch.vol = rec.op
    BY <1>10 DEF Resumed, PhaseFits, AllOrNothing
  <2>2. ch'.vol = rec.op /\ vols' = vols
    BY <1>10 DEF Resumed, RowsTyped
  <2> QED
    BY <1>1, <2>1, <2>2
<1>11. CASE RemoveVolumes
  BY <1>11 DEF RemoveVolumes, KindFits
<1>12. CASE ClientWrites
  <2>1. PICK o \in 0 .. MaxOp : vols[o] \in Empty .. MaxData - 1
    /\ vols' = [vols EXCEPT ![o] = @ + 1]
    BY <1>12 DEF ClientWrites, BoxesTyped, Boxes
  <2>2. ch'.vol = ch.vol
    BY <1>12 DEF ClientWrites
  <2> QED
    BY <1>1, <2>1, <2>2
<1>13. CASE HelperCopies
  <2>1. helper.op # ch.vol /\ ch'.vol = ch.vol
    BY <1>13 DEF HelperCopies, HelperFits, AllOrNothing, RecordFits
  <2>2. vols'[ch.vol] = vols[ch.vol]
    BY <1>1, <1>13, <2>1 DEF HelperCopies
  <2> QED
    BY <1>1, <2>1, <2>2
<1> QED
  BY <1>2, <1>3, <1>4, <1>5, <1>6, <1>7, <1>8, <1>9, <1>10, <1>11, <1>12, <1>13 DEF Filling

-----------------------------------------------------------------------------
\* What the user decided

\* Only three steps start a client: of the candidate, of the restored container,
\* and of the one whose login is waited for.
LEMMA OnlyLaunchingStarts ==
  ASSUME ReplacementInv, [ReplacementNext]_replacementVars, Starts
  PROVE  Launching
<1>1. BoxesTyped
  BY DEF ReplacementInv
<1>2. ~Calm
  BY DEF Calm
<1>3. Removing => (box' = box \/ \E S : RemoveAll(S))
  BY DEF Removing, DiscardCandidate, RemovePartial, RemoveOld, RemoveCandidate, RemoveRestored,
      RemoveExited, RemoveBare, RemoveDoomed, BoxLost
<1>4. box' = box => ~Starts
  BY <1>1, CommandsAreCalm DEF Calm
<1>5. ~Removing
  BY <1>1, <1>3, <1>4, RemovingStartsNobody
<1> QED
  BY <1>1, <1>2, <1>5, BoxesStay

\* They start it because the user wants it, or because the old client ran; with a
\* stop pending only the recovery at the start of the runtime does the latter.
LEMMA StartsAreWanted ==
  ASSUME ReplacementInv, Launching
  PROVE  /\ (wanted /\ ~intent) \/ (rec.oldRun /\ (intent => job.kind = "boot"))
         /\ rec.phase # "deleting"
<1> USE DEF ReplacementInv
<1>1. CASE StartCandidate
  BY <1>1 DEF StartCandidate, RecordFits, WishFits, KindFits, PhaseFits
<1>2. CASE StartRestored
  BY <1>2 DEF StartRestored, RecordFits, WishFits, PhaseFits
<1>3. CASE StartAgain
  BY <1>3 DEF StartAgain, KindFits, PhaseFits
<1> QED
  BY <1>1, <1>2, <1>3 DEF Launching

\* Once a deletion is recorded it stays recorded until the channel is gone.
LEMMA DeletionStays ==
  ASSUME ReplacementInv, [ReplacementNext]_replacementVars, rec.phase = "deleting"
  PROVE  rec'.phase = "deleting" \/ ~ch'.exists
<1> USE DEF ReplacementInv
<1>1. rec' = rec \/ Recording
  BY RecordStays
<1>2. CASE BeginRecord \/ NotePrepared \/ NoteSwitching \/ NoteValidating \/ Apply
  BY <1>2 DEF BeginRecord, NotePrepared, NoteSwitching, NoteValidating, Advance, Apply, PhaseFits
<1>3. CASE (Expected /\ BeginRecovery) \/ (Expected /\ BeforeStop)
  BY <1>3 DEF BeginRecovery, BeforeStop, Expected, RecoverExpects, StopExpects
<1>4. CASE RestoreAbsent \/ Restore \/ Finish \/ ProbeConfirms \/ RestoreAsked
  BY <1>4 DEF RestoreAbsent, Restore, Finish, ProbeConfirms, RestoreAsked, PhaseFits
<1>5. CASE NoteId("w.note", "w.resumed") \/ NoteId("t.note", "t.rename") \/ SaveSettings
  BY <1>5 DEF NoteId, SaveSettings, PhaseFits
<1>6. CASE BeginDelete
  BY <1>6 DEF BeginDelete, RowsTyped, Records
<1>7. CASE Deleted
  BY <1>7 DEF Deleted, RowsTyped
<1> QED
  BY <1>1, <1>2, <1>3, <1>4, <1>5, <1>6, <1>7 DEF Recording

-----------------------------------------------------------------------------
\* The theorems

\* At every step of every procedure, with failures, crashes and restarts anywhere,
\* the phase, the containers, the volumes and the rows fit together as the
\* procedures of replacement.rs and stop_intents.rs rely on.
THEOREM ReplacementInvariance == ReplacementSpec => []ReplacementInv
<1>1. ReplacementInit => ReplacementInv
  BY InitFits
<1>2. ReplacementInv /\ [ReplacementNext]_replacementVars => ReplacementInv'
  BY NextKeeps
<1> QED
  BY <1>1, <1>2, PTL DEF ReplacementSpec

\* The rows and Docker's resources are what they are declared to be.
THEOREM ReplacementTypes == ReplacementSpec => []ReplacementTypeOK
<1>1. ReplacementInv => ReplacementTypeOK
  BY TypeParts DEF ReplacementInv
<1> QED
  BY <1>1, ReplacementInvariance, PTL

\* The old container is never removed while its replacement is open (recover and
\* cleanup in replacement.rs).
THEOREM OldContainerIsThere == ReplacementSpec => [](ReplacementInv /\ OldIsThere)
<1>1. ReplacementInit => OldIsThere
  BY DEF ReplacementInit, OldIsThere, NoRec
<1>2. ReplacementInv /\ OldIsThere /\ [ReplacementNext]_replacementVars => OldIsThere'
  BY OldStays
<1> QED
  BY <1>1, <1>2, ReplacementInvariance, PTL DEF ReplacementSpec

\* One client at most is logged in, the way back exists until the change is
\* settled, and settings and volume are both the new or both the old ones.
THEOREM ReplacementIsReversible == ReplacementSpec => []Reversible
<1>1. ReplacementInv /\ OldIsThere => Reversible
  <2> SUFFICES ASSUME ReplacementInv, OldIsThere PROVE Reversible
    OBVIOUS
  <2>1. OneClientRuns /\ AllOrNothing
    BY DEF ReplacementInv, RunsFit
  <2>2. WayBackIsKept
    BY DEF ReplacementInv, OldIsThere, WayBackIsKept, BoxesFit, VolumesFit
  <2> QED
    BY <2>1, <2>2 DEF Reversible
<1> QED
  BY <1>1, OldContainerIsThere, PTL

\* Between replacements the rows describe the one container and the one volume
\* there are, a running client comes back, and a deleted channel is gone.
THEOREM SettledChannelIsWhole == ReplacementSpec => []SettledIsWhole
<1>1. ReplacementInv => SettledIsWhole
  <2> SUFFICES ASSUME ReplacementInv PROVE SettledIsWhole
    OBVIOUS
  <2> USE DEF ReplacementInv
  <2>1. RowsDescribeContainer
    BY DEF RowsDescribeContainer, RowFits, BoxesFit, AllOrNothing, RecordFits, Free, Named,
       BoxesTyped, Ids
  <2>2. NoLeftovers
    BY DEF NoLeftovers, BoxesFit, VolumesFit, HelperFits
  <2>3. ClientComesBack
    BY DEF ClientComesBack, RowFits
  <2>4. DeletedIsGone
    BY DEF DeletedIsGone, WorkFits, VolumesFit, HelperFits, KindFits
  <2> QED
    BY <2>1, <2>2, <2>3, <2>4 DEF SettledIsWhole
<1> QED
  BY <1>1, ReplacementInvariance, PTL

\* The data of the selected volume never falls behind, but by the user's going
\* back behind a change or deleting the channel.
THEOREM DataIsNotLost == ReplacementSpec => NoDataLost
<1>1. ReplacementInv /\ [ReplacementNext]_replacementVars =>
        [ \/ rec.phase = "rolling_back" /\ rec.applied
          \/ rec.phase = "deleting" \/ job.kind = "delete"
          \/ vols'[ch'.vol] >= vols[ch.vol] ]_replacementVars
  BY DataStays
<1> QED
  BY <1>1, ReplacementInvariance, PTL DEF ReplacementSpec, NoDataLost

\* No change and no recovery starts a client the user stopped or is stopping, and
\* a deletion that began starts nobody and is only ever finished.
THEOREM UserIsRespected == ReplacementSpec => StopIsRespected
<1>1. ReplacementInv /\ [ReplacementNext]_replacementVars =>
        [~wanted /\ ~intent /\ ~rec.oldRun => ~Starts]_replacementVars
  BY OnlyLaunchingStarts, StartsAreWanted
<1>2. ReplacementInv /\ [ReplacementNext]_replacementVars =>
        [intent /\ intent' /\ job.kind # "boot" => ~Starts]_replacementVars
  BY OnlyLaunchingStarts, StartsAreWanted
<1>3. ReplacementInv /\ [ReplacementNext]_replacementVars =>
        [rec.phase = "deleting" =>
           /\ rec'.phase = "deleting" \/ ~ch'.exists
           /\ \A i \in DOMAIN box' : box'[i].state = "running" => Runs(i)]_replacementVars
  BY OnlyLaunchingStarts, StartsAreWanted, DeletionStays DEF Starts
<1> QED
  BY <1>1, <1>2, <1>3, ReplacementInvariance, PTL
     DEF ReplacementSpec, StopIsRespected, StoppedIsNotStarted, PendingStopIsNotStarted,
     DeleteIsFinal
=============================================================================
