--------------------------- MODULE ServicesProofs ---------------------------
(***************************************************************************)
(* Proofs about the components that serve the channels and that MCServices *)
(* checks on small instances.                                              *)
(***************************************************************************)
EXTENDS MCServices, ChannelBookProofs, FiniteSetTheorems, SequenceTheorems, WellFoundedInduction, TLAPS

-----------------------------------------------------------------------------
(* Installer *)

Installs == [phase : Open \cup Results \cup {"none", "interrupted"}, n : 0 .. MaxUploads, exec : BOOLEAN]
Execs == [in : 0 .. MaxInstances, state : {"none", "created", "running", "ended"},
          code : Results \cup {"none"}]
Tasks == [at : {"off", "create", "keep", "start", "output", "inspect", "compare", "write", "unmark"},
          phase : {"none", "queued", "running", "interrupted"} \cup Results, exec : BOOLEAN]
Deliveries == [at : {"free", "receiving", "locked", "asked", "deliver", "queue"}, seen : 0 .. MaxInstances]
Boxes == [in : 1 .. MaxInstances, up : BOOLEAN, lock : {"free", "upload"}]
InstallTyped ==
  /\ record \in Installs /\ reader \in Installs
  /\ active \subseteq Tries
  /\ exec \in [Tries -> Execs] /\ runner \in [Tries -> Tasks]
  /\ upload \in Deliveries /\ channel \in Boxes
  /\ uploads \in 0 .. MaxUploads /\ crossed \in BOOLEAN

\* An attempt nobody has spawned yet has left no trace in Docker.
Unspawned(n) == n > uploads \/ (n = uploads /\ upload.at # "free")
NumbersAgree ==
  /\ upload.at # "free" => uploads >= 1
  /\ \A n \in Tries : Unspawned(n) =>
       exec[n].state = "none" /\ exec[n].code = "none" /\ runner[n].at = "off"

\* How far a task is says what its exec can be doing; where it will not say that
\* the exec may go on, the exec is over or never began.
Speaks(n) == runner[n].at \in {"start", "output", "inspect"}
               \/ (runner[n].at \in {"compare", "write"} /\ runner[n].exec)
TaskAgrees(n) ==
  /\ runner[n].at # "off" <=> n \in active
  /\ runner[n].at = "create" => exec[n].state = "none"
  /\ runner[n].at \in {"keep", "start"} => exec[n].state = "created"
  /\ runner[n].at = "inspect" => exec[n].state # "running"
  /\ runner[n].at \in {"compare", "write"} /\ ~runner[n].exec => exec[n].state # "running"
  /\ runner[n].phase \in {"succeeded", "manual"} => exec[n].state = "ended" /\ exec[n].code = runner[n].phase
ExecAgrees(n) ==
  /\ exec[n].code # "none" => exec[n].state = "ended"
  /\ exec[n].state = "running" => exec[n].in = channel.in /\ channel.up
TasksAgree == \A n \in Tries : TaskAgrees(n) /\ ExecAgrees(n)

\* As long as no reader has written over a newer record, the record names the
\* attempt whose installer may be running, and an upload that has asked finds none.
RunsAreKnown ==
  ~crossed =>
    /\ active \subseteq {record.n}
    /\ \A n \in Tries : exec[n].state = "running" \/ Speaks(n) => record.n = n /\ record.exec
    /\ upload.at \in {"deliver", "queue"} => active = {} /\ \A n \in Tries : exec[n].state # "running"
ResultsHold == record.phase \in {"succeeded", "manual"} => record.n \in Tries /\ ResultsAreTrue

InstallInv == InstallTyped /\ NumbersAgree /\ TasksAgree /\ RunsAreKnown /\ ResultsHold

\* The types of the proof are those the runs check.
LEMMA InstallTypes == InstallTyped /\ instFaults \in 0 .. MaxInstFaults <=> InstallTypeOK
BY DEF InstallTyped, InstallTypeOK, Installs, Execs, Tasks, Deliveries, Boxes

\* What stands for nothing is of its type.
LEMMA InstallerRests ==
  /\ NoInstall \in Installs /\ NoInstall.phase = "none"
  /\ NoExec \in Execs /\ NoExec.state = "none" /\ NoExec.code = "none"
  /\ NoTask \in Tasks /\ NoTask.at = "off" /\ NoTask.phase = "none" /\ NoTask.exec = FALSE
  /\ NoUpload \in Deliveries /\ NoUpload.at = "free"
<1>1. 0 \in 0 .. MaxUploads /\ 0 \in 0 .. MaxInstances
  BY InstallerAssumption
<1> QED
  BY <1>1 DEF NoInstall, NoExec, NoTask, NoUpload, Installs, Execs, Tasks, Deliveries

\* An upload that goes on is still an upload.
LEMMA UploadGoesOn ==
  ASSUME InstallTyped, NEW at \in {"free", "receiving", "locked", "asked", "deliver", "queue"}, UploadGoes(at)
  PROVE  upload' \in Deliveries /\ upload'.at = at
BY DEF InstallTyped, UploadGoes, Deliveries

\* The handler ends: the next upload may come, the lock is free.
LEMMA UploadReturns ==
  ASSUME InstallTyped, Returns
  PROVE  /\ upload' \in Deliveries /\ upload'.at = "free"
         /\ channel' \in Boxes /\ channel'.in = channel.in /\ channel'.up = channel.up
<1>1. channel' \in Boxes /\ channel'.in = channel.in /\ channel'.up = channel.up
  BY DEF InstallTyped, Returns, Boxes
<1> QED
  BY <1>1, InstallerRests DEF Returns

\* Before the first upload there is no attempt.
LEMMA InstallInvInit == InstallInit => InstallInv
<1> SUFFICES ASSUME InstallInit PROVE InstallInv
  OBVIOUS
<1>1. InstallTyped
  <2>1. channel \in Boxes /\ uploads \in 0 .. MaxUploads
    BY InstallerAssumption DEF InstallInit, Boxes
  <2>2. exec \in [Tries -> Execs] /\ runner \in [Tries -> Tasks]
    BY InstallerRests DEF InstallInit
  <2> QED
    BY <2>1, <2>2, InstallerRests DEF InstallInit, InstallTyped
<1>2. NumbersAgree /\ TasksAgree /\ RunsAreKnown /\ ResultsHold
  BY DEF InstallInit, NumbersAgree, Unspawned, TasksAgree, TaskAgrees, ExecAgrees, RunsAreKnown, Speaks,
         ResultsHold, NoInstall, NoExec, NoTask, NoUpload, Tries
<1> QED
  BY <1>1, <1>2 DEF InstallInv

\* An upload that is received, refused, asks or delivers touches no attempt.
LEMMA UploadKeeps ==
  ASSUME InstallInv, Receives \/ Received \/ UploadRefused \/ AsksDocker \/ Delivers
  PROVE  InstallInv'
<1> USE DEF InstallInv
<1>1. /\ UNCHANGED <<record, active, exec, runner, reader, crossed>>
      /\ channel'.in = channel.in /\ channel'.up = channel.up
  BY DEF Receives, Received, UploadRefused, AsksDocker, Delivers, Returns, InstallTyped, Boxes
<1>2. InstallTyped'
  <2>1. upload' \in Deliveries
    <3>1. CASE Receives
      <4>1. channel.in \in 0 .. MaxInstances
        BY InstallerAssumption DEF InstallTyped, Boxes
      <4> QED
        BY <3>1, <4>1 DEF Receives, Deliveries
    <3>2. CASE UploadGoes("locked") \/ UploadGoes("deliver") \/ UploadGoes("queue")
      BY <3>2, UploadGoesOn
    <3>3. CASE Returns
      BY <3>3, UploadReturns
    <3> QED
      BY <3>1, <3>2, <3>3 DEF Received, UploadRefused, AsksDocker, Delivers
  <2>2. channel' \in Boxes
    BY DEF Receives, Received, UploadRefused, AsksDocker, Delivers, Returns, InstallTyped, Boxes
  <2>3. uploads' \in 0 .. MaxUploads
    BY InstallerAssumption DEF Receives, Received, UploadRefused, AsksDocker, Delivers, InstallTyped
  <2> QED
    BY <1>1, <2>1, <2>2, <2>3 DEF InstallTyped
<1>3. NumbersAgree'
  <2>1. CASE Receives
    BY <1>1, <2>1 DEF Receives, NumbersAgree, Unspawned, InstallTyped, Tries
  <2>2. CASE uploads' = uploads /\ upload.at # "free"
    BY <1>1, <2>2 DEF NumbersAgree, Unspawned
  <2> QED
    BY <2>1, <2>2 DEF Received, UploadRefused, AsksDocker, Delivers
<1>4. TasksAgree' /\ ResultsHold'
  BY <1>1 DEF TasksAgree, TaskAgrees, ExecAgrees, ResultsHold, ResultsAreTrue
<1>5. RunsAreKnown'
  <2>1. upload'.at \in {"deliver", "queue"} /\ ~crossed
          => upload.at \in {"deliver", "queue"} \/ (active = {} /\ \A n \in Tries : exec[n].state # "running")
    <3>1. CASE Receives \/ Received \/ UploadRefused \/ Delivers
      BY <3>1 DEF Receives, Received, UploadRefused, Delivers, Returns, UploadGoes, InstallTyped, Deliveries, NoUpload
    <3>2. CASE AsksDocker
      <4>1. upload'.at \in {"deliver", "queue"} => ~InProgress
        BY <3>2 DEF AsksDocker, Returns, InstallTyped, Deliveries, NoUpload
      <4>2. ASSUME ~InProgress, ~crossed
            PROVE  active = {} /\ \A n \in Tries : exec[n].state # "running"
        <5>1. active = {}
          BY <4>2 DEF InProgress, RunsAreKnown
        <5>2. ASSUME NEW n \in Tries, exec[n].state = "running" PROVE FALSE
          <6>1. record.n = n /\ record.exec /\ exec[n].in = channel.in
            BY <4>2, <5>2 DEF RunsAreKnown, TasksAgree, ExecAgrees
          <6> QED
            BY <4>2, <5>2, <6>1 DEF InProgress, ExecRuns, ExecThere
        <5> QED
          BY <5>1, <5>2
      <4> QED
        BY <4>1, <4>2
    <3> QED
      BY <3>1, <3>2
  <2> QED
    BY <1>1, <2>1 DEF RunsAreKnown, Speaks
<1> QED
  BY <1>2, <1>3, <1>4, <1>5

\* The record of a new attempt is written, and its task begins, while no earlier
\* attempt is running.
LEMMA QueueKeeps ==
  ASSUME InstallInv, Queues \/ Spawns
  PROVE  InstallInv'
<1> USE DEF InstallInv
<1>1. uploads \in Tries /\ upload.at = "queue"
  BY DEF Queues, Spawns, NumbersAgree, InstallTyped, Tries
<1>2. /\ exec[uploads].state = "none" /\ exec[uploads].code = "none" /\ runner[uploads].at = "off"
  BY <1>1 DEF NumbersAgree, Unspawned
<1>3. CASE Queues
  <2>1. /\ UNCHANGED <<active, exec, runner, reader, uploads, crossed>>
        /\ channel'.in = channel.in /\ channel'.up = channel.up /\ channel' \in Boxes
        /\ upload' \in Deliveries /\ upload'.at \in {"free", "queue"}
        /\ record' = record \/ record' = [phase |-> "queued", n |-> uploads, exec |-> FALSE]
    <3>1. UNCHANGED <<active, exec, runner, reader, uploads, crossed>>
      BY <1>3 DEF Queues
    <3>2. CASE Returns
      BY <1>3, <3>1, <3>2, UploadReturns DEF Queues
    <3>3. CASE UNCHANGED <<upload, channel>>
      BY <1>1, <1>3, <3>1, <3>3 DEF Queues, InstallTyped
    <3> QED
      BY <1>3, <3>2, <3>3 DEF Queues
  <2>2. record' \in Installs
    <3>1. uploads \in 0 .. MaxUploads
      BY DEF InstallTyped
    <3>2. [phase |-> "queued", n |-> uploads, exec |-> FALSE] \in Installs
      BY <3>1 DEF Installs, Open
    <3> QED
      BY <2>1, <3>2 DEF InstallTyped
  <2>3. InstallTyped'
    BY <2>1, <2>2 DEF InstallTyped
  <2>4. NumbersAgree' /\ TasksAgree'
    BY <1>1, <2>1 DEF NumbersAgree, Unspawned, TasksAgree, TaskAgrees, ExecAgrees
  <2>5. RunsAreKnown'
    <3>1. ~crossed => /\ active = {} /\ \A n \in Tries : exec[n].state # "running"
      BY <1>1 DEF RunsAreKnown
    <3>2. ASSUME ~crossed, NEW n \in Tries PROVE ~Speaks(n)
      BY <3>1, <3>2 DEF TasksAgree, TaskAgrees, Speaks
    <3> QED
      BY <2>1, <3>1, <3>2 DEF RunsAreKnown, Speaks
  <2>6. ResultsHold'
    BY <2>1 DEF ResultsHold, ResultsAreTrue
  <2> QED
    BY <2>3, <2>4, <2>5, <2>6
<1>4. CASE Spawns
  <2>1. /\ record.n = uploads /\ active' = active \cup {uploads} /\ upload' = NoUpload
        /\ runner' = [runner EXCEPT ![uploads] = [NoTask EXCEPT !.at = "create", !.phase = "queued"]]
        /\ exec' = [exec EXCEPT ![uploads].in = upload.seen]
        /\ UNCHANGED <<record, reader, uploads, crossed>>
        /\ channel'.in = channel.in /\ channel'.up = channel.up /\ channel' \in Boxes
        /\ upload' \in Deliveries /\ upload'.at = "free"
    BY <1>4, UploadReturns DEF Spawns, Returns
  <2>2. /\ exec' \in [Tries -> Execs] /\ runner' \in [Tries -> Tasks]
        /\ runner'[uploads].at = "create" /\ runner'[uploads].phase = "queued"
        /\ exec'[uploads].state = "none" /\ exec'[uploads].code = "none"
        /\ \A n \in Tries : n # uploads => exec'[n] = exec[n] /\ runner'[n] = runner[n]
    <3> DEFINE begun == [NoTask EXCEPT !.at = "create", !.phase = "queued"]
               there == [exec[uploads] EXCEPT !.in = upload.seen]
    <3>1. begun \in Tasks /\ begun.at = "create" /\ begun.phase = "queued"
      BY InstallerRests DEF Tasks
    <3>2. exec[uploads] \in Execs /\ upload.seen \in 0 .. MaxInstances
      BY <1>1 DEF InstallTyped, Deliveries
    <3>3. there \in Execs /\ there.state = "none" /\ there.code = "none"
      BY <1>2, <3>2 DEF Execs
    <3>4. exec' = [exec EXCEPT ![uploads] = there] /\ runner' = [runner EXCEPT ![uploads] = begun]
      BY <2>1
    <3> HIDE DEF begun, there
    <3> QED
      BY <1>1, <3>1, <3>3, <3>4 DEF InstallTyped
  <2>3. InstallTyped'
    BY <1>1, <2>1, <2>2 DEF InstallTyped
  <2>4. NumbersAgree'
    <3>1. \A n \in Tries : Unspawned(n)' => n # uploads /\ Unspawned(n)
      BY <2>1 DEF Unspawned, InstallTyped, Tries
    <3> QED
      BY <2>1, <2>2, <3>1 DEF NumbersAgree
  <2>5. TasksAgree'
    <3>1. ASSUME NEW n \in Tries, n = uploads PROVE TaskAgrees(n)' /\ ExecAgrees(n)'
      BY <2>1, <2>2, <3>1 DEF TaskAgrees, ExecAgrees
    <3>2. ASSUME NEW n \in Tries, n # uploads PROVE TaskAgrees(n)' /\ ExecAgrees(n)'
      BY <2>1, <2>2, <3>2 DEF TasksAgree, TaskAgrees, ExecAgrees
    <3>3. \A n \in Tries : TaskAgrees(n)' /\ ExecAgrees(n)'
      BY <3>1, <3>2
    <3> QED
      BY <3>3 DEF TasksAgree
  <2>6. RunsAreKnown'
    <3>1. ~crossed => active = {} /\ \A n \in Tries : exec[n].state # "running"
      BY <1>1 DEF RunsAreKnown
    <3>2. ASSUME ~crossed, NEW n \in Tries PROVE ~Speaks(n)' /\ exec'[n].state # "running"
      BY <1>2, <2>2, <3>1, <3>2 DEF TasksAgree, TaskAgrees, Speaks
    <3> QED
      BY <2>1, <3>1, <3>2 DEF RunsAreKnown
  <2>7. ResultsHold'
    BY <1>2, <2>1, <2>2 DEF ResultsHold, ResultsAreTrue
  <2> QED
    BY <2>3, <2>4, <2>5, <2>6, <2>7
<1> QED
  BY <1>3, <1>4

\* A step of a task that has been spawned moves that task and its exec; the record
\* is left or becomes the task's own.  What the task may then say, it says.
LEMMA TaskMoves ==
  ASSUME InstallInv, NEW n \in Tries, NEW t \in Tasks, NEW e \in Execs, record' \in Installs,
         runner[n].at # "off", t.at \notin {"off", "create"},
         runner' = [runner EXCEPT ![n] = t], exec' = [exec EXCEPT ![n] = e],
         UNCHANGED <<active, upload, uploads, reader, channel, crossed>>,
         t.at \in {"keep", "start"} => e.state = "created",
         t.at = "inspect" \/ (t.at \in {"compare", "write"} /\ ~t.exec) => e.state # "running",
         t.phase \in {"succeeded", "manual"} => e.state = "ended" /\ e.code = t.phase,
         e.code # "none" => e.state = "ended",
         e.state = "running" => e.in = channel.in /\ channel.up,
         exec[n].state = "ended" => e = exec[n],
         record' = record \/ record'.n = n,
         record'.phase \in {"succeeded", "manual"}
           => record' = record \/ (e.state = "ended" /\ e.code = record'.phase),
         ~crossed /\ record.n = n
           /\ (e.state = "running" \/ t.at \in {"start", "output", "inspect"}
                 \/ (t.at \in {"compare", "write"} /\ t.exec)) => record'.exec
  PROVE  InstallInv'
<1> USE DEF InstallInv
<1>1. /\ runner' \in [Tries -> Tasks] /\ exec' \in [Tries -> Execs]
      /\ runner'[n] = t /\ exec'[n] = e
      /\ \A m \in Tries : m # n => runner'[m] = runner[m] /\ exec'[m] = exec[m]
  BY DEF InstallTyped
<1>2. n \in active
  BY DEF TasksAgree, TaskAgrees
<1>3. InstallTyped'
  BY <1>1 DEF InstallTyped
<1>4. NumbersAgree'
  <2>1. ~Unspawned(n)
    BY DEF NumbersAgree
  <2> QED
    BY <1>1, <2>1 DEF NumbersAgree, Unspawned
<1>5. TasksAgree'
  <2>1. TaskAgrees(n)' /\ ExecAgrees(n)'
    BY <1>1, <1>2 DEF TaskAgrees, ExecAgrees
  <2>2. ASSUME NEW m \in Tries, m # n PROVE TaskAgrees(m)' /\ ExecAgrees(m)'
    BY <1>1, <2>2 DEF TasksAgree, TaskAgrees, ExecAgrees
  <2>3. \A m \in Tries : TaskAgrees(m)' /\ ExecAgrees(m)'
    BY <2>1, <2>2
  <2> QED
    BY <2>3 DEF TasksAgree
<1>6. RunsAreKnown'
  <2> SUFFICES ASSUME ~crossed PROVE RunsAreKnown'
    BY DEF RunsAreKnown
  <2>1. record.n = n /\ active = {n} /\ record'.n = n
    BY <1>2 DEF RunsAreKnown
  <2>2. upload.at \notin {"deliver", "queue"}
    BY <1>2 DEF RunsAreKnown
  <2>3. exec'[n].state = "running" \/ Speaks(n)' => record'.exec
    BY <1>1, <2>1 DEF Speaks
  <2>4. ASSUME NEW m \in Tries, m # n PROVE exec'[m].state # "running" /\ ~Speaks(m)'
    <3>1. exec[m].state # "running" /\ ~Speaks(m)
      BY <2>1, <2>4 DEF RunsAreKnown
    <3> QED
      BY <1>1, <2>4, <3>1 DEF Speaks
  <2> QED
    BY <2>1, <2>2, <2>3, <2>4 DEF RunsAreKnown
<1>7. ResultsHold'
  <2> SUFFICES ASSUME record'.phase \in {"succeeded", "manual"} PROVE ResultsHold'
    BY DEF ResultsHold
  <2>1. CASE record' = record
    <3>1. record.n \in Tries /\ exec[record.n].state = "ended" /\ exec[record.n].code = record.phase
      BY <2>1 DEF ResultsHold, ResultsAreTrue
    <3>2. exec'[record.n] = exec[record.n]
      BY <1>1, <3>1
    <3> QED
      BY <2>1, <3>1, <3>2 DEF ResultsHold, ResultsAreTrue
  <2>2. CASE record' # record
    BY <1>1, <2>2 DEF ResultsHold, ResultsAreTrue
  <2> QED
    BY <2>1, <2>2
<1> QED
  BY <1>3, <1>4, <1>5, <1>6, <1>7

\* A task that ends with a phase is at its comparison.
LEMMA EndIsTask ==
  ASSUME InstallTyped, NEW n \in Tries, NEW keeps \in BOOLEAN,
         NEW phase \in {"none", "failed", "interrupted"} \cup Results, TaskEndsWith(n, phase, keeps)
  PROVE  \E t \in Tasks : /\ runner' = [runner EXCEPT ![n] = t]
                          /\ t.at = "compare" /\ t.phase = phase /\ t.exec = keeps
<1> DEFINE t == [runner[n] EXCEPT !.at = "compare", !.phase = phase, !.exec = keeps]
<1>1. t \in Tasks /\ t.at = "compare" /\ t.phase = phase /\ t.exec = keeps
  BY DEF InstallTyped, Tasks, Results
<1>2. runner' = [runner EXCEPT ![n] = t]
  BY DEF TaskEndsWith
<1> QED
  BY <1>1, <1>2

\* A task that goes on keeps what it will write.
LEMMA GoingIsTask ==
  ASSUME InstallTyped, NEW n \in Tries, NEW at \in {"keep", "start", "output", "inspect", "unmark"},
         TaskGoes(n, at)
  PROVE  \E t \in Tasks : /\ runner' = [runner EXCEPT ![n] = t]
                          /\ t.at = at /\ t.phase = runner[n].phase /\ t.exec = runner[n].exec
<1> DEFINE t == [runner[n] EXCEPT !.at = at]
<1>1. t \in Tasks /\ t.at = at /\ t.phase = runner[n].phase /\ t.exec = runner[n].exec
  BY DEF InstallTyped, Tasks
<1>2. runner' = [runner EXCEPT ![n] = t]
  BY DEF TaskGoes
<1> QED
  BY <1>1, <1>2

\* The exec is created and kept in the record before it is started.
LEMMA CreationKeeps ==
  ASSUME InstallInv, NEW n \in Tries, CreatesExec(n) \/ KeepsExec(n)
  PROVE  InstallInv'
<1> USE DEF InstallInv
<1>1. /\ exec[n] \in Execs /\ runner[n] \in Tasks /\ record \in Installs
      /\ runner[n].at \in {"create", "keep"} /\ exec[n].state \in {"none", "created"}
      /\ UNCHANGED <<active, upload, uploads, reader, channel, crossed>>
  BY DEF InstallTyped, TasksAgree, TaskAgrees, CreatesExec, KeepsExec, InTask
<1>2. exec[n].code = "none" /\ runner[n].phase \notin {"succeeded", "manual"}
  BY <1>1 DEF TasksAgree, TaskAgrees, ExecAgrees
<1>3. CASE TaskEndsWith(n, "failed", FALSE) /\ UNCHANGED <<exec, record>>
  <2>1. PICK t \in Tasks : /\ runner' = [runner EXCEPT ![n] = t]
                           /\ t.at = "compare" /\ t.phase = "failed" /\ t.exec = FALSE
    BY ZenonT(40), <1>3, EndIsTask
  <2>2. exec' = [exec EXCEPT ![n] = exec[n]]
    BY <1>3 DEF InstallTyped
  <2> QED
    BY <1>1, <1>2, <1>3, <2>1, <2>2, TaskMoves
<1>4. CASE CreatesExec(n) /\ TaskGoes(n, "keep")
  <2>1. PICK t \in Tasks : /\ runner' = [runner EXCEPT ![n] = t]
                           /\ t.at = "keep" /\ t.phase = runner[n].phase
    BY <1>4, GoingIsTask
  <2> DEFINE e == [exec[n] EXCEPT !.state = "created"]
  <2>2. e \in Execs /\ e.state = "created" /\ e.code = "none"
    BY <1>1, <1>2 DEF Execs
  <2>3. exec' = [exec EXCEPT ![n] = e] /\ record' = record
    BY <1>1, <1>4, <2>1 DEF CreatesExec, TaskGoes, TaskEndsWith, InstallTyped, Tasks
  <2> HIDE DEF e
  <2> QED
    BY <1>1, <1>2, <2>1, <2>2, <2>3, TaskMoves
<1>5. CASE KeepsExec(n) /\ record' = [phase |-> "running", n |-> n, exec |-> TRUE] /\ TaskGoes(n, "start")
  <2>1. PICK t \in Tasks : /\ runner' = [runner EXCEPT ![n] = t]
                           /\ t.at = "start" /\ t.phase = runner[n].phase
    BY <1>5, GoingIsTask
  <2>2. exec' = [exec EXCEPT ![n] = exec[n]]
    BY <1>5 DEF InstallTyped, KeepsExec
  <2>3. n \in 0 .. MaxUploads
    BY InstallerAssumption DEF Tries
  <2>4. record' \in Installs /\ record'.n = n /\ record'.exec /\ record'.phase = "running"
    BY <1>5, <2>3 DEF Installs, Open
  <2>5. exec[n].state = "created"
    BY <1>5 DEF KeepsExec, InTask, TasksAgree, TaskAgrees
  <2> QED
    BY <1>1, <1>2, <2>1, <2>2, <2>4, <2>5, TaskMoves
<1> QED
  BY <1>3, <1>4, <1>5 DEF CreatesExec, KeepsExec

\* The start may be answered or not: from here on the exec may run, and the record
\* says which one.
LEMMA StartKeeps ==
  ASSUME InstallInv, NEW n \in Tries, StartsExec(n)
  PROVE  InstallInv'
<1> USE DEF InstallInv
<1>1. /\ exec[n] \in Execs /\ runner[n] \in Tasks /\ record \in Installs /\ runner[n].at = "start"
      /\ exec[n].state = "created"
      /\ UNCHANGED <<record, active, upload, uploads, reader, channel, crossed>>
  BY DEF InstallTyped, TasksAgree, TaskAgrees, StartsExec, InTask
<1>2. exec[n].code = "none" /\ runner[n].phase \notin {"succeeded", "manual"}
  BY <1>1 DEF TasksAgree, TaskAgrees, ExecAgrees
<1>3. ~crossed /\ record.n = n => record.exec
  BY <1>1 DEF RunsAreKnown, Speaks
<1>4. PICK t \in Tasks : /\ runner' = [runner EXCEPT ![n] = t]
                         /\ \/ t.at = "output" /\ t.phase = runner[n].phase
                            \/ t.at = "compare" /\ t.phase = "interrupted" /\ t.exec
  <2>1. CASE TaskGoes(n, "output")
    <3>1. PICK t \in Tasks : /\ runner' = [runner EXCEPT ![n] = t]
                             /\ t.at = "output" /\ t.phase = runner[n].phase
      BY <2>1, GoingIsTask
    <3> QED
      BY <3>1
  <2>2. CASE Uncertain(n)
    <3>1. PICK t \in Tasks : /\ runner' = [runner EXCEPT ![n] = t]
                             /\ t.at = "compare" /\ t.phase = "interrupted" /\ t.exec
      BY <2>2, EndIsTask DEF Uncertain
    <3> QED
      BY <3>1
  <2> QED
    BY <2>1, <2>2 DEF StartsExec
<1>5. PICK e \in Execs : /\ exec' = [exec EXCEPT ![n] = e]
                         /\ e.state \in {"created", "running"} /\ e.code = "none"
                         /\ e.state = "running" => e.in = channel.in /\ channel.up
  <2> DEFINE started == [exec[n] EXCEPT !.state = "running"]
  <2>1. started \in Execs /\ started.state = "running" /\ started.code = "none" /\ started.in = exec[n].in
    BY <1>1, <1>2 DEF Execs
  <2>2. exec = [exec EXCEPT ![n] = exec[n]]
    BY DEF InstallTyped
  <2>3. \/ ExecThere(n) /\ channel.up /\ exec' = [exec EXCEPT ![n] = started]
        \/ exec' = exec
    BY DEF StartsExec
  <2> HIDE DEF started
  <2> QED
    BY <1>1, <1>2, <2>1, <2>2, <2>3 DEF ExecThere
<1> QED
  BY <1>1, <1>2, <1>3, <1>4, <1>5, TaskMoves

\* What the task sees of the end of its exec is true: it looks only when the
\* output has ended with the process.
LEMMA LooksKeep ==
  ASSUME InstallInv, NEW n \in Tries, OutputEnds(n) \/ InspectsExec(n)
  PROVE  InstallInv'
<1> USE DEF InstallInv
<1>1. /\ exec[n] \in Execs /\ runner[n] \in Tasks /\ record \in Installs
      /\ runner[n].at \in {"output", "inspect"}
      /\ UNCHANGED <<record, active, exec, upload, uploads, reader, channel, crossed>>
  BY DEF InstallTyped, OutputEnds, InspectsExec, InTask
<1>2. exec' = [exec EXCEPT ![n] = exec[n]]
  BY <1>1 DEF InstallTyped
<1>3. /\ ~crossed /\ record.n = n => record.exec
      /\ exec[n].code # "none" => exec[n].state = "ended"
      /\ exec[n].state = "running" => exec[n].in = channel.in /\ channel.up
      /\ runner[n].phase \in {"succeeded", "manual"} => exec[n].state = "ended" /\ exec[n].code = runner[n].phase
  BY <1>1 DEF RunsAreKnown, Speaks, TasksAgree, TaskAgrees, ExecAgrees
<1>4. CASE Uncertain(n)
  <2>1. PICK t \in Tasks : /\ runner' = [runner EXCEPT ![n] = t]
                           /\ t.at = "compare" /\ t.phase = "interrupted" /\ t.exec
    BY <1>4, EndIsTask DEF Uncertain
  <2> QED
    BY <1>1, <1>2, <1>3, <2>1, TaskMoves
<1>5. CASE OutputEnds(n) /\ TaskGoes(n, "inspect") /\ ~ExecRuns(n)
  <2>1. PICK t \in Tasks : /\ runner' = [runner EXCEPT ![n] = t]
                           /\ t.at = "inspect" /\ t.phase = runner[n].phase
    BY <1>5, GoingIsTask
  <2>2. exec[n].state # "running"
    BY <1>3, <1>5 DEF ExecRuns, ExecThere
  <2> QED
    BY <1>1, <1>2, <1>3, <2>1, <2>2, TaskMoves
<1>6. CASE InspectsExec(n) /\ TaskEndsWith(n, exec[n].code, FALSE)
  <2>1. exec[n].code \in {"none", "failed", "interrupted"} \cup Results /\ exec[n].state # "running"
    BY <1>1, <1>6 DEF Execs, InspectsExec, InTask, TasksAgree, TaskAgrees
  <2>2. PICK t \in Tasks : /\ runner' = [runner EXCEPT ![n] = t]
                           /\ t.at = "compare" /\ t.phase = exec[n].code /\ t.exec = FALSE
    BY <1>6, <2>1, EndIsTask
  <2> QED
    BY <1>1, <1>2, <1>3, <2>1, <2>2, TaskMoves
<1>7. OutputEnds(n) => Uncertain(n) \/ (TaskGoes(n, "inspect") /\ ~ExecRuns(n))
  BY DEF OutputEnds
<1>8. InspectsExec(n) => Uncertain(n) \/ TaskEndsWith(n, exec[n].code, FALSE)
  BY DEF InspectsExec
<1> QED
  BY <1>4, <1>5, <1>6, <1>7, <1>8

\* The result is compared, written and the mark of the task removed.
LEMMA EndKeeps ==
  ASSUME InstallInv, NEW n \in Tries, Compares(n) \/ Writes(n) \/ Unmarks(n)
  PROVE  InstallInv'
<1> USE DEF InstallInv
<1>1. /\ exec[n] \in Execs /\ runner[n] \in Tasks /\ record \in Installs
      /\ runner[n].at \in {"compare", "write", "unmark"}
      /\ UNCHANGED <<exec, upload, uploads, reader, channel, crossed>>
  BY DEF InstallTyped, Compares, Writes, Unmarks, InTask
<1>2. exec' = [exec EXCEPT ![n] = exec[n]]
  BY <1>1 DEF InstallTyped
<1>3. /\ exec[n].code # "none" => exec[n].state = "ended"
      /\ exec[n].state = "running" => exec[n].in = channel.in /\ channel.up
      /\ runner[n].phase \in {"succeeded", "manual"} => exec[n].state = "ended" /\ exec[n].code = runner[n].phase
      /\ runner[n].at \in {"compare", "write"} /\ ~runner[n].exec => exec[n].state # "running"
      /\ ~crossed /\ record.n = n /\ runner[n].at \in {"compare", "write"} /\ runner[n].exec => record.exec
      /\ ~crossed /\ exec[n].state = "running" => record.exec
  BY DEF RunsAreKnown, Speaks, TasksAgree, TaskAgrees, ExecAgrees
<1>4. CASE Compares(n)
  <2> DEFINE t == [runner[n] EXCEPT !.at = "write",
                                    !.phase = IF StillSame(n) THEN runner[n].phase ELSE "interrupted"]
  <2>1. t \in Tasks /\ t.at = "write" /\ t.phase \in {runner[n].phase, "interrupted"} /\ t.exec = runner[n].exec
    BY <1>1 DEF Tasks
  <2>2. runner' = [runner EXCEPT ![n] = t] /\ UNCHANGED <<record, active>> /\ runner[n].at = "compare"
    BY <1>4 DEF Compares, InTask
  <2> HIDE DEF t
  <2> QED
    BY <1>1, <1>2, <1>3, <2>1, <2>2, TaskMoves
<1>5. CASE Writes(n)
  <2>1. PICK t \in Tasks : /\ runner' = [runner EXCEPT ![n] = t]
                           /\ t.at = "unmark" /\ t.phase = runner[n].phase
    BY <1>5, GoingIsTask DEF Writes
  <2>2. /\ runner[n].at = "write" /\ UNCHANGED active
        /\ record' = record \/ record' = [phase |-> runner[n].phase, n |-> n, exec |-> runner[n].exec]
    BY <1>5 DEF Writes, InTask
  <2>3. n \in 0 .. MaxUploads
    BY InstallerAssumption DEF Tries
  <2>4. /\ record' \in Installs
        /\ record' = record
             \/ (record'.n = n /\ record'.phase = runner[n].phase /\ record'.exec = runner[n].exec)
    BY <1>1, <2>2, <2>3 DEF Installs, Tasks, Open
  <2> QED
    BY ZenonT(40), <1>1, <1>2, <1>3, <2>1, <2>2, <2>4, TaskMoves
<1>6. CASE Unmarks(n)
  <2>1. active' = active \ {n} /\ runner' = [runner EXCEPT ![n] = NoTask] /\ UNCHANGED record
    BY <1>6 DEF Unmarks
  <2>2. /\ runner' \in [Tries -> Tasks] /\ runner'[n] = NoTask
        /\ \A m \in Tries : m # n => runner'[m] = runner[m]
    BY <2>1, InstallerRests DEF InstallTyped
  <2>3. InstallTyped'
    BY <1>1, <2>1, <2>2 DEF InstallTyped
  <2>4. NumbersAgree'
    BY <1>1, <2>1, <2>2, InstallerRests DEF NumbersAgree, Unspawned
  <2>5. ASSUME NEW m \in Tries PROVE TaskAgrees(m)' /\ ExecAgrees(m)'
    BY <1>1, <2>1, <2>2, InstallerRests DEF TasksAgree, TaskAgrees, ExecAgrees
  <2>6. \A m \in Tries : Speaks(m)' => Speaks(m)
    BY <2>2, InstallerRests DEF Speaks
  <2>7. TasksAgree' /\ RunsAreKnown' /\ ResultsHold'
    BY <1>1, <2>1, <2>5, <2>6 DEF TasksAgree, RunsAreKnown, ResultsHold, ResultsAreTrue
  <2> QED
    BY <2>3, <2>4, <2>7
<1> QED
  BY <1>4, <1>5, <1>6

\* A reader may report an attempt interrupted; if it has read an older record than
\* there is now, that is remembered as a crossing.
LEMMA ReaderKeeps ==
  ASSUME InstallInv, Loads \/ Reports
  PROVE  InstallInv'
<1> USE DEF InstallInv
<1>1. /\ UNCHANGED <<active, exec, runner, upload, channel, uploads>> /\ reader' \in Installs
      /\ \/ UNCHANGED <<record, crossed>>
         \/ /\ record' = [reader EXCEPT !.phase = "interrupted"]
            /\ crossed' = (crossed \/ record # reader)
  BY InstallerRests DEF Loads, Reports, InstallTyped
<1>2. CASE UNCHANGED <<record, crossed>>
  <2>1. InstallTyped'
    BY <1>1, <1>2 DEF InstallTyped
  <2>2. NumbersAgree' /\ TasksAgree' /\ RunsAreKnown' /\ ResultsHold'
    BY <1>1, <1>2 DEF NumbersAgree, Unspawned, TasksAgree, TaskAgrees, ExecAgrees, RunsAreKnown, Speaks,
                      ResultsHold, ResultsAreTrue
  <2> QED
    BY <2>1, <2>2
<1>3. CASE record' = [reader EXCEPT !.phase = "interrupted"] /\ crossed' = (crossed \/ record # reader)
  <2>1. /\ record' \in Installs /\ record'.phase = "interrupted"
        /\ record'.n = reader.n /\ record'.exec = reader.exec
    BY <1>3 DEF InstallTyped, Installs
  <2>2. crossed' \in BOOLEAN /\ (~crossed' => ~crossed /\ record'.n = record.n /\ record'.exec = record.exec)
    BY <1>3, <2>1 DEF InstallTyped
  <2>3. InstallTyped'
    BY <1>1, <2>1, <2>2 DEF InstallTyped
  <2>4. NumbersAgree' /\ TasksAgree' /\ ResultsHold'
    BY <1>1, <2>1 DEF NumbersAgree, Unspawned, TasksAgree, TaskAgrees, ExecAgrees, ResultsHold
  <2>5. RunsAreKnown'
    BY <1>1, <2>2 DEF RunsAreKnown, Speaks
  <2> QED
    BY <2>3, <2>4, <2>5
<1> QED
  BY <1>1, <1>2, <1>3

\* Processes end by themselves or with their container, and only a channel that is
\* stopped gets another container.
LEMMA BoxKeeps ==
  ASSUME InstallInv, (\E n \in Tries : ExecEnds(n)) \/ ChannelStops \/ ChannelStarts
  PROVE  InstallInv'
<1> USE DEF InstallInv
<1>1. UNCHANGED <<record, active, runner, upload, reader, uploads, crossed>>
  BY DEF ExecEnds, ChannelStops, ChannelStarts
<1>2. channel' \in Boxes
  <2>1. CASE ChannelStarts
    <3>1. PICK i \in {channel.in, channel.in + 1} :
            i <= MaxInstances /\ channel' = [channel EXCEPT !.in = i, !.up = TRUE]
      BY <2>1 DEF ChannelStarts
    <3>2. i \in 1 .. MaxInstances
      BY <3>1, InstallerAssumption DEF InstallTyped, Boxes
    <3> QED
      BY <3>1, <3>2 DEF InstallTyped, Boxes
  <2>2. CASE (\E n \in Tries : ExecEnds(n)) \/ ChannelStops
    BY <2>2 DEF ExecEnds, ChannelStops, InstallTyped, Boxes
  <2> QED
    BY <2>1, <2>2
<1>3. /\ exec' \in [Tries -> Execs]
      /\ \A m \in Tries :
           /\ exec'[m] = exec[m] \/ (exec[m].state = "running" /\ exec'[m].state = "ended")
           /\ exec'[m].state = "running" => channel'.in = channel.in /\ channel'.up = channel.up
  <2>1. ASSUME NEW n \in Tries, ExecEnds(n) PROVE <1>3
    <3>1. PICK code \in Results : exec' = [exec EXCEPT ![n].state = "ended", ![n].code = code]
      BY <2>1 DEF ExecEnds
    <3>2. exec[n].state = "running" /\ UNCHANGED channel
      BY <2>1 DEF ExecEnds
    <3> DEFINE e == [exec[n] EXCEPT !.state = "ended", !.code = code]
    <3>3. e \in Execs /\ e.state = "ended"
      BY DEF InstallTyped, Execs
    <3>4. exec' = [exec EXCEPT ![n] = e]
      BY <3>1
    <3> HIDE DEF e
    <3> QED
      BY <3>2, <3>3, <3>4 DEF InstallTyped
  <2>2. CASE ChannelStops
    <3> DEFINE e(n) == [exec[n] EXCEPT !.state = "ended", !.code = "failed"]
    <3>1. \A n \in Tries : exec[n] \in Execs /\ e(n) \in Execs /\ e(n).state = "ended"
      BY DEF InstallTyped, Execs, Results
    <3>2. exec' = [n \in Tries |-> IF exec[n].state # "running" THEN exec[n] ELSE e(n)]
      BY <2>2 DEF ChannelStops, Halted
    <3> HIDE DEF e
    <3> QED
      BY <3>1, <3>2
  <2>3. CASE ChannelStarts
    <3>1. exec' = exec /\ ~channel.up
      BY <2>3 DEF ChannelStarts
    <3>2. \A m \in Tries : exec[m].state # "running"
      BY <3>1 DEF TasksAgree, ExecAgrees
    <3> QED
      BY <3>1, <3>2 DEF InstallTyped
  <2> QED
    BY <2>1, <2>2, <2>3
<1>4. InstallTyped'
  BY <1>1, <1>2, <1>3 DEF InstallTyped
<1>5. NumbersAgree'
  BY <1>1, <1>3 DEF NumbersAgree, Unspawned
<1>6. TasksAgree'
  <2>1. ASSUME NEW m \in Tries PROVE TaskAgrees(m)'
    BY <1>1, <1>3, <2>1 DEF TasksAgree, TaskAgrees, ExecAgrees
  <2>2. ASSUME NEW m \in Tries PROVE ExecAgrees(m)'
    BY <1>1, <1>3, <2>2 DEF TasksAgree, ExecAgrees
  <2> QED
    BY <2>1, <2>2 DEF TasksAgree
<1>7. RunsAreKnown'
  BY <1>1, <1>3 DEF RunsAreKnown, Speaks
<1>8. ResultsHold'
  BY <1>1, <1>3, <1>6 DEF ResultsHold, ResultsAreTrue
<1> QED
  BY <1>4, <1>5, <1>6, <1>7, <1>8

\* The core ends in the middle of everything: Docker and the record remember.
LEMMA CoreEndKeeps ==
  ASSUME InstallInv, CoreEnds
  PROVE  InstallInv'
<1> USE DEF InstallInv
<1>1. /\ active' = {} /\ runner' = [n \in Tries |-> NoTask] /\ reader' = NoInstall
      /\ upload' = NoUpload /\ channel' = [channel EXCEPT !.lock = "free"]
      /\ UNCHANGED <<record, exec, uploads, crossed>>
  BY DEF CoreEnds
<1>2. channel' \in Boxes /\ channel'.in = channel.in /\ channel'.up = channel.up
  BY <1>1 DEF InstallTyped, Boxes
<1>3. InstallTyped'
  BY <1>1, <1>2, InstallerRests DEF InstallTyped
<1>4. NumbersAgree'
  BY <1>1, InstallerRests DEF NumbersAgree, Unspawned
<1>5. ASSUME NEW n \in Tries PROVE TaskAgrees(n)' /\ ExecAgrees(n)'
  BY <1>1, <1>2, InstallerRests DEF TasksAgree, TaskAgrees, ExecAgrees
<1>6. RunsAreKnown'
  BY <1>1, InstallerRests DEF RunsAreKnown, Speaks
<1> QED
  BY <1>1, <1>3, <1>4, <1>5, <1>6 DEF TasksAgree, ResultsHold, ResultsAreTrue

\* Every step of the installer keeps the invariant.
LEMMA InstallKeeps ==
  ASSUME InstallInv, [InstallNext]_installVars
  PROVE  InstallInv'
<1>1. CASE UNCHANGED installVars
  BY <1>1 DEF installVars, InstallInv, InstallTyped, NumbersAgree, Unspawned, TasksAgree, TaskAgrees,
              ExecAgrees, RunsAreKnown, Speaks, ResultsHold, ResultsAreTrue
<1>2. ASSUME NEW n \in Tries, InstallStep(n) PROVE InstallInv'
  BY <1>2, CreationKeeps, StartKeeps, LooksKeep, EndKeeps DEF InstallStep
<1>3. CASE (\E n \in Tries : ExecEnds(n)) \/ ChannelStops \/ ChannelStarts
  BY <1>3, BoxKeeps
<1> QED
  BY <1>1, <1>2, <1>3, UploadKeeps, QueueKeeps, ReaderKeeps, CoreEndKeeps DEF InstallNext

\* The invariant of the installer for every number of uploads, containers and
\* failures: the tasks of run_install agree with the execs Docker keeps, and while
\* no reader has written over a newer record, the status file names the attempt
\* whose installer may be running (installer_upload.rs: run_install, public_status).
THEOREM InstallInvariance == InstallSpec => []InstallInv
<1>1. InstallInv /\ [InstallNext]_installVars => InstallInv'
  BY InstallKeeps
<1> QED
  BY InstallInvInit, <1>1, PTL DEF InstallSpec

\* No package is delivered over one that an installer still reads or is about to start
\* on, two installers never run in one container, and a reported result is how the
\* process ended (installer_upload.rs: install_in_progress, run_install, public_status).
THEOREM InstallersAreKnown == InstallSpec => InstallsAreKnown
<1>1. ASSUME InstallInv', ~crossed'
      PROVE  Cardinality({n \in Tries : ExecRuns(n)}') <= 1
  <2> DEFINE Going == {n \in Tries : ExecRuns(n)'}
  <2>1. \A n \in Going : n = record'.n
    BY <1>1 DEF InstallInv, RunsAreKnown, ExecRuns
  <2>2. Going \subseteq {record'.n}
    BY <2>1
  <2>3. IsFiniteSet({record'.n}) /\ Cardinality({record'.n}) = 1
    BY FS_Singleton
  <2> HIDE DEF Going
  <2>4. IsFiniteSet(Going) /\ Cardinality(Going) <= 1
    BY <2>2, <2>3, FS_Subset
  <2> QED
    BY <2>4 DEF Going
<1>2. ASSUME InstallInv, ~crossed, upload.at = "deliver", NEW n \in Tries
      PROVE  ~ExecRuns(n) /\ ~(InTask(n, "start") /\ ExecThere(n))
  BY <1>2 DEF InstallInv, RunsAreKnown, TasksAgree, TaskAgrees, ExecRuns, InTask
<1>3. ASSUME InstallInv, InstallNext, ~crossed' PROVE ~crossed
  BY <1>3 DEF InstallInv, InstallTyped, InstallNext, Receives, Received, UploadRefused, AsksDocker, Delivers,
     Queues, Spawns, InstallStep, CreatesExec, KeepsExec, StartsExec, OutputEnds, InspectsExec, Compares,
     Writes, Unmarks, ExecEnds, Loads, Reports, ChannelStops, ChannelStarts, CoreEnds
<1>4. ASSUME InstallInv, InstallInv', [InstallNext]_installVars
      PROVE  [crossed' \/
               /\ upload.at = "deliver" /\ upload'.at = "queue" =>
                    \A n \in Tries : ~ExecRuns(n) /\ ~(InTask(n, "start") /\ ExecThere(n))
               /\ Cardinality({n \in Tries : ExecRuns(n)}') <= 1]_installVars
  BY <1>1, <1>2, <1>3, <1>4
<1>5. InstallSpec => InstallersStayApart
  BY InstallInvariance, <1>4, PTL DEF InstallSpec, InstallersStayApart
<1>6. InstallInv => ResultsAreTrue
  BY DEF InstallInv, ResultsHold, ResultsAreTrue
<1> QED
  BY InstallInvariance, <1>5, <1>6, PTL DEF InstallsAreKnown
-----------------------------------------------------------------------------
(* ImageJobs *)

TicketsOf == [status : {"none", "preview", "loading", "done", "error"}, listed : BOOLEAN, file : BOOLEAN]
Confirmations == [at : {"idle", "seen", "waits"}, t : Tickets \cup {Nothing}]
Loadings == [at : {"idle", "held", "compare", "import", "readback"}, t : Tickets \cup {Nothing}]
Pulls == [status : {"none", "running", "done", "error"}, image : Images \cup {Nothing}, over : BOOLEAN]
Fetchers == [at : {"off", "look", "choose", "pull", "inspect", "refuse", "tag", "clean"},
             image : Images \cup {Nothing}, mirror : Mirrors \cup {Nothing}, left : SUBSET Mirrors]
Meanings == [template : Tickets \cup {Nothing}, local : [Images -> {Nothing, "right", "wrong"}],
             mirror : [Images \X Mirrors -> {Nothing, "right", "wrong"}]]
ArchivesTyped ==
  /\ tickets \in [Tickets -> TicketsOf] /\ sending \in Tickets \cup {Nothing}
  /\ confirms \in [Confirmers -> Confirmations] /\ loading \in Loadings
  /\ loads \in [Tickets -> Nat]
PullsTyped == pulls \in [Jobs -> Pulls] /\ workers \in [Workers -> Fetchers]
SharedTyped == names \in Meanings /\ permits \subseteq {"load"} \cup Workers /\ giving \in BOOLEAN

\* A ticket has its file as long as it is only shown; what is being sent is not yet a
\* ticket, and has its place.
TicketAgrees(t) ==
  /\ tickets[t].file => tickets[t].status = "preview"
  /\ tickets[t].status \in {"none", "preview"} => loads[t] = 0
  /\ tickets[t].status = "none" => tickets[t] = NoTicket
  /\ loads[t] <= 1
TicketsAgree ==
  /\ \A t \in Tickets : TicketAgrees(t)
  /\ sending # Nothing => tickets[sending] = NoTicket
  /\ IsFiniteSet(Listed) /\ Cardinality(Listed) <= Places
  /\ sending # Nothing => Cardinality(Listed) < Places

\* LOAD is held by one handler or by one task, which has the ticket it loads.
LoadIsHeld ==
  /\ \A t \in Tickets : tickets[t].status = "loading" <=> loading.t = t
  /\ loading.at \in {"compare", "import", "readback"} <=> loading.t # Nothing
  /\ loading.at \in {"compare", "import"} => loads[loading.t] = 0
  /\ \A c \in Confirmers : confirms[c].at = "idle" <=> confirms[c].t = Nothing
  /\ \A c \in Confirmers : confirms[c].at = "waits" => loading.at = "held"
  /\ \A c, d \in Confirmers : confirms[c].at = "waits" /\ confirms[d].at = "waits" => c = d

\* What a mirror's name means is what that mirror serves, and only what fits is tagged.
Content(m) == IF m \in RightMirrors THEN "right" ELSE "wrong"
NamesServe ==
  /\ \A i \in Images, m \in Mirrors : names.mirror[<<i, m>>] \in {Nothing, Content(m)}
  /\ NameFits
FetchersAgree ==
  \A w \in Workers :
    /\ workers[w].at # "off" => workers[w].image \in Images
    /\ workers[w].at \in {"pull", "inspect", "refuse", "tag", "clean"} => workers[w].mirror \in Mirrors
    /\ workers[w].at \in {"tag", "clean"} => workers[w].mirror \in RightMirrors

PullsInOrder == IsFiniteSet(Active) /\ PlacesReturn

\* Whoever fetches or loads holds a permit, and nobody else does.
PermitsAgree ==
  /\ "load" \in permits <=> loading.at \in {"compare", "import", "readback"}
  /\ \A w \in Workers : w \in permits <=> workers[w].at # "off"
  /\ giving => permits = {}

ImageTyped == ArchivesTyped /\ PullsTyped /\ SharedTyped
ImageInv == ImageTyped /\ TicketsAgree /\ LoadIsHeld /\ NamesServe /\ FetchersAgree /\ PullsInOrder /\ PermitsAgree

\* The types of the proof are within those the runs check.
LEMMA ImageTypes == ImageTyped /\ imageFaults \in 0 .. MaxImageFaults => ImageTypeOK
BY DEF ImageTyped, ArchivesTyped, PullsTyped, SharedTyped, ImageTypeOK, TicketsOf, Confirmations, Loadings,
       Pulls, Fetchers, Meanings

\* What stands for nothing is of its type.
LEMMA ImagesRest ==
  /\ NoTicket \in TicketsOf /\ NoTicket.status = "none" /\ ~NoTicket.listed /\ ~NoTicket.file
  /\ Unused \in Confirmations /\ Unused \in Loadings /\ Unused.at = "idle" /\ Unused.t = Nothing
  /\ Resting \in Fetchers /\ Resting.at = "off"
  /\ Nothing \notin Tickets
BY ImageAssumption DEF NoTicket, Unused, Resting, TicketsOf, Confirmations, Loadings, Fetchers, Nothing

\* At the start nothing is listed, fetched or loaded.
LEMMA ImageInvInit == ImageInit => ImageInv
<1> SUFFICES ASSUME ImageInit PROVE ImageInv
  OBVIOUS
<1>1. ArchivesTyped /\ PullsTyped
  <2>1. tickets \in [Tickets -> TicketsOf] /\ confirms \in [Confirmers -> Confirmations] /\ loading \in Loadings
    BY ImagesRest DEF ImageInit
  <2>2. pulls \in [Jobs -> Pulls]
    BY DEF ImageInit, Pulls
  <2>3. workers \in [Workers -> Fetchers]
    BY ImagesRest DEF ImageInit
  <2> QED
    BY <2>1, <2>2, <2>3 DEF ImageInit, ArchivesTyped, PullsTyped
<1>2. SharedTyped /\ NamesServe
  BY DEF ImageInit, SharedTyped, Meanings, NamesServe, NameFits, Nothing
<1>3. FetchersAgree /\ PermitsAgree
  BY ImagesRest DEF ImageInit, FetchersAgree, PermitsAgree
<1>4. TicketsAgree
  <2>1. Listed = {} /\ sending = Nothing
    BY ImagesRest DEF ImageInit, Listed
  <2>2. IsFiniteSet({}) /\ Cardinality({}) = 0
    BY FS_EmptySet
  <2>3. 0 <= Places
    BY ImageAssumption
  <2> QED
    BY <2>1, <2>2, <2>3, ImagesRest DEF ImageInit, TicketsAgree, TicketAgrees
<1>5. LoadIsHeld
  BY ImagesRest DEF ImageInit, LoadIsHeld
<1>6. PullsInOrder
  <2>1. Active = {}
    BY DEF ImageInit, Active
  <2>2. IsFiniteSet({}) /\ Cardinality({}) = 0
    BY FS_EmptySet
  <2>3. 0 <= MaxActive
    BY ImageAssumption
  <2> QED
    BY <2>1, <2>2, <2>3 DEF PullsInOrder, PlacesReturn
<1> QED
  BY <1>1, <1>2, <1>3, <1>4, <1>5, <1>6 DEF ImageInv, ImageTyped

\* A step of the archives leaves the downloads, and of the names all but the template's.
ArchiveStep ==
  /\ UNCHANGED <<pulls, workers>>
  /\ names' \in Meanings /\ names'.local = names.local /\ names'.mirror = names.mirror

\* The downloads do not notice it.
LEMMA ArchivesLeavePulls ==
  ASSUME ImageInv, ArchiveStep
  PROVE  PullsTyped' /\ NamesServe' /\ FetchersAgree' /\ PullsInOrder'
BY DEF ArchiveStep, ImageInv, ImageTyped, PullsTyped, NamesServe, NameFits, FetchersAgree, PullsInOrder,
       PlacesReturn, Active

\* A preview has its place from the moment it is being sent.
LEMMA PreviewKeeps ==
  ASSUME ImageInv, NEW t \in Tickets, Preview(t) \/ PreviewReady(t) \/ Forgets(t)
  PROVE  ImageInv'
<1> USE DEF ImageInv, ImageTyped
<1>1. /\ UNCHANGED <<confirms, loading, loads, pulls, workers, names, permits, giving>>
      /\ sending' \in {sending, t, Nothing}
  BY DEF Preview, PreviewReady, Forgets, pullVars
<1>2. PullsTyped' /\ NamesServe' /\ FetchersAgree' /\ PullsInOrder' /\ SharedTyped' /\ PermitsAgree'
  BY <1>1, ArchivesLeavePulls DEF ArchiveStep, SharedTyped, PermitsAgree
<1>3. \/ tickets' = tickets
      \/ sending = t /\ tickets' = [tickets EXCEPT ![t] = [status |-> "preview", listed |-> TRUE, file |-> TRUE]]
      \/ tickets[t].status # "loading" /\ tickets' = [tickets EXCEPT ![t].listed = FALSE]
  BY DEF Preview, PreviewReady, Forgets
<1>4. PICK k \in TicketsOf : /\ tickets' = [tickets EXCEPT ![t] = k]
                             /\ \/ k = tickets[t]
                                \/ tickets[t] = NoTicket /\ k.status = "preview" /\ k.listed
                                \/ /\ tickets[t].status # "loading" /\ tickets[t].listed
                                   /\ k.status = tickets[t].status /\ k.file = tickets[t].file /\ ~k.listed
  <2>1. CASE tickets' = tickets
    BY <2>1 DEF ArchivesTyped
  <2>2. CASE sending = t /\ tickets' = [tickets EXCEPT ![t] = [status |-> "preview", listed |-> TRUE, file |-> TRUE]]
    <3>1. [status |-> "preview", listed |-> TRUE, file |-> TRUE] \in TicketsOf
      BY DEF TicketsOf
    <3>2. tickets[t] = NoTicket
      BY <2>2, ImagesRest DEF TicketsAgree
    <3> QED
      BY <2>2, <3>1, <3>2
  <2>3. CASE Forgets(t)
    <3> DEFINE k == [tickets[t] EXCEPT !.listed = FALSE]
    <3>1. k \in TicketsOf /\ k.status = tickets[t].status /\ k.file = tickets[t].file /\ ~k.listed
      BY DEF ArchivesTyped, TicketsOf
    <3>2. tickets' = [tickets EXCEPT ![t] = k] /\ tickets[t].listed /\ tickets[t].status # "loading"
      BY <2>3 DEF Forgets
    <3> QED
      BY <3>1, <3>2
  <2> QED
    BY <2>1, <2>2, <2>3 DEF Preview, PreviewReady
<1>5. /\ tickets' \in [Tickets -> TicketsOf] /\ tickets'[t] = k
      /\ \A u \in Tickets : u # t => tickets'[u] = tickets[u]
  BY <1>4 DEF ArchivesTyped
<1>6. ArchivesTyped'
  BY <1>1, <1>5 DEF ArchivesTyped
<1>7. LoadIsHeld'
  <2>1. k.status = "loading" <=> tickets[t].status = "loading"
    BY <1>4, ImagesRest
  <2> QED
    BY <1>1, <1>5, <2>1 DEF LoadIsHeld
<1>8. \A u \in Tickets : TicketAgrees(u)'
  BY <1>1, <1>4, <1>5, ImagesRest DEF TicketsAgree, TicketAgrees, ArchivesTyped
<1>9. /\ sending' # Nothing => tickets'[sending'] = NoTicket
      /\ IsFiniteSet(Listed') /\ Cardinality(Listed') <= Places
      /\ sending' # Nothing => Cardinality(Listed') < Places
  <2>1. Cardinality(Listed) \in Nat /\ Places \in Nat
    BY FS_CardinalityType, ImageAssumption DEF TicketsAgree
  <2>2. CASE Preview(t)
    BY <2>2, <2>1 DEF Preview, PlaceFree, TicketsAgree, Listed
  <2>3. CASE PreviewReady(t)
    <3>1. sending = t /\ sending' = Nothing /\ Cardinality(Listed) < Places
      BY <2>3, ImagesRest DEF PreviewReady, TicketsAgree
    <3>2. CASE tickets' = tickets
      BY <2>1, <3>1, <3>2 DEF TicketsAgree, Listed
    <3>3. CASE tickets' # tickets
      <4>1. Listed' = Listed \cup {t}
        BY <2>3, <3>3, <1>5 DEF PreviewReady, Listed, ArchivesTyped
      <4>2. IsFiniteSet(Listed \cup {t}) /\ Cardinality(Listed \cup {t}) <= Cardinality(Listed) + 1
        BY <2>1, FS_AddElement DEF TicketsAgree
      <4>3. Cardinality(Listed \cup {t}) \in Nat
        BY <4>2, FS_CardinalityType
      <4> QED
        BY <2>1, <3>1, <4>1, <4>2, <4>3
    <3> QED
      BY <3>2, <3>3
  <2>4. CASE Forgets(t)
    <3>1. sending' = sending /\ Listed' \subseteq Listed
      BY <2>4, <1>4, <1>5 DEF Forgets, Listed
    <3>2. IsFiniteSet(Listed') /\ Cardinality(Listed') <= Cardinality(Listed)
      BY <3>1, FS_Subset DEF TicketsAgree
    <3>3. Cardinality(Listed') \in Nat
      BY <3>2, FS_CardinalityType
    <3>4. sending # Nothing => sending # t
      BY <2>4, ImagesRest DEF Forgets, TicketsAgree
    <3> QED
      BY <1>5, <2>1, <3>1, <3>2, <3>3, <3>4 DEF TicketsAgree, ArchivesTyped
  <2> QED
    BY <2>2, <2>3, <2>4
<1> QED
  BY <1>2, <1>6, <1>7, <1>8, <1>9 DEF TicketsAgree

\* A step that changes no more of the tickets than the status of one that had left
\* its preview, or has its file, keeps who is listed.
LEMMA TicketsStay ==
  ASSUME ImageInv, NEW t \in Tickets, NEW k \in TicketsOf, tickets' = [tickets EXCEPT ![t] = k],
         k.listed = tickets[t].listed, tickets[t].status # "none", UNCHANGED sending,
         loads' \in [Tickets -> Nat], loads'[t] <= 1,
         \A u \in Tickets : u # t => loads'[u] = loads[u],
         ~k.file, k.status \notin {"none", "preview"}
  PROVE  /\ tickets' \in [Tickets -> TicketsOf] /\ tickets'[t] = k
         /\ \A u \in Tickets : u # t => tickets'[u] = tickets[u]
         /\ TicketsAgree'
<1> USE DEF ImageInv, ImageTyped
<1>1. /\ tickets' \in [Tickets -> TicketsOf] /\ tickets'[t] = k
      /\ \A u \in Tickets : u # t => tickets'[u] = tickets[u]
  BY DEF ArchivesTyped
<1>2. Listed' = Listed
  BY <1>1 DEF Listed
<1>3. \A u \in Tickets : TicketAgrees(u)'
  BY <1>1 DEF TicketsAgree, TicketAgrees
<1>4. sending # Nothing => sending # t
  BY ImagesRest DEF TicketsAgree
<1> QED
  BY <1>1, <1>2, <1>3, <1>4 DEF TicketsAgree, ArchivesTyped

\* Of the handlers of confirm at most one waits for the permit.
LEMMA ConfirmKeeps ==
  ASSUME ImageInv, NEW c \in Confirmers,
         (\E t \in Tickets : ConfirmLooks(c, t)) \/ ConfirmHolds(c)
  PROVE  ImageInv'
<1> USE DEF ImageInv, ImageTyped
<1>1. UNCHANGED <<tickets, sending, loads, pulls, workers, names, permits, giving>>
  BY DEF ConfirmLooks, ConfirmHolds, pullVars
<1>2. PullsTyped' /\ NamesServe' /\ FetchersAgree' /\ PullsInOrder' /\ SharedTyped'
  BY <1>1, ArchivesLeavePulls DEF ArchiveStep, SharedTyped
<1>3. PICK k \in Confirmations : /\ confirms' = [confirms EXCEPT ![c] = k]
                                 /\ k.at = "idle" <=> k.t = Nothing
                                 /\ \/ k.at # "waits" /\ loading' = loading
                                    \/ k.at = "waits" /\ loading = Unused /\ loading' = [at |-> "held", t |-> Nothing]
  <2>1. ASSUME NEW t \in Tickets, ConfirmLooks(c, t)
        PROVE  \E k \in Confirmations : /\ confirms' = [confirms EXCEPT ![c] = k]
                                        /\ k.at = "seen" /\ k.t # Nothing /\ loading' = loading
    <3> DEFINE k == [at |-> "seen", t |-> t]
    <3>1. k \in Confirmations /\ k.at = "seen" /\ k.t = t
      BY DEF Confirmations
    <3>2. confirms' = [confirms EXCEPT ![c] = k] /\ loading' = loading
      BY <2>1 DEF ConfirmLooks
    <3> HIDE DEF k
    <3> QED
      BY <3>1, <3>2, ImagesRest
  <2>2. CASE ConfirmHolds(c) /\ loading = Unused
    <3> DEFINE k == [confirms[c] EXCEPT !.at = "waits"]
    <3>1. k \in Confirmations /\ k.at = "waits" /\ k.t = confirms[c].t /\ confirms[c].at = "seen"
      BY <2>2 DEF ConfirmHolds, ArchivesTyped, Confirmations
    <3>2. k.t # Nothing
      BY <3>1 DEF LoadIsHeld
    <3>3. confirms' = [confirms EXCEPT ![c] = k] /\ loading' = [at |-> "held", t |-> Nothing]
      BY <2>2 DEF ConfirmHolds
    <3> HIDE DEF k
    <3> QED
      BY <2>2, <3>1, <3>2, <3>3
  <2>3. CASE ConfirmHolds(c) /\ loading # Unused
    BY <2>3, ImagesRest DEF ConfirmHolds
  <2> QED
    BY <2>1, <2>2, <2>3
<1>4. /\ confirms' \in [Confirmers -> Confirmations] /\ confirms'[c] = k
      /\ \A d \in Confirmers : d # c => confirms'[d] = confirms[d]
  BY <1>3 DEF ArchivesTyped
<1>5. loading' \in Loadings /\ loading'.t = loading.t
      /\ (loading'.at = loading.at \/ (loading.at = "idle" /\ loading'.at = "held"))
  BY <1>3, ImagesRest DEF ArchivesTyped, Loadings
<1>6. ArchivesTyped'
  BY <1>1, <1>4, <1>5 DEF ArchivesTyped
<1>7. TicketsAgree'
  BY <1>1 DEF TicketsAgree, TicketAgrees, Listed
<1>8. PermitsAgree'
  BY <1>1, <1>5 DEF PermitsAgree
<1>9. LoadIsHeld'
  <2>1. k.at = "waits" => loading'.at = "held" /\ \A d \in Confirmers : confirms[d].at # "waits"
    BY <1>3, ImagesRest DEF LoadIsHeld
  <2> QED
    BY <1>1, <1>3, <1>4, <1>5, <2>1 DEF LoadIsHeld
<1> QED
  BY <1>2, <1>6, <1>7, <1>8, <1>9
\* The handler that has the permit takes the ticket, or finds it taken and ends.
LEMMA TakeKeeps ==
  ASSUME ImageInv, NEW c \in Confirmers, ConfirmTakes(c)
  PROVE  ImageInv'
<1> USE DEF ImageInv, ImageTyped
<1> DEFINE t == confirms[c].t
<1>1. /\ UNCHANGED <<sending, loads, pulls, workers, names, giving>> /\ ~giving
      /\ confirms' = [confirms EXCEPT ![c] = Unused] /\ confirms[c].at = "waits"
  BY DEF ConfirmTakes, pullVars
<1>2. PullsTyped' /\ NamesServe' /\ FetchersAgree' /\ PullsInOrder'
  BY <1>1, ArchivesLeavePulls DEF ArchiveStep, SharedTyped
<1>3. /\ confirms' \in [Confirmers -> Confirmations] /\ confirms'[c] = Unused
      /\ \A d \in Confirmers : d # c => confirms'[d] = confirms[d]
  BY <1>1, ImagesRest DEF ArchivesTyped
<1>4. loading.at = "held" /\ loading.t = Nothing /\ t \in Tickets
      /\ \A d \in Confirmers : d # c => confirms[d].at # "waits"
  BY <1>1 DEF LoadIsHeld, ArchivesTyped, Confirmations
<1>5. CASE Taken(t)
  <2>1. UNCHANGED <<tickets, permits>> /\ loading' = Unused
    BY <1>5 DEF ConfirmTakes
  <2>2. ArchivesTyped' /\ SharedTyped'
    BY <1>1, <1>3, <2>1, ImagesRest DEF ArchivesTyped, SharedTyped
  <2>3. TicketsAgree'
    BY <1>1, <2>1 DEF TicketsAgree, TicketAgrees, Listed
  <2>4. LoadIsHeld' /\ PermitsAgree'
    BY <1>1, <1>3, <1>4, <2>1, ImagesRest DEF LoadIsHeld, PermitsAgree
  <2> QED
    BY <1>2, <2>2, <2>3, <2>4
<1>6. CASE ~Taken(t)
  <2> DEFINE k == [tickets[t] EXCEPT !.status = "loading", !.file = FALSE]
  <2>1. /\ tickets' = [tickets EXCEPT ![t] = k] /\ loading' = [at |-> "compare", t |-> t]
        /\ permits' = permits \cup {"load"}
    BY <1>6 DEF ConfirmTakes
  <2>2. k \in TicketsOf /\ k.status = "loading" /\ ~k.file /\ k.listed = tickets[t].listed
    BY <1>4 DEF ArchivesTyped, TicketsOf
  <2>3. tickets[t].status = "preview" /\ loads[t] = 0
    BY <1>4, <1>6 DEF Taken, TicketsAgree, TicketAgrees
  <2> HIDE DEF k, t
  <2>4. loads' \in [Tickets -> Nat] /\ loads'[t] <= 1 /\ loads' = loads
    BY <1>1, <2>3 DEF ArchivesTyped
  <2>5. /\ tickets' \in [Tickets -> TicketsOf] /\ tickets'[t] = k
        /\ \A u \in Tickets : u # t => tickets'[u] = tickets[u]
        /\ TicketsAgree'
    BY <1>1, <1>4, <2>1, <2>2, <2>3, <2>4, TicketsStay
  <2>6. loading' \in Loadings /\ loading'.at = "compare" /\ loading'.t = t
    BY <1>4, <2>1 DEF Loadings
  <2>7. ArchivesTyped' /\ SharedTyped'
    BY <1>1, <1>3, <2>1, <2>4, <2>5, <2>6 DEF ArchivesTyped, SharedTyped
  <2>8. LoadIsHeld'
    <3>1. \A u \in Tickets : tickets[u].status # "loading"
      BY <1>4, ImagesRest DEF LoadIsHeld
    <3> QED
      BY <1>3, <1>4, <2>2, <2>3, <2>4, <2>5, <2>6, <3>1, ImagesRest DEF LoadIsHeld
  <2>9. PermitsAgree'
    BY <1>1, <1>4, <2>1, <2>6, ImageAssumption DEF PermitsAgree, Workers
  <2> QED
    BY <1>2, <2>5, <2>7, <2>8, <2>9
<1> QED
  BY <1>5, <1>6

\* The task goes on with the ticket it has, or ends with a verdict and gives LOAD
\* and the permit back.
LEMMA LoadMoves ==
  ASSUME ImageInv, NEW at \in {"import", "readback"}, NEW status \in {"done", "error"},
         loading.at \in {"compare", "import", "readback"}, LoadGoes(at) \/ LoadEnds(status),
         UNCHANGED <<sending, confirms, pulls, workers, giving>>,
         names' \in Meanings, names'.local = names.local, names'.mirror = names.mirror,
         loads' \in [Tickets -> Nat], loads'[loading.t] <= 1,
         \A u \in Tickets : u # loading.t => loads'[u] = loads[u],
         LoadGoes("import") => loads' = loads /\ loading.at = "compare"
  PROVE  ImageInv'
<1> USE DEF ImageInv, ImageTyped
<1>1. PullsTyped' /\ NamesServe' /\ FetchersAgree' /\ PullsInOrder'
  BY ArchivesLeavePulls DEF ArchiveStep
<1> DEFINE t == loading.t
<1>2. /\ t \in Tickets /\ tickets[t].status = "loading" /\ ~tickets[t].file
      /\ \A c \in Confirmers : confirms[c].at # "waits"
      /\ \A u \in Tickets : u # t => tickets[u].status # "loading"
  <2>1. t \in Tickets
    BY DEF LoadIsHeld, ArchivesTyped, Loadings
  <2> QED
    BY <2>1 DEF LoadIsHeld, TicketsAgree, TicketAgrees
<1>3. CASE LoadGoes(at)
  <2>1. loading' \in Loadings /\ loading'.at = at /\ loading'.t = t
    BY <1>3 DEF LoadGoes, ArchivesTyped, Loadings
  <2>2. UNCHANGED <<tickets, permits>>
    BY <1>3 DEF LoadGoes
  <2>3. ArchivesTyped' /\ SharedTyped'
    BY <2>1, <2>2 DEF ArchivesTyped, SharedTyped
  <2>4. Listed' = Listed
    BY <2>2 DEF Listed
  <2>5. \A u \in Tickets : TicketAgrees(u)'
    BY <1>2, <2>2 DEF TicketsAgree, TicketAgrees
  <2>6. TicketsAgree'
    BY <2>2, <2>4, <2>5 DEF TicketsAgree
  <2>7. LoadIsHeld' /\ PermitsAgree'
    <3>1. at = "import" => loads'[t] = 0
      BY <1>2, <1>3 DEF LoadIsHeld
    <3> QED
      BY <1>2, <2>1, <2>2, <3>1 DEF LoadIsHeld, PermitsAgree
  <2> QED
    BY <1>1, <2>3, <2>6, <2>7
<1>4. CASE LoadEnds(status)
  <2> DEFINE k == [tickets[t] EXCEPT !.status = status]
  <2>1. /\ tickets' = [tickets EXCEPT ![t] = k] /\ loading' = Unused /\ permits' = permits \ {"load"}
    BY <1>4 DEF LoadEnds
  <2>2. k \in TicketsOf /\ k.status = status /\ ~k.file /\ k.listed = tickets[t].listed
    BY <1>2 DEF ArchivesTyped, TicketsOf
  <2> HIDE DEF k
  <2>3. loads'[t] <= 1 /\ (\A u \in Tickets : u # t => loads'[u] = loads[u])
    OBVIOUS
  <2> HIDE DEF t
  <2>4. /\ tickets' \in [Tickets -> TicketsOf] /\ tickets'[t] = k
        /\ \A u \in Tickets : u # t => tickets'[u] = tickets[u]
        /\ TicketsAgree'
    BY <1>2, <2>1, <2>2, <2>3, TicketsStay
  <2>5. ArchivesTyped' /\ SharedTyped'
    BY <2>1, <2>4, ImagesRest DEF ArchivesTyped, SharedTyped
  <2>6. LoadIsHeld'
    BY <1>2, <2>1, <2>2, <2>4, ImagesRest DEF LoadIsHeld
  <2>7. PermitsAgree'
    BY <2>1, ImageAssumption, ImagesRest DEF PermitsAgree, Workers
  <2> QED
    BY <1>1, <2>4, <2>5, <2>6, <2>7
<1> QED
  BY <1>3, <1>4

\* Docker is asked before and after the transfer, which happens once.
LEMMA LoadKeeps ==
  ASSUME ImageInv, LoadCompares \/ LoadSends \/ LoadReadsBack
  PROVE  ImageInv'
<1> USE DEF ImageInv, ImageTyped
<1>1. /\ UNCHANGED <<sending, confirms, pulls, workers, giving>>
      /\ loading.at \in {"compare", "import", "readback"} /\ loading.t \in Tickets
  BY DEF LoadCompares, LoadSends, LoadReadsBack, pullVars, LoadIsHeld, ArchivesTyped, Loadings
<1>2. CASE LoadCompares \/ LoadReadsBack
  <2>1. UNCHANGED <<names, loads>>
    BY <1>2 DEF LoadCompares, LoadReadsBack
  <2>2. \/ LoadCompares /\ LoadGoes("import")
        \/ LoadEnds("done") \/ LoadEnds("error")
    BY <1>2 DEF LoadCompares, LoadReadsBack
  <2>3. names' \in Meanings /\ loads' \in [Tickets -> Nat] /\ loads'[loading.t] <= 1
    BY <1>1, <2>1 DEF SharedTyped, ArchivesTyped, TicketsAgree, TicketAgrees
  <2>4. CASE LoadCompares /\ LoadGoes("import")
    <3>1. loading.at = "compare"
      BY <2>4 DEF LoadCompares
    <3> QED
      BY <1>1, <2>1, <2>3, <2>4, <3>1, LoadMoves
  <2>5. ASSUME NEW status \in {"done", "error"}, LoadEnds(status) PROVE ImageInv'
    <3>1. ~LoadGoes("import")
      BY <1>1, <2>5, ImagesRest DEF LoadGoes, LoadEnds, ArchivesTyped, Loadings
    <3> QED
      BY <1>1, <2>1, <2>3, <2>5, <3>1, LoadMoves
  <2> QED
    BY <2>2, <2>4, <2>5
<1>3. CASE LoadSends
  <2>1. /\ loads' = [loads EXCEPT ![loading.t] = @ + 1] /\ loading.at = "import"
        /\ LoadGoes("readback") \/ LoadEnds("error")
        /\ names' = names \/ names' = [names EXCEPT !.template = loading.t]
    BY <1>3 DEF LoadSends
  <2>2. /\ loads' \in [Tickets -> Nat] /\ loads'[loading.t] <= 1
        /\ \A u \in Tickets : u # loading.t => loads'[u] = loads[u]
    BY <1>1, <2>1 DEF ArchivesTyped, LoadIsHeld
  <2>3. names' \in Meanings /\ names'.local = names.local /\ names'.mirror = names.mirror
    BY <1>1, <2>1 DEF SharedTyped, Meanings
  <2>4. ~LoadGoes("import")
    BY <2>1, ImagesRest DEF LoadGoes, LoadEnds, ArchivesTyped, Loadings
  <2> QED
    BY <1>1, <2>1, <2>2, <2>3, <2>4, LoadMoves
<1> QED
  BY <1>2, <1>3
\* A step of the downloads leaves the archives.
LEMMA DownloadsLeaveArchives ==
  ASSUME ImageInv, UNCHANGED importVars
  PROVE  ArchivesTyped' /\ TicketsAgree' /\ LoadIsHeld'
BY DEF importVars, ImageInv, ImageTyped, ArchivesTyped, TicketsAgree, TicketAgrees, Listed, LoadIsHeld

\* A download that goes on keeps its image, its permit and its place.
LEMMA FetcherMoves ==
  ASSUME ImageInv, NEW w \in Workers, NEW f \in Fetchers, workers[w].at # "off", f.at # "off",
         workers' = [workers EXCEPT ![w] = f], f.image = workers[w].image,
         f.at \in {"pull", "inspect", "refuse", "tag", "clean"} => f.mirror \in Mirrors,
         f.at \in {"tag", "clean"} => f.mirror \in RightMirrors,
         UNCHANGED <<importVars, pulls, permits, giving>>, names' \in Meanings, NamesServe'
  PROVE  ImageInv'
<1> USE DEF ImageInv, ImageTyped
<1>1. ArchivesTyped' /\ TicketsAgree' /\ LoadIsHeld' /\ UNCHANGED loading
  BY DownloadsLeaveArchives DEF importVars
<1>2. /\ workers' \in [Workers -> Fetchers] /\ workers'[w] = f
      /\ \A v \in Workers : v # w => workers'[v] = workers[v]
  BY DEF PullsTyped
<1>3. PullsTyped' /\ SharedTyped'
  BY <1>2 DEF PullsTyped, SharedTyped
<1>4. FetchersAgree'
  BY <1>2 DEF FetchersAgree
<1>5. PermitsAgree'
  BY <1>1, <1>2 DEF PermitsAgree
<1>6. PullsInOrder'
  <2>1. Active' = Active /\ Active \subseteq Workers
    BY DEF Active, Workers
  <2> QED
    BY <1>2, <2>1 DEF PullsInOrder, PlacesReturn
<1> QED
  BY <1>1, <1>3, <1>4, <1>5, <1>6

\* A download that ends gives its permit and its place back.
LEMMA FetcherEnds ==
  ASSUME ImageInv, NEW w \in Workers, NEW status \in {"done", "error"}, WorkerEnds(w, status),
         UNCHANGED <<importVars, giving>>, names' \in Meanings, NamesServe'
  PROVE  ImageInv'
<1> USE DEF ImageInv, ImageTyped
<1>1. ArchivesTyped' /\ TicketsAgree' /\ LoadIsHeld' /\ UNCHANGED loading
  BY DownloadsLeaveArchives DEF importVars
<1>2. /\ workers' \in [Workers -> Fetchers] /\ workers'[w] = Resting /\ permits' = permits \ {w}
      /\ \A v \in Workers : v # w => workers'[v] = workers[v]
  BY ImagesRest DEF WorkerEnds, PullsTyped
<1>3. /\ pulls' \in [Jobs -> Pulls]
      /\ \A j \in Jobs : /\ j # w => pulls'[j] = pulls[j]
                         /\ j = w => pulls'[j].over
  <2>1. CASE w \in Jobs
    <3> DEFINE k == [pulls[w] EXCEPT !.status = status, !.over = TRUE]
    <3>1. k \in Pulls /\ k.over
      BY <2>1 DEF PullsTyped, Pulls
    <3>2. pulls' = [pulls EXCEPT ![w] = k]
      BY <2>1 DEF WorkerEnds
    <3> HIDE DEF k
    <3> QED
      BY <2>1, <3>1, <3>2 DEF PullsTyped
  <2>2. CASE w \notin Jobs
    BY <2>2 DEF WorkerEnds, PullsTyped
  <2> QED
    BY <2>1, <2>2
<1>4. PullsTyped' /\ SharedTyped'
  BY <1>2, <1>3 DEF PullsTyped, SharedTyped
<1>5. FetchersAgree'
  BY <1>2, ImagesRest DEF FetchersAgree
<1>6. PermitsAgree'
  BY <1>1, <1>2, ImagesRest, ImageAssumption DEF PermitsAgree, Workers
<1>7. PullsInOrder'
  <2>1. Active' \subseteq Active /\ \A j \in Active' : j # w /\ pulls'[j] = pulls[j] /\ j \in Workers
    BY <1>3 DEF Active, Workers
  <2>2. IsFiniteSet(Active') /\ Cardinality(Active') <= Cardinality(Active)
    BY <2>1, FS_Subset DEF PullsInOrder
  <2>3. Cardinality(Active') \in Nat /\ Cardinality(Active) \in Nat
    BY <2>2, FS_CardinalityType DEF PullsInOrder
  <2>4. Cardinality(Active') <= MaxActive
    BY <2>2, <2>3, ImageAssumption DEF PullsInOrder, PlacesReturn
  <2> QED
    BY <1>2, <2>1, <2>2, <2>4 DEF PullsInOrder, PlacesReturn
<1> QED
  BY <1>1, <1>4, <1>5, <1>6, <1>7

\* A download that begins gets a permit while the runtime is not being released.
LEMMA FetcherBegins ==
  ASSUME ImageInv, NEW w \in Workers, NEW i \in Images, Worker(w, i), ~giving,
         permits' = permits \cup {w}, UNCHANGED <<importVars, names, giving>>
  PROVE  /\ ArchivesTyped' /\ TicketsAgree' /\ LoadIsHeld' /\ SharedTyped' /\ NamesServe'
         /\ FetchersAgree' /\ PermitsAgree'
         /\ workers' \in [Workers -> Fetchers] /\ workers'[w].at = "choose"
         /\ \A v \in Workers : v # w => workers'[v] = workers[v]
<1> USE DEF ImageInv, ImageTyped
<1>1. ArchivesTyped' /\ TicketsAgree' /\ LoadIsHeld' /\ UNCHANGED loading
  BY DownloadsLeaveArchives DEF importVars
<1> DEFINE f == [at |-> "choose", image |-> i, mirror |-> Nothing, left |-> Mirrors]
<1>2. f \in Fetchers /\ f.at = "choose" /\ f.image = i
  BY DEF Fetchers
<1>3. workers' = [workers EXCEPT ![w] = f]
  BY DEF Worker
<1> HIDE DEF f
<1>4. /\ workers' \in [Workers -> Fetchers] /\ workers'[w] = f
      /\ \A v \in Workers : v # w => workers'[v] = workers[v]
  BY <1>2, <1>3 DEF PullsTyped
<1>5. SharedTyped' /\ NamesServe'
  BY DEF SharedTyped, NamesServe, NameFits
<1>6. FetchersAgree'
  BY <1>2, <1>4 DEF FetchersAgree
<1>7. PermitsAgree'
  BY <1>1, <1>2, <1>4, ImageAssumption DEF PermitsAgree, Workers
<1> QED
  BY <1>1, <1>2, <1>4, <1>5, <1>6, <1>7

\* Places are given out while there are some, and never two for one image.
LEMMA BeginningKeeps ==
  ASSUME ImageInv, \/ \E j \in Jobs, i \in Images : StartPull(j, i)
                   \/ \E w \in Waiters, i \in Images : EnsureImage(w, i)
  PROVE  ImageInv'
<1> USE DEF ImageInv, ImageTyped
<1>1. ASSUME NEW j \in Jobs, NEW i \in Images, StartPull(j, i) PROVE ImageInv'
  <2> DEFINE k == [status |-> "running", image |-> i, over |-> FALSE]
  <2>1. k \in Pulls /\ k.status # "none" /\ ~k.over /\ k.image = i
    BY DEF Pulls
  <2>2. /\ pulls' = [pulls EXCEPT ![j] = k] /\ Worker(j, i) /\ permits' = permits \cup {j} /\ ~giving
        /\ ~Shared(i) /\ Cardinality(Active) < MaxActive /\ UNCHANGED <<importVars, names, giving>>
    BY <1>1 DEF StartPull
  <2> HIDE DEF k
  <2>3. j \in Workers
    BY DEF Workers
  <2>4. /\ ArchivesTyped' /\ TicketsAgree' /\ LoadIsHeld' /\ SharedTyped' /\ NamesServe'
        /\ FetchersAgree' /\ PermitsAgree'
        /\ workers' \in [Workers -> Fetchers] /\ workers'[j].at = "choose"
        /\ \A v \in Workers : v # j => workers'[v] = workers[v]
    BY <2>2, <2>3, FetcherBegins
  <2>5. /\ pulls' \in [Jobs -> Pulls] /\ pulls'[j] = k
        /\ \A l \in Jobs : l # j => pulls'[l] = pulls[l]
    BY <2>1, <2>2 DEF PullsTyped
  <2>6. Active' = Active \cup {j}
    BY <2>1, <2>5 DEF Active
  <2>7. IsFiniteSet(Active') /\ Cardinality(Active') <= MaxActive
    <3>1. Cardinality(Active) \in Nat
      BY FS_CardinalityType DEF PullsInOrder
    <3>2. IsFiniteSet(Active') /\ Cardinality(Active') <= Cardinality(Active) + 1
      BY <2>6, <3>1, FS_AddElement DEF PullsInOrder
    <3>3. Cardinality(Active') \in Nat
      BY <3>2, FS_CardinalityType
    <3> QED
      BY <2>2, <3>1, <3>2, <3>3, ImageAssumption
  <2>8. \A l, m \in Active' : l # m => pulls'[l].image # pulls'[m].image
    <3>1. \A l \in Active : pulls[l].image # i
      BY <2>2 DEF Shared
    <3>2. \A l \in Active : l \in Jobs
      BY DEF Active
    <3> QED
      BY <2>1, <2>5, <2>6, <3>1, <3>2 DEF PullsInOrder, PlacesReturn
  <2>9. \A l \in Active' : workers'[l].at # "off"
    <3>1. \A l \in Active : l \in Workers
      BY DEF Active, Workers
    <3> QED
      BY <2>4, <2>6, <3>1 DEF PullsInOrder, PlacesReturn
  <2> QED
    BY <2>4, <2>5, <2>7, <2>8, <2>9 DEF PullsTyped, PullsInOrder, PlacesReturn
<1>2. ASSUME NEW w \in Waiters, NEW i \in Images, EnsureImage(w, i) PROVE ImageInv'
  <2>1. /\ workers[w] = Resting /\ Worker(w, i) /\ permits' = permits \cup {w} /\ ~giving
        /\ UNCHANGED <<importVars, names, giving, pulls>> /\ w \in Workers
    BY <1>2 DEF EnsureImage, Workers
  <2>2. /\ ArchivesTyped' /\ TicketsAgree' /\ LoadIsHeld' /\ SharedTyped' /\ NamesServe'
        /\ FetchersAgree' /\ PermitsAgree'
        /\ workers' \in [Workers -> Fetchers] /\ workers'[w].at = "choose"
        /\ \A v \in Workers : v # w => workers'[v] = workers[v]
    BY <2>1, FetcherBegins
  <2>3. Active' = Active /\ \A l \in Active : l \in Workers
    BY <2>1 DEF Active, Workers
  <2> QED
    BY <2>1, <2>2, <2>3 DEF PullsTyped, PullsInOrder, PlacesReturn
<1> QED
  BY <1>1, <1>2

\* What is forgotten was over; what the application brings along fits.
LEMMA TableKeeps ==
  ASSUME ImageInv, \/ \E j \in Jobs : ForgetsPull(j)
                   \/ \E i \in Images : LoadBundled(i)
  PROVE  ImageInv'
<1> USE DEF ImageInv, ImageTyped
<1>1. /\ ArchivesTyped' /\ TicketsAgree' /\ LoadIsHeld' /\ UNCHANGED <<workers, permits, giving, loading>>
  BY DownloadsLeaveArchives DEF ForgetsPull, LoadBundled, importVars, pullVars
<1>2. FetchersAgree' /\ PermitsAgree'
  BY <1>1 DEF FetchersAgree, PermitsAgree
<1>3. ASSUME NEW j \in Jobs, ForgetsPull(j) PROVE ImageInv'
  <2> DEFINE k == [status |-> "none", image |-> Nothing, over |-> FALSE]
  <2>1. k \in Pulls
    BY DEF Pulls
  <2>2. pulls' = [pulls EXCEPT ![j] = k] /\ pulls[j].over /\ UNCHANGED names
    BY <1>3 DEF ForgetsPull
  <2>3. pulls' \in [Jobs -> Pulls] /\ Active' = Active /\ \A l \in Active : pulls'[l] = pulls[l]
    BY <2>1, <2>2 DEF PullsTyped, Active
  <2> QED
    BY <1>1, <1>2, <2>2, <2>3 DEF PullsTyped, SharedTyped, NamesServe, NameFits, PullsInOrder, PlacesReturn
<1>4. ASSUME NEW i \in Images, LoadBundled(i) PROVE ImageInv'
  <2>1. names' = [names EXCEPT !.local = [names.local EXCEPT ![i] = "right"]] /\ UNCHANGED pulls
    BY <1>4 DEF LoadBundled, pullVars
  <2>2. /\ names' \in Meanings /\ names'.mirror = names.mirror
        /\ names'.local = [names.local EXCEPT ![i] = "right"]
    BY <2>1 DEF SharedTyped, Meanings
  <2>3. SharedTyped' /\ NamesServe'
    BY <1>1, <2>2 DEF SharedTyped, NamesServe, NameFits, Meanings
  <2> QED
    BY <1>1, <1>2, <2>1, <2>3 DEF PullsTyped, PullsInOrder, PlacesReturn, Active
<1> QED
  BY <1>3, <1>4
\* A download that goes on from mirror to mirror and finds what it asked for.
LEMMA SearchKeeps ==
  ASSUME ImageInv, NEW w \in Workers, Chooses(w) \/ Inspects(w) \/ CutOff(w)
  PROVE  ImageInv'
<1> USE DEF ImageInv, ImageTyped
<1>1. /\ UNCHANGED <<importVars, names, giving>> /\ workers[w].at # "off" /\ workers[w] \in Fetchers
      /\ names' \in Meanings /\ NamesServe'
  BY DEF Chooses, Inspects, CutOff, PullsTyped, SharedTyped, NamesServe, NameFits
<1>2. CASE WorkerEnds(w, "error")
  BY <1>1, <1>2, FetcherEnds
<1>3. ASSUME NEW at \in {"choose", "tag", "refuse"}, WorkerGoes(w, at), Inspects(w),
             at = "tag" => ArchFits(w)
      PROVE  ImageInv'
  <2> DEFINE f == [workers[w] EXCEPT !.at = at]
  <2>1. f \in Fetchers /\ f.at = at /\ f.image = workers[w].image /\ f.mirror = workers[w].mirror
    BY <1>1 DEF Fetchers
  <2>2. workers' = [workers EXCEPT ![w] = f] /\ UNCHANGED <<pulls, permits>>
    BY <1>3 DEF WorkerGoes
  <2>3. workers[w].image \in Images /\ workers[w].mirror \in Mirrors
    BY <1>3 DEF Inspects, FetchersAgree
  <2>4. at = "tag" => workers[w].mirror \in RightMirrors
    BY <1>3, <2>3 DEF ArchFits, Source, NamesServe, Content, Nothing
  <2> HIDE DEF f
  <2> QED
    BY <1>1, <2>1, <2>2, <2>3, <2>4, FetcherMoves
<1>4. ASSUME NEW m \in workers[w].left,
             workers' = [workers EXCEPT ![w].at = "pull", ![w].mirror = m, ![w].left = @ \ {m}],
             UNCHANGED <<pulls, permits>>
      PROVE  ImageInv'
  <2> DEFINE f == [workers[w] EXCEPT !.at = "pull", !.mirror = m, !.left = workers[w].left \ {m}]
  <2>1. f \in Fetchers /\ f.at = "pull" /\ f.image = workers[w].image /\ f.mirror = m /\ m \in Mirrors
    BY <1>1 DEF Fetchers
  <2>2. workers' = [workers EXCEPT ![w] = f]
    BY <1>4
  <2> HIDE DEF f
  <2> QED
    BY <1>1, <1>4, <2>1, <2>2, FetcherMoves
<1> QED
  BY <1>2, <1>3, <1>4 DEF Chooses, Inspects, CutOff, NextMirror

\* What a mirror's name means is set by who fetches it, and removed; the image's own
\* name is given to what fits.
LEMMA NamingKeeps ==
  ASSUME ImageInv, NEW w \in Workers, Fetches(w) \/ Refuses(w) \/ Tags(w) \/ Cleans(w)
  PROVE  ImageInv'
<1> USE DEF ImageInv, ImageTyped
<1> DEFINE i == workers[w].image
           m == workers[w].mirror
<1>1. /\ UNCHANGED <<importVars, giving>> /\ workers[w].at # "off" /\ workers[w] \in Fetchers
      /\ i \in Images /\ m \in Mirrors
      /\ workers[w].at \in {"tag", "clean"} => m \in RightMirrors
      /\ Source(w) = <<i, m>>
  BY DEF Fetches, Refuses, Tags, Cleans, FetchersAgree, PullsTyped, Source
<1> HIDE DEF i, m
<1>2. /\ names.local \in [Images -> {Nothing, "right", "wrong"}]
      /\ names.mirror \in [Images \X Mirrors -> {Nothing, "right", "wrong"}]
      /\ names.template \in Tickets \cup {Nothing}
  BY DEF SharedTyped, Meanings
<1>3. names' \in Meanings /\ NamesServe'
  <2>1. CASE names' = names
    BY <2>1 DEF SharedTyped, NamesServe, NameFits
  <2>2. ASSUME NEW v \in {Nothing, Content(m)}, names' = [names EXCEPT !.mirror[Source(w)] = v]
        PROVE  names' \in Meanings /\ NamesServe'
    <3> DEFINE served == [names.mirror EXCEPT ![<<i, m>>] = v]
    <3>1. v \in {Nothing, "right", "wrong"}
      BY <2>2 DEF Content
    <3>2. served \in [Images \X Mirrors -> {Nothing, "right", "wrong"}]
      BY <1>2, <3>1
    <3>3. ASSUME NEW j \in Images, NEW n \in Mirrors PROVE served[<<j, n>>] \in {Nothing, Content(n)}
      <4>1. names.mirror[<<j, n>>] \in {Nothing, Content(n)} /\ <<j, n>> \in Images \X Mirrors
        BY DEF NamesServe
      <4>2. CASE j = i /\ n = m
        BY <1>2, <2>2, <4>1, <4>2
      <4>3. CASE ~(j = i /\ n = m)
        BY <1>2, <4>1, <4>3
      <4> QED
        BY <4>2, <4>3
    <3>4. names' = [names EXCEPT !.mirror = served]
      BY <1>1, <2>2
    <3> HIDE DEF served
    <3>5. names' \in Meanings /\ names'.mirror = served /\ names'.local = names.local
      BY <3>2, <3>4 DEF SharedTyped, Meanings
    <3> QED
      BY <3>3, <3>5 DEF NamesServe, NameFits
  <2>3. CASE /\ names' = [names EXCEPT !.local[workers[w].image] = names.mirror[Source(w)]]
             /\ names.mirror[Source(w)] # Nothing /\ m \in RightMirrors
    <3>1. names.mirror[<<i, m>>] = "right"
      BY <1>1, <2>3 DEF NamesServe, Content
    <3> DEFINE held == [names.local EXCEPT ![i] = "right"]
    <3>2. held \in [Images -> {Nothing, "right", "wrong"}]
      BY <1>2
    <3>3. \A j \in Images : held[j] # "wrong"
      BY <1>2 DEF NamesServe, NameFits
    <3>4. names' = [names EXCEPT !.local = held]
      BY <1>1, <2>3, <3>1 DEF i
    <3> HIDE DEF held
    <3>5. names' \in Meanings /\ names'.mirror = names.mirror /\ names'.local = held
      BY <3>2, <3>4 DEF SharedTyped, Meanings
    <3> QED
      BY <3>3, <3>5 DEF NamesServe, NameFits
  <2>4. CASE Fetches(w)
    <3>1. (IF workers[w].mirror \in RightMirrors THEN "right" ELSE "wrong") = Content(m)
      BY DEF Content, m
    <3> QED
      BY <2>1, <2>2, <2>4, <3>1 DEF Fetches
  <2>5. CASE Refuses(w) \/ Cleans(w)
    BY <2>1, <2>2, <2>5 DEF Refuses, Cleans
  <2>6. CASE Tags(w)
    BY <1>1, <2>1, <2>3, <2>6 DEF Tags
  <2> QED
    BY <2>4, <2>5, <2>6
<1>4. CASE Cleans(w)
  BY <1>1, <1>3, <1>4, FetcherEnds DEF Cleans
<1>5. ASSUME NEW at \in {"choose", "inspect", "clean"}, WorkerGoes(w, at), at = "clean" => workers[w].at = "tag"
      PROVE  ImageInv'
  <2> DEFINE f == [workers[w] EXCEPT !.at = at]
  <2>1. f \in Fetchers /\ f.at = at /\ f.image = workers[w].image /\ f.mirror = m
    BY <1>1 DEF Fetchers, m
  <2>2. workers' = [workers EXCEPT ![w] = f] /\ UNCHANGED <<pulls, permits>>
    BY <1>5 DEF WorkerGoes
  <2> HIDE DEF f
  <2> QED
    BY <1>1, <1>3, <1>5, <2>1, <2>2, FetcherMoves
<1>6. CASE Fetches(w) \/ Refuses(w)
  BY <1>5, <1>6 DEF Fetches, Refuses, NextMirror
<1>7. CASE Tags(w)
  BY <1>5, <1>7 DEF Tags, NextMirror
<1> QED
  BY <1>4, <1>6, <1>7

\* The runtime is released when nobody holds a permit, and the template's name may
\* move at any time.
LEMMA OutsideKeeps ==
  ASSUME ImageInv, Releases \/ NameMoves
  PROVE  ImageInv'
<1> USE DEF ImageInv, ImageTyped
<1>1. /\ UNCHANGED <<importVars, pulls, workers, permits>>
      /\ names' = names \/ \E t \in Tickets \cup {Nothing} : names' = [names EXCEPT !.template = t]
      /\ giving' = giving \/ (giving' = ~giving /\ (giving \/ permits = {}))
  BY DEF Releases, NameMoves, pullVars
<1>2. names' \in Meanings /\ names'.local = names.local /\ names'.mirror = names.mirror
  BY <1>1 DEF SharedTyped, Meanings
<1>3. ArchivesTyped' /\ TicketsAgree' /\ LoadIsHeld' /\ UNCHANGED loading
  BY <1>1, DownloadsLeaveArchives DEF importVars
<1>4. PullsTyped' /\ NamesServe' /\ FetchersAgree' /\ PullsInOrder'
  BY <1>1, <1>2, ArchivesLeavePulls DEF ArchiveStep
<1>5. giving' \in BOOLEAN
  BY <1>1 DEF SharedTyped
<1>6. CASE giving'
  <2>1. permits = {}
    BY <1>1, <1>6 DEF PermitsAgree
  <2> QED
    BY <1>1, <1>2, <1>3, <1>4, <1>5, <2>1 DEF SharedTyped, PermitsAgree
<1>7. CASE ~giving'
  BY <1>1, <1>2, <1>3, <1>4, <1>5, <1>7 DEF SharedTyped, PermitsAgree
<1> QED
  BY <1>6, <1>7

\* Every step of the archives and the downloads keeps the invariant.
LEMMA ImageKeeps ==
  ASSUME ImageInv, [ImageNext]_imageVars
  PROVE  ImageInv'
<1>1. CASE UNCHANGED imageVars
  BY <1>1 DEF imageVars, importVars, pullVars, ImageInv, ImageTyped, ArchivesTyped, PullsTyped, SharedTyped,
              TicketsAgree, TicketAgrees, Listed, LoadIsHeld, NamesServe, NameFits, FetchersAgree,
              PullsInOrder, PlacesReturn, Active, PermitsAgree
<1>2. CASE ImportNext
  BY <1>2, PreviewKeeps, ConfirmKeeps, TakeKeeps, LoadKeeps DEF ImportNext
<1>3. CASE PullNext
  BY <1>3, TableKeeps, BeginningKeeps, SearchKeeps, NamingKeeps DEF PullNext
<1> QED
  BY <1>1, <1>2, <1>3, OutsideKeeps DEF ImageNext, ArchiveNext, DownloadNext

\* The invariant of the archives and downloads for every number of tickets, handlers,
\* images, mirrors and failures: LOAD, the places and the permits are held by who
\* needs them and by nobody else (image_import.rs, preflight.rs, docker.rs).
THEOREM ImageInvariance == ImageSpec => []ImageInv
<1>1. ImageInv /\ [ImageNext]_imageVars => ImageInv'
  BY ImageKeeps
<1> QED
  BY ImageInvInit, <1>1, PTL DEF ImageSpec

\* An archive is loaded once, stays listed while it loads and is called done only when
\* Docker names it; no name is given to an image of another architecture; places come
\* back; and the runtime is not released meanwhile (image_import.rs: confirm, load;
\* preflight.rs: PullTasks).
THEOREM ImagesAreKept == ImageSpec => ImagesKept
<1>1. ImageInv => ImagesInOrder
  <2> SUFFICES ASSUME ImageInv PROVE ImagesInOrder
    OBVIOUS
  <2>1. ImportedOnce
    BY DEF ImageInv, TicketsAgree, TicketAgrees, LoadIsHeld, ImportedOnce
  <2>2. NameFits /\ PlacesReturn
    BY DEF ImageInv, NamesServe, PullsInOrder
  <2>3. NotReleasedMeanwhile
    BY DEF ImageInv, ImageTyped, ArchivesTyped, Loadings, PermitsAgree, NotReleasedMeanwhile
  <2> QED
    BY <2>1, <2>2, <2>3 DEF ImagesInOrder
<1>2. ASSUME ImageInv, ImageNext, NEW t \in Tickets, tickets[t].status # "done", tickets'[t].status = "done"
      PROVE  names.template = t
  <2>1. tickets \in [Tickets -> TicketsOf] /\ tickets' # tickets
    BY <1>2 DEF ImageInv, ImageTyped, ArchivesTyped
  <2>2. ~PullNext /\ ~Releases /\ ~NameMoves
    BY <2>1 DEF PullNext, Releases, NameMoves, importVars, ForgetsPull, StartPull, LoadBundled, EnsureImage,
                Chooses, Fetches, Inspects, Refuses, Tags, Cleans, CutOff
  <2>3. ASSUME NEW u \in Tickets, NEW k \in TicketsOf \cup {[status |-> "preview", listed |-> TRUE, file |-> TRUE]},
               k.status # "done", tickets' = [tickets EXCEPT ![u] = k]
        PROVE  FALSE
    BY <1>2, <2>1, <2>3
  <2>4. ASSUME NEW u \in Tickets, Preview(u) \/ PreviewReady(u) \/ Forgets(u) PROVE FALSE
    BY <1>2, <2>1, <2>4 DEF Preview, PreviewReady, Forgets, TicketsOf
  <2>5. ASSUME NEW c \in Confirmers, NEW u \in Tickets, ConfirmLooks(c, u) PROVE FALSE
    BY <2>1, <2>5 DEF ConfirmLooks
  <2>6. ASSUME NEW c \in Confirmers, ConfirmHolds(c) \/ ConfirmTakes(c) PROVE FALSE
    BY <1>2, <2>1, <2>6 DEF ConfirmHolds, ConfirmTakes, TicketsOf
  <2>7. LoadCompares \/ LoadSends \/ LoadReadsBack
    BY <1>2, <2>2, <2>4, <2>5, <2>6 DEF ImageNext, ArchiveNext, DownloadNext, ImportNext
  <2>8. \/ LoadEnds("done") /\ Matches
        \/ LoadEnds("error") \/ \E at \in {"import", "readback"} : LoadGoes(at)
    BY <2>7 DEF LoadCompares, LoadSends, LoadReadsBack, LoadConfirmed
  <2>9. ~LoadEnds("error") /\ \A at \in {"import", "readback"} : ~LoadGoes(at)
    BY <1>2, <2>1 DEF LoadEnds, LoadGoes, TicketsOf
  <2>10. loading.t = t
    BY <1>2, <2>1, <2>8, <2>9 DEF LoadEnds, TicketsOf
  <2> QED
    BY <2>8, <2>9, <2>10 DEF Matches
<1>3. ASSUME ImageInv, [ImageNext]_imageVars
      PROVE  [\A t \in Tickets : tickets[t].status # "done" /\ tickets'[t].status = "done" =>
                 names.template = t]_imageVars
  BY <1>2, <1>3
<1>4. ImageSpec => DoneIsConfirmed
  BY ImageInvariance, <1>3, PTL DEF ImageSpec, DoneIsConfirmed
<1>5. ASSUME ImageInv, ImageNext, NEW t \in Tickets, tickets[t].listed, tickets[t].status = "loading"
      PROVE  tickets'[t].listed
  <2>1. tickets \in [Tickets -> TicketsOf]
    BY <1>5 DEF ImageInv, ImageTyped, ArchivesTyped
  <2>2. CASE UNCHANGED tickets
    BY <1>5, <2>2
  <2>3. ASSUME NEW u \in Tickets, Preview(u) \/ PreviewReady(u) \/ Forgets(u) PROVE tickets'[t].listed
    BY <1>5, <2>1, <2>3 DEF Preview, PreviewReady, Forgets, TicketsOf
  <2>4. ASSUME NEW c \in Confirmers, ConfirmHolds(c) \/ ConfirmTakes(c) PROVE tickets'[t].listed
    BY <1>5, <2>1, <2>4 DEF ConfirmHolds, ConfirmTakes, TicketsOf
  <2>5. CASE LoadCompares \/ LoadSends \/ LoadReadsBack
    <3>1. \/ \E status \in {"done", "error"} : LoadEnds(status)
          \/ \E at \in {"import", "readback"} : LoadGoes(at)
      BY <2>5 DEF LoadCompares, LoadSends, LoadReadsBack
    <3> QED
      BY <1>5, <2>1, <3>1 DEF LoadEnds, LoadGoes, TicketsOf
  <2>6. \/ UNCHANGED tickets
        \/ \E u \in Tickets : Preview(u) \/ PreviewReady(u) \/ Forgets(u)
        \/ \E c \in Confirmers : ConfirmHolds(c) \/ ConfirmTakes(c)
        \/ LoadCompares \/ LoadSends \/ LoadReadsBack
    BY <1>5 DEF ImageNext, ArchiveNext, DownloadNext, ImportNext, PullNext, Releases, NameMoves, importVars,
                ConfirmLooks, ForgetsPull, StartPull, LoadBundled, EnsureImage, Chooses, Fetches, Inspects,
                Refuses, Tags, Cleans, CutOff
  <2> QED
    BY <2>2, <2>3, <2>4, <2>5, <2>6
<1>6. ASSUME ImageInv, [ImageNext]_imageVars
      PROVE  [\A t \in Tickets : tickets[t].listed /\ tickets[t].status = "loading" =>
                 tickets'[t].listed]_imageVars
  BY <1>5, <1>6
<1>7. ImageSpec => LoadIsFollowed
  BY ImageInvariance, <1>6, PTL DEF ImageSpec, LoadIsFollowed
<1> QED
  BY ImageInvariance, <1>1, <1>4, <1>7, PTL DEF ImagesKept

-----------------------------------------------------------------------------
(* RuntimeStart *)

Steps == {"no", "look", "docker", "network", "guard", "stops", "kernel", "create", "deliver", "launch",
          "tunnel", "ctrl"}
Guarded == {"stops", "kernel", "create", "deliver", "launch", "tunnel", "ctrl"}
Releasing == {"list", "stop", "drop", "machine"}
Machines == [on : BOOLEAN, guarded : BOOLEAN]
Kernels == [state : {"none", "created", "up"}, publishes : BOOLEAN, file : BOOLEAN]
Saves == [resume : SUBSET HostChannels, login : BOOLEAN]
Pages == [at : {"no", "open", "clear", "connect"}, ids : SUBSET HostChannels]
Starts == [at : Steps, count : 0 .. MaxStarts]
Restarting == [at : {"no", "ensure", "connect", "done"} \cup Releasing, ids : SUBSET HostChannels,
               used : SUBSET HostChannels, failed : SUBSET HostChannels, calm : BOOLEAN,
               count : 0 .. MaxRestarts]
Quittings == [at : {"no", "remember", "quiesce", "containers", "machine", "over"},
              used : SUBSET HostChannels, calm : BOOLEAN]

BasesTyped ==
  /\ machine \in Machines /\ bridge \in {"none", "own", "foreign"} /\ kernel \in Kernels
  /\ tunnel \in BOOLEAN /\ linked \in BOOLEAN
ChansTyped ==
  /\ alive \subseteq HostChannels /\ intents \subseteq HostChannels
  /\ row \in [HostChannels -> {"stopped", "running", "error"}]
SavedTyped ==
  /\ settings \in Saves /\ item \in BOOLEAN /\ resume \subseteq HostChannels /\ page \in Pages
FlowsTyped ==
  /\ stage \in {"dormant", "starting", "ready", "failed", "releasing"} /\ task \in Starts
  /\ asks \in [HostChannels -> {"none", "start", "stop"}]
  /\ restart \in Restarting /\ quitting \in Quittings
HostTyped == BasesTyped /\ ChansTyped /\ SavedTyped /\ FlowsTyped /\ hostFaults \in 0 .. MaxHostFaults

\* What the stage says is what goes on, and a release meets no handler.
StagesAgree ==
  /\ task.at # "no" <=> stage = "starting"
  /\ restart.at \in Releasing <=> stage = "releasing"
  /\ stage = "releasing" => \A c \in HostChannels : asks[c] = "none"

\* A kernel gets its network and its file before it is started.
KernelAgrees ==
  /\ KernelIsWhole
  /\ task.at \in {"create", "deliver", "launch"} => bridge = "own"
  /\ task.at = "launch" => kernel.file

\* A machine that is on since its guard was applied has it, and what serves is whole.
ServesWhole ==
  /\ task.at \in Guarded /\ machine.on => machine.guarded
  /\ stage = "ready" /\ machine.on => machine.guarded /\ Controllable

\* Where a restart stands, as long as neither the user nor a dead machine has met it:
\* what was in use is still in use, or to be connected, or connected, or failed.
RestartAgrees ==
  restart.calm =>
    /\ stage = "ready" => machine.on
    /\ restart.at # "no" => quitting.at = "no" /\ restart.used \cap intents = {}
    /\ restart.at = "list" => restart.used = InUse
    /\ restart.at \in {"stop", "drop", "machine", "ensure"} => restart.used \subseteq restart.ids
    /\ restart.at \in {"connect", "done"} =>
         stage = "ready" /\ restart.used \subseteq alive \cup restart.failed \cup restart.ids
    /\ restart.at = "done" => restart.ids = {}

\* A quitting that met nothing under way meets nothing later.
QuitAgrees ==
  quitting.at # "no" /\ quitting.calm =>
    /\ ~InFlight /\ update = <<>>
    /\ quitting.at = "remember" => quitting.used = InUse
    /\ quitting.at # "remember" => quitting.used = settings.resume

\* Whoever holds the lock of the settings has read what is there.
SettingsAgree ==
  /\ update = <<>> \/ (update = <<settings>> /\ item = ~settings.login)
  /\ NothingUndone

HostInv ==
  HostTyped /\ StagesAgree /\ KernelAgrees /\ ServesWhole /\ RestartAgrees /\ QuitAgrees /\ SettingsAgree

\* A tuple of one value holds that value.
LEMMA OneHeld == ASSUME NEW x PROVE <<x>> # <<>> /\ <<x>>[1] = x
OBVIOUS

\* The types of the proof are those the runs check.
LEMMA HostTypes ==
  HostTyped /\ SettingsAgree => HostTypeOK
BY DEF HostTyped, BasesTyped, ChansTyped, SavedTyped, FlowsTyped, HostTypeOK, Machines, Kernels, Saves,
       Pages, Starts, Restarting, SettingsAgree

\* Nothing runs at first.
LEMMA HostInvInit == HostInit => HostInv
<1> SUFFICES ASSUME HostInit PROVE HostInv
  OBVIOUS
<1>1. BasesTyped
  <2>1. kernel \in Kernels
    <3>1. NoKernel \in Kernels /\ [state |-> "up", publishes |-> TRUE, file |-> TRUE] \in Kernels
      BY DEF Kernels, NoKernel
    <3> QED
      BY <3>1 DEF HostInit
  <2>2. machine \in Machines
    BY DEF HostInit, Machines, Off
  <2> QED
    BY <2>1, <2>2 DEF HostInit, BasesTyped
<1>2. ChansTyped /\ SavedTyped
  BY DEF HostInit, ChansTyped, SavedTyped, Saves, Pages, NoPage
<1>3. FlowsTyped /\ hostFaults \in 0 .. MaxHostFaults
  BY HostConstants DEF HostInit, FlowsTyped, Starts, Steps, Restarting, Quittings, NoRestart, NoQuit
<1>4. StagesAgree /\ KernelAgrees /\ ServesWhole /\ RestartAgrees /\ QuitAgrees /\ SettingsAgree
  BY DEF HostInit, StagesAgree, KernelAgrees, KernelIsWhole, ServesWhole, RestartAgrees, QuitAgrees,
         SettingsAgree, NothingUndone, Off, NoKernel, NoRestart, NoQuit, Releasing, Guarded
<1> QED
  BY <1>1, <1>2, <1>3, <1>4 DEF HostInv, HostTyped

\* The machine, the network, the kernel and the connections.
LEMMA BasesKeep ==
  ASSUME HostTyped, HostNext
  PROVE  BasesTyped'
<1> USE DEF HostTyped
<1>1. CASE UNCHANGED bases
  BY <1>1 DEF bases, BasesTyped
<1>2. CASE StartStep
  <2>1. machine' \in Machines
    BY <1>2 DEF BasesTyped, StartStep, StartBegins, Boot, Connect, Network, Guard, RecoverStops, EnsureKernel,
       MakeKernel, Forward, StartReady, StartBreaks, Goto, bases, Machines
  <2>2. kernel' \in Kernels
    BY <1>2 DEF BasesTyped, StartStep, StartBegins, Boot, Connect, Network, Guard, RecoverStops, EnsureKernel,
       MakeKernel, Forward, StartReady, StartBreaks, Goto, bases, Kernels, NoKernel
  <2>3. bridge' \in {"none", "own", "foreign"} /\ tunnel' \in BOOLEAN /\ linked' \in BOOLEAN
    BY <1>2 DEF BasesTyped, StartStep, StartBegins, Boot, Connect, Network, Guard, RecoverStops, EnsureKernel,
       MakeKernel, Forward, StartReady, StartBreaks, Goto, bases
  <2> QED
    BY <2>1, <2>2, <2>3 DEF BasesTyped
<1>3. CASE RestartDrops \/ RestartMachine \/ RestartBreaks \/ MachineStep \/ Dies \/ MachineDies
  <2>1. machine' \in Machines
    <3>1. Off \in Machines
      BY DEF Machines, Off
    <3>2. machine' = machine \/ machine' = Off
      BY <1>3 DEF RestartDrops, RestartMachine, RestartBreaks, MachineStep, Dies, MachineDies
    <3> QED
      BY <3>1, <3>2 DEF BasesTyped
  <2> QED
    BY <1>3, <2>1 DEF BasesTyped, RestartDrops, RestartMachine, RestartBreaks, MachineStep, Dies, MachineDies,
       ProcessEnds
<1>4. HandlerStep \/ SettingsStep => UNCHANGED bases
  BY DEF HandlerStep, SettingsStep, Ask, StartHandler, StopHandler, LoginBegins, LoginSaved, PageReads,
     PageClears, PageConnects
<1>5. RestartStarts \/ RestartLists \/ RestartStops \/ RestartEnsured \/ RestartConnects \/ RestartEnds
        => UNCHANGED bases
  BY DEF RestartStarts, RestartLists, RestartStops, RestartEnsured, RestartConnects, RestartEnds
<1>6. QuitBegins \/ RememberStep \/ QuiesceStep \/ ContainersStep \/ Opens => UNCHANGED bases
  BY DEF QuitBegins, RememberStep, QuiesceStep, ContainersStep, Opens
<1> QED
  BY <1>1, <1>2, <1>3, <1>4, <1>5, <1>6 DEF HostNext, RestartStep, QuitGoesOn

\* Rows, containers and saved stops.
LEMMA ChansKeep ==
  ASSUME HostTyped, HostNext
  PROVE  ChansTyped'
<1> USE DEF HostTyped
<1>1. CASE UNCHANGED chans
  BY <1>1 DEF chans, ChansTyped
<1>2. ASSUME NEW c \in HostChannels, Started(c) PROVE ChansTyped'
  BY <1>2 DEF Started, ChansTyped
<1>3. ASSUME NEW c \in HostChannels, NotStarted(c) PROVE ChansTyped'
  BY <1>3 DEF NotStarted, ChansTyped
<1>4. ASSUME NEW c \in HostChannels, StopHandler(c) PROVE ChansTyped'
  BY <1>4 DEF StopHandler, ChansTyped
<1>5. ASSUME NEW good, NEW gone, StopAll(good, gone) PROVE ChansTyped'
  BY <1>5 DEF StopAll, ChansTyped
<1>6. CASE RecoverStops
  BY <1>6 DEF RecoverStops, ChansTyped
<1>7. StartStep => UNCHANGED chans \/ RecoverStops
  BY DEF StartStep, StartBegins, Boot, Connect, Network, Guard, EnsureKernel, MakeKernel, Forward,
     StartReady, StartBreaks, Goto
<1>8. SettingsStep => UNCHANGED chans
  BY DEF SettingsStep, LoginBegins, LoginSaved, PageReads, PageClears, PageConnects
<1>9. HandlerStep => UNCHANGED chans \/ \E c \in HostChannels : Started(c) \/ NotStarted(c) \/ StopHandler(c)
  BY DEF HandlerStep, Ask, StartHandler
<1>10. RestartStep => \/ UNCHANGED chans \/ \E good, gone : StopAll(good, gone)
                      \/ \E c \in restart.ids : Started(c) \/ NotStarted(c)
  BY DEF RestartStep, RestartStarts, RestartLists, RestartStops, RestartDrops, RestartMachine, RestartBreaks,
     RestartEnsured, RestartConnects, RestartEnds
<1>11. restart.ids \subseteq HostChannels
  BY DEF FlowsTyped, Restarting
<1>12. QuitGoesOn => UNCHANGED chans \/ \E good, gone : StopAll(good, gone)
  BY DEF QuitGoesOn, QuitBegins, RememberStep, QuiesceStep, ContainersStep, MachineStep, Dies, Opens, MachineDies
<1> QED
  BY <1>1, <1>2, <1>3, <1>4, <1>5, <1>6, <1>7, <1>8, <1>9, <1>10, <1>11, <1>12 DEF HostNext

\* What the settings, the login item and a window can be.
LEMMA SavedKeep ==
  ASSUME HostTyped, SettingsAgree, HostNext
  PROVE  SavedTyped'
<1> USE DEF HostTyped
<1>1. CASE UNCHANGED <<settings, item, resume, page>>
  BY <1>1 DEF SavedTyped
<1>2. InUse \subseteq HostChannels /\ {} \subseteq HostChannels
  BY DEF InUse
<1>3. ASSUME NEW ids \in SUBSET HostChannels, Remembers(ids)
      PROVE  settings' \in Saves /\ item' \in BOOLEAN /\ resume' \subseteq HostChannels
  BY <1>3 DEF Remembers, SavedTyped, Saves
<1>4. update # <<>> => update[1] = settings
  BY OneHeld DEF SettingsAgree
<1>5. CASE LoginBegins \/ LoginSaved
  <2>1. settings' \in Saves
    BY <1>4, <1>5 DEF LoginBegins, LoginSaved, SavedTyped, Saves
  <2>2. item' \in BOOLEAN
    BY <1>4, <1>5 DEF LoginBegins, LoginSaved, SavedTyped, Saves, Undone
  <2> QED
    BY <1>5, <2>1, <2>2 DEF LoginBegins, LoginSaved, SavedTyped
<1>6. CASE PageReads \/ PageClears \/ PageConnects \/ MachineStep \/ Dies \/ Opens
  <2>1. page' \in Pages
    BY <1>6 DEF PageReads, PageClears, PageConnects, MachineStep, Dies, Opens, ProcessEnds, NoPage, Pages,
                SavedTyped, Saves
  <2>2. settings' \in Saves /\ item' \in BOOLEAN /\ resume' \subseteq HostChannels
    BY <1>2, <1>3, <1>6 DEF PageReads, PageClears, PageConnects, MachineStep, Dies, Opens, SavedTyped
  <2> QED
    BY <2>1, <2>2 DEF SavedTyped
<1>7. CASE RestartLists \/ RememberStep
  BY <1>2, <1>3, <1>7 DEF RestartLists, RememberStep, SavedTyped
<1>8. StartStep \/ HandlerStep => UNCHANGED <<settings, item, resume, page>>
  BY DEF StartStep, StartBegins, Boot, Connect, Network, Guard, RecoverStops, EnsureKernel, MakeKernel, Forward,
     StartReady, StartBreaks, Goto, HandlerStep, Ask, StartHandler, StopHandler, saved
<1>9. RestartStep => RestartLists \/ UNCHANGED <<settings, item, resume, page>>
  BY DEF RestartStep, RestartStarts, RestartStops, RestartDrops, RestartMachine, RestartBreaks,
     RestartEnsured, RestartConnects, RestartEnds, saved
<1>10. QuitBegins \/ QuiesceStep \/ ContainersStep \/ MachineDies => UNCHANGED <<settings, item, resume, page>>
  BY DEF QuitBegins, QuiesceStep, ContainersStep, MachineDies, saved
<1> QED
  BY <1>1, <1>5, <1>6, <1>7, <1>8, <1>9, <1>10 DEF HostNext, SettingsStep, QuitGoesOn
\* Stage, start task, handlers, restart and quitting.
LEMMA FlowsKeep ==
  ASSUME HostTyped, HostNext
  PROVE  FlowsTyped' /\ hostFaults' \in 0 .. MaxHostFaults
<1> USE DEF HostTyped
<1>1. hostFaults' \in 0 .. MaxHostFaults
  <2>1. hostFaults' = hostFaults \/ Breaks
    BY DEF HostNext, StartStep, StartBegins, Boot, Connect, Network, Guard, RecoverStops, EnsureKernel, MakeKernel,
       Forward, StartReady, StartBreaks, Goto, HandlerStep, Ask, StartHandler, StopHandler, Started, NotStarted,
       SettingsStep, LoginBegins, LoginSaved, PageReads, PageClears, PageConnects, RestartStep, RestartStarts,
       RestartLists, RestartStops, RestartDrops, RestartMachine, RestartBreaks, RestartEnsured, RestartConnects,
       RestartEnds, QuitGoesOn, QuitBegins, RememberStep, QuiesceStep, ContainersStep, MachineStep, Dies, Opens,
       MachineDies, Succeeds
  <2> QED
    BY SMTT(30), <2>1, HostConstants DEF Breaks
<1>2. InUse \subseteq HostChannels
  BY DEF InUse
<1>3. ASSUME NEW x \in HostChannels PROVE restart.ids \ {x} \subseteq HostChannels /\ restart.failed \cup {x} \subseteq HostChannels
  BY DEF FlowsTyped, Restarting
<1>4. CASE StartStep
  <2>1. CASE StartBegins
    <3>1. task' \in Starts
      BY <2>1, HostConstants DEF StartBegins, FlowsTyped, Starts, Steps
    <3> QED
      BY <1>1, <2>1, <3>1 DEF StartBegins, FlowsTyped
  <2>2. CASE \E step \in Steps : Goto(step)
    BY <1>1, <2>2 DEF Goto, FlowsTyped, Starts
  <2>3. CASE RecoverStops
    BY <1>1, <2>3 DEF RecoverStops, FlowsTyped, Starts, Steps
  <2>4. CASE StartReady
    <3>1. task' \in Starts /\ restart' \in Restarting
      BY <2>4 DEF StartReady, FlowsTyped, Starts, Steps, Restarting
    <3> QED
      BY <1>1, <2>4, <3>1 DEF StartReady, FlowsTyped
  <2>5. CASE StartBreaks
    <3>1. task' \in Starts /\ asks' \in [HostChannels -> {"none", "start", "stop"}] /\ stage' = "failed"
      BY <2>5 DEF StartBreaks, FlowsTyped, Starts, Steps
    <3>2. restart' \in Restarting
      <4>1. CASE UNCHANGED restart \/ restart' = [restart EXCEPT !.at = "no"]
        BY <4>1 DEF FlowsTyped, Restarting
      <4>2. ASSUME NEW c \in restart.ids,
                   restart' = [restart EXCEPT !.ids = @ \ {c}, !.failed = @ \cup {c}]
            PROVE  restart' \in Restarting
        BY <4>2 DEF FlowsTyped, Restarting
      <4> QED
        BY <2>5, <4>1, <4>2 DEF StartBreaks
    <3> QED
      BY <1>1, <2>5, <3>1, <3>2 DEF StartBreaks, FlowsTyped
  <2>6. Boot \/ Connect \/ Network \/ Guard \/ EnsureKernel \/ MakeKernel \/ Forward => \E step \in Steps : Goto(step)
    BY DEF Boot, Connect, Network, Guard, EnsureKernel, MakeKernel, Forward, Steps
  <2> QED
    BY <1>4, <2>1, <2>2, <2>3, <2>4, <2>5, <2>6 DEF StartStep
<1>5. CASE HandlerStep \/ SettingsStep
  <2>1. asks' \in [HostChannels -> {"none", "start", "stop"}]
    BY <1>5 DEF HandlerStep, SettingsStep, Ask, StartHandler, StopHandler, LoginBegins, LoginSaved, PageReads,
       PageClears, PageConnects, FlowsTyped, flows, SavedTyped, Pages
  <2>2. restart' \in Restarting
    BY <1>5 DEF HandlerStep, SettingsStep, Ask, StartHandler, StopHandler, LoginBegins, LoginSaved, PageReads,
       PageClears, PageConnects, FlowsTyped, flows, Restarting
  <2>3. UNCHANGED <<stage, task, quitting>>
    BY <1>5 DEF HandlerStep, SettingsStep, Ask, StartHandler, StopHandler, LoginBegins, LoginSaved, PageReads,
       PageClears, PageConnects, flows
  <2> QED
    BY <1>1, <2>1, <2>2, <2>3 DEF FlowsTyped
<1>6. CASE RestartStep
  <2>1. restart' \in Restarting
    <3>1. CASE RestartStarts
      <4>1. restart.count + 1 \in 0 .. MaxRestarts
        BY <3>1, HostConstants DEF RestartStarts, FlowsTyped, Restarting
      <4> HIDE DEF InUse
      <4>2. restart' = [NoRestart EXCEPT !.at = "list", !.used = InUse, !.count = restart.count + 1]
        BY <3>1 DEF RestartStarts
      <4> QED
        BY <1>2, <4>1, <4>2 DEF Restarting, NoRestart, Releasing
    <3>2. CASE RestartLists \/ RestartStops \/ RestartDrops \/ RestartMachine \/ RestartBreaks \/ RestartEnsured \/ RestartEnds
      BY ZenonT(40), <1>2, <3>2 DEF RestartLists, RestartStops, RestartDrops, RestartMachine, RestartBreaks, RestartEnsured,
         RestartEnds, FlowsTyped, Restarting, Releasing
    <3>3. CASE RestartConnects
      <4>1. PICK c \in restart.ids : \/ restart' = [restart EXCEPT !.ids = @ \ {c}]
                                     \/ restart' = [restart EXCEPT !.ids = @ \ {c}, !.failed = @ \cup {c}]
        BY <3>3 DEF RestartConnects
      <4>2. restart.ids \ {c} \subseteq HostChannels /\ restart.failed \cup {c} \subseteq HostChannels
        BY DEF FlowsTyped, Restarting
      <4>3. restart.ids \ {c} \in SUBSET HostChannels /\ restart.failed \cup {c} \in SUBSET HostChannels
        BY <4>2
      <4> DEFINE gone == restart.ids \ {c}
                 lost == restart.failed \cup {c}
      <4>4. CASE restart' = [restart EXCEPT !.ids = gone]
        <5> HIDE DEF gone, lost
        <5> QED
          BY <4>3, <4>4 DEF gone, FlowsTyped, Restarting
      <4>5. CASE restart' = [restart EXCEPT !.ids = gone, !.failed = lost]
        <5> HIDE DEF gone, lost
        <5> QED
          BY <4>3, <4>5 DEF gone, lost, FlowsTyped, Restarting
      <4> QED
        BY <4>1, <4>4, <4>5
    <3> QED
      BY <1>6, <3>1, <3>2, <3>3 DEF RestartStep
  <2>2. UNCHANGED <<task, asks, quitting>> /\ stage' \in {stage, "releasing", "dormant", "failed"}
    BY <1>6 DEF RestartStep, RestartStarts, RestartLists, RestartStops, RestartDrops, RestartMachine, RestartBreaks,
       RestartEnsured, RestartConnects, RestartEnds
  <2> QED
    BY <1>1, <2>1, <2>2 DEF FlowsTyped
<1>7. CASE QuitGoesOn
  <2>1. CASE MachineStep \/ Dies
    <3>1. task' \in Starts /\ restart' \in Restarting
      BY ZenonT(40), <2>1 DEF MachineStep, Dies, ProcessEnds, FlowsTyped, Starts, Steps, Restarting, NoRestart
    <3>2. quitting' \in Quittings
      BY <2>1 DEF MachineStep, Dies, QuitGoes, FlowsTyped, Quittings, NoQuit
    <3>3. stage' = "dormant" /\ asks' = [c \in HostChannels |-> "none"]
      BY <2>1 DEF MachineStep, Dies, ProcessEnds
    <3> QED
      BY <1>1, <3>1, <3>2, <3>3 DEF FlowsTyped
  <2>2. CASE QuitBegins \/ RememberStep \/ QuiesceStep \/ ContainersStep \/ Opens \/ MachineDies
    <3>1. quitting' \in Quittings
      <4>1. CASE QuitBegins
        <5>1. (~InFlight /\ update = <<>>) \in BOOLEAN
          OBVIOUS
        <5> DEFINE calm == ~InFlight /\ update = <<>>
        <5>2. quitting' = [at |-> "remember", used |-> InUse, calm |-> calm]
          BY <4>1 DEF QuitBegins
        <5> HIDE DEF calm, InUse
        <5>3. calm \in BOOLEAN
          BY <5>1 DEF calm
        <5> QED
          BY <1>2, <5>2, <5>3 DEF Quittings
      <4>2. CASE RememberStep \/ QuiesceStep \/ ContainersStep \/ Opens \/ MachineDies
        <5>1. NoQuit \in Quittings
          BY DEF NoQuit, Quittings
        <5>2. ASSUME NEW at \in {"quiesce", "containers", "machine"}
              PROVE  /\ [quitting EXCEPT !.at = at] \in Quittings
                     /\ [quitting EXCEPT !.at = at, !.calm = FALSE] \in Quittings
          BY DEF FlowsTyped, Quittings
        <5>3. \/ quitting' = NoQuit \/ quitting' = quitting
              \/ \E at \in {"quiesce", "containers", "machine"} :
                   \/ quitting' = [quitting EXCEPT !.at = at]
                   \/ quitting' = [quitting EXCEPT !.at = at, !.calm = FALSE]
          BY <4>2 DEF RememberStep, QuiesceStep, ContainersStep, Opens, MachineDies, QuitGoes
        <5> QED
          BY <5>1, <5>2, <5>3 DEF FlowsTyped
      <4> QED
        BY <2>2, <4>1, <4>2
    <3>2. restart' \in Restarting
      BY <2>2 DEF QuitBegins, RememberStep, QuiesceStep, ContainersStep, Opens, MachineDies, FlowsTyped, Restarting
    <3>3. UNCHANGED <<stage, task, asks>>
      BY <2>2 DEF QuitBegins, RememberStep, QuiesceStep, ContainersStep, Opens, MachineDies
    <3> QED
      BY <1>1, <3>1, <3>2, <3>3 DEF FlowsTyped
  <2> QED
    BY <1>7, <2>1, <2>2 DEF QuitGoesOn
<1> QED
  BY <1>1, <1>4, <1>5, <1>6, <1>7 DEF HostNext

\* What is under way and the stage change together.
LEMMA StagesKeep ==
  ASSUME HostTyped, StagesAgree, HostNext
  PROVE  StagesAgree'
<1> USE DEF HostTyped
<1>1. CASE StartStep
  <2>1. CASE StartBegins
    BY <2>1 DEF StartBegins, StagesAgree, FlowsTyped, Starts, Admits
  <2>2. ASSUME NEW step \in Steps \ {"no"}, task.at # "no", Goto(step) PROVE StagesAgree'
    BY <2>2 DEF Goto, StagesAgree, FlowsTyped, Starts
  <2>3. CASE RecoverStops
    BY <2>3 DEF RecoverStops, StagesAgree, FlowsTyped, Starts
  <2>4. CASE StartReady
    <3>1. restart'.at \in Releasing <=> restart.at \in Releasing
      BY <2>4 DEF StartReady, FlowsTyped, Restarting, Releasing
    <3> QED
      BY <2>4, <3>1 DEF StartReady, StagesAgree, FlowsTyped, Starts
  <2>5. CASE StartBreaks
    <3>1. restart.at \notin Releasing /\ restart'.at \notin Releasing
      BY <2>5 DEF StartBreaks, StagesAgree, FlowsTyped, Restarting, Releasing
    <3> QED
      BY <2>5, <3>1 DEF StartBreaks, StagesAgree, FlowsTyped, Starts
  <2>6. Boot \/ Connect \/ Network \/ Guard \/ EnsureKernel \/ MakeKernel \/ Forward
          => task.at # "no" /\ \E step \in Steps \ {"no"} : Goto(step)
    BY DEF Boot, Connect, Network, Guard, EnsureKernel, MakeKernel, Forward, Steps
  <2> QED
    BY <1>1, <2>1, <2>2, <2>3, <2>4, <2>5, <2>6 DEF StartStep
<1>2. CASE HandlerStep \/ SettingsStep
  <2>1. UNCHANGED <<stage, task>> /\ restart'.at = restart.at
    BY <1>2 DEF HandlerStep, SettingsStep, Ask, StartHandler, StopHandler, LoginBegins, LoginSaved, PageReads,
       PageClears, PageConnects, flows, FlowsTyped, Restarting
  <2>2. stage = "releasing" => \A c \in HostChannels : asks'[c] = "none"
    BY <1>2 DEF HandlerStep, SettingsStep, Ask, StartHandler, StopHandler, LoginBegins, LoginSaved, PageReads,
       PageClears, PageConnects, flows, Admits, StagesAgree, FlowsTyped
  <2> QED
    BY <2>1, <2>2 DEF StagesAgree
<1>3. CASE RestartStep
  <2>1. UNCHANGED <<task, asks>>
    BY <1>3 DEF RestartStep, RestartStarts, RestartLists, RestartStops, RestartDrops, RestartMachine, RestartBreaks,
       RestartEnsured, RestartConnects, RestartEnds
  <2>2. CASE RestartStarts
    BY <2>1, <2>2 DEF RestartStarts, StagesAgree, FlowsTyped, Restarting, NoRestart, Releasing
  <2>3. CASE RestartMachine \/ RestartBreaks
    BY <2>1, <2>3 DEF RestartMachine, RestartBreaks, StagesAgree, FlowsTyped, Restarting, Releasing
  <2>4. CASE RestartLists \/ RestartStops \/ RestartDrops \/ RestartEnsured \/ RestartConnects \/ RestartEnds
    <3>1. stage' = stage /\ (restart'.at \in Releasing <=> restart.at \in Releasing)
      BY <2>4 DEF RestartLists, RestartStops, RestartDrops, RestartEnsured, RestartConnects, RestartEnds,
         FlowsTyped, Restarting, Releasing
    <3> QED
      BY <2>1, <3>1 DEF StagesAgree
  <2> QED
    BY <1>3, <2>2, <2>3, <2>4 DEF RestartStep
<1>4. CASE QuitGoesOn
  <2>1. CASE MachineStep \/ Dies
    BY <2>1 DEF MachineStep, Dies, ProcessEnds, StagesAgree, FlowsTyped, Starts, NoRestart, Releasing
  <2>2. CASE QuitBegins \/ RememberStep \/ QuiesceStep \/ ContainersStep \/ Opens \/ MachineDies
    BY <2>2 DEF QuitBegins, RememberStep, QuiesceStep, ContainersStep, Opens, MachineDies, StagesAgree,
       FlowsTyped, Restarting
  <2> QED
    BY <1>4, <2>1, <2>2 DEF QuitGoesOn
<1> QED
  BY <1>1, <1>2, <1>3, <1>4 DEF HostNext
\* The kernel has its network and its file before it is started.
LEMMA KernelKeeps ==
  ASSUME HostTyped, KernelAgrees, HostNext
  PROVE  KernelAgrees'
<1> USE DEF HostTyped
<1>1. CASE UNCHANGED <<kernel, bridge>> /\ task'.at \notin {"create", "deliver", "launch"}
  BY <1>1 DEF KernelAgrees, KernelIsWhole
<1>2. CASE UNCHANGED <<kernel, bridge, task>>
  BY <1>2 DEF KernelAgrees, KernelIsWhole
<1>3. CASE Network
  BY <1>3 DEF Network, Goto, KernelAgrees, KernelIsWhole, FlowsTyped, Starts
<1>4. CASE EnsureKernel
  <2>1. CASE Untouched
    BY <1>1, <1>4, <2>1 DEF EnsureKernel, Goto, FlowsTyped, Starts
  <2>2. CASE ~Untouched
    <3>1. kernel'.state = "none" /\ bridge' = "own" /\ task'.at = "create"
      BY <1>4, <2>2 DEF EnsureKernel, Goto, FlowsTyped, Starts, NoKernel
    <3> QED
      BY <3>1 DEF KernelAgrees, KernelIsWhole
  <2> QED
    BY <2>1, <2>2
<1>5. CASE MakeKernel
  <2>1. CASE task.at = "create" /\ kernel' = [kernel EXCEPT !.state = "created"] /\ Goto("deliver")
    BY <1>5, <2>1 DEF MakeKernel, Goto, KernelAgrees, KernelIsWhole, FlowsTyped, Starts, BasesTyped, Kernels
  <2>2. CASE task.at = "deliver" /\ kernel' = [kernel EXCEPT !.file = TRUE] /\ Goto("launch")
    BY <1>5, <2>2 DEF MakeKernel, Goto, KernelAgrees, KernelIsWhole, FlowsTyped, Starts, BasesTyped, Kernels
  <2>3. CASE task.at = "launch" /\ kernel' = [kernel EXCEPT !.state = "up"] /\ Goto("tunnel")
    BY <1>5, <2>3 DEF MakeKernel, Goto, KernelAgrees, KernelIsWhole, FlowsTyped, Starts, BasesTyped, Kernels
  <2> QED
    BY <1>5, <2>1, <2>2, <2>3 DEF MakeKernel
<1>6. StartStep => Network \/ EnsureKernel \/ MakeKernel \/
                   (UNCHANGED <<kernel, bridge>> /\ task'.at \notin {"create", "deliver", "launch"})
  <2>1. StartBegins => UNCHANGED bases /\ task'.at = "look"
    BY DEF StartBegins
  <2>2. StartReady \/ StartBreaks => UNCHANGED bases /\ task'.at = "no"
    BY DEF StartReady, StartBreaks, FlowsTyped, Starts
  <2>3. ASSUME NEW step \in Steps, Goto(step) PROVE task'.at = step
    BY <2>3 DEF Goto, FlowsTyped, Starts
  <2>4. Boot \/ Connect \/ Guard \/ Forward => UNCHANGED <<kernel, bridge>> /\ task'.at \in {"docker", "network", "stops", "ctrl"}
    BY <2>3 DEF Boot, Connect, Guard, Forward, Steps
  <2>5. RecoverStops => UNCHANGED bases /\ task'.at = "kernel"
    BY DEF RecoverStops, FlowsTyped, Starts
  <2> QED
    BY <2>1, <2>2, <2>4, <2>5 DEF StartStep, bases
<1>7. HandlerStep \/ SettingsStep => UNCHANGED <<kernel, bridge, task>>
  BY DEF HandlerStep, SettingsStep, Ask, StartHandler, StopHandler, LoginBegins, LoginSaved, PageReads,
     PageClears, PageConnects, bases, flows
<1>8. RestartStep => UNCHANGED <<kernel, bridge, task>>
  BY DEF RestartStep, RestartStarts, RestartLists, RestartStops, RestartDrops, RestartMachine, RestartBreaks,
     RestartEnsured, RestartConnects, RestartEnds, bases
<1>9. MachineStep \/ Dies => UNCHANGED <<kernel, bridge>> /\ task'.at \notin {"create", "deliver", "launch"}
  BY DEF MachineStep, Dies, ProcessEnds, FlowsTyped, Starts
<1>10. QuitBegins \/ RememberStep \/ QuiesceStep \/ ContainersStep \/ Opens \/ MachineDies
         => UNCHANGED <<kernel, bridge, task>>
  BY DEF QuitBegins, RememberStep, QuiesceStep, ContainersStep, Opens, MachineDies, bases
<1> QED
  BY <1>1, <1>2, <1>3, <1>4, <1>5, <1>6, <1>7, <1>8, <1>9, <1>10 DEF HostNext, QuitGoesOn

\* A machine's new life has no guard yet, and nothing serves behind a start's back.
LEMMA ServingKeeps ==
  ASSUME HostTyped, StagesAgree, ServesWhole, HostNext
  PROVE  ServesWhole'
<1> USE DEF HostTyped
<1>1. CASE UNCHANGED bases /\ task'.at \notin Guarded /\ stage' # "ready"
  BY <1>1 DEF ServesWhole
<1>2. CASE UNCHANGED <<bases, task, stage>>
  BY <1>2 DEF bases, ServesWhole, Controllable, Answers
<1>3. CASE StartStep
  <2>1. CASE StartBegins \/ StartBreaks
    <3>1. CASE StartBegins
      BY <3>1 DEF StartBegins, ServesWhole, Guarded
    <3>2. CASE StartBreaks
      <4>1. stage' = "failed" /\ task'.at = "no"
        BY <3>2 DEF StartBreaks, FlowsTyped, Starts
      <4> QED
        BY <4>1 DEF ServesWhole, Guarded
    <3> QED
      BY <2>1, <3>1, <3>2
  <2>2. CASE Boot \/ Connect \/ Network
    <3>1. task'.at \notin Guarded /\ stage' # "ready"
      BY <2>2 DEF Boot, Connect, Network, Goto, StagesAgree, FlowsTyped, Starts, Guarded
    <3> QED
      BY <3>1 DEF ServesWhole
  <2>3. CASE Guard
    <3>1. machine'.guarded /\ stage' # "ready"
      BY <2>3 DEF Guard, Goto, StagesAgree, BasesTyped, Machines
    <3> QED
      BY <3>1 DEF ServesWhole
  <2>4. CASE RecoverStops \/ EnsureKernel \/ MakeKernel \/ Forward
    <3>1. task.at \in Guarded /\ UNCHANGED machine /\ stage' # "ready"
      BY <2>4 DEF RecoverStops, EnsureKernel, MakeKernel, Forward, Goto, StagesAgree, Guarded, bases
    <3> QED
      BY <3>1 DEF ServesWhole
  <2>5. CASE StartReady
    <3>1. task.at \in Guarded /\ Controllable /\ UNCHANGED bases /\ task'.at = "no"
      BY <2>5 DEF StartReady, FlowsTyped, Starts, Guarded
    <3> QED
      BY <3>1 DEF ServesWhole, Controllable, Answers, bases, Guarded
  <2> QED
    BY <1>3, <2>1, <2>2, <2>3, <2>4, <2>5 DEF StartStep
<1>4. HandlerStep \/ SettingsStep => UNCHANGED <<bases, task, stage>>
  BY DEF HandlerStep, SettingsStep, Ask, StartHandler, StopHandler, LoginBegins, LoginSaved, PageReads,
     PageClears, PageConnects, flows
<1>5. CASE RestartStarts \/ RestartDrops \/ RestartMachine \/ RestartBreaks
  <2>1. task'.at \notin Guarded /\ stage' # "ready"
    BY <1>5 DEF RestartStarts, RestartDrops, RestartMachine, RestartBreaks, StagesAgree, Guarded, Releasing
  <2> QED
    BY <2>1 DEF ServesWhole
<1>6. RestartLists \/ RestartStops \/ RestartEnsured \/ RestartConnects \/ RestartEnds
        => UNCHANGED <<bases, task, stage>>
  BY DEF RestartLists, RestartStops, RestartEnsured, RestartConnects, RestartEnds
<1>7. CASE MachineStep \/ Dies
  <2>1. task'.at \notin Guarded /\ stage' # "ready"
    BY <1>7 DEF MachineStep, Dies, ProcessEnds, FlowsTyped, Starts, Guarded
  <2> QED
    BY <2>1 DEF ServesWhole
<1>8. CASE MachineDies
  <2>1. ~machine'.on
    BY <1>8 DEF MachineDies, Off
  <2> QED
    BY <2>1 DEF ServesWhole
<1>9. QuitBegins \/ RememberStep \/ QuiesceStep \/ ContainersStep \/ Opens => UNCHANGED <<bases, task, stage>>
  BY DEF QuitBegins, RememberStep, QuiesceStep, ContainersStep, Opens
<1> QED
  BY <1>1, <1>2, <1>3, <1>4, <1>5, <1>6, <1>7, <1>8, <1>9 DEF HostNext, RestartStep, QuitGoesOn

\* Who has read the settings is the only one to change them.
LEMMA SettingsKeep ==
  ASSUME HostTyped, SettingsAgree, HostNext
  PROVE  SettingsAgree'
<1> USE DEF HostTyped
<1>1. CASE UNCHANGED <<settings, update, item, resume>>
  BY <1>1 DEF SettingsAgree, NothingUndone
<1>2. ASSUME NEW ids, Remembers(ids) PROVE SettingsAgree'
  BY <1>2 DEF Remembers, SettingsFree, SettingsAgree, NothingUndone, SavedTyped, Saves
<1>3. CASE LoginBegins
  BY <1>3 DEF LoginBegins, SettingsAgree, NothingUndone
<1>4. CASE LoginSaved
  <2>1. update = <<settings>> /\ update[1] = settings /\ update' = <<>>
    BY <1>4, OneHeld DEF LoginSaved, SettingsAgree
  <2>2. settings'.resume = settings.resume /\ resume' = resume
    BY <1>4, <2>1 DEF LoginSaved, SavedTyped, Saves
  <2> QED
    BY <2>1, <2>2 DEF SettingsAgree, NothingUndone
<1>5. CASE MachineStep \/ Dies
  BY <1>5 DEF MachineStep, Dies, ProcessEnds, SettingsAgree, NothingUndone
<1>6. PageClears \/ RestartLists => \E ids : Remembers(ids)
  BY DEF PageClears, RestartLists
<1>7. RememberStep => UNCHANGED <<settings, update, item, resume>> \/ \E ids : Remembers(ids)
  BY DEF RememberStep
<1>8. StartStep \/ HandlerStep \/ PageReads \/ PageConnects => UNCHANGED <<settings, update, item, resume>>
  BY DEF StartStep, StartBegins, Boot, Connect, Network, Guard, RecoverStops, EnsureKernel, MakeKernel, Forward,
     StartReady, StartBreaks, Goto, HandlerStep, Ask, StartHandler, StopHandler, saved, PageReads, PageConnects
<1>9. RestartStep => RestartLists \/ UNCHANGED <<settings, update, item, resume>>
  BY DEF RestartStep, RestartStarts, RestartStops, RestartDrops, RestartMachine, RestartBreaks,
     RestartEnsured, RestartConnects, RestartEnds, saved
<1>10. QuitBegins \/ QuiesceStep \/ ContainersStep \/ Opens \/ MachineDies
         => UNCHANGED <<settings, update, item, resume>>
  BY DEF QuitBegins, QuiesceStep, ContainersStep, Opens, MachineDies, saved
<1> QED
  BY <1>1, <1>2, <1>3, <1>4, <1>5, <1>6, <1>7, <1>8, <1>9, <1>10 DEF HostNext, SettingsStep, QuitGoesOn

\* A restart that nobody meets neither forgets a channel nor loses one it has
\* connected; whoever could take one away again has been refused, or is remembered.
LEMMA RestartKeeps ==
  ASSUME HostTyped, StagesAgree, ServesWhole, RestartAgrees, HostNext
  PROVE  RestartAgrees'
<1> USE DEF HostTyped
<1>1. CASE ~restart'.calm
  BY <1>1 DEF RestartAgrees
\* What does not touch the restart, its channels, the machine, the stage or the quitting.
<1>2. CASE UNCHANGED <<restart, machine, stage, quitting, alive, row, intents>>
  BY <1>2 DEF RestartAgrees, InUse
\* The application has ended.
<1>3. CASE restart'.at = "no" /\ stage' # "ready"
  BY <1>3 DEF RestartAgrees
<1>4. CASE StartStep
  <2>1. CASE StartBegins
    <3>1. stage' = "starting" /\ UNCHANGED <<restart, machine, quitting, alive, row, intents>>
      BY <2>1 DEF StartBegins, bases, chans
    <3>2. restart.calm /\ stage = "ready" => FALSE
      BY <2>1 DEF StartBegins, RestartAgrees
    <3> QED
      BY <3>1, <3>2 DEF RestartAgrees, InUse
  <2>2. CASE Boot \/ Connect \/ Network \/ Guard \/ EnsureKernel \/ MakeKernel \/ Forward
    <3>1. /\ UNCHANGED <<restart, stage, quitting, alive, row, intents>>
          /\ stage # "ready"
      BY <2>2 DEF Boot, Connect, Network, Guard, EnsureKernel, MakeKernel, Forward, Goto, chans, StagesAgree
    <3> QED
      BY <3>1 DEF RestartAgrees, InUse
  <2>3. CASE RecoverStops
    <3>1. /\ UNCHANGED <<restart, stage, quitting>> /\ stage = "starting" /\ intents' = {}
      BY <2>3 DEF RecoverStops, StagesAgree
    <3>2. restart.calm => restart.at \notin {"list", "connect", "done"}
      BY <3>1 DEF RestartAgrees, StagesAgree, Releasing
    <3> QED
      BY <3>1, <3>2 DEF RestartAgrees
  <2>4. CASE StartReady
    <3>1. /\ UNCHANGED <<machine, quitting, alive, row, intents>> /\ stage = "starting" /\ machine.on
      BY <2>4 DEF StartReady, bases, chans, StagesAgree, Controllable, Answers
    <3>2. restart.calm => restart.at \notin {"list", "stop", "drop", "machine", "connect", "done"}
      BY <3>1 DEF RestartAgrees, StagesAgree, Releasing
    <3>3. CASE restart.at = "ensure"
      <4>1. /\ restart' = [restart EXCEPT !.at = "connect"] /\ stage' = "ready"
        BY <2>4, <3>3 DEF StartReady
      <4>2. /\ restart'.at = "connect" /\ restart'.calm = restart.calm /\ restart'.used = restart.used
            /\ restart'.ids = restart.ids
        BY <4>1 DEF FlowsTyped, Restarting
      <4> QED
        BY <3>1, <3>3, <4>1, <4>2 DEF RestartAgrees
    <3>4. CASE restart.at # "ensure"
      BY <2>4, <3>1, <3>2, <3>4 DEF StartReady, RestartAgrees
    <3> QED
      BY <3>3, <3>4
  <2>5. CASE StartBreaks
    <3>1. /\ UNCHANGED <<machine, quitting, alive, row, intents>> /\ stage = "starting" /\ stage' = "failed"
      BY <2>5 DEF StartBreaks, bases, chans, StagesAgree
    <3>2. restart.calm => restart.at \notin {"list", "stop", "drop", "machine", "connect", "done"}
      BY <3>1 DEF RestartAgrees, StagesAgree, Releasing
    <3>3. restart'.calm => \/ UNCHANGED restart \/ restart'.at = "no"
      <4>1. CASE restart' = [restart EXCEPT !.at = "no"]
        BY <4>1 DEF FlowsTyped, Restarting
      <4>2. CASE restart.at = "connect"
        <5>1. restart'.calm = restart.calm
          BY <2>5, <4>2 DEF StartBreaks, FlowsTyped, Restarting
        <5> QED
          BY <3>2, <4>2, <5>1
      <4> QED
        BY <2>5, <4>1, <4>2 DEF StartBreaks
    <3> QED
      BY <3>1, <3>2, <3>3 DEF RestartAgrees
  <2> QED
    BY <1>4, <2>1, <2>2, <2>3, <2>4, <2>5 DEF StartStep
<1>5. ASSUME NEW c \in HostChannels, Started(c) \/ NotStarted(c)
      PROVE  /\ intents' \subseteq intents
             /\ restart.calm /\ restart.at # "no" => restart.used \cap alive \subseteq alive'
             /\ Started(c) => c \in alive'
  <2>1. CASE Started(c)
    BY <2>1 DEF Started
  <2>2. CASE NotStarted(c)
    <3>1. PICK confirmed \in SUBSET ({c} \cap intents) : alive' = alive \ confirmed /\ intents' = intents \ confirmed
      BY <2>2 DEF NotStarted
    <3>2. ~Started(c) \/ c \in alive'
      BY DEF Started
    <3> QED
      BY <3>1, <3>2 DEF RestartAgrees
  <2> QED
    BY <1>5, <2>1, <2>2
<1>6. CASE HandlerStep
  <2>1. ASSUME NEW c \in HostChannels, StartHandler(c) PROVE RestartAgrees'
    <3>1. /\ UNCHANGED <<restart, machine, stage, quitting>> /\ stage # "releasing"
          /\ Started(c) \/ NotStarted(c)
      BY <2>1 DEF StartHandler, bases, StagesAgree
    <3>2. restart.at # "list"
      BY <3>1 DEF StagesAgree, Releasing
    <3>3. /\ intents' \subseteq intents
          /\ restart.calm /\ restart.at # "no" => restart.used \cap alive \subseteq alive'
      BY <1>5, <3>1
    <3> QED
      BY <3>1, <3>2, <3>3 DEF RestartAgrees
  <2>2. ASSUME NEW c \in HostChannels, StopHandler(c) PROVE RestartAgrees'
    BY <1>1, <2>2 DEF StopHandler, FlowsTyped, Restarting
  <2>3. ASSUME NEW c \in HostChannels, NEW what, Ask(c, what) PROVE RestartAgrees'
    BY <1>2, <2>3 DEF Ask, bases, chans
  <2> QED
    BY <1>6, <2>1, <2>2, <2>3 DEF HandlerStep
<1>7. CASE SettingsStep
  BY <1>2, <1>7 DEF SettingsStep, LoginBegins, LoginSaved, PageReads, PageClears, PageConnects, flows, bases, chans
<1>8. CASE RestartStarts
  <2>1. /\ restart'.at = "list" /\ restart'.used = InUse /\ stage' = "releasing" /\ quitting'.at = "no"
        /\ UNCHANGED <<row, intents>>
    BY <1>8 DEF RestartStarts, NoRestart, Admits, chans
  <2> QED
    BY <2>1 DEF RestartAgrees, InUse
<1>9. CASE RestartLists
  <2>1. /\ UNCHANGED <<machine, stage, quitting, alive, row, intents>>
        /\ restart' = [restart EXCEPT !.at = "stop", !.ids = InUse] /\ restart.at = "list"
    BY <1>9 DEF RestartLists, bases, chans
  <2>2. restart'.at = "stop" /\ restart'.ids = InUse /\ restart'.used = restart.used /\ restart'.calm = restart.calm
    BY <2>1 DEF FlowsTyped, Restarting
  <2> QED
    BY <2>1, <2>2 DEF RestartAgrees
<1>10. CASE RestartStops \/ RestartDrops \/ RestartMachine
  <2>1. /\ restart.at \in {"stop", "drop", "machine"}
        /\ restart'.at \in {"drop", "machine", "ensure", "no"} /\ restart'.calm = restart.calm
        /\ restart'.used = restart.used /\ restart'.ids = restart.ids
    BY <1>10 DEF RestartStops, RestartDrops, RestartMachine, FlowsTyped, Restarting
  <2>2. UNCHANGED <<quitting, intents>> /\ stage' # "ready"
    BY <1>10, <2>1 DEF RestartStops, RestartDrops, RestartMachine, StopAll, chans, StagesAgree, Releasing
  <2> QED
    BY <2>1, <2>2 DEF RestartAgrees
<1>11. CASE RestartBreaks
  BY <1>3, <1>11 DEF RestartBreaks, FlowsTyped, Restarting
<1>12. CASE RestartEnsured
  <2>1. /\ UNCHANGED <<machine, stage, quitting, alive, row, intents>> /\ restart.at = "ensure"
        /\ restart'.at = "no" \/ (restart'.at = "connect" /\ stage = "ready" /\ machine.on)
        /\ restart'.calm = restart.calm /\ restart'.used = restart.used /\ restart'.ids = restart.ids
    BY <1>12 DEF RestartEnsured, bases, chans, FlowsTyped, Restarting
  <2> QED
    BY <2>1 DEF RestartAgrees
<1>13. CASE RestartConnects
  <2>1. PICK c \in restart.ids :
          \/ Started(c) /\ restart' = [restart EXCEPT !.ids = @ \ {c}]
          \/ NotStarted(c) /\ restart' = [restart EXCEPT !.ids = @ \ {c}, !.failed = @ \cup {c}]
    BY <1>13 DEF RestartConnects
  <2>2. c \in HostChannels
    BY DEF FlowsTyped, Restarting
  <2>3. /\ UNCHANGED <<machine, stage, quitting>> /\ restart.at = "connect"
    BY <1>13 DEF RestartConnects, bases
  <2>4. /\ restart'.at = "connect" /\ restart'.calm = restart.calm /\ restart'.used = restart.used
        /\ restart'.ids = restart.ids \ {c}
        /\ \/ Started(c) /\ restart'.failed = restart.failed
           \/ NotStarted(c) /\ restart'.failed = restart.failed \cup {c}
    BY <2>1, <2>3 DEF FlowsTyped, Restarting
  <2>5. /\ intents' \subseteq intents
        /\ restart.calm => restart.used \cap alive \subseteq alive'
        /\ Started(c) => c \in alive'
    BY <1>5, <2>2, <2>3, <2>4
  <2>6. restart.calm => restart.used \subseteq alive' \cup restart'.failed \cup restart'.ids
    BY <2>3, <2>4, <2>5 DEF RestartAgrees
  <2> QED
    BY <2>3, <2>4, <2>5, <2>6 DEF RestartAgrees
<1>14. CASE RestartEnds
  <2>1. /\ UNCHANGED <<machine, stage, quitting, alive, row, intents>> /\ restart.at = "connect" /\ restart.ids = {}
        /\ restart'.at = "done" /\ restart'.calm = restart.calm /\ restart'.used = restart.used
        /\ restart'.ids = restart.ids /\ restart'.failed = restart.failed
    BY <1>14 DEF RestartEnds, bases, chans, FlowsTyped, Restarting
  <2> QED
    BY <2>1 DEF RestartAgrees
<1>15. CASE QuitBegins \/ MachineDies
  BY <1>1, <1>15 DEF QuitBegins, MachineDies, FlowsTyped, Restarting
<1>16. CASE MachineStep \/ Dies
  BY <1>3, <1>16 DEF MachineStep, Dies, ProcessEnds, NoRestart
<1>17. CASE RememberStep \/ QuiesceStep \/ ContainersStep \/ Opens
  <2>1. /\ UNCHANGED <<restart, machine, stage, intents>> /\ quitting.at # "no"
        /\ UNCHANGED <<alive, row>> \/ quitting.at # "no"
    BY <1>17 DEF RememberStep, QuiesceStep, ContainersStep, Opens, StopAll, bases, chans
  <2>2. restart.calm => restart.at = "no"
    BY <2>1 DEF RestartAgrees
  <2> QED
    BY <2>1, <2>2 DEF RestartAgrees
<1> QED
  BY <1>4, <1>6, <1>7, <1>8, <1>9, <1>10, <1>11, <1>12, <1>13, <1>14, <1>15, <1>16, <1>17
     DEF HostNext, RestartStep, QuitGoesOn

\* Once quitting has begun with nothing under way nothing begins any more, and the
\* list it writes is the last.
LEMMA QuitKeeps ==
  ASSUME HostTyped, QuitAgrees, HostNext
  PROVE  QuitAgrees'
<1> USE DEF HostTyped
<1>1. CASE ~quitting'.calm \/ quitting'.at = "no"
  BY <1>1 DEF QuitAgrees
<1>2. CASE /\ UNCHANGED <<quitting, task, asks, update, settings, row, intents>>
           /\ restart'.at = restart.at
  BY <1>2 DEF QuitAgrees, InFlight, InUse
<1>3. CASE ~(quitting.at # "no" /\ quitting.calm) /\ UNCHANGED quitting
  BY <1>3 DEF QuitAgrees
<1>4. CASE StartStep
  <2>1. Admits \/ InFlight
    BY <1>4 DEF StartStep, StartBegins, Boot, Connect, Network, Guard, RecoverStops, EnsureKernel, MakeKernel,
                Forward, StartReady, StartBreaks, InFlight
  <2>2. UNCHANGED quitting
    BY <1>4 DEF StartStep, StartBegins, Boot, Connect, Network, Guard, RecoverStops, EnsureKernel, MakeKernel,
                Forward, StartReady, StartBreaks, Goto
  <2> QED
    BY <1>3, <2>1, <2>2 DEF QuitAgrees, Admits
<1>5. CASE HandlerStep
  <2>1. Admits \/ InFlight
    BY <1>5 DEF HandlerStep, Ask, StartHandler, StopHandler, InFlight
  <2>2. UNCHANGED quitting
    BY <1>5 DEF HandlerStep, Ask, StartHandler, StopHandler
  <2> QED
    BY <1>3, <2>1, <2>2 DEF QuitAgrees, Admits
<1>6. CASE RestartStep
  <2>1. Admits \/ InFlight
    BY <1>6 DEF RestartStep, RestartStarts, RestartLists, RestartStops, RestartDrops, RestartMachine,
                RestartBreaks, RestartEnsured, RestartConnects, RestartEnds, InFlight
  <2>2. UNCHANGED quitting
    BY <1>6 DEF RestartStep, RestartStarts, RestartLists, RestartStops, RestartDrops, RestartMachine,
                RestartBreaks, RestartEnsured, RestartConnects, RestartEnds
  <2> QED
    BY <1>3, <2>1, <2>2 DEF QuitAgrees, Admits
<1>7. CASE SettingsStep
  <2>1. CASE PageReads
    BY <1>2, <2>1 DEF PageReads, chans, flows
  <2>2. CASE LoginBegins \/ LoginSaved \/ PageClears \/ PageConnects
    <3>1. (Admits \/ update # <<>>) /\ UNCHANGED quitting
      BY <2>2 DEF LoginBegins, LoginSaved, PageClears, PageConnects, flows
    <3> QED
      BY <1>3, <3>1 DEF QuitAgrees, Admits
  <2> QED
    BY <1>7, <2>1, <2>2 DEF SettingsStep
<1>8. CASE QuitBegins
  <2>1. /\ quitting'.at = "remember" /\ quitting'.used = InUse
        /\ quitting'.calm => ~InFlight /\ update = <<>>
    BY <1>8 DEF QuitBegins
  <2>2. /\ UNCHANGED <<task, asks, update, row, intents>> /\ restart'.at = restart.at
    BY <1>8 DEF QuitBegins, chans, saved, FlowsTyped, Restarting
  <2> QED
    BY <2>1, <2>2 DEF QuitAgrees, InFlight, InUse
<1>9. CASE RememberStep
  <2>1. UNCHANGED <<task, asks, update, row, intents, restart>> /\ quitting.at = "remember"
    BY <1>9 DEF RememberStep, Remembers, chans
  <2>2. CASE Remembers(InUse) /\ QuitGoes("quiesce")
    <3>1. settings'.resume = InUse
      BY <2>2 DEF Remembers, SavedTyped, Saves
    <3>2. quitting'.at = "quiesce" /\ quitting'.calm = quitting.calm /\ quitting'.used = quitting.used
      BY <2>2 DEF QuitGoes, FlowsTyped, Quittings
    <3> QED
      BY <2>1, <3>1, <3>2 DEF QuitAgrees, InFlight
  <2>3. CASE quitting' = [quitting EXCEPT !.at = "quiesce", !.calm = FALSE]
    BY <1>1, <2>3 DEF FlowsTyped, Quittings
  <2> QED
    BY <1>9, <2>2, <2>3 DEF RememberStep
<1>10. CASE QuiesceStep \/ ContainersStep
  <2>1. UNCHANGED <<task, asks, update, settings, restart>>
    BY <1>10 DEF QuiesceStep, ContainersStep, saved
  <2>2. /\ quitting.at \notin {"no", "remember"} /\ quitting'.at \in {"containers", "machine"}
        /\ quitting'.calm = quitting.calm /\ quitting'.used = quitting.used
    BY <1>10 DEF QuiesceStep, ContainersStep, QuitGoes, FlowsTyped, Quittings
  <2> QED
    BY <2>1, <2>2 DEF QuitAgrees, InFlight
<1>11. CASE MachineStep
  <2>1. /\ task'.at = "no" /\ restart'.at = "no" /\ \A c \in HostChannels : asks'[c] = "none"
        /\ update' = <<>> /\ UNCHANGED settings
    BY <1>11 DEF MachineStep, ProcessEnds, NoRestart, FlowsTyped, Starts
  <2>2. /\ quitting.at = "machine" /\ quitting'.at = "over"
        /\ quitting'.calm = quitting.calm /\ quitting'.used = quitting.used
    BY <1>11 DEF MachineStep, QuitGoes, FlowsTyped, Quittings
  <2> QED
    BY <2>1, <2>2 DEF QuitAgrees, InFlight
<1>12. CASE Dies \/ Opens
  <2>1. NoQuit \in Quittings /\ NoQuit.at = "no"
    BY DEF NoQuit, Quittings
  <2>2. Dies => ~quitting'.calm
    BY <2>1 DEF Dies, Quittings
  <2>3. Opens => quitting'.at = "no"
    BY <2>1 DEF Opens
  <2> QED
    BY <1>1, <1>12, <2>2, <2>3
<1>13. CASE MachineDies
  BY <1>2, <1>13 DEF MachineDies, chans, saved, FlowsTyped, Restarting
<1> QED
  BY <1>4, <1>5, <1>6, <1>7, <1>8, <1>9, <1>10, <1>11, <1>12, <1>13 DEF HostNext, QuitGoesOn

\* Every step of the host, and a step that changes nothing, keeps the invariant.
LEMMA HostKeeps ==
  ASSUME HostInv, [HostNext]_hostVars
  PROVE  HostInv'
<1>1. CASE HostNext
  <2>1. HostTyped'
    BY <1>1, BasesKeep, ChansKeep, SavedKeep, FlowsKeep DEF HostInv, HostTyped
  <2>2. StagesAgree'
    BY <1>1, StagesKeep DEF HostInv
  <2>3. KernelAgrees'
    BY <1>1, KernelKeeps DEF HostInv
  <2>4. ServesWhole'
    BY <1>1, ServingKeeps DEF HostInv
  <2>5. RestartAgrees'
    BY <1>1, RestartKeeps DEF HostInv
  <2>6. QuitAgrees' /\ SettingsAgree'
    BY <1>1, QuitKeeps, SettingsKeep DEF HostInv
  <2> QED
    BY <2>1, <2>2, <2>3, <2>4, <2>5, <2>6 DEF HostInv
<1>2. CASE UNCHANGED hostVars
  <2>1. UNCHANGED <<machine, bridge, kernel, tunnel, linked, alive, row, intents, settings, update, item, page,
                    resume, stage, task, asks, restart, quitting, hostFaults>>
    BY <1>2 DEF hostVars, bases, chans, saved, flows
  <2> QED
    BY <2>1 DEF HostInv, HostTyped, BasesTyped, ChansTyped, SavedTyped, FlowsTyped, StagesAgree, KernelAgrees,
                KernelIsWhole, ServesWhole, Controllable, Answers, RestartAgrees, InUse, QuitAgrees, InFlight,
                SettingsAgree, NothingUndone
<1> QED
  BY <1>1, <1>2

\* For any number of channels, starts, restarts and faults the host is typed and
\* its stages, kernel, guard, restart, quitting and settings agree.
THEOREM HostInvariance == HostSpec => []HostInv
<1>1. HostInv /\ [HostNext]_hostVars => HostInv'
  BY HostKeeps
<1> QED
  BY HostInvInit, <1>1, PTL DEF HostSpec

\* A repeated start never runs a kernel without its file and its network, a restart
\* that met nobody returns what was in use behind the guard, a quitting that met
\* nothing leaves the list of what was in use, no update of the settings undoes
\* another, and the login item agrees with them when one is answered.
THEOREM HostIsKept == HostSpec => HostKept
<1>1. HostInv => KernelIsWhole /\ RestartReturns /\ QuitRemembers /\ NothingUndone
  <2> SUFFICES ASSUME HostInv PROVE KernelIsWhole /\ RestartReturns /\ QuitRemembers /\ NothingUndone
    OBVIOUS
  <2>1. KernelIsWhole /\ NothingUndone
    BY DEF HostInv, KernelAgrees, SettingsAgree
  <2>2. RestartReturns
    BY DEF HostInv, ServesWhole, RestartAgrees, RestartReturns
  <2>3. QuitRemembers
    BY DEF HostInv, QuitAgrees, QuitRemembers
  <2> QED
    BY <2>1, <2>2, <2>3
<1>2. ASSUME HostInv, HostNext, update # <<>>, update' = <<>>, quitting'.at # "over"
      PROVE  item' = settings'.login
  <2>1. update = <<settings>> /\ update[1] = settings /\ item = ~settings.login /\ settings \in Saves
    BY <1>2, OneHeld DEF HostInv, SettingsAgree, HostTyped, SavedTyped
  <2>2. LoginSaved
    <3>1. ~MachineStep /\ ~Dies
      BY <1>2 DEF MachineStep, Dies, QuitGoes, NoQuit, HostInv, HostTyped, FlowsTyped, Quittings
    <3>2. ~StartStep /\ ~HandlerStep
      BY <1>2 DEF StartStep, StartBegins, Boot, Connect, Network, Guard, RecoverStops, EnsureKernel, MakeKernel,
                  Forward, StartReady, StartBreaks, Goto, HandlerStep, Ask, StartHandler, StopHandler, saved
    <3>3. ~RestartStep
      BY <1>2 DEF RestartStep, RestartStarts, RestartLists, RestartStops, RestartDrops, RestartMachine,
                  RestartBreaks, RestartEnsured, RestartConnects, RestartEnds, Remembers, saved
    <3>4. ~LoginBegins /\ ~PageReads /\ ~PageClears /\ ~PageConnects
      BY <1>2 DEF LoginBegins, PageReads, PageClears, PageConnects, Remembers, SettingsFree
    <3>5. ~QuitBegins /\ ~RememberStep /\ ~QuiesceStep /\ ~ContainersStep /\ ~Opens /\ ~MachineDies
      BY <1>2 DEF QuitBegins, RememberStep, QuiesceStep, ContainersStep, Opens, MachineDies, Remembers, saved
    <3> QED
      BY <1>2, <3>1, <3>2, <3>3, <3>4, <3>5 DEF HostNext, SettingsStep, QuitGoesOn
  <2>3. CASE settings' = [update[1] EXCEPT !.login = ~@] /\ UNCHANGED item
    <3>1. settings'.login = ~settings.login
      BY <2>1, <2>3 DEF Saves
    <3> QED
      BY <2>1, <2>3, <3>1
  <2>4. CASE item' = Undone /\ UNCHANGED settings
    BY <2>1, <2>4 DEF Undone
  <2> QED
    BY <2>2, <2>3, <2>4 DEF LoginSaved
<1>3. ASSUME HostInv, [HostNext]_hostVars
      PROVE  [update # <<>> /\ update' = <<>> /\ quitting'.at # "over" => item' = settings'.login]_hostVars
  BY <1>2, <1>3
<1>4. HostSpec => ItemAgrees
  BY HostInvariance, <1>3, PTL DEF HostSpec, ItemAgrees
<1> QED
  BY HostInvariance, <1>1, <1>4, PTL DEF HostKept

-----------------------------------------------------------------------------
(* EventLog *)

\* What is in the files, in the queue and with the writer, as far as the accounts
\* need it: how a day's lines came back into the ring of a later process is not.
QueueTyped ==
  queue \in Seq(Range(queue)) /\ \A e \in Range(queue) : e.day \in 1 .. LastDay
SentTyped ==
  sent \in Seq(1 .. MaxProcesses) /\ \A i \in DOMAIN sent : sent[i] <= process
DaysTyped ==
  days = [d \in 1 .. LastDay |-> days[d]] /\ \A d \in 1 .. LastDay : days[d] \in Seq(Range(days[d]))
LogTyped ==
  /\ QueueTyped /\ SentTyped /\ DaysTyped
  /\ dropped \in Nat /\ process \in 1 .. MaxProcesses /\ today \in 1 .. LastDay
  /\ recording \in BOOLEAN /\ marker \in BOOLEAN /\ crossing \in BOOLEAN
SwitchesTyped ==
  /\ switches \in [Switchers -> [at : {"idle", "says", "flag", "mark", "said", "over"}, on : BOOLEAN]]
  /\ \A s \in Switchers : switches[s].at = "says" => ~switches[s].on

\* The writer holds an event unless it waits, and flushes only what it has written.
WriterAgrees ==
  /\ writer \in [at : {"wait", "take", "flush"}, event : {writer.event}, open : 0 .. LastDay, full : 0 .. LastDay]
  /\ writer.at = "wait" => writer.event = NoEvent
  /\ writer.at # "wait" => writer.event.day \in 1 .. LastDay
  /\ writer.at = "flush" => writer.event.id \in OnDisk \cup spoiled

\* As long as no two switches meet and each marker can be changed, flag and marker
\* are apart only between the two steps of the switch under way.
SwitchesAgree ==
  ~crossing =>
    /\ \A r, s \in Switchers : Switching(r) /\ Switching(s) => r = s
    /\ (\A s \in Switchers : ~Switching(s)) => marker = ~recording
    /\ \A s \in Switchers :
         /\ switches[s].at = "mark" => recording = switches[s].on
         /\ switches[s].at = "said" => recording = switches[s].on /\ marker = ~switches[s].on

LogInv == LogTyped /\ SwitchesTyped /\ WriterAgrees /\ SwitchesAgree /\ LossesCounted

\* A list that grows has one element more, one that shrinks had its head.
LEMMA ListGrows ==
  ASSUME NEW q, q \in Seq(Range(q)), NEW e
  PROVE  Append(q, e) \in Seq(Range(Append(q, e))) /\ Range(Append(q, e)) = Range(q) \cup {e}
<1> DEFINE S == Range(q) \cup {e}
           a == Append(q, e)
<1>1. q \in Seq(S) /\ e \in S
  <2>1. Len(q) \in Nat /\ q \in [1 .. Len(q) -> Range(q)]
    OBVIOUS
  <2> QED
    BY <2>1
<1>2. /\ a \in Seq(S) /\ Len(a) = Len(q) + 1 /\ Len(q) \in Nat
      /\ \A i \in 1 .. Len(q) : a[i] = q[i]
      /\ a[Len(q) + 1] = e
  BY <1>1
<1>3. DOMAIN a = 1 .. Len(q) + 1 /\ DOMAIN q = 1 .. Len(q)
  BY <1>1, <1>2
<1>4. Range(a) = S
  BY <1>2, <1>3 DEF Range
<1> QED
  BY <1>2, <1>4

\* A list without its first entry, and what both range over.
LEMMA ListShrinks ==
  ASSUME NEW q, q \in Seq(Range(q)), q # <<>>
  PROVE  /\ Tail(q) \in Seq(Range(Tail(q))) /\ Head(q) \in Range(q)
         /\ Range(q) = Range(Tail(q)) \cup {Head(q)}
<1> DEFINE t == Tail(q)
<1>1. /\ t \in Seq(Range(q)) /\ Len(t) = Len(q) - 1 /\ Len(q) \in Nat \ {0} /\ Head(q) = q[1]
      /\ \A i \in 1 .. Len(t) : t[i] = q[i + 1]
  OBVIOUS
<1> HIDE DEF t
<1>2. Range(t) = {t[i] : i \in 1 .. Len(t)} /\ Range(q) = {q[i] : i \in 1 .. Len(q)}
  BY ZenonT(40), <1>1, RangeEquality
<1>3. t \in Seq(Range(t))
  BY <1>1, SeqOfRange
<1>4. Range(t) \subseteq Range(q) /\ Head(q) \in Range(q)
  BY SMTT(30), <1>1, <1>2
<1>5. ASSUME NEW i \in 1 .. Len(q) PROVE q[i] = Head(q) \/ q[i] \in Range(t)
  <2>1. CASE i # 1
    <3>1. i - 1 \in 1 .. Len(t) /\ (i - 1) + 1 = i
      BY <1>1, <2>1
    <3>2. t[i - 1] = q[i]
      BY <1>1, <3>1
    <3> QED
      BY <1>2, <3>1, <3>2
  <2> QED
    BY <1>1, <2>1
<1>6. Range(q) = Range(t) \cup {Head(q)}
  BY <1>2, <1>4, <1>5
<1> QED
  BY <1>3, <1>4, <1>6 DEF t

\* The ids of a list are those of its elements.
LEMMA ListIds ==
  ASSUME NEW q
  PROVE  {q[i].id : i \in DOMAIN q} = {e.id : e \in Range(q)}
BY DEF Range

\* A set that loses elements counts no more, one that gets one counts one more.
LEMMA CountsBound ==
  ASSUME NEW A, IsFiniteSet(A), NEW m \in Nat, Cardinality(A) <= m, NEW B
  PROVE  /\ B \subseteq A => Cardinality(B) <= m
         /\ \A x : B \subseteq A \cup {x} => Cardinality(B) <= m + 1
<1>1. ASSUME B \subseteq A PROVE Cardinality(B) <= m
  BY <1>1, FS_Subset, FS_CardinalityType
<1>2. ASSUME NEW x, B \subseteq A \cup {x} PROVE Cardinality(B) <= m + 1
  <2>1. IsFiniteSet(A \cup {x}) /\ Cardinality(A \cup {x}) \in {Cardinality(A), Cardinality(A) + 1}
    BY FS_AddElement
  <2> QED
    BY <1>2, <2>1, FS_Subset, FS_CardinalityType
<1> QED
  BY <1>1, <1>2

\* A log has a day to begin on and a process to write it.
LEMMA LogBounds == LastDay \in Nat \ {0} /\ MaxProcesses \in Nat \ {0} /\ 0 \in 0 .. LastDay
<1>1. LastDay \in Nat \ {0} /\ MaxProcesses \in Nat \ {0}
  BY LogAssumption
<1> QED
  BY <1>1

\* An empty log agrees.
LEMMA LogInvInit == LogInit => LogInv
<1> SUFFICES ASSUME LogInit PROVE LogInv
  OBVIOUS
<1>1. LogTyped
  <2>1. <<>> \in Seq(Range(<<>>)) /\ Range(<<>>) = {}
    BY DEF Range
  <2>2. QueueTyped
    BY <2>1 DEF LogInit, QueueTyped
  <2>3. SentTyped
    BY DEF LogInit, SentTyped
  <2>4. DaysTyped
    <3>1. \A d \in 1 .. LastDay : days[d] = <<>>
      BY DEF LogInit
    <3>2. days = [d \in 1 .. LastDay |-> days[d]]
      BY DEF LogInit
    <3> QED
      BY <2>1, <3>1, <3>2 DEF DaysTyped
  <2>5. process \in 1 .. MaxProcesses /\ today \in 1 .. LastDay
    BY LogAssumption DEF LogInit
  <2> QED
    BY <2>2, <2>3, <2>4, <2>5 DEF LogInit, LogTyped
<1>2. SwitchesTyped /\ SwitchesAgree
  BY DEF LogInit, SwitchesTyped, SwitchesAgree, NoSwitch, Switching
<1>3. WriterAgrees
  BY LogAssumption DEF LogInit, WriterAgrees, StartingWriter, NoEvent
<1>4. LossesCounted
  <2>1. Unwritten = {}
    BY DEF LogInit, Unwritten
  <2> QED
    BY <2>1, FS_EmptySet DEF LogInit, LossesCounted
<1> QED
  BY <1>1, <1>2, <1>3, <1>4 DEF LogInv

\* What is queued, recorded and written stays what it is.
LEMMA LogTypedKeeps ==
  ASSUME LogTyped, SwitchesTyped, WriterAgrees, LogNext
  PROVE  LogTyped'
<1>1. ASSUME NEW kind, Record(kind), UNCHANGED process PROVE QueueTyped' /\ SentTyped' /\ dropped' \in Nat
  <2>1. Recorder(kind).day \in 1 .. LastDay
    BY DEF Recorder, LogTyped
  <2>2. queue' = queue \/ queue' = Append(queue, Recorder(kind))
    BY <1>1 DEF Record
  <2>3. QueueTyped'
    <3> DEFINE e == Recorder(kind)
    <3>1. queue \in Seq(Range(queue)) /\ \A x \in Range(queue) : x.day \in 1 .. LastDay
      BY DEF LogTyped, QueueTyped
    <3> HIDE DEF e
    <3>2. Append(queue, e) \in Seq(Range(Append(queue, e))) /\ Range(Append(queue, e)) = Range(queue) \cup {e}
      BY <3>1, ListGrows
    <3>3. queue' = queue \/ queue' = Append(queue, e)
      BY <2>2 DEF e
    <3>4. e.day \in 1 .. LastDay
      BY <2>1 DEF e
    <3>5. queue' \in Seq(Range(queue'))
      BY <3>1, <3>2, <3>3
    <3>6. \A x \in Range(queue') : x.day \in 1 .. LastDay
      BY <3>1, <3>2, <3>3, <3>4
    <3> QED
      BY <3>5, <3>6 DEF QueueTyped
  <2>4. SentTyped'
    <3>1. sent' = Append(sent, process) /\ sent \in Seq(1 .. MaxProcesses) /\ process \in 1 .. MaxProcesses
      BY <1>1 DEF Record, LogTyped, SentTyped
    <3>2. sent' \in Seq(1 .. MaxProcesses)
      BY <3>1
    <3>3. ASSUME NEW i \in DOMAIN sent' PROVE sent'[i] <= process
      <4>1. i \in DOMAIN sent \/ sent'[i] = process
        BY <3>1
      <4>2. i \in DOMAIN sent => sent'[i] = sent[i] /\ sent[i] <= process
        BY <3>1 DEF LogTyped, SentTyped
      <4> QED
        BY <3>1, <4>1, <4>2
    <3> QED
      BY <1>1, <3>2, <3>3 DEF SentTyped
  <2> QED
    BY <1>1, <2>3, <2>4 DEF Record, LogTyped, FullIsCounted
<1>2. CASE Emit
  BY <1>1, <1>2 DEF Emit, diskVars, ghostVars, LogTyped, DaysTyped
<1>3. ASSUME NEW s \in Switchers, SwitchBegins(s) \/ SwitchFlag(s) \/ SwitchMark(s) PROVE LogTyped'
  <2>1. UNCHANGED <<queue, sent, process, days, dropped, today>>
    BY <1>3 DEF SwitchBegins, SwitchFlag, SwitchMark, memoryVars, diskVars, ghostVars
  <2>2. recording' \in BOOLEAN
    BY <1>3 DEF SwitchBegins, SwitchFlag, SwitchMark, memoryVars, LogTyped, SwitchesTyped
  <2>3. marker' \in BOOLEAN /\ crossing' \in BOOLEAN
    BY <1>3 DEF SwitchBegins, SwitchFlag, SwitchMark, ghostVars, LogTyped
  <2> QED
    BY <2>1, <2>2, <2>3 DEF LogTyped, QueueTyped, SentTyped, DaysTyped
<1>4. ASSUME NEW s \in Switchers, SwitchSays(s) PROVE LogTyped'
  BY <1>1, <1>4 DEF SwitchSays, diskVars, ghostVars, LogTyped, DaysTyped
<1>5. CASE Takes
  <2>1. QueueTyped'
    BY <1>5, ListShrinks DEF Takes, LogTyped, QueueTyped
  <2> QED
    BY <1>5, <2>1 DEF Takes, memoryVars, diskVars, ghostVars, LogTyped, SentTyped, DaysTyped
<1>6. CASE OpensDay \/ SkipsFull \/ Flushes \/ Drains \/ DayEnds
  <2>1. UNCHANGED <<queue, sent, process, days, recording, marker, crossing>>
    BY <1>6 DEF OpensDay, SkipsFull, Flushes, Drains, DayEnds, memoryVars, diskVars, ghostVars
  <2>2. dropped' \in Nat
    BY <1>6 DEF OpensDay, SkipsFull, Flushes, Drains, DayEnds, memoryVars, LogTyped
  <2>3. today' \in 1 .. LastDay
    <3>1. CASE UNCHANGED today
      BY <3>1 DEF LogTyped
    <3>2. CASE DayEnds
      BY <3>2, LogBounds DEF DayEnds, LogTyped
    <3> QED
      BY <1>6, <3>1, <3>2 DEF OpensDay, SkipsFull, Flushes, Drains, ghostVars
  <2> QED
    BY <2>1, <2>2, <2>3 DEF LogTyped, QueueTyped, SentTyped, DaysTyped
<1>7. CASE WritesLine
  <2>1. UNCHANGED <<queue, sent, process, today, recording, marker, crossing>> /\ dropped' \in Nat
    BY <1>7 DEF WritesLine, ghostVars, LogTyped
  <2>2. DaysTyped'
    <3>1. CASE UNCHANGED days
      BY <3>1 DEF LogTyped, DaysTyped
    <3>2. CASE days' = [days EXCEPT ![writer.open] = Append(@, writer.event)]
      <4>1. writer.open \in 1 .. LastDay
        BY <1>7 DEF WritesLine, WriterAgrees
      <4>2. /\ days' = [d \in 1 .. LastDay |-> days'[d]]
            /\ \A d \in 1 .. LastDay : days'[d] = IF d = writer.open THEN Append(days[d], writer.event) ELSE days[d]
        BY <3>2, <4>1 DEF LogTyped, DaysTyped
      <4>3. ASSUME NEW d \in 1 .. LastDay PROVE days'[d] \in Seq(Range(days'[d]))
        <5>1. days[d] \in Seq(Range(days[d]))
          BY DEF LogTyped, DaysTyped
        <5>2. Append(days[d], writer.event) \in Seq(Range(Append(days[d], writer.event)))
          BY <5>1, ListGrows
        <5> QED
          BY <4>2, <5>1, <5>2
      <4> QED
        BY <4>2, <4>3 DEF DaysTyped
    <3> QED
      BY <1>7, <3>1, <3>2 DEF WritesLine
  <2> QED
    BY <2>1, <2>2 DEF LogTyped, QueueTyped, SentTyped
<1>8. CASE Restarts
  <2>1. QueueTyped'
    <3>1. queue' = <<>> /\ <<>> \in Seq(Range(<<>>)) /\ Range(<<>>) = {}
      BY <1>8 DEF Restarts, Range
    <3> QED
      BY <3>1 DEF QueueTyped
  <2>2. process' \in 1 .. MaxProcesses /\ process <= process' /\ UNCHANGED <<sent, days, today, marker, crossing>>
    BY <1>8, LogBounds DEF Restarts, diskVars, LogTyped
  <2>3. SentTyped'
    <3>1. \A i \in DOMAIN sent : sent[i] \in 1 .. MaxProcesses
      <4>1. sent \in Seq(1 .. MaxProcesses)
        BY DEF LogTyped, SentTyped
      <4> QED
        BY <4>1, LenProperties, ElementOfSeq
    <3> QED
      BY <2>2, <3>1, LogBounds DEF LogTyped, SentTyped
  <2>4. dropped' \in Nat /\ recording' \in BOOLEAN
    BY <1>8 DEF Restarts, LogTyped
  <2> QED
    BY <2>1, <2>2, <2>3, <2>4 DEF LogTyped, DaysTyped
<1> QED
  BY <1>2, <1>3, <1>4, <1>5, <1>6, <1>7, <1>8 DEF LogNext

\* Lines only come to the files.
LEMMA LinesStay ==
  ASSUME LogTyped, WriterAgrees, LogNext
  PROVE  OnDisk \subseteq OnDisk'
<1>1. CASE UNCHANGED days
  BY <1>1 DEF OnDisk
<1>2. CASE writer.open \in 1 .. LastDay /\ days' = [days EXCEPT ![writer.open] = Append(@, writer.event)]
  <2>1. \A d \in 1 .. LastDay : days'[d] = IF d = writer.open THEN Append(days[d], writer.event) ELSE days[d]
    BY <1>2 DEF LogTyped, DaysTyped
  <2>2. \A d \in 1 .. LastDay : Range(days[d]) \subseteq Range(days'[d])
    BY <2>1, ListGrows DEF LogTyped, DaysTyped
  <2>3. ASSUME NEW d \in 1 .. LastDay
        PROVE  {days[d][i].id : i \in DOMAIN days[d]} \subseteq {days'[d][i].id : i \in DOMAIN days'[d]}
    <3>1. {days[d][i].id : i \in DOMAIN days[d]} = {e.id : e \in Range(days[d])}
      BY ListIds
    <3>2. {days'[d][i].id : i \in DOMAIN days'[d]} = {e.id : e \in Range(days'[d])}
      BY ListIds
    <3> QED
      BY <2>2, <3>1, <3>2
  <2> QED
    BY SMTT(30), <2>3 DEF OnDisk
<1>3. WritesLine => UNCHANGED days \/ (writer.open \in 1 .. LastDay /\ days' = [days EXCEPT ![writer.open] = Append(@, writer.event)])
  BY DEF WritesLine, WriterAgrees
<1>4. WritesLine \/ UNCHANGED days
  BY DEF LogNext, Emit, Takes, OpensDay, SkipsFull, Flushes, Drains, Restarts, DayEnds, SwitchBegins, SwitchSays,
         SwitchFlag, SwitchMark, diskVars
<1> QED
  BY <1>1, <1>2, <1>3, <1>4

\* The writer's steps follow each other.
LEMMA WriterKeeps ==
  ASSUME LogTyped, WriterAgrees, LogNext
  PROVE  WriterAgrees'
<1>1. OnDisk \subseteq OnDisk' /\ spoiled \subseteq spoiled'
  BY LinesStay DEF LogNext, Emit, Takes, OpensDay, SkipsFull, WritesLine, Flushes, Drains, Restarts, DayEnds,
                   SwitchBegins, SwitchSays, SwitchFlag, SwitchMark, diskVars
<1>2. CASE UNCHANGED writer
  BY <1>1, <1>2 DEF WriterAgrees
<1>3. CASE Takes
  <2>1. Head(queue).day \in 1 .. LastDay
    BY <1>3, ListShrinks DEF Takes, LogTyped, QueueTyped
  <2>2. writer' = [writer EXCEPT !.at = "take", !.event = Head(queue)]
    BY <1>3 DEF Takes
  <2> QED
    BY <2>1, <2>2 DEF WriterAgrees
<1>4. CASE writer' = [writer EXCEPT !.at = "wait", !.event = NoEvent] \/ Reopens
  BY <1>4, LogBounds DEF WriterAgrees, Reopens
<1>5. CASE OpensDay
  <2>1. CASE writer' = [writer EXCEPT !.open = writer.event.day, !.full = 0]
    <3>1. writer.at = "take" /\ writer.event.day \in 0 .. LastDay /\ writer.event.day \in 1 .. LastDay
      BY <1>5, LogBounds DEF OpensDay, WriterAgrees
    <3>2. writer' \in [at : {"wait", "take", "flush"}, event : {writer.event}, open : 0 .. LastDay,
                       full : 0 .. LastDay]
      BY <2>1, <3>1, LogBounds DEF WriterAgrees
    <3>3. writer'.at = "take" /\ writer'.event = writer.event
      BY <2>1, <3>1 DEF WriterAgrees
    <3> QED
      BY <3>1, <3>2, <3>3 DEF WriterAgrees
  <2> QED
    BY <1>4, <1>5, <2>1 DEF OpensDay, WriterWaits
<1>6. CASE SkipsFull
  <2>1. writer' = [writer EXCEPT !.at = "wait", !.event = NoEvent, !.full = writer.open]
    BY <1>6 DEF SkipsFull
  <2> QED
    BY <2>1 DEF WriterAgrees, NoEvent
<1>7. CASE WritesLine
  <2>1. CASE Reopens
    BY <1>4, <2>1
  <2>2. CASE writer' = [writer EXCEPT !.at = "flush"] /\ ~Reopens
    <3>1. writer.event.id \in OnDisk' \cup spoiled'
      <4>1. CASE spoiled' = spoiled \cup {writer.event.id}
        BY <4>1
      <4>2. CASE days' = [days EXCEPT ![writer.open] = Append(@, writer.event)]
        <5>1. writer.open \in 1 .. LastDay
          BY <1>7 DEF WritesLine, WriterAgrees
        <5>2. days'[writer.open] = Append(days[writer.open], writer.event)
          BY <4>2, <5>1 DEF LogTyped, DaysTyped
        <5>3. writer.event \in Range(days'[writer.open])
          BY <5>1, <5>2, ListGrows DEF LogTyped, DaysTyped
        <5>4. writer.event.id \in {days'[writer.open][i].id : i \in DOMAIN days'[writer.open]}
          BY <5>3, ListIds
        <5> QED
          BY <5>1, <5>4 DEF OnDisk
      <4> QED
        BY <1>7, <2>2, <4>1, <4>2 DEF WritesLine
    <3>2. writer.at = "take"
      BY <1>7 DEF WritesLine
    <3> QED
      BY <2>2, <3>1, <3>2 DEF WriterAgrees
  <2> QED
    BY <1>7, <2>1, <2>2 DEF WritesLine
<1>8. Flushes => writer' = [writer EXCEPT !.at = "wait", !.event = NoEvent] \/ Reopens
  BY DEF Flushes, WriterWaits
<1>9. CASE Restarts
  BY <1>9, LogAssumption DEF Restarts, StartingWriter, WriterAgrees, NoEvent
<1>10. Emit \/ Drains \/ DayEnds => UNCHANGED writer
  BY DEF Emit, Drains, DayEnds
<1>11. ASSUME NEW s \in Switchers, SwitchBegins(s) \/ SwitchSays(s) \/ SwitchFlag(s) \/ SwitchMark(s)
       PROVE  UNCHANGED writer
  BY <1>11 DEF SwitchBegins, SwitchSays, SwitchFlag, SwitchMark
<1> QED
  BY <1>2, <1>3, <1>4, <1>5, <1>6, <1>7, <1>8, <1>9, <1>10, <1>11 DEF LogNext

\* A switch that meets no other changes flag and marker, or is given up with its process.
LEMMA SwitchesKeep ==
  ASSUME LogTyped, SwitchesTyped, SwitchesAgree, LogNext
  PROVE  SwitchesTyped' /\ SwitchesAgree'
<1>1. CASE UNCHANGED <<switches, recording, marker, crossing>>
  BY <1>1 DEF SwitchesTyped, SwitchesAgree, Switching
<1>2. ASSUME NEW s \in Switchers, SwitchBegins(s) PROVE SwitchesTyped' /\ SwitchesAgree'
  <2>1. PICK on \in BOOLEAN : switches' = [switches EXCEPT ![s] = [at |-> IF on THEN "flag" ELSE "says", on |-> on]]
    BY <1>2 DEF SwitchBegins
  <2>2. SwitchesTyped'
    BY <2>1 DEF SwitchesTyped
  <2>3. UNCHANGED <<recording, marker>> /\ crossing' = (crossing \/ \E r \in Switchers : Switching(r))
    BY <1>2 DEF SwitchBegins, memoryVars
  <2>4. Switching(s)' /\ switches'[s].at \in {"flag", "says"}
    BY <2>1 DEF SwitchesTyped, Switching
  <2>5. ASSUME NEW r \in Switchers, r # s PROVE switches'[r] = switches[r] /\ Switching(r)' = Switching(r)
    BY <2>1, <2>5 DEF SwitchesTyped, Switching
  <2>6. SwitchesAgree'
    <3> SUFFICES ASSUME ~crossing' PROVE SwitchesAgree'
      BY DEF SwitchesAgree
    <3>1. ~crossing /\ \A r \in Switchers : ~Switching(r)
      BY <2>3
    <3>2. \A r \in Switchers : r # s => ~Switching(r)' /\ switches'[r].at \notin {"mark", "said"}
      BY <2>5, <3>1 DEF Switching, SwitchesTyped
    <3> QED
      BY <2>4, <3>2 DEF SwitchesAgree
  <2> QED
    BY <2>2, <2>6
<1>3. ASSUME NEW s \in Switchers, SwitchSays(s) \/ SwitchFlag(s) \/ SwitchMark(s)
      PROVE  SwitchesTyped' /\ SwitchesAgree'
  <2>1. PICK at \in {"flag", "mark", "said", "over"} : SwitchGoes(s, at)
    BY <1>3 DEF SwitchSays, SwitchFlag, SwitchMark
  <2>2. SwitchesTyped'
    BY <2>1 DEF SwitchGoes, SwitchesTyped
  <2>3. switches'[s].at = at /\ switches'[s].on = switches[s].on /\ switches[s].on \in BOOLEAN
    BY <2>1 DEF SwitchGoes, SwitchesTyped
  <2>4. ASSUME NEW r \in Switchers, r # s PROVE switches'[r] = switches[r] /\ Switching(r)' = Switching(r)
    BY <2>1, <2>4 DEF SwitchGoes, SwitchesTyped, Switching
  <2>5. Switching(s)
    BY <1>3 DEF SwitchSays, SwitchFlag, SwitchMark, Switching
  <2>6. SwitchesAgree'
    <3> SUFFICES ASSUME ~crossing' PROVE SwitchesAgree'
      BY DEF SwitchesAgree
    <3>1. ~crossing
      BY <1>3 DEF SwitchSays, SwitchFlag, SwitchMark, ghostVars, LogTyped
    <3>2. \A r \in Switchers : r # s => ~Switching(r)' /\ switches'[r].at \notin {"mark", "said"}
      BY <2>4, <2>5, <3>1 DEF SwitchesAgree, Switching
    <3>3. \A r, t \in Switchers : Switching(r)' /\ Switching(t)' => r = t
      BY <3>2
    <3>4. /\ ~Switching(s)' => marker' = ~recording'
          /\ at = "mark" => recording' = switches[s].on
          /\ at = "said" => recording' = switches[s].on /\ marker' = ~switches[s].on
      <4>1. CASE SwitchSays(s)
        <5>1. UNCHANGED <<recording, marker>> /\ at \in {"over", "flag"}
          BY <2>3, <4>1 DEF SwitchSays, SwitchGoes, SwitchesTyped
        <5>2. CASE at = "over"
          <6>1. switches[s].on /\ switches[s].at \in {"says", "said"}
            BY <2>3, <4>1, <5>2 DEF SwitchSays, SwitchGoes, SwitchesTyped
          <6>2. switches[s].at = "said"
            BY <6>1 DEF SwitchesTyped
          <6> QED
            BY <3>1, <5>1, <5>2, <6>2 DEF SwitchesAgree
        <5>3. CASE at = "flag"
          BY <2>3, <5>3 DEF Switching
        <5> QED
          BY <5>1, <5>2, <5>3
      <4>2. CASE SwitchFlag(s)
        <5>1. at = "mark" /\ recording' = switches[s].on
          BY <2>3, <4>2 DEF SwitchFlag, SwitchGoes, SwitchesTyped
        <5> QED
          BY <2>3, <5>1 DEF Switching
      <4>3. CASE SwitchMark(s)
        <5>1. /\ switches[s].at = "mark" /\ marker' = ~switches[s].on /\ UNCHANGED recording
              /\ at \in {"said", "over"}
          BY <2>3, <4>3 DEF SwitchMark, SwitchGoes, SwitchesTyped, memoryVars
        <5>2. recording' = switches[s].on
          BY <3>1, <5>1 DEF SwitchesAgree
        <5> QED
          BY <2>3, <5>1, <5>2
      <4> QED
        BY <1>3, <4>1, <4>2, <4>3
    <3> QED
      BY <2>3, <3>2, <3>3, <3>4 DEF SwitchesAgree
  <2> QED
    BY <2>2, <2>6
<1>4. CASE Restarts
  <2>1. SwitchesTyped' /\ \A s \in Switchers : ~Switching(s)' /\ switches'[s].at \notin {"mark", "said"}
    BY <1>4 DEF Restarts, SwitchesTyped, Switching
  <2>2. recording' = ~marker /\ UNCHANGED marker /\ marker \in BOOLEAN
    BY <1>4 DEF Restarts, LogTyped
  <2>3. marker' = ~recording'
    BY <2>2
  <2> QED
    BY <2>1, <2>3 DEF SwitchesAgree
<1>5. Emit \/ Takes \/ OpensDay \/ SkipsFull \/ WritesLine \/ Flushes \/ Drains \/ DayEnds
        => UNCHANGED <<switches, recording, marker, crossing>>
  BY DEF Emit, Takes, OpensDay, SkipsFull, WritesLine, Flushes, Drains, DayEnds, memoryVars, ghostVars
<1> QED
  BY <1>1, <1>2, <1>3, <1>4, <1>5 DEF LogNext

\* An event that a process recorded leaves the queue and the writer for a file, or is
\* skipped, spoiled or counted.
LEMMA LossesKeep ==
  ASSUME LogTyped, WriterAgrees, LossesCounted, LogNext
  PROVE  LossesCounted'
<1>1. IsFiniteSet(Unwritten) /\ dropped \in Nat /\ Cardinality(Unwritten) <= dropped
  <2>1. Unwritten \in SUBSET (1 .. Len(sent)) /\ Len(sent) \in Nat
    BY LenProperties DEF Unwritten, LogTyped, SentTyped
  <2>2. IsFiniteSet(1 .. Len(sent))
    BY <2>1, FS_Interval
  <2>3. IsFiniteSet(Unwritten)
    BY <2>1, <2>2, FS_Subset
  <2> QED
    BY <2>3 DEF LossesCounted, LogTyped
<1>2. ASSUME Unwritten' \subseteq Unwritten, dropped' \in {dropped, dropped + 1} PROVE LossesCounted'
  <2>1. Cardinality(Unwritten') <= dropped /\ Cardinality(Unwritten') <= dropped + 1
    BY <1>1, <1>2, CountsBound
  <2> QED
    BY <1>2, <2>1 DEF LossesCounted
<1>3. ASSUME NEW x, Unwritten' \subseteq Unwritten \cup {x}, dropped' = dropped + 1 PROVE LossesCounted'
  <2>1. Cardinality(Unwritten') <= dropped + 1
    BY <1>1, <1>3, CountsBound
  <2> QED
    BY <1>3, <2>1 DEF LossesCounted
<1>4. OnDisk \subseteq OnDisk'
  BY LinesStay
<1>5. skipped \subseteq skipped' /\ spoiled \subseteq spoiled'
  BY DEF LogNext, Emit, Takes, OpensDay, SkipsFull, WritesLine, Flushes, Drains, Restarts, DayEnds,
         SwitchBegins, SwitchSays, SwitchFlag, SwitchMark, diskVars
\* Nothing is recorded: only what leaves its way can get lost.
<1>6. ASSUME UNCHANGED <<sent, process>>, NEW Gone, OnItsWay \subseteq OnItsWay' \cup Gone
      PROVE  Unwritten' \subseteq Unwritten \cup (Gone \ (OnDisk' \cup skipped' \cup spoiled'))
  BY <1>4, <1>5, <1>6 DEF Unwritten
<1>7. ASSUME NEW kind, Record(kind), UNCHANGED <<writer, process>> PROVE LossesCounted'
  <2> DEFINE new == Len(sent) + 1
  <2>1. sent' = Append(sent, process) /\ sent \in Seq(1 .. MaxProcesses) /\ process \in 1 .. MaxProcesses
    BY <1>7 DEF Record, LogTyped, SentTyped
  <2>2. DOMAIN sent' = DOMAIN sent \cup {new} /\ \A id \in DOMAIN sent : sent'[id] = sent[id]
    BY <2>1
  <2>3. ASSUME OnItsWay \subseteq OnItsWay' PROVE Unwritten' \subseteq Unwritten \cup ({new} \ OnItsWay')
    BY <1>4, <1>5, <1>7, <2>2, <2>3 DEF Unwritten
  <2>4. CASE queue' = Append(queue, Recorder(kind)) /\ UNCHANGED dropped
    <3> DEFINE e == Recorder(kind)
    <3>1. Range(Append(queue, e)) = Range(queue) \cup {e}
      BY ListGrows DEF LogTyped, QueueTyped
    <3>2. {queue[i].id : i \in DOMAIN queue} = {x.id : x \in Range(queue)}
      BY ListIds
    <3>3. {queue'[i].id : i \in DOMAIN queue'} = {x.id : x \in Range(queue')}
      BY ListIds
    <3>4. e.id = new
      BY DEF Recorder
    <3> HIDE DEF e, new
    <3>5. OnItsWay' = OnItsWay \cup {new}
      BY <1>7, <2>4, <3>1, <3>2, <3>3, <3>4 DEF OnItsWay, e
    <3>6. Unwritten' \subseteq Unwritten
      BY <2>3, <3>5
    <3> QED
      BY <1>2, <2>4, <3>6
  <2>5. CASE UNCHANGED queue /\ dropped' = dropped + 1
    <3>1. OnItsWay' = OnItsWay
      BY <1>7, <2>5 DEF OnItsWay
    <3>2. Unwritten' \subseteq Unwritten \cup {new}
      BY <2>3, <3>1
    <3> QED
      BY <1>3, <2>5, <3>2
  <2> QED
    BY <1>7, <2>4, <2>5 DEF Record, FullIsCounted
<1>8. CASE Emit
  BY <1>7, <1>8 DEF Emit, ghostVars
<1>9. ASSUME NEW s \in Switchers, SwitchSays(s) PROVE LossesCounted'
  BY <1>7, <1>9 DEF SwitchSays, ghostVars
<1>10. CASE UNCHANGED <<sent, process, queue, writer, dropped>>
  <2>1. OnItsWay' = OnItsWay
    BY <1>10 DEF OnItsWay
  <2>2. Unwritten' \subseteq Unwritten \cup ({} \ (OnDisk' \cup skipped' \cup spoiled'))
    BY <1>6, <1>10, <2>1
  <2> QED
    BY <1>2, <1>10, <2>2
<1>11. ASSUME NEW s \in Switchers, SwitchBegins(s) \/ SwitchFlag(s) \/ SwitchMark(s)
       PROVE  UNCHANGED <<sent, process, queue, writer, dropped>>
  BY <1>11 DEF SwitchBegins, SwitchFlag, SwitchMark, memoryVars, ghostVars
<1>12. Drains \/ DayEnds => UNCHANGED <<sent, process, queue, writer, dropped>>
  BY DEF Drains, DayEnds, memoryVars, ghostVars
<1>13. CASE Takes
  <2>1. Range(queue) = Range(Tail(queue)) \cup {Head(queue)}
    BY <1>13, ListShrinks DEF Takes, LogTyped, QueueTyped
  <2>2. {queue[i].id : i \in DOMAIN queue} = {x.id : x \in Range(queue)}
    BY ListIds
  <2>3. {queue'[i].id : i \in DOMAIN queue'} = {x.id : x \in Range(queue')}
    BY ListIds
  <2>4. queue' = Tail(queue) /\ writer'.event = Head(queue) /\ writer.event = NoEvent
    BY <1>13 DEF Takes, WriterAgrees
  <2>5. OnItsWay \subseteq OnItsWay' \cup {0}
    <3>1. NoEvent.id = 0
      BY DEF NoEvent
    <3>2. {x.id : x \in Range(queue)} \subseteq {x.id : x \in Range(Tail(queue))} \cup {Head(queue).id}
      BY <2>1
    <3>3. OnItsWay = {x.id : x \in Range(queue)} \cup {0}
      BY <2>2, <2>4, <3>1 DEF OnItsWay
    <3>4. OnItsWay' = {x.id : x \in Range(Tail(queue))} \cup {Head(queue).id}
      BY <2>3, <2>4 DEF OnItsWay
    <3> QED
      BY <3>2, <3>3, <3>4
  <2>6. UNCHANGED <<sent, process, dropped>>
    BY <1>13 DEF Takes, memoryVars, ghostVars
  <2>7. 0 \notin Unwritten'
    BY <2>6, LenProperties DEF Unwritten, LogTyped, SentTyped
  <2>8. Unwritten' \subseteq Unwritten \cup ({0} \ (OnDisk' \cup skipped' \cup spoiled'))
    BY <1>6, <2>5, <2>6
  <2>9. Unwritten' \subseteq Unwritten
    BY <2>7, <2>8
  <2> QED
    BY <1>2, <2>6, <2>9
<1>14. CASE OpensDay \/ SkipsFull \/ WritesLine \/ Flushes
  <2>1. UNCHANGED <<sent, process, queue>>
    BY <1>14 DEF OpensDay, SkipsFull, WritesLine, Flushes, ghostVars
  <2>2. OnItsWay \subseteq OnItsWay' \cup {writer.event.id}
    BY <2>1 DEF OnItsWay
  <2>3. Unwritten' \subseteq Unwritten \cup ({writer.event.id} \ (OnDisk' \cup skipped' \cup spoiled'))
    BY <1>6, <2>1, <2>2
  <2>4. CASE dropped' = dropped + 1
    <3>1. Unwritten' \subseteq Unwritten \cup {writer.event.id}
      BY <2>3
    <3> QED
      BY <1>3, <2>4, <3>1
  <2>5. CASE UNCHANGED dropped /\ writer'.event = writer.event
    <3>1. OnItsWay' = OnItsWay
      BY <2>1, <2>5 DEF OnItsWay
    <3>2. Unwritten' \subseteq Unwritten \cup ({} \ (OnDisk' \cup skipped' \cup spoiled'))
      BY <1>6, <2>1, <3>1
    <3> QED
      BY <1>2, <2>5, <3>2
  <2>6. CASE SkipsFull
    <3>1. UNCHANGED dropped /\ writer.event.id \in skipped'
      BY <2>6 DEF SkipsFull
    <3>2. Unwritten' \subseteq Unwritten
      BY <2>3, <3>1
    <3> QED
      BY <1>2, <3>1, <3>2
  <2>7. CASE OpensDay
    <3>1. \/ dropped' = dropped + 1
          \/ UNCHANGED dropped /\ writer' = [writer EXCEPT !.open = writer.event.day, !.full = 0]
      BY <2>7 DEF OpensDay
    <3> QED
      BY <2>4, <2>5, <3>1 DEF WriterAgrees
  <2>8. CASE WritesLine
    <3>1. \/ dropped' = dropped + 1
          \/ UNCHANGED dropped /\ writer' = [writer EXCEPT !.at = "flush"]
      BY <2>8 DEF WritesLine
    <3> QED
      BY <2>4, <2>5, <3>1 DEF WriterAgrees
  <2>9. CASE Flushes
    <3>1. dropped' = dropped + 1 \/ UNCHANGED dropped
      BY <2>9 DEF Flushes
    <3>2. writer.event.id \in OnDisk' \cup spoiled'
      BY <1>4, <1>5, <2>9 DEF Flushes, WriterAgrees
    <3>3. Unwritten' \subseteq Unwritten
      BY <2>3, <3>2
    <3> QED
      BY <1>2, <3>1, <3>3
  <2> QED
    BY <1>14, <2>6, <2>7, <2>8, <2>9
<1>15. CASE Restarts
  <2>1. process' = process + 1 /\ dropped' = 0 /\ UNCHANGED sent
    BY <1>15 DEF Restarts
  <2>2. \A id \in DOMAIN sent : sent[id] # process + 1
    <3>1. sent \in Seq(1 .. MaxProcesses) /\ process \in Nat /\ \A id \in DOMAIN sent : sent[id] <= process
      BY LogBounds DEF LogTyped, SentTyped
    <3>2. \A id \in DOMAIN sent : sent[id] \in 1 .. MaxProcesses
      BY <3>1, LenProperties, ElementOfSeq
    <3> QED
      BY <3>1, <3>2, LogBounds
  <2>3. Unwritten' = {}
    BY <2>1, <2>2 DEF Unwritten
  <2> QED
    BY <2>1, <2>3, FS_EmptySet DEF LossesCounted
<1> QED
  BY <1>8, <1>9, <1>10, <1>11, <1>12, <1>13, <1>14, <1>15 DEF LogNext

\* Every step of the event log keeps its invariant.
LEMMA LogKeeps ==
  ASSUME LogInv, [LogNext]_logVars
  PROVE  LogInv'
<1>1. CASE LogNext
  BY <1>1, LogTypedKeeps, WriterKeeps, SwitchesKeep, LossesKeep DEF LogInv
<1>2. CASE UNCHANGED logVars
  BY SMTT(30), <1>2 DEF logVars, LogInv, LogTyped, QueueTyped, SentTyped, DaysTyped, SwitchesTyped, WriterAgrees, OnDisk,
              SwitchesAgree, Switching, LossesCounted, Unwritten, OnItsWay
<1> QED
  BY <1>1, <1>2

\* For any ring, queue, days and processes the log's accounts agree.
THEOREM LogInvariance == LogSpec => []LogInv
<1>1. LogInv /\ [LogNext]_logVars => LogInv'
  BY LogKeeps
<1> QED
  BY LogInvInit, <1>1, PTL DEF LogSpec

\* Whatever this process recorded is in the files, on its way, or counted, but for a day
\* that is full and a line behind a torn one; and between switches that do not meet the
\* marker is what the flag is.
THEOREM EventsAreAccounted == LogSpec => []EventsAccounted
<1>1. LogInv => EventsAccounted
  BY DEF LogInv, SwitchesAgree, SwitchIsKept, EventsAccounted, LossesCounted
<1> QED
  BY LogInvariance, <1>1, PTL

\* A set of numbers that is not empty has a least one.
LEMMA LeastNumber ==
  ASSUME NEW S \in SUBSET Nat, S # {}
  PROVE  \E i \in S : \A j \in S : i <= j
<1>1. PICK i \in S : \A j \in S : ~(<<j, i>> \in OpToRel(<, Nat))
  BY WFMin, NatLessThanWellFounded
<1>2. \A j \in S : ~(j < i)
  BY <1>1 DEF OpToRel
<1> QED
  BY <1>2

\* The lists of a sequence of lists, one behind the other.
Joins(f, s, n) == f = [i \in 1 .. n |-> IF i = 1 THEN s[i] ELSE f[i - 1] \o s[i]]

\* There is such a joining: a first number of lists that has none would be one more than a
\* number that has one.
LEMMA JoinsExist ==
  ASSUME NEW S, NEW m \in Nat, NEW s \in [1 .. m -> Seq(S)]
  PROVE  \E f : Joins(f, s, m)
<1> DEFINE Bad == {n \in 0 .. m : ~\E f : Joins(f, s, n)}
<1>1. SUFFICES ASSUME Bad # {} PROVE FALSE
  <2>1. m \in 0 .. m
    OBVIOUS
  <2> QED
    BY <1>1, <2>1
<1>2. PICK n \in Bad : \A k \in Bad : n <= k
  <2>1. Bad \in SUBSET Nat
    OBVIOUS
  <2> HIDE DEF Bad
  <2> QED
    BY <1>1, <2>1, LeastNumber
<1>3. n # 0
  <2>1. \A f : [i \in 1 .. 0 |-> s[i]] = [i \in 1 .. 0 |-> IF i = 1 THEN s[i] ELSE f[i - 1] \o s[i]]
    OBVIOUS
  <2>2. Joins([i \in 1 .. 0 |-> s[i]], s, 0)
    BY <2>1 DEF Joins
  <2> QED
    BY <1>2, <2>2
<1>4. n \in 1 .. m /\ n - 1 \in 0 .. m /\ n - 1 \notin Bad
  <2>1. n \in 0 .. m
    BY <1>2
  <2>2. n \in 1 .. m /\ n - 1 \in 0 .. m /\ ~(n <= n - 1)
    BY <1>3, <2>1
  <2> HIDE DEF Bad
  <2> QED
    BY <1>2, <2>2
<1>5. PICK f : Joins(f, s, n - 1)
  BY <1>4
<1> DEFINE g == [i \in 1 .. n |-> IF i = n THEN (IF n = 1 THEN s[n] ELSE f[n - 1] \o s[n]) ELSE f[i]]
<1>6. ASSUME NEW i \in 1 .. n PROVE g[i] = IF i = 1 THEN s[i] ELSE g[i - 1] \o s[i]
  <2>1. CASE i = n
    BY <1>4, <2>1
  <2>2. CASE i # n
    <3>1. i \in 1 .. n - 1 /\ g[i] = f[i]
      BY <1>4, <2>2
    <3>2. f[i] = IF i = 1 THEN s[i] ELSE f[i - 1] \o s[i]
      BY <1>5, <3>1 DEF Joins
    <3>3. i # 1 => i - 1 \in 1 .. n /\ i - 1 # n /\ g[i - 1] = f[i - 1]
      BY <1>4, <2>2
    <3> QED
      BY <3>1, <3>2, <3>3
  <2> QED
    BY <2>1, <2>2
<1>7. g = [i \in 1 .. n |-> g[i]]
  OBVIOUS
<1> HIDE DEF g
<1>8. Joins(g, s, n)
  BY <1>6, <1>7 DEF Joins
<1> QED
  BY <1>2, <1>8

\* Lists of a kind joined are a list of that kind.
LEMMA FlatIsList ==
  ASSUME NEW S, NEW m \in Nat \ {0}, NEW s \in [1 .. m -> Seq(S)]
  PROVE  FlattenSeq(s) \in Seq(S)
<1> DEFINE f == CHOOSE g : Joins(g, s, m)
<1>1. Joins(f, s, m)
  BY JoinsExist
<1>2. Len(s) = m
  OBVIOUS
<1>3. FlattenSeq(s) = f[m]
  BY <1>2 DEF FlattenSeq, Joins
<1> HIDE DEF f
<1> DEFINE Bad == {n \in 1 .. m : f[n] \notin Seq(S)}
<1>4. Bad = {}
  <2>1. SUFFICES ASSUME Bad # {} PROVE FALSE
    BY <2>1
  <2>2. PICK n \in Bad : \A k \in Bad : n <= k
    <3>1. Bad \in SUBSET Nat
      OBVIOUS
    <3> HIDE DEF Bad
    <3> QED
      BY <2>1, <3>1, LeastNumber
  <2>3. n # 1 => n - 1 \in 1 .. m /\ f[n - 1] \in Seq(S)
    BY <2>2
  <2>4. f[n] = IF n = 1 THEN s[n] ELSE f[n - 1] \o s[n]
    BY <1>1, <2>2 DEF Joins
  <2>5. s[n] \in Seq(S)
    BY <2>2
  <2>6. f[n] \in Seq(S)
    BY <2>3, <2>4, <2>5
  <2> QED
    BY <2>2, <2>6
<1> QED
  BY <1>3, <1>4

\* The last entries of a list.
LEMMA LastIsList ==
  ASSUME NEW S, NEW s \in Seq(S), NEW n \in Nat
  PROVE  LastOf(s, n) \in Seq(S) /\ Len(LastOf(s, n)) <= n
<1>1. CASE Len(s) <= n
  BY <1>1 DEF LastOf
<1>2. CASE ~(Len(s) <= n)
  <2>1. Len(s) \in Nat /\ Len(s) - n + 1 \in Int /\ \A i \in (Len(s) - n + 1) .. Len(s) : s[i] \in S
    BY <1>2
  <2>2. /\ SubSeq(s, Len(s) - n + 1, Len(s)) \in Seq(S)
        /\ Len(SubSeq(s, Len(s) - n + 1, Len(s))) =
             IF Len(s) - n + 1 <= Len(s) THEN Len(s) - (Len(s) - n + 1) + 1 ELSE 0
    BY <2>1, SubSeqProperties
  <2> QED
    BY <1>2, <2>1, <2>2 DEF LastOf
<1> QED
  BY <1>1, <1>2

\* A list with one entry more, within a ring.
LEMMA RingTurns ==
  ASSUME ring \in Seq(Recorded), NEW e \in Recorded, ring' = LastOf(Append(ring, e), RingSize)
  PROVE  ring' \in Seq(Recorded) /\ Len(ring') <= RingSize
<1>1. Append(ring, e) \in Seq(Recorded) /\ RingSize \in Nat
  BY LogAssumption
<1> QED
  BY <1>1, LastIsList

\* Every list holds events; ring and queue have their sizes.
ListsTyped ==
  /\ ring \in Seq(Recorded) /\ Len(ring) <= RingSize
  /\ queue \in Seq(Recorded) /\ Len(queue) <= QueueSize
  /\ nextSeq \in Nat /\ input \in BOOLEAN /\ torn \subseteq 1 .. LastDay
  /\ writer.event \in Recorded \cup {NoEvent}
  /\ days \in [1 .. LastDay -> Seq(Recorded)]
  /\ logFaults \in 0 .. MaxLogFaults

LEMMA LogTypes == LogInv /\ ListsTyped => LogTypeOK
<1> SUFFICES ASSUME LogInv, ListsTyped PROVE LogTypeOK
  OBVIOUS
<1>1. writer \in [at : {"wait", "take", "write", "flush", "off"}, event : Recorded \cup {NoEvent},
                  open : 0 .. LastDay, full : 0 .. LastDay]
  BY DEF LogInv, WriterAgrees, ListsTyped
<1> QED
  BY <1>1 DEF LogInv, LogTyped, SwitchesTyped, ListsTyped, LogTypeOK

\* What record_inner puts into the ring and the queue is an event.
LEMMA RecordTyped ==
  ASSUME LogTyped, ListsTyped, NEW kind \in {"plain", "off", "on"}, Record(kind)
  PROVE  /\ ring' \in Seq(Recorded) /\ Len(ring') <= RingSize
         /\ queue' \in Seq(Recorded) /\ Len(queue') <= QueueSize /\ nextSeq' \in Nat
<1> DEFINE e == Recorder(kind)
<1>1. Len(sent) \in Nat /\ Len(sent) < MaxRecorded /\ MaxRecorded \in Nat /\ QueueSize \in Nat
  BY LogAssumption DEF LogTyped, SentTyped, Record
<1>2. e \in Recorded
  <2>1. Len(sent) + 1 \in 0 .. MaxRecorded /\ today \in 1 .. LastDay /\ nextSeq + 1 \in Nat
    BY <1>1 DEF LogTyped, ListsTyped
  <2> QED
    BY <2>1 DEF Recorder, Recorded
<1>3. ring' = LastOf(Append(ring, e), RingSize) /\ nextSeq' = nextSeq + 1
      /\ (queue' = queue \/ (Len(queue) < QueueSize /\ queue' = Append(queue, e)))
  BY DEF Record
<1> HIDE DEF e
<1>4. ring' \in Seq(Recorded) /\ Len(ring') <= RingSize
  BY <1>2, <1>3, RingTurns DEF ListsTyped
<1>5. queue' \in Seq(Recorded) /\ Len(queue') <= QueueSize
  <2>1. queue \in Seq(Recorded) /\ Len(queue) \in Nat /\ Len(queue) <= QueueSize
    BY DEF ListsTyped
  <2>2. Append(queue, e) \in Seq(Recorded) /\ Len(Append(queue, e)) = Len(queue) + 1
    BY <1>2, <2>1
  <2> QED
    BY <1>1, <1>3, <2>1, <2>2
<1> QED
  BY <1>3, <1>4, <1>5 DEF ListsTyped

\* Every step of the log keeps the lists.
LEMMA ListsKeep ==
  ASSUME LogTyped, SwitchesTyped, WriterAgrees, ListsTyped, [LogNext]_logVars
  PROVE  ListsTyped'
<1>1. logFaults' \in 0 .. MaxLogFaults
  <2>1. LogWorks \/ LogBreaks
    BY DEF LogNext, Emit, Takes, OpensDay, SkipsFull, WritesLine, Flushes, Drains, Restarts, DayEnds, SwitchBegins,
           SwitchSays, SwitchFlag, SwitchMark, logVars, LogWorks
  <2> QED
    BY <2>1, LogAssumption DEF LogWorks, LogBreaks, ListsTyped
<1>2. ASSUME UNCHANGED <<ring, nextSeq, queue, input, writer, torn, days>> PROVE ListsTyped'
  BY <1>1, <1>2 DEF ListsTyped
<1>3. ASSUME UNCHANGED <<input, writer, torn, days>>, NEW kind \in {"plain", "off", "on"}, Record(kind)
      PROVE  ListsTyped'
  BY <1>1, <1>3, RecordTyped DEF ListsTyped
<1>4. ASSUME UNCHANGED <<ring, nextSeq, input>>, queue' \in Seq(Recorded), Len(queue') <= QueueSize,
             torn' \subseteq 1 .. LastDay, writer'.event \in Recorded \cup {NoEvent},
             days' \in [1 .. LastDay -> Seq(Recorded)]
      PROVE  ListsTyped'
  BY <1>1, <1>4 DEF ListsTyped
<1>5. LastDay \in Nat \ {0} /\ RingSize \in Nat \ {0} /\ QueueSize \in Nat
  BY LogAssumption
<1>6. writer.at # "wait" => writer.event \in Recorded \cup {NoEvent}
  BY DEF ListsTyped
<1>7. ASSUME NEW w, writer' = [writer EXCEPT !.at = w] \/ WriterWaits \/ Reopens
      PROVE  writer'.event \in Recorded \cup {NoEvent}
  BY <1>7 DEF WriterWaits, Reopens, WriterAgrees, ListsTyped
<1>8. CASE Emit
  BY <1>3, <1>8 DEF Emit, diskVars
<1>9. CASE Takes
  <2>1. Head(queue) \in Recorded /\ Tail(queue) \in Seq(Recorded) /\ Len(Tail(queue)) <= QueueSize
    BY <1>5, <1>9 DEF Takes, ListsTyped
  <2>2. writer'.event = Head(queue)
    BY <1>9 DEF Takes, WriterAgrees
  <2> QED
    BY <1>4, <1>9, <2>1, <2>2 DEF Takes, memoryVars, diskVars, ListsTyped
<1>10. CASE OpensDay
  <2>1. writer'.event \in Recorded \cup {NoEvent}
    <3>1. CASE WriterWaits
      BY <1>7, <3>1
    <3>2. CASE writer' = [writer EXCEPT !.open = writer.event.day, !.full = 0]
      BY <3>2 DEF WriterAgrees, ListsTyped
    <3> QED
      BY <1>10, <3>1, <3>2 DEF OpensDay
  <2> QED
    BY <1>4, <1>10, <2>1 DEF OpensDay, diskVars, ListsTyped
<1>11. CASE SkipsFull
  <2>1. writer'.event = NoEvent
    BY <1>11 DEF SkipsFull, WriterAgrees
  <2> DEFINE e == [id |-> 0, kind |-> "full", day |-> today, seq |-> nextSeq + 1]
  <2>2. e \in Recorded
    <3>1. 0 \in 0 .. MaxRecorded
      BY LogAssumption
    <3> QED
      BY <3>1 DEF Recorded, LogTyped, ListsTyped
  <2>3. \/ ring' = ring /\ nextSeq' = nextSeq
        \/ nextSeq' = nextSeq + 1 /\ ring' = LastOf(Append(ring, e), RingSize)
    BY <1>11 DEF SkipsFull
  <2> HIDE DEF e
  <2>4. ring' \in Seq(Recorded) /\ Len(ring') <= RingSize /\ nextSeq' \in Nat
    BY <2>2, <2>3, RingTurns DEF ListsTyped
  <2> QED
    BY <1>1, <1>11, <2>1, <2>4 DEF SkipsFull, ListsTyped
<1>12. CASE WritesLine
  <2>1. writer.open \in 1 .. LastDay /\ writer.at = "take"
    BY <1>12 DEF WritesLine, WriterAgrees
  <2>2. writer.event \in Recorded
    <3>1. writer.event.day \in 1 .. LastDay /\ NoEvent.day = 0
      BY <2>1 DEF WriterAgrees, NoEvent
    <3>2. writer.event # NoEvent
      BY <1>5, <3>1
    <3> QED
      BY <3>2 DEF ListsTyped
  <2>3. days' \in [1 .. LastDay -> Seq(Recorded)]
    <3>1. UNCHANGED days \/ days' = [days EXCEPT ![writer.open] = Append(@, writer.event)]
      BY <1>12 DEF WritesLine
    <3>2. Append(days[writer.open], writer.event) \in Seq(Recorded)
      BY <2>1, <2>2 DEF ListsTyped
    <3> QED
      BY <2>1, <3>1, <3>2 DEF ListsTyped
  <2>4. torn' \subseteq 1 .. LastDay
    BY <1>12, <2>1 DEF WritesLine, ListsTyped
  <2>5. writer'.event \in Recorded \cup {NoEvent}
    BY <1>7, <1>12 DEF WritesLine
  <2> QED
    BY <1>4, <1>12, <2>3, <2>4, <2>5 DEF WritesLine, ListsTyped
<1>13. CASE Flushes
  <2>1. writer'.event \in Recorded \cup {NoEvent}
    BY <1>7, <1>13 DEF Flushes
  <2> QED
    BY <1>4, <1>13, <2>1 DEF Flushes, diskVars, ListsTyped
<1>14. CASE Drains
  BY <1>1, <1>14 DEF Drains, memoryVars, diskVars, ListsTyped
<1>15. CASE Restarts
  <2> DEFINE kept == LastOf(FlattenSeq(days), RingSize)
  <2>1. kept \in Seq(Recorded) /\ Len(kept) <= RingSize
    <3>1. FlattenSeq(days) \in Seq(Recorded)
      BY <1>5, FlatIsList DEF ListsTyped
    <3> QED
      BY <1>5, <3>1, LastIsList
  <2>2. ring' = [i \in DOMAIN kept |-> [kept[i] EXCEPT !.seq = i]] /\ nextSeq' = Len(kept)
    BY <1>15 DEF Restarts
  <2> HIDE DEF kept
  <2>3. DOMAIN kept = 1 .. Len(kept) /\ Len(kept) \in Nat
    BY <2>1
  <2>4. ASSUME NEW i \in 1 .. Len(kept) PROVE [kept[i] EXCEPT !.seq = i] \in Recorded
    <3>1. kept[i] \in Recorded
      BY <2>1
    <3> QED
      BY <3>1 DEF Recorded
  <2>5. ring' \in [1 .. Len(kept) -> Recorded]
    BY <2>2, <2>3, <2>4
  <2>6. ring' \in Seq(Recorded) /\ Len(ring') = Len(kept)
    BY <2>3, <2>5
  <2>7. queue' = <<>> /\ input' = TRUE /\ writer' = StartingWriter /\ UNCHANGED <<days, torn>>
    BY <1>15 DEF Restarts, diskVars
  <2>8. <<>> \in Seq(Recorded) /\ Len(<<>>) <= QueueSize /\ StartingWriter.event = NoEvent
    BY <1>5 DEF StartingWriter
  <2> QED
    BY <1>1, <2>1, <2>2, <2>3, <2>6, <2>7, <2>8 DEF ListsTyped
<1>16. CASE DayEnds
  BY <1>2, <1>16 DEF DayEnds, memoryVars, diskVars
<1>17. ASSUME NEW s \in Switchers, SwitchSays(s) PROVE ListsTyped'
  <2> DEFINE kind == IF switches[s].on THEN "on" ELSE "off"
  <2>1. Record(kind) /\ kind \in {"plain", "off", "on"}
    BY <1>17 DEF SwitchSays
  <2> HIDE DEF kind
  <2> QED
    BY <1>3, <1>17, <2>1 DEF SwitchSays, diskVars
<1>18. ASSUME NEW s \in Switchers, SwitchBegins(s) \/ SwitchFlag(s) \/ SwitchMark(s) PROVE ListsTyped'
  BY <1>2, <1>18 DEF SwitchBegins, SwitchFlag, SwitchMark, memoryVars, diskVars
<1>19. CASE UNCHANGED logVars
  BY <1>2, <1>19 DEF logVars
<1> QED
  BY <1>8, <1>9, <1>10, <1>11, <1>12, <1>13, <1>14, <1>15, <1>16, <1>17, <1>18, <1>19 DEF LogNext

\* An empty log has its types.
LEMMA ListsBegin == LogInit => ListsTyped
<1> SUFFICES ASSUME LogInit PROVE ListsTyped
  OBVIOUS
<1>1. <<>> \in Seq(Recorded) /\ Len(<<>>) <= RingSize /\ Len(<<>>) <= QueueSize /\ MaxLogFaults \in 0 .. MaxLogFaults
  BY LogAssumption
<1>2. StartingWriter.event = NoEvent
  BY DEF StartingWriter
<1> QED
  BY <1>1, <1>2 DEF LogInit, ListsTyped

\* Ring, queue, files and the writer hold events, and no more than they may, for any sizes.
THEOREM LogTypesAreKept == LogSpec => []LogTypeOK
<1>1. LogInit => ListsTyped
  BY ListsBegin
<1>2. LogInv /\ ListsTyped /\ [LogNext]_logVars => ListsTyped'
  BY ListsKeep DEF LogInv
<1>3. LogSpec => []ListsTyped
  BY <1>1, <1>2, LogInvariance, PTL DEF LogSpec
<1>4. LogInv /\ ListsTyped => LogTypeOK
  BY LogTypes
<1> QED
  BY <1>3, <1>4, LogInvariance, PTL
-----------------------------------------------------------------------------
(* The composition *)

\* Failures are taken from a bound.
InstallBounded == instFaults \in 0 .. MaxInstFaults
LEMMA InstallBounds ==
  ASSUME InstallBounded, [InstallNext]_installVars
  PROVE  InstallBounded'
<1>1. UNCHANGED instFaults \/ Misfires
  BY ZenonT(40) DEF Receives, Received, Returns, UploadRefused, AsksDocker, Delivers, Queues, Spawns,
         TaskEndsWith, Uncertain, CreatesExec, KeepsExec, StartsExec, OutputEnds, InspectsExec,
         Compares, Writes, Unmarks, InstallStep, Loads, Reports, ExecEnds, ChannelStops,
         ChannelStarts, CoreEnds, InstallNext, Sound, installVars
<1> QED
  BY SMTT(30), <1>1, InstallerAssumption DEF InstallBounded, Misfires

ImageBounded == imageFaults \in 0 .. MaxImageFaults
LEMMA ImageBounds ==
  ASSUME ImageBounded, [ImageNext]_imageVars
  PROVE  ImageBounded'
<1>1. UNCHANGED imageFaults \/ Mishap
  BY DEF Preview, PreviewReady, Forgets, ConfirmLooks, ConfirmHolds, ConfirmTakes, LoadEnds,
         LoadCompares, LoadSends, LoadReadsBack, ImportNext, StartPull, ForgetsPull, EnsureImage,
         LoadBundled, WorkerEnds, Chooses, Fetches, Inspects, Refuses, Tags, Cleans, CutOff,
         PullNext, Releases, NameMoves, ArchiveNext, DownloadNext, ImageNext, Fine, imageVars,
         importVars, pullVars
<1> QED
  BY <1>1, ImageAssumption DEF ImageBounded, Mishap

\* The part a behaviour is about has its invariant in every state.
PartInv ==
  /\ Is("host") => HostInv
  /\ Is("book") => BookInv /\ QueuesServed
  /\ Is("archives") \/ Is("downloads") => ImageInv /\ ImageBounded
  /\ Is("installer") => InstallInv /\ InstallBounded
  /\ Is("log") => LogInv /\ ListsTyped

LEMMA PartTypes == PartInv => ServicesTypeOK
<1>1. HostInv => HostTypeOK
  BY HostTypes DEF HostInv
<1>2. BookInv /\ QueuesServed => BookTypeOK
  BY BookTypes
<1>3. ImageInv /\ ImageBounded => ImageTypeOK
  BY ImageTypes DEF ImageInv, ImageBounded
<1>4. InstallInv /\ InstallBounded => InstallTypeOK
  BY InstallTypes DEF InstallInv, InstallBounded
<1>5. LogInv /\ ListsTyped => LogTypeOK
  BY LogTypes
<1> QED
  BY <1>1, <1>2, <1>3, <1>4, <1>5 DEF PartInv, ServicesTypeOK

\* Each part begins as it does by itself.
LEMMA PartBegins == ServicesInit => PartInv
<1>1. BookInit => QueuesServed
  BY QueuesBegin
<1>2. ImageInit => ImageBounded
  BY ImageAssumption DEF ImageInit, ImageBounded
<1>3. InstallInit => InstallBounded
  BY InstallerAssumption DEF InstallInit, InstallBounded
<1>4. LogInit => ListsTyped
  BY ListsBegin
<1> QED
  BY <1>1, <1>2, <1>3, <1>4, HostInvInit, BookInvInit, ImageInvInit, InstallInvInit, LogInvInit
     DEF ServicesInit, PartInv

\* Each step is one of its own part.
LEMMA PartKeeps ==
  ASSUME PartInv, [ServicesNext]_servicesVars
  PROVE  PartInv'
<1>1. /\ UNCHANGED part
      /\ Is("host") => [HostNext]_hostVars
      /\ Is("book") => [BookNext]_bookVars
      /\ Is("archives") \/ Is("downloads") => [ImageNext]_imageVars
      /\ Is("installer") => [InstallNext]_installVars
      /\ Is("log") => [LogNext]_logVars
  <2>1. CASE UNCHANGED servicesVars
    BY <2>1 DEF servicesVars
  <2>2. CASE ServicesNext
    BY <2>2 DEF ServicesNext, ImageNext, Is
  <2> QED
    BY <2>1, <2>2
<1>2. CASE Is("host")
  <2>1. HostInv'
    BY <1>1, <1>2, HostKeeps DEF PartInv
  <2> QED
    BY <1>1, <1>2, <2>1 DEF PartInv, Is
<1>3. CASE Is("book")
  <2>1. BookInv /\ QueuesServed /\ [BookNext]_bookVars
    BY <1>1, <1>3 DEF PartInv
  <2>2. BookInv' /\ QueuesServed'
    BY <2>1, BookKeeps, QueuesKeep DEF BookInv
  <2> QED
    BY <1>1, <1>3, <2>2 DEF PartInv, Is
<1>4. CASE Is("archives") \/ Is("downloads")
  <2>1. ImageInv' /\ ImageBounded'
    BY <1>1, <1>4, ImageKeeps, ImageBounds DEF PartInv
  <2> QED
    BY <1>1, <1>4, <2>1 DEF PartInv, Is
<1>5. CASE Is("installer")
  <2>1. InstallInv' /\ InstallBounded'
    BY <1>1, <1>5, InstallKeeps, InstallBounds DEF PartInv
  <2> QED
    BY <1>1, <1>5, <2>1 DEF PartInv, Is
<1>6. CASE Is("log")
  <2>1. LogInv /\ ListsTyped /\ [LogNext]_logVars
    BY <1>1, <1>6 DEF PartInv
  <2>2. LogInv' /\ ListsTyped'
    BY <2>1, LogKeeps, ListsKeep DEF LogInv
  <2> QED
    BY <1>1, <1>6, <2>2 DEF PartInv, Is
<1>7. CASE part \notin {"host", "book", "archives", "downloads", "installer", "log"}
  BY <1>1, <1>7 DEF PartInv, Is
<1> QED
  BY <1>2, <1>3, <1>4, <1>5, <1>6, <1>7 DEF Is

\* Every value of each component stays in the set its code can produce, and every
\* counter within its bound, for any constants.
THEOREM ServicesTypesAreKept == ServicesSpec => []ServicesTypeOK
<1>1. PartInv /\ [ServicesNext]_servicesVars => PartInv'
  BY PartKeeps
<1> QED
  BY <1>1, PartBegins, PartTypes, PTL DEF ServicesSpec
=============================================================================
