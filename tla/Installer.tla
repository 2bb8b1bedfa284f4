------------------------------ MODULE Installer ------------------------------
(***************************************************************************)
(* Uploading an installer into a channel's container and running it there  *)
(* (installer_upload.rs; api.rs: upload, install_status).  The handler     *)
(* receives the file, takes the channel's lock, asks Docker whether an     *)
(* earlier installer still runs, delivers the package over the old one and *)
(* hands the run to a task of its own.  One small file per channel tells   *)
(* how the last attempt stands: the task writes it, and so does everybody  *)
(* who reads it and finds an attempt no task in this process belongs to.   *)
(*                                                                         *)
(* Simplifications:                                                        *)
(*  - One channel of the type "custom"; every package has the same name,   *)
(*    so that a delivery always lies over the one before.                  *)
(*  - An attempt is known by its upload's number; a container by how often *)
(*    the channel's was replaced.                                          *)
(***************************************************************************)
EXTENDS Integers, FiniteSets

CONSTANTS MaxUploads,     \* BOUND: uploads
          MaxInstances,   \* BOUND: containers of the channel, one after the other
          MaxInstFaults   \* BOUND: failing calls, lost answers, failing writes and crashes

ASSUME InstallerAssumption ==
  MaxUploads \in Nat /\ MaxInstances \in Nat \ {0} /\ MaxInstFaults \in Nat

VARIABLES
  record,    \* the status file: InstallStatus
  active,    \* ACTIVE: attempts with a task in this process
  exec,      \* Docker: per attempt the exec, where it is and how it ended
  runner,    \* run_install: per attempt where it is, what it will write
  upload,    \* the upload that holds SLOT
  reader,    \* public_status: what it has loaded
  channel,   \* the container, whether it is connected, who holds the channel's lock
  uploads, instFaults,
  crossed    \* a reader has written over a record newer than the one it read

installVars == <<record, active, exec, runner, upload, reader, channel, uploads, instFaults, crossed>>

Tries == 1 .. MaxUploads
Results == {"succeeded", "manual", "failed"}
Open == {"queued", "running"}
NoInstall == [phase |-> "none", n |-> 0, exec |-> FALSE]
NoTask == [at |-> "off", phase |-> "none", exec |-> FALSE]
NoUpload == [at |-> "free", seen |-> 0]
NoExec == [in |-> 0, state |-> "none", code |-> "none"]

InstallTypeOK ==
  /\ {record, reader} \subseteq
       [phase : Open \cup Results \cup {"none", "interrupted"}, n : 0 .. MaxUploads, exec : BOOLEAN]
  /\ active \subseteq Tries
  /\ exec \in [Tries -> [in : 0 .. MaxInstances,
                            state : {"none", "created", "running", "ended"},
                            code : Results \cup {"none"}]]
  /\ runner \in [Tries -> [at : {"off", "create", "keep", "start", "output", "inspect",
                                  "compare", "write", "unmark"},
                            phase : {"none", "queued", "running", "interrupted"} \cup Results,
                            exec : BOOLEAN]]
  /\ upload \in [at : {"free", "receiving", "locked", "asked", "deliver", "queue"},
                 seen : 0 .. MaxInstances]
  /\ channel \in [in : 1 .. MaxInstances, up : BOOLEAN, lock : {"free", "upload"}]
  /\ uploads \in 0 .. MaxUploads /\ instFaults \in 0 .. MaxInstFaults /\ crossed \in BOOLEAN

InstallInit ==
  /\ record = NoInstall /\ reader = NoInstall /\ active = {} /\ crossed = FALSE
  /\ exec = [n \in Tries |-> NoExec] /\ runner = [n \in Tries |-> NoTask]
  /\ upload = NoUpload /\ channel = [in |-> 1, up |-> TRUE, lock |-> "free"]
  /\ uploads = 0 /\ instFaults = MaxInstFaults

---------------------------------------------------------------------------
Misfires == instFaults > 0 /\ instFaults' = instFaults - 1
Sound == UNCHANGED instFaults
UploadGoes(at) == upload' = [upload EXCEPT !.at = at]
TaskGoes(n, at) == runner' = [runner EXCEPT ![n].at = at]
InTask(n, at) == runner[n].at = at

\* upload: the file is received before the channel is locked.
Receives ==
  /\ upload.at = "free" /\ uploads < MaxUploads
  /\ uploads' = uploads + 1
  /\ upload' = [at |-> "receiving", seen |-> channel.in]
  /\ Sound /\ UNCHANGED <<record, active, exec, runner, reader, channel, crossed>>
Received ==
  /\ upload.at = "receiving" /\ channel.lock = "free"
  /\ UploadGoes("locked") /\ channel' = [channel EXCEPT !.lock = "upload"]
  /\ Sound /\ UNCHANGED <<record, active, exec, runner, reader, uploads, crossed>>

Returns ==
  /\ upload' = NoUpload
  /\ channel' = [channel EXCEPT !.lock = "free"]
\* Under the lock the container is compared with the one the upload began for.
SameTarget == channel.in = upload.seen /\ channel.up
UploadRefused ==
  /\ upload.at = "locked" /\ ~SameTarget
  /\ Returns
  /\ Sound /\ UNCHANGED <<record, active, exec, runner, reader, uploads, crossed>>

\* install_in_progress: what Docker knows about the exec of the last record.
ExecThere(n) == exec[n].in = channel.in
ExecRuns(n) == ExecThere(n) /\ exec[n].state = "running"
\* A variant: only the tasks of this process are asked.
OnlyOurTasks == record.n \in active
InProgress == \/ record.n \in active
              \/ record.exec /\ ExecRuns(record.n)
AsksDocker ==
  /\ upload.at = "locked" /\ SameTarget
  /\ \/ Sound /\ IF InProgress THEN Returns ELSE UploadGoes("deliver") /\ UNCHANGED channel
     \/ record.n \notin active /\ record.exec /\ Misfires /\ Returns
  /\ UNCHANGED <<record, active, exec, runner, reader, uploads, crossed>>

\* The delivery may fail half-way: the handler ends, the package may be torn.
Delivers ==
  /\ upload.at = "deliver"
  /\ \/ Sound /\ UploadGoes("queue") /\ UNCHANGED channel
     \/ Misfires /\ Returns
  /\ UNCHANGED <<record, active, exec, runner, reader, uploads, crossed>>

\* persist_queued, mark_active and the spawn of run_install; a reader may come between.
Queues ==
  /\ upload.at = "queue" /\ uploads \notin active /\ record.n # uploads
  /\ \/ Sound /\ record' = [phase |-> "queued", n |-> uploads, exec |-> FALSE]
        /\ UNCHANGED <<upload, channel>>
     \/ Misfires /\ Returns /\ UNCHANGED record
  /\ UNCHANGED <<active, exec, runner, reader, uploads, crossed>>
Spawns ==
  /\ upload.at = "queue" /\ record.n = uploads
  /\ active' = active \cup {uploads}
  /\ runner' = [runner EXCEPT ![uploads] = [NoTask EXCEPT !.at = "create", !.phase = "queued"]]
  /\ exec' = [exec EXCEPT ![uploads].in = upload.seen]
  /\ Returns
  /\ Sound /\ UNCHANGED <<record, reader, uploads, crossed>>

---------------------------------------------------------------------------
\* run_install.  What ends before the start is "failed", what ends after it without
\* an exit code is "interrupted" and keeps the exec for the next upload to ask about.
TaskEndsWith(n, phase, keeps) ==
  runner' = [runner EXCEPT ![n].at = "compare", ![n].phase = phase, ![n].exec = keeps]
Uncertain(n) == TaskEndsWith(n, "interrupted", TRUE)

CreatesExec(n) ==
  /\ InTask(n, "create")
  /\ \/ /\ Sound /\ ExecThere(n) /\ channel.up
        /\ exec' = [exec EXCEPT ![n].state = "created"]
        /\ TaskGoes(n, "keep")
     \/ /\ IF ExecThere(n) /\ channel.up THEN Misfires ELSE Sound
        /\ TaskEndsWith(n, "failed", FALSE) /\ UNCHANGED exec
  /\ UNCHANGED <<record, active, upload, reader, channel, uploads, crossed>>

KeepsExec(n) ==
  /\ InTask(n, "keep")
  /\ \/ /\ Sound
        /\ record' = [phase |-> "running", n |-> n, exec |-> TRUE]
        /\ TaskGoes(n, "start")
     \/ Misfires /\ TaskEndsWith(n, "failed", FALSE) /\ UNCHANGED record
  /\ UNCHANGED <<active, exec, upload, reader, channel, uploads, crossed>>

\* start_exec: without an answer the process may run or not.
StartsExec(n) ==
  /\ InTask(n, "start")
  /\ \/ /\ ExecThere(n) /\ channel.up
        /\ exec' = [exec EXCEPT ![n].state = "running"]
        /\ \/ Sound /\ TaskGoes(n, "output")
           \/ Misfires /\ Uncertain(n)
     \/ /\ IF ExecThere(n) /\ channel.up THEN Misfires ELSE Sound
        /\ Uncertain(n) /\ UNCHANGED exec
  /\ UNCHANGED <<record, active, upload, reader, channel, uploads, crossed>>

\* The output ends with the process, or breaks off.
OutputEnds(n) ==
  /\ InTask(n, "output")
  /\ \/ Sound /\ ~ExecRuns(n) /\ TaskGoes(n, "inspect")
     \/ Misfires /\ Uncertain(n)
  /\ UNCHANGED <<record, active, exec, upload, reader, channel, uploads, crossed>>
InspectsExec(n) ==
  /\ InTask(n, "inspect")
  /\ \/ Sound /\ ExecThere(n) /\ TaskEndsWith(n, exec[n].code, FALSE)
     \/ (IF ExecThere(n) THEN Misfires ELSE Sound) /\ Uncertain(n)
  /\ UNCHANGED <<record, active, exec, upload, reader, channel, uploads, crossed>>

\* The result belongs to the container the attempt was made for.
StillSame(n) == ExecThere(n)
Compares(n) ==
  /\ InTask(n, "compare")
  /\ runner' = [runner EXCEPT ![n].at = "write",
                ![n].phase = IF StillSame(n) THEN @ ELSE "interrupted"]
  /\ Sound /\ UNCHANGED <<record, active, exec, upload, reader, channel, uploads, crossed>>
Writes(n) ==
  /\ InTask(n, "write")
  /\ TaskGoes(n, "unmark")
  /\ \/ Sound /\ record' = [phase |-> runner[n].phase, n |-> n, exec |-> runner[n].exec]
     \/ Misfires /\ UNCHANGED record
  /\ UNCHANGED <<active, exec, upload, reader, channel, uploads, crossed>>
Unmarks(n) ==
  /\ InTask(n, "unmark")
  /\ active' = active \ {n} /\ runner' = [runner EXCEPT ![n] = NoTask]
  /\ Sound /\ UNCHANGED <<record, exec, upload, reader, channel, uploads, crossed>>

InstallStep(n) ==
  \/ CreatesExec(n) \/ KeepsExec(n) \/ StartsExec(n) \/ OutputEnds(n) \/ InspectsExec(n)
  \/ Compares(n) \/ Writes(n) \/ Unmarks(n)

---------------------------------------------------------------------------
\* public_status: loads the record, and later writes it back as interrupted when no
\* task of this process belongs to it.
Loads ==
  /\ reader = NoInstall /\ record.phase \in Open
  /\ reader' = record
  /\ Sound /\ UNCHANGED <<record, active, exec, runner, upload, channel, uploads, crossed>>
Reports ==
  /\ reader # NoInstall
  /\ reader' = NoInstall
  /\ IF reader.n \in active THEN UNCHANGED <<record, crossed>>
     ELSE /\ record' = [reader EXCEPT !.phase = "interrupted"]
          /\ crossed' = (crossed \/ record # reader)
  /\ Sound /\ UNCHANGED <<active, exec, runner, upload, channel, uploads>>

\* The process in the container ends by itself, or with its container.
ExecEnds(n) ==
  /\ exec[n].state = "running"
  /\ \E code \in Results : exec' = [exec EXCEPT ![n].state = "ended", ![n].code = code]
  /\ Sound /\ UNCHANGED <<record, active, runner, upload, reader, channel, uploads, crossed>>
Halted == [n \in Tries |-> IF exec[n].state # "running" THEN exec[n]
                              ELSE [exec[n] EXCEPT !.state = "ended", !.code = "failed"]]
\* A stop, a start or a replacement of the channel, under its lock.
ChannelStops ==
  /\ channel.lock = "free" /\ channel.up
  /\ channel' = [channel EXCEPT !.up = FALSE] /\ exec' = Halted
  /\ Sound /\ UNCHANGED <<record, active, runner, upload, reader, uploads, crossed>>
ChannelStarts ==
  /\ channel.lock = "free" /\ ~channel.up
  /\ \E i \in {channel.in, channel.in + 1} :
       i <= MaxInstances /\ channel' = [channel EXCEPT !.in = i, !.up = TRUE]
  /\ Sound /\ UNCHANGED <<record, active, exec, runner, upload, reader, uploads, crossed>>

\* The core ends: its tasks and handlers are gone, Docker and the file are not.
CoreEnds ==
  /\ Misfires
  /\ active' = {} /\ runner' = [n \in Tries |-> NoTask] /\ reader' = NoInstall
  /\ upload' = NoUpload /\ channel' = [channel EXCEPT !.lock = "free"]
  /\ UNCHANGED <<record, exec, uploads, crossed>>

InstallNext ==
  \/ Receives \/ Received \/ UploadRefused \/ AsksDocker \/ Delivers \/ Queues \/ Spawns
  \/ \E n \in Tries : InstallStep(n) \/ ExecEnds(n)
  \/ Loads \/ Reports \/ ChannelStops \/ ChannelStarts \/ CoreEnds
InstallSpec == InstallInit /\ [][InstallNext]_installVars

---------------------------------------------------------------------------
\* A package is never delivered over one that an installer is still reading or about to
\* start on, and two installers never run in one container: not after a crash, not after an
\* answer that was lost.  Except where a reader has written over a record newer than the
\* one it had read (see the README).
InstallersStayApart ==
  [][crossed' \/
     /\ upload.at = "deliver" /\ upload'.at = "queue" =>
          \A n \in Tries : ~ExecRuns(n) /\ ~(InTask(n, "start") /\ ExecThere(n))
     /\ Cardinality({n \in Tries : ExecRuns(n)}') <= 1]_installVars

\* What is reported as a result is how the process ended: nothing is inferred from a
\* task that is gone, an answer that was lost or another container's process.
ResultsAreTrue ==
  record.phase \in {"succeeded", "manual"} =>
    exec[record.n].state = "ended" /\ exec[record.n].code = record.phase

\* InstallersStayApart and ResultsAreTrue.
InstallsAreKnown == InstallersStayApart /\ []ResultsAreTrue
=============================================================================
