--------------------------- MODULE UpgradeSwitch ---------------------------
(***************************************************************************)
(* The offline switch of the data directory to an upgraded copy            *)
(* (upgrade_switch.rs, upgrade.rs, data_owner.rs).  A reviewed copy is     *)
(* staged beside the target, a journal says how far the switch is, the two *)
(* directories are exchanged in one system call, and the directory that    *)
(* was replaced is kept for a rollback.  Commands run one process each and *)
(* may be killed between any two steps; the application may be started at  *)
(* any time.                                                               *)
(*                                                                         *)
(* Simplifications:                                                        *)
(*  - A directory is the copy when it carries the marker of the journal's  *)
(*    record; what else it holds is `edited`: the user's changes since the *)
(*    copy was made.                                                       *)
(*  - The copy is staged before the journal is created.  A process that is *)
(*    killed while staging leaves a directory no later step looks at.      *)
(*  - The checks of paths, hashes, formats and of the stopped machine only *)
(*    refuse; the one that compares the original with the copy is kept.    *)
(*  - Power loss is not modelled: the steps are ordered by fsync.          *)
(***************************************************************************)
EXTENDS Naturals

CONSTANT MaxEdits  \* BOUND: changes the user makes in a running application
ASSUME MaxEditsAssumption == MaxEdits \in Nat

VARIABLES
  journal,  \* Record.phase, or "none"
  swapped,  \* the target directory is the copy
  sealed,   \* the copy still holds the pending file
  history,  \* completed-upgrade.json of this record: its phase, or "none"
  command,  \* the command running and the step it is at
  app,      \* the application on the target directory
  sameDir,  \* the original of the copy is the target directory itself
  copy,     \* the review copy: "none", "drafting" or "reviewed"
  edited,   \* the original has been changed since the copy was begun
  edits     \* changes still to come

\* Auxiliary: since the last activation began the user has worked in the target
\* directory while it was not the copy.
VARIABLE hidden

switchVars == <<journal, swapped, sealed, history, command, app, copy, sameDir,
                edited, edits, hidden>>
disk == <<journal, swapped, sealed, history>>
user == <<app, copy, sameDir, edited, edits, hidden>>

Commands == {"none", "activate", "resume", "rollback", "finish"}
Steps == {"idle", "inspect", "exchange", "unseal", "confirm", "undo", "undone",
          "archive", "forget"}

Journals == {"none", "prepared", "active", "rolling_back", "rolled_back"}

SwitchTypeOK ==
  /\ journal \in Journals
  /\ swapped \in BOOLEAN /\ sealed \in BOOLEAN
  /\ sameDir \in BOOLEAN /\ edited \in BOOLEAN /\ hidden \in BOOLEAN
  /\ history \in Journals
  /\ command \in [name : Commands, step : Steps]
  /\ app \in {"off", "checked", "leased", "running"}
  /\ copy \in {"none", "drafting", "reviewed"}
  /\ edits \in 0 .. MaxEdits

Idle == [name |-> "none", step |-> "idle"]

SwitchInit ==
  /\ journal = "none" /\ swapped = FALSE /\ sealed = FALSE /\ history = "none"
  /\ command = Idle
  /\ app = "off"
  /\ copy = "none" /\ sameDir \in BOOLEAN
  /\ edited = FALSE /\ edits = MaxEdits /\ hidden = FALSE

---------------------------------------------------------------------------
\* What the directories and the journal say together.

\* inspect: the phase a command goes by, or "unclear" when they contradict.
Phase ==
  IF swapped
    THEN IF journal = "rolling_back" THEN "rolling_back"
         ELSE IF sealed THEN "activating" ELSE "active"
    ELSE IF journal \in {"rolling_back", "rolled_back"} THEN "rolled_back"
         ELSE IF journal = "prepared" THEN "prepared" ELSE "unclear"

\* validate_boot, and Config::validate's own look at the pending file.
JournalAllowsBoot == journal = "prepared" => swapped
BootAllowed ==
  /\ ~(swapped /\ sealed)
  /\ journal = "active" => swapped
  /\ journal \in {"rolling_back", "rolled_back"} => ~swapped
  /\ JournalAllowsBoot

\* data_owner::Lease: the directory has one owner, by its path.
Leased == command # Idle \/ app \in {"leased", "running"}

To(step) == command' = [command EXCEPT !.step = step]
Ends == command' = Idle

---------------------------------------------------------------------------
\* The application: validate, take the lease, validate again, run.

AppChecks ==
  /\ app = "off" /\ BootAllowed
  /\ app' = "checked"
  /\ UNCHANGED <<disk, command, copy, sameDir, edited, edits, hidden>>

AppLeases ==
  /\ app = "checked"
  /\ app' = IF Leased THEN "off" ELSE "leased"
  /\ UNCHANGED <<disk, command, copy, sameDir, edited, edits, hidden>>

RecheckAllows == BootAllowed

AppBoots ==
  /\ app = "leased"
  /\ app' = IF RecheckAllows THEN "running" ELSE "off"
  /\ UNCHANGED <<disk, command, copy, sameDir, edited, edits, hidden>>

\* The user works.  While the copy is in place this is not the original.
AppEdits ==
  /\ app = "running" /\ edits > 0
  /\ edits' = edits - 1
  /\ edited' = (edited \/ (sameDir /\ ~swapped))
  /\ hidden' = (hidden \/ ~swapped)
  /\ UNCHANGED <<disk, command, app, copy, sameDir>>

\* Another installation still uses the original.
OriginalChanges ==
  /\ ~sameDir /\ edits > 0 /\ command.name \notin {"activate", "resume"}
  /\ edits' = edits - 1
  /\ edited' = TRUE
  /\ UNCHANGED <<disk, command, app, copy, sameDir, hidden>>

AppEnds ==
  /\ app # "off"
  /\ app' = "off"
  /\ UNCHANGED <<disk, command, copy, sameDir, edited, edits, hidden>>

---------------------------------------------------------------------------
\* Commands.

\* prepare: nobody is locked out while the copy is made, so the original is
\* read again at the end and must be what was copied.
Prepare ==
  /\ copy # "drafting" /\ journal = "none"
  /\ copy' = "drafting" /\ sameDir' \in BOOLEAN /\ edited' = FALSE
  /\ UNCHANGED <<disk, command, app, edits, hidden>>

PrepareEnds ==
  /\ copy = "drafting"
  /\ copy' = IF edited THEN "none" ELSE "reviewed"
  /\ UNCHANGED <<disk, command, app, sameDir, edited, edits, hidden>>

\* validate_prepared: the original must still be what was copied.
StaleCopyAccepted == TRUE
CopyIsFresh == ~edited

Activate ==
  /\ ~Leased
  /\ journal = "none" /\ copy = "reviewed" /\ CopyIsFresh
  /\ journal' = "prepared" /\ sealed' = TRUE
  /\ command' = [name |-> "activate", step |-> "inspect"]
  /\ hidden' = FALSE
  /\ UNCHANGED <<swapped, history, app, copy, sameDir, edited, edits>>

Begin(c) ==
  /\ ~Leased
  /\ journal # "none"
  /\ command' = [name |-> c, step |-> "inspect"]
  /\ UNCHANGED <<disk, user>>

Restores == command.name = "rollback" \/ journal = "rolling_back"

\* finish_activation
ActivationInspects ==
  /\ command.step = "inspect" /\ command.name \in {"activate", "resume"} /\ ~Restores
  /\ \/ Phase = "prepared" /\ CopyIsFresh /\ To("exchange")
     \/ Phase = "prepared" /\ ~CopyIsFresh /\ Ends
     \/ Phase \in {"activating", "active"} /\ To(IF sealed THEN "unseal" ELSE "confirm")
     \/ Phase \notin {"prepared", "activating", "active"} /\ Ends
  /\ UNCHANGED <<disk, user>>

Exchanges ==
  /\ command.step = "exchange"
  /\ swapped' = TRUE
  /\ To("unseal")
  /\ UNCHANGED <<journal, sealed, history, user>>

Unseals ==
  /\ command.step = "unseal"
  /\ sealed' = FALSE
  /\ To("confirm")
  /\ UNCHANGED <<journal, swapped, history, user>>

Confirms ==
  /\ command.step = "confirm"
  /\ journal' = "active"
  /\ Ends
  /\ UNCHANGED <<swapped, sealed, history, user>>

RecordsUnknown == journal' = "restoring"
\* restore: the intention is journalled before the directories move back.
RecordsAfterwards == UNCHANGED journal
RecordsIntent == journal' = "rolling_back"

RestoreInspects ==
  /\ command.step = "inspect" /\ command.name \in {"rollback", "resume"} /\ Restores
  /\ IF Phase \in {"rolled_back", "unclear"}
       THEN Ends /\ UNCHANGED journal
       ELSE RecordsIntent /\ To(IF swapped THEN "undo" ELSE "undone")
  /\ UNCHANGED <<swapped, sealed, history, user>>

ExchangesBack ==
  /\ command.step = "undo"
  /\ swapped' = FALSE
  /\ To("undone")
  /\ UNCHANGED <<journal, sealed, history, user>>

RestoreConfirms ==
  /\ command.step = "undone"
  /\ journal' = "rolled_back"
  /\ Ends
  /\ UNCHANGED <<swapped, sealed, history, user>>

\* finish: the record is archived in the retained directory, then removed.
\* An archive that an interrupted finish left must be the same record.
HistoryAgrees == history \in {"none", journal}

FinishInspects ==
  /\ command.step = "inspect" /\ command.name = "finish"
  /\ IF Phase \in {"active", "rolled_back"} /\ HistoryAgrees
       THEN To("archive") ELSE Ends
  /\ UNCHANGED <<disk, user>>

Archives ==
  /\ command.step = "archive"
  /\ history' = journal
  /\ To("forget")
  /\ UNCHANGED <<journal, swapped, sealed, user>>

\* Whatever the target directory holds now is the application's data.
Forgets ==
  /\ command.step = "forget"
  /\ journal' = "none" /\ swapped' = FALSE /\ sealed' = FALSE /\ history' = "none"
  /\ copy' = IF swapped THEN "none" ELSE copy
  /\ Ends
  /\ UNCHANGED <<app, sameDir, edited, edits, hidden>>

\* SIGKILL, a crash of the machine's user session, a command that fails.
Killed ==
  /\ command # Idle
  /\ Ends
  /\ UNCHANGED <<disk, user>>

Command ==
  \/ Prepare \/ PrepareEnds \/ Activate
  \/ \E c \in {"resume", "rollback", "finish"} : Begin(c)
  \/ ActivationInspects \/ Exchanges \/ Unseals \/ Confirms
  \/ RestoreInspects \/ ExchangesBack \/ RestoreConfirms
  \/ FinishInspects \/ Archives \/ Forgets
Application == AppChecks \/ AppLeases \/ AppBoots \/ AppEdits \/ AppEnds

SwitchNext == Command \/ Killed \/ Application \/ OriginalChanges

SwitchSpec == SwitchInit /\ [][SwitchNext]_switchVars

---------------------------------------------------------------------------
\* Properties.

\* The journal and the directories never contradict each other, whatever was
\* killed where: a resume or a rollback always knows what to do.
DirectoriesClear ==
  journal # "none" => Phase # "unclear" /\ (journal = "rolled_back" => ~swapped)

\* The application never runs on, nor its user works in, a directory that a
\* switch is about to put aside or has not finished putting in place.
RunsOnSettledData ==
  app = "running" =>
    /\ ~(swapped /\ sealed)
    /\ journal = "prepared" => swapped
    /\ journal = "rolling_back" => ~swapped

\* When the copy moves in, what the activation began with still holds, though it was
\* killed and resumed, and others ran meanwhile: the original has not changed since
\* the copy was begun, and nobody has worked in the target since the activation
\* began.  What a target that is not the original held before the activation, and
\* what is done in the copy before a rollback, does move to the retained directory:
\* the commands mean it to (upgrade_switch.rs:170-186, 210-219 and the test at 248-274).
ExchangeIsCurrent == [][~swapped /\ swapped' => ~hidden /\ ~edited]_switchVars

\* What was rolled back stays rolled back until a new copy is activated: no
\* resume, retry or restart moves the copy back in.
StaysRolledBack ==
  journal \in {"rolling_back", "rolled_back"} =>
    journal' \in {"none", "rolling_back", "rolled_back"} /\ (swapped' => swapped)
RollbackIsFinal == [][StaysRolledBack]_switchVars

\* A switch that is complete or rolled back can be finished.  The message of
\* finish promises it: complete the switch or roll it back, then finish.
FinishedCanBeArchived ==
  journal # "none" /\ command = Idle /\ Phase \in {"active", "rolled_back"} => HistoryAgrees

\* However often the switch is killed and begun anew, the data directories tell
\* which data is in force, and the new version runs only on data that was copied
\* completely (upgrade_switch.rs:60-240).
SwitchSafe == DirectoriesClear /\ RunsOnSettledData

\* The copy moves in only over what the activation has seen, and never again after
\* a rollback has begun (upgrade.rs:173-183, upgrade_switch.rs:170-219).
SwitchIsCurrent == ExchangeIsCurrent /\ RollbackIsFinal
===========================================================================
