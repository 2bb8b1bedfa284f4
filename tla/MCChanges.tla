------------------------------ MODULE MCChanges ------------------------------
(* Instances of ConfigApply and Replacement for TLC.  The two components share *)
(* no state: `part` says which of them a behaviour is about, and the other one *)
(* stays where it begins, so that one run checks both.                         *)
EXTENDS ConfigApply, Replacement, TLC

VARIABLE part

\* The part that rests begins at one of its initial states: which does not matter.
ChangesInit ==
  /\ part \in {"config", "replacement"} /\ ConfigInit /\ ReplacementInit
  /\ part = "config" => ch.id = Unset /\ ch.settings = CHOOSE v \in Versions : TRUE
  /\ part = "replacement" => src.status = "live" /\ src.content = CHOOSE c \in Contents : TRUE
ChangesNext ==
  \/ part = "config" /\ ConfigNext /\ UNCHANGED <<part, replacementVars>>
  \/ part = "replacement" /\ ReplacementNext /\ UNCHANGED <<part, configVars>>

changesVars == <<part, configVars, replacementVars>>
ChangesSpec == ChangesInit /\ [][ChangesNext]_changesVars

\* The fairness of LiveSpec and of FairSpec, each for its own part.
ChangesLive ==
  /\ ChangesSpec
  /\ \A p \in Appliers : WF_configVars(part = "config" /\ AttemptStep(p))
  /\ WF_configVars(part = "config" /\ \E p \in Appliers : BeginAttempt(p))
  /\ WF_configVars(part = "config" /\ KernelStep)
  /\ WF_replacementVars(part = "replacement" /\ Handler)
  /\ WF_replacementVars(part = "replacement" /\ HelperCopies)
  /\ WF_replacementVars(part = "replacement" /\ Boot)
  /\ WF_replacementVars(part = "replacement" /\ CleanUp)

\* Versions and appliers are alike: sound for the safety run only.
Symmetry == Permutations(Appliers) \cup Permutations(Contents) \cup Permutations(Versions)

\* After finitely many edits and failures retrying always confirms
\* (ConfigApply!RetryConverges, in the behaviours that are about the journal).
RetriesConfirm == part = "config" => RetryConverges

\* Every value of either component stays in the set its code can produce.
ChangesTypeOK == ConfigTypeOK /\ ReplacementTypeOK
=============================================================================
