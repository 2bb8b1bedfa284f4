------------------------------- MODULE MCEntry -------------------------------
(* Instances for TLC of the core's side of the TUN entry and of the helper's   *)
(* resolver files.  They share no state: `part` says which of them a behaviour *)
(* is about, and the other one stays where it begins.                          *)
EXTENDS TunEntry, ResolverFiles, TLC

\* The rules that name no domain; the other goals differ from them in domains.
CONSTANT Plain
MCOnDisk == [g \in Goals |-> Plain]

VARIABLE part

\* A part that rests begins at one of its initial states: which does not matter.
TunnelInit ==
  /\ part \in {"entry", "resolver"} /\ EntryInit /\ ResolverInit
  /\ part = "resolver" => ~flag
  /\ part = "entry" => file = records
TunnelNext ==
  \/ part = "entry" /\ EntryNext /\ UNCHANGED <<part, resolverVars>>
  \/ part = "resolver" /\ ResolverNext /\ UNCHANGED <<part, entryVars>>
TunnelSpec == TunnelInit /\ [][TunnelNext]_<<part, entryVars, resolverVars>>

\* The domains are alike: sound for safety.
Symmetry == Permutations(Domains)

\* Every value of either component stays in the set its code can produce.
TunnelTypeOK == EntryTypeOK /\ ResolverTypeOK
=============================================================================
