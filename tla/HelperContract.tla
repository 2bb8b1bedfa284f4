--------------------------- MODULE HelperContract ---------------------------
(***************************************************************************)
(* What the privileged helper promises the application, without how:       *)
(* what is wanted changes only with a higher generation, the network is    *)
(* taken over only under a lease, and a lease that has ended is followed   *)
(* by a release.  TunHelper implements it; TunEntry is written against it. *)
(***************************************************************************)
EXTENDS Naturals

CONSTANTS Goals,  \* what can be asked for
          OnDisk  \* what the disk keeps of each: the domains are left out

ASSUME ContractAssumption == OnDisk \in [Goals -> Goals]

VARIABLES
  generation,  \* of the request accepted last
  running,     \* an entry is wanted
  goal,        \* the one that is
  leased,      \* somebody vouches for it
  engaged      \* the engine, a route or a resolver file of ours is there

contractVars == <<generation, running, goal, leased, engaged>>
want == <<generation, running, goal>>

ContractInit ==
  /\ generation \in Nat /\ running \in BOOLEAN /\ goal \in Goals
  /\ leased = FALSE /\ engaged = FALSE

\* A request of a generation that is not higher is refused.
ContractEnsure(g, r) ==
  /\ g > generation
  /\ generation' = g /\ running' = TRUE /\ goal' = r /\ leased' = TRUE
  /\ UNCHANGED engaged

\* The request that is kept, once more, or a renewal of its generation.  Any other
\* request of that generation is refused: after a restart that goes for the one
\* that was accepted as well, if the disk has not kept all of it.
ContractRenew ==
  /\ running
  /\ leased' = TRUE
  /\ UNCHANGED <<want, engaged>>

\* The stop itself tries to release; the attempt may fail.
ContractStop(g) ==
  /\ g > generation
  /\ generation' = g /\ running' = FALSE /\ leased' = FALSE
  /\ engaged' \in {FALSE, engaged}
  /\ UNCHANGED goal

ContractExpire ==
  /\ leased
  /\ leased' = FALSE
  /\ UNCHANGED <<want, engaged>>

ContractEngage ==
  /\ leased
  /\ engaged' = TRUE
  /\ UNCHANGED <<want, leased>>

ContractRelease ==
  /\ engaged' = FALSE
  /\ UNCHANGED <<want, leased>>

\* The lease is not kept on disk, and of what is wanted only a part.
ContractRestart ==
  /\ leased' = FALSE /\ engaged' = FALSE
  /\ goal' = OnDisk[goal]
  /\ UNCHANGED <<generation, running>>

ContractRequest ==
  \/ ContractStop(generation') /\ generation' \in Nat
  \/ ContractEnsure(generation', goal') /\ generation' \in Nat /\ goal' \in Goals
  \/ ContractRenew
ContractOwnStep == ContractExpire \/ ContractEngage \/ ContractRelease \/ ContractRestart

ContractNext == ContractRequest \/ ContractOwnStep

ContractSafety == ContractInit /\ [][ContractNext]_contractVars

\* Nobody has to ask for the release.
ContractReleases == []<>(leased \/ ~engaged)

=============================================================================
