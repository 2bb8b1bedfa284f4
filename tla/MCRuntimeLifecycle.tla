----------------------- MODULE MCRuntimeLifecycle -----------------------
(* The safety instance of RuntimeLifecycle for TLC. *)
EXTENDS RuntimeLifecycle, TLC

\* Requests and checks each behave alike.
Symmetry == Permutations(Requests) \cup Permutations(Checks)

===========================================================================
