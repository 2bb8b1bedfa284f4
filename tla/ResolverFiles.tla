---------------------------- MODULE ResolverFiles ----------------------------
(***************************************************************************)
(* The helper's resolver files (helper/src/resolver.rs): one file per      *)
(* domain in a directory it shares with the user.  A journal on disk says  *)
(* which contents are its own; every content has a nonce of its own, and   *)
(* is journalled before it is published.  The helper may be killed between *)
(* any two of its writes, and cleans up when it starts again.              *)
(*                                                                         *)
(* Simplifications:                                                        *)
(*  - Comparing a file with the journal and removing it is one step.       *)
(*  - Staged files with random names are not modelled: nobody reads them.  *)
(***************************************************************************)
EXTENDS Integers

CONSTANTS Domains,
          MaxWrites,  \* BOUND: contents written
          MaxUser,    \* BOUND: changes by the user
          MaxBreaks   \* BOUND: failing calls and kills

ASSUME ResolverAssumption == MaxWrites \in Nat /\ MaxUser \in Nat /\ MaxBreaks \in Nat

VARIABLES
  file,     \* per domain the content of its file
  records,  \* the journal on disk: per domain the content expected
  state,    \* Resolvers.state, the journal in memory
  job,      \* the reconcile running
  nonce,    \* contents written so far
  users,    \* changes by the user left
  breaks    \* failures and kills left

resolverVars == <<file, records, state, job, nonce, users, breaks>>

Ports == {1053, 1054}
Free == <<"free", 0, 0>>
User == <<"user", 0, 0>>
Own(n, port) == <<"ours", n, port>>
Contents == {Free} \cup ({"ours"} \X (1 .. MaxWrites) \X Ports)

\* A job goes through the stale entries and then the wanted domains.
StepNames == {"pick", "remove", "drop", "insert", "publish", "relinquish"}
NoJob == [on |-> FALSE, boot |-> FALSE, want |-> {}, port |-> 1053, todo |-> {},
          now |-> "none", step |-> "pick"]

ResolverTypeOK ==
  /\ file \in [Domains -> Contents \cup {User}]
  /\ records \in [Domains -> Contents] /\ state \in [Domains -> Contents]
  /\ job \in [on : BOOLEAN, boot : BOOLEAN, want : SUBSET Domains, port : Ports,
              todo : SUBSET Domains, now : Domains \cup {"none"}, step : StepNames]
  /\ nonce \in 0 .. MaxWrites /\ users \in 0 .. MaxUser /\ breaks \in 0 .. MaxBreaks

ResolverInit ==
  /\ file \in [Domains -> {Free, User}]
  /\ records = [d \in Domains |-> Free] /\ state = records
  /\ job = NoJob
  /\ nonce = 0 /\ users = MaxUser /\ breaks = MaxBreaks

---------------------------------------------------------------------------
Goes(step) == job' = [job EXCEPT !.step = step]
NextDomain == job' = [job EXCEPT !.todo = @ \ {job.now}, !.now = "none", !.step = "pick"]
\* An error ends the job.  At boot it ends the process: Restarts.
Fails == ~job.boot /\ job' = NoJob

Stale == {d \in Domains : state[d] # Free /\ d \notin job.want}
At(step) == job.on /\ job.step = step

Begins(w, port) ==
  /\ ~job.on /\ job' = [NoJob EXCEPT !.on = TRUE, !.want = w, !.port = port, !.todo = Domains]
  /\ UNCHANGED <<file, records, state, nonce, users, breaks>>

\* Stale entries first; a wanted domain that is served needs nothing.
Served(d) == state[d] # Free /\ file[d] = state[d] /\ state[d][3] = job.port
Picks(d) ==
  /\ At("pick") /\ d \in job.todo
  /\ d \in Stale \/ (d \in job.want /\ Stale = {})
  /\ job' = IF d \in job.want /\ Served(d) THEN [job EXCEPT !.todo = @ \ {d}]
            ELSE [job EXCEPT !.now = d, !.step = IF state[d] # Free THEN "remove" ELSE "insert"]
  /\ UNCHANGED <<file, records, state, nonce, users, breaks>>

ResolverEnds ==
  /\ At("pick") /\ Stale = {} /\ job.todo \cap job.want = {}
  /\ job' = NoJob
  /\ UNCHANGED <<file, records, state, nonce, users, breaks>>

\* remove_owned: only the content that was journalled is removed.
OursByName(d) == file[d] # Free
OursByContent(d) == file[d] = state[d]
Removes ==
  /\ At("remove")
  /\ file' = IF OursByContent(job.now) THEN [file EXCEPT ![job.now] = Free] ELSE file
  /\ Goes("drop")
  /\ UNCHANGED <<records, state, nonce, users, breaks>>

\* The entry goes from memory, then the journal is saved; a save may fail.
Saves == /\ records' = state' /\ UNCHANGED breaks
SaveFails == /\ breaks > 0 /\ breaks' = breaks - 1 /\ UNCHANGED records /\ Fails

Drops ==
  /\ At("drop") \/ At("relinquish")
  /\ state' = [state EXCEPT ![job.now] = Free]
  /\ \/ /\ Saves
        /\ IF job.step = "drop" /\ job.now \in job.want THEN Goes("insert") ELSE NextDomain
     \/ SaveFails
  /\ UNCHANGED <<file, nonce, users>>

\* The intent is journalled before the content is published.
InsertSaves == Saves
Inserts ==
  /\ At("insert") /\ nonce < MaxWrites
  /\ nonce' = nonce + 1
  /\ state' = [state EXCEPT ![job.now] = Own(nonce', job.port)]
  /\ \/ InsertSaves /\ Goes("publish")
     \/ SaveFails
  /\ UNCHANGED <<file, users>>

\* link(2) refuses to replace a file.
Publishes ==
  /\ At("publish")
  /\ \/ /\ file[job.now] = Free
        /\ file' = [file EXCEPT ![job.now] = state[job.now]]
        /\ NextDomain /\ UNCHANGED breaks
     \/ file[job.now] # Free /\ Goes("relinquish") /\ UNCHANGED <<file, breaks>>
     \/ breaks > 0 /\ breaks' = breaks - 1 /\ Fails /\ UNCHANGED file
  /\ UNCHANGED <<records, state, nonce, users>>

\* Killed; the next start reads the journal and cleans up before anything else.
Restarts ==
  /\ breaks > 0 /\ breaks' = breaks - 1
  /\ state' = records
  /\ job' = [NoJob EXCEPT !.on = TRUE, !.boot = TRUE, !.todo = Domains]
  /\ UNCHANGED <<file, records, nonce, users>>

UserWrites(d) ==
  /\ users > 0 /\ users' = users - 1
  /\ \E c \in {Free, User} : file[d] # c /\ file' = [file EXCEPT ![d] = c]
  /\ UNCHANGED <<records, state, job, nonce, breaks>>

ResolverSteps ==
  \/ \E d \in Domains : Picks(d)
  \/ ResolverEnds \/ Removes \/ Drops \/ Inserts \/ Publishes
ResolverNext ==
  \/ ResolverSteps \/ Restarts
  \/ \E w \in SUBSET Domains, port \in Ports : Begins(w, port)
  \/ \E d \in Domains : UserWrites(d)

ResolverSpec == ResolverInit /\ [][ResolverNext]_resolverVars

---------------------------------------------------------------------------
\* Properties.

\* A file the user wrote, or wrote over ours, is never changed or removed.
UserFilesKept ==
  [][users' = users => \A d \in Domains : file[d] = User => file'[d] = User]_resolverVars

\* Whatever was killed or failed where, every file of ours is in the journal on
\* disk, so that the next start withdraws it.
NothingForgotten == \A d \in Domains : file[d] \notin {Free, User} => records[d] = file[d]

\* Whatever is killed or fails where, the helper neither loses track of a file it
\* published nor touches one of the user's (resolver.rs:60-210).
ResolverKept == []NothingForgotten /\ UserFilesKept
=============================================================================
