----------------------------- MODULE MCServices -----------------------------
(* Instances of what serves the channels: the start of the runtime, the book   *)
(* of settings, images and installers, and the event log.                      *)
(* They share no state here: `part` says which of them a behaviour is about,   *)
(* and the others stay where they begin.                                       *)
EXTENDS RuntimeStart, ChannelBook, ImageJobs, Installer, EventLog, TLC

\* A backup of this program and one that somebody edited by hand.
MCForeign ==
  {[name |-> "B", headless |-> TRUE, server |-> "s1", on |-> TRUE, rules |-> {"r1", "bad"},
    cfg |-> [server |-> "s2", password |-> "p1", note |-> "", file |-> ""],
    faults |-> {}, settled |-> FALSE, asked |-> <<>>],
   [name |-> "A", headless |-> FALSE, server |-> "s1", on |-> FALSE, rules |-> {},
    cfg |-> [server |-> "", password |-> "", note |-> "t1", file |-> ""],
    faults |-> {"type"}, settled |-> FALSE, asked |-> <<>>]}
MCEdits == {[server |-> "s2"], [on |-> FALSE], [password |-> "p2", on |-> TRUE]}

CONSTANT Parts
VARIABLE part
Is(p) == part = p

ServicesInit ==
  /\ part \in Parts
  /\ HostInit /\ BookInit /\ ImageInit /\ InstallInit /\ LogInit
  \* A part that rests begins at one of its initial states: which does not matter.
  /\ Is("host") \/ (bridge = "none" /\ kernel = NoKernel)

ServicesNext ==
  \/ /\ Is("host") /\ HostNext
     /\ UNCHANGED <<part, bookVars, imageVars, installVars, logVars>>
  \/ /\ Is("book") /\ BookNext
     /\ UNCHANGED <<part, hostVars, imageVars, installVars, logVars>>
  \/ /\ Is("archives") /\ ArchiveNext
     /\ UNCHANGED <<part, hostVars, bookVars, installVars, logVars>>
  \/ /\ Is("downloads") /\ DownloadNext
     /\ UNCHANGED <<part, hostVars, bookVars, installVars, logVars>>
  \/ /\ Is("installer") /\ InstallNext
     /\ UNCHANGED <<part, hostVars, bookVars, imageVars, logVars>>
  \/ /\ Is("log") /\ LogNext
     /\ UNCHANGED <<part, hostVars, bookVars, imageVars, installVars>>

servicesVars == <<part, hostVars, bookVars, imageVars, installVars, logVars>>
ServicesSpec == ServicesInit /\ [][ServicesNext]_servicesVars

\* Writers and switchers each behave alike: sound for safety.
Symmetry == Permutations(Writers) \cup Permutations(Switchers)

\* Every value of each component stays in the set its code can produce.
ServicesTypeOK ==
  /\ Is("host") => HostTypeOK
  /\ Is("book") => BookTypeOK
  /\ (Is("archives") \/ Is("downloads")) => ImageTypeOK
  /\ Is("installer") => InstallTypeOK
  /\ Is("log") => LogTypeOK
=============================================================================
