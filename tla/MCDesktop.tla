------------------------------ MODULE MCDesktop ------------------------------
(* Instances of the components around the runtime for TLC.  They share no      *)
(* state here: `part` says which of them a behaviour is about, and the others  *)
(* stay where they begin, so that one run checks them all.                     *)
EXTENDS ChannelProbe, Takeover, TunHelper, UpgradeSwitch, Forwards, Watchdog, RuleRoutes, TLC

CONSTANTS a, b, com, corp, oa, other
MCCidrs == {a, b}
MCWanted == {[config |-> "port1", routes |-> {a}, dns |-> FALSE],
             [config |-> "port1", routes |-> {a, b}, dns |-> TRUE],
             [config |-> "port2", routes |-> {b}, dns |-> TRUE]}

\* Addresses have three bits: 11x is reserved, 111 the return network, 0xx
\* private, 01x the LAN, and the server of c1 lies inside it.
Ip(path) == [kind |-> "ip", path |-> path]
Domain(path) == [kind |-> "domain", path |-> path]
MCPatterns == {Domain(<<com, corp>>), Ip(<<1, 0>>), Ip(<<1, 0, 1>>)}
MCLanPattern == {Ip(<<0, 1>>)}
MCPublicPattern == {Ip(<<1, 0>>)}
MCDestinations ==
  {Domain(<<com, corp, oa>>), Domain(<<com, other>>)}
    \cup {Ip(p) : p \in [1..3 -> {0, 1}] \ {<<0, 0, 1>>}}
MCPublicDestinations == {Ip(<<1, 0, 0>>), Ip(<<1, 0, 1>>)}
MCLanDestinations == {Ip(<<0, 1, 0>>), Ip(<<0, 1, 1>>), Ip(<<1, 0, 0>>)}
MCReserved == <<1, 1>>
MCNatReturn == <<1, 1, 1>>
MCPrivate == <<0>>
MCLan == <<0, 1>>
MCServerOf == ("c1" :> <<0, 1, 0>>) @@ ("c2" :> NoServer)

CONSTANT Parts
VARIABLE part
Is(p) == part = p

DesktopInit ==
  /\ part \in Parts
  /\ ProbeInit /\ TakeoverInit /\ HelperInit /\ SwitchInit /\ ForwardInit /\ WatchdogInit
  /\ RuleInit
  \* A part that rests begins at one of its initial states: which does not matter.
  /\ Is("probe") \/ (custom /\ target = "none")
  /\ Is("takeover") \/ wish.mode = "auto"
  /\ Is("switch") \/ sameDir
  /\ Is("forwards") \/ owner = "window"

DesktopNext ==
  \/ /\ Is("probe") /\ ProbeNext
     /\ UNCHANGED <<part, takeoverVars, helperVars, switchVars, fwdVars, watchdogVars, ruleVars>>
  \/ /\ Is("takeover") /\ TakeoverNext
     /\ UNCHANGED <<part, probeVars, helperVars, switchVars, fwdVars, watchdogVars, ruleVars>>
  \/ /\ Is("helper") /\ HelperNext
     /\ UNCHANGED <<part, probeVars, takeoverVars, switchVars, fwdVars, watchdogVars, ruleVars>>
  \/ /\ Is("switch") /\ SwitchNext
     /\ UNCHANGED <<part, probeVars, takeoverVars, helperVars, fwdVars, watchdogVars, ruleVars>>
  \/ /\ Is("forwards") /\ ForwardNext
     /\ UNCHANGED <<part, probeVars, takeoverVars, helperVars, switchVars, watchdogVars, ruleVars>>
  \/ /\ Is("watchdog") /\ WatchdogNext
     /\ UNCHANGED <<part, probeVars, takeoverVars, helperVars, switchVars, fwdVars, ruleVars>>
  \/ /\ Is("rules") /\ RuleNext
     /\ UNCHANGED <<part, probeVars, takeoverVars, helperVars, switchVars, fwdVars, watchdogVars>>

desktopVars ==
  <<part, probeVars, takeoverVars, helperVars, switchVars, fwdVars, watchdogVars, ruleVars>>
DesktopSpec == DesktopInit /\ [][DesktopNext]_desktopVars

\* Every value of each component stays in the set its code can produce.
DesktopTypeOK ==
  /\ ProbeTypeOK /\ TakeoverTypeOK /\ HelperTypeOK /\ SwitchTypeOK /\ ForwardTypeOK
  /\ WatchdogTypeOK /\ (Is("rules") => RuleTypeOK)

\* Kernel, tester, PAC file, routes and guard follow one rule set (RulesFollowed), in
\* every behaviour about the rules.  In the others they rest as they begin, and to
\* compute all entries again for each state took a third of the run.
RulesKept == Is("rules") => RulesFollowed

-----------------------------------------------------------------------------
\* A behaviour is about one part, and that part is scheduled.  What its component
\* promises then holds of every behaviour: a part that rests breaks no promise.
DesktopLive ==
  /\ DesktopSpec
  /\ \/ Is("probe") /\ ProbeFairness
     \/ Is("helper") /\ HelperFairness
     \/ Is("forwards") /\ ForwardFairness
     \/ Is("watchdog") /\ WatchdogFairness
     \/ Is("rules") /\ RuleFairness
=============================================================================
