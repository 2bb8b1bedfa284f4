----------------------------- MODULE RuleRoutes -----------------------------
(***************************************************************************)
(* The split rules and everything computed from them: the kernel's ordered *)
(* lines (manager.rs), the rule tester, the PAC file, the TUN route set    *)
(* with the VPN servers' own addresses carved out (server_guard.rs) and    *)
(* the egress guard loaded in the VM (vm.rs, health.rs).  Every consumer   *)
(* reads the database at its own moment; the hazards are in the moments.   *)
(*                                                                         *)
(* A pattern or a destination is a sequence: the labels of a domain from   *)
(* the top one down, or the leading bits of an IPv4 address.  A rule       *)
(* matches a destination of its kind that it is a prefix of.               *)
(***************************************************************************)
EXTENDS Naturals, Sequences, FiniteSets, SequencesExt

CONSTANTS
    RuleChannels,    \* the channels rules may be bound to
    Generic,         \* those of type "custom"
    Checked,         \* those with a verification address
    Patterns,        \* [kind, path] of the rules a user may bind
    Destinations,    \* [kind, path] of the destinations looked at
    Reserved,        \* 198.18.0.0/15, as a path
    NatReturn,       \* the TUN return network, as a path
    PrivateNet,      \* the private networks the guard closes
    Lan,             \* the host's own network, exempted from that
    ServerOf,        \* the IPv4 server configured for a channel, or NoServer
    NoServer,
    Keep,            \* ticks an address is kept after it was last seen
    MaxBinds,        \* bound: rules ever added
    MaxRuleChanges,  \* bound: other changes to rules and channels
    MaxRuleFaults    \* bound: failing statements, reloads and scripts

ASSUME RuleAssumption ==
    /\ Generic \subseteq RuleChannels /\ Checked \subseteq RuleChannels
    /\ \A p \in Patterns : p.kind \in {"domain", "ip"} /\ Len(p.path) \in Nat
    /\ Keep \in Nat \ {0}
    /\ MaxBinds \in Nat /\ MaxRuleChanges \in Nat /\ MaxRuleFaults \in Nat

VARIABLES
    rules,           \* the rows of the rules table; their ids grow
    bound,           \* rules ever added: the last id given out
    channel,         \* status, routing switch and stop intent of each channel
    lostOnes,        \* channels the probes have lost
    routingOff,      \* the global switch file exists
    kernelRules,     \* the lines the kernel runs
    stale,           \* a change still waits for a successful rebuild
    syncOwed,        \* a spawned tun_sync has not run yet
    tunRoutes,       \* the IPv4 routes last given to the helper
    lastSeen,        \* server_guard: ticks left for each address seen
    everSeen,        \* history: the addresses ever recorded
    dialing,         \* the addresses the VM's network process talks to
    asked,           \* GUARD_REQUESTS: the policy last scheduled
    guardTasks,      \* the guard tasks: what each has read, {} before
    guard,           \* the policy loaded in the VM
    lastRead,        \* history: the policy a guard task read last
    guardFailed,     \* the last guard script did not finish
    ruleChanges, ruleFaults

ruleVars == <<rules, bound, channel, lostOnes, routingOff, kernelRules, stale, syncOwed,
              tunRoutes, lastSeen, everSeen, dialing, asked, guardTasks, guard,
              lastRead, guardFailed, ruleChanges, ruleFaults>>
ruleInputs == <<rules, bound, channel, lostOnes, routingOff>>
tunVars == <<syncOwed, tunRoutes, lastSeen, everSeen, dialing>>
guardVars == <<asked, guardTasks, guard, lastRead, guardFailed>>

Statuses == {"running", "logged_in", "error", "stopped"}
Addresses == {t.path : t \in {u \in Destinations : u.kind = "ip"}}
Matches(p, d) == p.kind = d.kind /\ IsPrefix(p.path, d.path)
Address(a) == [kind |-> "ip", path |-> a]

\* An address is as long as every other, and no network is longer.
ASSUME NetworkAssumption ==
    /\ \A a \in Addresses : a \in Seq({0, 1})
    /\ \A a, b \in Addresses : Len(a) = Len(b)
    /\ \A p \in Patterns : p.kind = "ip" =>
          p.path \in Seq({0, 1}) /\ \A a \in Addresses : Len(p.path) <= Len(a)

-----------------------------------------------------------------------------
(* What each consumer computes from the tables. *)

\* Rules of a paused, stopped or stopping channel count as disabled.
Folded(c) == ~channel[c].routing \/ channel[c].status = "stopped" \/ channel[c].stopping

EffectiveRules == {r \in rules : r.on /\ ~routingOff /\ ~Folded(r.ch)}

\* Channels whose destinations are refused instead of forwarded.
Refusing(c) ==
    \/ channel[c].status = "error"
    \/ c \in lostOnes
    \/ c \in Generic /\ channel[c].status # "stopped"
       /\ (c \notin Checked \/ channel[c].status # "logged_in")

ComesFirst(r, s) ==
    \/ r.kind = "domain" /\ s.kind = "ip"
    \/ r.kind = s.kind /\ Len(r.path) > Len(s.path)
    \/ r.kind = s.kind /\ Len(r.path) = Len(s.path) /\ r.id < s.id

OrderedRules ==
    LET order == CHOOSE s \in SetToSeqs(EffectiveRules) :
                    \A i, j \in DOMAIN s : i < j => ComesFirst(s[i], s[j])
    IN  [i \in DOMAIN order |->
            [kind |-> order[i].kind, path |-> order[i].path,
             target |-> IF Refusing(order[i].ch) THEN "REJECT" ELSE order[i].ch]]

KernelLines == OrderedRules \o <<[kind |-> "ip", path |-> Reserved, target |-> "REJECT"]>>

\* The first line that matches decides; MATCH,DIRECT is what remains.
FirstMatch(lines, d) ==
    LET hits == {i \in DOMAIN lines : Matches(lines[i], d)}
    IN  IF hits = {} THEN "DIRECT"
        ELSE lines[CHOOSE i \in hits : \A j \in hits : i <= j].target

TesterSays(d) == FirstMatch(OrderedRules, d)

PacProxies(d) == \E r \in EffectiveRules : Matches(r, d)

\* The fewest networks that cover net without the addresses of ips.
Subtract(net, ips) ==
    LET width == Len(CHOOSE a \in Addresses : TRUE)
        below == UNION {[1..n -> {0, 1}] : n \in Len(net)..width}
        parts[p \in below] ==
            IF ~\E a \in ips : IsPrefix(p, a) THEN {p}
            ELSE IF Len(p) = width THEN {}
            ELSE parts[Append(p, 0)] \cup parts[Append(p, 1)]
    IN  parts[net]

Current == {a \in Addresses : lastSeen[a] > 0}

RouteSet ==
    {NatReturn} \cup
    UNION {Subtract(r.path, Current) :
              r \in {s \in EffectiveRules : s.kind = "ip"}}

InsideRules(ips) ==
    {a \in ips : \E r \in EffectiveRules : Matches(r, Address(a))}

\* The guard uses the raw switches: pausing or stopping does not open it.
Policy ==
    [closed   |-> {Reserved} \cup {r.path : r \in {s \in rules : s.on /\ s.kind = "ip"}},
     gateways |-> {ServerOf[c] : c \in RuleChannels} \ {NoServer}]

\* The order of the chain: servers, bound networks, the LAN, private networks.
GuardAccepts(policy, a) ==
    \/ a \in policy.gateways
    \/ /\ ~\E n \in policy.closed : IsPrefix(n, a)
       /\ IsPrefix(Lan, a) \/ ~IsPrefix(PrivateNet, a)

-----------------------------------------------------------------------------
(* Changes to the tables.  Each handler ends in a rebuild. *)

Changes == ruleChanges < MaxRuleChanges /\ ruleChanges' = ruleChanges + 1
Faulty == ruleFaults < MaxRuleFaults /\ ruleFaults' = ruleFaults + 1

\* At most two rules are sent at once.
Batches == {{p, q} : p, q \in Patterns}

\* plan_rules drops what the channel already has and duplicates in the batch.
Planned(c, batch) ==
    batch \ {[kind |-> r.kind, path |-> r.path] : r \in {s \in rules : s.ch = c}}

NewRule(c, p, n) == [id |-> n, ch |-> c, kind |-> p.kind, path |-> p.path,
                     on |-> TRUE, locked |-> FALSE]

\* Each insertion commits by itself: a failing one leaves the earlier ones
\* in the table and the handler returns without a rebuild.
AddRules(c, batch) ==
    LET planned == Planned(c, batch)
    IN  \E n \in 0..Cardinality(planned) :
        /\ bound + n <= MaxBinds
        /\ IF n = Cardinality(planned) THEN UNCHANGED ruleFaults ELSE Faulty
        /\ bound' = bound + n
        /\ \E order \in SetToSeqs(planned) :
              rules' = rules \cup {NewRule(c, order[i], bound + i) : i \in 1..n}
        /\ stale' = TRUE
        /\ UNCHANGED <<channel, lostOnes, routingOff, kernelRules, ruleChanges, tunVars, guardVars>>

DelRule(id) ==
    /\ Changes
    /\ id \in {r.id : r \in rules}
    /\ rules' = {r \in rules : r.id # id}
    /\ stale' = TRUE
    /\ UNCHANGED <<bound, channel, lostOnes, routingOff, kernelRules, ruleFaults, tunVars, guardVars>>

\* One rule by hand: its lock does not protect it from that.
PatchRule(id) ==
    /\ Changes
    /\ \E r \in rules :
          /\ r.id = id
          /\ \/ rules' = (rules \ {r}) \cup {[r EXCEPT !.on = ~@]} /\ stale' = TRUE
             \/ rules' = (rules \ {r}) \cup {[r EXCEPT !.locked = ~@]} /\ UNCHANGED stale
    /\ UNCHANGED <<bound, channel, lostOnes, routingOff, kernelRules, ruleFaults, tunVars, guardVars>>

\* A batch: one unknown id refuses all of it, locked rules are skipped.
Switchable(r, ids) == r.id \in ids /\ ~r.locked
PatchRules(ids, on) ==
    /\ Changes
    /\ ids \subseteq {r.id : r \in rules}
    /\ rules' = {IF Switchable(r, ids) THEN [r EXCEPT !.on = on] ELSE r : r \in rules}
    /\ stale' = TRUE
    /\ UNCHANGED <<bound, channel, lostOnes, routingOff, kernelRules, ruleFaults, tunVars, guardVars>>

\* The channel moves (ChannelProbe and Replacement model when and why).
ChannelMoves(c) ==
    /\ Changes
    /\ \/ \E s \in Statuses \ {channel[c].status} :
             channel' = [channel EXCEPT ![c].status = s] /\ UNCHANGED <<lostOnes, routingOff>>
       \/ channel' = [channel EXCEPT ![c].routing = ~@] /\ UNCHANGED <<lostOnes, routingOff>>
       \/ channel' = [channel EXCEPT ![c].stopping = ~@] /\ UNCHANGED <<lostOnes, routingOff>>
       \/ lostOnes' = (IF c \in lostOnes THEN lostOnes \ {c} ELSE lostOnes \cup {c}) /\ UNCHANGED <<channel, routingOff>>
       \/ routingOff' = ~routingOff /\ UNCHANGED <<channel, lostOnes>>
    /\ stale' = TRUE
    /\ UNCHANGED <<rules, bound, kernelRules, ruleFaults, tunVars, guardVars>>

-----------------------------------------------------------------------------
(* The consumers follow. *)

\* A guard task is scheduled only when the wanted policy has changed.
Schedules ==
    IF Policy = asked THEN UNCHANGED <<asked, guardTasks>>
    ELSE /\ asked' = Policy
         /\ guardTasks' = Append(guardTasks, {})

Rebuild ==
    /\ stale
    /\ \/ kernelRules' = KernelLines /\ stale' = FALSE /\ UNCHANGED ruleFaults
       \/ UNCHANGED <<kernelRules, stale>> /\ Faulty
    /\ syncOwed' = TRUE
    /\ Schedules
    /\ UNCHANGED <<ruleInputs, tunRoutes, lastSeen, everSeen, dialing, guard, lastRead, guardFailed, ruleChanges>>

TunSync ==
    /\ syncOwed
    /\ tunRoutes' = RouteSet
    /\ syncOwed' = FALSE
    /\ UNCHANGED <<ruleInputs, kernelRules, stale, lastSeen, everSeen, dialing, guardVars, ruleChanges, ruleFaults>>

\* The VM's network process connects and disconnects; only public addresses count.
Dials(a) ==
    /\ Changes
    /\ a \in Addresses /\ ~IsPrefix(PrivateNet, a) /\ ~IsPrefix(Reserved, a)
    /\ dialing' = (IF a \in dialing THEN dialing \ {a} ELSE dialing \cup {a})
    /\ UNCHANGED <<ruleInputs, kernelRules, stale, syncOwed, tunRoutes, lastSeen, everSeen, guardVars, ruleFaults>>

AddressesAge ==
    /\ Current # {}
    /\ lastSeen' = [a \in Addresses |-> IF lastSeen[a] = 0 THEN 0 ELSE lastSeen[a] - 1]
    /\ UNCHANGED <<ruleInputs, kernelRules, stale, syncOwed, tunRoutes, everSeen, dialing, guardVars,
                   ruleChanges, ruleFaults>>

SetChanged(before, after) == before # after

\* before and after both look at the addresses still current now.
Observe ==
    LET recorded == [a \in Addresses |-> IF a \in dialing THEN Keep ELSE lastSeen[a]]
        after    == {a \in Addresses : recorded[a] > 0}
    IN  /\ lastSeen' = recorded
        /\ everSeen' = everSeen \cup dialing
        /\ syncOwed' = (syncOwed \/ SetChanged(InsideRules(Current), InsideRules(after)))
        /\ UNCHANGED <<ruleInputs, kernelRules, stale, tunRoutes, dialing, guardVars, ruleChanges, ruleFaults>>

\* The watchdog asks for the guard whatever was scheduled or applied before.
\* A variant: only after a failure.
OnlyAfterFailure == guardFailed
WatchdogDue == guardTasks = <<>>
WatchdogGuard ==
    /\ guardTasks = <<>> /\ WatchdogDue
    /\ guardTasks' = <<{}>>
    /\ UNCHANGED <<ruleInputs, kernelRules, stale, tunVars, asked, guard, lastRead, guardFailed,
                   ruleChanges, ruleFaults>>

\* A variant: the script lock alone; the tables are read before it is taken.
LockIgnored == TRUE
GuardLockFree == ~\E i \in DOMAIN guardTasks : guardTasks[i] # {}

GuardReads(i) ==
    /\ GuardLockFree
    /\ guardTasks[i] = {}
    /\ guardTasks' = [guardTasks EXCEPT ![i] = {Policy}] /\ lastRead' = Policy
    /\ UNCHANGED <<ruleInputs, kernelRules, stale, tunVars, asked, guard, guardFailed, ruleChanges, ruleFaults>>

GuardScript(i) ==
    /\ guardTasks[i] # {}
    /\ \/ guard' \in guardTasks[i] /\ guardFailed' = FALSE /\ UNCHANGED ruleFaults
       \/ guardFailed' = TRUE /\ UNCHANGED guard /\ Faulty
    /\ guardTasks' = RemoveAt(guardTasks, i)
    /\ UNCHANGED <<ruleInputs, kernelRules, stale, tunVars, asked, lastRead, ruleChanges>>

RuleInit ==
    /\ rules = {} /\ bound = 0
    /\ channel \in [RuleChannels -> [status : {"running"}, routing : {TRUE},
                                     stopping : {FALSE}]]
    /\ lostOnes = {} /\ routingOff = FALSE
    /\ kernelRules = KernelLines /\ stale = FALSE
    /\ syncOwed = FALSE /\ tunRoutes = {NatReturn}
    /\ lastSeen = [a \in Addresses |-> 0] /\ everSeen = {} /\ dialing = {}
    /\ asked = Policy /\ guardTasks = <<>> /\ guard = Policy /\ lastRead = Policy
    /\ guardFailed = FALSE
    /\ ruleChanges = 0 /\ ruleFaults = 0

RuleNext ==
    \/ \E c \in RuleChannels, batch \in Batches : AddRules(c, batch)
    \/ \E id \in 1..bound : DelRule(id) \/ PatchRule(id)
    \/ \E ids \in SUBSET (1..bound), on \in BOOLEAN : ids # {} /\ PatchRules(ids, on)
    \/ \E c \in RuleChannels : ChannelMoves(c)
    \/ \E a \in Addresses : Dials(a)
    \/ Rebuild \/ TunSync \/ AddressesAge \/ Observe \/ WatchdogGuard
    \/ \E i \in DOMAIN guardTasks : GuardReads(i) \/ GuardScript(i)

RuleSpec == RuleInit /\ [][RuleNext]_ruleVars

\* The watchdog's beats, the handlers' rebuilds and the spawned tasks go on.
RuleFairness ==
    /\ WF_ruleVars(Rebuild) /\ WF_ruleVars(TunSync)
    /\ WF_ruleVars(AddressesAge) /\ WF_ruleVars(Observe) /\ WF_ruleVars(WatchdogGuard)
    /\ WF_ruleVars(\E i \in DOMAIN guardTasks : GuardReads(i) \/ GuardScript(i))
FairRuleSpec == RuleSpec /\ RuleFairness

-----------------------------------------------------------------------------
RuleTypeOK ==
    /\ rules \subseteq [id : 1..bound, ch : RuleChannels, kind : {"domain", "ip"},
                        path : {p.path : p \in Patterns}, on : BOOLEAN, locked : BOOLEAN]
    /\ \A r, s \in rules : r.id = s.id => r = s
    /\ lastSeen \in [Addresses -> 0..Keep] /\ dialing \subseteq Addresses
    /\ stale \in BOOLEAN /\ syncOwed \in BOOLEAN /\ guardFailed \in BOOLEAN

Serving(r) == r.on /\ ~routingOff /\ ~Folded(r.ch)
Binding(d) == {r \in rules : Serving(r) /\ Matches(r, d)}
Routed(a) == \E n \in tunRoutes : IsPrefix(n, a)

\* Once a change has been reloaded, a destination goes to the channel of its
\* most specific rule, is refused when that channel is failing, lost or
\* unproved, and never falls through to a wider rule or the open network
\* (manager.rs ordered_rules and build_mihomo_config_with).
MostSpecificDecides ==
    ~stale => \A d \in Destinations :
        LET binding == Binding(d)
            best == CHOOSE r \in binding :
                        \A s \in binding :
                            \/ Len(s.path) < Len(r.path)
                            \/ Len(s.path) = Len(r.path) /\ r.id <= s.id
        IN  FirstMatch(kernelRules, d) =
                IF binding # {} THEN (IF Refusing(best.ch) THEN "REJECT" ELSE best.ch)
                ELSE IF Matches(Address(Reserved), d) THEN "REJECT" ELSE "DIRECT"

\* The entries and the kernel act on one rule set: the PAC sends a destination
\* to the entry exactly when a kernel line is bound to it, the tester names
\* what the kernel does, every route leads to a bound address, no address the
\* VM's own connections use is routed back, and a bound address is left out
\* only if it was seen as a server (webutil.rs pac_text_for, rule_test.rs
\* evaluate, entry.rs route_sets_for, server_guard.rs carve and observe).
EntriesAgree ==
    ~stale =>
        /\ \A d \in Destinations :
              /\ PacProxies(d) <=> \E i \in 1..(Len(kernelRules) - 1) : Matches(kernelRules[i], d)
              /\ Binding(d) # {} => TesterSays(d) = FirstMatch(kernelRules, d)
        /\ ~syncOwed => \A a \in Addresses :
              /\ Routed(a) => Binding(Address(a)) # {} \/ IsPrefix(NatReturn, a)
              /\ a \in Current /\ ~IsPrefix(NatReturn, a) => ~Routed(a)
              /\ Binding(Address(a)) # {} /\ ~Routed(a) => a \in everSeen

\* Queued tasks never put an older snapshot over a newer one: with no script
\* running and none failed, the VM holds the policy read last (health.rs
\* GUARD_APPLY_LOCK, held from the read to the end of the script).
GuardIsNewest ==
    (\A i \in DOMAIN guardTasks : guardTasks[i] = {}) /\ ~guardFailed => guard = lastRead

\* Whatever the order of rebuilds, tasks and failures, the guard ends up
\* refusing every address an enabled rule binds - of stopped and paused
\* channels too, and inside the exempted LAN - except the channels' own
\* servers.  A rule removed and bound again while a task runs is not scheduled
\* a second time; only the watchdog's unconditional pass closes that gap
\* (manager.rs schedule_egress_guard, health.rs ensure_egress_guard).
GuardCovers ==
    \A a \in Addresses :
        LET servers == {ServerOf[c] : c \in RuleChannels}
        IN  /\ (\E r \in rules : r.on /\ Matches(r, Address(a))) /\ a \notin servers
                => ~GuardAccepts(guard, a)
            /\ a \in servers => GuardAccepts(guard, a)
\* This holds in the end, when the rules and channels stay as they are.
GuardCatchesUp == <>[]GuardCovers

\* server_guard.rs:14-15: the route comes back this long after the connection
\* was last seen.
RoutesComeBack ==
    \A a \in Addresses :
        []<>(Routed(a) \/ a \in Current \/ Binding(Address(a)) = {})

\* Kernel, tester, PAC file, routes and guard follow one rule set, however the
\* tasks that carry it to them overtake each other.
RulesFollowed == MostSpecificDecides /\ EntriesAgree /\ GuardIsNewest
=============================================================================
