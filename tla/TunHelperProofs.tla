-------------------------- MODULE TunHelperProofs --------------------------
(***************************************************************************)
(* Proofs about TunHelper, for every set of networks and every number of   *)
(* generations, events and faults: the daemon keeps the contract the core  *)
(* is written against, and touches no routes but its own.  The end carries *)
(* the components' results over to the run that has all of MCDesktop.      *)
(***************************************************************************)
EXTENDS MCDesktop, DesktopProofs, TLAPS

Tables == [Cidrs -> Modes \cup {"free", "foreign"}]

\* What the daemon reports as stopped is: the engine comes back only with a start
\* that is not applied yet.
AppliedStop == applied /\ mode = "off" => ~child /\ ~published /\ engine = "none"

HelperInv == HelperTypeOK /\ OwnRoutesTracked /\ AppliedStop

-----------------------------------------------------------------------------
\* A withdrawal takes routes of ours only, forgets none that is left, and leaves
\* nothing selected when it succeeds.
Withdraws(w, table, own, selected, m) ==
  /\ w.owned \subseteq own /\ w.table \in Tables /\ w.ok \in BOOLEAN
  /\ \A c \in Cidrs : \/ w.table[c] = table[c]
                      \/ w.table[c] = "free" /\ table[c] = m
  /\ \A c \in own : w.table[c] = table[c] /\ table[c] = m => c \in w.owned
  /\ w.ok /\ own \subseteq selected => w.owned = {}

\* A withdrawal takes away routes of its own only, and reports what it left.
LEMMA WithdrawnResult ==
  ASSUME NEW table \in Tables, NEW own \in SUBSET Cidrs, NEW selected \in SUBSET Cidrs,
         NEW m \in Modes \cup {"off"}, NEW fault
  PROVE  Withdraws(Withdrawn(table, own, selected, m, fault), table, own, selected, m)
<1> DEFINE kept == {c \in own : StillOurs(table, c, m)}
           gone == IF fault = "delete" THEN {} ELSE kept \cap selected
           w == Withdrawn(table, own, selected, m, fault)
<1>1. CASE own = {} \/ selected = {} \/ fault = "netstat"
  <2>1. w.owned = own /\ w.table = table /\ w.ok \in BOOLEAN
        /\ (w.ok => own = {} \/ selected = {})
    BY <1>1 DEF Withdrawn
  <2> QED
    BY <2>1 DEF Withdraws
<1>2. CASE ~(own = {} \/ selected = {} \/ fault = "netstat")
  <2>1. /\ w.owned = kept \ gone
        /\ w.table = [c \in Cidrs |-> IF c \in gone THEN "free" ELSE table[c]]
        /\ w.ok = ((kept \ gone) \cap selected = {})
    BY <1>2 DEF Withdrawn
  <2>2. \A c \in gone : table[c] = m
    BY DEF StillOurs
  <2>3. \A c \in own : table[c] = m => c \in kept
    BY DEF StillOurs
  <2>4. w.table \in Tables
    BY <2>1 DEF Tables
  <2>5. w.ok \in BOOLEAN
    BY <2>1
  <2>6. \A c \in own : w.table[c] = table[c] /\ table[c] = m => c \notin gone
    BY <2>1 DEF Modes
  <2>7. \A c \in own : w.table[c] = table[c] /\ table[c] = m => c \in w.owned
    BY <2>1, <2>3, <2>6
  <2> QED
    BY <2>1, <2>2, <2>3, <2>4, <2>5, <2>7 DEF Withdraws
<1> QED
  BY <1>1, <1>2

\* What a step leaves of the routing: every route of ours is recorded, in the mode
\* that is known, and a route of somebody else stays.
Tracked(own, table, m) == \A c \in Cidrs : table[c] \in Modes => c \in own /\ table[c] = m
KeepsForeign(table) == \A c \in Cidrs : routeTable[c] = "foreign" => table[c] = "foreign"

\* The types the other facts rely on, one by one.
LEMMA HelperTypes ==
  ASSUME HelperTypeOK
  PROVE  /\ owned \in SUBSET Cidrs /\ shadowed \in SUBSET Cidrs /\ routeTable \in Tables
         /\ mode \in Modes \cup {"off"} /\ LeaseMode \in Modes \cup {"off"}
         /\ desired.want \in Wants /\ desired.want.routes \in SUBSET Cidrs
         /\ desired.want.config \in Configs /\ desired.running \in BOOLEAN
         /\ desired.generation \in Nat
BY DEF HelperTypeOK, Tables, LeaseMode, Modes, Wants

\* Withdrawing everything in the mode it was added in.
LEMMA WithdrawnAllResult ==
  ASSUME HelperTypeOK, OwnRoutesTracked, NEW fault
  PROVE  LET w == WithdrawnAll(fault)
         IN /\ w.owned \in SUBSET owned /\ w.table \in Tables /\ w.ok \in BOOLEAN
            /\ Tracked(w.owned, w.table, mode) /\ KeepsForeign(w.table)
            /\ w.ok => w.owned = {}
<1> DEFINE w == WithdrawnAll(fault)
<1>1. /\ w.owned \subseteq owned /\ w.table \in Tables /\ w.ok \in BOOLEAN
      /\ \A c \in Cidrs : \/ w.table[c] = routeTable[c]
                          \/ w.table[c] = "free" /\ routeTable[c] = mode
      /\ \A c \in owned : w.table[c] = routeTable[c] /\ routeTable[c] = mode => c \in w.owned
      /\ w.ok => w.owned = {}
  <2>1. w = Withdrawn(routeTable, owned, owned, mode, fault)
    BY DEF WithdrawnAll
  <2> HIDE DEF w
  <2>2. /\ owned \in SUBSET Cidrs /\ routeTable \in Tables /\ mode \in Modes \cup {"off"}
        /\ owned \subseteq owned
    BY HelperTypes
  <2>3. Withdraws(w, routeTable, owned, owned, mode)
    BY <2>1, <2>2, WithdrawnResult
  <2> QED
    BY <2>3 DEF Withdraws
<1>2. \A c \in Cidrs : routeTable[c] \in Modes => c \in owned /\ routeTable[c] = mode
  BY DEF OwnRoutesTracked, Ours
<1> HIDE DEF w
<1>3. Tracked(w.owned, w.table, mode)
  BY <1>1, <1>2 DEF Tracked, Modes
<1>4. KeepsForeign(w.table)
  BY <1>1, HelperTypes DEF KeepsForeign, Modes
<1> QED
  BY <1>1, <1>3, <1>4 DEF w

\* A device that goes takes our routes only.
LEMMA WithoutDeviceResult ==
  ASSUME NEW table \in Tables
  PROVE  /\ WithoutDevice(table) \in Tables
         /\ \A c \in Cidrs : WithoutDevice(table)[c] \notin Modes
         /\ \A c \in Cidrs : table[c] = "foreign" => WithoutDevice(table)[c] = "foreign"
BY DEF WithoutDevice, Tables, Modes

\* A release leaves no route of ours that is not owned, and the strangers' alone.
LEMMA ReleasesResult ==
  ASSUME HelperInv, NEW fault, Releases(fault)
  PROVE  /\ owned' \in SUBSET Cidrs /\ shadowed' \in SUBSET Cidrs /\ routeTable' \in Tables
         /\ child' \in BOOLEAN /\ (child' => child) /\ published' \in BOOLEAN /\ (published' => published)
         /\ mode' \in Modes \cup {"off"} /\ engine' \in Configs \cup {"none"}
         /\ backoff' \in BOOLEAN /\ applied' \in BOOLEAN
         /\ readback' = readback /\ retried' = retried
         /\ \A c \in Cidrs : routeTable'[c] \in Modes => c \in owned' /\ routeTable'[c] = mode' /\ child'
         /\ KeepsForeign(routeTable') /\ AppliedStop'
<1> DEFINE w == WithdrawnAll(fault)
           gone == fault # "kill" \/ ~child
           clean == w.ok /\ (fault # "resolver" \/ ~published)
<1>1. /\ w.owned \in SUBSET owned /\ w.table \in Tables /\ w.ok \in BOOLEAN
      /\ Tracked(w.owned, w.table, mode) /\ KeepsForeign(w.table)
      /\ w.ok => w.owned = {}
  BY WithdrawnAllResult DEF HelperInv
<1>2. HelperTypeOK /\ AppliedStop
  BY DEF HelperInv
<1>3. /\ published' = (published /\ fault = "resolver") /\ owned' = w.owned
      /\ routeTable' = IF gone THEN WithoutDevice(w.table) ELSE w.table
      /\ child' = ~gone
      /\ shadowed' = IF clean /\ gone THEN {} ELSE shadowed
      /\ mode' = IF clean /\ gone THEN "off" ELSE mode
      /\ engine' = IF clean /\ gone THEN "none" ELSE engine
      /\ backoff' = (backoff /\ ~(clean /\ gone))
      /\ applied' = ((clean /\ gone) \/ (applied /\ fault # "resolver"))
      /\ readback' = readback /\ retried' = retried
  BY DEF Releases, Settled, FilesLeft
<1> HIDE DEF w
<1>4. WithoutDevice(w.table) \in Tables /\ (\A c \in Cidrs : WithoutDevice(w.table)[c] \notin Modes)
      /\ KeepsForeign(WithoutDevice(w.table))
  BY <1>1, WithoutDeviceResult DEF KeepsForeign
<1>5. /\ owned' \in SUBSET Cidrs /\ shadowed' \in SUBSET Cidrs /\ routeTable' \in Tables
      /\ KeepsForeign(routeTable')
  BY <1>1, <1>2, <1>3, <1>4, HelperTypes
<1>6. \A c \in Cidrs : routeTable'[c] \in Modes => c \in owned' /\ routeTable'[c] = mode' /\ child'
  BY <1>1, <1>3, <1>4 DEF Tracked
<1>7. AppliedStop'
  BY <1>2, <1>3 DEF AppliedStop, HelperTypeOK
<1>8. /\ child' \in BOOLEAN /\ (child' => child) /\ published' \in BOOLEAN /\ (published' => published)
      /\ mode' \in Modes \cup {"off"} /\ engine' \in Configs \cup {"none"}
      /\ backoff' \in BOOLEAN /\ applied' \in BOOLEAN
  BY <1>2, <1>3 DEF HelperTypeOK
<1> QED
  BY <1>3, <1>5, <1>6, <1>7, <1>8

\* Neither does a change of the configuration, whatever fails in it.
LEMMA ConfigChangedResult ==
  ASSUME HelperInv, NEW fault, ConfigChanged(fault)
  PROVE  /\ owned' \in SUBSET Cidrs /\ routeTable' \in Tables
         /\ child' \in BOOLEAN /\ published' \in BOOLEAN
         /\ engine' \in Configs \cup {"none"} /\ backoff' \in BOOLEAN /\ applied' \in BOOLEAN
         /\ \A c \in Cidrs : routeTable'[c] \in Modes => c \in owned' /\ routeTable'[c] = mode' /\ child'
         /\ KeepsForeign(routeTable') /\ AppliedStop'
<1> DEFINE w == WithdrawnAll(fault)
<1>1. /\ w.owned \in SUBSET owned /\ w.table \in Tables /\ w.ok \in BOOLEAN
      /\ Tracked(w.owned, w.table, mode) /\ KeepsForeign(w.table)
      /\ w.ok => w.owned = {}
  BY WithdrawnAllResult DEF HelperInv
<1>2. HelperTypeOK /\ AppliedStop
  BY DEF HelperInv
<1> HIDE DEF w
<1>3. WithoutDevice(w.table) \in Tables /\ (\A c \in Cidrs : WithoutDevice(w.table)[c] \notin Modes)
      /\ KeepsForeign(WithoutDevice(w.table))
  BY <1>1, WithoutDeviceResult DEF KeepsForeign
<1>4. /\ owned' = w.owned /\ mode' = mode /\ child
      /\ published' = (published /\ fault = "resolver") /\ applied' = (applied /\ fault # "resolver")
  BY DEF ConfigChanged, FilesLeft, w
<1>5. ~(applied /\ mode = "off")
  BY <1>2, <1>4 DEF AppliedStop
<1>6. CASE w.ok
  <2>1. /\ child' = (fault = "kill") /\ engine' = "none" /\ backoff' = FALSE
        /\ routeTable' = IF child' THEN w.table ELSE WithoutDevice(w.table)
    BY <1>6 DEF ConfigChanged, w
  <2> QED
    BY <1>1, <1>2, <1>3, <1>4, <1>5, <2>1, HelperTypes DEF Tracked, AppliedStop
<1>7. CASE ~w.ok
  <2>1. child' = child /\ engine' = engine /\ backoff' = backoff /\ routeTable' = w.table
    BY <1>7 DEF ConfigChanged, w, process
  <2>2. child' \in BOOLEAN /\ engine' \in Configs \cup {"none"} /\ backoff' \in BOOLEAN
        /\ published' \in BOOLEAN /\ applied' \in BOOLEAN
    BY <1>2, <1>4, <2>1 DEF HelperTypeOK
  <2> QED
    BY <1>1, <1>4, <1>5, <2>1, <2>2, HelperTypes, <1>2 DEF Tracked, AppliedStop
<1> QED
  BY <1>6, <1>7

\* Nor the installation of routes for an engine that has come up.
LEMMA EngineUpResult ==
  ASSUME HelperInv, NEW fault, EngineUp(fault)
  PROVE  /\ owned' \in SUBSET Cidrs /\ shadowed' \in SUBSET Cidrs /\ routeTable' \in Tables
         /\ mode' \in Modes \cup {"off"} /\ readback' \in BOOLEAN /\ retried' \in BOOLEAN
         /\ published' \in BOOLEAN /\ applied' \in BOOLEAN
         /\ \A c \in Cidrs : routeTable'[c] \in Modes => c \in owned' /\ routeTable'[c] = mode' /\ child'
         /\ KeepsForeign(routeTable') /\ AppliedStop'
<1> DEFINE s == Switched(fault)
           p == Present(fault)
           t == Trimmed(fault)
           routes == desired.want.routes
<1>1. HelperTypeOK /\ LeaseMode \in Modes /\ child /\ child' = child /\ routes \in SUBSET Cidrs
  BY HelperTypes DEF HelperInv, EngineUp, process
<1>2. /\ s.owned \in SUBSET Cidrs /\ s.table \in Tables /\ s.ok \in BOOLEAN
      /\ Tracked(s.owned, s.table, mode) /\ KeepsForeign(s.table)
      /\ s.ok => Tracked(s.owned, s.table, LeaseMode)
  <2>1. CASE mode = LeaseMode
    <3>1. s.owned = owned /\ s.table = routeTable /\ s.ok = TRUE
      BY <2>1 DEF Switched
    <3>2. Tracked(owned, routeTable, mode)
      BY DEF HelperInv, OwnRoutesTracked, Ours, Tracked
    <3> HIDE DEF s
    <3> QED
      BY <1>1, <2>1, <3>1, <3>2, HelperTypes DEF KeepsForeign
  <2>2. CASE mode # LeaseMode
    <3>1. s = WithdrawnAll(fault)
      BY <2>2 DEF Switched
    <3> HIDE DEF s
    <3>2. /\ s.owned \in SUBSET owned /\ s.table \in Tables /\ s.ok \in BOOLEAN
          /\ Tracked(s.owned, s.table, mode) /\ KeepsForeign(s.table)
          /\ s.ok => s.owned = {}
      BY <3>1, WithdrawnAllResult DEF HelperInv
    <3> QED
      BY <1>1, <3>2, HelperTypes DEF Tracked
  <2> QED
    BY <2>1, <2>2
<1> HIDE DEF s
<1>3. s.ok => p \in SUBSET Cidrs /\ Tracked(p, s.table, LeaseMode)
  BY <1>2 DEF Present, Reread, Tracked, StillOurs, s
<1> HIDE DEF p
<1>4. ASSUME s.ok
      PROVE  /\ t.owned \in SUBSET Cidrs /\ t.table \in Tables /\ t.ok \in BOOLEAN
             /\ Tracked(t.owned, t.table, LeaseMode) /\ KeepsForeign(t.table)
  <2>1. t = Withdrawn(s.table, p, p \ routes, LeaseMode, fault)
    BY DEF Trimmed, s, p
  <2> HIDE DEF t
  <2>2. Withdraws(t, s.table, p, p \ routes, LeaseMode)
    BY <1>1, <1>2, <1>3, <1>4, <2>1, WithdrawnResult
  <2>3. /\ t.owned \subseteq p /\ t.table \in Tables /\ t.ok \in BOOLEAN
        /\ \A c \in Cidrs : \/ t.table[c] = s.table[c]
                            \/ t.table[c] = "free" /\ s.table[c] = LeaseMode
        /\ \A c \in p : t.table[c] = s.table[c] /\ s.table[c] = LeaseMode => c \in t.owned
    BY <2>2 DEF Withdraws
  <2>4. Tracked(t.owned, t.table, LeaseMode)
    BY <1>3, <1>4, <2>3 DEF Tracked, Modes
  <2>5. KeepsForeign(t.table)
    BY <1>1, <1>2, <2>3 DEF KeepsForeign, Modes
  <2> QED
    BY <1>3, <1>4, <2>3, <2>4, <2>5
<1> HIDE DEF t
<1> DEFINE Good == /\ owned' \in SUBSET Cidrs /\ shadowed' \in SUBSET Cidrs /\ routeTable' \in Tables
                   /\ mode' \in Modes \cup {"off"} /\ readback' \in BOOLEAN /\ retried' \in BOOLEAN
                   /\ Tracked(owned', routeTable', mode') /\ KeepsForeign(routeTable')
<1>5. ASSUME ModeBlocked(fault) PROVE Good
  BY <1>1, <1>2, <1>5, HelperTypes DEF ModeBlocked, HelperTypeOK, s
<1>6. ASSUME ReadBlocked(fault) PROVE Good
  <2>1. /\ s.ok /\ owned' = s.owned /\ routeTable' = s.table /\ mode' = LeaseMode
        /\ shadowed' \in SUBSET Cidrs /\ readback' = readback /\ retried' = retried
    BY <1>6, HelperTypes, <1>1 DEF ReadBlocked, s
  <2> QED
    BY <1>1, <1>2, <2>1 DEF HelperTypeOK
<1>7. ASSUME RoutesRead(fault)
      PROVE  s.ok /\ mode' = LeaseMode /\ readback' \in BOOLEAN /\ retried' \in BOOLEAN
             /\ Shadows \in SUBSET Cidrs
  BY <1>1, <1>7, HelperTypes DEF RoutesRead, Shadows, s
<1>8. ASSUME DeleteBlocked(fault) PROVE Good
  <2>1. owned' = t.owned /\ routeTable' = t.table /\ shadowed' = Shadows
    BY <1>8 DEF DeleteBlocked, t
  <2> QED
    BY <1>1, <1>4, <1>7, <1>8, <2>1 DEF DeleteBlocked
<1>9. ASSUME AddsMissing(fault) PROVE Good
  <2> DEFINE missing == routes \ (t.owned \cup Shadows)
             exists == {c \in missing : t.table[c] # "free"}
             added == IF fault = "add" THEN {} ELSE missing \ exists
  <2>1. /\ RoutesRead(fault) /\ owned' = t.owned \cup added
        /\ routeTable' = [c \in Cidrs |-> IF c \in added THEN LeaseMode ELSE t.table[c]]
        /\ shadowed' = (Shadows \cup exists) \cap routes
    BY <1>9 DEF AddsMissing, t
  <2>2. added \in SUBSET Cidrs /\ \A c \in added : t.table[c] = "free"
    BY <1>1
  <2> HIDE DEF added
  <2>3. /\ t.owned \in SUBSET Cidrs /\ t.table \in Tables
        /\ Tracked(t.owned, t.table, LeaseMode) /\ KeepsForeign(t.table)
    BY <1>4, <1>7, <2>1
  <2>4. routeTable' \in Tables
    BY <1>1, <2>1, <2>3 DEF Tables
  <2>5. Tracked(owned', routeTable', LeaseMode)
    BY <2>1, <2>2, <2>3 DEF Tracked
  <2>6. KeepsForeign(routeTable')
    BY <2>1, <2>2, <2>3 DEF KeepsForeign
  <2>7. shadowed' \in SUBSET Cidrs
    BY <1>1, <2>1
  <2> QED
    BY <1>1, <1>7, <2>1, <2>2, <2>3, <2>4, <2>5, <2>6, <2>7
<1>10. Good
  BY <1>5, <1>6, <1>8, <1>9 DEF EngineUp
<1>11. published' \in BOOLEAN /\ applied' \in BOOLEAN /\ (applied' => mode' = LeaseMode)
  BY <1>1 DEF EngineUp, HelperTypeOK, RoutesReady, RoutesRead
<1>12. AppliedStop'
  BY <1>1, <1>11 DEF AppliedStop, Modes
<1> HIDE DEF Good
<1>13. \A c \in Cidrs : routeTable'[c] \in Modes => c \in owned' /\ routeTable'[c] = mode' /\ child'
  BY <1>1, <1>10 DEF Good, Tracked
<1> QED
  BY <1>10, <1>11, <1>12, <1>13 DEF Good

-----------------------------------------------------------------------------
\* A helper that has just started satisfies every part.
LEMMA HelperInitially ==
  ASSUME HelperInit
  PROVE  HelperInv
<1>1. desired \in [generation : 0 .. MaxGeneration, running : BOOLEAN, want : Wants]
  <2>1. [config |-> "port1", routes |-> {}, dns |-> FALSE] \in Wants
    BY DEF Wants, Configs
  <2> QED
    BY <2>1, HelperAssumption DEF HelperInit
<1>2. HelperTypeOK
  <2>1. routeTable \in [Cidrs -> Modes \cup {"free", "foreign"}]
    BY DEF HelperInit
  <2>2. events \in 0 .. MaxEvents /\ faults \in 0 .. MaxFaults
    BY HelperAssumption DEF HelperInit
  <2> QED
    BY <1>1, <2>1, <2>2 DEF HelperInit, HelperTypeOK
<1> QED
  BY <1>2 DEF HelperInit, HelperInv, OwnRoutesTracked, AppliedStop, Ours, Modes

\* Each step keeps what is recorded right, and without an event of the outside world
\* it leaves the routes of others alone.
LEMMA HelperStep ==
  ASSUME HelperInv, [HelperNext]_helperVars
  PROVE  HelperInv' /\ (events' = events => KeepsForeign(routeTable'))
<1> DEFINE Goal == HelperInv' /\ (events' = events => KeepsForeign(routeTable'))
           Track == \A c \in Cidrs :
                      routeTable'[c] \in Modes => c \in owned' /\ routeTable'[c] = mode' /\ child'
<1>1. HelperTypeOK /\ OwnRoutesTracked /\ AppliedStop
  BY DEF HelperInv
<1>2. \A fault : Spends(fault) => faults' \in 0 .. MaxFaults
  BY <1>1, HelperAssumption DEF Spends, HelperTypeOK
<1>3. Track <=> OwnRoutesTracked'
  BY DEF OwnRoutesTracked, Ours
<1>4. ASSUME routeTable' = routeTable, owned' = owned, mode' = mode, child' = child
      PROVE  Track /\ KeepsForeign(routeTable')
  BY <1>1, <1>4 DEF OwnRoutesTracked, Ours, KeepsForeign
<1>5. ASSUME NEW fault \in Faults, LeaseOver(fault), Spends(fault), UNCHANGED events PROVE Goal
  BY <1>1, <1>2, <1>3, <1>5, ReleasesResult DEF LeaseOver, HelperInv, HelperTypeOK, Tables
<1>6. ASSUME NEW fault \in Faults, ConfigChanged(fault), Spends(fault), UNCHANGED events PROVE Goal
  <2>1. UNCHANGED <<desired, lease, shadowed, mode, readback, retried>>
    BY <1>6 DEF ConfigChanged
  <2> QED
    BY <1>1, <1>2, <1>3, <1>6, <2>1, ConfigChangedResult DEF HelperInv, HelperTypeOK, Tables
<1>7. ASSUME NEW fault \in Faults, EngineDown(fault), Spends(fault), UNCHANGED events PROVE Goal
  <2>1. /\ UNCHANGED <<desired, lease, owned, shadowed, mode, readback, retried, routeTable>>
        /\ ~child /\ applied' = FALSE /\ published' = (published /\ fault = "resolver")
        /\ child' \in BOOLEAN /\ backoff' \in BOOLEAN
        /\ engine' = IF child' THEN desired.want.config ELSE "none"
    BY <1>1, <1>7 DEF EngineDown, routing, FilesLeft, HelperTypeOK
  <2>2. \A c \in Cidrs : routeTable[c] \notin Modes
    BY <1>1, <2>1 DEF OwnRoutesTracked, Ours
  <2>3. OwnRoutesTracked' /\ KeepsForeign(routeTable') /\ AppliedStop'
    BY <2>1, <2>2 DEF OwnRoutesTracked, Ours, KeepsForeign, AppliedStop
  <2>4. HelperTypeOK'
    BY <1>1, <1>2, <1>7, <2>1, HelperTypes DEF HelperTypeOK
  <2> QED
    BY <2>3, <2>4 DEF HelperInv
<1>8. ASSUME NEW fault \in Faults, EngineUp(fault), Spends(fault), UNCHANGED events PROVE Goal
  <2>1. UNCHANGED <<desired, lease, child, engine, backoff>>
    BY <1>8 DEF EngineUp, process
  <2> QED
    BY <1>1, <1>2, <1>3, <1>8, <2>1, EngineUpResult DEF HelperInv, HelperTypeOK, Tables
<1>9. ASSUME NEW g \in 1 .. MaxGeneration, NEW ok \in BOOLEAN,
             Renew(g, ok) \/ \E w \in Wanted : Ensure(g, w, ok)
      PROVE  Goal
  <2>1. /\ UNCHANGED <<child, engine, backoff, owned, shadowed, mode, readback, retried, published,
                        routeTable, events, faults>>
        /\ lease' \in {"ok", "down"} /\ applied' \in {applied, FALSE}
        /\ desired' = desired
             \/ \E w \in Wanted : desired' = [generation |-> g, running |-> TRUE, want |-> w]
    BY <1>9 DEF Ensure, Renew, process, routing
  <2>2. desired' \in [generation : 0 .. MaxGeneration, running : BOOLEAN, want : Wants]
    <3>1. g \in 0 .. MaxGeneration /\ \A w \in Wanted : w \in Wants
      BY HelperAssumption
    <3>2. desired \in [generation : 0 .. MaxGeneration, running : BOOLEAN, want : Wants]
      BY <1>1 DEF HelperTypeOK
    <3>3. \A w \in Wants : [generation |-> g, running |-> TRUE, want |-> w]
                             \in [generation : 0 .. MaxGeneration, running : BOOLEAN, want : Wants]
      BY <3>1
    <3> QED
      BY <2>1, <3>1, <3>2, <3>3
  <2>3. HelperTypeOK'
    BY <1>1, <2>1, <2>2 DEF HelperTypeOK
  <2>4. AppliedStop'
    BY <1>1, <2>1 DEF AppliedStop
  <2>5. OwnRoutesTracked' /\ AppliedStop' /\ KeepsForeign(routeTable')
    BY <1>3, <1>4, <2>1, <2>4
  <2> QED
    BY <2>5, <2>3 DEF HelperInv
<1>10. ASSUME NEW g \in 1 .. MaxGeneration, Stop(g) PROVE Goal
  <2>1. PICK fault \in Faults : Releases(fault) /\ Spends(fault)
    BY <1>10 DEF Stop
  <2>2. desired' = [desired EXCEPT !.generation = g, !.running = FALSE] /\ lease' = "none"
        /\ events' = events
    BY <1>10 DEF Stop
  <2>3. desired' \in [generation : 0 .. MaxGeneration, running : BOOLEAN, want : Wants]
    <3>1. g \in 0 .. MaxGeneration
      BY HelperAssumption
    <3>2. desired \in [generation : 0 .. MaxGeneration, running : BOOLEAN, want : Wants]
      BY <1>1 DEF HelperTypeOK
    <3> QED
      BY <2>2, <3>1, <3>2
  <2>4. HelperTypeOK'
    BY <1>1, <1>2, <2>1, <2>2, <2>3, ReleasesResult DEF HelperTypeOK, Tables
  <2> QED
    BY <1>3, <2>1, <2>4, ReleasesResult DEF HelperInv
<1>11. ASSUME LeaseExpires \/ ReadbackDue \/ RetryDue \/ BackoffOver \/ UNCHANGED helperVars
       PROVE  Goal
  <2>1. UNCHANGED <<desired, child, engine, owned, shadowed, mode, published, applied, routeTable,
                    events, faults>>
    BY <1>11 DEF LeaseExpires, ReadbackDue, RetryDue, BackoffOver, helperVars, process, routing
  <2>2. lease' \in {lease, "expired"} /\ backoff' \in {backoff, FALSE}
        /\ readback' \in {readback, FALSE} /\ retried' \in {retried, FALSE}
    BY <1>11 DEF LeaseExpires, ReadbackDue, RetryDue, BackoffOver, helperVars, process, routing
  <2>3. HelperTypeOK'
    BY ZenonT(40), <1>1, <2>1, <2>2 DEF HelperTypeOK
  <2>4. OwnRoutesTracked' /\ AppliedStop' /\ KeepsForeign(routeTable')
    BY <1>1, <1>3, <1>4, <2>1 DEF AppliedStop
  <2> QED
    BY <2>3, <2>4 DEF HelperInv
<1>12. events > 0 /\ events' = events - 1 => events' \in 0 .. MaxEvents /\ events' # events
  BY <1>1, HelperAssumption DEF HelperTypeOK
<1>13. ASSUME NEW c \in Cidrs, RouteChanges(c) PROVE Goal
  <2>1. PICK r \in {"free", "foreign"} : routeTable' = [routeTable EXCEPT ![c] = r]
    BY <1>13 DEF RouteChanges
  <2>2. UNCHANGED <<desired, lease, child, engine, backoff, owned, shadowed, mode, readback, retried,
                    applied, published, faults>>
    BY <1>13 DEF RouteChanges, process, routing
  <2>3. routeTable' \in Tables
    BY <1>1, <2>1 DEF HelperTypeOK, Tables
  <2>4. HelperTypeOK'
    BY <1>1, <1>12, <1>13, <2>2, <2>3 DEF HelperTypeOK, Tables, RouteChanges
  <2>5. OwnRoutesTracked' /\ AppliedStop'
    BY <1>1, <2>1, <2>2 DEF OwnRoutesTracked, Ours, AppliedStop, Modes, HelperTypeOK
  <2> QED
    BY <1>12, <1>13, <2>4, <2>5 DEF HelperInv, RouteChanges
<1>14. ASSUME EngineEnds \/ HelperRestarts PROVE Goal
  <2>1. routeTable' = WithoutDevice(routeTable) /\ child' = FALSE /\ events > 0 /\ events' = events - 1
    BY <1>14 DEF EngineEnds, HelperRestarts
  <2>2. routeTable' \in Tables /\ \A c \in Cidrs : routeTable'[c] \notin Modes
    BY <1>1, <2>1, WithoutDeviceResult, HelperTypes
  <2>5. desired' \in [generation : 0 .. MaxGeneration, running : BOOLEAN, want : Wants]
    <3>1. desired \in [generation : 0 .. MaxGeneration, running : BOOLEAN, want : Wants]
      BY <1>1 DEF HelperTypeOK
    <3>2. OnDisk[desired.want] \in Wants
      BY <3>1 DEF OnDisk, Wants
    <3> QED
      BY <1>14, <3>1, <3>2 DEF EngineEnds, HelperRestarts
  <2>3. HelperTypeOK'
    BY <1>1, <1>12, <1>14, <2>1, <2>2, <2>5
       DEF HelperTypeOK, Tables, EngineEnds, HelperRestarts, routing, process
  <2>4. AppliedStop'
    BY <1>1, <1>14 DEF AppliedStop, EngineEnds, HelperRestarts, routing
  <2> QED
    BY <1>3, <1>12, <2>1, <2>2, <2>3, <2>4 DEF HelperInv
<1>15. ASSUME Tick PROVE Goal
  <2>1. PICK fault \in Faults : Reconcile(fault) /\ Spends(fault) /\ UNCHANGED events
    BY <1>15 DEF Tick
  <2>2. CASE LeaseOver(fault)
    BY <1>5, <2>1, <2>2
  <2>3. CASE ConfigChanged(fault)
    BY <1>6, <2>1, <2>3
  <2>4. CASE EngineDown(fault)
    BY <1>7, <2>1, <2>4
  <2>5. CASE EngineUp(fault)
    BY <1>8, <2>1, <2>5
  <2> QED
    BY <2>1, <2>2, <2>3, <2>4, <2>5 DEF Reconcile
<1>16. ASSUME Requests PROVE Goal
  <2>1. PICK g \in 1 .. MaxGeneration :
          \/ Stop(g)
          \/ \E ok \in BOOLEAN : Renew(g, ok) \/ \E w \in Wanted : Ensure(g, w, ok)
    BY <1>16 DEF Requests
  <2>2. CASE Stop(g)
    BY <1>10, <2>2
  <2>3. ASSUME NEW ok \in BOOLEAN, Renew(g, ok) \/ \E w \in Wanted : Ensure(g, w, ok) PROVE Goal
    BY <1>9, <2>3
  <2> QED
    BY <2>1, <2>2, <2>3
<1> QED
  BY <1>11, <1>13, <1>14, <1>15, <1>16 DEF HelperNext, TimePasses, Others

-----------------------------------------------------------------------------
\* The refinement.  What the contract sees of the daemon:
IsLeased == desired.running /\ Valid
Engaged == child \/ published \/ \E c \in Cidrs : Ours(c)

\* A step that asks for nothing new is one of the daemon's own in the contract.
LEMMA OwnSteps ==
  ASSUME UNCHANGED desired,
         \/ (IsLeased' <=> IsLeased) /\ (Engaged' <=> Engaged)
         \/ (IsLeased' <=> IsLeased) /\ ~Engaged'
         \/ (IsLeased' <=> IsLeased) /\ IsLeased /\ Engaged'
         \/ IsLeased /\ ~IsLeased' /\ (Engaged' <=> Engaged)
         \/ desired.running /\ IsLeased' /\ (Engaged' <=> Engaged)
  PROVE  [Contract!ContractNext]_(Contract!contractVars)
<1>1. CASE (IsLeased' <=> IsLeased) /\ (Engaged' <=> Engaged)
  BY <1>1 DEF Contract!contractVars, IsLeased, Engaged
<1>2. CASE (IsLeased' <=> IsLeased) /\ ~Engaged'
  BY <1>2 DEF Contract!ContractNext, Contract!ContractOwnStep, Contract!ContractRelease, Contract!want,
     IsLeased, Engaged
<1>3. CASE (IsLeased' <=> IsLeased) /\ IsLeased /\ Engaged'
  BY <1>3 DEF Contract!ContractNext, Contract!ContractOwnStep, Contract!ContractEngage, Contract!want,
     IsLeased, Engaged
<1>5. CASE IsLeased /\ ~IsLeased' /\ (Engaged' <=> Engaged)
  BY <1>5 DEF Contract!ContractNext, Contract!ContractOwnStep, Contract!ContractExpire, Contract!want,
     IsLeased, Engaged
<1>6. CASE desired.running /\ IsLeased' /\ (Engaged' <=> Engaged)
  BY <1>6 DEF Contract!ContractNext, Contract!ContractRequest, Contract!ContractRenew, Contract!want,
     IsLeased, Engaged
<1> QED
  BY <1>1, <1>2, <1>3, <1>5, <1>6

\* Every step of the daemon is one the contract allows, or none it can see.
LEMMA ContractStep ==
  ASSUME HelperInv, [HelperNext]_helperVars
  PROVE  [Contract!ContractNext]_(Contract!contractVars)
<1> DEFINE Goal == [Contract!ContractNext]_(Contract!contractVars)
<1>1. HelperTypeOK /\ OwnRoutesTracked /\ desired.generation \in Nat
  BY HelperTypes DEF HelperInv
<1>2. ASSUME NEW fault, Releases(fault) PROVE Engaged' => Engaged
  <2>1. /\ child' => child
        /\ published' => published
        /\ \A c \in Cidrs : routeTable'[c] \in Modes => child'
    BY <1>2, ReleasesResult
  <2> QED
    BY <2>1 DEF Engaged, Ours
<1>3. ASSUME Tick PROVE Goal
  <2>1. PICK fault \in Faults : Reconcile(fault)
    BY <1>3 DEF Tick
  <2>2. UNCHANGED <<desired, lease>> /\ (IsLeased' <=> IsLeased)
    BY <2>1 DEF Reconcile, LeaseOver, ConfigChanged, EngineDown, EngineUp, IsLeased, Valid
  <2>3. CASE LeaseOver(fault)
    BY <1>2, <2>2, <2>3, OwnSteps DEF LeaseOver
  <2>4. CASE LeaseMode # "off"
    BY <2>2, <2>4, OwnSteps DEF LeaseMode, IsLeased
  <2> QED
    BY <2>1, <2>3, <2>4 DEF Reconcile, ConfigChanged, EngineDown, EngineUp
<1>4. ASSUME NEW g \in 1 .. MaxGeneration, NEW ok \in BOOLEAN,
             Renew(g, ok) \/ \E w \in Wanted : Ensure(g, w, ok)
      PROVE  Goal
  <2>1. Engaged' <=> Engaged
    BY <1>4 DEF Renew, Ensure, process, Engaged, Ours
  <2>2. lease' \in {"ok", "down"}
    BY <1>4 DEF Renew, Ensure
  <2>3. CASE UNCHANGED desired /\ desired.running
    BY <2>1, <2>2, <2>3, OwnSteps DEF IsLeased, Valid
  <2>4. ASSUME NEW w \in Wanted, g > desired.generation,
               desired' = [generation |-> g, running |-> TRUE, want |-> w]
        PROVE  Goal
    <3>1. /\ desired'.generation = g /\ desired'.running = TRUE /\ desired'.want \in Wants
          /\ g \in Nat /\ IsLeased'
      BY <2>2, <2>4, HelperAssumption DEF IsLeased, Valid
    <3> QED
      BY <2>1, <2>4, <3>1
         DEF Contract!ContractNext, Contract!ContractRequest, Contract!ContractEnsure, IsLeased, Engaged
  <2>5. \/ UNCHANGED desired /\ desired.running
        \/ \E w \in Wanted : /\ g > desired.generation
                             /\ desired' = [generation |-> g, running |-> TRUE, want |-> w]
    <3>1. ~Refused(g) => g > desired.generation
      BY <1>1, HelperAssumption DEF Refused
    <3> QED
      BY <1>4, <3>1 DEF Renew, Ensure
  <2> QED
    BY <2>3, <2>4, <2>5
<1>5. ASSUME NEW g \in 1 .. MaxGeneration, Stop(g) PROVE Goal
  <2>1. PICK fault \in Faults : Releases(fault)
    BY <1>5 DEF Stop
  <2>2. Engaged' => Engaged
    BY <1>2, <2>1
  <2>3. /\ desired'.generation = g /\ desired'.running = FALSE /\ desired'.want = desired.want
        /\ g \in Nat /\ ~IsLeased'
    BY <1>1, <1>5, HelperAssumption DEF Stop, HelperTypeOK, IsLeased, Valid
  <2>4. CASE g > desired.generation
    BY <2>2, <2>3, <2>4
       DEF Contract!ContractNext, Contract!ContractRequest, Contract!ContractStop, IsLeased, Engaged
  <2>5. CASE g = desired.generation /\ ~desired.running
    <3>1. UNCHANGED desired
      BY <1>1, <1>5, <2>3, <2>5 DEF Stop, HelperTypeOK
    <3>2. ~IsLeased
      BY <2>5 DEF IsLeased
    <3> QED
      BY <2>2, <2>3, <3>1, <3>2, OwnSteps
  <2> QED
    BY <1>1, <1>5, <2>4, <2>5, HelperAssumption DEF Stop, Refused
<1>6. ASSUME LeaseExpires PROVE Goal
  <2>1. UNCHANGED desired /\ (Engaged' <=> Engaged) /\ ~IsLeased' /\ (IsLeased <=> desired.running)
    BY <1>6 DEF LeaseExpires, process, Engaged, Ours, IsLeased, Valid
  <2> QED
    BY <2>1, OwnSteps
<1>7. ASSUME ReadbackDue \/ RetryDue \/ BackoffOver \/ UNCHANGED helperVars PROVE Goal
  <2>1. UNCHANGED <<desired, lease, child, published, routeTable>>
    BY <1>7 DEF ReadbackDue, RetryDue, BackoffOver, helperVars, process
  <2>2. (Engaged' <=> Engaged) /\ (IsLeased' <=> IsLeased)
    BY <2>1 DEF Engaged, Ours, IsLeased, Valid
  <2> QED
    BY <2>1, <2>2, OwnSteps
<1>8. ASSUME NEW c \in Cidrs, RouteChanges(c) PROVE Goal
  <2>1. UNCHANGED <<desired, lease, child, published>> /\ (IsLeased' <=> IsLeased)
    BY <1>8 DEF RouteChanges, process, IsLeased, Valid
  <2>2. \A d \in Cidrs : routeTable'[d] \in Modes => routeTable[d] \in Modes
    BY <1>1, <1>8 DEF RouteChanges, HelperTypeOK, Modes
  <2>3. Engaged' => Engaged
    BY <2>1, <2>2 DEF Engaged, Ours
  <2> QED
    BY <2>1, <2>3, OwnSteps
<1>9. ASSUME EngineEnds \/ HelperRestarts PROVE Goal
  <2>1. ~child' /\ \A d \in Cidrs : routeTable'[d] \notin Modes
    BY <1>9, WithoutDeviceResult, HelperTypes, <1>1 DEF EngineEnds, HelperRestarts
  <2>3. CASE EngineEnds
    <3>0. UNCHANGED desired
      BY <2>3 DEF EngineEnds
    <3>1. (IsLeased' <=> IsLeased) /\ (Engaged' => Engaged)
      BY <2>1, <2>3 DEF EngineEnds, Engaged, Ours, IsLeased, Valid
    <3> QED
      BY <3>0, <3>1, OwnSteps
  <2>4. CASE HelperRestarts
    <3>1. ~IsLeased' /\ ~Engaged'
      BY <2>1, <2>4 DEF HelperRestarts, Engaged, Ours, IsLeased, Valid
    <3>2. desired' = [desired EXCEPT !.want = OnDisk[desired.want]]
      BY <2>4 DEF HelperRestarts
    <3>3. /\ desired'.want = OnDisk[desired.want]
          /\ desired'.generation = desired.generation /\ desired'.running = desired.running
      BY <3>2, <1>1 DEF HelperTypeOK
    <3>4. Contract!ContractRestart
      BY <3>1, <3>3 DEF Contract!ContractRestart, IsLeased, Engaged
    <3> QED
      BY <3>4 DEF Contract!ContractNext, Contract!ContractOwnStep
  <2> QED
    BY <1>9, <2>3, <2>4
<1>10. ASSUME Requests PROVE Goal
  <2>1. PICK g \in 1 .. MaxGeneration :
          \/ Stop(g)
          \/ \E ok \in BOOLEAN : Renew(g, ok) \/ \E w \in Wanted : Ensure(g, w, ok)
    BY <1>10 DEF Requests
  <2>2. CASE Stop(g)
    BY <1>5, <2>2
  <2>3. ASSUME NEW ok \in BOOLEAN, Renew(g, ok) \/ \E w \in Wanted : Ensure(g, w, ok) PROVE Goal
    BY <1>4, <2>3
  <2> QED
    BY <2>1, <2>2, <2>3
<1> QED
  BY <1>3, <1>6, <1>7, <1>8, <1>9, <1>10 DEF HelperNext, TimePasses, Others

\* It also satisfies the beginning of the contract.
LEMMA ContractInitially ==
  ASSUME HelperInit
  PROVE  Contract!ContractInit
<1>1. HelperInv
  BY HelperInitially
<1>2. ~child /\ ~published /\ (\A c \in Cidrs : ~Ours(c)) /\ ~desired.running
  BY DEF HelperInit, Ours, Modes
<1> QED
  BY <1>1, <1>2, HelperTypes DEF HelperInv, Contract!ContractInit

-----------------------------------------------------------------------------
\* The type invariant, that no route of ours is forgotten, and what an applied stop
\* means, hold together.
THEOREM HelperInvariance == HelperSpec => []HelperInv
<1>1. HelperInit => HelperInv
  BY HelperInitially
<1>2. HelperInv /\ [HelperNext]_helperVars => HelperInv'
  BY HelperStep
<1> QED
  BY <1>1, <1>2, PTL DEF HelperSpec

\* The daemon implements the contract the core is written against: nothing is wanted
\* but by a higher generation, and the network is taken over under a lease only.
THEOREM HelperImplementsContract == HelperSpec => KeepsContract
<1>1. HelperInit => Contract!ContractInit
  BY ContractInitially
<1>2. HelperInv /\ [HelperNext]_helperVars => [Contract!ContractNext]_(Contract!contractVars)
  BY ContractStep
<1> QED
  BY <1>1, <1>2, HelperInvariance, PTL DEF HelperSpec, KeepsContract, Contract!ContractSafety

\* Whatever the daemon withdraws, adds or loses with its engine, a route that somebody
\* else owns stays as it is (routes.rs).
THEOREM ForeignRoutesStay == HelperSpec => ForeignRoutesKept
<1>1. HelperInv /\ [HelperNext]_helperVars
        => [events' = events => KeepsForeign(routeTable')]_helperVars
  BY HelperStep
<1>2. HelperSpec => [][events' = events => KeepsForeign(routeTable')]_helperVars
  BY <1>1, HelperInvariance, PTL DEF HelperSpec
<1> QED
  BY <1>2, PTL DEF ForeignRoutesKept, KeepsForeign

\* All that the run desktop_safety checks of the helper (main.rs:446-553).
THEOREM HelperIsTrue == HelperSpec => HelperKeepsWord
<1>1. HelperInv => OwnRoutesTracked /\ QuietWhenStopped
  <2> SUFFICES ASSUME HelperInv PROVE OwnRoutesTracked /\ QuietWhenStopped
    OBVIOUS
  <2>1. OwnRoutesTracked /\ AppliedStop
    BY DEF HelperInv
  <2>2. ASSUME LeaseMode = "off", StatusApplied
        PROVE  ~published /\ engine = "none" /\ \A c \in Cidrs : ~Ours(c)
    <3>1. ~child /\ ~published /\ engine = "none"
      BY <2>1, <2>2 DEF StatusApplied, AppliedStop
    <3> QED
      BY <2>1, <3>1 DEF OwnRoutesTracked
  <2> QED
    BY <2>1, <2>2 DEF QuietWhenStopped
<1>2. HelperSpec => [](OwnRoutesTracked /\ QuietWhenStopped)
  BY <1>1, HelperInvariance, PTL
<1> QED
  BY <1>2, HelperImplementsContract, ForeignRoutesStay DEF HelperKeepsWord

-----------------------------------------------------------------------------
(* The run of the components around the runtime *)

\* A behaviour of the run is one of each component, so that what each of them promises
\* holds of the run; the fairness of the probes is not among its assumptions.
THEOREM DesktopIsEach ==
  DesktopSpec =>
    /\ ProbeInit /\ [][ProbeNext]_probeVars
    /\ TakeoverSpec /\ HelperSpec /\ SwitchSpec /\ ForwardSpec /\ WatchdogSpec /\ RuleSpec
<1>1. DesktopInit => /\ ProbeInit /\ TakeoverInit /\ HelperInit /\ SwitchInit /\ ForwardInit /\ WatchdogInit
                     /\ RuleInit
  BY DEF DesktopInit
<1>2. [DesktopNext]_desktopVars => [ProbeNext]_probeVars
  BY DEF DesktopNext, desktopVars
<1>3. [DesktopNext]_desktopVars => [TakeoverNext]_takeoverVars
  BY DEF DesktopNext, desktopVars
<1>4. [DesktopNext]_desktopVars => [HelperNext]_helperVars
  BY DEF DesktopNext, desktopVars
<1>5. [DesktopNext]_desktopVars => [SwitchNext]_switchVars
  BY DEF DesktopNext, desktopVars
<1>6. [DesktopNext]_desktopVars => [ForwardNext]_fwdVars
  BY DEF DesktopNext, desktopVars
<1>7. [DesktopNext]_desktopVars => [WatchdogNext]_watchdogVars
  BY DEF DesktopNext, desktopVars
<1>8. [DesktopNext]_desktopVars => [RuleNext]_ruleVars
  BY DEF DesktopNext, desktopVars
<1> QED
  BY <1>1, <1>2, <1>3, <1>4, <1>5, <1>6, <1>7, <1>8, PTL
     DEF DesktopSpec, TakeoverSpec, HelperSpec, SwitchSpec, ForwardSpec, WatchdogSpec, RuleSpec

\* Every value of the probes, the takeover, the helper, the switch of the data, the
\* forwards, the watchdog and the rules keeps its type (probe.rs, takeover.rs, the TUN
\* helper, upgrade_switch.rs, novnc.rs, health.rs, server_guard.rs).
THEOREM DesktopTypesAreKept == DesktopSpec => []DesktopTypeOK
<1>1. (HelperInv => HelperTypeOK) /\ (ProbeInv => ProbeTypeOK)
  BY TypedIsTypeOK DEF HelperInv, ProbeInv
<1>2. ProbeTypeOK /\ TakeoverTypeOK /\ HelperTypeOK /\ SwitchTypeOK /\ ForwardTypeOK /\ WatchdogTypeOK
      /\ RuleTypeOK => DesktopTypeOK
  BY DEF DesktopTypeOK
<1> QED
  BY <1>1, <1>2, DesktopIsEach, ProbeInvariance, TakeoverTypesAreKept, HelperInvariance, SwitchTypeCorrect,
     ForwardTypesAreKept, WatchdogTypesAreKept, RuleTypesAreKept, PTL

\* In the run, kernel, tester, PAC file, routes and guard follow one rule set: the most
\* specific rule decides, the entries lead where the kernel does, no address of the VM's
\* own connections is routed back, and the guard is the newest (manager.rs
\* ordered_rules, entry.rs route_sets_for, server_guard.rs observe and carve,
\* health.rs GUARD_APPLY_LOCK).
THEOREM RulesAreKept == DesktopSpec => []RulesKept
<1>1. RulesFollowed => RulesKept
  BY DEF RulesKept
<1> QED
  BY <1>1, DesktopIsEach, RulesAreFollowed, PTL
=============================================================================
