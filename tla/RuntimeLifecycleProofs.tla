---------------------- MODULE RuntimeLifecycleProofs ----------------------
(***************************************************************************)
(* Proofs about RuntimeLifecycle, for every set of requests and checks,    *)
(* every grace period and every bound on the length of a check.            *)
(*                                                                         *)
(* The safety properties are conjuncts of IInv or follow from it.  None of *)
(* them is inductive alone: that a release is exclusive needs that the     *)
(* idle watcher's answer is discarded when the revision has moved, which   *)
(* needs to know what held when it looked (AnswerMeansUnchanged) and where *)
(* each permit is (PermitsFollowPc).                                       *)
(***************************************************************************)
EXTENDS RuntimeLifecycle, TLAPS

\* The part of the inductive invariant that is not about types.
Consistent ==
  /\ ExclusiveRelease /\ FlightMatchesPhase /\ NoOrphanWaiter
  /\ TeardownOnlyUnused /\ UsersKeepRuntime /\ QuitStopsAlone
  /\ PermitsFollowPc /\ AnswerMeansUnchanged /\ DeadlineCoversQuiet
  /\ ClosingFollowsQuit /\ SuccessMeansStarted

\* Every step of every task keeps the types.
LEMMA TypeStep == TypeOK /\ [Next]_vars => TypeOK'
<1> SUFFICES ASSUME TypeOK, [Next]_vars PROVE TypeOK'
  OBVIOUS
<1> USE TasksAssumption, TimeAssumption DEF TypeOK, Watchers, Idle, Serving, Publish, Admissible,
  RestartsQuiet, KeepsWaiting, MarkUnavailable, Drop, PhaseAfter, Deliver,
  EndFlight, RestartAllowed, AnswerCounts, Deadline, BeforeDeadline, TickedLeft,
  Drained, StartInFlight, QuietCap, Phases, Flights, coordinator, tasks, watcher, vars
<1>1. ASSUME NEW r \in Requests, AdmitRefused(r) PROVE TypeOK'
  BY <1>1 DEF AdmitRefused
<1>2. ASSUME NEW r \in Requests, AdmitGranted(r) PROVE TypeOK'
  BY <1>2 DEF AdmitGranted
<1>3. ASSUME NEW r \in Requests, AdmitWaits(r) PROVE TypeOK'
  BY <1>3 DEF AdmitWaits
<1>4. ASSUME NEW r \in Requests, Wake(r) PROVE TypeOK'
  BY <1>4 DEF Wake
<1>5. ASSUME NEW r \in Requests, EnsureBegins(r) PROVE TypeOK'
  BY <1>5 DEF EnsureBegins
<1>6. ASSUME NEW r \in Requests, MachineObserved(r) PROVE TypeOK'
  BY <1>6 DEF MachineObserved
<1>7. ASSUME NEW r \in Requests, EnsureFailsEarly(r) PROVE TypeOK'
  BY <1>7 DEF EnsureFailsEarly
<1>8. ASSUME NEW r \in Requests, EnsureEnters(r) PROVE TypeOK'
  BY <1>8 DEF EnsureEnters
<1>9. ASSUME NEW r \in Requests, EnsureRefused(r) PROVE TypeOK'
  BY <1>9 DEF EnsureRefused
<1>10. ASSUME NEW r \in Requests, EnsureServing(r) PROVE TypeOK'
  BY <1>10 DEF EnsureServing
<1>11. ASSUME NEW r \in Requests, EnsureJoins(r) PROVE TypeOK'
  BY <1>11 DEF EnsureJoins
<1>12. ASSUME NEW r \in Requests, EnsureStarts(r) PROVE TypeOK'
  BY <1>12 DEF EnsureStarts
<1>13. ASSUME NEW r \in Requests, EnsureReturns(r) PROVE TypeOK'
  BY <1>13 DEF EnsureReturns
<1>14. ASSUME NEW r \in Requests, RestartStopped(r) PROVE TypeOK'
  BY <1>14 DEF RestartStopped
<1>15. ASSUME NEW r \in Requests, Finish(r) PROVE TypeOK'
  BY <1>15 DEF Finish
<1>16. ASSUME NEW r \in Requests, Arrive(r) PROVE TypeOK'
  BY <1>16 DEF Arrive
<1>17. ASSUME NEW r \in Requests, Abandon(r) PROVE TypeOK'
  BY <1>17 DEF Abandon
<1>18. ASSUME NEW r \in Requests, ChangeIntent(r) PROVE TypeOK'
  <2>1. inUse' \in BOOLEAN
    BY <1>18, Zenon DEF ChangeIntent
  <2>2. UNCHANGED <<coordinator, stale, tasks, watcher, quit, vm, quiet>>
    BY <1>18, Zenon DEF ChangeIntent
  <2> QED
    BY <2>1, <2>2
<1>19. ASSUME NEW r \in Requests, RestartBegins(r) PROVE TypeOK'
  BY <1>19 DEF RestartBegins
<1>20. ASSUME NEW c \in Checks, CheckBegins(c) PROVE TypeOK'
  BY <1>20 DEF CheckBegins
<1>21. ASSUME NEW c \in Checks, CheckReportsDown(c) PROVE TypeOK'
  BY <1>21 DEF CheckReportsDown
<1>22. ASSUME NEW c \in Checks, CheckEnds(c) PROVE TypeOK'
  BY <1>22 DEF CheckEnds
<1>23. CASE MachineStarts
  BY <1>23 DEF MachineStarts
<1>24. CASE StartEnds
  BY <1>24 DEF StartEnds
<1>25. CASE ReleaseConfirmed
  BY <1>25 DEF ReleaseConfirmed
<1>26. CASE ReleaseCancelled
  BY <1>26 DEF ReleaseCancelled
<1>27. CASE ChannelsStopForRestart
  <2>1. inUse' \in BOOLEAN
    BY <1>27, Zenon DEF ChannelsStopForRestart
  <2>2. UNCHANGED <<coordinator, stale, tasks, watcher, quit, vm, quiet>>
    BY <1>27, Zenon DEF ChannelsStopForRestart
  <2> QED
    BY <2>1, <2>2
<1>28. CASE MachineStops
  BY <1>28 DEF MachineStops
<1>29. CASE StopEnds
  BY <1>29 DEF StopEnds
<1>30. CASE MachineLost
  BY <1>30 DEF MachineLost
<1>31. CASE IdleBegins
  BY <1>31 DEF IdleBegins
<1>32. CASE IdleReads
  BY <1>32 DEF IdleReads
<1>33. CASE IdleDiscards
  BY <1>33 DEF IdleDiscards
<1>34. CASE IdleDenied
  BY <1>34 DEF IdleDenied
<1>35. CASE IdleWaits
  BY <1>35 DEF IdleWaits
<1>36. CASE IdleReleases
  BY <1>36 DEF IdleReleases
<1>37. CASE Tick
  BY <1>37 DEF Tick
<1>38. CASE BeginClosing
  BY <1>38 DEF BeginClosing
<1>39. CASE QuiesceBegins
  BY <1>39 DEF QuiesceBegins
<1>40. CASE QuiesceLooks
  BY <1>40 DEF QuiesceLooks
<1>41. CASE QuiesceWakes
  BY <1>41 DEF QuiesceWakes
<1>42. CASE QuiesceGivesUp
  BY <1>42 DEF QuiesceGivesUp
<1>43. CASE QuitStopsChannels
  <2>1. inUse' \in BOOLEAN
    BY <1>43, Zenon DEF QuitStopsChannels
  <2>2. UNCHANGED <<coordinator, stale, tasks, watcher, vm, quiet>>
    BY <1>43, Zenon DEF QuitStopsChannels
  <2>3. quit' = "channelsDone"
    BY <1>43 DEF QuitStopsChannels
  <2> QED
    BY <2>1, <2>2, <2>3
<1>44. CASE QuitStopsMachine
  BY <1>44 DEF QuitStopsMachine
<1>45. CASE QuitLeavesMachine
  BY <1>45 DEF QuitLeavesMachine
<1>46. CASE QuitMachineStopped
  BY <1>46 DEF QuitMachineStopped
<1>47. CASE Exited
  BY <1>47 DEF Exited
<1>48. CASE UNCHANGED vars
  BY SMTT(30), <1>48
<1>49. ASSUME NEW c \in Checks, CheckPublishes(c) PROVE TypeOK'
  <2>1. healthy' \in BOOLEAN
    BY <1>49, Zenon DEF CheckPublishes
  <2>2. UNCHANGED <<coordinator, stale, tasks, idle, lag, quit, inUse, vm, quiet>>
    BY <1>49, Zenon DEF CheckPublishes
  <2> QED
    BY <2>1, <2>2
<1>50. CASE HealthLapses
  <2>1. healthy' \in BOOLEAN
    BY <1>50, Zenon DEF HealthLapses
  <2>2. UNCHANGED <<coordinator, stale, tasks, idle, lag, quit, inUse, vm, quiet>>
    BY <1>50, Zenon DEF HealthLapses
  <2> QED
    BY <2>1, <2>2
<1> QED
  BY <1>1, <1>2, <1>3, <1>4, <1>5, <1>6, <1>7, <1>8, <1>9, <1>10, <1>11,
     <1>12, <1>13, <1>14, <1>15, <1>16, <1>17, <1>18, <1>19, <1>20, <1>21,
     <1>22, <1>23, <1>24, <1>25, <1>26, <1>27, <1>28, <1>29, <1>30, <1>31,
     <1>32, <1>33, <1>34, <1>35, <1>36, <1>37, <1>38, <1>39, <1>40, <1>41,
     <1>42, <1>43, <1>44, <1>45, <1>46, <1>47, <1>48, <1>49, <1>50
     DEF Next, RequestStep, FlightStep, IdleStep, QuitStep

\* Every step keeps the rest of the inductive invariant: one case per action.
LEMMA ConsistentStep == TypeOK /\ Consistent /\ [Next]_vars => Consistent'
<1> SUFFICES ASSUME TypeOK, Consistent, [Next]_vars PROVE Consistent'
  OBVIOUS
<1> USE TasksAssumption, TimeAssumption DEF TypeOK, Consistent, Watchers, Idle, Serving, Publish, Admissible,
  RestartsQuiet, KeepsWaiting, MarkUnavailable, Drop, PhaseAfter, Deliver,
  EndFlight, RestartAllowed, AnswerCounts, Deadline, BeforeDeadline, TickedLeft,
  Drained, StartInFlight, QuietCap, Phases, Flights, coordinator, tasks, watcher, vars,
  ExclusiveRelease, FlightMatchesPhase, NoOrphanWaiter,
  TeardownOnlyUnused, UsersKeepRuntime, QuitStopsAlone, PermitsFollowPc,
  AnswerMeansUnchanged, Judging, DeadlineCoversQuiet, ClosingFollowsQuit,
  SuccessMeansStarted
<1>1. ASSUME NEW r \in Requests, AdmitRefused(r) PROVE Consistent'
  BY ZenonT(40), <1>1 DEF AdmitRefused
<1>2. ASSUME NEW r \in Requests, AdmitGranted(r) PROVE Consistent'
  <2>1. (ExclusiveRelease /\ FlightMatchesPhase)'
    BY <1>2 DEF AdmitGranted
  <2>2. (NoOrphanWaiter /\ TeardownOnlyUnused)'
    BY <1>2 DEF AdmitGranted
  <2>3. (UsersKeepRuntime /\ QuitStopsAlone)'
    BY <1>2 DEF AdmitGranted
  <2>4. (PermitsFollowPc)'
    BY <1>2 DEF AdmitGranted
  <2>5. (AnswerMeansUnchanged /\ DeadlineCoversQuiet)'
    BY <1>2 DEF AdmitGranted
  <2>6. (ClosingFollowsQuit /\ SuccessMeansStarted)'
    BY <1>2 DEF AdmitGranted
  <2> QED
    BY <2>1, <2>2, <2>3, <2>4, <2>5, <2>6
<1>3. ASSUME NEW r \in Requests, AdmitWaits(r) PROVE Consistent'
  BY <1>3 DEF AdmitWaits
<1>4. ASSUME NEW r \in Requests, Wake(r) PROVE Consistent'
  BY <1>4 DEF Wake
<1>5. ASSUME NEW r \in Requests, EnsureBegins(r) PROVE Consistent'
  BY <1>5 DEF EnsureBegins
<1>6. ASSUME NEW r \in Requests, MachineObserved(r) PROVE Consistent'
  BY <1>6 DEF MachineObserved
<1>7. ASSUME NEW r \in Requests, EnsureFailsEarly(r) PROVE Consistent'
  BY <1>7 DEF EnsureFailsEarly
<1>8. ASSUME NEW r \in Requests, EnsureEnters(r) PROVE Consistent'
  BY <1>8 DEF EnsureEnters
<1>9. ASSUME NEW r \in Requests, EnsureRefused(r) PROVE Consistent'
  BY <1>9 DEF EnsureRefused
<1>10. ASSUME NEW r \in Requests, EnsureServing(r) PROVE Consistent'
  BY <1>10 DEF EnsureServing
<1>11. ASSUME NEW r \in Requests, EnsureJoins(r) PROVE Consistent'
  BY <1>11 DEF EnsureJoins
<1>12. ASSUME NEW r \in Requests, EnsureStarts(r) PROVE Consistent'
  BY <1>12 DEF EnsureStarts
<1>13. ASSUME NEW r \in Requests, EnsureReturns(r) PROVE Consistent'
  BY <1>13 DEF EnsureReturns
<1>14. ASSUME NEW r \in Requests, RestartStopped(r) PROVE Consistent'
  BY <1>14 DEF RestartStopped
<1>15. ASSUME NEW r \in Requests, Finish(r) PROVE Consistent'
  BY <1>15 DEF Finish
<1>16. ASSUME NEW r \in Requests, Arrive(r) PROVE Consistent'
  BY <1>16 DEF Arrive
<1>17. ASSUME NEW r \in Requests, Abandon(r) PROVE Consistent'
  BY <1>17 DEF Abandon
<1>18. ASSUME NEW r \in Requests, ChangeIntent(r) PROVE Consistent'
  BY <1>18 DEF ChangeIntent
<1>19. ASSUME NEW r \in Requests, RestartBegins(r) PROVE Consistent'
  BY <1>19 DEF RestartBegins
<1>20. ASSUME NEW c \in Checks, CheckBegins(c) PROVE Consistent'
  <2>1. (ExclusiveRelease /\ FlightMatchesPhase)'
    BY <1>20 DEF CheckBegins
  <2>2. (NoOrphanWaiter /\ TeardownOnlyUnused)'
    BY <1>20 DEF CheckBegins
  <2>3. (UsersKeepRuntime /\ QuitStopsAlone)'
    BY <1>20 DEF CheckBegins
  <2>4. (PermitsFollowPc)'
    BY <1>20 DEF CheckBegins
  <2>5. (AnswerMeansUnchanged /\ DeadlineCoversQuiet)'
    BY <1>20 DEF CheckBegins
  <2>6. (ClosingFollowsQuit /\ SuccessMeansStarted)'
    BY <1>20 DEF CheckBegins
  <2> QED
    BY <2>1, <2>2, <2>3, <2>4, <2>5, <2>6
<1>21. ASSUME NEW c \in Checks, CheckReportsDown(c) PROVE Consistent'
  BY <1>21 DEF CheckReportsDown
<1>22. ASSUME NEW c \in Checks, CheckEnds(c) PROVE Consistent'
  BY <1>22 DEF CheckEnds
<1>23. CASE MachineStarts
  BY <1>23 DEF MachineStarts
<1>24. CASE StartEnds
  BY <1>24 DEF StartEnds
<1>25. CASE ReleaseConfirmed
  BY <1>25 DEF ReleaseConfirmed
<1>26. CASE ReleaseCancelled
  BY <1>26 DEF ReleaseCancelled
<1>27. CASE ChannelsStopForRestart
  BY <1>27 DEF ChannelsStopForRestart
<1>28. CASE MachineStops
  BY <1>28 DEF MachineStops
<1>29. CASE StopEnds
  BY <1>29 DEF StopEnds
<1>30. CASE MachineLost
  BY <1>30 DEF MachineLost
<1>31. CASE IdleBegins
  BY <1>31 DEF IdleBegins
<1>32. CASE IdleReads
  BY <1>32 DEF IdleReads
<1>33. CASE IdleDiscards
  BY <1>33 DEF IdleDiscards
<1>34. CASE IdleDenied
  BY <1>34 DEF IdleDenied
<1>35. CASE IdleWaits
  BY <1>35 DEF IdleWaits
<1>36. CASE IdleReleases
  BY <1>36 DEF IdleReleases
<1>37. CASE Tick
  BY <1>37 DEF Tick
<1>38. CASE BeginClosing
  BY <1>38 DEF BeginClosing
<1>39. CASE QuiesceBegins
  BY <1>39 DEF QuiesceBegins
<1>40. CASE QuiesceLooks
  BY <1>40 DEF QuiesceLooks
<1>41. CASE QuiesceWakes
  BY <1>41 DEF QuiesceWakes
<1>42. CASE QuiesceGivesUp
  BY <1>42 DEF QuiesceGivesUp
<1>43. CASE QuitStopsChannels
  <2>1. UNCHANGED <<coordinator, stale, tasks, watcher, vm, quiet>> /\ quit' = "channelsDone"
    BY <1>43 DEF QuitStopsChannels
  <2>2. TeardownOnlyUnused'
    BY <1>43, Zenon DEF QuitStopsChannels
  <2>3. (ExclusiveRelease /\ FlightMatchesPhase /\ NoOrphanWaiter)'
    BY <2>1
  <2>4. (UsersKeepRuntime /\ QuitStopsAlone /\ PermitsFollowPc)'
    BY <2>1
  <2>5. (AnswerMeansUnchanged /\ DeadlineCoversQuiet)'
    BY <2>1
  <2>6. quit # "open"
    BY <1>43 DEF QuitStopsChannels
  <2>7. (ClosingFollowsQuit /\ SuccessMeansStarted)'
    BY <2>1, <2>6
  <2> QED
    BY <2>2, <2>3, <2>4, <2>5, <2>7 DEF Consistent
<1>44. CASE QuitStopsMachine
  BY <1>44 DEF QuitStopsMachine
<1>45. CASE QuitLeavesMachine
  BY <1>45 DEF QuitLeavesMachine
<1>46. CASE QuitMachineStopped
  BY <1>46 DEF QuitMachineStopped
<1>47. CASE Exited
  BY <1>47 DEF Exited
<1>48. CASE UNCHANGED vars
  BY <1>48
<1>49. ASSUME NEW c \in Checks, CheckPublishes(c) PROVE Consistent'
  <2>1. UNCHANGED <<coordinator, stale, tasks, idle, lag, quit, inUse, vm, quiet>>
    BY <1>49, Zenon DEF CheckPublishes
  <2> QED
    BY <2>1
<1>50. CASE HealthLapses
  <2>1. UNCHANGED <<coordinator, stale, tasks, idle, lag, quit, inUse, vm, quiet>>
    BY <1>50, Zenon DEF HealthLapses
  <2> QED
    BY <2>1
<1> QED
  BY <1>1, <1>2, <1>3, <1>4, <1>5, <1>6, <1>7, <1>8, <1>9, <1>10, <1>11,
     <1>12, <1>13, <1>14, <1>15, <1>16, <1>17, <1>18, <1>19, <1>20, <1>21,
     <1>22, <1>23, <1>24, <1>25, <1>26, <1>27, <1>28, <1>29, <1>30, <1>31,
     <1>32, <1>33, <1>34, <1>35, <1>36, <1>37, <1>38, <1>39, <1>40, <1>41,
     <1>42, <1>43, <1>44, <1>45, <1>46, <1>47, <1>48, <1>49, <1>50
     DEF Next, RequestStep, FlightStep, IdleStep, QuitStep

\* The initial states satisfy the inductive invariant.
LEMMA InitIInv == Init => IInv
<1> SUFFICES ASSUME Init PROVE IInv
  OBVIOUS
<1>1. TypeOK
  <2>1. inUse \in BOOLEAN
    BY Zenon DEF Init
  <2>2. closing \in BOOLEAN /\ phase \in Phases /\ flight \in Flights
    BY DEF Init, Phases, Flights
  <2>3. left \in (-MaxLag .. Grace) \cup {None} /\ lag \in 0 .. MaxLag /\ quiet \in 0 .. QuietCap
    BY TimeAssumption DEF Init, QuietCap
  <2> QED
    BY <2>1, <2>2, <2>3, Zenon DEF Init, TypeOK
<1>2. ExclusiveRelease /\ FlightMatchesPhase /\ NoOrphanWaiter
  BY DEF Init, ExclusiveRelease, FlightMatchesPhase, NoOrphanWaiter
<1>3. TeardownOnlyUnused /\ UsersKeepRuntime /\ QuitStopsAlone
  BY DEF Init, TeardownOnlyUnused, UsersKeepRuntime, QuitStopsAlone
<1>4. PermitsFollowPc /\ AnswerMeansUnchanged /\ DeadlineCoversQuiet
  BY DEF Init, PermitsFollowPc, AnswerMeansUnchanged, Judging,
         DeadlineCoversQuiet
<1>5. ClosingFollowsQuit /\ SuccessMeansStarted
  BY DEF Init, ClosingFollowsQuit, SuccessMeansStarted
<1> QED
  BY <1>1, <1>2, <1>3, <1>4, <1>5 DEF IInv

\* Every state that the coordinator and its callers reach has its type.
THEOREM TypeCorrect == Spec => []TypeOK
<1>1. Init => TypeOK
  BY InitIInv DEF IInv
<1> QED
  BY <1>1, TypeStep, PTL DEF Spec

\* IInv holds in every reachable state.
THEOREM Invariance == Spec => []IInv
<1>1. IInv /\ [Next]_vars => IInv'
  <2> SUFFICES ASSUME IInv, [Next]_vars PROVE IInv'
    OBVIOUS
  <2>1. TypeOK /\ Consistent
    BY DEF IInv, Consistent
  <2>2. TypeOK' /\ Consistent'
    BY <2>1, TypeStep, ConsistentStep
  <2> QED
    BY <2>2 DEF IInv, Consistent
<1> QED
  BY <1>1, InitIInv, PTL DEF Spec

\* No operation ever holds a permit while the runtime is released or restarted.
THEOREM ReleaseIsExclusive == Spec => []ExclusiveRelease
<1>1. IInv => ExclusiveRelease
  BY DEF IInv
<1> QED
  BY <1>1, Invariance, PTL

\* The phase is Starting or Releasing exactly while that task runs.
THEOREM OneFlightPerPhase == Spec => []FlightMatchesPhase
<1>1. IInv => FlightMatchesPhase
  BY DEF IInv
<1> QED
  BY <1>1, Invariance, PTL

\* Whoever waits for a flight waits for one that is still running.
THEOREM WaitersAreServed == Spec => []NoOrphanWaiter
<1>1. IInv => NoOrphanWaiter
  BY DEF IInv
<1> QED
  BY <1>1, Invariance, PTL

\* The idle release tears down only what nothing durable needs.
THEOREM TeardownIsSafe == Spec => []TeardownOnlyUnused
<1>1. IInv => TeardownOnlyUnused
  BY DEF IInv
<1> QED
  BY <1>1, Invariance, PTL

\* An operation that was given the runtime keeps it until it returns its permit.
THEOREM UseIsProtected == Spec => []UsersKeepRuntime
<1>1. IInv => UsersKeepRuntime
  BY DEF IInv
<1> QED
  BY <1>1, Invariance, PTL

\* Quitting never stops a machine beside its start, and quiesce returns only
\* when nothing is left.
THEOREM QuitIsAlone == Spec => []QuitStopsAlone
<1>1. IInv => QuitStopsAlone
  BY DEF IInv
<1> QED
  BY <1>1, Invariance, PTL

\* The exclusion facts together: no teardown, restart or quit meets work under way.
THEOREM UseStaysExclusive == Spec => []UseIsExclusive
<1>1. IInv => UseIsExclusive
  BY DEF IInv, UseIsExclusive
<1> QED
  BY <1>1, Invariance, PTL

\* Only the idle watcher launches an idle release.
LEMMA OnlyIdleReleases ==
  [Next]_vars /\ flight = "none" /\ flight' = "recheck" => IdleReleases
<1> SUFFICES ASSUME [Next]_vars, flight = "none", flight' = "recheck", ~IdleReleases
             PROVE FALSE
  OBVIOUS
<1> USE DEF coordinator, EndFlight
<1>1. ASSUME NEW r \in Requests,
             RequestStep(r) \/ Arrive(r) \/ Abandon(r) \/ ChangeIntent(r) \/ RestartBegins(r)
      PROVE FALSE
  BY <1>1 DEF RequestStep, AdmitRefused, AdmitGranted, AdmitWaits, Wake,
    EnsureBegins, MachineObserved, EnsureFailsEarly, EnsureEnters, EnsureRefused,
    EnsureServing, EnsureJoins, EnsureStarts, EnsureReturns, RestartStopped,
    Finish, Arrive, Abandon, ChangeIntent, RestartBegins
<1>2. ASSUME NEW c \in Checks, CheckBegins(c) \/ CheckPublishes(c) \/ CheckReportsDown(c)
                         \/ CheckEnds(c)
      PROVE FALSE
  BY <1>2 DEF CheckBegins, CheckPublishes, CheckReportsDown, CheckEnds
<1>3. CASE FlightStep
  BY <1>3 DEF FlightStep, MachineStarts, StartEnds, ReleaseConfirmed,
    ReleaseCancelled, ChannelsStopForRestart, MachineStops, StopEnds
<1>4. CASE IdleStep
  BY <1>4 DEF IdleStep, IdleBegins, IdleReads, IdleDiscards, IdleDenied, IdleWaits
<1>5. CASE HealthLapses \/ MachineLost \/ Tick \/ BeginClosing \/ Exited \/ UNCHANGED vars
  BY <1>5 DEF HealthLapses, MachineLost, Tick, BeginClosing, Exited, vars
<1>6. CASE QuitStep
  BY <1>6 DEF QuitStep, QuiesceBegins, QuiesceLooks, QuiesceWakes,
    QuiesceGivesUp, QuitStopsChannels, QuitStopsMachine, QuitLeavesMachine,
    QuitMachineStopped
<1> QED
  BY <1>1, <1>2, <1>3, <1>4, <1>5, <1>6 DEF Next

\* An idle release begins only after the whole grace period without a request.
THEOREM GraceIsRespected == Spec => GraceRespected
<1>1. IInv /\ [Next]_vars => [flight = "none" /\ flight' = "recheck" => quiet >= Grace]_vars
  <2> SUFFICES ASSUME IInv, [Next]_vars, flight = "none", flight' = "recheck"
               PROVE quiet >= Grace
    OBVIOUS
  <2>1. IdleReleases
    BY OnlyIdleReleases
  <2>2. quiet >= lag /\ ~BeforeDeadline
    BY <2>1 DEF IdleReleases, AnswerCounts, IInv, AnswerMeansUnchanged, Judging
  <2> QED
    BY <2>2, TimeAssumption
    DEF BeforeDeadline, Deadline, IInv, TypeOK, DeadlineCoversQuiet, QuietCap
<1> QED
  BY <1>1, Invariance, PTL DEF Spec, GraceRespected

\* After begin_closing no permit is given and no task is launched.
THEOREM QuittingIsFinal == Spec => QuitIsFinal
<1> DEFINE Final == closing => /\ closing'
                               /\ outer' \subseteq outer /\ inner' \subseteq inner
                               /\ flight = "none" => flight' = "none"
<1>1. IInv /\ [Next]_vars => [Final]_vars
  <2> SUFFICES ASSUME IInv, [Next]_vars, closing PROVE Final
    OBVIOUS
  <2> USE DEF coordinator
  <2>1. ASSUME NEW r \in Requests,
               RequestStep(r) \/ Arrive(r) \/ Abandon(r) \/ ChangeIntent(r) \/ RestartBegins(r)
        PROVE Final
    BY <2>1 DEF RequestStep, AdmitRefused, AdmitGranted, AdmitWaits, Wake,
      EnsureBegins, MachineObserved, EnsureFailsEarly, EnsureEnters, EnsureRefused,
      EnsureServing, EnsureJoins, EnsureStarts, EnsureReturns, RestartStopped,
      Finish, Arrive, Abandon, ChangeIntent, RestartBegins, Drop, Admissible,
      RestartAllowed
  <2>2. ASSUME NEW c \in Checks, CheckBegins(c) \/ CheckPublishes(c) \/ CheckReportsDown(c)
                         \/ CheckEnds(c)
        PROVE Final
    BY <2>2 DEF CheckBegins, CheckPublishes, CheckReportsDown, CheckEnds, Admissible
  <2>3. CASE FlightStep
    BY <2>3 DEF FlightStep, MachineStarts, StartEnds, ReleaseConfirmed,
      ReleaseCancelled, ChannelsStopForRestart, MachineStops, StopEnds, EndFlight
  <2>4. CASE IdleStep
    BY <2>4 DEF IdleStep, IdleBegins, IdleReads, IdleDiscards, IdleDenied,
      IdleWaits, IdleReleases, AnswerCounts
  <2>5. CASE HealthLapses \/ MachineLost \/ Tick \/ BeginClosing \/ Exited \/ UNCHANGED vars
    BY <2>5 DEF HealthLapses, MachineLost, Tick, BeginClosing, Exited, vars
  <2>6. CASE QuitStep
    BY <2>6 DEF QuitStep, QuiesceBegins, QuiesceLooks, QuiesceWakes,
      QuiesceGivesUp, QuitStopsChannels, QuitStopsMachine, QuitLeavesMachine,
      QuitMachineStopped
  <2> QED
    BY <2>1, <2>2, <2>3, <2>4, <2>5, <2>6 DEF Next
<1> QED
  BY <1>1, Invariance, PTL DEF Spec, QuitIsFinal

===========================================================================
