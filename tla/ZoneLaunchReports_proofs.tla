---------------------- MODULE ZoneLaunchReports_proofs ----------------------
(***************************************************************************)
(* What eqlaunch counts and tells world, where a dead child is reaped      *)
(* before its stop times out: s_running is the number of running zones,    *)
(* and world was last told exactly which zones those are. Every zone that  *)
(* begins or ceases to run does so in Launch or in OnTerminate of its own  *)
(* child, because PromptInv leaves neither GiveUp nor a freed handler.     *)
(***************************************************************************)
EXTENDS ZoneLaunch_proofs, FiniteSetTheorems

USE LaunchAssumption

UpZones == {z \in Zones : IsRunning(z)}

ReportInv ==
    /\ s_running = Cardinality(UpZones)
    /\ linked => reported = UpZones

\* A step that starts and ends no zone, counts nothing and tells world nothing.
Quiet ==
    /\ UpZones' = UpZones
    /\ UNCHANGED <<s_running, linked, reported>>

LEMMA UpFinite == IsFiniteSet(UpZones)
<1>1. IsFiniteSet(Zones)  BY FS_Interval DEF Zones
<1>2. UpZones \in SUBSET Zones  BY DEF UpZones
<1> QED  BY <1>1, <1>2, FS_Subset

LEMMA QuietKeeps == ReportInv /\ Quiet => ReportInv'
BY DEF ReportInv, Quiet

\* Stop leaves every zone running or not as it was.
LEMMA StopIsQuiet ==
    ASSUME TypeOK, NEW zs \in SUBSET Zones, NEW sig, Stop(zs, sig),
           UNCHANGED <<s_running, linked, reported>>
    PROVE  Quiet
<1>1. \A z \in Zones : state'[z] \in Running <=> state[z] \in Running
      BY DEF Stop, TypeOK, IsRunning, Running
<1> QED  BY <1>1 DEF Quiet, UpZones, IsRunning

\* A zone that begins to run is counted once and told to world.
LEMMA OneUp ==
    ASSUME ReportInv, NEW z \in Zones, ~IsRunning(z), UpZones' = UpZones \cup {z},
           s_running' = s_running + 1, reported' = SendStatus(z, TRUE), linked' = linked
    PROVE  ReportInv'
<1>1. z \notin UpZones  BY DEF UpZones
<1>2. Cardinality(UpZones \cup {z}) = Cardinality(UpZones) + 1
      BY <1>1, UpFinite, FS_AddElement
<1>3. s_running' = Cardinality(UpZones')  BY <1>2 DEF ReportInv
<1>4. linked' => reported' = UpZones'  BY DEF ReportInv, SendStatus
<1> QED  BY <1>3, <1>4 DEF ReportInv

\* A zone that ceases to run is no longer counted, and world is told.
LEMMA OneDown ==
    ASSUME ReportInv, NEW z \in Zones, IsRunning(z), UpZones' = UpZones \ {z},
           s_running' = s_running - 1, reported' = SendStatus(z, FALSE), linked' = linked
    PROVE  ReportInv'
<1>1. z \in UpZones  BY DEF UpZones
<1>2. Cardinality(UpZones \ {z}) = Cardinality(UpZones) - 1
      BY <1>1, UpFinite, FS_RemoveElement
<1>3. s_running' = Cardinality(UpZones')  BY <1>2 DEF ReportInv
<1>4. linked' => reported' = UpZones'  BY DEF ReportInv, SendStatus
<1> QED  BY <1>3, <1>4 DEF ReportInv

\* ReportInv is inductive next to LaunchInv and PromptInv: one step per action.
LEMMA NextReport ==
    ASSUME ~SlowKill, MaxKillFails >= 1, TypeOK, RefInv, PromptInv, ReportInv, [Next]_vars
    PROVE  ReportInv'
<1> USE DEF procVars, zoneVars
<1>1. ASSUME NEW z \in Zones, StartRequest(z) PROVE ReportInv'
  <2>1. \A y \in Zones : state'[y] \in Running <=> state[y] \in Running
        BY <1>1 DEF StartRequest, TypeOK, Running
  <2>2. Quiet  BY <1>1, <2>1 DEF StartRequest, Quiet, UpZones, IsRunning
  <2> QED  BY <2>2, QuietKeeps
<1>2. ASSUME NEW z \in Zones, RestartRequest(z) PROVE ReportInv'
  <2>1. \A y \in Zones : state'[y] \in Running <=> state[y] \in Running
        BY <1>2 DEF RestartRequest, AfterRestart, TypeOK, Running
  <2>2. Quiet  BY <1>2, <2>1 DEF RestartRequest, Quiet, UpZones, IsRunning
  <2> QED  BY <2>2, QuietKeeps
<1>3. ASSUME NEW z \in Zones, StopRequest(z) PROVE ReportInv'
  <2>1. Stop({z}, "TERM") /\ UNCHANGED <<s_running, linked, reported>>
        BY <1>3 DEF StopRequest
  <2> QED  BY <2>1, StopIsQuiet, QuietKeeps
<1>4. ASSUME LinkLost PROVE ReportInv'
      BY <1>4 DEF LinkLost, ReportInv, UpZones, IsRunning
<1>5. ASSUME OnConnected PROVE ReportInv'
      BY <1>5 DEF OnConnected, ReportInv, UpZones, IsRunning
<1>6. ASSUME \/ HandleSigChild
             \/ \E p \in Pids : Dies(p)
             \/ \E z \in Zones : TimerElapses(z)
             \/ StartTimerElapses \/ TickBegins \/ TickReaped \/ TickEnds
             \/ TerminateAll \/ Exit
      PROVE  ReportInv'
  <2>1. UNCHANGED <<state, s_running, linked, reported>>
        BY <1>6 DEF HandleSigChild, Dies, TimerElapses, StartTimerElapses, TickBegins,
                    TickReaped, TickEnds, TerminateAll, Exit
  <2>2. Quiet  BY <2>1 DEF Quiet, UpZones, IsRunning
  <2> QED  BY <2>2, QuietKeeps
<1>7. ASSUME ReapAny PROVE ReportInv'
  <2>1. PICK at \in {"reap", "stopReap", "killReap"} : Reap(at)  BY <1>7 DEF ReapAny
  <2>2. CASE Zombies = {}
    <3>1. UNCHANGED <<state, s_running, linked, reported>>  BY <2>1, <2>2 DEF Reap
    <3>2. Quiet  BY <3>1 DEF Quiet, UpZones, IsRunning
    <3> QED  BY <3>2, QuietKeeps
  <2>3. ASSUME NEW p \in Zombies, ProcessTerminated(p) PROVE ReportInv'
    <3> DEFINE z == child[p].zone
    <3>1. p \in Pids /\ child[p] \in Children /\ child[p].life # "none" /\ z \in Zones
          BY DEF Zombies, TypeOK, NoChild, Children
    <3>2. IsRunning(z) /\ ref[z] = p  BY <3>1 DEF PromptInv, OwnedInv
    <3>3. child[p].handler = "object"  BY <3>2, <3>1 DEF RefInv, Holds
    <3>4. OnTerminate(z) /\ s_running' = s_running - 1
          BY <2>3, <3>3 DEF ProcessTerminated, CountDown
    <3> HIDE DEF z
    <3>5. /\ state'[z] \notin Running
          /\ \A y \in Zones : y # z => state'[y] = state[y]
          BY <3>1, <3>4, OnTerminateEffect
    <3>6. UpZones' = UpZones \ {z}  BY <3>5 DEF UpZones, IsRunning
    <3>7. linked' = linked /\ reported' = SendStatus(z, FALSE)
          BY <2>1, <3>4 DEF Reap, OnTerminate
    <3> QED  BY <3>1, <3>2, <3>4, <3>6, <3>7, OneDown
  <2> QED  BY <2>1, <2>2, <2>3 DEF Reap
<1>8. ASSUME NEW z \in Zones, ProcessZone(z) PROVE ReportInv'
  <2>1. CASE Launch(z)
    <3>1. /\ state[z] = "StartPending" /\ state' = [state EXCEPT ![z] = "Started"]
          /\ s_running' = s_running + 1
          /\ reported' = SendStatus(z, TRUE) /\ linked' = linked
          BY <2>1 DEF Launch, Turn
    <3>2. ~IsRunning(z)  BY <3>1 DEF IsRunning, Running
    <3>3. state'[z] = "Started" /\ \A y \in Zones : y # z => state'[y] = state[y]
          BY <3>1 DEF TypeOK
    <3>4. UpZones' = UpZones \cup {z}  BY <3>3 DEF UpZones, IsRunning, Running
    <3> QED  BY <3>1, <3>2, <3>4, OneUp
  <2>2. CASE LaunchFails(z) \/ RestartTimedOut(z) \/ KeepWaiting(z)
    <3>1. UNCHANGED <<state, s_running, linked, reported>>
          BY <2>2 DEF LaunchFails, RestartTimedOut, KeepWaiting, Turn
    <3>2. Quiet  BY <3>1 DEF Quiet, UpZones, IsRunning
    <3> QED  BY <3>2, QuietKeeps
  <2>3. CASE KillAgain(z)
    <3>1. Stop({z}, "KILL") /\ UNCHANGED <<s_running, linked, reported>>
          BY <2>3 DEF KillAgain, Insistent, Turn
    <3> QED  BY <3>1, StopIsQuiet, QuietKeeps
  <2>4. CASE GiveUp(z)
    <3>1. state[z] = "StopPending" /\ timer[z] = "due" /\ killFails[z] + 1 > MaxKillFails
          BY <2>4 DEF GiveUp, KillFailed
    <3>2. killFails[z] > 0  BY <3>1 DEF TypeOK
    <3> QED  BY <3>1, <3>2 DEF PromptInv, KilledOnceInv
  <2>5. CASE Remove(z)
    <3>1. /\ state[z] = "Stopped" /\ state' = [state EXCEPT ![z] = "None"]
          /\ UNCHANGED <<s_running, linked, reported>>
          BY <2>5 DEF Remove, Turn
    <3>2. \A y \in Zones : state'[y] \in Running <=> state[y] \in Running
          BY <3>1 DEF TypeOK, Running
    <3>3. Quiet  BY <3>1, <3>2 DEF Quiet, UpZones, IsRunning
    <3> QED  BY <3>3, QuietKeeps
  <2> QED  BY <1>8, <2>1, <2>2, <2>3, <2>4, <2>5 DEF ProcessZone
<1>9. ASSUME LoopEnds PROVE ReportInv'
  <2>1. Stop(Zones, "TERM") /\ UNCHANGED <<s_running, linked, reported>>
        BY <1>9 DEF LoopEnds
  <2> QED  BY <2>1, StopIsQuiet, QuietKeeps
<1>10. CASE UNCHANGED vars
  <2>1. Quiet  BY <1>10 DEF vars, Quiet, UpZones, IsRunning
  <2> QED  BY <2>1, QuietKeeps
<1> QED  BY <1>1, <1>2, <1>3, <1>4, <1>5, <1>6, <1>7, <1>8, <1>9, <1>10
         DEF Next, LoopStep, Events

\* ReportInv in every reachable state.
LEMMA ReportInvariant ==
    ASSUME ~SlowKill, MaxKillFails >= 1
    PROVE  Spec => [](LaunchInv /\ PromptInv /\ ReportInv)
<1>1. Init => PromptInv
      BY DEF Init, PromptInv, OwnedInv, KilledOnceInv, NoChild
<1>2. ASSUME Init PROVE ReportInv
  <2>1. UpZones = {}  BY <1>2 DEF Init, UpZones, IsRunning, Running
  <2>2. s_running = 0 /\ reported = {}  BY <1>2 DEF Init
  <2> QED  BY <2>1, <2>2, FS_EmptySet DEF ReportInv
<1>3. LaunchInv /\ PromptInv /\ [Next]_vars => PromptInv'
      BY NextPrompt DEF LaunchInv
<1>4. LaunchInv /\ PromptInv /\ ReportInv /\ [Next]_vars => ReportInv'
      BY NextReport DEF LaunchInv
<1> QED  BY LaunchInvariant, <1>1, <1>2, <1>3, <1>4, PTL DEF Spec

(***************************************************************************)
(* Where dead children are reaped before their stop times out, s_running   *)
(* is the number of running zones, through any crashes, restarts, stops    *)
(* and failed forks: Process takes the first zone for the first, and waits *)
(* InitialBootWait after it.                                               *)
(***************************************************************************)
THEOREM CountStaysRight ==
    ASSUME ~SlowKill, MaxKillFails >= 1
    PROVE  Spec => []RunningCounted
<1>1. ReportInv => RunningCounted  BY DEF ReportInv, UpZones, RunningCounted
<1> QED  BY ReportInvariant, <1>1, PTL

(***************************************************************************)
(* Under the same condition world, while linked, was last told exactly     *)
(* which zones run, however often the link broke and came back.            *)
(***************************************************************************)
THEOREM WorldToldRight ==
    ASSUME ~SlowKill, MaxKillFails >= 1
    PROVE  Spec => []ReportedRight
<1>1. ReportInv => ReportedRight  BY DEF ReportInv, UpZones, ReportedRight
<1> QED  BY ReportInvariant, <1>1, PTL
=============================================================================
