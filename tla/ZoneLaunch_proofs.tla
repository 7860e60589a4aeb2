------------------------- MODULE ZoneLaunch_proofs --------------------------
(***************************************************************************)
(* Proofs about eqlaunch for every number of zones, process ids, kills and *)
(* requests. LaunchInv holds in every environment; PromptInv also needs    *)
(* that a dead child is reaped before its stop times out (~SlowKill), and  *)
(* KilledFirst that a stop may time out once before the zone is given up.  *)
(***************************************************************************)
EXTENDS ZoneLaunch, TLAPS

USE LaunchAssumption

\* A running zone's m_ref is its own child, not reaped, and reports to it.
Holds(z) ==
    /\ ref[z] \in Pids
    /\ child[ref[z]].life # "none"
    /\ child[ref[z]].zone = z
    /\ child[ref[z]].handler = "object"

RefInv == \A z \in Zones : IsRunning(z) => Holds(z) /\ killFails[z] <= MaxKillFails

LaunchInv == TypeOK /\ RefInv

\* Terminate changes nothing of a child but the signal it was sent.
LEMMA TerminateKeeps ==
    ASSUME child \in [Pids -> Children \cup {NoChild}], NEW ps, NEW sig \in {"TERM", "KILL"}
    PROVE  /\ Terminate(ps, sig) \in [Pids -> Children \cup {NoChild}]
           /\ \A p \in Pids :
                /\ Terminate(ps, sig)[p].life = child[p].life
                /\ Terminate(ps, sig)[p].zone = child[p].zone
                /\ Terminate(ps, sig)[p].handler = child[p].handler
                /\ child[p].signal = "KILL" => Terminate(ps, sig)[p].signal = "KILL"
                /\ sig = "KILL" /\ p \in ps /\ child[p].life # "none"
                      => Terminate(ps, sig)[p].signal = "KILL"
                /\ sig = "TERM" /\ Terminate(ps, sig)[p].signal = "KILL"
                      => child[p].signal = "KILL"
<1>1. ASSUME NEW p \in Pids
      PROVE  /\ Terminate(ps, sig)[p] \in Children \cup {NoChild}
             /\ Terminate(ps, sig)[p].life = child[p].life
             /\ Terminate(ps, sig)[p].zone = child[p].zone
             /\ Terminate(ps, sig)[p].handler = child[p].handler
             /\ child[p].signal = "KILL" => Terminate(ps, sig)[p].signal = "KILL"
             /\ sig = "KILL" /\ p \in ps /\ child[p].life # "none"
                   => Terminate(ps, sig)[p].signal = "KILL"
             /\ sig = "TERM" /\ Terminate(ps, sig)[p].signal = "KILL"
                   => child[p].signal = "KILL"
  <2>1. CASE p \in ps /\ child[p].life # "none" /\ child[p].signal # "KILL"
    <3>1. Terminate(ps, sig)[p] = [child[p] EXCEPT !.signal = sig]
          BY <2>1 DEF Terminate
    <3>2. child[p] \in Children  BY <2>1 DEF NoChild
    <3> QED  BY <2>1, <3>1, <3>2 DEF Children
  <2>2. CASE ~(p \in ps /\ child[p].life # "none" /\ child[p].signal # "KILL")
    <3>1. Terminate(ps, sig)[p] = child[p]  BY <2>2 DEF Terminate
    <3> QED  BY <2>2, <3>1
  <2> QED  BY <2>1, <2>2
<1>2. Terminate(ps, sig) = [p \in Pids |-> Terminate(ps, sig)[p]]  BY DEF Terminate
<1> QED  BY <1>1, <1>2

\* SendStatus only ever tells about zones that exist.
LEMMA SendStatusType ==
    ASSUME reported \subseteq Zones, NEW z \in Zones, NEW up \in BOOLEAN
    PROVE  SendStatus(z, up) \subseteq Zones
BY DEF SendStatus

\* In the initial state nothing runs.
LEMMA InitInv == Init => LaunchInv
<1> SUFFICES ASSUME Init PROVE LaunchInv  OBVIOUS
<1>1. TypeOK
  <2>1. child \in [Pids -> Children \cup {NoChild}]  BY DEF Init
  <2>2. sigchld \in BOOLEAN /\ linked \in BOOLEAN  BY DEF Init
  <2>3. /\ killFails \in [Zones -> 0 .. MaxKillFails + 1]
        /\ ref \in [Zones -> {0} \cup Pids]
        /\ s_running \in Int /\ signalCount \in Nat /\ requests \in 0 .. MaxRequests
        BY DEF Init
  <2>4. /\ state \in [Zones -> {"None", "StartPending", "Stopped"} \cup Running]
        /\ timer \in [Zones -> {"disabled", "ticking", "due"}]
        /\ startTimer \in {"ticking", "due"}
        /\ phase \in {"events", "reap", "zones", "stopReap", "killReap", "exited", "crashed"}
        /\ todo \subseteq Zones /\ reported \subseteq Zones
        BY DEF Init
  <2> QED  BY <2>1, <2>2, <2>3, <2>4 DEF TypeOK
<1>2. RefInv  BY DEF Init, RefInv, IsRunning, Running
<1> QED  BY <1>1, <1>2 DEF LaunchInv

\* OnTerminate leaves every zone it touches not running, and the others alone.
LEMMA OnTerminateEffect ==
    ASSUME TypeOK, NEW z \in Zones, OnTerminate(z)
    PROVE  /\ state' \in [Zones -> {"None", "StartPending", "Stopped"} \cup Running]
           /\ timer' \in [Zones -> {"disabled", "ticking", "due"}]
           /\ reported' \subseteq Zones
           /\ phase' = phase
           /\ state'[z] \notin Running
           /\ \A y \in Zones : y # z => state'[y] = state[y] /\ timer'[y] = timer[y]
<1>1. reported' \subseteq Zones  BY SendStatusType DEF OnTerminate, TypeOK
<1>2. state' = [state EXCEPT ![z] = AfterTerminate(@)] /\ phase' = phase
      BY DEF OnTerminate
<1>3. AfterTerminate(state[z]) \in {"Stopped", "StartPending"}  BY DEF AfterTerminate
<1>4. timer' \in [Zones -> {"disabled", "ticking", "due"}]
      /\ \A y \in Zones : y # z => timer'[y] = timer[y]
      BY DEF OnTerminate, TypeOK
<1> QED  BY <1>1, <1>2, <1>3, <1>4 DEF TypeOK, Running

\* What ProcessTerminated does to the zones: none begins to run.
LEMMA ReapedEffect ==
    ASSUME TypeOK, NEW p \in Zombies, ProcessTerminated(p)
    PROVE  /\ state' \in [Zones -> {"None", "StartPending", "Stopped"} \cup Running]
           /\ timer' \in [Zones -> {"disabled", "ticking", "due"}]
           /\ reported' \subseteq Zones
           /\ phase' \in {phase, "crashed"}
           /\ \A y \in Zones : state'[y] \in Running => state'[y] = state[y] /\ timer'[y] = timer[y]
           /\ child[p].handler = "object" => state'[child[p].zone] \notin Running
<1>1. p \in Pids /\ child[p] \in Children  BY DEF Zombies, TypeOK, NoChild
<1>2. child[p].zone \in Zones /\ child[p].handler \in {"object", "freed"}  BY <1>1 DEF Children
<1>3. CASE child[p].handler = "object"
  <2>1. OnTerminate(child[p].zone)  BY <1>3 DEF ProcessTerminated
  <2> QED  BY <2>1, <1>2, OnTerminateEffect
<1>4. CASE child[p].handler = "freed"
  <2>1. OnTerminateFreed(child[p].zone)  BY <1>4 DEF ProcessTerminated
  <2>2. CASE reported' = SendStatus(child[p].zone, FALSE) /\ UNCHANGED <<state, timer, phase>>
    <3>1. reported' \subseteq Zones  BY <2>2, <1>2, SendStatusType DEF TypeOK
    <3> QED  BY <2>2, <3>1, <1>4 DEF TypeOK
  <2>3. ASSUME NEW other \in Zones, OnTerminate(other)
        PROVE  /\ state' \in [Zones -> {"None", "StartPending", "Stopped"} \cup Running]
               /\ timer' \in [Zones -> {"disabled", "ticking", "due"}]
               /\ reported' \subseteq Zones
               /\ phase' \in {phase, "crashed"}
               /\ \A y \in Zones : state'[y] \in Running =>
                     state'[y] = state[y] /\ timer'[y] = timer[y]
        BY <2>3, OnTerminateEffect
  <2>4. CASE phase' = "crashed" /\ UNCHANGED <<state, timer, reported>>
        BY <2>4, <1>4 DEF TypeOK
  <2> QED  BY <2>1, <2>2, <2>3, <2>4, <1>4 DEF OnTerminateFreed
<1> QED  BY <1>2, <1>3, <1>4

\* Stop of a set of zones with either signal.
LEMMA StopEffect ==
    ASSUME TypeOK, RefInv, NEW zs \in SUBSET Zones, NEW sig \in {"TERM", "KILL"}, Stop(zs, sig)
    PROVE  /\ state' \in [Zones -> {"None", "StartPending", "Stopped"} \cup Running]
           /\ timer' \in [Zones -> {"disabled", "ticking", "due"}]
           /\ child' \in [Pids -> Children \cup {NoChild}]
           /\ \A z \in Zones : state'[z] \in Running => IsRunning(z)
           /\ ref' = ref => \A z \in Zones : Holds(z) => Holds(z)'
<1>1. child' \in [Pids -> Children \cup {NoChild}]
      /\ \A p \in Pids : /\ child'[p].life = child[p].life
                          /\ child'[p].zone = child[p].zone
                          /\ child'[p].handler = child[p].handler
      BY TerminateKeeps DEF Stop, TypeOK
<1>2. /\ state' \in [Zones -> {"None", "StartPending", "Stopped"} \cup Running]
      /\ \A z \in Zones : state'[z] \in Running => IsRunning(z)
      BY DEF Stop, TypeOK, IsRunning, Running
<1>3. timer' \in [Zones -> {"disabled", "ticking", "due"}]  BY DEF Stop, TypeOK
<1>4. ASSUME ref' = ref, NEW z \in Zones, Holds(z) PROVE Holds(z)'
      BY <1>1, <1>4 DEF Holds
<1> QED  BY <1>1, <1>2, <1>3, <1>4

\* LaunchInv is inductive: one step per action.
LEMMA NextInv == LaunchInv /\ [Next]_vars => LaunchInv'
<1> SUFFICES ASSUME TypeOK, RefInv, [Next]_vars PROVE TypeOK' /\ RefInv'
    BY DEF LaunchInv
<1> USE DEF procVars, zoneVars
<1>1. ASSUME NEW z \in Zones, StartRequest(z) PROVE TypeOK' /\ RefInv'
  <2>1. TypeOK'  BY <1>1 DEF StartRequest, Asked, TypeOK
  <2>2. RefInv'  BY <1>1 DEF StartRequest, Asked, TypeOK, RefInv, Holds, IsRunning, Running
  <2> QED  BY <2>1, <2>2
<1>2. ASSUME NEW z \in Zones, RestartRequest(z) PROVE TypeOK' /\ RefInv'
  <2>1. child' \in [Pids -> Children \cup {NoChild}]
        /\ \A p \in Pids : /\ child'[p].life = child[p].life
                            /\ child'[p].zone = child[p].zone
                            /\ child'[p].handler = child[p].handler
        BY <1>2, TerminateKeeps DEF RestartRequest, TypeOK
  <2>2. /\ state[z] = "Started" /\ state' = [state EXCEPT ![z] = "RestartPending"]
        /\ timer' = [timer EXCEPT ![z] = "ticking"]
        /\ requests' = requests + 1 /\ requests < MaxRequests
        /\ UNCHANGED <<killFails, ref, startTimer, s_running, sigchld, signalCount,
                       phase, todo, linked, reported>>
        BY <1>2 DEF RestartRequest, Asked, AfterRestart
  <2>3. TypeOK'  BY <2>1, <2>2 DEF TypeOK, Running
  <2>4. \A y \in Zones : IsRunning(y)' => IsRunning(y)
        BY <2>2 DEF TypeOK, IsRunning, Running
  <2>5. RefInv'  BY <2>1, <2>2, <2>4 DEF RefInv, Holds
  <2> QED  BY <2>3, <2>5
<1>3. ASSUME NEW z \in Zones, StopRequest(z) PROVE TypeOK' /\ RefInv'
  <2>1. Stop({z}, "TERM") /\ ref' = ref /\ killFails' = killFails  BY <1>3 DEF StopRequest
  <2>2. TypeOK'  BY <1>3, <2>1, StopEffect DEF StopRequest, Asked, TypeOK
  <2>3. RefInv'  BY <2>1, StopEffect DEF RefInv, IsRunning
  <2> QED  BY <2>2, <2>3
<1>4. ASSUME LinkLost \/ OnConnected PROVE TypeOK' /\ RefInv'
      BY <1>4 DEF LinkLost, OnConnected, TypeOK, RefInv, Holds, IsRunning
<1>5. ASSUME NEW p \in Pids, Dies(p) PROVE TypeOK' /\ RefInv'
  <2>1. child[p] \in Children  BY <1>5 DEF Dies, TypeOK, NoChild
  <2>2. [child[p] EXCEPT !.life = "zombie"] \in Children  BY <2>1 DEF Children
  <2>3. child' \in [Pids -> Children \cup {NoChild}]  BY <1>5, <2>2 DEF Dies, TypeOK
  <2>4. TypeOK'  BY <1>5, <2>3 DEF Dies, TypeOK
  <2>5. \A q \in Pids : child'[q].zone = child[q].zone /\ child'[q].handler = child[q].handler
                        /\ (child[q].life # "none" => child'[q].life # "none")
        BY <1>5, <2>1 DEF Dies, TypeOK, Children
  <2>6. RefInv'  BY <1>5, <2>5 DEF Dies, RefInv, Holds, IsRunning
  <2> QED  BY <2>4, <2>6
<1>6. ASSUME HandleSigChild PROVE TypeOK' /\ RefInv'
  <2>1. signalCount' \in Nat /\ sigchld' = FALSE
        /\ UNCHANGED <<zoneVars, startTimer, s_running, child, phase, todo, linked, reported, requests>>
        BY <1>6 DEF HandleSigChild, TypeOK
  <2> QED  BY <2>1 DEF TypeOK, RefInv, Holds, IsRunning
<1>7. ASSUME NEW z \in Zones, TimerElapses(z) PROVE TypeOK' /\ RefInv'
      BY <1>7 DEF TimerElapses, TypeOK, RefInv, Holds, IsRunning
<1>8. ASSUME StartTimerElapses \/ TickBegins \/ TickEnds PROVE TypeOK' /\ RefInv'
      BY <1>8 DEF StartTimerElapses, TickBegins, TickEnds, TypeOK, RefInv, Holds, IsRunning
<1>9. ASSUME ReapAny PROVE TypeOK' /\ RefInv'
  <2>1. PICK at \in {"reap", "stopReap", "killReap"} : Reap(at)  BY <1>9 DEF ReapAny
  <2>2. signalCount' \in Nat  BY <2>1 DEF Reap, CountLeft, DeathsCounted, TypeOK
  <2>3. CASE Zombies = {}
        BY <2>1, <2>2, <2>3 DEF Reap, TypeOK, RefInv, Holds, IsRunning
  <2>4. ASSUME NEW p \in Zombies, ProcessTerminated(p) PROVE TypeOK' /\ RefInv'
    <3>1. p \in Pids /\ child[p] \in Children /\ child[p].zone \in Zones
          BY DEF Zombies, TypeOK, NoChild, Children
    <3>2. child' = [child EXCEPT ![p] = NoChild] /\ s_running' \in Int
          BY <2>4 DEF ProcessTerminated, CountDown, TypeOK
    <3>3. TypeOK'
          BY <2>1, <2>2, <2>4, <3>2, ReapedEffect DEF Reap, TypeOK
    <3>4. ASSUME NEW z \in Zones, state'[z] \in Running
          PROVE  Holds(z)' /\ killFails'[z] <= MaxKillFails
      <4>1. state'[z] = state[z]  BY <2>4, <3>4, ReapedEffect
      <4>2. Holds(z) /\ killFails[z] <= MaxKillFails  BY <3>4, <4>1 DEF RefInv, IsRunning
      <4>3. ref[z] # p  BY <2>4, <3>4, <4>2, ReapedEffect DEF Holds
      <4>4. ref' = ref /\ killFails' = killFails  BY <2>1 DEF Reap
      <4>5. child'[ref[z]] = child[ref[z]]  BY <3>2, <4>2, <4>3 DEF Holds, TypeOK
      <4> QED  BY <4>2, <4>4, <4>5 DEF Holds
    <3>5. RefInv'  BY <3>4 DEF RefInv, IsRunning
    <3> QED  BY <3>3, <3>5
  <2> QED  BY <2>1, <2>3, <2>4 DEF Reap
<1>10. ASSUME TickReaped PROVE TypeOK' /\ RefInv'
  <2>1. signalCount' \in Nat  BY <1>10 DEF TickReaped, Reaped, CountLeft, DeathsCounted, TypeOK
  <2> QED  BY <1>10, <2>1 DEF TickReaped, TypeOK, RefInv, Holds, IsRunning
<1>11. ASSUME NEW z \in Zones, ProcessZone(z) PROVE TypeOK' /\ RefInv'
  <2>1. todo' \subseteq Zones  /\ UNCHANGED <<sigchld, signalCount, phase, linked, requests>>
        BY <1>11 DEF ProcessZone, Launch, LaunchFails, RestartTimedOut, KillAgain, GiveUp,
                     Remove, KeepWaiting, Turn, TypeOK
  <2>2. CASE Launch(z)
    <3>1. PICK p \in Pids \ Unreaped :
            /\ child' = [child EXCEPT ![p] =
                  [life |-> "alive", zone |-> z, handler |-> "object", signal |-> "none"]]
            /\ ref' = [ref EXCEPT ![z] = p]
          BY <2>2 DEF Launch
    <3>2. p \in Pids /\ child[p].life = "none"  BY DEF Unreaped
    <3>3. [life |-> "alive", zone |-> z, handler |-> "object", signal |-> "none"] \in Children
          BY DEF Children
    <3>4. child' \in [Pids -> Children \cup {NoChild}]  BY <3>1, <3>2, <3>3 DEF TypeOK
    <3>5. reported' \subseteq Zones  BY <2>2, SendStatusType DEF Launch, TypeOK
    <3>6. TypeOK'
      <4>1. /\ state' = [state EXCEPT ![z] = "Started"]
            /\ timer' = [timer EXCEPT ![z] = "disabled"] /\ startTimer' = "ticking"
            /\ s_running' = s_running + 1 /\ killFails' = [killFails EXCEPT ![z] = 0]
            BY <2>2 DEF Launch
      <4>2. ref' \in [Zones -> {0} \cup Pids]  BY <3>1, <3>2 DEF TypeOK
      <4>3. killFails' \in [Zones -> 0 .. MaxKillFails + 1] /\ s_running' \in Int
            BY <4>1 DEF TypeOK
      <4>4. /\ state' \in [Zones -> {"None", "StartPending", "Stopped"} \cup Running]
            /\ timer' \in [Zones -> {"disabled", "ticking", "due"}]
            BY <4>1 DEF TypeOK, Running
      <4> QED  BY <2>1, <3>4, <3>5, <4>1, <4>2, <4>3, <4>4 DEF TypeOK
    <3>7. ASSUME NEW y \in Zones, IsRunning(y)' PROVE Holds(y)' /\ killFails'[y] <= MaxKillFails
      <4>1. CASE y = z
            BY <2>2, <3>1, <3>2, <4>1 DEF Launch, TypeOK, Holds
      <4>2. CASE y # z
        <5>1. Holds(y) /\ killFails[y] <= MaxKillFails
              BY <2>2, <3>7, <4>2 DEF Launch, RefInv, IsRunning, TypeOK
        <5>2. ref'[y] = ref[y] /\ ref[y] # p /\ killFails'[y] = killFails[y]
              BY <2>2, <3>1, <3>2, <4>2, <5>1 DEF Launch, TypeOK, Holds
        <5> QED  BY <3>1, <5>1, <5>2 DEF Holds, TypeOK
      <4> QED  BY <4>1, <4>2
    <3> QED  BY <3>6, <3>7 DEF RefInv
  <2>3. CASE LaunchFails(z)
        BY <2>1, <2>3 DEF LaunchFails, TypeOK, RefInv, Holds, IsRunning, Running
  <2>4. CASE RestartTimedOut(z) \/ KeepWaiting(z)
        BY <2>1, <2>4 DEF RestartTimedOut, KeepWaiting, TypeOK, RefInv, Holds, IsRunning
  <2>5. CASE KillAgain(z)
    <3>1. Stop({z}, "KILL") /\ ref' = ref  BY <2>5 DEF KillAgain, Insistent
    <3>2. killFails' \in [Zones -> 0 .. MaxKillFails + 1]
          /\ \A y \in Zones : killFails'[y] = killFails[y] \/ killFails'[y] <= MaxKillFails
          BY <2>5 DEF KillAgain, KillFailed, TypeOK
    <3>3. TypeOK'  BY <2>1, <2>5, <3>1, <3>2, StopEffect DEF KillAgain, TypeOK
    <3>4. RefInv'  BY <3>1, <3>2, StopEffect DEF RefInv, IsRunning
    <3> QED  BY <3>3, <3>4
  <2>6. CASE GiveUp(z)
    <3>1. reported' \subseteq Zones  BY <2>6, SendStatusType DEF GiveUp, TypeOK
    <3>2. killFails[z] <= MaxKillFails  BY <2>6 DEF GiveUp, RefInv, IsRunning, Running
    <3>3. killFails' \in [Zones -> 0 .. MaxKillFails + 1]
          /\ \A y \in Zones : y # z => killFails'[y] = killFails[y]
          BY <2>6, <3>2 DEF GiveUp, KillFailed, TypeOK
    <3>4. TypeOK'
      <4>1. /\ state' = [state EXCEPT ![z] = "Stopped"]
            /\ timer' = [timer EXCEPT ![z] = "ticking"]
            /\ s_running' = s_running - 1 /\ UNCHANGED <<ref, startTimer, child>>
            BY <2>6 DEF GiveUp
      <4>2. /\ state' \in [Zones -> {"None", "StartPending", "Stopped"} \cup Running]
            /\ timer' \in [Zones -> {"disabled", "ticking", "due"}]
            /\ s_running' \in Int
            BY <4>1 DEF TypeOK
      <4> QED  BY <2>1, <3>1, <3>3, <4>1, <4>2 DEF TypeOK
    <3>5. RefInv'  BY <2>6, <3>3 DEF GiveUp, TypeOK, RefInv, Holds, IsRunning, Running
    <3> QED  BY <3>4, <3>5
  <2>7. CASE Remove(z)
    <3>1. ASSUME NEW p \in Pids
          PROVE  /\ child'[p] \in Children \cup {NoChild}
                 /\ child'[p].life = child[p].life
                 /\ child'[p].zone = child[p].zone
                 /\ child[p].zone # z => child'[p].handler = child[p].handler
      <4>1. CASE child[p].handler = "object" /\ child[p].zone = z
        <5>1. child'[p] = [child[p] EXCEPT !.handler = "freed"]  BY <2>7, <4>1 DEF Remove
        <5>2. child[p] \in Children  BY <4>1 DEF TypeOK, NoChild
        <5> QED  BY <4>1, <5>1, <5>2 DEF Children
      <4>2. CASE ~(child[p].handler = "object" /\ child[p].zone = z)
        <5>1. child'[p] = child[p]  BY <2>7, <4>2 DEF Remove
        <5> QED  BY <5>1 DEF TypeOK
      <4> QED  BY <4>1, <4>2
    <3>2. child' \in [Pids -> Children \cup {NoChild}]  BY <2>7, <3>1 DEF Remove
    <3>3. TypeOK'  BY <2>1, <2>7, <3>2 DEF Remove, TypeOK
    <3>4. ASSUME NEW y \in Zones, IsRunning(y)' PROVE Holds(y)' /\ killFails'[y] <= MaxKillFails
      <4>1. y # z /\ IsRunning(y)  BY <2>7, <3>4 DEF Remove, TypeOK, IsRunning, Running
      <4> QED  BY <2>7, <3>1, <4>1 DEF Remove, RefInv, Holds
    <3> QED  BY <3>3, <3>4 DEF RefInv
  <2> QED  BY <1>11, <2>2, <2>3, <2>4, <2>5, <2>6, <2>7 DEF ProcessZone
<1>12. ASSUME LoopEnds PROVE TypeOK' /\ RefInv'
  <2>1. Stop(Zones, "TERM") /\ ref' = ref /\ killFails' = killFails  BY <1>12 DEF LoopEnds
  <2>2. TypeOK'  BY <1>12, <2>1, StopEffect DEF LoopEnds, TypeOK
  <2>3. RefInv'  BY <2>1, StopEffect DEF RefInv, IsRunning
  <2> QED  BY <2>2, <2>3
<1>13. ASSUME TerminateAll PROVE TypeOK' /\ RefInv'
  <2>1. signalCount' \in Nat
        BY <1>13 DEF TerminateAll, Reaped, CountLeft, DeathsCounted, TypeOK
  <2>2. child' \in [Pids -> Children \cup {NoChild}]
        /\ \A p \in Pids : /\ child'[p].life = child[p].life
                            /\ child'[p].zone = child[p].zone
                            /\ child'[p].handler = child[p].handler
        BY <1>13, TerminateKeeps DEF TerminateAll, TypeOK
  <2> QED  BY <1>13, <2>1, <2>2 DEF TerminateAll, TypeOK, RefInv, Holds, IsRunning
<1>14. ASSUME Exit PROVE TypeOK' /\ RefInv'
  <2>1. signalCount' \in Nat  BY <1>14 DEF Exit, Reaped, CountLeft, DeathsCounted, TypeOK
  <2> QED  BY <1>14, <2>1 DEF Exit, TypeOK, RefInv, Holds, IsRunning
<1>15. CASE UNCHANGED vars
       BY <1>15 DEF vars, TypeOK, RefInv, Holds, IsRunning
<1> QED  BY <1>1, <1>2, <1>3, <1>4, <1>5, <1>6, <1>7, <1>8, <1>9, <1>10, <1>11, <1>12,
            <1>13, <1>14, <1>15 DEF Next, LoopStep, Events

\* LaunchInv holds in every reachable state.
THEOREM LaunchInvariant == Spec => []LaunchInv
BY InitInv, NextInv, PTL DEF Spec

(***************************************************************************)
(* The variables of the launcher keep their types in every environment;    *)
(* above all m_killFails and m_signalCount stay in range.                  *)
(***************************************************************************)
THEOREM TypeCorrect == Spec => []TypeOK
BY LaunchInvariant, PTL DEF LaunchInv

(***************************************************************************)
(* Restart and Stop always find the process of a running zone in m_running *)
(* whatever signals merge, however late children die and wherever a call   *)
(* through a freed handler lands.                                          *)
(***************************************************************************)
THEOREM SignalsReachTheChild == Spec => []RefNotReaped
<1>1. LaunchInv => RefNotReaped
      BY DEF LaunchInv, RefInv, Holds, RefNotReaped, Unreaped
<1> QED  BY LaunchInvariant, <1>1, PTL

-----------------------------------------------------------------------------
(***************************************************************************)
(* Where no stop times out on a dead or killed child, a stop that timed    *)
(* out once sent SIGKILL and never times out again: GiveUp is out of reach *)
(* and a ZoneLaunch outlives its process.                                  *)
(***************************************************************************)
OwnedInv == \A p \in Pids : child[p].life # "none" =>
    IsRunning(child[p].zone) /\ ref[child[p].zone] = p

KilledOnceInv == \A z \in Zones :
    /\ state[z] \in {"Started", "RestartPending"} => killFails[z] = 0
    /\ state[z] = "StopPending" /\ killFails[z] > 0 => child[ref[z]].signal = "KILL"
    /\ state[z] = "StopPending" /\ child[ref[z]].signal = "KILL" => timer[z] = "ticking"

PromptInv == OwnedInv /\ KilledOnceInv

\* Stop keeps PromptInv: it restarts the timer of every zone it signals.
LEMMA StopKeepsPrompt ==
    ASSUME TypeOK, RefInv, PromptInv, NEW zs \in SUBSET Zones, NEW sig \in {"TERM", "KILL"},
           Stop(zs, sig), ref' = ref,
           \A z \in Zones : killFails'[z] = killFails[z]
               \/ (sig = "KILL" /\ z \in zs /\ state[z] = "StopPending")
    PROVE  PromptInv'
<1>1. \A p \in Pids : /\ child'[p].life = child[p].life
                      /\ child'[p].zone = child[p].zone
                      /\ child[p].signal = "KILL" => child'[p].signal = "KILL"
                      /\ sig = "KILL" /\ p \in {ref[z] : z \in {y \in zs : IsRunning(y)}}
                            /\ child[p].life # "none" => child'[p].signal = "KILL"
                      /\ sig = "TERM" /\ child'[p].signal = "KILL" => child[p].signal = "KILL"
                      /\ p \notin {ref[z] : z \in {y \in zs : IsRunning(y)}}
                            => child'[p] = child[p]
      BY TerminateKeeps DEF Stop, TypeOK, Terminate
<1>2. \A z \in Zones :
        /\ IsRunning(z) /\ z \in zs => state'[z] = "StopPending" /\ timer'[z] = "ticking"
        /\ ~(IsRunning(z) /\ z \in zs) => timer'[z] = timer[z]
        /\ IsRunning(z) /\ z \notin zs => state'[z] = state[z]
        /\ ~IsRunning(z) => state'[z] \notin Running
      BY DEF Stop, IsRunning, Running
<1>3. OwnedInv'
  <2> SUFFICES ASSUME NEW p \in Pids, child'[p].life # "none"
               PROVE  state'[child'[p].zone] \in Running /\ ref'[child'[p].zone] = p
      BY DEF OwnedInv, IsRunning
  <2>1. child[p].zone \in Zones  BY <1>1 DEF TypeOK, NoChild, Children
  <2>2. IsRunning(child[p].zone) /\ ref[child[p].zone] = p  BY <1>1 DEF PromptInv, OwnedInv
  <2> QED  BY <1>1, <1>2, <2>1, <2>2 DEF IsRunning, Running
<1>4. KilledOnceInv'
  <2> SUFFICES ASSUME NEW z \in Zones
               PROVE  /\ state'[z] \in {"Started", "RestartPending"} => killFails'[z] = 0
                      /\ state'[z] = "StopPending" /\ killFails'[z] > 0
                            => child'[ref[z]].signal = "KILL"
                      /\ state'[z] = "StopPending" /\ child'[ref[z]].signal = "KILL"
                            => timer'[z] = "ticking"
      BY DEF KilledOnceInv
  <2>1. CASE ~IsRunning(z)  BY <1>2, <2>1 DEF Running
  <2>2. CASE IsRunning(z) /\ z \in zs
    <3>1. Holds(z)  BY <2>2 DEF RefInv
    <3>2. state'[z] = "StopPending" /\ timer'[z] = "ticking"  BY <1>2, <2>2
    <3>3. sig = "KILL" => child'[ref[z]].signal = "KILL"  BY <1>1, <2>2, <3>1 DEF Holds
    <3>4. killFails[z] > 0 => child[ref[z]].signal = "KILL"
          BY <2>2 DEF PromptInv, KilledOnceInv, IsRunning, Running, TypeOK
    <3>5. killFails'[z] > 0 => child'[ref[z]].signal = "KILL"
          BY <1>1, <3>1, <3>3, <3>4 DEF Holds
    <3> QED  BY <3>2, <3>5
  <2>3. CASE IsRunning(z) /\ z \notin zs
    <3>1. Holds(z)  BY <2>3 DEF RefInv
    <3>2. ref[z] \notin {ref[y] : y \in {x \in zs : IsRunning(x)}}
          BY <2>3, <3>1 DEF RefInv, Holds
    <3>3. child'[ref[z]] = child[ref[z]]  BY <1>1, <3>1, <3>2 DEF Holds
    <3> QED  BY <1>2, <2>3, <3>3 DEF PromptInv, KilledOnceInv
  <2> QED  BY <2>1, <2>2, <2>3
<1> QED  BY <1>3, <1>4 DEF PromptInv

\* PromptInv is inductive next to LaunchInv.
LEMMA NextPrompt ==
    ASSUME ~SlowKill, MaxKillFails >= 1, TypeOK, RefInv, PromptInv, [Next]_vars
    PROVE  PromptInv'
<1> USE DEF procVars, zoneVars
<1>1. ASSUME NEW z \in Zones, StartRequest(z) PROVE PromptInv'
      BY <1>1 DEF StartRequest, TypeOK, PromptInv, OwnedInv, KilledOnceInv, IsRunning, Running
<1>2. ASSUME NEW z \in Zones, RestartRequest(z) PROVE PromptInv'
  <2>1. \A p \in Pids : /\ child'[p].life = child[p].life
                        /\ child'[p].zone = child[p].zone
        BY <1>2, TerminateKeeps DEF RestartRequest, TypeOK
  <2>2. \A p \in Pids : p # ref[z] => child'[p] = child[p]
        BY <1>2 DEF RestartRequest, Terminate
  <2>3. /\ state[z] = "Started" /\ state' = [state EXCEPT ![z] = "RestartPending"]
        /\ timer' = [timer EXCEPT ![z] = "ticking"]
        /\ UNCHANGED <<killFails, ref>>
        BY <1>2 DEF RestartRequest, AfterRestart
  <2>4. OwnedInv'
        BY <2>1, <2>3 DEF TypeOK, PromptInv, OwnedInv, IsRunning, Running
  <2>5. ASSUME NEW y \in Zones, y # z, state[y] = "StopPending" PROVE child'[ref[y]] = child[ref[y]]
        BY <2>2, <2>3, <2>5 DEF RefInv, Holds, IsRunning, Running
  <2>6. KilledOnceInv'
        BY <2>3, <2>5 DEF TypeOK, PromptInv, KilledOnceInv
  <2> QED  BY <2>4, <2>6 DEF PromptInv
<1>3. ASSUME NEW z \in Zones, StopRequest(z) PROVE PromptInv'
      BY <1>3, StopKeepsPrompt DEF StopRequest
<1>4. ASSUME LinkLost \/ OnConnected PROVE PromptInv'
      BY <1>4 DEF LinkLost, OnConnected, PromptInv, OwnedInv, KilledOnceInv, IsRunning
<1>5. ASSUME NEW p \in Pids, Dies(p) PROVE PromptInv'
  <2>1. child[p] \in Children  BY <1>5 DEF Dies, TypeOK, NoChild
  <2>2. \A q \in Pids : child'[q].zone = child[q].zone /\ child'[q].signal = child[q].signal
                        /\ (child'[q].life # "none" => child[q].life # "none")
        BY <1>5, <2>1 DEF Dies, TypeOK, Children
  <2>3. OwnedInv'  BY <1>5, <2>2 DEF Dies, PromptInv, OwnedInv, IsRunning
  <2>4. \A z \in Zones : state[z] = "StopPending" => ref[z] \in Pids
        BY DEF RefInv, Holds, IsRunning, Running
  <2>5. KilledOnceInv'  BY <1>5, <2>2, <2>4 DEF Dies, PromptInv, KilledOnceInv
  <2> QED  BY <2>3, <2>5 DEF PromptInv
<1>6. ASSUME HandleSigChild PROVE PromptInv'
      BY <1>6 DEF HandleSigChild, PromptInv, OwnedInv, KilledOnceInv, IsRunning
<1>7. ASSUME NEW z \in Zones, TimerElapses(z) PROVE PromptInv'
  <2>1. state[z] = "StopPending" => child[ref[z]].signal # "KILL"  BY <1>7 DEF TimerElapses
  <2>2. timer' = [timer EXCEPT ![z] = "due"] /\ UNCHANGED <<state, killFails, ref, child>>
        BY <1>7 DEF TimerElapses
  <2>3. OwnedInv'  BY <2>2 DEF PromptInv, OwnedInv, IsRunning
  <2>4. KilledOnceInv'  BY <2>1, <2>2 DEF PromptInv, KilledOnceInv, TypeOK
  <2> QED  BY <2>3, <2>4 DEF PromptInv
<1>8. ASSUME StartTimerElapses \/ TickBegins \/ TickEnds PROVE PromptInv'
      BY <1>8 DEF StartTimerElapses, TickBegins, TickEnds, PromptInv, OwnedInv, KilledOnceInv, IsRunning
<1>9. ASSUME ReapAny PROVE PromptInv'
  <2>1. PICK at \in {"reap", "stopReap", "killReap"} : Reap(at)  BY <1>9 DEF ReapAny
  <2>2. ref' = ref /\ killFails' = killFails  BY <2>1 DEF Reap
  <2>3. CASE Zombies = {}
        BY <2>1, <2>3 DEF Reap, PromptInv, OwnedInv, KilledOnceInv, IsRunning
  <2>4. ASSUME NEW p \in Zombies, ProcessTerminated(p) PROVE PromptInv'
    <3>1. p \in Pids /\ child[p] \in Children /\ child[p].life # "none" /\ child[p].zone \in Zones
          BY DEF Zombies, TypeOK, NoChild, Children
    <3>2. IsRunning(child[p].zone) /\ ref[child[p].zone] = p
          BY <3>1 DEF PromptInv, OwnedInv
    <3>3. child[p].handler = "object"  BY <3>2, <3>1 DEF RefInv, Holds
    <3>4. child' = [child EXCEPT ![p] = NoChild]  BY <2>4 DEF ProcessTerminated
    <3>5. OnTerminate(child[p].zone)  BY <2>4, <3>3 DEF ProcessTerminated
    <3>6. /\ state'[child[p].zone] \notin Running
          /\ \A y \in Zones : y # child[p].zone => state'[y] = state[y] /\ timer'[y] = timer[y]
          BY <3>1, <3>5, OnTerminateEffect
    <3>7. OwnedInv'
      <4> SUFFICES ASSUME NEW q \in Pids, child'[q].life # "none"
                   PROVE  state'[child'[q].zone] \in Running /\ ref'[child'[q].zone] = q
          BY <2>2 DEF OwnedInv, IsRunning
      <4>1. q # p /\ child'[q] = child[q]  BY <3>1, <3>4 DEF TypeOK, NoChild
      <4>2. IsRunning(child[q].zone) /\ ref[child[q].zone] = q  BY <4>1 DEF PromptInv, OwnedInv
      <4>3. child[q].zone \in Zones  BY <4>1 DEF TypeOK, NoChild, Children
      <4>4. child[q].zone # child[p].zone  BY <3>2, <4>1, <4>2
      <4> QED  BY <2>2, <3>6, <4>1, <4>2, <4>3, <4>4 DEF IsRunning
    <3>8. KilledOnceInv'
      <4> SUFFICES ASSUME NEW z \in Zones, state'[z] \in Running
                   PROVE  /\ state'[z] \in {"Started", "RestartPending"} => killFails[z] = 0
                          /\ state'[z] = "StopPending" /\ killFails[z] > 0
                                => child'[ref[z]].signal = "KILL"
                          /\ state'[z] = "StopPending" /\ child'[ref[z]].signal = "KILL"
                                => timer'[z] = "ticking"
          BY <2>2 DEF KilledOnceInv, Running
      <4>1. z # child[p].zone /\ state'[z] = state[z] /\ timer'[z] = timer[z]  BY <3>6
      <4>2. Holds(z)  BY <4>1 DEF RefInv, IsRunning
      <4>3. ref[z] # p  BY <4>1, <4>2 DEF Holds
      <4>4. child'[ref[z]] = child[ref[z]]  BY <3>4, <4>2, <4>3 DEF Holds, TypeOK
      <4> QED  BY <4>1, <4>4 DEF PromptInv, KilledOnceInv
    <3> QED  BY <3>7, <3>8 DEF PromptInv
  <2> QED  BY <2>1, <2>3, <2>4 DEF Reap
<1>10. ASSUME TickReaped \/ Exit PROVE PromptInv'
       BY <1>10 DEF TickReaped, Exit, PromptInv, OwnedInv, KilledOnceInv, IsRunning
<1>11. ASSUME NEW z \in Zones, ProcessZone(z) PROVE PromptInv'
  <2>2. CASE Launch(z)
    <3>1. PICK p \in Pids \ Unreaped :
            /\ child' = [child EXCEPT ![p] =
                  [life |-> "alive", zone |-> z, handler |-> "object", signal |-> "none"]]
            /\ ref' = [ref EXCEPT ![z] = p]
          BY <2>2 DEF Launch
    <3>2. p \in Pids /\ child[p].life = "none"  BY DEF Unreaped
    <3>3. /\ state[z] = "StartPending" /\ state' = [state EXCEPT ![z] = "Started"]
          /\ killFails' = [killFails EXCEPT ![z] = 0]
          /\ timer' = [timer EXCEPT ![z] = "disabled"]
          BY <2>2 DEF Launch
    <3>4. OwnedInv'
      <4> SUFFICES ASSUME NEW q \in Pids, child'[q].life # "none"
                   PROVE  state'[child'[q].zone] \in Running /\ ref'[child'[q].zone] = q
          BY DEF OwnedInv, IsRunning
      <4>1. CASE q = p  BY <3>1, <3>2, <3>3, <4>1 DEF TypeOK, IsRunning, Running
      <4>2. CASE q # p
        <5>1. child'[q] = child[q]  BY <3>1, <4>2 DEF TypeOK
        <5>2. IsRunning(child[q].zone) /\ ref[child[q].zone] = q
              BY <5>1 DEF PromptInv, OwnedInv
        <5>3. child[q].zone \in Zones  BY <5>1 DEF TypeOK, NoChild, Children
        <5>4. child[q].zone # z  BY <3>3, <5>2 DEF IsRunning, Running
        <5> QED  BY <3>1, <3>3, <5>1, <5>2, <5>3, <5>4 DEF TypeOK, IsRunning
      <4> QED  BY <4>1, <4>2
    <3>5. KilledOnceInv'
      <4>1. ASSUME NEW y \in Zones, y # z, state[y] = "StopPending"
            PROVE  ref'[y] = ref[y] /\ child'[ref[y]] = child[ref[y]]
        <5>1. Holds(y)  BY <4>1 DEF RefInv, IsRunning, Running
        <5> QED  BY <3>1, <3>2, <4>1, <5>1 DEF Holds, TypeOK
      <4> QED  BY <3>3, <4>1 DEF PromptInv, KilledOnceInv, TypeOK
    <3> QED  BY <3>4, <3>5 DEF PromptInv
  <2>3. CASE LaunchFails(z)
    <3>1. /\ state[z] = "StartPending" /\ UNCHANGED <<state, killFails, child>>
          /\ \A y \in Zones : y # z => ref'[y] = ref[y] /\ timer'[y] = timer[y]
          BY <2>3 DEF LaunchFails, TypeOK
    <3>2. \A p \in Pids : child[p].life # "none" => child[p].zone # z /\ child[p].zone \in Zones
          BY <3>1 DEF PromptInv, OwnedInv, IsRunning, Running, TypeOK, NoChild, Children
    <3>3. OwnedInv'  BY <3>1, <3>2 DEF PromptInv, OwnedInv, IsRunning
    <3>4. KilledOnceInv'  BY <3>1 DEF PromptInv, KilledOnceInv
    <3> QED  BY <3>3, <3>4 DEF PromptInv
  <2>4. CASE RestartTimedOut(z)
    <3>1. /\ UNCHANGED <<state, killFails, ref, child>> /\ state[z] = "RestartPending"
          /\ \A y \in Zones : y # z => timer'[y] = timer[y]
          BY <2>4 DEF RestartTimedOut, TypeOK
    <3> QED  BY <3>1 DEF PromptInv, OwnedInv, KilledOnceInv, IsRunning
  <2>5. CASE KillAgain(z)
    <3>1. Stop({z}, "KILL") /\ ref' = ref /\ state[z] = "StopPending"
          /\ \A y \in Zones : y # z => killFails'[y] = killFails[y]
          BY <2>5 DEF KillAgain, Insistent, TypeOK
    <3> QED  BY <3>1, StopKeepsPrompt
  <2>6. CASE GiveUp(z)
    <3>1. state[z] = "StopPending" /\ timer[z] = "due" /\ killFails[z] + 1 > MaxKillFails
          BY <2>6 DEF GiveUp, KillFailed
    <3>2. killFails[z] > 0  BY <3>1 DEF TypeOK
    <3> QED  BY <3>1, <3>2 DEF PromptInv, KilledOnceInv
  <2>7. CASE Remove(z)
    <3>1. \A p \in Pids : child[p].life # "none" => child[p].zone # z
          BY <2>7 DEF Remove, PromptInv, OwnedInv, IsRunning, Running
    <3>2. ASSUME NEW p \in Pids PROVE child'[p] = child[p]
      <4>1. child[p].handler = "object" => child[p].life # "none"  BY DEF TypeOK, NoChild, Children
      <4> QED  BY <2>7, <3>1, <4>1 DEF Remove
    <3>3. /\ state[z] = "Stopped" /\ state' = [state EXCEPT ![z] = "None"]
          /\ timer' = [timer EXCEPT ![z] = "disabled"] /\ UNCHANGED <<killFails, ref>>
          BY <2>7 DEF Remove
    <3>4. OwnedInv'
          BY <3>1, <3>2, <3>3 DEF PromptInv, OwnedInv, IsRunning, Running, TypeOK
    <3>5. \A y \in Zones : state[y] = "StopPending" => child'[ref[y]] = child[ref[y]]
          BY <3>2 DEF RefInv, Holds, IsRunning, Running
    <3>6. KilledOnceInv'  BY <3>3, <3>5 DEF PromptInv, KilledOnceInv, TypeOK
    <3> QED  BY <3>4, <3>6 DEF PromptInv
  <2>8. CASE KeepWaiting(z)
        BY <2>8 DEF KeepWaiting, PromptInv, OwnedInv, KilledOnceInv, IsRunning
  <2> QED  BY <1>11, <2>2, <2>3, <2>4, <2>5, <2>6, <2>7, <2>8 DEF ProcessZone
<1>12. ASSUME LoopEnds PROVE PromptInv'
       BY <1>12, StopKeepsPrompt DEF LoopEnds
<1>13. ASSUME TerminateAll PROVE PromptInv'
  <2>1. \A p \in Pids : /\ child'[p].life = child[p].life
                        /\ child'[p].zone = child[p].zone
                        /\ child'[p].signal = "KILL" <=> child[p].signal = "KILL"
        BY <1>13, TerminateKeeps DEF TerminateAll, TypeOK
  <2>2. UNCHANGED zoneVars  BY <1>13 DEF TerminateAll
  <2>3. \A y \in Zones : state[y] = "StopPending" => ref[y] \in Pids
        BY DEF RefInv, Holds, IsRunning, Running
  <2>4. OwnedInv'  BY <2>1, <2>2 DEF PromptInv, OwnedInv, IsRunning
  <2>5. KilledOnceInv'  BY <2>1, <2>2, <2>3 DEF PromptInv, KilledOnceInv
  <2> QED  BY <2>4, <2>5 DEF PromptInv
<1>14. CASE UNCHANGED vars
       BY <1>14 DEF vars, PromptInv, OwnedInv, KilledOnceInv, IsRunning
<1> QED  BY <1>1, <1>2, <1>3, <1>4, <1>5, <1>6, <1>7, <1>8, <1>9, <1>10, <1>11, <1>12,
            <1>13, <1>14 DEF Next, LoopStep, Events

(***************************************************************************)
(* Where dead children are reaped before their stop times out (and a stop  *)
(* may time out at least once), two processes never run the same zone, for *)
(* any number of zones, requests, crashes and failed forks.                *)
(***************************************************************************)
THEOREM OneProcess ==
    ASSUME ~SlowKill, MaxKillFails >= 1
    PROVE  Spec => []OneProcessPerZone
<1>1. Init => PromptInv
      BY DEF Init, PromptInv, OwnedInv, KilledOnceInv, NoChild
<1>2. LaunchInv /\ PromptInv /\ [Next]_vars => PromptInv'
      BY NextPrompt DEF LaunchInv
<1>3. PromptInv => OneProcessPerZone
      BY DEF PromptInv, OwnedInv, OneProcessPerZone, Unreaped
<1> QED  BY LaunchInvariant, <1>1, <1>2, <1>3, PTL DEF Spec
-----------------------------------------------------------------------------
(***************************************************************************)
(* The order of the signals, in every environment: a zone that starts has  *)
(* m_killFails 0, and the timeout that counts it up sends SIGKILL, so a    *)
(* stop that has timed out once has a killed child, whatever happens to    *)
(* that child, to the other zones or to a freed handler in between.        *)
(***************************************************************************)
KilledFirst == \A z \in Zones :
    /\ state[z] \in {"Started", "RestartPending"} => killFails[z] = 0
    /\ state[z] = "StopPending" /\ killFails[z] > 0 => child[ref[z]].signal = "KILL"

\* Stop keeps KilledFirst: its SIGTERM never weakens a SIGKILL.
LEMMA StopKeepsKilled ==
    ASSUME TypeOK, RefInv, KilledFirst, NEW zs \in SUBSET Zones, NEW sig \in {"TERM", "KILL"},
           Stop(zs, sig), ref' = ref,
           \A z \in Zones : killFails'[z] = killFails[z]
               \/ (sig = "KILL" /\ z \in zs /\ state[z] = "StopPending")
    PROVE  KilledFirst'
<1>1. \A p \in Pids : /\ child[p].signal = "KILL" => child'[p].signal = "KILL"
                      /\ sig = "KILL" /\ p \in {ref[z] : z \in {y \in zs : IsRunning(y)}}
                            /\ child[p].life # "none" => child'[p].signal = "KILL"
      BY TerminateKeeps DEF Stop, TypeOK
<1>2. \A z \in Zones :
        /\ IsRunning(z) /\ z \in zs => state'[z] = "StopPending"
        /\ IsRunning(z) /\ z \notin zs => state'[z] = state[z]
        /\ ~IsRunning(z) => state'[z] \notin Running
      BY DEF Stop, IsRunning, Running
<1> SUFFICES ASSUME NEW z \in Zones
             PROVE  /\ state'[z] \in {"Started", "RestartPending"} => killFails'[z] = 0
                    /\ state'[z] = "StopPending" /\ killFails'[z] > 0
                          => child'[ref[z]].signal = "KILL"
    BY DEF KilledFirst
<1>3. CASE ~IsRunning(z)  BY <1>2, <1>3 DEF Running
<1>4. CASE IsRunning(z)
  <2>1. Holds(z)  BY <1>4 DEF RefInv
  <2>2. killFails[z] > 0 => child[ref[z]].signal = "KILL"
        BY <1>4 DEF KilledFirst, IsRunning, Running, TypeOK
  <2>3. CASE z \in zs
    <3>1. state'[z] = "StopPending"  BY <1>2, <1>4, <2>3
    <3>2. sig = "KILL" => child'[ref[z]].signal = "KILL"
          BY <1>1, <1>4, <2>1, <2>3 DEF Holds
    <3> QED  BY <1>1, <2>1, <2>2, <3>1, <3>2 DEF Holds
  <2>4. CASE z \notin zs
    <3>1. state'[z] = state[z] /\ killFails'[z] = killFails[z]  BY <1>2, <1>4, <2>4
    <3> QED  BY <1>1, <2>1, <2>2, <3>1 DEF Holds, KilledFirst
  <2> QED  BY <2>3, <2>4
<1> QED  BY <1>3, <1>4

\* KilledFirst is inductive next to LaunchInv: one step per action.
LEMMA NextKilled ==
    ASSUME TypeOK, RefInv, KilledFirst, [Next]_vars
    PROVE  KilledFirst'
<1> USE DEF procVars, zoneVars
<1>1. ASSUME NEW z \in Zones, StartRequest(z) PROVE KilledFirst'
      BY <1>1 DEF StartRequest, TypeOK, KilledFirst
<1>2. ASSUME NEW z \in Zones, RestartRequest(z) PROVE KilledFirst'
  <2>1. \A p \in Pids : child[p].signal = "KILL" => child'[p].signal = "KILL"
        BY <1>2, TerminateKeeps DEF RestartRequest, TypeOK
  <2>2. /\ state[z] = "Started" /\ state' = [state EXCEPT ![z] = "RestartPending"]
        /\ UNCHANGED <<killFails, ref>>
        BY <1>2 DEF RestartRequest, AfterRestart
  <2>3. \A y \in Zones : state[y] = "StopPending" => ref[y] \in Pids
        BY DEF RefInv, Holds, IsRunning, Running
  <2> QED  BY <2>1, <2>2, <2>3 DEF TypeOK, KilledFirst
<1>3. ASSUME NEW z \in Zones, StopRequest(z) PROVE KilledFirst'
      BY <1>3, StopKeepsKilled DEF StopRequest
<1>4. ASSUME LinkLost \/ OnConnected \/ HandleSigChild \/ StartTimerElapses \/ TickBegins
             \/ TickEnds \/ TickReaped \/ Exit \/ UNCHANGED vars
      PROVE  KilledFirst'
      BY <1>4 DEF LinkLost, OnConnected, HandleSigChild, StartTimerElapses, TickBegins, TickEnds,
                  TickReaped, Exit, vars, KilledFirst
<1>5. ASSUME NEW p \in Pids, Dies(p) PROVE KilledFirst'
  <2>1. child[p] \in Children  BY <1>5 DEF Dies, TypeOK, NoChild
  <2>2. \A q \in Pids : child'[q].signal = child[q].signal
        BY <1>5, <2>1 DEF Dies, TypeOK, Children
  <2>3. \A z \in Zones : state[z] = "StopPending" => ref[z] \in Pids
        BY DEF RefInv, Holds, IsRunning, Running
  <2> QED  BY <1>5, <2>2, <2>3 DEF Dies, KilledFirst
<1>6. ASSUME NEW z \in Zones, TimerElapses(z) PROVE KilledFirst'
      BY <1>6 DEF TimerElapses, KilledFirst
<1>7. ASSUME ReapAny PROVE KilledFirst'
  <2>1. PICK at \in {"reap", "stopReap", "killReap"} : Reap(at)  BY <1>7 DEF ReapAny
  <2>2. ref' = ref /\ killFails' = killFails  BY <2>1 DEF Reap
  <2>3. CASE Zombies = {}  BY <2>1, <2>3 DEF Reap, KilledFirst
  <2>4. ASSUME NEW p \in Zombies, ProcessTerminated(p) PROVE KilledFirst'
    <3>1. child' = [child EXCEPT ![p] = NoChild]  BY <2>4 DEF ProcessTerminated
    <3>2. ASSUME NEW z \in Zones, state'[z] \in Running
          PROVE  state'[z] = state[z] /\ child'[ref[z]] = child[ref[z]]
      <4>1. state'[z] = state[z]  BY <2>4, <3>2, ReapedEffect
      <4>2. Holds(z)  BY <3>2, <4>1 DEF RefInv, IsRunning
      <4>3. ref[z] # p  BY <2>4, <3>2, <4>2, ReapedEffect DEF Holds
      <4> QED  BY <3>1, <4>1, <4>2, <4>3 DEF Holds, TypeOK
    <3> QED  BY <2>2, <3>2 DEF KilledFirst, Running
  <2> QED  BY <2>1, <2>3, <2>4 DEF Reap
<1>8. ASSUME NEW z \in Zones, ProcessZone(z) PROVE KilledFirst'
  <2>1. CASE Launch(z)
    <3>1. PICK p \in Pids \ Unreaped :
            /\ child' = [child EXCEPT ![p] =
                  [life |-> "alive", zone |-> z, handler |-> "object", signal |-> "none"]]
            /\ ref' = [ref EXCEPT ![z] = p]
          BY <2>1 DEF Launch
    <3>2. p \in Pids /\ child[p].life = "none"  BY DEF Unreaped
    <3>3. /\ state' = [state EXCEPT ![z] = "Started"]
          /\ killFails' = [killFails EXCEPT ![z] = 0]
          BY <2>1 DEF Launch
    <3>4. ASSUME NEW y \in Zones, y # z, state[y] = "StopPending"
          PROVE  ref'[y] = ref[y] /\ child'[ref[y]] = child[ref[y]]
      <4>1. Holds(y)  BY <3>4 DEF RefInv, IsRunning, Running
      <4> QED  BY <3>1, <3>2, <3>4, <4>1 DEF Holds, TypeOK
    <3> QED  BY <3>3, <3>4 DEF KilledFirst, TypeOK
  <2>2. CASE LaunchFails(z)
        BY <2>2 DEF LaunchFails, TypeOK, KilledFirst
  <2>3. CASE RestartTimedOut(z) \/ KeepWaiting(z)
        BY <2>3 DEF RestartTimedOut, KeepWaiting, KilledFirst
  <2>4. CASE KillAgain(z)
    <3>1. Stop({z}, "KILL") /\ ref' = ref /\ state[z] = "StopPending"
          /\ \A y \in Zones : y # z => killFails'[y] = killFails[y]
          BY <2>4 DEF KillAgain, Insistent, TypeOK
    <3> QED  BY <3>1, StopKeepsKilled
  <2>5. CASE GiveUp(z)
    <3>1. /\ state' = [state EXCEPT ![z] = "Stopped"]
          /\ \A y \in Zones : y # z => killFails'[y] = killFails[y]
          /\ UNCHANGED <<ref, child>>
          BY <2>5 DEF GiveUp, TypeOK
    <3> QED  BY <3>1 DEF KilledFirst, TypeOK
  <2>6. CASE Remove(z)
    <3>1. state' = [state EXCEPT ![z] = "None"] /\ UNCHANGED <<killFails, ref>>
          BY <2>6 DEF Remove
    <3>2. ASSUME NEW p \in Pids PROVE child'[p].signal = child[p].signal
      <4>1. CASE child[p].handler = "object" /\ child[p].zone = z
        <5>1. child'[p] = [child[p] EXCEPT !.handler = "freed"]  BY <2>6, <4>1 DEF Remove
        <5>2. child[p] \in Children  BY <4>1 DEF TypeOK, NoChild
        <5> QED  BY <5>1, <5>2 DEF Children
      <4>2. CASE ~(child[p].handler = "object" /\ child[p].zone = z)
            BY <2>6, <4>2 DEF Remove
      <4> QED  BY <4>1, <4>2
    <3>3. \A y \in Zones : state[y] = "StopPending" => ref[y] \in Pids
          BY DEF RefInv, Holds, IsRunning, Running
    <3> QED  BY <3>1, <3>2, <3>3 DEF KilledFirst, TypeOK
  <2> QED  BY <1>8, <2>1, <2>2, <2>3, <2>4, <2>5, <2>6 DEF ProcessZone
<1>9. ASSUME LoopEnds PROVE KilledFirst'
      BY <1>9, StopKeepsKilled DEF LoopEnds
<1>10. ASSUME TerminateAll PROVE KilledFirst'
  <2>1. \A p \in Pids : child[p].signal = "KILL" => child'[p].signal = "KILL"
        BY <1>10, TerminateKeeps DEF TerminateAll, TypeOK
  <2>2. UNCHANGED zoneVars  BY <1>10 DEF TerminateAll
  <2>3. \A y \in Zones : state[y] = "StopPending" => ref[y] \in Pids
        BY DEF RefInv, Holds, IsRunning, Running
  <2> QED  BY <2>1, <2>2, <2>3 DEF KilledFirst
<1> QED  BY <1>1, <1>2, <1>3, <1>4, <1>5, <1>6, <1>7, <1>8, <1>9, <1>10
         DEF Next, LoopStep, Events

\* Between reaping and the next events, only GiveUp ends a stop.
LEMMA OnlyGiveUp ==
    ASSUME TypeOK, [Next]_vars, phase = "zones", NEW z \in Zones,
           state[z] = "StopPending", state'[z] = "Stopped"
    PROVE  GiveUp(z)
<1> USE DEF procVars, zoneVars
<1>1. state' # state  OBVIOUS
<1>2. PICK y \in Zones : ProcessZone(y)
      BY <1>1 DEF Next, LoopStep, Events, vars, Asked, StartRequest, RestartRequest, StopRequest,
                  LinkLost, OnConnected, LoopEnds, Dies, HandleSigChild, TimerElapses,
                  StartTimerElapses, TickBegins, ReapAny, Reap, TickReaped, TickEnds,
                  TerminateAll, Exit, Reaped
<1>3. CASE Launch(y)
      BY <1>3 DEF Launch, TypeOK
<1>4. CASE LaunchFails(y) \/ RestartTimedOut(y) \/ KeepWaiting(y)
      BY <1>1, <1>4 DEF LaunchFails, RestartTimedOut, KeepWaiting
<1>5. CASE KillAgain(y)
      BY <1>5 DEF KillAgain, Stop, IsRunning, Running
<1>6. CASE GiveUp(y)
  <2>1. state' = [state EXCEPT ![y] = "Stopped"]  BY <1>6 DEF GiveUp
  <2>2. y = z  BY <2>1 DEF TypeOK
  <2> QED  BY <1>6, <2>2
<1>7. CASE Remove(y)
      BY <1>7 DEF Remove, TypeOK
<1> QED  BY <1>2, <1>3, <1>4, <1>5, <1>6, <1>7 DEF ProcessZone

(***************************************************************************)
(* The launcher only gives a zone up after a SIGKILL to the very process   *)
(* that runs it, in every environment where at least one timeout of a stop *)
(* is a retry (MaxKillFails is 5 in the code): children die late or never, *)
(* signals merge, requests restart the timer, freed handlers are called.   *)
(***************************************************************************)
THEOREM KilledBeforeGivenUp ==
    ASSUME MaxKillFails >= 1
    PROVE  Spec => GivenUpAfterKill
<1> DEFINE Given == \A z \in Zones :
        state[z] = "StopPending" /\ state'[z] = "Stopped" /\ phase = "zones"
            => child[ref[z]].signal = "KILL"
<1>1. Init => KilledFirst
      BY DEF Init, KilledFirst
<1>2. LaunchInv /\ KilledFirst /\ [Next]_vars => KilledFirst'
      BY NextKilled DEF LaunchInv
<1>3. LaunchInv /\ KilledFirst /\ [Next]_vars => [Given]_vars
  <2> SUFFICES ASSUME TypeOK, KilledFirst, [Next]_vars, NEW z \in Zones,
                      state[z] = "StopPending", state'[z] = "Stopped", phase = "zones"
               PROVE  child[ref[z]].signal = "KILL"
      BY DEF LaunchInv
  <2>1. GiveUp(z)  BY OnlyGiveUp
  <2>2. killFails[z] + 1 > MaxKillFails  BY <2>1 DEF GiveUp, KillFailed
  <2>3. killFails[z] > 0  BY <2>2 DEF TypeOK
  <2> QED  BY <2>3 DEF KilledFirst
<1> QED  BY LaunchInvariant, <1>1, <1>2, <1>3, PTL DEF Spec, GivenUpAfterKill
=============================================================================
