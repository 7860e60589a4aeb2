----------------------------- MODULE ZoneLaunch -----------------------------
(***************************************************************************)
(* eqlaunch: one launcher process keeps a set of zone processes running    *)
(* (eqlaunch/zone_launch.cpp, worldserver.cpp, eqlaunch.cpp) on top of     *)
(* ProcLauncher (common/proc_launcher.cpp, the Unix build), which forks    *)
(* them, signals them and reaps them from a SIGCHLD count. World asks for  *)
(* zones to be started, restarted and stopped and is told their status.    *)
(*                                                                         *)
(* The launcher is one thread: messages of world are handled between       *)
(* ticks, a tick reaps dead children and then lets every zone Process in   *)
(* the order of the map. Children die, and the signal handler runs, at any *)
(* moment. Durations are abstracted: a started timer elapses some time     *)
(* later, seen as the code sees it, at the next tick.                      *)
(***************************************************************************)
EXTENDS Integers, FiniteSets

CONSTANTS
    NZones,        \* zone names world may ask for
    NPids,         \* process ids of the machine, used again once reaped
    MaxKillFails,  \* "if(m_killFails > 5)", 5 in the code
    MaxRequests,   \* bound on the requests of world in a behaviour
    ForkFails,     \* environment: fork may fail
    ObeysTerm,     \* environment: a zone exits on SIGTERM (fairness only)
    SlowKill,      \* environment: dying and being reaped may outlast TerminateWait
    SignalsMerge   \* environment: a SIGCHLD may be merged with one not handled yet

ASSUME LaunchAssumption ==
    /\ NZones \in Nat \ {0}
    /\ NPids \in Nat \ {0}
    /\ MaxKillFails \in Nat
    /\ MaxRequests \in Nat
    /\ {ForkFails, ObeysTerm, SlowKill, SignalsMerge} \subseteq BOOLEAN

Zones == 1 .. NZones     \* in the order of the std::map of zones
Pids  == 1 .. NPids

VARIABLES
    state,        \* m_state of the ZoneLaunch of a zone, "None" when there is none
    timer,        \* its m_timer
    killFails,    \* its m_killFails
    ref,          \* its m_ref, 0 for ProcError
    startTimer,   \* s_startTimer
    s_running,    \* the static counter of running zones
    child,        \* the processes of the machine and their entries in m_running
    sigchld,      \* a SIGCHLD waits for its handler
    signalCount,  \* m_signalCount
    phase, todo,  \* where the main loop is; the zones this tick still processes
    linked,       \* connected to world
    reported,     \* the zones world was last told are running
    requests      \* requests of world so far

zoneVars == <<state, timer, killFails, ref>>
procVars == <<child, sigchld, signalCount>>
vars == <<zoneVars, startTimer, s_running, procVars, phase, todo, linked, reported, requests>>

Running == {"Started", "StopPending", "RestartPending"}
IsRunning(z) == state[z] \in Running

NoChild == [life |-> "none", zone |-> 0, handler |-> "none", signal |-> "none"]
Children == [life : {"alive", "zombie"}, zone : Zones,
             handler : {"object", "freed"}, signal : {"none", "TERM", "KILL"}]

Unreaped == {p \in Pids : child[p].life # "none"}
Zombies  == {p \in Pids : child[p].life = "zombie"}

Init ==
    /\ state = [z \in Zones |-> "None"]
    /\ timer = [z \in Zones |-> "disabled"]
    /\ killFails = [z \in Zones |-> 0]
    /\ ref = [z \in Zones |-> 0]
    /\ startTimer = "due"
    /\ s_running = 0
    /\ child = [p \in Pids |-> NoChild]
    /\ sigchld = FALSE
    /\ signalCount = 0
    /\ phase = "events"
    /\ todo = {}
    /\ linked = TRUE
    /\ reported = {}
    /\ requests = 0

-----------------------------------------------------------------------------
(***************************************************************************)
(* ProcLauncher::Terminate: kill(2) on an entry of m_running, which may be *)
(* a zombie. The strongest signal sent is kept.                            *)
(***************************************************************************)
Terminate(pids, signal) ==
    [p \in Pids |->
        IF p \in pids /\ child[p].life # "none" /\ child[p].signal # "KILL"
            THEN [child[p] EXCEPT !.signal = signal] ELSE child[p]]

\* SendStatus: a zone's IsRunning goes to world, or nowhere without a link.
SlipSilentStart(z, up) == IF linked /\ ~up THEN reported \ {z} ELSE reported
SendStatus(z, up) ==
    IF ~linked THEN reported ELSE IF up THEN reported \cup {z} ELSE reported \ {z}

\* Requests of world, handled between two ticks.
Asked ==
    /\ phase = "events"
    /\ linked
    /\ requests < MaxRequests
    /\ requests' = requests + 1

\* ZR_Start: a new ZoneLaunch, its timer triggered so that it boots at once.
StartRequest(z) ==
    /\ Asked
    /\ state[z] = "None"
    /\ state' = [state EXCEPT ![z] = "StartPending"]
    /\ timer' = [timer EXCEPT ![z] = "due"]
    /\ killFails' = [killFails EXCEPT ![z] = 0]
    /\ ref' = [ref EXCEPT ![z] = 0]
    /\ UNCHANGED <<startTimer, s_running, procVars, phase, todo, linked, reported>>

\* The state Restart leaves a started zone in.
SlipStartsAtOnce == "StartPending"
AfterRestart == "RestartPending"

\* ZR_Restart: only a started zone is restarted.
RestartRequest(z) ==
    /\ Asked
    /\ state[z] = "Started"
    /\ child' = Terminate({ref[z]}, "TERM")
    /\ timer' = [timer EXCEPT ![z] = "ticking"]
    /\ state' = [state EXCEPT ![z] = AfterRestart]
    /\ UNCHANGED <<killFails, ref, startTimer, s_running, sigchld, signalCount,
                   phase, todo, linked, reported>>

\* ZoneLaunch::Stop for every zone of zs, with SIGTERM when graceful, else SIGKILL.
Stop(zs, signal) ==
    LET live == {z \in zs : IsRunning(z)}
    IN  /\ state' = [z \in Zones |->
              IF z \in live THEN "StopPending"
              ELSE IF z \in zs /\ state[z] = "StartPending" THEN "Stopped" ELSE state[z]]
        /\ child' = Terminate({ref[z] : z \in live}, signal)
        /\ timer' = [z \in Zones |-> IF z \in live THEN "ticking" ELSE timer[z]]

\* ZR_Stop.
StopRequest(z) ==
    /\ Asked
    /\ state[z] # "None"
    /\ Stop({z}, "TERM")
    /\ UNCHANGED <<killFails, ref, startTimer, s_running, sigchld, signalCount,
                   phase, todo, linked, reported>>

\* The link to world breaks (world forgets what it was told) or comes back.
LinkLost ==
    /\ phase = "events"
    /\ linked
    /\ linked' = FALSE
    /\ reported' = {}
    /\ UNCHANGED <<zoneVars, startTimer, s_running, procVars, phase, todo, requests>>

\* OnConnected: the status of every zone is sent again.
OnConnected ==
    /\ phase = "events"
    /\ ~linked
    /\ linked' = TRUE
    /\ reported' = {z \in Zones : IsRunning(z)}
    /\ UNCHANGED <<zoneVars, startTimer, s_running, procVars, phase, todo, requests>>

-----------------------------------------------------------------------------
(***************************************************************************)
(* The machine: children exit by themselves or because of a signal; a      *)
(* SIGCHLD raised while another waits is merged with it.                   *)
(***************************************************************************)
Dies(p) ==
    /\ child[p].life = "alive"
    /\ SignalsMerge \/ ~sigchld
    /\ child' = [child EXCEPT ![p].life = "zombie"]
    /\ sigchld' = TRUE
    /\ UNCHANGED <<zoneVars, startTimer, s_running, signalCount, phase, todo,
                   linked, reported, requests>>

(***************************************************************************)
(* HandleSigChild. The counter is a plain uint32: a handler that runs      *)
(* between the read and the write of "m_signalCount--", which the loop     *)
(* does only while it is not 0, has its increment overwritten, if the      *)
(* compiler keeps the two apart.                                           *)
(***************************************************************************)
HandleSigChild ==
    /\ sigchld
    /\ sigchld' = FALSE
    /\ \/ signalCount' = signalCount + 1
       \/ /\ SignalsMerge /\ signalCount > 0 /\ phase \in {"reap", "stopReap", "killReap"}
          /\ UNCHANGED signalCount
    /\ UNCHANGED <<zoneVars, startTimer, s_running, child, phase, todo,
                   linked, reported, requests>>

TimerElapses(z) ==
    /\ phase = "events"
    /\ timer[z] = "ticking"
    /\ ~SlowKill /\ state[z] = "StopPending" =>
          child[ref[z]].life = "alive" /\ child[ref[z]].signal # "KILL"
    /\ timer' = [timer EXCEPT ![z] = "due"]
    /\ UNCHANGED <<state, killFails, ref, startTimer, s_running, procVars, phase, todo,
                   linked, reported, requests>>

StartTimerElapses ==
    /\ phase = "events"
    /\ startTimer = "ticking"
    /\ startTimer' = "due"
    /\ UNCHANGED <<zoneVars, s_running, procVars, phase, todo, linked, reported, requests>>

-----------------------------------------------------------------------------
TickBegins ==
    /\ phase = "events"
    /\ phase' = "reap"
    /\ UNCHANGED <<zoneVars, startTimer, s_running, procVars, todo, linked, reported, requests>>

\* The state OnTerminate leaves a zone in.
SlipStopKeepsWaiting(s) == IF s \in {"StopPending", "Stopped"} THEN s ELSE "StartPending"
AfterTerminate(s) == IF s \in {"StopPending", "Stopped"} THEN "Stopped" ELSE "StartPending"

\* ZoneLaunch::OnTerminate on a ZoneLaunch that exists.
OnTerminate(z) ==
    /\ state' = [state EXCEPT ![z] = AfterTerminate(@)]
    /\ timer' = [timer EXCEPT ![z] = IF state[z] \in {"StartPending", "Started"}
                                        THEN "ticking" ELSE @]
    /\ reported' = SendStatus(z, FALSE)
    /\ UNCHANGED phase

(***************************************************************************)
(* OnTerminate through the pointer to a ZoneLaunch that was deleted: the   *)
(* memory still looks like that object, or holds another ZoneLaunch by     *)
(* now, or the call crashes the launcher.                                  *)
(***************************************************************************)
OnTerminateFreed(z) ==
    \/ /\ reported' = SendStatus(z, FALSE)
       /\ UNCHANGED <<state, timer, phase>>
    \/ \E other \in Zones : state[other] # "None" /\ OnTerminate(other)
    \/ /\ phase' = "crashed"
       /\ UNCHANGED <<state, timer, reported>>

\* s_running in OnTerminate.
SlipCountsCrashesOnly(z) == IF state[z] = "Started" THEN s_running - 1 ELSE s_running
CountDown(z) == s_running - 1

\* ProcLauncher::ProcessTerminated.
ProcessTerminated(p) ==
    /\ s_running' = CountDown(child[p].zone)
    /\ child' = [child EXCEPT ![p] = NoChild]
    /\ IF child[p].handler = "object"
        THEN OnTerminate(child[p].zone) ELSE OnTerminateFreed(child[p].zone)

\* m_signalCount > 0, and m_signalCount--.
SlipOneMore == signalCount >= 0
DeathsCounted == signalCount > 0
SlipCountCleared == 0
CountLeft == signalCount - 1

\* One turn of the loop of ProcLauncher::Process.
Reap(at) ==
    /\ phase = at
    /\ DeathsCounted
    /\ Zombies # {} \/ Unreaped = {}     \* else waitpid gives 0 and the loop breaks
    /\ signalCount' = CountLeft
    /\ IF Zombies # {}
        THEN \E p \in Zombies : ProcessTerminated(p)
        ELSE UNCHANGED <<state, timer, s_running, child, reported, phase>>
    /\ UNCHANGED <<killFails, ref, startTimer, sigchld, todo, linked, requests>>

\* ProcLauncher::Process is over: no count left, or waitpid found nothing dead.
Reaped(at) ==
    /\ phase = at
    /\ \/ ~DeathsCounted /\ UNCHANGED signalCount
       \/ /\ DeathsCounted
          /\ Zombies = {} /\ Unreaped # {}
          /\ signalCount' = CountLeft

TickReaped ==
    /\ Reaped("reap")
    /\ phase' = "zones"
    /\ todo' = {z \in Zones : state[z] # "None"}
    /\ UNCHANGED <<zoneVars, startTimer, s_running, child, sigchld, linked, reported, requests>>

\* It is z's turn in the tick.
Turn(z) ==
    /\ phase = "zones"
    /\ z \in todo
    /\ \A y \in todo : z <= y
    /\ todo' = todo \ {z}
    /\ UNCHANGED <<sigchld, signalCount, phase, linked, requests>>

\* Start, when fork succeeds: the pid is the least one free.
Launch(z) ==
    /\ Turn(z)
    /\ state[z] = "StartPending" /\ timer[z] = "due" /\ startTimer = "due"
    /\ \E p \in Pids \ Unreaped :
        /\ \A q \in Pids \ Unreaped : p <= q
        /\ child' = [child EXCEPT ![p] =
              [life |-> "alive", zone |-> z, handler |-> "object", signal |-> "none"]]
        /\ ref' = [ref EXCEPT ![z] = p]
    /\ timer' = [timer EXCEPT ![z] = "disabled"]
    /\ startTimer' = "ticking"
    /\ state' = [state EXCEPT ![z] = "Started"]
    /\ s_running' = s_running + 1
    /\ killFails' = [killFails EXCEPT ![z] = 0]
    /\ reported' = SendStatus(z, TRUE)

\* Start, when fork fails.
LaunchFails(z) ==
    /\ Turn(z)
    /\ ForkFails \/ Unreaped = Pids
    /\ state[z] = "StartPending" /\ timer[z] = "due" /\ startTimer = "due"
    /\ ref' = [ref EXCEPT ![z] = 0]
    /\ timer' = [timer EXCEPT ![z] = "ticking"]
    /\ startTimer' = "ticking"
    /\ UNCHANGED <<state, killFails, s_running, child, reported>>

\* RestartPending timed out: Restart() finds the restart already pending.
RestartTimedOut(z) ==
    /\ Turn(z)
    /\ state[z] = "RestartPending" /\ timer[z] = "due"
    /\ timer' = [timer EXCEPT ![z] = "ticking"]
    /\ UNCHANGED <<state, killFails, ref, startTimer, s_running, child, reported>>

\* What a stop that timed out adds to m_killFails, and the signal it sends.
SlipNotCounted == 0
KillFailed == 1
SlipAsksNicely == "TERM"
Insistent == "KILL"

\* StopPending timed out: kill.
KillAgain(z) ==
    /\ Turn(z)
    /\ state[z] = "StopPending" /\ timer[z] = "due"
    /\ killFails[z] + KillFailed <= MaxKillFails
    /\ killFails' = [killFails EXCEPT ![z] = @ + KillFailed]
    /\ Stop({z}, Insistent)
    /\ UNCHANGED <<ref, startTimer, s_running, reported>>

\* StopPending timed out too often: act as if the process were dead.
GiveUp(z) ==
    /\ Turn(z)
    /\ state[z] = "StopPending" /\ timer[z] = "due"
    /\ killFails[z] + KillFailed > MaxKillFails
    /\ killFails' = [killFails EXCEPT ![z] = @ + KillFailed]
    /\ timer' = [timer EXCEPT ![z] = "ticking"]
    /\ state' = [state EXCEPT ![z] = "Stopped"]
    /\ s_running' = s_running - 1
    /\ reported' = SendStatus(z, FALSE)
    /\ UNCHANGED <<ref, startTimer, child>>

\* Stopped: the main loop deletes the ZoneLaunch; children keep their handler.
Remove(z) ==
    /\ Turn(z)
    /\ state[z] = "Stopped"
    /\ state' = [state EXCEPT ![z] = "None"]
    /\ timer' = [timer EXCEPT ![z] = "disabled"]
    /\ child' = [p \in Pids |-> IF child[p].handler = "object" /\ child[p].zone = z
                                    THEN [child[p] EXCEPT !.handler = "freed"] ELSE child[p]]
    /\ UNCHANGED <<killFails, ref, startTimer, s_running, reported>>

\* Nothing to do for z in this tick.
KeepWaiting(z) ==
    /\ Turn(z)
    /\ \/ state[z] = "StartPending" /\ (timer[z] # "due" \/ startTimer # "due")
       \/ state[z] = "Started"
       \/ state[z] \in {"RestartPending", "StopPending"} /\ timer[z] # "due"
    /\ UNCHANGED <<zoneVars, startTimer, s_running, child, reported>>

TickEnds ==
    /\ phase = "zones"
    /\ todo = {}
    /\ phase' = "events"
    /\ UNCHANGED <<zoneVars, startTimer, s_running, procVars, todo, linked, reported, requests>>

ProcessZone(z) ==
    \/ Launch(z) \/ LaunchFails(z) \/ RestartTimedOut(z)
    \/ KillAgain(z) \/ GiveUp(z) \/ Remove(z) \/ KeepWaiting(z)

-----------------------------------------------------------------------------
(***************************************************************************)
(* SIGINT or SIGTERM: the loop ends, every zone is stopped, children are   *)
(* reaped, all asked to terminate, reaped again. TerminateAll(true) clears *)
(* m_running before it signals, so its Terminate calls find nothing.       *)
(***************************************************************************)
LoopEnds ==
    /\ phase = "events"
    /\ Stop(Zones, "TERM")
    /\ phase' = "stopReap"
    /\ UNCHANGED <<killFails, ref, startTimer, s_running, sigchld, signalCount, todo,
                   linked, reported, requests>>

TerminateAll ==
    /\ Reaped("stopReap")
    /\ child' = Terminate(Unreaped, "TERM")
    /\ phase' = "killReap"
    /\ UNCHANGED <<zoneVars, startTimer, s_running, sigchld, todo, linked, reported, requests>>

Exit ==
    /\ Reaped("killReap")
    /\ phase' = "exited"
    /\ UNCHANGED <<zoneVars, startTimer, s_running, child, sigchld, todo, linked,
                   reported, requests>>

ReapAny == \E at \in {"reap", "stopReap", "killReap"} : Reap(at)

\* What the main loop does by itself.
LoopStep ==
    \/ TickBegins \/ ReapAny \/ TickReaped \/ TickEnds \/ TerminateAll \/ Exit
    \/ \E z \in Zones : ProcessZone(z)

Events ==
    \/ \E z \in Zones : StartRequest(z) \/ RestartRequest(z) \/ StopRequest(z)
    \/ LinkLost \/ OnConnected \/ LoopEnds

\* The launcher's thread runs nothing else while a SIGCHLD waits for its handler.
Next ==
    \/ ~sigchld /\ (LoopStep \/ Events)
    \/ HandleSigChild
    \/ \E p \in Pids : Dies(p)
    \/ \E z \in Zones : TimerElapses(z)
    \/ StartTimerElapses

Spec == Init /\ [][Next]_vars

(***************************************************************************)
(* The event loop ticks and a tick ends; signal handlers run; time passes  *)
(* for every timer; the kernel carries a SIGKILL out, and a zone that      *)
(* obeys SIGTERM exits on it. Nothing else has to happen.                  *)
(***************************************************************************)
DiesOfSignal(p) ==
    /\ child[p].signal = "KILL" \/ (ObeysTerm /\ child[p].signal = "TERM")
    /\ Dies(p)

FairSpec ==
    /\ Spec
    /\ SF_vars(~sigchld /\ LoopStep)
    /\ WF_vars(HandleSigChild)
    /\ SF_vars(StartTimerElapses)
    /\ \A z \in Zones : SF_vars(TimerElapses(z))
    /\ \A p \in Pids : SF_vars(DiesOfSignal(p))

-----------------------------------------------------------------------------
TypeOK ==
    /\ state \in [Zones -> {"None", "StartPending", "Stopped"} \cup Running]
    /\ timer \in [Zones -> {"disabled", "ticking", "due"}]
    /\ killFails \in [Zones -> 0 .. MaxKillFails + 1]
    /\ ref \in [Zones -> {0} \cup Pids]
    /\ startTimer \in {"ticking", "due"}
    /\ s_running \in Int
    /\ child \in [Pids -> Children \cup {NoChild}]
    /\ sigchld \in BOOLEAN
    /\ signalCount \in Nat
    /\ phase \in {"events", "reap", "zones", "stopReap", "killReap", "exited", "crashed"}
    /\ todo \subseteq Zones
    /\ linked \in BOOLEAN
    /\ reported \subseteq Zones
    /\ requests \in 0 .. MaxRequests

(***************************************************************************)
(* A running ZoneLaunch always holds the pid of a child not reaped yet, so *)
(* Terminate finds it in m_running and kill(2) cannot fail: the "Giving up *)
(* and moving to stopped" branches of Restart and Stop are never taken on  *)
(* Unix. It relates each m_ref to the reaping of the children.             *)
(***************************************************************************)
RefNotReaped ==
    \A z \in Zones : IsRunning(z) =>
        /\ ref[z] \in Unreaped
        /\ child[ref[z]].zone = z

(***************************************************************************)
(* Two processes never run the same zone, through crashes, restarts and    *)
(* stops in any order.                                                     *)
(***************************************************************************)
OneProcessPerZone ==
    \A p, q \in Unreaped : child[p].zone = child[q].zone => p = q

\* s_running is "the number of zones running under this launcher".
RunningCounted == s_running = Cardinality({z \in Zones : IsRunning(z)})

(***************************************************************************)
(* What world was last told over the link it still has agrees with the     *)
(* launcher: no path forgets a SendStatus, or sends one of a stale state.  *)
(***************************************************************************)
ReportedRight == linked => reported = {z \in Zones : IsRunning(z)}

(***************************************************************************)
(* A zone is only given up on after a SIGKILL: the graceful signal always  *)
(* was followed by the other, however requests restarted the timer.        *)
(***************************************************************************)
GivenUpAfterKill ==
    [][\A z \in Zones :
        state[z] = "StopPending" /\ state'[z] = "Stopped" /\ phase = "zones"
            => child[ref[z]].signal = "KILL"]_vars

Over == phase \in {"exited", "crashed"}

(***************************************************************************)
(* A stop always completes, whatever the child does with the signals and   *)
(* even if its death is never noticed: it is killed, or given up on.       *)
(***************************************************************************)
StopCompletes ==
    \A z \in Zones : state[z] = "StopPending" ~> state[z] # "StopPending" \/ Over

\* Every dead child is reaped, so that OnTerminate restarts or removes its zone.
DeathNoticed ==
    \A p \in Pids : child[p].life = "zombie" ~> child[p].life = "none" \/ Over

(***************************************************************************)
(* A zone told to restart does: a child that outlasts TerminateWait is     *)
(* killed ("we have timed out, try to kill the child again").              *)
(***************************************************************************)
RestartCompletes ==
    \A z \in Zones :
        state[z] = "RestartPending" ~> state[z] # "RestartPending" \/ Over

=============================================================================
