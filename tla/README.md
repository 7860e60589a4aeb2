# A verification development for the EQEmu server

This directory holds TLA+ models of the parts of the EQEmu server whose
correctness depends on the order in which messages, timers and processes act,
the TLC configurations that model-check them, and TLAPS proofs about them.
Paths such as `world/client.cpp` are relative to the root of the repository.
`PROJECT.json` gives, for every definition that models code, the lines it
models; the list of hazards at their lines; and one mutant per property, a
plausible bug under which the property fails.

    tlc -workers 2 -config ReliableStream.cfg ReliableStream.tla
    tlapm ReliableStream_proofs.tla

## 1. The system

The server is a set of processes, each one thread around a libuv event loop,
that talk to each other over TCP (servertalk) and to game clients over UDP.

| Part | State | Operations | Talks to |
|---|---|---|---|
| Reliable stream protocol, `common/net/reliable_stream_connection.*` | per connection: status, connect code, encode key, last receipt; per stream: `sequence_in`, `sequence_out`, `sent_packets`, `packet_queue`, the fragments being reassembled; hold buffer and resend timer | `QueuePacket`, `ProcessPacket`, `ProcessQueue`, `ProcessResend`, `Ack`, `OutOfOrderAck`, `Close`, the manager's `Process` | UDP below; `EQStreamManager` above, by callbacks |
| EQStream, `common/net/eqstream.cpp` | streams by connection, a deque of packets each | new connection, state change, packet received, `PopPacket` | the stream protocol; world, zone, login and chat servers |
| Server-to-server links, `common/net/servertalk_*`, `tcp_*` | connection, identity, read buffer, reconnect timer | connect, reconnect, hello, handshake, `Send` | every server process |
| World: sessions, `world/client.*` | account, character, `zone_id`, the server a boot was asked of, autoboot timer, `cle` | login, character select, `EnterWorld`, `Clearance`, `TellClientZoneUnavailable` | zones, client list, players |
| World: zone servers, `world/zonelist.*`, `world/zoneserver.*` | list of connections, hosted zone, booting flag, player count | `TriggerBootup`, `SetZoneData`, `IncomingClient`, `DropClient`, disconnect | zone processes |
| World: client list, `world/clientlist.*`, `world/cliententry.*` | an entry per login: status, zone server, character; `numplayers`; stale count | `CLEAdd`, `ClientUpdate`, `LeavingZone`, `CLERemoveZSRef`, `CheckStale`, the limits per address | login server, zone processes, sessions |
| World: shared tasks, dynamic zones, expeditions, adventures, guilds | members, leader, invitations, lockouts, timers; mirrored in each zone and stored in the database | create, invite, accept, remove, make leader, expire | zones, database |
| World: login server link, launcher link, chat and query relays | registered servers, launchers and the zones they run, dynamic zone count | play requests, boot and stop requests, relays | login server, `eqlaunch`, `ucs`, `queryserv` |
| Zone, `zone/` | the loaded zone, authorizations (`ZoneClientAuth_Struct`), entities, clients, groups, raids, tasks, trades, spawns, corpses | packet handlers, timers, `UpdateWho`, zoning, shutdown | clients, world, database |
| Zone launcher, `eqlaunch/`, `common/proc_launcher.*` | a state, timer and pid per zone; `s_running`; the children; the signal count | start, stop, restart, `Process`, `OnTerminate`, SIGCHLD | the kernel; world |
| Login server, `loginserver/` | logged in accounts, registered worlds | login, server list, play | clients, world |
| Chat server `ucs/`, query server `queryserv/` | channels and members; none | join, leave, moderate; insert | clients; world, zones |
| Shared memory, `shared_memory/`, `common/ipc_mutex.*`, `common/memory_mapped_file.*` | mapped files of items, spells, skills | create, load under a file lock | database |

How they interact, and what is hard there:

* **The stream protocol** runs over a network that loses, repeats and reorders.
  Sequence numbers have 16 bits and are compared by distance; resend rounds
  walk a map keyed by the wrapped number and stop after a window; either end
  may begin to close while packets are queued. It is correct when the
  application gets what the other queued, in order and once, and when neither
  end retains what is settled.
* **The launcher** mixes signals, children that die on their own, timers, retries
  and world's requests. A `ZoneLaunch` may be deleted while its child still
  lives. It is correct when a zone runs in at most one process, its count and
  its reports follow the truth, dead children are reaped and stops complete.
* **Entering a zone** takes four parties: the player, world, the process asked to
  boot, and any zone that still holds an authorization. World keeps a view of
  each process that is behind by a message, and none of a process whose link is
  lost, which lives on and comes back with its zone. It is correct when one
  process hosts a zone, a player is only sent where it is expected, is
  authorized in one place, and gets an answer.
* **The client list** is world's picture of players who move between zone
  processes by themselves. Reports of the old zone and of the new one race, and
  zone servers vanish. It is correct when the counts agree with the list,
  pointers are live, players are found and ghosts go.
* **Shared state mirrored by zones** (shared tasks, dynamic zones, groups) has
  world as the owner and a broadcast per change; invitations are checked twice
  with anything in between.
* Everything else in a process is sequential: handlers run to their end. In the
  models a handler is one action.

The status of every component, the ones left out too, is in `PROJECT.json`.

## 2. The modules

| Module | Models | Promises | Proofs |
|---|---|---|---|
| `SequenceCompare` | the 16-bit numbers and `CompareSequence` | orders as the unwrapped numbers do | `SequenceCompare_proofs` |
| `FifoDelivery` | abstract: what a stream promises its applications | | |
| `ReliableStream` | one direction of one sequenced stream, both ends and UDP; extends `SequenceCompare`, refines `FifoDelivery` | section 3.1 | `ReliableStream_proofs`, `ReliableStreamFifo_proofs` |
| `ZoneLaunch` | the launcher, its children, the kernel's signals, world's requests | section 3.2 | `ZoneLaunch_proofs`, `ZoneLaunchReports_proofs` |
| `WorldEntry` | world's sessions and zone servers, the zone processes, the links | section 3.3 | `WorldEntry_proofs` |
| `ClientPresence` | the client list, sessions, the zones' clients, the links | section 3.4 | `ClientPresence_proofs` |
| `TaskParties` | abstract: what shared tasks promise about the parties of players | | |
| `SharedTask`, `MCSharedTask` | world's shared tasks, their tables, the copies in the zones and the characters' tables, the links; refines `TaskParties` | section 3.5 | `SharedTask_proofs` |

The constants are given in the `.cfg` files, every one an integer, a Boolean or
a set of names, so no separate module is needed to instantiate a model, but for
`MCSharedTask`, which says which players are alike. The operators named `Slip...` are bugs that might have been: nothing uses them, and
putting one in the place of the operator that follows it breaks a property.

### 2.1 ReliableStream

State: `sequence_out`, `sent_packets` (the sender's `ReliableStream` record),
`sequence_in`, `packet_queue`, `fragment_packet`, `fragment_total_bytes` (the
receiver's), `status` per end, two sets of datagrams in flight. `wire`,
`submitted`, `accepted` and `delivered` are history. A packet carries its
unwrapped position `n`, which no handler reads.

Actions: `QueuePacket` is `InternalQueuePacket` with its fragmentation;
`ProcessResend`, `ReceiveAck` and `ReceiveOutOfOrderAck` are the sender's
handlers; `ReceiveData` and `ProcessQueue` both run `ProcessDecodedPacket`, as
in the code; `Close`, `ReceiveDisconnect`, `CloseTimeElapsed`, `Stale` end the
session; `Lose` is the network, which may also deliver a datagram any number of
times and in any order.

Abstractions. A chunk is a pair (message, part). The hold buffer and `Combined`
datagrams only delay and group. The resend timer may elapse at any time, so
`m_acked_since_last_resend` is not kept. `NotTooOld` bounds how long a datagram
may linger: not past `HalfWindow` newer packets, without which no protocol with
a bounded number is right. `MaxInFlight =< HalfWindow` is an assumption on the
applications, because `InternalQueuePacket` has no flow control: with more than
10000 unacknowledged packets `CompareSequence` misjudges (a listed hazard).

### 2.2 ZoneLaunch

State: `state`, `timer`, `killFails`, `ref` per zone (the `ZoneLaunch` object),
`startTimer`, `s_running`, `child` (the kernel's process and its entry in
`m_running`, with the handler it would call), `sigchld`, `signalCount`, where the
main loop is (`phase`, `todo`), the link and what world was last told.

Actions: one per message of world, `LoopEnds`, the reaping in
`ProcLauncher::Process`, `ProcessZone` for one pass of `ZoneLaunch::Process`
over a zone, the steps of a shutdown, the signal handler, deaths, timers and the
link. The Unix build is modelled. The kernel runs a pending handler before the
only thread goes on. Durations are abstracted; what they would rule out is a
constant: `SlowKill` (a death may outlast `TerminateWait`), `SignalsMerge`,
`ForkFails`, `ObeysTerm`. With `SignalsMerge` two pending signals are one, and an
increment of the handler may be lost to the decrement of the loop; that only while
`signalCount` is above 0, since the loop writes it only then. The branches in which `Terminate` fails are dead code
on Unix as long as `RefNotReaped` holds, which is proved, and left out.

### 2.3 WorldEntry

State: `conn` and `zone_server` (world's `ZoneServer`), `process` (the zone it has
loaded, its authorizations), `adrift` (the process that was at this link and has none
now), two FIFO links per process, `client` (world's `Client`), `view` (the player).
A server number is a connection: a process that is launched again is a new one,
and so is one that connects again. Of a process `stray`, `kept` and `lapsed`
are histories: it came with its zone over a link of which world knew nothing; the
authorizations that it brought along; those of its own that ran out.

Actions: `NewSession`, `EnterHosted`, `EnterBoots`, `EnterNowhere` (the ways
through `EnterWorld`), `AutobootTimeout`, `SessionEnds`; world's handlers of
`SetZone` and of the zones' answers; the zones' handlers of boots, announcements,
entrances and drops; `AuthTimeout`, `ShutsDown`, `Crashes`; `Connects`, `Reconnects`,
`LinkBreaks`, `Removed`. A locked zone and
a missing `cle` are outcomes left open. The loop over the clients after
a `SetZone` is one step; its order does not matter, as each client is treated
alone. That the last client has left is what lets `ShutsDown` happen; the players
inside are not kept.

Lost links. `LinkBreaks` leaves a process that runs a zone alive without a link:
what is on its way to it is lost, what it had sent may still arrive, and
nothing sent to it arrives any more. `Removed` is world noticing, `Reconnects` the
process coming back with its zone and its players (`is_zone_loaded`,
`zone/worldserver.cpp:183`); either may be first, so that world may have both
connections at once. A process that shuts its zone down or ends before it is back
is one that crashed, and one without a zone that connects again is
`Connects` of a new one.

Authorizations. `Zone::Process` removes one whose player has not come for one to
two ticks of `clientauth_timer` (`zone/zone.cpp:1682`), and one that has been
used goes with its player. `AuthTimeout` removes any, at any time.

`FreshGap` says whether world may act between a connection and its first
report; without it, world lists a process with what it runs. `LostLinks` says
whether links may break while a process lives, `LateAnswers` whether a player
may choose again before the answer to an
earlier choice has come, `KillProcessOnDynamicShutdown` is the rule of that
name, `BadZones` are zones that fail in `Zone::Init`.

### 2.4 ClientPresence

State: `list` (the entries, the player count of each `ZoneServer`, `numplayers`),
`session` (world's `Client` with its `cle`), `going` (what a zone was told of a
player sent there), `pc` (the zone's `Client`), the links, `conn`: a server is `up`,
its process is `dead` or its link `cut` and world has not seen it, or world has seen
it (`lost` and `adrift`).

Actions: `CLEAdd`, `HandleSendLoginInfo`, `EnterWorld`, `Clearance`,
`TellClientZoneUnavailable`, `SessionEnds`, `CheckStale`, `GetCLEIP` in world;
`Handle_Connect_OP_ZoneEntry`, `CompleteConnect`, `UpdateWho`, `Zones`, `Quits`,
`ClientGone`, `ChangeWID`, `Sleeps` in the zones; `ClientUpdate`, `SetZone` for what
arrives; `Dies`, `LinkBreaks`, `ServerLost`, `Connects`, `Reconnects` for the links. Over
a lost link players in the zone go on playing and leaving, and nobody hears of
it; `Reconnects` reports all that are there (`UpdateWho(true)`, `UpdateWhoAll`). World
notices the end of a link before the process is back on a new one. Keep-alives are not messages: an entry somebody
keeps alive (`Kept`; a zone does so over its link) does not go stale. Which entry `CheckAuth` finds first is
left open. The old client of a login in a zone is gone before a new one
loads, by the "antighost" code.

`LateReports = FALSE` states that a player is not quicker than a zone's report
that it is in: to reach its next zone it loads one, which takes longer
than a message between two servers.

### 2.5 SharedTask

State in world: `made`, `tmpl`, `live` (`m_shared_tasks`), `members`, `done`, `locked`,
`closing` (the two-minute `terminate_timer`), `invited` (`m_active_invitations`),
`known` (the players whose `cle` has a server). In the database: `rows` (the table
`shared_task_members`) and `row` (a character's `character_tasks` and
`character_activities`); what else world stores changes with its memory. In the
zones: `present`, `copy` (`ClientTaskState`: the task in the slot, its count, the
flag `updated`, `m_shared_task_id`), `dialogs`. `inbox` and `outbox` are the links.

Actions: world's handlers of `SharedTaskWorldMessaging::HandleZoneMessage` and of a
player's coming and leaving; `Process`, `PurgeAllSharedTasks` and
`LoadSharedTaskState` (a restart of world); the zones' handlers of `load`,
`accept`, `quit`, `update` and `invite`; what players ask for, kills, saves, leaving
and entering a zone. `LoadClientTaskState` is the whole load: the rows of the
character, then `SyncClientSharedTaskStateToLocal`, which gives a member without
a copy one, and `SyncClientSharedTaskWithPersistedState`, which brings a copy up to
world's count and pays the reward if that completes it.

Handlers of world are atomic except where they write a task's members and where
they drop its rows: those statements commit one by one, and a zone that loads
in between reads the table half way (`saving`, `DeleteRows`, `InsertRows`, `DropRows`).
Zones read the tables directly, not through world, which is why this order can
be seen at all. There is one FIFO link per player each way: a zone has one TCP
connection to world, and players in a zone do not touch each other but through
`Kills`, which counts for all copies of the task in the zone. All players are
in one zone or away, which is the case with most to go wrong, as the count is
then shared twice, in memory and through world.

Left out: the second and further activities of a task, replay and request
timers, levels, dynamic zones, member lists and messages to players. A restart
of world happens between handlers. Sends to a player whom world does not know to
be anywhere are lost, as in `SendPacket` to a `cle` without a server. `LockTask` only
locks: the unlock that a quest may ask for is left out, and with it a task
that is done could be open again, so that `RewardedOnce` would need more than a
locked task to keep out who was paid. A player that goes offline keeps its invitations, one
that zones loses them (`LeavingZone`): going offline clears the
entry's character before the invitations are looked up by it.

Three histories limit what is claimed, each for a thing the code does:

* `lapsed`: a packet was lost, or the table was read half written, or the copy was
  of another task. The next load repairs it.
* `crossed`: the copy met the rows, the quit or the update of another task, or
  rows or a quit that world's roster no longer bears out.
  `SyncClientSharedTaskWithPersistedState` (`zone/task_manager.cpp:1630`) takes the
  count of whatever task the table has for that in the slot; `CancelTask`
  clears whatever is in it, and with it that the reward was given. So a player
  that is taken into a task, put out of it and taken back before its zone has
  read any of that, while the task gets done, is paid by the load of either accept. It
  takes two open invitations to one task (a restart of world forgets the first)
  and more requests than the run allows: it was the attempt to prove `RewardedOnce` that
  showed it, and TLC with five requests confirms it.
* `emptied`: the task ran out of members. Until the next `Process` an invitation to
  it can still be accepted, and then it has a member and no leader.

## 3. What is checked

Every run finishes its whole state space. "fails" marks a run that shows a
disagreement (section 6).

### 3.1 The stream

| Run | Properties |
|---|---|
| `ReliableStream` (355k states) | `TypeOK`; `NothingForgotten`: an acknowledgement never makes the sender forget what the receiver lacks; `NothingStaleQueued`: the queue keeps nothing `sequence_in` has passed; `DeliversInOrder`: the refinement of `FifoDelivery` |
| `ReliableStreamLive` (12k) | `DeliversEverything`; `SenderSettles`: an idle sender ends up with nothing unacknowledged |

Bounds: numbers modulo 5 with half window 2 for 65536 and 10000, two packets in
flight, resend rounds of one packet for 300, messages of two packets, six
packets, so that the numbers wrap while fragments, early packets and repeated
acknowledgements are about. Fairness: the manager's tick runs `ProcessResend`
and `ProcessQueue` (weak), a datagram sent again and again arrives in the end
(strong, on receipts that change something). Nobody has to close, queue or
acknowledge spontaneously; in the live run nobody closes, since closing
justifies giving up.

### 3.2 The launcher

| Run | Properties |
|---|---|
| `ZoneLaunch` (22k) | `TypeOK`, `OneProcessPerZone`, `RunningCounted`, `ReportedRight`, `DeathNoticed`, where deaths are noticed in time |
| `ZoneLaunchWild` (45k) | `RefNotReaped`, `GivenUpAfterKill`, `StopCompletes`, with merged signals and children that outlast every SIGKILL |
| `ZoneLaunchMergedDeath`, fails | `DeathNoticed` with merged signals |
| `ZoneLaunchRestartHangs`, fails | `RestartCompletes` with a child that ignores SIGTERM |

Bounds: two zones, two pids (so that pids are used again), three requests, one
failed kill for 5. Two zones are what the shared start timer, merged signals
and a reused pid need. Fairness: the loop runs and signal handlers run, time
passes, the kernel carries out a SIGKILL. Loop steps are strongly fair, because
the loop is blocked while a signal waits and signals may come for ever.

`OneProcessPerZone`, `RunningCounted` and `ReportedRight` need `SlowKill = FALSE`
(`DeathNoticed` needs `SignalsMerge = FALSE`):
a zone that is given up on and requested again has two processes, and is counted
down again when the first one dies after all. The code accepts that, "acting
like its dead".

### 3.3 Entering a zone

| Run | Properties |
|---|---|
| `WorldEntry` (798k) | `TypeOK`, `OneHostPerZone`, `WarnedBeforeSent`, `AdmittedOnce`, with lost links and authorizations that run out |
| `WorldEntryWild` (198k) | `ViewsAgree`: with empty links world is right about a process; `BootRequestAnswered` |
| `WorldEntryTwoHosts`, fails | `OneHostPerZone` when world acts in the gap before a first report |

Bounds of the first: three connections, two zones, a player and two requests. Three
connections are the host of a zone, a second process that world may boot
the zone in while the first has no link, and the first again; two zones are a
choice made before and one made after. Players are treated apart but for the
processes they share, and the theorems of section 4 are about any number; the first run with
two players who race for one zone, two connections and no lost link holds as well
(930k states, not among the runs). Of the second:
two connections, one zone that fails to boot, a process that shuts its zone
down in place, late answers and the gap before a first report. The third has two players,
three requests and no lost link. Fairness: only that world polls the autoboot
timer; no zone has to answer.

The exceptions, each for what the code lets happen:

* `OneHostPerZone` is about zones that world has given. World cannot know of a process
  that has lost its link and lives: the next player who asks for its zone
  has it booted elsewhere, and when the process is back two of them run it.
  World lists both (`ZoneServer::SetZone` looks for no other host) and from then on
  sends players to the one that connected first. Every
  pair of hosts has such a process, a `stray` one.
* `AdmittedOnce` leaves out what a process kept from before it lost its link
  (`kept`): the drop that world sent meanwhile never reached it. The authorization
  goes with the next announcement or drop of that player, or when it runs out.
* `WarnedBeforeSent` is about zones whose link holds, and ends when the authorization
  has run out (`lapsed`): a player who takes longer than that is not expected
  any more, and neither is one whose zone lost its link before the
  announcement came.

`WarnedBeforeSent` does not hold with `LateAnswers`: a zone's answer to an earlier
request may let the player through while the announcement to the zone it chose
later was lost with a boot. The player interface does not offer a choice until
the answer or the timeout.

### 3.4 Presence

| Run | Properties |
|---|---|
| `ClientPresence` (247k) | `TypeOK`, `ZonesCounted`, `PlayersCounted`, `PointersLive`, `PlayersFound`, `GhostsGo`, with lost links |

Bounds: one login, two servers, four entries, seven moves. A login's entries do
not touch another's but through the counts, which the proofs cover for any
number; four entries allow a login to come back while ghosts of it remain.
Fairness: world handles what arrives, notices lost servers and advances the
stale counts; a zone handles what arrives; players need not do anything.
`GhostsGo` asks for an end of the login's activity (`Gone`).

`PlayersFound` is about zones whose link is up. It is claimed until world removes an
entry that a player still has (`limited`): `GetCLEIP` does so beyond the limit per
address, and an entry goes stale under a player whose zone has been without a link
for that long. It fails with `LateReports`. The counts, `PointersLive` and `GhostsGo` hold with `LateReports` as well
(137k states with six moves, not among the runs).

### 3.5 Shared tasks

| Run | Properties |
|---|---|
| `SharedTask` (578k) | `OneTaskEach`, `LedByOne`, `RecordsKept`, `NeverOverfull`, `ClosingShort`, `ClosedToNewcomers` |
| `SharedTaskCopies` (509k) | `TypeOK`; `MirrorFollows`: once nothing is on its way, the copy in a player's zone is of the task world has the player in; `RewardedOnce`: over update, load and restart a player that is not `crossed` is paid at most once for a task, and only when it is done; `KeepsParties`: the refinement of `TaskParties` |

Bounds of the first: three players, parties of one to two, two tasks, three
requests, and one of an expiry, a purge and a restart. Three players are a
leader, one who is invited and one who wants the last place, or who starts a task
while invited. With parties of one at least TLC sees the timer armed for empty tasks only;
the theorem `OnlyShortClosing` is about any `MinPlayers`. Nobody kills or moves, since nothing these properties speak of
depends on it. Of the second: two players, two requests, one kill, one move and
one purge or restart, with members that come by a party, an invitation, or a
load. `KeepsParties` holds under the bounds of the first run as well; it is checked in the
second, which has fewer players to permute. Players that are not GMs are interchangeable (`MCSharedTask!PlayerSymmetry`); no property
names one, and the choices made with CHOOSE are of tasks. There is no liveness
claim: a lost packet is repaired when the player zones, and nothing makes
players zone.

What is not claimed: a member whose zone saved a count that world had not yet
confirmed, and that then loads, finds its count at the goal already and is not rewarded; and
a kill reported while world does not answer is counted in the zone only, until
the next load sets the copy back or forward. Both follow from the count being
raised on the copy before world has confirmed it.

## 4. What is proved

For all values of the constants that meet the modules' `ASSUME`s:

| Theorem | Says |
|---|---|
| `SequenceCompare_proofs!CompareIsOrder` | `CompareSequence` orders wrapped numbers as the unwrapped ones at most `HalfWindow` apart |
| `ReliableStream_proofs!TypeCorrect`, `NeverForgets`, `QueueStaysFresh` | `TypeOK`, `NothingForgotten`, `NothingStaleQueued` are invariants |
| `ReliableStreamFifo_proofs!ImplementsFifo` | `DeliversInOrder`: `Spec` implements `FifoDelivery!FifoSpec`, with the histories and `open` (both ends connected) for its variables |
| `ZoneLaunch_proofs!TypeCorrect`, `SignalsReachTheChild` | `TypeOK`, `RefNotReaped`, in every environment |
| `ZoneLaunch_proofs!KilledBeforeGivenUp` | `GivenUpAfterKill`, an action property, in every environment with a retry (`MaxKillFails >= 1`) |
| `ZoneLaunch_proofs!OneProcess` | `OneProcessPerZone` where dead children are reaped before their stop times out |
| `ZoneLaunchReports_proofs!CountStaysRight`, `WorldToldRight` | `RunningCounted`, `ReportedRight` under the same condition |
| `WorldEntry_proofs!TypeCorrect`, `WorldKnowsTheZones`, `OneZoneAdmits` | `TypeOK`, `ViewsAgree`, `AdmittedOnce`, whatever the rules and the timing, with and without lost links; `AdmittedOnce` but for authorizations kept over a lost link |
| `WorldEntry_proofs!OneHost` | `OneHostPerZone` where `SingleHost` holds: no zone fails to boot, a process ends with its zone, world lists a process with what it runs; with lost links, and but for processes that came back over a new one |
| `WorldEntry_proofs!WarnedFirst` | `WarnedBeforeSent` where moreover `~LateAnswers`, until a link breaks or an authorization runs out |
| `ClientPresence_proofs!TypeCorrect`, `ZonesCountedRight`, `PlayersCountedRight`, `PointersAreLive` | `TypeOK`, `ZonesCounted`, `PlayersCounted`, `PointersLive`, with and without `LateReports` |
| `ClientPresence_proofs!NobodyIsLost` | `PlayersFound` where `~LateReports`, with and without lost links |
| `SharedTask_proofs!TypeCorrect` | `TypeOK` |
| `SharedTask_proofs!NobodyInTwoTasks`, `AlwaysLed`, `TableAgrees`, `NoneOverfull`, `OnlyShortClosing` | `OneTaskEach`, `LedByOne`, `RecordsKept`, `NeverOverfull`, `ClosingShort` |
| `SharedTask_proofs!LockedTakesNobodyIn` | `ClosedToNewcomers`, an action property |
| `SharedTask_proofs!ImplementsParties` | `KeepsParties`: `Spec` implements `TaskParties!PartySpec`, with `MembersOf` and the leader of each task for its parties |
| `SharedTask_proofs!ZoneFollows`, `PaidOnce` | `MirrorFollows`, `RewardedOnce` |

The inductive invariants:

* `StreamInv`. `NothingForgotten` is not inductive: an `Ack` on its way may cover
  what is not there. The invariant adds that both counters are the wrapped
  counts of the history, that every packet in a set is the one `wire` has at
  its position, and that an acknowledgement in flight covers only accepted (or,
  out of order, accepted or queued) packets. Then `CompareIsOrder` turns each
  comparison of the code into one of positions, and `SameSeqSamePacket` says
  that two packets of one window with one number are the same.
* `FramingInv`, for the refinement: position `n` of `wire` carries a part of a message,
  and position `n + 1` its next part or the first part of the next message
  (`Framed`); the receiver has delivered a prefix of what was queued and holds
  the head of the message that follows; the packet it waits for carries the
  part it lacks. `StreamInv` makes the packet it accepts the one at its position,
  so that `NextPart` says which part that is. `QueuePacket` maps to `Submit`, the packet
  that completes a message to `Deliver`, the first end to close to `Break`, all
  other steps to stutters.
* `LaunchInv`: `TypeOK`, and a running zone's `ref` is an unreaped child of that
  zone; a zone's kill count is bounded while it runs. `OnTerminateEffect` and
  `ReapedEffect` say what a reaped child does to its zone.
* `KilledFirst`, next to `LaunchInv`: a stop that has timed out before has its process under
  SIGKILL already, since the count of failed kills is only raised where SIGKILL is sent.
  It needs a retry at all: with none the launcher gives up a zone it has only
  asked to end.
* `PromptInv`, under `~SlowKill` and with a stop that may time out once: every unreaped child is held by its
  zone, and a zone about to be given up on has been sent SIGKILL, so that its
  child cannot still be there.
* `ReportInv`, next to those two: `s_running` is the cardinality of the running
  zones and `reported` is their set. `PromptInv` is why it holds: a reaped child
  belongs to a zone that runs and whose `ZoneLaunch` exists, so each call of
  `OnTerminate` takes one running zone away, and `GiveUp`, which would do so a
  second time, is never reached.
* `Tidy`, `ReportsAgree` and `BoundOnce` of `WorldEntry`: a server that is not listed
  runs nothing and carries nothing; the last report on its way is of the zone that is
  loaded, and with neither a report nor an order on its way world knows it (an
  order is always answered by a report, which is what a process that is up
  already would get wrong); at most one server is bound to let a player in,
  that is, holds the authorization (`Held`: an own one, also one that ran out, but none
  it kept over a lost link) with no drop on its way, or has an
  announcement on its way that no drop follows. A process that comes back holds none. `EnterDoes` says what `EnterWorld` appends to
  every link, from what `FlattenSeq` holds: its recursion
  is over a natural number, so that a least counterexample (`LeastNatural`)
  does what the library's induction theorems cannot.
* `HostInv`, under `SingleHost`: what a running process has loaded, was ordered and
  has reported is the one zone world has it down for (`Serves`), no zone is given twice
  among the processes that did not come with theirs (`GivenOnce` over `Chosen`), and a report of no
  zone is the last one, from a process that has ended (`LastWord`). Every
  part of `SingleHost` is needed: without it TLC finds a second host, for
  `FreshGap` in `WorldEntryTwoHosts`, for a zone that fails to boot after four
  requests (it is reported twice, and the second report wipes the next
  boot), for a zone that shuts down in place after three.
* `SentInv`, under `SingleHost` and `~LateAnswers`: a player at character select or
  waiting for a boot is not taken for announced and has no answer to come; an answer to come is from the server of
  the zone that the player waits for, which is bound to let it in; so is the server that a
  player was sent to, as long as it runs. Two listed servers may be down for one zone, when one
  came back with it: `FindByZoneID` takes the earlier one, and since connections are
  numbered as they come (`InOrder`) the server a player was announced to stays the
  one that is found (`Foremost`). With late answers TLC sends a player on the answer
  that was meant for the choice before.
* `IInv` of `ClientPresence`. The list counts what it holds; ids not used are blank; no entry is at a
  lost server; sessions point to listed entries; everything on its way names an
  entry and comes from a server that world still has (`Joined`; a process lives
  in the states of `Running`). Each operation of the list has a
  lemma about its effect on the counts (`SetOnlineCounted`, `UpdateTouches`,
  `LeavingZoneTouches`, `CreatedCounted`, `ErasedCounted`, `RemoveRefCounted`), in
  cardinalities of the two sets counted. The counts are unsigned in
  the code: that none is lowered at 0 is part of `TypeCorrect`.
* `CourseInv`, `OwnedInv`, `NewsInv` next to it, under `~LateReports`, for `PlayersFound`: a
  session that waits or was sent on has nobody in a zone and no report on its way; what
  sessions, zones and reports name is listed, for that login, so that world never makes
  an entry from a report; the last that was said of a player in a
  zone whose link is up is that it is there, on its way or already in the list, which
  the reports of a process that comes back say once more (`UpdateWhoAll`). With `LateReports`
  the first is lost: a login comes back while the report of its old zone is still on its way.
* `SharedTask_proofs!IInv`, about world alone: `Shape` (types; a task whose members are
  being written is live, one whose rows are dropped is not), `Kept` (the table
  differs from memory only at the task being written, and tasks that are gone
  have no members), `Apart`, `Led1`, `Fits`, `Short`. `OneTaskEach` needs `Kept`, since an
  invitation is checked against the table and a request against memory.
  What zones hold and links carry is not in it: world checks every request
  again. `TypeCorrect` needs more than types: a request for a task names a content
  task, an invitation names a task (`Asking`, `Telling`).
* The refinement of `TaskParties` needs no more than `IInv`: a roster maps to a set of players
  and its leader, so the zones, the links and the table disappear. `AttemptSharedTaskCreation`
  maps to `Form`, `AddPlayer` to `Join`, `RemoveMember` to `Part`, `MakeLeader` to
  `HandOver`, locking to `Shut`; an end, a purge and a restart, which loses the tasks that
  have expired, are all `Disband`, of one, all or some tasks; the rest stutters. A
  restart rereads the rosters from the table, and `Kept` is why that
  changes no party; it is also why nobody who has no row is in a party (`Free`).
* `MirrorInv` of `SharedTask_proofs`: a packet that makes the zone read the tables (`Resync`) mends all that
  came before it. So of a player in the zone that has not lapsed, such a packet is on its way, or
  the copy is of the player's task, or the player is in none and the quit of the copy's task is
  on its way; and a quit of a task that the player is in is followed by such
  a packet. What each step of world does to a player is one of four things (`Fate`: it
  remains, it is put out, taken in, or swept by a purge or a restart), and each keeps `Mirror`.
* `RewardInv` next to it: the copy and the rows of a player in the zone agree on the task and
  the reward, or are still to be loaded; an update to the goal is on its way only for a task
  that is done, which is locked or gone (`FinishedOK`); so a player that was paid has
  it in its rows, or is out of the task, and `LockedTakesNobodyIn` keeps it out (`StaysOut`).

Every invariant and every action property that a run checks is stated by a theorem. Only model-checked are
the liveness properties `DeliversEverything`, `SenderSettles`, `DeathNoticed`,
`StopCompletes`, `BootRequestAnswered` and `GhostsGo`, and the failures
of section 6.
Liveness under fairness and ENABLED are beyond the prover, as is induction
over what a recursive definition computes and any module that declares a
RECURSIVE operator; no module here does.

## 5. Plan

In this order; modules extend the five components above or take the next.

1. The zone-to-zone hand-off, as an extension of `WorldEntry` composed with
   `ClientPresence`: the answer given before the next zone has booted, the player
   looked up by name. Properties: a player is in one zone; a failed hand-off
   leaves it in the zone it was in.
2. Shared tasks with several activities and with their dynamic zone; then dynamic
   zones and expeditions by themselves, which are mirrored the same way.
3. `StreamSession`: connect, reconnect with a new code, staleness and what is left in
   `EQStreamManager`.
4. The launcher control in world composed with `ZoneLaunch`; trade; the login
   server's play request.

Bounds stay at two or three actors and a handful of requests. Runs are kept few:
the wild and the plain environment of a component, and one for each finding.

## 6. Findings

* **Merged SIGCHLDs lose a death** (`ZoneLaunchMergedDeath`). The handler counts
  signals and `ProcLauncher::Process` calls `waitpid` once per count
  (`common/proc_launcher.cpp:87`). Standard signals do not queue: when two zones die
  before the handler runs, one stays a zombie and its zone `Started`, not started
  again until another child's death lets it be reaped in its stead.
* **A restart of a zone that ignores SIGTERM hangs** (`ZoneLaunchRestartHangs`). The
  retry at `eqlaunch/zone_launch.cpp:191`, "try to kill the child again", calls
  `Restart()`, whose case for this state only logs. A stop request gets it out.
* **A boot given to a process not yet heard of is forgotten** (`WorldEntryTwoHosts`).
  A `ZoneServer` counts as idle from its connection on (`world/zonelist.cpp:756`).
  The first `SetZone(0)` of the process, sent before the boot reached it, clears the
  boot in world; the player is told the zone is unavailable, and a next
  request for that zone, if it comes before the process reports it, may boot it
  in a second process.

## 7. What is not modelled

Data without ordering: packet layouts and patches, encodings, compression, SQL
and the generated repositories, items, loot, combat, spells, AI, pathing.
Scripts and quests, which are data outside the repository. Command line tools
and tests. Vendored libraries. Components that are sequential and stateless:
query server, console, web interface. Memory-level races between the few
threads (DNS, database workers, the task scheduler) are not reached by models
at the granularity of handlers. Of lost links: what a zone does with the shared
tasks while it has none (`SharedTask` has links that lose what is sent to players in
no known zone, and world's restarts), and the launcher's view of a process that lives on
without world. The parts that do have hard orderings but
no module yet are in section 5, with their hazards in `PROJECT.json`.
