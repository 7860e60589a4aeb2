------------------------------ MODULE SharedTask ------------------------------
(***************************************************************************)
(* Shared tasks: world's SharedTaskManager decides who is a member, who    *)
(* leads and how far the task is; its database tables mirror that; each    *)
(* player's zone keeps a copy of the task (ClientTaskState), in memory and *)
(* in the character's own tables, that follows world's messages and is     *)
(* brought in line with the tables whenever the player enters a zone.      *)
(*                                                                         *)
(* Players are in the zone or away from it.  One FIFO link each way joins  *)
(* a player's zone and world.  A task here has one activity and no timers, *)
(* levels or dynamic zones; scripts lock tasks and never unlock them.  The *)
(* handlers of world are atomic but for the rewriting of a task's members  *)
(* and the dropping of its rows, which a zone can read half way.           *)
(***************************************************************************)
EXTENDS Integers, Sequences, FiniteSets

CONSTANTS
  Players,        \* characters
  GMs,            \* those that may start a task with too few players
  Templates,      \* tasks of the content database
  LocksAtOnce,    \* the ones whose lock activity is active from the start
  Expiring,       \* the ones with a duration
  MinPlayers, MaxPlayers,
  Goal,           \* goalcount of the activity
  MaxTasks,       \* bound: shared tasks over a behaviour
  MaxRequests,    \* bound: what players ask for over a behaviour
  MaxKills,       \* bound: kills over a behaviour
  MaxOut,         \* bound: requests of a player on their way
  MaxMoves,       \* bound: how often players leave the zone
  MaxEvents       \* bound: expirations, restarts of world and purges of all

ASSUME SharedTaskAssumption ==
  /\ IsFiniteSet(Players) /\ GMs \subseteq Players
  /\ LocksAtOnce \subseteq Templates /\ Expiring \subseteq Templates
  /\ {MinPlayers, MaxTasks, MaxRequests, MaxKills, MaxOut, MaxMoves,
      MaxEvents} \subseteq Nat
  /\ {MaxPlayers, Goal} \subseteq Nat \ {0}

Ids    == 1 .. MaxTasks
NoTask == 0
Roles  == {"none", "member", "leader"}
Roster == [Players -> Roles]

VARIABLES
  made,      \* ids given out: the auto increment of shared_tasks
  tmpl,      \* id -> the content task it was made from
  live,      \* ids in m_shared_tasks
  members,   \* id -> m_members
  rows,      \* id -> shared_task_members
  done,      \* id -> done_count of the activity, in memory and in the table
  locked,    \* ids with is_locked
  closing,   \* ids whose terminate_timer runs
  invited,   \* m_active_invitations: <<id, player>>
  saving,    \* the handler that is between two statements, and its task
  known,     \* players whose cle has a Server()
  present,   \* players in the zone
  copy,      \* player -> m_active_shared_task and m_shared_task_id
  row,       \* player -> character_tasks and character_activities
  dialogs,   \* player -> invitations on the screen
  inbox,     \* player -> packets of world on their way
  outbox,    \* player -> packets of the zone on their way
  spent,     \* the bounds used up
  paid,      \* history: id -> player -> rewards for it
  emptied,   \* history: ids that have run out of members
  lapsed,    \* history: players whose copy missed something, until they load
  crossed    \* history: players whose copy of a task has met the rows or the
             \* end of another, or rows or an end that the task's roster
             \* does not bear out

vars == <<made, tmpl, live, members, rows, done, locked, closing, invited,
          saving, known, present, copy, row, dialogs, inbox, outbox, spent,
          paid, emptied, lapsed, crossed>>

Idle    == [task |-> NoTask, at |-> "idle"]
NoRow   == [task |-> NoTask, count |-> 0, full |-> FALSE, rewarded |-> FALSE]
NoCopy  == [task |-> NoTask, count |-> 0, full |-> FALSE, rewarded |-> FALSE,
            updated |-> FALSE, id |-> NoTask]
Nobody  == [p \in Players |-> "none"]

Packets  == [op : {"load", "accept", "quit", "update", "invite"},
             id : 0 .. MaxTasks, n : 0 .. Goal]
Requests == [op : {"announce", "leave", "request", "quit", "kickall", "remove",
                   "makeleader", "add", "lock", "end", "yes", "no", "update"},
             task : Templates \cup {NoTask} \cup Ids, who : Players, n : 0 .. Goal]

TypeOK ==
  /\ made \in 0 .. MaxTasks
  /\ tmpl \in [Ids -> Templates \cup {NoTask}]
  /\ live \subseteq 1 .. made
  /\ members \in [Ids -> Roster] /\ rows \in [Ids -> Roster]
  /\ done \in [Ids -> 0 .. Goal]
  /\ {locked, closing, emptied} \subseteq SUBSET Ids
  /\ invited \subseteq Ids \X Players
  /\ saving \in [task : 0 .. MaxTasks, at : {"idle", "delete", "insert", "drop"}]
  /\ {known, present, lapsed, crossed} \subseteq SUBSET Players
  /\ copy \in [Players -> [task : 0 .. MaxTasks, count : 0 .. Goal, full : BOOLEAN,
       rewarded : BOOLEAN, updated : BOOLEAN, id : 0 .. MaxTasks]]
  /\ row \in [Players -> [task : 0 .. MaxTasks, count : 0 .. Goal, full : BOOLEAN,
       rewarded : BOOLEAN]]
  /\ dialogs \in [Players -> SUBSET Ids]
  /\ inbox \in [Players -> Seq(Packets)]
  /\ outbox \in [Players -> Seq(Requests)]
  /\ spent \in [requests : 0 .. MaxRequests, kills : 0 .. MaxKills,
                moves : 0 .. MaxMoves, events : 0 .. MaxEvents]
  /\ paid \in [Ids -> [Players -> Nat]]

Init ==
  /\ made = 0
  /\ tmpl = [i \in Ids |-> NoTask]
  /\ live = {}
  /\ members = [i \in Ids |-> Nobody] /\ rows = [i \in Ids |-> Nobody]
  /\ done = [i \in Ids |-> 0]
  /\ locked = {} /\ closing = {} /\ emptied = {}
  /\ invited = {}
  /\ saving = Idle
  /\ known = Players /\ present = Players /\ lapsed = {} /\ crossed = {}
  /\ copy = [p \in Players |-> NoCopy] /\ row = [p \in Players |-> NoRow]
  /\ dialogs = [p \in Players |-> {}]
  /\ inbox = [p \in Players |-> <<>>] /\ outbox = [p \in Players |-> <<>>]
  /\ spent = [requests |-> 0, kills |-> 0, moves |-> 0, events |-> 0]
  /\ paid = [i \in Ids |-> [p \in Players |-> 0]]

-----------------------------------------------------------------------------
(* SharedTask and SharedTaskManager *)

MembersOf(i) == {p \in Players : members[i][p] # "none"}
Size(i)      == Cardinality(MembersOf(i))
IsLeader(i, p) == members[i][p] = "leader"

\* FindSharedTaskByTaskIdAndCharacterId: t is a content task, not a shared one.
Found(t, p) == {i \in live : tmpl[i] = t /\ p \in MembersOf(i)}

SlipFindsLeaders(g) == {p \in g : \E i \in live : IsLeader(i, p)}
FindCharactersInSharedTasks(g) == {p \in g : \E i \in live : p \in MembersOf(i)}

\* The sizes a party may have when p asks for a task.
CanRequestSharedTask(p, g) ==
  /\ FindCharactersInSharedTasks(g) = {}
  /\ p \in GMs \cap known \/ Cardinality(g) >= MinPlayers
  /\ Cardinality(g) <= MaxPlayers

SlipIgnoresTable(i, p, inv) ==
  i \notin locked /\ p \in known /\ (\A j \in Ids : <<j, p>> \notin inv)
  /\ Size(i) < MaxPlayers
SlipIgnoresLock(i, p, inv) ==
  p \in known /\ (\A j \in Ids : rows[j][p] = "none" /\ <<j, p>> \notin inv)
  /\ Size(i) < MaxPlayers
SlipOneTooMany(i, p, inv) ==
  /\ i \notin locked /\ p \in known
  /\ \A j \in Ids : rows[j][p] = "none" /\ <<j, p>> \notin inv
  /\ Size(i) <= MaxPlayers
\* inv are the invitations that are outstanding.
CanAddPlayer(i, p, inv) ==
  /\ i \notin locked
  /\ p \in known
  /\ \A j \in Ids : rows[j][p] = "none" /\ <<j, p>> \notin inv
  /\ Size(i) < MaxPlayers

\* roster r, led by q; a q that is no member changes nothing.
SlipLeadsAlong(r, q) == [r EXCEPT ![q] = "leader"]
MakeLeader(r, q) ==
  [p \in Players |-> IF r[p] = "none" THEN "none"
                     ELSE IF p = q THEN "leader" ELSE "member"]

-----------------------------------------------------------------------------
(* Packets *)

Packet(op, i, n) == [op |-> op, id |-> i, n |-> n]
Request(op, t, q, n) == [op |-> op, task |-> t, who |-> q, n |-> n]

Loading(p) == \E k \in DOMAIN inbox[p] : inbox[p][k].op = "load"

\* World sends packet m to each of s: without a Server() it is lost, and a zone
\* does not find a player that has left.
Tell(s, m) ==
  /\ inbox' = [p \in Players |-> IF p \in s \cap known \cap present
                                 THEN Append(inbox[p], m) ELSE inbox[p]]
  /\ lapsed' = lapsed \cup {p \in (s \cap present) \ known : ~Loading(p)}

TellNobody == UNCHANGED <<inbox, lapsed>>

\* The first request of p reaches world, which is done with the one before.
Receives(p, op) ==
  /\ saving = Idle
  /\ outbox[p] # <<>>
  /\ Head(outbox[p]).op = op
  /\ outbox' = [outbox EXCEPT ![p] = Tail(@)]
  /\ UNCHANGED <<present, copy, row, dialogs, spent, paid, crossed>>

Spends(what, max) == spent[what] < max /\ spent' = [spent EXCEPT ![what] = @ + 1]

Asks(p, m) == outbox' = [outbox EXCEPT ![p] = Append(@, m)]

-----------------------------------------------------------------------------
(* World: what becomes of a task.  Each leaves outbox to its caller. *)

RemoveMember(i, p) ==
  LET rest == [members[i] EXCEPT ![p] = "none"]
      left == MembersOf(i) \ {p}
  IN /\ rows' = [rows EXCEPT ![i][p] = "none"]
     /\ IF IsLeader(i, p) /\ left # {}
        THEN /\ \E q \in left : members' = [members EXCEPT ![i] = MakeLeader(rest, q)]
             /\ saving' = [task |-> i, at |-> "delete"]
        ELSE /\ members' = [members EXCEPT ![i] = rest]
             /\ UNCHANGED saving
     /\ closing' = IF Cardinality(left) < MinPlayers THEN closing \cup {i} ELSE closing
     /\ emptied' = IF left = {} THEN emptied \cup {i} ELSE emptied
     /\ Tell({p}, Packet("quit", i, 0))
     /\ UNCHANGED <<made, tmpl, live, done, locked, invited, known>>

\* Terminate and RemoveEveryoneFromSharedTask, with DeleteSharedTask.  The
\* invitations to it stay.
Terminate(i) ==
  /\ live' = live \ {i}
  /\ members' = [members EXCEPT ![i] = Nobody]
  /\ closing' = closing \ {i}
  /\ saving' = [task |-> i, at |-> "drop"]
  /\ locked' = locked \ {i} /\ emptied' = emptied \ {i}
  /\ Tell(MembersOf(i), Packet("quit", i, 0))
  /\ UNCHANGED <<made, tmpl, rows, done, invited, known>>

-----------------------------------------------------------------------------
(* World: SharedTaskWorldMessaging::HandleZoneMessage *)

\* UpdateWho: world knows where p is.
Announced(p) ==
  /\ Receives(p, "announce")
  /\ known' = known \cup {p}
  /\ TellNobody
  /\ UNCHANGED <<made, tmpl, live, members, rows, done, locked, closing,
                 invited, saving, emptied>>

\* p's zone is done with it.  One that goes offline loses its character id
\* before its invitations are looked up by it: only one that zones loses them.
LeavingZone(p) ==
  /\ Receives(p, "leave")
  /\ known' = known \ {p}
  /\ invited' \in {invited, {v \in invited : v[2] # p}}
  /\ TellNobody
  /\ UNCHANGED <<made, tmpl, live, members, rows, done, locked, closing,
                 saving, emptied>>

\* The requester's group or raid, or the requester alone, is the party.  The
\* rows are written before anybody is told.
AttemptSharedTaskCreation(p, g) ==
  LET t == Head(outbox[p]).task
      party == [q \in Players |->
                 IF q = p THEN "leader" ELSE IF q \in g THEN "member" ELSE "none"]
  IN /\ Receives(p, "request")
     /\ p \in g
     /\ IF CanRequestSharedTask(p, g) /\ made < MaxTasks
        THEN /\ made' = made + 1
             /\ tmpl' = [tmpl EXCEPT ![made'] = t]
             /\ live' = live \cup {made'}
             /\ members' = [members EXCEPT ![made'] = party]
             /\ rows' = [rows EXCEPT ![made'] = party]
             /\ locked' = IF t \in LocksAtOnce THEN locked \cup {made'} ELSE locked
             /\ Tell(g, Packet("accept", made', 0))
        ELSE /\ TellNobody
             /\ UNCHANGED <<made, tmpl, live, members, rows, locked>>
     /\ UNCHANGED <<done, closing, invited, saving, known, emptied>>

\* The task that p's first request is about, and p leads it.
Asked(p) == Found(Head(outbox[p]).task, p)
Led(p)   == {i \in Asked(p) : IsLeader(i, p)}

\* A request that does not, or not any more, concern a task.
Ignored ==
  /\ TellNobody
  /\ UNCHANGED <<made, tmpl, live, members, rows, done, locked, closing,
                 invited, saving, known, emptied>>

SharedTaskQuit(p) ==
  /\ Receives(p, "quit")
  /\ IF Asked(p) = {} THEN Ignored ELSE \E i \in Asked(p) : RemoveMember(i, p)

SharedTaskKickPlayers(p) ==
  /\ Receives(p, "kickall")
  /\ IF Led(p) = {} THEN Ignored ELSE \E i \in Led(p) : Terminate(i)

SharedTaskRemovePlayer(p) ==
  LET q == Head(outbox[p]).who
      s == {i \in Led(p) : q \in MembersOf(i)}
  IN /\ Receives(p, "remove")
     /\ IF s = {} THEN Ignored ELSE \E i \in s : RemoveMember(i, q)

SharedTaskMakeLeader(p) ==
  LET q == Head(outbox[p]).who
      s == {i \in Led(p) : q \in MembersOf(i) \ {p}}
  IN /\ Receives(p, "makeleader")
     /\ IF s = {} THEN Ignored ELSE
        \E i \in s :
          /\ members' = [members EXCEPT ![i] = MakeLeader(@, q)]
          /\ saving' = [task |-> i, at |-> "delete"]
          /\ TellNobody
          /\ UNCHANGED <<made, tmpl, live, rows, done, locked, closing,
                         invited, known, emptied>>

InvitePlayerByPlayerName(p) ==
  LET q == Head(outbox[p]).who
      s == {i \in Led(p) : CanAddPlayer(i, q, invited)}
  IN /\ Receives(p, "add")
     /\ IF s = {} THEN Ignored ELSE
        \E i \in s :
          /\ invited' = invited \cup {<<i, q>>}
          /\ Tell({q}, Packet("invite", i, 0))
          /\ UNCHANGED <<made, tmpl, live, members, rows, done, locked,
                         closing, saving, known, emptied>>

SlipKeepsClosing(i, p) ==
  /\ members' = [members EXCEPT ![i][p] = "member"]
  /\ saving' = [task |-> i, at |-> "delete"] /\ closing' = closing
  /\ Tell({p}, Packet("accept", i, 0))
\* The player is told before the table has it.
AddPlayer(i, p) ==
  /\ members' = [members EXCEPT ![i][p] = "member"]
  /\ saving' = [task |-> i, at |-> "delete"]
  /\ closing' = IF Size(i) + 1 >= MinPlayers THEN closing \ {i} ELSE closing
  /\ Tell({p}, Packet("accept", i, 0))

\* An answer to an invitation counts as long as world has the task and knows of
\* the invitation; whether the player may join is looked at once more.
InviteAnswered(p, answer) ==
  LET i == Head(outbox[p]).task
      rest == invited \ {<<i, p>>}
  IN /\ Receives(p, answer)
     /\ IF i \notin live \/ <<i, p>> \notin invited THEN Ignored ELSE
        /\ invited' = rest
        /\ IF answer = "yes" /\ p \notin MembersOf(i) /\ CanAddPlayer(i, p, rest)
           THEN AddPlayer(i, p)
           ELSE TellNobody /\ UNCHANGED <<members, saving, closing>>
        /\ UNCHANGED <<made, tmpl, live, rows, done, locked, known, emptied>>

\* World takes a count that is ahead of its own, saves it and confirms it to
\* every member; the task that is done is locked.
SharedTaskActivityUpdate(p) ==
  LET n == Head(outbox[p]).n
      s == {i \in Asked(p) : done[i] < n}
  IN /\ Receives(p, "update")
     /\ IF s = {} THEN Ignored ELSE
        \E i \in s :
          /\ done' = [done EXCEPT ![i] = n]
          /\ locked' = IF n = Goal THEN locked \cup {i} ELSE locked
          /\ Tell(MembersOf(i), Packet("update", i, n))
          /\ UNCHANGED <<made, tmpl, live, members, rows, closing, invited,
                         saving, known, emptied>>

LockTask(p) ==
  /\ Receives(p, "lock")
  /\ locked' = locked \cup Asked(p)
  /\ TellNobody
  /\ UNCHANGED <<made, tmpl, live, members, rows, done, closing, invited,
                 saving, known, emptied>>

SharedTaskEnd(p) ==
  /\ Receives(p, "end")
  /\ IF Asked(p) = {} THEN Ignored ELSE \E i \in Asked(p) : Terminate(i)

-----------------------------------------------------------------------------
(* World on its own *)

\* The second half of SaveMembers and of DeleteSharedTask.
SaveStep(from, to, r) ==
  /\ saving.at = from
  /\ rows' = [rows EXCEPT ![saving.task] = r]
  /\ saving' = to
  /\ UNCHANGED <<made, tmpl, live, members, done, locked, closing, invited,
                 known, present, copy, row, dialogs, inbox, outbox, spent,
                 paid, emptied, lapsed, crossed>>

DeleteRows == SaveStep("delete", [saving EXCEPT !.at = "insert"], Nobody)
InsertRows == SaveStep("insert", Idle, members[saving.task])
SlipKeepsRows == SaveStep("drop", Idle, rows[saving.task])
DropRows   == SaveStep("drop", Idle, Nobody)

\* A task ends without members, when its two minutes are over, or expired.
Process(i) ==
  /\ saving = Idle
  /\ i \in live
  /\ IF Size(i) = 0 \/ i \in closing
     THEN UNCHANGED spent
     ELSE tmpl[i] \in Expiring /\ Spends("events", MaxEvents)
  /\ Terminate(i)
  /\ UNCHANGED <<present, copy, row, dialogs, outbox, paid, crossed>>

\* A GM's command; every zone syncs its clients.
PurgeAllSharedTasks ==
  /\ saving = Idle
  /\ Spends("events", MaxEvents)
  /\ live' = {} /\ closing' = {} /\ locked' = {} /\ emptied' = {}
  /\ members' = [i \in Ids |-> Nobody] /\ rows' = [i \in Ids |-> Nobody]
  /\ inbox' = [p \in Players |-> IF p \in present
                 THEN Append(inbox[p], Packet("load", NoTask, 0)) ELSE inbox[p]]
  /\ UNCHANGED <<made, tmpl, done, invited, saving, known, present, copy, row,
                 dialogs, outbox, paid, lapsed, crossed>>

\* World starts again from its tables and deletes the tasks in x, which have
\* expired meanwhile; the zones connect and announce their clients.
LoadSharedTaskState(x) ==
  /\ saving = Idle
  /\ x \subseteq {i \in live : tmpl[i] \in Expiring}
  /\ Spends("events", MaxEvents)
  /\ live' = {i \in live : i \notin x}
  /\ rows' = [i \in Ids |-> IF i \in x THEN Nobody ELSE rows[i]]
  /\ members' = rows'
  /\ closing' = {} /\ invited' = {} /\ known' = {}
  /\ locked' = locked \ x /\ emptied' = emptied \ x
  /\ outbox' = [p \in Players |-> IF p \in present
                 THEN <<Request("announce", NoTask, p, 0)>> ELSE <<>>]
  /\ lapsed' = lapsed \cup {p \in present : \E i \in x : rows[i][p] # "none"}
  /\ UNCHANGED <<made, tmpl, done, saving, present, copy, row, dialogs, inbox,
                 paid, crossed>>

-----------------------------------------------------------------------------
(* The zone: the copy of a task and the player's own tables *)

TaskOf(r, p) == IF \E i \in Ids : r[i][p] # "none"
                THEN CHOOSE i \in Ids : r[i][p] # "none" ELSE NoTask

SlipStaysOut(c, i) == c
\* SyncClientSharedTaskStateToLocal: a member without a copy is given one.
StateToLocal(c, i) ==
  IF c.task = NoTask /\ i # NoTask
  THEN [task |-> i, count |-> done[i], full |-> done[i] = Goal, rewarded |-> FALSE]
  ELSE c

Foreign(c, i) == i # NoTask /\ c.task \notin {NoTask, i}
Behind(c, i)  == c.task # NoTask /\ i # NoTask /\ c.count < done[i]
Pays(c, i)    == Behind(c, i) /\ done[i] = Goal /\ ~c.rewarded

SlipForgetsReward(c, i) ==
  IF Behind(c, i) THEN [c EXCEPT !.count = done[i], !.full = (done[i] = Goal)] ELSE c
\* SyncClientSharedTaskWithPersistedState: a copy that is behind catches up, and
\* is rewarded when that completes it.  It may be a copy of another task.
WithPersistedState(c, i) ==
  IF Behind(c, i)
  THEN [c EXCEPT !.count = done[i], !.full = (done[i] = Goal),
                 !.rewarded = @ \/ Pays(c, i)]
  ELSE c

\* LoadClientTaskState of p, whose tables say c.
LoadClientTaskState(p, c) ==
  LET i == TaskOf(rows, p)
      had == StateToLocal(c, i)
      now == IF i = NoTask THEN NoRow ELSE WithPersistedState(had, i)
  IN /\ row' = [row EXCEPT ![p] = now]
     /\ copy' = [copy EXCEPT ![p] =
          [task |-> now.task, count |-> now.count, full |-> now.full,
           rewarded |-> now.rewarded, updated |-> now.task # NoTask /\ ~now.full,
           id |-> i]]
     /\ paid' = IF Pays(had, i) THEN [paid EXCEPT ![i][p] = @ + 1] ELSE paid
     /\ lapsed' = IF saving # Idle \/ Foreign(c, i)
                  THEN lapsed \cup {p} ELSE lapsed \ {p}
     /\ crossed' = IF Foreign(c, i) \/ i # TaskOf(members, p)
                   THEN crossed \cup {p} ELSE crossed

\* SaveClientState writes what is marked as updated.
Saved(p) ==
  IF copy[p].task # NoTask /\ copy[p].updated
  THEN [row[p] EXCEPT !.count = copy[p].count, !.full = copy[p].full]
  ELSE row[p]

Gets(p, op) ==
  /\ inbox[p] # <<>>
  /\ Head(inbox[p]).op = op
  /\ inbox' = [inbox EXCEPT ![p] = Tail(@)]
  /\ UNCHANGED <<made, tmpl, live, members, rows, done, locked, closing,
                 invited, saving, known, present, outbox, spent, emptied>>

\* On the way into the zone, and on a purge.
Loads(p) ==
  /\ Gets(p, "load")
  /\ LoadClientTaskState(p, row[p])
  /\ UNCHANGED dialogs

\* AcceptNewTask leaves a slot that is taken alone; then all is loaded.
SharedTaskAcceptNewTask(p) ==
  LET i == Head(inbox[p]).id
  IN /\ Gets(p, "accept")
     /\ LoadClientTaskState(p, IF copy[p].task = NoTask
                               THEN [NoRow EXCEPT !.task = i] ELSE row[p])
     /\ UNCHANGED dialogs

\* CancelTask clears the slot, whatever task is in it.
Cancelled(p) ==
  LET i == Head(inbox[p]).id
  IN /\ Gets(p, "quit")
     /\ copy' = [copy EXCEPT ![p].task = NoTask, ![p].id = NoTask]
     /\ row' = [row EXCEPT ![p] = NoRow]
     /\ LET other == IF copy[p].task \in {NoTask, i} THEN {} ELSE {p}
        IN /\ lapsed' = lapsed \cup other
           /\ crossed' = crossed \cup other \cup
                           IF TaskOf(members, p) = i THEN {p} ELSE {}
     /\ UNCHANGED <<dialogs, paid>>

SlipAddsCount(c, n) ==
  [c EXCEPT !.count = @ + n, !.full = @ \/ n = Goal, !.rewarded = @ \/ n = Goal,
            !.updated = FALSE]
\* The count of world replaces that of the copy, forward or backward; with the
\* goal comes the reward, once; and the copy is saved.
Confirmed(c, n) ==
  [c EXCEPT !.count = n, !.full = @ \/ n = Goal, !.rewarded = @ \/ n = Goal,
            !.updated = FALSE]

SharedTaskIncrementDoneCount(p) ==
  LET m == Head(inbox[p])
      now == Confirmed(copy[p], m.n)
  IN /\ Gets(p, "update")
     /\ copy' = [copy EXCEPT ![p] = now]
     /\ row' = IF now.task = NoTask THEN row ELSE
               [row EXCEPT ![p] = [task |-> now.task, count |-> now.count,
                                   full |-> now.full, rewarded |-> now.rewarded]]
     /\ paid' = IF now.rewarded /\ ~copy[p].rewarded
                THEN [paid EXCEPT ![m.id][p] = @ + 1] ELSE paid
     /\ crossed' = IF copy[p].task = m.id THEN crossed ELSE crossed \cup {p}
     /\ UNCHANGED <<dialogs, lapsed>>

InvitePlayer(p) ==
  /\ Gets(p, "invite")
  /\ dialogs' = [dialogs EXCEPT ![p] = @ \cup {Head(inbox[p]).id}]
  /\ UNCHANGED <<copy, row, paid, lapsed, crossed>>

-----------------------------------------------------------------------------
(* Players *)

Playing(p) ==
  /\ p \in present /\ ~Loading(p)
  /\ UNCHANGED <<made, tmpl, live, members, rows, done, locked, closing,
                 invited, saving, known, present, inbox, paid, emptied, lapsed,
                 crossed>>

RequestTask(p, t) ==
  /\ Playing(p)
  /\ Len(outbox[p]) < MaxOut
  /\ Spends("requests", MaxRequests)
  /\ Asks(p, Request("request", t, p, 0))
  /\ UNCHANGED <<copy, row, dialogs>>

\* What the packet handlers and the scripts ask for of the task in the slot.
Commands(p, op, q) ==
  /\ Playing(p)
  /\ copy[p].task # NoTask
  /\ Len(outbox[p]) < MaxOut
  /\ Spends("requests", MaxRequests)
  /\ Asks(p, Request(op, tmpl[copy[p].task], q, 0))
  /\ UNCHANGED <<copy, row, dialogs>>

Answers(p, i, answer) ==
  /\ Playing(p)
  /\ i \in dialogs[p]
  /\ dialogs' = [dialogs EXCEPT ![p] = @ \ {i}]
  /\ Asks(p, Request(answer, i, p, 0))
  /\ UNCHANGED <<copy, row, spent>>

\* IncrementDoneCount asks world and counts meanwhile for every client of the
\* zone with the same shared task (SyncSharedTaskZoneClientDoneCountState).
Kills(p) ==
  LET n == IF copy[p].count < Goal THEN copy[p].count + 1 ELSE Goal
  IN /\ Playing(p)
     /\ copy[p].task # NoTask /\ ~copy[p].full
     /\ Len(outbox[p]) < MaxOut
     /\ Spends("kills", MaxKills)
     /\ Asks(p, Request("update", tmpl[copy[p].task], p, n))
     /\ copy' = [q \in Players |->
          IF q \in present /\ copy[q].id = copy[p].id
          THEN [copy[q] EXCEPT !.count = n] ELSE copy[q]]
     /\ UNCHANGED <<row, dialogs>>

\* Client::Save, now and then.
Saves(p) ==
  /\ Playing(p)
  /\ copy[p].updated
  /\ row' = [row EXCEPT ![p] = Saved(p)]
  /\ copy' = [copy EXCEPT ![p].updated = FALSE]
  /\ UNCHANGED <<dialogs, outbox, spent>>

LeaveZone(p) ==
  /\ p \in present
  /\ Spends("moves", MaxMoves)
  /\ present' = present \ {p}
  /\ row' = [row EXCEPT ![p] = Saved(p)]
  /\ copy' = [copy EXCEPT ![p] = NoCopy]
  /\ dialogs' = [dialogs EXCEPT ![p] = {}]
  /\ inbox' = [inbox EXCEPT ![p] = <<>>]
  /\ lapsed' = lapsed \ {p}
  /\ Asks(p, Request("leave", NoTask, p, 0))
  /\ UNCHANGED <<made, tmpl, live, members, rows, done, locked, closing,
                 invited, saving, known, paid, emptied, crossed>>

EnterZone(p) ==
  /\ p \notin present
  /\ present' = present \cup {p}
  /\ inbox' = [inbox EXCEPT ![p] = <<Packet("load", NoTask, 0)>>]
  /\ Asks(p, Request("announce", NoTask, p, 0))
  /\ UNCHANGED <<made, tmpl, live, members, rows, done, locked, closing,
                 invited, saving, known, copy, row, dialogs, spent, paid,
                 emptied, lapsed, crossed>>

Actions(p) ==
  \/ Announced(p) \/ LeavingZone(p)
  \/ \E g \in SUBSET Players : AttemptSharedTaskCreation(p, g)
  \/ SharedTaskQuit(p) \/ SharedTaskKickPlayers(p) \/ SharedTaskRemovePlayer(p)
  \/ SharedTaskMakeLeader(p) \/ InvitePlayerByPlayerName(p)
  \/ \E answer \in {"yes", "no"} : InviteAnswered(p, answer)
  \/ SharedTaskActivityUpdate(p) \/ LockTask(p) \/ SharedTaskEnd(p)
  \/ Loads(p) \/ SharedTaskAcceptNewTask(p) \/ Cancelled(p)
  \/ SharedTaskIncrementDoneCount(p) \/ InvitePlayer(p)
  \/ \E t \in Templates : RequestTask(p, t)
  \/ \E op \in {"quit", "kickall", "lock", "end"} : Commands(p, op, p)
  \/ \E op \in {"remove", "makeleader", "add"}, q \in Players : Commands(p, op, q)
  \/ \E i \in Ids, answer \in {"yes", "no"} : Answers(p, i, answer)
  \/ Kills(p) \/ Saves(p) \/ LeaveZone(p) \/ EnterZone(p)

Next ==
  \/ \E p \in Players : Actions(p)
  \/ DeleteRows \/ InsertRows \/ DropRows
  \/ \E i \in Ids : Process(i)
  \/ PurgeAllSharedTasks
  \/ \E x \in SUBSET Ids : LoadSharedTaskState(x)

Spec == Init /\ [][Next]_vars

-----------------------------------------------------------------------------
(* Properties *)

\* A player is a member of one task at most, although a request looks at the
\* tasks in memory, an invitation at the table, and the player may ask for a
\* task of its own while an invitation is open.
OneTaskEach ==
  \A i, j \in live, p \in Players :
    p \in MembersOf(i) /\ p \in MembersOf(j) => i = j

\* A task that has never run out of members has one leader, whoever leaves, is
\* removed or made leader (RemoveMember, ChooseNewLeader).
LedByOne ==
  \A i \in live : i \notin emptied =>
    Cardinality({p \in Players : IsLeader(i, p)}) = 1

\* Between two requests the table of members says what world has in memory, so
\* that a restart loses nobody and nobody stays a member of a task that is gone.
RecordsKept ==
  saving = Idle => \A i \in Ids : rows[i] = IF i \in live THEN members[i] ELSE Nobody

\* A task is never over its size, also when several invitations are answered.
NeverOverfull == \A i \in live : Size(i) <= MaxPlayers

\* Nobody joins a task that is locked, also with an invitation from before.
ClosedToNewcomers ==
  [][\A i \in locked : {p \in Players : members'[i][p] # "none"} \subseteq MembersOf(i)]_vars

\* The tasks as parties: TaskParties, without the zones, links and tables.
PartyAt == [i \in Ids |-> MembersOf(i)]
LeadAt  == [i \in Ids |-> {p \in Players : IsLeader(i, p)}]
Parties == INSTANCE TaskParties WITH formed <- made, standing <- live,
             party <- PartyAt, lead <- LeadAt, shut <- locked

\* Whatever the messages, their order, the tables and restarts do to the tasks,
\* players only ever form, join, leave, hand over, lock and disband parties.
KeepsParties == Parties!PartySpec

\* Only a task with too few members is about to be ended for that.
ClosingShort == \A i \in closing : Size(i) < MinPlayers

\* The player is in the zone, world knows, and nothing is on its way.
Settled(p) ==
  p \in present \cap known /\ inbox[p] = <<>> /\ saving = Idle /\ p \notin lapsed

\* The copy in the zone is of the task the player is a member of, through all
\* zoning, ends, purges and restarts, unless it has lapsed: a packet was lost on
\* a player that world did not know to be in the zone, the tables were read half
\* written, the copy was of another task, or a quit hit another task.
MirrorFollows ==
  \A p \in Players : Settled(p) => copy[p].task = TaskOf(members, p)

\* A member is rewarded once at most for a task, and only when world has it as
\* done, whether the reward comes with the update or with the load of the copy.
\* Who is in crossed may be paid twice: CancelTask forgets that the reward was
\* given, so a player that is taken in, put out and taken back before its zone has
\* read any of it, while the task gets done, is paid by both loads.
RewardedOnce ==
  \A i \in Ids, p \in Players \ crossed : paid[i][p] <= IF done[i] = Goal THEN 1 ELSE 0
=============================================================================
