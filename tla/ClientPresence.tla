--------------------------- MODULE ClientPresence ---------------------------
(***************************************************************************)
(* The world server's list of who is in the game (ClientListEntry), the    *)
(* players it counts per zone server and in all, and how they follow the   *)
(* players: world sessions, reports of the zone processes (UpdateWho)      *)
(* over a FIFO link each, entries that go stale, zone servers that sleep,  *)
(* die, or lose their link and connect again.  A login is an account with  *)
(* the key that the login server gave it, and the one character it plays.  *)
(*                                                                         *)
(* Keep-alives are not messages here: an entry that somebody keeps alive   *)
(* does not go stale.  How a player finds its zone is the module           *)
(* WorldEntry.  World notices the end of a link before the process is back *)
(* on a new one.  Server 0 is a null ZoneServer, entry 0 a null entry.     *)
(***************************************************************************)
EXTENDS Integers, Sequences, FiniteSets

CONSTANTS
  NLogins,        \* logins that play
  NServers,       \* zone server connections at a time
  NEntries,       \* bound: entries over a behaviour (GetNextCLEID)
  MaxMoves,       \* bound: what players do over a behaviour
  LateReports,    \* a player may be quicker than a report that it is in a
                  \* zone, a zone may report a client it has let go, and world
                  \* may take back an entry it has granted
  LostLinks       \* links may break while the process lives

Logins  == 1 .. NLogins
Servers == 1 .. NServers
Entries == 1 .. NEntries

ASSUME ClientPresenceAssumption ==
  /\ {NLogins, NServers, NEntries, MaxMoves} \subseteq Nat
  /\ {LateReports, LostLinks} \subseteq BOOLEAN

\* CLE_Status, in its order.
Never == 0
Offline == 1
Online == 2
CharSelect == 3
Zoning == 4
InZone == 5

VARIABLES
  list,     \* world's clientlist, zone_player_count of every server, numplayers
  nextID,   \* the next entry's id
  conn,     \* server -> "up"; "dead": the process, not seen yet; "cut": its
            \* link, not seen yet; "lost", "adrift": the same, and seen
  session,  \* login -> world's Client
  going,    \* login -> the zone it was sent to, and its entry's id there
  pc,       \* server -> login -> the zone's Client
  toWorld,  \* server -> packets to world on their way
  toZone,   \* server -> packets from world on their way
  moves,    \* what players have done so far
  limited   \* history: world has removed an entry beyond a limit per address,
            \* or one that a client has in a zone without a link

vars == <<list, nextID, conn, session, going, pc, toWorld, toZone, moves,
          limited>>

ClientListMsg == [op : {"ClientList"}, remove : 0 .. 2, wid : Entries,
                  login : Logins]
SetZoneMsg    == [op : {"SetZone"}]
ChangeWIDMsg  == [login : Logins, wid : Entries]

Entry == [listed : BOOLEAN, login : 0 .. NLogins, online : Never .. InZone,
          server : 0 .. NServers]
List  == [cle : [Entries -> Entry], zone_player_count : [Servers -> Nat],
          numplayers : Nat]

TypeOK ==
  /\ list \in List
  /\ nextID \in 1 .. NEntries + 1
  /\ conn \in [Servers -> {"up", "dead", "cut", "lost", "adrift"}]
  /\ session \in [Logins -> [open : BOOLEAN, cle : 0 .. NEntries,
                             zone : BOOLEAN, to : 0 .. NServers,
                             wid : 0 .. NEntries]]
  /\ going \in [Logins -> [to : 0 .. NServers, wid : 0 .. NEntries]]
  /\ pc \in [Servers -> [Logins ->
       [at : {"none", "connecting", "in", "zoning", "lingering"},
        wid : 0 .. NEntries]]]
  /\ toWorld \in [Servers -> Seq(ClientListMsg \cup SetZoneMsg)]
  /\ toZone \in [Servers -> Seq(ChangeWIDMsg)]
  /\ moves \in 0 .. MaxMoves
  /\ limited \in BOOLEAN

NoEntry  == [listed |-> FALSE, login |-> 0, online |-> Never, server |-> 0]
NoClient == [open |-> FALSE, cle |-> 0, zone |-> FALSE, to |-> 0, wid |-> 0]
Nowhere  == [to |-> 0, wid |-> 0]
NoPC     == [at |-> "none", wid |-> 0]

Init ==
  /\ list = [cle |-> [e \in Entries |-> NoEntry],
             zone_player_count |-> [s \in Servers |-> 0], numplayers |-> 0]
  /\ nextID = 1
  /\ conn = [s \in Servers |-> "up"]
  /\ session = [p \in Logins |-> NoClient]
  /\ going = [p \in Logins |-> Nowhere]
  /\ pc = [s \in Servers |-> [p \in Logins |-> NoPC]]
  /\ toWorld = [s \in Servers |-> <<>>]
  /\ toZone = [s \in Servers |-> <<>>]
  /\ moves = 0
  /\ limited = FALSE

\* The ZoneServers that world has, and the processes that live.
AtWorld == {s \in Servers : conn[s] \in {"up", "dead", "cut"}}
Alive   == {s \in Servers : conn[s] \in {"up", "cut", "adrift"}}

-----------------------------------------------------------------------------
(* ClientListEntry: l is the list, e the entry *)

AddPlayer(count, s)    == [q \in Servers |-> count[q] + (IF q = s THEN 1 ELSE 0)]
RemovePlayer(count, s) == [q \in Servers |-> count[q] - (IF q = s THEN 1 ELSE 0)]

Camp(l, e) ==
  [l EXCEPT !.zone_player_count = RemovePlayer(@, l.cle[e].server),
            !.cle[e].server = 0]

\* numplayers, when an entry goes from status was to status o.
SlipCountsTwice(n, was, o) ==
  IF o >= Online /\ was < Online THEN n + 1 ELSE IF o < Online THEN n - 1 ELSE n
SlipCountsUpOnly(n, was, o) == IF o >= Online /\ was < Online THEN n + 1 ELSE n
CountPlayers(n, was, o) ==
  IF o >= Online /\ was < Online THEN n + 1
  ELSE IF o < Online /\ was >= Online THEN n - 1 ELSE n

\* Online is no news of an entry that is online; all below Zoning camps.
SetOnline(l, e, o) ==
  LET was == l.cle[e].online
      set == [l EXCEPT !.numplayers = CountPlayers(@, was, o),
                       !.cle[e].online =
                          IF o # Online \/ was < Online THEN o ELSE @]
  IN IF o < Zoning THEN Camp(set, e) ELSE set

\* The counts, when an entry moves from one server to another.
SlipOnlyAdds(count, from, s) == AddPlayer(count, s)
MovePlayer(count, from, s) ==
  IF from = s THEN count ELSE AddPlayer(RemovePlayer(count, from), s)

Update(l, e, s, o) ==
  SetOnline([l EXCEPT !.zone_player_count = MovePlayer(@, l.cle[e].server, s),
                      !.cle[e].server = s], e, o)

\* A server that the entry has left has no say.
SlipAnyServer(l, e, s) == TRUE
Concerns(l, e, s) == l.cle[e].server = s

LeavingZone(l, e, s, o) ==
  IF Concerns(l, e, s) THEN Camp(SetOnline(l, e, o), e) ELSE l

Created(l, e, p) ==
  [l EXCEPT !.cle[e] = [listed |-> TRUE, login |-> p, online |-> Never,
                        server |-> 0]]

\* SetOnline(Offline) and RemoveCurrent: the destructor camps once more.
Erased(l, e) == [l EXCEPT !.cle[e] = NoEntry]
Removed(l, e) == Erased(Camp(SetOnline(l, e, Offline), e), e)
\* RemoveCLEReferances
SlipKeepsPointer(e) == session
WithoutEntry(e) ==
  [p \in Logins |-> IF session[p].cle = e THEN [session[p] EXCEPT !.cle = 0]
                    ELSE session[p]]

\* What the server of a destroyed or sleeping zone still counts goes with it.
EntriesAt(l, s) == {e \in Entries : l.cle[e].server = s}
OnlineEntries(l) == {e \in Entries : l.cle[e].online >= Online}
CLERemoveZSRef(l, s) ==
  [l EXCEPT !.numplayers =
              @ - Cardinality(EntriesAt(l, s) \cap OnlineEntries(l)),
            !.zone_player_count[s] = 0,
            !.cle = [e \in Entries |->
              IF e \in EntriesAt(l, s)
              THEN [l.cle[e] EXCEPT !.online = Offline, !.server = 0]
              ELSE l.cle[e]]]

Listed == {e \in Entries : list.cle[e].listed}

-----------------------------------------------------------------------------
(* World: its clients *)

Moves == moves < MaxMoves /\ moves' = moves + 1

\* The login server announces a login.  It may do so again.
CLEAdd(p) ==
  /\ Moves /\ nextID \in Entries
  /\ list' = Created(list, nextID, p)
  /\ nextID' = nextID + 1
  /\ UNCHANGED <<conn, session, going, pc, toWorld, toZone, limited>>

\* A report that p is in a zone is on its way.
ReportDue(p) ==
  \E s \in Servers : \E i \in DOMAIN toWorld[s] :
    LET m == toWorld[s][i] IN
    m.op = "ClientList" /\ m.login = p /\ m.remove = 0

\* A player who is in no zone, or zoning, comes to world.  CheckAuth finds the
\* first entry of the login; which that is, the order of the list, is left open.
HandleSendLoginInfo(p) ==
  /\ Moves /\ ~session[p].open
  /\ LateReports \/ ~ReportDue(p)
  /\ \A s \in Servers : pc[s][p].at \notin {"in", "connecting"}
  /\ \E e \in Listed, o \in {Online, CharSelect} :
       /\ list.cle[e].login = p
       /\ list' = SetOnline(list, e, o)
       /\ session' = [session EXCEPT ![p] = [NoClient EXCEPT !.open = TRUE,
                                                            !.cle = e]]
  /\ going' = [going EXCEPT ![p] = Nowhere]
  /\ UNCHANGED <<nextID, conn, pc, toWorld, toZone, limited>>

\* EnterWorld of a zone that s hosts: s learns the id of the entry.
EnterWorld(p, s) ==
  /\ Moves /\ session[p].open /\ ~session[p].zone /\ session[p].cle # 0
  /\ s \in AtWorld
  /\ session' = [session EXCEPT ![p].zone = TRUE, ![p].to = s,
                                ![p].wid = session[p].cle]
  /\ UNCHANGED <<list, nextID, conn, going, pc, toWorld, toZone, limited>>

Clearance(p) ==
  /\ session[p].open /\ session[p].to # 0
  /\ going' = [going EXCEPT ![p] = [to |-> session[p].to,
                                    wid |-> session[p].wid]]
  /\ session' = [session EXCEPT ![p].to = 0, ![p].wid = 0]
  /\ list' = IF session[p].cle # 0
             THEN SetOnline(list, session[p].cle, Zoning) ELSE list
  /\ UNCHANGED <<nextID, conn, pc, toWorld, toZone, moves, limited>>

\* Late, it follows the clearance: the timer of the boot was left running.
TellClientZoneUnavailable(p) ==
  /\ session[p].open /\ session[p].zone
  /\ session[p].to # 0 \/ LateReports
  /\ session' = [session EXCEPT ![p].zone = FALSE, ![p].to = 0, ![p].wid = 0]
  /\ UNCHANGED <<list, nextID, conn, going, pc, toWorld, toZone, moves, limited>>

\* Client::~Client: a client that asked for no zone is gone.
GoesOffline(p) == session[p].cle # 0 /\ ~session[p].zone
SessionEnds(p) ==
  /\ session[p].open
  /\ list' = IF GoesOffline(p) THEN SetOnline(list, session[p].cle, Offline)
             ELSE list
  /\ session' = [session EXCEPT ![p] = NoClient]
  /\ UNCHANGED <<nextID, conn, going, pc, toWorld, toZone, moves, limited>>

\* Somebody keeps entry e alive, a zone only over its link, or news of it is
\* on its way.
Kept(e) ==
  \/ \E p \in Logins : e \in {session[p].cle, session[p].wid, going[p].wid}
  \/ \E s \in Servers :
       \/ conn[s] = "up" /\ \E p \in Logins : pc[s][p].wid = e
       \/ \E i \in DOMAIN toWorld[s] :
            toWorld[s][i].op = "ClientList" /\ toWorld[s][i].wid = e
       \/ \E i \in DOMAIN toZone[s] : toZone[s][i].wid = e

Removes(e) ==
  /\ list' = Removed(list, e)
  /\ session' = WithoutEntry(e)
  /\ UNCHANGED <<nextID, conn, going, pc, toWorld, toZone>>

\* An entry that nobody keeps alive is removed, whatever its status.
SlipOnlineOnly(e) == e \in Listed /\ ~Kept(e) /\ list.cle[e].online > Offline
Stale(e) == e \in Listed /\ ~Kept(e)
CheckStale(e) ==
  /\ Stale(e)
  /\ Removes(e)
  /\ limited' = (limited \/ \E s \in Servers, p \in Logins : pc[s][p].wid = e)
  /\ UNCHANGED moves

\* GetCLEIP, when another login comes from the same address.
GetCLEIP(e) == Moves /\ e \in Listed /\ Removes(e) /\ limited' = TRUE

-----------------------------------------------------------------------------
(* The zone processes *)

ClientList(s, remove, p) ==
  [op |-> "ClientList", remove |-> remove, wid |-> pc[s][p].wid, login |-> p]
\* Without a link it is lost.
Sends(s, remove, p) ==
  toWorld' = IF conn[s] = "up"
             THEN [toWorld EXCEPT ![s] = Append(@, ClientList(s, remove, p))]
             ELSE toWorld
Becomes(s, p, at) == pc' = [pc EXCEPT ![s][p].at = at]

\* A client that is still there for the same login is gone before.
Handle_Connect_OP_ZoneEntry(p) ==
  LET s == going[p].to IN
  /\ s # 0
  /\ s \in Alive /\ pc[s][p].at = "none"
  /\ pc' = [pc EXCEPT ![s][p] = [at |-> "connecting", wid |-> going[p].wid]]
  /\ going' = [going EXCEPT ![p] = Nowhere]
  /\ UNCHANGED <<list, nextID, conn, session, toWorld, toZone, moves, limited>>

CompleteConnect(s, p) ==
  /\ pc[s][p].at = "connecting"
  /\ Sends(s, 0, p) /\ Becomes(s, p, "in")
  /\ UNCHANGED <<list, nextID, conn, session, going, toZone, moves, limited>>

\* The clients that are in the zone as far as it reports them.
Here(s) ==
  {p \in Logins :
    \/ pc[s][p].at = "in"
    \/ LateReports /\ pc[s][p].at \in {"zoning", "lingering"}}
UpdateWho(s, p) ==
  /\ Moves
  /\ p \in Here(s) /\ conn[s] = "up"
  /\ Sends(s, 0, p)
  /\ UNCHANGED <<list, nextID, conn, session, going, pc, toZone, limited>>

\* World has accepted the request to zone.
Zones(s, p) ==
  /\ Moves /\ pc[s][p].at = "in" /\ conn[s] = "up"
  /\ Sends(s, 1, p) /\ Becomes(s, p, "zoning")
  /\ UNCHANGED <<list, nextID, conn, session, going, toZone, limited>>

\* The player camps, or loses its link.
Quits(s, p) ==
  /\ Moves /\ pc[s][p].at = "in"
  /\ Becomes(s, p, "lingering")
  /\ UNCHANGED <<list, nextID, conn, session, going, toWorld, toZone, limited>>

\* Client::~Client of the zone.
ClientGone(s, p) ==
  /\ pc[s][p].at \in {"connecting", "zoning", "lingering"}
  /\ Sends(s, 2, p)
  /\ pc' = [pc EXCEPT ![s][p] = NoPC]
  /\ UNCHANGED <<list, nextID, conn, session, going, toZone, moves, limited>>

\* ServerOP_ChangeWID
ChangeWID(s) ==
  LET m == Head(toZone[s]) IN
  /\ toZone[s] # <<>>
  /\ toZone' = [toZone EXCEPT ![s] = Tail(@)]
  /\ pc' = IF pc[s][m.login].at = "none" THEN pc
           ELSE [pc EXCEPT ![s][m.login].wid = m.wid]
  /\ UNCHANGED <<list, nextID, conn, session, going, toWorld, moves, limited>>

\* An empty zone goes to sleep.
Sleeps(s) ==
  /\ Moves /\ conn[s] = "up"
  /\ \A p \in Logins : pc[s][p].at = "none"
  /\ toWorld' = [toWorld EXCEPT ![s] = Append(@, [op |-> "SetZone"])]
  /\ UNCHANGED <<list, nextID, conn, session, going, pc, toZone, limited>>

-----------------------------------------------------------------------------
(* World: the zone servers' packets *)

\* The status of an entry that a report makes when its own is gone.
UnknownStatus(remove) ==
  CASE remove = 2 -> Online [] remove = 1 -> Zoning [] OTHER -> InZone

Known(m, s) ==
  CASE m.remove = 2 -> LeavingZone(list, m.wid, s, Offline)
    [] m.remove = 1 -> LeavingZone(list, m.wid, s, Zoning)
    [] OTHER        -> Update(list, m.wid, s, InZone)
Unknown(m, s) ==
  LET o   == UnknownStatus(m.remove)
      new == Created(list, nextID, m.login)
  IN IF o >= Zoning THEN Update(new, nextID, s, o) ELSE SetOnline(new, nextID, o)

ClientUpdate(s) ==
  LET m == Head(toWorld[s]) IN
  /\ toWorld[s] # <<>> /\ m.op = "ClientList"
  /\ toWorld' = [toWorld EXCEPT ![s] = Tail(@)]
  /\ IF m.wid \in Listed
     THEN list' = Known(m, s) /\ UNCHANGED <<nextID, toZone>>
     ELSE /\ nextID \in Entries
          /\ list' = Unknown(m, s)
          /\ nextID' = nextID + 1
          /\ toZone' = [toZone EXCEPT ![s] =
                          Append(@, [login |-> m.login, wid |-> nextID])]
  /\ UNCHANGED <<conn, session, going, pc, moves, limited>>

\* ZoneServer::SetZone(0)
SetZone(s) ==
  /\ toWorld[s] # <<>> /\ Head(toWorld[s]).op = "SetZone"
  /\ toWorld' = [toWorld EXCEPT ![s] = Tail(@)]
  /\ list' = CLERemoveZSRef(list, s)
  /\ UNCHANGED <<nextID, conn, session, going, pc, toZone, moves, limited>>

\* A zone process dies, or only its link breaks; later its ZoneServer is
\* destroyed; another process takes its place, or the same comes back.
Dies(s) ==
  /\ Moves /\ s \in Alive
  /\ conn' = [conn EXCEPT ![s] = IF s \in AtWorld THEN "dead" ELSE "lost"]
  /\ pc' = [pc EXCEPT ![s] = [p \in Logins |-> NoPC]]
  /\ toZone' = [toZone EXCEPT ![s] = <<>>]
  /\ UNCHANGED <<list, nextID, session, going, toWorld, limited>>

LinkBreaks(s) ==
  /\ LostLinks /\ Moves /\ conn[s] = "up"
  /\ conn' = [conn EXCEPT ![s] = "cut"]
  /\ toZone' = [toZone EXCEPT ![s] = <<>>]
  /\ UNCHANGED <<list, nextID, session, going, pc, toWorld, limited>>

ServerLost(s) ==
  /\ conn[s] \in {"dead", "cut"}
  /\ conn' = [conn EXCEPT ![s] = IF s \in Alive THEN "adrift" ELSE "lost"]
  /\ list' = CLERemoveZSRef(list, s)
  /\ toWorld' = [toWorld EXCEPT ![s] = <<>>]
  /\ toZone' = [toZone EXCEPT ![s] = <<>>]
  /\ UNCHANGED <<nextID, session, going, pc, moves, limited>>

Connects(s) ==
  /\ conn[s] = "lost"
  /\ conn' = [conn EXCEPT ![s] = "up"]
  /\ UNCHANGED <<list, nextID, session, going, pc, toWorld, toZone, moves,
                 limited>>

\* The zone process is back and reports its clients, in some order.
UpdateWhoAll(s, order) == [i \in DOMAIN order |-> ClientList(s, 0, order[i])]
Reconnects(s) ==
  /\ conn[s] = "adrift"
  /\ conn' = [conn EXCEPT ![s] = "up"]
  /\ \E order \in [1 .. Cardinality(Here(s)) -> Here(s)] :
       /\ \A p \in Here(s) : \E i \in DOMAIN order : order[i] = p
       /\ toWorld' = [toWorld EXCEPT ![s] = UpdateWhoAll(s, order)]
  /\ UNCHANGED <<list, nextID, session, going, pc, toZone, moves, limited>>

-----------------------------------------------------------------------------
Next ==
  \/ \E p \in Logins :
       \/ CLEAdd(p) \/ HandleSendLoginInfo(p) \/ Clearance(p)
       \/ TellClientZoneUnavailable(p) \/ SessionEnds(p)
       \/ Handle_Connect_OP_ZoneEntry(p)
  \/ \E p \in Logins, s \in Servers :
       \/ EnterWorld(p, s) \/ CompleteConnect(s, p) \/ UpdateWho(s, p)
       \/ Zones(s, p) \/ Quits(s, p) \/ ClientGone(s, p)
  \/ \E s \in Servers :
       \/ ChangeWID(s) \/ Sleeps(s) \/ ClientUpdate(s) \/ SetZone(s)
       \/ Dies(s) \/ LinkBreaks(s) \/ ServerLost(s)
       \/ Connects(s) \/ Reconnects(s)
  \/ \E e \in Entries : CheckStale(e) \/ GetCLEIP(e)

\* World's loop handles what comes, notices what is gone and drops what is stale;
\* zones handle what comes.  Nothing is asked of the players.
Fairness ==
  /\ \A s \in Servers :
       WF_vars(ClientUpdate(s)) /\ WF_vars(SetZone(s))
       /\ WF_vars(ChangeWID(s)) /\ WF_vars(ServerLost(s))
  /\ \A e \in Entries : WF_vars(CheckStale(e))

Spec == Init /\ [][Next]_vars /\ Fairness

-----------------------------------------------------------------------------
(* Properties *)

\* World counts the players of a zone server right: zone_player_count, what the
\* login server and the players are told, is the number of entries at it.
ZonesCounted ==
  \A s \in Servers :
    list.zone_player_count[s] = Cardinality(EntriesAt(list, s))

\* numplayers, by which world admits no more players than it may, is the number
\* of entries that are online.
PlayersCounted == list.numplayers = Cardinality(OnlineEntries(list))

\* World's pointers lead somewhere: a client's cle to an entry of the list, an
\* entry's zone server to one that is connected.
PointersLive ==
  /\ \A p \in Logins : session[p].cle \in Listed \cup {0}
  /\ \A e \in Entries : list.cle[e].server # 0 =>
       e \in Listed /\ list.cle[e].server \in AtWorld

\* Once all reports have come, world knows where a player in the game is, unless
\* the player is on its way to elsewhere or its zone has no link, until world
\* removes an entry that the player has.
PlayersFound ==
  ~limited /\ (\A s \in Servers : toWorld[s] = <<>> /\ toZone[s] = <<>>) =>
    \A s \in Servers, p \in Logins :
      conn[s] = "up" /\ pc[s][p].at = "in" /\ ~session[p].open =>
        LET e == pc[s][p].wid IN
        /\ e \in Listed /\ list.cle[e].login = p
        /\ list.cle[e].server = s /\ list.cle[e].online = InZone

\* Whoever is gone for good does not stay in the list as a ghost.
Gone(p) ==
  /\ nextID \in Entries
  /\ ~session[p].open /\ going[p].to = 0
  /\ \A s \in Servers : pc[s][p].at = "none"
GhostsGo ==
  \A p \in Logins :
    <>[]Gone(p) => <>[](\A e \in Listed : list.cle[e].login # p)

=============================================================================
