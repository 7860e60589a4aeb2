----------------------------- MODULE WorldEntry -----------------------------
(***************************************************************************)
(* How the world server lets a player into a zone: Client::EnterWorld,    *)
(* the zone servers' connections (ZSList, ZoneServer), the boot of an     *)
(* idle zone process on demand, and the zone process's side of it.  World *)
(* and every zone process are single threads joined by one FIFO link each *)
(* way; a player is an external actor with at most one session at world.  *)
(*                                                                         *)
(* A server number is ZoneServer::zone_server_id, given in the order of    *)
(* connection, which is the order of zone_server_list: a process that is   *)
(* launched again, or connects again with the zone it runs, is a new       *)
(* server.  Zone 0 is no zone.  The client list entries behind the         *)
(* sessions are the module ClientPresence; instances and zone-to-zone      *)
(* requests are left out.                                                  *)
(***************************************************************************)
EXTENDS Naturals, Sequences, SequencesExt

CONSTANTS
  NServers,     \* bound: zone server connections over a behaviour
  NZones,       \* zones a player may be in
  NClients,     \* players
  MaxTries,     \* bound: OP_EnterWorld packets over a behaviour
  BadZones,     \* zones whose Zone::Init fails
  KillProcessOnDynamicShutdown,  \* the rule of that name
  FreshGap,     \* world may act between the connection of a process and its
                \* first SetZone; if not, it lists it with its zone
  LostLinks,    \* links may break while the process lives
  LateAnswers   \* a player may choose again before an old answer has come

Servers == 1 .. NServers
Zones   == 1 .. NZones
Clients == 1 .. NClients

ASSUME WorldEntryAssumption ==
  /\ {NServers, NZones, NClients, MaxTries} \subseteq Nat
  /\ BadZones \subseteq Zones
  /\ {KillProcessOnDynamicShutdown, FreshGap, LostLinks, LateAnswers} \subseteq BOOLEAN

VARIABLES
  conn,         \* server -> "unborn", "listed" in zone_server_list, "removed"
  zone_server,  \* server -> world's ZoneServer: zone, booting
  process,      \* server -> the zone process at the other end of its link
  adrift,       \* server -> the process that was, while it has no link
  toZone,       \* server -> packets from world on their way
  toWorld,      \* server -> packets to world on their way
  client,       \* player -> world's Client, if the session is open
  view,         \* player -> what the player is doing, and where it was sent
  tries         \* OP_EnterWorld packets so far

vars ==
  <<conn, zone_server, process, adrift, toZone, toWorld, client, view, tries>>

ToZoneMsg ==
  [op : {"ZoneBootup"}, zone : Zones] \cup
  [op : {"ZoneIncClient"}, zone : Zones, client : Clients] \cup
  [op : {"AcceptWorldEntrance", "DropClient"}, client : Clients]

ToWorldMsg ==
  [op : {"SetZone"}, zone : 0 .. NZones] \cup
  [op : {"AcceptWorldEntrance"}, client : Clients, response : {1, -1}]

\* A zone process: its loaded zone and its client_auth_list.  The properties
\* need its history too: whether it came with its zone over a link of which
\* world knew nothing (stray), the authorizations it brought along that were
\* not announced again (kept), and those of its own that ran out (lapsed).
ZoneProcess ==
  [running : BOOLEAN, loaded : 0 .. NZones, auth : SUBSET Clients,
   stray : BOOLEAN, kept : SUBSET Clients, lapsed : SUBSET Clients]

NoProcess == [running |-> FALSE, loaded |-> 0, auth |-> {},
              stray |-> FALSE, kept |-> {}, lapsed |-> {}]

TypeOK ==
  /\ conn \in [Servers -> {"unborn", "listed", "removed"}]
  /\ zone_server \in [Servers -> [zone : 0 .. NZones, booting : BOOLEAN]]
  /\ process \in [Servers -> ZoneProcess]
  /\ adrift \in [Servers -> ZoneProcess]
  /\ toZone \in [Servers -> Seq(ToZoneMsg)]
  /\ toWorld \in [Servers -> Seq(ToWorldMsg)]
  /\ client \in [Clients -> [open : BOOLEAN, zone_id : 0 .. NZones,
                             waiting : 0 .. NServers, triggered : BOOLEAN,
                             timer : BOOLEAN, seen : BOOLEAN]]
  /\ view \in [Clients -> [at : {"away", "select", "entering", "going"},
                           to : 0 .. NServers, zone : 0 .. NZones]]
  /\ tries \in 0 .. MaxTries

NewClient == [open |-> FALSE, zone_id |-> 0, waiting |-> 0,
              triggered |-> FALSE, timer |-> FALSE, seen |-> FALSE]
At(what) == [at |-> what, to |-> 0, zone |-> 0]
GoingTo(s, z) == [at |-> "going", to |-> s, zone |-> z]

Init ==
  /\ conn = [s \in Servers |-> "unborn"]
  /\ zone_server = [s \in Servers |-> [zone |-> 0, booting |-> FALSE]]
  /\ process = [s \in Servers |-> NoProcess]
  /\ adrift = [s \in Servers |-> NoProcess]
  /\ toZone = [s \in Servers |-> <<>>]
  /\ toWorld = [s \in Servers |-> <<>>]
  /\ client = [c \in Clients |-> NewClient]
  /\ view = [c \in Clients |-> At("away")]
  /\ tries = 0

-----------------------------------------------------------------------------
(* zone_server_list *)

Listed == {s \in Servers : conn[s] = "listed"}
First(S) == IF S = {} THEN 0 ELSE CHOOSE s \in S : \A q \in S : s <= q

\* The server that world takes to host zone z, booting or not.
FindByZoneID(servers, z) == First({s \in Listed : servers[s].zone = z})

\* The process a boot is given to: the first one idle.
IdleServer ==
  First({s \in Listed : zone_server[s].zone = 0 /\ ~zone_server[s].booting})

-----------------------------------------------------------------------------
(* What world does for its clients *)

\* TellClientZoneUnavailable: the player is back where it can choose.
SlipStillTriggered(cl) ==
  [cl EXCEPT !.zone_id = 0, !.waiting = 0, !.timer = FALSE]
Unavailable(cl) ==
  [cl EXCEPT !.zone_id = 0, !.waiting = 0, !.triggered = FALSE, !.timer = FALSE]
Told(v) == IF v.at = "going" THEN v ELSE At("select")

\* The packets by which c's way into d is prepared, as server q gets them:
\* DropClient and IncomingClient once, and the question if it is asked.
SlipNoDrop(c, d, q, asks) ==
  IF q # d THEN <<>>
  ELSE (IF client[c].triggered THEN <<>>
        ELSE <<[op |-> "ZoneIncClient", zone |-> zone_server'[d].zone,
                client |-> c]>>)
       \o (IF asks THEN <<[op |-> "AcceptWorldEntrance", client |-> c]>>
           ELSE <<>>)
Warning(c, d, q, asks) ==
  (IF client[c].triggered THEN <<>>
   ELSE IF q = d THEN <<[op |-> "ZoneIncClient", zone |-> zone_server'[d].zone,
                         client |-> c]>>
        ELSE <<[op |-> "DropClient", client |-> c]>>)
  \o (IF q = d /\ asks THEN <<[op |-> "AcceptWorldEntrance", client |-> c]>>
      ELSE <<>>)

\* A client whose zone is up has no boot to wait for; its timer runs on.
SlipTimerOff(cl, z) ==
  [cl EXCEPT !.zone_id = z, !.waiting = 0, !.triggered = TRUE, !.timer = FALSE]
LetInto(cl, z) ==
  [cl EXCEPT !.zone_id = z, !.waiting = 0, !.triggered = TRUE]

\* EnterWorld of every client in entering, for zone z of a listed server; the
\* locked ones are turned away after their warning, the failed ones at once.
Enter(entering, locked, failed, z, servers) ==
  LET d     == FindByZoneID(servers, z)
      asks(c) == client[c].seen /\ c \notin locked
  IN /\ zone_server' =
          IF \E c \in entering : ~client[c].triggered
          THEN [servers EXCEPT ![d].booting = TRUE] ELSE servers
     /\ toZone' = [q \in Servers |->
          IF q \notin Listed THEN toZone[q]
          ELSE toZone[q] \o FlattenSeq([c \in Clients |->
                 IF c \in entering THEN Warning(c, d, q, asks(c)) ELSE <<>>])]
     /\ client' = [c \in Clients |->
          CASE c \in locked \cup failed -> Unavailable(client[c])
            [] c \in entering \ locked ->
                 LetInto(client[c], z)
            [] OTHER -> client[c]]
     /\ view' = [c \in Clients |->
          CASE c \in locked \cup failed -> Told(view[c])
            [] c \in entering \ locked ->
                 IF client[c].seen THEN At("entering")
                 ELSE GoingTo(d, z)
            [] OTHER -> view[c]]

\* A player comes to world from character select (seen) or between two zones.
NewSession(c) ==
  /\ view[c].at \in {"away", "going"} /\ ~client[c].open
  /\ tries < MaxTries
  /\ \E seen \in BOOLEAN :
       client' = [client EXCEPT ![c] = [NewClient EXCEPT !.open = TRUE,
                                                         !.seen = seen]]
  /\ view' = [view EXCEPT ![c] = At("select")]
  /\ UNCHANGED <<conn, zone_server, process, adrift, toZone, toWorld, tries>>

SessionEnds(c) ==
  /\ client[c].open
  /\ client' = [client EXCEPT ![c] = NewClient]
  /\ view' = IF view[c].at = "going" THEN view
             ELSE [view EXCEPT ![c] = At("away")]
  /\ UNCHANGED <<conn, zone_server, process, adrift, toZone, toWorld, tries>>

\* A zone has been asked about c, or has answered, in packets not handled.
AnswerDue(c) ==
  \E s \in Servers, link \in {toZone, toWorld} : \E i \in DOMAIN link[s] :
    link[s][i].op = "AcceptWorldEntrance" /\ link[s][i].client = c

Chooses(c) ==
  /\ client[c].open /\ view[c].at = "select" /\ tries < MaxTries
  /\ LateAnswers \/ ~AnswerDue(c)
  /\ tries' = tries + 1
  /\ UNCHANGED <<conn, process, adrift, toWorld>>

\* OP_EnterWorld for a zone that is up, or booting.
EnterHosted(c, z) ==
  /\ Chooses(c)
  /\ FindByZoneID(zone_server, z) # 0
  /\ \E locked \in SUBSET {c} : Enter({c}, locked, {}, z, zone_server)

\* ZoneServer::TriggerBootup: the server counts as z's host at once.
SlipHostsWhenUp(z) == [zone |-> 0, booting |-> TRUE]
Triggered(z) == [zone |-> z, booting |-> TRUE]

\* EnterWorld's autobootup: the timer runs while the client waits for s.
SlipWaitsForPid(cl, z, s) ==
  [cl EXCEPT !.zone_id = z, !.waiting = NServers + s, !.timer = TRUE]
Waits(cl, z, s) ==
  [cl EXCEPT !.zone_id = z, !.waiting = s, !.timer = TRUE]

\* OP_EnterWorld for a zone that is not up: an idle process is to boot it.
EnterBoots(c, z) ==
  LET s == IdleServer IN
  /\ Chooses(c)
  /\ FindByZoneID(zone_server, z) = 0
  /\ s # 0
  /\ zone_server' = [zone_server EXCEPT ![s] = Triggered(z)]
  /\ toZone' = [toZone EXCEPT ![s] =
                  Append(@, [op |-> "ZoneBootup", zone |-> z])]
  /\ client' = [client EXCEPT ![c] = Waits(@, z, s)]
  /\ view' = [view EXCEPT ![c] = At("entering")]

\* ... and there is none.
EnterNowhere(c, z) ==
  /\ Chooses(c)
  /\ FindByZoneID(zone_server, z) = 0
  /\ IdleServer = 0
  /\ client' = [client EXCEPT ![c] = Unavailable(@)]
  /\ UNCHANGED <<zone_server, toZone, view>>

AutobootTimeout(c) ==
  /\ client[c].open /\ client[c].timer
  /\ client' = [client EXCEPT ![c] = Unavailable(@)]
  /\ view' = [view EXCEPT ![c] = Told(@)]
  /\ UNCHANGED <<conn, zone_server, process, adrift, toZone, toWorld, tries>>

-----------------------------------------------------------------------------
(* What world does for the zone servers *)

Reports(zones) == [i \in DOMAIN zones |-> [op |-> "SetZone", zone |-> zones[i]]]

\* A connection is identified: world lists a server of no zone, whatever the
\* process p at its other end reports next.
Listing(s, p) ==
  /\ conn[s] = "unborn" /\ \A q \in Servers : q < s => conn[q] # "unborn"
  /\ conn' = [conn EXCEPT ![s] = "listed"]
  /\ process' = [process EXCEPT ![s] = p]
  /\ zone_server' =
       [zone_server EXCEPT ![s].zone = IF FreshGap THEN 0 ELSE p.loaded]
  /\ toWorld' = [toWorld EXCEPT ![s] =
       IF p.loaded # 0 \/ FreshGap THEN Reports(<<p.loaded>>) ELSE <<>>]
  /\ UNCHANGED <<toZone, client, view, tries>>

\* A process is launched, or comes back without a zone.
Connects(s) ==
  /\ Listing(s, [NoProcess EXCEPT !.running = TRUE])
  /\ UNCHANGED adrift

\* A process whose link broke connects again, with its zone and the players
\* it expects; world may not have noticed the end of the old link yet.
Reconnects(s) ==
  \E q \in Servers :
    /\ adrift[q].running
    /\ Listing(s, [adrift[q] EXCEPT !.stray = TRUE, !.kept = adrift[q].auth,
                                    !.lapsed = {}])
    /\ adrift' = [adrift EXCEPT ![q] = NoProcess]

\* The link of a process that runs a zone breaks: for world it is gone, as if
\* it had crashed, but it lives.  Nothing sent to it arrives any more.  (One
\* that shuts its zone down or ends before it is back is one that crashed.)
LinkBreaks(s) ==
  /\ LostLinks /\ process[s].running /\ process[s].loaded # 0
  /\ adrift' = [adrift EXCEPT ![s] = process[s]]
  /\ process' = [process EXCEPT ![s] = NoProcess]
  /\ UNCHANGED <<conn, zone_server, toZone, toWorld, client, view, tries>>

\* The connection of a process that is gone, or that lost its link, is removed
\* with what it carried.  No client that waits for it is told.
Removed(s) ==
  /\ conn[s] = "listed" /\ ~process[s].running
  /\ conn' = [conn EXCEPT ![s] = "removed"]
  /\ zone_server' = [zone_server EXCEPT ![s] = [zone |-> 0, booting |-> FALSE]]
  /\ toZone' = [toZone EXCEPT ![s] = <<>>]
  /\ toWorld' = [toWorld EXCEPT ![s] = <<>>]
  /\ UNCHANGED <<process, adrift, client, view, tries>>

Gets(link, s, what) ==
  conn[s] = "listed" /\ link[s] # <<>> /\ Head(link[s]).op = what

\* Who ZoneBootup lets in when s reports zone z, and whom it turns away.
LetIn(z) ==
  {c \in Clients : client[c].waiting # 0 /\ client[c].zone_id = z}
TurnedAway(s, z) ==
  {c \in Clients : client[c].waiting = s /\ client[c].zone_id # z}

\* ServerOP_SetZone: what s hosts, then every client that waited for it.
SetZone(s) ==
  LET z == Head(toWorld[s]).zone
      servers == [zone_server EXCEPT ![s] = [zone |-> z, booting |-> FALSE]]
  IN /\ Gets(toWorld, s, "SetZone")
     /\ toWorld' = [toWorld EXCEPT ![s] = Tail(@)]
     /\ \E locked \in SUBSET LetIn(z) :
          Enter(LetIn(z), locked, TurnedAway(s, z), z, servers)
     /\ UNCHANGED <<conn, process, adrift, tries>>

\* Clearance of client c with a zone's answer.
Clearance(c, response) ==
  LET s == FindByZoneID(zone_server, client[c].zone_id) IN
  IF client[c].zone_id = 0 \/ s = 0 \/ response = -1
  THEN /\ client' = [client EXCEPT ![c] = Unavailable(@)]
       /\ view' = [view EXCEPT ![c] = Told(@)]
  ELSE /\ view' = [view EXCEPT ![c] = GoingTo(s, client[c].zone_id)]
       /\ UNCHANGED client

\* ServerOP_AcceptWorldEntrance: the answer is for whoever has that account.
AcceptReply(s) ==
  LET m == Head(toWorld[s]) IN
  /\ Gets(toWorld, s, "AcceptWorldEntrance")
  /\ toWorld' = [toWorld EXCEPT ![s] = Tail(@)]
  /\ IF client[m.client].open THEN Clearance(m.client, m.response)
     ELSE UNCHANGED <<client, view>>
  /\ UNCHANGED <<conn, zone_server, process, adrift, toZone, tries>>

-----------------------------------------------------------------------------
(* The zone process *)

\* The process handles the head of its link: p is its new state, sent its
\* packets to world.
Handles(s, what, p, sent) ==
  /\ process[s].running
  /\ Gets(toZone, s, what)
  /\ toZone' = [toZone EXCEPT ![s] = Tail(@)]
  /\ process' = [process EXCEPT ![s] = p]
  /\ toWorld' = [toWorld EXCEPT ![s] = @ \o sent]
  /\ UNCHANGED <<conn, zone_server, adrift, client, view, tries>>

\* Zone::Bootup of an empty process: the zone, or none where Init fails, and
\* then ~Zone and Bootup both report it.
BootsAs(z) == IF z \in BadZones THEN 0 ELSE z
BootReports(z) == IF z \in BadZones THEN <<0, 0>> ELSE <<z>>

\* What a process that is up already answers to a request to boot.
SlipNoAnswer(p) == <<>>
AlreadyUp(p) == Reports(<<p.loaded>>)

ZoneBootup(s) ==
  LET p == process[s]
      z == Head(toZone[s]).zone
  IN IF p.loaded # 0
     THEN Handles(s, "ZoneBootup", p, AlreadyUp(p))
     ELSE Handles(s, "ZoneBootup", [p EXCEPT !.loaded = BootsAs(z)],
                  Reports(BootReports(z)))

\* A client is announced: it may come in, if this is its zone; an empty
\* process boots it.
ZoneIncClient(s) ==
  LET p == process[s]
      m == Head(toZone[s])
      now == IF p.loaded # 0 THEN p.loaded ELSE BootsAs(m.zone)
  IN Handles(s, "ZoneIncClient",
       [p EXCEPT !.loaded = now,
                 !.auth = IF now = m.zone THEN @ \cup {m.client} ELSE @,
                 !.kept = @ \ {m.client}, !.lapsed = @ \ {m.client}],
       IF p.loaded # 0 THEN AlreadyUp(p) ELSE Reports(BootReports(m.zone)))

\* The answer to world, unless there is no zone to answer for.
AcceptWorldEntrance(s) ==
  \E response \in {1, -1} :
    Handles(s, "AcceptWorldEntrance", process[s],
      IF process[s].loaded = 0 THEN <<>>
      ELSE <<[op |-> "AcceptWorldEntrance",
              client |-> Head(toZone[s]).client, response |-> response]>>)

DropClient(s) ==
  LET p == process[s]
      c == Head(toZone[s]).client
  IN Handles(s, "DropClient",
       IF p.loaded = 0 THEN p
       ELSE [p EXCEPT !.auth = @ \ {c}, !.kept = @ \ {c}, !.lapsed = @ \ {c}],
       <<>>)

\* client_auth_list forgets players who did not come for one or two ticks of
\* clientauth_timer, or who came and left; who they are is left open.
AuthTimeout(s) ==
  LET p == process[s] IN
  \E gone \in (SUBSET p.auth) \ {{}} :
    /\ process' = [process EXCEPT ![s] =
         [p EXCEPT !.auth = @ \ gone, !.kept = @ \ gone,
                   !.lapsed = @ \cup (gone \ p.kept)]]
    /\ UNCHANGED <<conn, zone_server, adrift, toZone, toWorld, client, view,
                   tries>>

\* Zone::Shutdown of a zone that has had no player for a while; by the rule
\* the process ends with it.
ShutsDown(s) ==
  /\ process[s].running /\ process[s].loaded # 0
  /\ process' = [process EXCEPT ![s] =
       [NoProcess EXCEPT !.running = ~KillProcessOnDynamicShutdown]]
  /\ toWorld' = [toWorld EXCEPT ![s] = @ \o Reports(<<0>>)]
  /\ UNCHANGED <<conn, zone_server, adrift, toZone, client, view, tries>>

Crashes(s) ==
  /\ process[s].running
  /\ process' = [process EXCEPT ![s] = NoProcess]
  /\ UNCHANGED <<conn, zone_server, adrift, toZone, toWorld, client, view, tries>>

-----------------------------------------------------------------------------
Next ==
  \/ \E c \in Clients :
       \/ NewSession(c) \/ SessionEnds(c) \/ AutobootTimeout(c)
       \/ \E z \in Zones :
            EnterHosted(c, z) \/ EnterBoots(c, z) \/ EnterNowhere(c, z)
  \/ \E s \in Servers :
       \/ Connects(s) \/ Reconnects(s) \/ LinkBreaks(s) \/ Removed(s)
       \/ SetZone(s) \/ AcceptReply(s)
       \/ ZoneBootup(s) \/ ZoneIncClient(s) \/ AcceptWorldEntrance(s)
       \/ DropClient(s) \/ AuthTimeout(s) \/ ShutsDown(s) \/ Crashes(s)

\* World's loop polls every client's timer; nothing else is relied on.
Spec == Init /\ [][Next]_vars /\ \A c \in Clients : WF_vars(AutobootTimeout(c))

-----------------------------------------------------------------------------
(* Properties *)

\* One process hosts a zone: world refuses to boot a zone that is "already
\* being hosted" (ZSList::SOPZoneBootup), and looks a zone up before it
\* triggers a boot.  A process that runs its zone without a link, or has come
\* back with it, is the one exception: world could not know of it.
OneHostPerZone ==
  \A s, q \in Servers :
    s # q /\ process[s].loaded # 0 /\ process[s].loaded = process[q].loaded
      => process[s].stray \/ process[q].stray

\* When nothing is on its way between world and a process, world takes the
\* process to host what it has loaded and to be done with booting, whatever
\* was asked of it meanwhile.
ViewsAgree ==
  \A s \in Listed :
    process[s].running /\ toZone[s] = <<>> /\ toWorld[s] = <<>> =>
      zone_server[s] = [zone |-> process[s].loaded, booting |-> FALSE]

\* Whoever is sent to a zone is expected there: the zone holds its
\* authorization or the announcement is on its way (client.cpp, "warn the zone
\* we're coming"), as long as the zone is up or coming up over the link it was
\* warned by, until the authorization runs out.
WarnedBeforeSent ==
  \A c \in Clients : view[c].at = "going" =>
    LET s == view[c].to
        z == view[c].zone
        Coming(m) == \E i \in DOMAIN toZone[s] : toZone[s][i] = m
    IN /\ process[s].running /\ z \notin BadZones
       /\ process[s].loaded = z \/ Coming([op |-> "ZoneBootup", zone |-> z])
       =>
         \/ c \in process[s].auth \cup process[s].lapsed
         \/ Coming([op |-> "ZoneIncClient", zone |-> z, client |-> c])

\* A player may enter one zone: once the announcements are handled, every
\* other zone has dropped its authorization ("Drop any clients we own in other
\* zones").  Those a process kept while it had no link are the exception, until
\* it is told of the player again.
AdmittedOnce ==
  \A c \in Clients, s, q \in Servers :
    s # q /\ toZone[s] = <<>> /\ toZone[q] = <<>>
    /\ c \in process[s].auth /\ c \in process[q].auth
      => c \in process[s].kept \cup process[q].kept

\* A player for whom a boot was triggered gets an answer, be it that the zone
\* is unavailable: even if the process dies, or its zone goes before it answers.
BootRequestAnswered ==
  \A c \in Clients :
    view[c].at = "entering" /\ client[c].timer ~> view[c].at # "entering"

=============================================================================
