----------------------- MODULE ClientPresence_proofs -----------------------
(***************************************************************************)
(* What world's list counts is right and its pointers are live, for every  *)
(* number of logins, servers and entries (IInv).  Where no player is       *)
(* quicker than a report, world knows where everybody in the game is once  *)
(* the reports have come (CourseInv, OwnedInv, NewsInv next to IInv).      *)
(***************************************************************************)
EXTENDS ClientPresence, FiniteSetTheorems, TLAPS

USE ClientPresenceAssumption

Status == Never .. InZone
CLEs   == [Entries -> Entry]
Lists  == [cle : CLEs, zone_player_count : [Servers -> Int], numplayers : Int]
At(c, s)  == {e \in Entries : c[e].server = s}
InGame(c) == {e \in Entries : c[e].online >= Online}
One(b)    == IF b THEN 1 ELSE 0

\* The list counts what it holds.
Counted(l) ==
  /\ l \in Lists
  /\ \A s \in Servers : l.zone_player_count[s] = Cardinality(At(l.cle, s))
  /\ l.numplayers = Cardinality(InGame(l.cle))

LEMMA EntriesFinite ==
  ASSUME NEW S \in SUBSET Entries
  PROVE  IsFiniteSet(S) /\ Cardinality(S) \in Nat
<1>1. IsFiniteSet(Entries)
  BY FS_Interval DEF Entries
<1> QED
  BY <1>1, FS_Subset, FS_CardinalityType

LEMMA CountedIn ==
  ASSUME NEW S \in SUBSET Entries, NEW T \in SUBSET Entries, NEW e \in Entries,
         \A q \in Entries \ {e} : q \in S <=> q \in T
  PROVE  Cardinality(T) = Cardinality(S) + One(e \in T) - One(e \in S)
<1>0. IsFiniteSet(S) /\ IsFiniteSet(T) /\ Cardinality(S) \in Nat
      /\ Cardinality(T) \in Nat
  BY EntriesFinite
<1>1. CASE e \in S /\ e \in T
  <2>1. S = T
    BY <1>1
  <2> QED BY <1>0, <1>1, <2>1 DEF One
<1>2. CASE e \notin S /\ e \notin T
  <2>1. S = T
    BY <1>2
  <2> QED BY <1>0, <1>2, <2>1 DEF One
<1>3. CASE e \in S /\ e \notin T
  <2>1. T = S \ {e}
    BY <1>3
  <2> QED BY <1>0, <1>3, <2>1, FS_RemoveElement DEF One
<1>4. CASE e \notin S /\ e \in T
  <2>1. T = S \cup {e}
    BY <1>4
  <2> QED BY <1>0, <1>4, <2>1, FS_AddElement DEF One
<1> QED BY <1>1, <1>2, <1>3, <1>4

\* A list that differs in one entry, and counts that difference, is right.
LEMMA OneEntry ==
  ASSUME NEW l, Counted(l), NEW r \in Lists, NEW e \in Entries,
         \A q \in Entries \ {e} : r.cle[q] = l.cle[q],
         \A s \in Servers : r.zone_player_count[s] =
           l.zone_player_count[s] + One(r.cle[e].server = s)
                                  - One(l.cle[e].server = s),
         r.numplayers = l.numplayers + One(r.cle[e].online >= Online)
                                     - One(l.cle[e].online >= Online)
  PROVE  Counted(r)
<1>1. ASSUME NEW s \in Servers
      PROVE  r.zone_player_count[s] = Cardinality(At(r.cle, s))
  <2>1. \A q \in Entries \ {e} : q \in At(l.cle, s) <=> q \in At(r.cle, s)
    BY DEF At
  <2>2. /\ (e \in At(r.cle, s)) = (r.cle[e].server = s)
        /\ (e \in At(l.cle, s)) = (l.cle[e].server = s)
    BY DEF At
  <2>3. At(l.cle, s) \in SUBSET Entries /\ At(r.cle, s) \in SUBSET Entries
    BY DEF At
  <2>4. Cardinality(At(r.cle, s)) = Cardinality(At(l.cle, s))
          + One(e \in At(r.cle, s)) - One(e \in At(l.cle, s))
    BY ONLY <2>1, <2>3, CountedIn, e \in Entries
  <2> QED BY <2>2, <2>4 DEF Counted
<1>2. r.numplayers = Cardinality(InGame(r.cle))
  <2>1. \A q \in Entries \ {e} : q \in InGame(l.cle) <=> q \in InGame(r.cle)
    BY DEF InGame
  <2>2. /\ (e \in InGame(r.cle)) = (r.cle[e].online >= Online)
        /\ (e \in InGame(l.cle)) = (l.cle[e].online >= Online)
    BY DEF InGame
  <2>3. InGame(l.cle) \in SUBSET Entries /\ InGame(r.cle) \in SUBSET Entries
    BY DEF InGame
  <2>4. Cardinality(InGame(r.cle)) = Cardinality(InGame(l.cle))
          + One(e \in InGame(r.cle)) - One(e \in InGame(l.cle))
    BY ONLY <2>1, <2>3, CountedIn, e \in Entries
  <2> QED BY <2>2, <2>4 DEF Counted
<1> QED BY <1>1, <1>2 DEF Counted

-----------------------------------------------------------------------------
(* The operations of an entry keep the counts right *)

LEMMA CampCounted ==
  ASSUME NEW l, Counted(l), NEW e \in Entries
  PROVE  /\ Counted(Camp(l, e))
         /\ Camp(l, e).cle = [l.cle EXCEPT ![e].server = 0]
<1> DEFINE r == Camp(l, e)
<1>1. /\ l \in Lists /\ l.cle[e] \in Entry
      /\ \A s \in Servers : s \in Nat \ {0} /\ l.zone_player_count[s] \in Int
  BY DEF Counted, Lists, CLEs, Servers
<1>2. r.cle = [l.cle EXCEPT ![e].server = 0] /\ r.numplayers = l.numplayers
      /\ r.zone_player_count = RemovePlayer(l.zone_player_count, l.cle[e].server)
  BY <1>1 DEF Camp, Lists, CLEs
<1>3. r \in Lists
  <2>1. r.cle \in CLEs
    BY <1>1, <1>2 DEF Lists, CLEs, Entry
  <2>2. r.zone_player_count \in [Servers -> Int]
    BY <1>1, <1>2 DEF RemovePlayer
  <2> QED BY <1>1, <2>1, <2>2 DEF Lists, Camp
<1>4. r.cle[e].server = 0 /\ r.cle[e].online = l.cle[e].online
  BY <1>1, <1>2 DEF Lists, CLEs, Entry
<1>5. \A q \in Entries \ {e} : r.cle[q] = l.cle[q]
  BY <1>1, <1>2 DEF Lists, CLEs
<1>6. \A s \in Servers : r.zone_player_count[s] =
        l.zone_player_count[s] + One(r.cle[e].server = s)
                               - One(l.cle[e].server = s)
  BY <1>1, <1>2, <1>4 DEF RemovePlayer, One
<1>7. r.numplayers = l.numplayers + One(r.cle[e].online >= Online)
                                  - One(l.cle[e].online >= Online)
  BY <1>1, <1>2, <1>4 DEF One, Lists
<1>8. Counted(r)
  BY <1>3, <1>5, <1>6, <1>7, OneEntry
<1> QED BY <1>2, <1>8

\* The status an entry has after SetOnline.
After(was, o) == IF o # Online \/ was < Online THEN o ELSE was

LEMMA SetOnlineCounted ==
  ASSUME NEW l, Counted(l), NEW e \in Entries, NEW o \in Status
  PROVE  /\ Counted(SetOnline(l, e, o))
         /\ SetOnline(l, e, o).cle =
              IF o < Zoning
              THEN [l.cle EXCEPT ![e].online = After(l.cle[e].online, o),
                                 ![e].server = 0]
              ELSE [l.cle EXCEPT ![e].online = After(l.cle[e].online, o)]
<1> DEFINE was == l.cle[e].online
           r == [l EXCEPT !.numplayers = CountPlayers(@, was, o),
                          !.cle[e].online =
                             IF o # Online \/ was < Online THEN o ELSE @]
<1>1. /\ l \in Lists /\ l.cle[e] \in Entry /\ was \in Status
      /\ \A s \in Servers : l.zone_player_count[s] \in Int
  BY DEF Counted, Lists, CLEs, Entry, Status
<1>2. r.cle = [l.cle EXCEPT ![e].online = After(was, o)]
      /\ r.numplayers = CountPlayers(l.numplayers, was, o)
      /\ r.zone_player_count = l.zone_player_count
  BY <1>1 DEF After, Lists, CLEs, Entry
<1>3. After(was, o) \in Status
  BY <1>1 DEF After
<1>4. r.cle[e].server = l.cle[e].server /\ r.cle[e].online = After(was, o)
  BY <1>1, <1>2 DEF Lists, CLEs, Entry
<1>5. r \in Lists
  <2>1. r.cle \in CLEs
    BY <1>1, <1>2, <1>3 DEF Lists, CLEs, Entry, Status
  <2>2. r.numplayers \in Int
    BY <1>1, <1>2 DEF CountPlayers, Lists
  <2> QED BY <1>1, <1>2, <2>1, <2>2 DEF Lists
<1>6. \A q \in Entries \ {e} : r.cle[q] = l.cle[q]
  BY <1>1, <1>2 DEF Lists, CLEs
<1>7. \A s \in Servers : r.zone_player_count[s] =
        l.zone_player_count[s] + One(r.cle[e].server = s)
                               - One(l.cle[e].server = s)
  BY <1>1, <1>2, <1>4 DEF One
<1>8. r.numplayers = l.numplayers + One(r.cle[e].online >= Online)
                                  - One(l.cle[e].online >= Online)
  BY <1>1, <1>2, <1>4 DEF One, Lists, CountPlayers, After, Status, Never, Offline,
     Online, InZone
<1>9. Counted(r)
  BY <1>5, <1>6, <1>7, <1>8, OneEntry
<1>10. SetOnline(l, e, o) = IF o < Zoning THEN Camp(r, e) ELSE r
  BY DEF SetOnline
<1>11. Counted(Camp(r, e)) /\ Camp(r, e).cle = [r.cle EXCEPT ![e].server = 0]
  BY <1>9, CampCounted
<1>12. [r.cle EXCEPT ![e].server = 0] =
         [l.cle EXCEPT ![e].online = After(was, o), ![e].server = 0]
  BY <1>2
<1> QED BY <1>2, <1>9, <1>10, <1>11, <1>12

\* Operation r of entry e of l: its place is s, none, or what it was.
Touches(l, r, e, s) ==
  /\ Counted(r)
  /\ \A q \in Entries \ {e} : r.cle[q] = l.cle[q]
  /\ r.cle[e].listed = l.cle[e].listed /\ r.cle[e].login = l.cle[e].login
  /\ r.cle[e].server \in {0, s, l.cle[e].server}

LEMMA SetOnlineTouches ==
  ASSUME NEW l, Counted(l), NEW e \in Entries, NEW o \in Status
  PROVE  Touches(l, SetOnline(l, e, o), e, 0)
<1> DEFINE r == SetOnline(l, e, o)
           on == After(l.cle[e].online, o)
<1>1. l.cle \in CLEs /\ l.cle[e] \in Entry
  BY DEF Counted, Lists, CLEs
<1>2. /\ Counted(r)
      /\ r.cle = IF o < Zoning
                 THEN [l.cle EXCEPT ![e].online = on, ![e].server = 0]
                 ELSE [l.cle EXCEPT ![e].online = on]
  BY SetOnlineCounted
<1> HIDE DEF r, on
<1>3. CASE o < Zoning
  <2>1. r.cle = [l.cle EXCEPT ![e].online = on, ![e].server = 0]
    BY <1>2, <1>3
  <2>2. \A q \in Entries \ {e} : r.cle[q] = l.cle[q]
    BY <1>1, <2>1 DEF CLEs
  <2>3. r.cle[e] = [l.cle[e] EXCEPT !.online = on, !.server = 0]
    BY <1>1, <2>1 DEF CLEs
  <2>4. /\ r.cle[e].listed = l.cle[e].listed /\ r.cle[e].login = l.cle[e].login
        /\ r.cle[e].server = 0
    BY <1>1, <2>3 DEF Entry
  <2> QED BY <1>2, <2>2, <2>4 DEF Touches, r
<1>4. CASE ~(o < Zoning)
  <2>1. r.cle = [l.cle EXCEPT ![e].online = on]
    BY <1>2, <1>4
  <2>2. \A q \in Entries \ {e} : r.cle[q] = l.cle[q]
    BY <1>1, <2>1 DEF CLEs
  <2>3. r.cle[e] = [l.cle[e] EXCEPT !.online = on]
    BY <1>1, <2>1 DEF CLEs
  <2>4. /\ r.cle[e].listed = l.cle[e].listed /\ r.cle[e].login = l.cle[e].login
        /\ r.cle[e].server = l.cle[e].server
    BY <1>1, <2>3 DEF Entry
  <2> QED BY <1>2, <2>2, <2>4 DEF Touches, r
<1> QED BY <1>3, <1>4 DEF r

LEMMA UpdateTouches ==
  ASSUME NEW l, Counted(l), NEW e \in Entries, NEW s \in Servers,
         NEW o \in Status
  PROVE  Touches(l, Update(l, e, s, o), e, s)
<1> DEFINE from == l.cle[e].server
           r == [l EXCEPT !.zone_player_count = MovePlayer(@, from, s),
                          !.cle[e].server = s]
<1>1. /\ l \in Lists /\ l.cle[e] \in Entry
      /\ \A q \in Servers : q \in Nat \ {0} /\ l.zone_player_count[q] \in Int
  BY DEF Counted, Lists, CLEs, Servers
<1>2. r.cle = [l.cle EXCEPT ![e].server = s] /\ r.numplayers = l.numplayers
      /\ r.zone_player_count = MovePlayer(l.zone_player_count, from, s)
  BY <1>1 DEF Lists, CLEs
<1>3. r.cle[e] = [l.cle[e] EXCEPT !.server = s]
  BY <1>1, <1>2 DEF Lists, CLEs
<1>4. /\ r.cle[e].server = s /\ r.cle[e].online = l.cle[e].online
      /\ r.cle[e].listed = l.cle[e].listed /\ r.cle[e].login = l.cle[e].login
  BY <1>1, <1>3 DEF Entry
<1>5. r \in Lists
  <2>1. r.cle \in CLEs
    <3>1. r.cle[e] \in Entry
      BY <1>1, <1>3 DEF Entry, Servers
    <3> QED BY <1>1, <1>2, <1>3, <3>1 DEF Lists, CLEs
  <2>2. r.zone_player_count \in [Servers -> Int]
    BY <1>1, <1>2 DEF MovePlayer, AddPlayer, RemovePlayer, Lists
  <2> QED BY <1>1, <1>2, <2>1, <2>2 DEF Lists
<1>6. \A q \in Entries \ {e} : r.cle[q] = l.cle[q]
  BY <1>1, <1>2 DEF Lists, CLEs
<1>7. \A q \in Servers : r.zone_player_count[q] =
        l.zone_player_count[q] + One(r.cle[e].server = q)
                               - One(l.cle[e].server = q)
  BY <1>1, <1>2, <1>4 DEF MovePlayer, AddPlayer, RemovePlayer, One
<1>8. r.numplayers = l.numplayers + One(r.cle[e].online >= Online)
                                  - One(l.cle[e].online >= Online)
  BY <1>1, <1>2, <1>4 DEF One, Lists
<1>9. Counted(r)
  BY <1>5, <1>6, <1>7, <1>8, OneEntry
<1>10. Touches(r, SetOnline(r, e, o), e, 0)
  BY <1>9, SetOnlineTouches
<1>11. Update(l, e, s, o) = SetOnline(r, e, o)
  BY DEF Update
<1> QED BY <1>4, <1>6, <1>10, <1>11 DEF Touches

LEMMA LeavingZoneTouches ==
  ASSUME NEW l, Counted(l), NEW e \in Entries, NEW s \in Servers,
         NEW o \in Status
  PROVE  Touches(l, LeavingZone(l, e, s, o), e, s)
<1> DEFINE r == SetOnline(l, e, o)
<1>1. Touches(l, r, e, 0)
  BY SetOnlineTouches
<1>2. /\ Counted(Camp(r, e))
      /\ Camp(r, e).cle = [r.cle EXCEPT ![e].server = 0]
  BY <1>1, CampCounted DEF Touches
<1>3. r.cle \in CLEs /\ r.cle[e] \in Entry
  BY <1>1 DEF Touches, Counted, Lists, CLEs
<1>4. Touches(l, Camp(r, e), e, s)
  BY <1>1, <1>2, <1>3 DEF Touches, CLEs, Entry
<1>5. Touches(l, l, e, s)
  BY DEF Touches
<1> QED BY <1>4, <1>5 DEF LeavingZone

LEMMA CreatedCounted ==
  ASSUME NEW l, Counted(l), NEW e \in Entries, l.cle[e] = NoEntry,
         NEW p \in Logins
  PROVE  /\ Counted(Created(l, e, p))
         /\ Created(l, e, p).cle =
              [l.cle EXCEPT ![e] = [listed |-> TRUE, login |-> p,
                                    online |-> Never, server |-> 0]]
<1> DEFINE r == Created(l, e, p)
           new == [listed |-> TRUE, login |-> p, online |-> Never, server |-> 0]
<1>1. l \in Lists /\ \A s \in Servers : l.zone_player_count[s] \in Int
  BY DEF Counted, Lists
<1>2. r.cle = [l.cle EXCEPT ![e] = new] /\ r.numplayers = l.numplayers
      /\ r.zone_player_count = l.zone_player_count
  BY <1>1 DEF Created, Lists, CLEs
<1>3. r.cle[e] = new
  BY <1>1, <1>2 DEF Lists, CLEs
<1>4. r.cle[e].server = l.cle[e].server /\ r.cle[e].online = l.cle[e].online
  BY <1>3 DEF NoEntry
<1>5. r \in Lists
  <2>1. new \in Entry
    BY DEF Entry, Logins, Never, InZone
  <2>2. r.cle \in CLEs
    BY <1>1, <1>2, <2>1 DEF Lists, CLEs
  <2> QED BY <1>1, <1>2, <2>2 DEF Lists, Created
<1>6. \A q \in Entries \ {e} : r.cle[q] = l.cle[q]
  BY <1>1, <1>2 DEF Lists, CLEs
<1>7. \A s \in Servers : r.zone_player_count[s] =
        l.zone_player_count[s] + One(r.cle[e].server = s)
                               - One(l.cle[e].server = s)
  BY <1>1, <1>2, <1>4 DEF One
<1>8. r.numplayers = l.numplayers + One(r.cle[e].online >= Online)
                                  - One(l.cle[e].online >= Online)
  BY <1>1, <1>2, <1>4 DEF One, Lists
<1>9. Counted(r)
  BY <1>5, <1>6, <1>7, <1>8, OneEntry
<1> QED BY <1>2, <1>9

LEMMA ErasedCounted ==
  ASSUME NEW l, Counted(l), NEW e \in Entries,
         l.cle[e].server = 0, l.cle[e].online = Offline
  PROVE  /\ Counted(Erased(l, e))
         /\ Erased(l, e).cle = [l.cle EXCEPT ![e] = NoEntry]
<1> DEFINE r == Erased(l, e)
<1>1. l \in Lists /\ \A s \in Servers : l.zone_player_count[s] \in Int
  BY DEF Counted, Lists
<1>2. r.cle = [l.cle EXCEPT ![e] = NoEntry] /\ r.numplayers = l.numplayers
      /\ r.zone_player_count = l.zone_player_count
  BY <1>1 DEF Erased, Lists, CLEs
<1>3. r.cle[e] = NoEntry
  BY <1>1, <1>2 DEF Lists, CLEs
<1>4. r.cle[e].server = 0 /\ r.cle[e].online = Never
  BY <1>3 DEF NoEntry
<1>5. r \in Lists
  <2>1. NoEntry \in Entry
    BY DEF NoEntry, Entry, Never, InZone
  <2>2. r.cle \in CLEs
    BY <1>1, <1>2, <2>1 DEF Lists, CLEs
  <2> QED BY <1>1, <1>2, <2>2 DEF Lists, Erased
<1>6. \A q \in Entries \ {e} : r.cle[q] = l.cle[q]
  BY <1>1, <1>2 DEF Lists, CLEs
<1>7. \A s \in Servers : r.zone_player_count[s] =
        l.zone_player_count[s] + One(r.cle[e].server = s)
                               - One(l.cle[e].server = s)
  BY <1>1, <1>2, <1>4 DEF One
<1>8. r.numplayers = l.numplayers + One(r.cle[e].online >= Online)
                                  - One(l.cle[e].online >= Online)
  BY <1>1, <1>2, <1>4 DEF One, Lists, Never, Offline, Online
<1>9. Counted(r)
  BY <1>5, <1>6, <1>7, <1>8, OneEntry
<1> QED BY <1>2, <1>9

LEMMA RemovedCounted ==
  ASSUME NEW l, Counted(l), NEW e \in Entries
  PROVE  /\ Counted(Removed(l, e))
         /\ Removed(l, e).cle[e] = NoEntry
         /\ \A q \in Entries \ {e} : Removed(l, e).cle[q] = l.cle[q]
<1> DEFINE off == SetOnline(l, e, Offline)
           out == Camp(off, e)
<1>1. l.cle \in CLEs /\ l.cle[e] \in Entry
  BY DEF Counted, Lists, CLEs
<1>2. /\ Counted(off)
      /\ off.cle = [l.cle EXCEPT ![e].online = Offline, ![e].server = 0]
  <2>1. Offline \in Status /\ Offline < Zoning
        /\ After(l.cle[e].online, Offline) = Offline
    BY DEF Status, Offline, Zoning, Never, InZone, After, Online
  <2> QED BY <2>1, SetOnlineCounted
<1>3. Counted(out) /\ out.cle = [off.cle EXCEPT ![e].server = 0]
  BY <1>2, CampCounted
<1>4. /\ out.cle[e].server = 0 /\ out.cle[e].online = Offline
      /\ \A q \in Entries \ {e} : out.cle[q] = l.cle[q]
  BY <1>1, <1>2, <1>3 DEF CLEs, Entry
<1>5. Removed(l, e) = Erased(out, e)
  BY DEF Removed
<1> HIDE DEF out, off
<1>6. /\ Counted(Removed(l, e))
      /\ Removed(l, e).cle = [out.cle EXCEPT ![e] = NoEntry]
  <2>1. Counted(out)
    BY <1>3
  <2>2. out.cle[e].server = 0 /\ out.cle[e].online = Offline
    BY <1>4
  <2>3. /\ Counted(Erased(out, e))
        /\ Erased(out, e).cle = [out.cle EXCEPT ![e] = NoEntry]
    BY <2>1, <2>2, ErasedCounted
  <2> QED BY <1>5, <2>3
<1>7. out.cle \in CLEs
  BY <1>3 DEF Counted, Lists
<1> QED BY <1>4, <1>6, <1>7 DEF CLEs

\* What CLERemoveZSRef makes of the entries.
Freed(l, s) ==
  [e \in Entries |-> IF l.cle[e].server = s
                     THEN [l.cle[e] EXCEPT !.online = Offline, !.server = 0]
                     ELSE l.cle[e]]

LEMMA RemoveRefFields ==
  ASSUME NEW l \in Lists, NEW s \in Servers
  PROVE  /\ CLERemoveZSRef(l, s).numplayers =
              l.numplayers - Cardinality(At(l.cle, s) \cap InGame(l.cle))
         /\ CLERemoveZSRef(l, s).zone_player_count =
              [l.zone_player_count EXCEPT ![s] = 0]
         /\ CLERemoveZSRef(l, s).cle = Freed(l, s)
         /\ CLERemoveZSRef(l, s) =
              [cle |-> CLERemoveZSRef(l, s).cle,
               zone_player_count |-> CLERemoveZSRef(l, s).zone_player_count,
               numplayers |-> CLERemoveZSRef(l, s).numplayers]
<1> DEFINE n == l.numplayers - Cardinality(At(l.cle, s) \cap InGame(l.cle))
           f == Freed(l, s)
<1>1. EntriesAt(l, s) = At(l.cle, s) /\ OnlineEntries(l) = InGame(l.cle)
  BY DEF EntriesAt, At, OnlineEntries, InGame
<1>2. [e \in Entries |->
        IF e \in EntriesAt(l, s)
        THEN [l.cle[e] EXCEPT !.online = Offline, !.server = 0]
        ELSE l.cle[e]] = f
  BY <1>1, Zenon DEF At, Freed
<1>3. CLERemoveZSRef(l, s) =
        [l EXCEPT !.numplayers = @ - Cardinality(At(l.cle, s) \cap InGame(l.cle)),
                  !.zone_player_count[s] = 0, !.cle = f]
  BY <1>1, <1>2, Zenon DEF CLERemoveZSRef
<1> HIDE DEF f
<1>4. CLERemoveZSRef(l, s) =
        [cle |-> f, zone_player_count |-> [l.zone_player_count EXCEPT ![s] = 0],
         numplayers |-> n]
  BY <1>3 DEF Lists
<1> QED BY <1>4 DEF f

LEMMA RemoveRefCounted ==
  ASSUME NEW l, Counted(l), NEW s \in Servers
  PROVE  /\ Counted(CLERemoveZSRef(l, s))
         /\ CLERemoveZSRef(l, s).cle = Freed(l, s)
<1> DEFINE r == CLERemoveZSRef(l, s)
           gone == At(l.cle, s) \cap InGame(l.cle)
<1>1. /\ l \in Lists /\ s \in Nat \ {0} /\ l.numplayers \in Int
      /\ \A e \in Entries : l.cle[e] \in Entry
      /\ \A q \in Servers : l.zone_player_count[q] \in Int
      /\ l.zone_player_count \in [Servers -> Int]
  <2>1. l \in Lists /\ s \in Nat \ {0}
    BY DEF Counted, Servers
  <2>2. l.cle \in CLEs /\ l.zone_player_count \in [Servers -> Int] /\ l.numplayers \in Int
    BY <2>1 DEF Lists
  <2> QED BY <2>1, <2>2 DEF CLEs
<1>3. /\ r.numplayers = l.numplayers - Cardinality(gone)
      /\ r.zone_player_count = [l.zone_player_count EXCEPT ![s] = 0]
      /\ r.cle = Freed(l, s)
      /\ r = [cle |-> r.cle, zone_player_count |-> r.zone_player_count,
              numplayers |-> r.numplayers]
  BY <1>1, RemoveRefFields
<1> HIDE DEF r
<1>4. \A e \in Entries :
        /\ r.cle[e] \in Entry
        /\ l.cle[e].server = s =>
             r.cle[e].server = 0 /\ r.cle[e].online = Offline
        /\ l.cle[e].server # s => r.cle[e] = l.cle[e]
  <2> TAKE e \in Entries
  <2>1. /\ l.cle[e] \in Entry
        /\ r.cle[e] = IF l.cle[e].server = s
                      THEN [l.cle[e] EXCEPT !.online = Offline, !.server = 0]
                      ELSE l.cle[e]
    BY <1>1, <1>3 DEF Freed
  <2>2. CASE l.cle[e].server = s
    <3>1. r.cle[e] = [l.cle[e] EXCEPT !.online = Offline, !.server = 0]
      BY <2>1, <2>2
    <3>2. Offline \in Never .. InZone /\ 0 \in 0 .. NServers
      BY DEF Offline, Never, InZone
    <3>3. /\ r.cle[e] \in Entry /\ r.cle[e].server = 0
          /\ r.cle[e].online = Offline
      BY <2>1, <3>1, <3>2 DEF Entry
    <3> QED BY <2>2, <3>3
  <2>3. CASE l.cle[e].server # s
    BY <2>1, <2>3
  <2> QED BY <2>2, <2>3
<1>5. /\ InGame(l.cle) \in SUBSET Entries /\ gone \in SUBSET Entries
      /\ gone \subseteq InGame(l.cle)
  BY DEF InGame
<1>6. r \in Lists
  <2>1. r.cle \in CLEs
    BY <1>3, <1>4 DEF CLEs, Freed
  <2>2. Cardinality(gone) \in Nat
    BY <1>5, EntriesFinite
  <2>3. r.zone_player_count \in [Servers -> Int]
    BY <1>1, <1>3
  <2>4. r.numplayers \in Int
    BY <1>1, <1>3, <2>2
  <2> QED BY <1>3, <2>1, <2>3, <2>4 DEF Lists
<1>7. ASSUME NEW q \in Servers
      PROVE  r.zone_player_count[q] = Cardinality(At(r.cle, q))
  <2>1. CASE q = s
    <3>1. At(r.cle, q) = {}
      BY <1>1, <1>4, <2>1 DEF At
    <3> QED BY <1>1, <1>3, <2>1, <3>1, FS_EmptySet
  <2>2. CASE q # s
    <3>1. \A e \in Entries : r.cle[e].server = q <=> l.cle[e].server = q
      BY <1>1, <1>4, <2>2 DEF Servers
    <3>2. At(r.cle, q) = At(l.cle, q)
      BY <3>1 DEF At
    <3> QED BY <1>1, <1>3, <2>2, <3>2 DEF Counted
  <2> QED BY <2>1, <2>2
<1>8. r.numplayers = Cardinality(InGame(r.cle))
  <2>1. InGame(r.cle) = InGame(l.cle) \ gone
    BY <1>1, <1>4 DEF InGame, At, Offline, Online
  <2>2. InGame(l.cle) \cap gone = gone
    BY <1>5
  <2>3. IsFiniteSet(InGame(l.cle))
    BY <1>5, EntriesFinite
  <2>4. Cardinality(InGame(r.cle)) = Cardinality(InGame(l.cle)) - Cardinality(gone)
    BY <2>1, <2>2, <2>3, FS_Difference
  <2> QED BY <1>3, <2>4 DEF Counted
<1> QED BY <1>3, <1>6, <1>7, <1>8 DEF Counted, r

-----------------------------------------------------------------------------
(* The inductive invariant *)

\* What conn may be, of a server that world has, of one whose process lives.
Conns   == {"up", "dead", "cut", "lost", "adrift"}
Joined  == {"up", "dead", "cut"}
Running == {"up", "cut", "adrift"}

\* List l, when the next id is n and the servers are c: it counts what it holds;
\* ids that are not in use are blank; an entry is at no server that is gone.
ListOK(l, n, c) ==
  /\ Counted(l)
  /\ \A e \in Entries : ~l.cle[e].listed => l.cle[e] = NoEntry
  /\ \A e \in Entries : e >= n => ~l.cle[e].listed
  /\ \A e \in Entries : l.cle[e].server # 0 => c[l.cle[e].server] \in Joined
ListInv == ListOK(list, nextID, conn)

SessionsLive ==
  \A p \in Logins : session[p].cle # 0 =>
    session[p].cle \in Entries /\ list.cle[session[p].cle].listed

LinksType ==
  /\ nextID \in 1 .. NEntries + 1
  /\ conn \in [Servers -> Conns]
  /\ session \in [Logins -> [open : BOOLEAN, cle : 0 .. NEntries,
                             zone : BOOLEAN, to : 0 .. NServers,
                             wid : 0 .. NEntries]]
  /\ going \in [Logins -> [to : 0 .. NServers, wid : 0 .. NEntries]]
  /\ pc \in [Servers -> [Logins ->
       [at : {"none", "connecting", "in", "zoning", "lingering"},
        wid : 0 .. NEntries]]]
  /\ toWorld \in [Servers -> Seq(ClientListMsg \cup SetZoneMsg)]
  /\ toZone \in [Servers -> Seq(ChangeWIDMsg)]
  /\ moves \in 0 .. MaxMoves
  /\ limited \in BOOLEAN

\* What is on its way names entries, and comes from servers that are there.
LinksFrom ==
  /\ \A p \in Logins : session[p].to # 0 => session[p].wid \in Entries
  /\ \A p \in Logins : going[p].to # 0 => going[p].wid \in Entries
  /\ \A s \in Servers, p \in Logins :
       pc[s][p].at # "none" => pc[s][p].wid \in Entries /\ conn[s] \in Running
  /\ \A s \in Servers : conn[s] \notin Joined => toWorld[s] = <<>>

LinksInv == LinksType /\ LinksFrom

IInv == ListInv /\ SessionsLive /\ LinksInv

LEMMA InvHolds == IInv => TypeOK /\ ZonesCounted /\ PlayersCounted /\ PointersLive
<1> SUFFICES ASSUME IInv
             PROVE  TypeOK /\ ZonesCounted /\ PlayersCounted /\ PointersLive
  OBVIOUS
<1>1. /\ \A s \in Servers : EntriesAt(list, s) = At(list.cle, s)
      /\ OnlineEntries(list) = InGame(list.cle)
  BY DEF EntriesAt, At, OnlineEntries, InGame
<1>2. ZonesCounted /\ PlayersCounted
  BY <1>1 DEF IInv, ListInv, ListOK, Counted, ZonesCounted, PlayersCounted
<1>3. list \in List
  <2>1. /\ \A s \in Servers : At(list.cle, s) \in SUBSET Entries
        /\ InGame(list.cle) \in SUBSET Entries
    BY DEF At, InGame
  <2>2. /\ \A s \in Servers : list.zone_player_count[s] \in Nat
        /\ list.numplayers \in Nat
    BY <2>1, EntriesFinite DEF IInv, ListInv, ListOK, Counted
  <2>3. list \in Lists
    BY DEF IInv, ListInv, ListOK, Counted
  <2>4. list.zone_player_count \in [Servers -> Nat]
    BY <2>2, <2>3 DEF Lists
  <2> QED BY <2>2, <2>3, <2>4 DEF Lists, List, CLEs
<1>4. TypeOK
  BY <1>3 DEF IInv, LinksInv, LinksType, TypeOK, Conns
<1>5. \A e \in Entries : list.cle[e].server # 0 => e \in Listed
  BY DEF IInv, ListInv, ListOK, NoEntry, Listed
<1>6. PointersLive
  <2>1. \A e \in Entries : list.cle[e].server \in Servers \cup {0}
    BY DEF IInv, ListInv, ListOK, Counted, Lists, CLEs, Entry, Servers
  <2> QED BY <1>5, <2>1
      DEF IInv, ListInv, ListOK, SessionsLive, PointersLive, Listed, AtWorld, Joined
<1> QED BY <1>2, <1>4, <1>6

LEMMA InitInv == Init => IInv
<1> SUFFICES ASSUME Init PROVE IInv
  OBVIOUS
<1>1. \A e \in Entries : list.cle[e] = NoEntry
  BY DEF Init
<1>2. Counted(list)
  <2>1. NoEntry \in Entry
    BY DEF NoEntry, Entry, Never, InZone
  <2>2. list \in Lists
    BY <2>1 DEF Init, Lists, CLEs
  <2>3. \A s \in Servers : At(list.cle, s) = {}
    BY <1>1 DEF At, NoEntry, Servers
  <2>4. InGame(list.cle) = {}
    BY <1>1 DEF InGame, NoEntry, Never, Online
  <2> QED BY <2>2, <2>3, <2>4, FS_EmptySet DEF Counted, Init
<1>3. ListInv
  <2>1. \A e \in Entries : ~list.cle[e].listed /\ list.cle[e].server = 0
    BY <1>1 DEF NoEntry
  <2> QED BY <1>1, <1>2, <2>1 DEF ListInv, ListOK
<1>4. SessionsLive
  <2>1. \A p \in Logins : session[p].cle = 0
    BY DEF Init, NoClient
  <2> QED BY <2>1 DEF SessionsLive
<1>5. LinksInv
  <2>1. /\ 0 \in 0 .. NEntries /\ 0 \in 0 .. NServers
        /\ nextID \in 1 .. NEntries + 1 /\ moves \in 0 .. MaxMoves
    BY DEF Init
  <2>2. NoClient \in [open : BOOLEAN, cle : 0 .. NEntries, zone : BOOLEAN,
                      to : 0 .. NServers, wid : 0 .. NEntries]
    BY <2>1 DEF NoClient
  <2>3. Nowhere \in [to : 0 .. NServers, wid : 0 .. NEntries]
    BY <2>1 DEF Nowhere
  <2>4. NoPC \in [at : {"none", "connecting", "in", "zoning", "lingering"},
                  wid : 0 .. NEntries]
    BY <2>1 DEF NoPC
  <2>5. /\ \A p \in Logins : session[p].to = 0 /\ going[p].to = 0
        /\ \A s \in Servers, p \in Logins : pc[s][p].at = "none"
        /\ \A s \in Servers : toWorld[s] = <<>> /\ toZone[s] = <<>>
    BY DEF Init, NoClient, Nowhere, NoPC
  <2>6. /\ toWorld \in [Servers -> Seq(ClientListMsg \cup SetZoneMsg)]
        /\ toZone \in [Servers -> Seq(ChangeWIDMsg)]
    BY DEF Init
  <2> QED BY <2>1, <2>2, <2>3, <2>4, <2>5, <2>6
      DEF Init, LinksInv, LinksType, LinksFrom, Conns, Joined
<1> QED BY <1>3, <1>4, <1>5 DEF IInv

-----------------------------------------------------------------------------
(* What the operations make of a list that is right *)

SameListed(l, r) == \A e \in Entries : l.cle[e].listed = r.cle[e].listed

LEMMA TouchedOK ==
  ASSUME NEW l, NEW n, NEW c, ListOK(l, n, c), NEW r, NEW e \in Entries,
         l.cle[e].listed, NEW s, s # 0 => c[s] \in Joined, Touches(l, r, e, s)
  PROVE  ListOK(r, n, c) /\ SameListed(l, r)
<1>1. SameListed(l, r)
  BY DEF Touches, SameListed
<1>2. \A q \in Entries : ~r.cle[q].listed => r.cle[q] = NoEntry
  BY DEF Touches, ListOK
<1>3. \A q \in Entries : q >= n => ~r.cle[q].listed
  BY <1>1 DEF SameListed, ListOK
<1>4. \A q \in Entries : r.cle[q].server # 0 => c[r.cle[q].server] \in Joined
  BY DEF Touches, ListOK
<1> QED BY <1>1, <1>2, <1>3, <1>4 DEF ListOK, Touches

LEMMA CreatedOK ==
  ASSUME NEW l, NEW n \in Entries, NEW c, ListOK(l, n, c), NEW p \in Logins
  PROVE  /\ ListOK(Created(l, n, p), n + 1, c)
         /\ Created(l, n, p).cle[n].listed
         /\ \A q \in Entries \ {n} : Created(l, n, p).cle[q] = l.cle[q]
<1> DEFINE r == Created(l, n, p)
           new == [listed |-> TRUE, login |-> p, online |-> Never, server |-> 0]
<1>1. Counted(l) /\ l.cle[n] = NoEntry /\ n \in Nat
  BY DEF ListOK, Entries
<1>2. Counted(r) /\ r.cle = [l.cle EXCEPT ![n] = new]
  BY <1>1, CreatedCounted
<1>3. l.cle \in CLEs
  BY <1>1 DEF Counted, Lists
<1>4. r.cle[n] = new /\ \A q \in Entries \ {n} : r.cle[q] = l.cle[q]
  BY <1>2, <1>3 DEF CLEs
<1> HIDE DEF r
<1>5. ListOK(r, n + 1, c)
  <2>1. \A q \in Entries : ~r.cle[q].listed => r.cle[q] = NoEntry
    BY <1>4 DEF ListOK
  <2>2. \A q \in Entries : q >= n + 1 => ~r.cle[q].listed
    BY <1>1, <1>4 DEF ListOK, Entries
  <2>3. \A q \in Entries : r.cle[q].server # 0 => c[r.cle[q].server] \in Joined
    BY <1>4 DEF ListOK
  <2> QED BY <1>2, <2>1, <2>2, <2>3 DEF ListOK
<1> QED BY <1>4, <1>5 DEF r

LEMMA RemovedOK ==
  ASSUME NEW l, NEW n, NEW c, ListOK(l, n, c), NEW e \in Entries
  PROVE  /\ ListOK(Removed(l, e), n, c)
         /\ \A q \in Entries \ {e} : Removed(l, e).cle[q] = l.cle[q]
<1>1. /\ Counted(Removed(l, e)) /\ Removed(l, e).cle[e] = NoEntry
      /\ \A q \in Entries \ {e} : Removed(l, e).cle[q] = l.cle[q]
  BY RemovedCounted DEF ListOK
<1>2. ~NoEntry.listed /\ NoEntry.server = 0
  BY DEF NoEntry
<1> QED BY <1>1, <1>2 DEF ListOK

LEMMA RemoveRefOK ==
  ASSUME NEW l, NEW n, NEW c, ListOK(l, n, c), NEW s \in Servers, NEW d,
         \A q \in Servers \ {s} : d[q] = c[q]
  PROVE  /\ ListOK(CLERemoveZSRef(l, s), n, d)
         /\ SameListed(l, CLERemoveZSRef(l, s))
<1> DEFINE r == CLERemoveZSRef(l, s)
<1>1. Counted(r) /\ r.cle = Freed(l, s)
  BY RemoveRefCounted DEF ListOK
<1>2. /\ s \in Nat \ {0}
      /\ \A e \in Entries : l.cle[e] \in Entry
  BY DEF ListOK, Counted, Lists, CLEs, Servers
<1> HIDE DEF r
<1>3. ASSUME NEW e \in Entries
      PROVE  /\ r.cle[e].listed = l.cle[e].listed
             /\ r.cle[e] = l.cle[e] \/ (l.cle[e].server = s /\ r.cle[e].server = 0)
             /\ l.cle[e].server = s => r.cle[e].server = 0
  <2>1. r.cle[e] = IF l.cle[e].server = s
                   THEN [l.cle[e] EXCEPT !.online = Offline, !.server = 0]
                   ELSE l.cle[e]
    BY <1>1 DEF Freed
  <2>2. CASE l.cle[e].server = s
    <3>1. r.cle[e] = [l.cle[e] EXCEPT !.online = Offline, !.server = 0]
      BY <2>1, <2>2
    <3> QED BY <1>2, <2>2, <3>1 DEF Entry
  <2>3. CASE l.cle[e].server # s
    BY <2>1, <2>3
  <2> QED BY <2>2, <2>3
<1>4. \A e \in Entries : ~r.cle[e].listed => r.cle[e] = NoEntry
  <2>1. NoEntry.server = 0
    BY DEF NoEntry
  <2> QED BY <1>2, <1>3, <2>1 DEF ListOK
<1>5. \A e \in Entries : r.cle[e].server # 0 => d[r.cle[e].server] \in Joined
  <2> SUFFICES ASSUME NEW e \in Entries, r.cle[e].server # 0
               PROVE  d[r.cle[e].server] \in Joined
    OBVIOUS
  <2>1. r.cle[e] = l.cle[e] /\ l.cle[e].server # s
    BY <1>3
  <2>2. l.cle[e].server \in Servers \ {s}
    BY <1>2, <2>1 DEF Entry, Servers
  <2> QED BY <2>1, <2>2 DEF ListOK
<1>6. SameListed(l, r)
  BY <1>3 DEF SameListed
<1>7. \A e \in Entries : e >= n => ~r.cle[e].listed
  BY <1>6 DEF SameListed, ListOK
<1> QED BY <1>1, <1>4, <1>5, <1>6, <1>7 DEF ListOK, r

-----------------------------------------------------------------------------
(* Every step keeps the list right and the sessions' entries in it *)

LEMMA Statuses ==
  {Offline, Online, CharSelect, Zoning, InZone} \subseteq Status
BY DEF Status, Never, Offline, Online, CharSelect, Zoning, InZone

\* The session of p keeps its entry.
SameSessions ==
  \A p \in Logins : session'[p].cle # 0 => session'[p].cle = session[p].cle

LEMMA Unlisted ==
  ASSUME IInv, UNCHANGED <<list, nextID, conn>>, SameSessions
  PROVE  ListInv' /\ SessionsLive'
BY DEF IInv, ListInv, ListOK, SessionsLive, SameSessions

LEMMA StillListed ==
  ASSUME SessionsLive, SameListed(list, list'), SameSessions
  PROVE  SessionsLive'
BY DEF SessionsLive, SameListed, SameSessions

\* A step whose whole effect on the list is operation of entry e, for server s.
LEMMA Touched ==
  ASSUME IInv, NEW e \in Entries, list.cle[e].listed,
         NEW s, s # 0 => conn[s] \in Joined, Touches(list, list', e, s),
         UNCHANGED <<nextID, conn>>, SameSessions
  PROVE  ListInv' /\ SessionsLive'
<1>1. ListOK(list', nextID, conn) /\ SameListed(list, list')
  BY TouchedOK DEF IInv, ListInv
<1> QED BY <1>1, StillListed DEF IInv, ListInv

LEMMA RemovesKeeps ==
  ASSUME IInv, NEW e \in Entries, Removes(e)
  PROVE  ListInv' /\ SessionsLive'
<1>1. /\ ListOK(list', nextID, conn)
      /\ \A q \in Entries \ {e} : list'.cle[q] = list.cle[q]
  BY RemovedOK DEF IInv, ListInv, Removes
<1>2. ListInv'
  BY <1>1 DEF ListInv, Removes
<1>3. \A p \in Logins : session'[p].cle # 0 =>
        session'[p].cle = session[p].cle /\ session[p].cle # e
  <2> TAKE p \in Logins
  <2>1. session[p] \in [open : BOOLEAN, cle : 0 .. NEntries, zone : BOOLEAN,
                        to : 0 .. NServers, wid : 0 .. NEntries]
    BY DEF IInv, LinksInv, LinksType
  <2>2. session'[p] = IF session[p].cle = e THEN [session[p] EXCEPT !.cle = 0]
                      ELSE session[p]
    BY DEF Removes, WithoutEntry
  <2>3. CASE session[p].cle = e
    <3>1. session'[p] = [session[p] EXCEPT !.cle = 0]
      BY <2>2, <2>3
    <3> QED BY <2>1, <3>1
  <2>4. CASE session[p].cle # e
    BY <2>2, <2>4
  <2> QED BY <2>3, <2>4
<1>4. SessionsLive'
  BY <1>1, <1>3 DEF SessionsLive, IInv
<1> QED BY <1>2, <1>4

LEMMA ClientUpdateKeeps ==
  ASSUME IInv, NEW s \in Servers, ClientUpdate(s)
  PROVE  ListInv' /\ SessionsLive'
<1> DEFINE m == Head(toWorld[s])
<1>1. /\ conn[s] \in Joined /\ s \in Nat \ {0}
      /\ m \in ClientListMsg
  <2>1. toWorld[s] \in Seq(ClientListMsg \cup SetZoneMsg) /\ toWorld[s] # <<>>
    BY DEF IInv, LinksInv, LinksType, ClientUpdate
  <2>2. m \in ClientListMsg \cup SetZoneMsg /\ m.op = "ClientList"
    BY <2>1 DEF ClientUpdate
  <2> QED BY <2>1, <2>2 DEF IInv, LinksInv, LinksFrom, SetZoneMsg, Servers
<1>2. /\ m.wid \in Entries /\ m.login \in Logins /\ m.remove \in 0 .. 2
  BY <1>1 DEF ClientListMsg
<1>3. SameSessions /\ UNCHANGED conn /\ Counted(list)
  BY DEF ClientUpdate, SameSessions, IInv, ListInv, ListOK
<1> HIDE DEF m
<1>4. CASE m.wid \in Listed
  <2>1. list' = Known(m, s) /\ UNCHANGED nextID
    BY <1>4 DEF ClientUpdate, m
  <2>2. Known(m, s) = CASE m.remove = 2 -> LeavingZone(list, m.wid, s, Offline)
                        [] m.remove = 1 -> LeavingZone(list, m.wid, s, Zoning)
                        [] OTHER        -> Update(list, m.wid, s, InZone)
    BY DEF Known
  <2>3. \/ list' = LeavingZone(list, m.wid, s, Offline)
        \/ list' = LeavingZone(list, m.wid, s, Zoning)
        \/ list' = Update(list, m.wid, s, InZone)
    BY <2>1, <2>2
  <2>4. Touches(list, list', m.wid, s)
    BY <1>2, <1>3, <2>3, LeavingZoneTouches, UpdateTouches, Statuses
  <2> QED BY <1>1, <1>2, <1>3, <1>4, <2>1, <2>4, Touched DEF Listed
<1>5. CASE m.wid \notin Listed
  <2> DEFINE new == Created(list, nextID, m.login)
             o == UnknownStatus(m.remove)
  <2>1. /\ nextID \in Entries /\ nextID' = nextID + 1
        /\ list' = IF o >= Zoning THEN Update(new, nextID, s, o)
                   ELSE SetOnline(new, nextID, o)
    BY <1>5 DEF ClientUpdate, Unknown, m
  <2>2. /\ ListOK(new, nextID + 1, conn) /\ new.cle[nextID].listed
        /\ \A q \in Entries \ {nextID} : new.cle[q] = list.cle[q]
    BY <1>2, <2>1, CreatedOK DEF IInv, ListInv
  <2>3. o \in Status
    BY <1>2, Statuses DEF UnknownStatus
  <2> HIDE DEF new, o
  <2>4. Counted(new)
    BY <2>2 DEF ListOK
  <2>5. Touches(new, list', nextID, s) \/ Touches(new, list', nextID, 0)
    BY <2>1, <2>3, <2>4, UpdateTouches, SetOnlineTouches
  <2>6. ListOK(list', nextID + 1, conn) /\ SameListed(new, list')
    BY <1>1, <2>1, <2>2, <2>5, TouchedOK
  <2>7. \A q \in Entries : list.cle[q].listed => list'.cle[q].listed
    BY <2>2, <2>6 DEF SameListed
  <2> QED BY <1>3, <2>1, <2>6, <2>7 DEF ListInv, SessionsLive, IInv, SameSessions
<1> QED BY <1>4, <1>5

LEMMA ListNext == IInv /\ [Next]_vars => ListInv' /\ SessionsLive'
<1> SUFFICES ASSUME IInv, [Next]_vars
             PROVE  ListInv' /\ SessionsLive'
  OBVIOUS
<1> USE DEF SameSessions
<1>0. /\ ListInv /\ SessionsLive /\ LinksType /\ LinksFrom /\ Counted(list)
      /\ \A p \in Logins :
           session[p] \in [open : BOOLEAN, cle : 0 .. NEntries, zone : BOOLEAN,
                           to : 0 .. NServers, wid : 0 .. NEntries]
  BY DEF IInv, ListInv, ListOK, LinksInv, LinksType
<1>1. ASSUME NEW p \in Logins, CLEAdd(p)
      PROVE  ListInv' /\ SessionsLive'
  <2>1. /\ ListOK(list', nextID + 1, conn)
        /\ \A q \in Entries : list.cle[q].listed => list'.cle[q].listed
    <3>1. nextID \in Entries /\ list' = Created(list, nextID, p)
      BY <1>1 DEF CLEAdd
    <3> QED BY <1>0, <3>1, CreatedOK DEF ListInv
  <2> QED BY <1>0, <1>1, <2>1 DEF CLEAdd, ListInv, SessionsLive
<1>2. ASSUME NEW p \in Logins, HandleSendLoginInfo(p)
      PROVE  ListInv' /\ SessionsLive'
  <2>1. PICK e \in Listed, o \in {Online, CharSelect} :
          /\ list' = SetOnline(list, e, o)
          /\ session' = [session EXCEPT ![p] = [NoClient EXCEPT !.open = TRUE,
                                                               !.cle = e]]
    BY <1>2 DEF HandleSendLoginInfo
  <2>2. e \in Entries /\ list.cle[e].listed /\ o \in Status
    BY <2>1, Statuses DEF Listed
  <2>3. Touches(list, list', e, 0)
    BY <1>0, <2>1, <2>2, SetOnlineTouches
  <2>4. ListOK(list', nextID, conn) /\ SameListed(list, list')
    BY <1>0, <2>2, <2>3, TouchedOK DEF ListInv
  <2>5. [NoClient EXCEPT !.open = TRUE, !.cle = e].cle = e
    BY DEF NoClient
  <2>6. \A q \in Logins : session'[q].cle = IF q = p THEN e ELSE session[q].cle
    BY <1>0, <2>1, <2>5 DEF LinksType
  <2> QED BY <1>0, <1>2, <2>2, <2>4, <2>6
      DEF HandleSendLoginInfo, ListInv, SessionsLive, SameListed
<1>3. ASSUME NEW p \in Logins, Clearance(p)
      PROVE  ListInv' /\ SessionsLive'
  <2>1. UNCHANGED <<nextID, conn>> /\ SameSessions
    BY <1>0, <1>3 DEF Clearance, LinksType
  <2>2. CASE session[p].cle # 0
    <3>1. /\ session[p].cle \in Entries /\ list.cle[session[p].cle].listed
          /\ list' = SetOnline(list, session[p].cle, Zoning)
      BY <1>0, <1>3, <2>2 DEF SessionsLive, Clearance
    <3>2. Touches(list, list', session[p].cle, 0)
      BY <1>0, <3>1, SetOnlineTouches, Statuses
    <3> QED BY <2>1, <3>1, <3>2, Touched
  <2>3. CASE session[p].cle = 0
    BY <1>3, <2>1, <2>3, Unlisted DEF Clearance
  <2> QED BY <2>2, <2>3
<1>4. ASSUME NEW p \in Logins, TellClientZoneUnavailable(p)
      PROVE  ListInv' /\ SessionsLive'
  <2>1. SameSessions
    BY <1>0, <1>4 DEF TellClientZoneUnavailable, LinksType
  <2> QED BY <1>4, <2>1, Unlisted DEF TellClientZoneUnavailable
<1>5. ASSUME NEW p \in Logins, SessionEnds(p)
      PROVE  ListInv' /\ SessionsLive'
  <2>1. UNCHANGED <<nextID, conn>> /\ SameSessions
    BY <1>0, <1>5 DEF SessionEnds, LinksType, NoClient
  <2>2. CASE GoesOffline(p)
    <3>1. /\ session[p].cle \in Entries /\ list.cle[session[p].cle].listed
          /\ list' = SetOnline(list, session[p].cle, Offline)
      BY <1>0, <1>5, <2>2 DEF SessionsLive, SessionEnds, GoesOffline
    <3>2. Touches(list, list', session[p].cle, 0)
      BY <1>0, <3>1, SetOnlineTouches, Statuses
    <3> QED BY <2>1, <3>1, <3>2, Touched
  <2>3. CASE ~GoesOffline(p)
    BY <1>5, <2>1, <2>3, Unlisted DEF SessionEnds
  <2> QED BY <2>2, <2>3
<1>6. ASSUME NEW p \in Logins, Handle_Connect_OP_ZoneEntry(p)
      PROVE  ListInv' /\ SessionsLive'
  BY <1>6, Unlisted DEF Handle_Connect_OP_ZoneEntry
<1>7. ASSUME NEW p \in Logins, NEW s \in Servers, EnterWorld(p, s)
      PROVE  ListInv' /\ SessionsLive'
  <2>1. SameSessions
    BY <1>0, <1>7 DEF EnterWorld, LinksType
  <2> QED BY <1>7, <2>1, Unlisted DEF EnterWorld
<1>8. ASSUME NEW p \in Logins, NEW s \in Servers,
             CompleteConnect(s, p) \/ UpdateWho(s, p) \/ Zones(s, p)
               \/ Quits(s, p) \/ ClientGone(s, p)
      PROVE  ListInv' /\ SessionsLive'
  <2>1. UNCHANGED <<list, nextID, conn, session>>
    BY <1>8 DEF CompleteConnect, UpdateWho, Zones, Quits, ClientGone
  <2> QED BY <2>1, Unlisted
<1>9. ASSUME NEW s \in Servers, ChangeWID(s) \/ Sleeps(s)
      PROVE  ListInv' /\ SessionsLive'
  <2>1. UNCHANGED <<list, nextID, conn, session>>
    BY <1>9 DEF ChangeWID, Sleeps
  <2> QED BY <2>1, Unlisted
<1>10. ASSUME NEW s \in Servers, ClientUpdate(s)
       PROVE  ListInv' /\ SessionsLive'
  BY <1>10, ClientUpdateKeeps
<1>11. ASSUME NEW s \in Servers, SetZone(s) \/ ServerLost(s)
       PROVE  ListInv' /\ SessionsLive'
  <2>1. /\ list' = CLERemoveZSRef(list, s) /\ UNCHANGED <<nextID, session>>
        /\ \A q \in Servers \ {s} : conn'[q] = conn[q]
    BY <1>0, <1>11 DEF SetZone, ServerLost, LinksType
  <2>2. ListOK(list', nextID, conn') /\ SameListed(list, list')
    BY <1>0, <2>1, RemoveRefOK DEF ListInv
  <2> QED BY <1>0, <2>1, <2>2, StillListed DEF ListInv
<1>12. ASSUME NEW s \in Servers,
              Dies(s) \/ LinkBreaks(s) \/ Connects(s) \/ Reconnects(s)
       PROVE  ListInv' /\ SessionsLive'
  <2>1. /\ UNCHANGED <<list, nextID, session>>
        /\ \A q \in Servers : conn[q] \in Joined => conn'[q] \in Joined
    BY <1>0, <1>12 DEF Dies, LinkBreaks, Connects, Reconnects, LinksType, AtWorld, Joined
  <2>2. \A e \in Entries : list.cle[e].server \in Servers \cup {0}
    BY <1>0 DEF Counted, Lists, CLEs, Entry, Servers
  <2>3. ListInv'
    BY <1>0, <2>1, <2>2 DEF ListInv, ListOK
  <2> QED BY <1>0, <2>1, <2>3 DEF SessionsLive
<1>13. ASSUME NEW e \in Entries, CheckStale(e) \/ GetCLEIP(e)
       PROVE  ListInv' /\ SessionsLive'
  <2>1. Removes(e)
    BY <1>13 DEF CheckStale, GetCLEIP
  <2> QED BY <2>1, RemovesKeeps
<1>14. CASE UNCHANGED vars
  BY <1>14, Unlisted DEF vars
<1> QED
  BY <1>1, <1>2, <1>3, <1>4, <1>5, <1>6, <1>7, <1>8, <1>9, <1>10, <1>11, <1>12,
     <1>13, <1>14 DEF Next

-----------------------------------------------------------------------------
(* Every step keeps what is on its way in order *)

Sessions == [open : BOOLEAN, cle : 0 .. NEntries, zone : BOOLEAN,
             to : 0 .. NServers, wid : 0 .. NEntries]
PCs == [at : {"none", "connecting", "in", "zoning", "lingering"},
        wid : 0 .. NEntries]
Packets == ClientListMsg \cup SetZoneMsg

LEMMA TailTyped ==
  ASSUME NEW S, NEW q \in Seq(S), q # <<>>
  PROVE  Tail(q) \in Seq(S) /\ Head(q) \in S
OBVIOUS

LEMMA AppendTyped ==
  ASSUME NEW S, NEW f \in [Servers -> Seq(S)], NEW s \in Servers, NEW m \in S
  PROVE  [f EXCEPT ![s] = Append(@, m)] \in [Servers -> Seq(S)]
OBVIOUS

\* A packet from a server with a client of login p.
LEMMA SendsKeeps ==
  ASSUME LinksInv, NEW s \in Servers, NEW p \in Logins, NEW remove \in 0 .. 2,
         pc[s][p].at # "none", Sends(s, remove, p)
  PROVE  /\ toWorld' \in [Servers -> Seq(Packets)]
         /\ \A q \in Servers : conn[q] \notin Joined => toWorld'[q] = <<>>
<1> DEFINE m == ClientList(s, remove, p)
<1>1. pc[s][p].wid \in Entries
  BY DEF LinksInv, LinksFrom
<1>2. m \in Packets
  BY <1>1 DEF ClientList, ClientListMsg, Packets
<1>3. /\ \/ conn[s] = "up" /\ toWorld' = [toWorld EXCEPT ![s] = Append(@, m)]
         \/ toWorld' = toWorld
      /\ toWorld \in [Servers -> Seq(Packets)]
  BY DEF Sends, LinksInv, LinksType, Packets
<1> HIDE DEF m
<1>4. toWorld' \in [Servers -> Seq(Packets)]
  <2>1. CASE toWorld' = toWorld
    BY <1>3, <2>1
  <2>2. CASE toWorld' # toWorld
    <3>1. toWorld' = [toWorld EXCEPT ![s] = Append(@, m)]
      BY <1>3, <2>2
    <3> QED BY <1>2, <1>3, <3>1, AppendTyped
  <2> QED BY <2>1, <2>2
<1> QED BY <1>3, <1>4 DEF LinksInv, LinksFrom, Joined

\* One client of one zone changes, and is there or knows its entry as before.
LEMMA ClientKeeps ==
  ASSUME LinksInv, NEW s \in Servers, NEW p \in Logins, NEW c \in PCs,
         pc' = [pc EXCEPT ![s][p] = c], UNCHANGED conn,
         c.at # "none" => c.wid \in Entries /\ conn[s] \in Running
  PROVE  /\ pc' \in [Servers -> [Logins -> PCs]]
         /\ \A q \in Servers, r \in Logins :
              pc'[q][r].at # "none" => pc'[q][r].wid \in Entries /\ conn'[q] \in Running
<1>1. pc \in [Servers -> [Logins -> PCs]]
  BY DEF LinksInv, LinksType, PCs
<1>2. pc' \in [Servers -> [Logins -> PCs]]
  BY <1>1
<1>3. \A q \in Servers, r \in Logins :
        pc'[q][r] = IF q = s /\ r = p THEN c ELSE pc[q][r]
  BY <1>1
<1> QED BY <1>2, <1>3 DEF LinksInv, LinksFrom

LEMMA NewWID ==
  ASSUME NEW x \in PCs, NEW w
  PROVE  [x EXCEPT !.wid = w] = [at |-> x.at, wid |-> w]
BY DEF PCs

LEMMA BecomesKeeps ==
  ASSUME LinksInv, NEW s \in Servers, NEW p \in Logins,
         NEW at \in {"in", "zoning", "lingering"},
         pc[s][p].at # "none", Becomes(s, p, at), UNCHANGED conn
  PROVE  /\ pc' \in [Servers -> [Logins -> PCs]]
         /\ \A q \in Servers, r \in Logins :
              pc'[q][r].at # "none" => pc'[q][r].wid \in Entries /\ conn'[q] \in Running
<1> DEFINE c == [at |-> at, wid |-> pc[s][p].wid]
<1>1. /\ pc \in [Servers -> [Logins -> PCs]] /\ pc[s][p] \in PCs
      /\ pc[s][p].wid \in Entries /\ conn[s] \in Running
  BY DEF LinksInv, LinksType, LinksFrom, PCs
<1>2. c \in PCs
  BY <1>1 DEF PCs
<1>3. [pc[s][p] EXCEPT !.at = at] = c
  BY <1>1 DEF PCs
<1>4. pc' = [pc EXCEPT ![s][p] = c]
  BY <1>1, <1>3 DEF Becomes
<1>5. c.wid = pc[s][p].wid
  OBVIOUS
<1> HIDE DEF c
<1> QED BY <1>1, <1>2, <1>4, <1>5, ClientKeeps

LEMMA ClientUpdateLinks ==
  ASSUME IInv, NEW s \in Servers, ClientUpdate(s)
  PROVE  LinksInv'
<1> DEFINE m == Head(toWorld[s])
<1>1. /\ LinksType /\ LinksFrom
      /\ toWorld \in [Servers -> Seq(Packets)] /\ toWorld[s] \in Seq(Packets)
  BY DEF IInv, LinksInv, LinksType, Packets
<1>2. Tail(toWorld[s]) \in Seq(Packets) /\ m \in Packets /\ conn[s] \in Joined
  BY <1>1, TailTyped DEF ClientUpdate, LinksFrom
<1>3. m.login \in Logins
  BY <1>2 DEF ClientUpdate, Packets, ClientListMsg, SetZoneMsg
<1> HIDE DEF m
<1>4. /\ toWorld' \in [Servers -> Seq(Packets)]
      /\ \A q \in Servers : conn[q] \notin Joined => toWorld'[q] = <<>>
  BY <1>1, <1>2 DEF ClientUpdate, LinksFrom
<1>5. nextID' \in 1 .. NEntries + 1 /\ toZone' \in [Servers -> Seq(ChangeWIDMsg)]
  <2>1. CASE m.wid \in Listed
    BY <1>1, <2>1 DEF ClientUpdate, LinksType, m
  <2>2. CASE m.wid \notin Listed
    <3>1. /\ nextID \in Entries /\ nextID' = nextID + 1
          /\ toZone' = [toZone EXCEPT ![s] =
                          Append(@, [login |-> m.login, wid |-> nextID])]
      BY <2>2 DEF ClientUpdate, m
    <3>2. [login |-> m.login, wid |-> nextID] \in ChangeWIDMsg
      BY <1>3, <3>1 DEF ChangeWIDMsg
    <3>3. nextID' \in 1 .. NEntries + 1
      BY <3>1 DEF Entries
    <3> QED BY <1>1, <3>1, <3>2, <3>3, AppendTyped DEF LinksType
  <2> QED BY <2>1, <2>2
<1> QED BY <1>1, <1>4, <1>5
    DEF ClientUpdate, LinksInv, LinksType, LinksFrom, Packets

\* A process that connects again reports clients that are there.
LEMMA AllReported ==
  ASSUME LinksInv, NEW s \in Servers,
         NEW order \in [1 .. Cardinality(Here(s)) -> Here(s)]
  PROVE  UpdateWhoAll(s, order) \in Seq(Packets)
<1>1. Cardinality(Here(s)) \in Nat
  <2>1. IsFiniteSet(Logins) /\ Here(s) \in SUBSET Logins
    BY FS_Interval DEF Here, Logins
  <2> QED BY <2>1, FS_Subset, FS_CardinalityType
<1>2. ASSUME NEW i \in DOMAIN order PROVE ClientList(s, 0, order[i]) \in Packets
  <2>1. order[i] \in Logins /\ pc[s][order[i]].at # "none"
    BY DEF Here
  <2>2. pc[s][order[i]].wid \in Entries
    BY <2>1 DEF LinksInv, LinksFrom
  <2> QED BY <2>1, <2>2 DEF ClientList, ClientListMsg, Packets
<1>3. UpdateWhoAll(s, order) \in [1 .. Cardinality(Here(s)) -> Packets]
  BY <1>2 DEF UpdateWhoAll
<1> QED BY <1>1, <1>3

LEMMA LinksNext == IInv /\ [Next]_vars => LinksInv'
<1> SUFFICES ASSUME IInv, [Next]_vars
             PROVE  LinksInv'
  OBVIOUS
<1> USE DEF LinksInv, Sessions, PCs, Packets
<1>0. /\ LinksInv /\ LinksType /\ LinksFrom /\ SessionsLive
      /\ 0 \in 0 .. NEntries /\ 0 \in 0 .. NServers
      /\ \A s \in Servers : s \in 0 .. NServers
      /\ \A e \in Entries : e \in 0 .. NEntries
      /\ session \in [Logins -> Sessions]
      /\ \A p \in Logins : session[p] \in Sessions
      /\ NoClient \in Sessions /\ NoClient.to = 0
  <2>1. /\ LinksInv /\ LinksType /\ LinksFrom /\ SessionsLive
    BY DEF IInv
  <2>2. /\ 0 \in 0 .. NEntries /\ 0 \in 0 .. NServers
        /\ \A s \in Servers : s \in 0 .. NServers
        /\ \A e \in Entries : e \in 0 .. NEntries
    BY DEF Servers, Entries
  <2>3. NoClient \in Sessions /\ NoClient.to = 0
    BY <2>2 DEF NoClient
  <2>4. session \in [Logins -> Sessions]
    BY <2>1 DEF LinksType
  <2> QED BY <2>1, <2>2, <2>3, <2>4
<1>m. Moves => moves' \in 0 .. MaxMoves
  BY <1>0 DEF Moves, LinksType
<1>1. ASSUME NEW p \in Logins, CLEAdd(p)
      PROVE  LinksInv'
  <2>1. nextID' \in 1 .. NEntries + 1
    BY <1>1 DEF CLEAdd, Entries
  <2> QED BY <1>0, <1>1, <1>m, <2>1 DEF CLEAdd, LinksType, LinksFrom
<1>2. ASSUME NEW p \in Logins, HandleSendLoginInfo(p)
      PROVE  LinksInv'
  <2>1. PICK e \in Listed :
          session' = [session EXCEPT ![p] = [NoClient EXCEPT !.open = TRUE,
                                                             !.cle = e]]
    BY <1>2 DEF HandleSendLoginInfo
  <2>2. e \in 0 .. NEntries
    BY <1>0, <2>1 DEF Listed
  <2>3. /\ [NoClient EXCEPT !.open = TRUE, !.cle = e] \in Sessions
        /\ [NoClient EXCEPT !.open = TRUE, !.cle = e].to = 0
    BY <1>0, <2>2 DEF NoClient
  <2>4. /\ session' \in [Logins -> Sessions]
        /\ \A q \in Logins : session'[q].to = IF q = p THEN 0 ELSE session[q].to
        /\ \A q \in Logins : q # p => session'[q] = session[q]
    BY <1>0, <2>1, <2>3
  <2>5. going' = [going EXCEPT ![p] = Nowhere]
    BY <1>2 DEF HandleSendLoginInfo
  <2>6. /\ going' \in [Logins -> [to : 0 .. NServers, wid : 0 .. NEntries]]
        /\ \A q \in Logins : going'[q].to # 0 => going'[q] = going[q]
    BY <1>0, <2>5 DEF LinksType, Nowhere
  <2> QED BY <1>0, <1>2, <1>m, <2>4, <2>6
      DEF HandleSendLoginInfo, LinksType, LinksFrom
<1>3. ASSUME NEW p \in Logins, Clearance(p)
      PROVE  LinksInv'
  <2>1. session[p].wid \in Entries /\ session[p].to # 0
    BY <1>0, <1>3 DEF Clearance, LinksFrom
  <2>2. /\ going' \in [Logins -> [to : 0 .. NServers, wid : 0 .. NEntries]]
        /\ \A q \in Logins : going'[q].to # 0 => going'[q].wid \in Entries
    BY <1>0, <1>3, <2>1 DEF Clearance, LinksType, LinksFrom
  <2>3. /\ session' \in [Logins -> Sessions]
        /\ \A q \in Logins : session'[q].to # 0 => session'[q] = session[q]
    <3> DEFINE new == [session[p] EXCEPT !.to = 0, !.wid = 0]
    <3>1. new \in Sessions /\ new.to = 0
      BY <1>0
    <3>2. session' = [session EXCEPT ![p] = new]
      BY <1>0, <1>3 DEF Clearance
    <3> HIDE DEF new
    <3> QED BY <1>0, <3>1, <3>2
  <2>4. UNCHANGED <<nextID, conn, pc, toWorld, toZone, moves, limited>>
    BY <1>3 DEF Clearance
  <2>5. LinksType'
    BY <1>0, <2>2, <2>3, <2>4 DEF LinksType
  <2>6. LinksFrom'
    BY <1>0, <2>2, <2>3, <2>4 DEF LinksFrom
  <2> QED BY <2>5, <2>6
<1>4. ASSUME NEW p \in Logins, TellClientZoneUnavailable(p)
      PROVE  LinksInv'
  <2>1. /\ session' \in [Logins -> Sessions]
        /\ \A q \in Logins : session'[q].to # 0 => session'[q] = session[q]
    <3> DEFINE new == [session[p] EXCEPT !.zone = FALSE, !.to = 0, !.wid = 0]
    <3>1. new \in Sessions /\ new.to = 0
      BY <1>0
    <3>2. session' = [session EXCEPT ![p] = new]
      BY <1>0, <1>4 DEF TellClientZoneUnavailable
    <3> HIDE DEF new
    <3> QED BY <1>0, <3>1, <3>2
  <2>2. UNCHANGED <<nextID, conn, going, pc, toWorld, toZone, moves, limited>>
    BY <1>4 DEF TellClientZoneUnavailable
  <2>3. LinksType'
    BY <1>0, <2>1, <2>2 DEF LinksType
  <2>4. LinksFrom'
    BY <1>0, <2>1, <2>2 DEF LinksFrom
  <2> QED BY <2>3, <2>4
<1>5. ASSUME NEW p \in Logins, SessionEnds(p)
      PROVE  LinksInv'
  <2>1. /\ session' \in [Logins -> Sessions]
        /\ \A q \in Logins : session'[q].to # 0 => session'[q] = session[q]
    BY <1>0, <1>5 DEF SessionEnds
  <2> QED BY <1>0, <1>5, <2>1 DEF SessionEnds, LinksType, LinksFrom
<1>6. ASSUME NEW p \in Logins, Handle_Connect_OP_ZoneEntry(p)
      PROVE  LinksInv'
  <2> DEFINE s == going[p].to
             c == [at |-> "connecting", wid |-> going[p].wid]
  <2>1. /\ s \in Servers /\ conn[s] \in Running /\ going[p].wid \in Entries
        /\ pc' = [pc EXCEPT ![s][p] = c]
    <3>1. going[p] \in [to : 0 .. NServers, wid : 0 .. NEntries]
      BY <1>0 DEF LinksType
    <3> QED BY <1>0, <1>6, <3>1
        DEF Handle_Connect_OP_ZoneEntry, LinksFrom, Servers, Alive, Running
  <2>2. c \in PCs /\ c.wid \in Entries
    BY <1>0, <2>1
  <2>3. UNCHANGED conn
    BY <1>6 DEF Handle_Connect_OP_ZoneEntry
  <2>4. /\ going' \in [Logins -> [to : 0 .. NServers, wid : 0 .. NEntries]]
        /\ \A q \in Logins : going'[q].to # 0 => going'[q] = going[q]
    BY <1>0, <1>6 DEF Handle_Connect_OP_ZoneEntry, LinksType, Nowhere
  <2> HIDE DEF c, s
  <2>5. /\ pc' \in [Servers -> [Logins -> PCs]]
        /\ \A q \in Servers, r \in Logins :
             pc'[q][r].at # "none" => pc'[q][r].wid \in Entries /\ conn'[q] \in Running
    BY <1>0, <2>1, <2>2, <2>3, ClientKeeps
  <2> QED BY <1>0, <1>6, <2>4, <2>5
      DEF Handle_Connect_OP_ZoneEntry, LinksType, LinksFrom
<1>7. ASSUME NEW p \in Logins, NEW s \in Servers, EnterWorld(p, s)
      PROVE  LinksInv'
  <2>1. session[p].cle \in Entries
    BY <1>0, <1>7 DEF EnterWorld, SessionsLive
  <2>2. /\ session' \in [Logins -> Sessions]
        /\ \A q \in Logins : session'[q].to # 0 => session'[q].wid \in Entries
    <3> DEFINE new == [session[p] EXCEPT !.zone = TRUE, !.to = s,
                                         !.wid = session[p].cle]
    <3>1. new \in Sessions /\ new.wid = session[p].cle
      BY <1>0, <2>1
    <3>2. session' = [session EXCEPT ![p] = new]
      BY <1>0, <1>7 DEF EnterWorld
    <3> HIDE DEF new
    <3>3. \A q \in Logins : session'[q] = IF q = p THEN new ELSE session[q]
      BY <1>0, <3>2
    <3> QED BY <1>0, <2>1, <3>1, <3>2, <3>3 DEF LinksFrom
  <2> QED BY <1>0, <1>7, <1>m, <2>2 DEF EnterWorld, LinksType, LinksFrom
<1>8. ASSUME NEW p \in Logins, NEW s \in Servers,
             CompleteConnect(s, p) \/ Zones(s, p) \/ Quits(s, p)
      PROVE  LinksInv'
  <2>1. /\ toWorld' \in [Servers -> Seq(Packets)]
        /\ \A q \in Servers : conn[q] \notin Joined => toWorld'[q] = <<>>
    <3>1. CASE Quits(s, p)
      BY <1>0, <3>1 DEF Quits, LinksType, LinksFrom
    <3>2. CASE CompleteConnect(s, p)
      BY <1>0, <3>2, SendsKeeps DEF CompleteConnect
    <3>3. CASE Zones(s, p)
      BY <1>0, <3>3, SendsKeeps DEF Zones
    <3> QED BY <1>8, <3>1, <3>2, <3>3
  <2>2. /\ \E at \in {"in", "zoning", "lingering"} : Becomes(s, p, at)
        /\ pc[s][p].at # "none" /\ moves' \in 0 .. MaxMoves
        /\ UNCHANGED <<list, nextID, conn, session, going, toZone, limited>>
    BY <1>0, <1>8, <1>m DEF CompleteConnect, Zones, Quits, LinksType
  <2>3. /\ pc' \in [Servers -> [Logins -> PCs]]
        /\ \A q \in Servers, r \in Logins :
             pc'[q][r].at # "none" => pc'[q][r].wid \in Entries /\ conn'[q] \in Running
    BY <1>0, <2>2, BecomesKeeps
  <2> QED BY <1>0, <2>1, <2>2, <2>3 DEF LinksType, LinksFrom
<1>9. ASSUME NEW p \in Logins, NEW s \in Servers, UpdateWho(s, p)
      PROVE  LinksInv'
  <2>1. /\ toWorld' \in [Servers -> Seq(Packets)]
        /\ \A q \in Servers : conn[q] \notin Joined => toWorld'[q] = <<>>
    BY <1>0, <1>9, SendsKeeps DEF UpdateWho, Here
  <2> QED BY <1>0, <1>9, <1>m, <2>1 DEF UpdateWho, LinksType, LinksFrom
<1>10. ASSUME NEW p \in Logins, NEW s \in Servers, ClientGone(s, p)
       PROVE  LinksInv'
  <2>1. /\ toWorld' \in [Servers -> Seq(Packets)]
        /\ \A q \in Servers : conn[q] \notin Joined => toWorld'[q] = <<>>
    BY <1>0, <1>10, SendsKeeps DEF ClientGone
  <2>2. NoPC \in PCs /\ NoPC.at = "none"
    BY <1>0 DEF NoPC
  <2>3. /\ pc' \in [Servers -> [Logins -> PCs]]
        /\ \A q \in Servers, r \in Logins :
             pc'[q][r].at # "none" => pc'[q][r].wid \in Entries /\ conn'[q] \in Running
    BY <1>0, <1>10, <2>2, ClientKeeps DEF ClientGone
  <2> QED BY <1>0, <1>10, <2>1, <2>3 DEF ClientGone, LinksType, LinksFrom
<1>11. ASSUME NEW s \in Servers, ChangeWID(s)
       PROVE  LinksInv'
  <2> DEFINE m == Head(toZone[s])
  <2>1. toZone[s] \in Seq(ChangeWIDMsg) /\ toZone[s] # <<>>
    BY <1>0, <1>11 DEF ChangeWID, LinksType
  <2>2. m \in ChangeWIDMsg /\ Tail(toZone[s]) \in Seq(ChangeWIDMsg)
    BY <2>1, TailTyped
  <2>3. toZone' \in [Servers -> Seq(ChangeWIDMsg)]
    BY <1>0, <1>11, <2>2 DEF ChangeWID, LinksType
  <2>4. m.login \in Logins /\ m.wid \in Entries /\ UNCHANGED conn
    BY <1>11, <2>2 DEF ChangeWIDMsg, ChangeWID
  <2>5. pc' = pc \/ /\ pc[s][m.login].at # "none"
                    /\ pc' = [pc EXCEPT ![s][m.login].wid = m.wid]
    BY <1>11 DEF ChangeWID
  <2> HIDE DEF m
  <2>6. /\ pc' \in [Servers -> [Logins -> PCs]]
        /\ \A q \in Servers, r \in Logins :
             pc'[q][r].at # "none" => pc'[q][r].wid \in Entries /\ conn'[q] \in Running
    <3>1. CASE pc' = pc
      BY <1>0, <2>4, <3>1 DEF LinksType, LinksFrom
    <3>2. CASE pc' # pc
      <4> DEFINE c == [at |-> pc[s][m.login].at, wid |-> m.wid]
      <4>1. pc \in [Servers -> [Logins -> PCs]] /\ pc[s][m.login] \in PCs
        <5>1. pc \in [Servers -> [Logins -> PCs]]
          BY <1>0 DEF LinksType
        <5> HIDE DEF PCs
        <5> QED BY <2>4, <5>1
      <4>2. c \in PCs /\ c.wid \in Entries /\ c.at = pc[s][m.login].at
        BY <1>0, <2>4, <4>1
      <4>3. [pc[s][m.login] EXCEPT !.wid = m.wid] = c
        BY <4>1, NewWID
      <4>4. pc' = [pc EXCEPT ![s][m.login] = c]
        BY <2>4, <2>5, <3>2, <4>1, <4>3
      <4>5. conn[s] \in Running
        BY <1>0, <2>4, <2>5, <3>2 DEF LinksFrom
      <4> HIDE DEF c
      <4> QED BY <1>0, <2>4, <4>2, <4>4, <4>5, ClientKeeps
    <3> QED BY <3>1, <3>2
  <2> QED BY <1>0, <1>11, <2>3, <2>6 DEF ChangeWID, LinksType, LinksFrom
<1>12. ASSUME NEW s \in Servers, Sleeps(s)
       PROVE  LinksInv'
  <2>1. [op |-> "SetZone"] \in Packets
    BY DEF SetZoneMsg
  <2>2. /\ toWorld' \in [Servers -> Seq(Packets)]
        /\ \A q \in Servers : conn[q] \notin Joined => toWorld'[q] = <<>>
    BY <1>0, <1>12, <2>1, AppendTyped DEF Sleeps, LinksType, LinksFrom, Joined
  <2> QED BY <1>0, <1>12, <1>m, <2>2 DEF Sleeps, LinksType, LinksFrom
<1>13. ASSUME NEW s \in Servers, ClientUpdate(s)
       PROVE  LinksInv'
  BY <1>13, ClientUpdateLinks
<1>14. ASSUME NEW s \in Servers, SetZone(s)
       PROVE  LinksInv'
  <2>1. Tail(toWorld[s]) \in Seq(Packets)
    BY <1>0, <1>14, TailTyped DEF SetZone, LinksType
  <2>2. /\ toWorld' \in [Servers -> Seq(Packets)]
        /\ \A q \in Servers : conn[q] \notin Joined => toWorld'[q] = <<>>
    BY <1>0, <1>14, <2>1 DEF SetZone, LinksType, LinksFrom
  <2> QED BY <1>0, <1>14, <2>2 DEF SetZone, LinksType, LinksFrom
<1>15. ASSUME NEW s \in Servers, Dies(s)
       PROVE  LinksInv'
  <2>1. NoPC \in PCs /\ NoPC.at = "none"
    BY <1>0 DEF NoPC
  <2>2. /\ pc' \in [Servers -> [Logins -> PCs]]
        /\ \A q \in Servers, r \in Logins :
             pc'[q][r].at # "none" => q # s /\ pc'[q][r] = pc[q][r]
    BY <1>0, <1>15, <2>1 DEF Dies, LinksType
  <2>3. /\ conn' \in [Servers -> Conns]
        /\ \A q \in Servers : q # s => conn'[q] = conn[q]
        /\ \A q \in Servers : conn'[q] \notin Joined => conn[q] \notin Joined
    BY <1>0, <1>15 DEF Dies, LinksType, AtWorld, Conns, Joined
  <2>4. toZone' \in [Servers -> Seq(ChangeWIDMsg)]
    <3>1. <<>> \in Seq(ChangeWIDMsg)
      OBVIOUS
    <3> QED BY <1>0, <1>15, <3>1 DEF Dies, LinksType
  <2>5. LinksType'
    BY <1>0, <1>15, <1>m, <2>2, <2>3, <2>4 DEF Dies, LinksType
  <2>6. UNCHANGED <<session, going, toWorld>>
    BY <1>15 DEF Dies
  <2>7. \A q \in Servers, r \in Logins :
          pc'[q][r].at # "none" => pc'[q][r].wid \in Entries /\ conn'[q] \in Running
    <3> SUFFICES ASSUME NEW q \in Servers, NEW r \in Logins,
                        pc'[q][r].at # "none"
                 PROVE  pc'[q][r].wid \in Entries /\ conn'[q] \in Running
      OBVIOUS
    <3>1. pc'[q][r] = pc[q][r] /\ conn'[q] = conn[q]
      BY <2>2, <2>3
    <3>2. pc[q][r].at # "none"
      BY <3>1, Zenon
    <3>3. pc[q][r].wid \in Entries /\ conn[q] \in Running
      BY <1>0, <3>2 DEF LinksFrom
    <3> QED BY <3>1, <3>3, Zenon
  <2>8. \A q \in Servers : conn'[q] \notin Joined => toWorld'[q] = <<>>
    BY <1>0, <2>3, <2>6 DEF LinksFrom
  <2>9. LinksFrom'
    BY <1>0, <2>6, <2>7, <2>8 DEF LinksFrom
  <2> QED BY <2>5, <2>9
<1>16. ASSUME NEW s \in Servers, ServerLost(s)
       PROVE  LinksInv'
  <2>1. /\ conn' \in [Servers -> Conns]
        /\ \A q \in Servers : conn'[q] \in Running <=> conn[q] \in Running
        /\ \A q \in Servers : q # s => conn'[q] = conn[q]
    BY <1>0, <1>16 DEF ServerLost, LinksType, Alive, Conns, Running
  <2>2. /\ toWorld' \in [Servers -> Seq(Packets)]
        /\ toWorld'[s] = <<>>
        /\ \A q \in Servers : q # s => toWorld'[q] = toWorld[q]
        /\ toZone' \in [Servers -> Seq(ChangeWIDMsg)]
    <3>1. <<>> \in Seq(Packets) /\ <<>> \in Seq(ChangeWIDMsg)
      OBVIOUS
    <3> QED BY <1>0, <1>16, <3>1 DEF ServerLost, LinksType
  <2>3. LinksType'
    BY <1>0, <1>16, <2>1, <2>2 DEF ServerLost, LinksType
  <2>4. /\ UNCHANGED <<session, going, pc>>
        /\ \A q \in Servers : conn'[q] \notin Joined => q = s \/ conn[q] \notin Joined
    BY <1>16, <2>1 DEF ServerLost
  <2>5. LinksFrom'
    BY <1>0, <2>1, <2>2, <2>4 DEF LinksFrom
  <2> QED BY <2>3, <2>5
<1>17. ASSUME NEW s \in Servers, Connects(s)
       PROVE  LinksInv'
  <2>1. /\ conn' \in [Servers -> Conns]
        /\ \A q \in Servers : conn[q] \in Running => conn'[q] \in Running
        /\ \A q \in Servers : conn'[q] \notin Joined => conn[q] \notin Joined
    BY <1>0, <1>17 DEF Connects, LinksType, Conns, Joined, Running
  <2> QED BY <1>0, <1>17, <2>1 DEF Connects, LinksType, LinksFrom
<1>18. ASSUME NEW e \in Entries, CheckStale(e) \/ GetCLEIP(e)
       PROVE  LinksInv'
  <2>1. /\ session' = WithoutEntry(e) /\ moves' \in 0 .. MaxMoves
        /\ limited' \in BOOLEAN
        /\ UNCHANGED <<nextID, conn, going, pc, toWorld, toZone>>
    BY <1>0, <1>18, <1>m DEF CheckStale, GetCLEIP, Removes, LinksType
  <2>2. ASSUME NEW p \in Logins
        PROVE  /\ session'[p] \in Sessions
               /\ session'[p].to = session[p].to /\ session'[p].wid = session[p].wid
    <3>1. CASE session[p].cle = e
      <4>1. session'[p] = [session[p] EXCEPT !.cle = 0]
        BY <2>1, <3>1 DEF WithoutEntry
      <4> QED BY <1>0, <4>1
    <3>2. CASE session[p].cle # e
      BY <1>0, <2>1, <3>2 DEF WithoutEntry
    <3> QED BY <3>1, <3>2
  <2>3. session' \in [Logins -> Sessions]
    <3>1. session' = [p \in Logins |-> session'[p]]
      BY <2>1 DEF WithoutEntry
    <3> QED BY <2>2, <3>1
  <2> QED BY <1>0, <2>1, <2>2, <2>3 DEF LinksType, LinksFrom
<1>19. ASSUME NEW s \in Servers, LinkBreaks(s)
       PROVE  LinksInv'
  <2>1. /\ conn' \in [Servers -> Conns]
        /\ \A q \in Servers : conn'[q] \in Running <=> conn[q] \in Running
        /\ \A q \in Servers : conn'[q] \notin Joined => conn[q] \notin Joined
    BY <1>0, <1>19 DEF LinkBreaks, LinksType, Conns, Joined, Running
  <2>2. toZone' \in [Servers -> Seq(ChangeWIDMsg)]
    <3>1. <<>> \in Seq(ChangeWIDMsg)
      OBVIOUS
    <3> QED BY <1>0, <1>19, <3>1 DEF LinkBreaks, LinksType
  <2> QED BY <1>0, <1>19, <1>m, <2>1, <2>2 DEF LinkBreaks, LinksType, LinksFrom
<1>20. ASSUME NEW s \in Servers, Reconnects(s)
       PROVE  LinksInv'
  <2>1. /\ conn' \in [Servers -> Conns]
        /\ \A q \in Servers : conn[q] \in Running => conn'[q] \in Running
        /\ \A q \in Servers : conn'[q] \notin Joined => q # s /\ conn[q] \notin Joined
    BY <1>0, <1>20 DEF Reconnects, LinksType, Conns, Joined, Running
  <2>2. PICK order \in [1 .. Cardinality(Here(s)) -> Here(s)] :
          toWorld' = [toWorld EXCEPT ![s] = UpdateWhoAll(s, order)]
    BY <1>20 DEF Reconnects
  <2>3. UpdateWhoAll(s, order) \in Seq(Packets)
    BY <1>0, <2>2, AllReported
  <2>4. /\ toWorld' \in [Servers -> Seq(Packets)]
        /\ \A q \in Servers : q # s => toWorld'[q] = toWorld[q]
    <3>1. toWorld \in [Servers -> Seq(Packets)]
      BY <1>0 DEF LinksType
    <3> QED BY <2>2, <2>3, <3>1
  <2>5. \A q \in Servers : conn'[q] \notin Joined => toWorld'[q] = <<>>
    BY <1>0, <2>1, <2>4 DEF LinksFrom
  <2> QED BY <1>0, <1>20, <2>1, <2>4, <2>5 DEF Reconnects, LinksType, LinksFrom
<1>21. CASE UNCHANGED vars
  BY <1>0, <1>21 DEF vars, LinksType, LinksFrom
<1> QED
  BY <1>1, <1>2, <1>3, <1>4, <1>5, <1>6, <1>7, <1>8, <1>9, <1>10, <1>11, <1>12,
     <1>13, <1>14, <1>15, <1>16, <1>17, <1>18, <1>19, <1>20, <1>21 DEF Next

-----------------------------------------------------------------------------
(* The theorems *)

LEMMA InvAlways == Spec => []IInv
<1>1. Init => IInv
  BY InitInv
<1>2. IInv /\ [Next]_vars => IInv'
  BY ListNext, LinksNext DEF IInv
<1> QED BY <1>1, <1>2, PTL DEF Spec

\* TypeCorrect: the list, the sessions and what is on its way are of their
\* types; in particular no count of players falls below 0 (they are uint32).
THEOREM TypeCorrect == Spec => []TypeOK
<1>1. IInv => TypeOK
  BY InvHolds
<1> QED BY <1>1, InvAlways, PTL

\* ZonesCountedRight: zone_player_count of every zone server is the number of
\* entries at it, whatever updates, late reports and lost servers there are.
THEOREM ZonesCountedRight == Spec => []ZonesCounted
<1>1. IInv => ZonesCounted
  BY InvHolds
<1> QED BY <1>1, InvAlways, PTL

\* PlayersCountedRight: numplayers is the number of entries that are online.
THEOREM PlayersCountedRight == Spec => []PlayersCounted
<1>1. IInv => PlayersCounted
  BY InvHolds
<1> QED BY <1>1, InvAlways, PTL

\* PointersAreLive: no session points to an entry that was removed, and no entry
\* to a zone server that was destroyed.
THEOREM PointersAreLive == Spec => []PointersLive
<1>1. IInv => PointersLive
  BY InvHolds
<1> QED BY <1>1, InvAlways, PTL

-----------------------------------------------------------------------------
(***************************************************************************)
(* Where no player is quicker than a report (~LateReports), world finds    *)
(* everybody: the way a login takes keeps its reports in order (Course),   *)
(* what anybody refers to is an entry of that login (Owns), and the last   *)
(* news of a player in a zone is that it is there (FoundAt).               *)
(***************************************************************************)
Coming == {"connecting", "in"}
Report(m, p)     == m.op = "ClientList" /\ m.login = p /\ m.remove = 0
Reports(q, p)    == \E i \in DOMAIN q : Report(q[i], p)
Names(q, p, e)   == \E i \in DOMAIN q :
                      q[i].op = "ClientList" /\ q[i].login = p /\ q[i].wid = e
Disturbs(m, p)   == m.op = "SetZone" \/ (m.login = p /\ m.remove # 0)
Calm(q, p)       == \A i \in DOMAIN q : ~Disturbs(q[i], p)
ToldLast(q, p, e) ==
  \E i \in DOMAIN q :
    /\ Report(q[i], p) /\ q[i].wid = e
    /\ \A j \in DOMAIN q : j > i => ~Disturbs(q[j], p)

\* What a packet at the end of a link adds to it.
LEMMA AppendNews ==
  ASSUME NEW q \in Seq(Packets), NEW m \in Packets, NEW p, NEW e
  PROVE  /\ Reports(Append(q, m), p) => Reports(q, p) \/ Report(m, p)
         /\ Names(Append(q, m), p, e) =>
              \/ Names(q, p, e)
              \/ m.op = "ClientList" /\ m.login = p /\ m.wid = e
         /\ Calm(q, p) /\ ~Disturbs(m, p) => Calm(Append(q, m), p)
         /\ ToldLast(q, p, e) /\ ~Disturbs(m, p) => ToldLast(Append(q, m), p, e)
         /\ Report(m, p) /\ m.wid = e => ToldLast(Append(q, m), p, e)
<1> DEFINE r == Append(q, m)
<1>1. /\ DOMAIN q = 1 .. Len(q) /\ DOMAIN r = 1 .. Len(q) + 1 /\ Len(q) \in Nat
      /\ \A i \in 1 .. Len(q) : r[i] = q[i]
      /\ r[Len(q) + 1] = m
  OBVIOUS
<1> HIDE DEF r
<1>2. \A i \in DOMAIN r : r[i] = m \/ (i \in DOMAIN q /\ r[i] = q[i])
  BY <1>1
<1>3. Reports(r, p) => Reports(q, p) \/ Report(m, p)
  BY <1>2 DEF Reports
<1>4. Names(r, p, e) => Names(q, p, e)
        \/ (m.op = "ClientList" /\ m.login = p /\ m.wid = e)
  BY <1>2 DEF Names
<1>5. Calm(q, p) /\ ~Disturbs(m, p) => Calm(r, p)
  BY <1>2 DEF Calm
<1>6. ASSUME ToldLast(q, p, e), ~Disturbs(m, p) PROVE ToldLast(r, p, e)
  <2>1. PICK i \in DOMAIN q :
          /\ Report(q[i], p) /\ q[i].wid = e
          /\ \A j \in DOMAIN q : j > i => ~Disturbs(q[j], p)
    BY <1>6 DEF ToldLast
  <2>2. i \in DOMAIN r /\ r[i] = q[i]
    BY <1>1
  <2>3. \A j \in DOMAIN r : j > i => ~Disturbs(r[j], p)
    BY <1>2, <1>6, <2>1
  <2> QED BY <2>1, <2>2, <2>3 DEF ToldLast
<1>7. ASSUME Report(m, p), m.wid = e PROVE ToldLast(r, p, e)
  <2>1. Len(q) + 1 \in DOMAIN r /\ \A j \in DOMAIN r : ~(j > Len(q) + 1)
    BY <1>1
  <2> QED BY <1>1, <1>7, <2>1 DEF ToldLast
<1> QED BY <1>3, <1>4, <1>5, <1>6, <1>7 DEF r

\* What is left when the first packet is handled.
LEMMA TailNews ==
  ASSUME NEW q \in Seq(Packets), q # <<>>, NEW p, NEW e
  PROVE  /\ Reports(Tail(q), p) => Reports(q, p)
         /\ Names(Tail(q), p, e) => Names(q, p, e)
         /\ Calm(q, p) => Calm(Tail(q), p) /\ ~Disturbs(Head(q), p)
         /\ ToldLast(q, p, e) =>
              \/ ToldLast(Tail(q), p, e)
              \/ Report(Head(q), p) /\ Head(q).wid = e /\ Calm(Tail(q), p)
         /\ 1 \in DOMAIN q /\ Head(q) = q[1]
<1> DEFINE r == Tail(q)
<1>1. /\ DOMAIN q = 1 .. Len(q) /\ DOMAIN r = 1 .. Len(q) - 1
      /\ Len(q) \in Nat /\ Len(q) >= 1 /\ Head(q) = q[1]
      /\ \A i \in 1 .. Len(q) - 1 : r[i] = q[i + 1]
  OBVIOUS
<1> HIDE DEF r
<1>2. \A i \in DOMAIN r : i + 1 \in DOMAIN q /\ r[i] = q[i + 1] /\ i \in Nat
  BY <1>1
<1>3. Reports(r, p) => Reports(q, p)
  BY <1>2 DEF Reports
<1>4. Names(r, p, e) => Names(q, p, e)
  BY <1>2 DEF Names
<1>5. 1 \in DOMAIN q
  BY <1>1
<1>6. Calm(q, p) => Calm(r, p) /\ ~Disturbs(q[1], p)
  BY <1>2, <1>5 DEF Calm
<1>7. ASSUME ToldLast(q, p, e)
      PROVE  ToldLast(r, p, e) \/ (Report(q[1], p) /\ q[1].wid = e /\ Calm(r, p))
  <2>1. PICK i \in DOMAIN q :
          /\ Report(q[i], p) /\ q[i].wid = e
          /\ \A j \in DOMAIN q : j > i => ~Disturbs(q[j], p)
    BY <1>7 DEF ToldLast
  <2>2. CASE i = 1
    <3>1. \A j \in DOMAIN r : ~Disturbs(r[j], p)
      <4> SUFFICES ASSUME NEW j \in DOMAIN r PROVE ~Disturbs(r[j], p)
        OBVIOUS
      <4>1. j + 1 \in DOMAIN q /\ r[j] = q[j + 1] /\ j + 1 > i
        BY <1>1, <1>2, <2>2
      <4> QED BY <2>1, <4>1
    <3> QED BY <2>1, <2>2, <3>1 DEF Calm
  <2>3. CASE i # 1
    <3>1. i - 1 \in DOMAIN r /\ (i - 1) + 1 = i
      BY <1>1, <2>3
    <3>2. r[i - 1] = q[i]
      BY <1>2, <3>1
    <3>3. ASSUME NEW j \in DOMAIN r, j > i - 1 PROVE ~Disturbs(r[j], p)
      <4>1. j + 1 \in DOMAIN q /\ r[j] = q[j + 1] /\ j + 1 > i
        BY <1>1, <1>2, <3>3
      <4> QED BY <2>1, <4>1
    <3> QED BY <2>1, <3>1, <3>2, <3>3 DEF ToldLast
  <2> QED BY <2>2, <2>3
<1> QED BY <1>1, <1>3, <1>4, <1>5, <1>6, <1>7 DEF r

LEMMA LinkReports ==
  ASSUME NEW q \in Seq(Packets), NEW p
  PROVE  /\ \A m \in Packets : ~Report(m, p) =>
              (Reports(Append(q, m), p) => Reports(q, p))
         /\ q # <<>> => (Reports(Tail(q), p) => Reports(q, p))
<1>1. ASSUME NEW m \in Packets, ~Report(m, p), Reports(Append(q, m), p)
      PROVE  Reports(q, p)
  <2>1. Reports(Append(q, m), p) => Reports(q, p) \/ Report(m, p)
    BY AppendNews
  <2> QED BY <1>1, <2>1
<1>2. ASSUME q # <<>>, Reports(Tail(q), p)
      PROVE  Reports(q, p)
  <2>1. Reports(Tail(q), p) => Reports(q, p)
    BY <1>2, TailNews
  <2> QED BY <1>2, <2>1
<1> QED BY <1>1, <1>2

LEMMA LinkNames ==
  ASSUME NEW q \in Seq(Packets), NEW p, NEW e, NEW m \in Packets,
         Names(Append(q, m), p, e)
  PROVE  Names(q, p, e) \/ (m.login = p /\ m.wid = e)
<1>1. Names(Append(q, m), p, e) =>
        \/ Names(q, p, e)
        \/ m.op = "ClientList" /\ m.login = p /\ m.wid = e
  BY AppendNews
<1> QED BY <1>1

\* The packet a zone server sends about its client of login p, if it has a link.
Packet(remove, w, p) ==
  [op |-> "ClientList", remove |-> remove, wid |-> w, login |-> p]

LEMMA SendsNews ==
  ASSUME LinksInv, NEW s \in Servers, NEW p \in Logins, NEW remove \in 0 .. 2,
         pc[s][p].at # "none", Sends(s, remove, p)
  PROVE  /\ \A t \in Servers \ {s} : toWorld'[t] = toWorld[t]
         /\ \/ toWorld'[s] = toWorld[s] /\ conn[s] # "up"
            \/ toWorld'[s] = Append(toWorld[s], Packet(remove, pc[s][p].wid, p))
         /\ toWorld[s] \in Seq(Packets)
         /\ Packet(remove, pc[s][p].wid, p) \in Packets
<1>1. pc[s][p].wid \in Entries /\ toWorld \in [Servers -> Seq(Packets)]
  BY DEF LinksInv, LinksFrom, LinksType, Packets
<1>2. Packet(remove, pc[s][p].wid, p) \in Packets
  BY <1>1 DEF Packet, Packets, ClientListMsg
<1> QED BY <1>1, <1>2 DEF Sends, ClientList, Packet

\* What a zone server reports when its link is there again: all of its clients,
\* and nothing that disturbs them.
LEMMA BackNews ==
  ASSUME LinksInv, NEW s \in Servers, Reconnects(s)
  PROVE  /\ \A t \in Servers \ {s} : toWorld'[t] = toWorld[t]
         /\ \A p \in Logins : /\ Reports(toWorld'[s], p) => p \in Here(s)
                            /\ Calm(toWorld'[s], p)
         /\ \A p \in Logins : \A e : Names(toWorld'[s], p, e) =>
              p \in Here(s) /\ pc[s][p].wid = e
         /\ \A p \in Here(s) : ToldLast(toWorld'[s], p, pc[s][p].wid)
<1>1. PICK order \in [1 .. Cardinality(Here(s)) -> Here(s)] :
        /\ \A p \in Here(s) : \E i \in DOMAIN order : order[i] = p
        /\ toWorld' = [toWorld EXCEPT ![s] = UpdateWhoAll(s, order)]
  BY DEF Reconnects
<1> DEFINE new == toWorld'[s]
<1>2. /\ new = UpdateWhoAll(s, order)
      /\ \A t \in Servers \ {s} : toWorld'[t] = toWorld[t]
  BY <1>1 DEF LinksInv, LinksType
<1>3. /\ DOMAIN new = DOMAIN order
      /\ \A i \in DOMAIN order :
           /\ order[i] \in Here(s)
           /\ new[i] = Packet(0, pc[s][order[i]].wid, order[i])
  BY <1>1, <1>2 DEF UpdateWhoAll, ClientList, Packet
<1> HIDE DEF new
<1>4. \A i \in DOMAIN new :
        /\ order[i] \in Here(s)
        /\ new[i].op = "ClientList" /\ new[i].remove = 0
        /\ new[i].login = order[i] /\ new[i].wid = pc[s][order[i]].wid
  BY <1>3 DEF Packet
<1>5. \A p \in Logins : Reports(new, p) => p \in Here(s)
  BY <1>4 DEF Reports, Report
<1>6. \A p \in Logins : Calm(new, p)
  BY <1>4 DEF Calm, Disturbs
<1>7. \A p \in Logins : \A e : Names(new, p, e) => p \in Here(s) /\ pc[s][p].wid = e
  BY <1>4 DEF Names
<1>8. ASSUME NEW p \in Here(s)
      PROVE  ToldLast(new, p, pc[s][p].wid)
  <2>1. PICK i \in DOMAIN new : order[i] = p
    BY <1>1, <1>3
  <2>2. Report(new[i], p) /\ new[i].wid = pc[s][p].wid
    BY <1>4, <2>1 DEF Report
  <2>3. p \in Logins
    BY DEF Here
  <2>4. \A j \in DOMAIN new : ~Disturbs(new[j], p)
    BY <1>6, <2>3 DEF Calm
  <2> QED BY <2>1, <2>2, <2>4 DEF ToldLast
<1> QED BY <1>2, <1>5, <1>6, <1>7, <1>8 DEF new

\* A report of p is due when a link has one.
LEMMA DueReports ==
  ASSUME NEW p
  PROVE  ReportDue(p) <=> \E s \in Servers : Reports(toWorld[s], p)
BY DEF ReportDue, Reports, Report

-----------------------------------------------------------------------------
(***************************************************************************)
(* The way of a login: a session that waits for its zone, or one that was  *)
(* sent to a zone, has nobody in a zone and no report on its way; a login  *)
(* is in one zone at a time, and only that zone has reports that it is.    *)
(***************************************************************************)
Absent(p) ==
  \A s \in Servers : pc[s][p].at \notin Coming /\ ~Reports(toWorld[s], p)
Waiting(p) == session[p].open /\ ~(session[p].zone /\ session[p].to = 0)
Course(p) ==
  /\ session[p].to # 0 => session[p].zone
  /\ Waiting(p) => Absent(p) /\ going[p].to = 0
  /\ going[p].to # 0 => Absent(p)
  /\ \A s \in Servers : pc[s][p].at \in Coming =>
       /\ going[p].to = 0
       /\ \A t \in Servers \ {s} :
            pc[t][p].at \notin Coming /\ ~Reports(toWorld[t], p)
       /\ pc[s][p].at = "connecting" => ~Reports(toWorld[s], p)
CourseInv == \A p \in Logins : Course(p)

\* A step that brings login p nowhere and reports nothing of it.
LEMMA CourseKept ==
  ASSUME NEW p \in Logins, Course(p),
         session'[p].to # 0 => session'[p].zone,
         Waiting(p)' => Waiting(p),
         going'[p].to # 0 => going[p].to # 0,
         \A s \in Servers : pc'[s][p].at \in Coming => pc'[s][p].at = pc[s][p].at,
         \A s \in Servers : Reports(toWorld'[s], p) => Reports(toWorld[s], p)
  PROVE  Course(p)'
<1>1. Absent(p) => Absent(p)'
  BY DEF Absent
<1> QED BY <1>1 DEF Course

\* The same of a step that leaves its session and its way alone.
LEMMA CourseQuiet ==
  ASSUME NEW p \in Logins, Course(p),
         session'[p] = session[p], going'[p] = going[p],
         \A s \in Servers : pc'[s][p].at \in Coming => pc'[s][p].at = pc[s][p].at,
         \A s \in Servers : Reports(toWorld'[s], p) => Reports(toWorld[s], p)
  PROVE  Course(p)'
<1>1. Waiting(p)' => Waiting(p)
  BY DEF Waiting
<1>2. session'[p].to # 0 => session'[p].zone
  BY DEF Course
<1> QED BY <1>1, <1>2, CourseKept

\* What a step makes of the clients of a zone.
LEMMA ClientSteps ==
  ASSUME LinksInv, NEW s \in Servers, NEW p \in Logins
  PROVE  /\ \A at : Becomes(s, p, at) =>
              \A t \in Servers, r \in Logins :
                pc'[t][r] = IF t = s /\ r = p THEN [at |-> at, wid |-> pc[s][p].wid]
                            ELSE pc[t][r]
         /\ \A c : pc' = [pc EXCEPT ![s][p] = c] =>
              \A t \in Servers, r \in Logins :
                pc'[t][r] = IF t = s /\ r = p THEN c ELSE pc[t][r]
<1>1. pc \in [Servers -> [Logins -> PCs]] /\ pc[s][p] \in PCs
  BY DEF LinksInv, LinksType, PCs
<1>2. ASSUME NEW c, pc' = [pc EXCEPT ![s][p] = c]
      PROVE  \A t \in Servers, r \in Logins :
               pc'[t][r] = IF t = s /\ r = p THEN c ELSE pc[t][r]
  BY <1>1, <1>2
<1>3. ASSUME NEW at, Becomes(s, p, at)
      PROVE  pc' = [pc EXCEPT ![s][p] = [at |-> at, wid |-> pc[s][p].wid]]
  <2>1. [pc[s][p] EXCEPT !.at = at] = [at |-> at, wid |-> pc[s][p].wid]
    BY <1>1 DEF PCs
  <2> QED BY <1>1, <1>3, <2>1 DEF Becomes
<1> QED BY <1>2, <1>3

LEMMA CourseNext == IInv /\ ~LateReports /\ CourseInv /\ [Next]_vars => CourseInv'
<1> SUFFICES ASSUME IInv, ~LateReports, CourseInv, [Next]_vars, NEW p \in Logins
             PROVE  Course(p)'
  BY DEF CourseInv
<1>0. /\ LinksInv /\ Course(p)
      /\ \A q \in Logins : session[q] \in Sessions /\ Course(q)
      /\ session \in [Logins -> Sessions]
      /\ going \in [Logins -> [to : 0 .. NServers, wid : 0 .. NEntries]]
      /\ pc \in [Servers -> [Logins -> PCs]]
      /\ toWorld \in [Servers -> Seq(Packets)]
  BY DEF IInv, LinksInv, LinksType, Sessions, PCs, Packets, CourseInv
<1>1. ASSUME NEW q \in Logins, CLEAdd(q)
      PROVE  Course(p)'
  <2>1. UNCHANGED <<session, going, pc, toWorld>>
    BY <1>1 DEF CLEAdd
  <2> QED BY <1>0, <2>1 DEF Course, Waiting, Absent
<1>2. ASSUME NEW q \in Logins, HandleSendLoginInfo(q)
      PROVE  Course(p)'
  <2>1. /\ UNCHANGED <<pc, toWorld>>
        /\ going' = [going EXCEPT ![q] = Nowhere]
        /\ Absent(q)
    BY <1>2, DueReports DEF HandleSendLoginInfo, Absent, Coming
  <2>2. PICK e \in Listed :
          session' = [session EXCEPT ![q] = [NoClient EXCEPT !.open = TRUE,
                                                             !.cle = e]]
    BY <1>2 DEF HandleSendLoginInfo
  <2>3. CASE q = p
    <3>1. session'[p].to = 0 /\ going'[p].to = 0
      BY <1>0, <2>1, <2>2, <2>3 DEF NoClient, Nowhere
    <3> QED BY <2>1, <2>3, <3>1 DEF Course, Absent
  <2>4. CASE q # p
    <3>1. session'[p] = session[p] /\ going'[p] = going[p]
      BY <1>0, <2>1, <2>2, <2>4
    <3> QED BY <1>0, <2>1, <3>1 DEF Course, Waiting, Absent
  <2> QED BY <2>3, <2>4
<1>3. ASSUME NEW q \in Logins, Clearance(q)
      PROVE  Course(p)'
  <2>1. /\ UNCHANGED <<pc, toWorld>>
        /\ session[q].open /\ session[q].to # 0
        /\ going' = [going EXCEPT ![q] = [to |-> session[q].to,
                                          wid |-> session[q].wid]]
        /\ session' = [session EXCEPT ![q].to = 0, ![q].wid = 0]
    BY <1>3 DEF Clearance
  <2>2. session' = [session EXCEPT ![q] = [session[q] EXCEPT !.to = 0, !.wid = 0]]
    BY <1>0, <2>1
  <2>3. CASE q = p
    <3>1. session[p].zone /\ Absent(p)
      BY <1>0, <2>1, <2>3 DEF Course, Waiting
    <3>2. session'[p].to = 0 /\ session'[p].zone
      BY <1>0, <2>2, <2>3, <3>1 DEF Sessions
    <3> QED BY <2>1, <3>1, <3>2 DEF Course, Waiting, Absent
  <2>4. CASE q # p
    <3>1. session'[p] = session[p] /\ going'[p] = going[p]
      BY <1>0, <2>1, <2>2, <2>4
    <3> QED BY <1>0, <2>1, <3>1 DEF Course, Waiting, Absent
  <2> QED BY <2>3, <2>4
<1>4. ASSUME NEW q \in Logins, TellClientZoneUnavailable(q) \/ SessionEnds(q)
      PROVE  Course(p)'
  <2>1. UNCHANGED <<pc, toWorld, going>>
    BY <1>4 DEF TellClientZoneUnavailable, SessionEnds
  <2>2. CASE q = p
    <3>1. session'[p].to = 0
      <4>1. CASE SessionEnds(q)
        BY <1>0, <2>2, <4>1 DEF SessionEnds, NoClient
      <4>2. CASE TellClientZoneUnavailable(q)
        <5>1. session' = [session EXCEPT ![p] =
                [session[p] EXCEPT !.zone = FALSE, !.to = 0, !.wid = 0]]
          BY <1>0, <2>2, <4>2 DEF TellClientZoneUnavailable
        <5> QED BY <1>0, <5>1 DEF Sessions
      <4> QED BY <1>4, <4>1, <4>2
    <3>2. Waiting(p)' => Waiting(p)
      <4>1. CASE SessionEnds(q)
        BY <1>0, <2>2, <4>1 DEF SessionEnds, NoClient, Waiting
      <4>2. CASE TellClientZoneUnavailable(q)
        BY <2>2, <4>2 DEF TellClientZoneUnavailable, Waiting
      <4> QED BY <1>4, <4>1, <4>2
    <3> QED BY <1>0, <2>1, <3>1, <3>2, CourseKept
  <2>3. CASE q # p
    <3>1. session'[p] = session[p]
      BY <1>0, <1>4, <2>3 DEF TellClientZoneUnavailable, SessionEnds
    <3> QED BY <1>0, <2>1, <3>1 DEF Course, Waiting, Absent
  <2> QED BY <2>2, <2>3
<1>5. ASSUME NEW q \in Logins, NEW s \in Servers, EnterWorld(q, s)
      PROVE  Course(p)'
  <2>1. /\ UNCHANGED <<pc, toWorld, going>>
        /\ session[q].open /\ ~session[q].zone
        /\ session' = [session EXCEPT ![q].zone = TRUE, ![q].to = s,
                                      ![q].wid = session[q].cle]
    BY <1>5 DEF EnterWorld
  <2>2. session' = [session EXCEPT ![q] =
          [session[q] EXCEPT !.zone = TRUE, !.to = s, !.wid = session[q].cle]]
    BY <1>0, <2>1
  <2>3. CASE q = p
    <3>1. Absent(p) /\ going[p].to = 0
      BY <1>0, <2>1, <2>3 DEF Course, Waiting
    <3>2. session'[p].zone
      BY <1>0, <2>2, <2>3 DEF Sessions
    <3> QED BY <2>1, <3>1, <3>2 DEF Course, Absent
  <2>4. CASE q # p
    <3>1. session'[p] = session[p]
      BY <1>0, <2>2, <2>4
    <3> QED BY <1>0, <2>1, <3>1 DEF Course, Waiting, Absent
  <2> QED BY <2>3, <2>4
<1>6. ASSUME NEW q \in Logins, Handle_Connect_OP_ZoneEntry(q)
      PROVE  Course(p)'
  <2>1. PICK s \in Servers : s = going[q].to
    BY <1>0, <1>6 DEF Handle_Connect_OP_ZoneEntry, Servers
  <2>2. /\ UNCHANGED <<toWorld, session>>
        /\ pc' = [pc EXCEPT ![s][q] = [at |-> "connecting", wid |-> going[q].wid]]
        /\ going' = [going EXCEPT ![q] = Nowhere]
        /\ going[q].to # 0
    BY <1>6, <2>1 DEF Handle_Connect_OP_ZoneEntry
  <2>3. \A t \in Servers, r \in Logins :
          pc'[t][r] = IF t = s /\ r = q
                      THEN [at |-> "connecting", wid |-> going[q].wid] ELSE pc[t][r]
    BY <1>0, <2>2, ClientSteps
  <2>4. CASE q = p
    <3>1. Absent(p) /\ ~Waiting(p)
      BY <1>0, <2>2, <2>4 DEF Course
    <3>2. going'[p].to = 0
      BY <1>0, <2>2, <2>4 DEF Nowhere
    <3>3. ~Waiting(p)'
      BY <2>2, <3>1 DEF Waiting
    <3>4. /\ \A t \in Servers \ {s} : pc'[t][p].at \notin Coming
          /\ \A t \in Servers : ~Reports(toWorld'[t], p)
      BY <2>2, <2>3, <3>1 DEF Absent
    <3> QED BY <1>0, <2>2, <3>2, <3>3, <3>4 DEF Course
  <2>5. CASE q # p
    <3>1. going'[p] = going[p] /\ \A t \in Servers : pc'[t][p] = pc[t][p]
      BY <1>0, <2>2, <2>3, <2>5
    <3> QED BY <1>0, <2>2, <3>1 DEF Course, Waiting, Absent
  <2> QED BY <2>4, <2>5
<1>7. ASSUME NEW s \in Servers, NEW q \in Logins,
             CompleteConnect(s, q) \/ UpdateWho(s, q)
      PROVE  Course(p)'
  <2>1. /\ pc[s][q].at \in Coming /\ pc[s][q].at # "none"
        /\ Sends(s, 0, q)
        /\ UNCHANGED <<session, going>>
        /\ \A t \in Servers, r \in Logins :
             pc'[t][r].at = IF t = s /\ r = q THEN "in" ELSE pc[t][r].at
    <3>1. CASE CompleteConnect(s, q)
      <4>1. \A t \in Servers, r \in Logins :
              pc'[t][r] = IF t = s /\ r = q THEN [at |-> "in", wid |-> pc[s][q].wid]
                          ELSE pc[t][r]
        BY <1>0, <3>1, ClientSteps DEF CompleteConnect
      <4> QED BY <3>1, <4>1 DEF CompleteConnect, Coming
    <3>2. CASE UpdateWho(s, q)
      BY <3>2 DEF UpdateWho, Here, Coming
    <3> QED BY <1>7, <3>1, <3>2
  <2> DEFINE m == Packet(0, pc[s][q].wid, q)
  <2>2. /\ \A t \in Servers \ {s} : toWorld'[t] = toWorld[t]
        /\ toWorld'[s] = toWorld[s] \/ toWorld'[s] = Append(toWorld[s], m)
        /\ toWorld[s] \in Seq(Packets) /\ m \in Packets
    BY <1>0, <2>1, SendsNews
  <2>3. m.login = q
    BY DEF Packet
  <2> HIDE DEF m
  <2>4. CASE q = p
    <3>1. ~Waiting(p) /\ going[p].to = 0
      BY <1>0, <2>1, <2>4 DEF Course, Absent
    <3>2. \A t \in Servers \ {s} :
            pc[t][p].at \notin Coming /\ ~Reports(toWorld[t], p)
      BY <1>0, <2>1, <2>4 DEF Course
    <3>3. ~Waiting(p)' /\ going'[p].to = 0 /\ (session'[p].to # 0 => session'[p].zone)
      BY <1>0, <2>1, <3>1 DEF Waiting, Course
    <3>4. \A t \in Servers \ {s} :
            pc'[t][p].at \notin Coming /\ ~Reports(toWorld'[t], p)
      BY <2>1, <2>2, <3>2
    <3>5. pc'[s][p].at = "in"
      BY <2>1, <2>4
    <3> QED BY <3>3, <3>4, <3>5 DEF Course
  <2>5. CASE q # p
    <3>1. ~Report(m, p)
      BY <2>3, <2>5 DEF Report
    <3>2. \A t \in Servers : Reports(toWorld'[t], p) => Reports(toWorld[t], p)
      <4>1. Reports(toWorld'[s], p) => Reports(toWorld[s], p)
        BY <2>2, <3>1, LinkReports, Zenon
      <4> QED BY <2>2, <4>1
    <3>3. \A t \in Servers : pc'[t][p].at = pc[t][p].at
      BY <2>1, <2>5
    <3> QED BY <1>0, <2>1, <3>2, <3>3, CourseQuiet
  <2> QED BY <2>4, <2>5
<1>8. ASSUME NEW s \in Servers, NEW q \in Logins, Zones(s, q) \/ ClientGone(s, q)
      PROVE  Course(p)'
  <2>1. PICK remove \in {1, 2} : Sends(s, remove, q)
    BY <1>8 DEF Zones, ClientGone
  <2>2. /\ pc[s][q].at # "none"
        /\ UNCHANGED <<session, going>>
        /\ \A t \in Servers, r \in Logins :
             pc'[t][r].at \in Coming => pc'[t][r].at = pc[t][r].at
    <3>1. CASE Zones(s, q)
      <4>1. \A t \in Servers, r \in Logins :
              pc'[t][r] = IF t = s /\ r = q
                          THEN [at |-> "zoning", wid |-> pc[s][q].wid] ELSE pc[t][r]
        BY <1>0, <3>1, ClientSteps DEF Zones
      <4> QED BY <3>1, <4>1 DEF Zones, Coming
    <3>2. CASE ClientGone(s, q)
      <4>1. \A t \in Servers, r \in Logins :
              pc'[t][r] = IF t = s /\ r = q THEN NoPC ELSE pc[t][r]
        BY <1>0, <3>2, ClientSteps DEF ClientGone
      <4> QED BY <3>2, <4>1 DEF ClientGone, NoPC, Coming
    <3> QED BY <1>8, <3>1, <3>2
  <2> DEFINE m == Packet(remove, pc[s][q].wid, q)
  <2>3. /\ \A t \in Servers \ {s} : toWorld'[t] = toWorld[t]
        /\ toWorld'[s] = toWorld[s] \/ toWorld'[s] = Append(toWorld[s], m)
        /\ toWorld[s] \in Seq(Packets) /\ m \in Packets
    BY <1>0, <2>1, <2>2, SendsNews
  <2>4. ~Report(m, p)
    BY <2>1 DEF Packet, Report
  <2> HIDE DEF m
  <2>5. \A t \in Servers : Reports(toWorld'[t], p) => Reports(toWorld[t], p)
    <3>1. Reports(toWorld'[s], p) => Reports(toWorld[s], p)
      BY <2>3, <2>4, LinkReports, Zenon
    <3>2. ASSUME NEW t \in Servers, t # s, Reports(toWorld'[t], p)
          PROVE  Reports(toWorld[t], p)
      <4>1. toWorld'[t] = toWorld[t]
        BY <2>3, <3>2
      <4> QED BY <3>2, <4>1
    <3> QED BY <3>1, <3>2
  <2> QED BY <1>0, <2>2, <2>5, CourseQuiet
<1>9. ASSUME NEW s \in Servers, NEW q \in Logins, Quits(s, q)
      PROVE  Course(p)'
  <2>1. /\ UNCHANGED <<session, going, toWorld>>
        /\ \A t \in Servers, r \in Logins :
             pc'[t][r].at \in Coming => pc'[t][r].at = pc[t][r].at
    <3>1. \A t \in Servers, r \in Logins :
            pc'[t][r] = IF t = s /\ r = q
                        THEN [at |-> "lingering", wid |-> pc[s][q].wid] ELSE pc[t][r]
      BY <1>0, <1>9, ClientSteps DEF Quits
    <3> QED BY <1>9, <3>1 DEF Quits, Coming
  <2> QED BY <1>0, <2>1, CourseQuiet
<1>10. ASSUME NEW s \in Servers, ChangeWID(s)
       PROVE  Course(p)'
  <2> DEFINE m == Head(toZone[s])
  <2>1. /\ UNCHANGED <<session, going, toWorld>>
        /\ pc' = pc \/ pc' = [pc EXCEPT ![s][m.login].wid = m.wid]
    BY <1>10 DEF ChangeWID
  <2>2. m.login \in Logins
    <3>1. toZone[s] \in Seq(ChangeWIDMsg) /\ toZone[s] # <<>>
      BY <1>0, <1>10 DEF ChangeWID, LinksInv, LinksType
    <3>2. m \in ChangeWIDMsg
      BY <3>1, TailTyped
    <3> QED BY <3>2 DEF ChangeWIDMsg
  <2> HIDE DEF m
  <2>3. ASSUME NEW t \in Servers PROVE pc'[t][p].at = pc[t][p].at
    <3>1. CASE pc' = [pc EXCEPT ![s][m.login].wid = m.wid]
      <4>1. pc'[t][p] = pc[t][p] \/ pc'[t][p] = [pc[t][p] EXCEPT !.wid = m.wid]
        BY <1>0, <2>2, <3>1
      <4>2. pc[t][p] \in PCs
        BY <1>0
      <4> QED BY <4>1, <4>2 DEF PCs
    <3> QED BY <2>1, <3>1
  <2> QED BY <1>0, <2>1, <2>3, CourseQuiet
<1>11. ASSUME NEW s \in Servers, Sleeps(s)
       PROVE  Course(p)'
  <2> DEFINE m == [op |-> "SetZone"]
  <2>1. /\ UNCHANGED <<session, going, pc>>
        /\ \A t \in Servers \ {s} : toWorld'[t] = toWorld[t]
        /\ toWorld'[s] = Append(toWorld[s], m)
        /\ toWorld[s] \in Seq(Packets)
    BY <1>0, <1>11 DEF Sleeps
  <2>2. m \in Packets /\ ~Report(m, p)
    BY DEF Packets, SetZoneMsg, Report
  <2> HIDE DEF m
  <2>3. \A t \in Servers : Reports(toWorld'[t], p) => Reports(toWorld[t], p)
    <3>1. Reports(toWorld'[s], p) => Reports(toWorld[s], p)
      BY <2>1, <2>2, LinkReports, Zenon
    <3> QED BY <2>1, <3>1
  <2> QED BY <1>0, <2>1, <2>3, CourseQuiet
<1>12. ASSUME NEW s \in Servers, ClientUpdate(s) \/ SetZone(s)
       PROVE  Course(p)'
  <2>1. /\ UNCHANGED <<session, going, pc>>
        /\ \A t \in Servers \ {s} : toWorld'[t] = toWorld[t]
        /\ toWorld'[s] = Tail(toWorld[s]) /\ toWorld[s] # <<>>
        /\ toWorld[s] \in Seq(Packets)
    BY <1>0, <1>12 DEF ClientUpdate, SetZone
  <2>2. \A t \in Servers : Reports(toWorld'[t], p) => Reports(toWorld[t], p)
    <3>1. Reports(toWorld'[s], p) => Reports(toWorld[s], p)
      BY <2>1, LinkReports, Zenon
    <3> QED BY <2>1, <3>1
  <2> QED BY <1>0, <2>1, <2>2, CourseQuiet
<1>13. ASSUME NEW s \in Servers, Dies(s)
       PROVE  Course(p)'
  <2>1. /\ UNCHANGED <<session, going, toWorld>>
        /\ \A t \in Servers :
             pc'[t][p] = IF t = s THEN NoPC ELSE pc[t][p]
    BY <1>0, <1>13 DEF Dies
  <2>2. \A t \in Servers : pc'[t][p].at \in Coming => pc'[t][p].at = pc[t][p].at
    BY <2>1 DEF NoPC, Coming
  <2> QED BY <1>0, <2>1, <2>2, CourseQuiet
<1>14. ASSUME NEW s \in Servers, ServerLost(s)
       PROVE  Course(p)'
  <2>1. /\ UNCHANGED <<session, going, pc>>
        /\ \A t \in Servers : toWorld'[t] = IF t = s THEN <<>> ELSE toWorld[t]
    BY <1>0, <1>14 DEF ServerLost
  <2>2. ~Reports(<<>>, p)
    BY DEF Reports
  <2>3. \A t \in Servers : Reports(toWorld'[t], p) => Reports(toWorld[t], p)
    BY <2>1, <2>2
  <2> QED BY <1>0, <2>1, <2>3, CourseQuiet
<1>15. ASSUME NEW e \in Entries, CheckStale(e) \/ GetCLEIP(e)
       PROVE  Course(p)'
  <2>1. /\ UNCHANGED <<going, pc, toWorld>>
        /\ session'[p] = IF session[p].cle = e THEN [session[p] EXCEPT !.cle = 0]
                         ELSE session[p]
    BY <1>15 DEF CheckStale, GetCLEIP, Removes, WithoutEntry
  <2>2. /\ session'[p].to = session[p].to /\ session'[p].zone = session[p].zone
        /\ session'[p].open = session[p].open
    BY <1>0, <2>1 DEF Sessions
  <2> QED BY <1>0, <2>1, <2>2 DEF Course, Waiting, Absent
<1>16. CASE UNCHANGED vars \/ \E s \in Servers : LinkBreaks(s) \/ Connects(s)
  <2>1. UNCHANGED <<session, going, pc, toWorld>>
    BY <1>16 DEF vars, LinkBreaks, Connects
  <2> QED BY <1>0, <2>1 DEF Course, Waiting, Absent
<1>17. ASSUME NEW s \in Servers, Reconnects(s)
       PROVE  Course(p)'
  <2>1. /\ UNCHANGED <<session, going, pc>>
        /\ \A t \in Servers \ {s} : toWorld'[t] = toWorld[t]
    BY <1>0, <1>17, BackNews DEF Reconnects
  <2>2. Reports(toWorld'[s], p) => pc[s][p].at = "in"
    BY <1>0, <1>17, BackNews DEF Here
  <2>3. CASE pc[s][p].at = "in"
    <3>1. /\ ~Absent(p)
          /\ \A t \in Servers \ {s} :
               pc[t][p].at \notin Coming /\ ~Reports(toWorld[t], p)
      BY <1>0, <2>3 DEF Absent, Course, Coming
    <3>2. ~Waiting(p) /\ going[p].to = 0 /\ (session[p].to # 0 => session[p].zone)
      BY <1>0, <3>1 DEF Course
    <3>3. \A t \in Servers \ {s} :
            pc'[t][p].at \notin Coming /\ ~Reports(toWorld'[t], p)
      BY <2>1, <3>1
    <3> QED BY <2>1, <2>3, <3>2, <3>3 DEF Course, Waiting
  <2>4. CASE pc[s][p].at # "in"
    <3>1. \A t \in Servers : Reports(toWorld'[t], p) => Reports(toWorld[t], p)
      BY <2>1, <2>2, <2>4
    <3> QED BY <1>0, <2>1, <3>1, CourseQuiet
  <2> QED BY <2>3, <2>4
<1> QED
  BY <1>1, <1>2, <1>3, <1>4, <1>5, <1>6, <1>7, <1>8, <1>9, <1>10, <1>11, <1>12,
     <1>13, <1>14, <1>15, <1>16, <1>17 DEF Next

-----------------------------------------------------------------------------
(***************************************************************************)
(* As long as world removes no entry that somebody keeps alive, whatever a *)
(* session, a clearance, a zone or a packet names is an entry of its own   *)
(* login, so world never has to make an entry from a report.               *)
(***************************************************************************)
Claim(e, p) ==
  \/ session[p].cle = e
  \/ session[p].to # 0 /\ session[p].wid = e
  \/ going[p].to # 0 /\ going[p].wid = e
  \/ \E s \in Servers : pc[s][p].at # "none" /\ pc[s][p].wid = e
  \/ \E s \in Servers : Names(toWorld[s], p, e)
Owns ==
  \A e \in Entries, p \in Logins :
    Claim(e, p) => list.cle[e].listed /\ list.cle[e].login = p
NoNewIDs == \A s \in Servers : toZone[s] = <<>>
OwnedInv == ~limited => Owns /\ NoNewIDs

LoginsKept ==
  \A e \in Entries : list.cle[e].listed =>
    list'.cle[e].listed /\ list'.cle[e].login = list.cle[e].login

LEMMA TouchKeepsLogins ==
  ASSUME NEW e \in Entries, NEW s, Touches(list, list', e, s)
  PROVE  LoginsKept /\ \A f \in Entries \ {e} : list'.cle[f] = list.cle[f]
BY DEF Touches, LoginsKept

\* A new entry leaves the others as they are.
LEMMA OthersStay ==
  ASSUME IInv, nextID \in Entries, NEW q \in Logins,
         list' = Created(list, nextID, q)
  PROVE  \A f \in Entries \ {nextID} : list'.cle[f] = list.cle[f]
<1>1. ListOK(list, nextID, conn)
  BY DEF IInv, ListInv
<1> QED BY <1>1, CreatedOK

LEMMA RefKeepsLogins ==
  ASSUME IInv, NEW s \in Servers, list' = CLERemoveZSRef(list, s)
  PROVE  /\ LoginsKept
         /\ \A e \in Entries : list.cle[e].server # s => list'.cle[e] = list.cle[e]
<1>1. list'.cle = Freed(list, s) /\ \A e \in Entries : list.cle[e] \in Entry
  BY RemoveRefCounted DEF IInv, ListInv, ListOK, Counted, Lists, CLEs
<1>2. \A e \in Entries :
        list'.cle[e] = IF list.cle[e].server = s
                       THEN [list.cle[e] EXCEPT !.online = Offline, !.server = 0]
                       ELSE list.cle[e]
  BY <1>1 DEF Freed
<1> QED BY <1>1, <1>2 DEF LoginsKept, Entry

\* An update with InZone leaves the entry in its zone, at the server.
LEMMA UpdateArrives ==
  ASSUME NEW l, Counted(l), NEW e \in Entries, NEW s \in Servers
  PROVE  /\ Update(l, e, s, InZone).cle[e].server = s
         /\ Update(l, e, s, InZone).cle[e].online = InZone
<1> DEFINE from == l.cle[e].server
           r == [l EXCEPT !.zone_player_count = MovePlayer(@, from, s),
                          !.cle[e].server = s]
<1>1. l \in Lists /\ l.cle \in CLEs /\ l.cle[e] \in Entry
  BY DEF Counted, Lists, CLEs
<1>2. r.cle = [l.cle EXCEPT ![e].server = s]
  BY <1>1 DEF Lists
<1>3. r.cle[e] = [l.cle[e] EXCEPT !.server = s] /\ DOMAIN r.cle = Entries
  BY <1>1, <1>2 DEF CLEs
<1>4. r = [cle |-> r.cle, zone_player_count |-> r.zone_player_count,
           numplayers |-> r.numplayers]
  <2> DEFINE z == MovePlayer(l.zone_player_count, from, s)
             c == [l.cle EXCEPT ![e].server = s]
  <2>1. r = [l EXCEPT !.zone_player_count = z, !.cle = c]
    BY <1>1 DEF Lists
  <2> HIDE DEF z, c, r
  <2> QED BY <1>1, <2>1 DEF Lists
<1>5. Update(l, e, s, InZone) = SetOnline(r, e, InZone)
  BY DEF Update
<1> HIDE DEF r
<1> DEFINE x == [r EXCEPT !.numplayers = CountPlayers(@, r.cle[e].online, InZone),
                          !.cle[e].online = InZone]
<1>6. SetOnline(r, e, InZone) = x
  BY DEF SetOnline, InZone, Zoning, Online
<1>7. x.cle = [r.cle EXCEPT ![e].online = InZone]
  BY <1>4
<1>8. x.cle[e] = [r.cle[e] EXCEPT !.online = InZone]
  BY <1>3, <1>7
<1>9. x.cle[e].server = s /\ x.cle[e].online = InZone
  BY <1>1, <1>3, <1>8 DEF Entry
<1> QED BY <1>5, <1>6, <1>9

\* A report of an entry that is listed.
LEMMA KnownEffect ==
  ASSUME IInv, NEW s \in Servers, ClientUpdate(s), NEW m, m = Head(toWorld[s]),
         m.wid \in Listed
  PROVE  /\ m \in ClientListMsg
         /\ Touches(list, list', m.wid, s)
         /\ UNCHANGED <<nextID, toZone>>
         /\ m.remove = 0 => /\ list'.cle[m.wid].server = s
                            /\ list'.cle[m.wid].online = InZone
         /\ m.remove # 0 /\ list.cle[m.wid].server # s => list' = list
<1>1. m \in ClientListMsg
  <2>1. toWorld[s] \in Seq(ClientListMsg \cup SetZoneMsg) /\ toWorld[s] # <<>>
    BY DEF IInv, LinksInv, LinksType, ClientUpdate
  <2>2. m \in ClientListMsg \cup SetZoneMsg /\ m.op = "ClientList"
    BY <2>1 DEF ClientUpdate
  <2> QED BY <2>2 DEF SetZoneMsg
<1>2. m.wid \in Entries /\ m.remove \in 0 .. 2 /\ Counted(list)
  BY <1>1 DEF ClientListMsg, IInv, ListInv, ListOK
<1>3. list' = Known(m, s) /\ UNCHANGED <<nextID, toZone>>
  BY DEF ClientUpdate
<1>4. Known(m, s) = CASE m.remove = 2 -> LeavingZone(list, m.wid, s, Offline)
                      [] m.remove = 1 -> LeavingZone(list, m.wid, s, Zoning)
                      [] OTHER        -> Update(list, m.wid, s, InZone)
  BY DEF Known
<1>5. \/ m.remove = 2 /\ list' = LeavingZone(list, m.wid, s, Offline)
      \/ m.remove = 1 /\ list' = LeavingZone(list, m.wid, s, Zoning)
      \/ m.remove = 0 /\ list' = Update(list, m.wid, s, InZone)
  BY <1>2, <1>3, <1>4
<1>6. Touches(list, list', m.wid, s)
  BY <1>2, <1>5, LeavingZoneTouches, UpdateTouches, Statuses
<1>7. m.remove = 0 => /\ list'.cle[m.wid].server = s
                      /\ list'.cle[m.wid].online = InZone
  BY <1>2, <1>5, UpdateArrives
<1>8. m.remove # 0 /\ list.cle[m.wid].server # s => list' = list
  BY <1>5 DEF LeavingZone, Concerns
<1> QED BY <1>1, <1>3, <1>6, <1>7, <1>8

\* The claims after a step come from those before it.
LEMMA ClaimsFrom ==
  ASSUME NEW e \in Entries, NEW p \in Logins,
         session'[p].cle = e => Claim(e, p),
         session'[p].to # 0 /\ session'[p].wid = e => Claim(e, p),
         going'[p].to # 0 /\ going'[p].wid = e => Claim(e, p),
         \A s \in Servers : pc'[s][p].at # "none" /\ pc'[s][p].wid = e => Claim(e, p),
         \A s \in Servers : Names(toWorld'[s], p, e) => Claim(e, p)
  PROVE  Claim(e, p)' => Claim(e, p)
<1>1. Claim(e, p)' =>
        \/ session'[p].cle = e
        \/ session'[p].to # 0 /\ session'[p].wid = e
        \/ going'[p].to # 0 /\ going'[p].wid = e
        \/ \E s \in Servers : pc'[s][p].at # "none" /\ pc'[s][p].wid = e
        \/ \E s \in Servers : Names(toWorld'[s], p, e)
  BY DEF Claim
<1> QED BY <1>1

LEMMA OwnsKept ==
  ASSUME Owns, LoginsKept,
         \A e \in Entries, p \in Logins : Claim(e, p)' => Claim(e, p)
  PROVE  Owns'
BY DEF Owns, LoginsKept

\* A packet names the entry that the zone's client has.
LEMMA SendsNames ==
  ASSUME LinksInv, NEW s \in Servers, NEW q \in Logins, NEW remove \in 0 .. 2,
         pc[s][q].at # "none", Sends(s, remove, q),
         NEW e \in Entries, NEW p \in Logins, NEW t \in Servers,
         Names(toWorld'[t], p, e)
  PROVE  Claim(e, p)
<1> DEFINE m == Packet(remove, pc[s][q].wid, q)
<1>1. /\ \A u \in Servers \ {s} : toWorld'[u] = toWorld[u]
      /\ toWorld'[s] = toWorld[s] \/ toWorld'[s] = Append(toWorld[s], m)
      /\ toWorld[s] \in Seq(Packets) /\ m \in Packets
  BY SendsNews
<1>2. m.wid = pc[s][q].wid /\ m.login = q
  BY DEF Packet
<1> HIDE DEF m
<1>3. CASE t = s
  <2>1. Names(toWorld[s], p, e) \/ (m.login = p /\ m.wid = e)
    <3>1. Names(toWorld[s], p, e) \/ Names(Append(toWorld[s], m), p, e)
      BY <1>1, <1>3
    <3> QED BY <1>1, <3>1, LinkNames
  <2> QED BY <1>2, <2>1 DEF Claim
<1>4. CASE t # s
  BY <1>1, <1>4 DEF Claim
<1> QED BY <1>3, <1>4

\* Nothing undoes that an entry was removed that a player has.
LEMMA LimitedStays == limited /\ [Next]_vars => limited'
BY DEF Next, vars, CLEAdd, HandleSendLoginInfo, Clearance, TellClientZoneUnavailable,
       SessionEnds, Handle_Connect_OP_ZoneEntry, EnterWorld, CompleteConnect,
       UpdateWho, Zones, Quits, ClientGone, ChangeWID, Sleeps, ClientUpdate,
       SetZone, Dies, LinkBreaks, ServerLost, Connects, Reconnects, CheckStale,
       GetCLEIP

LEMMA OwnedNext == IInv /\ OwnedInv /\ [Next]_vars => OwnedInv'
<1> SUFFICES ASSUME IInv, OwnedInv, [Next]_vars, ~limited'
             PROVE  Owns' /\ NoNewIDs'
  BY DEF OwnedInv
<1>0. /\ Owns /\ NoNewIDs /\ LinksInv /\ Counted(list) /\ SessionsLive
      /\ \A q \in Logins : session[q] \in Sessions
      /\ session \in [Logins -> Sessions]
      /\ going \in [Logins -> [to : 0 .. NServers, wid : 0 .. NEntries]]
      /\ pc \in [Servers -> [Logins -> PCs]]
      /\ toWorld \in [Servers -> Seq(Packets)]
      /\ \A e \in Entries : e # 0
  <2>1. Owns /\ NoNewIDs
    BY LimitedStays DEF OwnedInv
  <2>2. LinksInv /\ LinksType /\ Counted(list) /\ SessionsLive
    BY DEF IInv, ListInv, ListOK, LinksInv
  <2>3. \A e \in Entries : e # 0
    BY DEF Entries
  <2> QED BY <2>1, <2>2, <2>3 DEF LinksType, Sessions, PCs, Packets
<1>1. ASSUME NEW q \in Logins, CLEAdd(q)
      PROVE  Owns' /\ NoNewIDs'
  <2>1. /\ nextID \in Entries /\ list' = Created(list, nextID, q)
        /\ UNCHANGED <<session, going, pc, toWorld, toZone>>
    BY <1>1 DEF CLEAdd
  <2>2. /\ \A e \in Entries \ {nextID} : list'.cle[e] = list.cle[e]
        /\ ~list.cle[nextID].listed
    <3>1. ~list.cle[nextID].listed
      BY <2>1 DEF IInv, ListInv, ListOK, Entries
    <3>2. \A e \in Entries \ {nextID} : list'.cle[e] = list.cle[e]
      BY <2>1, OthersStay
    <3> QED BY <3>1, <3>2
  <2>3. LoginsKept
    BY <2>2 DEF LoginsKept
  <2>4. \A e \in Entries, p \in Logins : Claim(e, p)' => Claim(e, p)
    BY <2>1 DEF Claim
  <2> QED BY <1>0, <2>1, <2>3, <2>4, OwnsKept DEF NoNewIDs
<1>2. ASSUME NEW q \in Logins, HandleSendLoginInfo(q)
      PROVE  Owns' /\ NoNewIDs'
  <2>1. PICK f \in Listed, o \in {Online, CharSelect} :
          /\ list.cle[f].login = q
          /\ list' = SetOnline(list, f, o)
          /\ session' = [session EXCEPT ![q] = [NoClient EXCEPT !.open = TRUE,
                                                               !.cle = f]]
    BY <1>2 DEF HandleSendLoginInfo
  <2>2. f \in Entries /\ list.cle[f].listed /\ o \in Status
    BY <2>1, Statuses DEF Listed
  <2>3. LoginsKept
    BY <1>0, <2>1, <2>2, SetOnlineTouches, TouchKeepsLogins
  <2>4. /\ going' = [going EXCEPT ![q] = Nowhere]
        /\ UNCHANGED <<pc, toWorld, toZone>>
    BY <1>2 DEF HandleSendLoginInfo
  <2>5. /\ session'[q].cle = f /\ session'[q].to = 0 /\ going'[q].to = 0
        /\ \A p \in Logins \ {q} : session'[p] = session[p] /\ going'[p] = going[p]
    BY <1>0, <2>1, <2>4 DEF NoClient, Nowhere
  <2> SUFFICES ASSUME NEW e \in Entries, NEW p \in Logins, Claim(e, p)'
               PROVE  list'.cle[e].listed /\ list'.cle[e].login = p
    BY <1>0, <2>4 DEF Owns, NoNewIDs
  <2>6. CASE p = q /\ e = f
    BY <2>1, <2>2, <2>3, <2>6 DEF LoginsKept
  <2>7. CASE ~(p = q /\ e = f)
    <3>1. Claim(e, p)
      BY <2>4, <2>5, <2>7 DEF Claim
    <3> QED BY <1>0, <2>3, <3>1 DEF Owns, LoginsKept
  <2> QED BY <2>6, <2>7
<1>3. ASSUME NEW q \in Logins, Clearance(q)
      PROVE  Owns' /\ NoNewIDs'
  <2>1. /\ UNCHANGED <<pc, toWorld, toZone>>
        /\ session[q].to # 0
        /\ going' = [going EXCEPT ![q] = [to |-> session[q].to,
                                          wid |-> session[q].wid]]
        /\ session' = [session EXCEPT ![q] = [session[q] EXCEPT !.to = 0, !.wid = 0]]
    BY <1>0, <1>3 DEF Clearance
  <2>2. /\ session'[q].cle = session[q].cle /\ session'[q].to = 0
        /\ going'[q].wid = session[q].wid
        /\ \A p \in Logins \ {q} : session'[p] = session[p] /\ going'[p] = going[p]
    BY <1>0, <2>1 DEF Sessions
  <2>3. LoginsKept
    <3>1. CASE session[q].cle # 0
      BY <1>0, <1>3, <3>1, SetOnlineTouches, Statuses, TouchKeepsLogins
         DEF Clearance, SessionsLive
    <3>2. CASE session[q].cle = 0
      BY <1>3, <3>2 DEF Clearance, LoginsKept
    <3> QED BY <3>1, <3>2
  <2>4. ASSUME NEW e \in Entries, NEW p \in Logins
        PROVE  Claim(e, p)' => Claim(e, p)
    BY <2>1, <2>2 DEF Claim
  <2> QED BY <1>0, <2>1, <2>3, <2>4, OwnsKept DEF NoNewIDs
<1>4. ASSUME NEW q \in Logins, TellClientZoneUnavailable(q)
      PROVE  Owns' /\ NoNewIDs'
  <2>1. /\ UNCHANGED <<list, going, pc, toWorld, toZone>>
        /\ session' = [session EXCEPT ![q] =
             [session[q] EXCEPT !.zone = FALSE, !.to = 0, !.wid = 0]]
    BY <1>0, <1>4 DEF TellClientZoneUnavailable
  <2>2. /\ session'[q].cle = session[q].cle /\ session'[q].to = 0
        /\ \A p \in Logins \ {q} : session'[p] = session[p]
    BY <1>0, <2>1 DEF Sessions
  <2>3. ASSUME NEW e \in Entries, NEW p \in Logins
        PROVE  Claim(e, p)' => Claim(e, p)
    BY <2>1, <2>2 DEF Claim
  <2> QED BY <1>0, <2>1, <2>3, OwnsKept DEF NoNewIDs, LoginsKept
<1>5. ASSUME NEW q \in Logins, SessionEnds(q)
      PROVE  Owns' /\ NoNewIDs'
  <2>1. /\ UNCHANGED <<going, pc, toWorld, toZone>>
        /\ session' = [session EXCEPT ![q] = NoClient]
    BY <1>5 DEF SessionEnds
  <2>2. /\ session'[q].cle = 0 /\ session'[q].to = 0
        /\ \A p \in Logins \ {q} : session'[p] = session[p]
    BY <1>0, <2>1 DEF NoClient
  <2>3. LoginsKept
    <3>1. CASE GoesOffline(q)
      BY <1>0, <1>5, <3>1, SetOnlineTouches, Statuses, TouchKeepsLogins
         DEF SessionEnds, GoesOffline, SessionsLive
    <3>2. CASE ~GoesOffline(q)
      BY <1>5, <3>2 DEF SessionEnds, LoginsKept
    <3> QED BY <3>1, <3>2
  <2>4. ASSUME NEW e \in Entries, NEW p \in Logins
        PROVE  Claim(e, p)' => Claim(e, p)
    BY <1>0, <2>1, <2>2 DEF Claim
  <2> QED BY <1>0, <2>1, <2>3, <2>4, OwnsKept DEF NoNewIDs
<1>6. ASSUME NEW q \in Logins, NEW s \in Servers, EnterWorld(q, s)
      PROVE  Owns' /\ NoNewIDs'
  <2>1. /\ UNCHANGED <<list, going, pc, toWorld, toZone>>
        /\ session' = [session EXCEPT ![q] =
             [session[q] EXCEPT !.zone = TRUE, !.to = s, !.wid = session[q].cle]]
    BY <1>0, <1>6 DEF EnterWorld
  <2>2. /\ session'[q].cle = session[q].cle /\ session'[q].wid = session[q].cle
        /\ \A p \in Logins \ {q} : session'[p] = session[p]
    BY <1>0, <2>1 DEF Sessions
  <2>3. ASSUME NEW e \in Entries, NEW p \in Logins
        PROVE  Claim(e, p)' => Claim(e, p)
    BY <2>1, <2>2 DEF Claim
  <2> QED BY <1>0, <2>1, <2>3, OwnsKept DEF NoNewIDs, LoginsKept
<1>7. ASSUME NEW q \in Logins, Handle_Connect_OP_ZoneEntry(q)
      PROVE  Owns' /\ NoNewIDs'
  <2>1. PICK s \in Servers : s = going[q].to
    BY <1>0, <1>7 DEF Handle_Connect_OP_ZoneEntry, Servers
  <2>2. /\ UNCHANGED <<list, toWorld, session, toZone>>
        /\ pc' = [pc EXCEPT ![s][q] = [at |-> "connecting", wid |-> going[q].wid]]
        /\ going' = [going EXCEPT ![q] = Nowhere]
        /\ going[q].to # 0
    BY <1>7, <2>1 DEF Handle_Connect_OP_ZoneEntry
  <2>3. \A t \in Servers, r \in Logins :
          pc'[t][r] = IF t = s /\ r = q
                      THEN [at |-> "connecting", wid |-> going[q].wid] ELSE pc[t][r]
    BY <1>0, <2>2, ClientSteps
  <2>4. going'[q].to = 0 /\ \A p \in Logins \ {q} : going'[p] = going[p]
    BY <1>0, <2>2 DEF Nowhere
  <2>5. ASSUME NEW e \in Entries, NEW p \in Logins
        PROVE  Claim(e, p)' => Claim(e, p)
    <3>1. \A t \in Servers : pc'[t][p].wid = e /\ pc'[t][p].at # "none" => Claim(e, p)
      <4> SUFFICES ASSUME NEW t \in Servers, pc'[t][p].wid = e, pc'[t][p].at # "none"
                   PROVE  Claim(e, p)
        OBVIOUS
      <4>1. CASE t = s /\ p = q
        BY <2>2, <2>3, <4>1 DEF Claim
      <4>2. CASE ~(t = s /\ p = q)
        <5>1. pc'[t][p] = pc[t][p]
          BY <2>3, <4>2
        <5>2. pc[t][p].wid = e /\ pc[t][p].at # "none"
          BY <5>1, Zenon
        <5> QED BY <5>2 DEF Claim
      <4> QED BY <4>1, <4>2
    <3> QED BY <2>2, <2>4, <3>1 DEF Claim
  <2> QED BY <1>0, <2>2, <2>5, OwnsKept DEF NoNewIDs, LoginsKept
<1>8. ASSUME NEW s \in Servers, NEW q \in Logins,
             CompleteConnect(s, q) \/ UpdateWho(s, q) \/ Zones(s, q) \/ ClientGone(s, q)
      PROVE  Owns' /\ NoNewIDs'
  <2>1. PICK remove \in 0 .. 2 : Sends(s, remove, q)
    BY <1>8 DEF CompleteConnect, UpdateWho, Zones, ClientGone
  <2>2. /\ pc[s][q].at # "none"
        /\ UNCHANGED <<list, session, going, toZone>>
        /\ \A t \in Servers, r \in Logins : pc'[t][r].at # "none" =>
             pc[t][r].at # "none" /\ pc'[t][r].wid = pc[t][r].wid
    <3>1. CASE CompleteConnect(s, q)
      <4>1. \A t \in Servers, r \in Logins :
              pc'[t][r] = IF t = s /\ r = q THEN [at |-> "in", wid |-> pc[s][q].wid]
                          ELSE pc[t][r]
        BY <1>0, <3>1, ClientSteps DEF CompleteConnect
      <4> QED BY <3>1, <4>1 DEF CompleteConnect
    <3>2. CASE UpdateWho(s, q)
      <4>1. pc[s][q].at # "none"
        BY <3>2 DEF UpdateWho, Here
      <4> QED BY <3>2, <4>1 DEF UpdateWho
    <3>3. CASE Zones(s, q)
      <4>1. \A t \in Servers, r \in Logins :
              pc'[t][r] = IF t = s /\ r = q
                          THEN [at |-> "zoning", wid |-> pc[s][q].wid] ELSE pc[t][r]
        BY <1>0, <3>3, ClientSteps DEF Zones
      <4> QED BY <3>3, <4>1 DEF Zones
    <3>4. CASE ClientGone(s, q)
      <4>1. \A t \in Servers, r \in Logins :
              pc'[t][r] = IF t = s /\ r = q THEN NoPC ELSE pc[t][r]
        BY <1>0, <3>4, ClientSteps DEF ClientGone
      <4> QED BY <3>4, <4>1 DEF ClientGone, NoPC
    <3> QED BY <1>8, <3>1, <3>2, <3>3, <3>4
  <2>3. ASSUME NEW e \in Entries, NEW p \in Logins
        PROVE  Claim(e, p)' => Claim(e, p)
    <3>1. \A t \in Servers : Names(toWorld'[t], p, e) => Claim(e, p)
      BY <1>0, <2>1, <2>2, SendsNames
    <3>2. /\ session[p].cle = e => Claim(e, p)
          /\ session[p].to # 0 /\ session[p].wid = e => Claim(e, p)
          /\ going[p].to # 0 /\ going[p].wid = e => Claim(e, p)
          /\ \A t \in Servers : pc[t][p].at # "none" /\ pc[t][p].wid = e => Claim(e, p)
      BY DEF Claim
    <3>3. \A t \in Servers : pc'[t][p].at # "none" /\ pc'[t][p].wid = e => Claim(e, p)
      BY <2>2, <3>2
    <3> QED BY <2>2, <3>1, <3>2, <3>3, ClaimsFrom
  <2> QED BY <1>0, <2>2, <2>3, OwnsKept DEF NoNewIDs, LoginsKept
<1>9. ASSUME NEW s \in Servers, NEW q \in Logins, Quits(s, q)
      PROVE  Owns' /\ NoNewIDs'
  <2>1. /\ UNCHANGED <<list, session, going, toWorld, toZone>>
        /\ \A t \in Servers, r \in Logins : pc'[t][r].at # "none" =>
             pc[t][r].at # "none" /\ pc'[t][r].wid = pc[t][r].wid
    <3>1. \A t \in Servers, r \in Logins :
            pc'[t][r] = IF t = s /\ r = q
                        THEN [at |-> "lingering", wid |-> pc[s][q].wid] ELSE pc[t][r]
      BY <1>0, <1>9, ClientSteps DEF Quits
    <3> QED BY <1>9, <3>1 DEF Quits
  <2>2. \A e \in Entries, p \in Logins : Claim(e, p)' => Claim(e, p)
    BY <2>1 DEF Claim
  <2> QED BY <1>0, <2>1, <2>2, OwnsKept DEF NoNewIDs, LoginsKept
<1>10. ASSUME NEW s \in Servers, ChangeWID(s)
       PROVE  Owns' /\ NoNewIDs'
  BY <1>0, <1>10 DEF ChangeWID, NoNewIDs
<1>11. ASSUME NEW s \in Servers, Sleeps(s)
       PROVE  Owns' /\ NoNewIDs'
  <2> DEFINE m == [op |-> "SetZone"]
  <2>1. /\ UNCHANGED <<list, session, going, pc, toZone>>
        /\ \A t \in Servers \ {s} : toWorld'[t] = toWorld[t]
        /\ toWorld'[s] = Append(toWorld[s], m)
        /\ toWorld[s] \in Seq(Packets)
    BY <1>0, <1>11 DEF Sleeps
  <2>2. m.op = "SetZone"
    OBVIOUS
  <2> HIDE DEF m
  <2>3. ASSUME NEW e \in Entries, NEW p \in Logins
        PROVE  Claim(e, p)' => Claim(e, p)
    <3>1. Names(toWorld'[s], p, e) => Names(toWorld[s], p, e)
      <4>1. \A i \in DOMAIN toWorld'[s] :
              toWorld'[s][i] = m \/ (i \in DOMAIN toWorld[s] /\ toWorld'[s][i] = toWorld[s][i])
        BY <2>1
      <4> QED BY <2>2, <4>1 DEF Names
    <3> QED BY <2>1, <3>1 DEF Claim
  <2> QED BY <1>0, <2>1, <2>3, OwnsKept DEF NoNewIDs, LoginsKept
<1>12. ASSUME NEW s \in Servers, ClientUpdate(s) \/ SetZone(s)
       PROVE  Owns' /\ NoNewIDs'
  <2>1. /\ UNCHANGED <<session, going, pc>>
        /\ \A t \in Servers \ {s} : toWorld'[t] = toWorld[t]
        /\ toWorld'[s] = Tail(toWorld[s]) /\ toWorld[s] # <<>>
        /\ toWorld[s] \in Seq(Packets)
    BY <1>0, <1>12 DEF ClientUpdate, SetZone
  <2>2. ASSUME NEW e \in Entries, NEW p \in Logins
        PROVE  Claim(e, p)' => Claim(e, p)
    <3>1. Names(toWorld'[s], p, e) => Names(toWorld[s], p, e)
      BY <2>1, TailNews, Zenon
    <3> QED BY <2>1, <3>1 DEF Claim
  <2>3. LoginsKept /\ NoNewIDs'
    <3>1. CASE SetZone(s)
      BY <1>0, <3>1, RefKeepsLogins DEF SetZone, NoNewIDs
    <3>2. CASE ClientUpdate(s)
      <4>1. PICK m : m = Head(toWorld[s])
        OBVIOUS
      <4>2. m \in Packets /\ m.op = "ClientList" /\ m = toWorld[s][1] /\ 1 \in DOMAIN toWorld[s]
        BY <2>1, <3>2, <4>1, TailTyped, TailNews DEF ClientUpdate
      <4>3. m \in ClientListMsg
        BY <4>2 DEF Packets, SetZoneMsg
      <4>4. m.wid \in Entries /\ m.login \in Logins
        BY <4>3 DEF ClientListMsg
      <4>5. Claim(m.wid, m.login)
        BY <4>2 DEF Claim, Names
      <4>6. m.wid \in Listed
        BY <1>0, <4>4, <4>5 DEF Owns, Listed
      <4>7. Touches(list, list', m.wid, s) /\ UNCHANGED toZone
        BY <3>2, <4>1, <4>6, KnownEffect
      <4> QED BY <1>0, <4>4, <4>7, TouchKeepsLogins DEF NoNewIDs
    <3> QED BY <1>12, <3>1, <3>2
  <2> QED BY <1>0, <2>2, <2>3, OwnsKept
<1>13. ASSUME NEW s \in Servers, Dies(s)
       PROVE  Owns' /\ NoNewIDs'
  <2>1. /\ UNCHANGED <<list, session, going, toWorld>>
        /\ \A t \in Servers, r \in Logins :
             pc'[t][r] = IF t = s THEN NoPC ELSE pc[t][r]
        /\ \A t \in Servers : toZone'[t] = IF t = s THEN <<>> ELSE toZone[t]
    BY <1>0, <1>13 DEF Dies, LinksInv, LinksType
  <2>2. \A t \in Servers, r \in Logins : pc'[t][r].at # "none" =>
          pc[t][r].at # "none" /\ pc'[t][r].wid = pc[t][r].wid
    BY <2>1 DEF NoPC
  <2>3. \A e \in Entries, p \in Logins : Claim(e, p)' => Claim(e, p)
    BY <2>1, <2>2 DEF Claim
  <2>4. NoNewIDs' /\ LoginsKept
    BY <1>0, <2>1 DEF NoNewIDs, LoginsKept
  <2> QED BY <1>0, <2>3, <2>4, OwnsKept
<1>14. ASSUME NEW s \in Servers, ServerLost(s)
       PROVE  Owns' /\ NoNewIDs'
  <2>1. /\ UNCHANGED <<session, going, pc>>
        /\ \A t \in Servers : toWorld'[t] = IF t = s THEN <<>> ELSE toWorld[t]
        /\ \A t \in Servers : toZone'[t] = IF t = s THEN <<>> ELSE toZone[t]
    BY <1>0, <1>14 DEF ServerLost, LinksInv, LinksType
  <2>2. \A e \in Entries, p \in Logins : Claim(e, p)' => Claim(e, p)
    <3>1. \A e, p : ~Names(<<>>, p, e)
      BY DEF Names
    <3> QED BY <2>1, <3>1 DEF Claim
  <2>3. NoNewIDs' /\ LoginsKept
    BY <1>0, <1>14, <2>1, RefKeepsLogins DEF NoNewIDs, ServerLost
  <2> QED BY <1>0, <2>2, <2>3, OwnsKept
<1>15. ASSUME NEW f \in Entries, CheckStale(f)
       PROVE  Owns' /\ NoNewIDs'
  <2>1. /\ ~Kept(f) /\ list' = Removed(list, f)
        /\ UNCHANGED <<going, pc, toWorld, toZone>>
        /\ session' = WithoutEntry(f)
        /\ \A s \in Servers, p \in Logins : pc[s][p].wid # f
    BY <1>15 DEF CheckStale, Stale, Removes
  <2>2. \A e \in Entries \ {f} : list'.cle[e] = list.cle[e]
    BY <2>1, RemovedOK DEF IInv, ListInv
  <2>3. ASSUME NEW p \in Logins PROVE session'[p] = session[p] /\ ~Claim(f, p)
    <3>1. session[p].cle # f
      BY <2>1 DEF Kept
    <3>2. session'[p] = session[p]
      BY <2>1, <3>1 DEF WithoutEntry
    <3>3. ~Claim(f, p)
      BY <2>1 DEF Kept, Claim, Names
    <3> QED BY <3>2, <3>3
  <2>4. \A e \in Entries, p \in Logins : Claim(e, p)' => Claim(e, p)
    BY <2>1, <2>3 DEF Claim
  <2>5. Owns'
    <3> SUFFICES ASSUME NEW e \in Entries, NEW p \in Logins, Claim(e, p)'
                 PROVE  list'.cle[e].listed /\ list'.cle[e].login = p
      BY DEF Owns
    <3>1. Claim(e, p) /\ e # f
      BY <2>3, <2>4
    <3>2. list'.cle[e] = list.cle[e]
      BY <2>2, <3>1
    <3> QED BY <1>0, <3>1, <3>2 DEF Owns
  <2> QED BY <1>0, <2>1, <2>5 DEF NoNewIDs
<1>16. ASSUME NEW e \in Entries, GetCLEIP(e)
       PROVE  Owns' /\ NoNewIDs'
  BY <1>16 DEF GetCLEIP
<1>17. CASE UNCHANGED vars \/ \E s \in Servers : LinkBreaks(s) \/ Connects(s)
  <2>1. UNCHANGED <<list, session, going, pc, toWorld>>
    BY <1>17 DEF vars, LinkBreaks, Connects
  <2>2. NoNewIDs'
    BY <1>0, <1>17 DEF vars, LinkBreaks, Connects, NoNewIDs, LinksInv, LinksType
  <2> QED BY <1>0, <2>1, <2>2 DEF Owns, Claim
<1>18. ASSUME NEW s \in Servers, Reconnects(s)
       PROVE  Owns' /\ NoNewIDs'
  <2>1. /\ UNCHANGED <<list, session, going, pc, toZone>>
        /\ \A t \in Servers \ {s} : toWorld'[t] = toWorld[t]
    BY <1>0, <1>18, BackNews DEF Reconnects
  <2>2. ASSUME NEW e \in Entries, NEW p \in Logins, Names(toWorld'[s], p, e)
        PROVE  Claim(e, p)
    <3>1. p \in Here(s) /\ pc[s][p].wid = e
      BY <1>0, <1>18, <2>2, BackNews
    <3>2. pc[s][p].at # "none"
      BY <3>1 DEF Here
    <3> QED BY <3>1, <3>2 DEF Claim
  <2>3. \A e \in Entries, p \in Logins : Claim(e, p)' => Claim(e, p)
    BY <2>1, <2>2 DEF Claim
  <2> QED BY <1>0, <2>1, <2>3, OwnsKept DEF NoNewIDs, LoginsKept
<1> QED
  BY <1>1, <1>2, <1>3, <1>4, <1>5, <1>6, <1>7, <1>8, <1>9, <1>10, <1>11, <1>12,
     <1>13, <1>14, <1>15, <1>16, <1>17, <1>18 DEF Next

-----------------------------------------------------------------------------
(***************************************************************************)
(* The last news of a player in a zone that has its link: a report that it *)
(* is there is on its way and nothing follows that undoes it, or nothing   *)
(* that could is on its way and its entry is in that zone.                 *)
(***************************************************************************)
News(s, p, e) ==
  \/ ToldLast(toWorld[s], p, e)
  \/ /\ Calm(toWorld[s], p)
     /\ list.cle[e].server = s /\ list.cle[e].online = InZone
NewsInv ==
  ~limited => \A s \in Servers, p \in Logins, e \in Entries :
    conn[s] = "up" /\ pc[s][p].at = "in" /\ pc[s][p].wid = e => News(s, p, e)

LEMMA NewsKept ==
  ASSUME NEW s \in Servers, NEW p \in Logins, NEW e \in Entries, News(s, p, e),
         toWorld'[s] = toWorld[s],
         \/ list'.cle[e] = list.cle[e]
         \/ list.cle[e].server = s => list'.cle[e] = list.cle[e]
  PROVE  News(s, p, e)'
BY DEF News

LEMMA NewsAppended ==
  ASSUME NEW s \in Servers, NEW p \in Logins, NEW e \in Entries, News(s, p, e),
         toWorld[s] \in Seq(Packets), NEW m \in Packets, ~Disturbs(m, p),
         toWorld'[s] = Append(toWorld[s], m), list' = list
  PROVE  News(s, p, e)'
<1>1. /\ Calm(toWorld[s], p) => Calm(toWorld'[s], p)
      /\ ToldLast(toWorld[s], p, e) => ToldLast(toWorld'[s], p, e)
  BY AppendNews
<1> QED BY <1>1 DEF News

LEMMA LinkTold ==
  ASSUME NEW q \in Seq(Packets), NEW p, NEW e, NEW m \in Packets,
         Report(m, p), m.wid = e
  PROVE  ToldLast(Append(q, m), p, e)
<1>1. Report(m, p) /\ m.wid = e => ToldLast(Append(q, m), p, e)
  BY AppendNews
<1> QED BY <1>1

LEMMA NewsNext ==
  IInv /\ ~LateReports /\ CourseInv /\ OwnedInv /\ NewsInv /\ [Next]_vars => NewsInv'
<1> SUFFICES ASSUME IInv, ~LateReports, CourseInv, OwnedInv, NewsInv, [Next]_vars,
                    ~limited', NEW s \in Servers, NEW p \in Logins, NEW e \in Entries,
                    conn'[s] = "up", pc'[s][p].at = "in", pc'[s][p].wid = e
             PROVE  News(s, p, e)'
  BY DEF NewsInv
<1>0. /\ Owns /\ NoNewIDs /\ LinksInv /\ Counted(list) /\ SessionsLive
      /\ \A q \in Logins : Course(q)
      /\ conn[s] = "up" /\ pc[s][p].at = "in" /\ pc[s][p].wid = e => News(s, p, e)
  BY LimitedStays DEF OwnedInv, IInv, ListInv, ListOK, CourseInv, NewsInv
<1>t. /\ pc \in [Servers -> [Logins -> PCs]]
      /\ toWorld \in [Servers -> Seq(Packets)]
      /\ toWorld[s] \in Seq(Packets)
      /\ going \in [Logins -> [to : 0 .. NServers, wid : 0 .. NEntries]]
  BY <1>0 DEF LinksInv, LinksType, PCs, Packets
<1>u. ASSUME conn[s] # "up"
      PROVE  News(s, p, e)'
  <2>1. UNCHANGED <<pc, list>> /\ (Connects(s) \/ Reconnects(s))
    <3>1. PICK t \in Servers : \/ Dies(t) \/ LinkBreaks(t) \/ ServerLost(t)
                              \/ Connects(t) \/ Reconnects(t)
      BY <1>u DEF Next, vars, CLEAdd, HandleSendLoginInfo, Clearance,
         TellClientZoneUnavailable, SessionEnds, Handle_Connect_OP_ZoneEntry,
         EnterWorld, CompleteConnect, UpdateWho, Zones, Quits, ClientGone, ChangeWID,
         Sleeps, ClientUpdate, SetZone, CheckStale, GetCLEIP, Removes
    <3>2. conn \in [Servers -> Conns]
      BY <1>0 DEF LinksInv, LinksType
    <3>3. ~Dies(t) /\ ~LinkBreaks(t) /\ ~ServerLost(t)
      <4>1. Dies(t) \/ ServerLost(t) => conn'[s] = conn[s] \/ conn'[s] # "up"
        BY <3>2 DEF Dies, ServerLost
      <4>2. LinkBreaks(t) => conn'[s] = conn[s] \/ conn'[s] # "up"
        BY <3>2 DEF LinkBreaks
      <4> QED BY <1>u, <4>1, <4>2
    <3>4. t = s
      BY <1>u, <3>1, <3>2, <3>3 DEF Connects, Reconnects
    <3> QED BY <3>1, <3>3, <3>4 DEF Connects, Reconnects
  <2>2. ~Connects(s)
    BY <1>0, <2>1 DEF Connects, LinksInv, LinksFrom, Running
  <2>3. Reconnects(s) /\ p \in Here(s) /\ pc[s][p].wid = e
    BY <2>1, <2>2 DEF Here
  <2>4. ToldLast(toWorld'[s], p, e)
    BY <1>0, <2>3, BackNews
  <2> QED BY <2>4 DEF News
<1> SUFFICES ASSUME conn[s] = "up"
             PROVE  News(s, p, e)'
  BY <1>u
<1>l. ASSUME pc[s][p].at = "in", pc[s][p].wid = e
      PROVE  /\ Claim(e, p) /\ list.cle[e].listed /\ list.cle[e].login = p
             /\ News(s, p, e) /\ ~Absent(p)
             /\ \A q \in Logins \ {p}, f \in Entries : Claim(f, q) => f # e
  <2>1. Claim(e, p)
    BY <1>l DEF Claim
  <2>2. ~Absent(p)
    BY <1>l DEF Absent, Coming
  <2> QED BY <1>0, <1>l, <2>1, <2>2 DEF Owns
<1>1. ASSUME NEW q \in Logins, CLEAdd(q)
      PROVE  News(s, p, e)'
  <2>1. /\ nextID \in Entries /\ list' = Created(list, nextID, q)
        /\ UNCHANGED <<pc, toWorld>>
    BY <1>1 DEF CLEAdd
  <2>2. /\ \A f \in Entries \ {nextID} : list'.cle[f] = list.cle[f]
        /\ ~list.cle[nextID].listed
    <3>1. ~list.cle[nextID].listed
      BY <2>1 DEF IInv, ListInv, ListOK, Entries
    <3>2. \A f \in Entries \ {nextID} : list'.cle[f] = list.cle[f]
      BY <2>1, OthersStay
    <3> QED BY <3>1, <3>2
  <2> QED BY <1>l, <2>1, <2>2, NewsKept
<1>2. ASSUME NEW q \in Logins, HandleSendLoginInfo(q)
      PROVE  News(s, p, e)'
  <2>1. PICK f \in Listed, o \in {Online, CharSelect} :
          /\ list.cle[f].login = q
          /\ list' = SetOnline(list, f, o)
    BY <1>2 DEF HandleSendLoginInfo
  <2>2. f \in Entries /\ o \in Status
    BY <2>1, Statuses DEF Listed
  <2>3. UNCHANGED <<pc, toWorld>> /\ pc[s][q].at # "in"
    BY <1>2 DEF HandleSendLoginInfo
  <2>4. f # e
    BY <1>l, <2>1, <2>3
  <2>5. list'.cle[e] = list.cle[e]
    BY <1>0, <2>1, <2>2, <2>4, SetOnlineTouches, TouchKeepsLogins
  <2> QED BY <1>l, <2>3, <2>5, NewsKept
<1>3. ASSUME NEW q \in Logins, Clearance(q) \/ (SessionEnds(q) /\ GoesOffline(q))
      PROVE  News(s, p, e)'
  <2>1. UNCHANGED <<pc, toWorld>> /\ Waiting(q)
    BY <1>3 DEF Clearance, SessionEnds, GoesOffline, Waiting
  <2>2. q # p
    BY <1>0, <1>l, <2>1 DEF Course
  <2>3. CASE session[q].cle = 0
    BY <1>3, <1>l, <2>1, <2>3, NewsKept DEF Clearance, SessionEnds, GoesOffline
  <2>4. CASE session[q].cle # 0
    <3>1. session[q].cle \in Entries /\ Claim(session[q].cle, q)
      BY <1>0, <2>4 DEF SessionsLive, Claim
    <3>2. session[q].cle # e
      BY <1>l, <2>1, <2>2, <3>1
    <3>3. PICK o \in {Zoning, Offline} : list' = SetOnline(list, session[q].cle, o)
      BY <1>3, <2>4 DEF Clearance, SessionEnds
    <3>4. list'.cle[e] = list.cle[e]
      BY <1>0, <3>1, <3>2, <3>3, SetOnlineTouches, Statuses, TouchKeepsLogins
    <3> QED BY <1>l, <2>1, <3>4, NewsKept
  <2> QED BY <2>3, <2>4
<1>4. ASSUME NEW q \in Logins,
             \/ TellClientZoneUnavailable(q) \/ (SessionEnds(q) /\ ~GoesOffline(q))
             \/ \E t \in Servers : EnterWorld(q, t)
      PROVE  News(s, p, e)'
  <2>1. UNCHANGED <<list, pc, toWorld>>
    BY <1>4 DEF TellClientZoneUnavailable, SessionEnds, EnterWorld
  <2> QED BY <1>l, <2>1, NewsKept
<1>5. ASSUME NEW q \in Logins, Handle_Connect_OP_ZoneEntry(q)
      PROVE  News(s, p, e)'
  <2>1. going[q].to # 0 /\ going[q].to \in Servers
    BY <1>5, <1>t DEF Handle_Connect_OP_ZoneEntry, Servers
  <2>2. /\ UNCHANGED <<list, toWorld>>
        /\ pc' = [pc EXCEPT ![going[q].to][q] =
                    [at |-> "connecting", wid |-> going[q].wid]]
    BY <1>5 DEF Handle_Connect_OP_ZoneEntry
  <2>3. pc'[s][p] = pc[s][p]
    BY <1>t, <2>1, <2>2
  <2> QED BY <1>l, <2>2, <2>3, NewsKept
<1>6. ASSUME NEW t \in Servers, NEW q \in Logins,
             CompleteConnect(t, q) \/ UpdateWho(t, q) \/ Zones(t, q) \/ ClientGone(t, q)
      PROVE  News(s, p, e)'
  <2>1. PICK remove \in 0 .. 2 :
          /\ Sends(t, remove, q)
          /\ t = s /\ q = p => remove = 0 /\ pc[s][p].wid = e
          /\ ~(t = s /\ q = p) => pc'[s][p] = pc[s][p]
    <3>1. CASE CompleteConnect(t, q)
      <4>1. pc'[s][p] = IF s = t /\ p = q THEN [at |-> "in", wid |-> pc[t][q].wid]
                        ELSE pc[s][p]
        BY <1>0, <3>1, ClientSteps DEF CompleteConnect
      <4> QED BY <3>1, <4>1 DEF CompleteConnect
    <3>2. CASE UpdateWho(t, q)
      <4>1. Sends(t, 0, q) /\ pc' = pc
        BY <3>2 DEF UpdateWho
      <4> QED BY <4>1
    <3>3. CASE Zones(t, q)
      <4>1. pc'[s][p] = IF s = t /\ p = q THEN [at |-> "zoning", wid |-> pc[t][q].wid]
                        ELSE pc[s][p]
        BY <1>0, <3>3, ClientSteps DEF Zones
      <4>2. Sends(t, 1, q)
        BY <3>3 DEF Zones
      <4> QED BY <4>1, <4>2
    <3>4. CASE ClientGone(t, q)
      <4>1. pc'[s][p] = IF s = t /\ p = q THEN NoPC ELSE pc[s][p]
        BY <1>0, <3>4, ClientSteps DEF ClientGone
      <4>2. Sends(t, 2, q)
        BY <3>4 DEF ClientGone
      <4> QED BY <4>1, <4>2 DEF NoPC
    <3> QED BY <1>6, <3>1, <3>2, <3>3, <3>4
  <2>2. pc[t][q].at # "none" /\ list' = list
    <3>1. UpdateWho(t, q) => pc[t][q].at # "none"
      BY DEF UpdateWho, Here
    <3> QED BY <1>6, <3>1 DEF CompleteConnect, UpdateWho, Zones, ClientGone
  <2> DEFINE m == Packet(remove, pc[t][q].wid, q)
  <2>4. /\ \A u \in Servers \ {t} : toWorld'[u] = toWorld[u]
        /\ t = s => toWorld'[s] = Append(toWorld[s], m)
        /\ m \in Packets
    BY <1>0, <2>1, <2>2, SendsNews
  <2>5. m.op = "ClientList" /\ m.wid = pc[t][q].wid /\ m.login = q /\ m.remove = remove
    BY DEF Packet
  <2> HIDE DEF m
  <2>6. CASE t = s /\ q = p
    <3>1. Report(m, p) /\ m.wid = e
      BY <2>1, <2>5, <2>6 DEF Report
    <3>2. ToldLast(toWorld'[s], p, e)
      <4>1. ToldLast(Append(toWorld[s], m), p, e)
        BY <1>t, <2>4, <3>1, LinkTold
      <4> QED BY <2>4, <2>6, <4>1
    <3> QED BY <3>2 DEF News
  <2>7. CASE t = s /\ q # p
    <3>1. ~Disturbs(m, p)
      BY <2>5, <2>7 DEF Disturbs
    <3>2. News(s, p, e)
      BY <1>l, <2>1, <2>7
    <3> QED BY <1>t, <2>2, <2>4, <2>7, <3>1, <3>2, NewsAppended
  <2>8. CASE t # s
    <3>1. News(s, p, e)
      BY <1>l, <2>1, <2>8
    <3> QED BY <2>2, <2>4, <2>8, <3>1, NewsKept
  <2> QED BY <2>6, <2>7, <2>8
<1>7. ASSUME NEW t \in Servers, NEW q \in Logins, Quits(t, q)
      PROVE  News(s, p, e)'
  <2>1. pc'[s][p] = IF s = t /\ p = q THEN [at |-> "lingering", wid |-> pc[t][q].wid]
                    ELSE pc[s][p]
    BY <1>0, <1>7, ClientSteps DEF Quits
  <2>2. pc'[s][p] = pc[s][p]
    BY <2>1
  <2> QED BY <1>7, <1>l, <2>2, NewsKept DEF Quits
<1>8. ASSUME NEW t \in Servers, ChangeWID(t)
      PROVE  News(s, p, e)'
  BY <1>0, <1>8 DEF ChangeWID, NoNewIDs
<1>9. ASSUME NEW t \in Servers, Sleeps(t)
      PROVE  News(s, p, e)'
  <2>1. UNCHANGED <<list, pc>> /\ pc[t][p].at = "none"
    BY <1>9 DEF Sleeps
  <2>2. t # s
    BY <2>1
  <2>3. toWorld'[s] = toWorld[s]
    BY <1>9, <1>t, <2>2 DEF Sleeps
  <2> QED BY <1>l, <2>1, <2>3, NewsKept
<1>10. ASSUME NEW t \in Servers, ClientUpdate(t)
       PROVE  News(s, p, e)'
  <2>1. PICK m : m = Head(toWorld[t])
    OBVIOUS
  <2>2. /\ toWorld[t] # <<>> /\ m.op = "ClientList" /\ UNCHANGED pc
        /\ toWorld' = [toWorld EXCEPT ![t] = Tail(@)] /\ toWorld[t] \in Seq(Packets)
    BY <1>10, <1>t, <2>1 DEF ClientUpdate
  <2>3. m \in Packets /\ m = toWorld[t][1] /\ 1 \in DOMAIN toWorld[t]
    BY <2>1, <2>2, TailTyped, TailNews
  <2>4. m.wid \in Entries /\ m.login \in Logins
    BY <2>2, <2>3 DEF Packets, SetZoneMsg, ClientListMsg
  <2>5. Claim(m.wid, m.login)
    BY <2>2, <2>3 DEF Claim, Names
  <2>6. m.wid \in Listed
    BY <1>0, <2>4, <2>5 DEF Owns, Listed
  <2>7. /\ Touches(list, list', m.wid, t)
        /\ m.remove = 0 => /\ list'.cle[m.wid].server = t
                           /\ list'.cle[m.wid].online = InZone
        /\ m.remove # 0 /\ list.cle[m.wid].server # t => list' = list
    BY <1>10, <2>1, <2>6, KnownEffect
  <2>8. e # m.wid => list'.cle[e] = list.cle[e]
    BY <2>4, <2>7, TouchKeepsLogins
  <2>9. /\ News(s, p, e)
        /\ e = m.wid => m.login = p
    BY <1>l, <2>2, <2>4, <2>5
  <2>10. CASE t = s
    <3>1. /\ Calm(toWorld[s], p) => Calm(toWorld'[s], p) /\ ~Disturbs(m, p)
          /\ ToldLast(toWorld[s], p, e) =>
               \/ ToldLast(toWorld'[s], p, e)
               \/ Report(m, p) /\ m.wid = e /\ Calm(toWorld'[s], p)
      <4>1. toWorld'[s] = Tail(toWorld[s]) /\ m = Head(toWorld[s])
        BY <1>t, <2>1, <2>2, <2>10
      <4> QED BY <2>2, <2>10, <4>1, TailNews
    <3>2. CASE ToldLast(toWorld'[s], p, e)
      BY <3>2 DEF News
    <3>3. CASE Report(m, p) /\ m.wid = e /\ Calm(toWorld'[s], p)
      BY <2>7, <2>10, <3>3 DEF Report, News
    <3>4. CASE Calm(toWorld[s], p) /\ list.cle[e].server = s /\ list.cle[e].online = InZone
      <4>1. CASE e = m.wid
        <5>1. m.remove = 0
          BY <2>9, <3>1, <3>4, <4>1 DEF Disturbs
        <5> QED BY <2>7, <2>10, <3>1, <3>4, <4>1, <5>1 DEF News
      <4>2. CASE e # m.wid
        BY <2>8, <3>1, <3>4, <4>2 DEF News
      <4> QED BY <4>1, <4>2
    <3> QED BY <2>9, <3>1, <3>2, <3>3, <3>4 DEF News
  <2>11. CASE t # s
    <3>1. toWorld'[s] = toWorld[s]
      BY <1>t, <2>2, <2>11
    <3>2. e = m.wid => m.remove # 0
      <4> SUFFICES ASSUME e = m.wid, m.remove = 0 PROVE FALSE
        OBVIOUS
      <4>1. Reports(toWorld[t], p)
        BY <2>2, <2>3, <2>9 DEF Reports, Report
      <4>2. ~Reports(toWorld[t], p)
        BY <1>0, <2>2, <2>11 DEF Course, Coming
      <4> QED BY <4>1, <4>2
    <3>3. list.cle[e].server = s => list'.cle[e] = list.cle[e]
      BY <2>7, <2>8, <2>11, <3>2
    <3> QED BY <2>9, <3>1, <3>3, NewsKept
  <2> QED BY <2>10, <2>11
<1>11. ASSUME NEW t \in Servers, SetZone(t) \/ ServerLost(t)
       PROVE  News(s, p, e)'
  <2>1. /\ list' = CLERemoveZSRef(list, t) /\ UNCHANGED pc
        /\ \A u \in Servers \ {t} : toWorld'[u] = toWorld[u]
    BY <1>11, <1>t DEF SetZone, ServerLost
  <2>2. list.cle[e].server # t => list'.cle[e] = list.cle[e]
    BY <2>1, RefKeepsLogins
  <2>3. News(s, p, e)
    BY <1>l, <2>1
  <2>4. CASE t # s
    BY <2>1, <2>2, <2>3, <2>4, NewsKept
  <2>5. CASE t = s /\ SetZone(t)
    <3>1. /\ toWorld[s] # <<>> /\ toWorld'[s] = Tail(toWorld[s])
          /\ Head(toWorld[s]).op = "SetZone"
      BY <1>t, <2>5 DEF SetZone
    <3>2. /\ Calm(toWorld[s], p) => ~Disturbs(Head(toWorld[s]), p)
          /\ ToldLast(toWorld[s], p, e) =>
               ToldLast(toWorld'[s], p, e) \/ Report(Head(toWorld[s]), p)
      BY <1>t, <3>1, TailNews
    <3> QED BY <2>3, <3>1, <3>2 DEF News, Disturbs, Report
  <2>6. ~(t = s /\ ServerLost(t))
    BY DEF ServerLost
  <2> QED BY <1>11, <2>4, <2>5, <2>6
<1>12. ASSUME NEW t \in Servers, Dies(t)
       PROVE  News(s, p, e)'
  <2>1. UNCHANGED <<list, toWorld>> /\ pc'[s][p] = IF s = t THEN NoPC ELSE pc[s][p]
    BY <1>12, <1>t DEF Dies
  <2>2. pc'[s][p] = pc[s][p]
    BY <2>1 DEF NoPC
  <2> QED BY <1>l, <2>1, <2>2, NewsKept
<1>13. ASSUME NEW f \in Entries, CheckStale(f)
       PROVE  News(s, p, e)'
  <2>1. ~Kept(f) /\ list' = Removed(list, f) /\ UNCHANGED <<pc, toWorld>>
    BY <1>13 DEF CheckStale, Stale, Removes
  <2>2. e # f
    BY <2>1 DEF Kept
  <2>3. list'.cle[e] = list.cle[e]
    BY <2>1, <2>2, RemovedOK DEF IInv, ListInv
  <2> QED BY <1>l, <2>1, <2>3, NewsKept
<1>14. ASSUME NEW f \in Entries, GetCLEIP(f)
       PROVE  News(s, p, e)'
  BY <1>14 DEF GetCLEIP
<1>15. CASE UNCHANGED vars \/ \E t \in Servers : LinkBreaks(t) \/ Connects(t)
  <2>1. UNCHANGED <<list, pc, toWorld>>
    BY <1>15 DEF vars, LinkBreaks, Connects
  <2> QED BY <1>l, <2>1, NewsKept
<1>16. ASSUME NEW t \in Servers, Reconnects(t)
       PROVE  News(s, p, e)'
  <2>1. UNCHANGED <<list, pc>> /\ t # s
    BY <1>16 DEF Reconnects
  <2>2. toWorld'[s] = toWorld[s]
    BY <1>0, <1>16, <2>1, BackNews
  <2> QED BY <1>l, <2>1, <2>2, NewsKept
<1> QED
  BY <1>1, <1>2, <1>3, <1>4, <1>5, <1>6, <1>7, <1>8, <1>9, <1>10, <1>11, <1>12,
     <1>13, <1>14, <1>15, <1>16 DEF Next

\* NobodyIsLost: where no player is quicker than a report, world knows the zone
\* of everybody in the game whose zone has its link, once all reports have come:
\* through zoning, deaths, sleep, broken links and new connections of zone servers,
\* and logins in between, until world takes an entry away from somebody who is in
\* a zone (the limit per address, or a link that was gone for too long).
THEOREM NobodyIsLost ==
  ASSUME ~LateReports
  PROVE  Spec => []PlayersFound
<1>1. Init => CourseInv /\ OwnedInv /\ NewsInv
  <2> SUFFICES ASSUME Init PROVE CourseInv /\ OwnedInv /\ NewsInv
    OBVIOUS
  <2>1. /\ \A p \in Logins : session[p] = NoClient /\ going[p] = Nowhere
        /\ \A s \in Servers, p \in Logins : pc[s][p] = NoPC
        /\ \A s \in Servers : toWorld[s] = <<>> /\ toZone[s] = <<>>
    BY DEF Init
  <2>2. \A p, e : ~Reports(<<>>, p) /\ ~Names(<<>>, p, e)
    BY DEF Reports, Names
  <2>3. CourseInv
    BY <2>1, <2>2 DEF CourseInv, Course, Waiting, NoClient, Nowhere, NoPC, Coming
  <2>4. OwnedInv
    <3>1. \A e \in Entries, p \in Logins : ~Claim(e, p)
      BY <2>1, <2>2 DEF Claim, NoClient, Nowhere, NoPC, Entries
    <3> QED BY <2>1, <3>1 DEF OwnedInv, Owns, NoNewIDs
  <2>5. NewsInv
    BY <2>1 DEF NewsInv, NoPC
  <2> QED BY <2>3, <2>4, <2>5
<1>2. IInv /\ CourseInv /\ [Next]_vars => CourseInv'
  BY CourseNext
<1>3. IInv /\ OwnedInv /\ [Next]_vars => OwnedInv'
  BY OwnedNext
<1>4. IInv /\ CourseInv /\ OwnedInv /\ NewsInv /\ [Next]_vars => NewsInv'
  BY NewsNext
<1>5. IInv /\ OwnedInv /\ NewsInv => PlayersFound
  <2> SUFFICES ASSUME IInv, OwnedInv, NewsInv, ~limited,
                      \A s \in Servers : toWorld[s] = <<>>,
                      NEW s \in Servers, NEW p \in Logins,
                      conn[s] = "up", pc[s][p].at = "in"
               PROVE  LET e == pc[s][p].wid IN
                      /\ e \in Listed /\ list.cle[e].login = p
                      /\ list.cle[e].server = s /\ list.cle[e].online = InZone
    BY DEF PlayersFound
  <2>1. PICK e \in Entries : e = pc[s][p].wid
    BY DEF IInv, LinksInv, LinksFrom
  <2>2. News(s, p, e)
    BY <2>1 DEF NewsInv
  <2>3. ~ToldLast(<<>>, p, e)
    BY DEF ToldLast
  <2>4. list.cle[e].server = s /\ list.cle[e].online = InZone
    BY <2>2, <2>3 DEF News
  <2>5. Claim(e, p)
    BY <2>1 DEF Claim
  <2>6. list.cle[e].listed /\ list.cle[e].login = p
    BY <2>5 DEF OwnedInv, Owns
  <2> QED BY <2>1, <2>4, <2>6 DEF Listed
<1> QED BY <1>1, <1>2, <1>3, <1>4, <1>5, InvAlways, PTL DEF Spec

=============================================================================
