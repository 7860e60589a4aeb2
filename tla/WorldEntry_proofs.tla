-------------------------- MODULE WorldEntry_proofs --------------------------
(***************************************************************************)
(* Proofs about WorldEntry, for any servers, zones, players and tries.     *)
(* World and the processes agree whatever the rules, the timing and the    *)
(* links do, and a player is admitted by one process, but for what others  *)
(* kept while they had no link.  One process hosts a zone, but for those   *)
(* that came back with theirs, and whoever is sent was announced, in the   *)
(* environments that SingleHost and ~LateAnswers name.                     *)
(*                                                                         *)
(* The links are read by their places: Enter appends to a link the         *)
(* concatenation of what every player's entry says, so the first part says *)
(* what FlattenSeq of the community modules holds, of which its definition *)
(* is all there is.                                                        *)
(***************************************************************************)
EXTENDS WorldEntry, TLAPS, SequenceTheorems, NaturalsInduction, WellFoundedInduction

Below == {p \in Nat \X Nat : p[1] < p[2]}

LEMMA LeastNatural ==
  ASSUME NEW T, T \subseteq Nat, T # {}
  PROVE  \E n \in T : \A m \in T : n <= m
<1>0. IsWellFoundedOn(Below, Nat)
  BY Zenon, NatLessThanWellFounded DEF OpToRel, Below
<1>1. \E n \in T : \A m \in T : ~(<<m, n>> \in Below)
  BY <1>0, WFMin
<1>2. PICK n \in T : \A m \in T : ~(<<m, n>> \in Below)
  BY <1>1
<1>3. ASSUME NEW m \in T PROVE n <= m
  <2>1. m \in Nat /\ n \in Nat /\ <<m, n>> \notin Below
    BY <1>2
  <2>2. ~(m < n)
    BY <2>1 DEF Below
  <2> QED BY <2>1, <2>2
<1> QED BY <1>2, <1>3

\* f joins the first n sequences of ss one by one.
Flattening(f, ss, n) ==
  f = [i \in 1 .. n |-> IF i = 1 THEN ss[i] ELSE f[i - 1] \o ss[i]]

LEMMA FlatteningExists ==
  ASSUME NEW ss, NEW n \in Nat
  PROVE  \E f : Flattening(f, ss, n)
<1> DEFINE T == {k \in Nat : ~ \E f : Flattening(f, ss, k)}
<1> SUFFICES ASSUME T # {} PROVE FALSE
  OBVIOUS
<1>1. PICK k \in T : \A m \in T : k <= m
  <2> HIDE DEF T
  <2> QED BY LeastNatural DEF T
<1>2. k # 0
  <2> SUFFICES ASSUME k = 0 PROVE FALSE
    OBVIOUS
  <2>1. Flattening([i \in {} |-> 0], ss, 0)
    BY DEF Flattening
  <2> QED BY <2>1, <1>1
<1>3. k \in Nat /\ k - 1 \in Nat /\ k - 1 < k
  BY <1>1, <1>2
<1>4. PICK f : Flattening(f, ss, k - 1)
  BY <1>1, <1>3
<1> DEFINE g == [i \in 1 .. k |->
       IF i = k THEN IF k = 1 THEN ss[k] ELSE f[k - 1] \o ss[k] ELSE f[i]]
<1>5. \A i \in 1 .. k : g[i] = IF i = 1 THEN ss[i] ELSE g[i - 1] \o ss[i]
  <2> SUFFICES ASSUME NEW i \in 1 .. k
               PROVE  g[i] = IF i = 1 THEN ss[i] ELSE g[i - 1] \o ss[i]
    OBVIOUS
  <2>1. CASE i = k
    <3>1. i # 1 => g[i - 1] = f[i - 1]
      BY <2>1, <1>3
    <3> QED BY <2>1, <3>1
  <2>2. CASE i # k
    <3>1. i \in 1 .. (k - 1)
      BY <2>2, <1>3
    <3>2. g[i] = f[i] /\ (i # 1 => g[i - 1] = f[i - 1])
      BY <2>2, <1>3
    <3>3. f[i] = IF i = 1 THEN ss[i] ELSE f[i - 1] \o ss[i]
      BY <3>1, <1>4 DEF Flattening
    <3> QED BY <3>2, <3>3
  <2> QED BY <2>1, <2>2
<1>6. Flattening(g, ss, k)
  <2>1. g = [i \in 1 .. k |-> g[i]]
    OBVIOUS
  <2> HIDE DEF g
  <2>2. g = [i \in 1 .. k |-> IF i = 1 THEN ss[i] ELSE g[i - 1] \o ss[i]]
    BY <2>1, <1>5
  <2> QED BY <2>2 DEF Flattening
<1> QED BY <1>6, <1>1

LEMMA FlattenSeqIs ==
  ASSUME NEW ss, Len(ss) \in Nat \ {0}
  PROVE  \E f : Flattening(f, ss, Len(ss)) /\ FlattenSeq(ss) = f[Len(ss)]
<1>1. FlattenSeq(ss) = (CHOOSE f : Flattening(f, ss, Len(ss)))[Len(ss)]
  BY Zenon DEF FlattenSeq, Flattening
<1>2. \E f : Flattening(f, ss, Len(ss))
  BY FlatteningExists
<1>3. Flattening(CHOOSE f : Flattening(f, ss, Len(ss)), ss, Len(ss))
  BY <1>2
<1> QED BY <1>1, <1>3

Holds(s, m) == \E i \in 1 .. Len(s) : s[i] = m

LEMMA HoldsConcat ==
  ASSUME NEW S, NEW s \in Seq(S), NEW t \in Seq(S), NEW m
  PROVE  Holds(s \o t, m) <=> Holds(s, m) \/ Holds(t, m)
<1>1. /\ s \o t \in Seq(S)
      /\ Len(s \o t) = Len(s) + Len(t)
      /\ \A i \in 1 .. Len(s) + Len(t) : (s \o t)[i] =
                     IF i <= Len(s) THEN s[i] ELSE t[i - Len(s)]
  BY ConcatProperties
<1>2. Len(s) \in Nat /\ Len(t) \in Nat
  BY LenProperties
<1>3. ASSUME NEW i \in 1 .. Len(s) + Len(t), (s \o t)[i] = m
      PROVE  Holds(s, m) \/ Holds(t, m)
  <2>1. CASE i <= Len(s)
    BY <2>1, <1>1, <1>2, <1>3 DEF Holds
  <2>2. CASE ~(i <= Len(s))
    <3>1. i - Len(s) \in 1 .. Len(t) /\ t[i - Len(s)] = m
      BY <2>2, <1>1, <1>2, <1>3
    <3> QED BY <3>1 DEF Holds
  <2> QED BY <2>1, <2>2
<1>4. ASSUME NEW i \in 1 .. Len(s), s[i] = m
      PROVE  Holds(s \o t, m)
  <2>1. i \in 1 .. Len(s) + Len(t) /\ (s \o t)[i] = m
    BY <1>1, <1>2, <1>4
  <2> QED BY <2>1, <1>1 DEF Holds
<1>5. ASSUME NEW i \in 1 .. Len(t), t[i] = m
      PROVE  Holds(s \o t, m)
  <2>1. i + Len(s) \in 1 .. Len(s) + Len(t) /\ (s \o t)[i + Len(s)] = m
    BY <1>1, <1>2, <1>5
  <2> QED BY <2>1, <1>1 DEF Holds
<1> QED BY <1>1, <1>3, <1>4, <1>5 DEF Holds

LEMMA FlattenSeqProperties ==
  ASSUME NEW M, NEW ss \in Seq(Seq(M))
  PROVE  /\ FlattenSeq(ss) \in Seq(M)
         /\ \A m : Holds(FlattenSeq(ss), m) <=> \E j \in 1 .. Len(ss) : Holds(ss[j], m)
<1>1. CASE Len(ss) = 0
  <2>1. ss = <<>>
    BY <1>1, EmptySeq
  <2>2. FlattenSeq(ss) = <<>>
    BY <2>1, <1>1, Zenon DEF FlattenSeq
  <2> QED BY <2>2, <1>1, EmptySeq DEF Holds
<1>2. CASE Len(ss) # 0
  <2>0. Len(ss) \in Nat \ {0}
    BY <1>2, LenProperties
  <2>1. PICK f : Flattening(f, ss, Len(ss)) /\ FlattenSeq(ss) = f[Len(ss)]
    BY <2>0, FlattenSeqIs
  <2>2. \A i \in 1 .. Len(ss) : f[i] = IF i = 1 THEN ss[i] ELSE f[i - 1] \o ss[i]
    BY <2>1 DEF Flattening
  <2> DEFINE Good(i) == /\ f[i] \in Seq(M)
                        /\ \A m : Holds(f[i], m) <=> \E j \in 1 .. i : Holds(ss[j], m)
             T == {i \in 1 .. Len(ss) : ~Good(i)}
  <2>3. T = {}
    <3> SUFFICES ASSUME T # {} PROVE FALSE
      OBVIOUS
    <3>1. PICK k \in T : \A m \in T : k <= m
      <4>1. T \subseteq Nat
        BY <2>0
      <4> HIDE DEF T
      <4> QED BY <4>1, LeastNatural
    <3>2. k \in 1 .. Len(ss) /\ ~Good(k)
      BY <3>1
    <3> HIDE DEF Good
    <3>3. k # 1 => Good(k - 1) /\ k - 1 \in 1 .. Len(ss)
      BY <3>1, <3>2, <2>0
    <3>4. ss[k] \in Seq(M)
      BY <3>2, ElementOfSeq
    <3>5. CASE k = 1
      <4>1. f[k] = ss[k]
        BY <3>2, <3>5, <2>2
      <4>2. \A m : (\E j \in 1 .. k : Holds(ss[j], m)) <=> Holds(ss[k], m)
        BY <3>5
      <4>3. Good(k)
        BY <4>1, <4>2, <3>4 DEF Good
      <4> QED BY <4>3, <3>2
    <3>6. CASE k # 1
      <4>1. f[k] = f[k - 1] \o ss[k]
        BY <3>2, <3>6, <2>2
      <4>2. f[k - 1] \in Seq(M) /\ f[k] \in Seq(M)
        BY <3>3, <3>6, <3>4, <4>1, ConcatProperties DEF Good
      <4>3. \A m : Holds(f[k], m) <=> Holds(f[k - 1], m) \/ Holds(ss[k], m)
        BY <4>1, <4>2, <3>4, HoldsConcat
      <4>4. \A m : Holds(f[k - 1], m) <=> \E j \in 1 .. (k - 1) : Holds(ss[j], m)
        BY <3>3, <3>6 DEF Good
      <4>5. 1 .. k = 1 .. (k - 1) \cup {k}
        BY <3>2, <3>6, <2>0
      <4>6. \A m : (\E j \in 1 .. k : Holds(ss[j], m))
                     <=> (\E j \in 1 .. (k - 1) : Holds(ss[j], m)) \/ Holds(ss[k], m)
        BY <4>5
      <4>7. Good(k)
        BY <4>2, <4>3, <4>4, <4>6 DEF Good
      <4> QED BY <4>7, <3>2
    <3> QED BY <3>5, <3>6
  <2> HIDE DEF Good
  <2>4. Good(Len(ss))
    BY <2>3, <2>0
  <2> QED BY <2>4, <2>1 DEF Good
<1> QED BY <1>1, <1>2

(***************************************************************************)
(* First and FindByZoneID                                                  *)
(***************************************************************************)
LEMMA FirstIs ==
  ASSUME NEW S, S \subseteq Nat, S # {}
  PROVE  First(S) \in S /\ \A n \in S : First(S) <= n
<1>1. \E n \in S : \A m \in S : n <= m
  BY LeastNatural
<1> QED BY <1>1 DEF First

LEMMA FindIs ==
  ASSUME NEW servers, NEW z
  PROVE  /\ FindByZoneID(servers, z) \in Nat
         /\ FindByZoneID(servers, z) # 0 =>
              /\ FindByZoneID(servers, z) \in Listed
              /\ servers[FindByZoneID(servers, z)].zone = z
              /\ \A s \in Listed : servers[s].zone = z =>
                   FindByZoneID(servers, z) <= s
         /\ FindByZoneID(servers, z) = 0 =>
              \A s \in Listed : servers[s].zone # z
<1> DEFINE S == {s \in Listed : servers[s].zone = z}
<1>0. S \subseteq Nat /\ 0 \notin S
  BY DEF Listed, Servers
<1>1. CASE S = {}
  BY <1>1 DEF FindByZoneID, First
<1>2. CASE S # {}
  <2>1. First(S) \in S /\ \A n \in S : First(S) <= n
    <3> HIDE DEF S
    <3> QED BY <1>0, <1>2, FirstIs
  <2> QED BY <2>1, <1>0 DEF FindByZoneID
<1> QED BY <1>1, <1>2

LEMMA IdleIs ==
  ASSUME NEW s, s = IdleServer
  PROVE  s \in Nat /\ (s # 0 => s \in Listed /\ zone_server[s].zone = 0
                                /\ ~zone_server[s].booting)
<1> DEFINE S == {q \in Listed : zone_server[q].zone = 0 /\ ~zone_server[q].booting}
<1>0. S \subseteq Nat
  BY DEF Listed, Servers
<1>1. CASE S = {}
  BY <1>1 DEF IdleServer, First
<1>2. CASE S # {}
  <2>1. First(S) \in S
    <3> HIDE DEF S
    <3> QED BY <1>0, <1>2, FirstIs
  <2> QED BY <2>1, <1>0 DEF IdleServer
<1> QED BY <1>1, <1>2

(***************************************************************************)
(* What Enter sends                                                        *)
(***************************************************************************)
Announcement(q, d, z, c) ==
  IF q = d THEN [op |-> "ZoneIncClient", zone |-> z, client |-> c]
  ELSE [op |-> "DropClient", client |-> c]
Question(c) == [op |-> "AcceptWorldEntrance", client |-> c]

\* m is one of the packets that server q gets when entering is let into d.
Warned(q, d, z, entering, locked, m) ==
  \E c \in entering :
    \/ ~client[c].triggered /\ m = Announcement(q, d, z, c)
    \/ q = d /\ client[c].seen /\ c \notin locked /\ m = Question(c)

LEMMA AtMostTwo ==
  ASSUME NEW S, NEW a \in S, NEW b \in S
  PROVE  /\ <<>> \in Seq(S) /\ <<a>> \in Seq(S)
         /\ \A m : ~Holds(<<>>, m)
         /\ \A m : Holds(<<a>>, m) <=> m = a
         /\ <<>> \o <<>> \in Seq(S) /\ \A m : ~Holds(<<>> \o <<>>, m)
         /\ <<a>> \o <<>> \in Seq(S) /\ \A m : Holds(<<a>> \o <<>>, m) <=> m = a
         /\ <<>> \o <<b>> \in Seq(S) /\ \A m : Holds(<<>> \o <<b>>, m) <=> m = b
         /\ <<a>> \o <<b>> \in Seq(S)
         /\ \A m : Holds(<<a>> \o <<b>>, m) <=> m = a \/ m = b
<1>1. <<>> \in Seq(S) /\ <<a>> \in Seq(S) /\ <<b>> \in Seq(S)
  OBVIOUS
<1>2. /\ \A m : ~Holds(<<>>, m)
      /\ \A m : Holds(<<a>>, m) <=> m = a
      /\ \A m : Holds(<<b>>, m) <=> m = b
  BY DEF Holds
<1> QED BY <1>1, <1>2, HoldsConcat, ConcatProperties

\* Warning with the question that Enter asks.
WarningTo(c, d, q, locked) == Warning(c, d, q, client[c].seen /\ c \notin locked)

IsWarning(w, c, d, q, z, locked) ==
  /\ w \in Seq(ToZoneMsg)
  /\ \A m : Holds(w, m) <=>
       \/ ~client[c].triggered /\ m = Announcement(q, d, z, c)
       \/ q = d /\ client[c].seen /\ c \notin locked /\ m = Question(c)

LEMMA WarningHolds ==
  ASSUME TypeOK,
         NEW c \in Clients, NEW d, NEW q \in Servers, NEW locked,
         NEW z \in Zones, zone_server'[d].zone = z
  PROVE  IsWarning(WarningTo(c, d, q, locked), c, d, q, z, locked)
<1> DEFINE a == Announcement(q, d, z, c)
           b == Question(c)
           asks == client[c].seen /\ c \notin locked
           first == IF client[c].triggered THEN <<>> ELSE <<a>>
           second == IF q = d /\ asks THEN <<b>> ELSE <<>>
<1>0. client[c].triggered \in BOOLEAN /\ asks \in BOOLEAN
  BY DEF TypeOK
<1>1. a \in ToZoneMsg /\ b \in ToZoneMsg
  BY DEF ToZoneMsg, Announcement, Question
<1>2. WarningTo(c, d, q, locked) = first \o second
  BY Zenon DEF Warning, WarningTo, Announcement, Question
<1> HIDE DEF a, b
<1>3. /\ first \o second \in Seq(ToZoneMsg)
      /\ \A m : Holds(first \o second, m) <=>
           (~client[c].triggered /\ m = a) \/ (q = d /\ asks /\ m = b)
  <2> HIDE DEF asks
  <2>1. CASE client[c].triggered /\ q = d /\ asks
    BY <2>1, <1>1, AtMostTwo
  <2>2. CASE client[c].triggered /\ ~(q = d /\ asks)
    BY <2>2, <1>1, AtMostTwo
  <2>3. CASE ~client[c].triggered /\ q = d /\ asks
    BY <2>3, <1>1, AtMostTwo
  <2>4. CASE ~client[c].triggered /\ ~(q = d /\ asks)
    BY <2>4, <1>1, AtMostTwo
  <2> QED BY <2>1, <2>2, <2>3, <2>4, <1>0
<1> QED BY <1>2, <1>3, Zenon DEF a, b, IsWarning

\* What is appended to a link: what was there stays, the rest satisfies P.
LEMMA ConcatIndexes ==
  ASSUME NEW S, NEW s \in Seq(S), NEW t \in Seq(S)
  PROVE  /\ s \o t \in Seq(S)
         /\ Len(s) \in Nat /\ Len(s \o t) \in Nat /\ Len(s \o t) >= Len(s)
         /\ \A i \in 1 .. Len(s) : (s \o t)[i] = s[i]
         /\ \A i \in 1 .. Len(s \o t) : i > Len(s) => Holds(t, (s \o t)[i])
         /\ \A m : Holds(t, m) =>
              \E i \in 1 .. Len(s \o t) : i > Len(s) /\ (s \o t)[i] = m
<1>1. /\ s \o t \in Seq(S)
      /\ Len(s \o t) = Len(s) + Len(t)
      /\ \A i \in 1 .. Len(s) + Len(t) : (s \o t)[i] =
                     IF i <= Len(s) THEN s[i] ELSE t[i - Len(s)]
  BY ConcatProperties
<1>2. Len(s) \in Nat /\ Len(t) \in Nat
  BY LenProperties
<1>3. \A i \in 1 .. Len(s) : (s \o t)[i] = s[i]
  BY <1>1, <1>2
<1>4. ASSUME NEW i \in 1 .. Len(s \o t), i > Len(s)
      PROVE  Holds(t, (s \o t)[i])
  <2>1. i - Len(s) \in 1 .. Len(t) /\ (s \o t)[i] = t[i - Len(s)]
    BY <1>1, <1>2, <1>4
  <2> QED BY <2>1 DEF Holds
<1>5. ASSUME NEW i \in 1 .. Len(t)
      PROVE  \E j \in 1 .. Len(s \o t) : j > Len(s) /\ (s \o t)[j] = t[i]
  <2>1. i + Len(s) \in 1 .. Len(s) + Len(t) /\ (s \o t)[i + Len(s)] = t[i]
        /\ i + Len(s) > Len(s)
    BY <1>1, <1>2
  <2> QED BY <2>1, <1>1
<1>6. Len(s \o t) \in Nat /\ Len(s \o t) >= Len(s)
  BY <1>1, <1>2
<1>7. \A m : Holds(t, m) =>
        \E i \in 1 .. Len(s \o t) : i > Len(s) /\ (s \o t)[i] = m
  BY <1>5 DEF Holds
<1> QED BY <1>1, <1>2, <1>3, <1>4, <1>6, <1>7

ZoneServerType == [zone : 0 .. NZones, booting : BOOLEAN]

\* What entering is sent by way of, and what it does to zone_server_list.
Sends(entering, locked, z, servers, d) ==
  /\ toZone' \in [Servers -> Seq(ToZoneMsg)]
  /\ zone_server' \in [Servers -> ZoneServerType]
  /\ \A q \in Servers :
       /\ zone_server'[q].zone = servers[q].zone
       /\ zone_server'[q].booting # servers[q].booting =>
            q = d /\ \E c \in entering : ~client[c].triggered
  /\ \A q \in Servers : q \notin Listed => toZone'[q] = toZone[q]
  /\ \A q \in Listed :
       /\ Len(toZone'[q]) >= Len(toZone[q])
       /\ \A i \in 1 .. Len(toZone[q]) : toZone'[q][i] = toZone[q][i]
       /\ \A i \in 1 .. Len(toZone'[q]) : i > Len(toZone[q]) =>
            Warned(q, d, z, entering, locked, toZone'[q][i])
       /\ \A m : Warned(q, d, z, entering, locked, m) =>
            \E i \in 1 .. Len(toZone'[q]) :
              i > Len(toZone[q]) /\ toZone'[q][i] = m

\* What Enter does to the links and to zone_server_list.
LEMMA EnterDoes ==
  ASSUME WorldEntryAssumption, TypeOK,
         NEW entering \in SUBSET Clients, NEW locked \in SUBSET Clients, NEW failed,
         NEW z, NEW servers \in [Servers -> ZoneServerType], NEW d,
         d = FindByZoneID(servers, z),
         entering # {} => z \in Zones /\ d # 0,
         Enter(entering, locked, failed, z, servers)
  PROVE  Sends(entering, locked, z, servers, d)
<1> USE WorldEntryAssumption
<1> DEFINE told(q) == [c \in Clients |->
                 IF c \in entering THEN WarningTo(c, d, q, locked) ELSE <<>>]
           w(q) == FlattenSeq(told(q))
<1>1. zone_server' = IF \E c \in entering : ~client[c].triggered
                     THEN [servers EXCEPT ![d].booting = TRUE] ELSE servers
  BY DEF Enter
<1>2. toZone' = [q \in Servers |-> IF q \notin Listed THEN toZone[q]
                                   ELSE toZone[q] \o w(q)]
  BY Zenon DEF Enter, WarningTo
<1>3. /\ zone_server' \in [Servers -> ZoneServerType]
      /\ \A q \in Servers :
           /\ zone_server'[q].zone = servers[q].zone
           /\ zone_server'[q].booting # servers[q].booting =>
                q = d /\ \E c \in entering : ~client[c].triggered
  <2>1. \A q \in Servers : servers[q] \in ZoneServerType
    OBVIOUS
  <2>2. [servers EXCEPT ![d].booting = TRUE] \in [Servers -> ZoneServerType]
    BY <2>1 DEF ZoneServerType
  <2> QED BY <1>1, <2>1, <2>2 DEF ZoneServerType
<1>4. entering # {} => zone_server'[d].zone = z /\ z \in Zones
  <2>1. entering # {} => d \in Servers /\ servers[d].zone = z
    BY FindIs DEF Listed
  <2> QED BY <2>1, <1>3
<1>5. ASSUME NEW q \in Servers
      PROVE  /\ w(q) \in Seq(ToZoneMsg)
             /\ \A m : Holds(w(q), m) <=> Warned(q, d, z, entering, locked, m)
  <2>2. \A c \in entering :
          /\ WarningTo(c, d, q, locked) \in Seq(ToZoneMsg)
          /\ \A m : Holds(WarningTo(c, d, q, locked), m) <=>
               \/ ~client[c].triggered /\ m = Announcement(q, d, z, c)
               \/ q = d /\ client[c].seen /\ c \notin locked /\ m = Question(c)
    <3>1. ASSUME NEW c \in entering
          PROVE  c \in Clients /\ zone_server'[d].zone = z /\ z \in Zones
      BY <1>4
    <3>2. ASSUME NEW c \in entering
          PROVE  IsWarning(WarningTo(c, d, q, locked), c, d, q, z, locked)
      BY <3>1, WarningHolds
    <3> QED BY <3>2 DEF IsWarning
  <2>3. /\ told(q) \in Seq(Seq(ToZoneMsg))
        /\ Len(told(q)) = NClients
        /\ \A c \in Clients : told(q)[c] =
             IF c \in entering THEN WarningTo(c, d, q, locked) ELSE <<>>
    <3>1. told(q) \in [1 .. NClients -> Seq(ToZoneMsg)]
      BY <2>2, EmptySeq DEF Clients
    <3>2. NClients \in Nat
      OBVIOUS
    <3>3. told(q) \in Seq(Seq(ToZoneMsg))
      BY <3>1, <3>2, SeqDef
    <3>4. Len(told(q)) = NClients
      BY <3>1, <3>2, <3>3, LenProperties
    <3> QED BY <3>3, <3>4
  <2> DEFINE ss == told(q)
  <2> HIDE DEF ss
  <2>4. /\ FlattenSeq(ss) \in Seq(ToZoneMsg)
        /\ \A m : Holds(FlattenSeq(ss), m) <=> \E j \in 1 .. Len(ss) : Holds(ss[j], m)
    <3>1. ss \in Seq(Seq(ToZoneMsg))
      BY <2>3 DEF ss
    <3> QED BY <3>1, FlattenSeqProperties
  <2>5. ASSUME NEW m
        PROVE  (\E j \in 1 .. Len(ss) : Holds(ss[j], m))
                 <=> Warned(q, d, z, entering, locked, m)
    <3>1. \A c \in Clients \ entering : ~Holds(ss[c], m)
      BY <2>3 DEF ss, Holds
    <3>2. \A c \in entering : Holds(ss[c], m) <=>
            \/ ~client[c].triggered /\ m = Announcement(q, d, z, c)
            \/ q = d /\ client[c].seen /\ c \notin locked /\ m = Question(c)
      BY <2>2, <2>3 DEF ss
    <3>3. 1 .. Len(ss) = Clients
      BY <2>3 DEF ss, Clients
    <3>4. (\E j \in 1 .. Len(ss) : Holds(ss[j], m))
            <=> \E c \in entering : Holds(ss[c], m)
      BY <3>1, <3>3
    <3> QED BY <3>2, <3>4 DEF Warned
  <2> QED BY <2>4, <2>5 DEF ss
<1> HIDE DEF w
<1>6. ASSUME NEW q \in Servers
      PROVE  /\ toZone[q] \in Seq(ToZoneMsg) /\ toZone'[q] \in Seq(ToZoneMsg)
             /\ q \notin Listed => toZone'[q] = toZone[q]
             /\ q \in Listed => toZone'[q] = toZone[q] \o w(q)
  <2>1. toZone[q] \in Seq(ToZoneMsg)
    BY DEF TypeOK
  <2>2. toZone[q] \o w(q) \in Seq(ToZoneMsg)
    BY <2>1, <1>5, ConcatProperties
  <2> QED BY <2>1, <2>2, <1>2
<1>7. toZone' \in [Servers -> Seq(ToZoneMsg)]
  BY <1>6, <1>2
<1>8. ASSUME NEW q \in Listed
      PROVE  /\ Len(toZone'[q]) >= Len(toZone[q])
             /\ \A i \in 1 .. Len(toZone[q]) : toZone'[q][i] = toZone[q][i]
             /\ \A i \in 1 .. Len(toZone'[q]) : i > Len(toZone[q]) =>
                  Warned(q, d, z, entering, locked, toZone'[q][i])
             /\ \A m : Warned(q, d, z, entering, locked, m) =>
                  \E i \in 1 .. Len(toZone'[q]) :
                    i > Len(toZone[q]) /\ toZone'[q][i] = m
  <2>1. q \in Servers /\ toZone'[q] = toZone[q] \o w(q)
        /\ toZone[q] \in Seq(ToZoneMsg)
    BY <1>6 DEF Listed
  <2>2. w(q) \in Seq(ToZoneMsg)
        /\ \A m : Holds(w(q), m) <=> Warned(q, d, z, entering, locked, m)
    BY <2>1, <1>5
  <2> DEFINE t == w(q)
  <2>3. t \in Seq(ToZoneMsg)
    BY <2>2
  <2> HIDE DEF t
  <2>4. /\ Len(toZone[q] \o t) >= Len(toZone[q])
        /\ \A i \in 1 .. Len(toZone[q]) : (toZone[q] \o t)[i] = toZone[q][i]
        /\ \A i \in 1 .. Len(toZone[q] \o t) : i > Len(toZone[q])
             => Holds(t, (toZone[q] \o t)[i])
        /\ \A m : Holds(t, m) => \E i \in 1 .. Len(toZone[q] \o t) :
             i > Len(toZone[q]) /\ (toZone[q] \o t)[i] = m
    <3> DEFINE s == toZone[q]
    <3>1. s \in Seq(ToZoneMsg)
      BY <2>1
    <3> HIDE DEF s
    <3>2. /\ Len(s \o t) >= Len(s)
          /\ \A i \in 1 .. Len(s) : (s \o t)[i] = s[i]
          /\ \A i \in 1 .. Len(s \o t) : i > Len(s) => Holds(t, (s \o t)[i])
          /\ \A m : Holds(t, m) =>
               \E i \in 1 .. Len(s \o t) : i > Len(s) /\ (s \o t)[i] = m
      BY <2>3, <3>1, ConcatIndexes, SMTT(30)
    <3> QED BY <3>2 DEF s
  <2> QED BY <2>1, <2>2, <2>4 DEF t
<1> QED BY <1>3, <1>6, <1>7, <1>8 DEF Sends

(***************************************************************************)
(* What the steps do, in terms of the places in the links                  *)
(***************************************************************************)
ClientType == [open : BOOLEAN, zone_id : 0 .. NZones, waiting : 0 .. NServers,
               triggered : BOOLEAN, timer : BOOLEAN, seen : BOOLEAN]
ViewType == [at : {"away", "select", "entering", "going"},
             to : 0 .. NServers, zone : 0 .. NZones]

\* The head of a link is handled.
Popped(new, old) ==
  /\ Len(old) \in Nat \ {0} /\ Len(new) = Len(old) - 1
  /\ \A i \in 1 .. Len(new) : new[i] = old[i + 1]

LEMMA TailIs ==
  ASSUME NEW S, NEW link \in Seq(S), link # <<>>
  PROVE  /\ Tail(link) \in Seq(S)
         /\ Popped(Tail(link), link)
         /\ Head(link) = link[1] /\ Head(link) \in S
<1>1. Len(link) \in Nat \ {0}
  BY EmptySeq
<1>2. /\ Tail(link) \in Seq(S)
      /\ Len(Tail(link)) = Len(link) - 1
      /\ \A i \in 1 .. Len(Tail(link)) : Tail(link)[i] = link[i + 1]
      /\ Head(link) \in S
  BY HeadTailProperties
<1> QED BY <1>1, <1>2 DEF Popped

\* Packets are appended to a link.
Grown(new, old, sent) ==
  /\ Len(old) \in Nat /\ Len(sent) \in Nat /\ Len(new) = Len(old) + Len(sent)
  /\ \A i \in 1 .. Len(old) : new[i] = old[i]
  /\ \A i \in 1 .. Len(new) : i > Len(old) =>
       i - Len(old) \in 1 .. Len(sent) /\ new[i] = sent[i - Len(old)]

LEMMA ConcatGrows ==
  ASSUME NEW S, NEW s \in Seq(S), NEW t \in Seq(S)
  PROVE  s \o t \in Seq(S) /\ Grown(s \o t, s, t)
<1>1. /\ s \o t \in Seq(S)
      /\ Len(s \o t) = Len(s) + Len(t)
      /\ \A i \in 1 .. Len(s) + Len(t) : (s \o t)[i] =
                     IF i <= Len(s) THEN s[i] ELSE t[i - Len(s)]
  BY ConcatProperties
<1>2. Len(s) \in Nat /\ Len(t) \in Nat
  BY LenProperties
<1>3. ASSUME NEW i \in 1 .. Len(s \o t), i > Len(s)
      PROVE  i - Len(s) \in 1 .. Len(t) /\ (s \o t)[i] = t[i - Len(s)]
  BY <1>1, <1>2, <1>3
<1>4. \A i \in 1 .. Len(s) : (s \o t)[i] = s[i]
  BY <1>1, <1>2
<1> QED BY <1>1, <1>2, <1>3, <1>4 DEF Grown

\* A zone process handles the head of its link.
Handled(s, what, p, sent) ==
  /\ conn[s] = "listed" /\ process[s].running
  /\ toZone[s][1].op = what /\ toZone[s][1] \in ToZoneMsg
  /\ Head(toZone[s]) = toZone[s][1]
  /\ Popped(toZone'[s], toZone[s])
  /\ Grown(toWorld'[s], toWorld[s], sent)
  /\ process'[s] = p
  /\ \A q \in Servers : q # s =>
       /\ toZone'[q] = toZone[q] /\ toWorld'[q] = toWorld[q]
       /\ process'[q] = process[q]
  /\ toZone' \in [Servers -> Seq(ToZoneMsg)]
  /\ toWorld' \in [Servers -> Seq(ToWorldMsg)]
  /\ process' \in [Servers -> ZoneProcess]
  /\ UNCHANGED <<conn, zone_server, adrift, client, view, tries>>

LEMMA HandlesDoes ==
  ASSUME TypeOK, NEW s \in Servers, NEW what, NEW p \in ZoneProcess,
         NEW sent \in Seq(ToWorldMsg), Handles(s, what, p, sent)
  PROVE  Handled(s, what, p, sent)
<1> USE DEF Handles
<1>1. toZone[s] \in Seq(ToZoneMsg) /\ toZone[s] # <<>>
      /\ toWorld[s] \in Seq(ToWorldMsg)
  BY DEF TypeOK, Gets
<1>2. /\ Tail(toZone[s]) \in Seq(ToZoneMsg)
      /\ Popped(Tail(toZone[s]), toZone[s])
      /\ Head(toZone[s]) = toZone[s][1] /\ Head(toZone[s]) \in ToZoneMsg
  BY <1>1, TailIs
<1>3. toWorld[s] \o sent \in Seq(ToWorldMsg) /\ Grown(toWorld[s] \o sent, toWorld[s], sent)
  BY <1>1, ConcatGrows
<1>4. /\ toZone' = [toZone EXCEPT ![s] = Tail(toZone[s])]
      /\ toWorld' = [toWorld EXCEPT ![s] = toWorld[s] \o sent]
      /\ process' = [process EXCEPT ![s] = p]
  OBVIOUS
<1>5. /\ toZone \in [Servers -> Seq(ToZoneMsg)]
      /\ toWorld \in [Servers -> Seq(ToWorldMsg)]
      /\ process \in [Servers -> ZoneProcess]
  BY DEF TypeOK, ZoneProcess
<1>6. /\ toZone' \in [Servers -> Seq(ToZoneMsg)] /\ toZone'[s] = Tail(toZone[s])
      /\ toWorld' \in [Servers -> Seq(ToWorldMsg)]
      /\ toWorld'[s] = toWorld[s] \o sent
      /\ process' \in [Servers -> ZoneProcess] /\ process'[s] = p
  BY <1>2, <1>3, <1>4, <1>5
<1>7. \A q \in Servers : q # s =>
       /\ toZone'[q] = toZone[q] /\ toWorld'[q] = toWorld[q]
       /\ process'[q] = process[q]
  BY <1>4, <1>5
<1>8. /\ conn[s] = "listed" /\ process[s].running /\ Head(toZone[s]).op = what
      /\ UNCHANGED <<conn, zone_server, adrift, client, view, tries>>
  BY DEF Gets
<1> QED BY <1>2, <1>3, <1>6, <1>7, <1>8 DEF Handled

\* World handles the head of the link from s.
LEMMA WorldGets ==
  ASSUME TypeOK, NEW s \in Servers, NEW what, Gets(toWorld, s, what),
         toWorld' = [toWorld EXCEPT ![s] = Tail(@)]
  PROVE  /\ conn[s] = "listed" /\ s \in Listed
         /\ toWorld[s][1].op = what /\ toWorld[s][1] \in ToWorldMsg
         /\ Head(toWorld[s]) = toWorld[s][1]
         /\ Popped(toWorld'[s], toWorld[s])
         /\ \A q \in Servers : q # s => toWorld'[q] = toWorld[q]
         /\ toWorld' \in [Servers -> Seq(ToWorldMsg)]
<1>1. toWorld \in [Servers -> Seq(ToWorldMsg)] /\ toWorld[s] \in Seq(ToWorldMsg)
      /\ toWorld[s] # <<>>
  BY DEF TypeOK, Gets
<1>2. /\ Tail(toWorld[s]) \in Seq(ToWorldMsg)
      /\ Popped(Tail(toWorld[s]), toWorld[s])
      /\ Head(toWorld[s]) = toWorld[s][1] /\ Head(toWorld[s]) \in ToWorldMsg
  BY <1>1, TailIs
<1>3. toWorld' \in [Servers -> Seq(ToWorldMsg)] /\ toWorld'[s] = Tail(toWorld[s])
      /\ \A q \in Servers : q # s => toWorld'[q] = toWorld[q]
  BY <1>1, <1>2
<1> QED BY <1>2, <1>3 DEF Gets, Listed

\* What world believes, and what holds of servers that are not connected.
Tidy ==
  /\ \A s \in Servers : conn[s] # "listed" =>
       /\ ~process[s].running
       /\ toZone[s] = <<>> /\ toWorld[s] = <<>>
       /\ zone_server[s] = [zone |-> 0, booting |-> FALSE]
  /\ \A s \in Servers : ~process[s].running => process[s].loaded = 0
  /\ \A s \in Servers : process[s].loaded = 0 =>
       process[s].auth = {} /\ process[s].lapsed = {}
  /\ \A s \in Servers : adrift[s].running => adrift[s].loaded # 0
  /\ \A c \in Clients : client[c].waiting # 0 => client[c].zone_id # 0

\* Enter of entering into zone z at d, in a step that left servers behind.
Entered(entering, locked, failed, z, servers, d) ==
  /\ entering \subseteq Clients /\ locked \subseteq entering
  /\ failed \subseteq Clients \ entering
  /\ z \in 0 .. NZones /\ d \in 0 .. NServers
  /\ entering # {} => z \in Zones /\ d \in Listed /\ servers[d].zone = z
  /\ entering # {} => \A q \in Listed : q < d => servers[q].zone # z
  /\ Sends(entering, locked, z, servers, d)
  /\ client' \in [Clients -> ClientType] /\ view' \in [Clients -> ViewType]
  /\ \A c \in Clients :
       /\ c \in entering \ locked =>
            /\ client'[c] = LetInto(client[c], z)
            /\ view'[c] = IF client[c].seen THEN At("entering") ELSE GoingTo(d, z)
       /\ c \in locked \cup failed =>
            client'[c] = Unavailable(client[c]) /\ view'[c] = Told(view[c])
       /\ c \notin entering \cup failed =>
            client'[c] = client[c] /\ view'[c] = view[c]

LEMMA ClientTypes ==
  ASSUME WorldEntryAssumption, NEW cl \in ClientType, NEW z \in 0 .. NZones
  PROVE  /\ Unavailable(cl) \in ClientType
         /\ Unavailable(cl).zone_id = 0 /\ Unavailable(cl).waiting = 0
         /\ ~Unavailable(cl).triggered /\ Unavailable(cl).open = cl.open
         /\ LetInto(cl, z) \in ClientType
         /\ LetInto(cl, z).zone_id = z /\ LetInto(cl, z).waiting = 0
         /\ LetInto(cl, z).triggered
         /\ \A s \in Servers :
              /\ Waits(cl, z, s) \in ClientType
              /\ Waits(cl, z, s).zone_id = z /\ Waits(cl, z, s).waiting = s
              /\ Waits(cl, z, s).triggered = cl.triggered
<1>1. NServers \in Nat /\ NZones \in Nat
  BY DEF WorldEntryAssumption
<1>2. 0 \in 0 .. NZones /\ 0 \in 0 .. NServers /\ TRUE \in BOOLEAN /\ FALSE \in BOOLEAN
      /\ \A s \in Servers : s \in 0 .. NServers
  BY <1>1 DEF Servers
<1>4. Unavailable(cl) \in ClientType
  BY <1>2 DEF Unavailable, ClientType
<1>5. LetInto(cl, z) \in ClientType
  BY <1>2 DEF LetInto, ClientType
<1>6. \A s \in Servers : Waits(cl, z, s) \in ClientType
  BY <1>2 DEF Waits, ClientType
<1>7. /\ Unavailable(cl).zone_id = 0 /\ Unavailable(cl).waiting = 0
      /\ ~Unavailable(cl).triggered /\ Unavailable(cl).open = cl.open
      /\ LetInto(cl, z).zone_id = z /\ LetInto(cl, z).waiting = 0
      /\ LetInto(cl, z).triggered
      /\ \A s \in Servers :
           /\ Waits(cl, z, s).zone_id = z /\ Waits(cl, z, s).waiting = s
           /\ Waits(cl, z, s).triggered = cl.triggered
  BY DEF Unavailable, LetInto, Waits, ClientType
<1> QED BY <1>4, <1>5, <1>6, <1>7

LEMMA EnterIs ==
  ASSUME WorldEntryAssumption, TypeOK,
         NEW entering \in SUBSET Clients, NEW locked \in SUBSET entering,
         NEW failed \in SUBSET (Clients \ entering),
         NEW z \in 0 .. NZones, NEW servers \in [Servers -> ZoneServerType], NEW d,
         d = FindByZoneID(servers, z),
         entering # {} => z \in Zones /\ d # 0,
         Enter(entering, locked, failed, z, servers)
  PROVE  Entered(entering, locked, failed, z, servers, d)
<1> USE WorldEntryAssumption
<1>1. locked \in SUBSET Clients
  OBVIOUS
<1>2. Sends(entering, locked, z, servers, d)
  BY <1>1, EnterDoes
<1>3. /\ d \in 0 .. NServers
      /\ entering # {} => z \in Zones /\ d \in Listed /\ servers[d].zone = z
  BY FindIs DEF Listed, Servers
<1>l. entering # {} => \A q \in Listed : q < d => servers[q].zone # z
  <2> SUFFICES ASSUME entering # {}, NEW q \in Listed, q < d, servers[q].zone = z
               PROVE  FALSE
    OBVIOUS
  <2>1. d \in Nat /\ q \in Nat /\ d <= q
    BY FindIs DEF Listed, Servers
  <2> QED BY <2>1
<1>4. \A c \in Clients :
        /\ client[c] \in ClientType /\ view[c] \in ViewType
        /\ Unavailable(client[c]) \in ClientType /\ Told(view[c]) \in ViewType
        /\ LetInto(client[c], z) \in ClientType
        /\ At("entering") \in ViewType /\ GoingTo(d, z) \in ViewType
  <2> SUFFICES ASSUME NEW c \in Clients
               PROVE  /\ client[c] \in ClientType /\ view[c] \in ViewType
                      /\ Unavailable(client[c]) \in ClientType
                      /\ Told(view[c]) \in ViewType
                      /\ LetInto(client[c], z) \in ClientType
                      /\ At("entering") \in ViewType /\ GoingTo(d, z) \in ViewType
    OBVIOUS
  <2>1. client[c] \in ClientType /\ view[c] \in ViewType
    BY DEF TypeOK, ClientType, ViewType
  <2>2. NServers \in Nat /\ NZones \in Nat
    BY DEF WorldEntryAssumption
  <2>3. Unavailable(client[c]) \in ClientType /\ LetInto(client[c], z) \in ClientType
    BY <2>1, ClientTypes
  <2>4. /\ Told(view[c]) \in ViewType
        /\ At("entering") \in ViewType /\ GoingTo(d, z) \in ViewType
    BY <2>1, <2>2, <1>3 DEF ViewType, Told, At, GoingTo
  <2> QED BY <2>1, <2>3, <2>4
<1> DEFINE cl(c) == CASE c \in locked \cup failed -> Unavailable(client[c])
                      [] c \in entering \ locked -> LetInto(client[c], z)
                      [] OTHER -> client[c]
           vw(c) == CASE c \in locked \cup failed -> Told(view[c])
                      [] c \in entering \ locked ->
                           IF client[c].seen THEN At("entering") ELSE GoingTo(d, z)
                      [] OTHER -> view[c]
<1>5. client' = [c \in Clients |-> cl(c)] /\ view' = [c \in Clients |-> vw(c)]
  BY Zenon DEF Enter
<1>6. ASSUME NEW c \in Clients
      PROVE  /\ c \in entering \ locked =>
                  /\ cl(c) = LetInto(client[c], z)
                  /\ vw(c) = IF client[c].seen THEN At("entering") ELSE GoingTo(d, z)
             /\ c \in locked \cup failed =>
                  cl(c) = Unavailable(client[c]) /\ vw(c) = Told(view[c])
             /\ c \notin entering \cup failed => cl(c) = client[c] /\ vw(c) = view[c]
  OBVIOUS
<1> HIDE DEF cl, vw
<1>7. \A c \in Clients : cl(c) \in ClientType /\ vw(c) \in ViewType
  <2> SUFFICES ASSUME NEW c \in Clients
               PROVE  cl(c) \in ClientType /\ vw(c) \in ViewType
    OBVIOUS
  <2>1. CASE c \in entering \ locked
    BY <2>1, <1>4, <1>6
  <2>2. CASE c \in locked \cup failed
    BY <2>2, <1>4, <1>6
  <2>3. CASE c \notin entering \cup failed
    BY <2>3, <1>4, <1>6
  <2> QED BY <2>1, <2>2, <2>3
<1>8. client' \in [Clients -> ClientType] /\ view' \in [Clients -> ViewType]
  BY <1>5, <1>7
<1>9. \A c \in Clients : client'[c] = cl(c) /\ view'[c] = vw(c)
  BY <1>5
<1> QED BY <1>2, <1>3, <1>l, <1>6, <1>8, <1>9, <1>1 DEF Entered

LEMMA EnterHostedDoes ==
  ASSUME WorldEntryAssumption, TypeOK, NEW c \in Clients, NEW z \in Zones,
         EnterHosted(c, z)
  PROVE  \E locked \in SUBSET {c}, d \in Listed :
           Entered({c}, locked, {}, z, zone_server, d)
<1>1. PICK locked \in SUBSET {c} : Enter({c}, locked, {}, z, zone_server)
  BY DEF EnterHosted
<1> DEFINE d == FindByZoneID(zone_server, z)
<1>2. d # 0 /\ d \in Listed
  BY FindIs DEF EnterHosted
<1>3. zone_server \in [Servers -> ZoneServerType] /\ z \in 0 .. NZones
      /\ {c} \in SUBSET Clients /\ {} \in SUBSET (Clients \ {c})
  BY DEF TypeOK, ZoneServerType, Zones
<1>4. d = FindByZoneID(zone_server, z)
  OBVIOUS
<1> HIDE DEF d
<1>5. Entered({c}, locked, {}, z, zone_server, d)
  BY <1>1, <1>2, <1>3, <1>4, EnterIs
<1> QED BY <1>2, <1>5

\* zone_server_list once s has reported zone z.
Reported(s, z) == [zone_server EXCEPT ![s] = [zone |-> z, booting |-> FALSE]]

LEMMA SetZoneDoes ==
  ASSUME WorldEntryAssumption, TypeOK, Tidy, NEW s \in Servers, SetZone(s)
  PROVE  /\ toWorld[s][1].op = "SetZone" /\ toWorld[s][1].zone \in 0 .. NZones
         /\ conn[s] = "listed"
         /\ Popped(toWorld'[s], toWorld[s])
         /\ \A q \in Servers : q # s => toWorld'[q] = toWorld[q]
         /\ toWorld' \in [Servers -> Seq(ToWorldMsg)]
         /\ UNCHANGED <<conn, process, adrift, tries>>
         /\ \E locked \in SUBSET LetIn(toWorld[s][1].zone) : \E d :
              Entered(LetIn(toWorld[s][1].zone), locked,
                      TurnedAway(s, toWorld[s][1].zone), toWorld[s][1].zone,
                      Reported(s, toWorld[s][1].zone), d)
<1> DEFINE z == toWorld[s][1].zone
           servers == Reported(s, z)
           d == FindByZoneID(servers, z)
<1>1. Gets(toWorld, s, "SetZone") /\ toWorld' = [toWorld EXCEPT ![s] = Tail(@)]
  BY DEF SetZone
<1>2. /\ conn[s] = "listed" /\ s \in Listed
      /\ toWorld[s][1].op = "SetZone" /\ toWorld[s][1] \in ToWorldMsg
      /\ Head(toWorld[s]) = toWorld[s][1]
      /\ Popped(toWorld'[s], toWorld[s])
      /\ \A q \in Servers : q # s => toWorld'[q] = toWorld[q]
      /\ toWorld' \in [Servers -> Seq(ToWorldMsg)]
  BY <1>1, WorldGets
<1>3. z \in 0 .. NZones
  BY <1>2 DEF ToWorldMsg
<1>4. PICK locked \in SUBSET LetIn(z) :
        Enter(LetIn(z), locked, TurnedAway(s, z), z, servers)
  BY <1>2, Zenon DEF SetZone, Reported
<1>5. LetIn(z) \in SUBSET Clients /\ TurnedAway(s, z) \in SUBSET (Clients \ LetIn(z))
  BY DEF LetIn, TurnedAway
<1>6. servers \in [Servers -> ZoneServerType] /\ servers[s].zone = z
  BY <1>3 DEF Reported, TypeOK, ZoneServerType
<1>7. LetIn(z) # {} => z \in Zones
  BY <1>3 DEF LetIn, Tidy, Zones
<1>8. d # 0
  BY <1>2, <1>6, FindIs
<1>9. d = FindByZoneID(servers, z)
  OBVIOUS
<1>10. servers = Reported(s, z)
  OBVIOUS
<1> HIDE DEF d, servers
<1>11. Entered(LetIn(z), locked, TurnedAway(s, z), z, servers, d)
  BY <1>3, <1>4, <1>5, <1>6, <1>7, <1>8, <1>9, EnterIs
<1>12. UNCHANGED <<conn, process, adrift, tries>>
  BY DEF SetZone
<1> QED BY <1>2, <1>3, <1>10, <1>11, <1>12

(***************************************************************************)
(* The zone process                                                        *)
(***************************************************************************)
Report(z) == [op |-> "SetZone", zone |-> z]

\* A sequence of packets that all report zone a.
AllReport(w, a) ==
  /\ w \in Seq(ToWorldMsg) /\ Len(w) \in Nat \ {0}
  /\ \A i \in 1 .. Len(w) : w[i] = Report(a)

LEMMA GrownLast ==
  ASSUME NEW new, NEW old, NEW sent, NEW a, Grown(new, old, sent), AllReport(sent, a)
  PROVE  /\ Len(new) \in Nat /\ Len(new) \in 1 .. Len(new) /\ Len(new) > Len(old)
         /\ new[Len(new)] = Report(a)
<1>1. /\ Len(old) \in Nat /\ Len(sent) \in Nat \ {0}
      /\ Len(new) = Len(old) + Len(sent)
  BY DEF Grown, AllReport
<1>2. /\ Len(new) \in Nat /\ Len(new) \in 1 .. Len(new) /\ Len(new) > Len(old)
      /\ Len(new) - Len(old) = Len(sent) /\ Len(sent) \in 1 .. Len(sent)
  BY <1>1
<1>3. new[Len(new)] = sent[Len(sent)]
  BY <1>2 DEF Grown
<1> QED BY <1>2, <1>3 DEF AllReport

LEMMA GrownHas ==
  ASSUME NEW new, NEW old, NEW sent, Grown(new, old, sent)
  PROVE  /\ \A i \in 1 .. Len(old) : i \in 1 .. Len(new) /\ new[i] = old[i]
         /\ \A i \in 1 .. Len(new) :
              \/ i \in 1 .. Len(old) /\ new[i] = old[i]
              \/ \E k \in 1 .. Len(sent) : new[i] = sent[k]
<1>1. /\ Len(old) \in Nat /\ Len(sent) \in Nat
      /\ Len(new) = Len(old) + Len(sent)
  BY DEF Grown
<1>2. \A i \in 1 .. Len(old) : i \in 1 .. Len(new) /\ new[i] = old[i]
  BY <1>1 DEF Grown
<1>3. ASSUME NEW i \in 1 .. Len(new), i \notin 1 .. Len(old)
      PROVE  \E k \in 1 .. Len(sent) : new[i] = sent[k]
  <2>1. i > Len(old)
    BY <1>1, <1>3
  <2> QED BY <2>1 DEF Grown
<1> QED BY <1>1, <1>2, <1>3 DEF Grown

LEMMA ReportsIs ==
  ASSUME NEW a \in 0 .. NZones
  PROVE  AllReport(Reports(<<a>>), a) /\ AllReport(Reports(<<a, a>>), a)
<1>1. Report(a) \in ToWorldMsg
  BY DEF Report, ToWorldMsg
<1>2. Reports(<<a>>) = <<Report(a)>> /\ Reports(<<a, a>>) = <<Report(a), Report(a)>>
  BY DEF Reports, Report
<1> DEFINE r == Report(a)
<1> HIDE DEF r
<1>3. \A x \in ToWorldMsg : AllReport(<<x>>, a) <=> x = Report(a)
  BY DEF AllReport
<1>4. \A x \in ToWorldMsg : AllReport(<<x, x>>, a) <=> x = Report(a)
  BY DEF AllReport
<1> QED BY <1>1, <1>2, <1>3, <1>4

\* What a process asked to boot z, or told of a player for z, has then loaded
\* and what it reports.
Loads(s, z) == IF process[s].loaded # 0 THEN process[s].loaded ELSE BootsAs(z)
Tells(s, z) == IF process[s].loaded # 0 THEN AlreadyUp(process[s])
               ELSE Reports(BootReports(z))

LEMMA TellsIs ==
  ASSUME WorldEntryAssumption, TypeOK, NEW s \in Servers, NEW z \in Zones
  PROVE  Loads(s, z) \in 0 .. NZones /\ AllReport(Tells(s, z), Loads(s, z))
<1>1. process[s].loaded \in 0 .. NZones /\ NZones \in Nat
      /\ BootsAs(z) \in 0 .. NZones
  BY DEF TypeOK, ZoneProcess, BootsAs, Zones, WorldEntryAssumption
<1>2. CASE process[s].loaded # 0
  <2>1. Loads(s, z) = process[s].loaded
        /\ Tells(s, z) = Reports(<<process[s].loaded>>)
    BY <1>2 DEF Loads, Tells, AlreadyUp
  <2> QED BY <1>1, <2>1, ReportsIs
<1>3. CASE process[s].loaded = 0 /\ z \in BadZones
  <2>1. Loads(s, z) = 0 /\ Tells(s, z) = Reports(<<0, 0>>)
    BY <1>3 DEF Loads, Tells, BootsAs, BootReports
  <2>2. 0 \in 0 .. NZones
    BY <1>1
  <2>3. AllReport(Reports(<<0, 0>>), 0)
    BY <2>2, ReportsIs, Zenon
  <2> QED BY <2>1, <2>2, <2>3
<1>4. CASE process[s].loaded = 0 /\ z \notin BadZones
  <2>1. Loads(s, z) = z /\ Tells(s, z) = Reports(<<z>>)
    BY <1>4 DEF Loads, Tells, BootsAs, BootReports
  <2>2. z \in 0 .. NZones
    BY DEF Zones
  <2> QED BY <2>1, <2>2, ReportsIs
<1> QED BY <1>2, <1>3, <1>4

\* The authorizations that a process holds of its own, or held until they ran
\* out: those it brought along from a lost link are not among them.
Held(p) == (p.auth \ p.kept) \cup p.lapsed

\* What a process is once it has been told of c for z, or to drop c.
Admits(s, z, c) ==
  [process[s] EXCEPT !.loaded = Loads(s, z),
                     !.auth = IF Loads(s, z) = z THEN @ \cup {c} ELSE @,
                     !.kept = @ \ {c}, !.lapsed = @ \ {c}]
Drops(s, c) ==
  IF process[s].loaded = 0 THEN process[s]
  ELSE [process[s] EXCEPT !.auth = @ \ {c}, !.kept = @ \ {c}, !.lapsed = @ \ {c}]

LEMMA AdmitsIs ==
  ASSUME WorldEntryAssumption, TypeOK, Tidy, NEW s \in Servers, NEW z \in Zones,
         NEW c \in Clients
  PROVE  /\ Admits(s, z, c) \in ZoneProcess
         /\ Admits(s, z, c).running = process[s].running
         /\ Admits(s, z, c).loaded = Loads(s, z)
         /\ Admits(s, z, c).stray = process[s].stray
         /\ Loads(s, z) = 0 =>
              Admits(s, z, c).auth = {} /\ Admits(s, z, c).lapsed = {}
         /\ Held(Admits(s, z, c)) \subseteq Held(process[s]) \cup {c}
         /\ Held(process[s]) \subseteq Held(Admits(s, z, c)) \cup {c}
         /\ Loads(s, z) = z => c \in Held(Admits(s, z, c))
<1>0. process[s] \in ZoneProcess /\ z # 0
  BY DEF TypeOK, Zones
<1>1. process[s] \in ZoneProcess /\ Loads(s, z) \in 0 .. NZones /\ z # 0
  BY <1>0, TellsIs
<1>2. Admits(s, z, c) \in ZoneProcess
  BY <1>1 DEF Admits, ZoneProcess
<1>3. /\ Admits(s, z, c).running = process[s].running
      /\ Admits(s, z, c).loaded = Loads(s, z)
      /\ Admits(s, z, c).stray = process[s].stray
      /\ Admits(s, z, c).auth = IF Loads(s, z) = z THEN process[s].auth \cup {c}
                                                  ELSE process[s].auth
      /\ Admits(s, z, c).kept = process[s].kept \ {c}
      /\ Admits(s, z, c).lapsed = process[s].lapsed \ {c}
  BY <1>1 DEF Admits, ZoneProcess
<1>4. Loads(s, z) = 0 => process[s].auth = {} /\ process[s].lapsed = {}
  BY <1>1 DEF Loads, Tidy
<1> QED BY <1>1, <1>2, <1>3, <1>4 DEF Held

LEMMA DropsIs ==
  ASSUME TypeOK, Tidy, NEW s \in Servers, NEW c \in Clients
  PROVE  /\ Drops(s, c) \in ZoneProcess
         /\ Drops(s, c).running = process[s].running
         /\ Drops(s, c).loaded = process[s].loaded
         /\ Drops(s, c).stray = process[s].stray
         /\ process[s].loaded = 0 => Drops(s, c).auth = {} /\ Drops(s, c).lapsed = {}
         /\ Held(Drops(s, c)) = Held(process[s]) \ {c}
<1>1. process[s] \in ZoneProcess
  BY DEF TypeOK
<1>2. CASE process[s].loaded = 0
  <2>1. process[s].auth = {} /\ process[s].lapsed = {}
    BY <1>2 DEF Tidy
  <2> QED BY <1>1, <1>2, <2>1 DEF Drops, Held
<1>3. CASE process[s].loaded # 0
  <2>1. /\ Drops(s, c) \in ZoneProcess
        /\ Drops(s, c).running = process[s].running
        /\ Drops(s, c).loaded = process[s].loaded
        /\ Drops(s, c).stray = process[s].stray
        /\ Drops(s, c).auth = process[s].auth \ {c}
        /\ Drops(s, c).kept = process[s].kept \ {c}
        /\ Drops(s, c).lapsed = process[s].lapsed \ {c}
    BY <1>1, <1>3 DEF Drops, ZoneProcess
  <2> QED BY <1>3, <2>1 DEF Held
<1> QED BY <1>2, <1>3

\* What a process is whose zone shut down.
Ended == [NoProcess EXCEPT !.running = ~KillProcessOnDynamicShutdown]

\* What a process is that connects again, or whose authorizations run out.
Back(q) == [adrift[q] EXCEPT !.stray = TRUE, !.kept = adrift[q].auth, !.lapsed = {}]
Forgets(s, gone) ==
  [process[s] EXCEPT !.auth = @ \ gone, !.kept = @ \ gone,
                     !.lapsed = @ \cup (gone \ process[s].kept)]

LEMMA BackIs ==
  ASSUME TypeOK, Tidy, NEW q \in Servers, adrift[q].running
  PROVE  /\ Back(q) \in ZoneProcess /\ Back(q).running /\ Back(q).stray
         /\ Back(q).loaded # 0 /\ Held(Back(q)) = {}
<1>1. adrift[q] \in ZoneProcess /\ adrift[q].loaded # 0
  BY DEF TypeOK, Tidy
<1> QED BY <1>1 DEF Back, Held, ZoneProcess

LEMMA ForgetsIs ==
  ASSUME TypeOK, Tidy, NEW s \in Servers, NEW gone \in SUBSET process[s].auth,
         gone # {}
  PROVE  /\ Forgets(s, gone) \in ZoneProcess
         /\ Forgets(s, gone).running = process[s].running
         /\ Forgets(s, gone).stray = process[s].stray
         /\ Forgets(s, gone).loaded = process[s].loaded /\ process[s].loaded # 0
         /\ Held(Forgets(s, gone)) = Held(process[s])
<1>1. process[s] \in ZoneProcess /\ process[s].loaded # 0
  BY DEF TypeOK, Tidy
<1>2. /\ Forgets(s, gone) \in ZoneProcess
      /\ Forgets(s, gone).running = process[s].running
      /\ Forgets(s, gone).stray = process[s].stray
      /\ Forgets(s, gone).loaded = process[s].loaded
      /\ Forgets(s, gone).auth = process[s].auth \ gone
      /\ Forgets(s, gone).kept = process[s].kept \ gone
      /\ Forgets(s, gone).lapsed = process[s].lapsed \cup (gone \ process[s].kept)
  BY <1>1 DEF Forgets, ZoneProcess
<1> QED BY <1>1, <1>2 DEF Held

LEMMA ZoneBootupDoes ==
  ASSUME WorldEntryAssumption, TypeOK, NEW s \in Servers, ZoneBootup(s)
  PROVE  \E z \in Zones :
           /\ toZone[s][1] = [op |-> "ZoneBootup", zone |-> z]
           /\ Handled(s, "ZoneBootup", [process[s] EXCEPT !.loaded = Loads(s, z)],
                      Tells(s, z))
<1> DEFINE z == Head(toZone[s]).zone
           p == [process[s] EXCEPT !.loaded = Loads(s, z)]
<1>1. process[s] \in ZoneProcess
  BY DEF TypeOK, ZoneProcess
<1>2. /\ Gets(toZone, s, "ZoneBootup")
      /\ Handles(s, "ZoneBootup", p, Tells(s, z))
  <2>1. CASE process[s].loaded # 0
    <3>1. p = process[s]
      BY <2>1, <1>1 DEF Loads, ZoneProcess
    <3>2. Handles(s, "ZoneBootup", process[s], AlreadyUp(process[s]))
      BY <2>1, Zenon DEF ZoneBootup
    <3>3. Tells(s, z) = AlreadyUp(process[s])
      BY <2>1 DEF Tells
    <3> QED BY <3>1, <3>2, <3>3, Zenon DEF Handles
  <2>2. CASE process[s].loaded = 0
    <3>1. Handles(s, "ZoneBootup", [process[s] EXCEPT !.loaded = BootsAs(z)],
                  Reports(BootReports(z)))
      BY <2>2, Zenon DEF ZoneBootup
    <3>2. Loads(s, z) = BootsAs(z) /\ Tells(s, z) = Reports(BootReports(z))
      BY <2>2 DEF Loads, Tells
    <3> QED BY <3>1, <3>2, Zenon DEF Handles
  <2> QED BY <2>1, <2>2
<1>3. toZone[s] \in Seq(ToZoneMsg) /\ toZone[s] # <<>>
  BY <1>2 DEF TypeOK, Gets
<1>4. Head(toZone[s]) = toZone[s][1] /\ Head(toZone[s]) \in ToZoneMsg
  BY <1>3, TailIs
<1>5. z \in Zones /\ toZone[s][1] = [op |-> "ZoneBootup", zone |-> z]
  BY <1>4, <1>2 DEF ToZoneMsg, Gets
<1>6. p \in ZoneProcess /\ Tells(s, z) \in Seq(ToWorldMsg)
  BY <1>1, <1>5, TellsIs DEF ZoneProcess, AllReport
<1> HIDE DEF p, z
<1>7. Handled(s, "ZoneBootup", p, Tells(s, z))
  BY <1>2, <1>6, HandlesDoes
<1> QED BY <1>5, <1>7 DEF p

LEMMA ZoneIncClientDoes ==
  ASSUME WorldEntryAssumption, TypeOK, Tidy, NEW s \in Servers, ZoneIncClient(s)
  PROVE  \E z \in Zones, c \in Clients :
           /\ toZone[s][1] = [op |-> "ZoneIncClient", zone |-> z, client |-> c]
           /\ Handled(s, "ZoneIncClient", Admits(s, z, c), Tells(s, z))
<1> DEFINE m == Head(toZone[s])
           z == m.zone
           c == m.client
           p == Admits(s, z, c)
<1>2. Handles(s, "ZoneIncClient", p, Tells(s, z)) /\ Gets(toZone, s, "ZoneIncClient")
  BY Zenon DEF ZoneIncClient, Admits, Loads, Tells, Handles
<1>3. toZone[s] \in Seq(ToZoneMsg) /\ toZone[s] # <<>>
  BY <1>2 DEF TypeOK, Gets
<1>4. m = toZone[s][1] /\ m \in ToZoneMsg
  BY <1>3, TailIs
<1>5. /\ z \in Zones /\ c \in Clients
      /\ toZone[s][1] = [op |-> "ZoneIncClient", zone |-> z, client |-> c]
  BY <1>4, <1>2 DEF ToZoneMsg, Gets
<1> HIDE DEF m, z, c
<1>6. Tells(s, z) \in Seq(ToWorldMsg)
  BY <1>5, TellsIs DEF AllReport
<1>7. p \in ZoneProcess
  BY <1>5, AdmitsIs
<1> HIDE DEF p
<1>8. Handled(s, "ZoneIncClient", p, Tells(s, z))
  BY <1>2, <1>6, <1>7, HandlesDoes
<1> QED BY <1>5, <1>8 DEF p

LEMMA AcceptDoes ==
  ASSUME WorldEntryAssumption, TypeOK, NEW s \in Servers, AcceptWorldEntrance(s)
  PROVE  \E c \in Clients, sent \in Seq(ToWorldMsg) :
           /\ toZone[s][1] = Question(c)
           /\ \A i \in 1 .. Len(sent) :
                sent[i].op = "AcceptWorldEntrance" /\ sent[i].client = c
           /\ Handled(s, "AcceptWorldEntrance", process[s], sent)
<1> DEFINE c == Head(toZone[s]).client
<1>1. PICK response \in {1, -1} :
        Handles(s, "AcceptWorldEntrance", process[s],
          IF process[s].loaded = 0 THEN <<>>
          ELSE <<[op |-> "AcceptWorldEntrance", client |-> c,
                  response |-> response]>>)
  BY DEF AcceptWorldEntrance
<1> DEFINE sent == IF process[s].loaded = 0 THEN <<>>
                   ELSE <<[op |-> "AcceptWorldEntrance", client |-> c,
                           response |-> response]>>
<1>2. toZone[s] \in Seq(ToZoneMsg) /\ toZone[s] # <<>>
      /\ Head(toZone[s]).op = "AcceptWorldEntrance"
  BY <1>1 DEF TypeOK, Gets, Handles
<1>3. Head(toZone[s]) = toZone[s][1] /\ Head(toZone[s]) \in ToZoneMsg
  BY <1>2, TailIs
<1>4. c \in Clients /\ toZone[s][1] = Question(c)
  BY <1>2, <1>3 DEF ToZoneMsg, Question
<1>5. sent \in Seq(ToWorldMsg)
      /\ \A i \in 1 .. Len(sent) :
           sent[i].op = "AcceptWorldEntrance" /\ sent[i].client = c
  <2>1. [op |-> "AcceptWorldEntrance", client |-> c, response |-> response]
          \in ToWorldMsg
    BY <1>4 DEF ToWorldMsg
  <2> QED BY <2>1
<1>6. process[s] \in ZoneProcess
  BY DEF TypeOK, ZoneProcess
<1>7. Handles(s, "AcceptWorldEntrance", process[s], sent)
  BY <1>1
<1> HIDE DEF c, sent
<1>8. Handled(s, "AcceptWorldEntrance", process[s], sent)
  BY <1>5, <1>6, <1>7, HandlesDoes
<1> QED BY <1>4, <1>5, <1>8

LEMMA DropDoes ==
  ASSUME TypeOK, Tidy, NEW s \in Servers, DropClient(s)
  PROVE  \E c \in Clients :
           /\ toZone[s][1] = [op |-> "DropClient", client |-> c]
           /\ Handled(s, "DropClient", Drops(s, c), <<>>)
<1> DEFINE c == Head(toZone[s]).client
           p == Drops(s, c)
<1>1. Handles(s, "DropClient", p, <<>>) /\ Gets(toZone, s, "DropClient")
  BY Zenon DEF DropClient, Drops, Handles
<1>2. toZone[s] \in Seq(ToZoneMsg) /\ toZone[s] # <<>>
  BY <1>1 DEF TypeOK, Gets
<1>3. Head(toZone[s]) = toZone[s][1] /\ Head(toZone[s]) \in ToZoneMsg
  BY <1>2, TailIs
<1>4. c \in Clients /\ toZone[s][1] = [op |-> "DropClient", client |-> c]
  BY <1>1, <1>3 DEF ToZoneMsg, Gets
<1> HIDE DEF c
<1>6. p \in ZoneProcess
  BY <1>4, DropsIs
<1>7. <<>> \in Seq(ToWorldMsg)
  OBVIOUS
<1> HIDE DEF p
<1>8. Handled(s, "DropClient", p, <<>>)
  BY <1>1, <1>6, <1>7, HandlesDoes
<1> QED BY <1>4, <1>8 DEF p

(***************************************************************************)
(* Types                                                                   *)
(***************************************************************************)
TypeAndTidy == TypeOK /\ Tidy

LEMMA TypeIs ==
  TypeOK <=>
    /\ conn \in [Servers -> {"unborn", "listed", "removed"}]
    /\ zone_server \in [Servers -> ZoneServerType]
    /\ process \in [Servers -> ZoneProcess]
    /\ adrift \in [Servers -> ZoneProcess]
    /\ toZone \in [Servers -> Seq(ToZoneMsg)]
    /\ toWorld \in [Servers -> Seq(ToWorldMsg)]
    /\ client \in [Clients -> ClientType]
    /\ view \in [Clients -> ViewType]
    /\ tries \in 0 .. MaxTries
BY DEF TypeOK, ZoneServerType, ClientType, ViewType

LEMMA TypeIsNext ==
  TypeOK' <=>
    /\ conn' \in [Servers -> {"unborn", "listed", "removed"}]
    /\ zone_server' \in [Servers -> ZoneServerType]
    /\ process' \in [Servers -> ZoneProcess]
    /\ adrift' \in [Servers -> ZoneProcess]
    /\ toZone' \in [Servers -> Seq(ToZoneMsg)]
    /\ toWorld' \in [Servers -> Seq(ToWorldMsg)]
    /\ client' \in [Clients -> ClientType]
    /\ view' \in [Clients -> ViewType]
    /\ tries' \in 0 .. MaxTries
BY DEF TypeOK, ZoneServerType, ClientType, ViewType

\* A step of the zone process alone.
LEMMA HandledTidy ==
  ASSUME WorldEntryAssumption, TypeAndTidy, NEW s \in Servers, NEW what, NEW p,
         NEW sent, Handled(s, what, p, sent), p.running = process[s].running,
         p.loaded = 0 => p.auth = {} /\ p.lapsed = {}
  PROVE  TypeAndTidy'
<1> USE DEF TypeAndTidy, Handled
<1>1. TypeOK'
  BY TypeIs, TypeIsNext
<1>2. Tidy'
  <2>1. /\ process'[s] = p /\ p.running /\ conn[s] = "listed"
        /\ conn' = conn /\ client' = client /\ zone_server' = zone_server
        /\ adrift' = adrift
    OBVIOUS
  <2>2. ASSUME NEW q \in Servers
        PROVE  /\ conn'[q] # "listed" =>
                    /\ ~process'[q].running
                    /\ toZone'[q] = <<>> /\ toWorld'[q] = <<>>
                    /\ zone_server'[q] = [zone |-> 0, booting |-> FALSE]
               /\ ~process'[q].running => process'[q].loaded = 0
               /\ process'[q].loaded = 0 =>
                    process'[q].auth = {} /\ process'[q].lapsed = {}
    <3>1. CASE q = s
      <4>1. conn'[q] = "listed" /\ process'[q].running
            /\ (process'[q].loaded = 0 =>
                  process'[q].auth = {} /\ process'[q].lapsed = {})
        BY <2>1, <3>1
      <4> QED BY <4>1
    <3>2. CASE q # s
      <4>1. toZone'[q] = toZone[q] /\ toWorld'[q] = toWorld[q]
            /\ process'[q] = process[q] /\ conn'[q] = conn[q]
            /\ zone_server'[q] = zone_server[q]
        BY <2>1, <3>2
      <4>2. /\ conn[q] # "listed" =>
                 /\ ~process[q].running
                 /\ toZone[q] = <<>> /\ toWorld[q] = <<>>
                 /\ zone_server[q] = [zone |-> 0, booting |-> FALSE]
            /\ ~process[q].running => process[q].loaded = 0
            /\ process[q].loaded = 0 =>
                 process[q].auth = {} /\ process[q].lapsed = {}
        BY DEF Tidy
      <4> QED BY <4>1, <4>2, Zenon
    <3> QED BY <3>1, <3>2
  <2>3. \A c \in Clients : client'[c].waiting # 0 => client'[c].zone_id # 0
    BY <2>1 DEF Tidy
  <2>4. \A q \in Servers : adrift'[q].running => adrift'[q].loaded # 0
    BY <2>1 DEF Tidy
  <2> QED BY <2>2, <2>3, <2>4 DEF Tidy
<1> QED BY <1>1, <1>2

LEMMA EnteredTidy ==
  ASSUME WorldEntryAssumption, TypeAndTidy, NEW entering, NEW locked, NEW failed,
         NEW z, NEW servers, NEW d,
         Entered(entering, locked, failed, z, servers, d),
         \A s \in Servers : s \notin Listed => servers[s] = zone_server[s],
         \A s \in Servers : s \notin Listed => toWorld'[s] = toWorld[s],
         UNCHANGED <<conn, process, adrift>>
  PROVE  Tidy'
<1> USE DEF TypeAndTidy
<1>1. ASSUME NEW s \in Servers, conn'[s] # "listed"
      PROVE  /\ ~process'[s].running
             /\ toZone'[s] = <<>> /\ toWorld'[s] = <<>>
             /\ zone_server'[s] = [zone |-> 0, booting |-> FALSE]
  <2>1. conn[s] # "listed" /\ s \notin Listed
    BY <1>1 DEF Listed
  <2>2. toZone'[s] = toZone[s] /\ toWorld'[s] = toWorld[s] /\ process' = process
    BY <2>1 DEF Entered, Sends
  <2>3. entering = {} \/ s # d
    BY <2>1 DEF Entered
  <2>4. zone_server'[s].zone = 0 /\ zone_server'[s].booting = FALSE
        /\ zone_server'[s] \in ZoneServerType
    <3>1. servers[s] = [zone |-> 0, booting |-> FALSE]
      BY <2>1 DEF Tidy
    <3>2. servers[s].zone = 0 /\ servers[s].booting = FALSE
      BY <3>1
    <3> QED BY <2>3, <3>2 DEF Entered, Sends
  <2>5. zone_server'[s] = [zone |-> 0, booting |-> FALSE]
    BY <2>4 DEF ZoneServerType
  <2> QED BY <2>1, <2>2, <2>5 DEF Tidy
<1>2. ASSUME NEW c \in Clients, client'[c].waiting # 0
      PROVE  client'[c].zone_id # 0
  <2>1. client[c] \in ClientType /\ z \in 0 .. NZones
    BY TypeIs DEF Entered
  <2>2. c \notin entering \cup failed
    <3>1. c \in entering \ locked => client'[c].waiting = 0
      <4>1. LetInto(client[c], z).waiting = 0
        BY <2>1 DEF LetInto, ClientType
      <4> QED BY <4>1 DEF Entered
    <3>2. c \in locked \cup failed => client'[c].waiting = 0
      <4>1. Unavailable(client[c]).waiting = 0
        BY <2>1, ClientTypes
      <4> QED BY <4>1 DEF Entered
    <3> QED BY <1>2, <3>1, <3>2
  <2> QED BY <1>2, <2>2 DEF Entered, Tidy
<1>3. /\ \A s \in Servers : ~process'[s].running => process'[s].loaded = 0
      /\ \A s \in Servers : process'[s].loaded = 0 =>
           process'[s].auth = {} /\ process'[s].lapsed = {}
      /\ \A s \in Servers : adrift'[s].running => adrift'[s].loaded # 0
  BY DEF Tidy
<1> QED BY <1>1, <1>2, <1>3 DEF Tidy

LEMMA InitTypeAndTidy ==
  ASSUME WorldEntryAssumption, Init
  PROVE  TypeAndTidy
<1> USE DEF Init, WorldEntryAssumption
<1>1. <<>> \in Seq(ToZoneMsg) /\ <<>> \in Seq(ToWorldMsg)
  OBVIOUS
<1>2. [zone |-> 0, booting |-> FALSE] \in ZoneServerType
  BY DEF ZoneServerType
<1>3. /\ NoProcess \in ZoneProcess /\ ~NoProcess.running /\ NoProcess.loaded = 0
      /\ NoProcess.auth = {} /\ NoProcess.lapsed = {}
  BY DEF NoProcess, ZoneProcess
<1>4. NewClient \in ClientType /\ At("away") \in ViewType /\ NewClient.waiting = 0
  BY DEF NewClient, ClientType, ViewType, At
<1>5. TypeOK
  BY <1>1, <1>2, <1>3, <1>4, TypeIs
<1>6. Tidy
  BY <1>3, <1>4 DEF Tidy
<1> QED BY <1>5, <1>6 DEF TypeAndTidy

LEMMA NextTypeAndTidy ==
  ASSUME WorldEntryAssumption, TypeAndTidy, [Next]_vars
  PROVE  TypeAndTidy'
<1> USE WorldEntryAssumption
<1>0. TypeOK /\ Tidy /\ NServers \in Nat /\ NZones \in Nat
  BY DEF TypeAndTidy, WorldEntryAssumption
<1>1. ASSUME NEW c \in Clients, NewSession(c) PROVE TypeAndTidy'
  <2>1. PICK seen \in BOOLEAN :
          client' = [client EXCEPT ![c] = [NewClient EXCEPT !.open = TRUE, !.seen = seen]]
    BY <1>1 DEF NewSession
  <2>2. [NewClient EXCEPT !.open = TRUE, !.seen = seen] \in ClientType
        /\ [NewClient EXCEPT !.open = TRUE, !.seen = seen].waiting = 0
        /\ At("select") \in ViewType
    <3>1. NewClient \in ClientType /\ NewClient.waiting = 0 /\ At("select") \in ViewType
      BY <1>0 DEF NewClient, ClientType, ViewType, At
    <3>2. [NewClient EXCEPT !.open = TRUE, !.seen = seen] \in ClientType
      BY <3>1 DEF ClientType
    <3>3. [NewClient EXCEPT !.open = TRUE, !.seen = seen].waiting = 0
      BY <3>1 DEF ClientType
    <3> QED BY <3>1, <3>2, <3>3
  <2>3. TypeOK'
    BY <1>0, <1>1, <2>1, <2>2, TypeIs, TypeIsNext DEF NewSession
  <2>4. Tidy'
    BY <1>0, <1>1, <2>1, <2>2, TypeIs DEF NewSession, Tidy
  <2> QED BY <2>3, <2>4 DEF TypeAndTidy
<1>2. ASSUME NEW c \in Clients, SessionEnds(c) PROVE TypeAndTidy'
  <2>1. NewClient \in ClientType /\ NewClient.waiting = 0 /\ At("away") \in ViewType
    BY <1>0 DEF NewClient, ClientType, ViewType, At
  <2>2. TypeOK'
    BY <1>0, <1>2, <2>1, TypeIs, TypeIsNext DEF SessionEnds
  <2>3. Tidy'
    BY <1>0, <1>2, <2>1, TypeIs DEF SessionEnds, Tidy
  <2> QED BY <2>2, <2>3 DEF TypeAndTidy
<1>u. ASSUME NEW c \in Clients
      PROVE  /\ Unavailable(client[c]) \in ClientType
             /\ Unavailable(client[c]).waiting = 0
             /\ Told(view[c]) \in ViewType
  <2>1. client[c] \in ClientType /\ view[c] \in ViewType
    BY <1>0, TypeIs
  <2>2. 0 \in 0 .. NZones
    BY <1>0
  <2>3. Told(view[c]) \in ViewType
    BY <2>1, <1>0 DEF Told, ViewType, At
  <2> QED BY <2>1, <2>2, <2>3, ClientTypes
<1>3. ASSUME NEW c \in Clients, AutobootTimeout(c) PROVE TypeAndTidy'
  <2>1. TypeOK'
    BY <1>0, <1>3, <1>u, TypeIs, TypeIsNext DEF AutobootTimeout
  <2>2. Tidy'
    BY <1>0, <1>3, <1>u, TypeIs DEF AutobootTimeout, Tidy
  <2> QED BY <2>1, <2>2 DEF TypeAndTidy
<1>c. ASSUME NEW c \in Clients, Chooses(c)
      PROVE  tries' \in 0 .. MaxTries /\ UNCHANGED <<conn, process, adrift, toWorld>>
  <2>1. tries \in 0 .. MaxTries /\ MaxTries \in Nat
    BY <1>0, TypeIs DEF WorldEntryAssumption
  <2> QED BY <2>1, <1>c DEF Chooses
<1>4. ASSUME NEW c \in Clients, NEW z \in Zones, EnterHosted(c, z) PROVE TypeAndTidy'
  <2>1. PICK locked \in SUBSET {c}, d \in Listed :
          Entered({c}, locked, {}, z, zone_server, d)
    BY <1>0, <1>4, EnterHostedDoes
  <2>2. tries' \in 0 .. MaxTries /\ UNCHANGED <<conn, process, adrift, toWorld>>
    BY <1>4, <1>c DEF EnterHosted
  <2>3. TypeOK'
    BY <1>0, <2>1, <2>2, TypeIs, TypeIsNext DEF Entered, Sends
  <2>4. Tidy'
    BY <2>1, <2>2, EnteredTidy
  <2> QED BY <2>3, <2>4 DEF TypeAndTidy
<1>5. ASSUME NEW c \in Clients, NEW z \in Zones, EnterBoots(c, z) PROVE TypeAndTidy'
  <2> DEFINE s == IdleServer
  <2>1. s \in Listed /\ s \in Servers
    BY <1>5, IdleIs DEF EnterBoots, Listed
  <2>2. /\ zone_server' = [zone_server EXCEPT ![s] = Triggered(z)]
        /\ toZone' = [toZone EXCEPT ![s] = Append(@, [op |-> "ZoneBootup", zone |-> z])]
        /\ client' = [client EXCEPT ![c] = Waits(@, z, s)]
        /\ view' = [view EXCEPT ![c] = At("entering")]
        /\ tries' \in 0 .. MaxTries /\ UNCHANGED <<conn, process, adrift, toWorld>>
    BY <1>5, <1>c DEF EnterBoots
  <2> HIDE DEF s
  <2>3. /\ Triggered(z) \in ZoneServerType /\ At("entering") \in ViewType
        /\ [op |-> "ZoneBootup", zone |-> z] \in ToZoneMsg /\ z \in 0 .. NZones /\ z # 0
    BY <1>0 DEF Triggered, ZoneServerType, At, ViewType, ToZoneMsg, Zones
  <2>4. client[c] \in ClientType
    BY <1>0, TypeIs
  <2>5. /\ Waits(client[c], z, s) \in ClientType
        /\ Waits(client[c], z, s).zone_id = z
    BY <2>1, <2>3, <2>4, ClientTypes
  <2>6. TypeOK'
    BY <1>0, <2>1, <2>2, <2>3, <2>5, AppendProperties, TypeIs, TypeIsNext
  <2>7. Tidy'
    BY <1>0, <2>1, <2>2, <2>3, <2>5, TypeIs DEF Tidy, Listed
  <2> QED BY <2>6, <2>7 DEF TypeAndTidy
<1>6. ASSUME NEW c \in Clients, NEW z \in Zones, EnterNowhere(c, z) PROVE TypeAndTidy'
  <2>1. tries' \in 0 .. MaxTries /\ UNCHANGED <<conn, process, adrift, toWorld>>
    BY <1>6, <1>c DEF EnterNowhere
  <2>2. TypeOK'
    BY <1>0, <1>6, <1>u, <2>1, TypeIs, TypeIsNext DEF EnterNowhere
  <2>3. Tidy'
    BY <1>0, <1>6, <1>u, <2>1, TypeIs DEF EnterNowhere, Tidy
  <2> QED BY <2>2, <2>3 DEF TypeAndTidy
<1>n. NoProcess \in ZoneProcess /\ ~NoProcess.running /\ NoProcess.loaded = 0
      /\ NoProcess.auth = {} /\ NoProcess.lapsed = {}
  BY <1>0 DEF NoProcess, ZoneProcess
<1>l. ASSUME NEW s \in Servers, NEW p \in ZoneProcess, Listing(s, p), p.running,
             p.loaded = 0 => p.auth = {} /\ p.lapsed = {},
             adrift' \in [Servers -> ZoneProcess],
             \A q \in Servers : adrift'[q].running => adrift'[q].loaded # 0
      PROVE  TypeAndTidy'
  <2>1. p.loaded \in 0 .. NZones /\ 0 \in 0 .. NZones
    BY <1>0, <1>l DEF ZoneProcess
  <2>2. Reports(<<p.loaded>>) \in Seq(ToWorldMsg)
    BY <2>1, ReportsIs DEF AllReport
  <2>3. toWorld' \in [Servers -> Seq(ToWorldMsg)]
        /\ \A q \in Servers : q # s => toWorld'[q] = toWorld[q]
    BY <1>0, <1>l, <2>2, TypeIs DEF Listing
  <2>4. zone_server' \in [Servers -> ZoneServerType]
        /\ \A q \in Servers : q # s => zone_server'[q] = zone_server[q]
    <3>1. zone_server \in [Servers -> ZoneServerType]
      BY <1>0, TypeIs
    <3> QED BY <1>l, <2>1, <3>1 DEF Listing, ZoneServerType
  <2>5. TypeOK'
    BY <1>0, <1>l, <2>3, <2>4, TypeIs, TypeIsNext DEF Listing
  <2>6. /\ process'[s] = p /\ conn'[s] = "listed" /\ client' = client
        /\ toZone' = toZone
        /\ \A q \in Servers : q # s => process'[q] = process[q] /\ conn'[q] = conn[q]
    BY <1>0, <1>l, TypeIs DEF Listing
  <2>7. Tidy'
    <3>1. ASSUME NEW q \in Servers
          PROVE  /\ conn'[q] # "listed" =>
                      /\ ~process'[q].running
                      /\ toZone'[q] = <<>> /\ toWorld'[q] = <<>>
                      /\ zone_server'[q] = [zone |-> 0, booting |-> FALSE]
                 /\ ~process'[q].running => process'[q].loaded = 0
                 /\ process'[q].loaded = 0 =>
                      process'[q].auth = {} /\ process'[q].lapsed = {}
      <4>1. CASE q = s
        BY <1>l, <2>6, <4>1
      <4>2. CASE q # s
        <5>1. /\ conn'[q] = conn[q] /\ process'[q] = process[q]
              /\ toZone'[q] = toZone[q] /\ toWorld'[q] = toWorld[q]
              /\ zone_server'[q] = zone_server[q]
          BY <2>3, <2>4, <2>6, <4>2
        <5> QED BY <1>0, <5>1 DEF Tidy
      <4> QED BY <4>1, <4>2
    <3>2. \A c \in Clients : client'[c].waiting # 0 => client'[c].zone_id # 0
      BY <1>0, <2>6 DEF Tidy
    <3> QED BY <1>l, <3>1, <3>2 DEF Tidy
  <2> QED BY <2>5, <2>7 DEF TypeAndTidy
<1>7. ASSUME NEW s \in Servers, Connects(s) PROVE TypeAndTidy'
  <2> DEFINE p == [NoProcess EXCEPT !.running = TRUE]
  <2>1. /\ p \in ZoneProcess /\ p.running /\ p.loaded = 0
        /\ p.auth = {} /\ p.lapsed = {}
    BY <1>n DEF ZoneProcess
  <2>2. Listing(s, p) /\ adrift' = adrift
    BY <1>7 DEF Connects
  <2> HIDE DEF p
  <2>3. adrift' \in [Servers -> ZoneProcess]
        /\ \A q \in Servers : adrift'[q].running => adrift'[q].loaded # 0
    BY <1>0, <2>2, TypeIs DEF Tidy
  <2> QED BY <1>l, <2>1, <2>2, <2>3
<1>18. ASSUME NEW s \in Servers, Reconnects(s) PROVE TypeAndTidy'
  <2>1. PICK q \in Servers :
          /\ adrift[q].running
          /\ Listing(s, Back(q))
          /\ adrift' = [adrift EXCEPT ![q] = NoProcess]
    BY <1>18, Zenon DEF Reconnects, Back
  <2>2. /\ Back(q) \in ZoneProcess /\ Back(q).running /\ Back(q).loaded # 0
    BY <1>0, <2>1, BackIs
  <2>3. adrift' \in [Servers -> ZoneProcess]
        /\ \A r \in Servers : adrift'[r].running => adrift'[r].loaded # 0
    BY <1>0, <1>n, <2>1, TypeIs DEF Tidy
  <2> QED BY <1>l, <2>1, <2>2, <2>3
<1>19. ASSUME NEW s \in Servers, LinkBreaks(s) PROVE TypeAndTidy'
  <2>1. TypeOK'
    BY <1>0, <1>n, <1>19, TypeIs, TypeIsNext DEF LinkBreaks
  <2>2. Tidy'
    BY <1>0, <1>n, <1>19, TypeIs DEF LinkBreaks, Tidy
  <2> QED BY <2>1, <2>2 DEF TypeAndTidy
<1>20. ASSUME NEW s \in Servers, AuthTimeout(s) PROVE TypeAndTidy'
  <2>g. PICK gone \in (SUBSET process[s].auth) \ {{}} :
          process' = [process EXCEPT ![s] = Forgets(s, gone)]
    BY <1>20, Zenon DEF AuthTimeout, Forgets
  <2>a. gone # {} /\ gone \subseteq process[s].auth
    BY Zenon
  <2>1. /\ gone \in SUBSET process[s].auth /\ gone # {}
        /\ process' = [process EXCEPT ![s] = Forgets(s, gone)]
    BY <2>a, <2>g
  <2>2. /\ Forgets(s, gone) \in ZoneProcess
        /\ Forgets(s, gone).running = process[s].running
        /\ Forgets(s, gone).loaded = process[s].loaded /\ process[s].loaded # 0
    BY <1>0, <2>1, ForgetsIs
  <2>3. TypeOK'
    BY <1>0, <1>20, <2>1, <2>2, TypeIs, TypeIsNext DEF AuthTimeout
  <2>4. Tidy'
    BY <1>0, <1>20, <2>1, <2>2, TypeIs DEF AuthTimeout, Tidy
  <2> QED BY <2>3, <2>4 DEF TypeAndTidy
<1>8. ASSUME NEW s \in Servers, Removed(s) PROVE TypeAndTidy'
  <2>1. [zone |-> 0, booting |-> FALSE] \in ZoneServerType
        /\ <<>> \in Seq(ToZoneMsg) /\ <<>> \in Seq(ToWorldMsg)
    BY <1>0 DEF ZoneServerType
  <2>2. TypeOK'
    BY <1>0, <1>8, <2>1, TypeIs, TypeIsNext DEF Removed
  <2>3. Tidy'
    BY <1>0, <1>8, TypeIs DEF Removed, Tidy
  <2> QED BY <2>2, <2>3 DEF TypeAndTidy
<1>9. ASSUME NEW s \in Servers, SetZone(s) PROVE TypeAndTidy'
  <2> DEFINE z == toWorld[s][1].zone
             servers == Reported(s, z)
  <2>1. /\ conn[s] = "listed" /\ z \in 0 .. NZones
        /\ \A q \in Servers : q # s => toWorld'[q] = toWorld[q]
        /\ toWorld' \in [Servers -> Seq(ToWorldMsg)]
        /\ UNCHANGED <<conn, process, adrift, tries>>
    BY <1>0, <1>9, SetZoneDoes
  <2>l. PICK locked \in SUBSET LetIn(z) : \E d :
          Entered(LetIn(z), locked, TurnedAway(s, z), z, servers, d)
    BY <1>0, <1>9, SetZoneDoes
  <2>2. PICK d :
          Entered(LetIn(z), locked, TurnedAway(s, z), z, servers, d)
    BY <2>l
  <2>3. \A q \in Servers : q \notin Listed =>
          servers[q] = zone_server[q] /\ toWorld'[q] = toWorld[q]
    BY <1>0, <2>1, TypeIs DEF Listed, Reported
  <2> HIDE DEF z, servers
  <2>4. TypeOK'
    BY <1>0, <2>1, <2>2, TypeIs, TypeIsNext DEF Entered, Sends
  <2>5. Tidy'
    BY <2>1, <2>2, <2>3, EnteredTidy
  <2> QED BY <2>4, <2>5 DEF TypeAndTidy
<1>10. ASSUME NEW s \in Servers, AcceptReply(s) PROVE TypeAndTidy'
  <2> DEFINE c == toWorld[s][1].client
  <2>1. Gets(toWorld, s, "AcceptWorldEntrance")
        /\ toWorld' = [toWorld EXCEPT ![s] = Tail(@)]
    BY <1>10 DEF AcceptReply
  <2>2. /\ conn[s] = "listed" /\ Head(toWorld[s]) = toWorld[s][1]
        /\ toWorld[s][1].op = "AcceptWorldEntrance" /\ toWorld[s][1] \in ToWorldMsg
        /\ \A q \in Servers : q # s => toWorld'[q] = toWorld[q]
        /\ toWorld' \in [Servers -> Seq(ToWorldMsg)]
    BY <1>0, <2>1, WorldGets
  <2>3. c \in Clients
    BY <2>2 DEF ToWorldMsg
  <2>4. client' \in [Clients -> ClientType] /\ view' \in [Clients -> ViewType]
        /\ (client' = client \/ client' = [client EXCEPT ![c] = Unavailable(@)])
    <3>1. \/ UNCHANGED <<client, view>>
          \/ /\ client' = [client EXCEPT ![c] = Unavailable(@)]
             /\ view' = [view EXCEPT ![c] = Told(@)]
          \/ /\ UNCHANGED client
             /\ FindByZoneID(zone_server, client[c].zone_id) # 0
             /\ view' = [view EXCEPT ![c] =
                          GoingTo(FindByZoneID(zone_server, client[c].zone_id),
                                  client[c].zone_id)]
      BY <1>10, <2>2, Zenon DEF AcceptReply, Clearance
    <3>2. FindByZoneID(zone_server, client[c].zone_id) # 0 =>
            GoingTo(FindByZoneID(zone_server, client[c].zone_id), client[c].zone_id)
              \in ViewType
      <4> DEFINE d == FindByZoneID(zone_server, client[c].zone_id)
      <4>1. d # 0 => d \in 0 .. NServers
        BY FindIs DEF Listed, Servers
      <4>2. client[c].zone_id \in 0 .. NZones
        BY <1>0, <2>3, TypeIs DEF ClientType
      <4> HIDE DEF d
      <4>3. d # 0 => GoingTo(d, client[c].zone_id) \in ViewType
        BY <4>1, <4>2 DEF GoingTo, ViewType
      <4> QED BY <4>3 DEF d
    <3> QED BY <1>0, <1>u, <2>3, <3>1, <3>2, TypeIs
  <2>5. UNCHANGED <<conn, zone_server, process, adrift, toZone, tries>>
    BY <1>10 DEF AcceptReply
  <2> HIDE DEF c
  <2>6. TypeOK'
    BY <1>0, <2>2, <2>4, <2>5, TypeIs, TypeIsNext
  <2>7. \A e \in Clients : client'[e].waiting # 0 => client'[e].zone_id # 0
    BY <1>0, <1>u, <2>3, <2>4, TypeIs DEF Tidy
  <2>8. Tidy'
    BY <1>0, <2>2, <2>5, <2>7 DEF Tidy
  <2> QED BY <2>6, <2>8 DEF TypeAndTidy
<1>p. \A s \in Servers : process[s] \in ZoneProcess
                         /\ (process[s].loaded = 0 =>
                              process[s].auth = {} /\ process[s].lapsed = {})
  BY <1>0, TypeIs DEF Tidy
<1>11. ASSUME NEW s \in Servers, ZoneBootup(s) PROVE TypeAndTidy'
  <2>1. PICK z \in Zones :
          Handled(s, "ZoneBootup", [process[s] EXCEPT !.loaded = Loads(s, z)], Tells(s, z))
    BY <1>0, <1>11, ZoneBootupDoes
  <2> DEFINE p == [process[s] EXCEPT !.loaded = Loads(s, z)]
  <2>2. p.running = process[s].running /\ (p.loaded = 0 => p.auth = {} /\ p.lapsed = {})
    BY <1>p DEF ZoneProcess, Loads
  <2> HIDE DEF p
  <2> QED BY <2>1, <2>2, HandledTidy DEF p
<1>12. ASSUME NEW s \in Servers, ZoneIncClient(s) PROVE TypeAndTidy'
  <2>1. PICK z \in Zones, c \in Clients :
          Handled(s, "ZoneIncClient", Admits(s, z, c), Tells(s, z))
    BY <1>0, <1>12, ZoneIncClientDoes
  <2> DEFINE p == Admits(s, z, c)
  <2>2. p.running = process[s].running /\ (p.loaded = 0 => p.auth = {} /\ p.lapsed = {})
    BY <1>0, AdmitsIs
  <2>3. Handled(s, "ZoneIncClient", p, Tells(s, z))
    BY <2>1
  <2> HIDE DEF p
  <2> QED BY <2>2, <2>3, HandledTidy
<1>13. ASSUME NEW s \in Servers, AcceptWorldEntrance(s) PROVE TypeAndTidy'
  <2>1. PICK sent : Handled(s, "AcceptWorldEntrance", process[s], sent)
    BY <1>0, <1>13, AcceptDoes
  <2> QED BY <1>p, <2>1, HandledTidy
<1>14. ASSUME NEW s \in Servers, DropClient(s) PROVE TypeAndTidy'
  <2>1. PICK c \in Clients :
          Handled(s, "DropClient", Drops(s, c), <<>>)
    BY <1>0, <1>14, DropDoes
  <2> DEFINE p == Drops(s, c)
  <2>2. p.running = process[s].running /\ (p.loaded = 0 => p.auth = {} /\ p.lapsed = {})
    BY <1>0, DropsIs
  <2>3. Handled(s, "DropClient", p, <<>>)
    BY <2>1
  <2> HIDE DEF p
  <2> QED BY <2>2, <2>3, HandledTidy
<1>15. ASSUME NEW s \in Servers, ShutsDown(s) PROVE TypeAndTidy'
  <2>1. AllReport(Reports(<<0>>), 0)
    <3>1. 0 \in 0 .. NZones
      BY <1>0
    <3> QED BY <3>1, ReportsIs, Zenon
  <2>2. toWorld' = [toWorld EXCEPT ![s] = toWorld[s] \o Reports(<<0>>)]
    BY <1>15 DEF ShutsDown
  <2>3. toWorld[s] \o Reports(<<0>>) \in Seq(ToWorldMsg)
    BY <1>0, <2>1, TypeIs, ConcatProperties DEF AllReport
  <2>4. /\ Ended \in ZoneProcess /\ Ended.loaded = 0
        /\ Ended.auth = {} /\ Ended.lapsed = {}
    BY <1>n DEF Ended, ZoneProcess, WorldEntryAssumption
  <2>5. TypeOK'
    BY <1>0, <1>15, <2>2, <2>3, <2>4, TypeIs, TypeIsNext DEF ShutsDown, Ended
  <2>6. conn[s] = "listed"
    BY <1>0, <1>15 DEF ShutsDown, Tidy
  <2>7. Tidy'
    BY <1>0, <1>15, <2>2, <2>4, <2>6, TypeIs DEF ShutsDown, Tidy, Ended
  <2> QED BY <2>5, <2>7 DEF TypeAndTidy
<1>16. ASSUME NEW s \in Servers, Crashes(s) PROVE TypeAndTidy'
  <2>2. TypeOK'
    BY <1>0, <1>16, <1>n, TypeIs, TypeIsNext DEF Crashes
  <2>3. Tidy'
    BY <1>0, <1>16, <1>n, TypeIs DEF Crashes, Tidy
  <2> QED BY <2>2, <2>3 DEF TypeAndTidy
<1>17. CASE UNCHANGED vars
  BY <1>0, <1>17 DEF TypeAndTidy, TypeOK, Tidy, vars
<1> QED BY <1>1, <1>2, <1>3, <1>4, <1>5, <1>6, <1>7, <1>8, <1>9, <1>10, <1>11,
           <1>12, <1>13, <1>14, <1>15, <1>16, <1>17, <1>18, <1>19, <1>20 DEF Next

(***************************************************************************)
(* ViewsAgree: the last report on its way to world is of the zone that is  *)
(* loaded; with none on its way, and no order either, world knows.         *)
(***************************************************************************)
LastReport(s) ==
  \A i \in 1 .. Len(toWorld[s]) :
    /\ toWorld[s][i].op = "SetZone"
    /\ \A j \in 1 .. Len(toWorld[s]) : j > i => toWorld[s][j].op # "SetZone"
    => toWorld[s][i].zone = process[s].loaded
NoReport(s) == \A i \in 1 .. Len(toWorld[s]) : toWorld[s][i].op # "SetZone"
NoOrder(s) ==
  \A i \in 1 .. Len(toZone[s]) :
    toZone[s][i].op \notin {"ZoneBootup", "ZoneIncClient"}
Agrees(s) ==
  conn[s] = "listed" /\ process[s].running =>
    /\ LastReport(s)
    /\ NoReport(s) /\ NoOrder(s) =>
         zone_server[s].zone = process[s].loaded /\ ~zone_server[s].booting

ReportsAgree == \A s \in Servers : Agrees(s)

LEMMA AgreesFrame ==
  ASSUME NEW s, Agrees(s), conn'[s] = conn[s], process'[s] = process[s],
         toZone'[s] = toZone[s], toWorld'[s] = toWorld[s],
         zone_server'[s] = zone_server[s]
  PROVE  Agrees(s)'
BY DEF Agrees, LastReport, NoReport, NoOrder

LEMMA HandledAgrees ==
  ASSUME ReportsAgree, NEW s \in Servers, NEW what, NEW p, NEW sent,
         Handled(s, what, p, sent),
         \/ AllReport(sent, p.loaded)
         \/ /\ p.loaded = process[s].loaded
            /\ what \notin {"ZoneBootup", "ZoneIncClient"}
            /\ \A i \in 1 .. Len(sent) : sent[i].op # "SetZone"
  PROVE  ReportsAgree'
<1>1. ASSUME NEW q \in Servers, q # s PROVE Agrees(q)'
  <2>1. /\ conn'[q] = conn[q] /\ process'[q] = process[q] /\ toZone'[q] = toZone[q]
        /\ toWorld'[q] = toWorld[q] /\ zone_server'[q] = zone_server[q]
    BY <1>1 DEF Handled
  <2> QED BY <2>1, AgreesFrame DEF ReportsAgree
<1>2. Agrees(s)'
  <2>0. /\ conn[s] = "listed" /\ process[s].running
        /\ toZone[s][1].op = what
        /\ Popped(toZone'[s], toZone[s]) /\ Grown(toWorld'[s], toWorld[s], sent)
        /\ process'[s] = p /\ zone_server'[s] = zone_server[s]
    BY DEF Handled
  <2>1. LastReport(s) /\ (NoReport(s) /\ NoOrder(s) =>
             zone_server[s].zone = process[s].loaded /\ ~zone_server[s].booting)
    BY <2>0 DEF ReportsAgree, Agrees
  <2>2. CASE AllReport(sent, p.loaded)
    <3>1. LastReport(s)'
      <4> SUFFICES ASSUME NEW i \in 1 .. Len(toWorld'[s]),
                          \A j \in 1 .. Len(toWorld'[s]) :
                            j > i => toWorld'[s][j].op # "SetZone"
                   PROVE  toWorld'[s][i].zone = p.loaded
        BY <2>0 DEF LastReport
      <4>1. Len(toWorld'[s]) \in 1 .. Len(toWorld'[s])
            /\ Len(toWorld'[s]) > Len(toWorld[s])
            /\ toWorld'[s][Len(toWorld'[s])] = Report(p.loaded)
        BY <2>0, <2>2, GrownLast
      <4>2. i = Len(toWorld'[s])
        BY <4>1 DEF Report
      <4> QED BY <4>1, <4>2 DEF Report
    <3>2. ~NoReport(s)'
      <4>1. Len(toWorld'[s]) \in 1 .. Len(toWorld'[s])
            /\ toWorld'[s][Len(toWorld'[s])] = Report(p.loaded)
        BY <2>0, <2>2, GrownLast
      <4> QED BY <4>1 DEF NoReport, Report
    <3> QED BY <3>1, <3>2 DEF Agrees
  <2>3. CASE /\ p.loaded = process[s].loaded
             /\ what \notin {"ZoneBootup", "ZoneIncClient"}
             /\ \A i \in 1 .. Len(sent) : sent[i].op # "SetZone"
    <3>1. \A i \in 1 .. Len(toWorld'[s]) : toWorld'[s][i].op = "SetZone" =>
            i \in 1 .. Len(toWorld[s]) /\ toWorld'[s][i] = toWorld[s][i]
      BY <2>0, <2>3, GrownHas
    <3>2. \A i \in 1 .. Len(toWorld[s]) :
            i \in 1 .. Len(toWorld'[s]) /\ toWorld'[s][i] = toWorld[s][i]
      BY <2>0, GrownHas
    <3>3. LastReport(s)'
      BY <2>0, <2>1, <2>3, <3>1, <3>2 DEF LastReport
    <3>4. NoReport(s)' => NoReport(s)
      BY <3>2 DEF NoReport
    <3>5. NoOrder(s)' => NoOrder(s)
      <4> SUFFICES ASSUME NoOrder(s)', NEW i \in 1 .. Len(toZone[s])
                   PROVE  toZone[s][i].op \notin {"ZoneBootup", "ZoneIncClient"}
        BY DEF NoOrder
      <4>1. CASE i = 1
        BY <4>1, <2>0, <2>3
      <4>2. CASE i # 1
        <5>1. i - 1 \in 1 .. Len(toZone'[s]) /\ toZone'[s][i - 1] = toZone[s][i]
          BY <4>2, <2>0 DEF Popped
        <5> QED BY <5>1 DEF NoOrder
      <4> QED BY <4>1, <4>2
    <3> QED BY <2>0, <2>1, <2>3, <3>3, <3>4, <3>5 DEF Agrees
  <2> QED BY <2>2, <2>3
<1> QED BY <1>1, <1>2 DEF ReportsAgree

\* Handling the head of the link to world.
LEMMA PoppedAgrees ==
  ASSUME NEW s, LastReport(s), Popped(toWorld'[s], toWorld[s]),
         process'[s] = process[s]
  PROVE  /\ LastReport(s)'
         /\ NoReport(s)' => NoReport(s) \/ toWorld[s][1].zone = process[s].loaded
<1>1. \A i \in 1 .. Len(toWorld'[s]) :
        i + 1 \in 1 .. Len(toWorld[s]) /\ toWorld'[s][i] = toWorld[s][i + 1]
  BY DEF Popped
<1>2. \A i \in 1 .. Len(toWorld[s]) : i > 1 =>
        i - 1 \in 1 .. Len(toWorld'[s]) /\ toWorld'[s][i - 1] = toWorld[s][i]
  BY DEF Popped
<1>3. LastReport(s)'
  <2> SUFFICES ASSUME NEW i \in 1 .. Len(toWorld'[s]),
                      toWorld'[s][i].op = "SetZone",
                      \A j \in 1 .. Len(toWorld'[s]) :
                        j > i => toWorld'[s][j].op # "SetZone"
               PROVE  toWorld'[s][i].zone = process[s].loaded
    BY DEF LastReport
  <2>1. ASSUME NEW j \in 1 .. Len(toWorld[s]), j > i + 1
        PROVE  toWorld[s][j].op # "SetZone"
    <3>1. j - 1 \in 1 .. Len(toWorld'[s]) /\ toWorld'[s][j - 1] = toWorld[s][j]
          /\ j - 1 > i
      BY <1>2, <2>1
    <3> QED BY <3>1
  <2> QED BY <1>1, <2>1 DEF LastReport
<1>4. ASSUME NoReport(s)', ~NoReport(s)
      PROVE  toWorld[s][1].zone = process[s].loaded
  <2>1. \A j \in 1 .. Len(toWorld[s]) : j > 1 => toWorld[s][j].op # "SetZone"
    BY <1>2, <1>4 DEF NoReport
  <2>2. 1 \in 1 .. Len(toWorld[s])
    BY DEF Popped
  <2>3. toWorld[s][1].op = "SetZone"
    BY <2>1, <2>2, <1>4 DEF NoReport
  <2> QED BY <2>1, <2>2, <2>3 DEF LastReport
<1> QED BY <1>3, <1>4

\* Enter, in a step that left world's list as servers, and with what that
\* list then says of the servers that have no report on their way.
LEMMA EnteredAgrees ==
  ASSUME NEW entering, NEW locked, NEW failed, NEW z, NEW servers, NEW d,
         Entered(entering, locked, failed, z, servers, d), NEW q \in Servers,
         conn'[q] = conn[q], process'[q] = process[q],
         conn[q] = "listed" /\ process[q].running =>
           /\ LastReport(q)'
           /\ NoReport(q)' /\ NoOrder(q) =>
                servers[q].zone = process[q].loaded /\ ~servers[q].booting,
         servers[q].booting \in BOOLEAN
  PROVE  Agrees(q)'
<1> SUFFICES ASSUME conn[q] = "listed", process[q].running, NoReport(q)', NoOrder(q)'
             PROVE  zone_server'[q].zone = process[q].loaded /\ ~zone_server'[q].booting
  BY DEF Agrees
<1>1. q \in Listed
  BY DEF Listed
<1>2. NoOrder(q)
  <2>1. \A i \in 1 .. Len(toZone[q]) :
          i \in 1 .. Len(toZone'[q]) /\ toZone'[q][i] = toZone[q][i]
    <3>1. toZone'[q] \in Seq(ToZoneMsg)
      BY DEF Entered, Sends
    <3>2. Len(toZone'[q]) \in Nat /\ Len(toZone'[q]) >= Len(toZone[q])
      BY <1>1, <3>1, LenProperties DEF Entered, Sends
    <3>3. \A i \in 1 .. Len(toZone[q]) : toZone'[q][i] = toZone[q][i]
      BY <1>1 DEF Entered, Sends
    <3>4. Len(toZone[q]) \in Int => \A i \in 1 .. Len(toZone[q]) : i \in 1 .. Len(toZone'[q])
      BY <3>2
    <3> QED BY <3>2, <3>3
  <2> QED BY <2>1 DEF NoOrder
<1>3. ASSUME q = d, \E c \in entering : ~client[c].triggered
      PROVE  FALSE
  <2>1. PICK c \in entering : ~client[c].triggered
    BY <1>3
  <2>2. Warned(q, d, z, entering, locked, Announcement(q, d, z, c))
    BY <2>1 DEF Warned
  <2>3. PICK i \in 1 .. Len(toZone'[q]) : toZone'[q][i] = Announcement(q, d, z, c)
    BY <1>1, <2>2 DEF Entered, Sends
  <2>4. Announcement(q, d, z, c).op = "ZoneIncClient"
    BY <1>3 DEF Announcement
  <2> QED BY <2>3, <2>4 DEF NoOrder
<1>4. zone_server'[q].zone = servers[q].zone
      /\ zone_server'[q].booting = servers[q].booting
  BY <1>3 DEF Entered, Sends
<1> QED BY <1>2, <1>4

LEMMA NextReportsAgree ==
  ASSUME WorldEntryAssumption, TypeAndTidy, ReportsAgree, [Next]_vars
  PROVE  ReportsAgree'
<1> USE WorldEntryAssumption
<1>0. TypeOK /\ Tidy /\ NZones \in Nat
  BY DEF TypeAndTidy, WorldEntryAssumption
<1>t. \A s \in Servers : toZone[s] \in Seq(ToZoneMsg) /\ toWorld[s] \in Seq(ToWorldMsg)
                         /\ zone_server[s] \in ZoneServerType
                         /\ zone_server[s].booting \in BOOLEAN
  BY <1>0, TypeIs DEF ZoneServerType
<1>s. ASSUME UNCHANGED <<conn, process, toZone, toWorld, zone_server>>
      PROVE  ReportsAgree'
  BY <1>s DEF ReportsAgree, Agrees, LastReport, NoReport, NoOrder
<1>1. ASSUME NEW c \in Clients, NewSession(c) PROVE ReportsAgree'
  BY <1>1, <1>s DEF NewSession
<1>2. ASSUME NEW c \in Clients, SessionEnds(c) PROVE ReportsAgree'
  BY <1>2, <1>s DEF SessionEnds
<1>3. ASSUME NEW c \in Clients, AutobootTimeout(c) PROVE ReportsAgree'
  BY <1>3, <1>s DEF AutobootTimeout
<1>4. ASSUME NEW c \in Clients, NEW z \in Zones, EnterHosted(c, z) PROVE ReportsAgree'
  <2>1. PICK locked \in SUBSET {c}, d \in Listed :
          Entered({c}, locked, {}, z, zone_server, d)
    BY <1>0, <1>4, EnterHostedDoes
  <2>2. UNCHANGED <<conn, process, adrift, toWorld>>
    BY <1>4 DEF EnterHosted, Chooses
  <2>3. ASSUME NEW q \in Servers PROVE Agrees(q)'
    <3>1. conn[q] = "listed" /\ process[q].running =>
            /\ LastReport(q)'
            /\ NoReport(q)' /\ NoOrder(q) =>
                 zone_server[q].zone = process[q].loaded /\ ~zone_server[q].booting
      BY <2>2 DEF ReportsAgree, Agrees, LastReport, NoReport
    <3> QED BY <1>t, <2>1, <2>2, <3>1, EnteredAgrees
  <2> QED BY <2>3 DEF ReportsAgree
<1>5. ASSUME NEW c \in Clients, NEW z \in Zones, EnterBoots(c, z) PROVE ReportsAgree'
  <2> DEFINE m == [op |-> "ZoneBootup", zone |-> z]
  <2>1. PICK s \in Servers : s = IdleServer
    BY <1>5, IdleIs DEF EnterBoots, Listed
  <2>2. /\ zone_server' = [zone_server EXCEPT ![s] = Triggered(z)]
        /\ toZone' = [toZone EXCEPT ![s] = Append(@, m)]
        /\ UNCHANGED <<conn, process, adrift, toWorld>>
    BY <1>5, <2>1 DEF EnterBoots, Chooses
  <2>3. m \in ToZoneMsg /\ m.op = "ZoneBootup"
    BY DEF ToZoneMsg
  <2> HIDE DEF m
  <2>4. ASSUME NEW q \in Servers, q # s PROVE Agrees(q)'
    <3>1. toZone'[q] = toZone[q] /\ zone_server'[q] = zone_server[q]
      BY <1>0, <2>2, <2>4, TypeIs
    <3> QED BY <2>2, <3>1, AgreesFrame DEF ReportsAgree
  <2>5. ~NoOrder(s)'
    <3>1. toZone'[s] = Append(toZone[s], m)
      BY <1>0, <2>1, <2>2, TypeIs
    <3>2. Len(toZone'[s]) = Len(toZone[s]) + 1 /\ toZone'[s][Len(toZone[s]) + 1] = m
          /\ Len(toZone[s]) \in Nat
      BY <1>t, <2>1, <2>3, <3>1, AppendProperties, LenProperties
    <3>3. Len(toZone[s]) + 1 \in 1 .. Len(toZone'[s])
      BY <3>2
    <3> QED BY <2>3, <3>2, <3>3 DEF NoOrder
  <2>6. Agrees(s)'
    BY <2>1, <2>2, <2>5 DEF ReportsAgree, Agrees, LastReport
  <2> QED BY <2>4, <2>6 DEF ReportsAgree
<1>6. ASSUME NEW c \in Clients, NEW z \in Zones, EnterNowhere(c, z) PROVE ReportsAgree'
  BY <1>6, <1>s DEF EnterNowhere, Chooses
<1>n. NoProcess \in ZoneProcess /\ ~NoProcess.running /\ NoProcess.loaded = 0
  BY <1>0 DEF NoProcess, ZoneProcess
<1>l. ASSUME NEW s \in Servers, NEW p \in ZoneProcess, Listing(s, p) PROVE ReportsAgree'
  <2>1. ASSUME NEW q \in Servers, q # s PROVE Agrees(q)'
    <3>1. /\ toZone'[q] = toZone[q] /\ zone_server'[q] = zone_server[q]
          /\ conn'[q] = conn[q] /\ process'[q] = process[q] /\ toWorld'[q] = toWorld[q]
      BY <1>0, <1>l, <2>1, TypeIs DEF Listing
    <3> QED BY <3>1, AgreesFrame DEF ReportsAgree
  <2>2. /\ process'[s] = p /\ ~zone_server'[s].booting
        /\ zone_server'[s].zone = IF FreshGap THEN 0 ELSE p.loaded
        /\ toWorld'[s] = IF p.loaded # 0 \/ FreshGap THEN <<Report(p.loaded)>> ELSE <<>>
    <3>1. zone_server[s] = [zone |-> 0, booting |-> FALSE]
      BY <1>0, <1>l DEF Listing, Tidy
    <3>2. zone_server'[s] = [zone_server[s] EXCEPT !.zone = IF FreshGap THEN 0 ELSE p.loaded]
      BY <1>0, <1>l, TypeIs DEF Listing
    <3>3. Reports(<<p.loaded>>) = <<Report(p.loaded)>>
      BY DEF Reports, Report
    <3>4. process'[s] = p
      BY <1>0, <1>l, TypeIs DEF Listing
    <3>5. toWorld'[s] = IF p.loaded # 0 \/ FreshGap THEN <<Report(p.loaded)>> ELSE <<>>
      BY <1>0, <1>l, <3>3, TypeIs DEF Listing
    <3> QED BY <3>1, <3>2, <3>4, <3>5
  <2>3. CASE p.loaded # 0 \/ FreshGap
    <3>1. toWorld'[s] = <<Report(p.loaded)>>
      BY <2>2, <2>3
    <3>2. LastReport(s)'
      BY <2>2, <3>1 DEF LastReport, Report
    <3>3. ~NoReport(s)'
      BY <3>1 DEF NoReport, Report
    <3> QED BY <2>1, <3>2, <3>3 DEF ReportsAgree, Agrees
  <2>4. CASE ~(p.loaded # 0 \/ FreshGap)
    <3>1. LastReport(s)'
      BY <2>2, <2>4 DEF LastReport
    <3> QED BY <2>1, <2>2, <2>4, <3>1 DEF ReportsAgree, Agrees
  <2> QED BY <2>3, <2>4
<1>7. ASSUME NEW s \in Servers, Connects(s) PROVE ReportsAgree'
  <2>1. [NoProcess EXCEPT !.running = TRUE] \in ZoneProcess
    BY <1>n DEF ZoneProcess
  <2> QED BY <1>7, <1>l, <2>1 DEF Connects
<1>18. ASSUME NEW s \in Servers, Reconnects(s) PROVE ReportsAgree'
  <2>1. PICK q \in Servers : adrift[q].running /\ Listing(s, Back(q))
    BY <1>18, Zenon DEF Reconnects, Back
  <2> QED BY <1>0, <1>l, <2>1, BackIs
<1>8. ASSUME NEW s \in Servers, Removed(s) PROVE ReportsAgree'
  <2>1. ASSUME NEW q \in Servers, q # s PROVE Agrees(q)'
    <3>1. /\ toZone'[q] = toZone[q] /\ zone_server'[q] = zone_server[q]
          /\ conn'[q] = conn[q] /\ process'[q] = process[q] /\ toWorld'[q] = toWorld[q]
      BY <1>0, <1>8, <2>1, TypeIs DEF Removed
    <3> QED BY <3>1, AgreesFrame DEF ReportsAgree
  <2>2. Agrees(s)'
    BY <1>0, <1>8, TypeIs DEF Removed, Agrees
  <2> QED BY <2>1, <2>2 DEF ReportsAgree
<1>9. ASSUME NEW s \in Servers, SetZone(s) PROVE ReportsAgree'
  <2> DEFINE z == toWorld[s][1].zone
             servers == Reported(s, z)
  <2>1. /\ conn[s] = "listed" /\ z \in 0 .. NZones /\ toWorld[s][1].op = "SetZone"
        /\ Popped(toWorld'[s], toWorld[s])
        /\ \A q \in Servers : q # s => toWorld'[q] = toWorld[q]
        /\ UNCHANGED <<conn, process, adrift, tries>>
    BY <1>0, <1>9, SetZoneDoes
  <2>l. PICK locked \in SUBSET LetIn(z) : \E d :
          Entered(LetIn(z), locked, TurnedAway(s, z), z, servers, d)
    BY <1>0, <1>9, SetZoneDoes
  <2>2. PICK d :
          Entered(LetIn(z), locked, TurnedAway(s, z), z, servers, d)
    BY <2>l
  <2>3. \A q \in Servers : q # s => servers[q] = zone_server[q]
    BY <1>0, TypeIs DEF Reported
  <2>4. servers[s].zone = z /\ ~servers[s].booting /\ servers[s].booting \in BOOLEAN
    BY <1>0, TypeIs DEF Reported
  <2> HIDE DEF servers
  <2>5. ASSUME NEW q \in Servers, q # s PROVE Agrees(q)'
    <3>1. conn[q] = "listed" /\ process[q].running =>
            /\ LastReport(q)'
            /\ NoReport(q)' /\ NoOrder(q) =>
                 servers[q].zone = process[q].loaded /\ ~servers[q].booting
      <4>1. servers[q] = zone_server[q] /\ toWorld'[q] = toWorld[q]
            /\ process'[q] = process[q]
        BY <2>1, <2>3, <2>5
      <4>2. Agrees(q)
        BY DEF ReportsAgree
      <4>3. (LastReport(q)' <=> LastReport(q)) /\ (NoReport(q)' <=> NoReport(q))
        BY <4>1 DEF LastReport, NoReport
      <4> QED BY <4>1, <4>2, <4>3 DEF Agrees
    <3>2. servers[q].booting \in BOOLEAN /\ conn'[q] = conn[q] /\ process'[q] = process[q]
      BY <1>t, <2>1, <2>3, <2>5
    <3> HIDE DEF z
    <3> QED BY <2>2, <3>1, <3>2, EnteredAgrees
  <2>6. Agrees(s)'
    <3>1. conn[s] = "listed" /\ process[s].running =>
            /\ LastReport(s)'
            /\ NoReport(s)' /\ NoOrder(s) =>
                 servers[s].zone = process[s].loaded /\ ~servers[s].booting
      <4> SUFFICES ASSUME process[s].running
                   PROVE  LastReport(s)' /\ (NoReport(s)' => z = process[s].loaded)
        BY <2>4
      <4>1. LastReport(s)
        BY <2>1 DEF ReportsAgree, Agrees
      <4>2. ~NoReport(s)
        BY <2>1 DEF NoReport, Popped
      <4> QED BY <2>1, <4>1, <4>2, PoppedAgrees
    <3> HIDE DEF z
    <3> QED BY <2>1, <2>2, <2>4, <3>1, EnteredAgrees
  <2> QED BY <2>5, <2>6 DEF ReportsAgree
<1>10. ASSUME NEW s \in Servers, AcceptReply(s) PROVE ReportsAgree'
  <2>1. Gets(toWorld, s, "AcceptWorldEntrance")
        /\ toWorld' = [toWorld EXCEPT ![s] = Tail(@)]
        /\ UNCHANGED <<conn, zone_server, process, adrift, toZone, tries>>
    BY <1>10 DEF AcceptReply
  <2>2. /\ toWorld[s][1].op = "AcceptWorldEntrance"
        /\ Popped(toWorld'[s], toWorld[s])
        /\ \A q \in Servers : q # s => toWorld'[q] = toWorld[q]
    BY <1>0, <2>1, WorldGets
  <2>3. ASSUME NEW q \in Servers, q # s PROVE Agrees(q)'
    BY <2>1, <2>2, <2>3, AgreesFrame DEF ReportsAgree
  <2>4. Agrees(s)'
    <3> SUFFICES ASSUME conn[s] = "listed", process[s].running
                 PROVE  LastReport(s)' /\ (NoReport(s)' => NoReport(s))
      BY <2>1 DEF ReportsAgree, Agrees, NoOrder
    <3>1. LastReport(s)'
      BY <2>1, <2>2, PoppedAgrees DEF ReportsAgree, Agrees
    <3>2. ASSUME NoReport(s)', NEW i \in 1 .. Len(toWorld[s])
          PROVE  toWorld[s][i].op # "SetZone"
      <4>1. CASE i = 1
        BY <4>1, <2>2
      <4>2. CASE i # 1
        <5>1. i - 1 \in 1 .. Len(toWorld'[s]) /\ toWorld'[s][i - 1] = toWorld[s][i]
          BY <4>2, <2>2 DEF Popped
        <5> QED BY <3>2, <5>1 DEF NoReport
      <4> QED BY <4>1, <4>2
    <3> QED BY <3>1, <3>2 DEF NoReport
  <2> QED BY <2>3, <2>4 DEF ReportsAgree
<1>p. \A s \in Servers : process[s] \in ZoneProcess
  BY <1>0, TypeIs
<1>11. ASSUME NEW s \in Servers, ZoneBootup(s) PROVE ReportsAgree'
  <2>1. PICK z \in Zones :
          Handled(s, "ZoneBootup", [process[s] EXCEPT !.loaded = Loads(s, z)], Tells(s, z))
    BY <1>0, <1>11, ZoneBootupDoes
  <2> DEFINE p == [process[s] EXCEPT !.loaded = Loads(s, z)]
  <2>2. p.loaded = Loads(s, z)
    BY <1>p DEF ZoneProcess
  <2>3. AllReport(Tells(s, z), Loads(s, z))
    BY <1>0, TellsIs
  <2>4. Handled(s, "ZoneBootup", p, Tells(s, z))
    BY <2>1
  <2> HIDE DEF p
  <2> QED BY <2>2, <2>3, <2>4, HandledAgrees
<1>12. ASSUME NEW s \in Servers, ZoneIncClient(s) PROVE ReportsAgree'
  <2>1. PICK z \in Zones, c \in Clients :
          Handled(s, "ZoneIncClient", Admits(s, z, c), Tells(s, z))
    BY <1>0, <1>12, ZoneIncClientDoes
  <2> DEFINE p == Admits(s, z, c)
  <2>2. p.loaded = Loads(s, z)
    BY <1>0, AdmitsIs
  <2>3. AllReport(Tells(s, z), Loads(s, z))
    BY <1>0, TellsIs
  <2>4. Handled(s, "ZoneIncClient", p, Tells(s, z))
    BY <2>1
  <2> HIDE DEF p
  <2> QED BY <2>2, <2>3, <2>4, HandledAgrees
<1>13. ASSUME NEW s \in Servers, AcceptWorldEntrance(s) PROVE ReportsAgree'
  <2>1. PICK sent : /\ Handled(s, "AcceptWorldEntrance", process[s], sent)
                    /\ \A i \in 1 .. Len(sent) : sent[i].op = "AcceptWorldEntrance"
    BY <1>0, <1>13, AcceptDoes
  <2> QED BY <2>1, HandledAgrees
<1>14. ASSUME NEW s \in Servers, DropClient(s) PROVE ReportsAgree'
  <2>1. PICK c \in Clients :
          Handled(s, "DropClient", Drops(s, c), <<>>)
    BY <1>0, <1>14, DropDoes
  <2> DEFINE p == Drops(s, c)
  <2>2. p.loaded = process[s].loaded
    BY <1>0, DropsIs
  <2>3. Handled(s, "DropClient", p, <<>>)
    BY <2>1
  <2> HIDE DEF p
  <2>4. \A i \in 1 .. Len(<<>>) : <<>>[i].op # "SetZone"
    OBVIOUS
  <2> QED BY <2>2, <2>3, <2>4, HandledAgrees
<1>15. ASSUME NEW s \in Servers, ShutsDown(s) PROVE ReportsAgree'
  <2>1. AllReport(Reports(<<0>>), 0)
    <3>1. 0 \in 0 .. NZones
      BY <1>0
    <3> QED BY <3>1, ReportsIs, Zenon
  <2>2. /\ toWorld'[s] = toWorld[s] \o Reports(<<0>>)
        /\ process'[s].loaded = 0
        /\ \A q \in Servers : q # s =>
             toWorld'[q] = toWorld[q] /\ process'[q] = process[q]
        /\ UNCHANGED <<conn, zone_server, toZone>>
    <3>1. Ended.loaded = 0
      BY <1>n DEF Ended, ZoneProcess
    <3> QED BY <1>0, <1>15, <3>1, TypeIs DEF ShutsDown, Ended
  <2>3. ASSUME NEW q \in Servers, q # s PROVE Agrees(q)'
    BY <2>2, <2>3, AgreesFrame DEF ReportsAgree
  <2> DEFINE sent == Reports(<<0>>)
  <2> HIDE DEF sent
  <2>4. AllReport(sent, 0) /\ Grown(toWorld'[s], toWorld[s], sent)
    <3>1. sent \in Seq(ToWorldMsg) /\ toWorld'[s] = toWorld[s] \o sent
      BY <2>1, <2>2 DEF sent, AllReport
    <3> QED BY <1>t, <2>1, <3>1, ConcatGrows DEF sent
  <2>5. /\ Len(toWorld'[s]) \in 1 .. Len(toWorld'[s])
        /\ Len(toWorld'[s]) \in Nat
        /\ toWorld'[s][Len(toWorld'[s])] = Report(0)
    BY <2>4, GrownLast
  <2>6. ~NoReport(s)'
    BY <2>5 DEF NoReport, Report
  <2>7. LastReport(s)'
    <3> SUFFICES ASSUME NEW i \in 1 .. Len(toWorld'[s]),
                        \A j \in 1 .. Len(toWorld'[s]) :
                          j > i => toWorld'[s][j].op # "SetZone"
                 PROVE  toWorld'[s][i].zone = 0
      BY <2>2 DEF LastReport
    <3>1. i = Len(toWorld'[s])
      BY <2>5 DEF Report
    <3> QED BY <2>5, <3>1 DEF Report
  <2>8. Agrees(s)'
    BY <2>6, <2>7 DEF Agrees
  <2> QED BY <2>3, <2>8 DEF ReportsAgree
<1>e. ASSUME NEW s \in Servers, process' = [process EXCEPT ![s] = NoProcess],
             UNCHANGED <<conn, zone_server, toZone, toWorld>>
      PROVE  ReportsAgree'
  <2>1. ASSUME NEW q \in Servers, q # s PROVE Agrees(q)'
    <3>1. process'[q] = process[q]
      BY <1>0, <1>e, <2>1, TypeIs
    <3> QED BY <1>e, <3>1, AgreesFrame DEF ReportsAgree
  <2>2. Agrees(s)'
    <3>1. ~process'[s].running
      BY <1>0, <1>n, <1>e, TypeIs
    <3> QED BY <3>1 DEF Agrees
  <2> QED BY <2>1, <2>2 DEF ReportsAgree
<1>16. ASSUME NEW s \in Servers, Crashes(s) PROVE ReportsAgree'
  BY <1>e, <1>16 DEF Crashes
<1>19. ASSUME NEW s \in Servers, LinkBreaks(s) PROVE ReportsAgree'
  BY <1>e, <1>19 DEF LinkBreaks
<1>20. ASSUME NEW s \in Servers, AuthTimeout(s) PROVE ReportsAgree'
  <2>g. PICK gone \in (SUBSET process[s].auth) \ {{}} :
          process' = [process EXCEPT ![s] = Forgets(s, gone)]
    BY <1>20, Zenon DEF AuthTimeout, Forgets
  <2>1. /\ Forgets(s, gone).running = process[s].running
        /\ Forgets(s, gone).loaded = process[s].loaded
    BY <1>0, ForgetsIs
  <2>2. ASSUME NEW q \in Servers
        PROVE  /\ process'[q].running = process[q].running
               /\ process'[q].loaded = process[q].loaded
    BY <1>0, <2>g, <2>1, TypeIs
  <2>3. UNCHANGED <<conn, zone_server, toZone, toWorld>>
    BY <1>20 DEF AuthTimeout
  <2> QED BY <2>2, <2>3 DEF ReportsAgree, Agrees, LastReport, NoReport, NoOrder
<1>17. CASE UNCHANGED vars
  BY <1>17, <1>s DEF vars
<1> QED BY <1>1, <1>2, <1>3, <1>4, <1>5, <1>6, <1>7, <1>8, <1>9, <1>10, <1>11,
           <1>12, <1>13, <1>14, <1>15, <1>16, <1>17, <1>18, <1>19, <1>20 DEF Next

(***************************************************************************)
(* AdmittedOnce: at most one server is to let a player in                  *)
(***************************************************************************)
NoDrop(link, c, k) ==
  \A j \in 1 .. Len(link) :
    j > k => ~(link[j].op = "DropClient" /\ link[j].client = c)

\* An announcement of c is on its way that no drop follows.
Announced(link, c) ==
  \E i \in 1 .. Len(link) :
    /\ link[i].op = "ZoneIncClient" /\ link[i].client = c
    /\ NoDrop(link, c, i)

\* Once the packets on their way to s are handled, s holds the authorization, or
\* held it until it ran out.
Bound(c, s) ==
  \/ c \in Held(process[s]) /\ NoDrop(toZone[s], c, 0)
  \/ Announced(toZone[s], c)

BoundOnce ==
  \A c \in Clients, s, q \in Servers : Bound(c, s) /\ Bound(c, q) => s = q

LEMMA BoundFrame ==
  ASSUME NEW c, NEW s, toZone'[s] = toZone[s], Held(process'[s]) = Held(process[s])
  PROVE  Bound(c, s)' <=> Bound(c, s)
BY DEF Bound, Announced, NoDrop, Held

LEMMA NotBound ==
  ASSUME NEW c, NEW s, toZone[s] = <<>>, Held(process[s]) = {}
  PROVE  ~Bound(c, s)
BY DEF Bound, Announced

LEMMA NoDropPopped ==
  ASSUME NEW new, NEW old, NEW c, Popped(new, old)
  PROVE  /\ \A k \in 1 .. Len(old) : NoDrop(old, c, k) <=> NoDrop(new, c, k - 1)
         /\ NoDrop(old, c, 0) <=>
              NoDrop(new, c, 0) /\ ~(old[1].op = "DropClient" /\ old[1].client = c)
<1>1. Len(old) \in Nat \ {0} /\ Len(new) = Len(old) - 1
      /\ \A i \in 1 .. Len(new) : new[i] = old[i + 1]
  BY DEF Popped
<1>2. \A i \in 1 .. Len(old) : i > 1 =>
        i - 1 \in 1 .. Len(new) /\ new[i - 1] = old[i]
  BY <1>1
<1>3. \A i \in 1 .. Len(new) : i + 1 \in 1 .. Len(old) /\ new[i] = old[i + 1]
  BY <1>1
<1>4. ASSUME NEW k \in 1 .. Len(old) PROVE NoDrop(old, c, k) <=> NoDrop(new, c, k - 1)
  <2>1. ASSUME NoDrop(old, c, k), NEW j \in 1 .. Len(new), j > k - 1
        PROVE  ~(new[j].op = "DropClient" /\ new[j].client = c)
    <3>1. j + 1 \in 1 .. Len(old) /\ new[j] = old[j + 1] /\ j + 1 > k
      BY <1>3, <2>1
    <3> QED BY <3>1, <2>1 DEF NoDrop
  <2>2. ASSUME NoDrop(new, c, k - 1), NEW j \in 1 .. Len(old), j > k
        PROVE  ~(old[j].op = "DropClient" /\ old[j].client = c)
    <3>1. j - 1 \in 1 .. Len(new) /\ new[j - 1] = old[j] /\ j - 1 > k - 1
      BY <1>2, <2>2
    <3> QED BY <3>1, <2>2 DEF NoDrop
  <2> QED BY <2>1, <2>2 DEF NoDrop
<1>5. 1 \in 1 .. Len(old) /\ (NoDrop(old, c, 1) <=> NoDrop(new, c, 0))
  <2>1. 1 \in 1 .. Len(old) /\ 1 - 1 = 0
    BY <1>1
  <2> QED BY <2>1, <1>4
<1>6. NoDrop(old, c, 0) <=>
        NoDrop(old, c, 1) /\ ~(old[1].op = "DropClient" /\ old[1].client = c)
  BY <1>5, <1>1 DEF NoDrop
<1> QED BY <1>4, <1>5, <1>6

LEMMA AnnouncedPopped ==
  ASSUME NEW new, NEW old, NEW c, Popped(new, old)
  PROVE  Announced(old, c) <=>
           \/ Announced(new, c)
           \/ /\ old[1].op = "ZoneIncClient" /\ old[1].client = c
              /\ NoDrop(new, c, 0)
<1>1. Len(old) \in Nat \ {0} /\ Len(new) = Len(old) - 1
      /\ \A i \in 1 .. Len(new) : new[i] = old[i + 1]
  BY DEF Popped
<1>2. 1 \in 1 .. Len(old) /\ (NoDrop(old, c, 1) <=> NoDrop(new, c, 0))
  <2>1. 1 \in 1 .. Len(old) /\ 1 - 1 = 0
    BY <1>1
  <2> QED BY <2>1, NoDropPopped
<1>3. ASSUME NEW i \in 1 .. Len(new), new[i].op = "ZoneIncClient",
             new[i].client = c, NoDrop(new, c, i)
      PROVE  Announced(old, c)
  <2>1. i + 1 \in 1 .. Len(old) /\ (i + 1) - 1 = i /\ old[i + 1] = new[i]
    BY <1>1
  <2>2. NoDrop(new, c, (i + 1) - 1)
    BY <1>3, <2>1
  <2>3. NoDrop(old, c, i + 1)
    BY <2>1, <2>2, NoDropPopped
  <2> QED BY <1>3, <2>1, <2>3 DEF Announced
<1>4. ASSUME NEW i \in 1 .. Len(old), old[i].op = "ZoneIncClient",
             old[i].client = c, NoDrop(old, c, i), i # 1
      PROVE  Announced(new, c)
  <2>1. i - 1 \in 1 .. Len(new) /\ old[i] = new[i - 1]
    BY <1>1, <1>4
  <2>2. NoDrop(new, c, i - 1)
    BY <1>4, NoDropPopped
  <2> QED BY <1>4, <2>1, <2>2 DEF Announced
<1> QED BY <1>2, <1>3, <1>4 DEF Announced

\* Handling a packet makes no process one that is to let c in.
LEMMA HandledBound ==
  ASSUME NEW s \in Servers, NEW what, NEW p, NEW sent, Handled(s, what, p, sent),
         NEW c, NEW q \in Servers,
         \A e : e \in Held(p) \ Held(process[s]) =>
           toZone[s][1].op = "ZoneIncClient" /\ toZone[s][1].client = e,
         \A e : toZone[s][1].op = "DropClient" /\ toZone[s][1].client = e =>
           e \notin Held(p)
  PROVE  Bound(c, q)' => Bound(c, q)
<1>1. CASE q # s
  <2>1. toZone'[q] = toZone[q] /\ Held(process'[q]) = Held(process[q])
    BY <1>1 DEF Handled
  <2> QED BY <2>1, BoundFrame
<1>2. CASE q = s
  <2>1. Popped(toZone'[s], toZone[s]) /\ process'[s] = p
    BY DEF Handled
  <2>2. /\ NoDrop(toZone[s], c, 0) <=>
             /\ NoDrop(toZone'[s], c, 0)
             /\ ~(toZone[s][1].op = "DropClient" /\ toZone[s][1].client = c)
        /\ Announced(toZone[s], c) <=>
           \/ Announced(toZone'[s], c)
           \/ /\ toZone[s][1].op = "ZoneIncClient" /\ toZone[s][1].client = c
              /\ NoDrop(toZone'[s], c, 0)
    BY <2>1, NoDropPopped, AnnouncedPopped
  <2>3. Bound(c, s)' <=> (c \in Held(p) /\ NoDrop(toZone'[s], c, 0))
                           \/ Announced(toZone'[s], c)
    BY <2>1 DEF Bound, NoDrop, Announced, Held
  <2> QED BY <1>2, <2>2, <2>3 DEF Bound
<1> QED BY <1>1, <1>2

\* ... and one that was to let c in still is, unless the announcement is of
\* another zone than its own.
LEMMA HandledStillBound ==
  ASSUME NEW s \in Servers, NEW what, NEW p, NEW sent, Handled(s, what, p, sent),
         NEW c, NEW q \in Servers, Bound(c, q),
         toZone[s][1].op = "ZoneIncClient" /\ toZone[s][1].client = c => c \in Held(p),
         c \in Held(process[s]) =>
           \/ toZone[s][1].op = "DropClient" /\ toZone[s][1].client = c
           \/ c \in Held(p)
  PROVE  Bound(c, q)'
<1>1. CASE q # s
  <2>1. toZone'[q] = toZone[q] /\ Held(process'[q]) = Held(process[q])
    BY <1>1 DEF Handled
  <2> QED BY <2>1, BoundFrame
<1>2. CASE q = s
  <2>1. Popped(toZone'[s], toZone[s]) /\ process'[s] = p
    BY DEF Handled
  <2>2. /\ NoDrop(toZone[s], c, 0) <=>
             /\ NoDrop(toZone'[s], c, 0)
             /\ ~(toZone[s][1].op = "DropClient" /\ toZone[s][1].client = c)
        /\ Announced(toZone[s], c) <=>
           \/ Announced(toZone'[s], c)
           \/ /\ toZone[s][1].op = "ZoneIncClient" /\ toZone[s][1].client = c
              /\ NoDrop(toZone'[s], c, 0)
    BY <2>1, NoDropPopped, AnnouncedPopped
  <2>3. Bound(c, s)' <=> (c \in Held(p) /\ NoDrop(toZone'[s], c, 0))
                           \/ Announced(toZone'[s], c)
    BY <2>1 DEF Bound, NoDrop, Announced, Held
  <2> QED BY <1>2, <2>2, <2>3 DEF Bound
<1> QED BY <1>1, <1>2

\* A link that grows by packets that do not speak of c.
LEMMA UnspokenGrowth ==
  ASSUME NEW new, NEW old, NEW c, Len(old) \in Nat, Len(new) \in Nat,
         Len(new) >= Len(old),
         \A i \in 1 .. Len(old) : new[i] = old[i],
         \A i \in 1 .. Len(new) : i > Len(old) =>
           ~(new[i].op \in {"ZoneIncClient", "DropClient"} /\ new[i].client = c)
  PROVE  /\ NoDrop(new, c, 0) <=> NoDrop(old, c, 0)
         /\ Announced(new, c) <=> Announced(old, c)
<1>1. \A k \in 0 .. Len(old) : NoDrop(new, c, k) <=> NoDrop(old, c, k)
  <2> SUFFICES ASSUME NEW k \in 0 .. Len(old)
               PROVE  NoDrop(new, c, k) <=> NoDrop(old, c, k)
    OBVIOUS
  <2>1. \A i \in 1 .. Len(old) : i \in 1 .. Len(new)
    OBVIOUS
  <2>2. \A i \in 1 .. Len(new) : i \notin 1 .. Len(old) => i > Len(old)
    OBVIOUS
  <2> QED BY <2>1, <2>2 DEF NoDrop
<1>2. \A i \in 1 .. Len(old) : i \in 1 .. Len(new) /\ i \in 0 .. Len(old)
  OBVIOUS
<1>3. \A i \in 1 .. Len(new) : i \notin 1 .. Len(old) => i > Len(old)
  OBVIOUS
<1>4. Announced(new, c) <=> Announced(old, c)
  BY <1>1, <1>2, <1>3 DEF Announced
<1> QED BY <1>1, <1>4

LEMMA WarnedIs ==
  ASSUME NEW q, NEW d, NEW z, NEW entering, NEW locked, NEW m,
         Warned(q, d, z, entering, locked, m)
  PROVE  /\ m.client \in entering
         /\ m.op \in {"ZoneIncClient", "DropClient", "AcceptWorldEntrance"}
         /\ m.op = "ZoneIncClient" =>
              q = d /\ m.zone = z /\ ~client[m.client].triggered
         /\ m.op = "DropClient" => q # d /\ ~client[m.client].triggered
         /\ m.op = "AcceptWorldEntrance" =>
              q = d /\ client[m.client].seen /\ m.client \notin locked
<1>1. PICK c \in entering :
        \/ ~client[c].triggered /\ m = Announcement(q, d, z, c)
        \/ q = d /\ client[c].seen /\ c \notin locked /\ m = Question(c)
  BY DEF Warned
<1>2. CASE ~client[c].triggered /\ m = Announcement(q, d, z, c) /\ q = d
  BY <1>2 DEF Announcement
<1>3. CASE ~client[c].triggered /\ m = Announcement(q, d, z, c) /\ q # d
  BY <1>3 DEF Announcement
<1>4. CASE q = d /\ client[c].seen /\ c \notin locked /\ m = Question(c)
  BY <1>4 DEF Question
<1> QED BY <1>1, <1>2, <1>3, <1>4

LEMMA EnteredBound ==
  ASSUME TypeOK, NEW entering, NEW locked, NEW failed, NEW z, NEW servers, NEW d,
         Entered(entering, locked, failed, z, servers, d), process' = process,
         NEW c \in Clients, NEW q \in Servers
  PROVE  /\ ~(c \in entering /\ ~client[c].triggered) => (Bound(c, q)' <=> Bound(c, q))
         /\ q \notin Listed => (Bound(c, q)' <=> Bound(c, q))
         /\ c \in entering /\ ~client[c].triggered /\ q \in Listed =>
              (Bound(c, q)' <=> q = d)
<1>1. CASE q \notin Listed
  <2>1. toZone'[q] = toZone[q]
    BY <1>1 DEF Entered, Sends
  <2> QED BY <1>1, <2>1, BoundFrame
<1>2. CASE q \in Listed
  <2> DEFINE old == toZone[q]
             new == toZone'[q]
  <2>1. /\ Len(old) \in Nat /\ Len(new) \in Nat /\ Len(new) >= Len(old)
        /\ \A i \in 1 .. Len(old) : new[i] = old[i]
        /\ \A i \in 1 .. Len(new) : i > Len(old) =>
             Warned(q, d, z, entering, locked, new[i])
        /\ \A m : Warned(q, d, z, entering, locked, m) =>
             \E i \in 1 .. Len(new) : i > Len(old) /\ new[i] = m
    <3>1. old \in Seq(ToZoneMsg) /\ new \in Seq(ToZoneMsg)
      BY DEF TypeOK, Entered, Sends
    <3>2. Len(old) \in Nat /\ Len(new) \in Nat
      BY <3>1, LenProperties
    <3> QED BY <1>2, <3>2 DEF Entered, Sends
  <2>2. Bound(c, q)' <=> (c \in Held(process[q]) /\ NoDrop(new, c, 0)) \/ Announced(new, c)
    BY DEF Bound, NoDrop, Announced, Held
  <2>3. Bound(c, q) <=> (c \in Held(process[q]) /\ NoDrop(old, c, 0)) \/ Announced(old, c)
    BY DEF Bound
  <2> HIDE DEF old, new
  <2>4. CASE ~(c \in entering /\ ~client[c].triggered)
    <3>1. \A i \in 1 .. Len(new) : i > Len(old) =>
           ~(new[i].op \in {"ZoneIncClient", "DropClient"} /\ new[i].client = c)
      BY <2>1, <2>4, WarnedIs
    <3>2. /\ NoDrop(new, c, 0) <=> NoDrop(old, c, 0)
          /\ Announced(new, c) <=> Announced(old, c)
      BY <2>1, <3>1, UnspokenGrowth
    <3> QED BY <1>2, <2>2, <2>3, <2>4, <3>2
  <2>5. CASE c \in entering /\ ~client[c].triggered /\ q = d
    <3>1. Warned(q, d, z, entering, locked, Announcement(q, d, z, c))
      BY <2>5 DEF Warned
    <3>2. PICK i \in 1 .. Len(new) : i > Len(old) /\ new[i] = Announcement(q, d, z, c)
      BY <2>1, <3>1
    <3>3. new[i].op = "ZoneIncClient" /\ new[i].client = c
      BY <2>5, <3>2 DEF Announcement
    <3>4. \A j \in 1 .. Len(new) : j > Len(old) => new[j].op # "DropClient"
      BY <2>1, <2>5, WarnedIs
    <3>5. NoDrop(new, c, i)
      BY <2>1, <3>2, <3>4 DEF NoDrop
    <3>6. Announced(new, c)
      BY <3>2, <3>3, <3>5 DEF Announced
    <3> QED BY <1>2, <2>2, <2>5, <3>6
  <2>6. CASE c \in entering /\ ~client[c].triggered /\ q # d
    <3>1. Warned(q, d, z, entering, locked, Announcement(q, d, z, c))
      BY <2>6 DEF Warned
    <3>2. PICK i \in 1 .. Len(new) : i > Len(old) /\ new[i] = Announcement(q, d, z, c)
      BY <2>1, <3>1
    <3>3. new[i].op = "DropClient" /\ new[i].client = c
      BY <2>6, <3>2 DEF Announcement
    <3>4. \A j \in 1 .. Len(new) : j > Len(old) => new[j].op # "ZoneIncClient"
      BY <2>1, <2>6, WarnedIs
    <3>5. ~NoDrop(new, c, 0)
      BY <2>1, <3>2, <3>3 DEF NoDrop
    <3>6. ~Announced(new, c)
      <4> SUFFICES ASSUME NEW j \in 1 .. Len(new), new[j].op = "ZoneIncClient",
                          NoDrop(new, c, j)
                   PROVE  FALSE
        BY DEF Announced
      <4>1. ~(j > Len(old))
        BY <3>4
      <4>2. i > j
        BY <4>1, <2>1, <3>2
      <4> QED BY <4>2, <3>2, <3>3 DEF NoDrop
    <3> QED BY <1>2, <2>2, <2>6, <3>5, <3>6
  <2> QED BY <2>4, <2>5, <2>6
<1> QED BY <1>1, <1>2

\* An order to boot changes nothing for the players.
LEMMA BootsBound ==
  ASSUME TypeOK, NEW b \in Clients, NEW z \in Zones, EnterBoots(b, z),
         NEW c \in Clients, NEW q \in Servers
  PROVE  Bound(c, q)' <=> Bound(c, q)
<1> DEFINE m == [op |-> "ZoneBootup", zone |-> z]
<1>1. PICK s \in Servers : s = IdleServer
  BY IdleIs DEF EnterBoots, Listed
<1>2. toZone' = [toZone EXCEPT ![s] = Append(@, m)] /\ process' = process
  BY <1>1 DEF EnterBoots, Chooses
<1>3. m \in ToZoneMsg /\ m.op = "ZoneBootup"
  BY DEF ToZoneMsg
<1> HIDE DEF m
<1>4. CASE q # s
  <2>1. toZone'[q] = toZone[q]
    BY <1>2, <1>4, TypeIs
  <2> QED BY <1>2, <2>1, BoundFrame
<1>5. CASE q = s
  <2> DEFINE old == toZone[s]
             new == Append(old, m)
  <2>1. old \in Seq(ToZoneMsg) /\ toZone'[s] = new
    BY <1>2, TypeIs
  <2> HIDE DEF old
  <2>2. /\ Len(old) \in Nat /\ Len(new) = Len(old) + 1
        /\ \A i \in 1 .. Len(old) : new[i] = old[i]
        /\ new[Len(old) + 1] = m
    BY <1>3, <2>1, AppendProperties, LenProperties
  <2>3. \A i \in 1 .. Len(new) : i > Len(old) =>
          ~(new[i].op \in {"ZoneIncClient", "DropClient"} /\ new[i].client = c)
    <3> SUFFICES ASSUME NEW i \in 1 .. Len(new), i > Len(old)
                 PROVE  new[i] = m
      BY <1>3
    <3>1. i = Len(old) + 1
      BY <2>2
    <3> QED BY <2>2, <3>1
  <2>4. Len(new) \in Nat /\ Len(new) >= Len(old)
    BY <2>2
  <2> HIDE DEF new
  <2>5. /\ NoDrop(new, c, 0) <=> NoDrop(old, c, 0)
        /\ Announced(new, c) <=> Announced(old, c)
    BY <2>2, <2>3, <2>4, UnspokenGrowth
  <2>6. Bound(c, s)' <=> (c \in Held(process[s]) /\ NoDrop(new, c, 0)) \/ Announced(new, c)
    <3>1. Bound(c, s)' <=> (c \in Held(process'[s]) /\ NoDrop(toZone'[s], c, 0))
                             \/ Announced(toZone'[s], c)
      BY DEF Bound, NoDrop, Announced, Held
    <3> QED BY <1>2, <2>1, <3>1
  <2> QED BY <1>5, <2>5, <2>6 DEF Bound, old
<1> QED BY <1>4, <1>5

LEMMA NextBoundOnce ==
  ASSUME WorldEntryAssumption, TypeAndTidy, BoundOnce, [Next]_vars
  PROVE  BoundOnce'
<1> USE WorldEntryAssumption
<1>0. TypeOK /\ Tidy
  BY DEF TypeAndTidy
<1>n. /\ NoProcess \in ZoneProcess /\ Held(NoProcess) = {}
      /\ Held([NoProcess EXCEPT !.running = TRUE]) = {} /\ Held(Ended) = {}
  <2>1. NServers \in Nat /\ NZones \in Nat
    BY DEF WorldEntryAssumption
  <2>2. NoProcess \in ZoneProcess /\ NoProcess.auth = {} /\ NoProcess.lapsed = {}
    BY <2>1 DEF NoProcess, ZoneProcess
  <2> QED BY <2>2 DEF Held, Ended, ZoneProcess
<1>p. \A s \in Servers : process[s] \in ZoneProcess
                         /\ (process[s].loaded = 0 => Held(process[s]) = {})
  BY <1>0, TypeIs DEF Tidy, Held
<1>s. ASSUME \A c \in Clients, q \in Servers : Bound(c, q)' => Bound(c, q)
      PROVE  BoundOnce'
  BY <1>s DEF BoundOnce
<1>f. ASSUME UNCHANGED <<process, toZone>> PROVE BoundOnce'
  BY <1>f, <1>s, BoundFrame
<1>e. ASSUME NEW entering, NEW locked, NEW failed, NEW z, NEW servers, NEW d,
             Entered(entering, locked, failed, z, servers, d), process' = process
      PROVE  BoundOnce'
  <2> SUFFICES ASSUME NEW c \in Clients, NEW s \in Servers, NEW q \in Servers,
                      Bound(c, s)', Bound(c, q)'
               PROVE  s = q
    BY DEF BoundOnce
  <2>1. CASE ~(c \in entering /\ ~client[c].triggered)
    <3>1. Bound(c, s) /\ Bound(c, q)
      BY <1>0, <1>e, <2>1, EnteredBound
    <3> QED BY <3>1 DEF BoundOnce
  <2>2. CASE c \in entering /\ ~client[c].triggered
    <3>1. \A r \in Servers : Bound(c, r)' => r \in Listed
      <4> SUFFICES ASSUME NEW r \in Servers, Bound(c, r)', r \notin Listed
                   PROVE  FALSE
        OBVIOUS
      <4>1. Bound(c, r)
        BY <1>0, <1>e, EnteredBound
      <4>2. toZone[r] = <<>> /\ Held(process[r]) = {}
        BY <1>0, <1>p DEF Tidy, Listed
      <4> QED BY <4>1, <4>2, NotBound
    <3> QED BY <1>0, <1>e, <2>2, <3>1, EnteredBound
  <2> QED BY <2>1, <2>2
<1>1. ASSUME NEW c \in Clients, NewSession(c) PROVE BoundOnce'
  BY <1>1, <1>f DEF NewSession
<1>2. ASSUME NEW c \in Clients, SessionEnds(c) PROVE BoundOnce'
  BY <1>2, <1>f DEF SessionEnds
<1>3. ASSUME NEW c \in Clients, AutobootTimeout(c) PROVE BoundOnce'
  BY <1>3, <1>f DEF AutobootTimeout
<1>4. ASSUME NEW c \in Clients, NEW z \in Zones, EnterHosted(c, z) PROVE BoundOnce'
  <2>1. PICK locked \in SUBSET {c}, d \in Listed :
          Entered({c}, locked, {}, z, zone_server, d)
    BY <1>0, <1>4, EnterHostedDoes
  <2>2. process' = process
    BY <1>4 DEF EnterHosted, Chooses
  <2> QED BY <2>1, <2>2, <1>e
<1>5. ASSUME NEW c \in Clients, NEW z \in Zones, EnterBoots(c, z) PROVE BoundOnce'
  <2>1. ASSUME NEW e \in Clients, NEW q \in Servers
        PROVE  Bound(e, q)' <=> Bound(e, q)
    BY <1>0, <1>5, <2>1, BootsBound
  <2> QED BY <2>1, <1>s
<1>6. ASSUME NEW c \in Clients, NEW z \in Zones, EnterNowhere(c, z) PROVE BoundOnce'
  BY <1>6, <1>f DEF EnterNowhere, Chooses
<1>d. ASSUME NEW s \in Servers, NEW p, Held(p) = {}, toZone' = toZone,
             process' = [process EXCEPT ![s] = p]
      PROVE  BoundOnce'
  <2>1. ASSUME NEW c \in Clients, NEW q \in Servers, Bound(c, q)'
        PROVE  Bound(c, q)
    <3>1. CASE q = s
      <4>1. process'[s] = p
        BY <1>0, <1>d, TypeIs
      <4> QED BY <1>d, <2>1, <3>1, <4>1 DEF Bound, Announced, NoDrop, Held
    <3>2. CASE q # s
      <4>1. Held(process'[q]) = Held(process[q])
        BY <1>0, <1>d, <3>2, TypeIs
      <4> QED BY <1>d, <2>1, <4>1, BoundFrame
    <3> QED BY <3>1, <3>2
  <2> QED BY <2>1, <1>s
<1>7. ASSUME NEW s \in Servers, Connects(s) PROVE BoundOnce'
  BY <1>d, <1>n, <1>7 DEF Connects, Listing
<1>18. ASSUME NEW s \in Servers, Reconnects(s) PROVE BoundOnce'
  <2>1. PICK q \in Servers : adrift[q].running /\ Listing(s, Back(q))
    BY <1>18, Zenon DEF Reconnects, Back
  <2>2. Held(Back(q)) = {}
    BY <1>0, <2>1, BackIs
  <2>3. toZone' = toZone /\ process' = [process EXCEPT ![s] = Back(q)]
    BY <2>1 DEF Listing
  <2> QED BY <1>d, <2>2, <2>3
<1>8. ASSUME NEW s \in Servers, Removed(s) PROVE BoundOnce'
  <2>1. ASSUME NEW c \in Clients, NEW q \in Servers, Bound(c, q)'
        PROVE  Bound(c, q)
    <3>1. CASE q = s
      <4>1. toZone'[s] = <<>> /\ process' = process /\ Held(process[s]) = {}
        BY <1>0, <1>8, <1>p, TypeIs DEF Removed, Tidy
      <4>2. ~Bound(c, s)'
        BY <4>1 DEF Bound, Announced, Held
      <4> QED BY <3>1, <4>2, <2>1
    <3>2. CASE q # s
      <4>1. toZone'[q] = toZone[q] /\ process'[q] = process[q]
        BY <1>0, <1>8, <3>2, TypeIs DEF Removed
      <4> QED BY <4>1, <2>1, BoundFrame
    <3> QED BY <3>1, <3>2
  <2> QED BY <2>1, <1>s
<1>9. ASSUME NEW s \in Servers, SetZone(s) PROVE BoundOnce'
  <2>1. process' = process
    BY <1>9 DEF SetZone
  <2> DEFINE z == toWorld[s][1].zone
             servers == Reported(s, z)
  <2>l. PICK locked \in SUBSET LetIn(z) : \E d :
          Entered(LetIn(z), locked, TurnedAway(s, z), z, servers, d)
    BY <1>0, <1>9, SetZoneDoes
  <2>2. PICK d :
          Entered(LetIn(z), locked, TurnedAway(s, z), z, servers, d)
    BY <2>l
  <2> HIDE DEF z, servers
  <2> QED BY <2>1, <2>2, <1>e
<1>10. ASSUME NEW s \in Servers, AcceptReply(s) PROVE BoundOnce'
  BY <1>10, <1>f DEF AcceptReply
<1>11. ASSUME NEW s \in Servers, ZoneBootup(s) PROVE BoundOnce'
  <2>1. PICK z \in Zones :
          /\ toZone[s][1] = [op |-> "ZoneBootup", zone |-> z]
          /\ Handled(s, "ZoneBootup", [process[s] EXCEPT !.loaded = Loads(s, z)], Tells(s, z))
    BY <1>0, <1>11, ZoneBootupDoes
  <2> DEFINE p == [process[s] EXCEPT !.loaded = Loads(s, z)]
  <2>2. Held(p) = Held(process[s])
    BY <1>p DEF ZoneProcess, Held
  <2>3. Handled(s, "ZoneBootup", p, Tells(s, z)) /\ toZone[s][1].op = "ZoneBootup"
    BY <2>1
  <2> HIDE DEF p
  <2> QED BY <2>2, <2>3, <1>s, HandledBound
<1>12. ASSUME NEW s \in Servers, ZoneIncClient(s) PROVE BoundOnce'
  <2>1. PICK z \in Zones, c \in Clients :
          /\ toZone[s][1] = [op |-> "ZoneIncClient", zone |-> z, client |-> c]
          /\ Handled(s, "ZoneIncClient", Admits(s, z, c), Tells(s, z))
    BY <1>0, <1>12, ZoneIncClientDoes
  <2> DEFINE p == Admits(s, z, c)
  <2>2. Held(p) \subseteq Held(process[s]) \cup {c}
    BY <1>0, AdmitsIs
  <2>3. Handled(s, "ZoneIncClient", p, Tells(s, z)) /\ toZone[s][1].op = "ZoneIncClient"
        /\ toZone[s][1].client = c
    BY <2>1
  <2> HIDE DEF p
  <2> QED BY <2>2, <2>3, <1>s, HandledBound
<1>13. ASSUME NEW s \in Servers, AcceptWorldEntrance(s) PROVE BoundOnce'
  <2>1. PICK c \in Clients, sent \in Seq(ToWorldMsg) :
          /\ toZone[s][1] = Question(c)
          /\ Handled(s, "AcceptWorldEntrance", process[s], sent)
    BY <1>0, <1>13, AcceptDoes
  <2>2. toZone[s][1].op = "AcceptWorldEntrance"
    BY <2>1 DEF Question
  <2> QED BY <2>1, <2>2, <1>s, HandledBound
<1>14. ASSUME NEW s \in Servers, DropClient(s) PROVE BoundOnce'
  <2>1. PICK c \in Clients :
          /\ toZone[s][1] = [op |-> "DropClient", client |-> c]
          /\ Handled(s, "DropClient", Drops(s, c), <<>>)
    BY <1>0, <1>14, DropDoes
  <2> DEFINE p == Drops(s, c)
  <2>2. Held(p) \subseteq Held(process[s]) /\ c \notin Held(p)
    BY <1>0, DropsIs
  <2>3. Handled(s, "DropClient", p, <<>>) /\ toZone[s][1].op = "DropClient"
        /\ toZone[s][1].client = c
    BY <2>1
  <2> HIDE DEF p
  <2> QED BY <2>2, <2>3, <1>s, HandledBound
<1>15. ASSUME NEW s \in Servers, ShutsDown(s) PROVE BoundOnce'
  BY <1>d, <1>n, <1>15 DEF ShutsDown, Ended
<1>16. ASSUME NEW s \in Servers, Crashes(s) PROVE BoundOnce'
  BY <1>d, <1>n, <1>16 DEF Crashes
<1>19. ASSUME NEW s \in Servers, LinkBreaks(s) PROVE BoundOnce'
  BY <1>d, <1>n, <1>19 DEF LinkBreaks
<1>20. ASSUME NEW s \in Servers, AuthTimeout(s) PROVE BoundOnce'
  <2>g. PICK gone \in (SUBSET process[s].auth) \ {{}} :
          process' = [process EXCEPT ![s] = Forgets(s, gone)]
    BY <1>20, Zenon DEF AuthTimeout, Forgets
  <2>1. Held(Forgets(s, gone)) = Held(process[s])
    BY <1>0, ForgetsIs
  <2>2. ASSUME NEW q \in Servers
        PROVE  toZone'[q] = toZone[q] /\ Held(process'[q]) = Held(process[q])
    <3>1. process'[q] = IF q = s THEN Forgets(s, gone) ELSE process[q]
      BY <1>0, <2>g, TypeIs
    <3> QED BY <1>20, <2>1, <3>1 DEF AuthTimeout
  <2> QED BY <2>2, <1>s, BoundFrame
<1>17. CASE UNCHANGED vars
  BY <1>17, <1>f DEF vars
<1> QED BY <1>1, <1>2, <1>3, <1>4, <1>5, <1>6, <1>7, <1>8, <1>9, <1>10, <1>11,
           <1>12, <1>13, <1>14, <1>15, <1>16, <1>17, <1>18, <1>19, <1>20 DEF Next

(***************************************************************************)
(* The theorems that need no assumption on the rules and the timing        *)
(***************************************************************************)
\* Connections are numbered as they come.
InOrder ==
  \A q, s \in Servers : q < s /\ conn[s] # "unborn" => conn[q] # "unborn"

LEMMA NextInOrder ==
  ASSUME WorldEntryAssumption, TypeAndTidy, InOrder, [Next]_vars
  PROVE  InOrder'
<1>0. TypeOK
  BY DEF TypeAndTidy
<1>1. ASSUME conn' = conn PROVE InOrder'
  BY <1>1 DEF InOrder
<1>2. ASSUME NEW s \in Servers, NEW p, Listing(s, p) PROVE InOrder'
  <2>1. /\ \A q \in Servers : q < s => conn[q] # "unborn"
        /\ conn'[s] = "listed" /\ \A q \in Servers : q # s => conn'[q] = conn[q]
    BY <1>0, <1>2, TypeIs DEF Listing
  <2> QED BY <2>1 DEF InOrder
<1>3. ASSUME NEW s \in Servers, Connects(s) \/ Reconnects(s) PROVE InOrder'
  BY <1>2, <1>3, Zenon DEF Connects, Reconnects
<1>4. ASSUME NEW s \in Servers, Removed(s) PROVE InOrder'
  <2>1. /\ conn[s] # "unborn" /\ conn'[s] # "unborn"
        /\ \A q \in Servers : q # s => conn'[q] = conn[q]
    BY <1>0, <1>4, TypeIs DEF Removed
  <2> QED BY <2>1 DEF InOrder
<1>5. ASSUME NEW c \in Clients,
             \/ NewSession(c) \/ SessionEnds(c) \/ AutobootTimeout(c)
             \/ \E z \in Zones : EnterHosted(c, z) \/ EnterBoots(c, z) \/ EnterNowhere(c, z)
      PROVE  conn' = conn
  BY <1>5 DEF NewSession, SessionEnds, AutobootTimeout, EnterHosted, EnterBoots,
              EnterNowhere, Chooses
<1>6. ASSUME NEW s \in Servers,
             \/ SetZone(s) \/ AcceptReply(s) \/ LinkBreaks(s) \/ AuthTimeout(s)
             \/ ShutsDown(s) \/ Crashes(s)
      PROVE  conn' = conn
  BY <1>6 DEF SetZone, AcceptReply, LinkBreaks, AuthTimeout, ShutsDown, Crashes
<1>7. ASSUME NEW s \in Servers,
             \/ ZoneBootup(s) \/ ZoneIncClient(s)
             \/ AcceptWorldEntrance(s) \/ DropClient(s)
      PROVE  conn' = conn
  BY <1>7, Zenon DEF ZoneBootup, ZoneIncClient, AcceptWorldEntrance, DropClient, Handles
<1>8. UNCHANGED vars => conn' = conn
  BY DEF vars
<1> QED BY <1>1, <1>3, <1>4, <1>5, <1>6, <1>7, <1>8 DEF Next

LEMMA FirstInvariants ==
  Spec => [](TypeAndTidy /\ ReportsAgree /\ BoundOnce /\ InOrder)
<1>1. Init => TypeAndTidy
  BY WorldEntryAssumption, InitTypeAndTidy
<1>2. Init => ReportsAgree
  BY DEF Init, ReportsAgree, Agrees
<1>3. Init => BoundOnce
  <2>1. ASSUME Init, NEW c \in Clients, NEW s \in Servers PROVE ~Bound(c, s)
    <3>1. toZone[s] = <<>> /\ process[s].auth = {} /\ process[s].lapsed = {}
      BY <2>1 DEF Init, NoProcess
    <3> QED BY <3>1, NotBound DEF Held
  <2> QED BY <2>1 DEF BoundOnce
<1>4. TypeAndTidy /\ [Next]_vars => TypeAndTidy'
  BY WorldEntryAssumption, NextTypeAndTidy
<1>5. TypeAndTidy /\ ReportsAgree /\ [Next]_vars => ReportsAgree'
  BY WorldEntryAssumption, NextReportsAgree
<1>6. TypeAndTidy /\ BoundOnce /\ [Next]_vars => BoundOnce'
  BY WorldEntryAssumption, NextBoundOnce
<1>7. Init => InOrder
  BY DEF Init, InOrder
<1>8. TypeAndTidy /\ InOrder /\ [Next]_vars => InOrder'
  BY WorldEntryAssumption, NextInOrder
<1> QED BY <1>1, <1>2, <1>3, <1>4, <1>5, <1>6, <1>7, <1>8, PTL DEF Spec

\* Every variable keeps its type: no client is announced to a zone 0, and
\* world waits only for servers there are.
THEOREM TypeCorrect == Spec => []TypeOK
<1>1. TypeAndTidy => TypeOK
  BY DEF TypeAndTidy
<1> QED BY <1>1, FirstInvariants, PTL

\* When nothing is on its way between world and a process, world takes the
\* process to host what it has loaded (the reports of Zone::Bootup and
\* Zone::Shutdown that ServerOP_SetZone applies), whatever the rules are and
\* however the packets interleave.
THEOREM WorldKnowsTheZones == Spec => []ViewsAgree
<1>1. TypeAndTidy /\ ReportsAgree => ViewsAgree
  <2> SUFFICES ASSUME TypeAndTidy, ReportsAgree, NEW s \in Listed,
                      process[s].running, toZone[s] = <<>>, toWorld[s] = <<>>
               PROVE  zone_server[s] = [zone |-> process[s].loaded, booting |-> FALSE]
    BY DEF ViewsAgree
  <2>1. s \in Servers /\ conn[s] = "listed" /\ Agrees(s)
    BY DEF Listed, ReportsAgree
  <2>2. zone_server[s] \in ZoneServerType
    BY <2>1, TypeIs DEF TypeAndTidy
  <2>3. NoReport(s) /\ NoOrder(s)
    BY DEF NoReport, NoOrder
  <2>4. zone_server[s].zone = process[s].loaded /\ ~zone_server[s].booting
    BY <2>1, <2>3 DEF Agrees
  <2> QED BY <2>2, <2>4 DEF ZoneServerType
<1> QED BY <1>1, FirstInvariants, PTL

\* A player may enter one zone: when the announcements and the drops that
\* EnterWorld sent are handled, no two processes hold the player's
\* authorization, but those that kept it while they had no link (the branch of
\* OnConnected for a loaded zone) and were not told of the player since.
THEOREM OneZoneAdmits == Spec => []AdmittedOnce
<1>1. BoundOnce => AdmittedOnce
  <2> SUFFICES ASSUME BoundOnce, NEW c \in Clients, NEW s \in Servers, NEW q \in Servers,
                      s # q, toZone[s] = <<>>, toZone[q] = <<>>,
                      c \in process[s].auth, c \in process[q].auth,
                      c \notin process[s].kept \cup process[q].kept
               PROVE  FALSE
    BY DEF AdmittedOnce
  <2>1. Bound(c, s) /\ Bound(c, q)
    BY DEF Bound, NoDrop, Held
  <2> QED BY <2>1 DEF BoundOnce
<1> QED BY <1>1, FirstInvariants, PTL

(***************************************************************************)
(* OneHostPerZone: where no zone fails to boot, a process ends with its    *)
(* zone and world lists a process after its first report, a process loads  *)
(* only the zone that world has given it, and world gives a zone once.     *)
(***************************************************************************)
SingleHost == KillProcessOnDynamicShutdown /\ BadZones = {} /\ ~FreshGap

\* What is loaded, ordered and reported is the zone world has given to s.
Serves(s) ==
  conn[s] = "listed" /\ process[s].running =>
    /\ process[s].loaded \in {0, zone_server[s].zone}
    /\ \A i \in 1 .. Len(toZone[s]) :
         toZone[s][i].op \in {"ZoneBootup", "ZoneIncClient"} =>
           toZone[s][i].zone = zone_server[s].zone
    /\ \A i \in 1 .. Len(toWorld[s]) :
         toWorld[s][i].op = "SetZone" => toWorld[s][i].zone # 0

\* The report of no zone is the last one.
LastWord(s) ==
  conn[s] = "listed" =>
    \A i \in 1 .. Len(toWorld[s]) : toWorld[s][i].op = "SetZone" =>
      \/ toWorld[s][i].zone # 0 /\ toWorld[s][i].zone = zone_server[s].zone
      \/ toWorld[s][i].zone = 0 /\ i = Len(toWorld[s])

\* World gives a zone once; whoever came with one was given none.
Chosen == {s \in Listed : process[s].running /\ ~process[s].stray}
GivenOnce ==
  \A s, q \in Chosen :
    zone_server[s].zone # 0 /\ zone_server[s].zone = zone_server[q].zone => s = q

HostInv == GivenOnce /\ \A s \in Servers : Serves(s) /\ LastWord(s)

LEMMA HostFrame ==
  ASSUME NEW s, Serves(s), LastWord(s), conn'[s] = conn[s], process'[s] = process[s],
         toZone'[s] = toZone[s], toWorld'[s] = toWorld[s],
         zone_server'[s].zone = zone_server[s].zone
  PROVE  Serves(s)' /\ LastWord(s)'
BY DEF Serves, LastWord

LEMMA GivenOnceFrame ==
  ASSUME GivenOnce,
         \A s \in Chosen' : zone_server'[s].zone # 0 =>
           s \in Chosen /\ zone_server[s].zone = zone_server'[s].zone
  PROVE  GivenOnce'
BY DEF GivenOnce

LEMMA HandledHost ==
  ASSUME HostInv, NEW s \in Servers, NEW what, NEW p, NEW sent,
         Handled(s, what, p, sent), p.loaded \in {0, zone_server[s].zone},
         p.stray = process[s].stray,
         \A i \in 1 .. Len(sent) : sent[i].op = "SetZone" =>
           sent[i].zone # 0 /\ sent[i].zone = zone_server[s].zone
  PROVE  HostInv'
<1>1. ASSUME NEW q \in Servers, q # s PROVE Serves(q)' /\ LastWord(q)'
  <2>1. /\ conn'[q] = conn[q] /\ process'[q] = process[q] /\ toZone'[q] = toZone[q]
        /\ toWorld'[q] = toWorld[q] /\ zone_server'[q].zone = zone_server[q].zone
    BY <1>1 DEF Handled
  <2> QED BY <2>1, HostFrame DEF HostInv
<1>2. Serves(s)' /\ LastWord(s)'
  <2>0. /\ conn[s] = "listed" /\ process[s].running
        /\ Popped(toZone'[s], toZone[s]) /\ Grown(toWorld'[s], toWorld[s], sent)
        /\ process'[s] = p /\ zone_server'[s] = zone_server[s]
    BY DEF Handled
  <2>1. Serves(s) /\ LastWord(s)
    BY DEF HostInv
  <2>2. \A i \in 1 .. Len(toZone'[s]) :
          i + 1 \in 1 .. Len(toZone[s]) /\ toZone'[s][i] = toZone[s][i + 1]
    BY <2>0 DEF Popped
  <2>3. \A i \in 1 .. Len(toWorld'[s]) : toWorld'[s][i].op = "SetZone" =>
          toWorld'[s][i].zone # 0 /\ toWorld'[s][i].zone = zone_server[s].zone
    <3> SUFFICES ASSUME NEW i \in 1 .. Len(toWorld'[s]), toWorld'[s][i].op = "SetZone"
                 PROVE  toWorld'[s][i].zone # 0
                        /\ toWorld'[s][i].zone = zone_server[s].zone
      OBVIOUS
    <3>1. CASE i \in 1 .. Len(toWorld[s]) /\ toWorld'[s][i] = toWorld[s][i]
      BY <2>0, <2>1, <3>1 DEF Serves, LastWord
    <3>2. CASE \E k \in 1 .. Len(sent) : toWorld'[s][i] = sent[k]
      BY <3>2
    <3> QED BY <2>0, <3>1, <3>2, GrownHas
  <2>4. Serves(s)'
    BY <2>0, <2>1, <2>2, <2>3 DEF Serves
  <2> QED BY <2>0, <2>3, <2>4 DEF LastWord
<1>3. GivenOnce'
  <2>1. /\ conn' = conn /\ zone_server' = zone_server
        /\ \A q \in Servers : process'[q].running => process[q].running
        /\ \A q \in Servers : process'[q].stray = process[q].stray
    BY DEF Handled
  <2> QED BY <2>1, GivenOnceFrame DEF HostInv, Chosen, Listed
<1> QED BY <1>1, <1>2, <1>3 DEF HostInv

\* Enter, in a step that has moved no zone, on what is said by way of toWorld.
LEMMA EnteredHost ==
  ASSUME TypeOK, HostInv, NEW entering, NEW locked, NEW failed, NEW z, NEW servers, NEW d,
         Entered(entering, locked, failed, z, servers, d), NEW q \in Servers,
         servers[q].zone = zone_server[q].zone, UNCHANGED <<conn, process, adrift>>,
         toWorld'[q] = toWorld[q] \/ Popped(toWorld'[q], toWorld[q])
  PROVE  Serves(q)' /\ LastWord(q)'
<1>0. Serves(q) /\ LastWord(q)
  BY DEF HostInv
<1>1. zone_server'[q].zone = zone_server[q].zone
  BY DEF Entered, Sends
<1>2. ASSUME NEW i \in 1 .. Len(toWorld'[q])
      PROVE  \E j \in 1 .. Len(toWorld[q]) :
               /\ toWorld'[q][i] = toWorld[q][j]
               /\ j = Len(toWorld[q]) => i = Len(toWorld'[q])
  <2>1. CASE toWorld'[q] = toWorld[q]
    BY <2>1
  <2>2. CASE Popped(toWorld'[q], toWorld[q])
    <3>1. i + 1 \in 1 .. Len(toWorld[q]) /\ toWorld'[q][i] = toWorld[q][i + 1]
          /\ (i + 1 = Len(toWorld[q]) => i = Len(toWorld'[q]))
      BY <2>2 DEF Popped
    <3> QED BY <3>1
  <2> QED BY <2>1, <2>2
<1>3. LastWord(q)'
  BY <1>0, <1>1, <1>2 DEF LastWord
<1>4. ASSUME conn[q] = "listed", process[q].running, NEW i \in 1 .. Len(toZone'[q]),
             toZone'[q][i].op \in {"ZoneBootup", "ZoneIncClient"}
      PROVE  toZone'[q][i].zone = zone_server[q].zone
  <2>1. q \in Listed /\ toZone'[q] \in Seq(ToZoneMsg)
    BY <1>4 DEF Listed, Entered, Sends
  <2>2. CASE i \in 1 .. Len(toZone[q])
    BY <1>0, <1>4, <2>1, <2>2 DEF Serves, Entered, Sends
  <2>3. CASE i > Len(toZone[q])
    <3>1. Warned(q, d, z, entering, locked, toZone'[q][i])
      BY <2>1, <2>3 DEF Entered, Sends
    <3>2. q = d /\ toZone'[q][i].zone = z /\ entering # {}
      BY <1>4, <3>1, WarnedIs
    <3> QED BY <3>2 DEF Entered
  <2>4. i \in 1 .. Len(toZone[q]) \/ i > Len(toZone[q])
    <3>1. Len(toZone[q]) \in Nat
      BY TypeIs, LenProperties
    <3> QED BY <3>1
  <2> QED BY <2>2, <2>3, <2>4
<1>5. Serves(q)'
  BY <1>0, <1>1, <1>2, <1>4 DEF Serves
<1> QED BY <1>3, <1>5

LEMMA NextHost ==
  ASSUME WorldEntryAssumption, SingleHost, TypeAndTidy, HostInv, [Next]_vars
  PROVE  HostInv'
<1> USE WorldEntryAssumption
<1>0. TypeOK /\ Tidy /\ NZones \in Nat
  BY DEF TypeAndTidy, WorldEntryAssumption
<1>i. GivenOnce /\ \A s \in Servers : Serves(s) /\ LastWord(s)
  BY DEF HostInv
<1>s. ASSUME UNCHANGED <<conn, process, toZone, toWorld, zone_server>>
      PROVE  HostInv'
  BY <1>s DEF HostInv, GivenOnce, Chosen, Listed, Serves, LastWord
<1>1. ASSUME NEW c \in Clients, NewSession(c) PROVE HostInv'
  BY <1>1, <1>s DEF NewSession
<1>2. ASSUME NEW c \in Clients, SessionEnds(c) PROVE HostInv'
  BY <1>2, <1>s DEF SessionEnds
<1>3. ASSUME NEW c \in Clients, AutobootTimeout(c) PROVE HostInv'
  BY <1>3, <1>s DEF AutobootTimeout
<1>4. ASSUME NEW c \in Clients, NEW z \in Zones, EnterHosted(c, z) PROVE HostInv'
  <2>1. PICK locked \in SUBSET {c}, d \in Listed :
          Entered({c}, locked, {}, z, zone_server, d)
    BY <1>0, <1>4, EnterHostedDoes
  <2>2. UNCHANGED <<conn, process, adrift, toWorld>>
    BY <1>4 DEF EnterHosted, Chooses
  <2>3. ASSUME NEW q \in Servers PROVE Serves(q)' /\ LastWord(q)'
    BY <1>0, <2>1, <2>2, EnteredHost
  <2>4. GivenOnce'
    <3>1. \A q \in Servers : zone_server'[q].zone = zone_server[q].zone
      BY <2>1 DEF Entered, Sends
    <3> QED BY <1>i, <2>2, <3>1, GivenOnceFrame DEF Chosen, Listed
  <2> QED BY <2>3, <2>4 DEF HostInv
<1>5. ASSUME NEW c \in Clients, NEW z \in Zones, EnterBoots(c, z) PROVE HostInv'
  <2> DEFINE m == [op |-> "ZoneBootup", zone |-> z]
  <2>1. PICK s \in Servers : s = IdleServer /\ s \in Listed
    BY <1>5, IdleIs DEF EnterBoots, Listed
  <2>2. zone_server[s].zone = 0 /\ conn[s] = "listed"
    BY <1>5, <2>1, IdleIs DEF EnterBoots, Listed
  <2>3. \A q \in Listed : zone_server[q].zone # z
    BY <1>5, FindIs DEF EnterBoots
  <2>4. /\ zone_server' = [zone_server EXCEPT ![s] = Triggered(z)]
        /\ toZone' = [toZone EXCEPT ![s] = Append(@, m)]
        /\ UNCHANGED <<conn, process, adrift, toWorld>>
    BY <1>5, <2>1 DEF EnterBoots, Chooses
  <2>5. m \in ToZoneMsg /\ m.op = "ZoneBootup" /\ m.zone = z /\ z # 0
    BY DEF ToZoneMsg, Zones
  <2> HIDE DEF m
  <2>6. /\ zone_server'[s].zone = z
        /\ \A q \in Servers : q # s =>
             zone_server'[q] = zone_server[q] /\ toZone'[q] = toZone[q]
    BY <1>0, <2>4, TypeIs DEF Triggered
  <2>7. ASSUME NEW q \in Servers, q # s PROVE Serves(q)' /\ LastWord(q)'
    BY <1>i, <2>4, <2>6, <2>7, HostFrame
  <2>8. LastWord(s)'
    BY <1>i, <2>2, <2>4 DEF LastWord
  <2>9. ASSUME process[s].running PROVE Serves(s)'
    <3>1. process[s].loaded = 0
      BY <1>i, <2>2, <2>9 DEF Serves
    <3>2. \A i \in 1 .. Len(toZone[s]) :
            toZone[s][i].op \notin {"ZoneBootup", "ZoneIncClient"}
      <4> SUFFICES ASSUME NEW i \in 1 .. Len(toZone[s]),
                          toZone[s][i].op \in {"ZoneBootup", "ZoneIncClient"}
                   PROVE  FALSE
        OBVIOUS
      <4>1. toZone[s][i] \in ToZoneMsg
        BY <1>0, TypeIs, ElementOfSeq
      <4>2. toZone[s][i].zone \in Zones
        BY <4>1 DEF ToZoneMsg
      <4>3. toZone[s][i].zone = 0
        BY <1>i, <2>2, <2>9 DEF Serves
      <4> QED BY <4>2, <4>3 DEF Zones
    <3>3. /\ Len(toZone[s]) \in Nat /\ Len(toZone'[s]) = Len(toZone[s]) + 1
          /\ \A i \in 1 .. Len(toZone[s]) : toZone'[s][i] = toZone[s][i]
          /\ toZone'[s][Len(toZone[s]) + 1] = m
      <4>1. toZone[s] \in Seq(ToZoneMsg) /\ toZone'[s] = Append(toZone[s], m)
        BY <1>0, <2>4, TypeIs
      <4> QED BY <2>5, <4>1, AppendProperties, LenProperties
    <3>4. \A i \in 1 .. Len(toZone'[s]) :
            toZone'[s][i].op \in {"ZoneBootup", "ZoneIncClient"} => toZone'[s][i].zone = z
      <4> SUFFICES ASSUME NEW i \in 1 .. Len(toZone'[s]), i \notin 1 .. Len(toZone[s])
                   PROVE  toZone'[s][i].zone = z
        BY <3>2, <3>3
      <4>1. i = Len(toZone[s]) + 1
        BY <3>3
      <4> QED BY <2>5, <3>3, <4>1
    <3>5. \A i \in 1 .. Len(toWorld'[s]) :
            toWorld'[s][i].op = "SetZone" => toWorld'[s][i].zone # 0
      BY <1>i, <2>2, <2>4, <2>9 DEF Serves
    <3> QED BY <2>4, <2>6, <3>1, <3>4, <3>5 DEF Serves
  <2>10. Serves(s)'
    BY <2>4, <2>9 DEF Serves
  <2>11. GivenOnce'
    BY <1>i, <2>3, <2>4, <2>6 DEF GivenOnce, Chosen, Listed
  <2> QED BY <2>7, <2>8, <2>10, <2>11 DEF HostInv
<1>6. ASSUME NEW c \in Clients, NEW z \in Zones, EnterNowhere(c, z) PROVE HostInv'
  BY <1>6, <1>s DEF EnterNowhere, Chooses
<1>n. NoProcess \in ZoneProcess /\ ~NoProcess.running /\ NoProcess.loaded = 0
  <2>1. NServers \in Nat
    BY DEF WorldEntryAssumption
  <2> QED BY <1>0, <2>1 DEF NoProcess, ZoneProcess
<1>l. ASSUME NEW s \in Servers, NEW p \in ZoneProcess, Listing(s, p),
             p.loaded = 0 \/ p.stray
      PROVE  HostInv'
  <2>1. /\ process'[s] = p /\ zone_server'[s].zone = p.loaded /\ toZone'[s] = <<>>
        /\ toWorld'[s] = IF p.loaded # 0 THEN <<Report(p.loaded)>> ELSE <<>>
        /\ \A q \in Servers : q # s =>
             /\ conn'[q] = conn[q] /\ process'[q] = process[q]
             /\ toWorld'[q] = toWorld[q] /\ zone_server'[q] = zone_server[q]
        /\ toZone' = toZone
    <3>1. toZone[s] = <<>> /\ ~FreshGap
      BY <1>0, <1>l DEF Listing, Tidy, SingleHost
    <3>2. Reports(<<p.loaded>>) = <<Report(p.loaded)>>
      BY DEF Reports, Report
    <3>3. zone_server'[s] = [zone_server[s] EXCEPT !.zone = p.loaded]
      BY <1>0, <1>l, <3>1, TypeIs DEF Listing
    <3>4. zone_server[s] \in ZoneServerType
      BY <1>0, TypeIs
    <3>5. zone_server'[s].zone = p.loaded
      BY <3>3, <3>4 DEF ZoneServerType
    <3>6. toWorld'[s] = IF p.loaded # 0 THEN <<Report(p.loaded)>> ELSE <<>>
      BY <1>0, <1>l, <3>1, <3>2, TypeIs DEF Listing
    <3> QED BY <1>0, <1>l, <3>1, <3>5, <3>6, TypeIs DEF Listing
  <2>2. ASSUME NEW q \in Servers, q # s PROVE Serves(q)' /\ LastWord(q)'
    BY <1>i, <2>1, <2>2, HostFrame
  <2>3. Serves(s)' /\ LastWord(s)'
    <3>1. CASE p.loaded # 0
      BY <2>1, <3>1 DEF Serves, LastWord, Report
    <3>2. CASE p.loaded = 0
      BY <2>1, <3>2 DEF Serves, LastWord
    <3> QED BY <3>1, <3>2
  <2>4. GivenOnce'
    <3>1. \A q \in Chosen' : zone_server'[q].zone # 0 =>
            q \in Chosen /\ zone_server[q].zone = zone_server'[q].zone
      BY <1>l, <2>1 DEF Chosen, Listed
    <3> QED BY <1>i, <3>1, GivenOnceFrame
  <2> QED BY <2>2, <2>3, <2>4 DEF HostInv
<1>7. ASSUME NEW s \in Servers, Connects(s) PROVE HostInv'
  <2> DEFINE p == [NoProcess EXCEPT !.running = TRUE]
  <2>1. p \in ZoneProcess /\ p.loaded = 0
    BY <1>n DEF ZoneProcess
  <2>2. Listing(s, p)
    BY <1>7 DEF Connects
  <2> HIDE DEF p
  <2> QED BY <1>l, <2>1, <2>2
<1>18. ASSUME NEW s \in Servers, Reconnects(s) PROVE HostInv'
  <2>1. PICK q \in Servers : adrift[q].running /\ Listing(s, Back(q))
    BY <1>18, Zenon DEF Reconnects, Back
  <2>2. Back(q) \in ZoneProcess /\ Back(q).stray
    BY <1>0, <2>1, BackIs
  <2> QED BY <1>l, <2>1, <2>2
<1>8. ASSUME NEW s \in Servers, Removed(s) PROVE HostInv'
  <2>1. /\ conn'[s] = "removed" /\ process' = process
        /\ \A q \in Servers : q # s =>
             /\ conn'[q] = conn[q] /\ toZone'[q] = toZone[q]
             /\ toWorld'[q] = toWorld[q] /\ zone_server'[q] = zone_server[q]
    BY <1>0, <1>8, TypeIs DEF Removed
  <2>2. ASSUME NEW q \in Servers, q # s PROVE Serves(q)' /\ LastWord(q)'
    BY <1>i, <2>1, <2>2, HostFrame
  <2>3. Serves(s)' /\ LastWord(s)'
    BY <2>1 DEF Serves, LastWord
  <2>4. GivenOnce'
    <3>1. \A q \in Chosen' : zone_server'[q].zone # 0 =>
            q \in Chosen /\ zone_server[q].zone = zone_server'[q].zone
      BY <2>1 DEF Chosen, Listed
    <3> QED BY <1>i, <3>1, GivenOnceFrame
  <2> QED BY <2>2, <2>3, <2>4 DEF HostInv
<1>9. ASSUME NEW s \in Servers, SetZone(s) PROVE HostInv'
  <2> DEFINE z == toWorld[s][1].zone
             servers == Reported(s, z)
  <2>1. /\ conn[s] = "listed" /\ z \in 0 .. NZones /\ toWorld[s][1].op = "SetZone"
        /\ Popped(toWorld'[s], toWorld[s])
        /\ \A q \in Servers : q # s => toWorld'[q] = toWorld[q]
        /\ UNCHANGED <<conn, process, adrift, tries>>
    BY <1>0, <1>9, SetZoneDoes
  <2>l. PICK locked \in SUBSET LetIn(z) : \E d :
          Entered(LetIn(z), locked, TurnedAway(s, z), z, servers, d)
    BY <1>0, <1>9, SetZoneDoes
  <2>2. PICK d :
          Entered(LetIn(z), locked, TurnedAway(s, z), z, servers, d)
    BY <2>l
  <2>3. /\ \A q \in Servers : q # s => servers[q] = zone_server[q]
        /\ servers[s].zone = z
    BY <1>0, TypeIs DEF Reported
  <2>4. \A q \in Servers : zone_server'[q].zone = servers[q].zone
    BY <2>2 DEF Entered, Sends
  <2>5. \/ z # 0 /\ z = zone_server[s].zone
        \/ z = 0 /\ 1 = Len(toWorld[s])
    <3>1. 1 \in 1 .. Len(toWorld[s])
      BY <2>1 DEF Popped
    <3> QED BY <1>i, <2>1, <3>1 DEF LastWord
  <2>6. ASSUME NEW q \in Servers, q # s \/ z = zone_server[s].zone
        PROVE  Serves(q)' /\ LastWord(q)'
    <3>1. servers[q].zone = zone_server[q].zone
          /\ (toWorld'[q] = toWorld[q] \/ Popped(toWorld'[q], toWorld[q]))
      BY <2>1, <2>3, <2>6
    <3> HIDE DEF z, servers
    <3> QED BY <1>0, <2>1, <2>2, <3>1, EnteredHost
  <2>7. ASSUME z = 0, 1 = Len(toWorld[s]) PROVE Serves(s)' /\ LastWord(s)'
    <3>1. ~process[s].running
      BY <1>i, <2>1, <2>7 DEF Serves
    <3>2. Len(toWorld'[s]) = 0
      BY <2>1, <2>7 DEF Popped
    <3> QED BY <2>1, <3>1, <3>2 DEF Serves, LastWord
  <2>8. GivenOnce'
    <3>1. \A q \in Chosen' : zone_server'[q].zone # 0 =>
            q \in Chosen /\ zone_server[q].zone = zone_server'[q].zone
      BY <2>1, <2>3, <2>4, <2>5 DEF Chosen, Listed
    <3> QED BY <1>i, <3>1, GivenOnceFrame
  <2> QED BY <2>5, <2>6, <2>7, <2>8 DEF HostInv
<1>10. ASSUME NEW s \in Servers, AcceptReply(s) PROVE HostInv'
  <2>1. Gets(toWorld, s, "AcceptWorldEntrance")
        /\ toWorld' = [toWorld EXCEPT ![s] = Tail(@)]
        /\ UNCHANGED <<conn, zone_server, process, adrift, toZone, tries>>
    BY <1>10 DEF AcceptReply
  <2>2. /\ Popped(toWorld'[s], toWorld[s])
        /\ \A q \in Servers : q # s => toWorld'[q] = toWorld[q]
    BY <1>0, <2>1, WorldGets
  <2>3. ASSUME NEW q \in Servers, q # s PROVE Serves(q)' /\ LastWord(q)'
    BY <1>i, <2>1, <2>2, <2>3, HostFrame
  <2>4. \A i \in 1 .. Len(toWorld'[s]) :
          /\ i + 1 \in 1 .. Len(toWorld[s]) /\ toWorld'[s][i] = toWorld[s][i + 1]
          /\ i + 1 = Len(toWorld[s]) => i = Len(toWorld'[s])
    <3> DEFINE n == Len(toWorld[s])
               m == Len(toWorld'[s])
    <3>1. /\ n \in Nat \ {0} /\ m = n - 1
          /\ \A i \in 1 .. m : toWorld'[s][i] = toWorld[s][i + 1]
      BY <2>2, Zenon DEF Popped
    <3> HIDE DEF n, m
    <3>2. \A i \in 1 .. m : i + 1 \in 1 .. n /\ (i + 1 = n => i = m)
      BY <3>1
    <3> QED BY <3>1, <3>2, Zenon DEF n, m
  <2>5. Serves(s)' /\ LastWord(s)'
    BY <1>i, <2>1, <2>4 DEF Serves, LastWord
  <2>6. GivenOnce'
    BY <1>i, <2>1 DEF GivenOnce, Chosen, Listed
  <2> QED BY <2>3, <2>5, <2>6 DEF HostInv
<1>p. \A s \in Servers : process[s] \in ZoneProcess
  BY <1>0, TypeIs
\* What a process loads and reports when it is asked for the zone it is given.
<1>o. ASSUME NEW s \in Servers, NEW z \in Zones, conn[s] = "listed", process[s].running,
             1 \in 1 .. Len(toZone[s]),
             toZone[s][1].op \in {"ZoneBootup", "ZoneIncClient"}, toZone[s][1].zone = z
      PROVE  /\ Loads(s, z) = zone_server[s].zone
             /\ \A i \in 1 .. Len(Tells(s, z)) : Tells(s, z)[i].op = "SetZone" =>
                  Tells(s, z)[i].zone # 0 /\ Tells(s, z)[i].zone = zone_server[s].zone
  <2>1. z = zone_server[s].zone /\ process[s].loaded \in {0, zone_server[s].zone} /\ z # 0
    BY <1>i, <1>o DEF Serves, Zones
  <2>2. Loads(s, z) = z
    BY <2>1 DEF Loads, BootsAs, SingleHost
  <2>3. AllReport(Tells(s, z), z)
    BY <1>0, <2>2, TellsIs
  <2> QED BY <2>1, <2>2, <2>3 DEF AllReport, Report
<1>11. ASSUME NEW s \in Servers, ZoneBootup(s) PROVE HostInv'
  <2>1. PICK z \in Zones :
          /\ toZone[s][1] = [op |-> "ZoneBootup", zone |-> z]
          /\ Handled(s, "ZoneBootup", [process[s] EXCEPT !.loaded = Loads(s, z)], Tells(s, z))
    BY <1>0, <1>11, ZoneBootupDoes
  <2> DEFINE p == [process[s] EXCEPT !.loaded = Loads(s, z)]
  <2>2. p.loaded = Loads(s, z) /\ p.stray = process[s].stray
    BY <1>p DEF ZoneProcess
  <2>3. Handled(s, "ZoneBootup", p, Tells(s, z))
    BY <2>1
  <2> HIDE DEF p
  <2>4. conn[s] = "listed" /\ process[s].running /\ 1 \in 1 .. Len(toZone[s])
    BY <2>3 DEF Handled, Popped
  <2> QED BY <1>o, <2>1, <2>2, <2>3, <2>4, HandledHost
<1>12. ASSUME NEW s \in Servers, ZoneIncClient(s) PROVE HostInv'
  <2>1. PICK z \in Zones, c \in Clients :
          /\ toZone[s][1] = [op |-> "ZoneIncClient", zone |-> z, client |-> c]
          /\ Handled(s, "ZoneIncClient", Admits(s, z, c), Tells(s, z))
    BY <1>0, <1>12, ZoneIncClientDoes
  <2> DEFINE p == Admits(s, z, c)
  <2>2. p.loaded = Loads(s, z) /\ p.stray = process[s].stray
    BY <1>0, AdmitsIs
  <2>3. Handled(s, "ZoneIncClient", p, Tells(s, z))
    BY <2>1
  <2> HIDE DEF p
  <2>4. conn[s] = "listed" /\ process[s].running /\ 1 \in 1 .. Len(toZone[s])
    BY <2>3 DEF Handled, Popped
  <2> QED BY <1>o, <2>1, <2>2, <2>3, <2>4, HandledHost
<1>13. ASSUME NEW s \in Servers, AcceptWorldEntrance(s) PROVE HostInv'
  <2>1. PICK sent : /\ Handled(s, "AcceptWorldEntrance", process[s], sent)
                    /\ \A i \in 1 .. Len(sent) : sent[i].op = "AcceptWorldEntrance"
    BY <1>0, <1>13, AcceptDoes
  <2>2. process[s].loaded \in {0, zone_server[s].zone}
    BY <1>i, <2>1 DEF Handled, Serves
  <2> QED BY <2>1, <2>2, HandledHost
<1>14. ASSUME NEW s \in Servers, DropClient(s) PROVE HostInv'
  <2>1. PICK c \in Clients :
          Handled(s, "DropClient", Drops(s, c), <<>>)
    BY <1>0, <1>14, DropDoes
  <2> DEFINE p == Drops(s, c)
  <2>2. p.loaded = process[s].loaded /\ p.stray = process[s].stray
    BY <1>0, DropsIs
  <2>3. Handled(s, "DropClient", p, <<>>)
    BY <2>1
  <2> HIDE DEF p
  <2>4. p.loaded \in {0, zone_server[s].zone}
    BY <1>i, <2>2, <2>3 DEF Handled, Serves
  <2>5. \A i \in 1 .. Len(<<>>) : <<>>[i].op = "SetZone" =>
          <<>>[i].zone # 0 /\ <<>>[i].zone = zone_server[s].zone
    OBVIOUS
  <2> QED BY <2>2, <2>3, <2>4, <2>5, HandledHost
<1>15. ASSUME NEW s \in Servers, ShutsDown(s) PROVE HostInv'
  <2>1. AllReport(Reports(<<0>>), 0) /\ Reports(<<0>>) = <<Report(0)>>
    <3>1. 0 \in 0 .. NZones
      BY <1>0
    <3>2. Reports(<<0>>) = <<Report(0)>>
      BY DEF Reports, Report
    <3> QED BY <3>1, <3>2, ReportsIs, Zenon
  <2>2. /\ toWorld'[s] = toWorld[s] \o Reports(<<0>>)
        /\ ~process'[s].running
        /\ \A q \in Servers : q # s =>
             toWorld'[q] = toWorld[q] /\ process'[q] = process[q]
        /\ UNCHANGED <<conn, zone_server, toZone>> /\ process[s].running
    <3>1. ~Ended.running
      BY <1>n DEF Ended, ZoneProcess, SingleHost
    <3> QED BY <1>0, <1>15, <3>1, TypeIs DEF ShutsDown, Ended
  <2>3. ASSUME NEW q \in Servers, q # s PROVE Serves(q)' /\ LastWord(q)'
    BY <1>i, <2>2, <2>3, HostFrame
  <2>4. Serves(s)'
    BY <2>2 DEF Serves
  <2>5. LastWord(s)'
    <3>1. /\ Len(toWorld[s]) \in Nat /\ Len(toWorld'[s]) = Len(toWorld[s]) + 1
          /\ \A i \in 1 .. Len(toWorld[s]) : toWorld'[s][i] = toWorld[s][i]
          /\ toWorld'[s][Len(toWorld[s]) + 1] = Report(0)
      <4> DEFINE sent == <<Report(0)>>
      <4>1. toWorld[s] \in Seq(ToWorldMsg) /\ sent \in Seq(ToWorldMsg)
            /\ toWorld'[s] = toWorld[s] \o sent /\ Len(sent) = 1 /\ sent[1] = Report(0)
        BY <1>0, <2>1, <2>2, TypeIs DEF AllReport
      <4> HIDE DEF sent
      <4>2. Grown(toWorld'[s], toWorld[s], sent)
        BY <4>1, ConcatGrows
      <4>3. Len(toWorld[s]) \in Nat /\ Len(toWorld'[s]) = Len(toWorld[s]) + 1
            /\ \A i \in 1 .. Len(toWorld[s]) : toWorld'[s][i] = toWorld[s][i]
        BY <4>1, <4>2 DEF Grown
      <4>4. toWorld'[s][Len(toWorld[s]) + 1] = sent[1]
        <5>1. /\ Len(toWorld[s]) + 1 \in 1 .. Len(toWorld'[s])
              /\ Len(toWorld[s]) + 1 > Len(toWorld[s])
              /\ (Len(toWorld[s]) + 1) - Len(toWorld[s]) = 1
          BY <4>3
        <5>2. toWorld'[s][Len(toWorld[s]) + 1]
                = sent[(Len(toWorld[s]) + 1) - Len(toWorld[s])]
          BY <4>2, <5>1 DEF Grown
        <5> QED BY <5>1, <5>2
      <4> QED BY <4>1, <4>3, <4>4
    <3> SUFFICES ASSUME conn[s] = "listed", NEW i \in 1 .. Len(toWorld'[s]),
                        toWorld'[s][i].op = "SetZone"
                 PROVE  \/ toWorld'[s][i].zone # 0
                           /\ toWorld'[s][i].zone = zone_server[s].zone
                        \/ toWorld'[s][i].zone = 0 /\ i = Len(toWorld'[s])
      BY <2>2 DEF LastWord
    <3>2. CASE i \in 1 .. Len(toWorld[s])
      BY <1>i, <2>2, <3>1, <3>2 DEF Serves, LastWord
    <3>3. CASE i = Len(toWorld[s]) + 1
      BY <3>1, <3>3 DEF Report
    <3> QED BY <3>1, <3>2, <3>3
  <2>6. GivenOnce'
    BY <1>i, <2>2, GivenOnceFrame DEF Chosen, Listed
  <2> QED BY <2>3, <2>4, <2>5, <2>6 DEF HostInv
<1>e. ASSUME NEW s \in Servers, process' = [process EXCEPT ![s] = NoProcess],
             UNCHANGED <<conn, zone_server, toZone, toWorld>>
      PROVE  HostInv'
  <2>1. /\ \A q \in Servers : q # s => process'[q] = process[q]
        /\ ~process'[s].running
    BY <1>0, <1>n, <1>e, TypeIs
  <2>2. \A q \in Servers : Serves(q)' /\ LastWord(q)'
    BY <1>i, <1>e, <2>1 DEF Serves, LastWord
  <2>3. GivenOnce'
    BY <1>i, <1>e, <2>1, GivenOnceFrame DEF Chosen, Listed
  <2> QED BY <2>2, <2>3 DEF HostInv
<1>16. ASSUME NEW s \in Servers, Crashes(s) PROVE HostInv'
  BY <1>e, <1>16 DEF Crashes
<1>19. ASSUME NEW s \in Servers, LinkBreaks(s) PROVE HostInv'
  BY <1>e, <1>19 DEF LinkBreaks
<1>20. ASSUME NEW s \in Servers, AuthTimeout(s) PROVE HostInv'
  <2>g. PICK gone \in (SUBSET process[s].auth) \ {{}} :
          process' = [process EXCEPT ![s] = Forgets(s, gone)]
    BY <1>20, Zenon DEF AuthTimeout, Forgets
  <2>1. /\ Forgets(s, gone).running = process[s].running
        /\ Forgets(s, gone).loaded = process[s].loaded
        /\ Forgets(s, gone).stray = process[s].stray
    BY <1>0, ForgetsIs
  <2>2. ASSUME NEW q \in Servers
        PROVE  /\ process'[q].running = process[q].running
               /\ process'[q].loaded = process[q].loaded
               /\ process'[q].stray = process[q].stray
    BY <1>0, <2>g, <2>1, TypeIs
  <2>3. UNCHANGED <<conn, zone_server, toZone, toWorld>>
    BY <1>20 DEF AuthTimeout
  <2>4. \A q \in Servers : Serves(q)' /\ LastWord(q)'
    BY <1>i, <2>2, <2>3 DEF Serves, LastWord
  <2>5. GivenOnce'
    BY <1>i, <2>2, <2>3, GivenOnceFrame DEF Chosen, Listed
  <2> QED BY <2>4, <2>5 DEF HostInv
<1>17. CASE UNCHANGED vars
  BY <1>17, <1>s DEF vars
<1> QED BY <1>1, <1>2, <1>3, <1>4, <1>5, <1>6, <1>7, <1>8, <1>9, <1>10, <1>11,
           <1>12, <1>13, <1>14, <1>15, <1>16, <1>17, <1>18, <1>19, <1>20 DEF Next

LEMMA HostInvariant == ASSUME SingleHost PROVE Spec => []HostInv
<1>1. Init => HostInv
  BY DEF Init, HostInv, GivenOnce, Serves, LastWord, Chosen, Listed
<1>2. TypeAndTidy /\ HostInv /\ [Next]_vars => HostInv'
  BY WorldEntryAssumption, NextHost
<1> QED BY <1>1, <1>2, FirstInvariants, PTL DEF Spec

\* One process hosts a zone, as ZSList::SOPZoneBootup means it ("already being
\* hosted"): world looks a zone up before it triggers a boot and counts the
\* server that is to boot it as its host.  A process that came back over a new link
\* with the zone it runs (the branch of OnConnected for a loaded zone) is the one
\* host besides: world could not know of it and may have booted the zone again.
THEOREM OneHost == ASSUME SingleHost PROVE Spec => []OneHostPerZone
<1>1. TypeAndTidy /\ HostInv => OneHostPerZone
  <2> SUFFICES ASSUME TypeAndTidy, HostInv, NEW s \in Servers, NEW q \in Servers,
                      s # q, process[s].loaded # 0, process[s].loaded = process[q].loaded,
                      ~process[s].stray, ~process[q].stray
               PROVE  FALSE
    BY DEF OneHostPerZone
  <2>1. /\ s \in Listed /\ process[s].running /\ q \in Listed /\ process[q].running
    BY DEF TypeAndTidy, Tidy, Listed
  <2>2. process[s].loaded = zone_server[s].zone /\ process[q].loaded = zone_server[q].zone
    BY <2>1 DEF HostInv, Serves, Listed
  <2> QED BY <2>1, <2>2 DEF HostInv, GivenOnce, Chosen
<1> QED BY <1>1, FirstInvariants, HostInvariant, PTL

(***************************************************************************)
(* WarnedBeforeSent: where moreover a player chooses again only once the   *)
(* old answer has come, an answer is of the zone that the player waits     *)
(* for, and that zone has been warned.                                     *)
(***************************************************************************)
Asked(c, s) ==
  \E i \in 1 .. Len(toZone[s]) :
    toZone[s][i].op = "AcceptWorldEntrance" /\ toZone[s][i].client = c
Answered(c, s) ==
  \E i \in 1 .. Len(toWorld[s]) :
    toWorld[s][i].op = "AcceptWorldEntrance" /\ toWorld[s][i].client = c

\* An answer about c is to come from s, or has come.
Due(c, s) == (Asked(c, s) /\ process[s].running) \/ Answered(c, s)

\* FindByZoneID takes s, if anyone, to host its zone.
Foremost(s) ==
  \A q \in Listed : q < s => zone_server[q].zone # zone_server[s].zone

Expected(c, s, z) ==
  /\ zone_server[s].zone = z /\ Foremost(s)
  /\ process[s].running => Bound(c, s)

Sent(c) ==
  /\ view[c].at = "select" \/ client[c].waiting # 0 => ~client[c].triggered
  /\ client[c].waiting # 0 => view[c].at # "going" /\ \A s \in Servers : ~Due(c, s)
  /\ client[c].zone_id # 0 =>
       \A s \in Servers : Due(c, s) => Expected(c, s, client[c].zone_id)
  /\ view[c].at = "going" =>
       /\ view[c].to \in Servers /\ conn[view[c].to] # "unborn" /\ view[c].zone # 0
       /\ process[view[c].to].running => Expected(c, view[c].to, view[c].zone)

SentInv == \A c \in Clients : Sent(c)

\* A step that brings no answer about c, and leaves c expected where it was.
Stays(c) ==
  \A s \in Servers :
    /\ conn[s] # "unborn" => conn'[s] # "unborn"
    /\ Due(c, s)' => Due(c, s)
    /\ Due(c, s)' \/ (conn[s] # "unborn" /\ process'[s].running) =>
         /\ zone_server[s].zone # 0 => zone_server'[s].zone = zone_server[s].zone
         /\ process'[s].running => process[s].running /\ (Bound(c, s) => Bound(c, s)')

\* Sent(c) of the next state, piece by piece.
BoundNext(c, s) ==
  \/ c \in Held(process'[s]) /\ NoDrop(toZone'[s], c, 0)
  \/ Announced(toZone'[s], c)
ForemostNext(s) ==
  \A q \in Servers :
    conn'[q] = "listed" /\ q < s => zone_server'[q].zone # zone_server'[s].zone
ExpectedNext(c, s, z) ==
  /\ zone_server'[s].zone = z /\ ForemostNext(s)
  /\ process'[s].running => BoundNext(c, s)

\* Whoever is found for its zone stays so while it has it: a zone is given to
\* a server when no other is listed with it, and who comes with one comes last.
KeepsForemost ==
  \A s \in Listed :
    zone_server[s].zone # 0 /\ zone_server'[s].zone = zone_server[s].zone
    /\ Foremost(s) => ForemostNext(s)

LEMMA NextForemost ==
  ASSUME WorldEntryAssumption, SingleHost, TypeAndTidy, InOrder, HostInv, [Next]_vars
  PROVE  KeepsForemost
<1> USE WorldEntryAssumption
<1>0. TypeOK /\ Tidy
  BY DEF TypeAndTidy
<1> SUFFICES ASSUME NEW s \in Listed, zone_server[s].zone # 0,
                    zone_server'[s].zone = zone_server[s].zone, Foremost(s)
             PROVE  ForemostNext(s)
  BY DEF KeepsForemost
<1>s. ASSUME \A q \in Servers : conn'[q] = "listed" =>
               /\ q \in Listed
               /\ zone_server'[q].zone = zone_server[q].zone \/ zone_server'[q].zone = 0
      PROVE  ForemostNext(s)
  BY <1>s DEF Foremost, ForemostNext
<1>f. ASSUME UNCHANGED <<conn, zone_server>> PROVE ForemostNext(s)
  BY <1>f, <1>s DEF Listed
<1>1. ASSUME NEW c \in Clients, NewSession(c) \/ SessionEnds(c) \/ AutobootTimeout(c)
      PROVE  ForemostNext(s)
  BY <1>1, <1>f DEF NewSession, SessionEnds, AutobootTimeout
<1>2. ASSUME NEW c \in Clients, NEW z \in Zones, EnterHosted(c, z) PROVE ForemostNext(s)
  <2>1. PICK locked \in SUBSET {c}, d \in Listed :
          Entered({c}, locked, {}, z, zone_server, d)
    BY <1>0, <1>2, EnterHostedDoes
  <2>2. conn' = conn /\ \A q \in Servers : zone_server'[q].zone = zone_server[q].zone
    BY <1>2, <2>1 DEF EnterHosted, Chooses, Entered, Sends
  <2> QED BY <1>s, <2>2 DEF Listed
<1>3. ASSUME NEW c \in Clients, NEW z \in Zones, EnterBoots(c, z) PROVE ForemostNext(s)
  <2>1. PICK i \in Servers : i = IdleServer
    BY <1>3, IdleIs DEF EnterBoots, Listed
  <2>2. zone_server[s].zone # z
    BY <1>3, FindIs DEF EnterBoots
  <2>3. zone_server'[i].zone = z /\ conn' = conn
        /\ \A q \in Servers : q # i => zone_server'[q] = zone_server[q]
    BY <1>0, <1>3, <2>1, TypeIs DEF EnterBoots, Chooses, Triggered
  <2> QED BY <2>2, <2>3 DEF Foremost, ForemostNext, Listed
<1>4. ASSUME NEW c \in Clients, NEW z \in Zones, EnterNowhere(c, z)
      PROVE  ForemostNext(s)
  BY <1>4, <1>f DEF EnterNowhere, Chooses
<1>5. ASSUME NEW n \in Servers, NEW p, Listing(n, p) PROVE ForemostNext(s)
  <2>1. /\ conn[n] = "unborn" /\ conn[s] # "unborn" /\ s \in Servers
        /\ \A q \in Servers : q # n =>
             conn'[q] = conn[q] /\ zone_server'[q] = zone_server[q]
    BY <1>0, <1>5, TypeIs DEF Listing, Listed
  <2>2. ~(n < s)
    BY <2>1 DEF InOrder
  <2> QED BY <2>1, <2>2 DEF Foremost, ForemostNext, Listed
<1>6. ASSUME NEW n \in Servers, Connects(n) \/ Reconnects(n) PROVE ForemostNext(s)
  BY <1>5, <1>6, Zenon DEF Connects, Reconnects
<1>7. ASSUME NEW n \in Servers, Removed(n) PROVE ForemostNext(s)
  <2>1. conn'[n] = "removed" /\ \A q \in Servers : q # n =>
          conn'[q] = conn[q] /\ zone_server'[q] = zone_server[q]
    BY <1>0, <1>7, TypeIs DEF Removed
  <2> QED BY <1>s, <2>1 DEF Listed
<1>8. ASSUME NEW n \in Servers, SetZone(n) PROVE ForemostNext(s)
  <2> DEFINE z == toWorld[n][1].zone
             servers == Reported(n, z)
  <2>1. /\ conn[n] = "listed" /\ toWorld[n][1].op = "SetZone"
        /\ Popped(toWorld'[n], toWorld[n]) /\ conn' = conn
    BY <1>0, <1>8, SetZoneDoes
  <2>l. PICK locked \in SUBSET LetIn(z) : \E d :
          Entered(LetIn(z), locked, TurnedAway(n, z), z, servers, d)
    BY <1>0, <1>8, SetZoneDoes
  <2>2. \A q \in Servers : zone_server'[q].zone = servers[q].zone
    BY <2>l DEF Entered, Sends
  <2>3. z = zone_server[n].zone \/ z = 0
    <3>1. 1 \in 1 .. Len(toWorld[n])
      BY <2>1 DEF Popped
    <3> QED BY <2>1, <3>1 DEF HostInv, LastWord
  <2>4. \A q \in Servers : servers[q].zone = IF q = n THEN z ELSE zone_server[q].zone
    BY <1>0, TypeIs DEF Reported
  <2> QED BY <1>s, <2>1, <2>2, <2>3, <2>4 DEF Listed
<1>9. ASSUME NEW n \in Servers,
             \/ AcceptReply(n) \/ LinkBreaks(n) \/ AuthTimeout(n)
             \/ ShutsDown(n) \/ Crashes(n)
      PROVE  ForemostNext(s)
  BY <1>9, <1>f DEF AcceptReply, LinkBreaks, AuthTimeout, ShutsDown, Crashes
<1>10. ASSUME NEW n \in Servers,
              \/ ZoneBootup(n) \/ ZoneIncClient(n)
              \/ AcceptWorldEntrance(n) \/ DropClient(n)
       PROVE  ForemostNext(s)
  <2>1. UNCHANGED <<conn, zone_server>>
    BY <1>10, Zenon DEF ZoneBootup, ZoneIncClient, AcceptWorldEntrance, DropClient, Handles
  <2> QED BY <2>1, <1>f
<1>11. CASE UNCHANGED vars
  BY <1>11, <1>f DEF vars
<1> QED BY <1>1, <1>2, <1>3, <1>4, <1>6, <1>7, <1>8, <1>9, <1>10, <1>11 DEF Next

LEMMA BoundIsNext == ASSUME NEW c, NEW s PROVE Bound(c, s)' <=> BoundNext(c, s)
BY DEF Bound, BoundNext, Announced, NoDrop, Held

LEMMA SentNext ==
  ASSUME NEW c,
         view'[c].at = "select" \/ client'[c].waiting # 0 => ~client'[c].triggered,
         client'[c].waiting # 0 =>
           view'[c].at # "going" /\ \A s \in Servers : ~Due(c, s)',
         client'[c].zone_id # 0 =>
           \A s \in Servers : Due(c, s)' => ExpectedNext(c, s, client'[c].zone_id),
         view'[c].at = "going" =>
           /\ view'[c].to \in Servers /\ conn'[view'[c].to] # "unborn"
           /\ view'[c].zone # 0
           /\ process'[view'[c].to].running =>
                ExpectedNext(c, view'[c].to, view'[c].zone)
  PROVE  Sent(c)'
<1>1. view'[c].at = "going" =>
        /\ view'[c].to \in Servers /\ conn'[view'[c].to] # "unborn" /\ view'[c].zone # 0
        /\ process'[view'[c].to].running =>
             /\ zone_server'[view'[c].to].zone = view'[c].zone
             /\ ForemostNext(view'[c].to)
             /\ BoundNext(c, view'[c].to)
  BY DEF ExpectedNext
<1>2. view'[c].at = "going" =>
        /\ view'[c].to \in Servers /\ conn'[view'[c].to] # "unborn" /\ view'[c].zone # 0
        /\ process'[view'[c].to].running => Expected(c, view[c].to, view[c].zone)'
  BY <1>1 DEF BoundNext, ForemostNext, Expected, Bound, Foremost, Listed, Announced, NoDrop, Held
<1>3. client'[c].zone_id # 0 =>
        \A s \in Servers : Due(c, s)' => Expected(c, s, client[c].zone_id)'
  BY BoundIsNext DEF ExpectedNext, Expected, ForemostNext, Foremost, Listed
<1> QED BY <1>2, <1>3 DEF Sent

LEMMA StaysExpected ==
  ASSUME Tidy, KeepsForemost, NEW c, Stays(c), NEW s \in Servers, NEW z, z # 0,
         Expected(c, s, z),
         Due(c, s)' \/ (conn[s] # "unborn" /\ process'[s].running)
  PROVE  ExpectedNext(c, s, z)
<1>1. zone_server[s].zone = z /\ zone_server'[s].zone = z
  BY DEF Stays, Expected
<1>2. conn[s] = "listed"
  <2>1. Due(c, s) \/ process[s].running
    BY DEF Stays
  <2>2. CASE Due(c, s)
    <3>1. toZone[s] # <<>> \/ toWorld[s] # <<>>
      BY <2>2 DEF Due, Asked, Answered
    <3> QED BY <3>1 DEF Tidy
  <2> QED BY <2>1, <2>2 DEF Tidy
<1>3. ForemostNext(s)
  BY <1>1, <1>2 DEF KeepsForemost, Expected, Listed
<1> QED BY <1>1, <1>3, BoundIsNext DEF Stays, Expected, ExpectedNext

LEMMA StaysGoing ==
  ASSUME Tidy, KeepsForemost, NEW c, Sent(c), Stays(c), view'[c] = view[c],
         view[c].at = "going"
  PROVE  /\ view'[c].to \in Servers /\ conn'[view'[c].to] # "unborn"
         /\ view'[c].zone # 0
         /\ process'[view'[c].to].running => ExpectedNext(c, view'[c].to, view'[c].zone)
<1>z. PICK z : z = view[c].zone
  OBVIOUS
<1>1. PICK s \in Servers : s = view[c].to /\ z = view[c].zone /\ conn[s] # "unborn"
        /\ z # 0 /\ (process[s].running => Expected(c, s, z))
  BY <1>z DEF Sent
<1>2. conn'[s] # "unborn" /\ (process'[s].running => process[s].running)
  BY <1>1 DEF Stays
<1>3. process'[s].running => ExpectedNext(c, s, z)
  BY <1>1, <1>2, StaysExpected
<1> QED BY <1>1, <1>2, <1>3

LEMMA SentKept ==
  ASSUME Tidy, KeepsForemost, NEW c, Sent(c), Stays(c), client'[c] = client[c],
         view'[c] = view[c]
  PROVE  Sent(c)'
<1>1. \A s \in Servers : Due(c, s)' => Due(c, s)
  BY DEF Stays
<1>2. client'[c].zone_id # 0 =>
        \A s \in Servers : Due(c, s)' => ExpectedNext(c, s, client'[c].zone_id)
  BY <1>1, StaysExpected DEF Sent
<1>3. view'[c].at = "going" =>
           /\ view'[c].to \in Servers /\ conn'[view'[c].to] # "unborn"
           /\ view'[c].zone # 0
           /\ process'[view'[c].to].running =>
                ExpectedNext(c, view'[c].to, view'[c].zone)
  BY StaysGoing
<1>4. /\ view'[c].at = "select" \/ client'[c].waiting # 0 => ~client'[c].triggered
      /\ client'[c].waiting # 0 =>
           view'[c].at # "going" /\ \A s \in Servers : ~Due(c, s)'
  BY <1>1 DEF Sent
<1> QED BY <1>2, <1>3, <1>4, SentNext

LEMMA SentBack ==
  ASSUME Tidy, KeepsForemost, NEW c, client'[c].zone_id = 0, client'[c].waiting = 0,
         ~client'[c].triggered,
         \/ view'[c].at # "going"
         \/ Sent(c) /\ Stays(c) /\ view'[c] = view[c]
  PROVE  Sent(c)'
<1>1. view'[c].at = "going" =>
           /\ view'[c].to \in Servers /\ conn'[view'[c].to] # "unborn"
           /\ view'[c].zone # 0
           /\ process'[view'[c].to].running =>
                ExpectedNext(c, view'[c].to, view'[c].zone)
  <2>1. ASSUME view'[c].at = "going" PROVE Sent(c) /\ Stays(c) /\ view'[c] = view[c]
    BY <2>1
  <2> QED BY <2>1, StaysGoing
<1> QED BY <1>1, SentNext

\* c, told that its zone is unavailable.
LEMMA SentUnavailable ==
  ASSUME TypeOK, Tidy, KeepsForemost, NEW c \in Clients,
         client'[c] = Unavailable(client[c]),
         view'[c] = Told(view[c]), Sent(c), view[c].at = "going" => Stays(c)
  PROVE  Sent(c)'
<1>1. /\ client'[c].zone_id = 0 /\ client'[c].waiting = 0 /\ ~client'[c].triggered
  BY TypeIs DEF Unavailable, ClientType
<1>2. CASE view[c].at = "going"
  BY <1>1, <1>2, SentBack DEF Told
<1>3. CASE view[c].at # "going"
  BY <1>1, <1>3, SentBack DEF Told, At
<1> QED BY <1>2, <1>3

\* Nothing moves but players.
LEMMA QuietStays ==
  ASSUME UNCHANGED <<conn, zone_server, process, toZone, toWorld>>, NEW c
  PROVE  Stays(c)
BY DEF Stays, Due, Asked, Answered, Bound, Announced, NoDrop

\* A link to world that loses its head, or all, brings no answer.
LEMMA NoNewAnswer ==
  ASSUME NEW c, NEW s, Answered(c, s)',
         \/ toWorld'[s] = toWorld[s]
         \/ Popped(toWorld'[s], toWorld[s])
         \/ Len(toWorld'[s]) = 0
  PROVE  Answered(c, s)
<1>1. PICK i \in 1 .. Len(toWorld'[s]) :
        toWorld'[s][i].op = "AcceptWorldEntrance" /\ toWorld'[s][i].client = c
  BY DEF Answered
<1>2. CASE toWorld'[s] = toWorld[s]
  BY <1>1, <1>2 DEF Answered
<1>3. CASE Popped(toWorld'[s], toWorld[s])
  <2>1. i + 1 \in 1 .. Len(toWorld[s]) /\ toWorld'[s][i] = toWorld[s][i + 1]
    BY <1>3 DEF Popped
  <2> QED BY <1>1, <2>1 DEF Answered
<1>4. CASE Len(toWorld'[s]) = 0
  BY <1>1, <1>4
<1> QED BY <1>2, <1>3, <1>4

\* What Enter does to a player it lets in.
LEMMA EnteredSent ==
  ASSUME WorldEntryAssumption, TypeAndTidy, KeepsForemost, NEW entering, NEW locked, NEW failed,
         NEW z, NEW servers, NEW d,
         Entered(entering, locked, failed, z, servers, d),
         UNCHANGED <<conn, process, adrift>>, NEW c \in entering, Sent(c),
         ~client[c].triggered, view[c].at # "going",
         \A s \in Servers : ~Due(c, s),
         \A s \in Servers : toWorld'[s] = toWorld[s] \/ Popped(toWorld'[s], toWorld[s])
                              \/ Len(toWorld'[s]) = 0
  PROVE  Sent(c)'
<1>0. TypeOK /\ Tidy /\ c \in Clients /\ z \in Zones /\ z # 0 /\ d \in Listed
      /\ z \in 0 .. NZones
  BY DEF TypeAndTidy, Entered, Zones
<1>1. CASE c \in locked
  <2>1. client'[c] = Unavailable(client[c]) /\ view'[c] = Told(view[c])
    BY <1>1 DEF Entered
  <2> QED BY <1>0, <2>1, SentUnavailable
<1>2. CASE c \notin locked
  <2>1. client'[c] = LetInto(client[c], z)
        /\ view'[c] = IF client[c].seen THEN At("entering") ELSE GoingTo(d, z)
    BY <1>2 DEF Entered
  <2>2. client'[c].zone_id = z /\ client'[c].waiting = 0
    <3>1. client[c] \in ClientType
      BY <1>0, TypeIs
    <3>2. LetInto(client[c], z).zone_id = z /\ LetInto(client[c], z).waiting = 0
      BY <3>1 DEF LetInto, ClientType
    <3> QED BY <2>1, <3>2
  <2>3. ExpectedNext(c, d, z)
    <3>1. Bound(c, d)'
      BY <1>0, EnteredBound DEF Listed
    <3>2. zone_server'[d].zone = z
      BY <1>0 DEF Entered, Sends, Listed
    <3>3. ForemostNext(d)
      <4>1. \A q \in Servers : conn'[q] = "listed" /\ q < d => zone_server'[q].zone # z
        BY DEF Entered, Sends, Listed
      <4> QED BY <3>2, <4>1 DEF ForemostNext
    <3> QED BY <3>1, <3>2, <3>3, BoundIsNext DEF ExpectedNext
  <2>4. ASSUME NEW s \in Servers, Due(c, s)' PROVE s = d
    <3>1. ~Answered(c, s)'
      BY NoNewAnswer DEF Due
    <3>2. Asked(c, s)' /\ process[s].running /\ ~Asked(c, s)
      BY <2>4, <3>1 DEF Due
    <3>3. s \in Listed /\ toZone[s] \in Seq(ToZoneMsg) /\ toZone'[s] \in Seq(ToZoneMsg)
      BY <1>0, <3>2, TypeIs DEF Tidy, Listed, Entered, Sends
    <3>4. PICK i \in 1 .. Len(toZone'[s]) :
            toZone'[s][i].op = "AcceptWorldEntrance" /\ toZone'[s][i].client = c
      BY <3>2 DEF Asked
    <3>5. Len(toZone[s]) \in Nat /\ Len(toZone'[s]) \in Nat
      BY <3>3, LenProperties
    <3>6. i > Len(toZone[s])
      <4>1. i \notin 1 .. Len(toZone[s])
        <5>1. ~Asked(c, s)
          BY <3>2
        <5>2. \A j \in 1 .. Len(toZone[s]) : toZone'[s][j] = toZone[s][j]
          BY <3>3 DEF Entered, Sends
        <5> QED BY <3>4, <5>1, <5>2 DEF Asked
      <4> QED BY <3>5, <4>1
    <3>7. Warned(s, d, z, entering, locked, toZone'[s][i])
      BY <3>3, <3>6 DEF Entered, Sends
    <3> QED BY <3>4, <3>7, WarnedIs
  <2>5. client'[c].zone_id # 0 =>
          \A s \in Servers : Due(c, s)' => ExpectedNext(c, s, client'[c].zone_id)
    BY <2>2, <2>3, <2>4
  <2>6. view'[c].at # "select" /\ (view'[c].at = "going" =>
          /\ view'[c].to \in Servers /\ conn'[view'[c].to] # "unborn"
          /\ view'[c].zone # 0
          /\ process'[view'[c].to].running => ExpectedNext(c, view'[c].to, view'[c].zone))
    BY <1>0, <2>1, <2>3 DEF At, GoingTo, Listed
  <2> QED BY <2>2, <2>5, <2>6, SentNext
<1> QED BY <1>1, <1>2

\* A player that Enter does not concern.
LEMMA EnteredStays ==
  ASSUME WorldEntryAssumption, TypeAndTidy, NEW entering, NEW locked, NEW failed,
         NEW z, NEW servers, NEW d,
         Entered(entering, locked, failed, z, servers, d),
         UNCHANGED <<conn, process, adrift>>, NEW c \in Clients \ entering,
         \A s \in Servers : toWorld'[s] = toWorld[s] \/ Popped(toWorld'[s], toWorld[s]),
         \A s \in Servers : \/ servers[s].zone = zone_server[s].zone
                            \/ ~process[s].running /\ Len(toWorld'[s]) = 0
  PROVE  Stays(c)
<1>0. TypeOK /\ Tidy
  BY DEF TypeAndTidy
<1> SUFFICES ASSUME NEW s \in Servers
             PROVE  /\ Due(c, s)' => Due(c, s)
                    /\ Due(c, s)' \/ (conn[s] # "unborn" /\ process'[s].running) =>
                         /\ zone_server'[s].zone = zone_server[s].zone
                         /\ Bound(c, s) => Bound(c, s)'
  BY DEF Stays
<1>1. Asked(c, s)' /\ process[s].running => Asked(c, s)
  <2> SUFFICES ASSUME Asked(c, s)', process[s].running PROVE Asked(c, s)
    OBVIOUS
  <2>1. s \in Listed /\ toZone[s] \in Seq(ToZoneMsg) /\ toZone'[s] \in Seq(ToZoneMsg)
    BY <1>0, TypeIs DEF Tidy, Listed, Entered, Sends
  <2>2. PICK i \in 1 .. Len(toZone'[s]) :
          toZone'[s][i].op = "AcceptWorldEntrance" /\ toZone'[s][i].client = c
    BY DEF Asked
  <2>3. Len(toZone[s]) \in Nat /\ Len(toZone'[s]) \in Nat
    BY <2>1, LenProperties
  <2>4. ~(i > Len(toZone[s]))
    <3> SUFFICES ASSUME i > Len(toZone[s]) PROVE FALSE
      OBVIOUS
    <3>1. Warned(s, d, z, entering, locked, toZone'[s][i])
      BY <2>1 DEF Entered, Sends
    <3> QED BY <2>2, <3>1, WarnedIs
  <2>5. i \in 1 .. Len(toZone[s])
    BY <2>3, <2>4
  <2>6. toZone'[s][i] = toZone[s][i]
    BY <2>1, <2>5 DEF Entered, Sends
  <2> QED BY <2>2, <2>5, <2>6 DEF Asked
<1>2. Answered(c, s)' => Answered(c, s)
  BY NoNewAnswer
<1>3. Due(c, s)' => Due(c, s)
  BY <1>1, <1>2 DEF Due
<1>4. Bound(c, s)' <=> Bound(c, s)
  BY <1>0, EnteredBound
<1>5. zone_server'[s].zone = servers[s].zone
  BY DEF Entered, Sends
<1>6. ~process[s].running /\ Len(toWorld'[s]) = 0 =>
        ~(Due(c, s)' \/ (conn[s] # "unborn" /\ process'[s].running))
  BY DEF Due, Answered
<1> QED BY <1>3, <1>4, <1>5, <1>6

\* A step of the zone process: it answers about the player it was asked about.
LEMMA HandledStays ==
  ASSUME NEW s \in Servers, NEW what, NEW p, NEW sent, Handled(s, what, p, sent),
         p.running = process[s].running, NEW c \in Clients,
         toZone[s][1].op = "ZoneIncClient" /\ toZone[s][1].client = c => c \in Held(p),
         c \in Held(process[s]) =>
           \/ toZone[s][1].op = "DropClient" /\ toZone[s][1].client = c
           \/ c \in Held(p),
         \A i \in 1 .. Len(sent) : sent[i].op = "AcceptWorldEntrance" =>
           toZone[s][1].op = "AcceptWorldEntrance" /\ toZone[s][1].client = sent[i].client
  PROVE  Stays(c)
<1>0. /\ Popped(toZone'[s], toZone[s]) /\ Grown(toWorld'[s], toWorld[s], sent)
      /\ process'[s] = p /\ process[s].running
      /\ \A q \in Servers : q # s =>
           /\ toZone'[q] = toZone[q] /\ toWorld'[q] = toWorld[q]
           /\ process'[q] = process[q]
      /\ UNCHANGED <<conn, zone_server>>
  BY DEF Handled
<1>1. \A q \in Servers : Bound(c, q) => Bound(c, q)'
  BY HandledStillBound
<1>2. \A q \in Servers : process'[q].running <=> process[q].running
  BY <1>0
<1>3. ASSUME NEW q \in Servers, q # s, Due(c, q)' PROVE Due(c, q)
  BY <1>0, <1>3 DEF Due, Asked, Answered
<1>4. Asked(c, s)' => Asked(c, s)
  <2> SUFFICES ASSUME NEW i \in 1 .. Len(toZone'[s]),
                      toZone'[s][i].op = "AcceptWorldEntrance",
                      toZone'[s][i].client = c
               PROVE  Asked(c, s)
    BY DEF Asked
  <2>1. i + 1 \in 1 .. Len(toZone[s]) /\ toZone'[s][i] = toZone[s][i + 1]
    BY <1>0 DEF Popped
  <2> QED BY <2>1 DEF Asked
<1>5. Answered(c, s)' => Due(c, s)
  <2> SUFFICES ASSUME NEW i \in 1 .. Len(toWorld'[s]),
                      toWorld'[s][i].op = "AcceptWorldEntrance",
                      toWorld'[s][i].client = c
               PROVE  Due(c, s)
    BY DEF Answered
  <2>1. CASE i \in 1 .. Len(toWorld[s]) /\ toWorld'[s][i] = toWorld[s][i]
    BY <2>1 DEF Due, Answered
  <2>2. CASE \E k \in 1 .. Len(sent) : toWorld'[s][i] = sent[k]
    <3>1. toZone[s][1].op = "AcceptWorldEntrance" /\ toZone[s][1].client = c
      BY <2>2
    <3>2. 1 \in 1 .. Len(toZone[s])
      BY <1>0 DEF Popped
    <3> QED BY <1>0, <3>1, <3>2 DEF Due, Asked
  <2> QED BY <1>0, <2>1, <2>2, GrownHas
<1>6. \A q \in Servers : Due(c, q)' => Due(c, q)
  BY <1>0, <1>3, <1>4, <1>5 DEF Due
<1> QED BY <1>0, <1>1, <1>2, <1>6 DEF Stays

\* A process that ends, with nothing said of a player.
LEMMA EndsStays ==
  ASSUME NEW s \in Servers, NEW c, ~process'[s].running,
         \A q \in Servers : q # s =>
           process'[q] = process[q] /\ toWorld'[q] = toWorld[q],
         UNCHANGED <<conn, zone_server, toZone>>,
         Answered(c, s)' => Answered(c, s)
  PROVE  Stays(c)
<1>1. ASSUME NEW q \in Servers, q # s
      PROVE  /\ Due(c, q)' => Due(c, q)
             /\ Bound(c, q)' <=> Bound(c, q)
             /\ process'[q].running <=> process[q].running
  BY <1>1, BoundFrame DEF Due, Asked, Answered
<1>2. Due(c, s)' => Due(c, s)
  BY DEF Due
<1> QED BY <1>1, <1>2 DEF Stays

LEMMA NextSent ==
  ASSUME WorldEntryAssumption, SingleHost, ~LateAnswers, TypeAndTidy, InOrder, HostInv,
         SentInv, [Next]_vars
  PROVE  SentInv'
<1> USE WorldEntryAssumption
<1>0. TypeOK /\ Tidy /\ NZones \in Nat
  BY DEF TypeAndTidy, WorldEntryAssumption
<1>i. \A c \in Clients : Sent(c)
  BY DEF SentInv
<1>m. KeepsForemost
  BY NextForemost
<1>h. GivenOnce /\ \A s \in Servers : Serves(s) /\ LastWord(s)
  BY DEF HostInv
\* Whoever stays where it is, expected as it was.
<1>k. ASSUME NEW c \in Clients, Stays(c), client'[c] = client[c], view'[c] = view[c]
      PROVE  Sent(c)'
  BY <1>0, <1>m, <1>k, <1>i, SentKept
<1>s. ASSUME UNCHANGED <<client, view>>, \A c \in Clients : Stays(c)
      PROVE  SentInv'
  BY <1>s, <1>k DEF SentInv
\* A player at character select has nothing to come, and is to be announced.
<1>c. ASSUME NEW c \in Clients, Chooses(c)
      PROVE  /\ ~client[c].triggered /\ view[c].at = "select"
             /\ \A s \in Servers : ~Due(c, s)
             /\ UNCHANGED <<conn, process, adrift, toWorld>>
  <2>1. ~AnswerDue(c)
    BY <1>c DEF Chooses
  <2>2. ASSUME NEW s \in Servers PROVE ~Asked(c, s) /\ ~Answered(c, s)
    <3>1. toZone[s] \in Seq(ToZoneMsg) /\ toWorld[s] \in Seq(ToWorldMsg)
      BY <1>0, TypeIs
    <3>2. DOMAIN toZone[s] = 1 .. Len(toZone[s]) /\ DOMAIN toWorld[s] = 1 .. Len(toWorld[s])
      BY <3>1, LenProperties
    <3> QED BY <2>1, <3>2 DEF AnswerDue, Asked, Answered
  <2>3. ~client[c].triggered
    BY <1>c, <1>i DEF Chooses, Sent
  <2> QED BY <1>c, <2>2, <2>3 DEF Chooses, Due
<1>1. ASSUME NEW c \in Clients, NewSession(c) PROVE SentInv'
  <2>1. PICK seen \in BOOLEAN :
          client' = [client EXCEPT ![c] = [NewClient EXCEPT !.open = TRUE, !.seen = seen]]
    BY <1>1 DEF NewSession
  <2>2. /\ client'[c].zone_id = 0 /\ client'[c].waiting = 0 /\ ~client'[c].triggered
        /\ view'[c].at # "going"
        /\ \A e \in Clients : e # c => client'[e] = client[e] /\ view'[e] = view[e]
    BY <1>0, <1>1, <2>1, TypeIs DEF NewSession, NewClient, At
  <2>3. \A e \in Clients : Stays(e)
    BY <1>1, QuietStays DEF NewSession
  <2> QED BY <1>k, <2>2, <2>3, <1>0, <1>m, SentBack DEF SentInv
<1>2. ASSUME NEW c \in Clients, SessionEnds(c) PROVE SentInv'
  <2>1. /\ client'[c].zone_id = 0 /\ client'[c].waiting = 0 /\ ~client'[c].triggered
        /\ view'[c].at # "going" \/ view'[c] = view[c]
        /\ \A e \in Clients : e # c => client'[e] = client[e] /\ view'[e] = view[e]
    BY <1>0, <1>2, TypeIs DEF SessionEnds, NewClient, At
  <2>2. \A e \in Clients : Stays(e)
    BY <1>2, QuietStays DEF SessionEnds
  <2> QED BY <1>i, <1>k, <2>1, <2>2, <1>0, <1>m, SentBack DEF SentInv
<1>3. ASSUME NEW c \in Clients, AutobootTimeout(c) PROVE SentInv'
  <2>1. /\ client'[c] = Unavailable(client[c]) /\ view'[c] = Told(view[c])
        /\ \A e \in Clients : e # c => client'[e] = client[e] /\ view'[e] = view[e]
    BY <1>0, <1>3, TypeIs DEF AutobootTimeout
  <2>2. \A e \in Clients : Stays(e)
    BY <1>3, QuietStays DEF AutobootTimeout
  <2> QED BY <1>0, <1>m, <1>i, <1>k, <2>1, <2>2, SentUnavailable DEF SentInv
<1>4. ASSUME NEW c \in Clients, NEW z \in Zones, EnterHosted(c, z) PROVE SentInv'
  <2>1. PICK locked \in SUBSET {c}, d \in Listed :
          Entered({c}, locked, {}, z, zone_server, d)
    BY <1>0, <1>4, EnterHostedDoes
  <2>2. /\ ~client[c].triggered /\ view[c].at = "select"
        /\ \A s \in Servers : ~Due(c, s)
        /\ UNCHANGED <<conn, process, adrift, toWorld>>
    BY <1>4, <1>c DEF EnterHosted
  <2> DEFINE entering == {c}
  <2>3. c \in entering /\ Entered(entering, locked, {}, z, zone_server, d)
    BY <2>1
  <2>4. \A e \in Clients : e # c => e \in Clients \ entering
    OBVIOUS
  <2> HIDE DEF entering
  <2>5. Sent(c)'
    BY <1>i, <1>m, <2>2, <2>3, EnteredSent
  <2>6. ASSUME NEW e \in Clients, e # c PROVE Sent(e)'
    <3>1. Stays(e)
      BY <2>2, <2>3, <2>4, <2>6, EnteredStays
    <3>2. client'[e] = client[e] /\ view'[e] = view[e]
      BY <2>3, <2>4, <2>6 DEF Entered
    <3> QED BY <1>k, <3>1, <3>2
  <2> QED BY <2>5, <2>6 DEF SentInv
<1>5. ASSUME NEW c \in Clients, NEW z \in Zones, EnterBoots(c, z) PROVE SentInv'
  <2> DEFINE m == [op |-> "ZoneBootup", zone |-> z]
  <2>1. PICK s \in Servers : s = IdleServer
    BY <1>5, IdleIs DEF EnterBoots, Listed
  <2>2. zone_server[s].zone = 0
    BY <1>5, <2>1, IdleIs DEF EnterBoots
  <2>3. /\ ~client[c].triggered /\ \A q \in Servers : ~Due(c, q)
        /\ UNCHANGED <<conn, process, adrift, toWorld>>
    BY <1>5, <1>c DEF EnterBoots
  <2>4. /\ zone_server' = [zone_server EXCEPT ![s] = Triggered(z)]
        /\ toZone' = [toZone EXCEPT ![s] = Append(@, m)]
        /\ client' = [client EXCEPT ![c] = Waits(@, z, s)]
        /\ view' = [view EXCEPT ![c] = At("entering")]
    BY <1>5, <2>1 DEF EnterBoots
  <2>5. m \in ToZoneMsg /\ m.op = "ZoneBootup"
    BY DEF ToZoneMsg
  <2> HIDE DEF m
  <2>6. /\ toZone'[s] = Append(toZone[s], m)
        /\ \A q \in Servers : q # s =>
             zone_server'[q] = zone_server[q] /\ toZone'[q] = toZone[q]
    BY <1>0, <2>4, TypeIs
  <2>7. ASSUME NEW e \in Clients, NEW q \in Servers, Due(e, q)' PROVE Due(e, q)
    <3>1. CASE q # s
      BY <2>3, <2>6, <2>7, <3>1 DEF Due, Asked, Answered
    <3>2. CASE q = s
      <4>1. Asked(e, s)' => Asked(e, s)
        <5> SUFFICES ASSUME NEW i \in 1 .. Len(toZone'[s]),
                            toZone'[s][i].op = "AcceptWorldEntrance",
                            toZone'[s][i].client = e
                     PROVE  Asked(e, s)
          BY DEF Asked
        <5>1. /\ Len(toZone[s]) \in Nat /\ Len(toZone'[s]) = Len(toZone[s]) + 1
              /\ \A j \in 1 .. Len(toZone[s]) : toZone'[s][j] = toZone[s][j]
              /\ toZone'[s][Len(toZone[s]) + 1] = m
          <6>1. toZone[s] \in Seq(ToZoneMsg)
            BY <1>0, TypeIs
          <6> QED BY <2>5, <2>6, <6>1, AppendProperties, LenProperties
        <5>2. i # Len(toZone[s]) + 1
          BY <2>5, <5>1
        <5>3. i \in 1 .. Len(toZone[s])
          BY <5>1, <5>2
        <5> QED BY <5>1, <5>3 DEF Asked
      <4> QED BY <2>3, <2>7, <3>2, <4>1 DEF Due, Answered
    <3> QED BY <3>1, <3>2
  <2>8. ASSUME NEW e \in Clients PROVE Stays(e)
    <3>1. \A q \in Servers : Bound(e, q)' <=> Bound(e, q)
      BY <1>0, <1>5, BootsBound
    <3>2. \A q \in Servers : zone_server[q].zone # 0 =>
            zone_server'[q].zone = zone_server[q].zone
      BY <2>2, <2>6
    <3> QED BY <2>3, <2>7, <3>1, <3>2 DEF Stays
  <2>9. Sent(c)'
    <3>1. client[c] \in ClientType /\ s \in 0 .. NServers
      BY <1>0, TypeIs DEF Servers
    <3>2. ~client'[c].triggered /\ view'[c].at = "entering"
      BY <1>0, <2>3, <2>4, <3>1, TypeIs DEF Waits, ClientType, At
    <3>3. \A q \in Servers : ~Due(c, q)'
      BY <2>3, <2>7
    <3> QED BY <3>2, <3>3, SentNext
  <2>10. ASSUME NEW e \in Clients, e # c PROVE Sent(e)'
    <3>1. client'[e] = client[e] /\ view'[e] = view[e]
      BY <1>0, <2>4, <2>10, TypeIs
    <3> QED BY <1>k, <2>8, <3>1
  <2> QED BY <2>9, <2>10 DEF SentInv
<1>6. ASSUME NEW c \in Clients, NEW z \in Zones, EnterNowhere(c, z) PROVE SentInv'
  <2>1. /\ client'[c] = Unavailable(client[c]) /\ view' = view /\ view[c].at = "select"
        /\ \A e \in Clients : e # c => client'[e] = client[e]
    BY <1>0, <1>6, TypeIs DEF EnterNowhere, Chooses
  <2>2. \A e \in Clients : Stays(e)
    BY <1>6, QuietStays DEF EnterNowhere, Chooses
  <2>3. client'[c].zone_id = 0 /\ client'[c].waiting = 0 /\ ~client'[c].triggered
    BY <1>0, <2>1, TypeIs DEF Unavailable, ClientType
  <2>4. Sent(c)'
    BY <1>0, <1>m, <2>1, <2>3, SentBack
  <2> QED BY <1>k, <2>1, <2>2, <2>4 DEF SentInv
<1>l. ASSUME NEW s \in Servers, NEW p, Listing(s, p) PROVE SentInv'
  <2>1. /\ conn[s] = "unborn" /\ conn'[s] = "listed" /\ toZone[s] = <<>>
        /\ \A q \in Servers : q # s =>
             /\ conn'[q] = conn[q] /\ process'[q] = process[q]
             /\ toWorld'[q] = toWorld[q] /\ zone_server'[q] = zone_server[q]
        /\ UNCHANGED <<toZone, client, view>>
    BY <1>0, <1>l, TypeIs DEF Listing, Tidy
  <2>2. \A i \in 1 .. Len(toWorld'[s]) : toWorld'[s][i].op # "AcceptWorldEntrance"
    <3>1. toWorld'[s] = <<>> \/ toWorld'[s] = <<Report(p.loaded)>>
      BY <1>0, <1>l, TypeIs DEF Listing, Reports, Report
    <3>2. CASE toWorld'[s] = <<>>
      BY <3>2
    <3>3. CASE toWorld'[s] = <<Report(p.loaded)>>
      BY <3>3 DEF Report
    <3> QED BY <3>1, <3>2, <3>3
  <2>3. ASSUME NEW c \in Clients PROVE Stays(c)
    <3>1. ~Due(c, s)'
      BY <2>1, <2>2 DEF Due, Asked, Answered
    <3>2. ASSUME NEW q \in Servers, q # s
          PROVE  /\ Due(c, q)' => Due(c, q)
                 /\ Bound(c, q)' <=> Bound(c, q)
      BY <2>1, <3>2, BoundFrame DEF Due, Asked, Answered
    <3> QED BY <2>1, <3>1, <3>2 DEF Stays
  <2> QED BY <1>s, <2>1, <2>3
<1>7. ASSUME NEW s \in Servers, Connects(s) PROVE SentInv'
  BY <1>l, <1>7, Zenon DEF Connects
<1>18. ASSUME NEW s \in Servers, Reconnects(s) PROVE SentInv'
  BY <1>l, <1>18, Zenon DEF Reconnects
<1>8. ASSUME NEW s \in Servers, Removed(s) PROVE SentInv'
  <2>1. /\ conn'[s] = "removed" /\ process' = process /\ ~process[s].running
        /\ toZone'[s] = <<>> /\ toWorld'[s] = <<>>
        /\ \A q \in Servers : q # s =>
             /\ conn'[q] = conn[q] /\ toZone'[q] = toZone[q]
             /\ toWorld'[q] = toWorld[q] /\ zone_server'[q] = zone_server[q]
        /\ UNCHANGED <<client, view>>
    BY <1>0, <1>8, TypeIs DEF Removed
  <2>2. ASSUME NEW c \in Clients PROVE Stays(c)
    <3>1. ~Due(c, s)'
      BY <2>1 DEF Due, Asked, Answered
    <3>2. ASSUME NEW q \in Servers, q # s
          PROVE  /\ Due(c, q)' => Due(c, q)
                 /\ Bound(c, q)' <=> Bound(c, q)
      BY <2>1, <3>2, BoundFrame DEF Due, Asked, Answered
    <3> QED BY <2>1, <3>1, <3>2 DEF Stays
  <2> QED BY <1>s, <2>1, <2>2
<1>9. ASSUME NEW s \in Servers, SetZone(s) PROVE SentInv'
  <2> DEFINE z == toWorld[s][1].zone
             servers == Reported(s, z)
             entering == LetIn(z)
             failed == TurnedAway(s, z)
  <2>1. /\ conn[s] = "listed" /\ z \in 0 .. NZones /\ toWorld[s][1].op = "SetZone"
        /\ Popped(toWorld'[s], toWorld[s])
        /\ \A q \in Servers : q # s => toWorld'[q] = toWorld[q]
        /\ UNCHANGED <<conn, process, adrift, tries>>
    BY <1>0, <1>9, SetZoneDoes
  <2>l. PICK locked \in SUBSET entering : \E d :
          Entered(entering, locked, failed, z, servers, d)
    BY <1>0, <1>9, SetZoneDoes
  <2>2. PICK d :
          Entered(entering, locked, failed, z, servers, d)
    BY <2>l
  <2>3. /\ \A q \in Servers : q # s => servers[q] = zone_server[q]
        /\ servers[s].zone = z
    BY <1>0, TypeIs DEF Reported
  <2>4. \A q \in Servers : \/ servers[q].zone = zone_server[q].zone
                           \/ ~process[q].running /\ Len(toWorld'[q]) = 0
    <3>1. 1 \in 1 .. Len(toWorld[s])
      BY <2>1 DEF Popped
    <3>2. z = zone_server[s].zone \/ (z = 0 /\ Len(toWorld[s]) = 1)
      BY <1>h, <2>1, <3>1 DEF LastWord
    <3>3. ASSUME z = 0, Len(toWorld[s]) = 1
          PROVE  ~process[s].running /\ Len(toWorld'[s]) = 0
      BY <1>h, <2>1, <3>1, <3>3 DEF Serves, Popped
    <3> QED BY <2>3, <3>2, <3>3
  <2>5. \A c \in entering \cup failed : c \in Clients /\ client[c].waiting # 0
    BY DEF LetIn, TurnedAway, Servers
  <2> HIDE DEF z, servers, entering, failed
  <2>6. \A q \in Servers : toWorld'[q] = toWorld[q] \/ Popped(toWorld'[q], toWorld[q])
    BY <2>1
  <2>7. ASSUME NEW c \in entering PROVE Sent(c)'
    <3>1. /\ c \in Clients /\ ~client[c].triggered /\ view[c].at # "going"
          /\ \A q \in Servers : ~Due(c, q)
      BY <1>i, <2>5 DEF Sent
    <3> QED BY <1>i, <1>m, <2>1, <2>2, <2>6, <3>1, EnteredSent
  <2>8. ASSUME NEW c \in failed PROVE Sent(c)'
    <3>1. c \in Clients /\ view[c].at # "going"
      BY <1>i, <2>5 DEF Sent
    <3>2. client'[c] = Unavailable(client[c]) /\ view'[c] = Told(view[c])
      BY <2>2, <3>1 DEF Entered
    <3> QED BY <1>0, <1>m, <1>i, <3>1, <3>2, SentUnavailable
  <2>9. ASSUME NEW c \in Clients, c \notin entering \cup failed PROVE Sent(c)'
    <3>1. client'[c] = client[c] /\ view'[c] = view[c]
      BY <2>2, <2>9 DEF Entered
    <3>2. Stays(c)
      <4>1. c \in Clients \ entering
        BY <2>9
      <4> QED BY <2>1, <2>2, <2>4, <2>6, <4>1, EnteredStays
    <3> QED BY <1>k, <3>1, <3>2
  <2> QED BY <2>7, <2>8, <2>9 DEF SentInv
<1>10. ASSUME NEW s \in Servers, AcceptReply(s) PROVE SentInv'
  <2>1. Gets(toWorld, s, "AcceptWorldEntrance")
        /\ toWorld' = [toWorld EXCEPT ![s] = Tail(@)]
        /\ UNCHANGED <<conn, zone_server, process, adrift, toZone, tries>>
    BY <1>10 DEF AcceptReply
  <2>2. /\ conn[s] = "listed" /\ s \in Listed
        /\ toWorld[s][1].op = "AcceptWorldEntrance" /\ toWorld[s][1] \in ToWorldMsg
        /\ Head(toWorld[s]) = toWorld[s][1]
        /\ Popped(toWorld'[s], toWorld[s])
        /\ \A q \in Servers : q # s => toWorld'[q] = toWorld[q]
    BY <1>0, <2>1, WorldGets
  <2>c. PICK c \in Clients : c = toWorld[s][1].client
    BY <2>2 DEF ToWorldMsg
  <2>3. PICK z : c = toWorld[s][1].client /\ z = client[c].zone_id
    BY <2>c
  <2>4. ASSUME NEW e \in Clients PROVE Stays(e)
    <3>1. \A q \in Servers : Due(e, q)' => Due(e, q)
      <4>1. \A q \in Servers : Answered(e, q)' => Answered(e, q)
        BY <2>2, NoNewAnswer
      <4> QED BY <2>1, <4>1 DEF Due, Asked
    <3>2. \A q \in Servers : Bound(e, q)' <=> Bound(e, q)
      BY <2>1, BoundFrame
    <3> QED BY <2>1, <3>1, <3>2 DEF Stays
  <2>5. \/ UNCHANGED <<client, view>>
        \/ /\ client' = [client EXCEPT ![c] = Unavailable(@)]
           /\ view' = [view EXCEPT ![c] = Told(@)]
        \/ /\ UNCHANGED client
           /\ z # 0 /\ FindByZoneID(zone_server, z) # 0
           /\ view' = [view EXCEPT ![c] = GoingTo(FindByZoneID(zone_server, z), z)]
    BY <1>10, <2>2, <2>3 DEF AcceptReply, Clearance
  <2>6. CASE UNCHANGED <<client, view>>
    BY <1>s, <2>4, <2>6
  <2>7. CASE /\ client' = [client EXCEPT ![c] = Unavailable(@)]
             /\ view' = [view EXCEPT ![c] = Told(@)]
    <3>1. /\ client'[c] = Unavailable(client[c]) /\ view'[c] = Told(view[c])
          /\ \A e \in Clients : e # c => client'[e] = client[e] /\ view'[e] = view[e]
      BY <1>0, <2>3, <2>7, TypeIs
    <3> QED BY <1>0, <1>m, <1>i, <1>k, <2>3, <2>4, <3>1, SentUnavailable DEF SentInv
  <2>8. CASE /\ UNCHANGED client
             /\ z # 0 /\ FindByZoneID(zone_server, z) # 0
             /\ view' = [view EXCEPT ![c] = GoingTo(FindByZoneID(zone_server, z), z)]
    <3>1. Due(c, s)
      <4>1. 1 \in 1 .. Len(toWorld[s])
        BY <2>2 DEF Popped
      <4> QED BY <2>2, <2>3, <4>1 DEF Due, Answered
    <3>2. Expected(c, s, z)
      BY <1>i, <2>3, <2>8, <3>1 DEF Sent
    <3>3. FindByZoneID(zone_server, z) = s
      <4>1. PICK f : f = FindByZoneID(zone_server, z)
        OBVIOUS
      <4>2. f \in Listed /\ zone_server[f].zone = z
        BY <2>8, <4>1, FindIs
      <4>3. s \in Nat /\ f \in Nat /\ f <= s
        BY <2>2, <2>8, <3>2, <4>1, FindIs DEF Expected, Servers
      <4> QED BY <3>2, <4>1, <4>2, <4>3 DEF Expected, Foremost
    <3>4. client'[c] = client[c] /\ view'[c] = GoingTo(s, z)
          /\ \A e \in Clients : e # c => client'[e] = client[e] /\ view'[e] = view[e]
      BY <1>0, <2>3, <2>8, <3>3, TypeIs
    <3>5. ExpectedNext(c, s, z)
      <4>1. Bound(c, s)' <=> Bound(c, s)
        BY <2>1, BoundFrame
      <4> QED BY <2>1, <3>2, <4>1, BoundIsNext
              DEF Expected, ExpectedNext, Foremost, ForemostNext, Listed
    <3>6. client'[c].zone_id # 0 =>
            \A q \in Servers : Due(c, q)' => ExpectedNext(c, q, client'[c].zone_id)
      <4> SUFFICES ASSUME client[c].zone_id # 0, NEW q \in Servers, Due(c, q)'
                   PROVE  ExpectedNext(c, q, client[c].zone_id)
        BY <3>4
      <4>1. Due(c, q) /\ Expected(c, q, client[c].zone_id)
        BY <1>i, <2>3, <2>4 DEF Stays, Sent
      <4> QED BY <1>0, <1>m, <2>3, <2>4, <4>1, StaysExpected
    <3>7. client[c].waiting = 0
      BY <1>i, <2>3, <3>1 DEF Sent
    <3>8. view'[c].at = "going" /\ view'[c].to = s /\ view'[c].zone = z
      BY <3>4 DEF GoingTo
    <3>9. Sent(c)'
      BY <2>1, <2>2, <2>8, <3>4, <3>5, <3>6, <3>7, <3>8, SentNext
    <3> QED BY <1>k, <2>4, <3>4, <3>9 DEF SentInv
  <2> QED BY <2>5, <2>6, <2>7, <2>8
<1>p. \A s \in Servers : process[s] \in ZoneProcess
  BY <1>0, TypeIs
<1>11. ASSUME NEW s \in Servers, ZoneBootup(s) PROVE SentInv'
  <2>1. PICK z \in Zones :
          /\ toZone[s][1] = [op |-> "ZoneBootup", zone |-> z]
          /\ Handled(s, "ZoneBootup", [process[s] EXCEPT !.loaded = Loads(s, z)], Tells(s, z))
    BY <1>0, <1>11, ZoneBootupDoes
  <2> DEFINE p == [process[s] EXCEPT !.loaded = Loads(s, z)]
  <2>2. Held(p) = Held(process[s]) /\ p.running = process[s].running
    BY <1>p DEF ZoneProcess, Held
  <2>3. Handled(s, "ZoneBootup", p, Tells(s, z)) /\ toZone[s][1].op = "ZoneBootup"
    BY <2>1
  <2> HIDE DEF p
  <2>4. \A i \in 1 .. Len(Tells(s, z)) : Tells(s, z)[i].op # "AcceptWorldEntrance"
    <3>1. AllReport(Tells(s, z), Loads(s, z))
      BY <1>0, TellsIs
    <3> QED BY <3>1 DEF AllReport, Report
  <2>5. \A c \in Clients : Stays(c)
    BY <2>2, <2>3, <2>4, HandledStays
  <2> QED BY <1>s, <2>3, <2>5 DEF Handled
<1>12. ASSUME NEW s \in Servers, ZoneIncClient(s) PROVE SentInv'
  <2>1. PICK z \in Zones, c \in Clients :
          /\ toZone[s][1] = [op |-> "ZoneIncClient", zone |-> z, client |-> c]
          /\ Handled(s, "ZoneIncClient", Admits(s, z, c), Tells(s, z))
    BY <1>0, <1>12, ZoneIncClientDoes
  <2> DEFINE p == Admits(s, z, c)
  <2>2. Handled(s, "ZoneIncClient", p, Tells(s, z)) /\ toZone[s][1].op = "ZoneIncClient"
        /\ toZone[s][1].client = c /\ toZone[s][1].zone = z
    BY <2>1
  <2>3. Loads(s, z) = z
    <3>1. 1 \in 1 .. Len(toZone[s]) /\ conn[s] = "listed" /\ process[s].running
      BY <2>2 DEF Handled, Popped
    <3>2. z = zone_server[s].zone /\ process[s].loaded \in {0, zone_server[s].zone}
      BY <1>h, <2>2, <3>1 DEF Serves
    <3> QED BY <3>2 DEF Loads, BootsAs, SingleHost
  <2>4. /\ c \in Held(p) /\ Held(process[s]) \subseteq Held(p)
        /\ p.running = process[s].running
    BY <1>0, <2>3, AdmitsIs
  <2> HIDE DEF p
  <2>5. \A i \in 1 .. Len(Tells(s, z)) : Tells(s, z)[i].op # "AcceptWorldEntrance"
    <3>1. AllReport(Tells(s, z), Loads(s, z))
      BY <1>0, TellsIs
    <3> QED BY <3>1 DEF AllReport, Report
  <2>6. \A e \in Clients : Stays(e)
    BY <2>2, <2>4, <2>5, HandledStays
  <2> QED BY <1>s, <2>2, <2>6 DEF Handled
<1>13. ASSUME NEW s \in Servers, AcceptWorldEntrance(s) PROVE SentInv'
  <2>1. PICK c \in Clients, sent \in Seq(ToWorldMsg) :
          /\ toZone[s][1] = Question(c)
          /\ \A i \in 1 .. Len(sent) :
               sent[i].op = "AcceptWorldEntrance" /\ sent[i].client = c
          /\ Handled(s, "AcceptWorldEntrance", process[s], sent)
    BY <1>0, <1>13, AcceptDoes
  <2>2. toZone[s][1].op = "AcceptWorldEntrance" /\ toZone[s][1].client = c
    BY <2>1 DEF Question
  <2>3. \A e \in Clients : Stays(e)
    BY <2>1, <2>2, HandledStays
  <2> QED BY <1>s, <2>1, <2>3 DEF Handled
<1>14. ASSUME NEW s \in Servers, DropClient(s) PROVE SentInv'
  <2>1. PICK c \in Clients :
          /\ toZone[s][1] = [op |-> "DropClient", client |-> c]
          /\ Handled(s, "DropClient", Drops(s, c), <<>>)
    BY <1>0, <1>14, DropDoes
  <2> DEFINE p == Drops(s, c)
  <2>2. Held(process[s]) \subseteq Held(p) \cup {c} /\ p.running = process[s].running
    BY <1>0, DropsIs
  <2>3. Handled(s, "DropClient", p, <<>>) /\ toZone[s][1].op = "DropClient"
        /\ toZone[s][1].client = c
    BY <2>1
  <2> HIDE DEF p
  <2>4. \A i \in 1 .. Len(<<>>) : <<>>[i].op = "AcceptWorldEntrance" =>
           toZone[s][1].op = "AcceptWorldEntrance" /\ toZone[s][1].client = <<>>[i].client
    OBVIOUS
  <2>5. \A e \in Clients : Stays(e)
    BY <2>2, <2>3, <2>4, HandledStays
  <2> QED BY <1>s, <2>3, <2>5 DEF Handled
<1>n. NoProcess \in ZoneProcess /\ ~NoProcess.running
  <2>1. NServers \in Nat
    BY DEF WorldEntryAssumption
  <2> QED BY <1>0, <2>1 DEF NoProcess, ZoneProcess
<1>15. ASSUME NEW s \in Servers, ShutsDown(s) PROVE SentInv'
  <2>1. AllReport(Reports(<<0>>), 0)
    <3>1. 0 \in 0 .. NZones
      BY <1>0
    <3> QED BY <3>1, ReportsIs, Zenon
  <2>2. /\ toWorld'[s] = toWorld[s] \o Reports(<<0>>)
        /\ ~process'[s].running
        /\ \A q \in Servers : q # s =>
             toWorld'[q] = toWorld[q] /\ process'[q] = process[q]
        /\ UNCHANGED <<conn, zone_server, toZone, client, view>>
    <3>1. ~Ended.running
      BY <1>n DEF Ended, ZoneProcess, SingleHost
    <3> QED BY <1>0, <1>15, <3>1, TypeIs DEF ShutsDown, Ended
  <2> DEFINE sent == Reports(<<0>>)
  <2> HIDE DEF sent
  <2>3. Grown(toWorld'[s], toWorld[s], sent) /\ AllReport(sent, 0)
    <3>1. toWorld[s] \in Seq(ToWorldMsg) /\ sent \in Seq(ToWorldMsg)
      BY <1>0, <2>1, TypeIs DEF AllReport, sent
    <3> QED BY <2>1, <2>2, <3>1, ConcatGrows DEF sent
  <2>4. ASSUME NEW c \in Clients PROVE Answered(c, s)' => Answered(c, s)
    <3> SUFFICES ASSUME NEW i \in 1 .. Len(toWorld'[s]),
                        toWorld'[s][i].op = "AcceptWorldEntrance",
                        toWorld'[s][i].client = c
                 PROVE  Answered(c, s)
      BY DEF Answered
    <3>1. ~\E k \in 1 .. Len(sent) : toWorld'[s][i] = sent[k]
      BY <2>3 DEF AllReport, Report
    <3>2. i \in 1 .. Len(toWorld[s]) /\ toWorld'[s][i] = toWorld[s][i]
      BY <2>3, <3>1, GrownHas
    <3> QED BY <3>2 DEF Answered
  <2>5. \A c \in Clients : Stays(c)
    BY <2>2, <2>4, EndsStays
  <2> QED BY <1>s, <2>2, <2>5
<1>e. ASSUME NEW s \in Servers, process' = [process EXCEPT ![s] = NoProcess],
             UNCHANGED <<conn, zone_server, toZone, toWorld, client, view>>
      PROVE  SentInv'
  <2>1. /\ \A q \in Servers : q # s => process'[q] = process[q]
        /\ ~process'[s].running
    BY <1>0, <1>n, <1>e, TypeIs
  <2>2. \A c \in Clients : Stays(c)
    BY <1>e, <2>1, EndsStays DEF Answered
  <2> QED BY <1>e, <1>s, <2>2
<1>16. ASSUME NEW s \in Servers, Crashes(s) PROVE SentInv'
  BY <1>e, <1>16 DEF Crashes
<1>19. ASSUME NEW s \in Servers, LinkBreaks(s) PROVE SentInv'
  BY <1>e, <1>19 DEF LinkBreaks
<1>20. ASSUME NEW s \in Servers, AuthTimeout(s) PROVE SentInv'
  <2>g. PICK gone \in (SUBSET process[s].auth) \ {{}} :
          process' = [process EXCEPT ![s] = Forgets(s, gone)]
    BY <1>20, Zenon DEF AuthTimeout, Forgets
  <2>1. /\ Forgets(s, gone).running = process[s].running
        /\ Held(Forgets(s, gone)) = Held(process[s])
    BY <1>0, ForgetsIs
  <2>2. ASSUME NEW q \in Servers
        PROVE  /\ process'[q].running = process[q].running
               /\ Held(process'[q]) = Held(process[q])
    <3>1. process'[q] = IF q = s THEN Forgets(s, gone) ELSE process[q]
      BY <1>0, <2>g, TypeIs
    <3> QED BY <2>1, <3>1
  <2>3. UNCHANGED <<conn, zone_server, toZone, toWorld, client, view>>
    BY <1>20 DEF AuthTimeout
  <2>4. ASSUME NEW c \in Clients PROVE Stays(c)
    <3>1. \A q \in Servers : Bound(c, q)' <=> Bound(c, q)
      BY <2>2, <2>3, BoundFrame
    <3> QED BY <2>2, <2>3, <3>1 DEF Stays, Due, Asked, Answered
  <2> QED BY <1>s, <2>3, <2>4
<1>17. CASE UNCHANGED vars
  BY <1>17, <1>s, QuietStays DEF vars
<1> QED BY <1>1, <1>2, <1>3, <1>4, <1>5, <1>6, <1>7, <1>8, <1>9, <1>10, <1>11,
           <1>12, <1>13, <1>14, <1>15, <1>16, <1>17, <1>18, <1>19, <1>20 DEF Next

\* Whoever is sent to a zone is expected there (client.cpp, "warn the zone
\* we're coming"): the packet that announces the player precedes the one that
\* asks about it, and an answer can only be of the zone the player was told of.
\* This holds until the zone forgets the player (clientauth_timer), and over the
\* link by which the zone was warned: not once it is lost.
THEOREM WarnedFirst ==
  ASSUME SingleHost, ~LateAnswers PROVE Spec => []WarnedBeforeSent
<1>1. Init => SentInv
  BY DEF Init, SentInv, Sent, NewClient, At
<1>2. TypeAndTidy /\ InOrder /\ HostInv /\ SentInv /\ [Next]_vars => SentInv'
  BY WorldEntryAssumption, NextSent
<1>3. TypeAndTidy /\ HostInv /\ SentInv => WarnedBeforeSent
  <2> SUFFICES ASSUME TypeAndTidy, HostInv, SentInv, NEW c \in Clients,
                      view[c].at = "going", process[view[c].to].running
               PROVE  LET s == view[c].to
                          z == view[c].zone
                      IN \/ c \in process[s].auth \cup process[s].lapsed
                         \/ \E i \in DOMAIN toZone[s] : toZone[s][i] =
                              [op |-> "ZoneIncClient", zone |-> z, client |-> c]
    BY Zenon DEF WarnedBeforeSent
  <2>z. PICK z : z = view[c].zone
    OBVIOUS
  <2>1. PICK s \in Servers : s = view[c].to /\ z = view[c].zone
    BY <2>z DEF SentInv, Sent
  <2>2. zone_server[s].zone = z /\ Bound(c, s)
    BY <2>1 DEF SentInv, Sent, Expected
  <2>3. ASSUME NEW i \in 1 .. Len(toZone[s]), toZone[s][i].op = "ZoneIncClient",
               toZone[s][i].client = c
        PROVE  /\ i \in DOMAIN toZone[s]
               /\ toZone[s][i] = [op |-> "ZoneIncClient", zone |-> z, client |-> c]
    <3>1. toZone[s] \in Seq(ToZoneMsg)
      BY TypeIs DEF TypeAndTidy
    <3>2. toZone[s][i] \in ToZoneMsg /\ i \in DOMAIN toZone[s]
      BY <3>1, ElementOfSeq, LenProperties
    <3>3. toZone[s][i].zone = z
      <4>1. conn[s] = "listed" /\ process[s].running
        BY <2>1 DEF TypeAndTidy, Tidy
      <4> QED BY <2>2, <2>3, <4>1 DEF HostInv, Serves
    <3> QED BY <2>3, <3>2, <3>3 DEF ToZoneMsg
  <2>4. c \in process[s].auth \cup process[s].lapsed \/ Announced(toZone[s], c)
    BY <2>2 DEF Bound, Held
  <2> QED BY <2>1, <2>3, <2>4 DEF Announced
<1> QED BY <1>1, <1>2, <1>3, FirstInvariants, HostInvariant, PTL DEF Spec

=============================================================================
