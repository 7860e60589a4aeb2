-------------------------- MODULE SharedTask_proofs --------------------------
(***************************************************************************)
(* Proofs about SharedTask, for any players, tasks, sizes and bounds:      *)
(* nobody is in two tasks, no task is over its size or without             *)
(* its leader, the table says what memory says, a locked task takes nobody *)
(* in, only a short one is about to be ended, and the rosters implement    *)
(* TaskParties.                                                            *)
(*                                                                         *)
(* They rest on IInv, which speaks of world's memory and its table only:   *)
(* whatever the zones hold and the links carry, world checks again.  The   *)
(* types of all variables follow, with what the links carry; then the      *)
(* zones: their copies follow the rosters (MirrorInv), and nobody is paid  *)
(* for a task twice (RewardInv).                                           *)
(***************************************************************************)
EXTENDS SharedTask, FiniteSetTheorems, TLAPS

In(r) == {p \in Players : r[p] # "none"}

OneLeader(r) ==
  \E q \in Players : r[q] = "leader" /\ \A s \in Players : r[s] = "leader" => s = q

Saving(l) == {Idle} \cup [task : l, at : {"delete", "insert"}]
                    \cup [task : Ids \ l, at : {"drop"}]

Shape ==
  /\ made \in 0 .. MaxTasks
  /\ live \subseteq 1 .. made
  /\ members \in [Ids -> Roster]
  /\ rows \in [Ids -> Roster]
  /\ closing \subseteq live /\ emptied \subseteq live /\ locked \subseteq live
  /\ saving \in Saving(live)

\* What the handler that is between two statements writes is the only difference
\* between the table and memory.
Kept ==
  /\ \A i \in Ids \ live : members[i] = Nobody
  /\ \A i \in Ids : (saving # Idle /\ i = saving.task) \/ rows[i] = members[i]

Apart == \A i, j \in live : i # j => In(members[i]) \cap In(members[j]) = {}
Led1  == \A i \in live : i \in emptied \/ OneLeader(members[i])
Fits  == \A i \in live : Cardinality(In(members[i])) <= MaxPlayers
Short == \A i \in closing : Cardinality(In(members[i])) < MinPlayers

IInv == Shape /\ Kept /\ Apart /\ Led1 /\ Fits /\ Short

core == <<made, live, members, rows, closing, emptied, locked, saving>>

USE SharedTaskAssumption

-----------------------------------------------------------------------------
(* Rosters *)

LEMMA Finite ==
  ASSUME NEW r \in Roster
  PROVE  IsFiniteSet(In(r)) /\ Cardinality(In(r)) \in Nat
BY FS_Subset, FS_CardinalityType DEF In

LEMMA NobodyIn == Nobody \in Roster /\ In(Nobody) = {} /\ Cardinality(In(Nobody)) = 0
<1>1. Nobody \in Roster /\ In(Nobody) = {}
  BY DEF Nobody, Roster, Roles, In
<1> QED BY <1>1, FS_EmptySet

\* MakeLeader keeps the members and leaves q the only leader.
LEMMA LeaderMade ==
  ASSUME NEW r \in Roster, NEW q \in In(r)
  PROVE  /\ MakeLeader(r, q) \in Roster
         /\ In(MakeLeader(r, q)) = In(r)
         /\ OneLeader(MakeLeader(r, q))
<1>1. MakeLeader(r, q) \in Roster
  BY DEF MakeLeader, Roster, Roles
<1>2. In(MakeLeader(r, q)) = In(r)
  BY DEF MakeLeader, In
<1>3. OneLeader(MakeLeader(r, q))
  <2>1. q \in Players /\ r[q] # "none"
    BY DEF In
  <2>2. MakeLeader(r, q)[q] = "leader"
    BY <2>1 DEF MakeLeader
  <2>3. \A s \in Players : MakeLeader(r, q)[s] = "leader" => s = q
    BY DEF MakeLeader
  <2> QED BY <2>1, <2>2, <2>3 DEF OneLeader
<1> QED BY <1>1, <1>2, <1>3

LEMMA Without ==
  ASSUME NEW r \in Roster, NEW p \in Players
  PROVE  /\ [r EXCEPT ![p] = "none"] \in Roster
         /\ In([r EXCEPT ![p] = "none"]) = In(r) \ {p}
         /\ r[p] # "leader" /\ OneLeader(r) => OneLeader([r EXCEPT ![p] = "none"])
<1> DEFINE w == [r EXCEPT ![p] = "none"]
<1>1. w \in Roster /\ (\A s \in Players : w[s] = IF s = p THEN "none" ELSE r[s])
  BY DEF Roster, Roles
<1>2. In(w) = In(r) \ {p}
  BY <1>1 DEF In
<1>3. ASSUME r[p] # "leader", OneLeader(r) PROVE OneLeader(w)
  BY <1>1, <1>3 DEF OneLeader
<1> QED BY <1>1, <1>2, <1>3

LEMMA WithMember ==
  ASSUME NEW r \in Roster, NEW p \in Players, r[p] = "none"
  PROVE  /\ [r EXCEPT ![p] = "member"] \in Roster
         /\ In([r EXCEPT ![p] = "member"]) = In(r) \cup {p}
         /\ Cardinality(In([r EXCEPT ![p] = "member"])) = Cardinality(In(r)) + 1
         /\ OneLeader(r) => OneLeader([r EXCEPT ![p] = "member"])
<1> DEFINE w == [r EXCEPT ![p] = "member"]
<1>1. w \in Roster /\ (\A s \in Players : w[s] = IF s = p THEN "member" ELSE r[s])
  BY DEF Roster, Roles
<1>2. In(w) = In(r) \cup {p}
  BY <1>1 DEF In
<1>3. p \notin In(r)
  BY DEF In
<1>4. Cardinality(In(w)) = Cardinality(In(r)) + 1
  BY <1>2, <1>3, Finite, FS_AddElement
<1>5. ASSUME OneLeader(r) PROVE OneLeader(w)
  BY <1>1, <1>5 DEF OneLeader
<1> QED BY <1>1, <1>2, <1>4, <1>5

-----------------------------------------------------------------------------
(* What a step may do to a task *)

\* Nothing changes but what IInv does not speak of.
LEMMA Unmoved ==
  ASSUME IInv, UNCHANGED core
  PROVE  IInv'
BY DEF IInv, core, Shape, Kept, Apart, Led1, Fits, Short

\* One task gets another roster r, and its rows follow at once or later.
LEMMA Changed ==
  ASSUME IInv, saving = Idle, NEW i \in live, NEW r \in Roster,
         UNCHANGED <<made, live, locked>>,
         members' = [members EXCEPT ![i] = r],
         rows' \in [Ids -> Roster],
         \A j \in Ids \ {i} : rows'[j] = rows[j],
         \/ saving' = Idle /\ rows'[i] = r
         \/ saving' = [task |-> i, at |-> "delete"],
         emptied \subseteq emptied', emptied' \subseteq emptied \cup {i},
         i \in emptied' \/ OneLeader(r),
         closing' \subseteq closing \cup {i},
         i \in closing' => Cardinality(In(r)) < MinPlayers,
         Cardinality(In(r)) <= MaxPlayers,
         \A q \in In(r) : q \in In(members[i]) \/ \A j \in live : q \notin In(members[j])
  PROVE  IInv'
<1>1. Shape /\ Kept /\ Apart /\ Led1 /\ Fits /\ Short
  BY DEF IInv
<1>2. i \in Ids /\ live \subseteq Ids
  BY <1>1 DEF Shape, Ids
<1>3. /\ members' \in [Ids -> Roster]
      /\ members'[i] = r
      /\ \A j \in Ids : j # i => members'[j] = members[j]
  BY <1>1, <1>2 DEF Shape
<1>4. Shape'
  <2>1. saving' \in Saving(live)
    BY DEF Saving
  <2>2. closing' \subseteq live /\ emptied' \subseteq live
    BY <1>1 DEF Shape
  <2> QED BY <1>1, <1>3, <2>1, <2>2 DEF Shape
<1>5. Kept'
  <2>1. \A j \in Ids \ live : members'[j] = Nobody
    BY <1>1, <1>2, <1>3 DEF Kept
  <2>2. \A j \in Ids : (saving' # Idle /\ j = saving'.task) \/ rows'[j] = members'[j]
    BY <1>1, <1>2, <1>3 DEF Kept, Idle
  <2> QED BY <2>1, <2>2 DEF Kept
<1>6. Apart'
  BY <1>1, <1>2, <1>3 DEF Apart
<1>7. Led1'
  BY <1>1, <1>2, <1>3 DEF Led1
<1>8. Fits'
  BY <1>1, <1>2, <1>3 DEF Fits
<1>9. Short'
  BY <1>1, <1>2, <1>3 DEF Short, Shape
<1> QED BY <1>4, <1>5, <1>6, <1>7, <1>8, <1>9 DEF IInv

-----------------------------------------------------------------------------
(* What world does to a task *)

LEMMA MembersAreIn == \A i : MembersOf(i) = In(members[i]) /\ Size(i) = Cardinality(In(members[i]))
BY DEF MembersOf, Size, In

LEMMA MemberRemoved ==
  ASSUME IInv, saving = Idle, NEW i \in live, NEW p \in MembersOf(i), RemoveMember(i, p)
  PROVE  IInv'
<1> DEFINE old  == members[i]
           rest == [old EXCEPT ![p] = "none"]
           left == MembersOf(i) \ {p}
<1>1. Shape /\ Kept /\ Led1 /\ Fits /\ i \in Ids /\ p \in Players
  BY DEF IInv, Shape, Ids, MembersOf
<1>2. old \in Roster /\ rows[i] = old
  BY <1>1 DEF Shape, Kept
<1>3. rest \in Roster /\ In(rest) = left /\ (old[p] # "leader" /\ OneLeader(old) => OneLeader(rest))
  <2> HIDE DEF old
  <2>1. In(rest) = In(old) \ {p}
    BY <1>1, <1>2, Without
  <2> QED BY <1>1, <1>2, <2>1, Without, MembersAreIn DEF old
<1>4. Cardinality(left) <= MaxPlayers
  <2>1. left \subseteq In(old)
    BY MembersAreIn
  <2>2. Cardinality(left) <= Cardinality(In(old)) /\ Cardinality(left) \in Nat
    BY <1>2, <2>1, Finite, FS_Subset, FS_CardinalityType
  <2> QED BY <1>1, <1>2, <2>2, Finite DEF Fits
<1>5. /\ rows' = [rows EXCEPT ![i][p] = "none"]
      /\ UNCHANGED <<made, live, locked>>
      /\ closing' = IF Cardinality(left) < MinPlayers THEN closing \cup {i} ELSE closing
      /\ emptied' = IF left = {} THEN emptied \cup {i} ELSE emptied
  BY DEF RemoveMember
<1>6. /\ rows' \in [Ids -> Roster] /\ rows'[i] = rest
      /\ \A j \in Ids \ {i} : rows'[j] = rows[j]
  <2>1. rows' = [rows EXCEPT ![i] = rest]
    BY <1>2, <1>5
  <2> HIDE DEF rest
  <2> QED BY <1>1, <1>3, <2>1 DEF Shape
<1>7. left \subseteq In(old)
  BY MembersAreIn
<1>8. i \in closing' => Cardinality(left) < MinPlayers
  <2>1. left \subseteq In(old) /\ Cardinality(left) <= Cardinality(In(old))
    BY <1>2, <1>7, Finite, FS_Subset
  <2>2. Cardinality(left) \in Nat /\ Cardinality(In(old)) \in Nat
    BY <1>2, <1>7, Finite, FS_Subset, FS_CardinalityType
  <2>3. i \in closing => Cardinality(In(old)) < MinPlayers
    BY DEF IInv, Short
  <2> QED BY <1>5, <2>1, <2>2, <2>3
<1>9. emptied \subseteq emptied' /\ emptied' \subseteq emptied \cup {i} /\ closing' \subseteq closing \cup {i}
  BY <1>5
<1>10. CASE IsLeader(i, p) /\ left # {}
  <2>1. PICK q \in left : members' = [members EXCEPT ![i] = MakeLeader(rest, q)]
    BY <1>10 DEF RemoveMember
  <2>2. saving' = [task |-> i, at |-> "delete"]
    BY <1>10 DEF RemoveMember
  <2> DEFINE r == MakeLeader(rest, q)
  <2>3. r \in Roster /\ In(r) = left /\ OneLeader(r)
    <3> HIDE DEF rest
    <3> QED BY <1>3, LeaderMade
  <2> HIDE DEF r, left, rest
  <2>4. members' = [members EXCEPT ![i] = r]
    BY <2>1 DEF r
  <2> QED BY <1>4, <1>5, <1>6, <1>7, <1>8, <1>9, <2>2, <2>3, <2>4, Changed
<1>11. CASE ~(IsLeader(i, p) /\ left # {})
  <2>1. members' = [members EXCEPT ![i] = rest] /\ saving' = Idle
    BY <1>11 DEF RemoveMember
  <2>2. i \in emptied' \/ OneLeader(rest)
    BY <1>1, <1>3, <1>5, <1>11 DEF IsLeader, Led1
  <2> HIDE DEF left, rest
  <2> QED BY <1>3, <1>4, <1>5, <1>6, <1>7, <1>8, <1>9, <2>1, <2>2, Changed
<1> QED BY <1>10, <1>11

LEMMA Terminated ==
  ASSUME IInv, saving = Idle, NEW i \in live, Terminate(i)
  PROVE  IInv'
<1>1. Shape /\ Kept /\ Apart /\ Led1 /\ Fits /\ Short /\ i \in Ids
  BY DEF IInv, Shape, Ids
<1>2. /\ live' = live \ {i} /\ members' = [members EXCEPT ![i] = Nobody]
      /\ closing' = closing \ {i} /\ locked' = locked \ {i} /\ emptied' = emptied \ {i}
      /\ saving' = [task |-> i, at |-> "drop"] /\ UNCHANGED <<made, rows>>
  BY DEF Terminate
<1>3. /\ members' \in [Ids -> Roster] /\ members'[i] = Nobody
      /\ \A j \in Ids : j # i => members'[j] = members[j]
  BY <1>1, <1>2, NobodyIn DEF Shape
<1>4. Shape'
  <2>1. saving' \in Saving(live')
    BY <1>1, <1>2 DEF Saving
  <2> QED BY <1>1, <1>2, <1>3, <2>1 DEF Shape
<1>5. Kept'
  <2>1. saving'.task = i /\ saving' # Idle
    BY <1>2 DEF Idle
  <2>2. \A j \in Ids \ live' : members'[j] = Nobody
    BY <1>1, <1>2, <1>3 DEF Kept
  <2>3. \A j \in Ids : j # i => rows'[j] = members'[j]
    BY <1>1, <1>2, <1>3 DEF Kept
  <2> QED BY <2>1, <2>2, <2>3 DEF Kept
<1>6. live \subseteq Ids
  BY <1>1 DEF Shape, Ids
<1>7. Apart' /\ Led1' /\ Fits'
  BY <1>1, <1>2, <1>3, <1>6 DEF Apart, Led1, Fits
<1>8. Short'
  BY <1>1, <1>2, <1>3, <1>6 DEF Short, Shape
<1> QED BY <1>4, <1>5, <1>7, <1>8 DEF IInv

LEMMA Created ==
  ASSUME IInv, NEW p \in Players, NEW g \in SUBSET Players, AttemptSharedTaskCreation(p, g)
  PROVE  IInv'
<1> DEFINE party == [q \in Players |->
             IF q = p THEN "leader" ELSE IF q \in g THEN "member" ELSE "none"]
           n == made + 1
<1>1. Shape /\ Kept /\ Apart /\ Led1 /\ Fits /\ Short
  BY DEF IInv
<1>2. saving = Idle /\ p \in g /\ UNCHANGED <<closing, saving, emptied>>
  BY DEF AttemptSharedTaskCreation, Receives
<1>3. CASE ~(CanRequestSharedTask(p, g) /\ made < MaxTasks)
  <2>1. UNCHANGED core
    BY <1>2, <1>3 DEF AttemptSharedTaskCreation, core
  <2> QED BY <2>1, Unmoved
<1>4. CASE CanRequestSharedTask(p, g) /\ made < MaxTasks
  <2>1. /\ made' = n /\ live' = live \cup {n}
        /\ members' = [members EXCEPT ![n] = party]
        /\ rows' = [rows EXCEPT ![n] = party]
        /\ locked' \subseteq locked \cup {n}
    BY <1>4 DEF AttemptSharedTaskCreation
  <2>2. party \in Roster /\ In(party) = g /\ OneLeader(party)
    BY <1>2 DEF Roster, Roles, In, OneLeader
  <2>3. n \in Ids /\ n \notin live /\ live \subseteq Ids /\ live' \subseteq 1 .. made' /\ made' \in 0 .. MaxTasks
    BY <1>1, <1>4, <2>1 DEF Shape, Ids
  <2>4. Cardinality(g) <= MaxPlayers /\ \A j \in live : In(members[j]) \cap g = {}
    BY <1>4, MembersAreIn DEF CanRequestSharedTask, FindCharactersInSharedTasks
  <2> HIDE DEF party, n
  <2>5. /\ members' \in [Ids -> Roster] /\ rows' \in [Ids -> Roster]
        /\ members'[n] = party /\ rows'[n] = party
        /\ \A j \in Ids : j # n => members'[j] = members[j] /\ rows'[j] = rows[j]
    BY <1>1, <2>1, <2>2, <2>3 DEF Shape
  <2>6. Shape'
    <3>1. saving' \in Saving(live')
      BY <1>2 DEF Saving
    <3> QED BY <1>1, <1>2, <2>1, <2>3, <2>5, <3>1 DEF Shape
  <2>7. Kept'
    BY <1>1, <1>2, <2>1, <2>5 DEF Kept
  <2>8. Apart'
    BY <1>1, <2>1, <2>2, <2>3, <2>4, <2>5 DEF Apart
  <2>9. Led1' /\ Fits'
    BY <1>1, <1>2, <2>1, <2>2, <2>3, <2>4, <2>5 DEF Led1, Fits
  <2>10. Short'
    BY <1>1, <1>2, <2>3, <2>5 DEF Short, Shape
  <2> QED BY <2>6, <2>7, <2>8, <2>9, <2>10 DEF IInv
<1> QED BY <1>3, <1>4

LEMMA LeaderChanged ==
  ASSUME IInv, NEW p \in Players, SharedTaskMakeLeader(p)
  PROVE  IInv'
<1> DEFINE q == Head(outbox[p]).who
           s == {i \in Led(p) : q \in MembersOf(i) \ {p}}
<1>1. saving = Idle
  BY DEF SharedTaskMakeLeader, Receives
<1>2. CASE s = {}
  <2>1. UNCHANGED core
    BY <1>2 DEF SharedTaskMakeLeader, Ignored, core
  <2> QED BY <2>1, Unmoved
<1>3. CASE s # {}
  <2>1. PICK i \in s :
          /\ members' = [members EXCEPT ![i] = MakeLeader(@, q)]
          /\ saving' = [task |-> i, at |-> "delete"]
          /\ UNCHANGED <<made, live, rows, locked, closing, emptied>>
    BY <1>3 DEF SharedTaskMakeLeader
  <2>2. i \in live /\ q \in MembersOf(i)
    BY DEF Led, Asked, Found
  <2> HIDE DEF q, s
  <2> DEFINE r == MakeLeader(members[i], q)
  <2>3. Shape /\ Fits /\ Short /\ i \in Ids /\ members[i] \in Roster
    BY <2>2 DEF IInv, Shape, Ids
  <2>4. r \in Roster /\ In(r) = In(members[i]) /\ OneLeader(r)
    BY <2>2, <2>3, LeaderMade, MembersAreIn
  <2>5. members' = [members EXCEPT ![i] = r]
    BY <2>1
  <2> HIDE DEF r
  <2>6. rows' \in [Ids -> Roster]
    BY <2>1, <2>3 DEF Shape
  <2>7. Cardinality(In(r)) <= MaxPlayers /\ (i \in closing' => Cardinality(In(r)) < MinPlayers)
    BY <2>1, <2>2, <2>3, <2>4 DEF Fits, Short
  <2> QED BY <1>1, <2>1, <2>2, <2>4, <2>5, <2>6, <2>7, Changed
<1> QED BY <1>2, <1>3

\* An invitation that is accepted is looked at once more: memory and the table
\* agree then, so that no row means no membership.
LEMMA PlayerAdded ==
  ASSUME IInv, saving = Idle, NEW i \in live, NEW p \in Players, NEW inv,
         CanAddPlayer(i, p, inv), AddPlayer(i, p),
         UNCHANGED <<made, live, rows, locked, emptied>>
  PROVE  IInv'
<1> DEFINE old == members[i]
           r   == [old EXCEPT ![p] = "member"]
<1>1. Shape /\ Kept /\ Led1 /\ Short /\ i \in Ids /\ live \subseteq Ids
  BY DEF IInv, Shape, Ids
<1>2. old \in Roster
  BY <1>1 DEF Shape
<1>3. Cardinality(In(old)) < MaxPlayers /\ \A j \in Ids : rows[j][p] = "none"
  BY MembersAreIn DEF CanAddPlayer
<1>4. /\ members' = [members EXCEPT ![i] = r]
      /\ saving' = [task |-> i, at |-> "delete"]
      /\ closing' = IF Cardinality(In(old)) + 1 >= MinPlayers THEN closing \ {i} ELSE closing
  BY <1>2, MembersAreIn DEF AddPlayer
<1>5. \A j \in live : members[j][p] = "none"
  BY <1>1, <1>3 DEF Kept
<1>6. old[p] = "none" /\ \A j \in live : p \notin In(members[j])
  BY <1>5 DEF In
<1>7. i \in emptied \/ OneLeader(old)
  BY <1>1 DEF Led1
<1>8. \A q \in In(old) : q \in In(members[i])
  OBVIOUS
<1> HIDE DEF old
<1>9. /\ r \in Roster /\ In(r) = In(old) \cup {p}
      /\ Cardinality(In(r)) = Cardinality(In(old)) + 1
      /\ OneLeader(old) => OneLeader(r)
  BY <1>2, <1>6, WithMember
<1>10. Cardinality(In(old)) \in Nat
  BY <1>2, Finite
<1>11. rows' \in [Ids -> Roster] /\ \A j \in Ids \ {i} : rows'[j] = rows[j]
  BY <1>1 DEF Shape
<1> HIDE DEF r
<1>12. Cardinality(In(r)) <= MaxPlayers /\ (i \in closing' => Cardinality(In(r)) < MinPlayers)
  BY <1>3, <1>4, <1>9, <1>10
<1>13. i \in emptied' \/ OneLeader(r)
  BY <1>7, <1>9
<1>14. closing' \subseteq closing \cup {i}
  BY <1>4
<1>15. \A q \in In(r) : q \in In(members[i]) \/ \A j \in live : q \notin In(members[j])
  BY <1>6, <1>8, <1>9
<1> QED BY <1>4, <1>9, <1>11, <1>12, <1>13, <1>14, <1>15, Changed

LEMMA Answered ==
  ASSUME IInv, NEW p \in Players, NEW answer, InviteAnswered(p, answer)
  PROVE  IInv'
<1>1. saving = Idle
  BY DEF InviteAnswered, Receives
<1>2. CASE UNCHANGED core
  BY <1>2, Unmoved
<1>3. ASSUME NEW i \in live, NEW inv, CanAddPlayer(i, p, inv), AddPlayer(i, p),
             UNCHANGED <<made, live, rows, locked, emptied>>
      PROVE  IInv'
  BY <1>1, <1>3, PlayerAdded
<1> QED BY <1>2, <1>3 DEF InviteAnswered, Ignored, core

\* Locking does not change a roster.
LEMMA OnlyLocked ==
  ASSUME IInv, UNCHANGED <<made, live, members, rows, closing, emptied, saving>>,
         locked' \subseteq live
  PROVE  IInv'
BY DEF IInv, Shape, Kept, Apart, Led1, Fits, Short

LEMMA RowsWritten ==
  ASSUME IInv, DeleteRows \/ InsertRows \/ DropRows
  PROVE  IInv'
<1>1. Shape /\ Kept /\ Apart /\ Led1 /\ Fits /\ Short /\ live \subseteq Ids
  BY DEF IInv, Shape, Ids
<1>2. /\ UNCHANGED <<made, live, members, closing, emptied, locked>>
      /\ saving.at # "idle"
  BY DEF DeleteRows, InsertRows, DropRows, SaveStep
<1>3. saving # Idle /\ saving \in Saving(live) /\ saving.task \in Ids
  <2>1. saving # Idle
    BY <1>2 DEF Idle
  <2>2. saving \in Saving(live)
    BY <1>1 DEF Shape
  <2>3. saving \in [task : live, at : {"delete", "insert"}] \/ saving \in [task : Ids \ live, at : {"drop"}]
    BY <2>1, <2>2 DEF Saving
  <2> QED BY <1>1, <2>1, <2>2, <2>3
<1>4. Apart' /\ Led1' /\ Fits' /\ Short'
  BY <1>1, <1>2 DEF Apart, Led1, Fits, Short
<1>5. ASSUME NEW r \in Roster, NEW to \in Saving(live), rows' = [rows EXCEPT ![saving.task] = r],
             saving' = to, to = Idle => r = members[saving.task],
             to # Idle => to.task = saving.task
      PROVE  IInv'
  <2>1. rows' \in [Ids -> Roster] /\ rows'[saving.task] = r
        /\ \A j \in Ids : j # saving.task => rows'[j] = rows[j]
    BY <1>1, <1>3, <1>5 DEF Shape
  <2>2. Shape'
    BY <1>1, <1>2, <1>5, <2>1 DEF Shape
  <2>3. \A j \in Ids \ live : members[j] = Nobody
    BY <1>1 DEF Kept
  <2>4. \A j \in Ids : (to # Idle /\ j = to.task) \/ rows'[j] = members[j]
    BY <1>1, <1>5, <2>1 DEF Kept
  <2>5. Kept'
    BY <1>2, <1>5, <2>3, <2>4 DEF Kept
  <2> QED BY <1>4, <2>2, <2>5 DEF IInv
<1>6. CASE DeleteRows
  <2>1. saving.at = "delete" /\ rows' = [rows EXCEPT ![saving.task] = Nobody]
        /\ saving' = [saving EXCEPT !.at = "insert"]
    BY <1>6 DEF DeleteRows, SaveStep
  <2>2. saving' \in Saving(live) /\ saving'.task = saving.task /\ saving' # Idle
    BY <1>3, <2>1 DEF Saving, Idle
  <2> QED BY <1>5, <2>1, <2>2, NobodyIn
<1>7. CASE InsertRows
  <2>1. rows' = [rows EXCEPT ![saving.task] = members[saving.task]] /\ saving' = Idle
    BY <1>7 DEF InsertRows, SaveStep
  <2>2. members[saving.task] \in Roster /\ Idle \in Saving(live)
    BY <1>1, <1>3 DEF Shape, Saving
  <2> QED BY <1>5, <2>1, <2>2
<1>8. CASE DropRows
  <2>1. saving.at = "drop" /\ rows' = [rows EXCEPT ![saving.task] = Nobody] /\ saving' = Idle
    BY <1>8 DEF DropRows, SaveStep
  <2>2. saving.task \notin live
    BY <1>3, <2>1 DEF Saving, Idle
  <2>3. members[saving.task] = Nobody /\ Idle \in Saving(live)
    BY <1>1, <1>3, <2>2 DEF Kept, Saving
  <2> QED BY <1>5, <2>1, <2>3, NobodyIn
<1> QED BY <1>6, <1>7, <1>8

LEMMA AllPurged ==
  ASSUME IInv, PurgeAllSharedTasks
  PROVE  IInv'
<1>1. /\ live' = {} /\ closing' = {} /\ locked' = {} /\ emptied' = {}
      /\ members' = [i \in Ids |-> Nobody] /\ rows' = [i \in Ids |-> Nobody]
      /\ saving = Idle /\ UNCHANGED <<made, saving>>
  BY DEF PurgeAllSharedTasks
<1>2. Shape'
  <2>1. made \in 0 .. MaxTasks
    BY DEF IInv, Shape
  <2>2. Idle \in Saving({})
    BY DEF Saving
  <2> QED BY <1>1, <2>1, <2>2, NobodyIn DEF Shape
<1>3. Kept' /\ Apart' /\ Led1' /\ Fits' /\ Short'
  BY <1>1 DEF Kept, Apart, Led1, Fits, Short
<1> QED BY <1>2, <1>3 DEF IInv

\* World is the same after a restart, less what has expired.
LEMMA Restarted ==
  ASSUME IInv, NEW x, LoadSharedTaskState(x)
  PROVE  IInv'
<1>1. Shape /\ Kept /\ Apart /\ Led1 /\ Fits /\ live \subseteq Ids
  BY DEF IInv, Shape, Ids
<1>2. /\ saving = Idle /\ UNCHANGED <<made, saving>> /\ x \subseteq live
      /\ live' = {i \in live : i \notin x}
      /\ rows' = [i \in Ids |-> IF i \in x THEN Nobody ELSE rows[i]]
      /\ members' = rows' /\ closing' = {}
      /\ locked' = locked \ x /\ emptied' = emptied \ x
  BY DEF LoadSharedTaskState
<1>3. \A i \in Ids : rows[i] = members[i]
  BY <1>1, <1>2 DEF Kept
<1>4. rows' \in [Ids -> Roster] /\ (\A i \in Ids : members'[i] = IF i \in x THEN Nobody ELSE members[i])
  BY <1>1, <1>2, <1>3, NobodyIn DEF Shape
<1>5. Shape'
  <2>1. saving' \in Saving(live')
    BY <1>2 DEF Saving
  <2> QED BY <1>1, <1>2, <1>4, <2>1 DEF Shape
<1>6. Kept'
  BY <1>1, <1>2, <1>4 DEF Kept
<1>7. Apart' /\ Led1' /\ Fits' /\ Short'
  BY <1>1, <1>2, <1>4 DEF Apart, Led1, Fits, Short
<1> QED BY <1>5, <1>6, <1>7 DEF IInv

-----------------------------------------------------------------------------
(* The invariant *)

\* What a player's zone does, and the messages that leave the rosters alone.
Elsewhere(p) ==
  \/ Announced(p) \/ LeavingZone(p) \/ InvitePlayerByPlayerName(p)
  \/ Loads(p) \/ SharedTaskAcceptNewTask(p) \/ Cancelled(p)
  \/ SharedTaskIncrementDoneCount(p) \/ InvitePlayer(p)
  \/ \E t \in Templates : RequestTask(p, t)
  \/ \E op \in {"quit", "kickall", "lock", "end"} : Commands(p, op, p)
  \/ \E op \in {"remove", "makeleader", "add"}, q \in Players : Commands(p, op, q)
  \/ \E i \in Ids, answer \in {"yes", "no"} : Answers(p, i, answer)
  \/ Kills(p) \/ Saves(p) \/ LeaveZone(p) \/ EnterZone(p)

LEMMA ElsewhereUnmoved ==
  ASSUME NEW p \in Players, Elsewhere(p)
  PROVE  UNCHANGED core
<1>1. CASE Announced(p) \/ LeavingZone(p)
  BY <1>1 DEF Announced, LeavingZone, core
<1>2. CASE InvitePlayerByPlayerName(p)
  BY <1>2 DEF InvitePlayerByPlayerName, Ignored, core
<1>3. CASE Loads(p) \/ SharedTaskAcceptNewTask(p) \/ Cancelled(p)
           \/ SharedTaskIncrementDoneCount(p) \/ InvitePlayer(p)
  BY <1>3 DEF Loads, SharedTaskAcceptNewTask, Cancelled, SharedTaskIncrementDoneCount,
              InvitePlayer, Gets, core
<1>4. CASE \/ \E t \in Templates : RequestTask(p, t)
           \/ \E op \in {"quit", "kickall", "lock", "end"} : Commands(p, op, p)
           \/ \E op \in {"remove", "makeleader", "add"}, q \in Players : Commands(p, op, q)
           \/ \E i \in Ids, answer \in {"yes", "no"} : Answers(p, i, answer)
           \/ Kills(p) \/ Saves(p)
  BY <1>4 DEF RequestTask, Commands, Answers, Kills, Saves, Playing, core
<1>5. CASE LeaveZone(p) \/ EnterZone(p)
  BY <1>5 DEF LeaveZone, EnterZone, core
<1> QED BY <1>1, <1>2, <1>3, <1>4, <1>5 DEF Elsewhere

\* The requests that remove a member or end a task.
Removing(p) ==
  \/ SharedTaskQuit(p) \/ SharedTaskKickPlayers(p) \/ SharedTaskRemovePlayer(p)
  \/ SharedTaskEnd(p)

LEMMA RemovingKeeps ==
  ASSUME IInv, NEW p \in Players, Removing(p)
  PROVE  IInv'
<1>1. saving = Idle
  BY DEF Removing, SharedTaskQuit, SharedTaskKickPlayers, SharedTaskRemovePlayer,
         SharedTaskEnd, Receives
<1>2. \/ UNCHANGED core
      \/ \E i \in live : Terminate(i)
      \/ \E i \in live : \E q \in MembersOf(i) : RemoveMember(i, q)
  <2>1. Led(p) \subseteq Asked(p) /\ Asked(p) \subseteq live /\ \A i \in Asked(p) : p \in MembersOf(i)
    BY DEF Led, Asked, Found
  <2>2. CASE SharedTaskQuit(p)
    BY <2>1, <2>2 DEF SharedTaskQuit, Ignored, core
  <2>3. CASE SharedTaskKickPlayers(p)
    BY <2>1, <2>3 DEF SharedTaskKickPlayers, Ignored, core
  <2>4. CASE SharedTaskRemovePlayer(p)
    BY <2>1, <2>4 DEF SharedTaskRemovePlayer, Ignored, core
  <2>5. CASE SharedTaskEnd(p)
    BY <2>1, <2>5 DEF SharedTaskEnd, Ignored, core
  <2> QED BY <2>2, <2>3, <2>4, <2>5 DEF Removing
<1> QED BY <1>1, <1>2, Unmoved, Terminated, MemberRemoved

\* The requests that lock a task.
Locking(p) == SharedTaskActivityUpdate(p) \/ LockTask(p)

LEMMA LockingKeeps ==
  ASSUME IInv, NEW p \in Players, Locking(p)
  PROVE  IInv'
<1>1. Asked(p) \subseteq live /\ locked \subseteq live
  BY DEF Asked, Found, IInv, Shape
<1>2. CASE SharedTaskActivityUpdate(p)
  <2>1. UNCHANGED <<made, live, members, rows, closing, emptied, saving>> /\ locked' \subseteq live
    BY <1>1, <1>2 DEF SharedTaskActivityUpdate, Ignored
  <2> QED BY <2>1, OnlyLocked
<1>3. CASE LockTask(p)
  <2>1. UNCHANGED <<made, live, members, rows, closing, emptied, saving>> /\ locked' \subseteq live
    BY <1>1, <1>3 DEF LockTask
  <2> QED BY <2>1, OnlyLocked
<1> QED BY <1>2, <1>3 DEF Locking

LEMMA ByPlayer ==
  ASSUME NEW p \in Players, Actions(p)
  PROVE  \/ Elsewhere(p) \/ Removing(p) \/ Locking(p)
         \/ \E g \in SUBSET Players : AttemptSharedTaskCreation(p, g)
         \/ SharedTaskMakeLeader(p)
         \/ \E answer \in {"yes", "no"} : InviteAnswered(p, answer)
BY Zenon DEF Actions, Elsewhere, Removing, Locking

LEMMA StartsRight == Init => IInv
<1> SUFFICES ASSUME Init PROVE IInv
  OBVIOUS
<1>1. Shape
  <2>1. Idle \in Saving({}) /\ 0 \in 0 .. MaxTasks
    BY DEF Saving
  <2> QED BY <2>1, NobodyIn DEF Init, Shape
<1>2. Kept /\ Apart /\ Led1 /\ Fits /\ Short
  BY DEF Init, Kept, Apart, Led1, Fits, Short
<1> QED BY <1>1, <1>2 DEF IInv

LEMMA StaysRight == IInv /\ [Next]_vars => IInv'
<1> SUFFICES ASSUME IInv, [Next]_vars PROVE IInv'
  OBVIOUS
<1>1. ASSUME NEW p \in Players, Actions(p) PROVE IInv'
  <2>1. ASSUME NEW g \in SUBSET Players, AttemptSharedTaskCreation(p, g) PROVE IInv'
    BY <2>1, Created
  <2>2. ASSUME NEW answer \in {"yes", "no"}, InviteAnswered(p, answer) PROVE IInv'
    BY <2>2, Answered
  <2> QED BY <1>1, <2>1, <2>2, ByPlayer, ElsewhereUnmoved, Unmoved, RemovingKeeps, LockingKeeps,
             LeaderChanged
<1>2. ASSUME DeleteRows \/ InsertRows \/ DropRows PROVE IInv'
  BY <1>2, RowsWritten
<1>3. ASSUME NEW i \in Ids, Process(i) PROVE IInv'
  BY <1>3, Terminated DEF Process
<1>4. ASSUME PurgeAllSharedTasks PROVE IInv'
  BY <1>4, AllPurged
<1>5. ASSUME NEW x \in SUBSET Ids, LoadSharedTaskState(x) PROVE IInv'
  BY <1>5, Restarted
<1>6. CASE UNCHANGED vars
  BY <1>6, Unmoved DEF vars, core
<1> QED BY <1>1, <1>2, <1>3, <1>4, <1>5, <1>6 DEF Next

\* World's memory and its table fit together throughout, as IInv says.
THEOREM RostersRight == Spec => []IInv
BY StartsRight, StaysRight, PTL DEF Spec

-----------------------------------------------------------------------------
(* What follows *)

\* Nobody is a member of two tasks.
THEOREM NobodyInTwoTasks == Spec => []OneTaskEach
<1>1. IInv => OneTaskEach
  BY MembersAreIn DEF IInv, Apart, OneTaskEach
<1> QED BY <1>1, RostersRight, PTL

\* A task that has not run empty has one leader.
THEOREM AlwaysLed == Spec => []LedByOne
<1>1. ASSUME IInv, NEW i \in live, i \notin emptied
      PROVE  Cardinality({p \in Players : IsLeader(i, p)}) = 1
  <2>1. PICK q \in Players : members[i][q] = "leader" /\ \A s \in Players : members[i][s] = "leader" => s = q
    BY <1>1 DEF IInv, Led1, OneLeader
  <2>2. {p \in Players : IsLeader(i, p)} = {q}
    BY <2>1 DEF IsLeader
  <2> QED BY <2>2, FS_Singleton
<1>2. IInv => LedByOne
  BY <1>1 DEF LedByOne
<1> QED BY <1>2, RostersRight, PTL

\* Between two requests the table of members and memory agree.
THEOREM TableAgrees == Spec => []RecordsKept
<1>1. IInv => RecordsKept
  BY DEF IInv, Kept, RecordsKept
<1> QED BY <1>1, RostersRight, PTL

\* No task is over its size.
THEOREM NoneOverfull == Spec => []NeverOverfull
<1>1. IInv => NeverOverfull
  BY MembersAreIn DEF IInv, Fits, NeverOverfull
<1> QED BY <1>1, RostersRight, PTL

\* Only a task that is short of members has its two minutes running.
THEOREM OnlyShortClosing == Spec => []ClosingShort
<1>1. IInv => ClosingShort
  BY MembersAreIn DEF IInv, Short, ClosingShort
<1> QED BY <1>1, RostersRight, PTL

\* A step lets nobody into a locked task.
Shut == \A i \in locked : {p \in Players : members'[i][p] # "none"} \subseteq MembersOf(i)

LEMMA NobodyNew == UNCHANGED members => Shut
BY DEF Shut, MembersOf

\* One roster changes, to one without new members.
LEMMA NobodyNewIn ==
  ASSUME IInv, NEW i \in live, NEW r \in Roster, members' = [members EXCEPT ![i] = r],
         In(r) \subseteq In(members[i])
  PROVE  Shut
<1>1. live \subseteq Ids /\ locked \subseteq live /\ members \in [Ids -> Roster]
  BY DEF IInv, Shape, Ids
<1>2. \A j \in locked : members'[j] = IF j = i THEN r ELSE members[j]
  BY <1>1
<1> QED BY <1>2 DEF Shut, In, MembersOf

LEMMA NobodyNewRemoved ==
  ASSUME IInv, NEW i \in live, NEW p \in MembersOf(i), RemoveMember(i, p)
  PROVE  Shut
<1> DEFINE rest == [members[i] EXCEPT ![p] = "none"]
           left == MembersOf(i) \ {p}
<1>1. members[i] \in Roster /\ p \in Players
  BY DEF IInv, Shape, Ids, MembersOf
<1>2. rest \in Roster /\ In(rest) = left /\ left \subseteq In(members[i])
  BY <1>1, Without, MembersAreIn
<1>3. CASE IsLeader(i, p) /\ left # {}
  <2>1. PICK q \in left : members' = [members EXCEPT ![i] = MakeLeader(rest, q)]
    BY <1>3 DEF RemoveMember
  <2> HIDE DEF rest
  <2>2. MakeLeader(rest, q) \in Roster /\ In(MakeLeader(rest, q)) = left
    BY <1>2, LeaderMade
  <2> QED BY <1>2, <2>1, <2>2, NobodyNewIn
<1>4. CASE ~(IsLeader(i, p) /\ left # {})
  <2>1. members' = [members EXCEPT ![i] = rest]
    BY <1>4 DEF RemoveMember
  <2> HIDE DEF rest
  <2> QED BY <1>2, <2>1, NobodyNewIn
<1> QED BY <1>3, <1>4

LEMMA NobodyNewTerminated ==
  ASSUME IInv, NEW i \in live, Terminate(i)
  PROVE  Shut
BY NobodyIn, NobodyNewIn DEF Terminate

LEMMA NobodyNewRemoving ==
  ASSUME IInv, NEW p \in Players, Removing(p)
  PROVE  Shut
<1>1. \/ UNCHANGED members
      \/ \E i \in live : Terminate(i)
      \/ \E i \in live : \E q \in MembersOf(i) : RemoveMember(i, q)
  <2>1. Led(p) \subseteq Asked(p) /\ Asked(p) \subseteq live /\ \A i \in Asked(p) : p \in MembersOf(i)
    BY DEF Led, Asked, Found
  <2>2. CASE SharedTaskQuit(p)
    BY <2>1, <2>2 DEF SharedTaskQuit, Ignored
  <2>3. CASE SharedTaskKickPlayers(p)
    BY <2>1, <2>3 DEF SharedTaskKickPlayers, Ignored
  <2>4. CASE SharedTaskRemovePlayer(p)
    BY <2>1, <2>4 DEF SharedTaskRemovePlayer, Ignored
  <2>5. CASE SharedTaskEnd(p)
    BY <2>1, <2>5 DEF SharedTaskEnd, Ignored
  <2> QED BY <2>2, <2>3, <2>4, <2>5 DEF Removing
<1> QED BY <1>1, NobodyNew, NobodyNewTerminated, NobodyNewRemoved

LEMMA NobodyNewLeading ==
  ASSUME IInv, NEW p \in Players, SharedTaskMakeLeader(p)
  PROVE  Shut
<1>1. \/ UNCHANGED members
      \/ \E i \in live : \E q \in MembersOf(i) :
           members' = [members EXCEPT ![i] = MakeLeader(members[i], q)]
  BY DEF SharedTaskMakeLeader, Ignored, Led, Asked, Found
<1>2. ASSUME NEW i \in live, NEW q \in MembersOf(i),
             members' = [members EXCEPT ![i] = MakeLeader(members[i], q)]
      PROVE  Shut
  <2>1. members[i] \in Roster /\ q \in In(members[i])
    BY MembersAreIn DEF IInv, Shape, Ids
  <2> QED BY <1>2, <2>1, LeaderMade, NobodyNewIn
<1> QED BY <1>1, <1>2, NobodyNew

LEMMA NobodyNewAnswered ==
  ASSUME IInv, NEW p \in Players, NEW answer, InviteAnswered(p, answer)
  PROVE  Shut
<1>1. \/ UNCHANGED members
      \/ \E i \in live : i \notin locked /\ members' = [members EXCEPT ![i][p] = "member"]
  BY DEF InviteAnswered, Ignored, AddPlayer, CanAddPlayer
<1>2. ASSUME NEW i \in live, i \notin locked, members' = [members EXCEPT ![i][p] = "member"]
      PROVE  Shut
  <2>1. \A j \in locked : members'[j] = members[j]
    BY <1>2 DEF IInv, Shape, Ids
  <2> QED BY <2>1 DEF Shut, MembersOf
<1> QED BY <1>1, <1>2, NobodyNew

LEMMA NobodyNewCreated ==
  ASSUME IInv, NEW p \in Players, NEW g \in SUBSET Players, AttemptSharedTaskCreation(p, g)
  PROVE  Shut
<1>1. \/ UNCHANGED members
      \/ \E r : members' = [members EXCEPT ![made + 1] = r]
  BY DEF AttemptSharedTaskCreation
<1>2. ASSUME NEW r, members' = [members EXCEPT ![made + 1] = r] PROVE Shut
  <2>1. \A j \in locked : j \in Ids /\ j # made + 1
    BY DEF IInv, Shape, Ids
  <2>2. \A j \in locked : members'[j] = members[j]
    BY <1>2, <2>1 DEF IInv, Shape
  <2> QED BY <2>2 DEF Shut, MembersOf
<1> QED BY <1>1, <1>2, NobodyNew

LEMMA NobodyNewRestarted ==
  ASSUME IInv, PurgeAllSharedTasks \/ \E x \in SUBSET Ids : LoadSharedTaskState(x)
  PROVE  Shut
<1>1. locked \subseteq Ids /\ \A i \in Ids : Nobody[i] = Nobody[i]
  BY DEF IInv, Shape, Ids
<1>2. CASE PurgeAllSharedTasks
  <2>1. \A i \in locked : members'[i] = Nobody
    BY <1>1, <1>2 DEF PurgeAllSharedTasks
  <2> QED BY <2>1 DEF Shut, Nobody
<1>3. ASSUME NEW x \in SUBSET Ids, LoadSharedTaskState(x) PROVE Shut
  <2>1. /\ saving = Idle
        /\ members' = [i \in Ids |-> IF i \in x THEN Nobody ELSE rows[i]]
    BY <1>3 DEF LoadSharedTaskState
  <2>2. \A i \in Ids : rows[i] = members[i]
    BY <2>1 DEF IInv, Kept
  <2>3. \A i \in locked : members'[i] = Nobody \/ members'[i] = members[i]
    BY <1>1, <2>1, <2>2
  <2> QED BY <2>3 DEF Shut, MembersOf, Nobody
<1> QED BY <1>2, <1>3

LEMMA StaysShut == IInv /\ [Next]_vars => Shut
<1> SUFFICES ASSUME IInv, [Next]_vars PROVE Shut
  OBVIOUS
<1>1. ASSUME NEW p \in Players, Actions(p) PROVE Shut
  <2>1. CASE Elsewhere(p)
    BY <2>1, ElsewhereUnmoved, NobodyNew DEF core
  <2>2. CASE Locking(p)
    BY <2>2, NobodyNew DEF Locking, SharedTaskActivityUpdate, LockTask, Ignored
  <2> QED BY <1>1, <2>1, <2>2, ByPlayer, NobodyNewRemoving, NobodyNewLeading, NobodyNewAnswered,
             NobodyNewCreated
<1>2. ASSUME DeleteRows \/ InsertRows \/ DropRows \/ UNCHANGED vars PROVE Shut
  BY <1>2, NobodyNew DEF DeleteRows, InsertRows, DropRows, SaveStep, vars
<1>3. ASSUME NEW i \in Ids, Process(i) PROVE Shut
  BY <1>3, NobodyNewTerminated DEF Process
<1> QED BY <1>1, <1>2, <1>3, NobodyNewRestarted DEF Next

\* A task that is locked takes nobody in, whatever was asked before.
THEOREM LockedTakesNobodyIn == Spec => ClosedToNewcomers
<1>1. IInv /\ [Next]_vars =>
        [\A i \in locked : {p \in Players : members'[i][p] # "none"} \subseteq MembersOf(i)]_vars
  BY StaysShut DEF Shut
<1> QED BY <1>1, RostersRight, PTL DEF Spec, ClosedToNewcomers

-----------------------------------------------------------------------------
(* Parties: world implements TaskParties *)

Heads(r) == {p \in Players : r[p] = "leader"}

partied == <<made, live, members, locked>>

\* What a party is and who leads it, before and after a step.
LEMMA Seen ==
  /\ \A i \in Ids : PartyAt[i] = In(members[i]) /\ PartyAt'[i] = In(members'[i])
  /\ \A i \in Ids : LeadAt[i] = Heads(members[i]) /\ LeadAt'[i] = Heads(members'[i])
BY DEF PartyAt, LeadAt, MembersOf, IsLeader, In, Heads

LEMMA SamePeople == UNCHANGED members => UNCHANGED <<PartyAt, LeadAt>>
BY DEF PartyAt, LeadAt, MembersOf, IsLeader

\* One roster becomes r: one party changes.
LEMMA OnePartyOnly ==
  ASSUME NEW i \in Ids, NEW r \in Roster, members \in [Ids -> Roster],
         members' = [members EXCEPT ![i] = r]
  PROVE  /\ PartyAt' = [PartyAt EXCEPT ![i] = In(r)]
         /\ LeadAt' = [LeadAt EXCEPT ![i] = Heads(r)]
<1>1. \A j \in Ids : members'[j] = IF j = i THEN r ELSE members[j]
  OBVIOUS
<1>2. \A j \in Ids : PartyAt'[j] = IF j = i THEN In(r) ELSE PartyAt[j]
  BY <1>1, Seen
<1>3. \A j \in Ids : LeadAt'[j] = IF j = i THEN Heads(r) ELSE LeadAt[j]
  BY <1>1, Seen
<1>4. PartyAt' = [j \in Ids |-> PartyAt'[j]] /\ LeadAt' = [j \in Ids |-> LeadAt'[j]]
  BY DEF PartyAt, LeadAt
<1>5. PartyAt = [j \in Ids |-> PartyAt[j]] /\ LeadAt = [j \in Ids |-> LeadAt[j]]
  BY DEF PartyAt, LeadAt
<1> QED BY <1>2, <1>3, <1>4, <1>5

LEMMA HeadsOf ==
  ASSUME NEW r \in Roster, NEW p \in Players
  PROVE  /\ Heads([r EXCEPT ![p] = "none"]) = Heads(r) \ {p}
         /\ r[p] = "none" => Heads([r EXCEPT ![p] = "member"]) = Heads(r)
         /\ p \in In(r) => Heads(MakeLeader(r, p)) = {p}
         /\ Heads(r) \subseteq In(r)
BY DEF Heads, In, Roster, MakeLeader

\* Who is in no roster is free to join.
LEMMA NoMemberIsFree ==
  ASSUME IInv, NEW p, \A i \in live : p \notin In(members[i])
  PROVE  Parties!Free(p)
BY Seen DEF IInv, Shape, Ids, Parties!Free

LEMMA SameCardinality == \A s : Parties!Cardinality(s) = Cardinality(s)
BY DEF Parties!Cardinality, Cardinality

LEMMA RemovedParts ==
  ASSUME IInv, saving = Idle, NEW i \in live, NEW p \in MembersOf(i), RemoveMember(i, p)
  PROVE  Parties!Part(i, p)
<1> DEFINE rest == [members[i] EXCEPT ![p] = "none"]
           left == MembersOf(i) \ {p}
<1>1. members[i] \in Roster /\ p \in Players /\ i \in Ids /\ members \in [Ids -> Roster]
  BY DEF IInv, Shape, Ids, MembersOf
<1>2. /\ rest \in Roster /\ In(rest) = left /\ Heads(rest) = Heads(members[i]) \ {p}
      /\ left = In(members[i]) \ {p} /\ Heads(members[i]) \subseteq In(members[i])
  BY <1>1, Without, MembersAreIn, HeadsOf
<1>3. PartyAt[i] = In(members[i]) /\ LeadAt[i] = Heads(members[i])
  BY <1>1, Seen
<1>4. UNCHANGED <<made, live, locked>> /\ p \in PartyAt[i]
  BY <1>3, MembersAreIn DEF RemoveMember
<1>5. p \in LeadAt[i] <=> IsLeader(i, p)
  BY <1>1, <1>3 DEF Heads, IsLeader
<1>6. CASE IsLeader(i, p) /\ left # {}
  <2>1. PICK q \in left : members' = [members EXCEPT ![i] = MakeLeader(rest, q)]
    BY <1>6 DEF RemoveMember
  <2> HIDE DEF rest
  <2> DEFINE r == MakeLeader(rest, q)
  <2>2. r \in Roster /\ In(r) = left /\ Heads(r) = {q}
    BY <1>2, LeaderMade, HeadsOf DEF In
  <2>3. members' = [members EXCEPT ![i] = r]
    BY <2>1
  <2> HIDE DEF r, left
  <2>4. /\ PartyAt' = [PartyAt EXCEPT ![i] = PartyAt[i] \ {p}]
        /\ LeadAt' = [LeadAt EXCEPT ![i] = {q}]
    <3>1. PartyAt' = [PartyAt EXCEPT ![i] = In(r)] /\ LeadAt' = [LeadAt EXCEPT ![i] = Heads(r)]
      BY <1>1, <2>2, <2>3, OnePartyOnly
    <3>2. In(r) = PartyAt[i] \ {p}
      BY <1>2, <1>3, <2>2
    <3> QED BY <2>2, <3>1, <3>2
  <2>5. {q} \in Parties!Successors(i, p)
    BY <1>2, <1>3, <1>5, <1>6, <2>1 DEF Parties!Successors
  <2> QED BY <1>4, <2>4, <2>5 DEF Parties!Part
<1>7. CASE ~(IsLeader(i, p) /\ left # {})
  <2>1. members' = [members EXCEPT ![i] = rest]
    BY <1>7 DEF RemoveMember
  <2> HIDE DEF rest, left
  <2>2. /\ PartyAt' = [PartyAt EXCEPT ![i] = PartyAt[i] \ {p}]
        /\ LeadAt' = [LeadAt EXCEPT ![i] = LeadAt[i] \ {p}]
    <3>1. PartyAt' = [PartyAt EXCEPT ![i] = In(rest)] /\ LeadAt' = [LeadAt EXCEPT ![i] = Heads(rest)]
      BY <1>1, <1>2, <2>1, OnePartyOnly
    <3>2. In(rest) = PartyAt[i] \ {p} /\ Heads(rest) = LeadAt[i] \ {p}
      BY <1>2, <1>3
    <3> QED BY <3>1, <3>2
  <2>3. LeadAt[i] \ {p} \in Parties!Successors(i, p)
    <3>1. CASE p \notin LeadAt[i]
      BY <3>1 DEF Parties!Successors
    <3>2. CASE p \in LeadAt[i]
      <4>1. PartyAt[i] = {p} /\ LeadAt[i] \ {p} = {}
        BY <1>2, <1>3, <1>4, <1>5, <1>7, <3>2
      <4> QED BY <3>2, <4>1 DEF Parties!Successors
    <3> QED BY <3>1, <3>2
  <2> QED BY <1>4, <2>2, <2>3 DEF Parties!Part
<1> QED BY <1>6, <1>7

\* Some tasks lose everybody.
LEMMA DisbandsThem ==
  ASSUME IInv, NEW x \in SUBSET live,
         UNCHANGED made, live' = live \ x, locked' = locked \ x,
         \A i \in Ids : members'[i] = IF i \in x THEN Nobody ELSE members[i]
  PROVE  Parties!Disband(x)
<1>1. Heads(Nobody) = {}
  BY DEF Heads, Nobody
<1>2. \A i \in Ids : PartyAt'[i] = IF i \in x THEN {} ELSE PartyAt[i]
  BY Seen, NobodyIn
<1>3. \A i \in Ids : LeadAt'[i] = IF i \in x THEN {} ELSE LeadAt[i]
  BY <1>1, Seen
<1>4. PartyAt' = [j \in Ids |-> PartyAt'[j]] /\ LeadAt' = [j \in Ids |-> LeadAt'[j]]
  BY DEF PartyAt, LeadAt
<1> QED BY <1>2, <1>3, <1>4 DEF Parties!Disband

LEMMA TerminatedDisbands ==
  ASSUME IInv, NEW i \in live, Terminate(i)
  PROVE  Parties!Disband({i})
<1>1. members \in [Ids -> Roster] /\ i \in Ids
  BY DEF IInv, Shape, Ids
<1>2. /\ \A j \in Ids : members'[j] = IF j \in {i} THEN Nobody ELSE members[j]
      /\ UNCHANGED made /\ live' = live \ {i} /\ locked' = locked \ {i}
  BY <1>1 DEF Terminate
<1> QED BY <1>2, DisbandsThem

\* A step of the parties, or none.
PartyStep == [Parties!PartyNext]_(Parties!partyVars)

LEMMA NoPartyStep == UNCHANGED partied => PartyStep
BY SamePeople DEF partied, PartyStep, Parties!partyVars

LEMMA PeopleMove ==
  ASSUME IInv
  PROVE  /\ \A i \in live, p \in Players :
              Parties!Join(i, p) \/ Parties!Part(i, p) \/ Parties!HandOver(i, p) => PartyStep
         /\ \A x \in SUBSET live : Parties!Disband(x) \/ Parties!Shut(x) => PartyStep
         /\ \A p \in Players, g \in SUBSET Players : Parties!Form(p, g) => PartyStep
<1>1. \A p, g : Parties!Form(p, g) => p \in g
  BY DEF Parties!Form
<1> QED BY <1>1 DEF PartyStep, Parties!PartyNext
LEMMA TerminatedIsDisbanding ==
  ASSUME IInv, NEW i \in live, Terminate(i)
  PROVE  PartyStep
<1>1. Parties!Disband({i}) /\ {i} \in SUBSET live
  BY TerminatedDisbands
<1> QED BY <1>1, PeopleMove

LEMMA RemovingIsParting ==
  ASSUME IInv, NEW p \in Players, Removing(p)
  PROVE  PartyStep
<1>1. \/ UNCHANGED partied
      \/ \E i \in live : Terminate(i)
      \/ \E i \in live : \E q \in MembersOf(i) : RemoveMember(i, q)
  <2>1. Led(p) \subseteq Asked(p) /\ Asked(p) \subseteq live /\ \A i \in Asked(p) : p \in MembersOf(i)
    BY DEF Led, Asked, Found
  <2>2. CASE SharedTaskQuit(p)
    BY <2>1, <2>2 DEF SharedTaskQuit, Ignored, partied
  <2>3. CASE SharedTaskKickPlayers(p)
    BY <2>1, <2>3 DEF SharedTaskKickPlayers, Ignored, partied
  <2>4. CASE SharedTaskRemovePlayer(p)
    BY <2>1, <2>4 DEF SharedTaskRemovePlayer, Ignored, partied
  <2>5. CASE SharedTaskEnd(p)
    BY <2>1, <2>5 DEF SharedTaskEnd, Ignored, partied
  <2> QED BY <2>2, <2>3, <2>4, <2>5 DEF Removing
<1>2. saving = Idle
  BY DEF Removing, SharedTaskQuit, SharedTaskKickPlayers, SharedTaskRemovePlayer,
         SharedTaskEnd, Receives
<1>3. ASSUME NEW i \in live, Terminate(i) PROVE PartyStep
  BY <1>3, TerminatedIsDisbanding
<1>4. ASSUME NEW i \in live, NEW q \in MembersOf(i), RemoveMember(i, q) PROVE PartyStep
  <2>1. Parties!Part(i, q)
    BY <1>2, <1>4, RemovedParts
  <2>2. q \in Players
    BY DEF MembersOf
  <2> QED BY <2>1, <2>2, PeopleMove
<1> QED BY <1>1, <1>3, <1>4, NoPartyStep

LEMMA LockingIsShutting ==
  ASSUME IInv, NEW p \in Players, Locking(p)
  PROVE  PartyStep
<1>1. Asked(p) \subseteq live
  BY DEF Asked, Found
<1>2. /\ UNCHANGED <<made, live, members>>
      /\ \E x \in SUBSET live : locked' = locked \cup x
  <2>1. CASE LockTask(p)
    BY <1>1, <2>1 DEF LockTask
  <2>2. CASE SharedTaskActivityUpdate(p)
    <3>1. UNCHANGED <<made, live, members>>
      BY <2>2 DEF SharedTaskActivityUpdate, Ignored
    <3>2. UNCHANGED locked \/ \E i \in Asked(p) : locked' = locked \cup {i}
      BY <2>2 DEF SharedTaskActivityUpdate, Ignored
    <3>3. locked = locked \cup {}
      OBVIOUS
    <3> QED BY <1>1, <3>1, <3>2, <3>3
  <2> QED BY <2>1, <2>2 DEF Locking
<1>3. PICK x \in SUBSET live : locked' = locked \cup x
  BY <1>2
<1>4. Parties!Shut(x)
  BY <1>2, <1>3, SamePeople DEF Parties!Shut
<1> QED BY <1>4, PeopleMove

LEMMA LeadingIsHandingOver ==
  ASSUME IInv, NEW p \in Players, SharedTaskMakeLeader(p)
  PROVE  PartyStep
<1>1. \/ UNCHANGED partied
      \/ /\ UNCHANGED <<made, live, locked>>
         /\ \E i \in live : \E q \in MembersOf(i) :
              /\ IsLeader(i, p)
              /\ members' = [members EXCEPT ![i] = MakeLeader(members[i], q)]
  BY DEF SharedTaskMakeLeader, Ignored, Led, Asked, Found, partied
<1>2. ASSUME NEW i \in live, NEW q \in MembersOf(i), IsLeader(i, p), UNCHANGED <<made, live, locked>>,
             members' = [members EXCEPT ![i] = MakeLeader(members[i], q)]
      PROVE  PartyStep
  <2> DEFINE r == MakeLeader(members[i], q)
  <2>1. members[i] \in Roster /\ q \in In(members[i]) /\ i \in Ids /\ members \in [Ids -> Roster]
        /\ q \in Players
    BY MembersAreIn DEF IInv, Shape, Ids, MembersOf
  <2>2. r \in Roster /\ In(r) = In(members[i]) /\ Heads(r) = {q}
    BY <2>1, LeaderMade, HeadsOf
  <2> HIDE DEF r
  <2>3. members' = [members EXCEPT ![i] = r]
    BY <1>2 DEF r
  <2>4. PartyAt' = [PartyAt EXCEPT ![i] = In(r)] /\ LeadAt' = [LeadAt EXCEPT ![i] = Heads(r)]
    BY <2>1, <2>2, <2>3, OnePartyOnly
  <2>5. PartyAt[i] = In(r) /\ LeadAt[i] # {} /\ q \in PartyAt[i]
    BY <1>2, <2>1, <2>2, Seen DEF Heads, IsLeader
  <2>6. PartyAt' = PartyAt
    <3>1. PartyAt = [j \in Ids |-> PartyAt[j]]
      BY DEF PartyAt
    <3> QED BY <2>4, <2>5, <3>1
  <2>7. Parties!HandOver(i, q)
    BY <1>2, <2>2, <2>4, <2>5, <2>6 DEF Parties!HandOver
  <2> QED BY <2>1, <2>7, PeopleMove
<1> QED BY <1>1, <1>2, NoPartyStep

LEMMA AddedJoins ==
  ASSUME IInv, saving = Idle, NEW i \in live, NEW p \in Players, NEW inv,
         CanAddPlayer(i, p, inv), AddPlayer(i, p), UNCHANGED <<made, live, locked>>
  PROVE  Parties!Join(i, p)
<1> DEFINE r == [members[i] EXCEPT ![p] = "member"]
<1>1. /\ members[i] \in Roster /\ i \in Ids /\ live \subseteq Ids /\ members \in [Ids -> Roster]
      /\ \A j \in Ids : rows[j] = members[j]
  <2>1. members[i] \in Roster /\ i \in Ids /\ live \subseteq Ids /\ members \in [Ids -> Roster]
    BY DEF IInv, Shape, Ids
  <2> QED BY <2>1 DEF IInv, Kept
<1>2. \A j \in Ids : p \notin In(members[j])
  BY <1>1 DEF CanAddPlayer, In
<1>3. members[i][p] = "none"
  BY <1>1, <1>2 DEF In
<1>4. r \in Roster /\ In(r) = In(members[i]) \cup {p} /\ Heads(r) = Heads(members[i])
  BY <1>1, <1>3, WithMember, HeadsOf
<1>5. members' = [members EXCEPT ![i] = r]
  BY <1>1 DEF AddPlayer
<1> HIDE DEF r
<1>6. PartyAt' = [PartyAt EXCEPT ![i] = In(r)] /\ LeadAt' = [LeadAt EXCEPT ![i] = Heads(r)]
  BY <1>1, <1>4, <1>5, OnePartyOnly
<1>7. PartyAt[i] = In(members[i]) /\ LeadAt[i] = Heads(members[i])
  BY <1>1, Seen
<1>8. LeadAt' = LeadAt
  <2>1. LeadAt = [j \in Ids |-> LeadAt[j]]
    BY DEF LeadAt
  <2> QED BY <1>4, <1>6, <1>7, <2>1
<1>9. PartyAt' = [PartyAt EXCEPT ![i] = PartyAt[i] \cup {p}]
  BY <1>4, <1>6, <1>7
<1>10. Parties!Free(p)
  BY <1>1, <1>2, NoMemberIsFree
<1>11. i \notin locked /\ Cardinality(PartyAt[i]) < MaxPlayers
  BY <1>7, MembersAreIn DEF CanAddPlayer
<1> QED BY <1>8, <1>9, <1>10, <1>11, SameCardinality DEF Parties!Join

LEMMA AnsweringIsJoining ==
  ASSUME IInv, NEW p \in Players, NEW answer, InviteAnswered(p, answer)
  PROVE  PartyStep
<1>1. saving = Idle
  BY DEF InviteAnswered, Receives
<1>2. CASE UNCHANGED partied
  BY <1>2, NoPartyStep
<1>3. ASSUME NEW i \in live, NEW inv, CanAddPlayer(i, p, inv), AddPlayer(i, p),
             UNCHANGED <<made, live, locked>>
      PROVE  PartyStep
  BY <1>1, <1>3, AddedJoins, PeopleMove
<1> QED BY <1>2, <1>3 DEF InviteAnswered, Ignored, partied

LEMMA CreatingIsForming ==
  ASSUME IInv, NEW p \in Players, NEW g \in SUBSET Players, AttemptSharedTaskCreation(p, g)
  PROVE  PartyStep
<1> DEFINE r == [q \in Players |->
             IF q = p THEN "leader" ELSE IF q \in g THEN "member" ELSE "none"]
           n == made + 1
<1>1. CASE ~(CanRequestSharedTask(p, g) /\ made < MaxTasks)
  <2>1. UNCHANGED partied
    BY <1>1 DEF AttemptSharedTaskCreation, partied
  <2> QED BY <2>1, NoPartyStep
<1>2. CASE CanRequestSharedTask(p, g) /\ made < MaxTasks
  <2>1. /\ made' = n /\ live' = live \cup {n} /\ p \in g
        /\ members' = [members EXCEPT ![n] = r]
        /\ locked' \in {locked, locked \cup {n}}
    BY <1>2 DEF AttemptSharedTaskCreation
  <2>2. r \in Roster /\ In(r) = g /\ Heads(r) = {p}
    BY <2>1 DEF Roster, Roles, In, Heads
  <2>3. n \in Ids /\ members \in [Ids -> Roster]
    BY <1>2 DEF IInv, Shape, Ids
  <2>4. Cardinality(g) <= MaxPlayers /\ \A q \in g : \A j \in live : q \notin In(members[j])
    BY <1>2, MembersAreIn DEF CanRequestSharedTask, FindCharactersInSharedTasks
  <2> HIDE DEF r, n
  <2>5. PartyAt' = [PartyAt EXCEPT ![n] = g] /\ LeadAt' = [LeadAt EXCEPT ![n] = {p}]
    BY <2>1, <2>2, <2>3, OnePartyOnly
  <2>6. \A q \in g : Parties!Free(q)
    BY <2>4, NoMemberIsFree
  <2>7. made' = made + 1 /\ n = made'
    BY <2>1 DEF n
  <2>8. Parties!Form(p, g)
    BY <2>1, <2>3, <2>4, <2>5, <2>6, <2>7, SameCardinality DEF Parties!Form
  <2> QED BY <2>8, PeopleMove
<1> QED BY <1>1, <1>2

LEMMA RestartingIsDisbanding ==
  ASSUME IInv, PurgeAllSharedTasks \/ \E x \in SUBSET Ids : LoadSharedTaskState(x)
  PROVE  PartyStep
<1>1. live \subseteq Ids /\ locked \subseteq live /\ \A i \in Ids \ live : members[i] = Nobody
  BY DEF IInv, Shape, Ids, Kept
<1>2. CASE PurgeAllSharedTasks
  <2>1. /\ UNCHANGED made /\ live' = live \ live /\ locked' = locked \ live
        /\ \A i \in Ids : members'[i] = IF i \in live THEN Nobody ELSE members[i]
    BY <1>1, <1>2 DEF PurgeAllSharedTasks
  <2> QED BY <2>1, DisbandsThem, PeopleMove
<1>3. ASSUME NEW x \in SUBSET Ids, LoadSharedTaskState(x) PROVE PartyStep
  <2>1. /\ saving = Idle /\ x \subseteq live /\ UNCHANGED made
        /\ live' = {i \in live : i \notin x} /\ locked' = locked \ x
        /\ members' = [i \in Ids |-> IF i \in x THEN Nobody ELSE rows[i]]
    BY <1>3 DEF LoadSharedTaskState
  <2>2. live' = live \ x /\ \A i \in Ids : rows[i] = members[i]
    BY <2>1 DEF IInv, Kept
  <2>3. \A i \in Ids : members'[i] = IF i \in x THEN Nobody ELSE members[i]
    BY <2>1, <2>2
  <2> QED BY <2>1, <2>2, <2>3, DisbandsThem, PeopleMove
<1> QED BY <1>2, <1>3

LEMMA StepsAreParties == IInv /\ [Next]_vars => PartyStep
<1> SUFFICES ASSUME IInv, [Next]_vars PROVE PartyStep
  OBVIOUS
<1>1. ASSUME NEW p \in Players, Actions(p) PROVE PartyStep
  <2>1. CASE Elsewhere(p)
    BY <2>1, ElsewhereUnmoved, NoPartyStep DEF core, partied
  <2> QED BY <1>1, <2>1, ByPlayer, RemovingIsParting, LockingIsShutting, LeadingIsHandingOver,
             AnsweringIsJoining, CreatingIsForming
<1>2. ASSUME DeleteRows \/ InsertRows \/ DropRows \/ UNCHANGED vars PROVE PartyStep
  BY <1>2, NoPartyStep DEF DeleteRows, InsertRows, DropRows, SaveStep, vars, partied
<1>3. ASSUME NEW i \in Ids, Process(i) PROVE PartyStep
  <2>1. i \in live /\ Terminate(i)
    BY <1>3 DEF Process
  <2> QED BY <2>1, TerminatedIsDisbanding
<1> QED BY <1>1, <1>2, <1>3, RestartingIsDisbanding DEF Next

\* World's shared tasks implement TaskParties, whatever zones ask, the links do
\* and world forgets and reads back.
THEOREM ImplementsParties == Spec => KeepsParties
<1>1. Init => Parties!PartyInit
  <2> SUFFICES ASSUME Init PROVE Parties!PartyInit
    OBVIOUS
  <2>1. PartyAt = [i \in Ids |-> {}] /\ LeadAt = [i \in Ids |-> {}]
    BY DEF Init, Nobody, PartyAt, LeadAt, MembersOf, IsLeader
  <2> QED BY <2>1 DEF Init, Parties!PartyInit
<1>2. IInv /\ [Next]_vars => [Parties!PartyNext]_(Parties!partyVars)
  BY StepsAreParties DEF PartyStep
<1> QED BY <1>1, <1>2, RostersRight, PTL DEF Spec, KeepsParties, Parties!PartySpec

-----------------------------------------------------------------------------
(* Types.  A request for a task names a template and an invitation names a     *)
(* task, other packets need not; so TypeOK follows from a stronger invariant.  *)

Copies == [task : 0 .. MaxTasks, count : 0 .. Goal, full : BOOLEAN,
           rewarded : BOOLEAN, updated : BOOLEAN, id : 0 .. MaxTasks]
OwnRows == [task : 0 .. MaxTasks, count : 0 .. Goal, full : BOOLEAN, rewarded : BOOLEAN]
Asking == {m \in Requests : m.op = "request" => m.task \in Templates}
Telling == {m \in Packets : m.op = "invite" => m.id \in Ids}
Spending == [requests : 0 .. MaxRequests, kills : 0 .. MaxKills,
             moves : 0 .. MaxMoves, events : 0 .. MaxEvents]

TasksOK  == tmpl \in [Ids -> Templates \cup {NoTask}] /\ done \in [Ids -> 0 .. Goal]
WorldOK  == invited \subseteq Ids \X Players /\ known \subseteq Players
LinksOK  == inbox \in [Players -> Seq(Telling)] /\ outbox \in [Players -> Seq(Asking)]
ZonesOK  == /\ present \subseteq Players /\ dialogs \in [Players -> SUBSET Ids]
            /\ copy \in [Players -> Copies] /\ row \in [Players -> OwnRows]
GhostsOK == /\ lapsed \subseteq Players /\ crossed \subseteq Players
            /\ paid \in [Ids -> [Players -> Nat]] /\ spent \in Spending

Rest  == TasksOK /\ WorldOK /\ LinksOK /\ ZonesOK /\ GhostsOK
Types == IInv /\ Rest

LEMMA TypesSuffice == Types => TypeOK
<1> SUFFICES ASSUME Types PROVE TypeOK
  OBVIOUS
<1>1. live \subseteq 1 .. made /\ made \in 0 .. MaxTasks /\ live \subseteq Ids
  BY DEF Types, IInv, Shape, Ids
<1>2. saving \in [task : 0 .. MaxTasks, at : {"idle", "delete", "insert", "drop"}]
  <2>1. saving \in Saving(live)
    BY DEF Types, IInv, Shape
  <2>2. Idle \in [task : 0 .. MaxTasks, at : {"idle", "delete", "insert", "drop"}]
    BY DEF Idle, NoTask
  <2>3. Ids \subseteq 0 .. MaxTasks
    BY DEF Ids
  <2> QED BY <1>1, <2>1, <2>2, <2>3 DEF Saving
<1>3. \A p \in Players : outbox[p] \in Seq(Requests) /\ inbox[p] \in Seq(Packets)
  <2>1. Asking \subseteq Requests /\ Telling \subseteq Packets
    BY DEF Asking, Telling
  <2> QED BY <2>1 DEF Types, Rest, LinksOK
<1>4. outbox \in [Players -> Seq(Requests)] /\ inbox \in [Players -> Seq(Packets)]
  BY <1>3 DEF Types, Rest, LinksOK
<1> QED BY <1>1, <1>2, <1>4 DEF Types, IInv, Shape, Rest, TasksOK, WorldOK, LinksOK, ZonesOK,
        GhostsOK, TypeOK, Copies, OwnRows, Spending

\* World tells somebody something, or nobody.
Sent == TellNobody \/ \E s : \E m \in Telling : Tell(s, m)

LEMMA SentKeeps ==
  ASSUME Rest, Sent
  PROVE  inbox' \in [Players -> Seq(Telling)] /\ lapsed' \subseteq Players
<1>1. CASE TellNobody
  BY <1>1 DEF TellNobody, Rest, LinksOK, GhostsOK
<1>2. ASSUME NEW s, NEW m \in Telling, Tell(s, m)
      PROVE  inbox' \in [Players -> Seq(Telling)] /\ lapsed' \subseteq Players
  <2>1. \A p \in Players : inbox[p] \in Seq(Telling) /\ Append(inbox[p], m) \in Seq(Telling)
    BY DEF Rest, LinksOK
  <2>2. inbox' \in [Players -> Seq(Telling)]
    BY <1>2, <2>1 DEF Tell
  <2>3. (s \cap present) \ known \subseteq Players
    BY DEF Rest, ZonesOK
  <2>4. lapsed' \subseteq Players
    BY <1>2, <2>3 DEF Tell, Rest, GhostsOK
  <2> QED BY <2>2, <2>4
<1> QED BY <1>1, <1>2 DEF Sent

LEMMA ReceivedFits ==
  ASSUME Rest, NEW p \in Players, NEW op, Receives(p, op)
  PROVE  /\ Head(outbox[p]) \in Asking /\ Head(outbox[p]).op = op
         /\ outbox' \in [Players -> Seq(Asking)]
         /\ saving = Idle /\ UNCHANGED <<present, copy, row, dialogs, spent, paid, crossed>>
<1>1. outbox[p] \in Seq(Asking) /\ outbox[p] # <<>>
  BY DEF Receives, Rest, LinksOK
<1>2. Head(outbox[p]) \in Asking /\ Tail(outbox[p]) \in Seq(Asking)
  BY <1>1
<1> QED BY <1>1, <1>2 DEF Receives, Rest, LinksOK

LEMMA WorldKeeps ==
  ASSUME Rest, NEW p \in Players, NEW op, Receives(p, op), TasksOK', WorldOK', Sent
  PROVE  Rest'
<1>1. LinksOK'
  BY SentKeeps, ReceivedFits DEF LinksOK
<1>2. ZonesOK' /\ GhostsOK'
  BY SentKeeps, ReceivedFits DEF Rest, ZonesOK, GhostsOK
<1> QED BY <1>1, <1>2 DEF Rest

LEMMA PacketFits ==
  ASSUME NEW op \in {"load", "accept", "quit", "update", "invite"},
         NEW i \in 0 .. MaxTasks, NEW n \in 0 .. Goal
  PROVE  op # "invite" \/ i \in Ids => Packet(op, i, n) \in Telling
BY DEF Packet, Packets, Telling

LEMMA Zeros == 0 \in 0 .. Goal /\ NoTask \in 0 .. MaxTasks /\ Ids \subseteq 0 .. MaxTasks
BY DEF NoTask, Ids

LEMMA SentQuit ==
  ASSUME NEW s, NEW i \in Ids, Tell(s, Packet("quit", i, 0))
  PROVE  Sent
BY PacketFits, Zeros DEF Sent

LEMMA LiveIds == ASSUME Types PROVE live \subseteq Ids
BY DEF Types, IInv, Shape, Ids

\* Neither removing a member nor ending a task changes what Rest says of world.
LEMMA RemovingFits ==
  ASSUME Types, NEW p \in Players, Removing(p)
  PROVE  Rest'
<1>1. Led(p) \subseteq Asked(p) /\ Asked(p) \subseteq Ids
  BY LiveIds DEF Led, Asked, Found
<1>2. PICK op : Receives(p, op)
  BY DEF Removing, SharedTaskQuit, SharedTaskKickPlayers, SharedTaskRemovePlayer, SharedTaskEnd
<1>3. \/ Ignored
      \/ \E i \in Ids : Terminate(i)
      \/ \E i \in Ids : \E q : RemoveMember(i, q)
  <2>2. CASE SharedTaskQuit(p)
    BY <1>1, <2>2 DEF SharedTaskQuit
  <2>3. CASE SharedTaskKickPlayers(p)
    BY <1>1, <2>3 DEF SharedTaskKickPlayers
  <2>4. CASE SharedTaskRemovePlayer(p)
    BY <1>1, <2>4 DEF SharedTaskRemovePlayer
  <2>5. CASE SharedTaskEnd(p)
    BY <1>1, <2>5 DEF SharedTaskEnd
  <2> QED BY <2>2, <2>3, <2>4, <2>5 DEF Removing
<1>4. Sent /\ UNCHANGED <<tmpl, done, invited, known>>
  BY <1>3, SentQuit DEF Ignored, Terminate, RemoveMember, Sent
<1>5. TasksOK' /\ WorldOK'
  BY <1>4 DEF Types, Rest, TasksOK, WorldOK
<1> QED BY <1>2, <1>4, <1>5, WorldKeeps DEF Types

LEMMA LockingFits ==
  ASSUME Types, NEW p \in Players, Locking(p)
  PROVE  Rest'
<1>1. Asked(p) \subseteq Ids
  BY LiveIds DEF Asked, Found
<1>2. CASE LockTask(p)
  <2>1. Sent /\ UNCHANGED <<tmpl, done, invited, known>> /\ Receives(p, "lock")
    BY <1>2 DEF LockTask, Sent
  <2>2. TasksOK' /\ WorldOK'
    BY <2>1 DEF Types, Rest, TasksOK, WorldOK
  <2> QED BY <2>1, <2>2, WorldKeeps DEF Types
<1>3. CASE SharedTaskActivityUpdate(p)
  <2>1. Receives(p, "update")
    BY <1>3 DEF SharedTaskActivityUpdate
  <2>2. Head(outbox[p]).n \in 0 .. Goal
    BY <2>1, ReceivedFits DEF Types, Asking, Requests
  <2>3. \/ Ignored
        \/ \E i \in Ids : /\ done' = [done EXCEPT ![i] = Head(outbox[p]).n]
                         /\ Tell(MembersOf(i), Packet("update", i, Head(outbox[p]).n))
                         /\ UNCHANGED <<tmpl, invited, known>>
    BY <1>1, <1>3 DEF SharedTaskActivityUpdate
  <2>4. Sent /\ done' \in [Ids -> 0 .. Goal] /\ UNCHANGED <<tmpl, invited, known>>
    <3>1. CASE Ignored
      BY <3>1 DEF Ignored, Sent, Types, Rest, TasksOK
    <3>2. ASSUME NEW i \in Ids, done' = [done EXCEPT ![i] = Head(outbox[p]).n],
                 Tell(MembersOf(i), Packet("update", i, Head(outbox[p]).n)),
                 UNCHANGED <<tmpl, invited, known>>
          PROVE  Sent /\ done' \in [Ids -> 0 .. Goal] /\ UNCHANGED <<tmpl, invited, known>>
      <4>1. Packet("update", i, Head(outbox[p]).n) \in Telling
        BY <2>2, PacketFits, Zeros
      <4>2. Sent
        BY <3>2, <4>1 DEF Sent
      <4> QED BY <2>2, <3>2, <4>2 DEF Types, Rest, TasksOK
    <3> QED BY <2>3, <3>1, <3>2
  <2>5. TasksOK' /\ WorldOK'
    BY <2>4 DEF Types, Rest, TasksOK, WorldOK
  <2> QED BY <2>1, <2>4, <2>5, WorldKeeps DEF Types
<1> QED BY <1>2, <1>3 DEF Locking

LEMMA LeadingFits ==
  ASSUME Types, NEW p \in Players, SharedTaskMakeLeader(p)
  PROVE  Rest'
<1>1. Sent /\ UNCHANGED <<tmpl, done, invited, known>> /\ Receives(p, "makeleader")
  BY DEF SharedTaskMakeLeader, Ignored, Sent
<1>2. TasksOK' /\ WorldOK'
  BY <1>1 DEF Types, Rest, TasksOK, WorldOK
<1> QED BY <1>1, <1>2, WorldKeeps DEF Types

LEMMA AnsweredFits ==
  ASSUME Types, NEW p \in Players, NEW answer, InviteAnswered(p, answer)
  PROVE  Rest'
<1> DEFINE i == Head(outbox[p]).task
<1>1. Receives(p, answer) /\ UNCHANGED <<tmpl, done, known>> /\ invited' \subseteq invited
  BY DEF InviteAnswered, Ignored
<1>2. TellNobody \/ (i \in live /\ Tell({p}, Packet("accept", i, 0)))
  BY DEF InviteAnswered, Ignored, AddPlayer
<1>3. Sent
  <2>1. ASSUME i \in live PROVE Packet("accept", i, 0) \in Telling
    <3>1. i \in Ids
      BY <2>1, LiveIds
    <3> QED BY <3>1, PacketFits, Zeros
  <2> QED BY <1>2, <2>1 DEF Sent
<1>4. TasksOK' /\ WorldOK'
  BY <1>1 DEF Types, Rest, TasksOK, WorldOK
<1> QED BY <1>1, <1>3, <1>4, WorldKeeps DEF Types

LEMMA CreatedFits ==
  ASSUME Types, NEW p \in Players, NEW g \in SUBSET Players, AttemptSharedTaskCreation(p, g)
  PROVE  Rest'
<1> DEFINE t == Head(outbox[p]).task
<1>1. Receives(p, "request") /\ UNCHANGED <<done, invited, known>>
  BY DEF AttemptSharedTaskCreation
<1>2. t \in Templates
  BY <1>1, ReceivedFits DEF Types, Asking
<1>3. \/ TellNobody /\ UNCHANGED tmpl
      \/ /\ made' = made + 1 /\ made < MaxTasks /\ tmpl' = [tmpl EXCEPT ![made'] = t]
         /\ Tell(g, Packet("accept", made', 0))
  BY DEF AttemptSharedTaskCreation
<1>4. made \in 0 .. MaxTasks
  BY DEF Types, IInv, Shape
<1>5. CASE TellNobody /\ UNCHANGED tmpl
  BY <1>1, <1>5, WorldKeeps DEF Types, Rest, TasksOK, WorldOK, Sent
<1>6. CASE /\ made' = made + 1 /\ made < MaxTasks /\ tmpl' = [tmpl EXCEPT ![made'] = t]
           /\ Tell(g, Packet("accept", made', 0))
  <2>1. made' \in Ids
    BY <1>4, <1>6 DEF Ids
  <2>2. Packet("accept", made', 0) \in Telling
    BY <2>1, PacketFits, Zeros
  <2>3. Sent
    BY <1>6, <2>2 DEF Sent
  <2>4. TasksOK' /\ WorldOK'
    BY <1>1, <1>2, <1>6, <2>1 DEF Types, Rest, TasksOK, WorldOK
  <2> QED BY <1>1, <2>3, <2>4, WorldKeeps DEF Types
<1> QED BY <1>3, <1>5, <1>6

LEMMA InvitedFits ==
  ASSUME Types, NEW p \in Players,
         InvitePlayerByPlayerName(p) \/ Announced(p) \/ LeavingZone(p)
  PROVE  Rest'
<1>1. CASE Announced(p)
  <2>1. TasksOK' /\ WorldOK' /\ Sent /\ Receives(p, "announce")
    BY <1>1 DEF Announced, Types, Rest, TasksOK, WorldOK, Sent
  <2> QED BY <2>1, WorldKeeps DEF Types
<1>2. CASE LeavingZone(p)
  <2>1. TasksOK' /\ WorldOK' /\ Sent /\ Receives(p, "leave")
    BY <1>2 DEF LeavingZone, Types, Rest, TasksOK, WorldOK, Sent
  <2> QED BY <2>1, WorldKeeps DEF Types
<1>3. CASE InvitePlayerByPlayerName(p)
  <2> DEFINE q == Head(outbox[p]).who
  <2>1. Receives(p, "add") /\ UNCHANGED <<tmpl, done, known>>
    BY <1>3 DEF InvitePlayerByPlayerName, Ignored
  <2>2. q \in Players
    BY <2>1, ReceivedFits DEF Types, Asking, Requests
  <2>3. \/ TellNobody /\ UNCHANGED invited
        \/ \E i \in live : invited' = invited \cup {<<i, q>>} /\ Tell({q}, Packet("invite", i, 0))
    BY <1>3 DEF InvitePlayerByPlayerName, Ignored, Led, Asked, Found
  <2>4. live \subseteq Ids
    BY LiveIds
  <2>5. \A i \in Ids : Packet("invite", i, 0) \in Telling
    BY PacketFits, Zeros
  <2>6. Sent /\ WorldOK' /\ TasksOK'
    BY <2>1, <2>2, <2>3, <2>4, <2>5 DEF Sent, Types, Rest, TasksOK, WorldOK
  <2> QED BY <2>1, <2>6, WorldKeeps DEF Types
<1> QED BY <1>1, <1>2, <1>3

-----------------------------------------------------------------------------
(* Types in the zones *)

LEMMA GotFits ==
  ASSUME Rest, NEW p \in Players, NEW op, Gets(p, op)
  PROVE  /\ Head(inbox[p]) \in Telling
         /\ TasksOK' /\ WorldOK' /\ LinksOK'
         /\ UNCHANGED <<present, spent>>
<1>1. inbox[p] \in Seq(Telling) /\ inbox[p] # <<>>
  BY DEF Gets, Rest, LinksOK
<1>2. Head(inbox[p]) \in Telling /\ Tail(inbox[p]) \in Seq(Telling)
  BY <1>1
<1>3. LinksOK'
  BY <1>2 DEF Gets, Rest, LinksOK
<1>4. TasksOK' /\ WorldOK' /\ UNCHANGED <<present, spent>>
  BY DEF Gets, Rest, TasksOK, WorldOK
<1> QED BY <1>2, <1>3, <1>4

LEMMA NoRowFits == NoRow \in OwnRows /\ \A i \in 0 .. MaxTasks : [NoRow EXCEPT !.task = i] \in OwnRows
BY Zeros DEF NoRow, OwnRows

LEMMA CountsFit ==
  ASSUME Rest, NEW c \in OwnRows, NEW i \in 0 .. MaxTasks
  PROVE  StateToLocal(c, i) \in OwnRows /\ WithPersistedState(c, i) \in OwnRows
<1>1. i # NoTask => i \in Ids /\ done[i] \in 0 .. Goal
  BY DEF Rest, TasksOK, Ids, NoTask
<1>2. StateToLocal(c, i) \in OwnRows
  BY <1>1 DEF StateToLocal, OwnRows
<1>3. ASSUME Behind(c, i) PROVE WithPersistedState(c, i) \in OwnRows
  <2>1. /\ c.task \in 0 .. MaxTasks /\ c.rewarded \in BOOLEAN
        /\ (c.rewarded \/ Pays(c, i)) \in BOOLEAN /\ (done[i] = Goal) \in BOOLEAN
    BY DEF OwnRows
  <2>2. done[i] \in 0 .. Goal
    BY <1>1, <1>3 DEF Behind
  <2>3. [c EXCEPT !.count = done[i], !.full = (done[i] = Goal), !.rewarded = @ \/ Pays(c, i)]
          \in OwnRows
    BY <2>1, <2>2 DEF OwnRows
  <2> QED BY <1>3, <2>3 DEF WithPersistedState
<1>4. ASSUME ~Behind(c, i) PROVE WithPersistedState(c, i) \in OwnRows
  BY <1>4 DEF WithPersistedState
<1> QED BY <1>2, <1>3, <1>4

\* p is paid for a task once more, or not.
PaidOn(p) ==
  \/ UNCHANGED paid
  \/ \E i \in 0 .. MaxTasks : paid' = [paid EXCEPT ![i][p] = @ + 1]

LEMMA PaidFits ==
  ASSUME Rest, NEW p \in Players, PaidOn(p)
  PROVE  paid' \in [Ids -> [Players -> Nat]]
<1>1. ASSUME NEW i \in 0 .. MaxTasks, paid' = [paid EXCEPT ![i][p] = @ + 1]
      PROVE  paid' \in [Ids -> [Players -> Nat]]
  <2>1. CASE i \in Ids
    <3>1. paid[i] \in [Players -> Nat] /\ paid[i][p] + 1 \in Nat
      BY <2>1 DEF Rest, GhostsOK
    <3>2. [paid[i] EXCEPT ![p] = @ + 1] \in [Players -> Nat]
      BY <3>1
    <3> QED BY <1>1, <2>1, <3>2 DEF Rest, GhostsOK
  <2>2. CASE i \notin Ids
    <3>1. paid = [j \in Ids |-> paid[j]]
      BY DEF Rest, GhostsOK
    <3>2. paid' = paid
      BY <1>1, <2>2, <3>1, Zenon
    <3> QED BY <3>2 DEF Rest, GhostsOK
  <2> QED BY <2>1, <2>2
<1> QED BY <1>1 DEF PaidOn, Rest, GhostsOK

\* The copy and the tables of p are new, and p may be paid.
LEMMA CopyKeeps ==
  ASSUME Rest, NEW p \in Players, TasksOK', WorldOK', LinksOK', UNCHANGED <<present, spent>>,
         NEW c \in Copies, NEW w \in OwnRows,
         copy' = [copy EXCEPT ![p] = c], row' = [row EXCEPT ![p] = w],
         dialogs' \in [Players -> SUBSET Ids], PaidOn(p),
         lapsed' \subseteq lapsed \cup {p}, crossed' \subseteq crossed \cup {p}
  PROVE  Rest'
<1>1. ZonesOK'
  BY DEF Rest, ZonesOK
<1>2. GhostsOK'
  BY PaidFits DEF Rest, GhostsOK
<1> QED BY <1>1, <1>2 DEF Rest

LEMMA LoadKeeps ==
  ASSUME Rest, NEW p \in Players, TasksOK', WorldOK', LinksOK', UNCHANGED <<present, spent, dialogs>>,
         NEW c \in OwnRows, LoadClientTaskState(p, c)
  PROVE  Rest'
<1> DEFINE i   == TaskOf(rows, p)
           had == StateToLocal(c, i)
           now == IF i = NoTask THEN NoRow ELSE WithPersistedState(had, i)
           cp  == [task |-> now.task, count |-> now.count, full |-> now.full,
                   rewarded |-> now.rewarded, updated |-> now.task # NoTask /\ ~now.full,
                   id |-> i]
<1>1. i \in 0 .. MaxTasks
  BY Zeros DEF TaskOf
<1>2. had \in OwnRows /\ WithPersistedState(had, i) \in OwnRows
  <2>1. had \in OwnRows
    BY <1>1, CountsFit
  <2> HIDE DEF had, i
  <2> QED BY <1>1, <2>1, CountsFit
<1>3. now \in OwnRows
  BY <1>2, NoRowFits
<1>4. /\ row' = [row EXCEPT ![p] = now] /\ copy' = [copy EXCEPT ![p] = cp]
      /\ lapsed' \subseteq lapsed \cup {p} /\ crossed' \subseteq crossed \cup {p}
  BY DEF LoadClientTaskState
<1>5. PaidOn(p)
  BY <1>1 DEF LoadClientTaskState, PaidOn
<1>6. cp \in Copies
  <2> HIDE DEF now, i
  <2> QED BY <1>1, <1>3 DEF OwnRows, Copies
<1>7. dialogs' \in [Players -> SUBSET Ids]
  BY DEF Rest, ZonesOK
<1> HIDE DEF cp, now, i, had
<1> QED BY <1>3, <1>4, <1>5, <1>6, <1>7, CopyKeeps

LEMMA HandledFits ==
  ASSUME Rest, NEW p \in Players,
         Loads(p) \/ SharedTaskAcceptNewTask(p) \/ Cancelled(p)
           \/ SharedTaskIncrementDoneCount(p) \/ InvitePlayer(p)
  PROVE  Rest'
<1>1. copy[p] \in Copies /\ row[p] \in OwnRows /\ dialogs \in [Players -> SUBSET Ids]
  BY DEF Rest, ZonesOK
<1>2. CASE Loads(p)
  BY <1>1, <1>2, GotFits, LoadKeeps DEF Loads
<1>3. CASE SharedTaskAcceptNewTask(p)
  <2>1. Gets(p, "accept")
    BY <1>3 DEF SharedTaskAcceptNewTask
  <2>2. Head(inbox[p]).id \in 0 .. MaxTasks
    BY <2>1, GotFits DEF Packets, Telling
  <2>3. [NoRow EXCEPT !.task = Head(inbox[p]).id] \in OwnRows
    BY <2>2, NoRowFits
  <2>4. PICK c \in OwnRows : LoadClientTaskState(p, c)
    BY <1>1, <1>3, <2>3 DEF SharedTaskAcceptNewTask
  <2>5. UNCHANGED dialogs
    BY <1>3 DEF SharedTaskAcceptNewTask
  <2> QED BY <2>1, <2>4, <2>5, GotFits, LoadKeeps
<1>4. CASE Cancelled(p)
  <2> DEFINE c == [copy[p] EXCEPT !.task = NoTask, !.id = NoTask]
  <2>1. Gets(p, "quit") /\ UNCHANGED <<dialogs, paid>> /\ row' = [row EXCEPT ![p] = NoRow]
        /\ lapsed' \subseteq lapsed \cup {p} /\ crossed' \subseteq crossed \cup {p}
    BY <1>4 DEF Cancelled
  <2>2. copy' = [copy EXCEPT ![p] = c]
    BY <1>1, <1>4 DEF Cancelled, Rest, ZonesOK
  <2>3. c \in Copies
    BY <1>1, Zeros DEF Copies
  <2> HIDE DEF c
  <2> QED BY <1>1, <2>1, <2>2, <2>3, GotFits, NoRowFits, CopyKeeps DEF PaidOn
<1>5. CASE SharedTaskIncrementDoneCount(p)
  <2> DEFINE m == Head(inbox[p])
             c == Confirmed(copy[p], m.n)
             w == [task |-> c.task, count |-> c.count, full |-> c.full, rewarded |-> c.rewarded]
  <2>1. Gets(p, "update") /\ UNCHANGED <<dialogs, lapsed>> /\ copy' = [copy EXCEPT ![p] = c]
        /\ crossed' \subseteq crossed \cup {p}
    BY <1>5 DEF SharedTaskIncrementDoneCount
  <2>2. m.id \in 0 .. MaxTasks /\ m.n \in 0 .. Goal
    BY <2>1, GotFits DEF Packets, Telling
  <2>3. PaidOn(p)
    BY <1>5, <2>2 DEF SharedTaskIncrementDoneCount, PaidOn
  <2>4. \/ row' = [row EXCEPT ![p] = row[p]]
        \/ row' = [row EXCEPT ![p] = w]
    BY <1>5 DEF SharedTaskIncrementDoneCount, Rest, ZonesOK
  <2> HIDE DEF m
  <2>5. c \in Copies
    <3>1. /\ (copy[p].full \/ m.n = Goal) \in BOOLEAN /\ (copy[p].rewarded \/ m.n = Goal) \in BOOLEAN
      OBVIOUS
    <3> QED BY <1>1, <2>2, <3>1 DEF Confirmed, Copies
  <2> HIDE DEF c
  <2>6. w \in OwnRows
    BY <2>5 DEF Copies, OwnRows
  <2> HIDE DEF w
  <2> QED BY <1>1, <2>1, <2>3, <2>4, <2>5, <2>6, GotFits, CopyKeeps
<1>6. CASE InvitePlayer(p)
  <2>1. Gets(p, "invite") /\ UNCHANGED <<copy, row, paid, lapsed, crossed>>
        /\ dialogs' = [dialogs EXCEPT ![p] = @ \cup {Head(inbox[p]).id}]
    BY <1>6 DEF InvitePlayer
  <2>2. Head(inbox[p]).id \in Ids
    BY <2>1, GotFits DEF Gets, Telling
  <2>3. dialogs' \in [Players -> SUBSET Ids]
    BY <1>1, <2>1, <2>2
  <2>4. ZonesOK' /\ GhostsOK'
    BY <2>1, <2>3, GotFits DEF Rest, ZonesOK, GhostsOK
  <2> QED BY <2>1, <2>4, GotFits DEF Rest
<1> QED BY <1>2, <1>3, <1>4, <1>5, <1>6

-----------------------------------------------------------------------------
(* Types and the players *)

LEMMA SpendsFit ==
  ASSUME spent \in Spending,
         \/ Spends("requests", MaxRequests) \/ Spends("kills", MaxKills)
         \/ Spends("moves", MaxMoves) \/ Spends("events", MaxEvents)
  PROVE  spent' \in Spending
<1>1. /\ spent.requests \in 0 .. MaxRequests /\ spent.kills \in 0 .. MaxKills
      /\ spent.moves \in 0 .. MaxMoves /\ spent.events \in 0 .. MaxEvents
  BY DEF Spending
<1>2. CASE Spends("requests", MaxRequests)
  <2>1. spent.requests + 1 \in 0 .. MaxRequests
    BY <1>1, <1>2 DEF Spends
  <2> QED BY <1>2, <2>1 DEF Spends, Spending
<1>3. CASE Spends("kills", MaxKills)
  <2>1. spent.kills + 1 \in 0 .. MaxKills
    BY <1>1, <1>3 DEF Spends
  <2> QED BY <1>3, <2>1 DEF Spends, Spending
<1>4. CASE Spends("moves", MaxMoves)
  <2>1. spent.moves + 1 \in 0 .. MaxMoves
    BY <1>1, <1>4 DEF Spends
  <2> QED BY <1>4, <2>1 DEF Spends, Spending
<1>5. CASE Spends("events", MaxEvents)
  <2>1. spent.events + 1 \in 0 .. MaxEvents
    BY <1>1, <1>5 DEF Spends
  <2> QED BY <1>5, <2>1 DEF Spends, Spending
<1> QED BY <1>2, <1>3, <1>4, <1>5

LEMMA AsksFit ==
  ASSUME Rest, NEW p \in Players, NEW m \in Asking, Asks(p, m)
  PROVE  outbox' \in [Players -> Seq(Asking)]
<1>1. outbox[p] \in Seq(Asking)
  BY DEF Rest, LinksOK
<1>2. Append(outbox[p], m) \in Seq(Asking)
  BY <1>1
<1> QED BY <1>2 DEF Asks, Rest, LinksOK

LEMMA RequestFits ==
  ASSUME NEW op \in {"announce", "leave", "request", "quit", "kickall", "remove",
                     "makeleader", "add", "lock", "end", "yes", "no", "update"},
         NEW t \in Templates \cup {NoTask} \cup Ids, NEW q \in Players, NEW n \in 0 .. Goal,
         op = "request" => t \in Templates
  PROVE  Request(op, t, q, n) \in Asking
BY DEF Request, Requests, Asking

LEMMA PlayingKeeps ==
  ASSUME Rest, NEW p \in Players, Playing(p), ZonesOK', spent' \in Spending,
         outbox' \in [Players -> Seq(Asking)]
  PROVE  Rest'
<1>1. TasksOK' /\ WorldOK'
  BY DEF Playing, Rest, TasksOK, WorldOK
<1>2. LinksOK' /\ GhostsOK'
  BY DEF Playing, Rest, LinksOK, GhostsOK
<1> QED BY <1>1, <1>2 DEF Rest

LEMMA TmplOfCopy ==
  ASSUME Rest, NEW p \in Players, copy[p].task # NoTask
  PROVE  tmpl[copy[p].task] \in Templates \cup {NoTask} \cup Ids
<1>1. copy[p].task \in Ids
  BY DEF Rest, ZonesOK, Copies, Ids, NoTask
<1> QED BY <1>1 DEF Rest, TasksOK

LEMMA SavedFits ==
  ASSUME Rest, NEW p \in Players
  PROVE  Saved(p) \in OwnRows
<1>1. copy[p] \in Copies /\ row[p] \in OwnRows
  BY DEF Rest, ZonesOK
<1>2. [row[p] EXCEPT !.count = copy[p].count, !.full = copy[p].full] \in OwnRows
  BY <1>1 DEF Copies, OwnRows
<1> QED BY <1>1, <1>2 DEF Saved

LEMMA AskedFits ==
  ASSUME Rest, NEW p \in Players,
         \/ \E t \in Templates : RequestTask(p, t)
         \/ \E op \in {"quit", "kickall", "lock", "end"} : Commands(p, op, p)
         \/ \E op \in {"remove", "makeleader", "add"}, q \in Players : Commands(p, op, q)
         \/ \E i \in Ids, answer \in {"yes", "no"} : Answers(p, i, answer)
  PROVE  Rest'
<1>1. ASSUME NEW t \in Templates, RequestTask(p, t) PROVE Rest'
  <2>1. outbox' \in [Players -> Seq(Asking)]
    BY <1>1, RequestFits, AsksFit, Zeros DEF RequestTask
  <2>2. spent' \in Spending
    BY <1>1, SpendsFit DEF RequestTask, Rest, GhostsOK
  <2>3. ZonesOK' /\ Playing(p)
    BY <1>1 DEF RequestTask, Playing, Rest, ZonesOK
  <2> QED BY <2>1, <2>2, <2>3, PlayingKeeps
<1>2. ASSUME NEW op \in {"quit", "kickall", "lock", "end", "remove", "makeleader", "add"},
             NEW q \in Players, Commands(p, op, q)
      PROVE  Rest'
  <2>1. Request(op, tmpl[copy[p].task], q, 0) \in Asking
    BY <1>2, TmplOfCopy, RequestFits, Zeros DEF Commands
  <2>2. outbox' \in [Players -> Seq(Asking)]
    BY <1>2, <2>1, AsksFit DEF Commands
  <2>3. spent' \in Spending
    BY <1>2, SpendsFit DEF Commands, Rest, GhostsOK
  <2>4. ZonesOK' /\ Playing(p)
    BY <1>2 DEF Commands, Playing, Rest, ZonesOK
  <2> QED BY <2>2, <2>3, <2>4, PlayingKeeps
<1>3. ASSUME NEW i \in Ids, NEW answer \in {"yes", "no"}, Answers(p, i, answer) PROVE Rest'
  <2>1. outbox' \in [Players -> Seq(Asking)]
    BY <1>3, RequestFits, AsksFit, Zeros DEF Answers
  <2>2. dialogs' \in [Players -> SUBSET Ids]
    BY <1>3 DEF Answers, Rest, ZonesOK
  <2>3. ZonesOK' /\ Playing(p) /\ spent' \in Spending
    BY <1>3, <2>2 DEF Answers, Playing, Rest, ZonesOK, GhostsOK
  <2> QED BY <2>1, <2>3, PlayingKeeps
<1> QED BY <1>1, <1>2, <1>3

LEMMA KillsFit ==
  ASSUME Rest, NEW p \in Players, Kills(p)
  PROVE  Rest'
<1> DEFINE n == IF copy[p].count < Goal THEN copy[p].count + 1 ELSE Goal
<1>1. \A q \in Players : copy[q] \in Copies
  BY DEF Rest, ZonesOK
<1>2. n \in 0 .. Goal
  BY <1>1 DEF Copies
<1>3. /\ Playing(p) /\ Asks(p, Request("update", tmpl[copy[p].task], p, n))
      /\ copy' = [q \in Players |-> IF q \in present /\ copy[q].id = copy[p].id
                                    THEN [copy[q] EXCEPT !.count = n] ELSE copy[q]]
      /\ UNCHANGED <<row, dialogs>> /\ copy[p].task # NoTask /\ Spends("kills", MaxKills)
  BY DEF Kills
<1> HIDE DEF n
<1>4. outbox' \in [Players -> Seq(Asking)]
  <2>1. Request("update", tmpl[copy[p].task], p, n) \in Asking
    BY <1>2, <1>3, TmplOfCopy, RequestFits
  <2> QED BY <1>3, <2>1, AsksFit
<1>5. \A q \in Players : [copy[q] EXCEPT !.count = n] \in Copies
  BY <1>1, <1>2 DEF Copies
<1>6. copy' \in [Players -> Copies]
  BY <1>1, <1>3, <1>5
<1>7. ZonesOK' /\ spent' \in Spending
  BY <1>3, <1>6, SpendsFit DEF Playing, Rest, ZonesOK, GhostsOK
<1> QED BY <1>3, <1>4, <1>7, PlayingKeeps

LEMMA MovesFit ==
  ASSUME Rest, NEW p \in Players, Saves(p) \/ LeaveZone(p) \/ EnterZone(p)
  PROVE  Rest'
<1>1. copy[p] \in Copies /\ Saved(p) \in OwnRows /\ NoCopy \in Copies
  BY SavedFits, Zeros DEF Rest, ZonesOK, NoCopy, Copies
<1>2. CASE Saves(p)
  <2>1. [copy[p] EXCEPT !.updated = FALSE] \in Copies
    BY <1>1 DEF Copies
  <2>2. ZonesOK' /\ Playing(p)
    BY <1>1, <1>2, <2>1 DEF Saves, Playing, Rest, ZonesOK
  <2>3. spent' \in Spending /\ outbox' \in [Players -> Seq(Asking)]
    BY <1>2 DEF Saves, Rest, LinksOK, GhostsOK
  <2> QED BY <2>2, <2>3, PlayingKeeps
<1>3. CASE LeaveZone(p)
  <2>1. outbox' \in [Players -> Seq(Asking)]
    BY <1>3, RequestFits, AsksFit, Zeros DEF LeaveZone
  <2>2. <<>> \in Seq(Telling)
    OBVIOUS
  <2>3. LinksOK'
    BY <1>3, <2>1, <2>2 DEF LeaveZone, Rest, LinksOK
  <2>4. ZonesOK'
    BY <1>1, <1>3 DEF LeaveZone, Rest, ZonesOK
  <2>5. GhostsOK'
    BY <1>3, SpendsFit DEF LeaveZone, Rest, GhostsOK
  <2>6. TasksOK' /\ WorldOK'
    BY <1>3 DEF LeaveZone, Rest, TasksOK, WorldOK
  <2> QED BY <2>3, <2>4, <2>5, <2>6 DEF Rest
<1>4. CASE EnterZone(p)
  <2>1. outbox' \in [Players -> Seq(Asking)]
    BY <1>4, RequestFits, AsksFit, Zeros DEF EnterZone
  <2>2. Packet("load", NoTask, 0) \in Telling
    BY PacketFits, Zeros
  <2>3. <<Packet("load", NoTask, 0)>> \in Seq(Telling)
    BY <2>2
  <2>4. LinksOK'
    BY <1>4, <2>1, <2>3 DEF EnterZone, Rest, LinksOK
  <2>5. ZonesOK' /\ GhostsOK'
    BY <1>4 DEF EnterZone, Rest, ZonesOK, GhostsOK
  <2>6. TasksOK' /\ WorldOK'
    BY <1>4 DEF EnterZone, Rest, TasksOK, WorldOK
  <2> QED BY <2>4, <2>5, <2>6 DEF Rest
<1> QED BY <1>2, <1>3, <1>4

-----------------------------------------------------------------------------
(* Types and world on its own *)

LEMMA OwnStepsFit ==
  ASSUME Types,
         \/ DeleteRows \/ InsertRows \/ DropRows \/ UNCHANGED vars
         \/ \E i \in Ids : Process(i)
         \/ PurgeAllSharedTasks
         \/ \E x \in SUBSET Ids : LoadSharedTaskState(x)
  PROVE  Rest'
<1> Rest
  BY DEF Types
<1>1. CASE DeleteRows \/ InsertRows \/ DropRows \/ UNCHANGED vars
  <2>1. UNCHANGED <<tmpl, done, invited, known, inbox, outbox, present, dialogs, copy, row,
                    lapsed, crossed, paid, spent>>
    BY <1>1 DEF DeleteRows, InsertRows, DropRows, SaveStep, vars
  <2> QED BY <2>1 DEF Rest, TasksOK, WorldOK, LinksOK, ZonesOK, GhostsOK
<1>2. ASSUME NEW i \in Ids, Process(i) PROVE Rest'
  <2>1. /\ Sent
        /\ UNCHANGED <<tmpl, done, invited, known, present, copy, row, dialogs, outbox, paid, crossed>>
    BY <1>2, SentQuit DEF Process, Terminate
  <2>2. spent' \in Spending
    BY <1>2, SpendsFit DEF Process, Rest, GhostsOK
  <2>3. LinksOK' /\ lapsed' \subseteq Players
    BY <2>1, SentKeeps DEF Rest, LinksOK
  <2> QED BY <2>1, <2>2, <2>3 DEF Rest, TasksOK, WorldOK, ZonesOK, GhostsOK
<1>3. CASE PurgeAllSharedTasks
  <2>1. Packet("load", NoTask, 0) \in Telling
    BY PacketFits, Zeros
  <2>2. \A p \in Players :
          inbox[p] \in Seq(Telling) /\ Append(inbox[p], Packet("load", NoTask, 0)) \in Seq(Telling)
    BY <2>1 DEF Rest, LinksOK
  <2>3. inbox' \in [Players -> Seq(Telling)]
    BY <1>3, <2>2 DEF PurgeAllSharedTasks
  <2>4. spent' \in Spending
    BY <1>3, SpendsFit DEF PurgeAllSharedTasks, Rest, GhostsOK
  <2>5. UNCHANGED <<tmpl, done, invited, known, outbox, present, dialogs, copy, row, lapsed,
                    crossed, paid>>
    BY <1>3 DEF PurgeAllSharedTasks
  <2> QED BY <2>3, <2>4, <2>5 DEF Rest, TasksOK, WorldOK, LinksOK, ZonesOK, GhostsOK
<1>4. ASSUME NEW x \in SUBSET Ids, LoadSharedTaskState(x) PROVE Rest'
  <2>1. \A p \in Players : Request("announce", NoTask, p, 0) \in Asking
    BY RequestFits, Zeros
  <2>2. \A p \in Players : <<Request("announce", NoTask, p, 0)>> \in Seq(Asking)
    BY <2>1
  <2>3. <<>> \in Seq(Asking)
    OBVIOUS
  <2>4. outbox' \in [Players -> Seq(Asking)]
    BY <1>4, <2>2, <2>3 DEF LoadSharedTaskState
  <2>5. spent' \in Spending
    BY <1>4, SpendsFit DEF LoadSharedTaskState, Rest, GhostsOK
  <2>6. lapsed' \subseteq Players
    BY <1>4 DEF LoadSharedTaskState, Rest, ZonesOK, GhostsOK
  <2>7. /\ UNCHANGED <<tmpl, done, inbox, present, dialogs, copy, row, crossed, paid>>
        /\ invited' = {} /\ known' = {}
    BY <1>4 DEF LoadSharedTaskState
  <2> QED BY <2>4, <2>5, <2>6, <2>7 DEF Rest, TasksOK, WorldOK, LinksOK, ZonesOK, GhostsOK
<1> QED BY <1>1, <1>2, <1>3, <1>4

LEMMA StepsFit ==
  ASSUME Types, NEW p \in Players, Actions(p)
  PROVE  Rest'
<1>1. Rest
  BY DEF Types
<1>2. ASSUME NEW g \in SUBSET Players, AttemptSharedTaskCreation(p, g) PROVE Rest'
  BY <1>2, CreatedFits
<1>3. ASSUME NEW answer \in {"yes", "no"}, InviteAnswered(p, answer) PROVE Rest'
  BY <1>3, AnsweredFits
<1>4. ASSUME Loads(p) \/ SharedTaskAcceptNewTask(p) \/ Cancelled(p)
               \/ SharedTaskIncrementDoneCount(p) \/ InvitePlayer(p)
      PROVE  Rest'
  BY <1>1, <1>4, HandledFits
<1>5. ASSUME Saves(p) \/ LeaveZone(p) \/ EnterZone(p) PROVE Rest'
  BY <1>1, <1>5, MovesFit
<1>6. ASSUME Kills(p) PROVE Rest'
  BY <1>1, <1>6, KillsFit
<1>7. ASSUME \/ \E t \in Templates : RequestTask(p, t)
             \/ \E op \in {"quit", "kickall", "lock", "end"} : Commands(p, op, p)
             \/ \E op \in {"remove", "makeleader", "add"}, q \in Players : Commands(p, op, q)
             \/ \E i \in Ids, answer \in {"yes", "no"} : Answers(p, i, answer)
      PROVE  Rest'
  BY <1>1, <1>7, AskedFits
<1>8. ASSUME Announced(p) \/ LeavingZone(p) \/ InvitePlayerByPlayerName(p) PROVE Rest'
  BY <1>8, InvitedFits
<1>9. ASSUME SharedTaskMakeLeader(p) PROVE Rest'
  BY <1>9, LeadingFits
<1>10. ASSUME Removing(p) PROVE Rest'
  BY <1>10, RemovingFits
<1>11. ASSUME Locking(p) PROVE Rest'
  BY <1>11, LockingFits
<1> QED BY <1>2, <1>3, <1>4, <1>5, <1>6, <1>7, <1>8, <1>9, <1>10, <1>11
        DEF Actions, Removing, Locking

LEMMA TypesStart == Init => Types
<1> SUFFICES ASSUME Init PROVE Types
  OBVIOUS
<1>1. TasksOK /\ WorldOK
  BY Zeros DEF Init, TasksOK, WorldOK
<1>2. <<>> \in Seq(Telling) /\ <<>> \in Seq(Asking)
  OBVIOUS
<1>3. LinksOK
  BY <1>2 DEF Init, LinksOK
<1>4. NoCopy \in Copies /\ NoRow \in OwnRows
  BY NoRowFits, Zeros DEF NoCopy, Copies
<1>5. ZonesOK
  BY <1>4 DEF Init, ZonesOK
<1>6. GhostsOK
  BY DEF Init, GhostsOK, Spending
<1> QED BY <1>1, <1>3, <1>5, <1>6, StartsRight DEF Types, Rest

LEMMA TypesNext == Types /\ [Next]_vars => Types'
<1> SUFFICES ASSUME Types, [Next]_vars PROVE Types'
  OBVIOUS
<1>1. IInv'
  BY StaysRight DEF Types
<1>2. Rest'
  BY StepsFit, OwnStepsFit DEF Next
<1> QED BY <1>1, <1>2 DEF Types

\* Every variable has its type throughout: no count passes the goal, an answer
\* never names a task there is not, a request always names a content task.
THEOREM TypeCorrect == Spec => []TypeOK
BY TypesNext, TypesStart, TypesSuffice, PTL DEF Spec

-----------------------------------------------------------------------------
(***************************************************************************)
(* The copy in the zone.  A packet that makes the zone read the tables     *)
(* mends whatever came before it; so what counts is what follows the last  *)
(* such packet.                                                            *)
(***************************************************************************)
Resync(m) == m.op \in {"load", "accept"}
Catching(q) == \E n \in DOMAIN q : Resync(q[n])
Ends(m, i) == m.op = "quit" /\ m.id = i
Ending(q, i) == \E n \in DOMAIN q : Ends(q[n], i)
Overruled(q, i) ==
  \A n \in DOMAIN q : Ends(q[n], i) => \E k \in DOMAIN q : k > n /\ Resync(q[k])

\* t is the task of p in the rosters r, NoTask if there is none.
Same(t, r, p) == \A i \in Ids : t = i <=> r[i][p] # "none"
NoRole(p) == \A i \in Ids : members[i][p] = "none"

Mirror(p) ==
  /\ p \notin present => inbox[p] = <<>>
  /\ \A i \in Ids : Ending(inbox[p], i) => i <= made
  /\ \A i \in Ids : members[i][p] # "none" => Overruled(inbox[p], i)
  /\ p \in present /\ p \notin lapsed =>
       \/ Catching(inbox[p])
       \/ Same(copy[p].task, members, p)
       \/ NoRole(p) /\ Ending(inbox[p], copy[p].task)

MirrorInv == \A p \in Players : Mirror(p)

LEMMA AppendedEnds ==
  ASSUME NEW q \in Seq(Telling), NEW m \in Telling, NEW i
  PROVE  /\ Catching(q) => Catching(Append(q, m))
         /\ Resync(m) => Catching(Append(q, m))
         /\ Ending(q, i) => Ending(Append(q, m), i)
         /\ Ending(Append(q, m), i) => Ending(q, i) \/ Ends(m, i)
         /\ Ends(m, i) => Ending(Append(q, m), i)
         /\ Overruled(q, i) /\ ~Ends(m, i) => Overruled(Append(q, m), i)
         /\ Resync(m) => Overruled(Append(q, m), i)
<1> DEFINE r == Append(q, m)
           l == Len(q) + 1
<1>1. /\ DOMAIN q = 1 .. Len(q) /\ DOMAIN r = 1 .. l /\ Len(q) \in Nat
      /\ \A n \in 1 .. Len(q) : r[n] = q[n]
      /\ r[l] = m
  OBVIOUS
<1> HIDE DEF r
<1>2. /\ \A n \in DOMAIN r : n = l \/ (n \in DOMAIN q /\ r[n] = q[n])
      /\ \A n \in DOMAIN q : n \in DOMAIN r /\ r[n] = q[n] /\ l > n
      /\ l \in DOMAIN r
  BY <1>1
<1> HIDE DEF l
<1>3. (Catching(q) => Catching(r)) /\ (Resync(m) => Catching(r))
  BY <1>1, <1>2 DEF Catching
<1>4. /\ Ending(q, i) => Ending(r, i)
      /\ Ending(r, i) => Ending(q, i) \/ Ends(m, i)
      /\ Ends(m, i) => Ending(r, i)
  BY <1>1, <1>2 DEF Ending
<1>5. ~Ends(m, i) /\ Overruled(q, i) => Overruled(r, i)
  BY <1>1, <1>2 DEF Overruled
<1>6. ASSUME Resync(m) PROVE Overruled(r, i)
  <2>1. ~Ends(m, i)
    BY <1>6 DEF Resync, Ends
  <2> QED BY <1>1, <1>2, <1>6, <2>1 DEF Overruled
<1> QED BY <1>3, <1>4, <1>5, <1>6 DEF r

LEMMA TailEnds ==
  ASSUME NEW q \in Seq(Telling), q # <<>>, NEW i
  PROVE  /\ Catching(q) => Catching(Tail(q)) \/ Resync(Head(q))
         /\ Ending(Tail(q), i) => Ending(q, i)
         /\ Ending(q, i) => Ending(Tail(q), i) \/ Ends(Head(q), i)
         /\ Overruled(q, i) => Overruled(Tail(q), i)
         /\ Overruled(q, i) /\ Ends(Head(q), i) => Catching(Tail(q))
<1> DEFINE r == Tail(q)
<1>1. /\ DOMAIN q = 1 .. Len(q) /\ DOMAIN r = 1 .. Len(q) - 1
      /\ Len(q) \in Nat /\ Len(q) >= 1 /\ Head(q) = q[1]
      /\ \A n \in 1 .. Len(q) - 1 : r[n] = q[n + 1]
  OBVIOUS
<1> HIDE DEF r
<1>2. \A n \in DOMAIN r : n + 1 \in DOMAIN q /\ r[n] = q[n + 1] /\ n \in Nat
  BY <1>1
<1>3. \A k \in DOMAIN q : k # 1 => k - 1 \in DOMAIN r /\ r[k - 1] = q[k] /\ k \in Nat
  <2> SUFFICES ASSUME NEW k \in DOMAIN q, k # 1
               PROVE  k - 1 \in DOMAIN r /\ r[k - 1] = q[k] /\ k \in Nat
    OBVIOUS
  <2>1. k \in 1 .. Len(q) /\ Len(q) \in Nat
    BY <1>1
  <2>2. k \in Nat /\ (k - 1) + 1 = k /\ k - 1 \in 1 .. Len(q) - 1
    BY <2>1
  <2> QED BY <1>1, <1>2, <2>2
<1>4. 1 \in DOMAIN q
  BY <1>1
<1>5. Catching(q) => Catching(r) \/ Resync(q[1])
  BY <1>3 DEF Catching
<1>6. (Ending(r, i) => Ending(q, i)) /\ (Ending(q, i) => Ending(r, i) \/ Ends(q[1], i))
  BY <1>2, <1>3 DEF Ending
<1>7. ASSUME Overruled(q, i), NEW n \in DOMAIN r, Ends(r[n], i)
      PROVE  \E k \in DOMAIN r : k > n /\ Resync(r[k])
  <2>1. n + 1 \in DOMAIN q /\ Ends(q[n + 1], i) /\ n \in Nat
    BY <1>2, <1>7
  <2>2. PICK k \in DOMAIN q : k > n + 1 /\ Resync(q[k])
    BY <1>7, <2>1 DEF Overruled
  <2>3. k # 1 /\ k \in Nat
    BY <1>1, <2>1, <2>2
  <2>4. k - 1 \in DOMAIN r /\ r[k - 1] = q[k]
    BY <1>3, <2>3
  <2>5. k - 1 > n
    BY <2>1, <2>2, <2>3
  <2> QED BY <2>2, <2>4, <2>5
<1>8. ASSUME Overruled(q, i), Ends(q[1], i) PROVE Catching(r)
  <2>1. PICK k \in DOMAIN q : k > 1 /\ Resync(q[k])
    BY <1>4, <1>8 DEF Overruled
  <2>2. k - 1 \in DOMAIN r /\ r[k - 1] = q[k]
    BY <1>3, <2>1
  <2> QED BY <2>1, <2>2 DEF Catching
<1>9. Overruled(q, i) => Overruled(r, i)
  BY <1>7 DEF Overruled
<1> QED BY <1>1, <1>5, <1>6, <1>8, <1>9 DEF r

LEMMA NothingEnds ==
  /\ \A i : ~Ending(<<>>, i) /\ Overruled(<<>>, i)
  /\ ~Catching(<<>>)
BY DEF Ending, Overruled, Catching

\* The task of a player who is in one at most.
LEMMA TaskFound ==
  ASSUME NEW r, NEW p, \A i, j \in Ids : r[i][p] # "none" /\ r[j][p] # "none" => i = j
  PROVE  /\ Same(TaskOf(r, p), r, p)
         /\ TaskOf(r, p) \in 0 .. MaxTasks
         /\ \A t \in 0 .. MaxTasks : Same(t, r, p) => t = TaskOf(r, p)
<1>0. Ids \subseteq 0 .. MaxTasks /\ NoTask \notin Ids /\ NoTask \in 0 .. MaxTasks
      /\ 0 .. MaxTasks = Ids \cup {NoTask}
  BY DEF Ids, NoTask
<1>1. CASE \E i \in Ids : r[i][p] # "none"
  <2>1. PICK j \in Ids : r[j][p] # "none" /\ TaskOf(r, p) = j
    BY <1>1 DEF TaskOf
  <2> QED BY <1>0, <2>1 DEF Same
<1>2. CASE ~\E i \in Ids : r[i][p] # "none"
  <2>1. TaskOf(r, p) = NoTask
    BY <1>2 DEF TaskOf
  <2> QED BY <1>0, <1>2, <2>1 DEF Same
<1> QED BY <1>1, <1>2

LEMMA OneTask ==
  ASSUME IInv, NEW p \in Players, NEW i \in Ids, NEW j \in Ids,
         members[i][p] # "none", members[j][p] # "none"
  PROVE  i = j
<1>1. i \in live /\ j \in live
  BY DEF IInv, Kept, Nobody
<1>2. p \in In(members[i]) /\ p \in In(members[j])
  BY DEF In
<1> QED BY <1>1, <1>2 DEF IInv, Apart

\* What a step of world may do to a player: it stays where it is, it is put out
\* of its task, or it is taken into one, and is told so unless it is away or
\* world does not know it.
Steady(p) ==
  /\ p \in present' <=> p \in present
  /\ copy'[p].task = copy[p].task
  /\ made <= made'
  /\ p \in lapsed => p \in lapsed'
SameRole(p) == \A i \in Ids : members'[i][p] # "none" <=> members[i][p] # "none"
Undisturbed(p) ==
  \/ inbox'[p] = inbox[p]
  \/ p \in present /\ \E m \in Telling : m.op # "quit" /\ inbox'[p] = Append(inbox[p], m)
Heard(p, m) ==
  IF p \in present /\ p \in known THEN inbox'[p] = Append(inbox[p], m)
  ELSE inbox'[p] = inbox[p] /\ (p \in present => p \in lapsed' \/ Catching(inbox[p]))

Remains(p) == Steady(p) /\ SameRole(p) /\ Undisturbed(p)
PutOut(p) ==
  /\ Steady(p) /\ NoRole(p)'
  /\ \E i \in Ids : i <= made /\ members[i][p] # "none" /\ Heard(p, Packet("quit", i, 0))
TakenIn(p) ==
  /\ Steady(p) /\ NoRole(p)
  /\ \E i \in Ids : /\ \A j \in Ids : members'[j][p] # "none" => j = i
                    /\ i > made \/ p \in known
                    /\ Heard(p, Packet("accept", i, 0))
Swept(p) ==
  /\ Steady(p)
  /\ \A i \in Ids : members'[i][p] # "none" => members[i][p] # "none"
  /\ \/ inbox'[p] = inbox[p] /\ (SameRole(p) \/ p \notin present \/ p \in lapsed')
     \/ p \in present /\ inbox'[p] = Append(inbox[p], Packet("load", NoTask, 0))

LEMMA SomePackets ==
  /\ \A i \in Ids : /\ Packet("quit", i, 0) \in Telling /\ Packet("accept", i, 0) \in Telling
                    /\ ~Resync(Packet("quit", i, 0)) /\ Resync(Packet("accept", i, 0))
                    /\ \A j : Ends(Packet("quit", i, 0), j) <=> j = i
                    /\ \A j : ~Ends(Packet("accept", i, 0), j)
  /\ Packet("load", NoTask, 0) \in Telling /\ Resync(Packet("load", NoTask, 0))
  /\ \A j : ~Ends(Packet("load", NoTask, 0), j)
<1>1. \A i \in Ids : Packet("quit", i, 0) \in Telling /\ Packet("accept", i, 0) \in Telling
  BY PacketFits, Zeros
<1>2. Packet("load", NoTask, 0) \in Telling
  BY PacketFits, Zeros
<1> QED BY <1>1, <1>2 DEF Packet, Resync, Ends

LEMMA Stayed ==
  ASSUME NEW p \in Players, inbox[p] \in Seq(Telling), Mirror(p), Remains(p), made \in Nat, made' \in Nat
  PROVE  Mirror(p)'
<1>1. Steady(p) /\ SameRole(p) /\ Undisturbed(p)
  BY DEF Remains
<1>s. /\ Same(copy[p].task, members, p) => Same(copy[p].task, members, p)'
      /\ NoRole(p) => NoRole(p)'
      /\ \A i \in Ids : members'[i][p] # "none" => members[i][p] # "none"
      /\ \A i \in Ids : i <= made => i <= made'
      /\ copy'[p].task = copy[p].task
      /\ p \in present' <=> p \in present
      /\ p \in lapsed => p \in lapsed'
  BY <1>1 DEF Steady, SameRole, NoRole, Same, Ids
<1>2. CASE inbox'[p] = inbox[p]
  BY <1>s, <1>2 DEF Mirror
<1>3. ASSUME p \in present, NEW m \in Telling, m.op # "quit", inbox'[p] = Append(inbox[p], m)
      PROVE  Mirror(p)'
  <2>1. \A i : ~Ends(m, i)
    BY <1>3 DEF Ends
  <2>2. \A i : /\ Catching(inbox[p]) => Catching(inbox'[p])
               /\ Ending(inbox[p], i) <=> Ending(inbox'[p], i)
               /\ Overruled(inbox[p], i) => Overruled(inbox'[p], i)
    BY <1>3, <2>1, AppendedEnds
  <2>3. p \notin present' => inbox'[p] = <<>>
    BY <1>s, <1>3
  <2> QED BY <1>s, <2>2, <2>3 DEF Mirror
<1> QED BY <1>1, <1>2, <1>3 DEF Undisturbed

LEMMA WasPutOut ==
  ASSUME NEW p \in Players, inbox[p] \in Seq(Telling), Mirror(p), PutOut(p), made \in Nat, made' \in Nat
  PROVE  Mirror(p)'
<1>1. Steady(p) /\ NoRole(p)'
  BY DEF PutOut
<1>2. PICK i \in Ids : i <= made /\ members[i][p] # "none" /\ Heard(p, Packet("quit", i, 0))
  BY DEF PutOut
<1>3. PICK m \in Telling : m = Packet("quit", i, 0) /\ \A j : Ends(m, j) <=> j = i
  BY SomePackets
<1>4. i <= made'
  BY <1>1, <1>2 DEF Steady, Ids
<1>5. CASE p \in present /\ p \in known
  <2>1. inbox'[p] = Append(inbox[p], m)
    BY <1>2, <1>3, <1>5 DEF Heard
  <2>2. \A j : /\ Catching(inbox[p]) => Catching(inbox'[p])
               /\ Ending(inbox'[p], j) => Ending(inbox[p], j) \/ j = i
               /\ Ending(inbox[p], j) => Ending(inbox'[p], j)
    BY <1>3, <2>1, AppendedEnds
  <2>3. Ending(inbox'[p], i)
    BY <1>3, <2>1, AppendedEnds
  <2>4. \A j \in Ids : Ending(inbox'[p], j) => j <= made'
    BY <1>1, <1>4, <2>2 DEF Mirror, Steady, Ids
  <2>5. Same(copy[p].task, members, p) => copy[p].task = i
    BY <1>2 DEF Same
  <2> QED BY <1>1, <1>2, <1>5, <2>2, <2>3, <2>4, <2>5 DEF Mirror, Steady, NoRole
<1>6. CASE ~(p \in present /\ p \in known)
  <2>1. inbox'[p] = inbox[p] /\ (p \in present => p \in lapsed' \/ Catching(inbox[p]))
    BY <1>2, <1>6 DEF Heard
  <2>2. \A j \in Ids : Ending(inbox'[p], j) => j <= made'
    BY <1>1, <2>1 DEF Mirror, Steady, Ids
  <2> QED BY <1>1, <2>1, <2>2 DEF Mirror, Steady, NoRole
<1> QED BY <1>5, <1>6

LEMMA WasTakenIn ==
  ASSUME NEW p \in Players, inbox[p] \in Seq(Telling), Mirror(p), TakenIn(p), made \in Nat, made' \in Nat
  PROVE  Mirror(p)'
<1>1. Steady(p) /\ NoRole(p)
  BY DEF TakenIn
<1>2. PICK i \in Ids : /\ \A j \in Ids : members'[j][p] # "none" => j = i
                       /\ i > made \/ p \in known
                       /\ Heard(p, Packet("accept", i, 0))
  BY DEF TakenIn
<1>3. PICK m \in Telling : m = Packet("accept", i, 0) /\ Resync(m) /\ \A j : ~Ends(m, j)
  BY SomePackets
<1>4. CASE p \in present /\ p \in known
  <2>1. inbox'[p] = Append(inbox[p], m)
    BY <1>2, <1>3, <1>4 DEF Heard
  <2>2. \A j : /\ Catching(inbox'[p])
               /\ Ending(inbox'[p], j) => Ending(inbox[p], j)
               /\ Overruled(inbox'[p], j)
    BY <1>3, <2>1, AppendedEnds
  <2>3. \A j \in Ids : Ending(inbox'[p], j) => j <= made'
    BY <1>1, <2>2 DEF Mirror, Steady, Ids
  <2>4. p \in present'
    BY <1>1, <1>4 DEF Steady
  <2> QED BY <2>2, <2>3, <2>4 DEF Mirror
<1>5. CASE ~(p \in present /\ p \in known)
  <2>1. inbox'[p] = inbox[p] /\ (p \in present => p \in lapsed' \/ Catching(inbox[p]))
    BY <1>2, <1>5 DEF Heard
  <2>2. \A j \in Ids : Ending(inbox'[p], j) => j <= made'
    BY <1>1, <2>1 DEF Mirror, Steady, Ids
  <2>3. Overruled(inbox[p], i)
    <3>1. CASE i > made
      <4>1. ~Ending(inbox[p], i)
        BY <3>1 DEF Mirror, Ids
      <4> QED BY <4>1 DEF Ending, Overruled
    <3>2. CASE p \notin present
      BY <3>2, NothingEnds DEF Mirror
    <3> QED BY <1>2, <1>5, <3>1, <3>2
  <2> QED BY <1>1, <1>2, <2>1, <2>2, <2>3 DEF Mirror, Steady
<1> QED BY <1>4, <1>5

LEMMA WasSwept ==
  ASSUME NEW p \in Players, inbox[p] \in Seq(Telling), Mirror(p), Swept(p), made \in Nat, made' \in Nat
  PROVE  Mirror(p)'
<1>1. Steady(p) /\ \A i \in Ids : members'[i][p] # "none" => members[i][p] # "none"
  BY DEF Swept
<1>2. CASE inbox'[p] = inbox[p] /\ SameRole(p)
  <2>1. Remains(p)
    BY <1>1, <1>2 DEF Remains, Undisturbed
  <2> QED BY <2>1, Stayed
<1>3. CASE inbox'[p] = inbox[p] /\ (p \notin present \/ p \in lapsed')
  <2>1. \A i \in Ids : Ending(inbox'[p], i) => i <= made'
    BY <1>1, <1>3 DEF Mirror, Steady, Ids
  <2>2. \A i \in Ids : members'[i][p] # "none" => Overruled(inbox'[p], i)
    BY <1>1, <1>3 DEF Mirror
  <2>3. /\ p \notin present' => inbox'[p] = <<>>
        /\ ~(p \in present' /\ p \notin lapsed')
    BY <1>1, <1>3 DEF Mirror, Steady
  <2> QED BY <2>1, <2>2, <2>3 DEF Mirror
<1>4. CASE p \in present /\ inbox'[p] = Append(inbox[p], Packet("load", NoTask, 0))
  <2>1. PICK m \in Telling : m = Packet("load", NoTask, 0) /\ Resync(m) /\ \A j : ~Ends(m, j)
    BY SomePackets
  <2>2. \A j : /\ Catching(inbox'[p])
               /\ Ending(inbox'[p], j) => Ending(inbox[p], j)
               /\ Overruled(inbox'[p], j)
    BY <1>4, <2>1, AppendedEnds
  <2>3. \A j \in Ids : Ending(inbox'[p], j) => j <= made'
    BY <1>1, <2>2 DEF Mirror, Steady, Ids
  <2>4. p \in present'
    BY <1>1, <1>4 DEF Steady
  <2> QED BY <2>2, <2>3, <2>4 DEF Mirror
<1> QED BY <1>2, <1>3, <1>4 DEF Swept

Fate(p) == Remains(p) \/ PutOut(p) \/ TakenIn(p) \/ Swept(p)

LEMMA FateKeeps ==
  ASSUME Types, Types', NEW p \in Players, Mirror(p), Fate(p)
  PROVE  Mirror(p)'
<1>1. inbox[p] \in Seq(Telling) /\ made \in Nat /\ made' \in Nat
  BY DEF Types, Rest, LinksOK, IInv, Shape
<1> QED BY <1>1, Stayed, WasPutOut, WasTakenIn, WasSwept DEF Fate

LEMMA TellHeard ==
  ASSUME NEW s, NEW m, Tell(s, m), NEW p \in Players, inbox \in [Players -> Seq(Telling)]
  PROVE  /\ p \in s => Heard(p, m)
         /\ p \notin s => inbox'[p] = inbox[p]
         /\ p \in lapsed => p \in lapsed'
<1>1. Loading(p) => Catching(inbox[p])
  BY DEF Loading, Catching, Resync
<1> QED BY <1>1 DEF Tell, Heard

LEMMA ToldQuietly ==
  ASSUME NEW s, NEW m \in Telling, m.op # "quit", Tell(s, m), NEW p \in Players,
         inbox \in [Players -> Seq(Telling)]
  PROVE  Undisturbed(p) /\ (p \in lapsed => p \in lapsed')
BY TellHeard DEF Heard, Undisturbed

\* World does nothing to the rosters but tells somebody something else.
LEMMA AllRemain ==
  ASSUME Types, UNCHANGED <<made, members, present, copy>>,
         \/ UNCHANGED <<inbox, lapsed>>
         \/ \E s : \E m \in Telling : m.op # "quit" /\ Tell(s, m)
  PROVE  \A p \in Players : Fate(p)
<1> SUFFICES ASSUME NEW p \in Players PROVE Remains(p)
  BY DEF Fate
<1>1. inbox \in [Players -> Seq(Telling)] /\ made \in Nat
  BY DEF Types, Rest, LinksOK, IInv, Shape
<1>2. Undisturbed(p) /\ (p \in lapsed => p \in lapsed')
  <2>1. CASE UNCHANGED <<inbox, lapsed>>
    BY <2>1 DEF Undisturbed
  <2>2. ASSUME NEW s, NEW m \in Telling, m.op # "quit", Tell(s, m)
        PROVE  Undisturbed(p) /\ (p \in lapsed => p \in lapsed')
    BY <1>1, <2>2, ToldQuietly
  <2> QED BY <2>1, <2>2
<1> QED BY <1>1, <1>2 DEF Remains, Steady, SameRole

LEMMA FateOfMember ==
  ASSUME Types, NEW i \in live, NEW p \in MembersOf(i), RemoveMember(i, p),
         UNCHANGED <<present, copy>>
  PROVE  \A q \in Players : Fate(q)
<1> SUFFICES ASSUME NEW q \in Players PROVE Fate(q)
  OBVIOUS
<1>t. /\ IInv /\ members \in [Ids -> Roster] /\ made \in 0 .. MaxTasks /\ live \subseteq 1 .. made
      /\ inbox \in [Players -> Seq(Telling)]
  BY DEF Types, Rest, LinksOK, IInv, Shape
<1>i. i \in Ids /\ i <= made /\ made \in Nat
  BY <1>t DEF Ids
<1>p. members[i] \in Roster /\ p \in Players /\ members[i][p] # "none"
  BY <1>t, <1>i DEF MembersOf
<1>1. /\ IInv /\ i \in Ids /\ i <= made /\ p \in Players /\ members \in [Ids -> Roster]
      /\ inbox \in [Players -> Seq(Telling)] /\ made \in Nat /\ members[i] \in Roster
      /\ members[i][p] # "none"
  BY <1>t, <1>i, <1>p
<1>2. PICK r \in Roster : members' = [members EXCEPT ![i] = r] /\ In(r) = In(members[i]) \ {p}
  <2> DEFINE rest == [members[i] EXCEPT ![p] = "none"]
             left == MembersOf(i) \ {p}
  <2>1. rest \in Roster /\ In(rest) = In(members[i]) \ {p} /\ left = In(members[i]) \ {p}
    BY <1>1, Without, MembersAreIn
  <2>2. CASE IsLeader(i, p) /\ left # {}
    <3>1. PICK o \in left : members' = [members EXCEPT ![i] = MakeLeader(rest, o)]
      BY <2>2 DEF RemoveMember
    <3> HIDE DEF rest
    <3>2. MakeLeader(rest, o) \in Roster /\ In(MakeLeader(rest, o)) = In(rest)
      BY <2>1, LeaderMade
    <3> QED BY <2>1, <3>1, <3>2
  <2>3. CASE ~(IsLeader(i, p) /\ left # {})
    <3>1. members' = [members EXCEPT ![i] = rest]
      BY <2>3 DEF RemoveMember
    <3> HIDE DEF rest
    <3> QED BY <2>1, <3>1
  <2> QED BY <2>2, <2>3
<1>3. Tell({p}, Packet("quit", i, 0)) /\ made' = made
  BY DEF RemoveMember
<1>4. /\ q = p => Heard(q, Packet("quit", i, 0))
      /\ q # p => inbox'[q] = inbox[q]
      /\ q \in lapsed => q \in lapsed'
  BY <1>1, <1>3, TellHeard
<1>5. Steady(q)
  BY <1>1, <1>3, <1>4 DEF Steady
<1>6. \A j \in Ids : members'[j] = IF j = i THEN r ELSE members[j]
  BY <1>1, <1>2
<1>7. CASE q = p
  <2>1. r[p] = "none"
    BY <1>1, <1>2 DEF In
  <2>2. \A j \in Ids : j # i => members[j][p] = "none"
    BY <1>1, OneTask
  <2>3. NoRole(p)'
    BY <1>6, <2>1, <2>2 DEF NoRole
  <2> QED BY <1>1, <1>4, <1>5, <1>7, <2>3 DEF PutOut, Fate
<1>8. CASE q # p
  <2>1. r[q] # "none" <=> members[i][q] # "none"
    BY <1>2, <1>8 DEF In
  <2>2. SameRole(q)
    BY <1>6, <2>1 DEF SameRole
  <2> QED BY <1>4, <1>5, <1>8, <2>2 DEF Remains, Undisturbed, Fate
<1> QED BY <1>7, <1>8

LEMMA FateOfMembers ==
  ASSUME Types, NEW i \in live, Terminate(i), UNCHANGED <<present, copy>>
  PROVE  \A q \in Players : Fate(q)
<1> SUFFICES ASSUME NEW q \in Players PROVE Fate(q)
  OBVIOUS
<1>1. /\ IInv /\ i \in Ids /\ i <= made /\ members \in [Ids -> Roster]
      /\ inbox \in [Players -> Seq(Telling)] /\ made \in Nat
  BY DEF Types, Rest, LinksOK, IInv, Shape, Ids
<1>2. /\ members' = [members EXCEPT ![i] = Nobody] /\ made' = made
      /\ Tell(MembersOf(i), Packet("quit", i, 0))
  BY DEF Terminate
<1>3. /\ q \in MembersOf(i) => Heard(q, Packet("quit", i, 0))
      /\ q \notin MembersOf(i) => inbox'[q] = inbox[q]
      /\ q \in lapsed => q \in lapsed'
  BY <1>1, <1>2, TellHeard
<1>4. Steady(q)
  BY <1>1, <1>2, <1>3 DEF Steady
<1>5. \A j \in Ids : members'[j] = IF j = i THEN Nobody ELSE members[j]
  BY <1>1, <1>2
<1>6. Nobody[q] = "none"
  BY DEF Nobody
<1>7. CASE q \in MembersOf(i)
  <2>1. members[i][q] # "none"
    BY <1>7 DEF MembersOf
  <2>2. \A j \in Ids : j # i => members[j][q] = "none"
    BY <1>1, <2>1, OneTask
  <2>3. NoRole(q)'
    BY <1>5, <1>6, <2>2 DEF NoRole
  <2> QED BY <1>1, <1>3, <1>4, <1>7, <2>1, <2>3 DEF PutOut, Fate
<1>8. CASE q \notin MembersOf(i)
  <2>1. members[i][q] = "none"
    BY <1>8 DEF MembersOf
  <2>2. SameRole(q)
    BY <1>5, <1>6, <2>1 DEF SameRole
  <2> QED BY <1>3, <1>4, <1>8, <2>2 DEF Remains, Undisturbed, Fate
<1> QED BY <1>7, <1>8

LEMMA FateOfParty ==
  ASSUME Types, NEW p \in Players, NEW g \in SUBSET Players, AttemptSharedTaskCreation(p, g)
  PROVE  \A q \in Players : Fate(q)
<1> DEFINE party == [q \in Players |->
             IF q = p THEN "leader" ELSE IF q \in g THEN "member" ELSE "none"]
           n == made + 1
<1>1. /\ IInv /\ members \in [Ids -> Roster] /\ made \in 0 .. MaxTasks /\ live \subseteq 1 .. made
      /\ inbox \in [Players -> Seq(Telling)]
  BY DEF Types, Rest, LinksOK, IInv, Shape
<1>2. p \in g /\ UNCHANGED <<present, copy>>
  BY DEF AttemptSharedTaskCreation, Receives
<1>3. CASE ~(CanRequestSharedTask(p, g) /\ made < MaxTasks)
  <2>1. UNCHANGED <<made, members, inbox, lapsed>>
    BY <1>3 DEF AttemptSharedTaskCreation, TellNobody
  <2> QED BY <1>2, <2>1, AllRemain
<1>4. CASE CanRequestSharedTask(p, g) /\ made < MaxTasks
  <2> SUFFICES ASSUME NEW q \in Players PROVE Fate(q)
    OBVIOUS
  <2>1. /\ made' = n /\ members' = [members EXCEPT ![n] = party]
        /\ Tell(g, Packet("accept", n, 0))
    BY <1>4 DEF AttemptSharedTaskCreation
  <2>2. n \in Ids /\ n > made /\ n \notin live
    BY <1>1, <1>4 DEF Ids
  <2>3. /\ q \in g => Heard(q, Packet("accept", n, 0))
        /\ q \notin g => inbox'[q] = inbox[q]
        /\ q \in lapsed => q \in lapsed'
    BY <1>1, <2>1, TellHeard
  <2>4. party[q] # "none" <=> q \in g
    BY <1>2
  <2>5. \A j \in Ids : j \notin live => members[j][q] = "none"
    BY <1>1 DEF IInv, Kept, Nobody
  <2>6. q \in g => NoRole(q)
    BY <1>4, <2>5 DEF CanRequestSharedTask, FindCharactersInSharedTasks, MembersOf, NoRole
  <2> HIDE DEF party, n
  <2>7. \A j \in Ids : members'[j] = IF j = n THEN party ELSE members[j]
    BY <1>1, <2>1
  <2>8. Steady(q)
    BY <1>1, <1>2, <2>1, <2>3 DEF Steady, n
  <2>9. CASE q \in g
    <3>1. \A j \in Ids : members'[j][q] # "none" => j = n
      BY <2>6, <2>7, <2>9 DEF NoRole
    <3> QED BY <2>2, <2>3, <2>6, <2>8, <2>9, <3>1 DEF TakenIn, Fate
  <2>10. CASE q \notin g
    <3>1. SameRole(q)
      BY <2>2, <2>4, <2>5, <2>7, <2>10 DEF SameRole
    <3> QED BY <2>3, <2>8, <2>10, <3>1 DEF Remains, Undisturbed, Fate
  <2> QED BY <2>9, <2>10
<1> QED BY <1>3, <1>4

LEMMA FateOfNewcomer ==
  ASSUME Types, saving = Idle, NEW i \in live, NEW p \in Players, NEW inv,
         CanAddPlayer(i, p, inv), AddPlayer(i, p), UNCHANGED <<made, present, copy>>
  PROVE  \A q \in Players : Fate(q)
<1> SUFFICES ASSUME NEW q \in Players PROVE Fate(q)
  OBVIOUS
<1>t. /\ IInv /\ members \in [Ids -> Roster] /\ made \in 0 .. MaxTasks /\ live \subseteq 1 .. made
      /\ inbox \in [Players -> Seq(Telling)]
  BY DEF Types, Rest, LinksOK, IInv, Shape
<1>i. i \in Ids /\ made \in Nat
  BY <1>t DEF Ids
<1>1. /\ IInv /\ i \in Ids /\ members \in [Ids -> Roster] /\ members[i] \in Roster
      /\ inbox \in [Players -> Seq(Telling)] /\ made \in Nat
  BY <1>t, <1>i
<1>2. p \in known /\ \A j \in Ids : members[j][p] = "none"
  BY <1>1 DEF CanAddPlayer, IInv, Kept
<1>3. members' = [members EXCEPT ![i][p] = "member"] /\ Tell({p}, Packet("accept", i, 0))
  BY DEF AddPlayer
<1>4. /\ q = p => Heard(q, Packet("accept", i, 0))
      /\ q # p => inbox'[q] = inbox[q]
      /\ q \in lapsed => q \in lapsed'
  BY <1>1, <1>3, TellHeard
<1>5. /\ \A j \in Ids \ {i} : members'[j] = members[j]
      /\ q # p => members'[i][q] = members[i][q]
  BY <1>1, <1>3 DEF Roster
<1>6. Steady(q)
  BY <1>1, <1>4 DEF Steady
<1>7. CASE q = p
  <2>1. NoRole(q) /\ \A j \in Ids : members'[j][q] # "none" => j = i
    BY <1>2, <1>5, <1>7 DEF NoRole
  <2> QED BY <1>1, <1>2, <1>4, <1>6, <1>7, <2>1 DEF TakenIn, Fate
<1>8. CASE q # p
  <2>1. SameRole(q)
    BY <1>5, <1>8 DEF SameRole
  <2> QED BY <1>4, <1>6, <1>8, <2>1 DEF Remains, Undisturbed, Fate
<1> QED BY <1>7, <1>8

LEMMA FateOfLed ==
  ASSUME Types, NEW p \in Players, SharedTaskMakeLeader(p)
  PROVE  \A q \in Players : Fate(q)
<1>1. /\ IInv /\ members \in [Ids -> Roster] /\ live \subseteq Ids
      /\ UNCHANGED <<made, present, copy, inbox, lapsed>> /\ made \in Nat
  <2>1. IInv /\ members \in [Ids -> Roster] /\ live \subseteq Ids /\ made \in Nat
    BY LiveIds DEF Types, IInv, Shape
  <2> QED BY <2>1 DEF SharedTaskMakeLeader, Receives, Ignored, TellNobody
<1>2. \A q \in Players : SameRole(q)
  <2>1. CASE UNCHANGED members
    BY <2>1 DEF SameRole
  <2>2. ASSUME NEW i \in live, NEW o, o \in MembersOf(i), members' = [members EXCEPT ![i] = MakeLeader(@, o)]
        PROVE  \A q \in Players : SameRole(q)
    <3>1. i \in Ids /\ members[i] \in Roster /\ o \in In(members[i])
      BY <1>1, <2>2, MembersAreIn
    <3>2. PICK r : r = MakeLeader(members[i], o) /\ In(r) = In(members[i])
      BY <3>1, LeaderMade
    <3>3. \A j \in Ids : members'[j] = IF j = i THEN r ELSE members[j]
      BY <1>1, <2>2, <3>2
    <3> QED BY <3>2, <3>3 DEF SameRole, In
  <2> QED BY <2>1, <2>2 DEF SharedTaskMakeLeader, Ignored, Led, Asked, Found
<1> QED BY <1>1, <1>2 DEF Fate, Remains, Steady, Undisturbed

LEMMA RemovingIs ==
  ASSUME NEW p \in Players, Removing(p)
  PROVE  /\ UNCHANGED <<present, copy>>
         /\ \/ Ignored
            \/ \E i \in live : Terminate(i)
            \/ \E i \in live : \E q \in MembersOf(i) : RemoveMember(i, q)
<1>1. Led(p) \subseteq Asked(p) /\ Asked(p) \subseteq live /\ \A i \in Asked(p) : p \in MembersOf(i)
  BY DEF Led, Asked, Found
<1>2. CASE SharedTaskQuit(p)
  BY <1>1, <1>2 DEF SharedTaskQuit, Receives
<1>3. CASE SharedTaskKickPlayers(p)
  BY <1>1, <1>3 DEF SharedTaskKickPlayers, Receives
<1>4. CASE SharedTaskRemovePlayer(p)
  BY <1>1, <1>4 DEF SharedTaskRemovePlayer, Receives
<1>5. CASE SharedTaskEnd(p)
  BY <1>1, <1>5 DEF SharedTaskEnd, Receives
<1> QED BY <1>2, <1>3, <1>4, <1>5 DEF Removing

LEMMA FateOfAnswered ==
  ASSUME Types, NEW p \in Players, NEW answer, InviteAnswered(p, answer)
  PROVE  \A q \in Players : Fate(q)
<1> DEFINE i == Head(outbox[p]).task
           rest == invited \ {<<i, p>>}
<1>1. saving = Idle /\ UNCHANGED <<made, present, copy>>
  BY DEF InviteAnswered, Receives, Ignored
<1>2. \/ TellNobody /\ UNCHANGED members
      \/ i \in live /\ CanAddPlayer(i, p, rest) /\ AddPlayer(i, p)
  BY DEF InviteAnswered, Ignored
<1> HIDE DEF i, rest
<1>3. CASE TellNobody /\ UNCHANGED members
  BY <1>1, <1>3, AllRemain DEF TellNobody
<1>4. CASE i \in live /\ CanAddPlayer(i, p, rest) /\ AddPlayer(i, p)
  BY <1>1, <1>4, FateOfNewcomer
<1> QED BY <1>2, <1>3, <1>4

LEMMA FateOfAsked ==
  ASSUME Types, NEW p \in Players,
         InvitePlayerByPlayerName(p) \/ Announced(p) \/ LeavingZone(p) \/ Locking(p)
  PROVE  \A q \in Players : Fate(q)
<1>1. UNCHANGED <<made, members, present, copy>>
  BY DEF InvitePlayerByPlayerName, Announced, LeavingZone, Locking, SharedTaskActivityUpdate,
         LockTask, Receives, Ignored
<1>2. CASE Announced(p) \/ LeavingZone(p) \/ LockTask(p)
  BY <1>1, <1>2, AllRemain DEF Announced, LeavingZone, LockTask, TellNobody
<1>3. CASE InvitePlayerByPlayerName(p)
  <2>1. TellNobody \/ \E i \in live : \E s : Tell(s, Packet("invite", i, 0))
    BY <1>3 DEF InvitePlayerByPlayerName, Ignored, Led, Asked, Found
  <2>2. \A i \in live : Packet("invite", i, 0) \in Telling /\ Packet("invite", i, 0).op # "quit"
    BY LiveIds, PacketFits, Zeros DEF Packet
  <2>3. \/ UNCHANGED <<inbox, lapsed>>
        \/ \E s : \E m \in Telling : m.op # "quit" /\ Tell(s, m)
    BY <2>1, <2>2 DEF TellNobody
  <2> QED BY <1>1, <2>3, AllRemain
<1>4. CASE SharedTaskActivityUpdate(p)
  <2> DEFINE n == Head(outbox[p]).n
  <2>1. TellNobody \/ \E i \in live : \E s : Tell(s, Packet("update", i, n))
    BY <1>4 DEF SharedTaskActivityUpdate, Ignored, Asked, Found
  <2>2. n \in 0 .. Goal
    BY <1>4, ReceivedFits DEF SharedTaskActivityUpdate, Types, Asking, Requests
  <2> HIDE DEF n
  <2>3. \A i \in live : Packet("update", i, n) \in Telling /\ Packet("update", i, n).op # "quit"
    BY <2>2, LiveIds, PacketFits, Zeros DEF Packet
  <2>4. \/ UNCHANGED <<inbox, lapsed>>
        \/ \E s : \E m \in Telling : m.op # "quit" /\ Tell(s, m)
    BY <2>1, <2>3 DEF TellNobody
  <2> QED BY <1>1, <2>4, AllRemain
<1> QED BY <1>2, <1>3, <1>4 DEF Locking

\* World starts again, or purges all tasks.
LEMMA FateOfAll ==
  ASSUME Types, PurgeAllSharedTasks \/ \E x \in SUBSET Ids : LoadSharedTaskState(x)
  PROVE  \A q \in Players : Fate(q)
<1> SUFFICES ASSUME NEW q \in Players PROVE Swept(q)
  BY DEF Fate
<1>1. /\ IInv /\ members \in [Ids -> Roster] /\ made \in Nat
      /\ inbox \in [Players -> Seq(Telling)]
  BY DEF Types, Rest, LinksOK, IInv, Shape
<1>2. Nobody[q] = "none"
  BY DEF Nobody
<1>3. CASE PurgeAllSharedTasks
  <2>1. /\ members' = [i \in Ids |-> Nobody] /\ UNCHANGED <<made, present, copy, lapsed>>
        /\ inbox' = [p \in Players |-> IF p \in present
                       THEN Append(inbox[p], Packet("load", NoTask, 0)) ELSE inbox[p]]
    BY <1>3 DEF PurgeAllSharedTasks
  <2>2. Steady(q) /\ \A i \in Ids : members'[i][q] = "none"
    BY <1>1, <1>2, <2>1 DEF Steady
  <2> QED BY <2>1, <2>2 DEF Swept
<1>4. ASSUME NEW x \in SUBSET Ids, LoadSharedTaskState(x) PROVE Swept(q)
  <2>1. /\ members' = [i \in Ids |-> IF i \in x THEN Nobody ELSE rows[i]]
        /\ lapsed' = lapsed \cup {p \in present : \E i \in x : rows[i][p] # "none"}
        /\ UNCHANGED <<made, present, copy, inbox>> /\ saving = Idle
    BY <1>4 DEF LoadSharedTaskState
  <2>2. \A i \in Ids : rows[i] = members[i]
    BY <1>1, <2>1 DEF IInv, Kept
  <2>3. \A i \in Ids : members'[i] = IF i \in x THEN Nobody ELSE members[i]
    BY <2>1, <2>2
  <2>4. Steady(q) /\ \A i \in Ids : members'[i][q] # "none" => members[i][q] # "none"
    BY <1>1, <1>2, <2>1, <2>3 DEF Steady
  <2>5. CASE \E i \in x : members[i][q] # "none"
    <3>1. q \in present => q \in lapsed'
      BY <2>1, <2>2, <2>5
    <3> QED BY <2>1, <2>4, <3>1 DEF Swept
  <2>6. CASE ~\E i \in x : members[i][q] # "none"
    <3>1. SameRole(q)
      BY <1>2, <2>3, <2>6 DEF SameRole
    <3> QED BY <2>1, <2>4, <3>1 DEF Swept
  <2> QED BY <2>5, <2>6
<1> QED BY <1>3, <1>4

-----------------------------------------------------------------------------
(* The copy and the steps of the zones *)

\* A step that is another player's.
LEMMA Aside ==
  ASSUME Types, Types', NEW q \in Players, Mirror(q), UNCHANGED <<made, members>>,
         inbox'[q] = inbox[q], copy'[q].task = copy[q].task, q \in present' <=> q \in present,
         q \in lapsed => q \in lapsed'
  PROVE  Mirror(q)'
<1>1. made \in Nat
  BY DEF Types, IInv, Shape
<1>2. Remains(q)
  BY <1>1 DEF Remains, Steady, SameRole, Undisturbed
<1> QED BY <1>2, FateKeeps DEF Fate

\* Who has a packet is in the zone; reading it takes nothing else away.
LEMMA GotMirror ==
  ASSUME Types, NEW p \in Players, NEW op, Gets(p, op), Mirror(p)
  PROVE  /\ p \in present /\ p \in present' /\ inbox'[p] = Tail(inbox[p])
         /\ inbox[p] \in Seq(Telling) /\ inbox[p] # <<>> /\ Head(inbox[p]).op = op
         /\ Head(inbox[p]) \in Telling
         /\ \A i \in Ids : Ending(inbox'[p], i) => i <= made'
         /\ \A i \in Ids : members'[i][p] # "none" => Overruled(inbox'[p], i)
         /\ UNCHANGED <<made, members, present>>
<1>1. /\ inbox \in [Players -> Seq(Telling)] /\ inbox[p] # <<>> /\ Head(inbox[p]).op = op
      /\ inbox' = [inbox EXCEPT ![p] = Tail(@)] /\ UNCHANGED <<made, members, present>>
  BY DEF Types, Rest, LinksOK, Gets
<1>2. inbox[p] \in Seq(Telling) /\ inbox'[p] = Tail(inbox[p])
  BY <1>1
<1>3. Head(inbox[p]) \in Telling
  BY <1>1, <1>2
<1>4. p \in present
  BY <1>1 DEF Mirror
<1>5. \A i \in Ids : /\ Ending(inbox'[p], i) => i <= made'
                     /\ members'[i][p] # "none" => Overruled(inbox'[p], i)
  BY <1>1, <1>2, TailEnds DEF Mirror
<1> QED BY <1>1, <1>2, <1>3, <1>4, <1>5

\* What is loaded from tables that are whole, into a slot without another task,
\* is the task of the roster.
LEMMA LoadedRight ==
  ASSUME Types, NEW p \in Players, NEW c, LoadClientTaskState(p, c), p \notin lapsed'
  PROVE  Same(copy'[p].task, members, p)
<1> DEFINE i   == TaskOf(rows, p)
           had == StateToLocal(c, i)
           now == IF i = NoTask THEN NoRow ELSE WithPersistedState(had, i)
<1>1. saving = Idle /\ ~Foreign(c, i)
  BY DEF LoadClientTaskState
<1>2. copy'[p].task = now.task
  BY DEF LoadClientTaskState, Types, Rest, ZonesOK
<1>3. now.task = i
  <2>1. CASE i = NoTask
    BY <2>1 DEF NoRow
  <2>2. CASE i # NoTask
    <3>1. had.task = i
      BY <1>1, <2>2 DEF StateToLocal, Foreign
    <3> HIDE DEF had, i
    <3>2. WithPersistedState(had, i).task = i
      <4>1. CASE ~Behind(had, i)
        BY <3>1, <4>1 DEF WithPersistedState
      <4>2. CASE Behind(had, i)
        BY <3>1, <4>2 DEF WithPersistedState
      <4> QED BY <4>1, <4>2
    <3> QED BY <2>2, <3>2
  <2> QED BY <2>1, <2>2
<1>4. \A j \in Ids : rows[j] = members[j]
  BY <1>1 DEF Types, IInv, Kept
<1>5. \A j, k \in Ids : rows[j][p] # "none" /\ rows[k][p] # "none" => j = k
  BY <1>4, OneTask DEF Types
<1>6. Same(i, rows, p)
  BY <1>5, TaskFound
<1>7. Same(i, members, p)
  BY <1>4, <1>6 DEF Same
<1> HIDE DEF now, i
<1> QED BY <1>2, <1>3, <1>7

LEMMA HandledMirror ==
  ASSUME Types, NEW p \in Players, Mirror(p),
         \/ Loads(p) \/ SharedTaskAcceptNewTask(p) \/ Cancelled(p)
         \/ SharedTaskIncrementDoneCount(p) \/ InvitePlayer(p)
  PROVE  Mirror(p)'
<1>1. copy \in [Players -> Copies] /\ NoTask \notin Ids
  BY DEF Types, Rest, ZonesOK, NoTask, Ids
<1>2. CASE Loads(p) \/ SharedTaskAcceptNewTask(p)
  <2>1. (\E op : Gets(p, op)) /\ \E c : LoadClientTaskState(p, c)
    BY <1>2 DEF Loads, SharedTaskAcceptNewTask
  <2>2. p \notin lapsed' => Same(copy'[p].task, members, p)
    BY <2>1, LoadedRight
  <2> QED BY <2>1, <2>2, GotMirror DEF Mirror, Same
<1>3. CASE Cancelled(p)
  <2>1. Gets(p, "quit") /\ copy'[p].task = NoTask /\ lapsed \subseteq lapsed'
        /\ (p \notin lapsed' => copy[p].task \in {NoTask, Head(inbox[p]).id})
    BY <1>1, <1>3 DEF Cancelled
  <2>2. Head(inbox[p]).op = "quit" /\ ~Resync(Head(inbox[p])) /\ inbox'[p] = Tail(inbox[p])
        /\ inbox[p] # <<>> /\ inbox[p] \in Seq(Telling) /\ p \in present /\ UNCHANGED members
    BY <2>1, GotMirror DEF Resync
  <2>3. Catching(inbox[p]) => Catching(inbox'[p])
    BY <2>2, TailEnds
  <2>4. NoRole(p) => Same(NoTask, members, p)'
    BY <1>1, <2>2 DEF NoRole, Same
  <2>5. ASSUME Same(copy[p].task, members, p), p \notin lapsed'
        PROVE  Catching(inbox'[p]) \/ Same(NoTask, members, p)'
    <3>1. CASE copy[p].task \in Ids
      <4>1. members[copy[p].task][p] # "none" /\ copy[p].task = Head(inbox[p]).id
        BY <1>1, <2>1, <2>5, <3>1 DEF Same
      <4>2. Overruled(inbox[p], copy[p].task) /\ Ends(Head(inbox[p]), copy[p].task)
        BY <2>2, <3>1, <4>1 DEF Mirror, Ends
      <4> QED BY <2>2, <4>2, TailEnds
    <3>2. CASE copy[p].task \notin Ids
      <4>1. NoRole(p)
        BY <2>5, <3>2 DEF NoRole, Same
      <4> QED BY <2>4, <4>1
    <3> QED BY <3>1, <3>2
  <2>6. p \notin lapsed' => Catching(inbox'[p]) \/ Same(copy[p].task, members, p)'
    BY <2>1, <2>2, <2>3, <2>4, <2>5 DEF Mirror
  <2> QED BY <2>1, <2>6, GotMirror DEF Mirror
<1>4. CASE SharedTaskIncrementDoneCount(p) \/ InvitePlayer(p)
  <2>1. /\ \E op \in {"update", "invite"} : Gets(p, op)
        /\ copy'[p].task = copy[p].task /\ lapsed' = lapsed
    <3>1. CASE InvitePlayer(p)
      BY <3>1 DEF InvitePlayer
    <3>2. CASE SharedTaskIncrementDoneCount(p)
      <4> DEFINE c == Confirmed(copy[p], Head(inbox[p]).n)
      <4>1. copy' = [copy EXCEPT ![p] = c] /\ Gets(p, "update") /\ lapsed' = lapsed
        BY <3>2 DEF SharedTaskIncrementDoneCount
      <4>2. copy[p] \in Copies
        BY <1>1
      <4>3. c.task = copy[p].task
        BY <4>2 DEF Confirmed, Copies
      <4> HIDE DEF c
      <4> QED BY <1>1, <4>1, <4>3
    <3> QED BY <1>4, <3>1, <3>2
  <2>2. ~Resync(Head(inbox[p])) /\ (\A i : ~Ends(Head(inbox[p]), i)) /\ inbox'[p] = Tail(inbox[p])
        /\ inbox[p] # <<>> /\ inbox[p] \in Seq(Telling) /\ p \in present /\ UNCHANGED members
    BY <2>1, GotMirror DEF Resync, Ends
  <2>3. Catching(inbox[p]) => Catching(inbox'[p])
    BY <2>2, TailEnds
  <2>4. Ending(inbox[p], copy[p].task) => Ending(inbox'[p], copy'[p].task)
    BY <2>1, <2>2, TailEnds
  <2>5. /\ Same(copy[p].task, members, p) => Same(copy[p].task, members, p)'
        /\ NoRole(p) => NoRole(p)'
    BY <2>1, <2>2 DEF Same, NoRole
  <2>6. p \notin lapsed' => \/ Catching(inbox'[p])
                            \/ Same(copy[p].task, members, p)'
                            \/ NoRole(p)' /\ Ending(inbox'[p], copy'[p].task)
    BY <2>1, <2>2, <2>3, <2>4, <2>5 DEF Mirror
  <2> QED BY <2>1, <2>6, GotMirror DEF Mirror
<1> QED BY <1>2, <1>3, <1>4

LEMMA PlayedMirror ==
  ASSUME Types, Types', MirrorInv, NEW p \in Players, Elsewhere(p)
  PROVE  MirrorInv'
<1> SUFFICES ASSUME NEW q \in Players PROVE Mirror(q)'
  BY DEF MirrorInv
<1>1. /\ Mirror(p) /\ Mirror(q) /\ copy \in [Players -> Copies]
      /\ inbox \in [Players -> Seq(Telling)]
  BY DEF MirrorInv, Types, Rest, ZonesOK, LinksOK
<1>2. CASE Announced(p) \/ LeavingZone(p) \/ InvitePlayerByPlayerName(p)
  BY <1>1, <1>2, FateOfAsked, FateKeeps
<1>3. CASE \/ Loads(p) \/ SharedTaskAcceptNewTask(p) \/ Cancelled(p)
           \/ SharedTaskIncrementDoneCount(p) \/ InvitePlayer(p)
  <2>1. CASE q = p
    BY <1>1, <1>3, <2>1, HandledMirror
  <2>2. CASE q # p
    <3>1. UNCHANGED <<made, members, present>> /\ inbox'[q] = inbox[q]
      BY <1>1, <1>3, <2>2 DEF Loads, SharedTaskAcceptNewTask, Cancelled,
         SharedTaskIncrementDoneCount, InvitePlayer, Gets
    <3>2. copy'[q] = copy[q] /\ (q \in lapsed => q \in lapsed')
      BY <1>1, <1>3, <2>2 DEF Loads, SharedTaskAcceptNewTask, Cancelled,
         SharedTaskIncrementDoneCount, InvitePlayer, LoadClientTaskState
    <3> QED BY <1>1, <3>1, <3>2, Aside
  <2> QED BY <2>1, <2>2
<1>4. CASE \/ \E t \in Templates : RequestTask(p, t)
           \/ \E op \in {"quit", "kickall", "lock", "end"} : Commands(p, op, p)
           \/ \E op \in {"remove", "makeleader", "add"}, o \in Players : Commands(p, op, o)
           \/ \E i \in Ids, answer \in {"yes", "no"} : Answers(p, i, answer)
           \/ Kills(p) \/ Saves(p)
  <2>1. Playing(p)
    BY <1>4 DEF RequestTask, Commands, Answers, Kills, Saves
  <2>2. copy'[q].task = copy[q].task
    <3>1. CASE Kills(p)
      <4>1. PICK n : copy' = [o \in Players |-> IF o \in present /\ copy[o].id = copy[p].id
                               THEN [copy[o] EXCEPT !.count = n] ELSE copy[o]]
        BY <3>1 DEF Kills
      <4>2. copy[q] \in Copies
        BY <1>1
      <4> QED BY <4>1, <4>2 DEF Copies
    <3>2. CASE Saves(p)
      <4>1. copy' = [copy EXCEPT ![p].updated = FALSE] /\ copy[q] \in Copies
        BY <1>1, <3>2 DEF Saves
      <4> QED BY <1>1, <4>1 DEF Copies
    <3>3. CASE UNCHANGED copy
      BY <3>3
    <3> QED BY <1>4, <3>1, <3>2, <3>3 DEF RequestTask, Commands, Answers
  <2> QED BY <1>1, <2>1, <2>2, Aside DEF Playing
<1>5. CASE LeaveZone(p)
  <2>1. /\ UNCHANGED <<made, members>> /\ inbox'[p] = <<>> /\ p \notin present'
        /\ q # p => /\ inbox'[q] = inbox[q] /\ copy'[q] = copy[q]
                    /\ q \in present' <=> q \in present
                    /\ q \in lapsed => q \in lapsed'
    BY <1>1, <1>5 DEF LeaveZone
  <2>2. CASE q = p
    BY <2>1, <2>2, NothingEnds DEF Mirror
  <2>3. CASE q # p
    BY <1>1, <2>1, <2>3, Aside
  <2> QED BY <2>2, <2>3
<1>6. CASE EnterZone(p)
  <2>1. /\ UNCHANGED <<made, members>> /\ inbox'[p] = <<Packet("load", NoTask, 0)>> /\ p \in present'
        /\ q # p => /\ inbox'[q] = inbox[q] /\ copy'[q] = copy[q]
                    /\ q \in present' <=> q \in present
                    /\ q \in lapsed => q \in lapsed'
    BY <1>1, <1>6 DEF EnterZone
  <2>2. CASE q = p
    <3>1. PICK m \in Telling : m = Packet("load", NoTask, 0) /\ Resync(m) /\ \A j : ~Ends(m, j)
      BY SomePackets
    <3>2. inbox'[p] = Append(<<>>, m)
      BY <2>1, <3>1
    <3>3. <<>> \in Seq(Telling)
      OBVIOUS
    <3>4. \A j : Catching(inbox'[p]) /\ ~Ending(inbox'[p], j) /\ Overruled(inbox'[p], j)
      <4> TAKE j
      <4>1. ~Ending(<<>>, j) /\ Overruled(<<>>, j)
        BY NothingEnds
      <4> QED BY <3>1, <3>2, <3>3, <4>1, AppendedEnds
    <3> QED BY <2>1, <2>2, <3>4 DEF Mirror
  <2>3. CASE q # p
    BY <1>1, <2>1, <2>3, Aside
  <2> QED BY <2>2, <2>3
<1> QED BY <1>2, <1>3, <1>4, <1>5, <1>6 DEF Elsewhere

LEMMA MirrorStart == Init => MirrorInv
<1> SUFFICES ASSUME Init, NEW p \in Players PROVE Mirror(p)
  BY DEF MirrorInv
<1>1. inbox[p] = <<>> /\ copy[p].task = NoTask /\ \A i \in Ids : members[i][p] = "none"
  BY DEF Init, NoCopy, Nobody
<1>2. Same(NoTask, members, p)
  BY <1>1 DEF Same, Ids, NoTask
<1> QED BY <1>1, <1>2, NothingEnds DEF Mirror

LEMMA MirrorNext == Types /\ Types' /\ MirrorInv /\ [Next]_vars => MirrorInv'
<1> SUFFICES ASSUME Types, Types', MirrorInv, [Next]_vars PROVE MirrorInv'
  OBVIOUS
<1> DEFINE AllFates == \A q \in Players : Fate(q)
<1>1. AllFates => MirrorInv'
  BY FateKeeps DEF MirrorInv
<1>2. ASSUME Ignored, UNCHANGED <<present, copy>> PROVE AllFates
  BY <1>2, AllRemain DEF Ignored, TellNobody
<1>3. ASSUME NEW p \in Players, Actions(p) PROVE MirrorInv'
  <2>1. CASE Elsewhere(p)
    BY <2>1, PlayedMirror
  <2>2. CASE Removing(p)
    BY <1>1, <1>2, <2>2, RemovingIs, FateOfMembers, FateOfMember
  <2>3. CASE Locking(p)
    BY <1>1, <2>3, FateOfAsked
  <2>4. ASSUME NEW g \in SUBSET Players, AttemptSharedTaskCreation(p, g) PROVE MirrorInv'
    BY <1>1, <2>4, FateOfParty
  <2>5. CASE SharedTaskMakeLeader(p)
    BY <1>1, <2>5, FateOfLed
  <2>6. ASSUME NEW answer, InviteAnswered(p, answer) PROVE MirrorInv'
    BY <1>1, <2>6, FateOfAnswered
  <2> QED BY <1>3, <2>1, <2>2, <2>3, <2>4, <2>5, <2>6, ByPlayer
<1>4. ASSUME NEW i \in Ids, Process(i) PROVE MirrorInv'
  BY <1>1, <1>4, FateOfMembers DEF Process
<1>5. ASSUME DeleteRows \/ InsertRows \/ DropRows \/ UNCHANGED vars PROVE MirrorInv'
  <2>1. UNCHANGED <<made, members, present, copy, inbox, lapsed>>
    BY <1>5 DEF DeleteRows, InsertRows, DropRows, SaveStep, vars
  <2> QED BY <1>1, <2>1, AllRemain
<1>6. ASSUME PurgeAllSharedTasks \/ \E x \in SUBSET Ids : LoadSharedTaskState(x) PROVE MirrorInv'
  BY <1>1, <1>6, FateOfAll
<1> QED BY <1>3, <1>4, <1>5, <1>6 DEF Next

\* When nothing is on its way, a player's zone has a copy of the task that world
\* has the player in, and of none when it is in none, unless the copy lapsed.
THEOREM ZoneFollows == Spec => []MirrorFollows
<1>1. Types /\ MirrorInv => MirrorFollows
  <2> SUFFICES ASSUME Types, MirrorInv, NEW p \in Players, Settled(p)
               PROVE  copy[p].task = TaskOf(members, p)
    BY DEF MirrorFollows
  <2>1. Mirror(p) /\ inbox[p] = <<>> /\ p \in present /\ p \notin lapsed
    BY DEF MirrorInv, Settled
  <2>2. Same(copy[p].task, members, p)
    BY <2>1, NothingEnds DEF Mirror
  <2>3. copy[p].task \in 0 .. MaxTasks
    BY DEF Types, Rest, ZonesOK, Copies
  <2>4. \A i, j \in Ids : members[i][p] # "none" /\ members[j][p] # "none" => i = j
    BY OneTask DEF Types
  <2> QED BY <2>2, <2>3, <2>4, TaskFound
<1> QED BY <1>1, TypesStart, TypesNext, MirrorStart, MirrorNext, PTL DEF Spec

-----------------------------------------------------------------------------
(***************************************************************************)
(* The reward.  Copy and rows of a player in the zone say the same of it,  *)
(* unless they are still to be loaded; an update to the goal comes when    *)
(* world has the task as done, which locks it; so a player that is paid    *)
(* and out of the task stays out, and one that is in it has the payment in *)
(* its rows.                                                               *)
(***************************************************************************)
FinishedOK == \A i \in Ids : done[i] = Goal => i <= made /\ (i \in live => i \in locked)

Agreed(p) ==
  copy[p].task = row[p].task /\ (row[p].task # NoTask => copy[p].rewarded = row[p].rewarded)
ToLoad(p) == inbox[p] # <<>> /\ Head(inbox[p]).op = "load"
AgreeOK(p) == p \in present => Agreed(p) \/ ToLoad(p)

NewsOK(p) ==
  \A n \in DOMAIN inbox[p] : inbox[p][n].op = "update" =>
    inbox[p][n].id \in Ids /\ (inbox[p][n].n = Goal => done[inbox[p][n].id] = Goal)

\* c is what the tables of p say of its task.
PaidBy(c, p) ==
  \A i \in Ids : paid[i][p] # 0 =>
    done[i] = Goal /\ (p \notin crossed =>
      paid[i][p] = 1 /\ IF c.task = i THEN c.rewarded ELSE members[i][p] = "none")

RewardOK(p) == AgreeOK(p) /\ NewsOK(p) /\ PaidBy(row[p], p)
RewardInv == FinishedOK /\ \A p \in Players : RewardOK(p)

\* What becomes of the tasks in a step: a new one has a new id, a lock goes with
\* the task, and what is done stays done and is locked.
Grows ==
  /\ made <= made'
  /\ \A i \in live' : i \in live \/ i > made
  /\ locked \cap live' \subseteq locked'
  /\ \A i \in Ids : done[i] = Goal => done'[i] = Goal
  /\ \A i \in Ids : done'[i] = Goal => done[i] = Goal \/ (i \in locked' /\ i <= made')

LEMMA GrowsLess ==
  ASSUME Types, made' = made, done' = done, live' \subseteq live, locked \cap live' \subseteq locked'
  PROVE  Grows
<1>1. made \in Nat
  BY DEF Types, IInv, Shape
<1> QED BY <1>1 DEF Grows

LEMMA RemoverGrows ==
  ASSUME Types,
         \/ Ignored
         \/ \E i \in live : Terminate(i)
         \/ \E i \in live : \E q \in MembersOf(i) : RemoveMember(i, q)
  PROVE  Grows
<1>1. CASE Ignored
  BY <1>1, GrowsLess DEF Ignored
<1>2. ASSUME NEW i \in live, Terminate(i) PROVE Grows
  <2>1. made' = made /\ done' = done /\ live' = live \ {i} /\ locked' = locked \ {i}
    BY <1>2 DEF Terminate
  <2> QED BY <2>1, GrowsLess
<1>3. ASSUME NEW i \in live, NEW q, RemoveMember(i, q) PROVE Grows
  <2>1. made' = made /\ done' = done /\ live' = live /\ locked' = locked
    BY <1>3 DEF RemoveMember
  <2> QED BY <2>1, GrowsLess
<1> QED BY <1>1, <1>2, <1>3

LEMMA UpdateGrows ==
  ASSUME Types, NEW p \in Players, SharedTaskActivityUpdate(p)
  PROVE  Grows
<1> DEFINE n == Head(outbox[p]).n
<1>1. n \in 0 .. Goal
  BY ReceivedFits DEF SharedTaskActivityUpdate, Types, Asking, Requests
<1>2. /\ done \in [Ids -> 0 .. Goal] /\ live \subseteq 1 .. made /\ made \in 0 .. MaxTasks
      /\ UNCHANGED <<made, live>>
  BY DEF Types, Rest, TasksOK, IInv, Shape, SharedTaskActivityUpdate, Ignored
<1>3. CASE Ignored
  BY <1>3, GrowsLess DEF Ignored
<1>4. ASSUME NEW i \in live, done[i] < n, done' = [done EXCEPT ![i] = n],
             locked' = IF n = Goal THEN locked \cup {i} ELSE locked
      PROVE  Grows
  <2> HIDE DEF n
  <2>1. i \in Ids /\ i <= made /\ done[i] \in 0 .. Goal
    BY <1>2 DEF Ids
  <2>2. done[i] # Goal
    BY <1>1, <1>4, <2>1
  <2>3. \A j \in Ids : done'[j] = IF j = i THEN n ELSE done[j]
    BY <1>2, <1>4, <2>1
  <2> QED BY <1>2, <1>4, <2>1, <2>2, <2>3 DEF Grows
<1>5. Ignored \/ \E i \in live : /\ done[i] < n /\ done' = [done EXCEPT ![i] = n]
                                 /\ locked' = IF n = Goal THEN locked \cup {i} ELSE locked
  BY DEF SharedTaskActivityUpdate, Asked, Found
<1> QED BY <1>3, <1>4, <1>5

LEMMA ElsewhereGrows ==
  ASSUME Types, NEW p \in Players, Elsewhere(p)
  PROVE  Grows
<1>1. UNCHANGED <<made, live, locked>>
  BY ElsewhereUnmoved DEF core
<1>2. UNCHANGED done
  <2>1. CASE Announced(p) \/ LeavingZone(p) \/ InvitePlayerByPlayerName(p)
    BY <2>1 DEF Announced, LeavingZone, InvitePlayerByPlayerName, Ignored
  <2>2. CASE Loads(p) \/ SharedTaskAcceptNewTask(p) \/ Cancelled(p)
             \/ SharedTaskIncrementDoneCount(p) \/ InvitePlayer(p)
    BY <2>2 DEF Loads, SharedTaskAcceptNewTask, Cancelled, SharedTaskIncrementDoneCount,
                InvitePlayer, Gets
  <2>3. CASE \/ \E t \in Templates : RequestTask(p, t)
             \/ \E op \in {"quit", "kickall", "lock", "end"} : Commands(p, op, p)
             \/ \E op \in {"remove", "makeleader", "add"}, q \in Players : Commands(p, op, q)
             \/ \E i \in Ids, answer \in {"yes", "no"} : Answers(p, i, answer)
             \/ Kills(p) \/ Saves(p)
    BY <2>3 DEF RequestTask, Commands, Answers, Kills, Saves, Playing
  <2>4. CASE LeaveZone(p) \/ EnterZone(p)
    BY <2>4 DEF LeaveZone, EnterZone
  <2> QED BY <2>1, <2>2, <2>3, <2>4 DEF Elsewhere
<1> QED BY <1>1, <1>2, GrowsLess

LEMMA CreationGrows ==
  ASSUME Types, NEW p \in Players, NEW g, AttemptSharedTaskCreation(p, g)
  PROVE  Grows
<1> DEFINE n == made + 1
<1>1. done' = done /\ made \in Nat
  BY DEF AttemptSharedTaskCreation, Types, IInv, Shape
<1>2. \/ UNCHANGED <<made, live, locked>>
      \/ made' = n /\ live' = live \cup {n} /\ locked \subseteq locked'
  BY DEF AttemptSharedTaskCreation
<1>3. n > made /\ made <= n
  BY <1>1
<1> HIDE DEF n
<1> QED BY <1>1, <1>2, <1>3, GrowsLess DEF Grows

LEMMA Grown == Types /\ [Next]_vars => Grows
<1> SUFFICES ASSUME Types, [Next]_vars PROVE Grows
  OBVIOUS
<1>1. ASSUME NEW p \in Players, Actions(p) PROVE Grows
  <2>1. CASE Removing(p)
    BY <2>1, RemovingIs, RemoverGrows
  <2>2. CASE LockTask(p) \/ SharedTaskMakeLeader(p) \/ \E answer \in {"yes", "no"} : InviteAnswered(p, answer)
    BY <2>2, GrowsLess DEF LockTask, SharedTaskMakeLeader, InviteAnswered, Ignored
  <2> QED BY <1>1, <2>1, <2>2, UpdateGrows, ElsewhereGrows, CreationGrows, ByPlayer DEF Locking
<1>2. ASSUME DeleteRows \/ InsertRows \/ DropRows \/ UNCHANGED vars PROVE Grows
  BY <1>2, GrowsLess DEF DeleteRows, InsertRows, DropRows, SaveStep, vars
<1>3. ASSUME NEW i \in Ids, Process(i) PROVE Grows
  BY <1>3, RemoverGrows DEF Process
<1>4. ASSUME PurgeAllSharedTasks PROVE Grows
  BY <1>4, GrowsLess DEF PurgeAllSharedTasks
<1>5. ASSUME NEW x \in SUBSET Ids, LoadSharedTaskState(x) PROVE Grows
  BY <1>5, GrowsLess DEF LoadSharedTaskState
<1> QED BY <1>1, <1>2, <1>3, <1>4, <1>5 DEF Next

LEMMA StaysFinished ==
  ASSUME Types, Types', FinishedOK, Grows
  PROVE  FinishedOK'
<1>1. made \in Nat /\ made' \in Nat
  BY DEF Types, IInv, Shape
<1>2. \A i \in Ids : i \in Nat
  BY DEF Ids
<1> QED BY <1>1, <1>2 DEF FinishedOK, Grows

\* Who is not in a task that is done stays out of it.
LEMMA StaysOut ==
  ASSUME Types, Types', FinishedOK, Grows, Shut, NEW i \in Ids, NEW p \in Players,
         done[i] = Goal, members[i][p] = "none"
  PROVE  members'[i][p] = "none"
<1>1. CASE i \in live
  <2>1. i \in locked
    BY <1>1 DEF FinishedOK
  <2>2. p \notin MembersOf(i)
    BY DEF MembersOf
  <2> QED BY <2>1, <2>2 DEF Shut
<1>2. CASE i \notin live
  <2>1. i <= made /\ made \in Nat
    BY DEF FinishedOK, Types, IInv, Shape
  <2>2. i \notin live'
    BY <1>2, <2>1 DEF Grows, Ids
  <2>3. members'[i] = Nobody
    BY <2>2 DEF Types, IInv, Kept, Nobody
  <2> QED BY <2>3 DEF Nobody
<1> QED BY <1>1, <1>2

-----------------------------------------------------------------------------
(* The reward and the steps of world *)

Posted(q) ==
  \/ inbox'[q] = inbox[q]
  \/ \E m \in Telling :
       /\ m.op = "update" => m.id \in Ids /\ (m.n = Goal => done'[m.id] = Goal)
       /\ inbox'[q] = Append(inbox[q], m)

WorldStep == UNCHANGED <<present, copy, row, paid, crossed>> /\ \A q \in Players : Posted(q)

LEMMA NewsPosted ==
  ASSUME NEW q \in Players, inbox[q] \in Seq(Telling), NewsOK(q), Posted(q), Grows
  PROVE  NewsOK(q)' /\ (ToLoad(q) => ToLoad(q)')
<1>1. \A i \in Ids : done[i] = Goal => done'[i] = Goal
  BY DEF Grows
<1>2. CASE inbox'[q] = inbox[q]
  BY <1>1, <1>2 DEF NewsOK, ToLoad
<1>3. ASSUME NEW m \in Telling, m.op = "update" => m.id \in Ids /\ (m.n = Goal => done'[m.id] = Goal),
             inbox'[q] = Append(inbox[q], m)
      PROVE  NewsOK(q)' /\ (ToLoad(q) => ToLoad(q)')
  <2> DEFINE l == Len(inbox[q]) + 1
  <2>1. /\ DOMAIN inbox[q] = 1 .. Len(inbox[q]) /\ DOMAIN inbox'[q] = 1 .. l
        /\ Len(inbox[q]) \in Nat
        /\ \A n \in 1 .. Len(inbox[q]) : inbox'[q][n] = inbox[q][n]
        /\ inbox'[q][l] = m
    BY <1>3
  <2>0. \A k \in Nat : \A n \in 1 .. k + 1 : n = k + 1 \/ n \in 1 .. k
    OBVIOUS
  <2>2. \A n \in DOMAIN inbox'[q] : n = l \/ n \in 1 .. Len(inbox[q])
    BY <2>0, <2>1
  <2> HIDE DEF l
  <2>3. NewsOK(q)'
    BY <1>1, <1>3, <2>1, <2>2 DEF NewsOK
  <2>4. inbox[q] # <<>> => inbox'[q] # <<>> /\ Head(inbox'[q]) = Head(inbox[q])
    BY <1>3
  <2> QED BY <2>3, <2>4 DEF ToLoad
<1> QED BY <1>2, <1>3 DEF Posted

\* p's own tables and copy are as they were.
LEMMA PaidKeeps ==
  ASSUME Types, Types', FinishedOK, Grows, Shut, NEW p \in Players, PaidBy(row[p], p),
         \A i \in Ids : paid'[i][p] = paid[i][p],
         row'[p].task = row[p].task, row'[p].rewarded = row[p].rewarded, p \in crossed => p \in crossed'
  PROVE  PaidBy(row[p], p)'
<1>1. \A i \in Ids : done[i] = Goal => done'[i] = Goal
  BY DEF Grows
<1>2. \A i \in Ids : done[i] = Goal /\ members[i][p] = "none" => members'[i][p] = "none"
  BY StaysOut
<1> QED BY <1>1, <1>2 DEF PaidBy

LEMMA RewardByWorld ==
  ASSUME Types, Types', RewardInv, Grows, Shut, WorldStep
  PROVE  RewardInv'
<1>1. FinishedOK'
  BY StaysFinished DEF RewardInv
<1>2. ASSUME NEW p \in Players PROVE RewardOK(p)'
  <2>1. AgreeOK(p) /\ NewsOK(p) /\ PaidBy(row[p], p) /\ FinishedOK
    BY DEF RewardInv, RewardOK
  <2>2. inbox[p] \in Seq(Telling) /\ Posted(p) /\ UNCHANGED <<present, copy, row, paid, crossed>>
    BY DEF Types, Rest, LinksOK, WorldStep
  <2>3. NewsOK(p)' /\ (ToLoad(p) => ToLoad(p)')
    BY <2>1, <2>2, NewsPosted
  <2>4. AgreeOK(p)'
    BY <2>1, <2>2, <2>3 DEF AgreeOK, Agreed
  <2>5. PaidBy(row[p], p)'
    BY <2>1, <2>2, PaidKeeps
  <2> QED BY <2>3, <2>4, <2>5 DEF RewardOK
<1> QED BY <1>1, <1>2 DEF RewardInv

LEMMA PostedTold ==
  ASSUME Types, NEW s, NEW m \in Telling, Tell(s, m),
         m.op = "update" => m.id \in Ids /\ (m.n = Goal => done'[m.id] = Goal)
  PROVE  \A q \in Players : Posted(q)
BY DEF Tell, Posted, Types, Rest, LinksOK

LEMMA NothingPosted ==
  ASSUME UNCHANGED inbox
  PROVE  \A q \in Players : Posted(q)
BY DEF Posted

LEMMA RemoverPosts ==
  ASSUME Types,
         \/ Ignored
         \/ \E i \in live : Terminate(i)
         \/ \E i \in live : \E q \in MembersOf(i) : RemoveMember(i, q)
  PROVE  \A q \in Players : Posted(q)
<1>1. CASE Ignored
  BY <1>1, NothingPosted DEF Ignored, TellNobody
<1>2. ASSUME NEW i \in live, NEW s, Tell(s, Packet("quit", i, 0)) PROVE \A q \in Players : Posted(q)
  <2>1. PICK m \in Telling : m = Packet("quit", i, 0)
    BY LiveIds, SomePackets
  <2>2. m.op # "update"
    BY <2>1 DEF Packet
  <2> QED BY <1>2, <2>1, <2>2, PostedTold
<1>3. Ignored \/ \E i \in live : \E s : Tell(s, Packet("quit", i, 0))
  BY DEF Terminate, RemoveMember
<1> QED BY <1>1, <1>2, <1>3

LEMMA InvitedPosts ==
  ASSUME Types, NEW p \in Players, InvitePlayerByPlayerName(p)
  PROVE  \A q \in Players : Posted(q)
<1>1. TellNobody \/ \E i \in live : \E s : Tell(s, Packet("invite", i, 0))
  BY DEF InvitePlayerByPlayerName, Ignored, Led, Asked, Found
<1>2. ASSUME NEW i \in live, NEW s, Tell(s, Packet("invite", i, 0)) PROVE \A q \in Players : Posted(q)
  <2>1. Packet("invite", i, 0) \in Telling
    BY LiveIds, PacketFits, Zeros
  <2>2. PICK m \in Telling : m = Packet("invite", i, 0)
    BY <2>1
  <2>3. m.op # "update"
    BY <2>2 DEF Packet
  <2> QED BY <1>2, <2>2, <2>3, PostedTold
<1> QED BY <1>1, <1>2, NothingPosted DEF TellNobody

LEMMA AcceptPosts ==
  ASSUME Types, NEW i \in Ids, NEW s, Tell(s, Packet("accept", i, 0))
  PROVE  \A q \in Players : Posted(q)
<1>1. PICK m \in Telling : m = Packet("accept", i, 0)
  BY SomePackets
<1>2. m.op # "update"
  BY <1>1 DEF Packet
<1> QED BY <1>1, <1>2, PostedTold

LEMMA UpdatePosts ==
  ASSUME Types, NEW p \in Players, SharedTaskActivityUpdate(p)
  PROVE  \A q \in Players : Posted(q)
<1> DEFINE n == Head(outbox[p]).n
<1>1. n \in 0 .. Goal
  BY ReceivedFits DEF SharedTaskActivityUpdate, Types, Asking, Requests
<1>2. done \in [Ids -> 0 .. Goal] /\ live \subseteq Ids
  BY LiveIds DEF Types, Rest, TasksOK
<1>3. Ignored \/ \E i \in live : /\ done' = [done EXCEPT ![i] = n]
                                 /\ \E s : Tell(s, Packet("update", i, n))
  BY DEF SharedTaskActivityUpdate, Asked, Found
<1> HIDE DEF n
<1>4. ASSUME NEW i \in live, done' = [done EXCEPT ![i] = n], NEW s, Tell(s, Packet("update", i, n))
      PROVE  \A q \in Players : Posted(q)
  <2>1. Packet("update", i, n) \in Telling
    BY <1>1, <1>2, PacketFits, Zeros
  <2>2. PICK m \in Telling : m = Packet("update", i, n)
    BY <2>1
  <2>3. m.id \in Ids /\ m.n = n /\ done'[m.id] = n
    BY <1>2, <1>4, <2>2 DEF Packet
  <2> QED BY <1>4, <2>2, <2>3, PostedTold
<1> QED BY <1>3, <1>4, NothingPosted DEF Ignored, TellNobody

LEMMA CreationPosts ==
  ASSUME Types, NEW p \in Players, NEW g, AttemptSharedTaskCreation(p, g)
  PROVE  \A q \in Players : Posted(q)
<1> DEFINE n == made + 1
<1>1. TellNobody \/ (made < MaxTasks /\ Tell(g, Packet("accept", n, 0)))
  BY DEF AttemptSharedTaskCreation
<1>2. made < MaxTasks => n \in Ids
  BY DEF Types, IInv, Shape, Ids
<1> HIDE DEF n
<1> QED BY <1>1, <1>2, AcceptPosts, NothingPosted DEF TellNobody

LEMMA AnsweredPosts ==
  ASSUME Types, NEW p \in Players, NEW answer, InviteAnswered(p, answer)
  PROVE  \A q \in Players : Posted(q)
<1>1. TellNobody \/ \E i \in live : Tell({p}, Packet("accept", i, 0))
  BY DEF InviteAnswered, Ignored, AddPlayer
<1> QED BY <1>1, LiveIds, AcceptPosts, NothingPosted DEF TellNobody

LEMMA PlayerPosts ==
  ASSUME Types, NEW p \in Players,
         \/ Removing(p) \/ Locking(p) \/ SharedTaskMakeLeader(p)
         \/ \E g \in SUBSET Players : AttemptSharedTaskCreation(p, g)
         \/ \E answer \in {"yes", "no"} : InviteAnswered(p, answer)
         \/ Announced(p) \/ LeavingZone(p) \/ InvitePlayerByPlayerName(p)
  PROVE  WorldStep
<1>1. UNCHANGED <<present, copy, row, paid, crossed>>
  BY DEF Removing, SharedTaskQuit, SharedTaskKickPlayers, SharedTaskRemovePlayer, SharedTaskEnd,
         Locking, SharedTaskActivityUpdate, LockTask, SharedTaskMakeLeader,
         AttemptSharedTaskCreation, InviteAnswered, Announced, LeavingZone,
         InvitePlayerByPlayerName, Receives
<1>2. CASE Removing(p)
  BY <1>1, <1>2, RemovingIs, RemoverPosts DEF WorldStep
<1>3. CASE LockTask(p) \/ SharedTaskMakeLeader(p) \/ Announced(p) \/ LeavingZone(p)
  <2>1. UNCHANGED inbox
    BY <1>3 DEF LockTask, SharedTaskMakeLeader, Announced, LeavingZone, Ignored, TellNobody
  <2> QED BY <1>1, <2>1, NothingPosted DEF WorldStep
<1>4. CASE SharedTaskActivityUpdate(p) \/ InvitePlayerByPlayerName(p)
  BY <1>1, <1>4, UpdatePosts, InvitedPosts DEF WorldStep
<1>5. CASE \/ \E g \in SUBSET Players : AttemptSharedTaskCreation(p, g)
           \/ \E answer \in {"yes", "no"} : InviteAnswered(p, answer)
  BY <1>1, <1>5, CreationPosts, AnsweredPosts DEF WorldStep
<1> QED BY <1>2, <1>3, <1>4, <1>5 DEF Locking

LEMMA OwnPosts ==
  ASSUME Types,
         \/ DeleteRows \/ InsertRows \/ DropRows \/ UNCHANGED vars
         \/ \E i \in Ids : Process(i)
         \/ PurgeAllSharedTasks
         \/ \E x \in SUBSET Ids : LoadSharedTaskState(x)
  PROVE  WorldStep
<1>1. CASE \/ DeleteRows \/ InsertRows \/ DropRows \/ UNCHANGED vars
           \/ \E x \in SUBSET Ids : LoadSharedTaskState(x)
  <2>1. UNCHANGED <<present, copy, row, paid, crossed, inbox>>
    BY <1>1 DEF DeleteRows, InsertRows, DropRows, SaveStep, vars, LoadSharedTaskState
  <2> QED BY <2>1, NothingPosted DEF WorldStep
<1>2. ASSUME NEW i \in Ids, Process(i) PROVE WorldStep
  <2>1. UNCHANGED <<present, copy, row, paid, crossed>> /\ i \in live /\ Terminate(i)
    BY <1>2 DEF Process
  <2> QED BY <2>1, RemoverPosts DEF WorldStep
<1>3. CASE PurgeAllSharedTasks
  <2>1. /\ UNCHANGED <<present, copy, row, paid, crossed>>
        /\ inbox' = [p \in Players |-> IF p \in present
                       THEN Append(inbox[p], Packet("load", NoTask, 0)) ELSE inbox[p]]
    BY <1>3 DEF PurgeAllSharedTasks
  <2>2. PICK m \in Telling : m = Packet("load", NoTask, 0)
    BY SomePackets
  <2>3. m.op # "update"
    BY <2>2 DEF Packet
  <2>4. \A q \in Players : Posted(q)
    BY <2>1, <2>2, <2>3 DEF Posted
  <2> QED BY <2>1, <2>4 DEF WorldStep
<1> QED BY <1>1, <1>2, <1>3

-----------------------------------------------------------------------------
(* The reward and the steps of the zones *)

\* A step that changes no more than the counts of q's copy and rows.
LEMMA RewardAside ==
  ASSUME Types, Types', FinishedOK, Grows, Shut, NEW q \in Players, RewardOK(q),
         inbox'[q] = inbox[q], q \in present' => q \in present, q \in crossed => q \in crossed',
         copy'[q].task = copy[q].task, copy'[q].rewarded = copy[q].rewarded,
         row'[q].task = row[q].task, row'[q].rewarded = row[q].rewarded,
         \A i \in Ids : paid'[i][q] = paid[i][q]
  PROVE  RewardOK(q)'
<1>1. AgreeOK(q)'
  BY DEF RewardOK, AgreeOK, Agreed, ToLoad
<1>2. NewsOK(q)'
  BY DEF RewardOK, NewsOK, Grows
<1>3. PaidBy(row[q], q)'
  BY PaidKeeps DEF RewardOK
<1> QED BY <1>1, <1>2, <1>3 DEF RewardOK

LEMMA NewsRead ==
  ASSUME Types, NEW p \in Players, NEW op, Gets(p, op), NewsOK(p)
  PROVE  NewsOK(p)'
<1>1. /\ inbox[p] \in Seq(Telling) /\ inbox[p] # <<>> /\ inbox'[p] = Tail(inbox[p])
      /\ done' = done
  BY DEF Types, Rest, LinksOK, Gets
<1>2. \A n \in DOMAIN inbox'[p] : n + 1 \in DOMAIN inbox[p] /\ inbox'[p][n] = inbox[p][n + 1]
  BY <1>1
<1> QED BY <1>1, <1>2 DEF NewsOK

\* What p's rows say of its payments, when c is to be loaded.
Credited(c, p) ==
  \A i \in Ids : paid[i][p] # 0 =>
    done[i] = Goal /\ (p \notin crossed =>
      paid[i][p] = 1 /\ ((c.task = i /\ c.rewarded) \/ members[i][p] = "none"))

LEMMA LoadPays ==
  ASSUME Types, NEW p \in Players, NEW c \in OwnRows, LoadClientTaskState(p, c),
         UNCHANGED <<done, members>>, Credited(c, p)
  PROVE  PaidBy(row[p], p)' /\ Agreed(p)'
<1> DEFINE i   == TaskOf(rows, p)
           had == StateToLocal(c, i)
           now == IF i = NoTask THEN NoRow ELSE WithPersistedState(had, i)
<1>1. /\ row'[p] = now /\ copy'[p].task = now.task /\ copy'[p].rewarded = now.rewarded
      /\ paid' = IF Pays(had, i) THEN [paid EXCEPT ![i][p] = @ + 1] ELSE paid
      /\ p \notin crossed' => p \notin crossed /\ ~Foreign(c, i) /\ i = TaskOf(members, p)
  BY DEF LoadClientTaskState, Types, Rest, ZonesOK
<1>2. Agreed(p)'
  <2> HIDE DEF now
  <2> QED BY <1>1 DEF Agreed
<1>3. i \in 0 .. MaxTasks /\ NoTask \notin Ids /\ paid \in [Ids -> [Players -> Nat]]
  <2>1. i \in 0 .. MaxTasks
    BY Zeros DEF TaskOf
  <2> QED BY <2>1 DEF Types, Rest, GhostsOK, Ids, NoTask
<1>4. /\ Pays(had, i) => i \in Ids /\ done[i] = Goal
      /\ \A j \in Ids : paid'[j][p] = IF Pays(had, i) /\ j = i THEN paid[j][p] + 1 ELSE paid[j][p]
  <2> HIDE DEF i, had
  <2>1. Pays(had, i) => i \in Ids /\ done[i] = Goal
    BY <1>3 DEF Pays, Behind, Ids, NoTask
  <2>2. CASE Pays(had, i)
    <3>1. paid' = [paid EXCEPT ![i] = [paid[i] EXCEPT ![p] = @ + 1]]
      BY <1>1, <2>2
    <3> QED BY <1>3, <2>1, <2>2, <3>1
  <2>3. CASE ~Pays(had, i)
    BY <1>1, <2>3
  <2> QED BY <2>1, <2>2, <2>3
<1>5. i # NoTask /\ ~Foreign(c, i) =>
        /\ now.task = i
        /\ had.rewarded => now.rewarded
        /\ Pays(had, i) => ~had.rewarded /\ now.rewarded
        /\ c.task = i => had = c
  <2> SUFFICES ASSUME i # NoTask, ~Foreign(c, i)
               PROVE  /\ WithPersistedState(had, i).task = i
                      /\ had.rewarded => WithPersistedState(had, i).rewarded
                      /\ Pays(had, i) => ~had.rewarded /\ WithPersistedState(had, i).rewarded
                      /\ c.task = i => had = c
    OBVIOUS
  <2>1. had \in OwnRows /\ had.task = i /\ (c.task = i => had = c)
    <3>1. had \in OwnRows
      BY <1>3, CountsFit DEF Types
    <3>2. had.task = i
      BY DEF StateToLocal, Foreign
    <3>3. c.task = i => had = c
      BY DEF StateToLocal
    <3> QED BY <3>1, <3>2, <3>3
  <2> HIDE DEF had, i
  <2>2. CASE ~Behind(had, i)
    BY <2>1, <2>2 DEF WithPersistedState, Pays
  <2>3. CASE Behind(had, i)
    <3>1. /\ WithPersistedState(had, i).task = had.task
          /\ WithPersistedState(had, i).rewarded = (had.rewarded \/ Pays(had, i))
      BY <2>1, <2>3 DEF WithPersistedState, OwnRows
    <3>2. Pays(had, i) => ~had.rewarded
      BY DEF Pays
    <3> QED BY <2>1, <3>1, <3>2
  <2> QED BY <2>2, <2>3
<1>6. Same(TaskOf(members, p), members, p)
  BY OneTask, TaskFound DEF Types
<1>7. i = NoTask => now.task = NoTask
  BY DEF NoRow
<1> HIDE DEF i, had, now
<1>8. ASSUME NEW j \in Ids, paid'[j][p] # 0 PROVE done[j] = Goal
  BY <1>4, <1>8 DEF Credited
<1>9. ASSUME NEW j \in Ids, paid'[j][p] # 0, p \notin crossed'
      PROVE  paid'[j][p] = 1 /\ IF now.task = j THEN now.rewarded ELSE members[j][p] = "none"
  <2>1. p \notin crossed /\ ~Foreign(c, i) /\ Same(i, members, p)
    BY <1>1, <1>6, <1>9
  <2>2. i = j <=> members[j][p] # "none"
    BY <2>1 DEF Same
  <2>3. paid[j][p] # 0 => paid[j][p] = 1 /\ ((c.task = j /\ c.rewarded) \/ members[j][p] = "none")
    BY <2>1 DEF Credited
  <2>4. CASE j # i
    <3>1. now.task # j
      BY <1>3, <1>5, <1>7, <2>1, <2>4
    <3>2. paid'[j][p] = paid[j][p]
      BY <1>4, <2>4
    <3> QED BY <1>9, <2>2, <2>3, <2>4, <3>1, <3>2
  <2>5. CASE j = i
    <3>1. i # NoTask /\ now.task = i
      BY <1>3, <1>5, <2>1, <2>5
    <3>2. CASE paid[j][p] # 0
      <4>1. c.task = i /\ c.rewarded /\ paid[j][p] = 1
        BY <2>2, <2>3, <2>5, <3>2
      <4>2. had.rewarded /\ now.rewarded /\ ~Pays(had, i)
        BY <1>5, <2>1, <3>1, <4>1
      <4> QED BY <1>4, <3>1, <2>5, <4>1, <4>2
    <3>3. CASE paid[j][p] = 0
      <4>1. Pays(had, i)
        BY <1>4, <1>9, <3>3
      <4>2. now.rewarded
        BY <1>5, <2>1, <3>1, <4>1
      <4> QED BY <1>4, <2>5, <3>1, <3>3, <4>1, <4>2
    <3> QED BY <3>2, <3>3
  <2> QED BY <2>4, <2>5
<1> QED BY <1>1, <1>2, <1>8, <1>9 DEF PaidBy

LEMMA LoadedReward ==
  ASSUME Types, NEW p \in Players, p \in present, RewardOK(p), Loads(p) \/ SharedTaskAcceptNewTask(p)
  PROVE  RewardOK(p)'
<1>1. /\ row[p] \in OwnRows /\ AgreeOK(p) /\ NewsOK(p) /\ PaidBy(row[p], p)
  BY DEF Types, Rest, ZonesOK, RewardOK
<1>2. PICK op : Gets(p, op)
  BY DEF Loads, SharedTaskAcceptNewTask
<1>3. NewsOK(p)' /\ UNCHANGED <<done, members>>
  BY <1>1, <1>2, NewsRead DEF Gets
<1>4. Credited(row[p], p)
  BY <1>1 DEF PaidBy, Credited
<1>5. CASE Loads(p)
  <2>1. LoadClientTaskState(p, row[p])
    BY <1>5 DEF Loads
  <2> QED BY <1>1, <1>3, <1>4, <2>1, LoadPays DEF RewardOK, AgreeOK
<1>6. CASE SharedTaskAcceptNewTask(p)
  <2> DEFINE k == Head(inbox[p]).id
             c == [NoRow EXCEPT !.task = k]
  <2>1. Gets(p, "accept") /\ LoadClientTaskState(p, IF copy[p].task = NoTask THEN c ELSE row[p])
    BY <1>6 DEF SharedTaskAcceptNewTask
  <2>2. k \in 0 .. MaxTasks
    BY <2>1, GotFits DEF Types, Packets, Telling
  <2>3. c \in OwnRows
    BY <2>2, NoRowFits
  <2>4. CASE copy[p].task # NoTask
    <3>1. LoadClientTaskState(p, row[p])
      BY <2>1, <2>4
    <3> QED BY <1>1, <1>3, <1>4, <3>1, LoadPays DEF RewardOK, AgreeOK
  <2>5. CASE copy[p].task = NoTask
    <3>1. row[p].task = NoTask
      BY <1>1, <2>1, <2>5 DEF AgreeOK, Agreed, ToLoad, Gets
    <3>2. LoadClientTaskState(p, c)
      BY <2>1, <2>5
    <3> HIDE DEF c
    <3>3. Credited(c, p)
      BY <1>1, <3>1 DEF PaidBy, Credited, Ids, NoTask
    <3> QED BY <1>1, <1>3, <2>3, <3>2, <3>3, LoadPays DEF RewardOK, AgreeOK
  <2> QED BY <2>4, <2>5
<1> QED BY <1>5, <1>6

LEMMA CancelledReward ==
  ASSUME Types, NEW p \in Players, p \in present, RewardOK(p), Cancelled(p)
  PROVE  RewardOK(p)'
<1> DEFINE k == Head(inbox[p]).id
<1>1. /\ row \in [Players -> OwnRows] /\ copy \in [Players -> Copies]
      /\ AgreeOK(p) /\ NewsOK(p) /\ PaidBy(row[p], p) /\ NoTask \notin Ids
  BY DEF Types, Rest, ZonesOK, RewardOK, Ids, NoTask
<1>2. /\ Gets(p, "quit") /\ UNCHANGED <<done, members, paid>>
      /\ row'[p] = NoRow /\ copy'[p].task = NoTask
      /\ p \notin crossed' => /\ p \notin crossed /\ copy[p].task \in {NoTask, k}
                              /\ TaskOf(members, p) # k
  BY <1>1 DEF Cancelled, Gets
<1>3. Agreed(p)
  BY <1>1, <1>2 DEF AgreeOK, ToLoad, Gets
<1>4. NewsOK(p)'
  BY <1>1, <1>2, NewsRead
<1>5. Agreed(p)'
  BY <1>2 DEF Agreed, NoRow
<1>6. Same(TaskOf(members, p), members, p)
  BY OneTask, TaskFound DEF Types
<1>7. ASSUME NEW j \in Ids, paid[j][p] # 0, p \notin crossed' PROVE members[j][p] = "none"
  <2>1. CASE row[p].task = j
    <3>1. k = j
      BY <1>1, <1>2, <1>3, <1>7, <2>1 DEF Agreed
    <3> QED BY <1>2, <1>6, <1>7, <3>1 DEF Same
  <2>2. CASE row[p].task # j
    BY <1>1, <1>2, <1>7, <2>2 DEF PaidBy
  <2> QED BY <2>1, <2>2
<1>8. PaidBy(row[p], p)'
  BY <1>1, <1>2, <1>7 DEF PaidBy, NoRow
<1> QED BY <1>4, <1>5, <1>8 DEF RewardOK, AgreeOK

LEMMA UpdatedReward ==
  ASSUME Types, NEW p \in Players, p \in present, RewardOK(p), SharedTaskIncrementDoneCount(p)
  PROVE  RewardOK(p)'
<1> DEFINE m   == Head(inbox[p])
           now == Confirmed(copy[p], m.n)
<1>1. /\ row \in [Players -> OwnRows] /\ copy \in [Players -> Copies]
      /\ paid \in [Ids -> [Players -> Nat]]
      /\ AgreeOK(p) /\ NewsOK(p) /\ PaidBy(row[p], p) /\ NoTask \notin Ids
  BY DEF Types, Rest, ZonesOK, GhostsOK, RewardOK, Ids, NoTask
<1>2. /\ Gets(p, "update") /\ UNCHANGED <<done, members>> /\ copy' = [copy EXCEPT ![p] = now]
      /\ now.task = NoTask => row'[p] = row[p]
      /\ now.task # NoTask => row'[p].task = now.task /\ row'[p].rewarded = now.rewarded
      /\ paid' = IF now.rewarded /\ ~copy[p].rewarded
                 THEN [paid EXCEPT ![m.id][p] = @ + 1] ELSE paid
      /\ p \notin crossed' => p \notin crossed /\ copy[p].task = m.id
  BY <1>1 DEF SharedTaskIncrementDoneCount, Gets
<1>3. Agreed(p)
  BY <1>1, <1>2 DEF AgreeOK, ToLoad, Gets
<1>4. NewsOK(p)'
  BY <1>1, <1>2, NewsRead
<1>5. m.id \in Ids /\ (m.n = Goal => done[m.id] = Goal)
  <2>1. inbox[p] \in Seq(Telling) /\ inbox[p] # <<>> /\ m.op = "update"
    BY <1>2 DEF Types, Rest, LinksOK, Gets
  <2>2. 1 \in DOMAIN inbox[p] /\ m = inbox[p][1]
    BY <2>1
  <2> QED BY <1>1, <2>1, <2>2 DEF NewsOK
<1>6. now.task = copy[p].task /\ now.rewarded = (copy[p].rewarded \/ m.n = Goal)
  BY <1>1 DEF Confirmed, Copies
<1> HIDE DEF now, m
<1>7. copy'[p] = now
  BY <1>1, <1>2
<1>8. Agreed(p)'
  BY <1>2, <1>3, <1>6, <1>7 DEF Agreed
<1>9. \A j \in Ids : paid'[j][p] = IF now.rewarded /\ ~copy[p].rewarded /\ j = m.id
                                   THEN paid[j][p] + 1 ELSE paid[j][p]
  <2>1. CASE now.rewarded /\ ~copy[p].rewarded
    <3>1. paid' = [paid EXCEPT ![m.id] = [paid[m.id] EXCEPT ![p] = @ + 1]]
      BY <1>2, <2>1
    <3> QED BY <1>1, <1>5, <2>1, <3>1
  <2>2. CASE ~(now.rewarded /\ ~copy[p].rewarded)
    BY <1>2, <2>2
  <2> QED BY <2>1, <2>2
<1>10. ASSUME NEW j \in Ids, paid'[j][p] # 0 PROVE done[j] = Goal
  BY <1>1, <1>5, <1>6, <1>9, <1>10 DEF PaidBy
<1>11. ASSUME NEW j \in Ids, paid'[j][p] # 0, p \notin crossed'
       PROVE  paid'[j][p] = 1 /\ IF row'[p].task = j THEN row'[p].rewarded ELSE members[j][p] = "none"
  <2>1. /\ p \notin crossed /\ copy[p].task = m.id /\ now.task = m.id /\ row[p].task = m.id
        /\ row[p].rewarded = copy[p].rewarded /\ row'[p].task = m.id /\ row'[p].rewarded = now.rewarded
    BY <1>1, <1>2, <1>3, <1>5, <1>6, <1>11 DEF Agreed
  <2>2. paid[j][p] # 0 => paid[j][p] = 1 /\ IF j = m.id THEN copy[p].rewarded ELSE members[j][p] = "none"
    BY <1>1, <2>1 DEF PaidBy
  <2>3. CASE j # m.id
    BY <1>9, <1>11, <2>1, <2>2, <2>3
  <2>4. CASE j = m.id
    <3>1. CASE paid[j][p] # 0
      <4>1. copy[p].rewarded /\ now.rewarded /\ paid[j][p] = 1
        BY <1>6, <2>2, <2>4, <3>1
      <4> QED BY <1>9, <2>1, <2>4, <4>1
    <3>2. CASE paid[j][p] = 0
      <4>1. now.rewarded /\ ~copy[p].rewarded
        BY <1>9, <1>11, <3>2
      <4> QED BY <1>9, <2>1, <2>4, <3>2, <4>1
    <3> QED BY <3>1, <3>2
  <2> QED BY <2>3, <2>4
<1>12. PaidBy(row[p], p)'
  BY <1>2, <1>10, <1>11 DEF PaidBy
<1> QED BY <1>4, <1>8, <1>12 DEF RewardOK, AgreeOK

LEMMA PlayedReward ==
  ASSUME Types, Types', FinishedOK, Grows, Shut, MirrorInv, \A q \in Players : RewardOK(q),
         NEW p \in Players, Elsewhere(p),
         ~(Announced(p) \/ LeavingZone(p) \/ InvitePlayerByPlayerName(p)),
         NEW q \in Players
  PROVE  RewardOK(q)'
<1>1. /\ Mirror(p) /\ RewardOK(p) /\ RewardOK(q)
      /\ copy \in [Players -> Copies] /\ row \in [Players -> OwnRows]
      /\ inbox \in [Players -> Seq(Telling)] /\ paid \in [Ids -> [Players -> Nat]]
  BY DEF MirrorInv, Types, Rest, ZonesOK, LinksOK, GhostsOK
<1>3. CASE \/ Loads(p) \/ SharedTaskAcceptNewTask(p) \/ Cancelled(p)
           \/ SharedTaskIncrementDoneCount(p)
  <2>1. CASE q = p
    <3>1. p \in present
      BY <1>1, <1>3 DEF Mirror, Loads, SharedTaskAcceptNewTask, Cancelled,
         SharedTaskIncrementDoneCount, Gets
    <3> QED BY <1>1, <1>3, <2>1, <3>1, LoadedReward, CancelledReward, UpdatedReward
  <2>2. CASE q # p
    <3>1. UNCHANGED present /\ inbox'[q] = inbox[q]
      BY <1>1, <1>3, <2>2 DEF Loads, SharedTaskAcceptNewTask, Cancelled,
         SharedTaskIncrementDoneCount, Gets
    <3>2. copy'[q] = copy[q] /\ row'[q] = row[q] /\ (q \in crossed => q \in crossed')
      BY <1>1, <1>3, <2>2 DEF Loads, SharedTaskAcceptNewTask, Cancelled,
         SharedTaskIncrementDoneCount, LoadClientTaskState
    <3>3. \A i \in Ids : paid'[i][q] = paid[i][q]
      <4>1. UNCHANGED paid \/ \E i \in 0 .. MaxTasks : paid' = [paid EXCEPT ![i][p] = @ + 1]
        <5>1. TaskOf(rows, p) \in 0 .. MaxTasks
          BY Zeros DEF TaskOf
        <5>2. SharedTaskIncrementDoneCount(p) => Head(inbox[p]).id \in 0 .. MaxTasks
          BY GotFits DEF SharedTaskIncrementDoneCount, Types, Packets, Telling
        <5> QED BY <1>3, <5>1, <5>2 DEF Loads, SharedTaskAcceptNewTask, Cancelled,
                SharedTaskIncrementDoneCount, LoadClientTaskState
      <4>2. ASSUME NEW i \in 0 .. MaxTasks, paid' = [paid EXCEPT ![i][p] = @ + 1], NEW j \in Ids
            PROVE  paid'[j][q] = paid[j][q]
        <5>1. paid' = [paid EXCEPT ![i] = [paid[i] EXCEPT ![p] = @ + 1]]
          BY <4>2
        <5>2. CASE j = i
          BY <1>1, <2>2, <5>1, <5>2
        <5>3. CASE j # i
          BY <1>1, <5>1, <5>3
        <5> QED BY <5>2, <5>3
      <4> QED BY <4>1, <4>2
    <3> QED BY <1>1, <3>1, <3>2, <3>3, RewardAside
  <2> QED BY <2>1, <2>2
<1>4. CASE InvitePlayer(p)
  <2>1. UNCHANGED <<present, copy, row, paid, crossed, done, members>> /\ Gets(p, "invite")
    BY <1>4 DEF InvitePlayer, Gets
  <2>2. CASE q = p
    <3>1. NewsOK(p)'
      BY <1>1, <2>1, NewsRead DEF RewardOK
    <3>2. AgreeOK(p)' /\ PaidBy(row[p], p)'
      BY <1>1, <2>1 DEF RewardOK, AgreeOK, Agreed, ToLoad, Gets, PaidBy
    <3> QED BY <2>2, <3>1, <3>2 DEF RewardOK
  <2>3. CASE q # p
    <3>1. inbox'[q] = inbox[q]
      BY <1>1, <2>1, <2>3 DEF Gets
    <3> QED BY <1>1, <2>1, <3>1, RewardAside
  <2> QED BY <2>2, <2>3
<1>5. CASE \/ \E t \in Templates : RequestTask(p, t)
           \/ \E op \in {"quit", "kickall", "lock", "end"} : Commands(p, op, p)
           \/ \E op \in {"remove", "makeleader", "add"}, o \in Players : Commands(p, op, o)
           \/ \E i \in Ids, answer \in {"yes", "no"} : Answers(p, i, answer)
  <2>1. UNCHANGED <<present, copy, row, paid, crossed, inbox>>
    BY <1>5 DEF RequestTask, Commands, Answers, Playing
  <2> QED BY <1>1, <2>1, RewardAside
<1>6. CASE Kills(p)
  <2>1. PICK n : copy' = [o \in Players |-> IF o \in present /\ copy[o].id = copy[p].id
                           THEN [copy[o] EXCEPT !.count = n] ELSE copy[o]]
    BY <1>6 DEF Kills
  <2>2. copy'[q].task = copy[q].task /\ copy'[q].rewarded = copy[q].rewarded
    BY <1>1, <2>1 DEF Copies
  <2>3. UNCHANGED <<present, row, paid, crossed, inbox>>
    BY <1>6 DEF Kills, Playing
  <2> QED BY <1>1, <2>2, <2>3, RewardAside
<1>7. Saved(p).task = row[p].task /\ Saved(p).rewarded = row[p].rewarded
  BY <1>1 DEF Saved, OwnRows
<1>8. CASE Saves(p)
  <2>1. /\ UNCHANGED <<present, paid, crossed, inbox>>
        /\ row' = [row EXCEPT ![p] = Saved(p)] /\ copy' = [copy EXCEPT ![p].updated = FALSE]
    BY <1>8 DEF Saves, Playing
  <2>2. copy'[q].task = copy[q].task /\ copy'[q].rewarded = copy[q].rewarded
    BY <1>1, <2>1 DEF Copies
  <2>3. row'[q].task = row[q].task /\ row'[q].rewarded = row[q].rewarded
    BY <1>1, <1>7, <2>1
  <2> QED BY <1>1, <2>1, <2>2, <2>3, RewardAside
<1>9. CASE LeaveZone(p)
  <2>1. /\ UNCHANGED <<paid, crossed>> /\ present' = present \ {p}
        /\ row' = [row EXCEPT ![p] = Saved(p)] /\ inbox' = [inbox EXCEPT ![p] = <<>>]
        /\ copy' = [copy EXCEPT ![p] = NoCopy]
    BY <1>9 DEF LeaveZone
  <2>2. row'[q].task = row[q].task /\ row'[q].rewarded = row[q].rewarded
    BY <1>1, <1>7, <2>1
  <2>3. CASE q = p
    <3>1. AgreeOK(q)' /\ NewsOK(q)'
      BY <1>1, <2>1, <2>3 DEF AgreeOK, NewsOK
    <3>2. PaidBy(row[q], q)'
      BY <1>1, <2>1, <2>2, PaidKeeps DEF RewardOK
    <3> QED BY <3>1, <3>2 DEF RewardOK
  <2>4. CASE q # p
    BY <1>1, <2>1, <2>2, <2>4, RewardAside
  <2> QED BY <2>3, <2>4
<1>10. CASE EnterZone(p)
  <2>1. /\ UNCHANGED <<paid, crossed, row, copy>> /\ present' = present \cup {p}
        /\ inbox' = [inbox EXCEPT ![p] = <<Packet("load", NoTask, 0)>>]
    BY <1>10 DEF EnterZone
  <2>2. CASE q = p
    <3>1. inbox'[q] = <<Packet("load", NoTask, 0)>> /\ Packet("load", NoTask, 0).op = "load"
      BY <1>1, <2>1, <2>2 DEF Packet
    <3>2. AgreeOK(q)' /\ NewsOK(q)'
      BY <3>1 DEF AgreeOK, ToLoad, NewsOK
    <3>3. PaidBy(row[q], q)'
      BY <1>1, <2>1, PaidKeeps DEF RewardOK
    <3> QED BY <3>2, <3>3 DEF RewardOK
  <2>3. CASE q # p
    BY <1>1, <2>1, <2>3, RewardAside
  <2> QED BY <2>2, <2>3
<1> QED BY <1>3, <1>4, <1>5, <1>6, <1>8, <1>9, <1>10 DEF Elsewhere

LEMMA RewardStart == Init => RewardInv
<1> SUFFICES ASSUME Init PROVE RewardInv
  OBVIOUS
<1>1. FinishedOK
  BY DEF Init, FinishedOK
<1>2. \A p \in Players : RewardOK(p)
  BY DEF Init, RewardOK, AgreeOK, Agreed, NewsOK, PaidBy, NoCopy, NoRow
<1> QED BY <1>1, <1>2 DEF RewardInv

LEMMA RewardNext == Types /\ Types' /\ MirrorInv /\ RewardInv /\ [Next]_vars => RewardInv'
<1> SUFFICES ASSUME Types, Types', MirrorInv, RewardInv, [Next]_vars PROVE RewardInv'
  OBVIOUS
<1>1. Grows /\ Shut
  BY Grown, StaysShut DEF Types
<1>2. CASE WorldStep
  BY <1>1, <1>2, RewardByWorld
<1>3. ASSUME NEW p \in Players, Actions(p), ~WorldStep PROVE RewardInv'
  <2>1. Elsewhere(p) /\ ~(Announced(p) \/ LeavingZone(p) \/ InvitePlayerByPlayerName(p))
    BY <1>3, ByPlayer, PlayerPosts
  <2>2. FinishedOK /\ \A q \in Players : RewardOK(q)
    BY DEF RewardInv
  <2>3. \A q \in Players : RewardOK(q)'
    BY <1>1, <2>1, <2>2, PlayedReward
  <2>4. FinishedOK'
    BY <1>1, <2>2, StaysFinished
  <2> QED BY <2>3, <2>4 DEF RewardInv
<1> QED BY <1>2, <1>3, OwnPosts DEF Next

\* A player is paid once at most for a task, by the update or by the load of its
\* copy, and only when world has the task as done.
THEOREM PaidOnce == Spec => []RewardedOnce
<1>1. Types /\ RewardInv => RewardedOnce
  <2> SUFFICES ASSUME Types, RewardInv, NEW i \in Ids, NEW p \in Players \ crossed
               PROVE  paid[i][p] <= IF done[i] = Goal THEN 1 ELSE 0
    BY DEF RewardedOnce
  <2>1. PaidBy(row[p], p) /\ paid[i][p] \in Nat
    BY DEF RewardInv, RewardOK, Types, Rest, GhostsOK
  <2>2. paid[i][p] = 0 \/ (paid[i][p] = 1 /\ done[i] = Goal)
    BY <2>1 DEF PaidBy
  <2> QED BY <2>2
<1> QED BY <1>1, TypesStart, TypesNext, MirrorStart, MirrorNext, RewardStart, RewardNext, PTL DEF Spec

=============================================================================
