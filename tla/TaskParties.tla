----------------------------- MODULE TaskParties -----------------------------
(***************************************************************************)
(* What world's shared tasks promise about the parties that play them,     *)
(* whatever zones, links and tables are in between: a player is in one     *)
(* party at most; a party never outgrows its size; a player leaves for     *)
(* another to lead, while there is another; nobody joins a party that is   *)
(* shut; a party that is disbanded loses everybody at once, for good.      *)
(***************************************************************************)
EXTENDS Naturals, FiniteSets

CONSTANTS
  Players,
  Ids,         \* the numbers that parties may have
  MaxPlayers   \* the size that a party may have

VARIABLES
  formed,      \* how many parties there have been, which numbers the next
  standing,    \* the ones that are not disbanded
  party,       \* number -> the players in it
  lead,        \* number -> the leader, as a set; nobody once it has run empty
  shut         \* the ones that take nobody in

partyVars == <<formed, standing, party, lead, shut>>

Free(p) == \A i \in standing : p \notin party[i]

PartyInit ==
  /\ formed = 0 /\ standing = {} /\ shut = {}
  /\ party = [i \in Ids |-> {}] /\ lead = [i \in Ids |-> {}]

\* p leads a party of players who are in none, which may be shut from the start.
Form(p, g) ==
  /\ formed' = formed + 1
  /\ formed' \in Ids
  /\ p \in g
  /\ \A q \in g : Free(q)
  /\ Cardinality(g) <= MaxPlayers
  /\ standing' = standing \cup {formed'}
  /\ party' = [party EXCEPT ![formed'] = g]
  /\ lead' = [lead EXCEPT ![formed'] = {p}]
  /\ shut' \in {shut, shut \cup {formed'}}

Join(i, p) ==
  /\ i \notin shut
  /\ Free(p)
  /\ Cardinality(party[i]) < MaxPlayers
  /\ party' = [party EXCEPT ![i] = @ \cup {p}]
  /\ UNCHANGED <<formed, standing, lead, shut>>

\* Who may lead party i once p has left.
Successors(i, p) ==
  IF p \notin lead[i] THEN {lead[i]}
  ELSE IF party[i] = {p} THEN {{}}
  ELSE {{q} : q \in party[i] \ {p}}

Part(i, p) ==
  /\ p \in party[i]
  /\ party' = [party EXCEPT ![i] = @ \ {p}]
  /\ \E s \in Successors(i, p) : lead' = [lead EXCEPT ![i] = s]
  /\ UNCHANGED <<formed, standing, shut>>

HandOver(i, q) ==
  /\ lead[i] # {}
  /\ q \in party[i]
  /\ lead' = [lead EXCEPT ![i] = {q}]
  /\ UNCHANGED <<formed, standing, party, shut>>

Shut(s) ==
  /\ shut' = shut \cup s
  /\ UNCHANGED <<formed, standing, party, lead>>

Disband(s) ==
  /\ standing' = standing \ s
  /\ shut' = shut \ s
  /\ party' = [i \in Ids |-> IF i \in s THEN {} ELSE party[i]]
  /\ lead' = [i \in Ids |-> IF i \in s THEN {} ELSE lead[i]]
  /\ UNCHANGED formed

PartyNext ==
  \/ \E s \in SUBSET standing : Shut(s) \/ Disband(s)
  \/ \E i \in standing, p \in Players : HandOver(i, p) \/ Part(i, p) \/ Join(i, p)
  \/ \E g \in SUBSET Players : \E p \in g : Form(p, g)

PartySpec == PartyInit /\ [][PartyNext]_partyVars
=============================================================================
