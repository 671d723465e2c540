---------------------------- MODULE LegionProofs ----------------------------
(***************************************************************************)
(* With a quorum of more than half there is one ruling lord, for every      *)
(* number of nodes and every valor, whatever packets are lost and whoever   *)
(* joins, leaves and crashes; and the election stops only where the best    *)
(* living node is the lord.                                                 *)
(***************************************************************************)
EXTENDS Legion, FiniteSetTheorems, WellFoundedInduction, TLAPS

KnownType == UNION {[K -> NodeRecord] : K \in SUBSET Node}

Gones == {n \in Node : legion[n].status = "gone"}

\* The nodes n counts as members.
Peers(n) == {n} \cup DOMAIN legion[n].known

\* c has announced the membership X: it still does, somebody has it in a packet of c, or it
\* made l the lord, as E remembers.
Says(E, c, X) ==
    \/ X = legion[c].sum
    \/ \E x \in Node : c \in DOMAIN legion[x].known /\ X = legion[x].known[c].sum
    \/ \E l \in Node : legion[l].lord = TRUE /\ c \in E[l] /\ X = E[l]

\* A node forgets only those that are gone, so what it says at two times is ordered, ...
Chains(E) ==
    \A c \in Node, X, Y \in SUBSET Node : Says(E, c, X) /\ Says(E, c, Y) =>
        X \ Gones \subseteq Y \/ Y \ Gones \subseteq X

\* ... and it still knows whom it spoke of.
Remembers(E) ==
    \A c \in Node \ Gones, X \in SUBSET Node : Says(E, c, X) => X \ Gones \subseteq Peers(c)

\* The electorate of a lord.
Elects(E) ==
    \A l \in Node : legion[l].lord = TRUE => l \in E[l] /\ Cardinality(E[l]) >= Quorum

\* An instance is not on its own list.
NotOnOwnList == \A n \in Node : n \notin DOMAIN legion[n].known

\* Nobody is dead or suspended, and lists have no strangers.
ListsKept ==
    \A n \in Node :
        /\ legion[n].dead = FALSE /\ legion[n].suspended = FALSE
        /\ \A m \in DOMAIN legion[n].known : legion[m].status # "new"

\* A lord is up and no arbiter, and knows nobody better while it votes for itself.
LordsKept ==
    \A n \in Node : legion[n].lord = TRUE =>
        /\ legion[n].status = "up" /\ Valor[n] > 0 /\ legion[n].first = FALSE
        /\ legion[n].vote = n => \A m \in DOMAIN legion[n].known : Valor[m] > 0 => Better(n, m)

\* What holds while nobody was suspected wrongly and no hook failed.
Orderly ==
    /\ ListsKept /\ LordsKept
    /\ \E E \in [Node -> SUBSET Node] : Chains(E) /\ Remembers(E) /\ Elects(E)

\* The inductive invariant.
LegionInv ==
    /\ TypeOK /\ NotOnOwnList
    /\ clean = TRUE => Orderly
-----------------------------------------------------------------------------
(* The order of the candidates *)

\* Better orders the nodes: no two have the same uuid.
LEMMA BetterOrder ==
  ASSUME NEW a \in Node, NEW b \in Node
  PROVE  /\ ~ Better(a, a) /\ ~ (Better(a, b) /\ Better(b, a))
         /\ a # b => Better(a, b) \/ Better(b, a)
         /\ \A c \in Node : Better(a, b) /\ Better(b, c) => Better(a, c)
<1>1. \A x \in Node : x \in Nat /\ Valor[x] \in Nat
  BY LegionAssumption
<1> QED
  BY <1>1 DEF Better

\* Of every set of candidates one is the best, and Best finds it.
LEMMA BestIsBest ==
  ASSUME NEW S \in SUBSET Node, S # {}
  PROVE  Best(S) \in S /\ \A c \in S \ {Best(S)} : Better(Best(S), c)
<1> DEFINE Above(b) == {c \in S : Better(c, b)}
<1> DEFINE T == {Cardinality(Above(b)) : b \in S}
<1>1. \A b \in S : IsFiniteSet(Above(b)) /\ Cardinality(Above(b)) \in Nat
  <2>1. IsFiniteSet(S)
    BY LegionAssumption, FS_Subset
  <2>2. \A b \in S : Above(b) \in SUBSET S
    OBVIOUS
  <2> HIDE DEF Above
  <2> QED
    BY <2>1, <2>2, FS_Subset, FS_CardinalityType
<1> HIDE DEF Above
<1>2. T \subseteq Nat /\ T # {}
  BY <1>1
<1> HIDE DEF T
<1>3. PICK t \in T : \A u \in T : ~ (<<u, t>> \in OpToRel(<, Nat))
  BY <1>2, WFMin, NatLessThanWellFounded
<1>4. \A u \in T : ~ (u < t)
  <2>1. \A u \in T : u < t => <<u, t>> \in OpToRel(<, Nat)
    BY <1>2 DEF OpToRel
  <2> QED
    BY <1>3, <2>1, Zenon
<1>5. PICK b \in S : t = Cardinality(Above(b))
  BY DEF T
<1>6. Above(b) = {}
  <2> SUFFICES ASSUME NEW c \in Above(b)
               PROVE  FALSE
    OBVIOUS
  <2>1. c \in S /\ Better(c, b)
    BY DEF Above
  <2>2. Above(c) \subseteq Above(b) /\ c \notin Above(c)
    BY <2>1, BetterOrder DEF Above
  <2>3. Above(c) \in SUBSET (Above(b) \ {c})
    BY <2>2
  <2>4. Cardinality(Above(b) \ {c}) = Cardinality(Above(b)) - 1 /\ IsFiniteSet(Above(b) \ {c})
    BY <1>1, FS_RemoveElement
  <2>5. Cardinality(Above(c)) <= Cardinality(Above(b) \ {c})
    BY <2>3, <2>4, FS_Subset
  <2>6. Cardinality(Above(c)) \in Nat /\ Cardinality(Above(b)) \in Nat
    BY <1>1, <2>1
  <2>7. Cardinality(Above(c)) < t
    BY <1>5, <2>4, <2>5, <2>6
  <2>8. Cardinality(Above(c)) \in T
    BY <2>1 DEF T
  <2> QED
    BY <1>4, <2>7, <2>8
<1>7. \A c \in S \ {b} : Better(b, c)
  BY <1>6, BetterOrder DEF Above
<1> QED
  BY <1>7 DEF Best

\* The node an instance votes for is a node, and when it is itself nobody it knows is better.
LEMMA LordIsBest ==
  ASSUME NEW n \in Node, NEW r \in LegionRecord
  PROVE  /\ GetLord(n, r) \in Node
         /\ GetLord(n, r) = n => \A m \in DOMAIN r.known \ {n} : Valor[m] > 0 => Better(n, m)
<1>1. DOMAIN r.known \subseteq Node
  BY DEF LegionRecord
<1> DEFINE S == {n} \cup {m \in DOMAIN r.known : Valor[m] > 0}
<1>2. S \in SUBSET Node /\ S # {}
  BY <1>1
<1>3. GetLord(n, r) = Best(S)
  BY DEF GetLord
<1>4. Best(S) \in S /\ \A c \in S \ {Best(S)} : Better(Best(S), c)
  <2> HIDE DEF S
  <2> QED
    BY <1>2, BestIsBest
<1>5. GetLord(n, r) = n => \A m \in DOMAIN r.known \ {n} : Valor[m] > 0 => Better(n, m)
  <2> SUFFICES ASSUME GetLord(n, r) = n, NEW m \in DOMAIN r.known \ {n}, Valor[m] > 0
               PROVE  Better(n, m)
    OBVIOUS
  <2>1. m \in S \ {n}
    OBVIOUS
  <2> HIDE DEF S
  <2> QED
    BY <1>3, <1>4, <2>1
<1> QED
  BY <1>2, <1>3, <1>4, <1>5
-----------------------------------------------------------------------------
(* The lists, and a decision *)

\* A list is a function from a set of nodes.
LEMMA ListType ==
  ASSUME NEW g
  PROVE  /\ g \in KnownType => DOMAIN g \in SUBSET Node /\ \A k \in DOMAIN g : g[k] \in NodeRecord
         /\ \A D \in SUBSET Node : g \in [D -> NodeRecord] => g \in KnownType
BY DEF KnownType

\* The fields of an instance.
LEMMA FieldTypes ==
  ASSUME NEW r \in LegionRecord
  PROVE  /\ r.status \in {"new", "up", "gone"} /\ r.known \in KnownType /\ r.vote \in Vote
         /\ r.sum \in SUBSET Node /\ r.lord \in BOOLEAN /\ r.dead \in BOOLEAN /\ r.suspended \in BOOLEAN
         /\ r.first \in BOOLEAN
         /\ DOMAIN r.known \in SUBSET Node /\ \A k \in DOMAIN r.known : r.known[k] \in NodeRecord
<1>1. /\ r.status \in {"new", "up", "gone"} /\ r.known \in KnownType /\ r.vote \in Vote
      /\ r.sum \in SUBSET Node /\ r.lord \in BOOLEAN /\ r.dead \in BOOLEAN /\ r.suspended \in BOOLEAN
      /\ r.first \in BOOLEAN
  BY DEF LegionRecord, KnownType
<1> QED
  BY <1>1, ListType

\* What a new list leaves of an instance.
LEMMA WithList ==
  ASSUME NEW r \in LegionRecord, NEW g \in KnownType, NEW q, q = [r EXCEPT !.known = g]
  PROVE  /\ q \in LegionRecord /\ q.known = g /\ q.status = r.status /\ q.vote = r.vote /\ q.sum = r.sum
         /\ q.lord = r.lord /\ q.dead = r.dead /\ q.suspended = r.suspended /\ q.first = r.first
BY DEF LegionRecord, KnownType

\* Nodes are forgotten, ...
LEMMA RemoveFacts ==
  ASSUME NEW r \in LegionRecord, NEW S, NEW q, q = RemoveNodes(r, S)
  PROVE  /\ q \in LegionRecord /\ q.status = r.status /\ q.vote = r.vote /\ q.sum = r.sum
         /\ q.lord = r.lord /\ q.dead = r.dead /\ q.suspended = r.suspended /\ q.first = r.first
         /\ DOMAIN q.known = DOMAIN r.known \ S /\ \A k \in DOMAIN q.known : q.known[k] = r.known[k]
<1> DEFINE g == [k \in DOMAIN r.known \ S |-> r.known[k]]
<1>1. DOMAIN r.known \in SUBSET Node /\ \A k \in DOMAIN r.known : r.known[k] \in NodeRecord
  BY FieldTypes
<1>2. g \in [DOMAIN r.known \ S -> NodeRecord] /\ DOMAIN g = DOMAIN r.known \ S
  BY <1>1
<1>3. g \in KnownType
  BY <1>1, <1>2, ListType
<1>4. q = [r EXCEPT !.known = g]
  BY Zenon DEF RemoveNodes
<1>5. \A k \in DOMAIN g : g[k] = r.known[k]
  OBVIOUS
<1> HIDE DEF g
<1> QED
  BY <1>2, <1>3, <1>4, <1>5, WithList

\* ... and a packet of m is accounted.
LEMMA SeenFacts ==
  ASSUME TypeOK, NEW r \in LegionRecord, NEW m \in Node, NEW q, q = NodeSeen(r, m)
  PROVE  /\ q \in LegionRecord /\ q.status = r.status /\ q.vote = r.vote /\ q.sum = r.sum
         /\ q.lord = r.lord /\ q.dead = r.dead /\ q.suspended = r.suspended /\ q.first = r.first
         /\ DOMAIN q.known = DOMAIN r.known \cup {m}
         /\ \A k \in DOMAIN r.known \ {m} : q.known[k] = r.known[k]
         /\ q.known[m].sum = legion[m].sum /\ q.known[m].vote = legion[m].vote
<1> DEFINE e == [vote |-> legion[m].vote, sum |-> legion[m].sum]
<1> DEFINE g == [k \in DOMAIN r.known \cup {m} |-> IF k = m THEN e ELSE r.known[k]]
<1>0. legion[m] \in LegionRecord
  BY DEF TypeOK
<1>1. legion[m].vote \in Vote /\ legion[m].sum \in SUBSET Node
  BY <1>0, FieldTypes
<1>2. e \in NodeRecord /\ e.sum = legion[m].sum /\ e.vote = legion[m].vote
  BY <1>1 DEF NodeRecord
<1>3. q = [r EXCEPT !.known = g]
  BY Zenon DEF NodeSeen
<1> HIDE DEF e
<1>4. DOMAIN r.known \in SUBSET Node /\ \A k \in DOMAIN r.known : r.known[k] \in NodeRecord
  BY FieldTypes
<1>5. g \in [DOMAIN r.known \cup {m} -> NodeRecord] /\ DOMAIN g = DOMAIN r.known \cup {m}
  BY <1>2, <1>4
<1>6. g \in KnownType
  <2>1. DOMAIN r.known \cup {m} \in SUBSET Node
    BY <1>4
  <2> QED
    BY <1>5, <2>1, ListType
<1>7. g[m] = e /\ \A k \in DOMAIN r.known \ {m} : g[k] = r.known[k]
  OBVIOUS
<1> HIDE DEF g
<1> QED
  BY <1>2, <1>3, <1>5, <1>6, <1>7, WithList


\* n is elected with record r: all its nodes announce the membership it has, and they are a quorum.
Wins(n, r) ==
    /\ Valor[n] > 0
    /\ \A m \in DOMAIN r.known : r.known[m].sum = {n} \cup DOMAIN r.known
    /\ Cardinality({n} \cup DOMAIN r.known) >= Quorum

\* One of the outcomes of step2.
LEMMA Arms ==
  ASSUME NEW P \in BOOLEAN, NEW Q \in BOOLEAN, NEW R \in BOOLEAN, NEW a, NEW b, NEW c, NEW q,
         q = CASE P -> a [] Q -> b [] R -> b [] OTHER -> c
  PROVE  (P /\ q = a) \/ q = b \/ q = c
BY SMT

\* n becomes the lord in a record, ...
LEMMA Crowned ==
  ASSUME NEW r \in LegionRecord, NEW q, q = [r EXCEPT !.lord = TRUE]
  PROVE  /\ q \in LegionRecord /\ q.known = r.known /\ q.status = r.status /\ q.vote = r.vote
         /\ q.sum = r.sum /\ q.dead = r.dead /\ q.suspended = r.suspended /\ q.first = r.first
BY DEF LegionRecord

\* ... or is no lord.
LEMMA UnlordedFacts ==
  ASSUME NEW r \in LegionRecord, NEW q, q = Unlorded(r)
  PROVE  /\ q \in LegionRecord /\ q.known = r.known /\ q.status = r.status /\ q.vote = r.vote
         /\ q.sum = r.sum /\ q.dead = r.dead /\ q.suspended = r.suspended /\ q.first = r.first
         /\ q.lord = FALSE
BY DEF LegionRecord, Unlorded

\* A vote of all nodes counts them.
LEMMA VotesCount ==
  ASSUME NEW n \in Node, NEW r \in LegionRecord, n \notin DOMAIN r.known,
         r.sum = {n} \cup DOMAIN r.known,
         HasQuorum(Votes(r, Candidate(n, r))), Candidate(n, r) = n
  PROVE  Wins(n, r)
<1> DEFINE c == Candidate(n, r)
<1> DEFINE v == Votes(r, c)
<1> DEFINE k == Cardinality(DOMAIN r.known)
<1>1. Valor[n] > 0
  <2>1. n # NoLord
    BY LegionAssumption DEF NoLord
  <2> QED
    BY <2>1 DEF Candidate
<1>2. v > 0 /\ v >= Quorum
  BY DEF HasQuorum
<1>3. Agree(r, c) /\ v = 1 + k
  <2>1. CASE Agree(r, c)
    BY <2>1 DEF Votes
  <2>2. CASE ~Agree(r, c)
    <3>1. v = 0
      BY <2>2 DEF Votes
    <3> QED
      BY <1>2, <3>1
  <2> QED
    BY <2>1, <2>2
<1>4. k \in Nat /\ Cardinality({n} \cup DOMAIN r.known) = k + 1
  <2>1. IsFiniteSet(DOMAIN r.known) /\ k \in Nat
    BY FieldTypes, LegionAssumption, FS_Subset, FS_CardinalityType
  <2>2. Cardinality(DOMAIN r.known \cup {n}) = k + 1
    BY <2>1, FS_AddElement
  <2>3. DOMAIN r.known \cup {n} = {n} \cup DOMAIN r.known
    OBVIOUS
  <2> QED
    BY <2>1, <2>2, <2>3
<1>5. \A m \in DOMAIN r.known : r.known[m].sum = {n} \cup DOMAIN r.known
  BY <1>3 DEF Agree
<1>6. Quorum \in Nat
  BY LegionAssumption
<1>7. Cardinality({n} \cup DOMAIN r.known) >= Quorum
  <2> HIDE DEF k, v, c
  <2> QED
    BY <1>2, <1>3, <1>4, <1>6
<1> QED
  BY <1>1, <1>5, <1>7 DEF Wins

\* legions_check_nodes_step2.
LEMMA ElectedFacts ==
  ASSUME NEW n \in Node, NEW r \in LegionRecord, NEW warns \in BOOLEAN, n \notin DOMAIN r.known,
         r.sum = {n} \cup DOMAIN r.known,
         NEW q, q = Elected(n, r, Candidate(n, r), Votes(r, Candidate(n, r)), warns)
  PROVE  /\ q \in LegionRecord /\ q.known = r.known /\ q.status = r.status /\ q.vote = r.vote
         /\ q.sum = r.sum /\ q.dead = r.dead /\ q.suspended = r.suspended /\ q.first = r.first
         /\ q.lord = TRUE => r.lord = TRUE \/ Wins(n, r)
<1> DEFINE c == Candidate(n, r)
<1> DEFINE v == Votes(r, c)
<1> DEFINE t == [r EXCEPT !.lord = TRUE]
<1> DEFINE u == Unlorded(r)
<1> DEFINE P == HasQuorum(v) /\ c = n
<1> DEFINE Q == HasQuorum(v) /\ c # n
<1> DEFINE R == v > 0 /\ v < Quorum /\ warns
<1>1. q = CASE P -> t [] Q -> u [] R -> u [] OTHER -> r
  BY DEF Elected
<1>2. P \in BOOLEAN /\ Q \in BOOLEAN /\ R \in BOOLEAN
  BY DEF HasQuorum
<1>3. (P /\ q = t) \/ q = u \/ q = r
  <2> HIDE DEF P, Q, R, t, u
  <2> QED
    BY <1>1, <1>2, Arms
<1>4. P => Wins(n, r)
  BY VotesCount
<1>5. t = [r EXCEPT !.lord = TRUE] /\ u = Unlorded(r)
  OBVIOUS
<1> HIDE DEF P, t, u
<1>6. CASE P /\ q = t
  BY <1>4, <1>5, <1>6, Crowned
<1>7. CASE q = u
  BY <1>5, <1>7, UnlordedFacts
<1> QED
  BY <1>3, <1>6, <1>7

\* q is what the decision of n makes of r; the first round only ends itself.
Decided(n, r, q) ==
    /\ q \in LegionRecord /\ q.known = r.known /\ q.status = r.status
    /\ q.dead = r.dead /\ q.suspended = r.suspended /\ q.first = FALSE
    /\ r.first = TRUE => q.sum = r.sum /\ q.vote = r.vote /\ q.lord = r.lord
    /\ r.first = FALSE =>
          /\ q.sum = {n} \cup DOMAIN r.known
          /\ q.vote = n => \A m \in DOMAIN r.known : Valor[m] > 0 => Better(n, m)
          /\ q.lord = TRUE => r.lord = TRUE \/ Wins(n, r)

\* Decide decides.
LEMMA DecideFacts ==
  ASSUME NEW n \in Node, NEW r \in LegionRecord, NEW warns \in BOOLEAN, n \notin DOMAIN r.known,
         NEW q, q = Decide(n, r, warns)
  PROVE  Decided(n, r, q)
<1>0. r.first \in BOOLEAN
  BY FieldTypes
<1>1. CASE r.first = TRUE
  <2>1. q = [r EXCEPT !.first = FALSE]
    BY <1>1, Zenon DEF Decide
  <2>2. /\ q \in LegionRecord /\ q.known = r.known /\ q.status = r.status /\ q.vote = r.vote
        /\ q.sum = r.sum /\ q.dead = r.dead /\ q.suspended = r.suspended /\ q.first = FALSE
        /\ q.lord = r.lord
    BY <2>1 DEF LegionRecord
  <2> QED
    BY <1>1, <2>2 DEF Decided
<1>2. CASE r.first = FALSE
  <2> DEFINE a == WithLord(n, r)
  <2> DEFINE b == WithChecksum(n, a)
  <2>1. /\ a \in LegionRecord /\ a.known = r.known /\ a.status = r.status /\ a.vote = GetLord(n, r)
        /\ a.dead = r.dead /\ a.suspended = r.suspended /\ a.first = r.first /\ a.lord = r.lord
    <3>1. GetLord(n, r) \in Vote
      BY LordIsBest DEF Vote
    <3>2. a = [r EXCEPT !.vote = GetLord(n, r)]
      BY DEF WithLord
    <3> HIDE DEF a
    <3> QED
      BY <3>1, <3>2 DEF LegionRecord
  <2> HIDE DEF a
  <2>2. /\ b \in LegionRecord /\ b.known = r.known /\ b.status = r.status /\ b.vote = GetLord(n, r)
        /\ b.dead = r.dead /\ b.suspended = r.suspended /\ b.first = r.first /\ b.lord = r.lord
        /\ b.sum = {n} \cup DOMAIN r.known
    <3> DEFINE z == {n} \cup DOMAIN a.known
    <3>1. z \in SUBSET Node /\ z = {n} \cup DOMAIN r.known
      BY <2>1, FieldTypes
    <3>2. b = [a EXCEPT !.sum = z]
      BY DEF WithChecksum
    <3> HIDE DEF b, z
    <3> QED
      BY <2>1, <3>1, <3>2 DEF LegionRecord
  <2>3. q = Elected(n, b, Candidate(n, b), Votes(b, Candidate(n, b)), warns)
    BY <1>2, Zenon DEF Decide, a
  <2> HIDE DEF b
  <2>4. /\ q \in LegionRecord /\ q.known = b.known /\ q.status = b.status /\ q.vote = b.vote
        /\ q.sum = b.sum /\ q.dead = b.dead /\ q.suspended = b.suspended /\ q.first = b.first
        /\ q.lord = TRUE => b.lord = TRUE \/ Wins(n, b)
    BY <2>2, <2>3, ElectedFacts
  <2>5. Wins(n, b) => Wins(n, r)
    BY <2>2 DEF Wins
  <2>6. q.vote = n => \A m \in DOMAIN r.known : Valor[m] > 0 => Better(n, m)
    BY <2>2, <2>4, LordIsBest
  <2> QED
    BY <1>2, <2>2, <2>4, <2>5, <2>6 DEF Decided
<1> QED
  BY <1>0, <1>1, <1>2
-----------------------------------------------------------------------------
(* What nodes have said stays ordered *)

\* A step in which nodes that stay forget only nodes that go, and say at most whom they know.
LEMMA SaysKept ==
  ASSUME NEW E, NEW E1, Chains(E), Remembers(E), Gones \subseteq Gones',
         \A c \in Node, X \in SUBSET Node : Says(E1, c, X)' =>
             Says(E, c, X) \/ X = {} \/ (c \notin Gones' /\ X = Peers(c)'),
         \A c \in Node : c \notin Gones' => Peers(c) \ Gones' \subseteq Peers(c)'
  PROVE  Chains(E1)' /\ Remembers(E1)'
<1>1. \A c \in Node, X \in SUBSET Node :
        c \notin Gones' /\ Says(E1, c, X)' => X \ Gones' \subseteq Peers(c)'
  <2> SUFFICES ASSUME NEW c \in Node, NEW X \in SUBSET Node, c \notin Gones', Says(E1, c, X)'
               PROVE  X \ Gones' \subseteq Peers(c)'
    OBVIOUS
  <2>1. CASE Says(E, c, X)
    <3>1. c \in Node \ Gones
      OBVIOUS
    <3>2. X \ Gones \subseteq Peers(c)
      BY <2>1, <3>1 DEF Remembers
    <3> QED
      BY <3>2
  <2> QED
    BY <2>1
<1>2. Remembers(E1)'
  BY <1>1 DEF Remembers
<1>3. ASSUME NEW c \in Node, NEW X \in SUBSET Node, NEW Y \in SUBSET Node,
             Says(E1, c, X)', Says(E1, c, Y)'
      PROVE  X \ Gones' \subseteq Y \/ Y \ Gones' \subseteq X
  <2>1. CASE Says(E, c, X) /\ Says(E, c, Y)
    <3>1. X \ Gones \subseteq Y \/ Y \ Gones \subseteq X
      BY <2>1 DEF Chains
    <3> QED
      BY <3>1
  <2>2. CASE X = {} \/ Y = {}
    BY <2>2
  <2>3. CASE c \notin Gones' /\ X = Peers(c)'
    BY <1>1, <1>3, <2>3
  <2>4. CASE c \notin Gones' /\ Y = Peers(c)'
    BY <1>1, <1>3, <2>4
  <2> QED
    BY <1>3, <2>1, <2>2, <2>3, <2>4
<1>4. Chains(E1)'
  BY <1>3 DEF Chains
<1> QED
  BY <1>2, <1>4
-----------------------------------------------------------------------------
(* A turn of the loop *)

\* q is the record n has after a turn in which the nodes of S were forgotten, and the packet of
\* the nodes of M (at most one) was accounted.
TurnRecord(n, S, M, q) ==
    /\ q \in LegionRecord /\ q.status = legion[n].status /\ q.dead = legion[n].dead
    /\ q.suspended = legion[n].suspended /\ q.first = FALSE
    /\ DOMAIN q.known = (DOMAIN legion[n].known \ S) \cup M
    /\ \A k \in DOMAIN q.known :
          \/ k \in DOMAIN legion[n].known /\ q.known[k].sum = legion[n].known[k].sum
          \/ k \in M /\ q.known[k].sum = legion[k].sum
    /\ legion[n].first = TRUE => q.sum = legion[n].sum /\ q.vote = legion[n].vote /\ q.lord = legion[n].lord
    /\ legion[n].first = FALSE =>
          /\ q.sum = {n} \cup DOMAIN q.known
          /\ q.vote = n => \A m \in DOMAIN q.known : Valor[m] > 0 => Better(n, m)
          /\ q.lord = TRUE => legion[n].lord = TRUE \/ Wins(n, q)

\* A turn without a packet, ...
LEMMA RoundRecord ==
  ASSUME TypeOK, NotOnOwnList, NEW n \in Node, NEW S, NEW warns \in BOOLEAN,
         NEW q, q = Decide(n, RemoveNodes(legion[n], S), warns)
  PROVE  TurnRecord(n, S, {}, q)
<1> DEFINE r == RemoveNodes(legion[n], S)
<1>1. legion[n] \in LegionRecord
  BY DEF TypeOK
<1>2. /\ r \in LegionRecord /\ r.status = legion[n].status /\ r.vote = legion[n].vote
      /\ r.sum = legion[n].sum /\ r.lord = legion[n].lord /\ r.dead = legion[n].dead
      /\ r.suspended = legion[n].suspended /\ r.first = legion[n].first
      /\ DOMAIN r.known = DOMAIN legion[n].known \ S
      /\ \A k \in DOMAIN r.known : r.known[k] = legion[n].known[k]
  BY <1>1, RemoveFacts
<1>3. q = Decide(n, r, warns)
  OBVIOUS
<1>4. n \notin DOMAIN r.known
  BY <1>2 DEF NotOnOwnList
<1> HIDE DEF r
<1>5. Decided(n, r, q)
  <2>1. r \in LegionRecord
    BY <1>2
  <2> QED
    BY <1>3, <1>4, <2>1, DecideFacts
<1>6. Wins(n, r) => Wins(n, q)
  BY <1>5 DEF Wins, Decided
<1> QED
  BY <1>2, <1>5, <1>6 DEF TurnRecord, Decided

\* ... and one with a packet of m.
LEMMA ReceiveRecord ==
  ASSUME TypeOK, NotOnOwnList, NEW n \in Node, NEW S, NEW m \in Node, m # n, NEW warns \in BOOLEAN,
         NEW q, q = Decide(n, NodeSeen(RemoveNodes(legion[n], S), m), warns)
  PROVE  TurnRecord(n, S, {m}, q)
<1> DEFINE r == RemoveNodes(legion[n], S)
<1> DEFINE s == NodeSeen(r, m)
<1>1. legion[n] \in LegionRecord
  BY DEF TypeOK
<1>2. /\ r \in LegionRecord /\ r.status = legion[n].status /\ r.vote = legion[n].vote
      /\ r.sum = legion[n].sum /\ r.lord = legion[n].lord /\ r.dead = legion[n].dead
      /\ r.suspended = legion[n].suspended /\ r.first = legion[n].first
      /\ DOMAIN r.known = DOMAIN legion[n].known \ S
      /\ \A k \in DOMAIN r.known : r.known[k] = legion[n].known[k]
  BY <1>1, RemoveFacts
<1>3. q = Decide(n, s, warns)
  OBVIOUS
<1> HIDE DEF r
<1>4. /\ s \in LegionRecord /\ s.status = r.status /\ s.vote = r.vote /\ s.sum = r.sum
      /\ s.lord = r.lord /\ s.dead = r.dead /\ s.suspended = r.suspended /\ s.first = r.first
      /\ DOMAIN s.known = DOMAIN r.known \cup {m}
      /\ \A k \in DOMAIN r.known \ {m} : s.known[k] = r.known[k]
      /\ s.known[m].sum = legion[m].sum
  BY <1>2, SeenFacts
<1>5. n \notin DOMAIN s.known
  BY <1>2, <1>4 DEF NotOnOwnList
<1> HIDE DEF s
<1>6. Decided(n, s, q)
  <2>1. s \in LegionRecord
    BY <1>4
  <2> QED
    BY <1>3, <1>5, <2>1, DecideFacts
<1>7. Wins(n, s) => Wins(n, q)
  BY <1>6 DEF Wins, Decided
<1>8. \A k \in DOMAIN q.known :
          \/ k \in DOMAIN legion[n].known /\ q.known[k].sum = legion[n].known[k].sum
          \/ k \in {m} /\ q.known[k].sum = legion[k].sum
  BY <1>2, <1>4, <1>6 DEF Decided
<1> QED
  BY <1>2, <1>4, <1>6, <1>7, <1>8 DEF TurnRecord, Decided

\* A turn of n that forgets only silent nodes keeps the order: a new lord's electorate is the
\* membership it announces, which every other elector has announced as well.
LEMMA TurnStep ==
  ASSUME TypeOK, TypeOK', NotOnOwnList, Orderly, NEW n \in Node, Up(n), NEW S, NEW M, NEW q,
         S \subseteq DOMAIN legion[n].known, \A m \in S : Silent(m),
         M \subseteq Node, \A m \in M : Up(m),
         TurnRecord(n, S, M, q),
         legion'[n] = q, \A x \in Node \ {n} : legion'[x] = legion[x]
  PROVE  Orderly'
<1>1. PICK E \in [Node -> SUBSET Node] : Chains(E) /\ Remembers(E) /\ Elects(E)
  BY DEF Orderly
<1>2. ListsKept /\ LordsKept
  BY DEF Orderly
<1>3. /\ q \in LegionRecord /\ q.status = legion[n].status /\ q.dead = legion[n].dead
      /\ q.suspended = legion[n].suspended /\ q.first = FALSE
      /\ DOMAIN q.known = (DOMAIN legion[n].known \ S) \cup M
  BY DEF TurnRecord
<1>4. \A k \in DOMAIN q.known :
          \/ k \in DOMAIN legion[n].known /\ q.known[k].sum = legion[n].known[k].sum
          \/ k \in M /\ q.known[k].sum = legion[k].sum
  BY DEF TurnRecord
<1>5. q.sum = legion[n].sum \/ q.sum = {n} \cup DOMAIN q.known
  <2>1. legion[n].first \in BOOLEAN
    BY FieldTypes DEF TypeOK
  <2> QED
    BY <2>1 DEF TurnRecord
<1>6. q.lord = TRUE /\ legion[n].lord # TRUE => Wins(n, q) /\ q.sum = {n} \cup DOMAIN q.known
  <2>1. legion[n].first \in BOOLEAN
    BY FieldTypes DEF TypeOK
  <2> QED
    BY <2>1 DEF TurnRecord
<1>7. q.lord = TRUE /\ q.vote = n => \A m \in DOMAIN q.known : Valor[m] > 0 => Better(n, m)
  <2>1. CASE legion[n].first = TRUE
    BY <1>2, <2>1 DEF TurnRecord, LordsKept
  <2>2. CASE legion[n].first = FALSE
    BY <2>2 DEF TurnRecord
  <2>3. legion[n].first \in BOOLEAN
    BY FieldTypes DEF TypeOK
  <2> QED
    BY <2>1, <2>2, <2>3
<1>8. \A x \in Node : legion'[x].status = legion[x].status
  BY <1>3
<1>9. Gones' = Gones
  BY <1>8 DEF Gones
<1>10. n \notin Gones
  BY DEF Gones, Up
<1>11. S \subseteq Gones
  <2>1. DOMAIN legion[n].known \subseteq Node
    BY FieldTypes DEF TypeOK
  <2>2. \A m \in S : m \in Node /\ legion[m].status # "new" /\ legion[m].suspended = FALSE
    BY <1>2, <2>1 DEF ListsKept
  <2>3. \A m \in S : legion[m].status \in {"new", "up", "gone"}
    BY <2>2, FieldTypes DEF TypeOK
  <2> QED
    BY <2>2, <2>3 DEF Silent, Up, Gones
<1>12. PICK E1 \in [Node -> SUBSET Node] :
          /\ \A x \in Node : x # n => E1[x] = E[x]
          /\ q.lord = TRUE => E1[n] = IF legion[n].lord = TRUE THEN E[n] ELSE q.sum
  <2>1. q.sum \in SUBSET Node
    BY <1>3, FieldTypes
  <2> DEFINE e == IF legion[n].lord = TRUE THEN E[n] ELSE q.sum
  <2> DEFINE F == [x \in Node |-> IF x = n THEN e ELSE E[x]]
  <2>2. e \in SUBSET Node
    BY <2>1
  <2> HIDE DEF e
  <2>3. F \in [Node -> SUBSET Node] /\ F[n] = e /\ \A x \in Node : x # n => F[x] = E[x]
    BY <2>2
  <2> HIDE DEF F
  <2> QED
    BY <2>3 DEF e
<1>13. \A x \in Node : x # n => E1[x] = E[x]
  BY <1>12
<1>14. q.lord = TRUE => E1[n] = IF legion[n].lord = TRUE THEN E[n] ELSE q.sum
  BY <1>12
<1>15. ASSUME NEW c \in Node, NEW X \in SUBSET Node, Says(E1, c, X)'
       PROVE  Says(E, c, X) \/ (c = n /\ X = Peers(n)')
  <2>1. CASE X = legion'[c].sum
    <3>1. CASE c = n
      BY <1>5, <2>1, <3>1 DEF Says, Peers
    <3>2. CASE c # n
      BY <2>1, <3>2 DEF Says
    <3> QED
      BY <3>1, <3>2
  <2>2. ASSUME NEW x \in Node, c \in DOMAIN legion'[x].known, X = legion'[x].known[c].sum
        PROVE  Says(E, c, X)
    <3>1. CASE x = n
      BY <1>4, <2>2, <3>1 DEF Says
    <3>2. CASE x # n
      BY <2>2, <3>2 DEF Says
    <3> QED
      BY <3>1, <3>2
  <2>3. ASSUME NEW l \in Node, legion'[l].lord = TRUE, c \in E1[l], X = E1[l]
        PROVE  Says(E, c, X) \/ (c = n /\ X = Peers(n)')
    <3>1. CASE l # n
      <4>1. legion[l].lord = TRUE /\ c \in E[l] /\ X = E[l]
        BY <1>13, <2>3, <3>1
      <4> QED
        BY <4>1 DEF Says
    <3>2. CASE l = n /\ legion[n].lord = TRUE
      <4>1. legion[l].lord = TRUE /\ c \in E[l] /\ X = E[l]
        BY <1>14, <2>3, <3>2
      <4> QED
        BY <4>1 DEF Says
    <3>3. CASE l = n /\ legion[n].lord # TRUE
      <4>1. Wins(n, q) /\ X = {n} \cup DOMAIN q.known /\ c \in X
        BY <1>6, <1>14, <2>3, <3>3
      <4>2. CASE c = n
        BY <4>1, <4>2 DEF Peers
      <4>3. CASE c # n
        <5>1. c \in DOMAIN q.known /\ q.known[c].sum = X
          BY <4>1, <4>3 DEF Wins
        <5> QED
          BY <2>2, <5>1
      <4> QED
        BY <4>2, <4>3
    <3> QED
      BY <3>1, <3>2, <3>3
  <2> QED
    BY <1>15, <2>1, <2>2, <2>3 DEF Says
<1>16. \A c \in Node : c \notin Gones' => Peers(c) \ Gones' \subseteq Peers(c)'
  <2> SUFFICES ASSUME NEW c \in Node
               PROVE  Peers(c) \ Gones \subseteq Peers(c)'
    BY <1>9
  <2>1. CASE c = n
    BY <1>3, <1>11, <2>1 DEF Peers
  <2>2. CASE c # n
    BY <2>2 DEF Peers
  <2> QED
    BY <2>1, <2>2
<1>17. Chains(E1)' /\ Remembers(E1)'
  <2>1. \A c \in Node, X \in SUBSET Node : Says(E1, c, X)' =>
             Says(E, c, X) \/ X = {} \/ (c \notin Gones' /\ X = Peers(c)')
    BY <1>9, <1>10, <1>15
  <2>2. Gones \subseteq Gones'
    BY <1>9
  <2> QED
    BY <1>1, <1>16, <2>1, <2>2, SaysKept
<1>18. Elects(E1)'
  <2> SUFFICES ASSUME NEW l \in Node, legion'[l].lord = TRUE
               PROVE  l \in E1[l] /\ Cardinality(E1[l]) >= Quorum
    BY DEF Elects
  <2>1. CASE l # n
    BY <1>1, <1>13, <2>1 DEF Elects
  <2>2. CASE l = n /\ legion[n].lord = TRUE
    BY <1>1, <1>14, <2>2 DEF Elects
  <2>3. CASE l = n /\ legion[n].lord # TRUE
    BY <1>6, <1>14, <2>3 DEF Wins
  <2> QED
    BY <2>1, <2>2, <2>3
<1>19. ListsKept'
  <2> SUFFICES ASSUME NEW x \in Node
               PROVE  /\ legion'[x].dead = FALSE /\ legion'[x].suspended = FALSE
                      /\ \A m \in DOMAIN legion'[x].known : legion'[m].status # "new"
    BY DEF ListsKept
  <2>1. DOMAIN legion[x].known \subseteq Node
    BY FieldTypes DEF TypeOK
  <2>2. CASE x = n
    BY <1>2, <1>3, <1>8, <2>1, <2>2 DEF ListsKept, Up
  <2>3. CASE x # n
    BY <1>2, <1>8, <2>1, <2>3 DEF ListsKept
  <2> QED
    BY <2>2, <2>3
<1>20. LordsKept'
  <2> SUFFICES ASSUME NEW x \in Node, legion'[x].lord = TRUE
               PROVE  /\ legion'[x].status = "up" /\ Valor[x] > 0 /\ legion'[x].first = FALSE
                      /\ legion'[x].vote = x => \A m \in DOMAIN legion'[x].known : Valor[m] > 0 => Better(x, m)
    BY DEF LordsKept
  <2>1. CASE x = n
    <3>1. Valor[n] > 0
      BY <1>2, <1>6, <2>1 DEF LordsKept, Wins
    <3> QED
      BY <1>3, <1>7, <2>1, <3>1 DEF Up
  <2>2. CASE x # n
    BY <1>2, <2>2 DEF LordsKept
  <2> QED
    BY <2>1, <2>2
<1> QED
  BY <1>12, <1>17, <1>18, <1>19, <1>20 DEF Orderly

\* Nobody but n is changed by the death of n, and by that only in the list.
LEMMA HeardFacts ==
  ASSUME TypeOK, NEW n \in Node, NEW R, NEW D, D = DeathHeard(n, R)
  PROVE  /\ D \in [Node -> LegionRecord]
         /\ \A x \in Node : D[x] = legion[x] \/ D[x] = RemoveNodes(legion[x], {n})
<1>1. \A x \in Node : legion[x] \in LegionRecord
  BY DEF TypeOK
<1>2. \A x \in Node : RemoveNodes(legion[x], {n}) \in LegionRecord
  BY <1>1, RemoveFacts
<1> QED
  BY <1>1, <1>2 DEF DeathHeard

\* The end of a turn with record q keeps the types.
LEMMA TurnType ==
  ASSUME TypeOK, NotOnOwnList, NEW n \in Node, NEW S, S \in Expired(n), NEW q \in LegionRecord,
         n \notin DOMAIN q.known, Turn(n, S, q)
  PROVE  TypeOK' /\ NotOnOwnList'
<1>0. MaxEvents \in Nat /\ events \in Nat /\ events <= MaxEvents
  BY LegionAssumption DEF TypeOK
<1>1. CASE TurnEnds(n, S, q)
  <2>1. legion' = [legion EXCEPT ![n] = q]
    BY <1>1 DEF TurnEnds
  <2>2. legion' \in [Node -> LegionRecord] /\ NotOnOwnList'
    BY <2>1 DEF TypeOK, NotOnOwnList
  <2>3. clean' \in BOOLEAN
    BY <1>1 DEF TurnEnds, TypeOK
  <2>4. events' \in 0 .. MaxEvents
    <3>1. CASE \A m \in S : Silent(m)
      BY <1>1, <3>1 DEF TurnEnds, TypeOK
    <3>2. CASE ~ \A m \in S : Silent(m)
      <4>1. events < MaxEvents
        BY <3>2 DEF Expired
      <4>2. events' = events + 1
        BY <1>1, <3>2 DEF TurnEnds
      <4> QED
        BY <1>0, <4>1, <4>2
    <3> QED
      BY <3>1, <3>2
  <2> QED
    BY <2>2, <2>3, <2>4 DEF TypeOK
<1>2. CASE LordHookFails(n, q)
  <2>1. PICK R \in Reached(n) : legion' = [DeathHeard(n, R) EXCEPT ![n] =
                    [q EXCEPT !.lord = FALSE, !.dead = TRUE, !.suspended = TRUE]]
    BY <1>2 DEF LordHookFails
  <2> DEFINE D == DeathHeard(n, R)
  <2> DEFINE p == [q EXCEPT !.lord = FALSE, !.dead = TRUE, !.suspended = TRUE]
  <2>2. p \in LegionRecord /\ p.known = q.known
    BY DEF LegionRecord
  <2>3. /\ D \in [Node -> LegionRecord]
        /\ \A x \in Node : D[x] = legion[x] \/ D[x] = RemoveNodes(legion[x], {n})
    BY HeardFacts
  <2>4. legion' = [D EXCEPT ![n] = p]
    BY <2>1
  <2> HIDE DEF D, p
  <2>5. legion' \in [Node -> LegionRecord]
    BY <2>2, <2>3, <2>4
  <2>6. NotOnOwnList'
    <3> SUFFICES ASSUME NEW x \in Node
                 PROVE  x \notin DOMAIN legion'[x].known
      BY DEF NotOnOwnList
    <3>1. CASE x = n
      BY <2>2, <2>3, <2>4, <3>1
    <3>2. CASE x # n
      <4>1. legion'[x] = D[x]
        BY <2>3, <2>4, <3>2
      <4>2. DOMAIN RemoveNodes(legion[x], {n}).known = DOMAIN legion[x].known \ {n}
        BY RemoveFacts DEF TypeOK
      <4> QED
        BY <2>3, <4>1, <4>2 DEF NotOnOwnList
    <3> QED
      BY <3>1, <3>2
  <2>7. clean' = FALSE /\ events < MaxEvents /\ events' = events + 1
    BY <1>2 DEF LordHookFails, Event
  <2>8. events' \in 0 .. MaxEvents
    BY <1>0, <2>7
  <2> QED
    BY <2>5, <2>6, <2>7, <2>8 DEF TypeOK
<1> QED
  BY <1>1, <1>2 DEF Turn

\* A turn that decides.
LEMMA TurnKeeps ==
  ASSUME LegionInv, NEW n \in Node, Up(n), NEW S, S \in Expired(n), NEW M, M \subseteq Node \ {n},
         \A m \in M : Up(m), NEW q, TurnRecord(n, S, M, q), Turn(n, S, q)
  PROVE  LegionInv'
<1>1. TypeOK /\ NotOnOwnList /\ (clean = TRUE => Orderly)
  BY DEF LegionInv
<1>2. q \in LegionRecord /\ n \notin DOMAIN q.known
  BY <1>1 DEF TurnRecord, NotOnOwnList
<1>3. TypeOK' /\ NotOnOwnList'
  BY <1>1, <1>2, TurnType
<1>4. ASSUME clean' = TRUE
      PROVE  Orderly'
  <2>1. TurnEnds(n, S, q)
    BY <1>4 DEF Turn, LordHookFails
  <2>2. clean' = (clean /\ \A m \in S : Silent(m)) /\ clean \in BOOLEAN
    BY <1>1, <2>1 DEF TurnEnds, TypeOK
  <2>3. clean = TRUE /\ \A m \in S : Silent(m)
    BY <1>4, <2>2
  <2>4. legion'[n] = q /\ \A x \in Node \ {n} : legion'[x] = legion[x]
    BY <1>1, <2>1 DEF TurnEnds, TypeOK
  <2>5. S \subseteq DOMAIN legion[n].known
    BY DEF Expired
  <2>6. M \subseteq Node /\ Orderly
    BY <1>1, <2>3
  <2> QED
    BY <1>1, <1>3, <2>3, <2>4, <2>5, <2>6, TurnStep
<1> QED
  BY <1>3, <1>4 DEF LegionInv

\* A turn after the timeout of the loop.
LEMMA RoundKeeps ==
  ASSUME LegionInv, NEW n \in Node, NEW S, NEW warns \in BOOLEAN, Round(n, S, warns)
  PROVE  LegionInv'
<1> DEFINE q == Decide(n, RemoveNodes(legion[n], S), warns)
<1>1. Up(n) /\ S \in Expired(n) /\ Turn(n, S, q)
  BY DEF Round
<1>2. TurnRecord(n, S, {}, q)
  BY RoundRecord DEF LegionInv
<1>3. \A m \in {} : Up(m)
  OBVIOUS
<1>4. {} \subseteq Node \ {n}
  OBVIOUS
<1> HIDE DEF q
<1> QED
  BY <1>1, <1>2, <1>3, <1>4, TurnKeeps

\* A turn woken by a packet; the packet of a dead node is met only after a hook failed.
LEMMA ReceiveKeeps ==
  ASSUME LegionInv, NEW n \in Node, NEW m \in Node, NEW S, NEW warns \in BOOLEAN,
         Receive(n, m, S, warns)
  PROVE  LegionInv'
<1> DEFINE r == RemoveNodes(legion[n], S)
<1>1. TypeOK /\ NotOnOwnList /\ (clean = TRUE => Orderly)
  BY DEF LegionInv
<1>2. Up(n) /\ m # n /\ Up(m) /\ S \in Expired(n)
  BY DEF Receive, Silent
<1>3. CASE legion[m].dead = TRUE
  <2> DEFINE q == RemoveNodes(r, {m})
  <2>1. Turn(n, S, q)
    BY <1>3 DEF Receive
  <2>2. legion[n] \in LegionRecord
    BY <1>1 DEF TypeOK
  <2>3. r \in LegionRecord /\ DOMAIN r.known = DOMAIN legion[n].known \ S
    BY <2>2, RemoveFacts
  <2> HIDE DEF r
  <2>4. q \in LegionRecord /\ DOMAIN q.known = DOMAIN r.known \ {m}
    BY <2>3, RemoveFacts
  <2>5. n \notin DOMAIN q.known
    BY <1>1, <2>3, <2>4 DEF NotOnOwnList
  <2> HIDE DEF q
  <2>6. TypeOK' /\ NotOnOwnList'
    BY <1>1, <1>2, <2>1, <2>4, <2>5, TurnType
  <2>7. clean # TRUE
    BY <1>1, <1>3 DEF Orderly, ListsKept
  <2>8. clean' # TRUE
    BY <1>1, <2>1, <2>7 DEF Turn, TurnEnds, LordHookFails, TypeOK
  <2> QED
    BY <2>6, <2>8 DEF LegionInv
<1>4. CASE legion[m].dead = FALSE
  <2> DEFINE q == Decide(n, NodeSeen(r, m), warns)
  <2>1. Turn(n, S, q)
    BY <1>4 DEF Receive
  <2>2. TurnRecord(n, S, {m}, q)
    BY <1>1, <1>2, ReceiveRecord
  <2>3. {m} \subseteq Node \ {n} /\ \A k \in {m} : Up(k)
    BY <1>2
  <2> HIDE DEF q
  <2> QED
    BY <1>2, <2>1, <2>2, <2>3, TurnKeeps
<1>5. legion[m].dead \in BOOLEAN
  BY <1>1, FieldTypes DEF TypeOK
<1> QED
  BY <1>3, <1>4, <1>5
-----------------------------------------------------------------------------
(* Instances come and go *)

\* The fields of an instance that is not started, ...
LEMMA NewFacts ==
  ASSUME NEW q, q = NewLegion
  PROVE  /\ q \in LegionRecord /\ q.status = "new" /\ DOMAIN q.known = {} /\ q.sum = {}
         /\ q.lord = FALSE /\ q.dead = FALSE /\ q.suspended = FALSE
<1>1. NoKnown \in [{} -> NodeRecord] /\ DOMAIN NoKnown = {}
  BY DEF NoKnown
<1>2. NoKnown \in KnownType
  BY <1>1, ListType
<1> QED
  BY <1>1, <1>2 DEF NewLegion, LegionRecord, KnownType, Vote

\* ... or has another status.
LEMMA StatusFacts ==
  ASSUME NEW r \in LegionRecord, NEW s \in {"new", "up", "gone"}, NEW q, q = [r EXCEPT !.status = s]
  PROVE  /\ q \in LegionRecord /\ q.status = s /\ q.known = r.known /\ q.sum = r.sum /\ q.vote = r.vote
         /\ q.lord = r.lord /\ q.dead = r.dead /\ q.suspended = r.suspended /\ q.first = r.first
BY DEF LegionRecord

LEMMA GoneFacts ==
  /\ Gone \in LegionRecord /\ Gone.status = "gone" /\ DOMAIN Gone.known = {} /\ Gone.sum = {}
  /\ Gone.lord = FALSE /\ Gone.dead = FALSE /\ Gone.suspended = FALSE
<1> DEFINE z == NewLegion
<1> DEFINE s == "gone"
<1> DEFINE q == Gone
<1>1. q = [z EXCEPT !.status = s]
  BY DEF Gone
<1>2. s \in {"new", "up", "gone"}
  OBVIOUS
<1>3. /\ z \in LegionRecord /\ DOMAIN z.known = {} /\ z.sum = {}
      /\ z.lord = FALSE /\ z.dead = FALSE /\ z.suspended = FALSE
  BY NewFacts
<1> HIDE DEF q, s, z
<1>4. /\ q \in LegionRecord /\ q.status = s /\ DOMAIN q.known = {} /\ q.sum = {}
      /\ q.lord = FALSE /\ q.dead = FALSE /\ q.suspended = FALSE
  BY <1>1, <1>2, <1>3, StatusFacts
<1> QED
  BY <1>4 DEF q, s

\* When n goes, what it said is no longer bound to anything, and those who hear of it forget it.
LEMMA LeaveKeeps ==
  ASSUME LegionInv, NEW n \in Node, Event, clean' = clean, legion' \in [Node -> LegionRecord],
         legion'[n] = Gone,
         \A x \in Node \ {n} : legion'[x] = legion[x] \/ legion'[x] = RemoveNodes(legion[x], {n})
  PROVE  LegionInv'
<1>1. TypeOK /\ NotOnOwnList /\ (clean = TRUE => Orderly)
  BY DEF LegionInv
<1>2. TypeOK'
  <2>1. MaxEvents \in Nat /\ events \in Nat /\ events < MaxEvents /\ events' = events + 1
    BY <1>1, LegionAssumption DEF TypeOK, Event
  <2>2. events' \in 0 .. MaxEvents
    BY <2>1
  <2> QED
    BY <1>1, <2>2 DEF TypeOK
<1>3. ASSUME NEW x \in Node \ {n}
      PROVE  /\ legion'[x].status = legion[x].status /\ legion'[x].vote = legion[x].vote
             /\ legion'[x].sum = legion[x].sum /\ legion'[x].lord = legion[x].lord
             /\ legion'[x].dead = legion[x].dead /\ legion'[x].suspended = legion[x].suspended
             /\ legion'[x].first = legion[x].first
             /\ DOMAIN legion'[x].known \subseteq DOMAIN legion[x].known
             /\ DOMAIN legion[x].known \subseteq DOMAIN legion'[x].known \cup {n}
             /\ \A k \in DOMAIN legion'[x].known : legion'[x].known[k] = legion[x].known[k]
  <2>1. legion[x] \in LegionRecord
    BY <1>1 DEF TypeOK
  <2>2. CASE legion'[x] = legion[x]
    BY <2>2
  <2>3. CASE legion'[x] = RemoveNodes(legion[x], {n})
    <3> DEFINE q == legion'[x]
    <3>1. /\ q \in LegionRecord /\ q.status = legion[x].status /\ q.vote = legion[x].vote
          /\ q.sum = legion[x].sum /\ q.lord = legion[x].lord /\ q.dead = legion[x].dead
          /\ q.suspended = legion[x].suspended /\ q.first = legion[x].first
          /\ DOMAIN q.known = DOMAIN legion[x].known \ {n}
          /\ \A k \in DOMAIN q.known : q.known[k] = legion[x].known[k]
      BY <2>1, <2>3, RemoveFacts
    <3> QED
      BY <3>1
  <2> QED
    BY <1>3, <2>2, <2>3
<1>4. NotOnOwnList'
  <2> SUFFICES ASSUME NEW x \in Node
               PROVE  x \notin DOMAIN legion'[x].known
    BY DEF NotOnOwnList
  <2>1. CASE x = n
    BY <2>1, GoneFacts
  <2>2. CASE x # n
    BY <1>1, <1>3, <2>2 DEF NotOnOwnList
  <2> QED
    BY <2>1, <2>2
<1>5. ASSUME clean' = TRUE
      PROVE  Orderly'
  <2>1. PICK E \in [Node -> SUBSET Node] : Chains(E) /\ Remembers(E) /\ Elects(E)
    BY <1>1, <1>5 DEF Orderly
  <2>2. ListsKept /\ LordsKept
    BY <1>1, <1>5 DEF Orderly
  <2>3. Gones' = Gones \cup {n}
    BY <1>3, GoneFacts DEF Gones
  <2>4. ASSUME NEW c \in Node, NEW X \in SUBSET Node, Says(E, c, X)'
        PROVE  Says(E, c, X) \/ X = {}
    <3>1. CASE X = legion'[c].sum
      BY <1>3, <3>1, GoneFacts DEF Says
    <3>2. ASSUME NEW x \in Node, c \in DOMAIN legion'[x].known, X = legion'[x].known[c].sum
          PROVE  Says(E, c, X)
      <4>1. x # n
        BY <3>2, GoneFacts
      <4> QED
        BY <1>3, <3>2, <4>1 DEF Says
    <3>3. ASSUME NEW l \in Node, legion'[l].lord = TRUE, c \in E[l], X = E[l]
          PROVE  Says(E, c, X)
      <4>1. l # n
        BY <3>3, GoneFacts
      <4> QED
        BY <1>3, <3>3, <4>1 DEF Says
    <3> QED
      BY <2>4, <3>1, <3>2, <3>3 DEF Says
  <2>5. \A c \in Node : c \notin Gones' => Peers(c) \ Gones' \subseteq Peers(c)'
    BY <1>3, <2>3 DEF Peers
  <2>6. Chains(E)' /\ Remembers(E)'
    <3>1. \A c \in Node, X \in SUBSET Node : Says(E, c, X)' =>
             Says(E, c, X) \/ X = {} \/ (c \notin Gones' /\ X = Peers(c)')
      BY <2>4
    <3>2. Gones \subseteq Gones'
      BY <2>3
    <3> QED
      BY <2>1, <2>5, <3>1, <3>2, SaysKept
  <2>7. Elects(E)'
    <3> SUFFICES ASSUME NEW l \in Node, legion'[l].lord = TRUE
                 PROVE  l \in E[l] /\ Cardinality(E[l]) >= Quorum
      BY DEF Elects
    <3>1. l # n
      BY GoneFacts
    <3> QED
      BY <1>3, <2>1, <3>1 DEF Elects
  <2>8. ListsKept'
    <3> SUFFICES ASSUME NEW x \in Node
                 PROVE  /\ legion'[x].dead = FALSE /\ legion'[x].suspended = FALSE
                        /\ \A m \in DOMAIN legion'[x].known : legion'[m].status # "new"
      BY DEF ListsKept
    <3>1. CASE x = n
      BY <3>1, GoneFacts
    <3>2. CASE x # n
      <4>1. DOMAIN legion[x].known \subseteq Node
        BY <1>1, FieldTypes DEF TypeOK
      <4>2. legion'[x].dead = FALSE /\ legion'[x].suspended = FALSE
        BY <1>3, <2>2, <3>2 DEF ListsKept
      <4>3. ASSUME NEW m \in DOMAIN legion'[x].known
            PROVE  legion'[m].status # "new"
        <5>1. m \in DOMAIN legion[x].known /\ m \in Node
          BY <1>3, <3>2, <4>1
        <5>2. legion[m].status # "new"
          BY <2>2, <5>1 DEF ListsKept
        <5> QED
          BY <1>3, <5>1, <5>2, GoneFacts
      <4> QED
        BY <4>2, <4>3
    <3> QED
      BY <3>1, <3>2
  <2>9. LordsKept'
    <3> SUFFICES ASSUME NEW x \in Node, legion'[x].lord = TRUE
                 PROVE  /\ legion'[x].status = "up" /\ Valor[x] > 0 /\ legion'[x].first = FALSE
                        /\ legion'[x].vote = x =>
                              \A m \in DOMAIN legion'[x].known : Valor[m] > 0 => Better(x, m)
      BY DEF LordsKept
    <3>1. x # n
      BY GoneFacts
    <3>2. legion[x].lord = TRUE
      BY <1>3, <3>1
    <3>3. /\ legion[x].status = "up" /\ Valor[x] > 0 /\ legion[x].first = FALSE
          /\ legion[x].vote = x => \A m \in DOMAIN legion[x].known : Valor[m] > 0 => Better(x, m)
      BY <2>2, <3>2 DEF LordsKept
    <3> QED
      BY <1>3, <3>1, <3>3
  <2> QED
    BY <2>1, <2>6, <2>7, <2>8, <2>9 DEF Orderly
<1> QED
  BY <1>2, <1>4, <1>5 DEF LegionInv

\* A crash, and an announced death.
LEMMA CrashKeeps ==
  ASSUME LegionInv, NEW n \in Node, Crash(n)
  PROVE  LegionInv'
<1>1. TypeOK
  BY DEF LegionInv
<1>2. legion' \in [Node -> LegionRecord] /\ legion'[n] = Gone
  BY <1>1, GoneFacts DEF Crash, TypeOK
<1>3. \A x \in Node \ {n} : legion'[x] = legion[x]
  BY <1>1 DEF Crash, TypeOK
<1> QED
  BY <1>2, <1>3, LeaveKeeps DEF Crash

LEMMA AnnounceDeathKeeps ==
  ASSUME LegionInv, NEW n \in Node, AnnounceDeath(n)
  PROVE  LegionInv'
<1>1. TypeOK
  BY DEF LegionInv
<1>2. PICK R : legion' = [DeathHeard(n, R) EXCEPT ![n] = Gone]
  BY DEF AnnounceDeath
<1> DEFINE D == DeathHeard(n, R)
<1>3. /\ D \in [Node -> LegionRecord]
      /\ \A x \in Node : D[x] = legion[x] \/ D[x] = RemoveNodes(legion[x], {n})
  BY <1>1, HeardFacts
<1>4. legion' = [D EXCEPT ![n] = Gone]
  BY <1>2
<1> HIDE DEF D
<1>5. legion' \in [Node -> LegionRecord] /\ legion'[n] = Gone
  BY <1>3, <1>4, GoneFacts
<1>6. \A x \in Node \ {n} : legion'[x] = legion[x] \/ legion'[x] = RemoveNodes(legion[x], {n})
  BY <1>3, <1>4
<1> QED
  BY <1>5, <1>6, LeaveKeeps DEF AnnounceDeath

\* An instance starts.
LEMMA StartKeeps ==
  ASSUME LegionInv, NEW n \in Node, Start(n)
  PROVE  LegionInv'
<1>1. TypeOK /\ NotOnOwnList /\ (clean = TRUE => Orderly)
  BY DEF LegionInv
<1>2. legion[n].status = "new" /\ clean' = clean /\ events < MaxEvents /\ events' = events + 1
  BY DEF Start, Event
<1>3. legion'[n] = [legion[n] EXCEPT !.status = "up"] /\ \A x \in Node \ {n} : legion'[x] = legion[x]
  BY <1>1 DEF Start, TypeOK
<1>4. \A x \in Node :
          /\ legion'[x] \in LegionRecord /\ legion'[x].known = legion[x].known
          /\ legion'[x].sum = legion[x].sum /\ legion'[x].vote = legion[x].vote
          /\ legion'[x].lord = legion[x].lord /\ legion'[x].dead = legion[x].dead
          /\ legion'[x].suspended = legion[x].suspended /\ legion'[x].first = legion[x].first
          /\ legion'[x].status = IF x = n THEN "up" ELSE legion[x].status
  <2> DEFINE q == legion'[n]
  <2>1. legion[n] \in LegionRecord
    BY <1>1 DEF TypeOK
  <2>2. q = [legion[n] EXCEPT !.status = "up"]
    BY <1>3
  <2>3. /\ q \in LegionRecord /\ q.status = "up" /\ q.known = legion[n].known /\ q.sum = legion[n].sum
        /\ q.vote = legion[n].vote /\ q.lord = legion[n].lord /\ q.dead = legion[n].dead
        /\ q.suspended = legion[n].suspended /\ q.first = legion[n].first
    <3> HIDE DEF q
    <3> QED
      BY <2>1, <2>2, StatusFacts
  <2> QED
    BY <1>1, <1>3, <2>3 DEF TypeOK
<1>5. TypeOK' /\ NotOnOwnList'
  <2>1. MaxEvents \in Nat /\ events \in Nat
    BY <1>1, LegionAssumption DEF TypeOK
  <2>2. events' \in 0 .. MaxEvents
    BY <1>2, <2>1
  <2>3. legion' = [x \in Node |-> legion'[x]]
    BY <1>1 DEF TypeOK, Start
  <2>4. legion' \in [Node -> LegionRecord]
    BY <1>4, <2>3
  <2> QED
    BY <1>1, <1>2, <1>4, <2>2, <2>4 DEF TypeOK, NotOnOwnList
<1>6. Gones' = Gones
  BY <1>2, <1>4 DEF Gones
<1>7. ASSUME clean' = TRUE
      PROVE  Orderly'
  <2>1. PICK E \in [Node -> SUBSET Node] : Chains(E) /\ Remembers(E) /\ Elects(E)
    BY <1>1, <1>2, <1>7 DEF Orderly
  <2>2. ListsKept /\ LordsKept
    BY <1>1, <1>2, <1>7 DEF Orderly
  <2>3. \A c \in Node, X \in SUBSET Node : Says(E, c, X)' => Says(E, c, X)
    BY <1>4 DEF Says
  <2>4. \A c \in Node : Peers(c)' = Peers(c)
    BY <1>4 DEF Peers
  <2>5. Chains(E)' /\ Remembers(E)'
    <3>1. \A c \in Node, X \in SUBSET Node : Says(E, c, X)' =>
             Says(E, c, X) \/ X = {} \/ (c \notin Gones' /\ X = Peers(c)')
      BY <2>3
    <3>2. \A c \in Node : c \notin Gones' => Peers(c) \ Gones' \subseteq Peers(c)'
      BY <2>4
    <3>3. Gones \subseteq Gones'
      BY <1>6
    <3> QED
      BY <2>1, <3>1, <3>2, <3>3, SaysKept
  <2>6. Elects(E)'
    BY <1>4, <2>1 DEF Elects
  <2>7. ListsKept'
    <3> SUFFICES ASSUME NEW x \in Node
                 PROVE  /\ legion'[x].dead = FALSE /\ legion'[x].suspended = FALSE
                        /\ \A m \in DOMAIN legion'[x].known : legion'[m].status # "new"
      BY DEF ListsKept
    <3>1. DOMAIN legion[x].known \subseteq Node
      BY <1>1, FieldTypes DEF TypeOK
    <3> QED
      BY <1>4, <2>2, <3>1 DEF ListsKept
  <2>8. LordsKept'
    BY <1>2, <1>4, <2>2 DEF LordsKept
  <2> QED
    BY <2>1, <2>5, <2>6, <2>7, <2>8 DEF Orderly
<1> QED
  BY <1>5, <1>7 DEF LegionInv

\* A suspension ends: then a hook had failed.
LEMMA SuspensionEndsKeeps ==
  ASSUME LegionInv, NEW n \in Node, SuspensionEnds(n)
  PROVE  LegionInv'
<1>1. TypeOK /\ NotOnOwnList /\ (clean = TRUE => Orderly)
  BY DEF LegionInv
<1> DEFINE q == [legion[n] EXCEPT !.suspended = FALSE]
<1>2. legion' = [legion EXCEPT ![n] = q] /\ clean' = clean /\ events' = events
  BY DEF SuspensionEnds
<1>3. legion[n] \in LegionRecord
  BY <1>1 DEF TypeOK
<1>4. q \in LegionRecord /\ q.known = legion[n].known
  BY <1>3 DEF LegionRecord
<1> HIDE DEF q
<1>5. TypeOK' /\ NotOnOwnList'
  BY <1>1, <1>2, <1>4 DEF TypeOK, NotOnOwnList
<1>6. legion[n].suspended = TRUE
  BY <1>3, FieldTypes DEF SuspensionEnds
<1>7. clean # TRUE
  BY <1>1, <1>6 DEF Orderly, ListsKept
<1> QED
  BY <1>2, <1>5, <1>7 DEF LegionInv
-----------------------------------------------------------------------------
(* The theorems *)

\* At first nobody has said anything.
LEMMA LegionInit == Init => LegionInv
<1> SUFFICES ASSUME Init
             PROVE  LegionInv
  OBVIOUS
<1>1. PICK U \in SUBSET Node : legion = [n \in Node |->
            [NewLegion EXCEPT !.status = IF n \in U THEN "up" ELSE "new"]]
  BY DEF Init
<1>2. ASSUME NEW n \in Node
      PROVE  /\ legion[n] \in LegionRecord /\ DOMAIN legion[n].known = {} /\ legion[n].sum = {}
             /\ legion[n].lord = FALSE /\ legion[n].dead = FALSE /\ legion[n].suspended = FALSE
  <2> DEFINE s == IF n \in U THEN "up" ELSE "new"
  <2> DEFINE q == legion[n]
  <2> DEFINE z == NewLegion
  <2>1. q = [z EXCEPT !.status = s]
    BY <1>1
  <2>2. s \in {"new", "up", "gone"}
    OBVIOUS
  <2>3. /\ z \in LegionRecord /\ DOMAIN z.known = {} /\ z.sum = {}
        /\ z.lord = FALSE /\ z.dead = FALSE /\ z.suspended = FALSE
    BY NewFacts
  <2> HIDE DEF q, s, z
  <2>4. /\ q \in LegionRecord /\ DOMAIN q.known = {} /\ q.sum = {}
        /\ q.lord = FALSE /\ q.dead = FALSE /\ q.suspended = FALSE
    BY <2>1, <2>2, <2>3, StatusFacts
  <2> QED
    BY <2>4 DEF q
<1>3. TypeOK
  <2>1. legion = [n \in Node |-> legion[n]]
    BY <1>1
  <2>2. legion \in [Node -> LegionRecord]
    BY <1>2, <2>1
  <2>3. events \in 0 .. MaxEvents
    BY LegionAssumption DEF Init
  <2> QED
    BY <2>2, <2>3 DEF TypeOK, Init
<1>4. NotOnOwnList /\ ListsKept /\ LordsKept
  BY <1>2 DEF NotOnOwnList, ListsKept, LordsKept
<1> DEFINE E == [n \in Node |-> {}]
<1>5. E \in [Node -> SUBSET Node]
  OBVIOUS
<1>6. \A c \in Node, X \in SUBSET Node : Says(E, c, X) => X = {}
  <2> HIDE DEF E
  <2> QED
    BY <1>2 DEF Says
<1> HIDE DEF E
<1>7. Chains(E) /\ Remembers(E)
  BY <1>6 DEF Chains, Remembers
<1>8. Elects(E)
  BY <1>2 DEF Elects
<1> QED
  BY <1>3, <1>4, <1>5, <1>7, <1>8 DEF LegionInv, Orderly

\* Every step keeps it.
LEMMA LegionStep == LegionInv /\ [Next]_vars => LegionInv'
<1> SUFFICES ASSUME LegionInv, [Next]_vars
             PROVE  LegionInv'
  OBVIOUS
<1>1. CASE UNCHANGED vars
  <2>1. legion' = legion /\ clean' = clean /\ events' = events
    BY <1>1 DEF vars
  <2>2. TypeOK' /\ NotOnOwnList'
    BY <2>1 DEF LegionInv, TypeOK, NotOnOwnList
  <2>3. (ListsKept' <=> ListsKept) /\ (LordsKept' <=> LordsKept)
    BY <2>1 DEF ListsKept, LordsKept
  <2>4. ASSUME NEW E
        PROVE  Chains(E) /\ Remembers(E) /\ Elects(E) => Chains(E)' /\ Remembers(E)' /\ Elects(E)'
    <3>1. Gones' = Gones /\ \A c : Peers(c)' = Peers(c)
      BY <2>1 DEF Gones, Peers
    <3>2. \A c, X : Says(E, c, X)' <=> Says(E, c, X)
      BY <2>1 DEF Says
    <3> QED
      BY <2>1, <3>1, <3>2 DEF Chains, Remembers, Elects
  <2> QED
    BY <2>1, <2>2, <2>3, <2>4 DEF LegionInv, Orderly
<1>2. ASSUME NEW n \in Node, NEW S \in SUBSET Node, NEW warns \in BOOLEAN, Round(n, S, warns)
      PROVE  LegionInv'
  BY <1>2, RoundKeeps
<1>3. ASSUME NEW n \in Node, NEW m \in Node, NEW S \in SUBSET Node, NEW warns \in BOOLEAN,
             Receive(n, m, S, warns)
      PROVE  LegionInv'
  BY <1>3, ReceiveKeeps
<1>4. ASSUME NEW n \in Node,
             Start(n) \/ AnnounceDeath(n) \/ Crash(n) \/ SuspensionEnds(n)
      PROVE  LegionInv'
  BY <1>4, StartKeeps, AnnounceDeathKeeps, CrashKeeps, SuspensionEndsKeeps
<1> QED
  BY <1>1, <1>2, <1>3, <1>4 DEF Next, Over

\* What nodes have announced stays ordered and every lord has its electorate, in every run in
\* which nobody took a live node for dead and no lord hook failed.
THEOREM LegionInvariant == Spec => []LegionInv
<1> QED
  BY LegionInit, LegionStep, PTL DEF Spec

\* Two electorates share a node, what that node announced to them is ordered, so one of the
\* lords is in the electorate of the other, and each knows the other: they cannot both be best.
LEMMA OneLord ==
  ASSUME 2 * Quorum > Cardinality(Node), LegionInv
  PROVE  OneRulingLord
<1> SUFFICES ASSUME clean, NEW a \in Ruling, NEW b \in Ruling, a # b
             PROVE  FALSE
  BY DEF LegionInv, OneRulingLord
<1>1. clean = TRUE /\ TypeOK
  BY DEF LegionInv, TypeOK
<1>2. PICK E \in [Node -> SUBSET Node] : Chains(E) /\ Remembers(E) /\ Elects(E)
  BY <1>1 DEF LegionInv, Orderly
<1>3. LordsKept
  BY <1>1 DEF LegionInv, Orderly
<1>4. ASSUME NEW l \in Ruling
      PROVE  /\ l \in Node /\ legion[l].lord = TRUE /\ legion[l].vote = l
             /\ l \in Node \ Gones /\ Valor[l] > 0
             /\ \A m \in DOMAIN legion[l].known : Valor[m] > 0 => Better(l, m)
  <2>1. l \in Node /\ legion[l].lord = TRUE /\ legion[l].vote = l
    BY <1>1, FieldTypes DEF Ruling, Lords, TypeOK
  <2> QED
    BY <1>3, <2>1 DEF LordsKept, Gones
<1>5. \E c : c \in E[a] /\ c \in E[b]
  <2>1. E[a] \in SUBSET Node /\ E[b] \in SUBSET Node
    BY <1>4
  <2>2. IsFiniteSet(Node) /\ Quorum \in Nat
    BY LegionAssumption
  <2>3. Cardinality(E[a]) >= Quorum /\ Cardinality(E[b]) >= Quorum
    BY <1>2, <1>4 DEF Elects
  <2>4. Cardinality(E[a]) \in Nat /\ Cardinality(E[b]) \in Nat /\ Cardinality(Node) \in Nat
    BY <2>1, <2>2, FS_Subset, FS_CardinalityType
  <2>5. Cardinality(E[a]) + Cardinality(E[b]) > Cardinality(Node)
    BY <2>2, <2>3, <2>4
  <2>6. E[a] \cap E[b] # {}
    BY <2>1, <2>2, <2>5, FS_MajoritiesIntersect
  <2> QED
    BY <2>6
<1>6. PICK c : c \in E[a] /\ c \in E[b]
  BY <1>5
<1>7. c \in Node /\ E[a] \in SUBSET Node /\ E[b] \in SUBSET Node
  BY <1>4, <1>6
<1>8. a \in E[a] /\ b \in E[b]
  BY <1>2, <1>4 DEF Elects
<1>9. E[a] \ Gones \subseteq E[b] \/ E[b] \ Gones \subseteq E[a]
  <2>1. Says(E, c, E[a]) /\ Says(E, c, E[b])
    BY <1>4, <1>6 DEF Says
  <2> QED
    BY <1>2, <1>7, <2>1 DEF Chains
<1>10. ASSUME NEW x \in Ruling, NEW y \in Ruling, x # y, x \in E[y], y \in E[y]
       PROVE  Better(x, y) /\ Better(y, x)
  <2>1. /\ x \in Node \ Gones /\ y \in Node \ Gones /\ E[y] \in SUBSET Node
        /\ legion[y].lord = TRUE
    BY <1>4
  <2>2. Says(E, x, E[y]) /\ Says(E, y, E[y])
    BY <1>10, <2>1 DEF Says
  <2>3. E[y] \ Gones \subseteq Peers(x) /\ E[y] \ Gones \subseteq Peers(y)
    BY <1>2, <2>1, <2>2 DEF Remembers
  <2>4. y \in DOMAIN legion[x].known /\ x \in DOMAIN legion[y].known
    BY <1>10, <2>1, <2>3 DEF Peers
  <2> QED
    BY <1>4, <2>4
<1>11. Better(a, b) /\ Better(b, a)
  <2>1. a \in E[b] \/ b \in E[a]
    BY <1>4, <1>8, <1>9
  <2> QED
    BY <1>8, <1>10, <2>1
<1> QED
  BY <1>4, <1>11, BetterOrder

\* With a quorum of more than half of the nodes there is at most one ruling lord, for every
\* number of nodes and every valor.
THEOREM OneRulingLordAlways ==
  ASSUME 2 * Quorum > Cardinality(Node)
  PROVE  Spec => []OneRulingLord
<1>1. LegionInv => OneRulingLord
  BY OneLord
<1> QED
  BY <1>1, LegionInvariant, PTL
-----------------------------------------------------------------------------
(* The election does not get stuck                                           *)

\* An arbiter is never the lord, whatever hooks fail and whoever is suspected.
NoArbiterRules == \A n \in Node : legion[n].lord = TRUE => Valor[n] > 0

\* A turn makes at most its own node the lord.
LEMMA TurnLords ==
  ASSUME TypeOK, NEW n \in Node, NEW S, NEW q \in LegionRecord, Turn(n, S, q),
         q.lord = TRUE => legion[n].lord = TRUE \/ Valor[n] > 0,
         NEW x \in Node, legion'[x].lord = TRUE
  PROVE  legion[x].lord = TRUE \/ Valor[x] > 0
<1>1. CASE TurnEnds(n, S, q)
  <2>1. legion'[x] = IF x = n THEN q ELSE legion[x]
    BY <1>1 DEF TurnEnds, TypeOK
  <2> QED
    BY <2>1
<1>2. CASE LordHookFails(n, q)
  <2>1. PICK R \in Reached(n) : legion' = [DeathHeard(n, R) EXCEPT ![n] =
                    [q EXCEPT !.lord = FALSE, !.dead = TRUE, !.suspended = TRUE]]
    BY <1>2 DEF LordHookFails
  <2> DEFINE D == DeathHeard(n, R)
  <2> DEFINE p == [q EXCEPT !.lord = FALSE, !.dead = TRUE, !.suspended = TRUE]
  <2>2. p.lord = FALSE
    BY DEF LegionRecord
  <2>3. /\ D \in [Node -> LegionRecord]
        /\ \A y \in Node : D[y] = legion[y] \/ D[y] = RemoveNodes(legion[y], {n})
    BY HeardFacts
  <2>4. legion' = [D EXCEPT ![n] = p]
    BY <2>1
  <2> HIDE DEF D, p
  <2>5. x # n /\ legion'[x] = D[x]
    BY <2>2, <2>3, <2>4
  <2>6. RemoveNodes(legion[x], {n}).lord = legion[x].lord
    BY RemoveFacts DEF TypeOK
  <2> QED
    BY <2>3, <2>5, <2>6
<1> QED
  BY <1>1, <1>2 DEF Turn

\* The lords after a step were lords before or are no arbiters.
LEMMA NewLords ==
  ASSUME LegionInv, Next, NEW x \in Node, legion'[x].lord = TRUE
  PROVE  legion[x].lord = TRUE \/ Valor[x] > 0
<1>1. TypeOK /\ NotOnOwnList
  BY DEF LegionInv
<1>2. ASSUME NEW n \in Node, NEW S, NEW M, NEW q, TurnRecord(n, S, M, q), Turn(n, S, q)
      PROVE  legion[x].lord = TRUE \/ Valor[x] > 0
  <2>1. legion[n].first \in BOOLEAN
    BY <1>1, FieldTypes DEF TypeOK
  <2>2. q \in LegionRecord /\ (q.lord = TRUE => legion[n].lord = TRUE \/ Valor[n] > 0)
    BY <1>2, <2>1 DEF TurnRecord, Wins
  <2> QED
    BY <1>1, <1>2, <2>2, TurnLords
<1>3. ASSUME NEW n \in Node, NEW S \in SUBSET Node, NEW warns \in BOOLEAN, Round(n, S, warns)
      PROVE  legion[x].lord = TRUE \/ Valor[x] > 0
  <2>1. TurnRecord(n, S, {}, Decide(n, RemoveNodes(legion[n], S), warns))
    BY <1>1, RoundRecord
  <2> QED
    BY <1>2, <1>3, <2>1 DEF Round
<1>4. ASSUME NEW n \in Node, NEW m \in Node, NEW S \in SUBSET Node, NEW warns \in BOOLEAN,
             Receive(n, m, S, warns)
      PROVE  legion[x].lord = TRUE \/ Valor[x] > 0
  <2> DEFINE r == RemoveNodes(legion[n], S)
  <2>1. legion[n] \in LegionRecord /\ legion[m].dead \in BOOLEAN
    BY <1>1, FieldTypes DEF TypeOK
  <2>2. CASE legion[m].dead = TRUE
    <3> DEFINE q == RemoveNodes(r, {m})
    <3>1. r \in LegionRecord /\ r.lord = legion[n].lord
      BY <2>1, RemoveFacts
    <3>2. Turn(n, S, q)
      BY <1>4, <2>2 DEF Receive
    <3> HIDE DEF r
    <3>3. q \in LegionRecord /\ q.lord = r.lord
      BY <3>1, RemoveFacts
    <3> HIDE DEF q
    <3> QED
      BY <1>1, <3>1, <3>2, <3>3, TurnLords
  <2>3. CASE legion[m].dead = FALSE
    <3>1. TurnRecord(n, S, {m}, Decide(n, NodeSeen(r, m), warns))
      BY <1>1, <1>4, ReceiveRecord DEF Receive
    <3>2. Turn(n, S, Decide(n, NodeSeen(r, m), warns))
      BY <1>4, <2>3 DEF Receive
    <3> QED
      BY <1>2, <3>1, <3>2
  <2> QED
    BY <2>1, <2>2, <2>3
<1>5. ASSUME NEW n \in Node, Start(n) \/ SuspensionEnds(n)
      PROVE  legion[x].lord = TRUE
  <2>1. /\ [legion[n] EXCEPT !.status = "up"].lord = legion[n].lord
        /\ [legion[n] EXCEPT !.suspended = FALSE].lord = legion[n].lord
    BY <1>1 DEF TypeOK, LegionRecord
  <2>2. /\ Start(n) => legion' = [legion EXCEPT ![n] = [legion[n] EXCEPT !.status = "up"]]
        /\ SuspensionEnds(n) => legion' = [legion EXCEPT ![n] = [legion[n] EXCEPT !.suspended = FALSE]]
    BY DEF Start, SuspensionEnds
  <2>3. \/ legion'[x] = legion[x]
        \/ x = n /\ legion'[x] = [legion[n] EXCEPT !.status = "up"]
        \/ x = n /\ legion'[x] = [legion[n] EXCEPT !.suspended = FALSE]
    BY <1>1, <1>5, <2>2 DEF TypeOK
  <2> QED
    BY <2>1, <2>3
<1>6. ASSUME NEW n \in Node, Crash(n)
      PROVE  legion[x].lord = TRUE
  <2>1. legion'[x] = IF x = n THEN Gone ELSE legion[x]
    BY <1>1, <1>6 DEF Crash, TypeOK
  <2> QED
    BY <2>1, GoneFacts
<1>7. ASSUME NEW n \in Node, AnnounceDeath(n)
      PROVE  legion[x].lord = TRUE
  <2>1. PICK R : legion' = [DeathHeard(n, R) EXCEPT ![n] = Gone]
    BY <1>7 DEF AnnounceDeath
  <2> DEFINE D == DeathHeard(n, R)
  <2>2. /\ D \in [Node -> LegionRecord]
        /\ \A y \in Node : D[y] = legion[y] \/ D[y] = RemoveNodes(legion[y], {n})
    BY <1>1, HeardFacts
  <2>3. legion' = [D EXCEPT ![n] = Gone]
    BY <2>1
  <2> HIDE DEF D
  <2>4. x # n /\ legion'[x] = D[x]
    BY <2>2, <2>3, GoneFacts
  <2>5. RemoveNodes(legion[x], {n}).lord = legion[x].lord
    BY <1>1, RemoveFacts DEF TypeOK
  <2> QED
    BY <2>2, <2>4, <2>5
<1>8. Over => legion[x].lord = TRUE
  BY DEF Over, vars
<1> QED
  BY <1>3, <1>4, <1>5, <1>6, <1>7, <1>8 DEF Next

LEMMA NoArbiterStep == LegionInv /\ NoArbiterRules /\ [Next]_vars => NoArbiterRules'
<1>1. CASE UNCHANGED vars
  BY <1>1 DEF vars, NoArbiterRules
<1>2. ASSUME LegionInv, NoArbiterRules, Next
      PROVE  NoArbiterRules'
  BY <1>2, NewLords DEF NoArbiterRules
<1> QED
  BY <1>1, <1>2

LEMMA NoArbiterInit == Init => NoArbiterRules
<1> SUFFICES ASSUME Init, NEW n \in Node
             PROVE  legion[n].lord = FALSE
  BY DEF NoArbiterRules
<1>1. PICK U \in SUBSET Node : legion = [x \in Node |->
            [NewLegion EXCEPT !.status = IF x \in U THEN "up" ELSE "new"]]
  BY DEF Init
<1>2. NewLegion.lord = FALSE /\ NewLegion \in LegionRecord
  BY NewFacts
<1>3. PICK s \in {"new", "up", "gone"} : legion[n] = [NewLegion EXCEPT !.status = s]
  BY <1>1
<1> QED
  BY <1>2, <1>3, StatusFacts

\* The best of a set is found.
LEMMA BestFound ==
  ASSUME NEW S \in SUBSET Node, NEW b \in S, \A c \in S \ {b} : Better(b, c)
  PROVE  Best(S) = b
<1>1. Best(S) \in S /\ \A c \in S \ {Best(S)} : Better(Best(S), c)
  BY BestIsBest
<1>2. ASSUME Best(S) # b
      PROVE  FALSE
  <2>1. Better(b, Best(S)) /\ Better(Best(S), b)
    BY <1>1, <1>2
  <2> QED
    BY <1>1, <2>1, BetterOrder
<1> QED
  BY <1>2

\* The election leaves the vote and the checksum alone.
LEMMA ElectedFields ==
  ASSUME NEW n, NEW r \in LegionRecord, NEW c, NEW v, NEW w, NEW q, q = Elected(n, r, c, v, w)
  PROVE  q.vote = r.vote /\ q.sum = r.sum
<1> DEFINE t == [r EXCEPT !.lord = TRUE]
<1> DEFINE u == Unlorded(r)
<1> DEFINE P == HasQuorum(v) /\ c = n
<1> DEFINE Q == HasQuorum(v) /\ c # n
<1> DEFINE R == v > 0 /\ v < Quorum /\ w
<1>1. q = CASE P -> t [] Q -> u [] R -> u [] OTHER -> r
  BY DEF Elected
<1>2. P \in BOOLEAN /\ Q \in BOOLEAN /\ R \in BOOLEAN
  BY DEF HasQuorum
<1>3. t.vote = r.vote /\ t.sum = r.sum
  BY DEF LegionRecord
<1>4. u.vote = r.vote /\ u.sum = r.sum
  BY UnlordedFacts
<1> HIDE DEF P, Q, R, t, u
<1>5. q = t \/ q = u \/ q = r
  BY <1>1, <1>2, Arms
<1> QED
  BY <1>3, <1>4, <1>5

\* A decision that changes nothing has been taken before.
LEMMA DecidedBefore ==
  ASSUME NEW n \in Node, NEW r \in LegionRecord, n \notin DOMAIN r.known, Decide(n, r, TRUE) = r
  PROVE  /\ r.first = FALSE /\ r.vote = GetLord(n, r) /\ r.sum = {n} \cup DOMAIN r.known
         /\ r = Elected(n, r, Candidate(n, r), Votes(r, Candidate(n, r)), TRUE)
<1>1. r.first = FALSE
  <2>1. Decided(n, r, r)
    BY DecideFacts
  <2> QED
    BY <2>1 DEF Decided
<1>2. PICK a : a = WithLord(n, r)
  OBVIOUS
<1>3. PICK b : b = WithChecksum(n, a)
  OBVIOUS
<1>4. /\ a = [r EXCEPT !.vote = GetLord(n, r)]
      /\ a \in LegionRecord /\ a.known = r.known /\ a.vote = GetLord(n, r)
  <2>1. GetLord(n, r) \in Vote
    BY LordIsBest DEF Vote
  <2>2. a = [r EXCEPT !.vote = GetLord(n, r)]
    BY <1>2 DEF WithLord
  <2> QED
    BY <2>1, <2>2 DEF LegionRecord
<1>5. PICK z : z = {n} \cup DOMAIN r.known
  OBVIOUS
<1>6. /\ b = [a EXCEPT !.sum = z]
      /\ b \in LegionRecord /\ b.known = r.known /\ b.vote = GetLord(n, r) /\ b.sum = z
  <2>1. z \in SUBSET Node
    BY <1>5, FieldTypes
  <2>2. b = [a EXCEPT !.sum = z]
    BY <1>3, <1>4, <1>5, Zenon DEF WithChecksum
  <2> QED
    BY <1>4, <2>1, <2>2 DEF LegionRecord
<1> DEFINE w == TRUE
<1>7. r = Elected(n, b, Candidate(n, b), Votes(b, Candidate(n, b)), w)
  BY <1>1, <1>2, <1>3, Zenon DEF Decide
<1>8. r.vote = b.vote /\ r.sum = b.sum
  <2> HIDE DEF w
  <2>1. b \in LegionRecord
    BY <1>6
  <2>2. PICK d, v, q : d = Candidate(n, b) /\ v = Votes(b, d) /\ q = Elected(n, b, d, v, w)
    OBVIOUS
  <2>3. q.vote = b.vote /\ q.sum = b.sum
    BY <2>1, <2>2, ElectedFields
  <2>4. q = r
    BY <1>7, <2>2, Zenon
  <2> QED
    BY <2>3, <2>4
<1>9. a = r
  <2>1. r.vote = GetLord(n, r)
    BY <1>6, <1>8
  <2> QED
    BY <1>4, <2>1 DEF LegionRecord
<1>10. b = r
  BY <1>6, <1>8, <1>9 DEF LegionRecord
<1> QED
  BY <1>1, <1>5, <1>6, <1>7, <1>8, <1>10

\* In a quiet state every instance knows exactly the other members, by what they announce now.
LEMMA QuietKnows ==
  ASSUME LegionInv, \A n \in Node : Up(n) => Quiet(n), NEW n \in Node, Up(n)
  PROVE  /\ legion[n] \in LegionRecord /\ n \notin DOMAIN legion[n].known
         /\ legion[n].suspended = FALSE /\ Decide(n, legion[n], TRUE) = legion[n]
         /\ DOMAIN legion[n].known = Members \ {n}
         /\ \A m \in Members \ {n} : /\ legion[n].known[m].sum = legion[m].sum
                                     /\ legion[n].known[m].vote = legion[m].vote
<1>1. TypeOK /\ \A x \in Node : legion[x] \in LegionRecord /\ x \notin DOMAIN legion[x].known
  BY DEF LegionInv, TypeOK, NotOnOwnList
<1>2. \A x \in Node : legion[x].suspended \in BOOLEAN /\ legion[x].dead \in BOOLEAN
  BY <1>1, FieldTypes
<1>3. Quiet(n) /\ \A x \in Node : Up(x) => legion[x].suspended = FALSE
  BY <1>2 DEF Quiet
<1>4. \A x \in Node : Silent(x) <=> ~Up(x)
  BY <1>3 DEF Silent
<1>5. DOMAIN legion[n].known \in SUBSET Node
  BY <1>1, FieldTypes
<1>6. \A m \in DOMAIN legion[n].known : Up(m)
  BY <1>3, <1>4, <1>5 DEF Quiet, SilentPeers
<1>7. \A m \in Node \ {n} : Up(m) =>
          IF legion[m].dead THEN m \notin DOMAIN legion[n].known
          ELSE Decide(n, NodeSeen(legion[n], m), TRUE) = legion[n]
  BY <1>3, <1>4 DEF Quiet
<1>8. ASSUME NEW m \in Members \ {n}
      PROVE  /\ m \in DOMAIN legion[n].known
             /\ legion[n].known[m].sum = legion[m].sum /\ legion[n].known[m].vote = legion[m].vote
  <2>1. m \in Node \ {n} /\ Up(m) /\ ~legion[m].dead
    BY <1>8 DEF Members
  <2>2. PICK q : q = NodeSeen(legion[n], m)
    OBVIOUS
  <2>3. /\ q \in LegionRecord /\ DOMAIN q.known = DOMAIN legion[n].known \cup {m}
        /\ q.known[m].sum = legion[m].sum /\ q.known[m].vote = legion[m].vote
    BY <1>1, <2>1, <2>2, SeenFacts
  <2>4. n \notin DOMAIN q.known
    BY <1>1, <2>1, <2>3
  <2>5. Decide(n, q, TRUE) = legion[n]
    BY <1>7, <2>1, <2>2
  <2>6. legion[n].known = q.known
    <3>1. Decided(n, q, legion[n])
      BY <2>3, <2>4, <2>5, DecideFacts
    <3> QED
      BY <3>1 DEF Decided
  <2> QED
    BY <2>3, <2>6
<1>9. DOMAIN legion[n].known = Members \ {n}
  <2>1. \A m \in DOMAIN legion[n].known : m \in Members \ {n}
    BY <1>1, <1>2, <1>5, <1>6, <1>7 DEF Members
  <2> QED
    BY <1>8, <2>1
<1> QED
  BY <1>1, <1>3, <1>8, <1>9 DEF Quiet

\* Then all members vote for the best candidate, see each other's votes, and agree.
LEMMA QuietAgrees ==
  ASSUME LegionInv, \A n \in Node : Up(n) => Quiet(n),
         NEW C, C = {m \in Members : Valor[m] > 0}, C # {}, NEW n \in Members
  PROVE  /\ legion[n].vote = Best(C)
         /\ legion[n].lord = TRUE <=> n = Best(C) /\ Cardinality(Members) >= Quorum
<1>1. /\ Members \in SUBSET Node /\ C \in SUBSET Node /\ \A m \in Members : m \in Node /\ Up(m)
      /\ \A m \in Members : Valor[m] \in Nat
  BY LegionAssumption DEF Members
<1>2. PICK l : l = Best(C)
  OBVIOUS
<1>3. l \in C /\ \A c \in C \ {l} : Better(l, c)
  BY <1>1, <1>2, BestIsBest
<1>4. ASSUME NEW m \in Members
      PROVE  legion[m].vote = l /\ legion[m].sum = Members
  <2>1. /\ legion[m] \in LegionRecord /\ m \notin DOMAIN legion[m].known
        /\ Decide(m, legion[m], TRUE) = legion[m] /\ DOMAIN legion[m].known = Members \ {m}
    BY <1>1, QuietKnows
  <2>2. legion[m].vote = GetLord(m, legion[m]) /\ legion[m].sum = {m} \cup DOMAIN legion[m].known
    BY <1>1, <2>1, DecidedBefore
  <2>3. PICK S : S = {m} \cup {x \in DOMAIN legion[m].known : Valor[x] > 0}
    OBVIOUS
  <2>4. S = {m} \cup C
    BY <2>1, <2>3
  <2>5. \A c \in S \ {l} : Better(l, c)
    <3>1. Better(l, m) \/ m \in C
      <4>1. m \in C \/ Valor[m] = 0
        BY <1>1
      <4>2. Valor[l] > 0
        BY <1>3
      <4> QED
        BY <4>1, <4>2 DEF Better
    <3> QED
      BY <1>3, <2>4, <3>1
  <2>6. Best(S) = l
    <3>1. S \in SUBSET Node /\ l \in S
      BY <1>1, <1>3, <2>4
    <3> QED
      BY <2>5, <3>1, BestFound
  <2>7. GetLord(m, legion[m]) = Best(S)
    BY <2>3 DEF GetLord
  <2> QED
    BY <2>1, <2>2, <2>6, <2>7
<1>5. /\ legion[n] \in LegionRecord /\ n \notin DOMAIN legion[n].known /\ legion[n].suspended = FALSE
      /\ Decide(n, legion[n], TRUE) = legion[n] /\ DOMAIN legion[n].known = Members \ {n}
      /\ \A m \in Members \ {n} : /\ legion[n].known[m].sum = legion[m].sum
                                  /\ legion[n].known[m].vote = legion[m].vote
  BY <1>1, QuietKnows
<1>6. PICK r : r = legion[n]
  OBVIOUS
<1>7. Candidate(n, r) = l
  <2>1. r.vote = l /\ r.suspended = FALSE
    BY <1>4, <1>5, <1>6
  <2>2. l = n => Valor[n] > 0
    BY <1>3
  <2> QED
    BY <2>1, <2>2 DEF Candidate
<1>8. Agree(r, l)
  BY <1>4, <1>5, <1>6 DEF Agree
<1>9. PICK v : v = Votes(r, l)
  OBVIOUS
<1>10. v = Cardinality(Members) /\ v \in Nat /\ v > 0
  <2>1. IsFiniteSet(Members)
    BY <1>1, LegionAssumption, FS_Subset
  <2>2. /\ Cardinality(Members) \in Nat /\ Cardinality(Members \ {n}) \in Nat
        /\ Cardinality(Members \ {n}) = Cardinality(Members) - 1
    <3>1. IsFiniteSet(Members \ {n}) /\ Cardinality(Members \ {n}) = Cardinality(Members) - 1
      BY <2>1, FS_RemoveElement
    <3> QED
      BY <2>1, <3>1, FS_CardinalityType
  <2>3. v = 1 + Cardinality(Members \ {n})
    BY <1>5, <1>6, <1>8, <1>9 DEF Votes
  <2> QED
    BY <2>2, <2>3
<1>11. r = Elected(n, r, l, v, TRUE)
  BY <1>1, <1>5, <1>6, <1>7, <1>9, DecidedBefore
<1>12. Quorum \in Nat
  BY LegionAssumption
<1>13. CASE v >= Quorum
  <2>1. HasQuorum(v)
    BY <1>10, <1>13 DEF HasQuorum
  <2>2. CASE l = n
    <3>1. r = [r EXCEPT !.lord = TRUE]
      <4> DEFINE t == [r EXCEPT !.lord = TRUE]
      <4> DEFINE u == Unlorded(r)
      <4> DEFINE P == HasQuorum(v) /\ l = n
      <4> DEFINE Q == HasQuorum(v) /\ l # n
      <4> DEFINE R == v > 0 /\ v < Quorum /\ TRUE
      <4>1. r = CASE P -> t [] Q -> u [] R -> u [] OTHER -> r
        BY <1>11 DEF Elected
      <4>2. P /\ ~Q /\ ~R
        BY <1>10, <1>12, <1>13, <2>1, <2>2
      <4> HIDE DEF P, Q, R, t, u
      <4>3. r = t
        BY <4>1, <4>2
      <4> QED
        BY <4>3 DEF t
    <3>2. r.lord = TRUE
      BY <1>5, <1>6, <3>1 DEF LegionRecord
    <3> QED
      BY <1>2, <1>4, <1>6, <1>10, <1>13, <2>2, <3>2
  <2>3. CASE l # n
    <3>1. r = Unlorded(r)
      BY <1>11, <2>1, <2>3, Zenon DEF Elected
    <3>2. r.lord = FALSE
      BY <1>5, <1>6, <3>1, UnlordedFacts
    <3> QED
      BY <1>2, <1>4, <1>6, <2>3, <3>2
  <2> QED
    BY <2>2, <2>3
<1>14. CASE ~(v >= Quorum)
  <2>1. ~HasQuorum(v) /\ v > 0 /\ v < Quorum
    BY <1>10, <1>12, <1>14 DEF HasQuorum
  <2>2. r = Unlorded(r)
    BY <1>11, <2>1, Zenon DEF Elected
  <2>3. r.lord = FALSE
    BY <1>5, <1>6, <2>2, UnlordedFacts
  <2> QED
    BY <1>2, <1>4, <1>6, <1>10, <1>14, <2>3
<1> QED
  BY <1>13, <1>14

\* So the best candidate is the lord, alone; or there is none.
LEMMA QuietSettles ==
  ASSUME LegionInv, NoArbiterRules, \A n \in Node : Up(n) => Quiet(n)
  PROVE  Settled
<1>1. PICK C : C = {n \in Members : Valor[n] > 0}
  OBVIOUS
<1>2. PICK E : E = IF C # {} /\ Cardinality(Members) >= Quorum THEN {Best(C)} ELSE {}
  OBVIOUS
<1>3. /\ Members \in SUBSET Node /\ C \in SUBSET Node
      /\ Lords \cap Members = {n \in Members : legion[n].lord = TRUE}
  <2>1. \A n \in Node : legion[n].lord \in BOOLEAN
    BY FieldTypes DEF LegionInv, TypeOK
  <2> QED
    BY <1>1, <2>1 DEF Members, Lords
<1>4. CASE C = {}
  <2>1. Lords \cap Members = {}
    BY <1>1, <1>3, <1>4 DEF NoArbiterRules
  <2> QED
    BY <1>1, <1>4, <2>1 DEF Settled
<1>5. CASE C # {}
  <2>1. \A n \in Members : /\ legion[n].vote = Best(C)
                           /\ legion[n].lord = TRUE <=> n = Best(C) /\ Cardinality(Members) >= Quorum
    BY <1>1, <1>5, QuietAgrees
  <2>2. Best(C) \in Members
    <3>1. Best(C) \in C
      BY <1>3, <1>5, BestIsBest
    <3> QED
      BY <1>1, <3>1
  <2>3. Lords \cap Members = E /\ \A l \in E, n \in Members : legion[n].vote = l
    BY <1>2, <1>3, <1>5, <2>1, <2>2
  <2> QED
    BY <1>1, <1>2, <2>3, Zenon DEF Settled
<1> QED
  BY <1>4, <1>5

\* The election never gets stuck, for every number of nodes, every valor and every quorum,
\* and also after hooks failed and live nodes were taken for dead: if no packet and no timeout changes
\* the mind of legion_loop in any instance, the best living node is the lord, alone, or
\* there is no quorum and no lord.
THEOREM StuckOnlyWhenSettledAlways == Spec => []StuckOnlyWhenSettled
<1>1. Spec => []NoArbiterRules
  BY NoArbiterInit, NoArbiterStep, LegionInvariant, PTL DEF Spec
<1>2. LegionInv /\ NoArbiterRules => StuckOnlyWhenSettled
  BY QuietSettles DEF StuckOnlyWhenSettled
<1> QED
  BY <1>1, <1>2, LegionInvariant, PTL
=============================================================================
