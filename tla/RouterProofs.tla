---------------------------- MODULE RouterProofs ----------------------------
(***************************************************************************)
(* Nodes of the subscription table are not freed while sessions use them:    *)
(* RouterInv is inductive, and ReferencesCounted follows from it, for every   *)
(* number of keys, nodes and sessions and each of the four algorithms.       *)
(***************************************************************************)
EXTENDS Router, TLAPS, FiniteSetTheorems, SequenceTheorems

-----------------------------------------------------------------------------
(* The inductive invariant                                                   *)

\* The levels that nodes have.
Levels == {0} \cup {Level[a] : a \in Addr}

NodeRecord ==
    [used : BOOLEAN, addr : Addr \cup {None}, vassal : Vassal \cup {None}, ref : Nat,
     dead : BOOLEAN, silent : BOOLEAN, weight : Nat \ {0}, level : Levels, wrr : Nat, last : Nat]

TableRecord == [node : [Node -> NodeRecord], slot : [Key -> Seq(Node)], cheap : BOOLEAN]

SessionRecord ==
    [st : Stage, key : Key \cup {None}, un : Node \cup {0}, retries : 0 .. MaxRetries,
     canRetry : BOOLEAN, failed : BOOLEAN, missed : BOOLEAN]

\* The nodes in use are those of the lists, and each is in one list, once.
Listed(t) ==
    /\ \A k \in Key : \A i \in DOMAIN t.slot[k] : t.node[t.slot[k][i]].used
    /\ \A k, l \in Key : \A i \in DOMAIN t.slot[k], j \in DOMAIN t.slot[l] :
          t.slot[k][i] = t.slot[l][j] => k = l /\ i = j
    /\ \A n \in Node : t.node[n].used =>
          \E k \in Key : \E i \in DOMAIN t.slot[k] : t.slot[k][i] = n

\* c[n] sessions use the node n; without vassals the count is exact, as every node keeps
\* the address without which a reference is not given back.
Counted(t, c, vassals) ==
    /\ \A n \in Node : ~t.node[n].used => t.node[n].ref = 0
    /\ \A n \in Node : t.node[n].ref >= c[n]
    /\ ~vassals => \A n \in Node :
          /\ t.node[n].ref = c[n]
          /\ t.node[n].used => t.node[n].addr # None

TableInv(t, c, vassals) ==
    /\ t \in TableRecord
    /\ c \in [Node -> Nat]
    /\ Listed(t)
    /\ Counted(t, c, vassals)
    /\ t.cheap => NoSubscriptions(t)

\* A session has a node from its request on; one that waits for a vassal has a retry left;
\* one whose request was turned away has ended.
SessionFits(p) ==
    /\ p \in SessionRecord
    /\ p.st \in {"none", "reading"} => p.un = 0 /\ p.retries = 0
    /\ p.st \notin {"none", "reading"} => p.key \in Key
    /\ p.st \in {"deferred", "connecting", "connected"} => p.un # 0
    /\ p.st = "deferred" => p.retries < MaxRetries
    /\ p.missed => p.st = "none"

Counts == [n \in Node |-> Cardinality(Users(n))]

RouterInv ==
    /\ conf \in [algo : Algos, cheap : BOOLEAN, vassals : BOOLEAN]
    /\ sess \in [Session -> SessionRecord]
    /\ \A s \in Session : SessionFits(sess[s])
    /\ TableInv(Table, Counts, conf.vassals)

-----------------------------------------------------------------------------
(* First, Last and the list without some of its nodes                        *)

\* First finds the smallest of a set of numbers.
LEMMA FirstIsLeast ==
    ASSUME NEW S \in SUBSET Nat, S # {}
    PROVE  First(S) \in S /\ \A j \in S : First(S) <= j
<1>1. PICK i \in S : \A j \in S : ~(<<j, i>> \in OpToRel(<, Nat))
    BY WFMin, NatLessThanWellFounded
<1>2. \A j \in S : j < i => <<j, i>> \in OpToRel(<, Nat)
    BY DEF OpToRel
<1>3. \A j \in S : ~(j < i)
    BY <1>1, <1>2, Zenon
<1>4. \A j \in S : i <= j
    BY <1>3
<1> QED
    BY <1>4 DEF First

\* Last finds the largest, if there is a bound.
LEMMA LastIsLargest ==
    ASSUME NEW m \in Nat, NEW S \in SUBSET (1 .. m), S # {}
    PROVE  Last(S) \in S /\ \A j \in S : j <= Last(S)
<1> DEFINE T == {m - j : j \in S}
<1>1. T \in SUBSET Nat /\ T # {}
    OBVIOUS
<1>2. First(T) \in T /\ \A j \in T : First(T) <= j
    BY <1>1, FirstIsLeast
<1>3. PICK i \in S : First(T) = m - i
    BY <1>2
<1>4. \A j \in S : j <= i
  <2>1. ASSUME NEW j \in S
        PROVE  j <= i
    <3>1. m - j \in T
        OBVIOUS
    <3>2. m - i <= m - j
        BY <1>2, <1>3, <3>1
    <3> QED
        BY <3>2
  <2> QED
    BY <2>1
<1> QED
    BY <1>4 DEF Last

\* The places of a finite set of numbers in their order: each has another count of smaller
\* ones, and every count up to the last occurs.
LEMMA Ranked ==
    ASSUME NEW m \in Nat, NEW S \in SUBSET (1 .. m)
    PROVE  /\ IsFiniteSet(S) /\ Cardinality(S) \in Nat
           /\ \A i \in S : Cardinality(Before(S, i)) \in 0 .. Cardinality(S) - 1
           /\ \A i, j \in S : Cardinality(Before(S, i)) = Cardinality(Before(S, j)) => i = j
           /\ \A r \in 0 .. Cardinality(S) - 1 : \E i \in S : Cardinality(Before(S, i)) = r
<1>1. IsFiniteSet(S) /\ Cardinality(S) \in Nat
  <2>1. IsFiniteSet(1 .. m)
    BY FS_Interval
  <2> QED
    BY <2>1, FS_Subset, FS_CardinalityType
<1>2. \A i \in S : IsFiniteSet(Before(S, i)) /\ Cardinality(Before(S, i)) \in Nat
  <2>1. \A i \in S : Before(S, i) \in SUBSET S
    BY DEF Before
  <2> QED
    BY <1>1, <2>1, FS_Subset, FS_CardinalityType
<1>3. ASSUME NEW i \in S
      PROVE  Cardinality(Before(S, i)) \in 0 .. Cardinality(S) - 1
  <2>1. Before(S, i) \in SUBSET (S \ {i})
    BY DEF Before
  <2>2. IsFiniteSet(S \ {i}) /\ Cardinality(S \ {i}) = Cardinality(S) - 1
    BY <1>1, FS_RemoveElement
  <2>3. Cardinality(Before(S, i)) <= Cardinality(S) - 1
    BY <2>1, <2>2, FS_Subset
  <2> QED
    BY <1>1, <1>2, <2>3
<1>4. ASSUME NEW i \in S, NEW j \in S, i < j
      PROVE  Cardinality(Before(S, i)) < Cardinality(Before(S, j))
  <2>1. Before(S, i) \cup {i} \subseteq Before(S, j)
    <3>1. \A x \in Before(S, i) : x \in S /\ x < i
        BY DEF Before
    <3>2. ASSUME NEW x \in Before(S, i)
          PROVE  x < j
      <4>1. \A y \in S : y \in Nat
        OBVIOUS
      <4>2. x \in Nat /\ i \in Nat /\ j \in Nat /\ x < i
        BY <3>1, <4>1
      <4> QED
        BY <1>4, <4>2
    <3>3. \A x \in Before(S, i) : x \in Before(S, j)
        BY <3>1, <3>2 DEF Before
    <3>4. i \in Before(S, j)
        BY <1>4 DEF Before
    <3> QED
        BY <3>3, <3>4
  <2>2. i \notin Before(S, i)
    BY DEF Before
  <2>3. IsFiniteSet(Before(S, i) \cup {i})
        /\ Cardinality(Before(S, i) \cup {i}) = Cardinality(Before(S, i)) + 1
    BY <1>2, <2>2, FS_AddElement
  <2>4. Cardinality(Before(S, i) \cup {i}) <= Cardinality(Before(S, j))
    BY <1>2, <2>1, FS_Subset
  <2> QED
    BY <1>2, <2>3, <2>4
<1>5. \A i, j \in S : Cardinality(Before(S, i)) = Cardinality(Before(S, j)) => i = j
  <2>1. ASSUME NEW i \in S, NEW j \in S, Cardinality(Before(S, i)) = Cardinality(Before(S, j)), i # j
        PROVE  FALSE
    <3>1. i < j \/ j < i
        BY <2>1
    <3> QED
        BY <1>2, <1>4, <2>1, <3>1
  <2> QED
    BY <2>1
<1>6. \A r \in 0 .. Cardinality(S) - 1 : \E i \in S : Cardinality(Before(S, i)) = r
  <2> DEFINE T == 0 .. Cardinality(S) - 1
  <2> DEFINE rank == [i \in S |-> Cardinality(Before(S, i))]
  <2>1. rank \in [S -> T]
    BY <1>3
  <2>2. rank \in Injection(S, T)
    BY <1>5, <2>1 DEF Injection, IsInjective
  <2>3. IsFiniteSet(T) /\ Cardinality(T) = Cardinality(S)
    BY <1>1, FS_Interval
  <2>4. rank \in Surjection(S, T)
    BY <2>2, <2>3, FS_Injection
  <2> QED
    BY <2>4 DEF Surjection
<1> QED
    BY <1>1, <1>3, <1>5, <1>6

\* d is what is left of a list q of members of A: those but the dropped ones, once each if
\* q has them once each.
IsRest(d, q, gone, A) ==
    /\ d \in Seq(A)
    /\ \A i \in DOMAIN d : \E j \in DOMAIN q : d[i] = q[j] /\ q[j] \notin gone
    /\ \A j \in DOMAIN q : q[j] \notin gone => \E i \in DOMAIN d : d[i] = q[j]
    /\ (\A i, j \in DOMAIN q : q[i] = q[j] => i = j) =>
          \A i, j \in DOMAIN d : d[i] = d[j] => i = j

LEMMA DroppedList ==
    ASSUME NEW A, NEW q \in Seq(A), NEW gone
    PROVE  IsRest(Dropped(q, gone), q, gone, A)
<1> DEFINE S == Kept(q, gone)
<1> DEFINE N == Cardinality(S)
<1> DEFINE at(i) == CHOOSE j \in S : Cardinality(Before(S, j)) = i - 1
<1>1. Len(q) \in Nat /\ DOMAIN q = 1 .. Len(q) /\ \A i \in DOMAIN q : q[i] \in A
    BY LenProperties, ElementOfSeq
<1>2. S \in SUBSET (1 .. Len(q))
    BY <1>1 DEF Kept
<1>3. /\ N \in Nat
      /\ \A i \in S : Cardinality(Before(S, i)) \in 0 .. N - 1
      /\ \A i, j \in S : Cardinality(Before(S, i)) = Cardinality(Before(S, j)) => i = j
      /\ \A r \in 0 .. N - 1 : \E i \in S : Cardinality(Before(S, i)) = r
    BY <1>1, <1>2, Ranked
<1>4. \A j \in S : j \in DOMAIN q /\ q[j] \notin gone
    BY DEF Kept
<1>5. \A j \in DOMAIN q : q[j] \notin gone => j \in S
    BY DEF Kept
<1>6. Dropped(q, gone) = [i \in 1 .. N |-> q[at(i)]]
    BY DEF Dropped
<1> HIDE DEF S, N
<1>7. ASSUME NEW i \in 1 .. N
      PROVE  at(i) \in S /\ Cardinality(Before(S, at(i))) = i - 1
  <2>1. i - 1 \in 0 .. N - 1
    BY <1>3
  <2>2. \E j \in S : Cardinality(Before(S, j)) = i - 1
    BY <1>3, <2>1
  <2> QED
    BY <2>2
<1> HIDE DEF at
<1>8. DOMAIN Dropped(q, gone) = 1 .. N /\ \A i \in 1 .. N : Dropped(q, gone)[i] = q[at(i)]
    BY <1>6
<1>9. Dropped(q, gone) \in Seq(A)
  <2>1. Dropped(q, gone) \in [1 .. N -> A]
    BY <1>1, <1>4, <1>6, <1>7
  <2> QED
    BY <1>3, <2>1, SeqDef
<1>10. \A i \in DOMAIN Dropped(q, gone) :
          \E j \in DOMAIN q : Dropped(q, gone)[i] = q[j] /\ q[j] \notin gone
    BY <1>4, <1>7, <1>8
<1>11. ASSUME NEW j \in DOMAIN q, q[j] \notin gone
       PROVE  \E i \in DOMAIN Dropped(q, gone) : Dropped(q, gone)[i] = q[j]
  <2>1. j \in S
    BY <1>5, <1>11
  <2>2. PICK r \in 0 .. N - 1 : r = Cardinality(Before(S, j))
    BY <1>3, <2>1
  <2>3. r + 1 \in 1 .. N /\ (r + 1) - 1 = r
    BY <1>3
  <2>4. at(r + 1) \in S /\ Cardinality(Before(S, at(r + 1))) = r
    BY <1>7, <2>3
  <2>5. at(r + 1) = j
    BY <1>3, <2>1, <2>2, <2>4
  <2> QED
    BY <1>8, <2>3, <2>5
<1>12. ASSUME \A i, j \in DOMAIN q : q[i] = q[j] => i = j,
              NEW i \in 1 .. N, NEW j \in 1 .. N, q[at(i)] = q[at(j)]
       PROVE  i = j
  <2>1. at(i) = at(j)
    BY <1>4, <1>7, <1>12
  <2>2. i - 1 = j - 1
    BY <1>7, <2>1
  <2> QED
    BY <1>3, <2>2
<1> QED
    BY <1>8, <1>9, <1>10, <1>11, <1>12 DEF IsRest

-----------------------------------------------------------------------------
(* Steps on the table                                                        *)

\* What is known of a node and a list of a table.
LEMMA TableFacts ==
    ASSUME NEW t \in TableRecord
    PROVE  /\ t.node \in [Node -> NodeRecord] /\ t.slot \in [Key -> Seq(Node)] /\ t.cheap \in BOOLEAN
           /\ \A n \in Node : t.node[n] \in NodeRecord
           /\ \A k \in Key : t.slot[k] \in Seq(Node)
           /\ \A k \in Key : \A i \in DOMAIN t.slot[k] : t.slot[k][i] \in Node
<1>1. /\ t.node \in [Node -> NodeRecord] /\ t.slot \in [Key -> Seq(Node)] /\ t.cheap \in BOOLEAN
      /\ \A k \in Key : t.slot[k] \in Seq(Node)
    BY DEF TableRecord
<1>2. ASSUME NEW k \in Key, NEW i \in DOMAIN t.slot[k]
      PROVE  t.slot[k][i] \in Node
    BY <1>1, LenProperties, ElementOfSeq
<1> QED
    BY <1>1, <1>2

\* A step that leaves the lists and the nodes in use alone, and counts as it should.
LEMMA SameLists ==
    ASSUME NEW t, NEW c, NEW vassals, TableInv(t, c, vassals),
           NEW u \in TableRecord, NEW d \in [Node -> Nat],
           u.slot = t.slot, u.cheap => t.cheap,
           \A n \in Node : u.node[n].used = t.node[n].used,
           Counted(u, d, vassals)
    PROVE  TableInv(u, d, vassals)
<1>1. t \in TableRecord /\ Listed(t) /\ (t.cheap => NoSubscriptions(t))
    BY DEF TableInv
<1>2. \A k \in Key : \A i \in DOMAIN t.slot[k] : t.slot[k][i] \in Node
    BY <1>1, TableFacts
<1>3. Listed(u)
    BY <1>1, <1>2 DEF Listed
<1>4. u.cheap => NoSubscriptions(u)
    BY <1>1 DEF NoSubscriptions
<1> QED
    BY <1>3, <1>4 DEF TableInv

\* Records of nodes.
LEMMA FreeNodeRecord ==
    FreeNode \in NodeRecord /\ ~FreeNode.used /\ FreeNode.ref = 0
BY DEF FreeNode, NodeRecord, Levels

\* The fields of the table after nodes are removed.
LEMMA RemoveFields ==
    ASSUME NEW t \in TableRecord, NEW k \in Key, NEW gone
    PROVE  /\ RemoveNodes(t, k, gone) \in TableRecord
           /\ RemoveNodes(t, k, gone).node =
                 [n \in Node |-> IF n \in gone THEN FreeNode ELSE t.node[n]]
           /\ RemoveNodes(t, k, gone).slot = [t.slot EXCEPT ![k] = Dropped(t.slot[k], gone)]
           /\ RemoveNodes(t, k, gone).cheap = t.cheap
<1> DEFINE ns == [n \in Node |-> IF n \in gone THEN FreeNode ELSE t.node[n]]
<1> DEFINE sl == [t.slot EXCEPT ![k] = Dropped(t.slot[k], gone)]
<1>1. RemoveNodes(t, k, gone) = [node |-> ns, slot |-> sl, cheap |-> t.cheap]
    BY DEF RemoveNodes
<1>2. ns \in [Node -> NodeRecord]
    BY TableFacts, FreeNodeRecord
<1>3. Dropped(t.slot[k], gone) \in Seq(Node)
    BY TableFacts, DroppedList DEF IsRest
<1>4. sl \in [Key -> Seq(Node)]
    BY <1>3, TableFacts
<1>5. t.cheap \in BOOLEAN
    BY TableFacts
<1> HIDE DEF ns, sl
<1>6. [node |-> ns, slot |-> sl, cheap |-> t.cheap] \in TableRecord
    BY <1>2, <1>4, <1>5 DEF TableRecord
<1>7. /\ RemoveNodes(t, k, gone).node = ns
      /\ RemoveNodes(t, k, gone).slot = sl
      /\ RemoveNodes(t, k, gone).cheap = t.cheap
    BY <1>1
<1> QED
    BY <1>1, <1>6, <1>7 DEF ns, sl

\* Nodes of one list that nobody uses can be removed.
LEMMA RemoveUnused ==
    ASSUME NEW t, NEW c, NEW vassals, TableInv(t, c, vassals), NEW k \in Key, NEW gone,
           \A n \in gone : n \in Node /\ t.node[n].ref = 0 /\ \E i \in DOMAIN t.slot[k] : t.slot[k][i] = n
    PROVE  TableInv(RemoveNodes(t, k, gone), c, vassals)
<1>1. /\ t \in TableRecord /\ c \in [Node -> Nat] /\ Listed(t) /\ Counted(t, c, vassals)
      /\ t.cheap => NoSubscriptions(t)
    BY DEF TableInv
<1>2. PICK u : u = RemoveNodes(t, k, gone)
    OBVIOUS
<1>3. /\ u \in TableRecord
      /\ u.node = [n \in Node |-> IF n \in gone THEN FreeNode ELSE t.node[n]]
      /\ u.slot = [t.slot EXCEPT ![k] = Dropped(t.slot[k], gone)]
      /\ u.cheap = t.cheap
    BY <1>1, <1>2, RemoveFields
<1>4. PICK q : q = Dropped(t.slot[k], gone)
    OBVIOUS
<1>5. /\ t.slot[k] \in Seq(Node) /\ t.slot \in [Key -> Seq(Node)]
      /\ \A l \in Key : \A i \in DOMAIN t.slot[l] : t.slot[l][i] \in Node
    BY <1>1, TableFacts
<1>6. u.slot[k] = q /\ \A l \in Key : l # k => u.slot[l] = t.slot[l]
    BY <1>3, <1>4, <1>5
<1>7. /\ \A n \in Node : n \notin gone => u.node[n] = t.node[n]
      /\ \A n \in gone : ~u.node[n].used /\ u.node[n].ref = 0
    BY <1>3, FreeNodeRecord
<1>8. /\ q \in Seq(Node)
      /\ \A i \in DOMAIN q : \E j \in DOMAIN t.slot[k] : q[i] = t.slot[k][j] /\ t.slot[k][j] \notin gone
      /\ \A j \in DOMAIN t.slot[k] : t.slot[k][j] \notin gone => \E i \in DOMAIN q : q[i] = t.slot[k][j]
      /\ (\A i, j \in DOMAIN t.slot[k] : t.slot[k][i] = t.slot[k][j] => i = j) =>
            \A i, j \in DOMAIN q : q[i] = q[j] => i = j
  <2>1. IsRest(q, t.slot[k], gone, Node)
    BY <1>4, <1>5, DroppedList
  <2> QED
    BY <2>1 DEF IsRest
<1>9. \A i, j \in DOMAIN q : q[i] = q[j] => i = j
    BY <1>1, <1>8 DEF Listed
<1>10. \A l \in Key : \A i \in DOMAIN u.slot[l] :
          \E j \in DOMAIN t.slot[l] : u.slot[l][i] = t.slot[l][j] /\ t.slot[l][j] \notin gone
  <2>1. ASSUME NEW l \in Key, l # k, NEW i \in DOMAIN u.slot[l]
        PROVE  \E j \in DOMAIN t.slot[l] : u.slot[l][i] = t.slot[l][j] /\ t.slot[l][j] \notin gone
    BY <1>1, <1>6, <2>1 DEF Listed
  <2> QED
    BY <1>6, <1>8, <2>1
<1>11. Listed(u)
  <2>1. ASSUME NEW l \in Key, NEW i \in DOMAIN u.slot[l]
        PROVE  u.node[u.slot[l][i]].used
    <3>1. PICK j \in DOMAIN t.slot[l] : u.slot[l][i] = t.slot[l][j] /\ t.slot[l][j] \notin gone
        BY <1>10
    <3>2. t.slot[l][j] \in Node /\ t.node[t.slot[l][j]].used
        BY <1>1, <1>5 DEF Listed
    <3> QED
        BY <1>7, <3>1, <3>2
  <2>2. ASSUME NEW l \in Key, NEW m \in Key, NEW i \in DOMAIN u.slot[l], NEW j \in DOMAIN u.slot[m],
               u.slot[l][i] = u.slot[m][j]
        PROVE  l = m /\ i = j
    <3>1. l = m
        BY <1>1, <1>10, <2>2 DEF Listed
    <3>2. CASE l = k
        BY <1>6, <1>9, <2>2, <3>1, <3>2
    <3>3. CASE l # k
        BY <1>1, <1>6, <2>2, <3>1, <3>3 DEF Listed
    <3> QED
        BY <3>1, <3>2, <3>3
  <2>3. ASSUME NEW n \in Node, u.node[n].used
        PROVE  \E l \in Key : \E i \in DOMAIN u.slot[l] : u.slot[l][i] = n
    <3>1. n \notin gone /\ t.node[n].used
        BY <1>7, <2>3
    <3>2. PICK l \in Key : \E j \in DOMAIN t.slot[l] : t.slot[l][j] = n
        BY <1>1, <3>1 DEF Listed
    <3>3. CASE l = k
        BY <1>6, <1>8, <3>1, <3>2, <3>3
    <3>4. CASE l # k
        BY <1>6, <3>2, <3>4
    <3> QED
        BY <3>3, <3>4
  <2> QED
    BY <2>1, <2>2, <2>3 DEF Listed
<1>12. Counted(u, c, vassals)
  <2>1. ASSUME NEW n \in Node
        PROVE  /\ u.node[n].ref = t.node[n].ref
               /\ u.node[n].used => t.node[n].used /\ u.node[n].addr = t.node[n].addr
               /\ ~u.node[n].used => u.node[n].ref = 0
    BY <1>1, <1>7 DEF Counted
  <2> QED
    BY <1>1, <2>1 DEF Counted
<1>13. u.cheap => NoSubscriptions(u)
  <2>1. ASSUME t.cheap
        PROVE  \A l \in Key : u.slot[l] = << >>
    <3>1. \A l \in Key : t.slot[l] = << >>
        BY <1>1, <2>1 DEF NoSubscriptions
    <3>2. \A l \in Key : DOMAIN t.slot[l] = {}
        BY <3>1
    <3>3. DOMAIN q = {}
        BY <1>8, <3>2
    <3>4. q = << >>
        BY <1>8, <3>3, LenProperties, EmptySeq
    <3> QED
        BY <1>6, <3>1, <3>4
  <2> QED
    BY <1>3, <2>1 DEF NoSubscriptions
<1> QED
    BY <1>1, <1>2, <1>3, <1>11, <1>12, <1>13 DEF TableInv

\* A step on one node: it stays in use or free, and counts as it should.
LEMMA OneNode ==
    ASSUME NEW t, NEW c, NEW vassals, TableInv(t, c, vassals),
           NEW n \in Node, NEW x \in NodeRecord, NEW d \in [Node -> Nat],
           \A m \in Node : m # n => d[m] = c[m],
           x.used = t.node[n].used,
           x.ref >= d[n],
           ~x.used => x.ref = 0,
           ~vassals => x.ref = d[n] /\ (x.used => x.addr # None)
    PROVE  TableInv(WithNode(t, n, x), d, vassals)
<1>1. PICK u : u = WithNode(t, n, x)
    OBVIOUS
<1>2. t \in TableRecord /\ Counted(t, c, vassals)
    BY DEF TableInv
<1>3. t.node \in [Node -> NodeRecord] /\ t.slot \in [Key -> Seq(Node)] /\ t.cheap \in BOOLEAN
    BY <1>2, TableFacts
<1>4. u.node = [t.node EXCEPT ![n] = x] /\ u.slot = t.slot /\ u.cheap = t.cheap
    BY <1>1 DEF WithNode
<1>5. [t.node EXCEPT ![n] = x] \in [Node -> NodeRecord]
    BY <1>3
<1>6. u \in TableRecord
    BY <1>1, <1>3, <1>5 DEF WithNode, TableRecord
<1>7. u.node[n] = x /\ \A m \in Node : m # n => u.node[m] = t.node[m]
    BY <1>3, <1>4
<1>8. \A m \in Node : u.node[m].used = t.node[m].used
    BY <1>7
<1>9. Counted(u, d, vassals)
    BY <1>2, <1>7 DEF Counted
<1>10. u.cheap => t.cheap
    BY <1>4
<1>11. TableInv(u, d, vassals)
    BY <1>4, <1>6, <1>8, <1>9, <1>10, SameLists
<1> QED
    BY <1>1, <1>11

LEMMA NodeFields ==
    ASSUME NEW x \in NodeRecord
    PROVE  /\ x.used \in BOOLEAN /\ x.dead \in BOOLEAN /\ x.silent \in BOOLEAN /\ x.addr \in Addr \cup {None}
           /\ x.vassal \in Vassal \cup {None} /\ x.ref \in Nat /\ x.weight \in Nat \ {0}
           /\ x.level \in Nat /\ x.wrr \in Nat /\ x.last \in Nat
<1>1. \A l \in Levels : l \in Nat
    BY PoolAssumption DEF Levels
<1> QED
    BY <1>1 DEF NodeRecord

\* A node with another count or another number of turns, or marked dead.
LEMMA NodeChanges ==
    ASSUME NEW x \in NodeRecord, NEW i \in Nat
    PROVE  /\ [x EXCEPT !.ref = i] \in NodeRecord /\ [x EXCEPT !.ref = i].ref = i
           /\ [x EXCEPT !.ref = i].used = x.used /\ [x EXCEPT !.ref = i].addr = x.addr
           /\ [x EXCEPT !.ref = i].wrr = x.wrr
           /\ [x EXCEPT !.wrr = i] \in NodeRecord /\ [x EXCEPT !.wrr = i].ref = x.ref
           /\ [x EXCEPT !.wrr = i].used = x.used /\ [x EXCEPT !.wrr = i].addr = x.addr
           /\ [x EXCEPT !.dead = TRUE] \in NodeRecord /\ [x EXCEPT !.dead = TRUE].ref = x.ref
           /\ [x EXCEPT !.dead = TRUE].used = x.used /\ [x EXCEPT !.dead = TRUE].addr = x.addr
BY DEF NodeRecord

\* Going cheap changes neither nodes nor lists, and only without nodes.
LEMMA GoneCheapKeeps ==
    ASSUME NEW t, NEW c, NEW vassals, TableInv(t, c, vassals)
    PROVE  /\ TableInv(GoneCheap(t), c, vassals)
           /\ GoneCheap(t).node = t.node /\ GoneCheap(t).slot = t.slot
<1>1. t \in TableRecord /\ c \in [Node -> Nat] /\ Listed(t) /\ Counted(t, c, vassals)
    BY DEF TableInv
<1>2. PICK u : u = [t EXCEPT !.cheap = TRUE]
    OBVIOUS
<1>3. u \in TableRecord /\ u.node = t.node /\ u.slot = t.slot
    BY <1>1, <1>2 DEF TableRecord
<1>4. Listed(u) /\ Counted(u, c, vassals)
    BY <1>1, <1>3 DEF Listed, Counted
<1>5. CASE conf.cheap /\ ~t.cheap /\ NoSubscriptions(t)
  <2>1. GoneCheap(t) = u
    BY <1>2, <1>5 DEF GoneCheap
  <2>2. NoSubscriptions(u)
    BY <1>3, <1>5 DEF NoSubscriptions
  <2> QED
    BY <1>1, <1>3, <1>4, <2>1, <2>2 DEF TableInv
<1>6. CASE ~(conf.cheap /\ ~t.cheap /\ NoSubscriptions(t))
    BY <1>6 DEF GoneCheap
<1> QED
    BY <1>5, <1>6

-----------------------------------------------------------------------------
(* The choice of a node                                                      *)

\* Products of natural numbers: a factor that is not 0 can be added or taken away.
LEMMA Cancel ==
    ASSUME NEW x \in Nat, NEW y \in Nat, NEW z \in Nat \ {0}
    PROVE  /\ x * z \in Nat
           /\ x < y => x * z < y * z
           /\ x * z < y * z => x < y
OBVIOUS

\* Fractions are ordered by their cross products.
LEMMA FractionOrder ==
    ASSUME NEW a \in Nat, NEW c \in Nat, NEW e \in Nat,
           NEW b \in Nat \ {0}, NEW d \in Nat \ {0}, NEW f \in Nat \ {0},
           a * d < c * b, c * f < e * d
    PROVE  a * f < e * b
<1>1. (a * d) * f < (c * b) * f
    BY Cancel
<1>2. (c * f) * b < (e * d) * b
    BY Cancel
<1>3. (c * b) * f = (c * f) * b /\ (a * d) * f = (a * f) * d /\ (e * d) * b = (e * b) * d
    OBVIOUS
<1>4. (a * f) * d < (e * b) * d
    BY <1>1, <1>2, <1>3
<1>5. a * f \in Nat /\ e * b \in Nat
    OBVIOUS
<1> QED
    BY <1>4, <1>5, Cancel

\* Shares of nodes: nothing is less than itself, and Less is transitive.
LEMMA ShareOrder ==
    ASSUME NEW ns \in [Node -> NodeRecord], NEW weighted \in BOOLEAN,
           NEW m \in Node, NEW n \in Node, NEW o \in Node
    PROVE  /\ ~Less(Share(ns, m, weighted), Share(ns, m, weighted))
           /\ Less(Share(ns, m, weighted), Share(ns, n, weighted))
              /\ Less(Share(ns, n, weighted), Share(ns, o, weighted))
                 => Less(Share(ns, m, weighted), Share(ns, o, weighted))
<1> DEFINE w(x) == IF weighted THEN ns[x].weight ELSE 1
<1>1. \A x \in Node : ns[x].ref \in Nat /\ w(x) \in Nat \ {0}
    BY DEF NodeRecord
<1>2. \A x, y \in Node : Less(Share(ns, x, weighted), Share(ns, y, weighted))
                         <=> ns[x].ref * w(y) < ns[y].ref * w(x)
    BY DEF Less, Share
<1> HIDE DEF w
<1>3. ~Less(Share(ns, m, weighted), Share(ns, m, weighted))
  <2>1. ns[m].ref * w(m) \in Nat
    BY <1>1
  <2> QED
    BY <1>2, <2>1
<1>4. ASSUME ns[m].ref * w(n) < ns[n].ref * w(m), ns[n].ref * w(o) < ns[o].ref * w(n)
      PROVE  ns[m].ref * w(o) < ns[o].ref * w(m)
    BY <1>1, <1>4, FractionOrder
<1> QED
    BY <1>2, <1>3, <1>4

\* Nodes of a list that have a smallest share among those at the places in S.
Smallest(ns, q, S, weighted) ==
    {i \in S : \A j \in S : ~Less(Share(ns, q[j], weighted), Share(ns, q[i], weighted))}

\* There is a smallest share.
LEMMA SmallestExists ==
    ASSUME NEW ns \in [Node -> NodeRecord], NEW q \in Seq(Node), NEW weighted \in BOOLEAN,
           NEW S \in SUBSET DOMAIN q, S # {}
    PROVE  Smallest(ns, q, S, weighted) # {}
<1> DEFINE L(i, j) == Less(Share(ns, q[i], weighted), Share(ns, q[j], weighted))
<1> DEFINE Bad == {T \in SUBSET S : T # {} /\ Smallest(ns, q, T, weighted) = {}}
<1>1. Len(q) \in Nat /\ DOMAIN q = 1 .. Len(q) /\ \A i \in DOMAIN q : q[i] \in Node
    BY LenProperties, ElementOfSeq
<1>2. \A i, j, k \in DOMAIN q : ~L(i, i) /\ (L(i, j) /\ L(j, k) => L(i, k))
  <2>1. ASSUME NEW i \in DOMAIN q, NEW j \in DOMAIN q, NEW k \in DOMAIN q
        PROVE  ~L(i, i) /\ (L(i, j) /\ L(j, k) => L(i, k))
    <3>1. q[i] \in Node /\ q[j] \in Node /\ q[k] \in Node
        BY <1>1
    <3> QED
        BY <3>1, ShareOrder
  <2> QED
    BY <2>1
<1>3. IsFiniteSet(S)
  <2>1. IsFiniteSet(1 .. Len(q))
    BY <1>1, FS_Interval
  <2> QED
    BY <1>1, <2>1, FS_Subset
<1>4. \A T \in SUBSET S : IsFiniteSet(T) /\ Cardinality(T) \in Nat
    BY <1>3, FS_Subset, FS_CardinalityType
<1>5. \A T : Smallest(ns, q, T, weighted) = {i \in T : \A j \in T : ~L(j, i)}
    BY DEF Smallest
<1> HIDE DEF L
<1>6. SUFFICES ASSUME Bad # {}
               PROVE  FALSE
    OBVIOUS
<1> DEFINE Sizes == {Cardinality(T) : T \in Bad}
<1>7. Sizes \in SUBSET Nat /\ Sizes # {}
    BY <1>4, <1>6
<1>8. First(Sizes) \in Sizes /\ \A k \in Sizes : First(Sizes) <= k
    BY <1>7, FirstIsLeast
<1>9. PICK T \in Bad : \A U \in Bad : Cardinality(T) <= Cardinality(U)
  <2>1. PICK T \in Bad : First(Sizes) = Cardinality(T)
    BY <1>8
  <2>2. \A U \in Bad : Cardinality(U) \in Sizes
    OBVIOUS
  <2> QED
    BY <1>8, <2>1, <2>2
<1>10. PICK x : x \in T
    OBVIOUS
<1>11. T \ {x} \in SUBSET S /\ T \in SUBSET S /\ Cardinality(T \ {x}) = Cardinality(T) - 1
    BY <1>4, <1>10, FS_RemoveElement
<1>12. T \ {x} \notin Bad
  <2>1. Cardinality(T) \in Nat
    BY <1>4, <1>11
  <2>2. ~(Cardinality(T) <= Cardinality(T \ {x}))
    BY <1>11, <2>1
  <2> QED
    BY <1>9, <2>2
<1>13. \A i \in T : i \in DOMAIN q
    BY <1>11
<1>14. CASE T \ {x} = {}
  <2>1. \A j \in T : j = x
    BY <1>14
  <2>2. x \in Smallest(ns, q, T, weighted)
    BY <1>2, <1>5, <1>10, <1>13, <2>1
  <2> QED
    BY <2>2
<1>15. CASE T \ {x} # {}
  <2>1. PICK y \in T \ {x} : \A j \in T \ {x} : ~L(j, y)
    BY <1>5, <1>11, <1>12, <1>15
  <2>2. CASE L(x, y)
    <3>1. \A j \in T : ~L(j, x)
        BY <1>2, <1>10, <1>13, <2>1, <2>2
    <3>2. x \in Smallest(ns, q, T, weighted)
        BY <1>5, <1>10, <3>1
    <3> QED
        BY <3>2
  <2>3. CASE ~L(x, y)
    <3>1. y \in Smallest(ns, q, T, weighted)
        BY <1>5, <2>1, <2>3
    <3> QED
        BY <3>1
  <2> QED
    BY <2>2, <2>3
<1> QED
    BY <1>14, <1>15

LEMMA ListedIsNode ==
    ASSUME NEW q \in Seq(Node)
    PROVE  \A i \in DOMAIN q : q[i] \in Node /\ q[i] # 0
BY LenProperties, ElementOfSeq, PoolAssumption

\* Least chooses a live node of its level, if there is one.
LEMMA LeastIsLive ==
    ASSUME NEW ns \in [Node -> NodeRecord], NEW q \in Seq(Node), NEW l, NEW weighted \in BOOLEAN
    PROVE  \/ Least(ns, q, l, weighted) = 0 /\ Candidates(ns, q, l) = {}
           \/ \E i \in Candidates(ns, q, l) : Least(ns, q, l, weighted) = q[i]
<1> DEFINE after == {i \in Candidates(ns, q, l) : \A j \in Unused(ns, q, l) : j < i}
<1> DEFINE stops == Stops(ns, q, l, weighted)
<1> DEFINE unused == Unused(ns, q, l)
<1>1. Len(q) \in Nat /\ DOMAIN q = 1 .. Len(q)
    BY LenProperties
<1>2. Candidates(ns, q, l) \in SUBSET (1 .. Len(q))
    BY <1>1 DEF Candidates, Live
<1>3. stops \in SUBSET Candidates(ns, q, l) /\ unused \in SUBSET Candidates(ns, q, l)
    BY DEF Stops, Unused
<1>4. after \in SUBSET Candidates(ns, q, l)
    OBVIOUS
<1>5. Least(ns, q, l, weighted) =
        IF stops # {} THEN q[First(stops)]
        ELSE IF after # {} THEN q[First(Smallest(ns, q, after, weighted))]
        ELSE IF unused # {} THEN q[Last(unused)]
        ELSE 0
    BY DEF Least, Smallest
<1> HIDE DEF after, stops, unused
<1>6. \A S \in SUBSET Candidates(ns, q, l) : S # {} => First(S) \in S
    BY <1>2, FirstIsLeast
<1>7. CASE stops # {}
    BY <1>3, <1>5, <1>6, <1>7
<1>8. CASE stops = {} /\ after # {}
  <2>1. Smallest(ns, q, after, weighted) # {}
    BY <1>1, <1>2, <1>4, <1>8, SmallestExists
  <2>2. Smallest(ns, q, after, weighted) \in SUBSET Candidates(ns, q, l)
    BY <1>4 DEF Smallest
  <2>3. First(Smallest(ns, q, after, weighted)) \in Candidates(ns, q, l)
    BY <1>6, <2>1, <2>2
  <2> QED
    BY <1>5, <1>8, <2>3
<1>9. CASE stops = {} /\ after = {} /\ unused # {}
  <2>1. Last(unused) \in unused
    BY <1>1, <1>2, <1>3, <1>9, LastIsLargest
  <2> QED
    BY <1>3, <1>5, <1>9, <2>1
<1>10. CASE stops = {} /\ after = {} /\ unused = {}
  <2>1. after = Candidates(ns, q, l)
    BY <1>10 DEF after, unused
  <2> QED
    BY <1>5, <1>10, <2>1
<1> QED
    BY <1>7, <1>8, <1>9, <1>10

\* The next level is one that a live node has, if some have levels above 0.
LEMMA NextLevelIsLive ==
    ASSUME NEW ns \in [Node -> NodeRecord], NEW q \in Seq(Node)
    PROVE  \/ NextLevel(ns, q, 0) = 0 /\ \A i \in Live(ns, q) : ns[q[i]].level = 0
           \/ NextLevel(ns, q, 0) # 0 /\ \E i \in Live(ns, q) : ns[q[i]].level = NextLevel(ns, q, 0)
<1> DEFINE above == {ns[q[i]].level : i \in Live(ns, q)} \ (0 .. 0)
<1>1. \A i \in Live(ns, q) : ns[q[i]].level \in Nat
    BY LenProperties, ElementOfSeq, NodeFields DEF Live
<1>2. above \in SUBSET Nat /\ 0 \notin above
    BY <1>1
<1>3. NextLevel(ns, q, 0) = IF above = {} THEN 0 ELSE First(above)
    BY DEF NextLevel
<1>4. CASE above = {}
  <2>1. ASSUME NEW i \in Live(ns, q)
        PROVE  ns[q[i]].level = 0
    <3>1. ns[q[i]].level \in {ns[q[j]].level : j \in Live(ns, q)}
        OBVIOUS
    <3>2. ns[q[i]].level \in 0 .. 0
        BY <1>4, <3>1
    <3> QED
        BY <3>2
  <2> QED
    BY <1>3, <1>4, <2>1
<1>5. CASE above # {}
  <2>1. First(above) \in above
    BY <1>2, <1>5, FirstIsLeast
  <2> QED
    BY <1>2, <1>3, <1>5, <2>1
<1> QED
    BY <1>4, <1>5

\* So do lrc and wlrc, among all levels.
LEMMA AlgoLeastIsLive ==
    ASSUME NEW ns \in [Node -> NodeRecord], NEW q \in Seq(Node), NEW weighted \in BOOLEAN
    PROVE  \/ AlgoLeast(ns, q, weighted) = 0 /\ Live(ns, q) = {}
           \/ \E i \in Live(ns, q) : AlgoLeast(ns, q, weighted) = q[i]
<1>1. \A l : Candidates(ns, q, l) \in SUBSET Live(ns, q)
    BY DEF Candidates
<1>2. \A l : \/ Least(ns, q, l, weighted) = 0 /\ Candidates(ns, q, l) = {}
             \/ \E i \in Live(ns, q) : Least(ns, q, l, weighted) = q[i]
  <2>1. ASSUME NEW l
        PROVE  \/ Least(ns, q, l, weighted) = 0 /\ Candidates(ns, q, l) = {}
               \/ \E i \in Live(ns, q) : Least(ns, q, l, weighted) = q[i]
    BY <1>1, LeastIsLive
  <2> QED
    BY <2>1
<1>3. PICK backup : backup = NextLevel(ns, q, 0)
    OBVIOUS
<1>4. AlgoLeast(ns, q, weighted) =
        IF Least(ns, q, 0, weighted) # 0 \/ backup = 0 THEN Least(ns, q, 0, weighted)
        ELSE Least(ns, q, backup, weighted)
    BY <1>3 DEF AlgoLeast
<1>5. CASE Candidates(ns, q, 0) # {}
    BY <1>2, <1>4, <1>5, ListedIsNode DEF Live
<1>6. CASE Candidates(ns, q, 0) = {} /\ backup = 0
  <2>1. Live(ns, q) = {}
    BY <1>3, <1>6, NextLevelIsLive DEF Candidates
  <2> QED
    BY <1>2, <1>4, <1>6, <2>1
<1>7. CASE backup # 0
  <2>1. Candidates(ns, q, backup) # {}
    BY <1>3, <1>7, NextLevelIsLive DEF Candidates
  <2> QED
    BY <1>2, <1>4, <2>1
<1> QED
    BY <1>5, <1>6, <1>7

\* wrr chooses a live node of the first level that has some.
LEMMA AlgoWrrIsLive ==
    ASSUME NEW ns \in [Node -> NodeRecord], NEW q \in Seq(Node)
    PROVE  \/ AlgoWrr(ns, q) = 0 /\ Live(ns, q) = {}
           \/ \E i \in Live(ns, q) : AlgoWrr(ns, q) = q[i] /\ ns[q[i]].level = WrrLevel(ns, q)
<1> DEFINE at == {i \in Live(ns, q) : ns[q[i]].level = WrrLevel(ns, q)}
<1>1. Len(q) \in Nat /\ DOMAIN q = 1 .. Len(q)
    BY LenProperties
<1>2. at \in SUBSET (1 .. Len(q))
    BY <1>1 DEF Live
<1>3. at # {} => Last(at) \in at
    BY <1>1, <1>2, LastIsLargest
<1>4. AlgoWrr(ns, q) = IF at = {} THEN 0 ELSE q[Last(at)]
    BY DEF AlgoWrr
<1>5. \A i \in at : i \in Live(ns, q) /\ ns[q[i]].level = WrrLevel(ns, q)
    OBVIOUS
<1>6. at = {} => Live(ns, q) = {}
  <2>1. ASSUME Live(ns, q) # {}
        PROVE  \E i \in Live(ns, q) : ns[q[i]].level = WrrLevel(ns, q)
    <3>1. CASE \E i \in Live(ns, q) : ns[q[i]].level = 0
        BY <3>1 DEF WrrLevel
    <3>2. CASE ~\E i \in Live(ns, q) : ns[q[i]].level = 0
        BY <2>1, <3>2, NextLevelIsLive DEF WrrLevel
    <3> QED
        BY <3>1, <3>2
  <2> QED
    BY <2>1
<1> HIDE DEF at
<1> QED
    BY <1>3, <1>4, <1>5, <1>6

\* What the second step may choose is a live node of the list, if any.
LEMMA SecondStepIsLive ==
    ASSUME NEW ns \in [Node -> NodeRecord], NEW q \in Seq(Node), NEW algo \in Algos,
           NEW n \in SecondStep(algo, ns, q)
    PROVE  (n = 0 /\ Live(ns, q) = {}) \/ \E i \in Live(ns, q) : n = q[i]
<1>1. algo \in {"wrr", "lrc", "wlrc", "iphash"}
    BY RouterAssumption
<1>2. CASE algo = "wrr"
  <2>1. SecondStep(algo, ns, q) = {AlgoWrr(ns, q)}
    BY <1>2 DEF SecondStep
  <2> QED
    BY <2>1, AlgoWrrIsLive
<1>3. CASE algo = "lrc"
  <2>1. SecondStep(algo, ns, q) = {AlgoLeast(ns, q, FALSE)}
    BY <1>3 DEF SecondStep
  <2> QED
    BY <2>1, AlgoLeastIsLive
<1>4. CASE algo = "wlrc"
  <2>1. SecondStep(algo, ns, q) = {AlgoLeast(ns, q, TRUE)}
    BY <1>4 DEF SecondStep
  <2> QED
    BY <2>1, AlgoLeastIsLive
<1>5. CASE algo = "iphash"
  <2>1. SecondStep(algo, ns, q) = IF Live(ns, q) = {} THEN {0} ELSE {q[i] : i \in Live(ns, q)}
    BY <1>5 DEF SecondStep
  <2> QED
    BY <2>1
<1> QED
    BY <1>1, <1>2, <1>3, <1>4, <1>5

\* A quotient of at least 1.
LEMMA Quotient ==
    ASSUME NEW x \in Nat, NEW y \in Nat \ {0}
    PROVE  x \div y \in Nat /\ (y <= x => x \div y >= 1)
OBVIOUS

\* The reset of wrr changes nothing but turns, and gives the chosen node at least one.
LEMMA WrrResetTurns ==
    ASSUME NEW ns \in [Node -> NodeRecord], NEW q \in Seq(Node)
    PROVE  /\ WrrReset(ns, q) \in [Node -> NodeRecord]
           /\ \A n \in Node : /\ WrrReset(ns, q)[n].used = ns[n].used
                              /\ WrrReset(ns, q)[n].ref = ns[n].ref
                              /\ WrrReset(ns, q)[n].addr = ns[n].addr
                              /\ WrrReset(ns, q)[n].vassal = ns[n].vassal
           /\ AlgoWrr(ns, q) # 0 => WrrReset(ns, q)[AlgoWrr(ns, q)].wrr >= 1
<1> DEFINE live == Live(ns, q)
<1> DEFINE weights == {ns[q[i]].weight : i \in live}
<1> DEFINE min == First(weights)
<1> DEFINE atLevel == {q[i] : i \in {j \in live : ns[q[j]].level = WrrLevel(ns, q)}}
<1>1. \A i \in live : i \in DOMAIN q /\ q[i] \in Node /\ ns[q[i]].weight \in Nat \ {0}
    BY LenProperties, ElementOfSeq, NodeFields DEF Live
<1>2. WrrReset(ns, q) = IF live = {} THEN ns
        ELSE [n \in Node |-> IF n \in atLevel THEN [ns[n] EXCEPT !.wrr = ns[n].weight \div min] ELSE ns[n]]
    BY DEF WrrReset
<1>3. CASE live = {}
  <2>1. WrrReset(ns, q) = ns
    BY <1>2, <1>3
  <2>2. AlgoWrr(ns, q) = 0
    BY <1>3, AlgoWrrIsLive
  <2> QED
    BY <2>1, <2>2
<1>4. CASE live # {}
  <2>1. weights \in SUBSET Nat /\ weights # {}
    BY <1>1, <1>4
  <2>2. min \in weights /\ \A w \in weights : min <= w
    BY <2>1, FirstIsLeast
  <2>3. min \in Nat \ {0} /\ \A i \in live : min <= ns[q[i]].weight
    BY <1>1, <2>2
  <2>4. PICK r : r = WrrReset(ns, q)
    OBVIOUS
  <2>5. r = [n \in Node |-> IF n \in atLevel THEN [ns[n] EXCEPT !.wrr = ns[n].weight \div min] ELSE ns[n]]
    BY <1>2, <1>4, <2>4
  <2>6. \A n \in atLevel : \E i \in live : n = q[i]
    OBVIOUS
  <2>7. \A i \in live : ns[q[i]].level = WrrLevel(ns, q) => q[i] \in atLevel
    OBVIOUS
  <2> HIDE DEF live, weights, min, atLevel
  <2>8. ASSUME NEW n \in Node
        PROVE  /\ r[n] \in NodeRecord /\ r[n].used = ns[n].used /\ r[n].ref = ns[n].ref
               /\ r[n].addr = ns[n].addr /\ r[n].vassal = ns[n].vassal
               /\ n \in atLevel => r[n].wrr >= 1
    <3>1. CASE n \notin atLevel
        BY <2>5, <3>1
    <3>2. CASE n \in atLevel
      <4>1. PICK i : i = ns[n].weight \div min
        OBVIOUS
      <4>2. ns[n].weight \in Nat /\ min <= ns[n].weight
        BY <1>1, <2>3, <2>6, <3>2
      <4>3. i \in Nat /\ i >= 1
        BY <2>3, <4>1, <4>2, Quotient
      <4>4. r[n] = [ns[n] EXCEPT !.wrr = i]
        BY <2>5, <3>2, <4>1
      <4> QED
        BY <4>3, <4>4 DEF NodeRecord
    <3> QED
        BY <3>1, <3>2
  <2>9. AlgoWrr(ns, q) # 0 => AlgoWrr(ns, q) \in atLevel /\ AlgoWrr(ns, q) \in Node
    BY <1>1, <2>7, AlgoWrrIsLive DEF live
  <2>10. r \in [Node -> NodeRecord]
    BY <2>5, <2>8
  <2> QED
    BY <2>4, <2>8, <2>9, <2>10
<1> QED
    BY <1>3, <1>4

-----------------------------------------------------------------------------
(* Looking for a node                                                        *)

\* One more session, or one less, uses n.
More(c, n) == [m \in Node |-> IF m = n THEN c[m] + 1 ELSE c[m]]
Fewer(c, n) == [m \in Node |-> IF m = n THEN c[m] - 1 ELSE c[m]]

LEMMA MoreType ==
    ASSUME NEW c \in [Node -> Nat], NEW n
    PROVE  More(c, n) \in [Node -> Nat]
<1>1. \A m \in Node : (IF m = n THEN c[m] + 1 ELSE c[m]) \in Nat
    OBVIOUS
<1> QED
    BY <1>1 DEF More

\* The walk over a list removes no node in use and changes no live one that is not silent.
LEMMA SweptKeeps ==
    ASSUME NEW t, NEW c, NEW vassals, TableInv(t, c, vassals), NEW k \in Key, NEW seen,
           \A n \in seen : \E i \in DOMAIN t.slot[k] : t.slot[k][i] = n
    PROVE  /\ TableInv(Swept(t, k, seen), c, vassals)
           /\ \A n \in Node : ~t.node[n].dead /\ ~t.node[n].silent =>
                 Swept(t, k, seen).node[n] = t.node[n]
<1> DEFINE gone == {n \in seen : Spent(t.node[n])}
<1>1. t \in TableRecord
    BY DEF TableInv
<1>2. \A n \in seen : n \in Node
    BY <1>1, TableFacts
<1>3. \A n \in gone : n \in Node /\ t.node[n].ref = 0 /\ \E i \in DOMAIN t.slot[k] : t.slot[k][i] = n
    BY <1>2 DEF Spent
<1>4. \A n \in Node : ~t.node[n].dead /\ ~t.node[n].silent => n \notin gone
    BY DEF Spent
<1> HIDE DEF gone
<1>5. PICK t1 : t1 = RemoveNodes(t, k, gone)
    OBVIOUS
<1>6. TableInv(t1, c, vassals)
    BY <1>3, <1>5, RemoveUnused
<1>7. t1.node = [n \in Node |-> IF n \in gone THEN FreeNode ELSE t.node[n]]
    BY <1>5 DEF RemoveNodes
<1>8. t1 \in TableRecord /\ c \in [Node -> Nat] /\ Counted(t1, c, vassals)
    BY <1>6 DEF TableInv
<1>9. t1.node \in [Node -> NodeRecord] /\ t1.slot \in [Key -> Seq(Node)] /\ t1.cheap \in BOOLEAN
    BY <1>8, TableFacts
<1>10. PICK ns : ns = [n \in Node |->
            IF n \in seen /\ t1.node[n].silent THEN [t1.node[n] EXCEPT !.dead = TRUE] ELSE t1.node[n]]
    OBVIOUS
<1>11. PICK u : u = [t1 EXCEPT !.node = ns]
    OBVIOUS
<1>12. Swept(t, k, seen) = u
    BY <1>5, <1>10, <1>11 DEF Swept, gone
<1>13. \A n \in Node : /\ ns[n] \in NodeRecord /\ ns[n].used = t1.node[n].used
                       /\ ns[n].ref = t1.node[n].ref /\ ns[n].addr = t1.node[n].addr
  <2>1. ASSUME NEW n \in Node
        PROVE  /\ ns[n] \in NodeRecord /\ ns[n].used = t1.node[n].used
               /\ ns[n].ref = t1.node[n].ref /\ ns[n].addr = t1.node[n].addr
    <3>1. t1.node[n] \in NodeRecord
        BY <1>9
    <3>2. ns[n] = t1.node[n] \/ ns[n] = [t1.node[n] EXCEPT !.dead = TRUE]
        BY <1>10
    <3> QED
        BY <3>1, <3>2, NodeChanges
  <2> QED
    BY <2>1
<1>14. ns \in [Node -> NodeRecord]
    BY <1>10, <1>13
<1>15. u = [node |-> ns, slot |-> t1.slot, cheap |-> t1.cheap]
    BY <1>8, <1>11 DEF TableRecord
<1>16. u \in TableRecord /\ u.node = ns /\ u.slot = t1.slot /\ u.cheap = t1.cheap
    BY <1>9, <1>14, <1>15 DEF TableRecord
<1>17. Counted(u, c, vassals)
    BY <1>8, <1>13, <1>16 DEF Counted
<1>18. u.cheap => t1.cheap
    BY <1>16
<1>19. \A n \in Node : u.node[n].used = t1.node[n].used
    BY <1>13, <1>16
<1>20. TableInv(u, c, vassals)
    BY <1>6, <1>8, <1>16, <1>17, <1>18, <1>19, SameLists
<1>21. ASSUME NEW n \in Node, ~t.node[n].dead, ~t.node[n].silent
       PROVE  u.node[n] = t.node[n]
  <2>1. t1.node[n] = t.node[n]
    BY <1>4, <1>7, <1>21
  <2> QED
    BY <1>10, <1>16, <1>21, <2>1
<1> QED
    BY <1>12, <1>20, <1>21

\* A node that is in use gets a reference.
LEMMA TakenCounts ==
    ASSUME NEW t, NEW c, NEW vassals, TableInv(t, c, vassals), NEW n \in Node, t.node[n].used
    PROVE  /\ TableInv(Taken(t, n), More(c, n), vassals)
           /\ Taken(t, n).node[n].wrr = t.node[n].wrr
<1>1. t \in TableRecord /\ c \in [Node -> Nat] /\ Counted(t, c, vassals)
    BY DEF TableInv
<1>2. t.node[n] \in NodeRecord /\ t.node[n].ref \in Nat /\ t.node \in [Node -> NodeRecord]
    BY <1>1, TableFacts, NodeFields
<1>3. PICK i \in Nat : i = t.node[n].ref + 1
    BY <1>2
<1>4. PICK x : x = [t.node[n] EXCEPT !.ref = i]
    OBVIOUS
<1>5. x \in NodeRecord /\ x.ref = i /\ x.used = t.node[n].used /\ x.addr = t.node[n].addr
      /\ x.wrr = t.node[n].wrr
    BY <1>2, <1>4, NodeChanges
<1>6. Taken(t, n) = WithNode(t, n, x)
  <2>1. n # 0
    BY PoolAssumption
  <2> QED
    BY <1>3, <1>4, <2>1 DEF Taken
<1>7. PICK d \in [Node -> Nat] : d = More(c, n)
    BY <1>1, MoreType
<1>8. d[n] = c[n] + 1 /\ \A m \in Node : m # n => d[m] = c[m]
    BY <1>7 DEF More
<1>9. /\ x.ref >= d[n] /\ x.used
      /\ ~vassals => x.ref = d[n] /\ (x.used => x.addr # None)
    BY <1>1, <1>2, <1>3, <1>5, <1>8 DEF Counted
<1>10. TableInv(WithNode(t, n, x), d, vassals)
    BY <1>5, <1>8, <1>9, OneNode
<1>11. WithNode(t, n, x).node[n] = x
    BY <1>2 DEF WithNode
<1> QED
    BY <1>5, <1>6, <1>7, <1>10, <1>11

\* A turn of a node that has one is taken, by wrr.
LEMMA TurnTakenKeeps ==
    ASSUME NEW t, NEW c, NEW vassals, TableInv(t, c, vassals), NEW algo,
           NEW n \in Node, algo = "wrr" => t.node[n].wrr >= 1
    PROVE  TableInv(TurnTaken(t, algo, n), c, vassals)
<1>1. CASE algo # "wrr"
    BY <1>1 DEF TurnTaken
<1>2. CASE algo = "wrr"
  <2>1. t \in TableRecord /\ c \in [Node -> Nat] /\ Counted(t, c, vassals)
    BY DEF TableInv
  <2>2. t.node[n] \in NodeRecord /\ t.node[n].wrr \in Nat /\ t.node[n].wrr >= 1
    BY <1>2, <2>1, TableFacts, NodeFields
  <2>3. PICK i \in Nat : i = t.node[n].wrr - 1
    BY <2>2
  <2>4. PICK x : x = [t.node[n] EXCEPT !.wrr = i]
    OBVIOUS
  <2>5. /\ x \in NodeRecord /\ x.ref = t.node[n].ref /\ x.used = t.node[n].used
        /\ x.addr = t.node[n].addr
    BY <2>2, <2>4, NodeChanges
  <2>6. n # 0
    BY PoolAssumption
  <2>7. TurnTaken(t, algo, n) = WithNode(t, n, x)
    BY <1>2, <2>3, <2>4, <2>6 DEF TurnTaken
  <2>8. /\ x.ref >= c[n] /\ (~x.used => x.ref = 0)
        /\ ~vassals => x.ref = c[n] /\ (x.used => x.addr # None)
    BY <2>1, <2>5 DEF Counted
  <2>9. TableInv(WithNode(t, n, x), c, vassals)
    BY <2>1, <2>5, <2>8, OneNode
  <2> QED
    BY <2>7, <2>9
<1> QED
    BY <1>1, <1>2

\* No session more uses a node.
LEMMA MoreOfNone ==
    ASSUME NEW c \in [Node -> Nat]
    PROVE  More(c, 0) = c
BY PoolAssumption DEF More

\* wrr counts the turns of its second step anew.
LEMMA ResetKeeps ==
    ASSUME NEW t, NEW c, NEW vassals, TableInv(t, c, vassals), NEW k \in Key
    PROVE  /\ TableInv([t EXCEPT !.node = WrrReset(@, t.slot[k])], c, vassals)
           /\ [t EXCEPT !.node = WrrReset(@, t.slot[k])].node = WrrReset(t.node, t.slot[k])
<1>1. t \in TableRecord /\ c \in [Node -> Nat] /\ Counted(t, c, vassals)
    BY DEF TableInv
<1>2. t.node \in [Node -> NodeRecord] /\ t.slot[k] \in Seq(Node)
    BY <1>1, TableFacts
<1>3. PICK ns : ns = WrrReset(t.node, t.slot[k])
    OBVIOUS
<1>4. /\ ns \in [Node -> NodeRecord]
      /\ \A n \in Node : /\ ns[n].used = t.node[n].used /\ ns[n].ref = t.node[n].ref
                         /\ ns[n].addr = t.node[n].addr
    BY <1>2, <1>3, WrrResetTurns
<1>5. PICK u : u = [t EXCEPT !.node = ns]
    OBVIOUS
<1>6. u \in TableRecord /\ u.node = ns /\ u.slot = t.slot /\ u.cheap = t.cheap
    BY <1>1, <1>4, <1>5 DEF TableRecord
<1>7. Counted(u, c, vassals)
    BY <1>1, <1>4, <1>6 DEF Counted
<1>8. u.cheap => t.cheap
    BY <1>6
<1>9. \A n \in Node : u.node[n].used = t.node[n].used
    BY <1>4, <1>6
<1>10. TableInv(u, c, vassals)
    BY <1>1, <1>6, <1>7, <1>8, <1>9, SameLists
<1> QED
    BY <1>3, <1>5, <1>6, <1>10

\* The walk sees nodes of the list.
LEMMA WalkedListed ==
    ASSUME NEW t \in TableRecord, NEW k \in Key, NEW algo, NEW n \in Walked(algo, t.node, t.slot[k])
    PROVE  \E i \in DOMAIN t.slot[k] : t.slot[k][i] = n
<1> DEFINE q == t.slot[k]
<1> DEFINE turn == FirstTurn(algo, t.node, q)
<1>1. Len(q) \in Nat /\ DOMAIN q = 1 .. Len(q)
    BY TableFacts, LenProperties
<1>2. turn \in SUBSET DOMAIN q
    BY DEF FirstTurn
<1>3. CASE turn = {}
    BY <1>3 DEF Walked
<1>4. CASE turn # {}
  <2>1. First(turn) \in 1 .. Len(q)
    BY <1>1, <1>2, <1>4, FirstIsLeast
  <2>2. 1 .. First(turn) \in SUBSET DOMAIN q
    BY <1>1, <2>1
  <2>3. Walked(algo, t.node, q) = {q[i] : i \in 1 .. First(turn)}
    BY <1>4 DEF Walked
  <2> QED
    BY <2>2, <2>3
<1> QED
    BY <1>3, <1>4

\* The result of a lookup: no node or one of the list, with a reference for its new user.
LEMMA GetNodeCounts ==
    ASSUME NEW t, NEW c, NEW vassals, TableInv(t, c, vassals), NEW k \in Key, NEW algo \in Algos,
           NEW r \in GetNode(t, k, algo)
    PROVE  /\ r = [table |-> r.table, un |-> r.un]
           /\ r.un \in Node \cup {0} /\ TableInv(r.table, More(c, r.un), vassals)
<1> DEFINE q == t.slot[k]
<1> DEFINE turn == FirstTurn(algo, t.node, q)
<1> DEFINE seen == Walked(algo, t.node, q)
<1>1. t \in TableRecord /\ c \in [Node -> Nat] /\ Listed(t)
    BY DEF TableInv
<1>2. /\ q \in Seq(Node) /\ t.node \in [Node -> NodeRecord] /\ Len(q) \in Nat /\ DOMAIN q = 1 .. Len(q)
      /\ \A i \in DOMAIN q : q[i] \in Node
    BY <1>1, TableFacts, LenProperties
<1>3. turn \in SUBSET DOMAIN q
    BY DEF FirstTurn
<1>4. turn # {} => First(turn) \in turn
    BY <1>2, <1>3, FirstIsLeast
<1>5. \A n \in seen : \E i \in DOMAIN q : q[i] = n
    BY <1>1, WalkedListed
<1>6. PICK swept : swept = Swept(t, k, seen)
    OBVIOUS
<1>7. /\ TableInv(swept, c, vassals)
      /\ \A n \in Node : ~t.node[n].dead /\ ~t.node[n].silent => swept.node[n] = t.node[n]
    BY <1>5, <1>6, SweptKeeps
<1>8. swept \in TableRecord /\ Listed(swept)
    BY <1>7 DEF TableInv
<1>9. swept.node \in [Node -> NodeRecord] /\ swept.slot[k] \in Seq(Node)
      /\ \A i \in DOMAIN swept.slot[k] : swept.slot[k][i] \in Node
    BY <1>8, TableFacts
<1>10. PICK reset : reset = IF algo = "wrr" THEN [swept EXCEPT !.node = WrrReset(@, swept.slot[k])]
                            ELSE swept
    OBVIOUS
<1>11. GetNode(t, k, algo) =
         IF turn # {}
         THEN {[table |-> TurnTaken(Taken(swept, q[First(turn)]), algo, q[First(turn)]),
                un |-> q[First(turn)]]}
         ELSE {[table |-> TurnTaken(Taken(reset, n), algo, n), un |-> n] :
                 n \in SecondStep(algo, swept.node, swept.slot[k])}
    BY <1>6, <1>10, Zenon DEF GetNode
<1>12. CASE turn # {}
  <2>1. PICK n : n = q[First(turn)]
    OBVIOUS
  <2>2. /\ r = [table |-> r.table, un |-> r.un]
        /\ r.table = TurnTaken(Taken(swept, n), algo, n) /\ r.un = n
    BY <1>11, <1>12, <2>1
  <2>3. /\ n \in Node /\ ~t.node[n].dead /\ ~t.node[n].silent /\ t.node[n].wrr > 0
        /\ t.node[n].used
    BY <1>1, <1>2, <1>3, <1>4, <1>12, <2>1 DEF FirstTurn, Listed
  <2>4. swept.node[n].used /\ swept.node[n].wrr >= 1
    <3>1. t.node[n].wrr \in Nat
        BY <1>2, <2>3, NodeFields
    <3> QED
        BY <1>7, <2>3, <3>1
  <2>5. TableInv(Taken(swept, n), More(c, n), vassals) /\ Taken(swept, n).node[n].wrr >= 1
    BY <1>7, <2>3, <2>4, TakenCounts
  <2>6. TableInv(TurnTaken(Taken(swept, n), algo, n), More(c, n), vassals)
    BY <2>3, <2>5, TurnTakenKeeps
  <2> QED
    BY <2>2, <2>3, <2>6
<1>13. CASE turn = {}
  <2>1. PICK n \in SecondStep(algo, swept.node, swept.slot[k]) :
            /\ r = [table |-> r.table, un |-> r.un]
            /\ r.table = TurnTaken(Taken(reset, n), algo, n) /\ r.un = n
    BY <1>11, <1>13
  <2>2. n = 0 \/ \E i \in Live(swept.node, swept.slot[k]) : n = swept.slot[k][i]
    BY <1>9, SecondStepIsLive
  <2>3. /\ TableInv(reset, c, vassals)
        /\ reset.node = IF algo = "wrr" THEN WrrReset(swept.node, swept.slot[k]) ELSE swept.node
    BY <1>7, <1>10, ResetKeeps
  <2>4. CASE n = 0
    <3>1. TurnTaken(Taken(reset, n), algo, n) = reset
        BY <2>4 DEF TurnTaken, Taken
    <3>2. More(c, n) = c
        BY <1>1, <2>4, MoreOfNone
    <3> QED
        BY <2>1, <2>3, <2>4, <3>1, <3>2
  <2>5. CASE n # 0
    <3>1. n \in Node /\ swept.node[n].used
        BY <1>8, <1>9, <2>2, <2>5 DEF Live, Listed
    <3>2. reset.node[n].used
      <4>1. CASE algo = "wrr"
        BY <1>9, <2>3, <3>1, <4>1, WrrResetTurns
      <4>2. CASE algo # "wrr"
        BY <2>3, <3>1, <4>2
      <4> QED
        BY <4>1, <4>2
    <3>3. algo = "wrr" => reset.node[n].wrr >= 1
      <4>1. ASSUME algo = "wrr"
            PROVE  n = AlgoWrr(swept.node, swept.slot[k])
        BY <2>1, <4>1 DEF SecondStep
      <4> QED
        BY <1>9, <2>3, <2>5, <4>1, WrrResetTurns
    <3>4. TableInv(Taken(reset, n), More(c, n), vassals)
          /\ Taken(reset, n).node[n].wrr = reset.node[n].wrr
        BY <2>3, <3>1, <3>2, TakenCounts
    <3>5. TableInv(TurnTaken(Taken(reset, n), algo, n), More(c, n), vassals)
        BY <3>1, <3>3, <3>4, TurnTakenKeeps
    <3> QED
        BY <2>1, <3>1, <3>5
  <2> QED
    BY <2>4, <2>5
<1> QED
    BY <1>12, <1>13

\* The mapper: a lookup, after which the router may go cheap.
LEMMA MappedCounts ==
    ASSUME NEW t, NEW c, NEW vassals, TableInv(t, c, vassals), NEW k \in Key, conf.algo \in Algos,
           NEW r \in Mapped(t, k)
    PROVE  r.un \in Node \cup {0} /\ TableInv(r.table, More(c, r.un), vassals)
<1>1. PICK g \in GetNode(t, k, conf.algo) : r = g \/ r = [g EXCEPT !.table = GoneCheap(@)]
    BY DEF Mapped
<1>2. /\ g = [table |-> g.table, un |-> g.un]
      /\ g.un \in Node \cup {0} /\ TableInv(g.table, More(c, g.un), vassals)
    BY GetNodeCounts
<1>3. CASE r = g
    BY <1>2, <1>3
<1>4. CASE r = [g EXCEPT !.table = GoneCheap(@)]
  <2>1. PICK T, n : g = [table |-> T, un |-> n]
    BY <1>2
  <2>2. r.un = g.un /\ r.table = GoneCheap(g.table)
    BY <1>4, <2>1
  <2>3. TableInv(GoneCheap(g.table), More(c, g.un), vassals)
    BY <1>2, GoneCheapKeeps
  <2> QED
    BY <1>2, <2>2, <2>3
<1> QED
    BY <1>1, <1>3, <1>4

-----------------------------------------------------------------------------
(* Giving a node back                                                        *)

LEMMA FewerType ==
    ASSUME NEW c \in [Node -> Nat], NEW n \in Node, c[n] >= 1
    PROVE  /\ Fewer(c, n) \in [Node -> Nat]
           /\ Fewer(c, n)[n] = c[n] - 1
           /\ \A m \in Node : m # n => Fewer(c, n)[m] = c[m]
<1>1. \A m \in Node : (IF m = n THEN c[m] - 1 ELSE c[m]) \in Nat
    OBVIOUS
<1> QED
    BY <1>1 DEF Fewer

\* A node that sessions use is in use.
LEMMA CountedIsUsed ==
    ASSUME NEW t, NEW c, NEW vassals, TableInv(t, c, vassals), NEW n \in Node, c[n] >= 1
    PROVE  /\ t.node[n] \in NodeRecord /\ t.node[n].used /\ t.node[n].ref >= 1
           /\ ~vassals => HasAddress(t, n)
<1>1. t \in TableRecord /\ c \in [Node -> Nat] /\ Counted(t, c, vassals)
    BY DEF TableInv
<1>2. t.node[n] \in NodeRecord /\ t.node[n].ref \in Nat /\ n # 0
    BY <1>1, TableFacts, NodeFields, PoolAssumption
<1>3. t.node[n].ref >= 1
    BY <1>1, <1>2 DEF Counted
<1>4. t.node[n].used
    BY <1>1, <1>3 DEF Counted
<1> QED
    BY <1>1, <1>2, <1>3, <1>4 DEF Counted, HasAddress

\* One user gives its reference back.
LEMMA GivenBack ==
    ASSUME NEW t, NEW c, NEW vassals, TableInv(t, c, vassals), NEW n \in Node, c[n] >= 1
    PROVE  /\ TableInv(WithNode(t, n, [t.node[n] EXCEPT !.ref = @ - 1]), Fewer(c, n), vassals)
           /\ WithNode(t, n, [t.node[n] EXCEPT !.ref = @ - 1]).node[n].used
<1>1. t \in TableRecord /\ c \in [Node -> Nat] /\ Counted(t, c, vassals)
    BY DEF TableInv
<1>2. /\ t.node \in [Node -> NodeRecord] /\ t.node[n] \in NodeRecord /\ t.node[n].ref \in Nat
      /\ t.node[n].ref >= 1 /\ t.node[n].used
    BY <1>1, TableFacts, NodeFields, CountedIsUsed
<1>3. PICK i \in Nat : i = t.node[n].ref - 1
    BY <1>2
<1>4. PICK x : x = [t.node[n] EXCEPT !.ref = i]
    OBVIOUS
<1>5. x \in NodeRecord /\ x.ref = i /\ x.used = t.node[n].used /\ x.addr = t.node[n].addr
    BY <1>2, <1>4, NodeChanges
<1>6. WithNode(t, n, [t.node[n] EXCEPT !.ref = @ - 1]) = WithNode(t, n, x)
    BY <1>3, <1>4
<1>7. PICK d \in [Node -> Nat] : d = Fewer(c, n)
    BY <1>1, FewerType
<1>8. d[n] = c[n] - 1 /\ \A m \in Node : m # n => d[m] = c[m]
    BY <1>1, <1>7, FewerType
<1>9. /\ x.ref >= d[n] /\ x.used
      /\ ~vassals => x.ref = d[n] /\ (x.used => x.addr # None)
    BY <1>1, <1>2, <1>3, <1>5, <1>8 DEF Counted
<1>10. TableInv(WithNode(t, n, x), d, vassals)
    BY <1>5, <1>8, <1>9, OneNode
<1>11. WithNode(t, n, x).node[n] = x
    BY <1>2 DEF WithNode
<1> QED
    BY <1>6, <1>7, <1>9, <1>10, <1>11

\* A closing peer: without an address the reference stays, which only vassals can cause.
LEMMA ReleasedCounts ==
    ASSUME NEW t, NEW c, NEW vassals, TableInv(t, c, vassals), NEW n \in Node, c[n] >= 1
    PROVE  TableInv(Released(t, n), Fewer(c, n), vassals) /\ Released(t, n).node[n].used
<1>1. t \in TableRecord /\ c \in [Node -> Nat] /\ Listed(t) /\ Counted(t, c, vassals)
      /\ (t.cheap => NoSubscriptions(t))
    BY DEF TableInv
<1>2. CASE HasAddress(t, n)
    BY <1>2, GivenBack DEF Released
<1>3. CASE ~HasAddress(t, n)
  <2>1. Released(t, n) = t
    BY <1>3 DEF Released
  <2>2. t.node[n].used /\ vassals
    BY <1>3, CountedIsUsed
  <2>3. PICK d \in [Node -> Nat] : d = Fewer(c, n)
    BY <1>1, FewerType
  <2>4. d[n] = c[n] - 1 /\ \A m \in Node : m # n => d[m] = c[m]
    BY <1>1, <2>3, FewerType
  <2>5. \A m \in Node : t.node[m].ref \in Nat /\ t.node[m].ref >= c[m] /\ c[m] >= d[m]
    BY <1>1, <2>4, TableFacts, NodeFields DEF Counted
  <2>6. \A m \in Node : t.node[m].ref >= d[m]
    BY <1>1, <2>5
  <2>7. Counted(t, d, vassals)
    BY <1>1, <2>2, <2>6 DEF Counted
  <2> QED
    BY <1>1, <2>1, <2>2, <2>3, <2>7 DEF TableInv
<1> QED
    BY <1>2, <1>3

\* A node that failed or unsubscribed goes if nobody uses it.
LEMMA FailedCounts ==
    ASSUME NEW t, NEW c, NEW vassals, TableInv(t, c, vassals), NEW n \in Node, t.node[n].used
    PROVE  TableInv(Failed(t, n), c, vassals)
<1>1. t \in TableRecord /\ c \in [Node -> Nat] /\ Listed(t) /\ Counted(t, c, vassals)
    BY DEF TableInv
<1>2. t.node[n] \in NodeRecord /\ t.node \in [Node -> NodeRecord]
    BY <1>1, TableFacts
<1>3. PICK x : x = [t.node[n] EXCEPT !.dead = TRUE]
    OBVIOUS
<1>4. x \in NodeRecord /\ x.ref = t.node[n].ref /\ x.used = t.node[n].used /\ x.addr = t.node[n].addr
    BY <1>2, <1>3, NodeChanges
<1>5. /\ x.ref >= c[n] /\ (~x.used => x.ref = 0)
      /\ ~vassals => x.ref = c[n] /\ (x.used => x.addr # None)
    BY <1>1, <1>4 DEF Counted
<1>6. PICK marked : marked = WithNode(t, n, x)
    OBVIOUS
<1>7. TableInv(marked, c, vassals)
    BY <1>1, <1>4, <1>5, <1>6, OneNode
<1>8. marked.slot = t.slot /\ marked.node[n] = x
    BY <1>2, <1>6 DEF WithNode
<1>9. PICK k : k = KeyOf(t, n)
    OBVIOUS
<1>10. k \in Key /\ \E i \in DOMAIN t.slot[k] : t.slot[k][i] = n
    BY <1>1, <1>9 DEF KeyOf, Listed
<1>11. t.node[n].ref = 0 => TableInv(RemoveNodes(marked, k, {n}), c, vassals)
    BY <1>4, <1>7, <1>8, <1>10, RemoveUnused
<1>12. Failed(t, n) = GoneCheap(IF t.node[n].ref = 0 THEN RemoveNodes(marked, k, {n}) ELSE marked)
    BY <1>3, <1>6, <1>9 DEF Failed
<1> QED
    BY <1>7, <1>11, <1>12, GoneCheapKeeps

-----------------------------------------------------------------------------
(* Announcements                                                             *)

\* What an announcement says of weight and level.
LEMMA Announced ==
    ASSUME NEW a \in Addr \cup {None}
    PROVE  AnnouncedWeight(a) \in Nat \ {0} /\ AnnouncedLevel(a) \in Levels
BY PoolAssumption DEF AnnouncedWeight, AnnouncedLevel, Levels

LEMMA NewNodeRecord ==
    ASSUME NEW a \in Addr \cup {None}, NEW v \in Vassal \cup {None}
    PROVE  NewNode(a, v) \in NodeRecord /\ NewNode(a, v).used /\ NewNode(a, v).ref = 0
           /\ NewNode(a, v).addr = a
<1>1. PICK w, l : w = AnnouncedWeight(a) /\ l = AnnouncedLevel(a)
    OBVIOUS
<1>2. w \in Nat \ {0} /\ l \in Levels
    BY <1>1, Announced
<1>3. NewNode(a, v) = [used |-> TRUE, addr |-> a, vassal |-> v, ref |-> 0, dead |-> FALSE,
                       silent |-> FALSE, weight |-> w, level |-> l, wrr |-> 0, last |-> 0]
  <2>1. NewNode(a, v) = [FreeNode EXCEPT !.used = TRUE, !.addr = a, !.vassal = v, !.weight = w, !.level = l]
    BY <1>1 DEF NewNode
  <2> QED
    BY <2>1, Zenon DEF FreeNode
<1> QED
    BY <1>2, <1>3 DEF NodeRecord

\* y is the node x with the same count, and the same address if v names no vassal.
SameUse(y, x, v) ==
    y \in NodeRecord /\ y.used = x.used /\ y.ref = x.ref /\ (v = None => y.addr = x.addr)

LEMMA RefreshedRecord ==
    ASSUME NEW x \in NodeRecord, NEW a \in Addr \cup {None}, NEW v, NEW clear
    PROVE  SameUse(Refreshed(x, a, v, clear), x, v)
<1>1. PICK w, l, b : w = AnnouncedWeight(a) /\ l = AnnouncedLevel(a) /\ b = AddressAfter(x.addr, a, v, clear)
    OBVIOUS
<1> PICK y : y = Refreshed(x, a, v, clear)
    OBVIOUS
<1>2. w \in Nat \ {0} /\ l \in Levels
    BY <1>1, Announced
<1>3. x.addr \in Addr \cup {None}
    BY NodeFields
<1>4. b \in Addr \cup {None} /\ (v = None => b = x.addr)
    BY <1>1, <1>3 DEF AddressAfter
<1>5. y =
        [used |-> x.used, addr |-> b, vassal |-> x.vassal, ref |-> x.ref, dead |-> FALSE,
         silent |-> FALSE, weight |-> w, level |-> l, wrr |-> x.wrr, last |-> 0]
  <2>1. y = [x EXCEPT !.addr = b, !.dead = FALSE, !.silent = FALSE, !.weight = w, !.level = l, !.last = 0]
    BY <1>1 DEF Refreshed
  <2> QED
    BY <2>1 DEF NodeRecord
<1> QED
    BY <1>2, <1>4, <1>5 DEF NodeRecord, SameUse

\* A new node at a free place and at the end of a list.
LEMMA NewNodeCounts ==
    ASSUME NEW t, NEW c, NEW vassals, TableInv(t, c, vassals), NEW k \in Key, NEW n \in Node,
           ~t.node[n].used, NEW x \in NodeRecord, x.used, x.ref = 0, ~vassals => x.addr # None,
           NEW u, u = [node |-> [t.node EXCEPT ![n] = x],
                       slot |-> [t.slot EXCEPT ![k] = Append(t.slot[k], n)], cheap |-> FALSE]
    PROVE  TableInv(u, c, vassals)
<1>1. t \in TableRecord /\ c \in [Node -> Nat] /\ Listed(t) /\ Counted(t, c, vassals)
    BY DEF TableInv
<1>2. /\ t.node \in [Node -> NodeRecord] /\ t.slot \in [Key -> Seq(Node)] /\ t.slot[k] \in Seq(Node)
      /\ t.node[n].ref \in Nat
      /\ \A l \in Key : \A i \in DOMAIN t.slot[l] : t.slot[l][i] \in Node
    BY <1>1, TableFacts, NodeFields
<1>3. PICK q : q = Append(t.slot[k], n)
    OBVIOUS
<1>4. PICK m \in Nat : m = Len(t.slot[k]) /\ DOMAIN t.slot[k] = 1 .. m
    BY <1>2, LenProperties
<1>5. /\ q \in Seq(Node) /\ DOMAIN q = 1 .. m + 1 /\ q[m + 1] = n
      /\ \A i \in 1 .. m : q[i] = t.slot[k][i]
  <2>1. /\ q \in Seq(Node) /\ Len(q) = m + 1 /\ q[m + 1] = n /\ \A i \in 1 .. m : q[i] = t.slot[k][i]
    BY <1>2, <1>3, <1>4, AppendProperties
  <2> QED
    BY <2>1, LenProperties
<1>6. /\ u.node = [t.node EXCEPT ![n] = x] /\ u.slot = [t.slot EXCEPT ![k] = q] /\ u.cheap = FALSE
    BY <1>3
<1>7. u.node \in [Node -> NodeRecord] /\ u.slot \in [Key -> Seq(Node)] /\ u.cheap \in BOOLEAN
    BY <1>2, <1>5, <1>6
<1>8. u \in TableRecord
    BY <1>7 DEF TableRecord
<1>9. /\ u.node[n] = x /\ \A j \in Node : j # n => u.node[j] = t.node[j]
      /\ u.slot[k] = q /\ \A l \in Key : l # k => u.slot[l] = t.slot[l]
    BY <1>2, <1>6
<1>10. \A l \in Key : \A i \in DOMAIN t.slot[l] :
          /\ i \in DOMAIN u.slot[l] /\ u.slot[l][i] = t.slot[l][i] /\ u.slot[l][i] # n
          /\ t.node[t.slot[l][i]].used
  <2>1. ASSUME NEW l \in Key, NEW i \in DOMAIN t.slot[l]
        PROVE  t.slot[l][i] # n /\ t.node[t.slot[l][i]].used
    BY <1>1 DEF Listed
  <2>2. \A i \in DOMAIN t.slot[k] : i \in DOMAIN q /\ q[i] = t.slot[k][i]
    BY <1>4, <1>5
  <2> QED
    BY <1>9, <2>1, <2>2
<1>11. /\ m + 1 \in DOMAIN u.slot[k] /\ u.slot[k][m + 1] = n
       /\ \A l \in Key : \A i \in DOMAIN u.slot[l] : i \in DOMAIN t.slot[l] \/ (l = k /\ i = m + 1)
  <2>1. \A i \in DOMAIN q : i \in DOMAIN t.slot[k] \/ i = m + 1
    BY <1>4, <1>5
  <2> QED
    BY <1>5, <1>9, <2>1
<1>12. Listed(u)
  <2>1. ASSUME NEW l \in Key, NEW i \in DOMAIN u.slot[l]
        PROVE  u.node[u.slot[l][i]].used
    <3>1. CASE i \in DOMAIN t.slot[l]
        BY <1>2, <1>9, <1>10, <3>1
    <3>2. CASE l = k /\ i = m + 1
        BY <1>9, <1>11, <3>2
    <3> QED
        BY <1>11, <3>1, <3>2
  <2>2. ASSUME NEW l \in Key, NEW o \in Key, NEW i \in DOMAIN u.slot[l], NEW j \in DOMAIN u.slot[o],
               u.slot[l][i] = u.slot[o][j]
        PROVE  l = o /\ i = j
    <3>1. CASE i \in DOMAIN t.slot[l] /\ j \in DOMAIN t.slot[o]
        BY <1>1, <1>10, <2>2, <3>1 DEF Listed
    <3>2. CASE i \in DOMAIN t.slot[l] /\ o = k /\ j = m + 1
        BY <1>10, <1>11, <2>2, <3>2
    <3>3. CASE l = k /\ i = m + 1 /\ j \in DOMAIN t.slot[o]
        BY <1>10, <1>11, <2>2, <3>3
    <3> QED
        BY <1>11, <3>1, <3>2, <3>3
  <2>3. ASSUME NEW j \in Node, u.node[j].used
        PROVE  \E l \in Key : \E i \in DOMAIN u.slot[l] : u.slot[l][i] = j
    <3>1. CASE j = n
        BY <1>11, <3>1
    <3>2. CASE j # n
      <4>1. PICK l \in Key : \E i \in DOMAIN t.slot[l] : t.slot[l][i] = j
        BY <1>1, <1>9, <2>3, <3>2 DEF Listed
      <4> QED
        BY <1>10, <4>1
    <3> QED
        BY <3>1, <3>2
  <2> QED
    BY <2>1, <2>2, <2>3 DEF Listed
<1>13. Counted(u, c, vassals)
  <2>1. t.node[n].ref = 0 /\ c[n] = 0
    BY <1>1, <1>2 DEF Counted
  <2> QED
    BY <1>1, <1>9, <2>1 DEF Counted
<1> QED
    BY <1>1, <1>6, <1>8, <1>12, <1>13 DEF TableInv

\* An announcement refreshes a node or adds one, and wakes the router up.
LEMMA AddCounts ==
    ASSUME NEW t, NEW c, NEW vassals, TableInv(t, c, vassals), NEW k \in Key,
           NEW a \in Addr \cup {None}, NEW v \in Vassal \cup {None}, NEW clear,
           ~vassals => v = None /\ a # None,
           Known(t, k, a, v) # {} \/ Allocated(t) # Node
    PROVE  TableInv(Awake(AddNode(t, k, a, v, clear)), c, vassals)
<1>1. t \in TableRecord /\ c \in [Node -> Nat] /\ Listed(t) /\ Counted(t, c, vassals)
    BY DEF TableInv
<1>2. /\ t.node \in [Node -> NodeRecord] /\ t.slot[k] \in Seq(Node)
      /\ \A i \in DOMAIN t.slot[k] : t.slot[k][i] \in Node
    BY <1>1, TableFacts
<1>3. CASE Known(t, k, a, v) # {}
  <2>1. Known(t, k, a, v) \in SUBSET Nat /\ Known(t, k, a, v) \in SUBSET DOMAIN t.slot[k]
    BY <1>2, LenProperties DEF Known
  <2>2. First(Known(t, k, a, v)) \in DOMAIN t.slot[k]
    BY <1>3, <2>1, FirstIsLeast
  <2>3. PICK n \in Node : n = t.slot[k][First(Known(t, k, a, v))]
    BY <1>2, <2>2
  <2>4. t.node[n].used /\ t.node[n] \in NodeRecord
    BY <1>1, <1>2, <2>2, <2>3 DEF Listed
  <2>5. PICK x : x = Refreshed(t.node[n], a, v, clear)
    OBVIOUS
  <2>6. x \in NodeRecord /\ x.used = t.node[n].used /\ x.ref = t.node[n].ref
        /\ (v = None => x.addr = t.node[n].addr)
    <3>1. SameUse(Refreshed(t.node[n], a, v, clear), t.node[n], v)
        BY <2>4, RefreshedRecord
    <3>2. SameUse(x, t.node[n], v)
        BY <2>5, <3>1
    <3> QED
        BY <3>2 DEF SameUse
  <2>7. /\ x.ref >= c[n] /\ (~x.used => x.ref = 0)
        /\ ~vassals => x.ref = c[n] /\ (x.used => x.addr # None)
    BY <1>1, <2>4, <2>6 DEF Counted
  <2>8. PICK w : w = WithNode(t, n, x)
    OBVIOUS
  <2>9. TableInv(w, c, vassals)
    BY <1>1, <2>6, <2>7, <2>8, OneNode
  <2>10. AddNode(t, k, a, v, clear) = w
    BY <1>3, <2>3, <2>5, <2>8 DEF AddNode
  <2>11. w \in TableRecord /\ Counted(w, c, vassals)
    BY <2>9 DEF TableInv
  <2>12. PICK u : u = Awake(w)
    OBVIOUS
  <2>13. u \in TableRecord /\ u.node = w.node /\ u.slot = w.slot /\ u.cheap = FALSE
    BY <2>11, <2>12 DEF TableRecord, Awake
  <2>14. Counted(u, c, vassals)
    BY <2>11, <2>13 DEF Counted
  <2>15. TableInv(u, c, vassals)
    BY <1>1, <2>9, <2>13, <2>14, SameLists
  <2> QED
    BY <2>10, <2>12, <2>15
<1>4. CASE Known(t, k, a, v) = {}
  <2>1. Node \ Allocated(t) \in SUBSET Nat /\ Node \ Allocated(t) # {}
    BY <1>4, PoolAssumption DEF Allocated
  <2>2. PICK n \in Node : n = First(Node \ Allocated(t)) /\ ~t.node[n].used
    BY <2>1, FirstIsLeast DEF Allocated
  <2>3. PICK x : x = NewNode(a, v)
    OBVIOUS
  <2>4. x \in NodeRecord /\ x.used /\ x.ref = 0 /\ x.addr = a
    BY <2>3, NewNodeRecord
  <2>5. PICK u : u = [node |-> [t.node EXCEPT ![n] = x],
                      slot |-> [t.slot EXCEPT ![k] = Append(t.slot[k], n)], cheap |-> FALSE]
    OBVIOUS
  <2>6. Awake(AddNode(t, k, a, v, clear)) = u
    <3>1. AddNode(t, k, a, v, clear) = [WithNode(t, n, x) EXCEPT !.slot[k] = Append(@, n)]
        BY <1>4, <2>2, <2>3 DEF AddNode
    <3>2. AddNode(t, k, a, v, clear) =
            [node |-> [t.node EXCEPT ![n] = x],
             slot |-> [t.slot EXCEPT ![k] = Append(t.slot[k], n)], cheap |-> t.cheap]
        BY <3>1 DEF WithNode
    <3> QED
        BY <2>5, <3>2 DEF Awake
  <2>7. TableInv(u, c, vassals)
    BY <2>2, <2>4, <2>5, NewNodeCounts
  <2> QED
    BY <2>6, <2>7
<1> QED
    BY <1>3, <1>4

-----------------------------------------------------------------------------
(* The users of the nodes                                                    *)

LEMMA UsersFinite ==
    \A n \in Node : IsFiniteSet(Users(n)) /\ Cardinality(Users(n)) \in Nat
<1>1. \A n \in Node : Users(n) \in SUBSET Session
    BY DEF Users
<1> QED
    BY <1>1, RouterAssumption, FS_Subset, FS_CardinalityType

LEMMA CountsFacts ==
    /\ Counts \in [Node -> Nat]
    /\ \A n \in Node : Counts[n] = Cardinality(Users(n))
    /\ \A s \in Session : sess[s].un \in Node => Counts[sess[s].un] >= 1
<1>1. Counts \in [Node -> Nat] /\ \A n \in Node : Counts[n] = Cardinality(Users(n))
    BY UsersFinite DEF Counts
<1>2. ASSUME NEW s \in Session, sess[s].un \in Node
      PROVE  Counts[sess[s].un] >= 1
  <2>1. PICK n \in Node : n = sess[s].un
    BY <1>2
  <2>2. s \in Users(n)
    BY <2>1 DEF Users
  <2>3. Cardinality(Users(n)) # 0 /\ Cardinality(Users(n)) \in Nat
    BY <2>2, UsersFinite, FS_EmptySet
  <2>4. Counts[n] = Cardinality(Users(n))
    BY <1>1
  <2>5. Counts[n] >= 1
    BY <2>3, <2>4
  <2> QED
    BY <2>1, <2>5
<1> QED
    BY <1>1, <1>2

\* A session leaves a node and takes another one, or none.
LEMMA CountsMove ==
    ASSUME NEW s \in Session, DOMAIN sess = Session, NEW p, sess' = [sess EXCEPT ![s] = p]
    PROVE  Counts' = More(Fewer(Counts, sess[s].un), p.un)
<1>1. sess'[s] = p /\ \A x \in Session : x # s => sess'[x] = sess[x]
    OBVIOUS
<1>2. ASSUME NEW n \in Node
      PROVE  Cardinality(Users(n)') = (IF n = p.un THEN (IF n = sess[s].un THEN Cardinality(Users(n)) - 1
                                                         ELSE Cardinality(Users(n))) + 1
                                       ELSE IF n = sess[s].un THEN Cardinality(Users(n)) - 1
                                            ELSE Cardinality(Users(n)))
  <2>1. IsFiniteSet(Users(n)) /\ Cardinality(Users(n)) \in Nat
    BY UsersFinite
  <2>2. Users(n)' = {x \in Session : sess'[x].un = n} /\ Users(n) = {x \in Session : sess[x].un = n}
    BY DEF Users
  <2>3. CASE n = p.un /\ n = sess[s].un
    <3>1. Users(n)' = Users(n)
        BY <1>1, <2>2, <2>3
    <3> QED
        BY <2>1, <2>3, <3>1
  <2>4. CASE n = p.un /\ n # sess[s].un
    <3>1. Users(n)' = Users(n) \cup {s} /\ s \notin Users(n)
        BY <1>1, <2>2, <2>4
    <3>2. Cardinality(Users(n) \cup {s}) = Cardinality(Users(n)) + 1
        BY <2>1, <3>1, FS_AddElement
    <3> QED
        BY <2>4, <3>1, <3>2
  <2>5. CASE n # p.un /\ n = sess[s].un
    <3>1. Users(n)' = Users(n) \ {s} /\ s \in Users(n)
        BY <1>1, <2>2, <2>5
    <3>2. Cardinality(Users(n) \ {s}) = Cardinality(Users(n)) - 1
        BY <2>1, <3>1, FS_RemoveElement
    <3> QED
        BY <2>5, <3>1, <3>2
  <2>6. CASE n # p.un /\ n # sess[s].un
    <3>1. Users(n)' = Users(n)
        BY <1>1, <2>2, <2>6
    <3> QED
        BY <2>6, <3>1
  <2> QED
    BY <2>3, <2>4, <2>5, <2>6
<1>3. Counts' = [n \in Node |-> Cardinality(Users(n)')]
    BY DEF Counts
<1>4. \A n \in Node : Counts[n] = Cardinality(Users(n))
    BY CountsFacts
<1>5. \A n \in Node : More(Fewer(Counts, sess[s].un), p.un)[n] = Cardinality(Users(n)')
  <2>1. ASSUME NEW n \in Node
        PROVE  More(Fewer(Counts, sess[s].un), p.un)[n] = Cardinality(Users(n)')
    <3>1. Fewer(Counts, sess[s].un)[n] = IF n = sess[s].un THEN Counts[n] - 1 ELSE Counts[n]
        BY DEF Fewer
    <3>2. More(Fewer(Counts, sess[s].un), p.un)[n] =
            IF n = p.un THEN Fewer(Counts, sess[s].un)[n] + 1 ELSE Fewer(Counts, sess[s].un)[n]
        BY DEF More
    <3> QED
        BY <1>2, <1>4, <3>1, <3>2
  <2> QED
    BY <2>1
<1>6. DOMAIN More(Fewer(Counts, sess[s].un), p.un) = Node
      /\ More(Fewer(Counts, sess[s].un), p.un) = [n \in Node |-> More(Fewer(Counts, sess[s].un), p.un)[n]]
    BY DEF More
<1> QED
    BY <1>3, <1>5, <1>6

\* Taking a node and giving it back.
LEMMA MoreFewer ==
    ASSUME NEW c \in [Node -> Nat], NEW n \in Node \cup {0}
    PROVE  /\ Fewer(More(c, n), n) = c
           /\ More(Fewer(c, n), n) = c
           /\ Fewer(c, 0) = c
           /\ n \in Node => More(c, n)[n] >= 1
<1>1. Fewer(c, 0) = c
    BY PoolAssumption DEF Fewer
<1>2. \A m \in Node : c[m] \in Nat /\ c[m] + 1 - 1 = c[m] /\ c[m] - 1 + 1 = c[m]
    OBVIOUS
<1>3. /\ More(c, n) = [m \in Node |-> IF m = n THEN c[m] + 1 ELSE c[m]]
      /\ Fewer(c, n) = [m \in Node |-> IF m = n THEN c[m] - 1 ELSE c[m]]
      /\ Fewer(More(c, n), n) = [m \in Node |-> IF m = n THEN More(c, n)[m] - 1 ELSE More(c, n)[m]]
      /\ More(Fewer(c, n), n) = [m \in Node |-> IF m = n THEN Fewer(c, n)[m] + 1 ELSE Fewer(c, n)[m]]
    BY DEF More, Fewer
<1>4. Fewer(More(c, n), n) = c
    BY <1>2, <1>3
<1>5. More(Fewer(c, n), n) = c
    BY <1>2, <1>3
<1>6. n \in Node => More(c, n)[n] >= 1
    BY <1>2, <1>3
<1> QED
    BY <1>1, <1>4, <1>5, <1>6

\* A node is given back, and a node without address stays counted.
LEMMA ReleasedBack ==
    ASSUME NEW t, NEW c \in [Node -> Nat], NEW vassals, NEW n \in Node \cup {0},
           TableInv(t, More(c, n), vassals)
    PROVE  /\ TableInv(Released(t, n), c, vassals)
           /\ ~HasAddress(t, n) => TableInv(t, c, vassals)
<1>1. TableInv(Released(t, n), c, vassals)
  <2>1. CASE n = 0
    <3>1. Released(t, n) = t
        BY <2>1 DEF Released, HasAddress
    <3>2. More(c, n) = c
        BY <2>1, MoreOfNone
    <3> QED
        BY <3>1, <3>2
  <2>2. CASE n # 0
    <3>1. n \in Node /\ More(c, n)[n] >= 1 /\ Fewer(More(c, n), n) = c
        BY <2>2, MoreFewer
    <3>2. TableInv(Released(t, n), Fewer(More(c, n), n), vassals)
        BY <3>1, ReleasedCounts
    <3> QED
        BY <3>1, <3>2
  <2> QED
    BY <2>1, <2>2
<1>2. ~HasAddress(t, n) => Released(t, n) = t
    BY DEF Released
<1> QED
    BY <1>1, <1>2

-----------------------------------------------------------------------------
(* The steps of the router                                                   *)

\* What the invariant says of the table and of a session.
LEMMA InvFacts ==
    ASSUME RouterInv
    PROVE  /\ conf.algo \in Algos /\ DOMAIN sess = Session
           /\ TableInv(Table, Counts, conf.vassals)
           /\ \A s \in Session : /\ SessionFits(sess[s]) /\ sess[s] \in SessionRecord
                                 /\ sess[s].un \in Node \cup {0}
                                 /\ sess[s].un # 0 => Counts[sess[s].un] >= 1
<1>1. \A s \in Session : sess[s] \in SessionRecord /\ sess[s].un \in Node \cup {0}
    BY DEF RouterInv, SessionRecord
<1>2. conf.algo \in Algos /\ DOMAIN sess = Session
    BY DEF RouterInv
<1>3. \A s \in Session : sess[s].un # 0 => Counts[sess[s].un] >= 1
    BY <1>1, CountsFacts
<1> QED
    BY <1>1, <1>2, <1>3 DEF RouterInv

\* The table a step sets.
LEMMA TableSet ==
    ASSUME NEW T, T \in TableRecord, SetTable(T)
    PROVE  Table' = T
<1>1. node' = T.node /\ slot' = T.slot /\ i_am_cheap' = T.cheap
    BY DEF SetTable
<1>2. T = [node |-> T.node, slot |-> T.slot, cheap |-> T.cheap]
    BY DEF TableRecord
<1>3. Table' = [node |-> node', slot |-> slot', cheap |-> i_am_cheap']
    BY DEF Table
<1> QED
    BY <1>1, <1>2, <1>3

\* A step of one session, which becomes p.
LEMMA OneSession ==
    ASSUME RouterInv, NEW s \in Session, NEW p, SessionFits(p), sess' = [sess EXCEPT ![s] = p],
           NEW T, SetTable(T), TableInv(T, More(Fewer(Counts, sess[s].un), p.un), conf.vassals),
           conf' = conf
    PROVE  RouterInv'
<1>1. T \in TableRecord
    BY DEF TableInv
<1>2. Table' = T
    BY <1>1, TableSet
<1>3. Counts' = More(Fewer(Counts, sess[s].un), p.un)
    BY InvFacts, CountsMove
<1>4. TableInv(Table', Counts', conf'.vassals)
    BY <1>2, <1>3
<1>5. p \in SessionRecord
    BY DEF SessionFits
<1>6. sess' \in [Session -> SessionRecord] /\ \A x \in Session : SessionFits(sess'[x])
  <2>1. sess \in [Session -> SessionRecord] /\ \A x \in Session : SessionFits(sess[x])
    BY DEF RouterInv
  <2>2. sess'[s] = p /\ \A x \in Session : x # s => sess'[x] = sess[x]
    BY <2>1
  <2>3. sess' \in [Session -> SessionRecord]
    BY <1>5, <2>1
  <2> QED
    BY <2>1, <2>2, <2>3
<1>7. conf' \in [algo : Algos, cheap : BOOLEAN, vassals : BOOLEAN]
    BY DEF RouterInv
<1>8. TableInv(Table, Counts, conf.vassals)'
    BY <1>4
<1>9. (\A x \in Session : SessionFits(sess[x]))'
    BY <1>6
<1> QED
    BY <1>6, <1>7, <1>8, <1>9 DEF RouterInv

\* A step on the table alone.
LEMMA TableStep ==
    ASSUME RouterInv, NEW T, SetTable(T), TableInv(T, Counts, conf.vassals), sess' = sess, conf' = conf
    PROVE  RouterInv'
<1>1. T \in TableRecord
    BY DEF TableInv
<1>2. Table' = T
    BY <1>1, TableSet
<1>3. Counts' = Counts
    BY DEF Counts, Users
<1>4. TableInv(Table, Counts, conf.vassals)'
    BY <1>2, <1>3
<1>5. (\A x \in Session : SessionFits(sess[x]))'
    BY DEF RouterInv
<1> QED
    BY <1>4, <1>5 DEF RouterInv

\* Sessions without a peer.
LEMMA NoSessionFits ==
    /\ SessionFits(NoSession) /\ NoSession.un = 0
    /\ SessionFits([NoSession EXCEPT !.st = "reading"]) /\ [NoSession EXCEPT !.st = "reading"].un = 0
    /\ SessionFits([NoSession EXCEPT !.missed = TRUE]) /\ [NoSession EXCEPT !.missed = TRUE].un = 0
<1>1. 0 \in 0 .. MaxRetries
    BY RouterAssumption
<1> QED
    BY <1>1 DEF NoSession, SessionFits, SessionRecord, Stage

\* The count without the session s.
LEMMA WithoutSession ==
    ASSUME RouterInv, NEW s \in Session
    PROVE  /\ Fewer(Counts, sess[s].un) \in [Node -> Nat]
           /\ More(Fewer(Counts, sess[s].un), 0) = Fewer(Counts, sess[s].un)
           /\ TableInv(Released(Table, sess[s].un), Fewer(Counts, sess[s].un), conf.vassals)
           /\ sess[s].un # 0 => Released(Table, sess[s].un).node[sess[s].un].used
<1>1. /\ sess[s].un \in Node \cup {0} /\ (sess[s].un # 0 => Counts[sess[s].un] >= 1)
      /\ TableInv(Table, Counts, conf.vassals) /\ Counts \in [Node -> Nat]
    BY InvFacts, CountsFacts
<1>2. CASE sess[s].un = 0
  <2>1. Fewer(Counts, sess[s].un) = Counts
    BY <1>1, <1>2, MoreFewer
  <2>2. Released(Table, sess[s].un) = Table
    BY <1>2 DEF Released, HasAddress
  <2> QED
    BY <1>1, <1>2, <2>1, <2>2, MoreOfNone
<1>3. CASE sess[s].un # 0
  <2>1. PICK n \in Node : n = sess[s].un
    BY <1>1, <1>3
  <2>2. Fewer(Counts, n) \in [Node -> Nat]
    BY <1>1, <1>3, <2>1, FewerType
  <2>3. TableInv(Released(Table, n), Fewer(Counts, n), conf.vassals) /\ Released(Table, n).node[n].used
    BY <1>1, <1>3, <2>1, ReleasedCounts
  <2> QED
    BY <2>1, <2>2, <2>3, MoreOfNone
<1> QED
    BY <1>2, <1>3

LEMMA StepAccept ==
    ASSUME RouterInv, NEW s \in Session, Accept(s)
    PROVE  RouterInv'
<1>1. PICK p : p = [NoSession EXCEPT !.st = "reading"]
    OBVIOUS
<1>2. SessionFits(p) /\ p.un = 0
    BY <1>1, NoSessionFits
<1>3. sess[s].un = 0
    BY InvFacts DEF Accept, SessionFits
<1>4. sess' = [sess EXCEPT ![s] = p] /\ SetTable(Table) /\ conf' = conf
    BY <1>1 DEF Accept, SetTable, Table
<1>5. More(Fewer(Counts, sess[s].un), p.un) = Counts
    BY <1>2, <1>3, CountsFacts, MoreFewer, MoreOfNone
<1>6. TableInv(Table, More(Fewer(Counts, sess[s].un), p.un), conf.vassals)
    BY <1>5, InvFacts
<1> QED
    BY <1>2, <1>4, <1>6, OneSession

LEMMA StepClientCloses ==
    ASSUME RouterInv, NEW s \in Session, ClientCloses(s)
    PROVE  RouterInv'
<1>1. PICK p : p = NoSession
    OBVIOUS
<1>2. SessionFits(p) /\ p.un = 0
    BY <1>1, NoSessionFits
<1>3. sess' = [sess EXCEPT ![s] = p] /\ SetTable(Released(Table, sess[s].un)) /\ conf' = conf
    BY <1>1 DEF ClientCloses
<1>4. TableInv(Released(Table, sess[s].un), More(Fewer(Counts, sess[s].un), p.un), conf.vassals)
    BY <1>2, WithoutSession
<1> QED
    BY <1>2, <1>3, <1>4, OneSession

LEMMA StepRequest ==
    ASSUME RouterInv, NEW s \in Session, NEW k \in Key, Request(s, k)
    PROVE  RouterInv'
<1>1. /\ sess[s].st = "reading" /\ conf' = conf
    BY DEF Request
<1>2. /\ sess[s] \in SessionRecord /\ sess[s].un = 0 /\ sess[s].retries = 0 /\ ~sess[s].missed
      /\ conf.algo \in Algos /\ TableInv(Table, Counts, conf.vassals)
    BY <1>1, InvFacts DEF SessionFits
<1>3. Counts \in [Node -> Nat] /\ Fewer(Counts, sess[s].un) = Counts /\ More(Counts, 0) = Counts
    BY <1>2, CountsFacts, MoreFewer, MoreOfNone
<1>4. PICK r \in Mapped(Table, k) :
        LET p == [sess[s] EXCEPT !.key = k, !.un = r.un]
        IN  \/ /\ HasAddress(r.table, r.un)
               /\ SetTable(r.table)
               /\ sess' = [sess EXCEPT ![s] = [p EXCEPT !.st = "connecting", !.canRetry = TRUE]]
            \/ /\ HasAddress(r.table, r.un)
               /\ SetTable(Released(r.table, r.un))
               /\ sess' = [sess EXCEPT ![s] = NoSession]
            \/ /\ ~HasAddress(r.table, r.un) /\ HasVassal(r.table, r.un)
               /\ SetTable(r.table)
               /\ sess' = [sess EXCEPT ![s] = [p EXCEPT !.st = "deferred"]]
            \/ /\ ~HasAddress(r.table, r.un) /\ ~HasVassal(r.table, r.un)
               /\ SetTable(r.table)
               /\ sess' = [sess EXCEPT ![s] = [NoSession EXCEPT !.missed = TRUE]]
    BY DEF Request
<1>5. r.un \in Node \cup {0} /\ TableInv(r.table, More(Counts, r.un), conf.vassals)
    BY <1>2, MappedCounts
<1>6. PICK n : n = r.un
    OBVIOUS
<1> DEFINE p == [sess[s] EXCEPT !.key = k, !.un = n]
<1>7. CASE /\ HasAddress(r.table, n)
           /\ SetTable(r.table)
           /\ sess' = [sess EXCEPT ![s] = [p EXCEPT !.st = "connecting", !.canRetry = TRUE]]
  <2>1. PICK x : x = [p EXCEPT !.st = "connecting", !.canRetry = TRUE]
    OBVIOUS
  <2>2. n # 0
    BY <1>7 DEF HasAddress
  <2>3. /\ x \in SessionRecord /\ x.un = n /\ x.key = k /\ x.st = "connecting" /\ ~x.missed
    BY <1>2, <1>5, <1>6, <2>1 DEF SessionRecord, Stage
  <2>4. SessionFits(x)
    BY <2>2, <2>3 DEF SessionFits
  <2>5. TableInv(r.table, More(Fewer(Counts, sess[s].un), x.un), conf.vassals)
    BY <1>3, <1>5, <1>6, <2>3
  <2>6. sess' = [sess EXCEPT ![s] = x]
    BY <1>7, <2>1
  <2> QED
    BY <1>1, <1>7, <2>4, <2>5, <2>6, OneSession
<1>8. CASE /\ HasAddress(r.table, n)
           /\ SetTable(Released(r.table, n))
           /\ sess' = [sess EXCEPT ![s] = NoSession]
  <2>1. TableInv(Released(r.table, n), Counts, conf.vassals)
    BY <1>3, <1>5, <1>6, ReleasedBack
  <2>2. TableInv(Released(r.table, n), More(Fewer(Counts, sess[s].un), NoSession.un), conf.vassals)
    BY <1>3, <2>1, NoSessionFits
  <2> QED
    BY <1>1, <1>8, <2>2, NoSessionFits, OneSession
<1>9. CASE /\ HasVassal(r.table, n)
           /\ SetTable(r.table)
           /\ sess' = [sess EXCEPT ![s] = [p EXCEPT !.st = "deferred"]]
  <2>1. PICK x : x = [p EXCEPT !.st = "deferred"]
    OBVIOUS
  <2>2. n # 0 /\ 0 < MaxRetries
    BY <1>9, RouterAssumption DEF HasVassal
  <2>3. /\ x \in SessionRecord /\ x.un = n /\ x.key = k /\ x.st = "deferred" /\ x.retries = 0
        /\ ~x.missed
    BY <1>2, <1>5, <1>6, <2>1 DEF SessionRecord, Stage
  <2>4. SessionFits(x)
    BY <2>2, <2>3 DEF SessionFits
  <2>5. TableInv(r.table, More(Fewer(Counts, sess[s].un), x.un), conf.vassals)
    BY <1>3, <1>5, <1>6, <2>3
  <2>6. sess' = [sess EXCEPT ![s] = x]
    BY <1>9, <2>1
  <2> QED
    BY <1>1, <1>9, <2>4, <2>5, <2>6, OneSession
<1>10. CASE /\ ~HasAddress(r.table, n)
            /\ SetTable(r.table)
            /\ sess' = [sess EXCEPT ![s] = [NoSession EXCEPT !.missed = TRUE]]
  <2>1. PICK x : x = [NoSession EXCEPT !.missed = TRUE]
    OBVIOUS
  <2>2. SessionFits(x) /\ x.un = 0
    BY <2>1, NoSessionFits
  <2>3. TableInv(r.table, Counts, conf.vassals)
    BY <1>3, <1>5, <1>6, <1>10, ReleasedBack
  <2>4. TableInv(r.table, More(Fewer(Counts, sess[s].un), x.un), conf.vassals)
    BY <1>3, <2>2, <2>3
  <2>5. sess' = [sess EXCEPT ![s] = x]
    BY <1>10, <2>1
  <2> QED
    BY <1>1, <1>10, <2>2, <2>4, <2>5, OneSession
<1> QED
    BY <1>4, <1>6, <1>7, <1>8, <1>9, <1>10, Zenon

LEMMA StepConnected ==
    ASSUME RouterInv, NEW s \in Session, Connected(s)
    PROVE  RouterInv'
<1>1. /\ sess[s].st = "connecting" /\ conf' = conf
      /\ sess' = [sess EXCEPT ![s].st = "connected", ![s].canRetry = FALSE]
      /\ node' = [node EXCEPT ![sess[s].un].last = @ + 1]
      /\ slot' = slot /\ i_am_cheap' = i_am_cheap
    BY DEF Connected
<1>2. /\ SessionFits(sess[s]) /\ sess[s] \in SessionRecord /\ DOMAIN sess = Session
      /\ TableInv(Table, Counts, conf.vassals)
      /\ sess[s].un \in Node \cup {0} /\ (sess[s].un # 0 => Counts[sess[s].un] >= 1)
    BY InvFacts
<1>3. PICK n \in Node : n = sess[s].un
    BY <1>1, <1>2 DEF SessionFits
<1>4. PICK p : p = [sess[s] EXCEPT !.st = "connected", !.canRetry = FALSE]
    OBVIOUS
<1>5. sess' = [sess EXCEPT ![s] = p]
    BY <1>1, <1>2, <1>4
<1>6. /\ p \in SessionRecord /\ p.un = n /\ p.key = sess[s].key /\ p.st = "connected"
      /\ p.missed = sess[s].missed
    BY <1>2, <1>3, <1>4 DEF SessionRecord, Stage
<1>7. SessionFits(p)
  <2>1. n # 0 /\ sess[s].key \in Key /\ ~sess[s].missed
    BY <1>1, <1>2, PoolAssumption DEF SessionFits
  <2> QED
    BY <1>6, <2>1 DEF SessionFits
<1>8. /\ Table \in TableRecord /\ Counts \in [Node -> Nat] /\ Counted(Table, Counts, conf.vassals)
      /\ Table.node = node /\ Table.slot = slot /\ Table.cheap = i_am_cheap
    BY <1>2 DEF TableInv, Table
<1>9. node \in [Node -> NodeRecord] /\ node[n] \in NodeRecord /\ node[n].last \in Nat
    BY <1>8, TableFacts, NodeFields
<1>10. PICK i \in Nat : i = node[n].last + 1
    BY <1>9
<1>11. PICK x : x = [node[n] EXCEPT !.last = i]
    OBVIOUS
<1>12. x \in NodeRecord /\ x.ref = node[n].ref /\ x.used = node[n].used /\ x.addr = node[n].addr
    BY <1>9, <1>11 DEF NodeRecord
<1>13. node' = [node EXCEPT ![n] = x]
    BY <1>1, <1>3, <1>9, <1>10, <1>11
<1>14. SetTable(WithNode(Table, n, x))
    BY <1>1, <1>8, <1>13 DEF SetTable, WithNode
<1>15. /\ x.ref >= Counts[n] /\ (~x.used => x.ref = 0)
       /\ ~conf.vassals => x.ref = Counts[n] /\ (x.used => x.addr # None)
    BY <1>8, <1>12 DEF Counted
<1>16. TableInv(WithNode(Table, n, x), Counts, conf.vassals)
    BY <1>2, <1>8, <1>12, <1>15, OneNode
<1>17. More(Fewer(Counts, sess[s].un), p.un) = Counts
    BY <1>3, <1>6, <1>8, MoreFewer
<1>18. TableInv(WithNode(Table, n, x), More(Fewer(Counts, sess[s].un), p.un), conf.vassals)
    BY <1>16, <1>17
<1> QED
    BY <1>1, <1>5, <1>7, <1>14, <1>18, OneSession

\* What a retry leaves: a peer with the node that was found, which is to be kept if the
\* node has an address.
LEMMA RetryFits ==
    ASSUME NEW p \in SessionRecord, p.key \in Key, ~p.missed, NEW r, r.un \in Node \cup {0},
           NEW x \in RetryResult(p, r)
    PROVE  /\ SessionFits(x.peer) /\ x.peer.un = r.un
           /\ HasAddress(r.table, r.un) => x.ret = 0 \/ x.peer.failed
<1>1. PICK q : q = [p EXCEPT !.un = r.un]
    OBVIOUS
<1>2. /\ q \in SessionRecord /\ q.un = r.un /\ q.key = p.key /\ q.retries = p.retries
      /\ q.retries \in 0 .. MaxRetries /\ ~q.missed
    BY <1>1 DEF SessionRecord
<1>3. RetryResult(p, r) =
        IF HasAddress(r.table, r.un)
        THEN {[ret |-> 0, peer |-> [q EXCEPT !.st = "connecting"]],
              [ret |-> -1, peer |-> [q EXCEPT !.st = "parked", !.failed = TRUE]]}
        ELSE IF HasVassal(r.table, r.un) /\ p.retries + 1 < MaxRetries
             THEN {[ret |-> 1, peer |-> [q EXCEPT !.st = "deferred"]]}
             ELSE {[ret |-> -1, peer |-> [q EXCEPT !.st = "parked"]]}
    BY <1>1, Zenon DEF RetryResult
<1>4. CASE HasAddress(r.table, r.un) /\ x = [ret |-> 0, peer |-> [q EXCEPT !.st = "connecting"]]
  <2>1. r.un # 0
    BY <1>4 DEF HasAddress
  <2>2. x.ret = 0 /\ x.peer = [q EXCEPT !.st = "connecting"]
    BY <1>4
  <2>3. PICK y : y = x.peer
    OBVIOUS
  <2>4. y \in SessionRecord /\ y.un = r.un /\ y.key = p.key /\ y.st = "connecting" /\ ~y.missed
    BY <1>2, <2>2, <2>3 DEF SessionRecord, Stage
  <2>5. SessionFits(y)
    BY <2>1, <2>4 DEF SessionFits
  <2> QED
    BY <2>2, <2>3, <2>4, <2>5
<1>5. CASE HasAddress(r.table, r.un)
           /\ x = [ret |-> -1, peer |-> [q EXCEPT !.st = "parked", !.failed = TRUE]]
  <2>1. x.peer = [q EXCEPT !.st = "parked", !.failed = TRUE]
    BY <1>5
  <2>2. PICK y : y = x.peer
    OBVIOUS
  <2>3. /\ y \in SessionRecord /\ y.un = r.un /\ y.key = p.key /\ y.st = "parked" /\ y.failed = TRUE
        /\ ~y.missed
    BY <1>2, <2>1, <2>2 DEF SessionRecord, Stage
  <2>4. SessionFits(y)
    BY <2>3 DEF SessionFits
  <2> QED
    BY <2>2, <2>3, <2>4
<1>6. CASE ~HasAddress(r.table, r.un) /\ HasVassal(r.table, r.un) /\ p.retries + 1 < MaxRetries
           /\ x = [ret |-> 1, peer |-> [q EXCEPT !.st = "deferred"]]
  <2>1. r.un # 0
    BY <1>6 DEF HasVassal
  <2>2. x.peer = [q EXCEPT !.st = "deferred"]
    BY <1>6
  <2>3. PICK y : y = x.peer
    OBVIOUS
  <2>4. /\ y \in SessionRecord /\ y.un = r.un /\ y.key = p.key /\ y.st = "deferred"
        /\ y.retries = p.retries /\ ~y.missed
    BY <1>2, <2>2, <2>3 DEF SessionRecord, Stage
  <2>5. p.retries < MaxRetries
    BY <1>2, <1>6, RouterAssumption
  <2>6. SessionFits(y)
    BY <2>1, <2>4, <2>5 DEF SessionFits
  <2> QED
    BY <1>6, <2>3, <2>4, <2>6
<1>7. CASE ~HasAddress(r.table, r.un) /\ x = [ret |-> -1, peer |-> [q EXCEPT !.st = "parked"]]
  <2>1. x.peer = [q EXCEPT !.st = "parked"]
    BY <1>7
  <2>2. PICK y : y = x.peer
    OBVIOUS
  <2>3. y \in SessionRecord /\ y.un = r.un /\ y.key = p.key /\ y.st = "parked" /\ ~y.missed
    BY <1>2, <2>1, <2>2 DEF SessionRecord, Stage
  <2>4. SessionFits(y)
    BY <2>3 DEF SessionFits
  <2> QED
    BY <1>7, <2>2, <2>3, <2>4
<1>8. \/ HasAddress(r.table, r.un) /\ x = [ret |-> 0, peer |-> [q EXCEPT !.st = "connecting"]]
      \/ HasAddress(r.table, r.un)
         /\ x = [ret |-> -1, peer |-> [q EXCEPT !.st = "parked", !.failed = TRUE]]
      \/ ~HasAddress(r.table, r.un) /\ HasVassal(r.table, r.un) /\ p.retries + 1 < MaxRetries
         /\ x = [ret |-> 1, peer |-> [q EXCEPT !.st = "deferred"]]
      \/ ~HasAddress(r.table, r.un) /\ x = [ret |-> -1, peer |-> [q EXCEPT !.st = "parked"]]
    BY <1>3, Zenon
<1> QED
    BY <1>4, <1>5, <1>6, <1>7, <1>8

\* The end of a peer p of the session s: it gives its node back, and may find another one.
LEMMA StepClosePeer ==
    ASSUME RouterInv, NEW s \in Session, NEW p \in SessionRecord, p.un = sess[s].un, p.key \in Key,
           ~p.missed, ClosePeer(s, p), conf' = conf
    PROVE  RouterInv'
<1>1. PICK c : c = Fewer(Counts, sess[s].un)
    OBVIOUS
<1>2. PICK released : released = Released(Table, sess[s].un)
    OBVIOUS
<1>3. /\ c \in [Node -> Nat] /\ More(c, 0) = c /\ TableInv(released, c, conf.vassals)
      /\ sess[s].un # 0 => released.node[sess[s].un].used
    BY <1>1, <1>2, WithoutSession
<1>4. PICK t : t = IF p.failed THEN FailedPeer(released, p.un) ELSE released
    OBVIOUS
<1>5. TableInv(t, c, conf.vassals)
  <2>1. CASE p.failed /\ HasAddress(released, p.un)
    <3>1. t = Failed(released, p.un)
        BY <1>4, <2>1 DEF FailedPeer
    <3>2. p.un \in Node /\ released.node[p.un].used
        BY <1>3, <2>1, InvFacts DEF HasAddress
    <3> QED
        BY <1>3, <3>1, <3>2, FailedCounts
  <2>2. CASE ~(p.failed /\ HasAddress(released, p.un))
    <3>1. t = released
        BY <1>4, <2>2 DEF FailedPeer
    <3> QED
        BY <1>3, <3>1
  <2> QED
    BY <2>1, <2>2
<1>6. PICK again : again = [p EXCEPT !.retries = @ + 1, !.un = 0, !.failed = FALSE]
    OBVIOUS
<1>7. \/ /\ p.failed /\ p.canRetry /\ p.retries < MaxRetries
         /\ \E r \in Mapped(t, p.key) : \E x \in RetryResult(again, r) :
                /\ SetTable(r.table)
                /\ sess' = [sess EXCEPT ![s] = IF x.ret = 0 \/ x.peer.failed THEN x.peer ELSE NoSession]
      \/ SetTable(t) /\ sess' = [sess EXCEPT ![s] = NoSession]
    BY <1>2, <1>4, <1>6, Zenon DEF ClosePeer
<1>8. CASE SetTable(t) /\ sess' = [sess EXCEPT ![s] = NoSession]
  <2>1. TableInv(t, More(Fewer(Counts, sess[s].un), NoSession.un), conf.vassals)
    BY <1>1, <1>3, <1>5, NoSessionFits
  <2> QED
    BY <1>8, <2>1, NoSessionFits, OneSession
<1>9. CASE /\ p.retries < MaxRetries
           /\ \E r \in Mapped(t, p.key) : \E x \in RetryResult(again, r) :
                /\ SetTable(r.table)
                /\ sess' = [sess EXCEPT ![s] = IF x.ret = 0 \/ x.peer.failed THEN x.peer ELSE NoSession]
  <2>1. again \in SessionRecord /\ again.key = p.key /\ ~again.missed
    <3>1. p.retries \in 0 .. MaxRetries
        BY DEF SessionRecord
    <3>2. PICK i \in 0 .. MaxRetries : i = p.retries + 1
        BY <1>9, <3>1, RouterAssumption
    <3>3. again = [p EXCEPT !.retries = i, !.un = 0, !.failed = FALSE]
        BY <1>6, <3>2
    <3> QED
        BY <3>3 DEF SessionRecord
  <2>2. PICK r \in Mapped(t, p.key) : \E x \in RetryResult(again, r) :
            /\ SetTable(r.table)
            /\ sess' = [sess EXCEPT ![s] = IF x.ret = 0 \/ x.peer.failed THEN x.peer ELSE NoSession]
    BY <1>9
  <2>3. PICK x \in RetryResult(again, r) :
            /\ SetTable(r.table)
            /\ sess' = [sess EXCEPT ![s] = IF x.ret = 0 \/ x.peer.failed THEN x.peer ELSE NoSession]
    BY <2>2
  <2>4. r.un \in Node \cup {0} /\ TableInv(r.table, More(c, r.un), conf.vassals)
    BY <1>5, InvFacts, MappedCounts
  <2>5. /\ SessionFits(x.peer) /\ x.peer.un = r.un
        /\ HasAddress(r.table, r.un) => x.ret = 0 \/ x.peer.failed
    BY <2>1, <2>4, RetryFits
  <2>6. CASE x.ret = 0 \/ x.peer.failed
    <3>1. sess' = [sess EXCEPT ![s] = x.peer]
        BY <2>3, <2>6
    <3>2. TableInv(r.table, More(Fewer(Counts, sess[s].un), x.peer.un), conf.vassals)
        BY <1>1, <2>4, <2>5
    <3> QED
        BY <2>3, <2>5, <3>1, <3>2, OneSession
  <2>7. CASE ~(x.ret = 0 \/ x.peer.failed)
    <3>1. sess' = [sess EXCEPT ![s] = NoSession]
        BY <2>3, <2>7
    <3>2. TableInv(r.table, c, conf.vassals)
        BY <1>3, <2>4, <2>5, <2>7, ReleasedBack
    <3>3. TableInv(r.table, More(Fewer(Counts, sess[s].un), NoSession.un), conf.vassals)
        BY <1>1, <1>3, <3>2, NoSessionFits
    <3> QED
        BY <2>3, <3>1, <3>3, NoSessionFits, OneSession
  <2> QED
    BY <2>6, <2>7
<1> QED
    BY <1>7, <1>8, <1>9

\* A session with a peer, before the peer is closed.
LEMMA OpenPeer ==
    ASSUME RouterInv, NEW s \in Session,
           sess[s].st \in {"deferred", "connecting", "connected", "parked"}
    PROVE  sess[s] \in SessionRecord /\ sess[s].key \in Key /\ ~sess[s].missed
BY InvFacts DEF SessionFits

LEMMA StepBackendError ==
    ASSUME RouterInv, NEW s \in Session, BackendError(s)
    PROVE  RouterInv'
<1>1. /\ sess[s].st \in {"deferred", "connecting", "connected", "parked"} /\ conf' = conf
      /\ ClosePeer(s, [sess[s] EXCEPT !.failed = TRUE])
    BY DEF BackendError
<1>2. PICK p : p = [sess[s] EXCEPT !.failed = TRUE]
    OBVIOUS
<1>3. p \in SessionRecord /\ p.un = sess[s].un /\ p.key \in Key /\ ~p.missed
    BY <1>1, <1>2, OpenPeer DEF SessionRecord
<1>4. ClosePeer(s, p)
    BY <1>1, <1>2
<1> QED
    BY <1>1, <1>3, <1>4, StepClosePeer

LEMMA StepBackendCloses ==
    ASSUME RouterInv, NEW s \in Session, BackendCloses(s)
    PROVE  RouterInv'
<1>1. /\ sess[s].st \in {"deferred", "connecting", "connected", "parked"} /\ conf' = conf
      /\ ClosePeer(s, sess[s])
    BY DEF BackendCloses
<1>2. sess[s] \in SessionRecord /\ sess[s].key \in Key /\ ~sess[s].missed
    BY <1>1, OpenPeer
<1> QED
    BY <1>1, <1>2, StepClosePeer

LEMMA StepPeerTimeout ==
    ASSUME RouterInv, NEW s \in Session, PeerTimeout(s)
    PROVE  RouterInv'
<1>1. sess[s].st \in {"deferred", "connecting", "connected", "parked"} /\ conf' = conf
    BY DEF PeerTimeout
<1>2. sess[s] \in SessionRecord /\ sess[s].key \in Key /\ ~sess[s].missed /\ SessionFits(sess[s])
    BY <1>1, OpenPeer, InvFacts
<1>3. CASE sess[s].st # "deferred"
  <2>1. ClosePeer(s, [sess[s] EXCEPT !.failed = @ \/ sess[s].st = "connecting"])
    BY <1>3 DEF PeerTimeout
  <2>2. PICK b \in BOOLEAN : b = (sess[s].failed \/ sess[s].st = "connecting")
    OBVIOUS
  <2>3. PICK p : p = [sess[s] EXCEPT !.failed = b]
    OBVIOUS
  <2>4. ClosePeer(s, p)
    BY <2>1, <2>2, <2>3
  <2>5. p \in SessionRecord /\ p.un = sess[s].un /\ p.key \in Key /\ ~p.missed
    BY <1>2, <2>3 DEF SessionRecord
  <2> QED
    BY <1>1, <2>4, <2>5, StepClosePeer
<1>4. CASE sess[s].st = "deferred"
  <2>1. PICK n \in Node : n = sess[s].un /\ Counts[n] >= 1
    BY <1>2, <1>4, InvFacts DEF SessionFits
  <2>2. Counts \in [Node -> Nat] /\ TableInv(Table, Counts, conf.vassals) /\ conf.algo \in Algos
    BY InvFacts, CountsFacts
  <2>3. Table.node = node /\ node[n] \in NodeRecord /\ node[n].ref >= 1
    BY <2>1, <2>2, CountedIsUsed DEF Table
  <2>4. node[n].ref # 0
    BY <2>3
  <2>5. PICK t : t = WithNode(Table, n, [node[n] EXCEPT !.ref = @ - 1])
    OBVIOUS
  <2>6. TableInv(t, Fewer(Counts, n), conf.vassals)
    BY <2>1, <2>2, <2>3, <2>5, GivenBack
  <2>7. PICK p : p = [sess[s] EXCEPT !.retries = @ + 1]
    OBVIOUS
  <2>8. p \in SessionRecord /\ p.key = sess[s].key /\ ~p.missed
    <3>1. sess[s].retries \in 0 .. MaxRetries /\ sess[s].retries < MaxRetries
        BY <1>2, <1>4 DEF SessionRecord, SessionFits
    <3>2. PICK i \in 0 .. MaxRetries : i = sess[s].retries + 1
        BY <3>1, RouterAssumption
    <3>3. p = [sess[s] EXCEPT !.retries = i]
        BY <2>7, <3>2
    <3> QED
        BY <1>2, <3>3 DEF SessionRecord
  <2>9. \E r \in Mapped(t, p.key) : \E x \in RetryResult(p, r) :
            SetTable(r.table) /\ sess' = [sess EXCEPT ![s] = x.peer]
    BY <1>4, <2>1, <2>4, <2>5, <2>7, Zenon DEF PeerTimeout
  <2>10. PICK r \in Mapped(t, p.key) : \E x \in RetryResult(p, r) :
            SetTable(r.table) /\ sess' = [sess EXCEPT ![s] = x.peer]
    BY <2>9
  <2>11. PICK x \in RetryResult(p, r) : SetTable(r.table) /\ sess' = [sess EXCEPT ![s] = x.peer]
    BY <2>10
  <2>12. r.un \in Node \cup {0} /\ TableInv(r.table, More(Fewer(Counts, n), r.un), conf.vassals)
    BY <1>2, <2>2, <2>6, <2>8, MappedCounts
  <2>13. SessionFits(x.peer) /\ x.peer.un = r.un
    BY <1>2, <2>8, <2>12, RetryFits
  <2>14. TableInv(r.table, More(Fewer(Counts, sess[s].un), x.peer.un), conf.vassals)
    BY <2>1, <2>12, <2>13
  <2> QED
    BY <1>1, <2>11, <2>13, <2>14, OneSession
<1> QED
    BY <1>3, <1>4

LEMMA StepSubscribe ==
    ASSUME RouterInv, NEW k \in Key, NEW a \in Addr \cup {None}, NEW v \in Vassal \cup {None},
           NEW clear \in BOOLEAN, Subscribe(k, a, v, clear)
    PROVE  RouterInv'
<1>1. /\ a # None \/ v # None
      /\ conf.vassals \/ v = None
      /\ Known(Table, k, a, v) # {} \/ Allocated(Table) # Node
      /\ SetTable(Awake(AddNode(Table, k, a, v, clear)))
      /\ sess' = sess /\ conf' = conf
    BY DEF Subscribe
<1>2. ~conf.vassals => v = None /\ a # None
    BY <1>1
<1>3. TableInv(Awake(AddNode(Table, k, a, v, clear)), Counts, conf.vassals)
    BY <1>1, <1>2, InvFacts, AddCounts
<1> QED
    BY <1>1, <1>3, TableStep

LEMMA StepUnsubscribe ==
    ASSUME RouterInv, NEW k \in Key, NEW a \in Addr, Unsubscribe(k, a)
    PROVE  RouterInv'
<1> DEFINE named == {i \in DOMAIN slot[k] : node[slot[k][i]].addr = a}
<1>1. named # {} /\ SetTable(Failed(Table, slot[k][First(named)])) /\ sess' = sess /\ conf' = conf
    BY DEF Unsubscribe
<1>2. TableInv(Table, Counts, conf.vassals)
    BY InvFacts
<1>3. Table \in TableRecord /\ Listed(Table) /\ Table.slot = slot /\ Table.node = node
    BY <1>2 DEF TableInv, Table
<1>4. slot[k] \in Seq(Node) /\ \A i \in DOMAIN slot[k] : slot[k][i] \in Node /\ node[slot[k][i]].used
    BY <1>3, TableFacts DEF Listed
<1>5. named \in SUBSET Nat /\ named \in SUBSET DOMAIN slot[k]
    BY <1>4, LenProperties
<1>6. First(named) \in DOMAIN slot[k]
    BY <1>1, <1>5, FirstIsLeast
<1>7. PICK n \in Node : n = slot[k][First(named)] /\ Table.node[n].used
    BY <1>3, <1>4, <1>6
<1>8. TableInv(Failed(Table, n), Counts, conf.vassals)
    BY <1>2, <1>7, FailedCounts
<1>9. SetTable(Failed(Table, n))
    BY <1>1, <1>7
<1> QED
    BY <1>1, <1>8, <1>9, TableStep

LEMMA StepFallSilent ==
    ASSUME RouterInv, NEW n \in Node, FallSilent(n)
    PROVE  RouterInv'
<1>1. /\ node' = [node EXCEPT ![n].silent = TRUE]
      /\ slot' = slot /\ i_am_cheap' = i_am_cheap /\ sess' = sess /\ conf' = conf
    BY DEF FallSilent
<1>2. TableInv(Table, Counts, conf.vassals)
    BY InvFacts
<1>3. /\ Table \in TableRecord /\ Counts \in [Node -> Nat] /\ Counted(Table, Counts, conf.vassals)
      /\ Table.slot = slot /\ Table.node = node /\ Table.cheap = i_am_cheap
    BY <1>2 DEF TableInv, Table
<1>4. node \in [Node -> NodeRecord] /\ node[n] \in NodeRecord
    BY <1>3, TableFacts
<1>5. PICK x : x = [node[n] EXCEPT !.silent = TRUE]
    OBVIOUS
<1>6. x \in NodeRecord /\ x.ref = node[n].ref /\ x.used = node[n].used /\ x.addr = node[n].addr
    BY <1>4, <1>5 DEF NodeRecord
<1>7. node' = [node EXCEPT ![n] = x]
    BY <1>1, <1>4, <1>5
<1>8. SetTable(WithNode(Table, n, x))
    BY <1>1, <1>3, <1>7 DEF SetTable, WithNode
<1>9. /\ x.ref >= Counts[n] /\ (~x.used => x.ref = 0)
      /\ ~conf.vassals => x.ref = Counts[n] /\ (x.used => x.addr # None)
    BY <1>3, <1>6 DEF Counted
<1>10. TableInv(WithNode(Table, n, x), Counts, conf.vassals)
    BY <1>2, <1>3, <1>6, <1>9, OneNode
<1> QED
    BY <1>1, <1>8, <1>10, TableStep

-----------------------------------------------------------------------------
(* The theorems                                                              *)

LEMMA InitRouterInv ==
    ASSUME Init
    PROVE  RouterInv
<1>1. /\ node = [n \in Node |-> FreeNode] /\ slot = [k \in Key |-> << >>]
      /\ sess = [s \in Session |-> NoSession]
      /\ conf \in [algo : Algos, cheap : BOOLEAN, vassals : BOOLEAN] /\ i_am_cheap = conf.cheap
    BY DEF Init
<1>2. SessionFits(NoSession) /\ NoSession \in SessionRecord /\ NoSession.un = 0
    BY NoSessionFits DEF SessionFits
<1>3. sess \in [Session -> SessionRecord] /\ \A s \in Session : SessionFits(sess[s])
    BY <1>1, <1>2
<1>4. PICK t : t = Table
    OBVIOUS
<1>5. t.node = node /\ t.slot = slot /\ t.cheap = i_am_cheap /\ i_am_cheap \in BOOLEAN
      /\ t = [node |-> node, slot |-> slot, cheap |-> i_am_cheap]
    BY <1>1, <1>4 DEF Table
<1>6. node \in [Node -> NodeRecord] /\ slot \in [Key -> Seq(Node)]
    BY <1>1, FreeNodeRecord
<1>7. t \in TableRecord
    BY <1>5, <1>6 DEF TableRecord
<1>8. \A n \in Node : t.node[n].used = FALSE /\ t.node[n].ref = 0
    BY <1>1, <1>5 DEF FreeNode
<1>9. \A k \in Key : t.slot[k] = << >> /\ DOMAIN t.slot[k] = {}
    BY <1>1, <1>5
<1>10. Listed(t)
    BY <1>8, <1>9 DEF Listed
<1>11. \A n \in Node : Counts[n] = 0
  <2>1. ASSUME NEW n \in Node
        PROVE  Counts[n] = 0
    <3>1. Users(n) = {}
        BY <1>1, <1>2, PoolAssumption DEF Users
    <3> QED
        BY <3>1, CountsFacts, FS_EmptySet
  <2> QED
    BY <2>1
<1>12. Counted(t, Counts, conf.vassals)
    BY <1>8, <1>11 DEF Counted
<1>13. NoSubscriptions(t)
    BY <1>9 DEF NoSubscriptions
<1>14. TableInv(t, Counts, conf.vassals)
    BY <1>7, <1>10, <1>12, <1>13, CountsFacts DEF TableInv
<1> QED
    BY <1>1, <1>3, <1>4, <1>14 DEF RouterInv

LEMMA NextRouterInv ==
    ASSUME RouterInv, [Next]_vars
    PROVE  RouterInv'
<1>1. ASSUME NEW s \in Session, SessionStep(s)
      PROVE  RouterInv'
    BY <1>1, StepAccept, StepRequest, StepConnected, StepBackendError, StepBackendCloses,
       StepClientCloses, StepPeerTimeout DEF SessionStep
<1>2. CASE UNCHANGED vars
  <2>1. SetTable(Table) /\ sess' = sess /\ conf' = conf
    BY <1>2 DEF vars, SetTable, Table
  <2> QED
    BY <2>1, InvFacts, TableStep
<1> QED
    BY <1>1, <1>2, StepSubscribe, StepUnsubscribe, StepFallSilent DEF Next

\* The table, the counts and the sessions agree in every state: uwsgi_get_subscribe_node,
\* corerouter_close_peer, corerouter_expire_timeouts and the subscription handler keep
\* the lists, the reference counts and the peers together.
THEOREM RouterInvariant == Spec => []RouterInv
<1>1. Init => RouterInv
    BY InitRouterInv
<1>2. RouterInv /\ [Next]_vars => RouterInv'
    BY NextRouterInv
<1> QED
    BY <1>1, <1>2, PTL DEF Spec

LEMMA InvImpliesCounted ==
    ASSUME RouterInv
    PROVE  ReferencesCounted
<1>1. TableInv(Table, Counts, conf.vassals)
    BY InvFacts
<1>2. /\ Table \in TableRecord /\ Listed(Table) /\ Counted(Table, Counts, conf.vassals)
      /\ (i_am_cheap => NoSubscriptions(Table)) /\ Table.node = node /\ Table.slot = slot
      /\ Table.cheap = i_am_cheap
    BY <1>1 DEF TableInv, Table
<1>3. /\ \A n \in Node : node[n] \in NodeRecord
      /\ \A k \in Key : slot[k] \in Seq(Node)
      /\ i_am_cheap \in BOOLEAN
    BY <1>2, TableFacts
<1>4. TypeOK
  <2>1. \A n \in Node : /\ node[n].used \in BOOLEAN /\ node[n].addr \in Addr \cup {None}
                        /\ node[n].vassal \in Vassal \cup {None}
                        /\ node[n].ref \in Nat /\ node[n].wrr \in Nat
    BY <1>3, NodeFields
  <2>2. \A k, l \in Key : \A i \in DOMAIN slot[k], j \in DOMAIN slot[l] :
          /\ node[slot[k][i]].used
          /\ slot[k][i] = slot[l][j] => k = l /\ i = j
    BY <1>2 DEF Listed
  <2>3. \A s \in Session : sess[s].st \in Stage /\ sess[s].un \in Node \cup {0}
                           /\ sess[s].retries \in 0 .. MaxRetries
    BY InvFacts DEF SessionRecord
  <2> QED
    BY <1>3, <2>1, <2>2, <2>3 DEF TypeOK
<1>5. \A s \in Session : sess[s].un # 0 => node[sess[s].un].used
  <2>1. ASSUME NEW s \in Session, sess[s].un # 0
        PROVE  node[sess[s].un].used
    <3>1. PICK n \in Node : n = sess[s].un /\ Counts[n] >= 1
        BY <2>1, InvFacts
    <3> QED
        BY <1>1, <1>2, <3>1, CountedIsUsed
  <2> QED
    BY <2>1
<1>6. \A n \in Node : node[n].ref >= Cardinality(Users(n))
    BY <1>2, CountsFacts DEF Counted
<1>7. ~conf.vassals => \A n \in Node : node[n].ref = Cardinality(Users(n))
    BY <1>2, CountsFacts DEF Counted
<1> QED
    BY <1>2, <1>4, <1>5, <1>6, <1>7 DEF ReferencesCounted

\* ReferencesCounted holds for every number of keys, nodes and sessions, each algorithm and
\* any weights and levels: no peer is left with a freed node, the count covers its users and
\* is exact without vassals, and a router is cheap only without nodes.
THEOREM ReferencesCountedAlways == Spec => []ReferencesCounted
<1>1. RouterInv => ReferencesCounted
    BY InvImpliesCounted
<1> QED
    BY <1>1, RouterInvariant, PTL

-----------------------------------------------------------------------------
(* Requests that are turned away                                             *)

\* The list of u is that of t after the walk: the live nodes are still there, the others
\* were there before, with the same address, and of the nodes seen the dead ones have users.
IsSwept(u, t, k, seen) ==
    /\ \A i \in DOMAIN t.slot[k] : ~t.node[t.slot[k][i]].dead /\ ~t.node[t.slot[k][i]].silent =>
          \E j \in DOMAIN u.slot[k] : u.slot[k][j] = t.slot[k][i]
    /\ \A j \in DOMAIN u.slot[k] : \E i \in DOMAIN t.slot[k] : t.slot[k][i] = u.slot[k][j]
    /\ \A j \in DOMAIN u.slot[k] :
          /\ u.node[u.slot[k][j]].addr = t.node[u.slot[k][j]].addr
          /\ u.node[u.slot[k][j]].vassal = t.node[u.slot[k][j]].vassal
          /\ u.slot[k][j] \in seen /\ u.node[u.slot[k][j]].ref = 0 => ~u.node[u.slot[k][j]].dead

LEMMA SweptList ==
    ASSUME NEW t \in TableRecord, NEW k \in Key, NEW seen
    PROVE  IsSwept(Swept(t, k, seen), t, k, seen)
<1> DEFINE gone == {n \in seen : Spent(t.node[n])}
<1>1. PICK t1 : t1 = RemoveNodes(t, k, gone)
    OBVIOUS
<1>2. /\ t1.node = [n \in Node |-> IF n \in gone THEN FreeNode ELSE t.node[n]]
      /\ t1.slot = [t.slot EXCEPT ![k] = Dropped(t.slot[k], gone)]
    BY <1>1 DEF RemoveNodes
<1>3. t1 \in TableRecord
    BY <1>1, RemoveFields
<1>4. PICK ns : ns = [n \in Node |->
            IF n \in seen /\ t1.node[n].silent THEN [t1.node[n] EXCEPT !.dead = TRUE] ELSE t1.node[n]]
    OBVIOUS
<1>5. PICK u : u = [t1 EXCEPT !.node = ns]
    OBVIOUS
<1>6. Swept(t, k, seen) = u
    BY <1>1, <1>4, <1>5 DEF Swept
<1>7. u.node = ns /\ u.slot = t1.slot
    BY <1>3, <1>5 DEF TableRecord
<1>8. /\ t.slot[k] \in Seq(Node) /\ t.slot \in [Key -> Seq(Node)]
      /\ \A i \in DOMAIN t.slot[k] : t.slot[k][i] \in Node
      /\ \A n \in Node : t.node[n] \in NodeRecord
    BY TableFacts
<1>9. IsRest(u.slot[k], t.slot[k], gone, Node)
  <2>1. u.slot[k] = Dropped(t.slot[k], gone)
    BY <1>2, <1>7, <1>8
  <2> QED
    BY <1>8, <2>1, DroppedList
<1>10. \A n \in Node : n \in gone <=> n \in seen /\ Spent(t.node[n])
    OBVIOUS
<1> HIDE DEF gone
<1>11. ASSUME NEW i \in DOMAIN t.slot[k], ~t.node[t.slot[k][i]].dead, ~t.node[t.slot[k][i]].silent
       PROVE  \E j \in DOMAIN u.slot[k] : u.slot[k][j] = t.slot[k][i]
  <2>1. t.slot[k][i] \notin gone
    BY <1>8, <1>10, <1>11 DEF Spent
  <2> QED
    BY <1>9, <2>1 DEF IsRest
<1>12. ASSUME NEW j \in DOMAIN u.slot[k]
       PROVE  \E i \in DOMAIN t.slot[k] : u.slot[k][j] = t.slot[k][i] /\ t.slot[k][i] \notin gone
    BY <1>9 DEF IsRest
<1>13. ASSUME NEW n \in Node, n \notin gone
       PROVE  /\ u.node[n].addr = t.node[n].addr /\ u.node[n].vassal = t.node[n].vassal
              /\ n \in seen /\ u.node[n].ref = 0 => ~u.node[n].dead
  <2>1. t1.node[n] = t.node[n] /\ t.node[n] \in NodeRecord
    BY <1>2, <1>8, <1>13
  <2>2. u.node[n] = IF n \in seen /\ t.node[n].silent THEN [t.node[n] EXCEPT !.dead = TRUE] ELSE t.node[n]
    BY <1>4, <1>7, <2>1
  <2>3. n \in seen /\ t.node[n].ref = 0 => ~t.node[n].dead /\ ~t.node[n].silent
    BY <1>10, <1>13 DEF Spent
  <2>4. CASE n \in seen /\ t.node[n].silent
    <3>1. PICK x : x = [t.node[n] EXCEPT !.dead = TRUE]
        OBVIOUS
    <3>2. x.addr = t.node[n].addr /\ x.vassal = t.node[n].vassal /\ x.ref = t.node[n].ref
        BY <2>1, <3>1 DEF NodeRecord
    <3> QED
        BY <2>2, <2>3, <2>4, <3>1, <3>2
  <2>5. CASE ~(n \in seen /\ t.node[n].silent)
    BY <2>2, <2>3, <2>5
  <2> QED
    BY <2>4, <2>5
<1>14. \A j \in DOMAIN u.slot[k] : u.slot[k][j] \in Node /\ u.slot[k][j] \notin gone
    BY <1>8, <1>12
<1> QED
    BY <1>6, <1>11, <1>12, <1>13, <1>14 DEF IsSwept

\* Taking a node, and its turn, leaves its address and its vassal.
LEMMA TakenSame ==
    ASSUME NEW t \in TableRecord, NEW algo, NEW n \in Node
    PROVE  /\ TurnTaken(Taken(t, n), algo, n).node[n].addr = t.node[n].addr
           /\ TurnTaken(Taken(t, n), algo, n).node[n].vassal = t.node[n].vassal
<1>1. t.node \in [Node -> NodeRecord] /\ t.node[n] \in NodeRecord /\ n # 0
    BY TableFacts, PoolAssumption
<1>2. PICK x : x = [t.node[n] EXCEPT !.ref = @ + 1]
    OBVIOUS
<1>3. x.addr = t.node[n].addr /\ x.vassal = t.node[n].vassal
    BY <1>1, <1>2 DEF NodeRecord
<1>4. PICK u : u = Taken(t, n)
    OBVIOUS
<1>5. u.node = [t.node EXCEPT ![n] = x]
    BY <1>1, <1>2, <1>4 DEF Taken, WithNode
<1>6. u.node[n] = x /\ DOMAIN u.node = Node
    BY <1>1, <1>5
<1>7. PICK y : y = [x EXCEPT !.wrr = @ - 1]
    OBVIOUS
<1>8. y.addr = x.addr /\ y.vassal = x.vassal
    BY <1>1, <1>2, <1>7 DEF NodeRecord
<1>9. TurnTaken(u, algo, n) = u \/ TurnTaken(u, algo, n).node = [u.node EXCEPT ![n] = y]
    BY <1>6, <1>7 DEF TurnTaken, WithNode
<1>10. TurnTaken(u, algo, n).node[n] \in {x, y}
    BY <1>6, <1>9
<1> QED
    BY <1>3, <1>4, <1>8, <1>10

\* A lookup finds a node of the list, as it was there before, unless all are dead or silent.
LEMMA LookupFinds ==
    ASSUME NEW t, NEW c, NEW vassals, TableInv(t, c, vassals), NEW k \in Key, NEW algo \in Algos,
           NEW r \in GetNode(t, k, algo)
    PROVE  \/ /\ r.un = 0
              /\ \A i \in DOMAIN t.slot[k] : t.node[t.slot[k][i]].dead \/ t.node[t.slot[k][i]].silent
           \/ /\ r.un # 0
              /\ \E i \in DOMAIN t.slot[k] : t.slot[k][i] = r.un
              /\ r.table.node[r.un].addr = t.node[r.un].addr
              /\ r.table.node[r.un].vassal = t.node[r.un].vassal
<1> DEFINE q == t.slot[k]
<1> DEFINE turn == FirstTurn(algo, t.node, q)
<1> DEFINE seen == Walked(algo, t.node, q)
<1>1. t \in TableRecord
    BY DEF TableInv
<1>2. /\ q \in Seq(Node) /\ t.node \in [Node -> NodeRecord] /\ Len(q) \in Nat /\ DOMAIN q = 1 .. Len(q)
      /\ \A i \in DOMAIN q : q[i] \in Node
    BY <1>1, TableFacts, LenProperties
<1>3. turn \in SUBSET DOMAIN q
    BY DEF FirstTurn
<1>4. turn # {} => First(turn) \in turn
    BY <1>2, <1>3, FirstIsLeast
<1>5. \A n \in seen : \E i \in DOMAIN q : q[i] = n
    BY <1>1, WalkedListed
<1>6. PICK swept : swept = Swept(t, k, seen)
    OBVIOUS
<1>7. /\ TableInv(swept, c, vassals)
      /\ \A n \in Node : ~t.node[n].dead /\ ~t.node[n].silent => swept.node[n] = t.node[n]
    BY <1>5, <1>6, SweptKeeps
<1>8. IsSwept(swept, t, k, seen)
    BY <1>1, <1>6, SweptList
<1>9. swept \in TableRecord
    BY <1>7 DEF TableInv
<1>10. swept.node \in [Node -> NodeRecord] /\ swept.slot[k] \in Seq(Node)
      /\ \A i \in DOMAIN swept.slot[k] : swept.slot[k][i] \in Node /\ swept.slot[k][i] # 0
    BY <1>9, TableFacts, PoolAssumption
<1>11. PICK reset : reset = IF algo = "wrr" THEN [swept EXCEPT !.node = WrrReset(@, swept.slot[k])]
                            ELSE swept
    OBVIOUS
<1>12. GetNode(t, k, algo) =
         IF turn # {}
         THEN {[table |-> TurnTaken(Taken(swept, q[First(turn)]), algo, q[First(turn)]),
                un |-> q[First(turn)]]}
         ELSE {[table |-> TurnTaken(Taken(reset, n), algo, n), un |-> n] :
                 n \in SecondStep(algo, swept.node, swept.slot[k])}
    BY <1>6, <1>11, Zenon DEF GetNode
<1>13. CASE turn # {}
  <2>1. PICK n \in Node : n = q[First(turn)] /\ ~t.node[n].dead /\ ~t.node[n].silent
    BY <1>2, <1>3, <1>4, <1>13 DEF FirstTurn
  <2>2. r.table = TurnTaken(Taken(swept, n), algo, n) /\ r.un = n
    BY <1>12, <1>13, <2>1
  <2>3. r.table.node[n].addr = t.node[n].addr /\ r.table.node[n].vassal = t.node[n].vassal
    BY <1>7, <1>9, <2>1, <2>2, TakenSame
  <2>4. n # 0 /\ \E i \in DOMAIN q : q[i] = n
    BY <1>3, <1>4, <1>13, <2>1, PoolAssumption
  <2> QED
    BY <2>2, <2>3, <2>4
<1>14. CASE turn = {}
  <2>1. PICK n \in SecondStep(algo, swept.node, swept.slot[k]) :
            r.table = TurnTaken(Taken(reset, n), algo, n) /\ r.un = n
    BY <1>12, <1>14
  <2>2. \/ n = 0 /\ Live(swept.node, swept.slot[k]) = {}
        \/ \E i \in Live(swept.node, swept.slot[k]) : n = swept.slot[k][i]
    BY <1>10, SecondStepIsLive
  <2>3. CASE n = 0 /\ Live(swept.node, swept.slot[k]) = {}
    <3>1. ASSUME NEW i \in DOMAIN q, ~t.node[q[i]].dead, ~t.node[q[i]].silent
          PROVE  FALSE
      <4>1. PICK j \in DOMAIN swept.slot[k] : swept.slot[k][j] = q[i]
        BY <1>8, <3>1 DEF IsSwept
      <4>2. swept.node[q[i]] = t.node[q[i]]
        BY <1>2, <1>7, <3>1
      <4>3. j \in Live(swept.node, swept.slot[k])
        BY <3>1, <4>1, <4>2 DEF Live
      <4> QED
        BY <2>3, <4>3
    <3> QED
        BY <2>1, <2>3, <3>1
  <2>4. CASE \E i \in Live(swept.node, swept.slot[k]) : n = swept.slot[k][i]
    <3>1. PICK i \in DOMAIN swept.slot[k] : n = swept.slot[k][i]
        BY <2>4 DEF Live
    <3>2. n \in Node /\ n # 0
        BY <1>10, <3>1
    <3>3. /\ \E j \in DOMAIN q : q[j] = n
          /\ swept.node[n].addr = t.node[n].addr /\ swept.node[n].vassal = t.node[n].vassal
        BY <1>8, <3>1 DEF IsSwept
    <3>4. reset \in TableRecord /\ reset.node[n].addr = swept.node[n].addr
          /\ reset.node[n].vassal = swept.node[n].vassal
      <4>1. CASE algo = "wrr"
        <5>1. TableInv(reset, c, vassals) /\ reset.node = WrrReset(swept.node, swept.slot[k])
            BY <1>7, <1>11, <4>1, ResetKeeps
        <5>2. reset \in TableRecord
            BY <5>1 DEF TableInv
        <5> QED
            BY <1>10, <3>2, <5>1, <5>2, WrrResetTurns
      <4>2. CASE algo # "wrr"
        BY <1>9, <1>11, <4>2
      <4> QED
        BY <4>1, <4>2
    <3>5. r.table.node[n].addr = t.node[n].addr /\ r.table.node[n].vassal = t.node[n].vassal
        BY <2>1, <3>2, <3>3, <3>4, TakenSame
    <3> QED
        BY <2>1, <3>2, <3>3, <3>5
  <2> QED
    BY <2>2, <2>3, <2>4
<1> QED
    BY <1>13, <1>14

\* The same for the mapper, which adds only that the router may go cheap.
LEMMA MapperFinds ==
    ASSUME RouterInv, NEW k \in Key, NEW r \in Mapped(Table, k)
    PROVE  \/ /\ r.un = 0
              /\ \A i \in DOMAIN slot[k] : node[slot[k][i]].dead \/ node[slot[k][i]].silent
           \/ /\ r.un # 0
              /\ \E i \in DOMAIN slot[k] : slot[k][i] = r.un
              /\ r.table.node[r.un].addr = node[r.un].addr
              /\ r.table.node[r.un].vassal = node[r.un].vassal
<1>1. PICK g \in GetNode(Table, k, conf.algo) : r = g \/ r = [g EXCEPT !.table = GoneCheap(@)]
    BY DEF Mapped
<1>2. conf.algo \in Algos /\ TableInv(Table, Counts, conf.vassals)
    BY InvFacts
<1>3. /\ g = [table |-> g.table, un |-> g.un]
      /\ TableInv(g.table, More(Counts, g.un), conf.vassals)
    BY <1>2, GetNodeCounts
<1>4. r.un = g.un /\ r.table.node = g.table.node
  <2>1. CASE r = g
    BY <2>1
  <2>2. CASE r = [g EXCEPT !.table = GoneCheap(@)]
    <3>1. PICK T, n : g = [table |-> T, un |-> n]
        BY <1>3
    <3>2. r.un = g.un /\ r.table = GoneCheap(g.table)
        BY <2>2, <3>1
    <3> QED
        BY <1>3, <3>2, GoneCheapKeeps
  <2> QED
    BY <1>1, <2>1, <2>2
<1>5. Table.node = node /\ Table.slot = slot
    BY DEF Table
<1>6. \/ /\ g.un = 0
         /\ \A i \in DOMAIN Table.slot[k] :
               Table.node[Table.slot[k][i]].dead \/ Table.node[Table.slot[k][i]].silent
      \/ /\ g.un # 0
         /\ \E i \in DOMAIN Table.slot[k] : Table.slot[k][i] = g.un
         /\ g.table.node[g.un].addr = Table.node[g.un].addr
         /\ g.table.node[g.un].vassal = Table.node[g.un].vassal
    BY <1>2, LookupFinds
<1> QED
    BY <1>4, <1>5, <1>6

\* A request that misses found no node, or one without address and vassal.
LEMMA MissedStep ==
    ASSUME RouterInv, NEW s \in Session, NEW k \in Key,
           sess[s].st = "reading", sess'[s].missed, Request(s, k)
    PROVE  \/ \A i \in DOMAIN slot[k] : node[slot[k][i]].dead \/ node[slot[k][i]].silent
           \/ \E i \in DOMAIN slot[k] :
                 node[slot[k][i]].addr = None /\ node[slot[k][i]].vassal = None
<1>1. sess[s] \in SessionRecord /\ ~sess[s].missed /\ DOMAIN sess = Session
    BY InvFacts DEF SessionFits
<1>2. PICK r \in Mapped(Table, k) :
        LET p == [sess[s] EXCEPT !.key = k, !.un = r.un]
        IN  \/ /\ HasAddress(r.table, r.un)
               /\ SetTable(r.table)
               /\ sess' = [sess EXCEPT ![s] = [p EXCEPT !.st = "connecting", !.canRetry = TRUE]]
            \/ /\ HasAddress(r.table, r.un)
               /\ SetTable(Released(r.table, r.un))
               /\ sess' = [sess EXCEPT ![s] = NoSession]
            \/ /\ ~HasAddress(r.table, r.un) /\ HasVassal(r.table, r.un)
               /\ SetTable(r.table)
               /\ sess' = [sess EXCEPT ![s] = [p EXCEPT !.st = "deferred"]]
            \/ /\ ~HasAddress(r.table, r.un) /\ ~HasVassal(r.table, r.un)
               /\ SetTable(r.table)
               /\ sess' = [sess EXCEPT ![s] = [NoSession EXCEPT !.missed = TRUE]]
    BY DEF Request
<1>3. PICK n : n = r.un
    OBVIOUS
<1>4. PICK p : p = [sess[s] EXCEPT !.key = k, !.un = n]
    OBVIOUS
<1>5. ~p.missed /\ ~[p EXCEPT !.st = "connecting", !.canRetry = TRUE].missed
      /\ ~[p EXCEPT !.st = "deferred"].missed
    BY <1>1, <1>4 DEF SessionRecord
<1>6. \/ sess' = [sess EXCEPT ![s] = [p EXCEPT !.st = "connecting", !.canRetry = TRUE]]
      \/ sess' = [sess EXCEPT ![s] = NoSession]
      \/ sess' = [sess EXCEPT ![s] = [p EXCEPT !.st = "deferred"]]
      \/ ~HasAddress(r.table, n) /\ ~HasVassal(r.table, n)
    BY <1>2, <1>3, <1>4, Zenon
<1>7. NoSession.missed = FALSE
    BY DEF NoSession
<1>8. ~HasAddress(r.table, n) /\ ~HasVassal(r.table, n)
  <2>1. \A x : sess' = [sess EXCEPT ![s] = x] => sess'[s] = x
    BY <1>1
  <2> QED
    BY <1>5, <1>6, <1>7, <2>1, Zenon
<1>9. CASE n = 0
    BY <1>3, <1>9, MapperFinds
<1>10. CASE n # 0
  <2>1. PICK i \in DOMAIN slot[k] : slot[k][i] = n
    BY <1>3, <1>10, MapperFinds
  <2>2. r.table.node[n].addr = node[n].addr /\ r.table.node[n].vassal = node[n].vassal
    BY <1>3, <1>10, MapperFinds
  <2>3. r.table.node[n].addr = None /\ r.table.node[n].vassal = None
    BY <1>8, <1>10 DEF HasAddress, HasVassal
  <2> QED
    BY <2>1, <2>2, <2>3
<1> QED
    BY <1>9, <1>10

\* TurnedAway holds for every table: uwsgi_get_subscribe_node with any of the algorithms
\* finds a node unless each is dead or silent, so that a request is turned away only then
\* or when the node that it found was left with neither address nor vassal.
THEOREM TurnedAwayAlways == Spec => TurnedAway
<1>1. RouterInv =>
        [\A s \in Session : \A k \in Key :
          (sess[s].st = "reading" /\ sess'[s].missed /\ Request(s, k)) =>
             \/ \A i \in DOMAIN slot[k] : node[slot[k][i]].dead \/ node[slot[k][i]].silent
             \/ \E i \in DOMAIN slot[k] :
                   node[slot[k][i]].addr = None /\ node[slot[k][i]].vassal = None]_vars
    BY MissedStep
<1> QED
    BY <1>1, RouterInvariant, PTL DEF TurnedAway

-----------------------------------------------------------------------------
(* lrc without backup levels                                                 *)

\* Of a list whose nodes are all of the first level, the ones without users all live, lrc
\* chooses a live node with the fewest references: the last unused node always stops the
\* loop, so that none is forgotten.
LEMMA LrcIsLeast ==
    ASSUME NEW ns \in [Node -> NodeRecord], NEW q \in Seq(Node),
           \A i \in DOMAIN q : ns[q[i]].level = 0 /\ (ns[q[i]].ref = 0 => ~ns[q[i]].dead),
           NEW i \in Live(ns, q)
    PROVE  ns[AlgoLeast(ns, q, FALSE)].ref <= ns[q[i]].ref
<1> DEFINE chosen == Least(ns, q, 0, FALSE)
<1> DEFINE stops == Stops(ns, q, 0, FALSE)
<1> DEFINE unused == Unused(ns, q, 0)
<1> DEFINE after == {j \in Candidates(ns, q, 0) : \A h \in unused : h < j}
<1>1. /\ Len(q) \in Nat /\ DOMAIN q = 1 .. Len(q)
      /\ \A j \in DOMAIN q : q[j] \in Node /\ ns[q[j]].ref \in Nat
    BY LenProperties, ElementOfSeq, NodeFields
<1>2. Candidates(ns, q, 0) = Live(ns, q) /\ Live(ns, q) \in SUBSET DOMAIN q
    BY DEF Candidates, Live
<1>3. NextLevel(ns, q, 0) = 0
    BY <1>2, NextLevelIsLive
<1>4. AlgoLeast(ns, q, FALSE) = chosen
    BY <1>3 DEF AlgoLeast
<1>5. \A j \in DOMAIN q : j \in unused <=> ns[q[j]].ref = 0
    BY <1>2 DEF Unused, Candidates, Live
<1>6. unused \in SUBSET DOMAIN q /\ stops \in SUBSET unused
    BY <1>2 DEF Unused, Stops
<1>7. chosen = IF stops # {} THEN q[First(stops)]
               ELSE IF after # {} THEN q[First(Smallest(ns, q, after, FALSE))]
               ELSE IF unused # {} THEN q[Last(unused)]
               ELSE 0
    BY DEF Least, Smallest
<1>8. \A j, h \in DOMAIN q : Less(Share(ns, q[j], FALSE), Share(ns, q[h], FALSE))
                             <=> ns[q[j]].ref < ns[q[h]].ref
    BY <1>1 DEF Less, Share
<1>0. after = IF unused = {} THEN Live(ns, q) ELSE after
  <2>1. unused = {} => after = Candidates(ns, q, 0)
    OBVIOUS
  <2> QED
    BY <1>2, <2>1
<1>9. /\ Smallest(ns, q, after, FALSE) \in SUBSET after
       /\ \A f \in Smallest(ns, q, after, FALSE), j \in after :
             ~Less(Share(ns, q[j], FALSE), Share(ns, q[f], FALSE))
  BY DEF Smallest
<1>10. \A m \in unused : m \in stops \/ NextMayBeBetter(ns, q, m, FALSE)
  BY DEF Stops
<1> HIDE DEF after, stops, unused, chosen
<1>11. CASE stops # {}
  <2>1. First(stops) \in stops
    <3>1. \A j \in DOMAIN q : j \in Nat
        BY <1>1
    <3>2. stops \in SUBSET Nat
        BY <1>6, <3>1
    <3> QED
        BY <1>11, <3>2, FirstIsLeast
  <2>2. ns[chosen].ref = 0
    BY <1>5, <1>6, <1>7, <1>11, <2>1
  <2>3. PICK r : r = ns[q[i]].ref /\ r \in Nat
    BY <1>1, <1>2
  <2>4. 0 <= r
    BY <2>3
  <2> QED
    BY <1>4, <2>2, <2>3, <2>4
<1>12. CASE stops = {}
  <2>1. unused = {}
    <3>1. SUFFICES ASSUME unused # {}
                   PROVE  FALSE
        OBVIOUS
    <3>2. PICK m \in unused : \A j \in unused : j <= m
        BY <1>1, <1>6, <3>1, LastIsLargest
    <3>3. m \in DOMAIN q /\ ns[q[m]].ref = 0
        BY <1>5, <1>6, <3>2
    <3>4. NextMayBeBetter(ns, q, m, FALSE)
        BY <1>10, <1>12, <3>2
    <3>5. m < Len(q) /\ ~Less(Share(ns, q[m], FALSE), Share(ns, q[m + 1], FALSE))
        BY <3>4 DEF NextMayBeBetter
    <3>6. m + 1 \in DOMAIN q
        BY <1>1, <3>3, <3>5
    <3>7. ns[q[m + 1]].ref = 0
      <4>1. ~(ns[q[m]].ref < ns[q[m + 1]].ref)
        BY <1>8, <3>3, <3>5, <3>6
      <4>2. PICK x : x = ns[q[m + 1]].ref /\ x \in Nat
        BY <1>1, <3>6
      <4>3. ~(0 < x)
        BY <3>3, <4>1, <4>2
      <4> QED
        BY <4>2, <4>3
    <3>8. m + 1 \in unused
        BY <1>5, <3>6, <3>7
    <3>9. m + 1 <= m /\ m \in Nat
        BY <1>1, <3>2, <3>3, <3>8
    <3> QED
        BY <3>9
  <2>2. after = Live(ns, q) /\ after # {}
    BY <1>0, <2>1
  <2>3. Smallest(ns, q, after, FALSE) # {}
    BY <1>2, <2>2, SmallestExists
  <2>5. First(Smallest(ns, q, after, FALSE)) \in Smallest(ns, q, after, FALSE)
    <3>1. \A j \in DOMAIN q : j \in Nat
        BY <1>1
    <3>2. Smallest(ns, q, after, FALSE) \in SUBSET Nat
        BY <1>9, <1>2, <2>2, <3>1
    <3> QED
        BY <2>3, <3>2, FirstIsLeast
  <2>6. PICK f \in after : chosen = q[f] /\ ~Less(Share(ns, q[i], FALSE), Share(ns, q[f], FALSE))
    BY <1>7, <1>9, <1>12, <2>2, <2>5
  <2>7. f \in DOMAIN q /\ i \in DOMAIN q
    BY <1>2, <2>2, <2>6
  <2>8. ~(ns[q[i]].ref < ns[q[f]].ref) /\ ns[q[i]].ref \in Nat /\ ns[q[f]].ref \in Nat
    BY <1>1, <1>8, <2>6, <2>7
  <2>9. PICK x, y : x = ns[q[f]].ref /\ y = ns[q[i]].ref
    OBVIOUS
  <2>10. x <= y
    BY <2>8, <2>9
  <2> QED
    BY <1>4, <2>6, <2>9, <2>10
<1> QED
    BY <1>11, <1>12

\* So the node that a lookup finds has, before its new reference, no more references than
\* any other live node of the list that the lookup leaves.
LEMMA LookupBalances ==
    ASSUME \A a \in Addr : Level[a] = 0,
           NEW t, NEW c, NEW vassals, TableInv(t, c, vassals), NEW k \in Key,
           NEW r \in GetNode(t, k, "lrc"), r.un # 0
    PROVE  \A i \in Live(r.table.node, r.table.slot[k]) :
              r.table.slot[k][i] # r.un =>
                r.table.node[r.un].ref - 1 <= r.table.node[r.table.slot[k][i]].ref
<1> DEFINE q == t.slot[k]
<1> DEFINE seen == Walked("lrc", t.node, q)
<1>1. t \in TableRecord
    BY DEF TableInv
<1>2. FirstTurn("lrc", t.node, q) = {}
    BY DEF FirstTurn
<1>3. seen = {q[i] : i \in DOMAIN q}
    BY <1>2 DEF Walked
<1>4. PICK swept : swept = Swept(t, k, seen)
    OBVIOUS
<1>5. TableInv(swept, c, vassals) /\ IsSwept(swept, t, k, seen)
  <2>1. \A n \in seen : \E i \in DOMAIN q : q[i] = n
    BY <1>3
  <2> QED
    BY <1>1, <1>4, <2>1, SweptKeeps, SweptList
<1>6. PICK ns, p : ns = swept.node /\ p = swept.slot[k]
    OBVIOUS
<1>7. /\ ns \in [Node -> NodeRecord] /\ p \in Seq(Node)
      /\ \A i \in DOMAIN p : p[i] \in Node /\ ns[p[i]] \in NodeRecord
  <2>1. swept \in TableRecord
    BY <1>5 DEF TableInv
  <2> QED
    BY <1>6, <2>1, TableFacts
<1>8. \A i \in DOMAIN p : ns[p[i]].level = 0 /\ (ns[p[i]].ref = 0 => ~ns[p[i]].dead)
  <2>1. \A x \in NodeRecord : x.level = 0
    BY DEF NodeRecord, Levels
  <2>2. \A i \in DOMAIN p : p[i] \in seen
    BY <1>3, <1>5, <1>6 DEF IsSwept
  <2>3. \A i \in DOMAIN p : ns[p[i]].ref = 0 => ~ns[p[i]].dead
    BY <1>5, <1>6, <2>2 DEF IsSwept
  <2> QED
    BY <1>7, <2>1, <2>3
<1>9. /\ r.un = AlgoLeast(ns, p, FALSE)
      /\ r.table = Taken(swept, r.un)
  <2>1. SecondStep("lrc", ns, p) = {AlgoLeast(ns, p, FALSE)}
    BY DEF SecondStep
  <2>2. GetNode(t, k, "lrc") = {[table |-> TurnTaken(Taken(swept, n), "lrc", n), un |-> n] :
                                  n \in SecondStep("lrc", ns, p)}
    BY <1>2, <1>4, <1>6 DEF GetNode
  <2>3. PICK n \in SecondStep("lrc", ns, p) :
            r.table = TurnTaken(Taken(swept, n), "lrc", n) /\ r.un = n
    BY <2>2
  <2>4. r.table = Taken(swept, n)
    BY <2>3 DEF TurnTaken
  <2> QED
    BY <2>1, <2>3, <2>4
<1>10. PICK n : n = r.un
    OBVIOUS
<1>11. n \in Node /\ n # 0
    BY <1>7, <1>9, <1>10, AlgoLeastIsLive DEF Live
<1>12. PICK u, x : u = r.table /\ x = [ns[n] EXCEPT !.ref = @ + 1]
    OBVIOUS
<1>13. u.node = [ns EXCEPT ![n] = x] /\ u.slot = swept.slot
    BY <1>6, <1>9, <1>10, <1>11, <1>12 DEF Taken, WithNode
<1>14. x.ref = ns[n].ref + 1 /\ ns[n].ref \in Nat
    BY <1>7, <1>11, <1>12 DEF NodeRecord
<1>15. u.slot[k] = p /\ u.node[n] = x /\ \A m \in Node : m # n => u.node[m] = ns[m]
    BY <1>6, <1>7, <1>11, <1>13
<1>16. ASSUME NEW i \in Live(u.node, p), p[i] # n
       PROVE  u.node[n].ref - 1 <= u.node[p[i]].ref
  <2>1. i \in DOMAIN p /\ u.node[p[i]] = ns[p[i]]
    BY <1>7, <1>15, <1>16 DEF Live
  <2>2. i \in Live(ns, p)
    BY <1>16, <2>1 DEF Live
  <2>3. ns[n].ref <= ns[p[i]].ref
    BY <1>7, <1>8, <1>9, <1>10, <2>2, LrcIsLeast
  <2>4. u.node[n].ref - 1 = ns[n].ref
    BY <1>14, <1>15
  <2> QED
    BY <2>1, <2>3, <2>4
<1> QED
    BY <1>10, <1>12, <1>15, <1>16

\* What a request that found a node leaves.
LEMMA RequestFinds ==
    ASSUME RouterInv, NEW s \in Session, NEW k \in Key, Request(s, k), sess'[s].un # 0
    PROVE  \E r \in Mapped(Table, k) :
              SetTable(r.table) /\ sess'[s].un = r.un /\ sess'[s].key = k
<1>1. sess[s] \in SessionRecord /\ DOMAIN sess = Session
    BY InvFacts
<1>2. PICK r \in Mapped(Table, k) :
        LET p == [sess[s] EXCEPT !.key = k, !.un = r.un]
        IN  \/ /\ HasAddress(r.table, r.un)
               /\ SetTable(r.table)
               /\ sess' = [sess EXCEPT ![s] = [p EXCEPT !.st = "connecting", !.canRetry = TRUE]]
            \/ /\ HasAddress(r.table, r.un)
               /\ SetTable(Released(r.table, r.un))
               /\ sess' = [sess EXCEPT ![s] = NoSession]
            \/ /\ ~HasAddress(r.table, r.un) /\ HasVassal(r.table, r.un)
               /\ SetTable(r.table)
               /\ sess' = [sess EXCEPT ![s] = [p EXCEPT !.st = "deferred"]]
            \/ /\ ~HasAddress(r.table, r.un) /\ ~HasVassal(r.table, r.un)
               /\ SetTable(r.table)
               /\ sess' = [sess EXCEPT ![s] = [NoSession EXCEPT !.missed = TRUE]]
    BY DEF Request
<1>3. PICK n : n = r.un
    OBVIOUS
<1>4. PICK p : p = [sess[s] EXCEPT !.key = k, !.un = n]
    OBVIOUS
<1>5. PICK x, y : x = [p EXCEPT !.st = "connecting", !.canRetry = TRUE] /\ y = [p EXCEPT !.st = "deferred"]
    OBVIOUS
<1>6. x.un = n /\ x.key = k /\ y.un = n /\ y.key = k
    BY <1>1, <1>4, <1>5 DEF SessionRecord
<1>7. \/ SetTable(r.table) /\ sess' = [sess EXCEPT ![s] = x]
      \/ SetTable(r.table) /\ sess' = [sess EXCEPT ![s] = y]
      \/ sess' = [sess EXCEPT ![s] = NoSession]
      \/ sess' = [sess EXCEPT ![s] = [NoSession EXCEPT !.missed = TRUE]]
    BY <1>2, <1>3, <1>4, <1>5, Zenon
<1>8. \A z : sess' = [sess EXCEPT ![s] = z] => sess'[s] = z
    BY <1>1
<1>9. SetTable(r.table) /\ (sess'[s] = x \/ sess'[s] = y)
    BY <1>7, <1>8, NoSessionFits, Zenon
<1> QED
    BY <1>3, <1>6, <1>9

\* Steps of one session leave the others alone.
LEMMA OthersStay ==
    ASSUME RouterInv, NEW s \in Session, NEW x \in Session, x # s, SessionStep(x)
    PROVE  sess'[s] = sess[s]
<1>1. \A p : sess' = [sess EXCEPT ![x] = p] => sess'[s] = sess[s]
    BY InvFacts
<1>2. ASSUME NEW p, ClosePeer(x, p)
      PROVE  \E q : sess' = [sess EXCEPT ![x] = q]
    BY <1>2, Zenon DEF ClosePeer
<1>3. Accept(x) => \E q : sess' = [sess EXCEPT ![x] = q]
    BY Zenon DEF Accept
<1>4. ASSUME NEW k \in Key, Request(x, k)
      PROVE  \E q : sess' = [sess EXCEPT ![x] = q]
    BY <1>4, Zenon DEF Request
<1>5. Connected(x) => sess'[s] = sess[s]
    BY InvFacts DEF Connected
<1>6. BackendError(x) => \E q : sess' = [sess EXCEPT ![x] = q]
    BY <1>2, Zenon DEF BackendError
<1>7. BackendCloses(x) => \E q : sess' = [sess EXCEPT ![x] = q]
    BY <1>2, Zenon DEF BackendCloses
<1>8. ClientCloses(x) => \E q : sess' = [sess EXCEPT ![x] = q]
    BY Zenon DEF ClientCloses
<1>9. PeerTimeout(x) => \E q : sess' = [sess EXCEPT ![x] = q]
    BY <1>2, Zenon DEF PeerTimeout
<1> QED
    BY <1>1, <1>3, <1>4, <1>5, <1>6, <1>7, <1>8, <1>9, Zenon DEF SessionStep

\* A session that was reading its request has a node only from Request.
LEMMA FoundByRequest ==
    ASSUME RouterInv, Next, NEW s \in Session, sess[s].st = "reading", sess'[s].un # 0
    PROVE  \E k \in Key : Request(s, k)
<1>1. sess[s].un = 0
    BY InvFacts DEF SessionFits
<1>2. sess' # sess
    BY <1>1
<1>3. PICK x \in Session : SessionStep(x)
    BY <1>2 DEF Next, Subscribe, Unsubscribe, FallSilent
<1>4. x = s
    BY <1>1, <1>3, OthersStay
<1>5. ~Accept(s) /\ ~Connected(s) /\ ~BackendError(s) /\ ~BackendCloses(s) /\ ~PeerTimeout(s)
    BY DEF Accept, Connected, BackendError, BackendCloses, PeerTimeout
<1>6. ~ClientCloses(s)
  <2>1. ClientCloses(s) => sess'[s] = NoSession
    BY InvFacts DEF ClientCloses
  <2> QED
    BY <2>1, NoSessionFits
<1> QED
    BY <1>3, <1>4, <1>5, <1>6 DEF SessionStep

LEMMA BalancedStep ==
    ASSUME \A a \in Addr : Level[a] = 0,
           RouterInv, NEW s \in Session, NEW k \in Key, Request(s, k),
           conf.algo = "lrc", sess'[s].un # 0
    PROVE  sess'[s].key = k /\ \A i \in Live(node', slot'[k]) :
              slot'[k][i] # sess'[s].un =>
                node'[sess'[s].un].ref - 1 <= node'[slot'[k][i]].ref
<1>1. PICK r \in Mapped(Table, k) :
          SetTable(r.table) /\ sess'[s].un = r.un /\ sess'[s].key = k
    BY RequestFinds
<1>2. PICK g \in GetNode(Table, k, "lrc") : r = g \/ r = [g EXCEPT !.table = GoneCheap(@)]
    BY DEF Mapped
<1>3. "lrc" \in Algos /\ TableInv(Table, Counts, conf.vassals)
    BY InvFacts
<1>4. /\ g = [table |-> g.table, un |-> g.un]
      /\ TableInv(g.table, More(Counts, g.un), conf.vassals)
    BY <1>3, GetNodeCounts
<1>5. r.un = g.un /\ r.table.node = g.table.node /\ r.table.slot = g.table.slot
  <2>1. CASE r = g
    BY <2>1
  <2>2. CASE r = [g EXCEPT !.table = GoneCheap(@)]
    <3>1. PICK T, n : g = [table |-> T, un |-> n]
        BY <1>4
    <3>2. r.un = g.un /\ r.table = GoneCheap(g.table)
        BY <2>2, <3>1
    <3> QED
        BY <1>4, <3>2, GoneCheapKeeps
  <2> QED
    BY <1>2, <2>1, <2>2
<1>6. g.un # 0
    BY <1>1, <1>5
<1>7. \A i \in Live(g.table.node, g.table.slot[k]) :
          g.table.slot[k][i] # g.un =>
            g.table.node[g.un].ref - 1 <= g.table.node[g.table.slot[k][i]].ref
    BY <1>3, <1>6, LookupBalances
<1>8. node' = g.table.node /\ slot' = g.table.slot /\ sess'[s].un = g.un
    BY <1>1, <1>5 DEF SetTable
<1> QED
    BY <1>1, <1>7, <1>8

\* Where nodes announce no backup level, lrc sends every request to a live node with the
\* fewest references, whatever the lists, the counts and the events in between: the loop's
\* minimum of 0, which also means none yet, does no harm there.
THEOREM LeastReferencesFlat ==
    ASSUME \A a \in Addr : Level[a] = 0
    PROVE  Spec => LeastReferences
<1>1. ASSUME RouterInv, [Next]_vars
      PROVE  [\A s \in Session :
                (conf.algo = "lrc" /\ sess[s].st = "reading" /\ sess'[s].un # 0) =>
                   LET n == sess'[s].un
                       q == slot'[sess'[s].key]
                   IN  \A i \in Live(node', q) :
                          (q[i] # n /\ node'[q[i]].level = node'[n].level) =>
                              node'[n].ref - 1 <= node'[q[i]].ref]_vars
  <2>1. ASSUME Next, NEW s \in Session, conf.algo = "lrc", sess[s].st = "reading", sess'[s].un # 0
        PROVE  \A i \in Live(node', slot'[sess'[s].key]) :
                  slot'[sess'[s].key][i] # sess'[s].un =>
                    node'[sess'[s].un].ref - 1 <= node'[slot'[sess'[s].key][i]].ref
    <3>1. PICK k \in Key : Request(s, k)
        BY <1>1, <2>1, FoundByRequest
    <3> QED
        BY <1>1, <2>1, <3>1, BalancedStep
  <2> QED
    BY <1>1, <2>1
<1> QED
    BY <1>1, RouterInvariant, PTL DEF Spec, LeastReferences
=============================================================================
