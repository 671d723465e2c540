------------------------------- MODULE Pool -------------------------------
(***************************************************************************)
(* The subscription table of a router process (core/subscription.c): for     *)
(* every key a slot, the list of the nodes that announced themselves for it, *)
(* each with a count of the sessions that use it, and the algorithms that    *)
(* choose a node for a request.  A slot exists while its list is not empty.  *)
(*                                                                           *)
(* A table is a record t: t.node maps a place in memory to the node that     *)
(* occupies it, t.slot maps a key to its list, t.cheap is ucr->i_am_cheap.   *)
(***************************************************************************)
EXTENDS Naturals, Sequences, FiniteSets

CONSTANTS
    Key,       \* subscription keys (the domain names of the sites)
    Addr,      \* addresses of instances
    Vassal,    \* names of vassals that the emperor spawns on demand
    Node,      \* places a node can be allocated at: 1 .. n
    Weight,    \* the weight an address announces
    Level      \* the backup level an address announces

ASSUME PoolAssumption ==
    /\ Node \subseteq Nat \ {0}
    /\ Weight \in [Addr -> Nat \ {0}]
    /\ Level \in [Addr -> Nat]

None == "none"

FreeNode == [used |-> FALSE, addr |-> None, vassal |-> None, ref |-> 0, dead |-> FALSE,
             silent |-> FALSE, weight |-> 1, level |-> 0, wrr |-> 0, last |-> 0]

(***************************************************************************)
(* Adding and removing nodes.                                               *)
(***************************************************************************)
Allocated(t) == {n \in Node : t.node[n].used}

\* The table with the node x at the place n.
WithNode(t, n, x) == [node |-> [t.node EXCEPT ![n] = x], slot |-> t.slot, cheap |-> t.cheap]

NoSubscriptions(t) == \A k \in Key : t.slot[k] = << >>

\* The list without the nodes in gone: its i-th node is the one with i - 1 others before it.
Kept(q, gone) == {i \in DOMAIN q : q[i] \notin gone}

Before(S, i) == {j \in S : j < i}

Dropped(q, gone) ==
    [i \in 1 .. Cardinality(Kept(q, gone)) |->
        q[CHOOSE j \in Kept(q, gone) : Cardinality(Before(Kept(q, gone), j)) = i - 1]]

\* The nodes in the set gone are unlinked and freed.
RemoveNodes(t, k, gone) ==
    [node |-> [n \in Node |-> IF n \in gone THEN FreeNode ELSE t.node[n]],
     slot |-> [t.slot EXCEPT ![k] = Dropped(@, gone)],
     cheap |-> t.cheap]

\* The node an announcement is about: the first one with its address or its vassal.
Matches(t, n, a, v) ==
    \/ a # None /\ t.node[n].addr = a
    \/ v # None /\ t.node[n].vassal = v

Known(t, k, a, v) == {i \in DOMAIN t.slot[k] : Matches(t, t.slot[k][i], a, v)}

First(S) == CHOOSE i \in S : \A j \in S : i <= j
Last(S) == CHOOSE i \in S : \A j \in S : j <= i

AnnouncedWeight(a) == IF a = None THEN 1 ELSE Weight[a]
AnnouncedLevel(a) == IF a = None THEN 0 ELSE Level[a]

\* With an address and a vassal, a known address is cleared when the instance that
\* shuts down asks for it, and any other address replaces the one of the node.
AddressAfter(old, a, v, clear) ==
    IF a = None \/ v = None THEN old
    ELSE IF a # old THEN a
    ELSE IF clear THEN None
    ELSE old

Refreshed(node, a, v, clear) ==
    [node EXCEPT !.addr = AddressAfter(@, a, v, clear), !.dead = FALSE, !.silent = FALSE,
                 !.weight = AnnouncedWeight(a), !.level = AnnouncedLevel(a), !.last = 0]

NewNode(a, v) ==
    [FreeNode EXCEPT !.used = TRUE, !.addr = a, !.vassal = v,
                     !.weight = AnnouncedWeight(a), !.level = AnnouncedLevel(a)]

AddNode(t, k, a, v, clear) ==
    IF Known(t, k, a, v) # {}
    THEN LET n == t.slot[k][First(Known(t, k, a, v))]
         IN  WithNode(t, n, Refreshed(t.node[n], a, v, clear))
    ELSE LET n == First(Node \ Allocated(t))
         IN  [WithNode(t, n, NewNode(a, v)) EXCEPT !.slot[k] = Append(@, n)]

(***************************************************************************)
(* The algorithms, on the nodes ns and a list q of them.                    *)
(***************************************************************************)
Live(ns, q) == {i \in DOMAIN q : ~ns[q[i]].dead}

\* The lowest backup level above l that a live node has, 0 if there is none.
NextLevel(ns, q, l) ==
    LET above == {ns[q[i]].level : i \in Live(ns, q)} \ (0 .. l)
    IN  IF above = {} THEN 0 ELSE First(above)

\* References per unit of weight, as a fraction; lrc takes every weight as 1.
Share(ns, n, weighted) == <<ns[n].ref, IF weighted THEN ns[n].weight ELSE 1>>
Less(x, y) == x[1] * y[2] < y[1] * x[2]

\* The nodes the loop of lrc and wlrc compares, and those of them without references.
Candidates(ns, q, l) == {i \in Live(ns, q) : ns[q[i]].level = l}
Unused(ns, q, l) == {i \in Candidates(ns, q, l) : ns[q[i]].ref = 0}

\* Any next node may be better.
NextExists(ns, q, i, weighted) == i < Len(q)

\* The next node may have served less than one without references.
NextMayBeBetter(ns, q, i, weighted) ==
    /\ i < Len(q)
    /\ ~Less(Share(ns, q[i], weighted), Share(ns, q[i + 1], weighted))
    /\ ns[q[i + 1]].last <= ns[q[i]].last

\* Where the loop stops.
Stops(ns, q, l, weighted) == {i \in Unused(ns, q, l) : ~NextMayBeBetter(ns, q, i, weighted)}

\* What the loop chooses. A smallest share of 0 also means "none so far": a node without
\* references at which it does not stop is forgotten at the next candidate, and after the
\* last such node the first of the smallest shares is chosen.
Least(ns, q, l, weighted) ==
    LET after == {i \in Candidates(ns, q, l) : \A j \in Unused(ns, q, l) : j < i}
        least == {i \in after : \A j \in after :
                      ~Less(Share(ns, q[j], weighted), Share(ns, q[i], weighted))}
    IN  IF Stops(ns, q, l, weighted) # {} THEN q[First(Stops(ns, q, l, weighted))]
        ELSE IF after # {} THEN q[First(least)]
        ELSE IF Unused(ns, q, l) # {} THEN q[Last(Unused(ns, q, l))]
        ELSE 0

\* 0 when every node is dead.
AlgoLeast(ns, q, weighted) ==
    LET first == Least(ns, q, 0, weighted)
        backup == NextLevel(ns, q, 0)
    IN  IF first # 0 \/ backup = 0 THEN first ELSE Least(ns, q, backup, weighted)

\* The second step of wrr: the live nodes of the first level that has some get as many
\* turns as their weight is worth, and the last of them is chosen.
WrrLevel(ns, q) ==
    IF \E i \in Live(ns, q) : ns[q[i]].level = 0 THEN 0 ELSE NextLevel(ns, q, 0)

WrrReset(ns, q) ==
    LET live == Live(ns, q)
        min == First({ns[q[i]].weight : i \in live})
        atLevel == {q[i] : i \in {j \in live : ns[q[j]].level = WrrLevel(ns, q)}}
    IN  IF live = {} THEN ns
        ELSE [n \in Node |-> IF n \in atLevel
                             THEN [ns[n] EXCEPT !.wrr = ns[n].weight \div min] ELSE ns[n]]

AlgoWrr(ns, q) ==
    LET at == {i \in Live(ns, q) : ns[q[i]].level = WrrLevel(ns, q)}
    IN  IF at = {} THEN 0 ELSE q[Last(at)]

\* What the second step may choose; iphash depends on the address of the client.
SecondStep(algo, ns, q) ==
    CASE algo = "wrr" -> {AlgoWrr(ns, q)}
      [] algo = "lrc" -> {AlgoLeast(ns, q, FALSE)}
      [] algo = "wlrc" -> {AlgoLeast(ns, q, TRUE)}
      [] algo = "iphash" -> IF Live(ns, q) = {} THEN {0} ELSE {q[i] : i \in Live(ns, q)}

(***************************************************************************)
(* uwsgi_get_subscribe_node: the list is walked, silent nodes are marked     *)
(* dead, dead ones nobody uses are freed; wrr stops at the first live node   *)
(* that has turns left and leaves the rest of the list alone.                *)
(***************************************************************************)
\* A node without users is freed whether or not it is dead.
SpentUnused(node) == node.ref = 0

Spent(node) == (node.dead \/ node.silent) /\ node.ref = 0

FirstTurn(algo, ns, q) ==
    {i \in DOMAIN q : algo = "wrr" /\ ~ns[q[i]].dead /\ ~ns[q[i]].silent /\ ns[q[i]].wrr > 0}

Walked(algo, ns, q) ==
    IF FirstTurn(algo, ns, q) = {} THEN {q[i] : i \in DOMAIN q}
    ELSE {q[i] : i \in 1 .. First(FirstTurn(algo, ns, q))}

Swept(t, k, seen) ==
    LET t1 == RemoveNodes(t, k, {n \in seen : Spent(t.node[n])})
    IN  [t1 EXCEPT !.node = [n \in Node |->
            IF n \in seen /\ @[n].silent THEN [@[n] EXCEPT !.dead = TRUE] ELSE @[n]]]

Taken(t, n) == IF n = 0 THEN t ELSE WithNode(t, n, [t.node[n] EXCEPT !.ref = @ + 1])

TurnTaken(t, algo, n) ==
    IF algo = "wrr" /\ n # 0 THEN WithNode(t, n, [t.node[n] EXCEPT !.wrr = @ - 1]) ELSE t

\* The possible results: the table after the call and the node, 0 for NULL.
GetNode(t, k, algo) ==
    LET q == t.slot[k]
        swept == Swept(t, k, Walked(algo, t.node, q))
        turn == FirstTurn(algo, t.node, q)
        reset == IF algo = "wrr" THEN [swept EXCEPT !.node = WrrReset(@, swept.slot[k])] ELSE swept
    IN  IF turn # {}
        THEN {[table |-> TurnTaken(Taken(swept, q[First(turn)]), algo, q[First(turn)]),
               un |-> q[First(turn)]]}
        ELSE {[table |-> TurnTaken(Taken(reset, n), algo, n), un |-> n] :
                n \in SecondStep(algo, swept.node, swept.slot[k])}

=============================================================================
