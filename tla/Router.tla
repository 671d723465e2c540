------------------------------ MODULE Router ------------------------------
(***************************************************************************)
(* A fastrouter process (plugins/fastrouter, plugins/corerouter) that maps   *)
(* requests to the instances in its subscription table.  One thread runs     *)
(* every handler to its end, so an action is one event of the loop: a        *)
(* datagram of an instance, a request, the end of a connect, a timer.        *)
(*                                                                           *)
(* A session is the connection of a client and, once the request is read,    *)
(* one backend peer, which holds a pointer to a node of the table.           *)
(***************************************************************************)
EXTENDS Pool, Integers

CONSTANTS
    Session,
    Algos,          \* the algorithms that may be configured
    MaxRetries,     \* ucr->max_retries
    MaxRequests,    \* bound: requests
    MaxNews         \* bound: datagrams and times a node falls silent

\* max_retries is 3 where none is configured.
ASSUME RouterAssumption ==
    /\ IsFiniteSet(Session)
    /\ MaxRetries \in Nat \ {0}
    /\ Algos \subseteq {"wrr", "lrc", "wlrc", "iphash"}

VARIABLES
    node, slot,     \* ucr->subscriptions
    i_am_cheap,
    sess,
    conf,           \* uwsgi.subscription_algo, ucr->cheap, whether nodes name vassals
    requests, news

vars == <<node, slot, i_am_cheap, sess, conf, requests, news>>

\* "reading": no peer yet; "deferred": waiting for a vassal to come up; "parked": a peer
\* without connection that only its timer will close.
Stage == {"none", "reading", "deferred", "connecting", "connected", "parked"}

NoSession == [st |-> "none", key |-> None, un |-> 0, retries |-> 0, canRetry |-> FALSE,
              failed |-> FALSE, missed |-> FALSE]

TypeOK ==
    /\ \A n \in Node :
          /\ node[n].used \in BOOLEAN
          /\ node[n].addr \in Addr \cup {None}
          /\ node[n].vassal \in Vassal \cup {None}
          /\ node[n].ref \in Nat
          /\ node[n].wrr \in Nat
    /\ \A k \in Key : slot[k] \in Seq(Node)
    /\ \A k, l \in Key : \A i \in DOMAIN slot[k], j \in DOMAIN slot[l] :
          /\ node[slot[k][i]].used
          /\ slot[k][i] = slot[l][j] => k = l /\ i = j
    /\ i_am_cheap \in BOOLEAN
    /\ \A s \in Session :
          /\ sess[s].st \in Stage
          /\ sess[s].un \in Node \cup {0}
          /\ sess[s].retries \in 0 .. MaxRetries

Table == [node |-> node, slot |-> slot, cheap |-> i_am_cheap]

SetTable(t) == node' = t.node /\ slot' = t.slot /\ i_am_cheap' = t.cheap

Init ==
    /\ node = [n \in Node |-> FreeNode]
    /\ slot = [k \in Key |-> << >>]
    /\ sess = [s \in Session |-> NoSession]
    /\ conf \in [algo : Algos, cheap : BOOLEAN, vassals : BOOLEAN]
    /\ i_am_cheap = conf.cheap
    /\ requests = 0
    /\ news = 0

(***************************************************************************)
(* Steps the handlers share.                                                *)
(***************************************************************************)
GoneCheap(t) ==
    IF conf.cheap /\ ~t.cheap /\ NoSubscriptions(t) THEN [t EXCEPT !.cheap = TRUE] ELSE t

Awake(t) == [node |-> t.node, slot |-> t.slot, cheap |-> FALSE]

HasAddress(t, n) == n # 0 /\ t.node[n].addr # None
HasVassal(t, n) == n # 0 /\ t.node[n].vassal # None

\* uwsgi_cr_map_use_subscription: a node with an address, a node whose vassal is to be
\* spawned, or nothing usable, which is when the router looks whether it can go cheap.
Mapped(t, k) ==
    {IF ~HasAddress(r.table, r.un) /\ ~HasVassal(r.table, r.un) THEN [r EXCEPT !.table = GoneCheap(@)] ELSE r : r \in GetNode(t, k, conf.algo)}

\* A reference is given back only if the node still has an address.
Released(t, n) ==
    IF HasAddress(t, n) THEN WithNode(t, n, [t.node[n] EXCEPT !.ref = @ - 1]) ELSE t

KeyOf(t, n) == CHOOSE k \in Key : \E i \in DOMAIN t.slot[k] : t.slot[k][i] = n

\* The node is removed although sessions use it.
FailedAtOnce(t, n) == GoneCheap(RemoveNodes(t, KeyOf(t, n), {n}))

\* The node is marked dead, and removed if nobody uses it.
Failed(t, n) ==
    LET marked == WithNode(t, n, [t.node[n] EXCEPT !.dead = TRUE])
    IN  GoneCheap(IF t.node[n].ref = 0 THEN RemoveNodes(marked, KeyOf(t, n), {n}) ELSE marked)

FailedPeer(t, n) == IF HasAddress(t, n) THEN Failed(t, n) ELSE t

\* What fr_retry makes of the node the mapper found: what it returns (0 for a connect under
\* way, 1 for a deferred one) and the peer it leaves. A connect may fail at once.
RetryResult(p, r) ==
    LET q == [p EXCEPT !.un = r.un]
    IN  IF HasAddress(r.table, r.un)
        THEN {[ret |-> 0, peer |-> [q EXCEPT !.st = "connecting"]],
              [ret |-> -1, peer |-> [q EXCEPT !.st = "parked", !.failed = TRUE]]}
        ELSE IF HasVassal(r.table, r.un) /\ p.retries + 1 < MaxRetries
             THEN {[ret |-> 1, peer |-> [q EXCEPT !.st = "deferred"]]}
             ELSE {[ret |-> -1, peer |-> [q EXCEPT !.st = "parked"]]}

\* corerouter_close_peer of a backend peer p, failed or not: the reference is given back,
\* a failed peer marks its node and may look for another one; anything else ends the
\* session, without a look at what the retry had found.
ClosePeer(s, p) ==
    LET released == Released(Table, p.un)
        t == IF p.failed THEN FailedPeer(released, p.un) ELSE released
        again == [p EXCEPT !.retries = @ + 1, !.un = 0, !.failed = FALSE]
    IN  IF p.failed /\ p.canRetry /\ p.retries < MaxRetries
        THEN \E r \in Mapped(t, p.key) : \E x \in RetryResult(again, r) :
                /\ SetTable(r.table)
                /\ sess' = [sess EXCEPT ![s] =
                              IF x.ret = 0 \/ x.peer.failed THEN x.peer ELSE NoSession]
        ELSE SetTable(t) /\ sess' = [sess EXCEPT ![s] = NoSession]

(***************************************************************************)
(* Sessions.                                                                *)
(***************************************************************************)
\* A cheap router does not listen.
Accept(s) ==
    /\ sess[s].st = "none"
    /\ ~i_am_cheap
    /\ sess' = [sess EXCEPT ![s] = [NoSession EXCEPT !.st = "reading"]]
    /\ UNCHANGED <<node, slot, i_am_cheap, conf, requests, news>>

\* The request is read and a node looked for: the connect starts or fails at once, or it
\* waits for the vassal; a request without a usable node ends the session.
Request(s, k) ==
    /\ sess[s].st = "reading"
    /\ requests < MaxRequests
    /\ requests' = requests + 1
    /\ \E r \in Mapped(Table, k) :
          LET p == [sess[s] EXCEPT !.key = k, !.un = r.un]
          IN  \/ /\ HasAddress(r.table, r.un)
                 /\ SetTable(r.table)
                 /\ sess' = [sess EXCEPT ![s] = [p EXCEPT !.st = "connecting",
                                                          !.canRetry = TRUE]]
              \/ /\ HasAddress(r.table, r.un)
                 /\ SetTable(Released(r.table, r.un))
                 /\ sess' = [sess EXCEPT ![s] = NoSession]
              \/ /\ ~HasAddress(r.table, r.un) /\ HasVassal(r.table, r.un)
                 /\ SetTable(r.table)
                 /\ sess' = [sess EXCEPT ![s] = [p EXCEPT !.st = "deferred"]]
              \/ /\ ~HasAddress(r.table, r.un) /\ ~HasVassal(r.table, r.un)
                 /\ SetTable(r.table)
                 /\ sess' = [sess EXCEPT ![s] = [NoSession EXCEPT !.missed = TRUE]]
    /\ UNCHANGED <<conf, news>>

\* fr_instance_connected; a node counts the requests it has received since it last
\* announced itself.
Connected(s) ==
    /\ sess[s].st = "connecting"
    /\ sess' = [sess EXCEPT ![s].st = "connected", ![s].canRetry = FALSE]
    /\ node' = [node EXCEPT ![sess[s].un].last = @ + 1]
    /\ UNCHANGED <<slot, i_am_cheap, conf, requests, news>>

\* The connect fails or an error is raised on the connection of the backend.
BackendError(s) ==
    /\ sess[s].st \in {"connecting", "connected"}
    /\ ClosePeer(s, [sess[s] EXCEPT !.failed = TRUE])
    /\ UNCHANGED <<conf, requests, news>>

\* The backend closes the connection: the response is complete.
BackendCloses(s) ==
    /\ sess[s].st = "connected"
    /\ ClosePeer(s, sess[s])
    /\ UNCHANGED <<conf, requests, news>>

\* The client goes away or its timer ends: the session is closed with its peer.
ClientCloses(s) ==
    /\ sess[s].st # "none"
    /\ SetTable(Released(Table, sess[s].un))
    /\ sess' = [sess EXCEPT ![s] = NoSession]
    /\ UNCHANGED <<conf, requests, news>>

\* corerouter_expire_timeouts, on the timer of the backend peer. A deferred peer gives its
\* reference back and tries again; what fr_retry returns is ignored.
PeerTimeout(s) ==
    /\ sess[s].st \in {"deferred", "connecting", "connected", "parked"}
    /\ IF sess[s].st = "deferred"
       THEN LET n == sess[s].un
                p == [sess[s] EXCEPT !.retries = @ + 1]
                t == WithNode(Table, n, [node[n] EXCEPT !.ref = @ - 1])
            IN  IF node[n].ref = 0
                THEN ClosePeer(s, p)
                ELSE \E r \in Mapped(t, p.key) : \E x \in RetryResult(p, r) :
                        SetTable(r.table) /\ sess' = [sess EXCEPT ![s] = x.peer]
       ELSE ClosePeer(s, [sess[s] EXCEPT !.failed = @ \/ sess[s].st = "connecting"])
    /\ UNCHANGED <<conf, requests, news>>

(***************************************************************************)
(* The subscription socket.                                                 *)
(***************************************************************************)
Subscribe(k, a, v, clear) ==
    /\ news < MaxNews
    /\ a # None \/ v # None
    /\ conf.vassals \/ v = None
    /\ Known(Table, k, a, v) # {} \/ Allocated(Table) # Node
    /\ SetTable(Awake(AddNode(Table, k, a, v, clear)))
    /\ news' = news + 1
    /\ UNCHANGED <<sess, conf, requests>>

Unsubscribe(k, a) ==
    LET named == {i \in DOMAIN slot[k] : node[slot[k][i]].addr = a}
    IN  /\ news < MaxNews
        /\ named # {}
        /\ SetTable(Failed(Table, slot[k][First(named)]))
        /\ news' = news + 1
        /\ UNCHANGED <<sess, conf, requests>>

\* No announcement of a node has come for longer than subscription_tolerance.
FallSilent(n) ==
    /\ news < MaxNews
    /\ node[n].used /\ ~node[n].silent
    /\ node' = [node EXCEPT ![n].silent = TRUE]
    /\ news' = news + 1
    /\ UNCHANGED <<slot, i_am_cheap, sess, conf, requests>>

SessionStep(s) ==
    \/ Accept(s)
    \/ \E k \in Key : Request(s, k)
    \/ Connected(s)
    \/ BackendError(s)
    \/ BackendCloses(s)
    \/ ClientCloses(s)
    \/ PeerTimeout(s)

Next ==
    \/ \E s \in Session : SessionStep(s)
    \/ \E k \in Key, a \in Addr \cup {None}, v \in Vassal \cup {None}, clear \in BOOLEAN :
          Subscribe(k, a, v, clear)
    \/ \E k \in Key, a \in Addr : Unsubscribe(k, a)
    \/ \E n \in Node : FallSilent(n)

Spec == Init /\ [][Next]_vars

(***************************************************************************)
(* Properties.                                                              *)
(***************************************************************************)
Users(n) == {s \in Session : sess[s].un = n}

\* "To avoid removal of already using nodes, a reference count system has been
\* implemented": the node of every peer is still in the table and its count covers all its
\* users, whatever connects, retries, timers and unsubscriptions come in between; and the
\* count is exact as long as nodes name no vassals, so that a dead node can go.  A router
\* that stopped listening because it had no nodes has none: every announcement wakes it up.
ReferencesCounted ==
    /\ TypeOK
    /\ \A s \in Session : sess[s].un # 0 => node[sess[s].un].used
    /\ \A n \in Node : node[n].ref >= Cardinality(Users(n))
    /\ ~conf.vassals => \A n \in Node : node[n].ref = Cardinality(Users(n))
    /\ i_am_cheap => NoSubscriptions(Table)

\* A request is turned away only if every node of its key is dead or silent, or one was
\* left with neither address nor vassal by an instance that cleared it.
TurnedAway ==
    [][\A s \in Session : \A k \in Key :
          (sess[s].st = "reading" /\ sess'[s].missed /\ Request(s, k)) =>
             \/ \A i \in DOMAIN slot[k] : node[slot[k][i]].dead \/ node[slot[k][i]].silent
             \/ \E i \in DOMAIN slot[k] :
                   node[slot[k][i]].addr = None /\ node[slot[k][i]].vassal = None]_vars

\* lrc sends a request to a live node with the fewest references of its backup level.
LeastReferences ==
    [][\A s \in Session :
          (conf.algo = "lrc" /\ sess[s].st = "reading" /\ sess'[s].un # 0) =>
             LET n == sess'[s].un
                 q == slot'[sess'[s].key]
             IN  \A i \in Live(node', q) :
                    (q[i] # n /\ node'[q[i]].level = node'[n].level) =>
                        node'[n].ref - 1 <= node'[q[i]].ref]_vars

=============================================================================
