------------------------------- MODULE Legion -------------------------------
(***************************************************************************)
(* The legion subsystem (core/legion.c): instances announce themselves with *)
(* datagrams, and the one with the highest valor, confirmed by the votes of *)
(* all the nodes it knows and by a quorum, is the lord.  One action is one  *)
(* turn of legion_loop: forget silent nodes, read at most one packet, decide *)
(* on the lord.  A datagram is read at once, with what its sender announces  *)
(* at that moment, or it is lost.                                            *)
(***************************************************************************)
EXTENDS Integers, FiniteSets

CONSTANTS
    Node,          \* the instances; their order is the order of their uuids
    Valor,         \* Valor[n]: 0 for an arbiter
    Quorum,        \* --legion-quorum
    HooksMayFail,  \* lord hooks fail, with --legion-death-on-lord-error set
    MaxEvents      \* bound: starts, stops, crashes, failed hooks, wrong suspicions

ASSUME LegionAssumption ==
    /\ Node \subseteq Nat \ {0} /\ IsFiniteSet(Node)
    /\ Valor \in [Node -> Nat]
    /\ Quorum \in Nat
    /\ HooksMayFail \in BOOLEAN
    /\ MaxEvents \in Nat

VARIABLES
    legion,   \* struct uwsgi_legion of each instance
    clean,    \* history: nobody was suspected wrongly and no lord hook failed
    events

vars == <<legion, clean, events>>

NoLord == 0
Vote == Node \cup {NoLord}

\* What uwsgi_legion_get_node finds: the content of the last packet.
NodeRecord == [vote : Vote, sum : SUBSET Node]

LegionRecord ==
    [status : {"new", "up", "gone"},
     known : UNION {[K -> NodeRecord] : K \in SUBSET Node},
     vote : Vote,               \* lord_valor and lord_uuid
     sum : SUBSET Node,         \* checksum
     lord : BOOLEAN,            \* i_am_the_lord
     dead : BOOLEAN,
     suspended : BOOLEAN,       \* now <= suspended_til
     first : BOOLEAN]           \* first_round


TypeOK ==
    /\ legion \in [Node -> LegionRecord]
    /\ clean \in BOOLEAN
    /\ events \in 0..MaxEvents

NoKnown == [m \in {} |-> [vote |-> NoLord, sum |-> {}]]

NewLegion ==
    [status |-> "new", known |-> NoKnown, vote |-> NoLord, sum |-> {},
     lord |-> FALSE, dead |-> FALSE, suspended |-> FALSE, first |-> TRUE]

Init ==
    /\ \E S \in SUBSET Node :
            legion = [n \in Node |->
                        [NewLegion EXCEPT !.status = IF n \in S THEN "up" ELSE "new"]]
    /\ clean = TRUE
    /\ events = 0

Up(n) == legion[n].status = "up"

Event == events < MaxEvents /\ events' = events + 1
-----------------------------------------------------------------------------
(* The list of nodes *)

RemoveNodes(r, S) ==
    [r EXCEPT !.known = [k \in DOMAIN r.known \ S |-> r.known[k]]]

\* uwsgi_legion_announce sends nothing while the node is suspended.
Silent(m) == ~Up(m) \/ legion[m].suspended

\* legions_check_nodes: the nodes from which nothing came for legion_tolerance seconds.
\* When their packets are lost, nodes that announce themselves can be among them.
Expired(n) ==
    {S \in SUBSET DOMAIN legion[n].known :
        \A m \in S : Silent(m) \/ events < MaxEvents}

\* Mutant: the packets of a node that is already accounted do not update it.
NodeSeenOnce(r, m) ==
    [r EXCEPT !.known = [k \in DOMAIN r.known \cup {m} |->
        IF k \in DOMAIN r.known THEN r.known[k]
        ELSE [vote |-> legion[m].vote, sum |-> legion[m].sum]]]

\* A node that is added or already accounted is filled from the packet.
NodeSeen(r, m) ==
    [r EXCEPT !.known = [k \in DOMAIN r.known \cup {m} |->
        IF k = m THEN [vote |-> legion[m].vote, sum |-> legion[m].sum] ELSE r.known[k]]]

\* The packets of n that say it is dead reach the nodes of R, which then do not decide.
DeathHeard(n, R) ==
    [m \in Node |-> IF m \in R THEN RemoveNodes(legion[m], {n}) ELSE legion[m]]

\* The nodes a packet of n can reach.
Reached(n) == SUBSET {m \in Node \ {n} : Up(m)}
-----------------------------------------------------------------------------
(* The election *)

Better(a, b) == Valor[a] > Valor[b] \/ (Valor[a] = Valor[b] /\ a > b)

Best(S) == CHOOSE b \in S : \A c \in S \ {b} : Better(b, c)

\* uwsgi_legion_get_lord: arbiters are no candidates, but an instance starts from itself.
GetLord(n, r) == Best({n} \cup {m \in DOMAIN r.known : Valor[m] > 0})

WithLord(n, r) == [r EXCEPT !.vote = GetLord(n, r)]

\* The candidate this instance votes for in step2 (not what it announces: vote).
Candidate(n, r) ==
    IF r.vote # n THEN r.vote
    ELSE IF Valor[n] > 0 /\ ~r.suspended THEN n ELSE NoLord

WithChecksum(n, r) == [r EXCEPT !.sum = {n} \cup DOMAIN r.known]

\* Mutant: nodes that see another membership are counted as well.
AgreeOnLordOnly(r, candidate) ==
    \A m \in DOMAIN r.known : r.known[m].vote = candidate

Agree(r, candidate) ==
    \A m \in DOMAIN r.known : r.known[m].sum = r.sum /\ r.known[m].vote = candidate

Votes(r, candidate) ==
    IF Agree(r, candidate) THEN 1 + Cardinality(DOMAIN r.known) ELSE 0

HasQuorum(votes) == votes > 0 /\ votes >= Quorum

Unlorded(r) == [r EXCEPT !.lord = FALSE]

\* legions_check_nodes_step2, with r after the choice of the lord and the checksum.
\* The loss of the quorum is noticed only when the last warning is 60 seconds old.
Elected(n, r, candidate, votes, warns) ==
    CASE HasQuorum(votes) /\ candidate = n -> [r EXCEPT !.lord = TRUE]
      [] HasQuorum(votes) /\ candidate # n -> Unlorded(r)
      [] votes > 0 /\ votes < Quorum /\ warns -> Unlorded(r)
      [] OTHER -> r

\* The first round is not used to decide.
Decide(n, r, warns) ==
    LET voted == WithChecksum(n, WithLord(n, r))
        candidate == Candidate(n, voted)
    IN  IF r.first THEN [r EXCEPT !.first = FALSE]
        ELSE Elected(n, voted, candidate, Votes(voted, candidate), warns)

\* The turn of n in which the nodes of S expire ends with record r.
TurnEnds(n, S, r) ==
    /\ legion' = [legion EXCEPT ![n] = r]
    /\ clean' = (clean /\ \A m \in S : Silent(m))
    /\ events' = IF \A m \in S : Silent(m) THEN events ELSE events + 1

\* It would have ended with n the lord, but a lord hook fails: with
\* --legion-death-on-lord-error n announces its death and suspends itself.
LordHookFails(n, r) ==
    /\ HooksMayFail /\ r.lord /\ ~legion[n].lord
    /\ Event
    /\ \E R \in Reached(n) :
        legion' = [DeathHeard(n, R) EXCEPT ![n] =
                    [r EXCEPT !.lord = FALSE, !.dead = TRUE, !.suspended = TRUE]]
    /\ clean' = FALSE

Turn(n, S, r) == TurnEnds(n, S, r) \/ LordHookFails(n, r)

\* A turn of the loop after its timeout.
Round(n, S, warns) ==
    /\ Up(n) /\ S \in Expired(n)
    /\ Turn(n, S, Decide(n, RemoveNodes(legion[n], S), warns))

\* A turn woken by a packet of m; it ends early if m announces that it is dead.
Receive(n, m, S, warns) ==
    /\ Up(n) /\ m # n /\ ~Silent(m) /\ S \in Expired(n)
    /\ LET r == RemoveNodes(legion[n], S)
       IN  Turn(n, S, IF legion[m].dead THEN RemoveNodes(r, {m})
                      ELSE Decide(n, NodeSeen(r, m), warns))
-----------------------------------------------------------------------------
(* Instances start, stop and crash *)

\* uwsgi_start_legions
Start(n) ==
    /\ legion[n].status = "new"
    /\ Event
    /\ legion' = [legion EXCEPT ![n].status = "up"]
    /\ UNCHANGED clean

Gone == [NewLegion EXCEPT !.status = "gone"]

\* uwsgi_legion_announce_death, from the reload and exit paths of the master
AnnounceDeath(n) ==
    /\ Up(n)
    /\ Event
    /\ \E R \in (IF Silent(n) THEN {{}} ELSE Reached(n)) :
            legion' = [DeathHeard(n, R) EXCEPT ![n] = Gone]
    /\ UNCHANGED clean

Crash(n) ==
    /\ Up(n)
    /\ Event
    /\ legion' = [legion EXCEPT ![n] = Gone]
    /\ UNCHANGED clean
-----------------------------------------------------------------------------
(* Time *)

\* uwsgi_now() > suspended_til
SuspensionEnds(n) ==
    /\ Up(n) /\ legion[n].suspended
    /\ legion' = [legion EXCEPT ![n].suspended = FALSE]
    /\ UNCHANGED <<clean, events>>

\* Every instance that was started has ended.
Over == (\A n \in Node : ~Up(n)) /\ UNCHANGED vars

Next ==
    \/ \E n \in Node :
        \/ \E S \in SUBSET Node, warns \in BOOLEAN :
            \/ Round(n, S, warns)
            \/ \E m \in Node : Receive(n, m, S, warns)
        \/ Start(n) \/ AnnounceDeath(n) \/ Crash(n)
        \/ SuspensionEnds(n)
    \/ Over

Spec == Init /\ [][Next]_vars

SilentPeers(n) == {m \in DOMAIN legion[n].known : Silent(m)}

\* The loop's thread runs, what a node announces arrives, and time passes: silent nodes
\* expire and warnings get old.
Fairness ==
    \A n \in Node :
        /\ WF_vars(Round(n, SilentPeers(n), TRUE))
        /\ WF_vars(SuspensionEnds(n))
        /\ \A m \in Node : WF_vars(\E w \in BOOLEAN : Receive(n, m, {}, w))

FairSpec == Spec /\ Fairness
-----------------------------------------------------------------------------
Lords == {n \in Node : legion[n].lord}
Members == {n \in Node : Up(n) /\ ~legion[n].dead}

\* A ruling lord votes for itself; one that already votes for another is about to leave.
Ruling == {n \in Lords : legion[n].vote = n}

\* With a quorum of more than half of the nodes there is one ruling lord, as long as
\* nobody took a live node for dead and no lord hook failed: packets may be late, lost
\* or reordered, nodes may join, leave and crash.
OneRulingLord == TypeOK /\ (clean => \A a, b \in Ruling : a = b)

\* The best member is the lord, alone, and every member votes for it; or nobody is.
Settled ==
    LET candidates == {n \in Members : Valor[n] > 0}
        elected == IF candidates # {} /\ Cardinality(Members) >= Quorum
                   THEN {Best(candidates)} ELSE {}
    IN  /\ Lords \cap Members = elected
        /\ \A l \in elected, n \in Members : legion[n].vote = l

\* Nothing n can receive or notice changes its mind.
Quiet(n) ==
    /\ ~legion[n].suspended /\ SilentPeers(n) = {}
    /\ Decide(n, legion[n], TRUE) = legion[n]
    /\ \A m \in Node \ {n} : ~Silent(m) =>
            IF legion[m].dead THEN m \notin DOMAIN legion[n].known
            ELSE Decide(n, NodeSeen(legion[n], m), TRUE) = legion[n]

\* The election never gets stuck: when no announcement changes anybody's mind any more,
\* the best living node is the lord, alone, or there is no quorum and no lord.
StuckOnlyWhenSettled == (\A n \in Node : Up(n) => Quiet(n)) => Settled

\* Once instances stop coming and going and packets arrive, the best living node
\* becomes the lord, alone, and stays it; without a quorum nobody stays the lord.
LordEventually == <>[]Settled

\* core/uwsgi.c:651: a failed lord hook makes an instance a dead node "for the specified
\* amount of seconds"; afterwards its peers know it again.
RejoinsAfterSuspension ==
    \A n, m \in Node :
        (Up(n) /\ Up(m) /\ n # m /\ legion[n].dead)
            ~> (~Up(n) \/ ~Up(m) \/ n \in DOMAIN legion[m].known)
=============================================================================
