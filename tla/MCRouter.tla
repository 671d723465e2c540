----------------------------- MODULE MCRouter -----------------------------
EXTENDS Router, TLC

Seqs == INSTANCE SequencesExt

\* Every address has its own weight and they are all of the first level, or the second
\* one is a backup.
Weights == [a \in Addr |-> IF a = "a1" THEN 2 ELSE 1]
Flat == [a \in Addr |-> 0]
SecondIsBackup == [a \in Addr |-> IF a = "a2" THEN 1 ELSE 0]

\* The loop of lrc and wlrc, turn by turn, against what it is said to choose.
LeastTurn(ns, q, l, weighted, best, i) ==
    LET n == q[i]
        share == Share(ns, n, weighted)
    IN  IF best.stop \/ ns[n].dead \/ ns[n].level # l THEN best
        ELSE IF best.min[1] = 0 \/ Less(share, best.min)
             THEN [chosen |-> n, min |-> share, stop |-> share[1] = 0 /\ ~NextMayBeBetter(ns, q, i, weighted)]
             ELSE best

LeastLoop(ns, q, l, weighted) ==
    Seqs!FoldLeft(LAMBDA best, i : LeastTurn(ns, q, l, weighted, best, i),
             [chosen |-> 0, min |-> <<0, 1>>, stop |-> FALSE],
             [i \in 1 .. Len(q) |-> i]).chosen

\* Lists of up to three nodes; dead ones and other levels are passed over alike.
Compared == [ref : 0 .. 2, weight : 1 .. 2, last : 0 .. 1, dead : BOOLEAN, level : {0}]

ASSUME LeastIsLoop ==
    \A len \in 0 .. 3 : \A ns \in [1 .. len -> Compared], weighted \in BOOLEAN :
        LET q == [i \in 1 .. len |-> i]
        IN  Least(ns, q, 0, weighted) = LeastLoop(ns, q, 0, weighted)

Sym == Permutations(Session)
=============================================================================
