------------------------------ MODULE MCLegion ------------------------------
EXTENDS Legion

\* Two nodes that compete and an arbiter.
ValorOf == [n \in Node |-> IF n = 1 THEN 0 ELSE n]
=============================================================================
