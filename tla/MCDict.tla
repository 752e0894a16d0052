------------------------------- MODULE MCDict -------------------------------
EXTENDS Dict, TLC

CONSTANTS simpleHash, commonHash, k1, k2, k3

\* simpleHash is the one of hash.cc.  commonHash stands for MurmurHash3: of the
\* three keys two meet in a bucket of ht[0], by their low bits.
MCHash == simpleHash :> [k \in Key |-> 1]
       @@ commonHash :> (k1 :> 5 @@ k2 :> 9 @@ k3 :> 6)

Symmetry == Permutations(Entry) \cup Permutations(Table)
=============================================================================
