--------------------------- MODULE MCAdlistCalls ---------------------------
EXTENDS AdlistCalls, TLC

CONSTANTS v1, v2, v3, v4

\* Two values look like 1 to the match and dup methods, two like 2.
MCContent == [v \in Value |-> IF v \in {v1, v2} THEN 1 ELSE 2]

\* <<dup, free, match>>: none, a list that owns its values, one that finds by
\* content.
MCMethods == {<<FALSE, FALSE, FALSE>>, <<TRUE, TRUE, FALSE>>, <<FALSE, FALSE, TRUE>>}

\* With all of the methods or with none.
MCAllOrNone == {<<FALSE, FALSE, FALSE>>, <<TRUE, TRUE, TRUE>>}

MCIndices == -1 .. 2

\* Values with the same content may be swapped.
Symmetry ==
  {p @@ q @@ r @@ s : p \in Permutations(Node), q \in Permutations(List),
                      r \in Permutations({v1, v2}), s \in Permutations({v3, v4})}
=============================================================================
