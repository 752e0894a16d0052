------------------------------- MODULE MCSds -------------------------------
EXTENDS Sds, TLC
MCByte == {0, 32, 65, 97}           \* NUL, a space, 'A' and 'a'
MCLiterals == {<<97>>, <<32, 65>>}
MCCsets == {{32}, {32, 97}}
MCIndices == -2 .. 2
MCMoreIndices == -4 .. 3
AddrSymmetry == Permutations(Addr)
Symmetry == Permutations(Addr) \cup Permutations(Var)
=============================================================================
