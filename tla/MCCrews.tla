------------------------------ MODULE MCCrews ------------------------------
\* Small instances of Crews for TLC.
EXTENDS Crews, TLC

CONSTANTS c1, c2, r1, r2, r3

Crews1 == {c1}
Crews2 == {c1, c2}
Riders2 == {r1, r2}
Riders3 == {r1, r2, r3}

Sym3 == Permutations(Riders3)
CrewSym2 == Permutations(Crews2) \cup Permutations(Riders2)
=============================================================================
