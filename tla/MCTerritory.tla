---------------------------- MODULE MCTerritory ----------------------------
\* Small instances of Territory for TLC.
EXTENDS Territory

CONSTANTS belt, hook, outer

Crews2 == {1, 2}
Second == {2}
Routes3 == {belt, hook, outer}
Outings4 == {<<1, belt>>, <<1, hook>>, <<2, hook>>, <<2, outer>>}

\* A ring along the edge of the grid with a block in one corner; a hook inside,
\* with a block of its own, that goes round a square but for that corner; and a
\* block that breaks the ring at the far corner, meets the hook at a point and
\* passes one of the two squares beside that point.
BeltSquares == (((1..6) \X (1..6)) \ ((2..5) \X (2..5))) \cup {<<2, 2>>}
HookSquares == (((2..4) \X (2..4)) \ {<<2, 2>>, <<3, 3>>}) \cup {<<5, 2>>, <<5, 3>>}
Roads ==
    [r \in Routes3 |-> [s \in (1..6) \X (1..6) |->
        CASE r = belt /\ s \in BeltSquares -> 16
          [] r = hook /\ s \in HookSquares -> 10
          [] r = outer /\ s \in Block(<<5, 5>>) -> 16
          [] r = outer /\ s = <<5, 4>> -> 4
          [] OTHER -> 0]]
=============================================================================
