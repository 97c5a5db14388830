----------------------------- MODULE MCLoops -----------------------------
(* The loops of main.py, for TLC: the redraw of the map, the announcements  *)
(* that follow it, the archive of raw uploads, the daily recap, and the     *)
(* pairings that are swept with the archive share no state, so a behaviour  *)
(* moves one of them and the others rest where they begin.                  *)
EXTENDS Redraw, Announcements, Retention, Recap, Pairing

CONSTANTS c1, r1, r2, b1, t1, s1, s2, none

VARIABLE moving

loopsVars == <<redrawVars, tgVars, archiveVars, recapVars, vars, moving>>

LoopsInit ==
    /\ moving \in {"map", "news", "archive", "recap", "pairing"}
    /\ RedrawInit /\ TgInit /\ InitRetention /\ RecapInit /\ Init
    /\ moving # "archive" => wish = [days |-> 0, floor |-> 0]

MapMoves ==
    moving = "map" /\ RedrawNext /\ UNCHANGED <<tgVars, archiveVars, recapVars, vars, moving>>
NewsMoves ==
    moving = "news" /\ TgNext /\ UNCHANGED <<redrawVars, archiveVars, recapVars, vars, moving>>
ArchiveMoves ==
    moving = "archive" /\ RetentionNext /\ UNCHANGED <<redrawVars, tgVars, recapVars, vars, moving>>
RecapMoves ==
    moving = "recap" /\ RecapNext /\ UNCHANGED <<redrawVars, tgVars, archiveVars, vars, moving>>
PairingMoves ==
    moving = "pairing" /\ Next /\ UNCHANGED <<redrawVars, tgVars, archiveVars, recapVars, moving>>

LoopsNext == MapMoves \/ NewsMoves \/ ArchiveMoves \/ RecapMoves \/ PairingMoves

\* RedrawFairness, RetentionFairness, RecapFairness and the fairness of
\* Pairing's FairSpec, each where its part is what moves.
LoopsFairness ==
    /\ WF_redrawVars(moving = "map" /\ TickRedraw)
    /\ WF_redrawVars(moving = "map" /\ HourlyStart)
    /\ \A w \in {"hourly", "fresh"} : WF_redrawVars(moving = "map" /\ RebuildStep(w))
    /\ WF_archiveVars(moving = "archive" /\ RetentionStep)
    /\ WF_recapVars(moving = "recap" /\ RecapStep)
    /\ WF_vars(moving = "pairing" /\ Sweep) /\ WF_vars(moving = "pairing" /\ Tick)

LoopsSpec == LoopsInit /\ [][LoopsNext]_loopsVars /\ LoopsFairness

\* The machinery of the map, the snapshot of the announcements, the archive with
\* its order and its disk, the mark of the recap, and tokens and sessions keep
\* their types.
LoopsTypeOK == RedrawTypeOK /\ TgTypeOK /\ RetentionTypeOK /\ RecapTypeOK /\ TypeOK
=============================================================================
