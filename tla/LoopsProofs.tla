----------------------------- MODULE LoopsProofs -----------------------------
(***************************************************************************)
(* The loops and the tables of one process, each for itself and together.  *)
(*                                                                         *)
(* The redraw of the map for every set of crews and every number of rides, *)
(* and the announcements that follow it for every ladder of rungs.         *)
(* Pairing for every set of riders, browsers, tokens and sessions, every   *)
(* lifetime and any number of polls under way.  The raw-upload archive and *)
(* the recap, as far as their types say what is right of them.  And that   *)
(* none of them does in the others' company what it does not do alone.     *)
(***************************************************************************)
EXTENDS MCLoops, FiniteSetTheorems, SequenceTheorems, TLAPS

-----------------------------------------------------------------------------
(* Redraw: types. *)

Pass == [at: Stages, rides: Maps, living: SUBSET Drawn, fd: Inodes \cup {0}]
File == [whole: BOOLEAN, shared: BOOLEAN, map: Maps]

LEMMA BlankMaps == Blank \in Maps /\ WholeFile(Blank) \in File /\ Idle \in Pass /\ Idle.at = "idle"
BY RedrawAssumption DEF Blank, Maps, WholeFile, File, Idle, Pass, Stages, Inodes

LEMMA MapOfType ==
    ASSUME RedrawTypeOK, NEW w \in Workers
    PROVE  MapOf(w) \in Maps
<1>1. pass[w].rides \in Maps
    BY DEF RedrawTypeOK
<1>. QED
    BY <1>1, RedrawAssumption DEF MapOf, Maps

\* A pass that moves to another stage takes along what it has read.
LEMMA MovesEffect ==
    ASSUME RedrawTypeOK, NEW w \in Workers, NEW from, NEW to \in Stages, Moves(w, from, to)
    PROVE  /\ pass' \in [Workers -> Pass] /\ pass[w].at = from
           /\ pass'[w].at = to /\ pass'[w].rides = pass[w].rides
           /\ pass'[w].living = pass[w].living /\ pass'[w].fd = pass[w].fd
           /\ \A v \in Workers \ {w} : pass'[v] = pass[v]
BY DEF Moves, RedrawTypeOK, Pass

LEMMA WorldType ==
    ASSUME RedrawTypeOK,
           \/ \E c \in Drawn : Land(c) \/ ApproveRide(c) \/ FoldCrew(c) \/ ReturnCrew(c)
           \/ MarkDirty \/ MarkMissed \/ SwitchCrews \/ TickRedraw
    PROVE  RedrawTypeOK'
<1>1. ASSUME NEW c \in Drawn, Land(c) \/ ApproveRide(c)
      PROVE  RedrawTypeOK'
  <2>1. ridden' \in Maps
    <3>1. ridden' = [ridden EXCEPT ![c] = ridden[c] + 1] /\ ridden[c] < MaxLanded
      BY <1>1 DEF Land, ApproveRide
    <3>2. ridden \in Maps /\ ridden[c] \in 0..MaxLanded
      BY DEF RedrawTypeOK, Maps
    <3>3. ridden[c] + 1 \in 0..MaxLanded
      BY <3>1, <3>2, RedrawAssumption
    <3>. QED
      BY <3>1, <3>2, <3>3 DEF Maps
  <2>. QED
    BY <1>1, <2>1 DEF Land, ApproveRide, RedrawTypeOK, redrawFile, redrawLoop
<1>2. ASSUME NEW c \in Drawn, FoldCrew(c) \/ ReturnCrew(c)
      PROVE  RedrawTypeOK'
  <2>1. rows' \in Maps /\ upsets' \in 0..MaxUpsets /\ disbanded' \subseteq Drawn
    BY <1>2, RedrawAssumption DEF FoldCrew, ReturnCrew, RedrawTypeOK, Maps
  <2>. QED
    BY <1>2, <2>1 DEF FoldCrew, ReturnCrew, RedrawTypeOK, redrawFile, redrawLoop
<1>3. CASE MarkDirty \/ MarkMissed
    BY <1>3 DEF MarkDirty, MarkMissed, RedrawTypeOK, redrawFile, redrawWorld
<1>4. CASE SwitchCrews
    BY <1>4, RedrawAssumption DEF SwitchCrews, RedrawTypeOK, redrawFile, redrawLoop
<1>5. CASE TickRedraw
    BY <1>5, RedrawAssumption DEF TickRedraw, RedrawTypeOK, redrawFile, redrawWorld
<1>. QED
    BY <1>1, <1>2, <1>3, <1>4, <1>5

LEMMA StartType ==
    ASSUME RedrawTypeOK, HourlyStart \/ FreshLook \/ FreshClaim \/ AdminStart \/ CrashRedraw
    PROVE  RedrawTypeOK'
<1>1. {"hourly", "fresh", "admin"} = Workers /\ {"due", "idle", "looked"} \subseteq Stages
    BY DEF Workers, Stages
<1>2. pass' \in [Workers -> Pass]
    BY <1>1, MovesEffect, BlankMaps DEF HourlyStart, FreshLook, FreshClaim, AdminStart, CrashRedraw
<1>3. upsets' \in 0..MaxUpsets /\ since' \in 0..RebuildEvery
    BY RedrawAssumption DEF HourlyStart, FreshLook, FreshClaim, AdminStart, CrashRedraw,
       RedrawTypeOK, redrawWorld, redrawLoop
<1>4. {enabled', marking', dirty', slipped'} \subseteq BOOLEAN
    BY DEF HourlyStart, FreshLook, FreshClaim, AdminStart, CrashRedraw,
       RedrawTypeOK, redrawWorld, redrawLoop
<1>5. UNCHANGED <<ridden, disbanded, rows, inode, tmp, served>>
    BY DEF HourlyStart, FreshLook, FreshClaim, AdminStart, CrashRedraw,
       redrawWorld, redrawLoop, redrawFile
<1>. QED
    BY <1>2, <1>3, <1>4, <1>5 DEF RedrawTypeOK, Pass

LEMMA RebuildType ==
    ASSUME RedrawTypeOK, NEW w \in Workers, RebuildStep(w) \/ RebuildRaises(w)
    PROVE  RedrawTypeOK'
<1>0. pass \in [Workers -> Pass] /\ inode \in [Inodes -> File] /\ pass[w] \in Pass
      /\ ridden \in Maps
    BY DEF RedrawTypeOK, Pass, File
<1>1. CASE ReadRides(w)
  <2>1. pass' \in [Workers -> Pass]
    BY <1>0, <1>1 DEF ReadRides, Pass, Stages
  <2>. QED
    BY <1>1, <2>1 DEF ReadRides, RedrawTypeOK, redrawLoop, redrawFile, redrawWorld, Pass
<1>2. CASE ReadCrews(w)
  <2>1. pass' \in [Workers -> Pass]
    BY <1>0, <1>2 DEF ReadCrews, Pass, Stages
  <2>. QED
    BY <1>2, <2>1 DEF ReadCrews, RedrawTypeOK, redrawLoop, redrawFile, redrawWorld, Pass
<1>3. CASE CommitRows(w)
  <2>1. pass' \in [Workers -> Pass] /\ rows' \in Maps
    BY <1>3, MovesEffect, MapOfType DEF CommitRows, Stages
  <2>2. slipped' \in BOOLEAN
    BY <1>3 DEF CommitRows
  <2>. QED
    BY <1>3, <2>1, <2>2 DEF CommitRows, RedrawTypeOK, redrawLoop, redrawFile, redrawWorld, Pass
<1>4. CASE OpenTmp(w)
  <2>1. PICK i \in Inodes :
            /\ tmp' = i
            /\ inode' = [inode EXCEPT ![i] =
                  [whole |-> FALSE, map |-> Blank, shared |-> \E v \in Workers : HasOpen(v, i)]]
            /\ pass' = [pass EXCEPT ![w].at = "open", ![w].fd = i]
    BY <1>4 DEF OpenTmp
  <2>2. pass' \in [Workers -> Pass]
    BY <1>0, <2>1 DEF Pass, Stages
  <2>3. inode' \in [Inodes -> File]
    BY <1>0, <2>1, BlankMaps DEF File
  <2>. QED
    BY <1>4, <2>1, <2>2, <2>3 DEF OpenTmp, RedrawTypeOK, redrawLoop, redrawWorld, Pass, File
<1>5. CASE CloseTmp(w)
  <2>1. pass' \in [Workers -> Pass]
    BY <1>5, MovesEffect DEF CloseTmp, Stages
  <2>2. WholeFile(MapOf(w)) \in File
    BY MapOfType DEF WholeFile, File
  <2>3. inode' \in [Inodes -> File]
    BY <1>0, <1>5, <2>2 DEF CloseTmp
  <2>. QED
    BY <1>5, <2>1, <2>3 DEF CloseTmp, RedrawTypeOK, redrawLoop, redrawWorld, Pass, File
<1>6. CASE Publish(w)
  <2>1. pass' \in [Workers -> Pass] /\ inode' \in [Inodes -> File]
    BY <1>0, <1>6, BlankMaps DEF Publish
  <2>2. served' \in Inodes /\ tmp' = 0 /\ since' \in 0..RebuildEvery
    BY <1>6, RedrawAssumption DEF Publish, RedrawTypeOK
  <2>. QED
    BY <1>6, <2>1, <2>2 DEF Publish, RedrawTypeOK, redrawWorld, Pass, File
<1>7. CASE PublishNothing(w)
  <2>1. pass' \in [Workers -> Pass]
    BY <1>0, <1>7, BlankMaps DEF PublishNothing
  <2>. QED
    BY <1>7, <2>1 DEF PublishNothing, RedrawTypeOK, redrawLoop, redrawFile, redrawWorld, Pass
<1>8. CASE RebuildRaises(w)
  <2>1. pass' \in [Workers -> Pass] /\ upsets' \in 0..MaxUpsets
    BY <1>0, <1>8, BlankMaps, RedrawAssumption DEF RebuildRaises, RedrawTypeOK
  <2>. QED
    BY <1>8, <2>1 DEF RebuildRaises, RedrawTypeOK, redrawLoop, redrawFile, Pass
<1>. QED
    BY <1>1, <1>2, <1>3, <1>4, <1>5, <1>6, <1>7, <1>8 DEF RebuildStep

LEMMA RedrawTyped ==
    ASSUME RedrawTypeOK, [RedrawNext]_redrawVars
    PROVE  RedrawTypeOK'
<1>1. CASE UNCHANGED redrawVars
    BY <1>1 DEF redrawVars, redrawLoop, redrawFile, redrawWorld, RedrawTypeOK
<1>. QED
    BY <1>1, WorldType, StartType, RebuildType DEF RedrawNext

-----------------------------------------------------------------------------
(* Redraw: a ride that is not on the map. *)

\* Only the fresh pass counts: it alone takes the mark away.
FreshOwes ==
    \A c \in Drawn \ disbanded :
        rows[c] < ridden[c] => marking \/ dirty \/ slipped \/ InPass("fresh", c)

RedrawInv == RedrawTypeOK /\ FreshOwes

\* What the world does leaves a mark of its own, or slips.
LEMMA WorldOwes ==
    ASSUME RedrawInv,
           \/ \E c \in Drawn : Land(c) \/ ApproveRide(c) \/ FoldCrew(c) \/ ReturnCrew(c)
           \/ MarkDirty \/ MarkMissed \/ SwitchCrews \/ TickRedraw \/ CrashRedraw
    PROVE  FreshOwes'
<1>1. ASSUME NEW c \in Drawn, Land(c) \/ ApproveRide(c) \/ ReturnCrew(c)
      PROVE  FreshOwes'
    BY <1>1 DEF Land, ApproveRide, ReturnCrew, FreshOwes
<1>2. ASSUME NEW c \in Drawn, FoldCrew(c)
      PROVE  FreshOwes'
  <2>1. \A d \in Drawn \ disbanded' : d \in Drawn \ disbanded /\ rows'[d] = rows[d]
    BY <1>2 DEF FoldCrew, RedrawInv, RedrawTypeOK, Maps
  <2>. QED
    BY <1>2, <2>1 DEF FoldCrew, RedrawInv, FreshOwes, InPass, MapOf, redrawLoop
<1>3. CASE MarkDirty \/ MarkMissed \/ CrashRedraw
    BY <1>3 DEF MarkDirty, MarkMissed, CrashRedraw, FreshOwes
<1>4. CASE SwitchCrews \/ TickRedraw
    BY <1>4 DEF SwitchCrews, TickRedraw, RedrawInv, FreshOwes, InPass, MapOf, redrawLoop,
       redrawWorld
<1>. QED
    BY <1>1, <1>2, <1>3, <1>4

\* A step that writes no row and leaves what the fresh pass holds for a crew.
LEMMA OwesKept ==
    ASSUME RedrawInv, UNCHANGED <<ridden, disbanded, rows, marking, dirty>>,
           slipped => slipped',
           \A c \in Drawn \ disbanded : InPass("fresh", c) => slipped' \/ InPass("fresh", c)'
    PROVE  FreshOwes'
BY DEF RedrawInv, FreshOwes

LEMMA StartOwes ==
    ASSUME RedrawInv, HourlyStart \/ FreshLook \/ FreshClaim \/ AdminStart
    PROVE  FreshOwes'
<1>0. RedrawTypeOK /\ {"hourly", "fresh", "admin"} \subseteq Workers
      /\ {"due", "idle", "looked"} \subseteq Stages
    BY DEF RedrawInv, Workers, Stages
<1>1. CASE HourlyStart \/ AdminStart
  <2>1. pass'["fresh"] = pass["fresh"]
    BY <1>0, <1>1, MovesEffect DEF HourlyStart, AdminStart
  <2>. QED
    BY <1>1, <2>1, OwesKept DEF HourlyStart, AdminStart, InPass, MapOf, redrawLoop, redrawWorld
<1>2. CASE FreshLook
  <2>1. pass["fresh"].at = "idle"
    BY <1>2 DEF FreshLook, Moves
  <2>. QED
    BY <1>2, <2>1, OwesKept DEF FreshLook, InPass, redrawLoop, redrawWorld
<1>3. CASE FreshClaim
  <2>1. pass["fresh"].at = "looked"
    BY <1>3 DEF FreshClaim, Moves
  <2>2. enabled /\ dirty => pass'["fresh"].at = "due"
    BY <1>0, <1>3, MovesEffect DEF FreshClaim
  <2>. QED
    BY <1>3, <2>1, <2>2 DEF FreshClaim, RedrawInv, FreshOwes, InPass, redrawWorld
<1>. QED
    BY <1>1, <1>2, <1>3

LEMMA RebuildOwes ==
    ASSUME RedrawInv, NEW w \in Workers, RebuildStep(w) \/ RebuildRaises(w)
    PROVE  FreshOwes'
<1>0. RedrawTypeOK /\ pass \in [Workers -> Pass] /\ "fresh" \in Workers
    BY DEF RedrawInv, RedrawTypeOK, Pass, Workers
<1>1. CASE ReadRides(w)
  <2>1. /\ pass[w].at = "due"
        /\ pass' = [pass EXCEPT ![w].at = "counted", ![w].rides = ridden]
        /\ UNCHANGED <<ridden, disbanded, rows, marking, dirty, slipped>>
    BY <1>1 DEF ReadRides, redrawLoop, redrawWorld
  <2>2. CASE w = "fresh"
    <3>1. pass'["fresh"].at = "counted" /\ pass'["fresh"].rides = ridden
      BY <1>0, <2>1, <2>2 DEF Pass
    <3>. QED
      BY <2>1, <3>1, OwesKept DEF InPass
  <2>3. CASE w # "fresh"
    <3>1. pass'["fresh"] = pass["fresh"]
      BY <1>0, <2>1, <2>3
    <3>. QED
      BY <2>1, <3>1, OwesKept DEF InPass, MapOf
  <2>. QED
    BY <2>2, <2>3
<1>2. CASE ReadCrews(w)
  <2>1. /\ pass[w].at = "counted"
        /\ pass' = [pass EXCEPT ![w].at = "ready", ![w].living = Drawn \ disbanded]
        /\ UNCHANGED <<ridden, disbanded, rows, marking, dirty, slipped>>
    BY <1>2 DEF ReadCrews, redrawLoop, redrawWorld
  <2>2. CASE w = "fresh"
    <3>1. pass'["fresh"].at = "ready" /\ pass'["fresh"].rides = pass["fresh"].rides
          /\ pass'["fresh"].living = Drawn \ disbanded
      BY <1>0, <2>1, <2>2 DEF Pass
    <3>2. \A c \in Drawn \ disbanded : InPass("fresh", c) => InPass("fresh", c)'
      BY <2>1, <2>2, <3>1 DEF InPass, MapOf
    <3>. QED
      BY <2>1, <3>2, OwesKept
  <2>3. CASE w # "fresh"
    <3>1. pass'["fresh"] = pass["fresh"]
      BY <1>0, <2>1, <2>3
    <3>. QED
      BY <2>1, <3>1, OwesKept DEF InPass, MapOf
  <2>. QED
    BY <2>2, <2>3
<1>3. CASE CommitRows(w)
  <2>1. /\ pass[w].at = "ready" /\ rows' = MapOf(w)
        /\ slipped' = (rows' # Truth /\ (slipped \/ \E c \in Drawn : rows'[c] < rows[c]))
        /\ UNCHANGED <<ridden, disbanded, marking, dirty>>
    BY <1>3 DEF CommitRows, Moves, redrawLoop, redrawWorld
  <2> SUFFICES ASSUME NEW c \in Drawn \ disbanded, rows'[c] < ridden[c], ~marking, ~dirty
               PROVE  slipped' \/ InPass("fresh", c)'
    BY <2>1 DEF FreshOwes
  <2>2. rows'[c] \in Nat /\ rows[c] \in Nat /\ ridden[c] \in Nat
    BY <1>0, <2>1, MapOfType, RedrawAssumption DEF RedrawTypeOK, Maps
  <2>3. rows' # Truth
    BY <2>2 DEF Truth
  <2>4. CASE ~(rows[c] < ridden[c])
    <3>1. rows'[c] < rows[c]
      BY <2>2, <2>4
    <3>2. \E d \in Drawn : rows'[d] < rows[d]
      BY <3>1
    <3>. QED
      BY <2>1, <2>3, <3>2
  <2>5. CASE slipped
    BY <2>1, <2>3, <2>5
  <2>6. CASE InPass("fresh", c)
    <3>1. w # "fresh"
      BY <2>1, <2>2, <2>6 DEF InPass
    <3>2. pass'["fresh"] = pass["fresh"]
      BY <1>0, <1>3, <3>1, MovesEffect DEF CommitRows, Stages
    <3>. QED
      BY <2>1, <2>6, <3>2 DEF InPass, MapOf
  <2>. QED
    BY <2>4, <2>5, <2>6 DEF RedrawInv, FreshOwes
<1>4. CASE OpenTmp(w) \/ CloseTmp(w) \/ Publish(w) \/ PublishNothing(w)
  <2>1. pass[w].at \in {"written", "open", "closed"}
        /\ UNCHANGED <<ridden, disbanded, rows, marking, dirty, slipped>>
    BY <1>4 DEF OpenTmp, CloseTmp, Publish, PublishNothing, Moves, redrawLoop, redrawWorld
  <2>2. w # "fresh" => pass'["fresh"] = pass["fresh"]
    BY <1>0, <1>4 DEF OpenTmp, CloseTmp, Publish, PublishNothing, Moves
  <2>3. \A c \in Drawn \ disbanded : InPass("fresh", c) => InPass("fresh", c)'
    BY <2>1, <2>2 DEF InPass, MapOf
  <2>. QED
    BY <2>1, <2>3, OwesKept
<1>5. CASE RebuildRaises(w)
  <2>1. pass' = [pass EXCEPT ![w] = Idle]
        /\ slipped' = (slipped \/ w = "fresh")
        /\ UNCHANGED <<ridden, disbanded, rows, marking, dirty>>
    BY <1>5 DEF RebuildRaises, redrawLoop
  <2>2. w # "fresh" => pass'["fresh"] = pass["fresh"]
    BY <1>0, <2>1
  <2>3. \A c \in Drawn \ disbanded : InPass("fresh", c) => slipped' \/ InPass("fresh", c)'
    BY <2>1, <2>2 DEF InPass, MapOf
  <2>. QED
    BY <2>1, <2>3, OwesKept
<1>. QED
    BY <1>1, <1>2, <1>3, <1>4, <1>5 DEF RebuildStep

LEMMA RedrawInitSound == RedrawInit => RedrawInv
<1> SUFFICES ASSUME RedrawInit PROVE RedrawInv
    OBVIOUS
<1>1. pass \in [Workers -> Pass] /\ inode \in [Inodes -> File]
    BY BlankMaps DEF RedrawInit
<1>2. tmp \in Inodes \cup {0} /\ served \in Inodes /\ since \in 0..RebuildEvery
      /\ upsets \in 0..MaxUpsets
    BY RedrawAssumption DEF RedrawInit, Inodes
<1>3. RedrawTypeOK
    BY <1>1, <1>2, BlankMaps DEF RedrawInit, RedrawTypeOK, Pass, File
<1>4. \A c \in Drawn : rows[c] = 0 /\ ridden[c] = 0
    BY DEF RedrawInit, Blank
<1>. QED
    BY <1>3, <1>4 DEF RedrawInv, FreshOwes

\* However the hourly pass, the fresh pass and the admin's overlap with uploads,
\* folds and each other, a ride that is not on the map yet is marked, or being
\* marked, or in a pass, unless something left it to the hourly pass.
THEOREM OwedCorrect == RedrawSpec => []RideIsOwed
<1>1. RedrawInv /\ [RedrawNext]_redrawVars => RedrawInv'
  <2> SUFFICES ASSUME RedrawInv, [RedrawNext]_redrawVars PROVE RedrawInv'
    OBVIOUS
  <2>1. RedrawTypeOK'
    BY RedrawTyped DEF RedrawInv
  <2>2. ASSUME UNCHANGED redrawVars PROVE FreshOwes'
    BY <2>2, OwesKept DEF redrawVars, redrawLoop, redrawFile, redrawWorld, InPass, MapOf
  <2>3. FreshOwes'
    BY <2>2, WorldOwes, StartOwes, RebuildOwes DEF RedrawNext
  <2>. QED
    BY <2>1, <2>3 DEF RedrawInv
<1>2. RedrawInv => RideIsOwed
    BY DEF RedrawInv, FreshOwes, RideIsOwed, Workers
<1>. QED
    BY <1>1, <1>2, RedrawInitSound, PTL DEF RedrawSpec

-----------------------------------------------------------------------------
(* Redraw: the file that is served. *)

\* At most one pass is between opening the temporary file and moving it.
OneWrites ==
    \A v, w \in Workers : {pass[v].at, pass[w].at} \subseteq {"open", "closed"} => v = w

\* The pass that writes has the one temporary file, and alone.
FileInv ==
    /\ NoHalfMap /\ tmp # served
    /\ \A w \in Workers :
          /\ pass[w].at \in {"open", "closed"} => tmp = pass[w].fd /\ tmp \in Inodes
          /\ pass[w].at = "open" => ~inode[tmp].shared
          /\ pass[w].at = "closed" => inode[tmp].whole

\* A step that neither opens, closes nor moves a file brings no pass to where it writes.
LEMMA FileKept ==
    ASSUME FileInv, UNCHANGED redrawFile,
           \A w \in Workers : pass'[w] = pass[w] \/ pass'[w].at \notin {"open", "closed"}
    PROVE  FileInv'
BY DEF FileInv, NoHalfMap, redrawFile

LEMMA FileStep ==
    ASSUME RedrawTypeOK, FileInv, OneWrites, OneWrites', [RedrawNext]_redrawVars
    PROVE  FileInv'
<1>0. /\ pass \in [Workers -> Pass] /\ inode \in [Inodes -> File]
      /\ tmp \in Inodes \cup {0} /\ served \in Inodes
      /\ 0 \notin Inodes
    BY DEF RedrawTypeOK, Pass, File, Inodes
<1>1. CASE UNCHANGED redrawVars
    BY <1>1, FileKept DEF redrawVars
<1>2. ASSUME NEW c \in Drawn, Land(c) \/ ApproveRide(c) \/ FoldCrew(c) \/ ReturnCrew(c)
      PROVE  FileInv'
    BY <1>2, FileKept DEF Land, ApproveRide, FoldCrew, ReturnCrew
<1>3. CASE MarkDirty \/ MarkMissed \/ SwitchCrews \/ TickRedraw
    BY <1>3, FileKept DEF MarkDirty, MarkMissed, SwitchCrews, TickRedraw
<1>4. CASE HourlyStart \/ FreshLook \/ FreshClaim \/ AdminStart
  <2>1. PICK w \in Workers, to \in {"looked", "due", "idle"} : \E from : Moves(w, from, to)
      BY <1>4 DEF HourlyStart, FreshLook, FreshClaim, AdminStart, Workers
  <2>2. \A v \in Workers : pass'[v] = pass[v] \/ pass'[v].at \notin {"open", "closed"}
      BY <2>1, <1>0, MovesEffect DEF Stages
  <2>3. UNCHANGED redrawFile
      BY <1>4 DEF HourlyStart, FreshLook, FreshClaim, AdminStart
  <2>. QED
      BY <2>2, <2>3, FileKept
<1>5. CASE CrashRedraw
    BY <1>5, FileKept, BlankMaps DEF CrashRedraw
<1>6. ASSUME NEW w \in Workers,
             ReadRides(w) \/ ReadCrews(w) \/ CommitRows(w) \/ PublishNothing(w) \/ RebuildRaises(w)
      PROVE  FileInv'
  <2>1. UNCHANGED redrawFile
      BY <1>6 DEF ReadRides, ReadCrews, CommitRows, PublishNothing, RebuildRaises
  <2>2. /\ \A v \in Workers \ {w} : pass'[v] = pass[v]
        /\ pass'[w].at \in {"counted", "ready", "written", "idle"}
      BY <1>0, <1>6, BlankMaps DEF ReadRides, ReadCrews, CommitRows, Moves, PublishNothing,
         RebuildRaises, Pass
  <2>. QED
      BY <2>1, <2>2, FileKept
<1>7. ASSUME NEW w \in Workers, OpenTmp(w)
      PROVE  FileInv'
  <2>1. PICK i \in Inodes :
            /\ IF tmp # 0 THEN i = tmp ELSE Unused(i)
            /\ tmp' = i
            /\ inode' = [inode EXCEPT ![i] =
                  [whole |-> FALSE, map |-> Blank, shared |-> \E v \in Workers : HasOpen(v, i)]]
            /\ pass' = [pass EXCEPT ![w].at = "open", ![w].fd = i]
      BY <1>7 DEF OpenTmp
  <2>2. i # served /\ served' = served /\ pass[w].at = "written"
      BY <1>7, <2>1 DEF OpenTmp, Unused, FileInv
  <2>3. /\ pass'[w].at = "open" /\ pass'[w].fd = i
        /\ \A v \in Workers \ {w} : pass'[v] = pass[v]
      BY <1>0, <2>1 DEF Pass
  <2>4. \A v \in Workers \ {w} : pass[v].at \notin {"open", "closed"}
      BY <2>3 DEF OneWrites
  <2>5. ~\E v \in Workers : HasOpen(v, i)
      BY <2>2, <2>4 DEF HasOpen
  <2>6. inode'[i].shared = FALSE /\ inode'[served] = inode[served]
      BY <1>0, <2>1, <2>2, <2>5
  <2>. QED
      BY <1>0, <2>1, <2>2, <2>3, <2>4, <2>6 DEF FileInv, NoHalfMap
<1>8. ASSUME NEW w \in Workers, CloseTmp(w)
      PROVE  FileInv'
  <2>1. /\ pass[w].at = "open" /\ pass'[w].at = "closed" /\ pass'[w].fd = pass[w].fd
        /\ \A v \in Workers \ {w} : pass'[v] = pass[v]
      BY <1>8, MovesEffect DEF CloseTmp, Stages
  <2>2. tmp' = tmp /\ served' = served /\ tmp = pass[w].fd /\ tmp \in Inodes /\ ~inode[tmp].shared
      BY <1>8, <2>1 DEF CloseTmp, FileInv
  <2>3. \A v \in Workers \ {w} : pass[v].at \notin {"open", "closed"}
      BY <2>1 DEF OneWrites
  <2>4. inode' = [inode EXCEPT ![tmp] = WholeFile(MapOf(w))]
      BY <1>8, <2>2, <2>3 DEF CloseTmp, HasOpen
  <2>5. inode'[tmp].whole /\ inode'[served] = inode[served]
      BY <1>0, <2>2, <2>4 DEF WholeFile, FileInv
  <2>. QED
      BY <2>1, <2>2, <2>3, <2>5 DEF FileInv, NoHalfMap
<1>9. ASSUME NEW w \in Workers, Publish(w)
      PROVE  FileInv'
  <2>1. /\ pass[w].at = "closed" /\ served' = tmp /\ tmp' = 0 /\ tmp \in Inodes
        /\ inode' = [inode EXCEPT ![served] = WholeFile(Blank)]
        /\ pass' = [pass EXCEPT ![w] = Idle]
      BY <1>9 DEF Publish, FileInv
  <2>2. \A v \in Workers : pass'[v].at \notin {"open", "closed"}
      BY <1>0, <2>1, BlankMaps DEF OneWrites
  <2>3. tmp # served /\ inode[tmp].whole
      BY <2>1 DEF FileInv
  <2>4. inode'[tmp] = inode[tmp]
      BY <1>0, <2>1, <2>3
  <2>. QED
      BY <1>0, <2>1, <2>2, <2>3, <2>4 DEF FileInv, NoHalfMap
<1>. QED
    BY <1>1, <1>2, <1>3, <1>4, <1>5, <1>6, <1>7, <1>8, <1>9 DEF RedrawNext, RebuildStep

\* The served map is a whole file as long as no two passes are between opening
\* the temporary file and moving it over the map, however passes raise and the
\* process dies: overlapping writes are all that is wrong with "atomic: a reader
\* never sees half a file".
THEOREM AloneNeverHalf == RedrawSpec /\ []OneWrites => []NoHalfMap
<1>1. RedrawInit => FileInv
    BY BlankMaps DEF RedrawInit, FileInv, NoHalfMap, WholeFile, Inodes
<1>2. RedrawTypeOK /\ FileInv /\ OneWrites /\ OneWrites' /\ [RedrawNext]_redrawVars => FileInv'
    BY FileStep
<1>3. FileInv => NoHalfMap
    BY DEF FileInv
<1>4. RedrawSpec => []RedrawTypeOK
  <2>1. RedrawInit => RedrawTypeOK
      BY RedrawInitSound DEF RedrawInv
  <2>. QED
      BY <2>1, RedrawTyped, PTL DEF RedrawSpec
<1>. QED
    BY <1>1, <1>2, <1>3, <1>4, PTL DEF RedrawSpec

-----------------------------------------------------------------------------
(* Announcements: the queue, the snapshot and what has been told. *)

Message == Names \X (0..Rungs)
Seen == [seen: BOOLEAN, patch: BOOLEAN, rung: 0..Rungs]

TellTypes ==
    /\ snapshot \in [Names -> Seen] /\ outbox \in Seq(Message)
    /\ spoken \in [Names -> 0..Rungs] /\ before \in [Names -> Grounds]
    /\ unwatched \in BOOLEAN

\* The snapshot remembers at least what was told.
SpokenBelow == \A s \in Names : spoken[s] <= snapshot[s].rung

\* A rung in the queue is new, is in the snapshot, and is its crew's only one.
QueueRight ==
    \A i \in DOMAIN outbox : outbox[i][2] > 0 =>
        /\ spoken[outbox[i][1]] < outbox[i][2]
        /\ outbox[i][2] <= snapshot[outbox[i][1]].rung
        /\ \A j \in DOMAIN outbox :
              outbox[j][2] > 0 /\ outbox[j][1] = outbox[i][1] => j = i

\* The snapshot is of the redraw before.
SnapshotFresh ==
    ~unwatched => \A s \in Names : snapshot[s].seen => Rung(before[s]) <= snapshot[s].rung

TellInv == TellTypes /\ SpokenBelow /\ QueueRight /\ SnapshotFresh

\* SetToSeq names every member of a finite set once.
LEMMA SequenceOf ==
    ASSUME NEW S, IsFiniteSet(S)
    PROVE  /\ Cardinality(S) \in Nat /\ SetToSeq(S) \in [1..Cardinality(S) -> S]
           /\ \A i, j \in 1..Cardinality(S) : SetToSeq(S)[i] = SetToSeq(S)[j] => i = j
<1>1. Cardinality(S) \in Nat /\ ExistsBijection(1..Cardinality(S), S)
    BY FS_CardinalityType
<1>2. \E f \in [1..Cardinality(S) -> S] : IsInjective(f)
    BY <1>1 DEF ExistsBijection, Bijection, Injection
<1>3. SetToSeq(S) \in [1..Cardinality(S) -> S] /\ IsInjective(SetToSeq(S))
    BY <1>2 DEF SetToSeq
<1>. QED
    BY <1>1, <1>3 DEF IsInjective

LEMMA TakenFinite ==
    ASSUME NEW S \in SUBSET {s \in Names : SlugTaken(s)}
    PROVE  IsFiniteSet(S)
<1>1. IsFiniteSet({slugOf[c] : c \in Told})
  <2> DEFINE f == [c \in Told |-> slugOf[c]]
             T == {slugOf[c] : c \in Told}
  <2>1. f \in Surjection(Told, T)
    BY DEF Surjection
  <2> HIDE DEF f, T
  <2>2. IsFiniteSet(T)
    BY <2>1, AnnouncementsAssumption, FS_Surjection
  <2>. QED
    BY <2>2 DEF T
<1>2. S \subseteq {slugOf[c] : c \in Told}
    BY DEF SlugTaken
<1>. QED
    BY <1>1, <1>2, FS_Subset

LEMMA RungType ==
    ASSUME NEW g \in Grounds
    PROVE  Rung(g) \in 0..Rungs
BY AnnouncementsAssumption DEF Grounds, Rung

LEMMA ReachedType ==
    ASSUME TellTypes, NEW s \in Names, NEW g \in Grounds
    PROVE  /\ Reached(s, g) \in 0..Rungs
           /\ snapshot[s].rung <= Reached(s, g) /\ Rung(g) <= Reached(s, g)
<1>1. Rung(g) \in 0..Rungs /\ snapshot[s].rung \in 0..Rungs
    BY RungType DEF TellTypes, Seen
<1>. QED
    BY <1>1, AnnouncementsAssumption DEF Reached

\* A redraw that is watched goes by without a crew on the slug.
Forgotten(s) == ~SlugTaken(s) /\ ~snapshot'[s].seen

\* A redraw with a switch on: the snapshot is taken, and what is queued is first
\* patches and rungs nobody has been told of.
LEMMA RedrawTells ==
    ASSUME TellInv, RedrawTold, posting, toggles # {}
    PROVE  /\ TellInv'
           /\ \A s \in Names : spoken'[s] < spoken[s] => Forgotten(s)
           /\ ~unwatched => \A i \in DOMAIN outbox' \ DOMAIN outbox :
                LET s == outbox'[i][1] IN outbox'[i][2] > 0 => Rung(before[s]) < outbox'[i][2]
<1>0. TellTypes /\ SpokenBelow /\ SnapshotFresh
    BY DEF TellInv
<1>1. PICK new \in [Told -> Grounds] :
        /\ before' = [s \in Names |-> IF SlugTaken(s) THEN new[CrewOn(s)] ELSE 0]
        /\ LET held(s) == new[CrewOn(s)]
               firsts == SetToSeq({s \in Names : SlugTaken(s) /\ FirstPatch(s, held(s))})
               rungs == SetToSeq({s \in Names : SlugTaken(s) /\ NewRung(s, held(s))})
           IN  /\ snapshot' = [s \in Names |-> IF SlugTaken(s) THEN Entry(s, new) ELSE Unseen]
               /\ outbox' = [i \in DOMAIN firsts |-> <<firsts[i], 0>>]
                     \o [i \in DOMAIN rungs |-> <<rungs[i], Reached(rungs[i], held(rungs[i]))>>]
               /\ spoken' = [s \in Names |-> IF SlugTaken(s) THEN spoken[s] ELSE 0]
               /\ UNCHANGED unwatched
    BY DEF RedrawTold
<1> DEFINE held(s) == new[CrewOn(s)]
           A == {s \in Names : SlugTaken(s) /\ FirstPatch(s, held(s))}
           B == {s \in Names : SlugTaken(s) /\ NewRung(s, held(s))}
           firsts == SetToSeq(A)
           rungs == SetToSeq(B)
           m == Cardinality(A)
           n == Cardinality(B)
<1>2. ASSUME NEW s \in Names, SlugTaken(s)
      PROVE  held(s) \in Grounds
    BY <1>2 DEF SlugTaken, CrewOn
<1>3. /\ m \in Nat /\ firsts \in [1..m -> A]
      /\ n \in Nat /\ rungs \in [1..n -> B]
      /\ \A i, j \in 1..n : rungs[i] = rungs[j] => i = j
    BY TakenFinite, SequenceOf
<1>4. /\ \A s \in A : s \in Names /\ SlugTaken(s)
      /\ \A s \in B : s \in Names /\ SlugTaken(s) /\ NewRung(s, held(s))
    OBVIOUS
<1>5. outbox' = [i \in 1..m |-> <<firsts[i], 0>>]
                  \o [i \in 1..n |-> <<rungs[i], Reached(rungs[i], held(rungs[i]))>>]
  <2>1. DOMAIN firsts = 1..m /\ DOMAIN rungs = 1..n
    BY <1>3
  <2>. QED
    BY <1>1, <2>1
<1>6. \A s \in Names : /\ before'[s] = IF SlugTaken(s) THEN held(s) ELSE 0
                       /\ spoken'[s] = IF SlugTaken(s) THEN spoken[s] ELSE 0
                       /\ snapshot'[s] = IF SlugTaken(s) THEN Entry(s, new) ELSE Unseen
    BY <1>1
<1>7. unwatched' = unwatched
    BY <1>1
<1>8. ASSUME NEW s \in Names, SlugTaken(s)
      PROVE  /\ Entry(s, new) \in Seen /\ Entry(s, new).rung = Reached(s, held(s))
             /\ Reached(s, held(s)) \in 0..Rungs
             /\ snapshot[s].rung <= Reached(s, held(s)) /\ Rung(held(s)) <= Reached(s, held(s))
    BY <1>0, <1>2, <1>8, ReachedType DEF Entry, Seen
<1>9. before' \in [Names -> Grounds] /\ spoken' \in [Names -> 0..Rungs]
      /\ snapshot' \in [Names -> Seen]
  <2>1. 0 \in Grounds /\ 0 \in 0..Rungs /\ Unseen \in Seen
    BY AnnouncementsAssumption DEF Grounds, Unseen, Seen
  <2>2. \A s \in Names : spoken[s] \in 0..Rungs
    BY <1>0 DEF TellTypes
  <2>3. \A s \in Names : before'[s] \in Grounds /\ spoken'[s] \in 0..Rungs /\ snapshot'[s] \in Seen
    BY <1>2, <1>6, <1>8, <2>1, <2>2
  <2>. QED
    BY <1>1, <2>3
<1>10. \A s \in B : Reached(s, held(s)) > snapshot[s].rung /\ snapshot[s].seen
    BY <1>4 DEF NewRung
<1> HIDE DEF held, A, B, firsts, rungs, m, n
<1>11. /\ outbox' \in Seq(Message) /\ DOMAIN outbox' = 1..(m + n)
       /\ \A i \in 1..m : outbox'[i] = <<firsts[i], 0>>
       /\ \A i \in 1..n : outbox'[m + i] = <<rungs[i], Reached(rungs[i], held(rungs[i]))>>
  <2> DEFINE p == [i \in 1..m |-> <<firsts[i], 0>>]
             q == [i \in 1..n |-> <<rungs[i], Reached(rungs[i], held(rungs[i]))>>]
  <2>1. \A i \in 1..m : p[i] \in Message
    BY <1>3, <1>4, AnnouncementsAssumption DEF Message
  <2>2. \A i \in 1..n : q[i] \in Message
    BY <1>3, <1>4, <1>8 DEF Message
  <2>3. p \in Seq(Message) /\ Len(p) = m /\ q \in Seq(Message) /\ Len(q) = n
    BY <1>3, <2>1, <2>2
  <2>4. outbox' = p \o q
    BY <1>5
  <2>5. /\ outbox' \in Seq(Message) /\ DOMAIN outbox' = 1..(m + n)
        /\ \A i \in 1..m : outbox'[i] = p[i]
        /\ \A i \in 1..n : outbox'[m + i] = q[i]
    <3> HIDE DEF p, q
    <3>1. /\ p \o q \in Seq(Message) /\ Len(p \o q) = m + n
          /\ \A i \in 1..(m + n) : (p \o q)[i] = IF i <= m THEN p[i] ELSE q[i - m]
      BY <2>3, ConcatProperties
    <3>2. DOMAIN (p \o q) = 1..(m + n)
      BY <3>1
    <3>3. \A i \in 1..m : i \in 1..(m + n) /\ i <= m
      BY <1>3
    <3>4. \A i \in 1..n : m + i \in 1..(m + n) /\ ~(m + i <= m) /\ (m + i) - m = i
      BY <1>3
    <3>. QED
      BY <2>4, <3>1, <3>2, <3>3, <3>4
  <2>. QED
    BY <2>5
<1>12. ASSUME NEW i \in DOMAIN outbox', outbox'[i][2] > 0
       PROVE  \E k \in 1..n : i = m + k /\ outbox'[i][1] = rungs[k]
                              /\ outbox'[i][2] = Reached(rungs[k], held(rungs[k]))
  <2>1. CASE i \in 1..m
    BY <1>11, <1>12, <2>1
  <2>2. CASE i \notin 1..m
    <3>1. i - m \in 1..n /\ i = m + (i - m)
      BY <1>3, <1>11, <2>2
    <3>. QED
      BY <1>11, <3>1
  <2>. QED
    BY <2>1, <2>2
<1>13. TellTypes'
    BY <1>0, <1>7, <1>9, <1>11 DEF TellTypes
<1>14. ASSUME NEW s \in Names
       PROVE  spoken'[s] <= snapshot'[s].rung /\ spoken'[s] <= spoken[s]
              /\ (spoken'[s] < spoken[s] => Forgotten(s))
  <2>1. spoken[s] \in 0..Rungs /\ snapshot[s].rung \in 0..Rungs /\ spoken[s] <= snapshot[s].rung
    BY <1>0 DEF TellTypes, Seen, SpokenBelow
  <2>2. CASE SlugTaken(s)
    BY <1>6, <1>8, <2>1, <2>2
  <2>3. CASE ~SlugTaken(s)
    BY <1>6, <2>1, <2>3 DEF Unseen, Forgotten
  <2>. QED
    BY <2>2, <2>3
<1>15. QueueRight'
  <2> SUFFICES ASSUME NEW i \in DOMAIN outbox', outbox'[i][2] > 0
               PROVE  /\ spoken'[outbox'[i][1]] < outbox'[i][2]
                      /\ outbox'[i][2] <= snapshot'[outbox'[i][1]].rung
                      /\ \A j \in DOMAIN outbox' :
                            outbox'[j][2] > 0 /\ outbox'[j][1] = outbox'[i][1] => j = i
    BY DEF QueueRight
  <2>1. PICK k \in 1..n : i = m + k /\ outbox'[i][1] = rungs[k]
                          /\ outbox'[i][2] = Reached(rungs[k], held(rungs[k]))
    BY <1>12
  <2>2. rungs[k] \in B /\ rungs[k] \in Names /\ SlugTaken(rungs[k])
    BY <1>3, <1>4
  <2>3. /\ spoken[rungs[k]] \in Nat /\ spoken'[rungs[k]] \in Nat
        /\ snapshot[rungs[k]].rung \in Nat /\ Reached(rungs[k], held(rungs[k])) \in Nat
        /\ spoken[rungs[k]] <= snapshot[rungs[k]].rung
    BY <1>0, <1>8, <1>9, <2>2 DEF TellTypes, Seen, SpokenBelow
  <2>4. spoken'[rungs[k]] < Reached(rungs[k], held(rungs[k]))
    BY <1>10, <1>14, <2>2, <2>3
  <2>5. snapshot'[rungs[k]].rung = Reached(rungs[k], held(rungs[k]))
    BY <1>6, <1>8, <2>2
  <2>6. ASSUME NEW j \in DOMAIN outbox', outbox'[j][2] > 0, outbox'[j][1] = outbox'[i][1]
        PROVE  j = i
    <3>1. PICK l \in 1..n : j = m + l /\ outbox'[j][1] = rungs[l]
      BY <1>12, <2>6
    <3>. QED
      BY <1>3, <2>1, <2>6, <3>1
  <2>. QED
    BY <2>1, <2>3, <2>4, <2>5, <2>6
<1>16. SnapshotFresh'
  <2> SUFFICES ASSUME NEW s \in Names, snapshot'[s].seen
               PROVE  Rung(before'[s]) <= snapshot'[s].rung
    BY DEF SnapshotFresh
  <2>1. SlugTaken(s)
    BY <1>6 DEF Unseen
  <2>. QED
    BY <1>6, <1>8, <2>1
<1>17. ASSUME ~unwatched, NEW i \in DOMAIN outbox' \ DOMAIN outbox, outbox'[i][2] > 0
       PROVE  Rung(before[outbox'[i][1]]) < outbox'[i][2]
  <2>1. PICK k \in 1..n : outbox'[i][1] = rungs[k]
                          /\ outbox'[i][2] = Reached(rungs[k], held(rungs[k]))
    BY <1>12, <1>17
  <2>2. rungs[k] \in B /\ rungs[k] \in Names /\ SlugTaken(rungs[k])
    BY <1>3, <1>4
  <2>3. Rung(before[rungs[k]]) \in Nat /\ snapshot[rungs[k]].rung \in Nat
        /\ Reached(rungs[k], held(rungs[k])) \in Nat
    BY <1>0, <1>8, <2>2, RungType DEF TellTypes, Seen
  <2>4. Rung(before[rungs[k]]) <= snapshot[rungs[k]].rung
    BY <1>0, <1>10, <1>17, <2>2 DEF SnapshotFresh
  <2>. QED
    BY <1>10, <2>1, <2>2, <2>3, <2>4
<1>. QED
    BY <1>13, <1>14, <1>15, <1>16, <1>17 DEF TellInv, SpokenBelow

LEMMA RedrawIsSilent ==
    ASSUME TellInv, RedrawTold, ~(posting /\ toggles # {})
    PROVE  TellInv' /\ UNCHANGED <<outbox, spoken>>
<1>1. PICK new \in [Told -> Grounds] :
        /\ before' = [s \in Names |-> IF SlugTaken(s) THEN new[CrewOn(s)] ELSE 0]
        /\ unwatched' = TRUE /\ UNCHANGED <<snapshot, outbox, spoken>>
    BY DEF RedrawTold
<1>2. 0 \in Grounds /\ \A s \in Names : SlugTaken(s) => new[CrewOn(s)] \in Grounds
    BY AnnouncementsAssumption DEF SlugTaken, CrewOn, Grounds
<1>3. before' \in [Names -> Grounds]
    BY <1>1, <1>2
<1>. QED
    BY <1>1, <1>3 DEF TellInv, TellTypes, SpokenBelow, QueueRight, SnapshotFresh

\* The rung that is told next, if it is a rung, is above those told before.
HeadIsNew == LET s == Head(outbox)[1] r == Head(outbox)[2] IN r > 0 => spoken[s] < r

LEMMA SendTells ==
    ASSUME TellInv, SendMessage
    PROVE  /\ TellInv'
           /\ HeadIsNew /\ \A s \in Names : ~(spoken'[s] < spoken[s])
           /\ DOMAIN outbox' \subseteq DOMAIN outbox
<1> DEFINE s == Head(outbox)[1]
           r == Head(outbox)[2]
<1>1. /\ outbox # <<>> /\ outbox' = Tail(outbox) /\ outbox \in Seq(Message)
      /\ spoken' = [spoken EXCEPT ![s] = IF r > 0 THEN r ELSE spoken[s]]
      /\ UNCHANGED <<snapshot, before, unwatched>>
    BY DEF SendMessage, TellInv, TellTypes
<1>2. /\ Head(outbox) \in Message /\ Head(outbox) = outbox[1] /\ 1 \in DOMAIN outbox
      /\ outbox' \in Seq(Message) /\ Len(outbox') = Len(outbox) - 1
      /\ \A i \in DOMAIN outbox' : outbox'[i] = outbox[i + 1] /\ i + 1 \in DOMAIN outbox /\ i \in DOMAIN outbox
      /\ \A i \in DOMAIN outbox' : i \in Nat /\ i >= 1
  <2>1. Head(outbox) \in Message /\ Head(outbox) = outbox[1] /\ 1 \in DOMAIN outbox
    BY <1>1
  <2>2. /\ Tail(outbox) \in Seq(Message) /\ Len(Tail(outbox)) = Len(outbox) - 1
        /\ \A i \in 1..Len(Tail(outbox)) : Tail(outbox)[i] = outbox[i + 1]
    BY <1>1, HeadTailProperties
  <2>3. DOMAIN outbox = 1..Len(outbox) /\ DOMAIN outbox' = 1..Len(outbox') /\ Len(outbox) \in Nat
    BY <1>1, <2>2
  <2>. QED
    BY <1>1, <2>1, <2>2, <2>3
<1>3. s \in Names /\ r \in 0..Rungs
    BY <1>2 DEF Message
<1>4. r > 0 => /\ spoken[s] < r /\ r <= snapshot[s].rung
               /\ \A j \in DOMAIN outbox : outbox[j][2] > 0 /\ outbox[j][1] = s => j = 1
    BY <1>2 DEF TellInv, QueueRight
<1>12. HeadIsNew
    BY <1>4 DEF HeadIsNew
<1> HIDE DEF s, r
<1>5. spoken \in [Names -> 0..Rungs]
    BY DEF TellInv, TellTypes
<1>6. /\ spoken' \in [Names -> 0..Rungs]
      /\ spoken'[s] = IF r > 0 THEN r ELSE spoken[s]
      /\ \A x \in Names \ {s} : spoken'[x] = spoken[x]
    BY <1>1, <1>3, <1>5
<1>7. \A x \in Names : ~(spoken'[x] < spoken[x])
    BY <1>3, <1>4, <1>5, <1>6
<1>8. TellTypes'
    BY <1>1, <1>2, <1>6 DEF TellInv, TellTypes
<1>9. SpokenBelow'
    BY <1>1, <1>3, <1>4, <1>6 DEF TellInv, SpokenBelow
<1>10. SnapshotFresh'
    BY <1>1 DEF TellInv, SnapshotFresh
<1>11. QueueRight'
  <2> SUFFICES ASSUME NEW i \in DOMAIN outbox', outbox'[i][2] > 0
               PROVE  /\ spoken'[outbox'[i][1]] < outbox'[i][2]
                      /\ outbox'[i][2] <= snapshot'[outbox'[i][1]].rung
                      /\ \A j \in DOMAIN outbox' :
                            outbox'[j][2] > 0 /\ outbox'[j][1] = outbox'[i][1] => j = i
    BY DEF QueueRight
  <2>1. i + 1 \in DOMAIN outbox /\ outbox'[i] = outbox[i + 1] /\ i + 1 # 1 /\ i \in Nat
    BY <1>2
  <2>2. /\ spoken[outbox'[i][1]] < outbox'[i][2]
        /\ outbox'[i][2] <= snapshot[outbox'[i][1]].rung
        /\ \A j \in DOMAIN outbox : outbox[j][2] > 0 /\ outbox[j][1] = outbox'[i][1] => j = i + 1
    BY <2>1 DEF TellInv, QueueRight
  <2>3. outbox'[i][1] \in Names
    BY <1>2 DEF Message
  <2>4. spoken'[outbox'[i][1]] = spoken[outbox'[i][1]]
    <3>1. CASE outbox'[i][1] # s
        BY <1>6, <2>3, <3>1
    <3>2. CASE outbox'[i][1] = s /\ r > 0
        BY <1>4, <2>1, <3>2
    <3>3. CASE outbox'[i][1] = s /\ ~(r > 0)
        BY <1>6, <3>3
    <3>. QED
        BY <3>1, <3>2, <3>3
  <2>5. ASSUME NEW j \in DOMAIN outbox', outbox'[j][2] > 0, outbox'[j][1] = outbox'[i][1]
        PROVE  j = i
    <3>1. j + 1 \in DOMAIN outbox /\ outbox'[j] = outbox[j + 1] /\ j \in Nat
      BY <1>2
    <3>2. j + 1 = i + 1
      BY <2>2, <2>5, <3>1
    <3>. QED
      BY <2>1, <3>1, <3>2
  <2>. QED
    BY <1>1, <2>2, <2>4, <2>5
<1>. QED
    BY <1>2, <1>7, <1>8, <1>9, <1>10, <1>11, <1>12 DEF TellInv

LEMMA TellStep ==
    ASSUME TellInv, [TgNext]_tgVars
    PROVE  /\ TellInv'
           /\ (SendMessage => HeadIsNew)
           /\ \A s \in Names : spoken'[s] < spoken[s] => Forgotten(s)
           /\ ~unwatched => \A i \in DOMAIN outbox' \ DOMAIN outbox :
                LET s == outbox'[i][1] IN outbox'[i][2] > 0 => Rung(before[s]) < outbox'[i][2]
<1>0. /\ SendMessage => HeadIsNew
      /\ UNCHANGED spoken => \A s \in Names : ~(spoken'[s] < spoken[s])
    BY SendTells, AnnouncementsAssumption DEF TellInv, TellTypes
<1>1. CASE UNCHANGED <<snapshot, outbox, spoken, before, unwatched>>
    BY <1>0, <1>1 DEF TellInv, TellTypes, SpokenBelow, QueueRight, SnapshotFresh
<1>2. CASE CrashTold
  <2>1. outbox' = <<>> /\ UNCHANGED <<snapshot, spoken, before, unwatched>>
    BY <1>2 DEF CrashTold, tgCrewHistory
  <2>2. DOMAIN outbox' = {} /\ outbox' \in Seq(Message)
    BY <2>1
  <2>. QED
    BY <1>0, <2>1, <2>2 DEF TellInv, TellTypes, SpokenBelow, QueueRight, SnapshotFresh
<1>3. CASE RedrawTold
    BY <1>0, <1>3, RedrawTells, RedrawIsSilent
<1>4. CASE SendMessage
    BY <1>4, SendTells
<1>5. CASE TurnSwitch \/ UNCHANGED tgVars
           \/ \E c \in Told : TellFound(c) \/ TellFold(c) \/ TellReturn(c)
    BY <1>1, <1>5 DEF TurnSwitch, TellFound, TellFold, TellReturn, tgVars, tgCrewVars, tgCrewHistory
<1>. QED
    BY <1>2, <1>3, <1>4, <1>5 DEF TgNext

LEMMA TellInitSound == TgInit => TellInv
<1> SUFFICES ASSUME TgInit PROVE TellInv
    OBVIOUS
<1>1. outbox \in Seq(Message) /\ DOMAIN outbox = {}
    BY DEF TgInit
<1>2. 0 \in Grounds /\ 0 \in 0..Rungs /\ Unseen \in Seen
    BY AnnouncementsAssumption DEF Grounds, Unseen, Seen
<1>3. \A s \in Names : snapshot[s] = Unseen /\ spoken[s] = 0
    BY DEF TgInit
<1>4. Unseen.rung = 0 /\ ~Unseen.seen
    BY DEF Unseen
<1>5. TellTypes
  <2>1. /\ snapshot \in [Names -> Seen]
        /\ spoken \in [Names -> 0..Rungs] /\ before \in [Names -> Grounds]
    BY <1>2 DEF TgInit
  <2>2. unwatched \in BOOLEAN
    BY DEF TgInit
  <2>. QED
    BY <1>1, <2>1, <2>2 DEF TellTypes
<1>6. SpokenBelow
  <2> SUFFICES ASSUME NEW s \in Names PROVE spoken[s] <= snapshot[s].rung
    BY DEF SpokenBelow
  <2>. QED
    BY <1>3, <1>4
<1>7. QueueRight
    BY <1>1 DEF QueueRight
<1>8. SnapshotFresh
    BY <1>3, <1>4 DEF SnapshotFresh
<1>. QED
    BY <1>5, <1>6, <1>7, <1>8 DEF TellInv

\* A rung that is told is above every rung told of its slug before, however its
\* ground comes and goes, switches turn, slugs change hands and messages are lost
\* with the process, until a watched redraw finds no crew on the slug.
THEOREM SpentCorrect == TgSpec => RungSpent
<1>1. TellInv /\ [TgNext]_tgVars => TellInv'
    BY TellStep
<1>2. TellInv /\ [TgNext]_tgVars =>
        [/\ SendMessage =>
               LET s == Head(outbox)[1] r == Head(outbox)[2] IN r > 0 => spoken[s] < r
         /\ \A s \in Names :
               spoken'[s] < spoken[s] => ~SlugTaken(s) /\ ~snapshot'[s].seen]_tgVars
    BY TellStep DEF HeadIsNew, Forgotten
<1>. QED
    BY <1>1, <1>2, TellInitSound, PTL DEF TgSpec, RungSpent

\* A rung that is told was not held at the redraw before, unless a redraw has
\* gone by with every switch off.
THEOREM NewsCorrect == TgSpec => NewsIsNew
<1>1. TellInv /\ [TgNext]_tgVars => TellInv'
    BY TellStep
<1>2. TellInv /\ [TgNext]_tgVars =>
        [~unwatched => \A i \in DOMAIN outbox' \ DOMAIN outbox :
            LET s == outbox'[i][1] IN outbox'[i][2] > 0 => Rung(before[s]) < outbox'[i][2]]_tgVars
    BY TellStep
<1>. QED
    BY <1>1, <1>2, TellInitSound, PTL DEF TgSpec, NewsIsNew

-----------------------------------------------------------------------------
(* Pairing: the inductive invariant. *)

\* What a poll may read, and what it has read, a phone was told of.
UsedVouchedFor == \A t \in Tokens : pair[t].state = "used" => <<t, pair[t].rider>> \in vouched
PollsVouchedFor == \A q \in polling : <<q.token, q.rider>> \in vouched

\* last_used is never ahead of the last request, and at most Renewal behind.
LastUsedLags ==
    \A s \in Sessions :
        web[s].state = "live" => web[s].away <= web[s].idle /\ web[s].idle <= web[s].away + Renewal

\* A cookie is of a session that was minted.
CookiesMinted == \A b \in Browsers : cookie[b] # NoSession => web[cookie[b]].state # "none"

TokensRight == UsedVouchedFor /\ PollsVouchedFor
SessionsRight == SessionVouchedFor /\ LastUsedLags /\ CookiesMinted
IInv == TypeOK /\ TokensRight /\ SessionsRight

-----------------------------------------------------------------------------
(* Pairing: what the helpers return. *)

LEMMA OlderType ==
    ASSUME NEW limit \in Nat, NEW age \in 0..(limit + 1)
    PROVE  /\ Older(age, limit) \in 0..(limit + 1)
           /\ Older(age, limit) = IF age = limit + 1 THEN age ELSE age + 1
BY DEF Older

LEMMA RenewedType ==
    ASSUME NEW row \in Session
    PROVE  /\ Renewed(row) \in Session
           /\ Renewed(row).state = row.state /\ Renewed(row).rider = row.rider
           /\ Renewed(row).from = row.from /\ Renewed(row).away = row.away
           /\ Renewed(row).idle = IF row.idle > Renewal THEN 0 ELSE row.idle
BY TimesAssumption DEF Renewed, Session

LEMMA NewRows ==
    /\ NewToken \in Token /\ NewToken.state = "none"
    /\ NewSession \in Session /\ NewSession.state = "none"
    /\ NewSession.idle = 0 /\ NewSession.away = 0
BY TimesAssumption DEF NewToken, NewSession, Token, Session

\* A row that goes keeps what it says otherwise.
LEMMA GoneRow ==
    ASSUME NEW row \in Session
    PROVE  /\ [row EXCEPT !.state = "gone"] \in Session
           /\ [row EXCEPT !.state = "gone"].state = "gone"
           /\ [row EXCEPT !.state = "gone"].rider = row.rider
           /\ [row EXCEPT !.state = "gone"].from = row.from
BY DEF Session

-----------------------------------------------------------------------------
(* What the actions make of the two tables. *)

LEMMA UseEffect ==
    ASSUME TypeOK, NEW b \in Browsers, Use(b)
    PROVE  /\ web' \in [Sessions -> Session] /\ cookie[b] \in Sessions
           /\ web[cookie[b]].state = "live"
           /\ \A s \in Sessions \ {cookie[b]} : web'[s] = web[s]
           /\ web'[cookie[b]].rider = web[cookie[b]].rider
           /\ web'[cookie[b]].from = web[cookie[b]].from
           /\ IF Expired(cookie[b]) \/ web[cookie[b]].rider \in closed
              THEN web'[cookie[b]].state = "gone"
              ELSE /\ web'[cookie[b]].state = "live" /\ web'[cookie[b]].away = 0
                   /\ web'[cookie[b]].idle =
                        IF web[cookie[b]].idle > Renewal THEN 0 ELSE web[cookie[b]].idle
<1> DEFINE s == cookie[b]
           used == [Renewed(web[s]) EXCEPT !.away = 0]
           gone == [web[s] EXCEPT !.state = "gone"]
<1>1. s \in Sessions /\ web[s] \in Session /\ web[s].state = "live"
    BY DEF TypeOK, Use, SignedIn
<1>2. Renewed(web[s]) \in Session /\ Renewed(web[s]).state = "live"
      /\ Renewed(web[s]).rider = web[s].rider /\ Renewed(web[s]).from = web[s].from
      /\ Renewed(web[s]).idle = IF web[s].idle > Renewal THEN 0 ELSE web[s].idle
    BY <1>1, RenewedType
<1>3. /\ used \in Session /\ used.state = "live" /\ used.rider = web[s].rider
      /\ used.from = web[s].from /\ used.away = 0
      /\ used.idle = IF web[s].idle > Renewal THEN 0 ELSE web[s].idle
    BY <1>2, TimesAssumption DEF Session
<1>4. gone \in Session /\ gone.state = "gone" /\ gone.rider = web[s].rider
      /\ gone.from = web[s].from
    BY <1>1, GoneRow
<1>5. web' = [web EXCEPT ![s] =
                IF Expired(s) \/ web[s].rider \in closed THEN gone ELSE used]
    BY DEF Use
<1> HIDE DEF s, used, gone
<1>6. web \in [Sessions -> Session]
    BY DEF TypeOK
<1>7. web' \in [Sessions -> Session]
      /\ web'[s] = (IF Expired(s) \/ web[s].rider \in closed THEN gone ELSE used)
      /\ \A x \in Sessions \ {s} : web'[x] = web[x]
    BY <1>1, <1>3, <1>4, <1>5, <1>6
<1>8. /\ web' \in [Sessions -> Session] /\ s \in Sessions /\ web[s].state = "live"
      /\ \A x \in Sessions \ {s} : web'[x] = web[x]
      /\ web'[s].rider = web[s].rider /\ web'[s].from = web[s].from
      /\ IF Expired(s) \/ web[s].rider \in closed THEN web'[s].state = "gone"
         ELSE /\ web'[s].state = "live" /\ web'[s].away = 0
              /\ web'[s].idle = IF web[s].idle > Renewal THEN 0 ELSE web[s].idle
    BY <1>1, <1>3, <1>4, <1>7
<1>. QED
    BY <1>8 DEF s

LEMMA TickEffect ==
    ASSUME TypeOK, Tick
    PROVE  /\ pair' \in [Tokens -> Token]
           /\ \A t \in Tokens : pair'[t].state = pair[t].state /\ pair'[t].rider = pair[t].rider
           /\ web' \in [Sessions -> Session]
           /\ \A s \in Sessions :
                 /\ web'[s].state = web[s].state /\ web'[s].rider = web[s].rider
                 /\ web'[s].from = web[s].from
                 /\ web[s].state = "live" => web'[s].idle = Older(web[s].idle, SessionTTL)
                                             /\ web'[s].away = Older(web[s].away, SessionTTL)
<1>1. ASSUME NEW t \in Tokens
      PROVE  /\ pair'[t] \in Token
             /\ pair'[t].state = pair[t].state /\ pair'[t].rider = pair[t].rider
  <2>1. pair[t] \in Token /\ pair[t].age \in 0..(CodeTTL + 1)
    BY DEF TypeOK, Token
  <2>2. Older(pair[t].age, CodeTTL) \in 0..(CodeTTL + 1)
    BY <2>1, OlderType, TimesAssumption
  <2>3. pair'[t] = IF pair[t].state \in {"waiting", "used"}
                   THEN [pair[t] EXCEPT !.age = Older(pair[t].age, CodeTTL)] ELSE pair[t]
    BY DEF Tick
  <2>. QED
    BY <2>1, <2>2, <2>3 DEF Token
<1>2. ASSUME NEW s \in Sessions
      PROVE  /\ web'[s] \in Session
             /\ web'[s].state = web[s].state /\ web'[s].rider = web[s].rider
             /\ web'[s].from = web[s].from
             /\ web[s].state = "live" => web'[s].idle = Older(web[s].idle, SessionTTL)
                                         /\ web'[s].away = Older(web[s].away, SessionTTL)
  <2>1. web[s] \in Session /\ {web[s].idle, web[s].away} \subseteq 0..(SessionTTL + 1)
    BY DEF TypeOK, Session
  <2>2. Older(web[s].idle, SessionTTL) \in 0..(SessionTTL + 1)
        /\ Older(web[s].away, SessionTTL) \in 0..(SessionTTL + 1)
    BY <2>1, OlderType, TimesAssumption
  <2>3. CASE web[s].state = "live"
    <3>1. web'[s] = [web[s] EXCEPT !.idle = Older(web[s].idle, SessionTTL),
                                   !.away = Older(web[s].away, SessionTTL)]
      BY <2>3 DEF Tick
    <3>. QED
      BY <2>1, <2>2, <3>1 DEF Session
  <2>4. CASE web[s].state # "live"
    BY <2>1, <2>4 DEF Tick
  <2>. QED
    BY <2>3, <2>4
<1>3. pair' \in [Tokens -> Token] /\ web' \in [Sessions -> Session]
    BY <1>1, <1>2 DEF Tick
<1>. QED
    BY <1>1, <1>2, <1>3

\* A sign-out, a revocation and the sweep end sessions and do nothing else.
LEMMA EndEffect ==
    ASSUME TypeOK, NEW S \in SUBSET Sessions,
           web' = [s \in Sessions |-> IF s \in S THEN [web[s] EXCEPT !.state = "gone"] ELSE web[s]]
    PROVE  /\ web' \in [Sessions -> Session]
           /\ \A s \in Sessions \ S : web'[s] = web[s]
           /\ \A s \in S : web'[s].state = "gone" /\ web'[s].rider = web[s].rider
                           /\ web'[s].from = web[s].from
<1>1. \A s \in Sessions : web[s] \in Session
    BY DEF TypeOK
<1>2. \A s \in Sessions : [web[s] EXCEPT !.state = "gone"] \in Session
    BY <1>1, GoneRow
<1>3. ASSUME NEW s \in S
      PROVE  web'[s].state = "gone" /\ web'[s].rider = web[s].rider /\ web'[s].from = web[s].from
  <2>1. web'[s] = [web[s] EXCEPT !.state = "gone"] /\ web[s] \in Session
    BY <1>1
  <2>. QED
    BY <2>1, GoneRow
<1>. QED
    BY <1>2, <1>1, <1>3

\* What keeps the parts of the invariant.
LEMMA TokensKeep ==
    ASSUME TokensRight,
           \A t \in Tokens : pair'[t].state = "used" =>
                pair[t].state = "used" /\ pair'[t].rider = pair[t].rider,
           polling' \subseteq polling, vouched \subseteq vouched'
    PROVE  TokensRight'
BY DEF TokensRight, UsedVouchedFor, PollsVouchedFor

LEMMA SessionsKeep ==
    ASSUME TypeOK, SessionsRight,
           \A s \in Sessions :
              /\ web'[s].state = "none" <=> web[s].state = "none"
              /\ web'[s].rider = web[s].rider /\ web'[s].from = web[s].from
              /\ web'[s].state = "live" =>
                    web'[s].away <= web'[s].idle /\ web'[s].idle <= web'[s].away + Renewal,
           \A b \in Browsers : cookie'[b] \in {cookie[b], NoSession},
           vouched \subseteq vouched'
    PROVE  SessionsRight'
<1>1. SessionVouchedFor' /\ LastUsedLags'
    BY DEF SessionsRight, SessionVouchedFor, LastUsedLags
<1>2. \A b \in Browsers : cookie[b] \in Sessions \cup {NoSession}
    BY DEF TypeOK
<1>3. CookiesMinted'
    BY <1>2 DEF SessionsRight, CookiesMinted
<1>. QED
    BY <1>1, <1>3 DEF SessionsRight

LEMMA SessionsRest ==
    ASSUME SessionsRight, UNCHANGED <<web, cookie>>, vouched \subseteq vouched'
    PROVE  SessionsRight'
BY DEF SessionsRight, SessionVouchedFor, LastUsedLags, CookiesMinted

-----------------------------------------------------------------------------
(* The actions. *)

LEMMA PairPreserves ==
    ASSUME IInv, Pair
    PROVE  IInv'
<1>0. TypeOK /\ TokensRight /\ SessionsRight
    BY DEF IInv
<1>1. ASSUME NEW b \in Browsers, NEW t \in Tokens, Start(b, t)
      PROVE  IInv'
  <2>1. pair' \in [Tokens -> Token] /\ holding' \in [Browsers -> Tokens \cup {NoToken}]
    BY <1>0, <1>1 DEF Start, TypeOK, Token
  <2>2. \A u \in Tokens : pair'[u].state = "used" =>
            pair[u].state = "used" /\ pair'[u].rider = pair[u].rider
    BY <1>0, <1>1 DEF Start, TypeOK, Token
  <2>3. TokensRight' /\ SessionsRight'
    BY <1>0, <1>1, <2>2, TokensKeep, SessionsRest DEF Start
  <2>. QED
    BY <1>0, <1>1, <2>1, <2>3 DEF IInv, TypeOK, Start
<1>2. ASSUME NEW t \in Tokens, NEW r \in Riders, ConfirmRead(t, r)
      PROVE  IInv'
  <2>1. TokensRight' /\ SessionsRight'
    BY <1>0, <1>2, TokensKeep, SessionsRest DEF ConfirmRead
  <2>. QED
    BY <1>0, <1>2, <2>1 DEF IInv, TypeOK, ConfirmRead
<1>3. ASSUME NEW t \in Tokens, NEW r \in Riders, ConfirmWrite(t, r)
      PROVE  IInv'
  <2>1. CASE pair[t].state = "gone"
    <3>1. TokensRight' /\ SessionsRight'
      BY <1>0, <1>3, <2>1, TokensKeep, SessionsRest DEF ConfirmWrite
    <3>. QED
      BY <1>0, <1>3, <2>1, <3>1 DEF IInv, TypeOK, ConfirmWrite
  <2>2. CASE pair[t].state # "gone"
    <3>1. /\ pair' = [pair EXCEPT ![t].state = "used", ![t].rider = r]
          /\ vouched' = vouched \cup {<<t, r>>} /\ approving' \subseteq approving
          /\ UNCHANGED <<web, closed, polling, holding, cookie>>
      BY <1>3, <2>2 DEF ConfirmWrite
    <3>2. pair' \in [Tokens -> Token] /\ pair'[t].rider = r
          /\ \A u \in Tokens \ {t} : pair'[u] = pair[u]
      BY <1>0, <3>1 DEF TypeOK, Token
    <3>3. SessionsRight'
      BY <1>0, <3>1, SessionsRest
    <3>4. TokensRight'
      BY <1>0, <3>1, <3>2 DEF TokensRight, UsedVouchedFor, PollsVouchedFor
    <3>. QED
      BY <1>0, <3>1, <3>2, <3>3, <3>4 DEF IInv, TypeOK
  <2>. QED
    BY <2>1, <2>2
<1>4. ASSUME NEW b \in Browsers, NEW n \in 1..MaxPolls, PollRead(b, n)
      PROVE  IInv'
  <2> DEFINE t == holding[b]
             q == [slot |-> n, browser |-> b, token |-> t, rider |-> pair[t].rider]
  <2>1. t \in Tokens /\ pair[t].state = "used"
    BY <1>0, <1>4 DEF PollRead, Ready, TypeOK
  <2>2. <<t, pair[t].rider>> \in vouched
    BY <1>0, <2>1 DEF TokensRight, UsedVouchedFor
  <2>3. pair[t].rider \in Riders
    BY <1>0, <2>2 DEF TypeOK
  <2>4. polling' = polling \cup {q} /\ UNCHANGED <<pair, web, closed, approving, holding, cookie, vouched>>
    BY <1>4 DEF PollRead
  <2>5. q.token = t /\ q.rider = pair[t].rider
        /\ q \in [slot: 1..MaxPolls, browser: Browsers, token: Tokens, rider: Riders]
    BY <2>1, <2>3
  <2> HIDE DEF q, t
  <2>6. TokensRight'
    BY <1>0, <2>2, <2>4, <2>5 DEF TokensRight, UsedVouchedFor, PollsVouchedFor
  <2>7. SessionsRight'
    BY <1>0, <2>4, SessionsRest
  <2>. QED
    BY <1>0, <2>4, <2>5, <2>6, <2>7 DEF IInv, TypeOK
<1>5. ASSUME NEW q \in polling, NEW s \in Sessions, PollMint(q, s)
      PROVE  IInv'
  <2> DEFINE row == [NewSession EXCEPT !.state = "live", !.rider = q.rider, !.from = q.token]
  <2>1. /\ q.token \in Tokens /\ q.rider \in Riders /\ q.browser \in Browsers
        /\ <<q.token, q.rider>> \in vouched
    BY <1>0 DEF TypeOK, TokensRight, PollsVouchedFor
  <2>2. /\ row \in Session /\ row.state = "live" /\ row.rider = q.rider /\ row.from = q.token
        /\ row.idle = 0 /\ row.away = 0
    BY <2>1, NewRows DEF Session
  <2>3. /\ web' = [web EXCEPT ![s] = row] /\ web[s].state = "none"
        /\ pair' = [pair EXCEPT ![q.token].state = "gone"]
        /\ polling' = polling \ {q} /\ UNCHANGED <<closed, approving, vouched>>
        /\ \/ UNCHANGED <<holding, cookie>>
           \/ /\ cookie' = [cookie EXCEPT ![q.browser] = s]
              /\ holding' = [holding EXCEPT ![q.browser] = NoToken]
    BY <1>5 DEF PollMint
  <2> HIDE DEF row
  <2>4. /\ web' \in [Sessions -> Session] /\ web'[s] = row
        /\ \A x \in Sessions \ {s} : web'[x] = web[x]
    BY <1>0, <2>2, <2>3 DEF TypeOK
  <2>5. /\ pair' \in [Tokens -> Token]
        /\ \A u \in Tokens : pair'[u].state = "used" =>
              pair[u].state = "used" /\ pair'[u].rider = pair[u].rider
    BY <1>0, <2>1, <2>3 DEF TypeOK, Token
  <2>6. /\ cookie' \in [Browsers -> Sessions \cup {NoSession}]
        /\ holding' \in [Browsers -> Tokens \cup {NoToken}]
        /\ \A b \in Browsers : cookie'[b] \in {cookie[b], s}
    BY <1>0, <2>1, <2>3 DEF TypeOK
  <2>7. TokensRight'
    BY <1>0, <2>3, <2>5, TokensKeep
  <2>8. SessionVouchedFor'
    BY <1>0, <2>1, <2>2, <2>3, <2>4 DEF SessionsRight, SessionVouchedFor
  <2>9. LastUsedLags'
    BY <1>0, <2>2, <2>4, TimesAssumption DEF SessionsRight, LastUsedLags
  <2>10. CookiesMinted'
    BY <1>0, <2>2, <2>4, <2>6 DEF SessionsRight, CookiesMinted, TypeOK
  <2>. QED
    BY <1>0, <2>3, <2>4, <2>5, <2>6, <2>7, <2>8, <2>9, <2>10 DEF IInv, TypeOK, SessionsRight
<1>. QED
    BY <1>1, <1>2, <1>3, <1>4, <1>5 DEF Pair

LEMMA UsePreserves ==
    ASSUME IInv, NEW b \in Browsers, Use(b)
    PROVE  IInv'
<1> DEFINE s == cookie[b]
<1>1. /\ web' \in [Sessions -> Session] /\ s \in Sessions /\ web[s].state = "live"
      /\ \A x \in Sessions \ {s} : web'[x] = web[x]
      /\ web'[s].rider = web[s].rider /\ web'[s].from = web[s].from
      /\ \/ web'[s].state = "gone"
         \/ /\ web'[s].state = "live" /\ web'[s].away = 0
            /\ web'[s].idle = IF web[s].idle > Renewal THEN 0 ELSE web[s].idle
    BY UseEffect DEF IInv
<1>2. UNCHANGED <<pair, closed, approving, polling, holding, cookie, vouched>>
    BY DEF Use
<1> HIDE DEF s
<1>3. web[s].idle \in Nat
    BY <1>1, TimesAssumption DEF IInv, TypeOK, Session
<1>4. web'[s].state = "live" =>
          web'[s].away <= web'[s].idle /\ web'[s].idle <= web'[s].away + Renewal
    BY <1>1, <1>3, TimesAssumption
<1>5. \A x \in Sessions :
          /\ web'[x].state = "none" <=> web[x].state = "none"
          /\ web'[x].rider = web[x].rider /\ web'[x].from = web[x].from
          /\ web'[x].state = "live" =>
                web'[x].away <= web'[x].idle /\ web'[x].idle <= web'[x].away + Renewal
    BY <1>1, <1>4 DEF IInv, SessionsRight, LastUsedLags
<1>6. SessionsRight'
    BY <1>2, <1>5, SessionsKeep DEF IInv
<1>7. TokensRight'
    BY <1>2, TokensKeep DEF IInv
<1>. QED
    BY <1>1, <1>2, <1>6, <1>7 DEF IInv, TypeOK

\* What ends sessions, and at most gives up tokens and a cookie.
LEMMA EndPreserves ==
    ASSUME IInv, NEW S \in SUBSET Sessions, \A s \in S : web[s].state # "none",
           web' = [s \in Sessions |-> IF s \in S THEN [web[s] EXCEPT !.state = "gone"] ELSE web[s]],
           pair' \in [Tokens -> Token],
           \A t \in Tokens : pair'[t].state = "used" =>
                pair[t].state = "used" /\ pair'[t].rider = pair[t].rider,
           cookie' \in [Browsers -> Sessions \cup {NoSession}],
           \A b \in Browsers : cookie'[b] \in {cookie[b], NoSession},
           UNCHANGED <<closed, approving, polling, holding, vouched>>
    PROVE  IInv'
<1>1. /\ web' \in [Sessions -> Session]
      /\ \A s \in Sessions \ S : web'[s] = web[s]
      /\ \A s \in S : web'[s].state = "gone" /\ web'[s].rider = web[s].rider
                      /\ web'[s].from = web[s].from
    BY EndEffect DEF IInv
<1>2. \A x \in Sessions :
          /\ web'[x].state = "none" <=> web[x].state = "none"
          /\ web'[x].rider = web[x].rider /\ web'[x].from = web[x].from
          /\ web'[x].state = "live" =>
                web'[x].away <= web'[x].idle /\ web'[x].idle <= web'[x].away + Renewal
  <2>1. ASSUME NEW x \in S
        PROVE  /\ web'[x].state = "none" <=> web[x].state = "none"
               /\ web'[x].rider = web[x].rider /\ web'[x].from = web[x].from
               /\ web'[x].state # "live"
    BY <1>1
  <2>. QED
    BY <1>1, <2>1 DEF IInv, SessionsRight, LastUsedLags
<1>3. SessionsRight' /\ TokensRight'
    BY <1>2, SessionsKeep, TokensKeep DEF IInv
<1>. QED
    BY <1>1, <1>3 DEF IInv, TypeOK

LEMMA SignOutPreserves ==
    ASSUME IInv, NEW b \in Browsers, SignOut(b)
    PROVE  IInv'
<1> DEFINE S == {cookie[b]}
<1>1. S \in SUBSET Sessions /\ \A s \in S : web[s].state # "none"
    BY DEF SignOut, IInv, TypeOK, SessionsRight, CookiesMinted
<1>2. web' = [s \in Sessions |->
          IF s \in S THEN [web[s] EXCEPT !.state = "gone"] ELSE web[s]]
    BY <1>1 DEF SignOut, IInv, TypeOK
<1>3. cookie' \in [Browsers -> Sessions \cup {NoSession}]
      /\ \A x \in Browsers : cookie'[x] \in {cookie[x], NoSession}
    BY DEF SignOut, IInv, TypeOK
<1>4. UNCHANGED <<pair, closed, approving, polling, holding, vouched>> /\ pair \in [Tokens -> Token]
    BY DEF SignOut, IInv, TypeOK
<1>5. \A t \in Tokens : pair'[t].state = "used" =>
          pair[t].state = "used" /\ pair'[t].rider = pair[t].rider
    BY <1>4
<1> HIDE DEF S
<1>. QED
    BY <1>1, <1>2, <1>3, <1>4, <1>5, EndPreserves

LEMMA RevokePreserves ==
    ASSUME IInv, NEW r \in Riders, RevokeAll(r)
    PROVE  IInv'
<1> DEFINE S == {s \in Sessions : web[s].rider = r /\ web[s].state = "live"}
<1>1. web' = [s \in Sessions |-> IF s \in S THEN [web[s] EXCEPT !.state = "gone"] ELSE web[s]]
    BY DEF RevokeAll
<1>2. S \in SUBSET Sessions /\ \A s \in S : web[s].state # "none"
    OBVIOUS
<1>3. UNCHANGED <<pair, closed, approving, polling, holding, cookie, vouched>>
      /\ pair \in [Tokens -> Token] /\ cookie \in [Browsers -> Sessions \cup {NoSession}]
    BY DEF RevokeAll, IInv, TypeOK
<1> HIDE DEF S
<1>. QED
    BY <1>1, <1>2, <1>3, EndPreserves

LEMMA SweepPreserves ==
    ASSUME IInv, Sweep
    PROVE  IInv'
<1> DEFINE S == {s \in Sessions : web[s].state = "live" /\ Lapsed(s)}
<1>1. web' = [s \in Sessions |-> IF s \in S THEN [web[s] EXCEPT !.state = "gone"] ELSE web[s]]
    BY DEF Sweep
<1>2. S \in SUBSET Sessions /\ \A s \in S : web[s].state # "none"
    OBVIOUS
<1>3. UNCHANGED <<closed, approving, polling, holding, cookie, vouched>>
      /\ cookie \in [Browsers -> Sessions \cup {NoSession}]
    BY DEF Sweep, IInv, TypeOK
<1>4. /\ pair' \in [Tokens -> Token]
      /\ \A t \in Tokens : pair'[t].state = "used" =>
            pair[t].state = "used" /\ pair'[t].rider = pair[t].rider
  <2>1. \A t \in Tokens : pair'[t] = IF Spent(pair[t]) THEN [pair[t] EXCEPT !.state = "gone"]
                                      ELSE pair[t]
    BY DEF Sweep
  <2>2. \A t \in Tokens : pair[t] \in Token
    BY DEF IInv, TypeOK
  <2>3. ASSUME NEW t \in Tokens
        PROVE  pair'[t] \in Token /\ (pair'[t].state = "used" =>
                    pair[t].state = "used" /\ pair'[t].rider = pair[t].rider)
    BY <2>1, <2>2 DEF Token
  <2>. QED
    BY <2>3 DEF Sweep
<1> HIDE DEF S
<1>. QED
    BY <1>1, <1>2, <1>3, <1>4, EndPreserves

LEMMA TickPreserves ==
    ASSUME IInv, Tick
    PROVE  IInv'
<1>1. /\ pair' \in [Tokens -> Token]
      /\ \A t \in Tokens : pair'[t].state = pair[t].state /\ pair'[t].rider = pair[t].rider
      /\ web' \in [Sessions -> Session]
      /\ \A s \in Sessions :
            /\ web'[s].state = web[s].state /\ web'[s].rider = web[s].rider
            /\ web'[s].from = web[s].from
            /\ web[s].state = "live" => web'[s].idle = Older(web[s].idle, SessionTTL)
                                        /\ web'[s].away = Older(web[s].away, SessionTTL)
    BY TickEffect DEF IInv
<1>2. UNCHANGED <<closed, approving, polling, holding, cookie, vouched>>
    BY DEF Tick
<1>3. ASSUME NEW s \in Sessions, web'[s].state = "live"
      PROVE  web'[s].away <= web'[s].idle /\ web'[s].idle <= web'[s].away + Renewal
  <2>1. /\ web[s].idle \in 0..(SessionTTL + 1) /\ web[s].away \in 0..(SessionTTL + 1)
        /\ web[s].away <= web[s].idle /\ web[s].idle <= web[s].away + Renewal
    BY <1>1, <1>3 DEF IInv, TypeOK, Session, SessionsRight, LastUsedLags
  <2>2. web'[s].idle = (IF web[s].idle = SessionTTL + 1 THEN web[s].idle ELSE web[s].idle + 1)
        /\ web'[s].away = (IF web[s].away = SessionTTL + 1 THEN web[s].away ELSE web[s].away + 1)
    BY <1>1, <1>3, <2>1, OlderType, TimesAssumption
  <2>. QED
    BY <2>1, <2>2, TimesAssumption
<1>4. SessionsRight'
    BY <1>1, <1>2, <1>3, SessionsKeep DEF IInv
<1>5. TokensRight'
    BY <1>1, <1>2, TokensKeep DEF IInv
<1>. QED
    BY <1>1, <1>2, <1>4, <1>5 DEF IInv, TypeOK

-----------------------------------------------------------------------------
LEMMA InitSound == Init => IInv
BY NewRows DEF Init, IInv, TypeOK, TokensRight, UsedVouchedFor, PollsVouchedFor, SessionsRight,
   SessionVouchedFor, LastUsedLags, CookiesMinted

LEMMA NextPreserves ==
    ASSUME IInv, [Next]_vars
    PROVE  IInv'
<1>1. CASE UNCHANGED vars
  <2>1. TokensRight' /\ SessionsRight'
    BY <1>1, TokensKeep, SessionsRest DEF IInv, vars
  <2>. QED
    BY <1>1, <2>1 DEF IInv, TypeOK, vars
<1>2. ASSUME NEW r \in Riders, CloseAccount(r)
      PROVE  IInv'
  <2>1. TokensRight' /\ SessionsRight'
    BY <1>2, TokensKeep, SessionsRest DEF IInv, CloseAccount
  <2>. QED
    BY <1>2, <2>1 DEF IInv, TypeOK, CloseAccount
<1>. QED
    BY <1>1, <1>2, PairPreserves, UsePreserves, SignOutPreserves, RevokePreserves,
       SweepPreserves, TickPreserves DEF Next

\* The inductive invariant holds in every state.
THEOREM PairingSound == Spec => []IInv
BY InitSound, NextPreserves, PTL DEF Spec

\* Whoever a session acts for was told by the phone that the confirm of the very
\* token it was minted from went through, however many confirms, polls, browsers
\* and riders overlap.
THEOREM VouchedCorrect == Spec => []SessionVouchedFor
<1>1. IInv => SessionVouchedFor
    BY DEF IInv, SessionsRight
<1>. QED
    BY <1>1, PairingSound, PTL

\* No request and no sweep ends a session used within SessionTTL - Renewal, but
\* for a closed account, and none is served after SessionTTL unused.
THEOREM SlidesCorrect == Spec => SessionSlides
<1> DEFINE Slides ==
        \A s \in Sessions : web[s].state = "live" =>
            /\ (Sweep \/ \E b \in Browsers : Use(b)) /\ web'[s].state = "gone"
                 => web[s].rider \in closed \/ web[s].away > SessionTTL - Renewal
            /\ (\E b \in Browsers : cookie[b] = s /\ Use(b)) /\ web[s].away > SessionTTL
                 => web'[s].state = "gone"
<1>1. ASSUME IInv PROVE Slides
  <2> SUFFICES ASSUME NEW s \in Sessions, web[s].state = "live"
               PROVE  /\ (Sweep \/ \E b \in Browsers : Use(b)) /\ web'[s].state = "gone"
                           => web[s].rider \in closed \/ web[s].away > SessionTTL - Renewal
                      /\ (\E b \in Browsers : cookie[b] = s /\ Use(b)) /\ web[s].away > SessionTTL
                           => web'[s].state = "gone"
    OBVIOUS
  <2>1. /\ web[s].idle \in Nat /\ web[s].away \in Nat
        /\ web[s].away <= web[s].idle /\ web[s].idle <= web[s].away + Renewal
    BY <1>1, TimesAssumption DEF IInv, TypeOK, Session, SessionsRight, LastUsedLags
  <2>2. Expired(s) => web[s].away > SessionTTL - Renewal
    BY <2>1, TimesAssumption DEF Expired
  <2>3. web[s].away > SessionTTL => Expired(s)
    BY <2>1, TimesAssumption DEF Expired
  <2>4. ASSUME Sweep, web'[s].state = "gone"
        PROVE  Expired(s)
    BY <2>4 DEF Sweep, Lapsed
  <2>5. ASSUME NEW b \in Browsers, Use(b), web'[s].state = "gone"
        PROVE  Expired(s) \/ web[s].rider \in closed
    BY <1>1, <2>5, UseEffect DEF IInv
  <2>6. ASSUME NEW b \in Browsers, cookie[b] = s, Use(b), Expired(s)
        PROVE  web'[s].state = "gone"
    BY <1>1, <2>6, UseEffect DEF IInv
  <2>. QED
    BY <2>2, <2>3, <2>4, <2>5, <2>6
<1>2. IInv => [Slides]_vars
    BY <1>1
<1>. QED
    BY <1>2, PairingSound, PTL DEF SessionSlides

-----------------------------------------------------------------------------
(* Retention: the archive, the disk under it and the pass. *)

Ages == 0..OldAge
OldestFirst(A) == A \in Seq(Ages) /\ \A i, j \in 1..Len(A) : i < j => A[i] >= A[j]
PassOK ==
    /\ wish \in Settings /\ deaths \in 0..MaxDeaths
    /\ thinning \in [at: {"idle", "age", "look", "sweep"}, days: DayChoices,
                     floor: FloorChoices, left: 0..SweepLimit]
DiskOK == spare \in Nat /\ other \in 0..Disk /\ Fits

LEMMA RetentionParts ==
    RetentionTypeOK <=>
        /\ OldestFirst(archive) /\ Len(archive) <= MaxArchive
        /\ DiskOK /\ PassOK
        /\ thinning.at = "sweep" => archive # <<>> /\ thinning.left > 0
<1>1. archive \in Seq(Ages) => DOMAIN archive = 1..Len(archive)
    OBVIOUS
<1>. QED
    BY <1>1 DEF RetentionTypeOK, OldestFirst, DiskOK, PassOK, Ages

\* What is left when the oldest go.
LEMMA OldestGone ==
    ASSUME NEW A, OldestFirst(A), NEW n \in 0..Len(A)
    PROVE  /\ OldestFirst(SubSeq(A, n + 1, Len(A)))
           /\ Len(SubSeq(A, n + 1, Len(A))) = Len(A) - n
<1>1. A \in Seq(Ages) /\ Len(A) \in Nat
    BY DEF OldestFirst
<1> DEFINE B == SubSeq(A, n + 1, Len(A))
<1>2. B = [i \in 1..(Len(A) - n) |-> A[n + i]]
    BY <1>1
<1>3. ASSUME NEW i \in 1..(Len(A) - n) PROVE A[n + i] \in Ages
  <2>1. n + i \in 1..Len(A)
      BY <1>1
  <2>. QED
      BY <1>1, <2>1
<1>4. B \in [1..(Len(A) - n) -> Ages]
    BY <1>1, <1>2, <1>3
<1>5. B \in Seq(Ages) /\ Len(B) = Len(A) - n
    BY <1>1, <1>4
<1>6. ASSUME NEW i \in 1..Len(B), NEW j \in 1..Len(B), i < j PROVE B[i] >= B[j]
  <2>1. n + i \in 1..Len(A) /\ n + j \in 1..Len(A) /\ n + i < n + j
      BY <1>1, <1>5, <1>6
  <2>2. A[n + i] >= A[n + j]
      BY <2>1 DEF OldestFirst
  <2>. QED
      BY <1>2, <1>5, <2>2
<1>. QED
    BY <1>5, <1>6 DEF OldestFirst

LEMMA RetentionInitTyped == InitRetention => RetentionTypeOK
<1> SUFFICES ASSUME InitRetention PROVE RetentionTypeOK
    OBVIOUS
<1>1. wish.days \in DayChoices /\ wish.floor \in FloorChoices
    BY DEF InitRetention, Settings
<1>. QED
    BY <1>1, RetentionAssumption DEF InitRetention, RetentionTypeOK, NoPass, Fits, Settings

\* One upload comes, or some of the oldest go, and nothing else changes on the disk.
LEMMA ArchiveTyped ==
    ASSUME RetentionTypeOK, [RetentionNext]_archiveVars
    PROVE  OldestFirst(archive') /\ Len(archive') <= MaxArchive /\ DiskOK'
<1> USE RetentionAssumption
<1>1. /\ OldestFirst(archive) /\ Len(archive) \in 0..MaxArchive
      /\ archive \in Seq(Ages) /\ DOMAIN archive = 1..Len(archive)
      /\ \A i \in 1..Len(archive) : archive[i] \in Ages
      /\ spare \in Nat /\ other \in 0..Disk /\ other + Len(archive) + spare <= Disk
    BY RetentionParts DEF OldestFirst, DiskOK, Fits, Ages
<1>2. CASE Keep
  <2>1. /\ archive' \in Seq(Ages) /\ Len(archive') = Len(archive) + 1
        /\ \A i \in 1..Len(archive) : archive'[i] = archive[i]
        /\ archive'[Len(archive) + 1] = 0
      BY <1>1, <1>2 DEF Keep, Ages
  <2>2. OldestFirst(archive')
    <3>1. SUFFICES ASSUME NEW i \in 1..(Len(archive) + 1), NEW j \in 1..(Len(archive) + 1), i < j
                   PROVE  archive'[i] >= archive'[j]
        BY <2>1 DEF OldestFirst
    <3>2. i \in 1..Len(archive) /\ archive'[i] = archive[i] /\ archive[i] \in 0..OldAge
        BY <1>1, <2>1, <3>1 DEF Ages
    <3>3. CASE j = Len(archive) + 1
        BY <2>1, <3>2, <3>3
    <3>4. CASE j \in 1..Len(archive)
        BY <1>1, <2>1, <3>1, <3>2, <3>4 DEF OldestFirst
    <3>. QED
        BY <1>1, <3>3, <3>4
  <2>3. DiskOK'
      BY <1>1, <1>2, <2>1 DEF Keep, DiskOK, Fits, Free
  <2>. QED
      BY <1>1, <1>2, <2>1, <2>2, <2>3 DEF Keep
<1>3. CASE Day
  <2>1. archive' = [i \in 1..Len(archive) |-> IF archive[i] < OldAge THEN archive[i] + 1 ELSE OldAge]
      BY <1>1, <1>3 DEF Day
  <2>2. archive' \in [1..Len(archive) -> Ages]
      BY <1>1, <2>1 DEF Ages
  <2>3. archive' \in Seq(Ages) /\ Len(archive') = Len(archive)
      BY <1>1, <2>2
  <2>4. OldestFirst(archive')
      BY <1>1, <2>1, <2>3 DEF OldestFirst, Ages
  <2>. QED
      BY <1>1, <1>3, <2>3, <2>4 DEF Day, DiskOK, Fits
<1>4. CASE OtherUse
    BY <1>1, <1>4 DEF OtherUse, DiskOK, Fits, Free
<1>5. CASE EvictByAge
  <2>1. PICK n \in 0..Len(archive) : archive' = SubSeq(archive, n + 1, Len(archive))
      BY <1>5 DEF EvictByAge
  <2>2. OldestFirst(archive') /\ Len(archive') = Len(archive) - n
      BY <1>1, <2>1, OldestGone
  <2>3. spare' = spare + Len(archive) - Len(archive') /\ other' = other
      BY <1>5 DEF EvictByAge
  <2>4. Len(archive') \in 0..MaxArchive /\ spare' = spare + n
      BY <1>1, <2>2, <2>3
  <2>. QED
      BY <1>1, <2>2, <2>3, <2>4 DEF DiskOK, Fits
<1>6. CASE EvictOldest
  <2>1. archive # <<>> /\ Len(archive) \in 1..MaxArchive
      BY <1>1, <1>6, EmptySeq DEF EvictOldest, RetentionTypeOK
  <2>2. archive' = SubSeq(archive, 1 + 1, Len(archive)) /\ 1 \in 0..Len(archive)
      BY <1>1, <1>6, <2>1, TailIsSubSeq DEF EvictOldest
  <2>3. OldestFirst(archive') /\ Len(archive') = Len(archive) - 1
      BY <1>1, <2>2, OldestGone
  <2>. QED
      BY <1>1, <1>6, <2>1, <2>3 DEF EvictOldest, DiskOK, Fits
<1>7. CASE UNCHANGED <<archive, spare, other>>
    BY <1>1, <1>7 DEF DiskOK, Fits
<1>. QED
    BY <1>2, <1>3, <1>4, <1>5, <1>6, <1>7
    DEF RetentionNext, RetentionStep, Choose, BeginPass, LookAtDisk, PassDies, archiveVars

\* A pass keeps the settings it has read, and sweeps when there is something left.
LEMMA PassTyped ==
    ASSUME RetentionTypeOK, [RetentionNext]_archiveVars
    PROVE  PassOK' /\ (thinning'.at = "sweep" => archive' # <<>> /\ thinning'.left > 0)
<1> USE RetentionAssumption
<1>1. /\ PassOK /\ wish.days \in DayChoices /\ wish.floor \in FloorChoices
      /\ thinning = [at |-> thinning.at, days |-> thinning.days, floor |-> thinning.floor,
                     left |-> thinning.left]
      /\ thinning.days \in DayChoices /\ thinning.floor \in FloorChoices
      /\ thinning.left \in 0..SweepLimit
      /\ archive \in Seq(Ages) /\ (thinning.at = "sweep" => archive # <<>> /\ thinning.left > 0)
    BY RetentionParts DEF OldestFirst, PassOK, Settings
<1>2. ASSUME NEW at \in {"idle", "age", "look"}, NEW days \in DayChoices,
             NEW floor \in FloorChoices, NEW left \in 0..SweepLimit,
             thinning' = [at |-> at, days |-> days, floor |-> floor, left |-> left],
             wish' \in Settings, deaths' \in 0..MaxDeaths
      PROVE  PassOK' /\ (thinning'.at = "sweep" => archive' # <<>> /\ thinning'.left > 0)
    BY <1>2 DEF PassOK
<1>3. CASE PassDies
    BY <1>1, <1>2, <1>3 DEF PassDies, NoPass, PassOK
<1>4. CASE BeginPass
    BY <1>1, <1>2, <1>4 DEF BeginPass, NoPass, PassOK
<1>5. CASE EvictByAge
  <2>1. thinning' = [at |-> "look", days |-> thinning.days, floor |-> thinning.floor,
                     left |-> SweepLimit]
      BY <1>1, <1>5 DEF EvictByAge
  <2>2. SweepLimit \in 0..SweepLimit
      BY <1>1, <1>5 DEF EvictByAge
  <2>3. wish' \in Settings /\ deaths' \in 0..MaxDeaths
      BY <1>1, <1>5 DEF EvictByAge, PassOK
  <2>. QED
      BY <1>1, <1>2, <2>1, <2>2, <2>3
<1>6. CASE EvictOldest
  <2>1. thinning' = [at |-> "look", days |-> thinning.days, floor |-> thinning.floor,
                     left |-> thinning.left - 1]
      BY <1>1, <1>6 DEF EvictOldest
  <2>2. thinning.left - 1 \in 0..SweepLimit
      BY <1>1, <1>6 DEF EvictOldest
  <2>3. wish' \in Settings /\ deaths' \in 0..MaxDeaths
      BY <1>1, <1>6 DEF EvictOldest, PassOK
  <2>. QED
      BY <1>1, <1>2, <2>1, <2>2, <2>3
<1>7. CASE LookAtDisk
    BY <1>1, <1>2, <1>7 DEF LookAtDisk, NoPass, PassOK
<1>8. CASE Choose
    BY <1>1, <1>8 DEF Choose, PassOK
<1>9. ASSUME UNCHANGED <<wish, thinning, deaths>>, thinning.at = "sweep" => archive' # <<>>
      PROVE  PassOK' /\ (thinning'.at = "sweep" => archive' # <<>> /\ thinning'.left > 0)
    BY <1>1, <1>9 DEF PassOK
<1>10. CASE Keep
  <2>1. archive' # <<>>
      BY <1>1, <1>10, AppendProperties DEF Keep, Ages
  <2>. QED
      BY <1>9, <1>10, <2>1 DEF Keep
<1>11. CASE Day
  <2>1. archive # <<>> => 1 \in DOMAIN archive
      BY <1>1
  <2>2. archive # <<>> => archive' # <<>>
      BY <1>11, <2>1 DEF Day
  <2>. QED
      BY <1>1, <1>9, <1>11, <2>2 DEF Day
<1>12. CASE OtherUse \/ UNCHANGED archiveVars
    BY <1>1, <1>9, <1>12 DEF OtherUse, archiveVars
<1>. QED
    BY <1>3, <1>4, <1>5, <1>6, <1>7, <1>8, <1>10, <1>11, <1>12 DEF RetentionNext, RetentionStep

LEMMA RetentionStepTyped == RetentionTypeOK /\ [RetentionNext]_archiveVars => RetentionTypeOK'
<1> SUFFICES ASSUME RetentionTypeOK, [RetentionNext]_archiveVars PROVE RetentionTypeOK'
    OBVIOUS
<1>1. archive' \in Seq(Ages) => DOMAIN archive' = 1..Len(archive')
    OBVIOUS
<1>. QED
    BY <1>1, ArchiveTyped, PassTyped DEF RetentionTypeOK, OldestFirst, DiskOK, PassOK, Ages

-----------------------------------------------------------------------------
(* Recap: the mark, and what the loop and a form have in hand. *)

RecapBehind ==
    /\ loop.at # "idle" => loop.day < today.date
    /\ form.open => form.last < today.date

RecapInv == RecapTypeOK /\ RecapBehind

LEMMA RecapInitSound == RecapInit => RecapInv
BY RecapAssumption DEF RecapInit, RecapInv, RecapTypeOK, RecapBehind, Resting, NoForm

LEMMA RecapStepSound == RecapInv /\ [RecapNext]_recapVars => RecapInv'
<1> SUFFICES ASSUME RecapInv, [RecapNext]_recapVars PROVE RecapInv'
    OBVIOUS
<1>0. /\ today.date \in 0..LastDay /\ today.late \in BOOLEAN
      /\ today = [date |-> today.date, late |-> today.late]
    BY DEF RecapInv, RecapTypeOK
<1>1. CASE LookAtClock
  <2>1. today.date > 0
      BY <1>1 DEF LookAtClock
  <2>2. loop' = [at |-> "post", day |-> today.date - 1, on |-> FALSE]
      BY <1>1 DEF LookAtClock, Resting
  <2>3. today.date - 1 \in -1..LastDay /\ today.date - 1 < today.date
      BY <1>0, <2>1, RecapAssumption
  <2>4. RecapTypeOK'
    <3>1. loop' \in [at: {"idle", "post", "load", "save"}, day: -1..LastDay, on: BOOLEAN]
        BY <2>2, <2>3
    <3>. QED
        BY <1>1, <3>1 DEF LookAtClock, RecapInv, RecapTypeOK
  <2>5. RecapBehind'
      BY <1>1, <2>2, <2>3 DEF LookAtClock, RecapInv, RecapBehind
  <2>. QED
      BY <2>4, <2>5 DEF RecapInv
<1>5. CASE Clock
  <2>1. CASE ~today.late
    <3>1. today' = [date |-> today.date, late |-> TRUE]
        BY <1>0, <1>5, <2>1 DEF Clock
    <3>. QED
        BY <1>0, <1>5, <3>1 DEF Clock, RecapInv, RecapTypeOK, RecapBehind
  <2>2. CASE today.late /\ today.date < LastDay
    <3>1. today' = [date |-> today.date + 1, late |-> FALSE]
        BY <1>5, <2>2 DEF Clock
    <3>2. today.date + 1 \in 0..LastDay
        BY <1>0, <2>2, RecapAssumption
    <3>3. /\ today'.date = today.date + 1
          /\ settingsFile.last \in Int /\ loop.day \in Int /\ form.last \in Int
        BY <3>1, RecapAssumption DEF RecapInv, RecapTypeOK
    <3>4. RecapTypeOK'
        BY <1>0, <1>5, <3>1, <3>2, <3>3 DEF Clock, RecapInv, RecapTypeOK
    <3>5. RecapBehind'
        BY <1>0, <1>5, <3>3 DEF Clock, RecapInv, RecapBehind
    <3>. QED
        BY <3>4, <3>5 DEF RecapInv
  <2>3. CASE today' = today
      BY <1>5, <2>3 DEF Clock, RecapInv, RecapTypeOK, RecapBehind
  <2>. QED
      BY <1>0, <1>5, <2>1, <2>2, <2>3 DEF Clock
<1> USE RecapAssumption DEF RecapInv, RecapTypeOK, RecapBehind, Resting, NoForm
<1>2. CASE PostRecap
    BY <1>2 DEF PostRecap
<1>3. CASE LoadMark
    BY <1>3 DEF LoadMark
<1>4. CASE SaveMark
    BY <1>4 DEF SaveMark, Marked
<1>6. CASE OpenForm
    BY <1>6 DEF OpenForm
<1>7. CASE SaveForm
    BY <1>7 DEF SaveForm
<1>8. CASE CrashRecap
    BY <1>8 DEF CrashRecap
<1>9. CASE UNCHANGED recapVars
    BY <1>9 DEF recapVars
<1>. QED
    BY <1>1, <1>2, <1>3, <1>4, <1>5, <1>6, <1>7, <1>8, <1>9 DEF RecapNext, RecapStep

-----------------------------------------------------------------------------
(* Announcements: slugs, and all of the types. *)

\* A slug is one crew's.
OneEach == \A c, d \in Told : slugOf[c] # 0 /\ slugOf[c] = slugOf[d] => c = d

CrewTypes ==
    /\ slugOf \in [Told -> Names \cup {0}] /\ hadSlug \in [Told -> Names \cup {0}]
    /\ ground \in [Told -> Grounds] /\ toggles \subseteq Toggles /\ posting \in BOOLEAN

LEMMA SlugsOnce ==
    ASSUME CrewTypes, OneEach
    PROVE  \A s \in Names : Cardinality({c \in Told : slugOf[c] = s}) <= 1
<1> SUFFICES ASSUME NEW s \in Names
             PROVE  Cardinality({c \in Told : slugOf[c] = s}) <= 1
    OBVIOUS
<1>1. s # 0
    BY AnnouncementsAssumption
<1>2. CASE {c \in Told : slugOf[c] = s} = {}
    BY <1>2, FS_EmptySet
<1>3. CASE {c \in Told : slugOf[c] = s} # {}
  <2>1. PICK c \in Told : slugOf[c] = s
      BY <1>3
  <2>2. {d \in Told : slugOf[d] = s} = {c}
      BY <1>1, <2>1 DEF OneEach
  <2>. QED
      BY <2>2, FS_Singleton
<1>. QED
    BY <1>2, <1>3

\* Crews come and go with slugs that nobody holds.
LEMMA SlugsKept ==
    ASSUME CrewTypes, OneEach, [TgNext]_tgVars
    PROVE  CrewTypes' /\ OneEach'
<1>1. ASSUME NEW c \in Told, NEW s \in Names, ~SlugTaken(s), slugOf' = [slugOf EXCEPT ![c] = s]
      PROVE  OneEach'
    BY <1>1 DEF CrewTypes, OneEach, SlugTaken
<1>2. ASSUME NEW c \in Told, TellFound(c) PROVE CrewTypes' /\ OneEach'
  <2>1. PICK s \in Names : /\ ~SlugTaken(s) /\ slugOf' = [slugOf EXCEPT ![c] = s]
                           /\ hadSlug' = [hadSlug EXCEPT ![c] = s]
      BY <1>2 DEF TellFound
  <2>2. CrewTypes'
      BY <1>2, <2>1 DEF TellFound, CrewTypes
  <2>. QED
      BY <1>1, <2>1, <2>2
<1>3. ASSUME NEW c \in Told, TellFold(c) PROVE CrewTypes' /\ OneEach'
    BY <1>3 DEF TellFold, CrewTypes, OneEach
<1>4. ASSUME NEW c \in Told, TellReturn(c) PROVE CrewTypes' /\ OneEach'
  <2>1. PICK s \in Names :
            /\ IF SlugTaken(hadSlug[c]) THEN ~SlugTaken(s) ELSE s = hadSlug[c]
            /\ slugOf' = [slugOf EXCEPT ![c] = s] /\ hadSlug' = [hadSlug EXCEPT ![c] = s]
      BY <1>4 DEF TellReturn
  <2>2. ~SlugTaken(s)
      BY <2>1
  <2>3. CrewTypes'
      BY <1>4, <2>1 DEF TellReturn, CrewTypes
  <2>. QED
      BY <1>1, <2>1, <2>2, <2>3
<1>5. CASE TurnSwitch
    BY <1>5 DEF TurnSwitch, CrewTypes, OneEach
<1>6. CASE RedrawTold
    BY <1>6 DEF RedrawTold, CrewTypes, OneEach
<1>7. CASE SendMessage \/ CrashTold \/ UNCHANGED tgVars
    BY <1>7 DEF SendMessage, CrashTold, tgVars, tgCrewVars, CrewTypes, OneEach
<1>. QED
    BY <1>2, <1>3, <1>4, <1>5, <1>6, <1>7 DEF TgNext

LEMMA TgTyped == TgSpec => []TgTypeOK
<1>1. TgInit => CrewTypes /\ OneEach
    BY AnnouncementsAssumption DEF TgInit, CrewTypes, OneEach, Grounds, Toggles
<1>2. CrewTypes /\ OneEach /\ [TgNext]_tgVars => (CrewTypes /\ OneEach)'
    BY SlugsKept
<1>3. TellInv /\ [TgNext]_tgVars => TellInv'
    BY TellStep
<1>4. TellInv /\ CrewTypes /\ OneEach => TgTypeOK
  <2> SUFFICES ASSUME TellInv, CrewTypes, OneEach PROVE TgTypeOK
      OBVIOUS
  <2>1. outbox \in Seq(Message)
      BY DEF TellInv, TellTypes
  <2>2. ToSet(outbox) \subseteq Names \X (0..Rungs)
      BY <2>1 DEF ToSet, Message
  <2>. QED
      BY <2>2, SlugsOnce DEF TgTypeOK, CrewTypes, TellInv, TellTypes, Seen
<1>. QED
    BY <1>1, <1>2, <1>3, <1>4, TellInitSound, PTL DEF TgSpec

-----------------------------------------------------------------------------
(* The run that puts them together. *)

\* Each step of the run is one of every component, or leaves it alone.
LEMMA LoopsSteps ==
    [LoopsNext]_loopsVars =>
        /\ [RedrawNext]_redrawVars /\ [TgNext]_tgVars /\ [RetentionNext]_archiveVars
        /\ [RecapNext]_recapVars /\ [Next]_vars
BY DEF LoopsNext, MapMoves, NewsMoves, ArchiveMoves, RecapMoves, PairingMoves, loopsVars

\* No behaviour of the run shows a component anything it would not do by itself:
\* what is proved of the redraw, the announcements, retention, the recap and
\* pairing, each for itself, holds where main.py drives them together.
THEOREM LoopsSound ==
    LoopsSpec =>
        /\ RedrawInit /\ [][RedrawNext]_redrawVars
        /\ TgSpec
        /\ InitRetention /\ [][RetentionNext]_archiveVars
        /\ RecapInit /\ [][RecapNext]_recapVars
        /\ Spec
BY LoopsSteps, PTL DEF LoopsSpec, LoopsInit, TgSpec, Spec

\* The map and its files, the slugs, the queue and the snapshot of the
\* announcements, the order of the archive and the disk under it, the mark of the
\* recap, tokens and sessions are all what they should be.
THEOREM LoopsTyped == LoopsSpec => []LoopsTypeOK
<1>1. RedrawInit /\ [][RedrawNext]_redrawVars => []RedrawTypeOK
  <2>1. RedrawTypeOK /\ [RedrawNext]_redrawVars => RedrawTypeOK'
      BY RedrawTyped
  <2>2. RedrawInit => RedrawTypeOK
      BY RedrawInitSound DEF RedrawInv
  <2>. QED
      BY <2>1, <2>2, PTL
<1>2. InitRetention /\ [][RetentionNext]_archiveVars => []RetentionTypeOK
    BY RetentionInitTyped, RetentionStepTyped, PTL
<1>3. RecapInit /\ [][RecapNext]_recapVars => []RecapTypeOK
  <2>1. RecapInv => RecapTypeOK
      BY DEF RecapInv
  <2>. QED
      BY <2>1, RecapInitSound, RecapStepSound, PTL
<1>4. Spec => []TypeOK
  <2>1. IInv => TypeOK
      BY DEF IInv
  <2>. QED
      BY <2>1, PairingSound, PTL
<1>5. RedrawTypeOK /\ TgTypeOK /\ RetentionTypeOK /\ RecapTypeOK /\ TypeOK => LoopsTypeOK
    BY DEF LoopsTypeOK
<1>. QED
    BY <1>1, <1>2, <1>3, <1>4, <1>5, TgTyped, LoopsSound, PTL
=============================================================================
