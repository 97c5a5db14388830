------------------------------- MODULE Redraw -------------------------------
(***************************************************************************)
(* How a ride reaches the map: the mark an upload leaves, the hourly pass  *)
(* and the fresh pass of main.py, the admin's button, and the steps of     *)
(* territory.rebuild() that another thread or a crash can come between.    *)
(*                                                                         *)
(* The ground of a crew is abstracted to how many of its rides are in it:  *)
(* rows[c] = n says that the clan_cells rows of crew c take n rides into   *)
(* account, 0 that it has no rows.  What the rules make of the rides is    *)
(* the business of Territory.                                              *)
(***************************************************************************)
EXTENDS Naturals, FiniteSets

CONSTANTS
    Drawn,          \* the crews
    RebuildEvery,   \* REBUILD_EVERY_S, in ticks
    FreshGap,       \* FRESH_GAP_S, in ticks
    MaxLanded,      \* bound: rides per crew
    MaxUpsets       \* bound: crews that fold or return, what an admin does,
                    \* rebuilds that raise, and crashes, all together

ASSUME RedrawAssumption ==
    /\ RebuildEvery \in Nat /\ FreshGap \in Nat /\ FreshGap <= RebuildEvery
    /\ MaxLanded \in Nat /\ MaxUpsets \in Nat

VARIABLES
    ridden,     \* ridden[c]: validated rides credited to crew c
    disbanded,  \* crews with disbanded_at
    enabled,    \* settings.get_crews()["enabled"]
    marking,    \* an upload has stored its ride and not set the mark yet
    dirty,      \* territory._dirty[0]
    since,      \* the age of main._last_territory[0], in ticks
    rows,       \* the clan_cells rows, by crew
    pass,       \* pass[w]: the rebuild that worker w is in
    inode,      \* inode[i]: file i, the map in it, whether it is a whole file,
                \* and whether two passes had it open at once
    tmp,        \* the inode that territory.tmp names, or 0
    served,     \* the inode that the served map names
    upsets,
    slipped     \* history: a ride was left to the hourly pass

redrawLoop == <<marking, dirty, since>>
redrawFile == <<inode, tmp, served>>
redrawWorld == <<ridden, disbanded, enabled, upsets>>
redrawVars == <<redrawLoop, redrawFile, redrawWorld, rows, pass, slipped>>

Maps == [Drawn -> 0..MaxLanded]
Blank == [c \in Drawn |-> 0]
Workers == {"hourly", "fresh", "admin"}
Inodes == 1..4      \* the served one, and one per worker
WholeFile(map) == [whole |-> TRUE, shared |-> FALSE, map |-> map]
Stages == {"idle", "looked", "due", "counted", "ready", "written", "open", "closed"}
Idle == [at |-> "idle", rides |-> Blank, living |-> {}, fd |-> 0]

Moves(w, from, to) == pass[w].at = from /\ pass' = [pass EXCEPT ![w].at = to]
Truth == [c \in Drawn |-> IF c \in disbanded THEN 0 ELSE ridden[c]]

RedrawInit ==
    /\ ridden = Blank /\ disbanded = {} /\ enabled = TRUE
    /\ marking = FALSE /\ dirty = FALSE /\ since = RebuildEvery
    /\ rows = Blank /\ pass = [w \in Workers |-> Idle]
    /\ inode = [i \in Inodes |-> WholeFile(Blank)] /\ tmp = 0 /\ served = 1
    /\ upsets = 0 /\ slipped = FALSE

-----------------------------------------------------------------------------
\* An upload stores its ride; uploads run one after another.
Land(c) ==
    /\ ~marking /\ ridden[c] < MaxLanded /\ c \notin disbanded
    /\ ridden' = [ridden EXCEPT ![c] = @ + 1]
    /\ marking' = TRUE
    /\ UNCHANGED <<redrawFile, disbanded, enabled, upsets, dirty, since, rows, pass, slipped>>

MarkDirty ==
    /\ marking /\ marking' = FALSE /\ dirty' = TRUE
    /\ UNCHANGED <<redrawFile, redrawWorld, since, rows, pass, slipped>>

\* The ride is stored, and then saving its track or its file or counting it
\* raises, or setting the mark does and is ignored.  The process lives on, and
\* the upload that is tried again is a duplicate, which sets no mark either.
MarkMissed ==
    /\ marking /\ marking' = FALSE /\ slipped' = TRUE
    /\ UNCHANGED <<redrawFile, redrawWorld, dirty, since, rows, pass>>

\* An admin approves a flagged ride, or a joiner brings one along: neither
\* leaves a mark.
ApproveRide(c) ==
    /\ ridden[c] < MaxLanded /\ c \notin disbanded
    /\ ridden' = [ridden EXCEPT ![c] = @ + 1]
    /\ slipped' = TRUE
    /\ UNCHANGED <<redrawLoop, redrawFile, disbanded, enabled, upsets, rows, pass>>

\* A crew is disbanded with its rows, or left by its last member without.
FoldCrew(c) ==
    /\ c \notin disbanded /\ upsets < MaxUpsets
    /\ disbanded' = disbanded \cup {c}
    /\ rows' \in {rows, [rows EXCEPT ![c] = 0]}
    /\ upsets' = upsets + 1
    /\ UNCHANGED <<redrawLoop, redrawFile, ridden, enabled, pass, slipped>>

ReturnCrew(c) ==
    /\ c \in disbanded /\ upsets < MaxUpsets
    /\ disbanded' = disbanded \ {c}
    /\ upsets' = upsets + 1 /\ slipped' = TRUE
    /\ UNCHANGED <<redrawLoop, redrawFile, ridden, enabled, rows, pass>>

SwitchCrews ==
    /\ upsets < MaxUpsets
    /\ enabled' = ~enabled /\ upsets' = upsets + 1
    /\ UNCHANGED <<redrawLoop, redrawFile, ridden, disbanded, rows, pass, slipped>>

-----------------------------------------------------------------------------
BadDue == enabled /\ dirty /\ since >= RebuildEvery

\* _territory_if_due()
Due == enabled /\ since >= RebuildEvery
HourlyStart ==
    /\ Due /\ Moves("hourly", "idle", "due")
    /\ UNCHANGED <<redrawLoop, redrawFile, redrawWorld, rows, slipped>>

\* One look of _territory_fresh_loop(), on the event loop.
FreshLook ==
    /\ dirty /\ since >= FreshGap /\ Moves("fresh", "idle", "looked")
    /\ UNCHANGED <<redrawLoop, redrawFile, redrawWorld, rows, slipped>>

\* _territory_fresh_once(), on a thread: the mark is claimed before the work.
\* While crews are switched off it is claimed for nothing.
FreshClaim ==
    /\ Moves("fresh", "looked", IF enabled /\ dirty THEN "due" ELSE "idle")
    /\ dirty' = FALSE
    /\ slipped' = (slipped \/ ~enabled)
    /\ UNCHANGED <<redrawFile, redrawWorld, marking, since, rows>>

AdminStart ==
    /\ upsets < MaxUpsets /\ upsets' = upsets + 1
    /\ Moves("admin", "idle", "due")
    /\ UNCHANGED <<redrawLoop, redrawFile, ridden, disbanded, enabled, rows, slipped>>

\* accumulate() reads the rides, and only then are the living crews read.
ReadRides(w) ==
    /\ pass[w].at = "due"
    /\ pass' = [pass EXCEPT ![w].at = "counted", ![w].rides = ridden]
    /\ UNCHANGED <<redrawLoop, redrawFile, redrawWorld, rows, slipped>>

ReadCrews(w) ==
    /\ pass[w].at = "counted"
    /\ pass' = [pass EXCEPT ![w].at = "ready", ![w].living = Drawn \ disbanded]
    /\ UNCHANGED <<redrawLoop, redrawFile, redrawWorld, rows, slipped>>

MapOf(w) == [c \in Drawn |-> IF c \in pass[w].living THEN pass[w].rides[c] ELSE 0]

\* Every row is deleted and written anew in one commit.
CommitRows(w) ==
    /\ Moves(w, "ready", "written")
    /\ rows' = MapOf(w)
    /\ slipped' = (rows' # Truth /\ (slipped \/ \E c \in Drawn : rows'[c] < rows[c]))
    /\ UNCHANGED <<redrawLoop, redrawFile, redrawWorld>>

HasOpen(v, i) == pass[v].at = "open" /\ pass[v].fd = i

Unused(i) == i # served /\ \A v \in Workers : pass[v].fd # i

\* The payload goes into one .tmp file, whoever writes it: opening it empties
\* the file that another pass has written there.
OpenTmp(w) ==
    /\ pass[w].at = "written"
    /\ \E i \in Inodes :
          /\ IF tmp # 0 THEN i = tmp
             ELSE Unused(i) /\ \A j \in Inodes : Unused(j) => i <= j
          /\ tmp' = i
          /\ inode' = [inode EXCEPT ![i] =
                [whole |-> FALSE, map |-> Blank, shared |-> \E v \in Workers : HasOpen(v, i)]]
          /\ pass' = [pass EXCEPT ![w].at = "open", ![w].fd = i]
    /\ UNCHANGED <<redrawLoop, redrawWorld, served, rows, slipped>>

\* What two passes wrote at once is no map, unless by luck.
CloseTmp(w) ==
    /\ Moves(w, "open", "closed")
    /\ LET i == pass[w].fd
       IN  IF \E v \in Workers \ {w} : HasOpen(v, i)
           THEN UNCHANGED inode
           ELSE \/ inode' = [inode EXCEPT ![i] = WholeFile(MapOf(w))]
                \/ inode[i].shared /\ UNCHANGED inode
    /\ UNCHANGED <<redrawLoop, redrawWorld, tmp, served, rows, slipped>>

BadPublish(w) ==
    /\ pass[w].at = "closed" /\ tmp # 0
    /\ served' = tmp /\ tmp' = 0 /\ dirty' = FALSE
    /\ inode' = [inode EXCEPT ![served] = WholeFile(Blank)]
    /\ pass' = [pass EXCEPT ![w] = Idle]
    /\ since' = IF w = "admin" THEN since ELSE 0
    /\ UNCHANGED <<redrawWorld, marking, rows, slipped>>

\* tmp.replace(p): the file that was served is gone.  The two loops note the
\* time, the admin's button does not.
Publish(w) ==
    /\ pass[w].at = "closed" /\ tmp # 0
    /\ served' = tmp /\ tmp' = 0
    /\ inode' = [inode EXCEPT ![served] = WholeFile(Blank)]
    /\ pass' = [pass EXCEPT ![w] = Idle]
    /\ since' = IF w = "admin" THEN since ELSE 0
    /\ UNCHANGED <<redrawWorld, marking, dirty, rows, slipped>>

\* Another pass has moved the file away: replace() raises.
PublishNothing(w) ==
    /\ pass[w].at = "closed" /\ tmp = 0
    /\ pass' = [pass EXCEPT ![w] = Idle]
    /\ UNCHANGED <<redrawLoop, redrawFile, redrawWorld, rows, slipped>>

\* A rebuild raises before its commit; neither mark nor time is put back.
RebuildRaises(w) ==
    /\ pass[w].at \in {"due", "counted", "ready"} /\ upsets < MaxUpsets
    /\ pass' = [pass EXCEPT ![w] = Idle]
    /\ upsets' = upsets + 1 /\ slipped' = (slipped \/ w = "fresh")
    /\ UNCHANGED <<redrawLoop, redrawFile, ridden, disbanded, enabled, rows>>

\* The process restarts: mark, time and passes were in memory.
CrashRedraw ==
    /\ upsets < MaxUpsets /\ upsets' = upsets + 1
    /\ marking' = FALSE /\ dirty' = FALSE /\ since' = RebuildEvery
    /\ pass' = [w \in Workers |-> Idle]
    /\ slipped' = TRUE
    /\ UNCHANGED <<redrawFile, ridden, disbanded, enabled, rows>>

TickRedraw ==
    /\ since' = IF since < RebuildEvery THEN since + 1 ELSE since
    /\ UNCHANGED <<redrawFile, redrawWorld, marking, dirty, rows, pass, slipped>>

RebuildStep(w) ==
    \/ ReadRides(w) \/ ReadCrews(w) \/ CommitRows(w)
    \/ OpenTmp(w) \/ CloseTmp(w) \/ Publish(w) \/ PublishNothing(w)

RedrawNext ==
    \/ \E c \in Drawn : Land(c) \/ ApproveRide(c) \/ FoldCrew(c) \/ ReturnCrew(c)
    \/ MarkDirty \/ MarkMissed \/ SwitchCrews \/ HourlyStart \/ FreshLook \/ FreshClaim \/ AdminStart
    \/ \E w \in Workers : RebuildStep(w) \/ RebuildRaises(w)
    \/ CrashRedraw \/ TickRedraw

\* The retention loop comes round for ever and its threads run to their end;
\* nothing is asked of the fresh loop, of uploads or of admins.
RedrawFairness ==
    /\ WF_redrawVars(TickRedraw) /\ WF_redrawVars(HourlyStart)
    /\ \A w \in {"hourly", "fresh"} : WF_redrawVars(RebuildStep(w))

RedrawSpec == RedrawInit /\ [][RedrawNext]_redrawVars /\ RedrawFairness

-----------------------------------------------------------------------------
RedrawTypeOK ==
    /\ ridden \in Maps /\ disbanded \subseteq Drawn /\ rows \in Maps
    /\ {enabled, marking, dirty, slipped} \subseteq BOOLEAN
    /\ since \in 0..RebuildEvery
    /\ pass \in [Workers -> [at: Stages, rides: Maps, living: SUBSET Drawn, fd: Inodes \cup {0}]]
    /\ inode \in [Inodes -> [whole: BOOLEAN, shared: BOOLEAN, map: Maps]]
    /\ tmp \in Inodes \cup {0} /\ served \in Inodes
    /\ upsets \in 0..MaxUpsets

\* "A ride arriving DURING the rebuild has to leave the mark set so the next
\* pass picks it up": a ride that is not on the map yet is marked, or in a pass
\* that has read it or will, unless something left it to the hourly pass: an
\* upload that raised after it had stored its ride, an approval, a fresh pass
\* that raised, a crash, crews switched off, a crew that returned, or a pass
\* that wrote an older map over a newer one.
InPass(w, c) == \/ pass[w].at = "due"
                \/ pass[w].at = "counted" /\ pass[w].rides[c] = ridden[c]
                \/ pass[w].at = "ready" /\ MapOf(w)[c] = ridden[c]
RideIsOwed ==
    \A c \in Drawn \ disbanded :
        rows[c] < ridden[c] =>
            marking \/ dirty \/ slipped \/ \E w \in Workers : InPass(w, c)

\* However passes overlap, raise and die, once nothing changes any more the
\* rows and the served file come to show every ride of every living crew and
\* no ground of a folded one, and stay so: the hourly pass is the floor.
MapSettles ==
    <>[]enabled => <>[](rows = Truth /\ inode[served] = WholeFile(Truth))

\* territory.py says of the replace: "atomic: a reader never sees half a file".
NoHalfMap == inode[served].whole
=============================================================================
