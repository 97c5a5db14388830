----------------------------- MODULE Retention -----------------------------
(***************************************************************************)
(* The archive of raw uploads and the pass that thins it out:              *)
(* services/retention.py over the raw_uploads table, driven for ever by    *)
(* _retention_loop of main.py, with the settings an admin may change at    *)
(* any moment.                                                             *)
(*                                                                         *)
(* One upload takes one page of the database file and a day is one tick.   *)
(* SQLite keeps the pages a DELETE empties inside the file and fills them  *)
(* again before the file grows; nothing in the repository asks for a       *)
(* VACUUM.  So a deleted upload turns into a spare page, not into disk.    *)
(* The sweep of spent notices that opens a pass is in Crews.               *)
(***************************************************************************)
EXTENDS Naturals, Sequences, SequencesExt

CONSTANTS
    Disk,           \* pages on the disk
    DayChoices,     \* days to keep an admin chooses from; 0 is "never evict"
    FloorChoices,   \* disk floors an admin chooses from, in pages
    OldAge,         \* an age past every choice of days
    SweepLimit,     \* oldest_raw(limit=10000)
    MaxArchive,     \* bound: raw uploads kept at one time
    MaxDeaths       \* bound: passes that die

ASSUME RetentionAssumption ==
    /\ Disk \in Nat /\ OldAge \in Nat /\ SweepLimit \in Nat \ {0}
    /\ MaxArchive \in Nat /\ MaxDeaths \in Nat
    /\ DayChoices \subseteq 0..(OldAge - 1) /\ FloorChoices \subseteq 0..Disk

VARIABLES
    archive,    \* the raw uploads, oldest first: the age of each
    spare,      \* pages of the database file that hold nothing
    other,      \* pages everything else on the disk takes
    wish,       \* get_retention(): the days and the floor in force
    thinning,       \* the pass under way, with the settings it read when it began
    deaths      \* passes that died

archiveVars == <<archive, spare, other, wish, thinning, deaths>>

Settings == [days: DayChoices, floor: FloorChoices]
NoPass(set) == [at |-> "idle", days |-> set.days, floor |-> set.floor, left |-> 0]

\* free_gb()
Free == Disk - other - Len(archive) - spare
Fits == other + Len(archive) + spare <= Disk

-----------------------------------------------------------------------------
InitRetention ==
    /\ archive = <<>> /\ spare = 0 /\ other = 0 /\ deaths = 0
    /\ wish \in Settings
    /\ thinning = NoPass(wish)

\* save_raw() of an upload that has just been stored.
Keep ==
    /\ Len(archive) < MaxArchive
    /\ spare > 0 \/ Free > 0
    /\ archive' = Append(archive, 0)
    /\ spare' = IF spare > 0 THEN spare - 1 ELSE 0
    /\ UNCHANGED <<other, wish, thinning, deaths>>

Day ==
    /\ archive' = [i \in DOMAIN archive |->
            IF archive[i] < OldAge THEN archive[i] + 1 ELSE OldAge]
    /\ UNCHANGED <<spare, other, wish, thinning, deaths>>

\* The log, the snapshots and the rest of the machine.
OtherUse ==
    /\ other' \in {other + 1, other - 1} \cap (0..(other + Free))
    /\ UNCHANGED <<archive, spare, wish, thinning, deaths>>

\* set_retention()
Choose ==
    /\ wish' \in Settings
    /\ UNCHANGED <<archive, spare, other, thinning, deaths>>

-----------------------------------------------------------------------------
BeginPass ==
    /\ thinning.at = "idle"
    /\ thinning' = [NoPass(wish) EXCEPT !.at = "age"]
    /\ UNCHANGED <<archive, spare, other, wish, deaths>>

BadPastDays(age, days) == age > days

\* Zero days is "keep everything", not "everything is too old".
PastDays(age, days) == days > 0 /\ age > days

\* The age sweep: one commit for all of them, the oldest.
EvictByAge ==
    /\ thinning.at = "age"
    /\ \E n \in 0..Len(archive) :
          /\ \A i \in DOMAIN archive : PastDays(archive[i], thinning.days) <=> i <= n
          /\ archive' = SubSeq(archive, n + 1, Len(archive))
    /\ spare' = spare + Len(archive) - Len(archive')
    /\ thinning' = [thinning EXCEPT !.at = "look", !.left = SweepLimit]
    /\ UNCHANGED <<other, wish, deaths>>

BadShort(floor) == Len(archive) > 0

Short(floor) == Free < floor

\* The check before the pressure sweep and after every upload it evicts.
LookAtDisk ==
    /\ thinning.at = "look"
    /\ thinning' = IF Short(thinning.floor) /\ thinning.left > 0 /\ archive # <<>>
               THEN [thinning EXCEPT !.at = "sweep"] ELSE NoPass(wish)
    /\ UNCHANGED <<archive, spare, other, wish, deaths>>

\* One eviction is one commit.  What came in since the list was read is
\* younger than everything on it.
EvictOldest ==
    /\ thinning.at = "sweep"
    /\ archive' = Tail(archive)
    /\ spare' = spare + 1
    /\ thinning' = [thinning EXCEPT !.at = "look", !.left = @ - 1]
    /\ UNCHANGED <<other, wish, deaths>>

BadPassDies ==
    /\ thinning.at # "idle" /\ deaths < MaxDeaths
    /\ thinning' = [NoPass(wish) EXCEPT !.at = "gone"]
    /\ deaths' = deaths + 1
    /\ UNCHANGED <<archive, spare, other, wish>>

\* A pass that raises is logged, a process that dies starts again: what was
\* committed stays.
PassDies ==
    /\ thinning.at # "idle" /\ deaths < MaxDeaths
    /\ thinning' = NoPass(wish)
    /\ deaths' = deaths + 1
    /\ UNCHANGED <<archive, spare, other, wish>>

RetentionStep == BeginPass \/ EvictByAge \/ LookAtDisk \/ EvictOldest
RetentionNext == RetentionStep \/ Keep \/ Day \/ OtherUse \/ Choose \/ PassDies

\* The loop sleeps, passes, and swallows whatever a pass raises.
RetentionFairness == WF_archiveVars(RetentionStep)
RetentionSpec == InitRetention /\ [][RetentionNext]_archiveVars /\ RetentionFairness

-----------------------------------------------------------------------------
\* Everything stays in its range, the archive stays in the order its uploads
\* came in, and the disk is never over-full.
RetentionTypeOK ==
    /\ archive \in Seq(0..OldAge) /\ Len(archive) <= MaxArchive
    /\ \A i, j \in DOMAIN archive : i < j => archive[i] >= archive[j]
    /\ spare \in Nat /\ other \in 0..Disk /\ Fits
    /\ wish \in Settings /\ deaths \in 0..MaxDeaths
    /\ thinning \in [at: {"idle", "age", "look", "sweep"}, days: DayChoices,
                 floor: FloorChoices, left: 0..SweepLimit]
    /\ thinning.at = "sweep" => archive # <<>> /\ thinning.left > 0

TooOld == archive # <<>> /\ wish.days > 0 /\ archive[1] > wish.days

\* An upload past the days the admin chose does go, whatever passes die, unless
\* the admin changes the mind: the age sweep of run_retention() comes round.
OldUploadsGo == TooOld ~> ~TooOld

\* Once the admin has asked to keep everything and the disk has room for it
\* whatever floor is chosen, a pass that began earlier may still finish, but
\* from then on nothing is ever evicted: the promise of zero days that
\* run_retention() explains at length.
KeepEverything ==
    <>[](wish.days = 0 /\ \A floor \in FloorChoices : Free >= floor)
        => <>[][Len(archive') >= Len(archive)]_archive

\* A sweep takes another upload only while the disk would be short even with
\* everything evicted so far given back: "evict oldest validated raw until
\* above the floor", as run_retention() says of itself.
SweepStopsAtTheFloor ==
    [][thinning.at = "look" /\ thinning'.at = "sweep"
          => Disk - other - Len(archive) < thinning.floor]_archiveVars
=============================================================================
