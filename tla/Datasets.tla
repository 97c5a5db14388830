------------------------------ MODULE Datasets ------------------------------
(***************************************************************************)
(* The dataset manager (services/datasets.py), the admin routes over it    *)
(* and the nightly job that shares its files: snapshots of the live        *)
(* database, the manifest that lists them, rotation, and the switch that   *)
(* puts a snapshot in the place of the live file.                          *)
(*                                                                         *)
(* A database is the set of rides in it.  Every function of the manager is *)
(* load, work, save with no lock, so the admin's request and the nightly   *)
(* process are modelled step by step.  One admin request runs at a time.   *)
(***************************************************************************)
EXTENDS Naturals, FiniteSets, FiniteSetsExt

CONSTANTS
    ManualSlots,    \* slugs that a name an admin types can get, in the order
                    \* base, base-2, ...: numbers below those of AutoSlots
    AutoSlots,      \* slugs of automatic backups: the time is in the name
    SwitchKeep,     \* DEFAULT_BACKUP_KEEP, the rotation inside a switch
    NightKeep,      \* the rotation of the nightly job
    MaxStored,      \* bound: rides
    MaxOrders,      \* bound: operations of the admin, renames and prunes aside
    MaxNights       \* bound: nightly jobs

ASSUME DatasetsAssumption ==
    /\ ManualSlots \subseteq Nat \ {0} /\ AutoSlots \subseteq Nat \ {0}
    /\ \A s \in ManualSlots, t \in AutoSlots : s < t
    /\ {SwitchKeep, NightKeep} \subseteq Nat \ {0, 1}
    /\ {MaxStored, MaxOrders, MaxNights} \subseteq Nat

VARIABLES
    live,       \* the rides in the database file that is served
    files,      \* data/datasets/<slug>.sqlite: the rides in each
    manifest,   \* manifest.json: the active slug (0: none), the datasets
    desk,       \* desk[a]: where actor a is in its operation
    orders, nights,
    stored,     \* history: the rides acknowledged so far are 1..stored
    excused,    \* history: the rides that may be gone, see Ride and Removed
    crossed     \* history: a manifest was saved over one its writer had not read

datasetHistory == <<stored, excused, crossed>>
datasetCounts == <<orders, nights>>
datasetVars == <<live, files, manifest, desk, datasetCounts, datasetHistory>>

Actors == {"admin", "nightly"}
Slots == ManualSlots \cup AutoSlots
Content == SUBSET (1..MaxStored)
Steps == {"idle", "backup", "record", "prune", "delete", "write", "copy", "swap", "point"}
Ops == {"none", "save", "new", "import", "rename", "delete", "prune", "switch", "auto"}
\* "read" is the manifest as the actor loaded it, "held" as it changed it, "then"
\* the step after it is written, "bag" the rides it has copied, "risk" that a switch has
\* taken, or thought needless, its backup.
Nothing == [active |-> 0, datasets |-> {}]
AtRest == [at |-> "idle", op |-> "none", slot |-> 0, target |-> 0, doomed |-> {},
           read |-> Nothing, held |-> Nothing, then |-> "idle", bag |-> {}, risk |-> FALSE]
Load(d, m) == [d EXCEPT !.at = "write", !.read = manifest, !.held = m]

Listed(m) == {e.slug : e \in m.datasets}
Drop(m, s) == [m EXCEPT !.datasets = {e \in @ : e.slug # s}]
\* _now(), which is later than any record before.
Now(m) == 1 + Max({0} \cup {e.created : e \in m.datasets})
Entry(m, s, manual) == [slug |-> s, manual |-> manual, created |-> Now(m)]
Appended(m, s, manual) ==
    [Drop(m, s) EXCEPT !.datasets = @ \cup {Entry(m, s, manual)}]

BadFreshSlot(m, s) == s \notin Listed(m) \/ s = 1
\* _unique_slug(): the first of base, base-2, ... that the manifest does not list.
FreshSlot(m, s) == s \notin Listed(m)
TypedSlot(s) == /\ s \in ManualSlots /\ FreshSlot(manifest, s)
                /\ \A t \in ManualSlots : FreshSlot(manifest, t) => s <= t
InUse == Listed(manifest) \cup DOMAIN files
         \cup UNION {{desk[a].slot} \cup Listed(desk[a].held) \cup {e.slug : e \in desk[a].doomed} :
                      a \in Actors}
Later == {t \in AutoSlots : \A u \in InUse : u < t}
StampedSlot(s) == s \in Later /\ \A t \in Later : s <= t

Autos(m) == {e \in m.datasets : ~e.manual /\ e.slug # m.active}
BadVictims(m, keep) ==
    {e \in Autos(m) : Cardinality({f \in Autos(m) : f.created < e.created}) >= keep}
\* prune_autos(): the automatic backups but the newest, and never the active
\* one; all of them when nothing is to be kept.
Victims(m, keep) ==
    {e \in Autos(m) : Cardinality({f \in Autos(m) : f.created > e.created}) >= keep}

Kept(f) == UNION {f[s] : s \in DOMAIN f}
LostBy(s) == IF s \in DOMAIN files THEN files[s] \ (live \cup Kept(files')) ELSE {}
\* A file is written: one of that name is overwritten, which a file that a crash
\* or a race has left out of the manifest does not prevent.
Put(s, rides) ==
    /\ files' = [x \in DOMAIN files \cup {s} |-> IF x = s THEN rides ELSE files[x]]
    /\ excused' = excused \cup LostBy(s)
\* A file goes: the rides that were in it alone are excused.
Removed(s) ==
    /\ files' = [x \in DOMAIN files \ {s} |-> files[x]]
    /\ excused' = excused \cup LostBy(s)

DatasetsInit ==
    /\ live = {} /\ files = <<>> /\ stored = 0 /\ excused = {} /\ crossed = FALSE
    /\ orders = 0 /\ nights = 0
    /\ manifest = Nothing
    /\ desk = [a \in Actors |-> AtRest]

-----------------------------------------------------------------------------
Swapped == LET d == desk["admin"]
           IN  d.at = "point" \/ (d.at = "write" /\ d.op = "switch" /\ d.then = "idle")

\* An upload is stored and acknowledged.  While a switch is under way it may
\* come after the backup and go with the file that is replaced, or reach a
\* connection that still has the replaced file open.
Ride ==
    /\ stored < MaxStored /\ stored' = stored + 1
    /\ \/ live' = live \cup {stored'}
       \/ Swapped /\ UNCHANGED live
    /\ excused' = IF desk["admin"].risk THEN excused \cup {stored'} ELSE excused
    /\ UNCHANGED <<files, manifest, desk, crossed, datasetCounts>>

Starts(a, d) ==
    /\ desk[a].at = "idle"
    /\ desk' = [desk EXCEPT ![a] = d]
Order(d) ==
    /\ orders < MaxOrders /\ orders' = orders + 1 /\ UNCHANGED nights
    /\ Starts("admin", d)

\* save_current() by the admin.
SaveSnapshot ==
    /\ \E s \in ManualSlots :
          /\ TypedSlot(s)
          /\ Order([AtRest EXCEPT !.at = "backup", !.op = "save", !.slot = s])
    /\ UNCHANGED <<live, files, manifest, datasetHistory>>

\* create_empty() and import_file(), here of a snapshot exported before.
AddSlot(op, rides) ==
    /\ \E s \in ManualSlots :
          /\ TypedSlot(s)
          /\ Order([AtRest EXCEPT !.at = "record", !.op = op, !.slot = s])
          /\ Put(s, rides)
    /\ UNCHANGED <<live, manifest, stored, crossed>>
CreateEmpty == AddSlot("new", {})
ImportFile == \E s \in DOMAIN files : AddSlot("import", files[s])

\* rename() writes the manifest it has read; the name itself is left out.
Rename ==
    /\ manifest.datasets # {}
    /\ Starts("admin", Load([AtRest EXCEPT !.op = "rename"], manifest))
    /\ UNCHANGED <<live, files, manifest, datasetCounts, datasetHistory>>

DeleteSnapshot ==
    /\ \E e \in manifest.datasets :
          Order([AtRest EXCEPT !.at = "delete", !.op = "delete", !.doomed = {e}])
    /\ UNCHANGED <<live, files, manifest, datasetHistory>>

PruneAutos ==
    /\ \E keep \in 0..SwitchKeep :
          Starts("admin", [AtRest EXCEPT !.at = "delete", !.op = "prune",
                                        !.doomed = Victims(manifest, keep)])
    /\ UNCHANGED <<live, files, manifest, datasetCounts, datasetHistory>>

\* switch_to() up to its backup, which a database without rides does without.
SwitchOn(s) ==
    LET d == [AtRest EXCEPT !.op = "switch", !.target = s]
    IN  IF live = {} THEN {[d EXCEPT !.at = "copy", !.risk = TRUE]}
        ELSE {[d EXCEPT !.at = "backup", !.slot = t] : t \in {u \in AutoSlots : StampedSlot(u)}}
SwitchTo ==
    /\ \E s \in Listed(manifest) \cap DOMAIN files : \E d \in SwitchOn(s) : Order(d)
    /\ UNCHANGED <<live, files, manifest, datasetHistory>>

\* auto_backup(): a backup if today has none, then the rotation.
AutoBackup ==
    /\ nights < MaxNights /\ nights' = nights + 1
    /\ \/ \E s \in AutoSlots :
             /\ StampedSlot(s)
             /\ Starts("nightly", [AtRest EXCEPT !.at = "backup", !.op = "auto", !.slot = s])
       \/ Starts("nightly", [AtRest EXCEPT !.at = "prune", !.op = "auto"])
    /\ UNCHANGED <<live, files, manifest, orders, datasetHistory>>

-----------------------------------------------------------------------------
\* The online backup, to a temporary name and then moved; below the disk floor
\* it raises, and the operation with it.
Backup(a) ==
    /\ desk[a].at = "backup"
    /\ \/ /\ Put(desk[a].slot, live)
          /\ desk' = [desk EXCEPT ![a].at = "record", ![a].risk = desk[a].op = "switch"]
       \/ desk' = [desk EXCEPT ![a] = AtRest] /\ UNCHANGED <<files, excused>>
    /\ UNCHANGED <<live, manifest, stored, crossed, datasetCounts>>

\* _record(): load and append; what follows depends on the operation.
Record(a) ==
    /\ desk[a].at = "record"
    /\ LET d == desk[a]
           manual == d.op \in {"save", "new", "import"}
           next == CASE ~manual -> "prune" [] d.op = "new" -> "switch" [] OTHER -> "idle"
       IN  desk' = [desk EXCEPT ![a] = [Load(d, Appended(manifest, d.slot, manual))
                                           EXCEPT !.then = next]]
    /\ UNCHANGED <<live, files, manifest, datasetCounts, datasetHistory>>

\* _save(), and the next step.  A new empty slot is switched to at once.
WriteManifest(a) ==
    /\ desk[a].at = "write"
    /\ manifest' = desk[a].held
    /\ crossed' = (crossed \/ manifest # desk[a].read)
    /\ CASE desk[a].then = "idle" -> desk' = [desk EXCEPT ![a] = AtRest]
         [] desk[a].then = "switch" ->
               \E d \in SwitchOn(desk[a].slot) : desk' = [desk EXCEPT ![a] = d]
         [] OTHER -> desk' = [desk EXCEPT ![a].at = desk[a].then, ![a].read = Nothing,
                                             ![a].held = Nothing]
    /\ UNCHANGED <<live, files, stored, excused, datasetCounts>>

Rotate(a) ==
    /\ desk[a].at = "prune"
    /\ desk' = [desk EXCEPT ![a].at = "delete",
          ![a].doomed = Victims(manifest, IF a = "nightly" THEN NightKeep ELSE SwitchKeep)]
    /\ UNCHANGED <<live, files, manifest, datasetCounts, datasetHistory>>

\* delete() of the next slot, the oldest of those to go: load, refuse the active
\* one, remove the file; the entry goes with the save.
Delete(a) ==
    /\ desk[a].at = "delete"
    /\ \E e \in desk[a].doomed :
          /\ \A f \in desk[a].doomed : e.created <= f.created
          /\ IF e.slug = manifest.active
             THEN desk' = [desk EXCEPT ![a] = AtRest] /\ UNCHANGED <<files, excused>>
             ELSE /\ Removed(e.slug)
                  /\ desk' = [desk EXCEPT ![a] = [Load(desk[a], Drop(manifest, e.slug))
                                  EXCEPT !.doomed = desk[a].doomed \ {e}, !.then = "delete"]]
    /\ UNCHANGED <<live, manifest, stored, crossed, datasetCounts>>

DeletedAll(a) ==
    /\ desk[a].at = "delete" /\ desk[a].doomed = {}
    /\ desk' = [desk EXCEPT ![a] = IF @.op = "switch" THEN [@ EXCEPT !.at = "copy"] ELSE AtRest]
    /\ UNCHANGED <<live, files, manifest, datasetCounts, datasetHistory>>

\* The snapshot is copied beside the live file, if it is still there.
CopyIncoming ==
    /\ desk["admin"].at = "copy"
    /\ LET s == desk["admin"].target
       IN  desk' = [desk EXCEPT !["admin"] =
              IF s \in DOMAIN files THEN [@ EXCEPT !.at = "swap", !.bag = files[s]] ELSE AtRest]
    /\ UNCHANGED <<live, files, manifest, datasetCounts, datasetHistory>>

\* os.replace(): the copy takes the place of the live file.
Swap ==
    /\ desk["admin"].at = "swap"
    /\ live' = desk["admin"].bag
    /\ desk' = [desk EXCEPT !["admin"].at = "point"]
    /\ UNCHANGED <<files, manifest, datasetCounts, datasetHistory>>

\* The manifest names the new active slot; after its save the connections to
\* the replaced file are dropped.
Point ==
    /\ desk["admin"].at = "point"
    /\ LET d == desk["admin"]
       IN  desk' = [desk EXCEPT !["admin"] =
              [Load(d, [manifest EXCEPT !.active = d.target]) EXCEPT !.then = "idle"]]
    /\ UNCHANGED <<live, files, manifest, datasetCounts, datasetHistory>>

\* The process of one of them dies.
Die(a) ==
    /\ desk[a].at # "idle"
    /\ desk' = [desk EXCEPT ![a] = AtRest]
    /\ UNCHANGED <<live, files, manifest, datasetCounts, datasetHistory>>

DatasetsNext ==
    \/ Ride \/ SaveSnapshot \/ CreateEmpty \/ ImportFile \/ Rename \/ DeleteSnapshot
    \/ PruneAutos \/ SwitchTo \/ AutoBackup
    \/ \E a \in Actors : \/ Backup(a) \/ Record(a) \/ WriteManifest(a) \/ Rotate(a)
                         \/ Delete(a) \/ DeletedAll(a) \/ Die(a)
    \/ CopyIncoming \/ Swap \/ Point

DatasetsSpec == DatasetsInit /\ [][DatasetsNext]_datasetVars

-----------------------------------------------------------------------------
Recorded == [slug : Slots, manual : BOOLEAN, created : 1..(2 * MaxOrders + MaxNights)]
IsManifest(m) ==
    /\ m.active \in Slots \cup {0} /\ m.datasets \subseteq Recorded
    /\ \A e, f \in m.datasets : e.slug = f.slug \/ e.created = f.created => e = f

\* The manifest never lists a slug twice, whoever writes it, and tells the ages
\* of its snapshots apart.
DatasetsTypeOK ==
    /\ live \in Content /\ DOMAIN files \subseteq Slots /\ Kept(files) \in Content
    /\ IsManifest(manifest)
    /\ \A a \in Actors :
          /\ desk[a].at \in Steps /\ desk[a].op \in Ops /\ desk[a].bag \in Content
          /\ IsManifest(desk[a].held) /\ desk[a].doomed \subseteq Recorded
    /\ orders \in 0..MaxOrders /\ nights \in 0..MaxNights /\ stored \in 0..MaxStored
    /\ excused \in Content /\ crossed \in BOOLEAN

\* A switch "auto-backs up" what it replaces: whatever the nightly job does
\* meanwhile, every ride acknowledged is in the live database or in a snapshot,
\* but for those that came while the switch was past its backup, and those
\* whose last copy was a snapshot that was deleted, rotated out or overwritten.
RidesAreKept == 1..stored \subseteq live \cup Kept(files) \cup excused

\* The rotation "never touches manual snapshots", and no save writes over one
\* that is listed: its file goes, or changes, by its own deletion alone, as long
\* as nobody has saved the manifest over what the other had just written.
ManualKept ==
    [][~crossed => \A s \in ManualSlots \cap Listed(manifest) \cap DOMAIN files :
          \/ s \in DOMAIN files' /\ files'[s] = files[s]
          \/ desk["admin"].op = "delete" /\ \E e \in desk["admin"].doomed : e.slug = s]_datasetVars

\* switch_to() says "Make <slug> the active dataset": the snapshot it was asked
\* for, which it has seen on disk, is there when it comes to copy it.
SwitchKeepsTarget ==
    desk["admin"].at = "copy" => desk["admin"].target \in DOMAIN files
=============================================================================
