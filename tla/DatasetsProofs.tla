--------------------------- MODULE DatasetsProofs ---------------------------
(***************************************************************************)
(* Datasets for any slots, any number of orders and nights, and rotations  *)
(* that keep two backups or more: no ride is lost that the excuses do not  *)
(* name, and nothing but its deletion touches a snapshot an admin named.   *)
(* And the nightly process beside the jobs that sum up the rides.          *)
(***************************************************************************)
EXTENDS MCCron, AggregationProofs, FiniteSetTheorems, WellFoundedInduction, TLAPS

-----------------------------------------------------------------------------
(* The inductive invariant. *)

admin == desk["admin"]
nightly == desk["nightly"]
Named(entries) == {e.slug : e \in entries}
ByHand == {"save", "new", "import"}
Stamping == {"switch", "auto"}

Entries == [slug : Slots, manual : BOOLEAN, created : Nat]
Manifests == [active : Slots \cup {0}, datasets : SUBSET Entries]
Desks == [at : Steps, op : Ops, slot : Slots \cup {0}, target : Slots \cup {0},
          doomed : SUBSET Entries, read : Manifests, held : Manifests,
          then : {"idle", "prune", "delete", "switch"}, bag : SUBSET Nat, risk : BOOLEAN]

\* The types, and that _now() is well defined: the entries have a newest one.
Bounded(m) == \E n \in Nat : \A e \in m.datasets : e.created <= n
Types ==
    /\ stored \in Nat /\ live \subseteq Nat
    /\ DOMAIN files \subseteq Slots /\ crossed \in BOOLEAN
    /\ \A s \in DOMAIN files : files[s] \subseteq Nat
    /\ manifest \in Manifests /\ Bounded(manifest)
    /\ desk \in [Actors -> Desks] /\ \A a \in Actors : Bounded(desk[a].held)

\* Which operation can be at which step.
Shapes ==
    /\ nightly.at \in {"idle", "backup", "record", "prune", "delete", "write"}
    /\ nightly.op \in {"none", "auto"} /\ nightly.then # "switch"
    /\ nightly.at \in {"backup", "record"} => nightly.op = "auto"
    /\ admin.op # "auto"
    /\ admin.at \in {"copy", "swap", "point"} => admin.op = "switch"
    /\ admin.at = "backup" => admin.op \in {"save", "switch"}
    /\ admin.at = "record" => admin.op \in ByHand \cup {"switch"}
    /\ admin.at = "write" /\ admin.then = "switch" => admin.op = "new"
    /\ admin.op = "switch" /\ admin.at # "backup" => admin.risk

\* The slug of a backup that is not yet recorded is nobody else's.
Fresh ==
    \A a \in Actors : desk[a].at \in {"backup", "record"} =>
        /\ desk[a].op \in ByHand => desk[a].slot \in ManualSlots
        /\ desk[a].op \in Stamping =>
              /\ desk[a].slot \in AutoSlots \ Listed(manifest)
              /\ \A b \in Actors : /\ desk[a].slot \notin Listed(desk[b].held)
                                   /\ desk[a].slot \notin Named(desk[b].doomed)
                                   /\ b # a => desk[a].slot # desk[b].slot
              /\ desk[a].at = "backup" => desk[a].slot \notin DOMAIN files

\* Between its backup and the swap, a switch has a file with what the live
\* database has, and no version of the manifest that may yet be saved lists two
\* backups later than it: a rotation that keeps two never takes it.
Post == /\ admin.op = "switch"
        /\ \/ admin.at \in {"record", "prune", "delete", "copy", "swap"}
           \/ admin.at = "write" /\ admin.then # "idle"
Covers(s) == s \in DOMAIN files /\ live \subseteq files[s] \cup excused
OneLater(m, s) ==
    \A e, f, g \in m.datasets :
        e.slug = s /\ f.created > e.created /\ g.created > e.created => f = g
Newest(m, s) == \A e, f \in m.datasets : e.slug = s => f.created <= e.created
\* The nightly job is about to record a backup from before the switch's.
StaleToCome == nightly.at = "record" /\ ~Covers(nightly.slot)
Lasts(m, s) == OneLater(m, s) /\ (StaleToCome => Newest(m, s))
Survives(s) ==
    /\ Covers(s) /\ Lasts(manifest, s)
    /\ \A a \in Actors : s \notin Named(desk[a].doomed) /\ Lasts(desk[a].held, s)
Spared == live \subseteq excused \/ \E s \in DOMAIN files : Survives(s)
Safe ==
    /\ Post => Spared
    /\ admin.op = "switch" /\ admin.at = "record" => Covers(admin.slot)

KeptInv == Types /\ Shapes /\ Fresh /\ Safe /\ RidesAreKept

\* An entry says manual when its slug is one an admin typed; only delete() is
\* after such an entry.
Marked(entries) == \A e \in entries : e.manual <=> e.slug \in ManualSlots
MarksRight ==
    /\ Marked(manifest.datasets)
    /\ \A a \in Actors : /\ Marked(desk[a].held.datasets) /\ Marked(desk[a].doomed)
                         /\ desk[a].op # "delete" => \A e \in desk[a].doomed : ~e.manual
\* The nightly job adds no such entry to the manifest it has read, and so a save
\* is refused none that was free when it chose its slug.
TypedFree ==
    /\ nightly.at = "write" =>
          Listed(nightly.held) \cap ManualSlots \subseteq Listed(nightly.read)
    /\ ~crossed /\ admin.at = "backup" /\ admin.op = "save" => admin.slot \notin Listed(manifest)

ManualInv == Types /\ Shapes /\ Fresh /\ MarksRight /\ TypedFree

-----------------------------------------------------------------------------
(* _now() is later than every entry, and what the rotation spares. *)

\* A bounded set of numbers has a greatest: the least of its bounds.
LEMMA Greatest ==
    ASSUME NEW S, S \subseteq Nat, S # {}, NEW n \in Nat, \A x \in S : x <= n
    PROVE  Max(S) \in S /\ \A x \in S : x <= Max(S)
<1>. DEFINE Bounds == {b \in Nat : \A x \in S : x <= b}
<1>1. PICK b \in Bounds : \A c \in Bounds : ~(<<c, b>> \in OpToRel(<, Nat))
    <2>1. Bounds \subseteq Nat /\ Bounds # {}
        OBVIOUS
    <2>. HIDE DEF Bounds
    <2>. QED
        BY <2>1, WFMin, NatLessThanWellFounded, Zenon
<1>2. b \in Nat /\ \A c \in Bounds : ~(c < b)
    BY <1>1 DEF OpToRel
<1>3. b \in S
    <2>1. SUFFICES ASSUME b \notin S PROVE FALSE
        OBVIOUS
    <2>2. PICK x \in S : TRUE
        OBVIOUS
    <2>3. \A y \in S : y \in Nat /\ y < b
        BY <2>1
    <2>4. b - 1 \in Nat /\ \A y \in S : y <= b - 1
        BY <2>2, <2>3, <1>2
    <2>. QED
        BY <2>4, <1>2
<1>4. b \in S /\ \A x \in S : b >= x
    BY <1>2, <1>3
<1>. QED
    BY <1>4 DEF Max

LEMMA NowIsLast ==
    ASSUME NEW m \in Manifests, Bounded(m)
    PROVE  Now(m) \in Nat /\ \A e \in m.datasets : e.created < Now(m)
<1>. DEFINE S == {0} \cup {e.created : e \in m.datasets}
<1>1. PICK n \in Nat : \A e \in m.datasets : e.created <= n
    BY DEF Bounded
<1>2. \A e \in m.datasets : e.created \in Nat
    BY DEF Manifests, Entries
<1>3. S \subseteq Nat /\ S # {} /\ \A x \in S : x <= n
    BY <1>1, <1>2
<1>4. \A e \in m.datasets : e.created \in S
    OBVIOUS
<1>5. Now(m) = 1 + Max(S)
    BY DEF Now
<1>. HIDE DEF S
<1>6. Max(S) \in S /\ \A x \in S : x <= Max(S)
    BY <1>3, Greatest
<1>7. Max(S) \in Nat /\ \A e \in m.datasets : e.created <= Max(S)
    BY <1>3, <1>4, <1>6
<1>. QED
    BY <1>2, <1>5, <1>7

LEMMA NothingFacts ==
    /\ Nothing \in Manifests /\ Bounded(Nothing)
    /\ Nothing.datasets = {} /\ Listed(Nothing) = {}
BY DEF Nothing, Manifests, Bounded, Listed

LEMMA DropFacts ==
    ASSUME NEW m \in Manifests, NEW s
    PROVE  /\ Drop(m, s) \in Manifests /\ Drop(m, s).active = m.active
           /\ Drop(m, s).datasets \subseteq m.datasets
           /\ \A e \in Drop(m, s).datasets : e.slug # s
           /\ Listed(Drop(m, s)) \subseteq Listed(m)
BY DEF Drop, Manifests, Listed

LEMMA AppendedFacts ==
    ASSUME NEW m \in Manifests, Bounded(m), NEW s \in Slots, NEW b \in BOOLEAN
    PROVE  /\ Appended(m, s, b) \in Manifests
           /\ Appended(m, s, b).datasets = Drop(m, s).datasets \cup {Entry(m, s, b)}
           /\ Entry(m, s, b).slug = s /\ Entry(m, s, b).manual = b
           /\ Entry(m, s, b) \in Entries
           /\ \A e \in m.datasets : e.created < Entry(m, s, b).created
           /\ Listed(Appended(m, s, b)) \subseteq Listed(m) \cup {s}
           /\ Bounded(Appended(m, s, b))
<1>1. Now(m) \in Nat /\ \A e \in m.datasets : e.created < Now(m)
    BY NowIsLast
<1>2. /\ Entry(m, s, b).slug = s /\ Entry(m, s, b).manual = b
      /\ Entry(m, s, b).created = Now(m) /\ Entry(m, s, b) \in Entries
    BY <1>1 DEF Entry, Entries
<1>3. Drop(m, s) \in Manifests /\ Drop(m, s).datasets \subseteq m.datasets
    BY DropFacts
<1>4. Appended(m, s, b) = [Drop(m, s) EXCEPT !.datasets = @ \cup {Entry(m, s, b)}]
    BY DEF Appended
<1>. HIDE DEF Appended
<1>5. /\ Appended(m, s, b).datasets = Drop(m, s).datasets \cup {Entry(m, s, b)}
      /\ Appended(m, s, b) \in Manifests
    BY <1>2, <1>3, <1>4 DEF Manifests
<1>6. Listed(Appended(m, s, b)) \subseteq Listed(m) \cup {s}
    BY <1>2, <1>3, <1>5 DEF Listed
<1>7. \A e \in m.datasets : e.created \in Nat
    BY DEF Manifests, Entries
<1>8. \A e \in Appended(m, s, b).datasets : e.created <= Now(m)
    BY <1>1, <1>2, <1>3, <1>5, <1>7
<1>9. Bounded(Appended(m, s, b))
    BY <1>1, <1>8 DEF Bounded
<1>. QED
    BY <1>1, <1>2, <1>5, <1>6, <1>9

\* A rotation that keeps two or more dooms no backup with at most one later.
LEMMA LastTwoAreKept ==
    ASSUME NEW m \in Manifests, NEW s, OneLater(m, s), NEW keep \in Nat \ {0, 1}
    PROVE  s \notin Named(Victims(m, keep))
<1>1. SUFFICES ASSUME NEW e \in Victims(m, keep), e.slug = s PROVE FALSE
    BY DEF Named
<1>. DEFINE F == {f \in Autos(m) : f.created > e.created}
<1>2. e \in m.datasets /\ Cardinality(F) >= keep /\ F \subseteq m.datasets
    BY <1>1 DEF Victims, Autos
<1>3. \A f, g \in F : f = g
    BY <1>1, <1>2 DEF OneLater
<1>4. Cardinality(F) \in {0, 1}
    <2>1. CASE F = {}
        BY <2>1, FS_EmptySet
    <2>2. CASE F # {}
        <3>1. PICK f : f \in F
            BY <2>2
        <3>2. F = {f}
            BY <3>1, <1>3
        <3>3. Cardinality({f}) = 1
            BY FS_Singleton
        <3>. QED
            BY <3>2, <3>3
    <2>. QED
        BY <2>1, <2>2
<1>. QED
    BY <1>2, <1>4

LEMMA VictimsFacts ==
    ASSUME NEW m \in Manifests, NEW keep
    PROVE  /\ Victims(m, keep) \subseteq m.datasets /\ Victims(m, keep) \subseteq Entries
           /\ \A e \in Victims(m, keep) : ~e.manual
BY DEF Victims, Autos, Manifests

-----------------------------------------------------------------------------
(* What each action does. *)

Moves(a) == \A b \in Actors \ {a} : desk'[b] = desk[b]
\* Neither the database nor a file nor the manifest changes.
Undisturbed == /\ live' = live /\ files' = files /\ manifest' = manifest /\ stored' = stored
         /\ excused' = excused /\ crossed' = crossed
Emptied(a) == /\ desk'[a].doomed = {} /\ desk'[a].held = Nothing /\ desk'[a].read = Nothing
Rests(a) == desk'[a] = AtRest
\* The files but s are as they were, and s has the rides.
FileWritten(s, rides) ==
    /\ DOMAIN files' = DOMAIN files \cup {s} /\ files'[s] = rides
    /\ \A x \in DOMAIN files : x # s => files'[x] = files[x]
FileGone(s) ==
    /\ DOMAIN files' = DOMAIN files \ {s}
    /\ \A x \in DOMAIN files : x # s => files'[x] = files[x]
\* A ride that was in a file is live, in a file, or excused.
NoneUnexcused ==
    /\ excused \subseteq excused'
    /\ Kept(files) \subseteq live \cup Kept(files') \cup excused'

LEMMA PutFacts ==
    ASSUME NEW s, NEW rides, Put(s, rides)
    PROVE  FileWritten(s, rides) /\ NoneUnexcused
<1>1. FileWritten(s, rides)
    BY DEF Put, FileWritten
<1>2. excused' = excused \cup LostBy(s)
    BY DEF Put
<1>3. ASSUME NEW x \in DOMAIN files, NEW r \in files[x]
      PROVE  r \in live \cup Kept(files') \cup excused'
    <2>1. CASE x = s
        BY <2>1, <1>2, <1>3 DEF LostBy
    <2>2. CASE x # s
        BY <2>2, <1>1, <1>3 DEF FileWritten, Kept
    <2>. QED
        BY <2>1, <2>2
<1>. QED
    BY <1>1, <1>2, <1>3 DEF NoneUnexcused, Kept

LEMMA RemovedFacts ==
    ASSUME NEW s, Removed(s)
    PROVE  FileGone(s) /\ NoneUnexcused
<1>1. FileGone(s)
    BY DEF Removed, FileGone
<1>2. excused' = excused \cup LostBy(s)
    BY DEF Removed
<1>3. ASSUME NEW x \in DOMAIN files, NEW r \in files[x]
      PROVE  r \in live \cup Kept(files') \cup excused'
    <2>1. CASE x = s
        BY <2>1, <1>2, <1>3 DEF LostBy
    <2>2. CASE x # s
        BY <2>2, <1>1, <1>3 DEF FileGone, Kept
    <2>. QED
        BY <2>1, <2>2
<1>. QED
    BY <1>1, <1>2, <1>3 DEF NoneUnexcused, Kept

LEMMA AtRestType ==
    /\ AtRest \in Desks /\ AtRest.held = Nothing /\ AtRest.read = Nothing
    /\ AtRest.doomed = {} /\ AtRest.at = "idle" /\ AtRest.op = "none" /\ AtRest.then = "idle"
    /\ AtRest.slot = 0 /\ ~AtRest.risk /\ AtRest.target = 0 /\ AtRest.bag = {}
BY NothingFacts DEF AtRest, Desks, Steps, Ops

LEMMA DeskMoves ==
    ASSUME Types, NEW a \in Actors, NEW d \in Desks, Bounded(d.held),
           desk' = [desk EXCEPT ![a] = d]
    PROVE  /\ desk' \in [Actors -> Desks] /\ desk'[a] = d /\ Moves(a)
           /\ \A b \in Actors : Bounded(desk'[b].held)
BY DEF Types, Moves

LEMMA QuietTypes ==
    ASSUME Types, Undisturbed, desk' \in [Actors -> Desks],
           \A b \in Actors : Bounded(desk'[b].held)
    PROVE  Types'
BY DEF Types, Undisturbed, Bounded

\* The operations that start: what the desk is given.
LEMMA SwitchOnFacts ==
    ASSUME NEW s \in Slots \cup {0}, NEW d \in SwitchOn(s)
    PROVE  /\ d \in Desks /\ d.op = "switch" /\ d.held = Nothing /\ d.read = Nothing
           /\ d.doomed = {} /\ d.then = "idle"
           /\ \/ live = {} /\ d.at = "copy" /\ d.risk /\ d.slot = 0
              \/ d.at = "backup" /\ d.slot \in AutoSlots /\ d.slot \in Later
<1>. DEFINE e == [AtRest EXCEPT !.op = "switch", !.target = s]
<1>1. /\ e \in Desks /\ e.op = "switch" /\ e.held = Nothing /\ e.read = Nothing
      /\ e.doomed = {} /\ e.then = "idle" /\ e.slot = 0
    BY AtRestType DEF Desks, Ops
<1>. HIDE DEF e
<1>2. CASE live = {}
    <2>1. d = [e EXCEPT !.at = "copy", !.risk = TRUE]
        BY <1>2 DEF SwitchOn, e
    <2>. QED
        BY <1>1, <1>2, <2>1 DEF Desks, Steps
<1>3. CASE live # {}
    <2>1. PICK t \in AutoSlots : StampedSlot(t) /\ d = [e EXCEPT !.at = "backup", !.slot = t]
        BY <1>3 DEF SwitchOn, e
    <2>. QED
        BY <1>1, <2>1 DEF Desks, Steps, StampedSlot, Slots
<1>. QED
    BY <1>2, <1>3

LEMMA RideEffect ==
    ASSUME Types, Ride
    PROVE  /\ Types' /\ desk' = desk /\ files' = files /\ manifest' = manifest /\ crossed' = crossed
           /\ stored' = stored + 1 /\ live \subseteq live' /\ live' \subseteq live \cup {stored'}
           /\ stored' \in live' \/ Swapped
           /\ excused \subseteq excused' /\ (admin.risk => stored' \in excused')
<1>1. /\ desk' = desk /\ files' = files /\ manifest' = manifest /\ crossed' = crossed
      /\ stored' = stored + 1 /\ live \subseteq live' /\ live' \subseteq live \cup {stored'}
      /\ stored' \in live' \/ Swapped
      /\ excused \subseteq excused' /\ (admin.risk => stored' \in excused')
    BY DEF Ride, admin
<1>2. Types'
    BY <1>1 DEF Types, Bounded
<1>. QED
    BY <1>1, <1>2

LEMMA SaveEffect ==
    ASSUME Types, SaveSnapshot
    PROVE  /\ Types' /\ Moves("admin") /\ Undisturbed /\ admin.at = "idle" /\ Emptied("admin")
           /\ admin'.at = "backup" /\ admin'.op = "save" /\ admin'.then = "idle"
           /\ admin'.slot \in ManualSlots /\ admin'.slot \notin Listed(manifest)
<1>1. PICK s \in ManualSlots :
          /\ TypedSlot(s) /\ desk["admin"].at = "idle"
          /\ desk' = [desk EXCEPT !["admin"] =
                          [AtRest EXCEPT !.at = "backup", !.op = "save", !.slot = s]]
    BY DEF SaveSnapshot, Order, Starts
<1>. DEFINE d == [AtRest EXCEPT !.at = "backup", !.op = "save", !.slot = s]
<1>2. /\ d \in Desks /\ d.at = "backup" /\ d.op = "save" /\ d.slot = s /\ d.then = "idle"
      /\ d.held = Nothing /\ d.read = Nothing /\ d.doomed = {}
    BY AtRestType DEF Desks, Steps, Ops, Slots
<1>. HIDE DEF d
<1>3. Undisturbed
    BY DEF SaveSnapshot, Undisturbed, datasetHistory
<1>4. /\ desk' \in [Actors -> Desks] /\ desk'["admin"] = d /\ Moves("admin")
      /\ \A b \in Actors : Bounded(desk'[b].held)
    BY <1>1, <1>2, DeskMoves, NothingFacts DEF d, Actors
<1>5. Types'
    BY <1>3, <1>4, QuietTypes
<1>6. s \notin Listed(manifest)
    BY <1>1 DEF TypedSlot, FreshSlot
<1>. QED
    BY <1>1, <1>2, <1>3, <1>4, <1>5, <1>6 DEF Emptied, admin

LEMMA AddEffect ==
    ASSUME Types, CreateEmpty \/ ImportFile
    PROVE  /\ Types' /\ Moves("admin") /\ admin.at = "idle" /\ Emptied("admin")
           /\ admin'.at = "record" /\ admin'.op \in {"new", "import"} /\ admin'.then = "idle"
           /\ admin'.slot \in ManualSlots /\ admin'.slot \notin Listed(manifest)
           /\ \E rides : FileWritten(admin'.slot, rides)
           /\ NoneUnexcused /\ live' = live /\ manifest' = manifest /\ stored' = stored
           /\ crossed' = crossed
<1>1. PICK op \in {"new", "import"}, rides \in SUBSET Nat : AddSlot(op, rides)
    BY DEF CreateEmpty, ImportFile, Types
<1>2. PICK s \in ManualSlots :
          /\ TypedSlot(s) /\ desk["admin"].at = "idle" /\ Put(s, rides)
          /\ desk' = [desk EXCEPT !["admin"] =
                          [AtRest EXCEPT !.at = "record", !.op = op, !.slot = s]]
    BY <1>1 DEF AddSlot, Order, Starts
<1>. DEFINE d == [AtRest EXCEPT !.at = "record", !.op = op, !.slot = s]
<1>3. /\ d \in Desks /\ d.at = "record" /\ d.op = op /\ d.slot = s /\ d.then = "idle"
      /\ d.held = Nothing /\ d.read = Nothing /\ d.doomed = {}
    BY AtRestType DEF Desks, Steps, Ops, Slots
<1>. HIDE DEF d
<1>4. live' = live /\ manifest' = manifest /\ stored' = stored /\ crossed' = crossed
    BY <1>1 DEF AddSlot
<1>5. /\ desk' \in [Actors -> Desks] /\ desk'["admin"] = d /\ Moves("admin")
      /\ \A b \in Actors : Bounded(desk'[b].held)
    BY <1>2, <1>3, DeskMoves, NothingFacts DEF d, Actors
<1>6. FileWritten(s, rides) /\ NoneUnexcused
    BY <1>2, PutFacts
<1>7. Types'
    BY <1>4, <1>5, <1>6 DEF Types, Bounded, FileWritten, Slots
<1>8. s \notin Listed(manifest)
    BY <1>2 DEF TypedSlot, FreshSlot
<1>. QED
    BY <1>2, <1>3, <1>4, <1>5, <1>6, <1>7, <1>8 DEF Emptied, admin

LEMMA RenameEffect ==
    ASSUME Types, Rename
    PROVE  /\ Types' /\ Moves("admin") /\ Undisturbed /\ admin.at = "idle"
           /\ admin'.at = "write" /\ admin'.op = "rename" /\ admin'.then = "idle"
           /\ admin'.read = manifest /\ admin'.held = manifest /\ admin'.doomed = {}
           /\ admin'.slot = 0
<1>. DEFINE d == Load([AtRest EXCEPT !.op = "rename"], manifest)
<1>1. manifest \in Manifests /\ Bounded(manifest)
    BY DEF Types
<1>2. /\ d \in Desks /\ d.at = "write" /\ d.op = "rename" /\ d.slot = 0 /\ d.then = "idle"
      /\ d.held = manifest /\ d.read = manifest /\ d.doomed = {}
    BY <1>1, AtRestType DEF Load, Desks, Steps, Ops
<1>3. desk["admin"].at = "idle" /\ desk' = [desk EXCEPT !["admin"] = d]
    BY DEF Rename, Starts
<1>4. Undisturbed
    BY DEF Rename, Undisturbed, datasetHistory
<1>. HIDE DEF d
<1>5. /\ desk' \in [Actors -> Desks] /\ desk'["admin"] = d /\ Moves("admin")
      /\ \A b \in Actors : Bounded(desk'[b].held)
    BY <1>1, <1>2, <1>3, DeskMoves DEF Actors
<1>6. Types'
    BY <1>4, <1>5, QuietTypes
<1>. QED
    BY <1>2, <1>3, <1>4, <1>5, <1>6 DEF admin

LEMMA DeleteSnapshotEffect ==
    ASSUME Types, DeleteSnapshot
    PROVE  /\ Types' /\ Moves("admin") /\ Undisturbed /\ admin.at = "idle"
           /\ admin'.at = "delete" /\ admin'.op = "delete" /\ admin'.then = "idle"
           /\ admin'.read = Nothing /\ admin'.held = Nothing /\ admin'.slot = 0
           /\ admin'.doomed \subseteq manifest.datasets
<1>1. PICK e \in manifest.datasets :
          /\ desk["admin"].at = "idle"
          /\ desk' = [desk EXCEPT !["admin"] =
                          [AtRest EXCEPT !.at = "delete", !.op = "delete", !.doomed = {e}]]
    BY DEF DeleteSnapshot, Order, Starts
<1>. DEFINE d == [AtRest EXCEPT !.at = "delete", !.op = "delete", !.doomed = {e}]
<1>2. e \in Entries
    BY DEF Types, Manifests
<1>3. /\ d \in Desks /\ d.at = "delete" /\ d.op = "delete" /\ d.slot = 0 /\ d.then = "idle"
      /\ d.held = Nothing /\ d.read = Nothing /\ d.doomed = {e}
    BY <1>2, AtRestType DEF Desks, Steps, Ops
<1>. HIDE DEF d
<1>4. Undisturbed
    BY DEF DeleteSnapshot, Undisturbed, datasetHistory
<1>5. /\ desk' \in [Actors -> Desks] /\ desk'["admin"] = d /\ Moves("admin")
      /\ \A b \in Actors : Bounded(desk'[b].held)
    BY <1>1, <1>3, DeskMoves, NothingFacts DEF d, Actors
<1>6. Types'
    BY <1>4, <1>5, QuietTypes
<1>. QED
    BY <1>1, <1>3, <1>4, <1>5, <1>6 DEF admin

LEMMA PruneAutosEffect ==
    ASSUME Types, PruneAutos
    PROVE  /\ Types' /\ Moves("admin") /\ Undisturbed /\ admin.at = "idle"
           /\ admin'.at = "delete" /\ admin'.op = "prune" /\ admin'.then = "idle"
           /\ admin'.read = Nothing /\ admin'.held = Nothing /\ admin'.slot = 0
           /\ admin'.doomed \subseteq manifest.datasets /\ \A e \in admin'.doomed : ~e.manual
<1>1. PICK keep \in 0..SwitchKeep :
          /\ desk["admin"].at = "idle"
          /\ desk' = [desk EXCEPT !["admin"] =
                          [AtRest EXCEPT !.at = "delete", !.op = "prune",
                                         !.doomed = Victims(manifest, keep)]]
    BY DEF PruneAutos, Starts
<1>. DEFINE v == Victims(manifest, keep)
            d == [AtRest EXCEPT !.at = "delete", !.op = "prune", !.doomed = v]
<1>2. v \subseteq manifest.datasets /\ v \subseteq Entries /\ \A e \in v : ~e.manual
    BY VictimsFacts DEF Types
<1>. HIDE DEF v
<1>3. /\ d \in Desks /\ d.at = "delete" /\ d.op = "prune" /\ d.slot = 0 /\ d.then = "idle"
      /\ d.held = Nothing /\ d.read = Nothing /\ d.doomed = v
    BY <1>2, AtRestType DEF Desks, Steps, Ops
<1>4. desk' = [desk EXCEPT !["admin"] = d]
    BY <1>1 DEF v
<1>. HIDE DEF d
<1>5. Undisturbed
    BY DEF PruneAutos, Undisturbed, datasetHistory
<1>6. /\ desk' \in [Actors -> Desks] /\ desk'["admin"] = d /\ Moves("admin")
      /\ \A b \in Actors : Bounded(desk'[b].held)
    BY <1>3, <1>4, DeskMoves, NothingFacts DEF Actors
<1>7. Types'
    BY <1>5, <1>6, QuietTypes
<1>. QED
    BY <1>1, <1>2, <1>3, <1>5, <1>6, <1>7 DEF admin

\* A switch that starts goes to its backup, or past it if there is nothing to back up.
SwitchBegins ==
    /\ Emptied("admin") /\ admin'.op = "switch" /\ admin'.then = "idle"
    /\ \/ live = {} /\ admin'.at = "copy" /\ admin'.risk /\ admin'.slot = 0
       \/ admin'.at = "backup" /\ admin'.slot \in AutoSlots /\ admin'.slot \in Later

LEMMA SwitchToEffect ==
    ASSUME Types, SwitchTo
    PROVE  Types' /\ Moves("admin") /\ Undisturbed /\ admin.at = "idle" /\ SwitchBegins
<1>0. PICK s \in DOMAIN files : \E d \in SwitchOn(s) : Order(d)
    BY DEF SwitchTo
<1>1. PICK d \in SwitchOn(s) :
          desk["admin"].at = "idle" /\ desk' = [desk EXCEPT !["admin"] = d]
    BY <1>0 DEF Order, Starts
<1>2. s \in Slots
    BY DEF Types
<1>3. /\ d \in Desks /\ d.op = "switch" /\ d.held = Nothing /\ d.read = Nothing
      /\ d.doomed = {} /\ d.then = "idle"
      /\ \/ live = {} /\ d.at = "copy" /\ d.risk /\ d.slot = 0
         \/ d.at = "backup" /\ d.slot \in AutoSlots /\ d.slot \in Later
    BY <1>1, <1>2, SwitchOnFacts
<1>4. Undisturbed
    BY DEF SwitchTo, Undisturbed, datasetHistory
<1>5. /\ desk' \in [Actors -> Desks] /\ desk'["admin"] = d /\ Moves("admin")
      /\ \A b \in Actors : Bounded(desk'[b].held)
    BY <1>1, <1>3, DeskMoves, NothingFacts DEF Actors
<1>6. Types'
    BY <1>4, <1>5, QuietTypes
<1>. QED
    BY <1>1, <1>3, <1>4, <1>5, <1>6 DEF SwitchBegins, Emptied, admin

LEMMA AutoBackupEffect ==
    ASSUME Types, AutoBackup
    PROVE  /\ Types' /\ Moves("nightly") /\ Undisturbed /\ nightly.at = "idle" /\ Emptied("nightly")
           /\ nightly'.op = "auto" /\ nightly'.then = "idle"
           /\ \/ nightly'.at = "prune" /\ nightly'.slot = 0
              \/ nightly'.at = "backup" /\ nightly'.slot \in AutoSlots /\ nightly'.slot \in Later
<1>1. PICK d : /\ Starts("nightly", d)
               /\ \/ d = [AtRest EXCEPT !.at = "prune", !.op = "auto"]
                  \/ \E s \in AutoSlots : /\ s \in Later
                         /\ d = [AtRest EXCEPT !.at = "backup", !.op = "auto", !.slot = s]
    BY DEF AutoBackup, StampedSlot
<1>2. /\ d \in Desks /\ d.op = "auto" /\ d.held = Nothing /\ d.read = Nothing
      /\ d.doomed = {} /\ d.then = "idle"
      /\ \/ d.at = "prune" /\ d.slot = 0
         \/ d.at = "backup" /\ d.slot \in AutoSlots /\ d.slot \in Later
    <2>1. CASE d = [AtRest EXCEPT !.at = "prune", !.op = "auto"]
        BY <2>1, AtRestType DEF Desks, Steps, Ops
    <2>2. ASSUME NEW s \in AutoSlots, s \in Later,
                 d = [AtRest EXCEPT !.at = "backup", !.op = "auto", !.slot = s]
          PROVE  /\ d \in Desks /\ d.op = "auto" /\ d.held = Nothing /\ d.read = Nothing
                 /\ d.doomed = {} /\ d.then = "idle" /\ d.at = "backup" /\ d.slot = s
        BY <2>2, AtRestType DEF Desks, Steps, Ops, Slots
    <2>. QED
        BY <1>1, <2>1, <2>2
<1>3. Undisturbed
    BY DEF AutoBackup, Undisturbed, datasetHistory
<1>4. desk["nightly"].at = "idle" /\ desk' = [desk EXCEPT !["nightly"] = d]
    BY <1>1 DEF Starts
<1>5. /\ desk' \in [Actors -> Desks] /\ desk'["nightly"] = d /\ Moves("nightly")
      /\ \A b \in Actors : Bounded(desk'[b].held)
    BY <1>2, <1>4, DeskMoves, NothingFacts DEF Actors
<1>6. Types'
    BY <1>3, <1>5, QuietTypes
<1>. QED
    BY <1>2, <1>3, <1>4, <1>5, <1>6 DEF Emptied, nightly

\* The operation goes on under the same slug, with the same to delete.
Goes(a) == desk'[a].op = desk[a].op /\ desk'[a].slot = desk[a].slot
KeepsHeld(a) == /\ desk'[a].read = desk[a].read /\ desk'[a].held = desk[a].held
                /\ desk'[a].then = desk[a].then
FilesSame == files' = files /\ excused' = excused
RestSame == live' = live /\ manifest' = manifest /\ stored' = stored /\ crossed' = crossed

LEMMA RestsEffect ==
    ASSUME Types, NEW a \in Actors, desk' = [desk EXCEPT ![a] = AtRest], Undisturbed
    PROVE  Types' /\ Moves(a) /\ Rests(a)
<1>1. /\ desk' \in [Actors -> Desks] /\ Rests(a) /\ Moves(a)
      /\ \A b \in Actors : Bounded(desk'[b].held)
    BY AtRestType, NothingFacts, DeskMoves DEF Rests
<1>. QED
    BY <1>1, QuietTypes

LEMMA BackupEffect ==
    ASSUME Types, Shapes, Fresh, NEW a \in Actors, Backup(a)
    PROVE  /\ Types' /\ Moves(a) /\ desk[a].at = "backup" /\ RestSame
           /\ \/ Rests(a) /\ FilesSame
              \/ /\ FileWritten(desk[a].slot, live) /\ NoneUnexcused
                 /\ desk'[a].at = "record" /\ Goes(a) /\ KeepsHeld(a)
                 /\ desk'[a].doomed = desk[a].doomed
                 /\ desk'[a].risk = (desk[a].op = "switch")
<1>1. desk[a].at = "backup" /\ RestSame
    BY DEF Backup, RestSame
<1>2. CASE desk' = [desk EXCEPT ![a] = AtRest] /\ UNCHANGED <<files, excused>>
    <2>1. Undisturbed
        BY <1>1, <1>2 DEF Undisturbed, RestSame
    <2>. QED
        BY <1>1, <1>2, <2>1, RestsEffect DEF FilesSame
<1>3. CASE /\ Put(desk[a].slot, live)
           /\ desk' = [desk EXCEPT ![a].at = "record", ![a].risk = desk[a].op = "switch"]
    <2>. DEFINE d == [desk[a] EXCEPT !.at = "record", !.risk = desk[a].op = "switch"]
    <2>1. desk[a] \in Desks /\ Bounded(desk[a].held)
        BY DEF Types
    <2>2. /\ d \in Desks /\ d.at = "record" /\ d.op = desk[a].op /\ d.slot = desk[a].slot
          /\ d.read = desk[a].read /\ d.held = desk[a].held /\ d.then = desk[a].then
          /\ d.doomed = desk[a].doomed /\ d.risk = (desk[a].op = "switch")
        BY <2>1 DEF Desks, Steps
    <2>3. desk' = [desk EXCEPT ![a] = d]
        BY <1>3 DEF Types
    <2>. HIDE DEF d
    <2>4. /\ desk' \in [Actors -> Desks] /\ desk'[a] = d /\ Moves(a)
          /\ \A b \in Actors : Bounded(desk'[b].held)
        BY <2>1, <2>2, <2>3, DeskMoves
    <2>5. FileWritten(desk[a].slot, live) /\ NoneUnexcused
        BY <1>3, PutFacts
    <2>6. desk[a].slot \in Slots
        BY <1>1 DEF Shapes, Fresh, Slots, Actors, admin, nightly, ByHand, Stamping
    <2>7. Types'
        BY <1>1, <2>4, <2>5, <2>6 DEF Types, Bounded, FileWritten, RestSame
    <2>. QED
        BY <1>1, <2>2, <2>4, <2>5, <2>7 DEF Goes, KeepsHeld
<1>. QED
    BY <1>2, <1>3 DEF Backup

LEMMA RecordEffect ==
    ASSUME Types, Shapes, Fresh, NEW a \in Actors, Record(a)
    PROVE  /\ Types' /\ Moves(a) /\ Undisturbed /\ desk[a].at = "record"
           /\ desk'[a].at = "write" /\ Goes(a) /\ desk'[a].doomed = desk[a].doomed
           /\ desk'[a].risk = desk[a].risk
           /\ desk'[a].read = manifest
           /\ desk[a].slot \in Slots
           /\ desk'[a].held = Appended(manifest, desk[a].slot, desk[a].op \in ByHand)
           /\ desk[a].op \notin ByHand => desk'[a].then = "prune"
           /\ desk[a].op \in ByHand => desk'[a].then \in {"idle", "switch"}
           /\ desk'[a].then = "switch" => desk[a].op = "new"
<1>. DEFINE manual == desk[a].op \in ByHand
            next == CASE ~manual -> "prune" [] desk[a].op = "new" -> "switch" [] OTHER -> "idle"
            held == Appended(manifest, desk[a].slot, manual)
            d == [Load(desk[a], held) EXCEPT !.then = next]
<1>1. desk[a].at = "record" /\ desk' = [desk EXCEPT ![a] = d]
    BY DEF Record, ByHand
<1>2. Undisturbed
    BY DEF Record, Undisturbed, datasetHistory
<1>3. desk[a].slot \in Slots
    BY <1>1 DEF Shapes, Fresh, Slots, Actors, admin, nightly, ByHand, Stamping
<1>4. manual \in BOOLEAN /\ manifest \in Manifests /\ Bounded(manifest) /\ desk[a] \in Desks
    BY DEF Types
<1>5. held \in Manifests /\ Bounded(held)
    BY <1>3, <1>4, AppendedFacts
<1>6. /\ next \in {"idle", "prune", "switch"} /\ (~manual => next = "prune")
      /\ (manual => next \in {"idle", "switch"}) /\ (next = "switch" => desk[a].op = "new")
    BY DEF ByHand
<1>. HIDE DEF held, next
<1>7. /\ d \in Desks /\ d.at = "write" /\ d.op = desk[a].op /\ d.slot = desk[a].slot
      /\ d.read = manifest /\ d.held = held /\ d.then = next /\ d.doomed = desk[a].doomed
      /\ d.risk = desk[a].risk
    BY <1>4, <1>5, <1>6 DEF Load, Desks, Steps
<1>. HIDE DEF d
<1>8. /\ desk' \in [Actors -> Desks] /\ desk'[a] = d /\ Moves(a)
      /\ \A b \in Actors : Bounded(desk'[b].held)
    BY <1>1, <1>5, <1>7, DeskMoves
<1>9. Types'
    BY <1>2, <1>8, QuietTypes
<1>. QED
    BY <1>1, <1>2, <1>3, <1>6, <1>7, <1>8, <1>9 DEF Goes, held

LEMMA WriteEffect ==
    ASSUME Types, Shapes, NEW a \in Actors, WriteManifest(a)
    PROVE  /\ Types' /\ Moves(a) /\ desk[a].at = "write"
           /\ manifest' = desk[a].held /\ crossed' = (crossed \/ manifest # desk[a].read)
           /\ live' = live /\ stored' = stored /\ FilesSame
           /\ \/ desk[a].then = "idle" /\ Rests(a)
              \/ a = "admin" /\ desk[a].then = "switch" /\ SwitchBegins
              \/ /\ desk[a].then \in {"prune", "delete"} /\ desk'[a].at = desk[a].then
                 /\ Goes(a) /\ desk'[a].doomed = desk[a].doomed /\ desk'[a].risk = desk[a].risk
                 /\ desk'[a].held = Nothing /\ desk'[a].read = Nothing
                 /\ desk'[a].then = desk[a].then
<1>1. /\ desk[a].at = "write" /\ manifest' = desk[a].held
      /\ crossed' = (crossed \/ manifest # desk[a].read)
      /\ live' = live /\ stored' = stored /\ FilesSame
    BY DEF WriteManifest, FilesSame
<1>2. /\ desk[a] \in Desks /\ Bounded(desk[a].held) /\ desk[a].held \in Manifests
      /\ desk[a].then \in {"idle", "prune", "delete", "switch"}
      /\ desk[a].slot \in Slots \cup {0}
    BY DEF Types, Desks
<1>3. ASSUME desk' \in [Actors -> Desks], \A b \in Actors : Bounded(desk'[b].held)
      PROVE  Types'
    <2>1. manifest' \in Manifests /\ Bounded(manifest)'
        BY <1>1, <1>2 DEF Bounded
    <2>2. (crossed \/ manifest # desk[a].read) \in BOOLEAN
        OBVIOUS
    <2>3. crossed' \in BOOLEAN
        BY <1>1, <2>2
    <2>4. \A b \in Actors : Bounded(desk[b].held)'
        BY <1>3 DEF Bounded
    <2>. QED
        BY <1>1, <1>3, <2>1, <2>3, <2>4 DEF Types, FilesSame
<1>4. CASE desk[a].then = "idle"
    <2>1. desk' = [desk EXCEPT ![a] = AtRest]
        BY <1>4 DEF WriteManifest
    <2>2. /\ desk' \in [Actors -> Desks] /\ Rests(a) /\ Moves(a)
          /\ \A b \in Actors : Bounded(desk'[b].held)
        BY <2>1, AtRestType, NothingFacts, DeskMoves DEF Rests
    <2>. QED
        BY <1>1, <1>3, <1>4, <2>2
<1>5. CASE desk[a].then = "switch"
    <2>1. PICK d \in SwitchOn(desk[a].slot) : desk' = [desk EXCEPT ![a] = d]
        BY <1>5 DEF WriteManifest
    <2>2. a = "admin"
        BY <1>5 DEF Shapes, nightly, Actors
    <2>3. /\ d \in Desks /\ d.op = "switch" /\ d.held = Nothing /\ d.read = Nothing
          /\ d.doomed = {} /\ d.then = "idle"
          /\ \/ live = {} /\ d.at = "copy" /\ d.risk /\ d.slot = 0
             \/ d.at = "backup" /\ d.slot \in AutoSlots /\ d.slot \in Later
        BY <1>2, SwitchOnFacts
    <2>4. /\ desk' \in [Actors -> Desks] /\ desk'[a] = d /\ Moves(a)
          /\ \A b \in Actors : Bounded(desk'[b].held)
        BY <2>1, <2>3, DeskMoves, NothingFacts
    <2>5. SwitchBegins
        BY <2>2, <2>3, <2>4 DEF SwitchBegins, Emptied, admin
    <2>. QED
        BY <1>1, <1>3, <1>5, <2>2, <2>4, <2>5
<1>6. CASE desk[a].then \in {"prune", "delete"}
    <2>. DEFINE d == [desk[a] EXCEPT !.at = desk[a].then, !.read = Nothing, !.held = Nothing]
    <2>1. desk' = [desk EXCEPT ![a] = d]
        BY <1>6 DEF WriteManifest, Types
    <2>2. /\ d \in Desks /\ d.at = desk[a].then /\ d.op = desk[a].op /\ d.slot = desk[a].slot
          /\ d.read = Nothing /\ d.held = Nothing /\ d.then = desk[a].then
          /\ d.doomed = desk[a].doomed /\ d.risk = desk[a].risk
        BY <1>2, <1>6, NothingFacts DEF Desks, Steps
    <2>. HIDE DEF d
    <2>3. /\ desk' \in [Actors -> Desks] /\ desk'[a] = d /\ Moves(a)
          /\ \A b \in Actors : Bounded(desk'[b].held)
        BY <2>1, <2>2, NothingFacts, DeskMoves
    <2>. QED
        BY <1>1, <1>3, <1>6, <2>2, <2>3 DEF Goes
<1>. QED
    BY <1>2, <1>4, <1>5, <1>6

LEMMA RotateEffect ==
    ASSUME Types, NEW a \in Actors, Rotate(a)
    PROVE  /\ Types' /\ Moves(a) /\ Undisturbed /\ desk[a].at = "prune" /\ desk'[a].at = "delete"
           /\ Goes(a) /\ KeepsHeld(a) /\ desk'[a].risk = desk[a].risk
           /\ \E keep \in Nat \ {0, 1} : desk'[a].doomed = Victims(manifest, keep)
<1>. DEFINE keep == IF a = "nightly" THEN NightKeep ELSE SwitchKeep
            v == Victims(manifest, keep)
            d == [desk[a] EXCEPT !.at = "delete", !.doomed = v]
<1>1. desk[a].at = "prune" /\ desk' = [desk EXCEPT ![a] = d]
    BY DEF Rotate, Types
<1>2. Undisturbed
    BY DEF Rotate, Undisturbed, datasetHistory
<1>3. keep \in Nat \ {0, 1}
    BY DatasetsAssumption
<1>4. v \subseteq Entries /\ desk[a] \in Desks /\ Bounded(desk[a].held)
    BY VictimsFacts DEF Types
<1>. HIDE DEF v
<1>5. /\ d \in Desks /\ d.at = "delete" /\ d.op = desk[a].op /\ d.slot = desk[a].slot
      /\ d.read = desk[a].read /\ d.held = desk[a].held /\ d.then = desk[a].then
      /\ d.doomed = v /\ d.risk = desk[a].risk
    BY <1>4 DEF Desks, Steps
<1>. HIDE DEF d, keep
<1>6. /\ desk' \in [Actors -> Desks] /\ desk'[a] = d /\ Moves(a)
      /\ \A b \in Actors : Bounded(desk'[b].held)
    BY <1>1, <1>4, <1>5, DeskMoves
<1>7. Types'
    BY <1>2, <1>6, QuietTypes
<1>. QED
    BY <1>1, <1>2, <1>3, <1>5, <1>6, <1>7 DEF Goes, KeepsHeld, v

LEMMA DeleteEffect ==
    ASSUME Types, NEW a \in Actors, Delete(a)
    PROVE  /\ Types' /\ Moves(a) /\ desk[a].at = "delete" /\ RestSame
           /\ \/ Rests(a) /\ FilesSame
              \/ \E e \in desk[a].doomed :
                    /\ FileGone(e.slug) /\ NoneUnexcused
                    /\ desk'[a].at = "write" /\ Goes(a) /\ desk'[a].risk = desk[a].risk
                    /\ desk'[a].then = "delete" /\ desk'[a].doomed = desk[a].doomed \ {e}
                    /\ desk'[a].read = manifest /\ desk'[a].held = Drop(manifest, e.slug)
<1>1. desk[a].at = "delete" /\ RestSame
    BY DEF Delete, RestSame
<1>2. CASE desk' = [desk EXCEPT ![a] = AtRest] /\ UNCHANGED <<files, excused>>
    <2>1. Undisturbed
        BY <1>1, <1>2 DEF Undisturbed, RestSame
    <2>. QED
        BY <1>1, <1>2, <2>1, RestsEffect DEF FilesSame
<1>3. ASSUME NEW e \in desk[a].doomed, Removed(e.slug),
             desk' = [desk EXCEPT ![a] = [Load(desk[a], Drop(manifest, e.slug))
                                 EXCEPT !.doomed = desk[a].doomed \ {e}, !.then = "delete"]]
      PROVE  /\ Types' /\ Moves(a)
             /\ FileGone(e.slug) /\ NoneUnexcused
             /\ desk'[a].at = "write" /\ Goes(a) /\ desk'[a].risk = desk[a].risk
             /\ desk'[a].then = "delete" /\ desk'[a].doomed = desk[a].doomed \ {e}
             /\ desk'[a].read = manifest /\ desk'[a].held = Drop(manifest, e.slug)
    <2>. DEFINE held == Drop(manifest, e.slug)
                d == [Load(desk[a], held) EXCEPT !.doomed = desk[a].doomed \ {e}, !.then = "delete"]
    <2>1. desk[a] \in Desks /\ manifest \in Manifests /\ Bounded(manifest)
        BY DEF Types
    <2>2. held \in Manifests /\ Bounded(held)
        BY <2>1, DropFacts DEF Bounded
    <2>. HIDE DEF held
    <2>3. /\ d \in Desks /\ d.at = "write" /\ d.op = desk[a].op /\ d.slot = desk[a].slot
          /\ d.read = manifest /\ d.held = held /\ d.then = "delete"
          /\ d.doomed = desk[a].doomed \ {e} /\ d.risk = desk[a].risk
        BY <2>1, <2>2 DEF Load, Desks, Steps
    <2>4. desk' = [desk EXCEPT ![a] = d]
        BY <1>3 DEF held
    <2>. HIDE DEF d
    <2>5. /\ desk' \in [Actors -> Desks] /\ desk'[a] = d /\ Moves(a)
          /\ \A b \in Actors : Bounded(desk'[b].held)
        BY <2>2, <2>3, <2>4, DeskMoves
    <2>6. FileGone(e.slug) /\ NoneUnexcused
        BY <1>3, RemovedFacts
    <2>7. Types'
        BY <1>1, <2>5, <2>6 DEF Types, Bounded, FileGone, RestSame
    <2>. QED
        BY <2>3, <2>5, <2>6, <2>7 DEF Goes, held
<1>. QED
    BY <1>1, <1>2, <1>3 DEF Delete

LEMMA DeletedAllEffect ==
    ASSUME Types, NEW a \in Actors, DeletedAll(a)
    PROVE  /\ Types' /\ Moves(a) /\ Undisturbed /\ desk[a].at = "delete"
           /\ \/ desk[a].op # "switch" /\ Rests(a)
              \/ /\ desk[a].op = "switch" /\ desk'[a].at = "copy" /\ Goes(a) /\ KeepsHeld(a)
                 /\ desk'[a].doomed = desk[a].doomed /\ desk'[a].risk = desk[a].risk
<1>1. Undisturbed /\ desk[a].at = "delete"
    BY DEF DeletedAll, Undisturbed, datasetHistory
<1>2. CASE desk[a].op # "switch"
    <2>1. desk' = [desk EXCEPT ![a] = AtRest]
        BY <1>2 DEF DeletedAll, Types
    <2>. QED
        BY <1>1, <1>2, <2>1, RestsEffect
<1>3. CASE desk[a].op = "switch"
    <2>. DEFINE d == [desk[a] EXCEPT !.at = "copy"]
    <2>1. desk' = [desk EXCEPT ![a] = d]
        BY <1>3 DEF DeletedAll, Types
    <2>2. desk[a] \in Desks /\ Bounded(desk[a].held)
        BY DEF Types
    <2>3. /\ d \in Desks /\ d.at = "copy" /\ d.op = desk[a].op /\ d.slot = desk[a].slot
          /\ d.read = desk[a].read /\ d.held = desk[a].held /\ d.then = desk[a].then
          /\ d.doomed = desk[a].doomed /\ d.risk = desk[a].risk
        BY <2>2 DEF Desks, Steps
    <2>. HIDE DEF d
    <2>4. /\ desk' \in [Actors -> Desks] /\ desk'[a] = d /\ Moves(a)
          /\ \A b \in Actors : Bounded(desk'[b].held)
        BY <2>1, <2>2, <2>3, DeskMoves
    <2>5. Types'
        BY <1>1, <2>4, QuietTypes
    <2>. QED
        BY <1>1, <1>3, <2>3, <2>4, <2>5 DEF Goes, KeepsHeld
<1>. QED
    BY <1>2, <1>3

LEMMA CopyEffect ==
    ASSUME Types, CopyIncoming
    PROVE  /\ Types' /\ Moves("admin") /\ Undisturbed /\ admin.at = "copy"
           /\ \/ Rests("admin")
              \/ /\ admin'.at = "swap" /\ Goes("admin") /\ KeepsHeld("admin")
                 /\ admin'.doomed = admin.doomed /\ admin'.risk = admin.risk
<1>1. Undisturbed /\ admin.at = "copy"
    BY DEF CopyIncoming, Undisturbed, datasetHistory, admin
<1>. DEFINE s == desk["admin"].target
<1>2. CASE s \notin DOMAIN files
    <2>1. desk' = [desk EXCEPT !["admin"] = AtRest]
        BY <1>2 DEF CopyIncoming, Types
    <2>. QED
        BY <1>1, <2>1, RestsEffect DEF Actors
<1>3. CASE s \in DOMAIN files
    <2>. DEFINE d == [desk["admin"] EXCEPT !.at = "swap", !.bag = files[s]]
    <2>1. desk' = [desk EXCEPT !["admin"] = d]
        BY <1>3 DEF CopyIncoming, Types
    <2>2. desk["admin"] \in Desks /\ Bounded(desk["admin"].held) /\ files[s] \subseteq Nat
        BY <1>3 DEF Types, Actors
    <2>3. /\ d \in Desks /\ d.at = "swap" /\ d.op = desk["admin"].op
          /\ d.slot = desk["admin"].slot
          /\ d.read = desk["admin"].read /\ d.held = desk["admin"].held
          /\ d.then = desk["admin"].then
          /\ d.doomed = desk["admin"].doomed /\ d.risk = desk["admin"].risk
        BY <2>2 DEF Desks, Steps
    <2>. HIDE DEF d
    <2>4. /\ desk' \in [Actors -> Desks] /\ desk'["admin"] = d /\ Moves("admin")
          /\ \A b \in Actors : Bounded(desk'[b].held)
        BY <2>1, <2>2, <2>3, DeskMoves DEF Actors
    <2>5. Types'
        BY <1>1, <2>4, QuietTypes
    <2>. QED
        BY <1>1, <2>3, <2>4, <2>5 DEF Goes, KeepsHeld, admin
<1>. QED
    BY <1>2, <1>3

LEMMA SwapEffect ==
    ASSUME Types, Swap
    PROVE  /\ Types' /\ Moves("admin") /\ admin.at = "swap" /\ FilesSame
           /\ manifest' = manifest /\ stored' = stored /\ crossed' = crossed
           /\ admin'.at = "point" /\ Goes("admin") /\ KeepsHeld("admin")
           /\ admin'.doomed = admin.doomed /\ admin'.risk = admin.risk
<1>. DEFINE d == [desk["admin"] EXCEPT !.at = "point"]
<1>1. /\ admin.at = "swap" /\ live' = desk["admin"].bag /\ FilesSame
      /\ manifest' = manifest /\ stored' = stored /\ crossed' = crossed
      /\ desk' = [desk EXCEPT !["admin"] = d]
    BY DEF Swap, admin, FilesSame, datasetHistory, Types
<1>2. desk["admin"] \in Desks /\ Bounded(desk["admin"].held) /\ desk["admin"].bag \subseteq Nat
    BY DEF Types, Actors, Desks
<1>3. /\ d \in Desks /\ d.at = "point" /\ d.op = desk["admin"].op
      /\ d.slot = desk["admin"].slot
      /\ d.read = desk["admin"].read /\ d.held = desk["admin"].held
      /\ d.then = desk["admin"].then
      /\ d.doomed = desk["admin"].doomed /\ d.risk = desk["admin"].risk
    BY <1>2 DEF Desks, Steps
<1>. HIDE DEF d
<1>4. /\ desk' \in [Actors -> Desks] /\ desk'["admin"] = d /\ Moves("admin")
      /\ \A b \in Actors : Bounded(desk'[b].held)
    BY <1>1, <1>2, <1>3, DeskMoves DEF Actors
<1>5. Types'
    BY <1>1, <1>2, <1>4 DEF Types, Bounded, FilesSame
<1>. QED
    BY <1>1, <1>3, <1>4, <1>5 DEF Goes, KeepsHeld, admin

LEMMA PointEffect ==
    ASSUME Types, Point
    PROVE  /\ Types' /\ Moves("admin") /\ Undisturbed /\ admin.at = "point"
           /\ admin'.at = "write" /\ admin'.then = "idle" /\ Goes("admin")
           /\ admin'.read = manifest /\ admin'.held.datasets = manifest.datasets
           /\ admin'.doomed = admin.doomed /\ admin'.risk = admin.risk
<1>. DEFINE held == [manifest EXCEPT !.active = desk["admin"].target]
            d == [Load(desk["admin"], held) EXCEPT !.then = "idle"]
<1>1. Undisturbed /\ admin.at = "point" /\ desk' = [desk EXCEPT !["admin"] = d]
    BY DEF Point, Undisturbed, datasetHistory, admin
<1>2. /\ desk["admin"] \in Desks /\ manifest \in Manifests /\ Bounded(manifest)
      /\ desk["admin"].target \in Slots \cup {0}
    BY DEF Types, Actors, Desks
<1>3. held \in Manifests /\ Bounded(held) /\ held.datasets = manifest.datasets
    BY <1>2 DEF Manifests, Bounded
<1>. HIDE DEF held
<1>4. /\ d \in Desks /\ d.at = "write" /\ d.op = desk["admin"].op
      /\ d.slot = desk["admin"].slot
      /\ d.read = manifest /\ d.held = held /\ d.then = "idle"
      /\ d.doomed = desk["admin"].doomed /\ d.risk = desk["admin"].risk
    BY <1>2, <1>3 DEF Load, Desks, Steps
<1>. HIDE DEF d
<1>5. /\ desk' \in [Actors -> Desks] /\ desk'["admin"] = d /\ Moves("admin")
      /\ \A b \in Actors : Bounded(desk'[b].held)
    BY <1>1, <1>3, <1>4, DeskMoves DEF Actors
<1>6. Types'
    BY <1>1, <1>5, QuietTypes
<1>. QED
    BY <1>1, <1>3, <1>4, <1>5, <1>6 DEF Goes, admin

LEMMA DieEffect ==
    ASSUME Types, NEW a \in Actors, Die(a)
    PROVE  Types' /\ Moves(a) /\ Undisturbed /\ Rests(a)
<1>1. Undisturbed /\ desk' = [desk EXCEPT ![a] = AtRest]
    BY DEF Die, Undisturbed, datasetHistory
<1>. QED
    BY <1>1, RestsEffect

-----------------------------------------------------------------------------
(* Each operation keeps to its steps. *)

LEMMA ShapesStep ==
    ASSUME Types, Shapes, Fresh, DatasetsNext
    PROVE  Shapes'
<1>. USE DEF admin, nightly
<1>1. CASE Ride
    BY <1>1, RideEffect DEF Shapes
<1>2. CASE SaveSnapshot
    BY <1>2, SaveEffect DEF Shapes, Moves, Actors
<1>3. CASE CreateEmpty \/ ImportFile
    BY <1>3, AddEffect DEF Shapes, Moves, Actors, ByHand
<1>4. CASE Rename
    BY <1>4, RenameEffect DEF Shapes, Moves, Actors
<1>5. CASE DeleteSnapshot
    BY <1>5, DeleteSnapshotEffect DEF Shapes, Moves, Actors
<1>6. CASE PruneAutos
    BY <1>6, PruneAutosEffect DEF Shapes, Moves, Actors
<1>7. CASE SwitchTo
    BY <1>7, SwitchToEffect DEF Shapes, Moves, Actors, SwitchBegins
<1>8. CASE AutoBackup
    BY <1>8, AutoBackupEffect DEF Shapes, Moves, Actors
<1>9. ASSUME NEW a \in Actors, Rests(a), Moves(a)
      PROVE  Shapes'
    BY <1>9, AtRestType DEF Shapes, Moves, Actors, Rests
<1>10. ASSUME NEW a \in Actors, Backup(a)
       PROVE  Shapes'
    BY <1>9, <1>10, BackupEffect DEF Shapes, Moves, Actors, Goes, KeepsHeld, ByHand
<1>11. ASSUME NEW a \in Actors, Record(a)
       PROVE  Shapes'
    BY <1>11, RecordEffect DEF Shapes, Moves, Actors, Goes, ByHand
<1>12. ASSUME NEW a \in Actors, WriteManifest(a)
       PROVE  Shapes'
    BY <1>9, <1>12, WriteEffect DEF Shapes, Moves, Actors, Goes, SwitchBegins
<1>13. ASSUME NEW a \in Actors, Rotate(a)
       PROVE  Shapes'
    BY <1>13, RotateEffect DEF Shapes, Moves, Actors, Goes, KeepsHeld
<1>14. ASSUME NEW a \in Actors, Delete(a)
       PROVE  Shapes'
    BY <1>9, <1>14, DeleteEffect DEF Shapes, Moves, Actors, Goes
<1>15. ASSUME NEW a \in Actors, DeletedAll(a)
       PROVE  Shapes'
    BY <1>9, <1>15, DeletedAllEffect DEF Shapes, Moves, Actors, Goes, KeepsHeld
<1>16. ASSUME NEW a \in Actors, Die(a)
       PROVE  Shapes'
    BY <1>9, <1>16, DieEffect
<1>17. CASE CopyIncoming
    <2>1. CASE Rests("admin")
        BY <1>9, <1>17, <2>1, CopyEffect DEF Actors
    <2>2. CASE ~Rests("admin")
        BY <1>17, <2>2, CopyEffect DEF Shapes, Moves, Actors, Goes, KeepsHeld
    <2>. QED
        BY <2>1, <2>2
<1>18. CASE Swap
    BY <1>18, SwapEffect DEF Shapes, Moves, Actors, Goes, KeepsHeld
<1>19. CASE Point
    BY <1>19, PointEffect DEF Shapes, Moves, Actors, Goes
<1>. QED
    BY <1>1, <1>2, <1>3, <1>4, <1>5, <1>6, <1>7, <1>8, <1>10, <1>11, <1>12, <1>13, <1>14,
       <1>15, <1>16, <1>17, <1>18, <1>19 DEF DatasetsNext

-----------------------------------------------------------------------------
(* The slug of a backup under way is free until it is recorded. *)

Uses(a) == Listed(manifest) \cup Listed(desk[a].held) \cup Named(desk[a].doomed) \cup {desk[a].slot}

LEMMA SlotFacts ==
    /\ AutoSlots \subseteq Slots /\ ManualSlots \subseteq Slots /\ Slots \subseteq Nat \ {0}
    /\ ManualSlots \cap AutoSlots = {}
<1>1. \A s \in ManualSlots \cap AutoSlots : s < s /\ s \in Nat
    BY DatasetsAssumption
<1>. QED
    BY <1>1, DatasetsAssumption DEF Slots

LEMMA LaterIsFree ==
    ASSUME Types, NEW s \in Later
    PROVE  /\ s \in AutoSlots /\ s \notin DOMAIN files
           /\ \A a \in Actors : s \notin Uses(a)
<1>1. s \in Nat /\ \A u \in InUse : u < s
    BY SlotFacts DEF Later
<1>2. s \notin InUse
    BY <1>1
<1>. QED
    BY <1>2 DEF Later, InUse, Uses, Named

LEMMA FreshKept ==
    ASSUME Types, Types', Fresh, NEW a \in Actors, Moves(a),
           Uses(a)' \cap AutoSlots \subseteq Uses(a) \cup Later,
           DOMAIN files' \cap AutoSlots \subseteq DOMAIN files \cup {desk[a].slot},
           desk'[a].at \in {"backup", "record"} =>
               /\ desk'[a].op \in ByHand => desk'[a].slot \in ManualSlots
               /\ desk'[a].op \in Stamping =>
                     \/ /\ desk'[a].slot \in Later /\ Emptied(a) /\ files' = files
                        /\ Listed(manifest') \subseteq Uses(a)
                     \/ /\ desk[a].at = "backup" /\ desk'[a].at = "record"
                        /\ Goes(a) /\ KeepsHeld(a) /\ desk'[a].doomed = desk[a].doomed
                        /\ manifest' = manifest
    PROVE  Fresh'
<1>1. ASSUME NEW b \in Actors, b # a, desk'[b].at \in {"backup", "record"}
      PROVE  /\ desk'[b].op \in ByHand => desk'[b].slot \in ManualSlots
             /\ desk'[b].op \in Stamping =>
                   /\ desk'[b].slot \in AutoSlots \ Listed(manifest')
                   /\ \A c \in Actors : /\ desk'[b].slot \notin Listed(desk'[c].held)
                                        /\ desk'[b].slot \notin Named(desk'[c].doomed)
                                        /\ c # b => desk'[b].slot # desk'[c].slot
                   /\ desk'[b].at = "backup" => desk'[b].slot \notin DOMAIN files'
    <2>1. desk'[b] = desk[b]
        BY <1>1 DEF Moves
    <2>2. desk[b].op \in ByHand => desk[b].slot \in ManualSlots
        BY <1>1, <2>1 DEF Fresh
    <2>3. SUFFICES ASSUME desk[b].op \in Stamping
                   PROVE  /\ desk[b].slot \in AutoSlots \ Listed(manifest')
                          /\ \A c \in Actors : /\ desk[b].slot \notin Listed(desk'[c].held)
                                               /\ desk[b].slot \notin Named(desk'[c].doomed)
                                               /\ c # b => desk[b].slot # desk'[c].slot
                          /\ desk[b].at = "backup" => desk[b].slot \notin DOMAIN files'
        BY <2>1, <2>2
    <2>4. /\ desk[b].slot \in AutoSlots \ Listed(manifest)
          /\ \A c \in Actors : /\ desk[b].slot \notin Listed(desk[c].held)
                               /\ desk[b].slot \notin Named(desk[c].doomed)
                               /\ c # b => desk[b].slot # desk[c].slot
          /\ desk[b].at = "backup" => desk[b].slot \notin DOMAIN files
        BY <1>1, <2>1, <2>3 DEF Fresh
    <2>5. desk[b].slot \notin Uses(a)
        BY <1>1, <2>4 DEF Uses
    <2>6. desk[b].slot \notin Later
        BY LaterIsFree DEF Uses
    <2>7. desk[b].slot \notin Uses(a)'
        BY <2>4, <2>5, <2>6
    <2>8. \A c \in Actors \ {a} : desk'[c] = desk[c]
        BY DEF Moves
    <2>. QED
        BY <1>1, <2>4, <2>7, <2>8 DEF Uses
<1>2. ASSUME desk'[a].at \in {"backup", "record"}
      PROVE  /\ desk'[a].op \in ByHand => desk'[a].slot \in ManualSlots
             /\ desk'[a].op \in Stamping =>
                   /\ desk'[a].slot \in AutoSlots \ Listed(manifest')
                   /\ \A c \in Actors : /\ desk'[a].slot \notin Listed(desk'[c].held)
                                        /\ desk'[a].slot \notin Named(desk'[c].doomed)
                                        /\ c # a => desk'[a].slot # desk'[c].slot
                   /\ desk'[a].at = "backup" => desk'[a].slot \notin DOMAIN files'
    <2>1. SUFFICES ASSUME desk'[a].op \in Stamping
                   PROVE  /\ desk'[a].slot \in AutoSlots \ Listed(manifest')
                          /\ \A c \in Actors : /\ desk'[a].slot \notin Listed(desk'[c].held)
                                               /\ desk'[a].slot \notin Named(desk'[c].doomed)
                                               /\ c # a => desk'[a].slot # desk'[c].slot
                          /\ desk'[a].at = "backup" => desk'[a].slot \notin DOMAIN files'
        BY <1>2
    <2>2. \A c \in Actors \ {a} : desk'[c] = desk[c]
        BY DEF Moves
    <2>3. CASE /\ desk'[a].slot \in Later /\ Emptied(a) /\ files' = files
               /\ Listed(manifest') \subseteq Uses(a)
        <3>1. /\ desk'[a].slot \in AutoSlots /\ desk'[a].slot \notin DOMAIN files
              /\ \A c \in Actors : desk'[a].slot \notin Uses(c)
            BY <2>3, LaterIsFree
        <3>2. Listed(desk'[a].held) = {} /\ Named(desk'[a].doomed) = {}
            BY <2>3, NothingFacts DEF Emptied, Named
        <3>. QED
            BY <2>2, <2>3, <3>1, <3>2 DEF Uses
    <2>4. CASE /\ desk[a].at = "backup" /\ desk'[a].at = "record"
               /\ Goes(a) /\ KeepsHeld(a) /\ desk'[a].doomed = desk[a].doomed
               /\ manifest' = manifest
        BY <2>1, <2>2, <2>4 DEF Fresh, Goes, KeepsHeld
    <2>. QED
        BY <1>2, <2>1, <2>3, <2>4
<1>3. ASSUME NEW b \in Actors, desk'[b].at \in {"backup", "record"}
      PROVE  /\ desk'[b].op \in ByHand => desk'[b].slot \in ManualSlots
             /\ desk'[b].op \in Stamping =>
                   /\ desk'[b].slot \in AutoSlots \ Listed(manifest')
                   /\ \A c \in Actors : /\ desk'[b].slot \notin Listed(desk'[c].held)
                                        /\ desk'[b].slot \notin Named(desk'[c].doomed)
                                        /\ c # b => desk'[b].slot # desk'[c].slot
                   /\ desk'[b].at = "backup" => desk'[b].slot \notin DOMAIN files'
    BY <1>1, <1>2, <1>3
<1>. QED
    BY <1>3 DEF Fresh

\* No step but the start of an operation brings up a slug of a backup.
LEMMA FreshByUses ==
    ASSUME Types, Types', Fresh, NEW a \in Actors, Moves(a),
           Uses(a)' \cap AutoSlots \subseteq Uses(a),
           DOMAIN files' \cap AutoSlots \subseteq DOMAIN files \cup {desk[a].slot},
           desk'[a].at \notin {"backup", "record"}
    PROVE  Fresh'
BY FreshKept

LEMMA FreshAtRest ==
    ASSUME Types, Types', Fresh, NEW a \in Actors, Moves(a), Rests(a),
           files' = files, Listed(manifest') \subseteq Uses(a)
    PROVE  Fresh'
<1>1. /\ Listed(desk'[a].held) = {} /\ Named(desk'[a].doomed) = {} /\ desk'[a].slot = 0
      /\ desk'[a].at = "idle"
    BY AtRestType, NothingFacts DEF Rests, Named
<1>2. Uses(a)' = Listed(manifest') \cup {0}
    BY <1>1 DEF Uses
<1>3. Uses(a)' \cap AutoSlots \subseteq Uses(a)
    BY <1>2, SlotFacts
<1>. QED
    BY <1>1, <1>3, FreshByUses

LEMMA SwitchFresh ==
    ASSUME Types, Types', Fresh, Moves("admin"), SwitchBegins, files' = files,
           Listed(manifest') \subseteq Uses("admin")
    PROVE  Fresh'
<1>1. "admin" \in Actors /\ admin'.op = "switch"
    BY DEF Actors, SwitchBegins
<1>2. /\ Listed(desk'["admin"].held) = {} /\ Named(desk'["admin"].doomed) = {}
      /\ Emptied("admin")
    BY NothingFacts DEF SwitchBegins, Emptied, Named
<1>3. Uses("admin")' = Listed(manifest') \cup {desk'["admin"].slot}
    BY <1>2 DEF Uses
<1>4. /\ desk'["admin"].slot \in {0} \cup Later
      /\ desk'["admin"].at \in {"backup", "record"} => desk'["admin"].slot \in Later
    BY DEF SwitchBegins, admin
<1>5. Uses("admin")' \cap AutoSlots \subseteq Uses("admin") \cup Later
    BY <1>3, <1>4, SlotFacts
<1>. QED
    BY <1>1, <1>2, <1>4, <1>5, FreshKept DEF ByHand, admin

LEMMA FreshStep ==
    ASSUME Types, Shapes, Fresh, DatasetsNext
    PROVE  Fresh'
<1>1. CASE Ride
    BY <1>1, RideEffect DEF Fresh
<1>2. CASE SaveSnapshot
    <2>1. /\ Types' /\ Moves("admin") /\ Undisturbed /\ Emptied("admin")
          /\ admin'.op = "save" /\ admin'.slot \in ManualSlots /\ "admin" \in Actors
        BY <1>2, SaveEffect DEF Actors
    <2>2. Uses("admin")' = Listed(manifest) \cup {desk'["admin"].slot}
        BY <2>1, NothingFacts DEF Uses, Emptied, Undisturbed, Named
    <2>3. Uses("admin")' \cap AutoSlots \subseteq Uses("admin")
        BY <2>1, <2>2, SlotFacts DEF admin, Uses
    <2>. QED
        BY <2>1, <2>3, FreshKept DEF admin, Undisturbed, Stamping
<1>3. CASE CreateEmpty \/ ImportFile
    <2>1. /\ Types' /\ Moves("admin") /\ Emptied("admin") /\ manifest' = manifest
          /\ admin'.op \in {"new", "import"} /\ admin'.slot \in ManualSlots
          /\ DOMAIN files' = DOMAIN files \cup {admin'.slot} /\ "admin" \in Actors
        BY <1>3, AddEffect DEF Actors, FileWritten
    <2>2. Uses("admin")' = Listed(manifest) \cup {desk'["admin"].slot}
        BY <2>1, NothingFacts DEF Uses, Emptied, Named
    <2>3. Uses("admin")' \cap AutoSlots \subseteq Uses("admin")
        BY <2>1, <2>2, SlotFacts DEF admin, Uses
    <2>4. DOMAIN files' \cap AutoSlots \subseteq DOMAIN files
        BY <2>1, SlotFacts
    <2>. QED
        BY <2>1, <2>3, <2>4, FreshKept DEF admin, Stamping
<1>4. CASE Rename
    <2>1. /\ Types' /\ Moves("admin") /\ Undisturbed /\ admin'.held = manifest /\ admin'.doomed = {}
          /\ admin'.slot = 0 /\ admin'.at = "write" /\ "admin" \in Actors
        BY <1>4, RenameEffect DEF Actors
    <2>2. Uses("admin")' = Listed(manifest) \cup {0}
        BY <2>1 DEF Uses, Undisturbed, Named, admin
    <2>. QED
        BY <2>1, <2>2, SlotFacts, FreshByUses DEF admin, Undisturbed, Uses
<1>5. CASE DeleteSnapshot \/ PruneAutos
    <2>1. /\ Types' /\ Moves("admin") /\ Undisturbed /\ admin'.held = Nothing
          /\ admin'.doomed \subseteq manifest.datasets
          /\ admin'.slot = 0 /\ admin'.at = "delete" /\ "admin" \in Actors
        BY <1>5, DeleteSnapshotEffect, PruneAutosEffect DEF Actors
    <2>2. Uses("admin")' \subseteq Listed(manifest) \cup {0}
        BY <2>1, NothingFacts DEF Uses, Undisturbed, Named, Listed, admin
    <2>. QED
        BY <2>1, <2>2, SlotFacts, FreshByUses DEF admin, Undisturbed, Uses
<1>6. CASE SwitchTo
    BY <1>6, SwitchToEffect, SwitchFresh DEF Undisturbed, Uses
<1>7. CASE AutoBackup
    <2>1. /\ Types' /\ Moves("nightly") /\ Undisturbed /\ Emptied("nightly") /\ nightly'.op = "auto"
          /\ \/ nightly'.at = "prune" /\ nightly'.slot = 0
             \/ nightly'.at = "backup" /\ nightly'.slot \in Later
          /\ "nightly" \in Actors
        BY <1>7, AutoBackupEffect DEF Actors
    <2>2. Uses("nightly")' = Listed(manifest) \cup {desk'["nightly"].slot}
        BY <2>1, NothingFacts DEF Uses, Emptied, Undisturbed, Named
    <2>3. Uses("nightly")' \cap AutoSlots \subseteq Uses("nightly") \cup Later
        BY <2>1, <2>2, SlotFacts DEF nightly, Uses
    <2>. QED
        BY <2>1, <2>3, FreshKept DEF nightly, Undisturbed, ByHand, Uses
<1>8. ASSUME NEW a \in Actors, Backup(a)
      PROVE  Fresh'
    <2>1. Types' /\ Moves(a) /\ desk[a].at = "backup" /\ RestSame
        BY <1>8, BackupEffect
    <2>2. CASE Rests(a) /\ FilesSame
        BY <2>1, <2>2, FreshAtRest DEF FilesSame, RestSame, Uses
    <2>3. CASE /\ FileWritten(desk[a].slot, live)
               /\ desk'[a].at = "record" /\ Goes(a) /\ KeepsHeld(a)
               /\ desk'[a].doomed = desk[a].doomed
        <3>1. Uses(a)' = Uses(a)
            BY <2>1, <2>3 DEF Uses, RestSame, Goes, KeepsHeld
        <3>2. desk[a].op \in ByHand => desk[a].slot \in ManualSlots
            BY <2>1 DEF Fresh
        <3>. QED
            BY <2>1, <2>3, <3>1, <3>2, FreshKept DEF FileWritten, Goes, RestSame
    <2>. QED
        BY <1>8, <2>2, <2>3, BackupEffect
<1>9. ASSUME NEW a \in Actors, Record(a)
      PROVE  Fresh'
    <2>1. /\ Types' /\ Moves(a) /\ Undisturbed /\ desk'[a].at = "write" /\ Goes(a)
          /\ desk'[a].doomed = desk[a].doomed /\ desk[a].slot \in Slots
          /\ desk'[a].held = Appended(manifest, desk[a].slot, desk[a].op \in ByHand)
        BY <1>9, RecordEffect
    <2>2. Listed(desk'[a].held) \subseteq Listed(manifest) \cup {desk[a].slot}
        <3>. DEFINE manual == desk[a].op \in ByHand
        <3>1. manifest \in Manifests /\ Bounded(manifest) /\ manual \in BOOLEAN
            BY DEF Types
        <3>2. desk'[a].held = Appended(manifest, desk[a].slot, manual)
            BY <2>1
        <3>. HIDE DEF manual
        <3>. QED
            BY <2>1, <3>1, <3>2, AppendedFacts
    <2>3. Uses(a)' \subseteq Uses(a)
        BY <2>1, <2>2 DEF Uses, Undisturbed, Goes
    <2>. QED
        BY <2>1, <2>3, FreshByUses DEF Undisturbed
<1>10. ASSUME NEW a \in Actors, WriteManifest(a)
       PROVE  Fresh'
    <2>1. Types' /\ Moves(a) /\ FilesSame /\ manifest' = desk[a].held
        BY <1>10, WriteEffect
    <2>2. Listed(manifest') \subseteq Uses(a) /\ files' = files
        BY <2>1 DEF Uses, FilesSame
    <2>3. CASE Rests(a)
        BY <2>1, <2>2, <2>3, FreshAtRest
    <2>4. CASE a = "admin" /\ SwitchBegins
        BY <2>1, <2>2, <2>4, SwitchFresh
    <2>5. CASE /\ desk[a].then \in {"prune", "delete"} /\ desk'[a].at = desk[a].then
               /\ Goes(a) /\ desk'[a].doomed = desk[a].doomed /\ desk'[a].held = Nothing
        <3>1. Uses(a)' \subseteq Uses(a)
            BY <2>2, <2>5, NothingFacts DEF Uses, Goes
        <3>. QED
            BY <2>1, <2>2, <2>5, <3>1, FreshByUses
    <2>. QED
        BY <1>10, <2>3, <2>4, <2>5, WriteEffect
<1>11. ASSUME NEW a \in Actors, Rotate(a)
       PROVE  Fresh'
    <2>1. /\ Types' /\ Moves(a) /\ Undisturbed /\ desk'[a].at = "delete" /\ Goes(a) /\ KeepsHeld(a)
          /\ \E keep : desk'[a].doomed = Victims(manifest, keep)
        BY <1>11, RotateEffect
    <2>2. desk'[a].doomed \subseteq manifest.datasets
        BY <2>1, VictimsFacts DEF Types
    <2>3. Uses(a)' \subseteq Uses(a)
        BY <2>1, <2>2 DEF Uses, Undisturbed, Goes, KeepsHeld, Named, Listed
    <2>. QED
        BY <2>1, <2>3, FreshByUses DEF Undisturbed
<1>12. ASSUME NEW a \in Actors, Delete(a)
       PROVE  Fresh'
    <2>1. Types' /\ Moves(a) /\ RestSame
        BY <1>12, DeleteEffect
    <2>2. CASE Rests(a) /\ FilesSame
        BY <2>1, <2>2, FreshAtRest DEF FilesSame, RestSame, Uses
    <2>3. ASSUME NEW e \in desk[a].doomed, FileGone(e.slug),
                 desk'[a].at = "write", Goes(a), desk'[a].doomed = desk[a].doomed \ {e},
                 desk'[a].held = Drop(manifest, e.slug)
          PROVE  Fresh'
        <3>1. Listed(desk'[a].held) \subseteq Listed(manifest)
            BY <2>3, DropFacts DEF Types
        <3>2. Uses(a)' \subseteq Uses(a)
            BY <2>1, <2>3, <3>1 DEF Uses, RestSame, Goes, Named
        <3>. QED
            BY <2>1, <2>3, <3>2, FreshByUses DEF FileGone
    <2>. QED
        BY <1>12, <2>2, <2>3, DeleteEffect
<1>13. ASSUME NEW a \in Actors, DeletedAll(a)
       PROVE  Fresh'
    <2>1. Types' /\ Moves(a) /\ Undisturbed
        BY <1>13, DeletedAllEffect
    <2>2. CASE Rests(a)
        BY <2>1, <2>2, FreshAtRest DEF Undisturbed, Uses
    <2>3. CASE /\ desk'[a].at = "copy" /\ Goes(a) /\ KeepsHeld(a)
               /\ desk'[a].doomed = desk[a].doomed
        <3>1. Uses(a)' = Uses(a)
            BY <2>1, <2>3 DEF Uses, Undisturbed, Goes, KeepsHeld
        <3>. QED
            BY <2>1, <2>3, <3>1, FreshByUses DEF Undisturbed
    <2>. QED
        BY <1>13, <2>2, <2>3, DeletedAllEffect
<1>14. ASSUME NEW a \in Actors, Die(a)
       PROVE  Fresh'
    BY <1>14, DieEffect, FreshAtRest DEF Undisturbed, Uses
<1>15. CASE CopyIncoming
    <2>1. Types' /\ Moves("admin") /\ Undisturbed /\ "admin" \in Actors
        BY <1>15, CopyEffect DEF Actors
    <2>2. CASE Rests("admin")
        BY <2>1, <2>2, FreshAtRest DEF Undisturbed, Uses
    <2>3. CASE /\ admin'.at = "swap" /\ Goes("admin") /\ KeepsHeld("admin")
               /\ admin'.doomed = admin.doomed
        <3>1. Uses("admin")' = Uses("admin")
            BY <2>1, <2>3 DEF Uses, Undisturbed, Goes, KeepsHeld, admin
        <3>. QED
            BY <2>1, <2>3, <3>1, FreshByUses DEF Undisturbed, admin
    <2>. QED
        BY <1>15, <2>2, <2>3, CopyEffect
<1>16. CASE Swap
    <2>1. /\ Types' /\ Moves("admin") /\ FilesSame /\ manifest' = manifest /\ "admin" \in Actors
          /\ admin'.at = "point" /\ Goes("admin") /\ KeepsHeld("admin")
          /\ admin'.doomed = admin.doomed
        BY <1>16, SwapEffect DEF Actors
    <2>2. Uses("admin")' = Uses("admin")
        BY <2>1 DEF Uses, Goes, KeepsHeld, admin
    <2>. QED
        BY <2>1, <2>2, FreshByUses DEF FilesSame, admin
<1>17. CASE Point
    <2>1. /\ Types' /\ Moves("admin") /\ Undisturbed /\ "admin" \in Actors
          /\ admin'.at = "write" /\ Goes("admin")
          /\ admin'.held.datasets = manifest.datasets /\ admin'.doomed = admin.doomed
        BY <1>17, PointEffect DEF Actors
    <2>2. Uses("admin")' \subseteq Uses("admin")
        BY <2>1 DEF Uses, Goes, Undisturbed, Listed, admin
    <2>. QED
        BY <2>1, <2>2, FreshByUses DEF Undisturbed, admin
<1>. QED
    BY <1>1, <1>2, <1>3, <1>4, <1>5, <1>6, <1>7, <1>8, <1>9, <1>10, <1>11, <1>12, <1>13,
       <1>14, <1>15, <1>16, <1>17 DEF DatasetsNext

-----------------------------------------------------------------------------
(* What the switch has backed up outlasts every rotation. *)

LEMMA Thinner ==
    ASSUME NEW m, NEW k, k.datasets \subseteq m.datasets, NEW s
    PROVE  /\ OneLater(m, s) => OneLater(k, s)
           /\ Newest(m, s) => Newest(k, s)
BY DEF OneLater, Newest

LEMMA NewestIsEnough ==
    ASSUME NEW m \in Manifests, NEW s, Newest(m, s)
    PROVE  OneLater(m, s)
<1>1. ASSUME NEW e \in m.datasets, NEW f \in m.datasets, e.slug = s, f.created > e.created
      PROVE  FALSE
    <2>1. f.created <= e.created
        BY <1>1 DEF Newest
    <2>2. e.created \in Nat /\ f.created \in Nat
        BY DEF Manifests, Entries
    <2>. QED
        BY <1>1, <2>1, <2>2
<1>. QED
    BY <1>1 DEF OneLater

LEMMA UnlistedIsNewest ==
    ASSUME NEW m, NEW s, s \notin Listed(m)
    PROVE  Newest(m, s)
BY DEF Newest, Listed

LEMMA AppendedIsNewest ==
    ASSUME NEW m \in Manifests, Bounded(m), NEW s \in Slots, NEW b \in BOOLEAN
    PROVE  Newest(Appended(m, s, b), s)
<1>. DEFINE n == Entry(m, s, b)
<1>1. /\ Appended(m, s, b).datasets = Drop(m, s).datasets \cup {n}
      /\ n \in Entries /\ \A e \in m.datasets : e.created < n.created
    BY AppendedFacts
<1>2. Drop(m, s).datasets \subseteq m.datasets /\ \A e \in Drop(m, s).datasets : e.slug # s
    BY DropFacts
<1>. HIDE DEF n
<1>3. \A f \in Appended(m, s, b).datasets : f.created <= n.created
    <2>1. n.created \in Nat /\ \A f \in m.datasets : f.created \in Nat
        BY <1>1 DEF Manifests, Entries
    <2>. QED
        BY <1>1, <1>2, <2>1
<1>4. \A e \in Appended(m, s, b).datasets : e.slug = s => e = n
    BY <1>1, <1>2
<1>. QED
    BY <1>3, <1>4 DEF Newest

LEMMA AppendedIsOneLater ==
    ASSUME NEW m \in Manifests, Bounded(m), NEW r \in Slots, NEW b \in BOOLEAN,
           NEW s, s # r, Newest(m, s)
    PROVE  OneLater(Appended(m, r, b), s)
<1>. DEFINE n == Entry(m, r, b)
            k == Appended(m, r, b)
<1>1. k.datasets = Drop(m, r).datasets \cup {n} /\ n.slug = r
    BY AppendedFacts
<1>2. Drop(m, r).datasets \subseteq m.datasets
    BY DropFacts
<1>. HIDE DEF n, k
<1>3. ASSUME NEW e \in k.datasets, NEW f \in k.datasets, e.slug = s, f.created > e.created
      PROVE  f = n
    <2>1. SUFFICES ASSUME f # n PROVE FALSE
        OBVIOUS
    <2>2. e \in m.datasets /\ f \in m.datasets
        BY <1>1, <1>2, <1>3, <2>1
    <2>3. f.created <= e.created
        BY <1>3, <2>2 DEF Newest
    <2>4. e.created \in Nat /\ f.created \in Nat
        BY <2>2 DEF Manifests, Entries
    <2>. QED
        BY <1>3, <2>3, <2>4
<1>4. \A e, f, g \in k.datasets :
          e.slug = s /\ f.created > e.created /\ g.created > e.created => f = g
    BY <1>3
<1>. QED
    BY <1>4 DEF OneLater, k

\* A backup no version of the manifest lists but as its newest survives.
LEMMA FreshSurvives ==
    ASSUME Types', NEW a \in Actors, NEW s, Covers(s)',
           Newest(manifest', s),
           \A b \in Actors : s \notin Named(desk'[b].doomed) /\ Newest(desk'[b].held, s)
    PROVE  Survives(s)'
<1>1. manifest' \in Manifests /\ \A b \in Actors : desk'[b].held \in Manifests
    BY DEF Types, Desks
<1>2. OneLater(manifest', s) /\ \A b \in Actors : OneLater(desk'[b].held, s)
    BY <1>1, NewestIsEnough
<1>. QED
    BY <1>2 DEF Survives, Lasts

LEMMA SafeKept ==
    ASSUME Types, Shapes, Fresh, Safe, NEW a \in Actors, Moves(a), live' = live,
           excused \subseteq excused', Post' => Post,
           \A s \in DOMAIN files \ Named(desk[a].doomed) :
               s \in DOMAIN files' /\ files'[s] = files[s],
           \A s : Survives(s) => s \notin Named(desk'[a].doomed),
           \/ manifest'.datasets \subseteq manifest.datasets
           \/ manifest'.datasets \subseteq desk[a].held.datasets,
           \/ desk'[a].held.datasets \subseteq manifest.datasets
           \/ desk'[a].held.datasets \subseteq desk[a].held.datasets,
           admin'.op = "switch" /\ admin'.at = "record" => admin' = admin,
           StaleToCome' => nightly' = nightly
    PROVE  Safe'
<1>1. ASSUME NEW s, Covers(s), s \notin Named(desk[a].doomed)
      PROVE  Covers(s)'
    BY <1>1 DEF Covers
<1>2. StaleToCome' => StaleToCome
    <2>1. SUFFICES ASSUME StaleToCome', Covers(nightly.slot) PROVE FALSE
        BY DEF StaleToCome
    <2>2. nightly' = nightly /\ nightly.at = "record" /\ ~Covers(nightly.slot)'
        BY <2>1 DEF StaleToCome
    <2>3. nightly.slot \notin Named(desk[a].doomed)
        BY <2>2 DEF Fresh, Shapes, nightly, Actors, Stamping
    <2>. DEFINE s == nightly.slot
    <2>4. Covers(nightly.slot)'
        <3>1. s \in DOMAIN files /\ live \subseteq files[s] \cup excused
            BY <2>1 DEF Covers
        <3>2. s \in DOMAIN files' /\ live' \subseteq files'[s] \cup excused'
            BY <2>3, <3>1
        <3>. QED
            BY <2>2, <3>2 DEF Covers
    <2>. QED
        BY <2>2, <2>4
<1>3. ASSUME NEW s, Survives(s)
      PROVE  Survives(s)'
    <2>1. Covers(s)'
        BY <1>1, <1>3 DEF Survives
    <2>2. /\ OneLater(manifest, s) /\ OneLater(desk[a].held, s)
          /\ StaleToCome => Newest(manifest, s) /\ Newest(desk[a].held, s)
        BY <1>3 DEF Survives, Lasts
    <2>3. OneLater(manifest', s) /\ (StaleToCome => Newest(manifest', s))
        BY <2>2, Thinner
    <2>4. OneLater(desk'[a].held, s) /\ (StaleToCome => Newest(desk'[a].held, s))
        BY <2>2, Thinner
    <2>5. ASSUME NEW b \in Actors
          PROVE  /\ s \notin Named(desk'[b].doomed) /\ OneLater(desk'[b].held, s)
                 /\ StaleToCome => Newest(desk'[b].held, s)
        <3>1. CASE b = a
            BY <1>3, <2>4, <3>1
        <3>2. CASE b # a
            BY <1>3, <3>2 DEF Moves, Survives, Lasts
        <3>. QED
            BY <3>1, <3>2
    <2>. QED
        BY <1>2, <2>1, <2>3, <2>5 DEF Survives, Lasts
<1>4. Post' => Spared'
    <2>1. SUFFICES ASSUME Post PROVE Spared'
        OBVIOUS
    <2>2. CASE live \subseteq excused
        BY <2>2 DEF Spared
    <2>3. ASSUME NEW s \in DOMAIN files, Survives(s)
          PROVE  Spared'
        <3>1. Survives(s)' /\ s \in DOMAIN files'
            BY <1>3, <2>3 DEF Survives, Covers
        <3>. QED
            BY <3>1 DEF Spared
    <2>. QED
        BY <2>1, <2>2, <2>3 DEF Safe, Spared
<1>5. ASSUME admin'.op = "switch", admin'.at = "record"
      PROVE  Covers(admin.slot)'
    <2>1. admin' = admin /\ admin.op = "switch" /\ admin.at = "record"
        BY <1>5
    <2>2. Covers(admin.slot)
        BY <2>1 DEF Safe
    <2>3. admin.slot \notin Named(desk[a].doomed)
        BY <2>1 DEF Fresh, admin, Actors, Stamping
    <2>. DEFINE s == admin.slot
    <2>4. s \in DOMAIN files /\ live \subseteq files[s] \cup excused
        BY <2>2 DEF Covers
    <2>5. s \in DOMAIN files' /\ live' \subseteq files'[s] \cup excused'
        BY <2>3, <2>4
    <2>. QED
        BY <2>1, <2>5 DEF Covers
<1>. QED
    BY <1>4, <1>5 DEF Safe

LEMMA SafeRide ==
    ASSUME Types, Shapes, Safe, Ride
    PROVE  Safe'
<1>1. /\ desk' = desk /\ files' = files /\ manifest' = manifest
      /\ live' \subseteq live \cup {stored'}
      /\ excused \subseteq excused' /\ (admin.risk => stored' \in excused')
    BY RideEffect
<1>2. Post => admin.risk
    BY DEF Post, Shapes
<1>3. ASSUME Post, NEW s, Covers(s)
      PROVE  Covers(s)'
    BY <1>1, <1>2, <1>3 DEF Covers
<1>4. ASSUME Post, NEW s, Survives(s)
      PROVE  Survives(s)'
    <2>1. StaleToCome' => StaleToCome
        BY <1>1, <1>3, <1>4 DEF StaleToCome, nightly
    <2>. QED
        BY <1>1, <1>3, <1>4, <2>1 DEF Survives, Lasts
<1>5. Post => Spared'
    BY <1>1, <1>2, <1>4 DEF Safe, Spared
<1>6. ASSUME admin.op = "switch", admin.at = "record"
      PROVE  Covers(admin.slot)'
    <2>1. PICK s : s = admin.slot
        OBVIOUS
    <2>2. Covers(s)'
        BY <1>3, <1>6, <2>1 DEF Safe, Post
    <2>. QED
        BY <1>1, <2>1, <2>2 DEF Covers, admin
<1>. QED
    BY <1>1, <1>5, <1>6 DEF Safe, Post, admin, Covers

\* The switch has its backup: it survives.
LEMMA SafeBackup ==
    ASSUME Types, Shapes, Fresh, Safe, NEW a \in Actors, Backup(a)
    PROVE  Safe'
<1>. USE DEF admin, nightly
<1>1. Types' /\ Moves(a) /\ desk[a].at = "backup" /\ RestSame
    BY BackupEffect
<1>2. CASE Rests(a) /\ FilesSame
    <2>1. desk'[a].held.datasets = {} /\ desk'[a].doomed = {} /\ desk'[a].at = "idle"
        BY <1>2, AtRestType, NothingFacts DEF Rests
    <2>2. Post' => Post
        BY <1>1, <1>2, <2>1 DEF Post, Moves, Actors
    <2>3. /\ admin'.op = "switch" /\ admin'.at = "record" => admin' = admin
          /\ StaleToCome' => nightly' = nightly
        BY <1>1, <2>1 DEF Moves, Actors, StaleToCome
    <2>. QED
        BY <1>1, <1>2, <2>1, <2>2, <2>3, SafeKept DEF RestSame, FilesSame, Named
<1>3. CASE /\ FileWritten(desk[a].slot, live) /\ NoneUnexcused
           /\ desk'[a].at = "record" /\ Goes(a) /\ KeepsHeld(a)
           /\ desk'[a].doomed = desk[a].doomed
    <2>. DEFINE s == desk[a].slot
    <2>1. s \in DOMAIN files' /\ live' \subseteq files'[s] \cup excused' /\ excused \subseteq excused'
        BY <1>1, <1>3 DEF FileWritten, RestSame, NoneUnexcused
    <2>2. Covers(desk[a].slot)'
        BY <1>3, <2>1 DEF Covers, Goes
    <2>3. CASE a = "nightly"
        <3>1. s \notin DOMAIN files
            BY <1>1, <2>3 DEF Fresh, Shapes, Stamping
        <3>2. /\ admin' = admin
              /\ Post' => Post
              /\ \A x \in DOMAIN files : x \in DOMAIN files' /\ files'[x] = files[x]
            BY <1>1, <1>3, <2>3, <3>1 DEF Moves, Post, FileWritten, Actors
        <3>3. \A x : Survives(x) => x \notin Named(desk'[a].doomed)
            BY <1>3 DEF Survives
        <3>4. ~StaleToCome'
            BY <2>2, <2>3 DEF StaleToCome
        <3>5. /\ live' = live /\ excused \subseteq excused' /\ manifest' = manifest
              /\ desk'[a].held = desk[a].held
            BY <1>1, <1>3, <2>1 DEF RestSame, KeepsHeld
        <3>6. \A x \in DOMAIN files \ Named(desk[a].doomed) :
                  x \in DOMAIN files' /\ files'[x] = files[x]
            BY <3>2
        <3>7. admin'.op = "switch" /\ admin'.at = "record" => admin' = admin
            BY <3>2
        <3>. QED
            BY <1>1, <3>2, <3>3, <3>4, <3>5, <3>6, <3>7, SafeKept
    <2>4. CASE a = "admin" /\ admin.op = "switch"
        <3>1. /\ s \notin Listed(manifest)
              /\ \A b \in Actors : s \notin Listed(desk[b].held) /\ s \notin Named(desk[b].doomed)
            BY <1>1, <2>4 DEF Fresh, Stamping
        <3>2. \A b \in Actors : desk'[b].held = desk[b].held /\ desk'[b].doomed = desk[b].doomed
            BY <1>1, <1>3 DEF Moves, KeepsHeld
        <3>3. /\ Newest(manifest', s)
              /\ \A b \in Actors : s \notin Named(desk'[b].doomed) /\ Newest(desk'[b].held, s)
            BY <1>1, <3>1, <3>2, UnlistedIsNewest DEF RestSame
        <3>4. PICK t : t = s
            OBVIOUS
        <3>5. Covers(t)'
            BY <2>1, <3>4 DEF Covers
        <3>6. Survives(t)'
            BY <1>1, <3>3, <3>4, <3>5, FreshSurvives
        <3>7. Spared'
            BY <3>5, <3>6 DEF Spared, Covers
        <3>. QED
            BY <2>2, <2>4, <3>7 DEF Safe
    <2>5. CASE a = "admin" /\ admin.op # "switch"
        BY <1>3, <2>5 DEF Safe, Post, Goes
    <2>. QED
        BY <2>3, <2>4, <2>5 DEF Actors
<1>. QED
    BY <1>2, <1>3, BackupEffect

LEMMA SafeRecord ==
    ASSUME Types, Shapes, Fresh, Safe, NEW a \in Actors, Record(a)
    PROVE  Safe'
<1>. USE DEF admin, nightly
<1>. DEFINE manual == desk[a].op \in ByHand
            s == desk[a].slot
<1>1. /\ Types' /\ Moves(a) /\ Undisturbed /\ desk[a].at = "record" /\ desk'[a].at = "write"
      /\ Goes(a) /\ desk'[a].doomed = desk[a].doomed
      /\ s \in Slots /\ desk'[a].held = Appended(manifest, s, manual)
    BY RecordEffect
<1>2. manifest \in Manifests /\ Bounded(manifest) /\ manual \in BOOLEAN
    BY DEF Types
<1>3. desk[a].op \in Stamping =>
          /\ s \notin Listed(manifest)
          /\ \A b \in Actors : s \notin Listed(desk[b].held) /\ s \notin Named(desk[b].doomed)
    BY <1>1 DEF Fresh
<1>4. \A b \in Actors : desk'[b].doomed = desk[b].doomed /\ (b # a => desk'[b] = desk[b])
    BY <1>1 DEF Moves
<1>. HIDE DEF manual
\* The slot that is recorded is a copy of the live database: it survives.
<1>5. ASSUME desk[a].op \in Stamping, Covers(s)
      PROVE  Spared'
    <2>1. PICK t : t = s
        OBVIOUS
    <2>2. Covers(t)'
        BY <1>1, <1>5, <2>1 DEF Covers, Undisturbed
    <2>3. Newest(desk'[a].held, t)
        BY <1>1, <1>2, <2>1, AppendedIsNewest
    <2>4. \A b \in Actors \ {a} : Newest(desk'[b].held, t)
        BY <1>3, <1>4, <1>5, <2>1, UnlistedIsNewest
    <2>5. Newest(manifest', t)
        BY <1>1, <1>3, <1>5, <2>1, UnlistedIsNewest DEF Undisturbed
    <2>6. \A b \in Actors : t \notin Named(desk'[b].doomed)
        BY <1>3, <1>4, <1>5, <2>1
    <2>7. Survives(t)'
        BY <1>1, <2>2, <2>3, <2>4, <2>5, <2>6, FreshSurvives
    <2>. QED
        BY <2>2, <2>7 DEF Spared, Covers
<1>6. CASE a = "admin" /\ admin.op = "switch"
    <2>1. Covers(s)
        BY <1>1, <1>6 DEF Safe
    <2>. QED
        BY <1>1, <1>5, <1>6, <2>1 DEF Safe, Stamping
<1>7. CASE a = "admin" /\ admin.op # "switch"
    BY <1>1, <1>7 DEF Safe, Post, Goes
<1>8. CASE a = "nightly"
    <2>1. admin' = admin /\ nightly.op = "auto" /\ ~StaleToCome'
        BY <1>1, <1>4, <1>8 DEF Shapes, StaleToCome, Actors
    <2>2. ASSUME Post, ~Covers(s), NEW t, Survives(t)
          PROVE  Survives(t)'
        <3>1. Covers(t)'
            BY <1>1, <2>2 DEF Survives, Covers, Undisturbed
        <3>2. StaleToCome /\ t # s
            BY <1>1, <1>8, <2>2 DEF StaleToCome, Survives
        <3>3. Newest(manifest, t) /\ OneLater(manifest, t)
            BY <2>2, <3>2 DEF Survives, Lasts
        <3>4. OneLater(desk'[a].held, t)
            BY <1>1, <1>2, <3>2, <3>3, AppendedIsOneLater
        <3>5. \A b \in Actors : t \notin Named(desk'[b].doomed) /\ OneLater(desk'[b].held, t)
            BY <1>4, <2>2, <3>4 DEF Survives, Lasts
        <3>. QED
            BY <1>1, <2>1, <3>1, <3>3, <3>5 DEF Survives, Lasts, Undisturbed
    <2>3. Post => Spared'
        <3>1. SUFFICES ASSUME Post PROVE Spared'
            OBVIOUS
        <3>2. CASE live \subseteq excused
            BY <1>1, <3>2 DEF Spared, Undisturbed
        <3>3. CASE Covers(s)
            BY <1>5, <1>8, <2>1, <3>3 DEF Stamping
        <3>4. CASE ~Covers(s) /\ ~(live \subseteq excused)
            <4>1. PICK t \in DOMAIN files : Survives(t)
                BY <3>1, <3>4 DEF Safe, Spared
            <4>. QED
                BY <1>1, <2>2, <3>1, <3>4, <4>1 DEF Spared, Undisturbed
        <3>. QED
            BY <3>2, <3>3, <3>4
    <2>4. ASSUME admin.op = "switch", admin.at = "record"
          PROVE  Covers(admin.slot)'
        BY <1>1, <2>1, <2>4 DEF Safe, Covers, Undisturbed
    <2>. QED
        BY <2>1, <2>3, <2>4 DEF Safe, Post
<1>. QED
    BY <1>6, <1>7, <1>8 DEF Actors

\* A step that touches no file, and dooms and lists nothing new.
LEMMA SafeQuiet ==
    ASSUME Types, Shapes, Fresh, Safe, NEW a \in Actors, Moves(a), live' = live, FilesSame,
           manifest'.datasets \subseteq manifest.datasets \cup desk[a].held.datasets,
           manifest' = manifest \/ manifest' = desk[a].held,
           Post' => Post, desk'[a].at # "record",
           \A s : Survives(s) => s \notin Named(desk'[a].doomed),
           \/ desk'[a].held.datasets \subseteq manifest.datasets
           \/ desk'[a].held.datasets \subseteq desk[a].held.datasets
    PROVE  Safe'
<1>1. /\ admin'.op = "switch" /\ admin'.at = "record" => admin' = admin
      /\ StaleToCome' => nightly' = nightly
    BY DEF Moves, Actors, StaleToCome, admin, nightly
<1>2. /\ excused \subseteq excused'
      /\ \A s \in DOMAIN files \ Named(desk[a].doomed) :
             s \in DOMAIN files' /\ files'[s] = files[s]
    BY DEF FilesSame
<1>3. \/ manifest'.datasets \subseteq manifest.datasets
      \/ manifest'.datasets \subseteq desk[a].held.datasets
    OBVIOUS
<1>. QED
    BY <1>1, <1>2, <1>3, SafeKept

LEMMA SafeAtRest ==
    ASSUME Types, Shapes, Fresh, Safe, NEW a \in Actors, Moves(a), live' = live, FilesSame,
           manifest' = manifest \/ manifest' = desk[a].held, Rests(a)
    PROVE  Safe'
<1>1. /\ desk'[a].held.datasets = {} /\ Named(desk'[a].doomed) = {} /\ desk'[a].at = "idle"
      /\ desk'[a].op = "none"
    BY AtRestType, NothingFacts DEF Rests, Named
<1>2. Post' => Post
    BY <1>1 DEF Post, Moves, Actors, admin
<1>. QED
    BY <1>1, <1>2, SafeQuiet

LEMMA SafeStep ==
    ASSUME Types, Shapes, Fresh, Safe, DatasetsNext
    PROVE  Safe'
<1>. USE DEF admin, nightly
<1>1. CASE Ride
    BY <1>1, SafeRide
<1>2. ASSUME admin'.op # "switch"
      PROVE  Safe'
    BY <1>2 DEF Safe, Post
<1>3. CASE SaveSnapshot
    BY <1>2, <1>3, SaveEffect
<1>4. CASE CreateEmpty \/ ImportFile
    BY <1>2, <1>4, AddEffect
<1>5. CASE Rename
    BY <1>2, <1>5, RenameEffect
<1>6. CASE DeleteSnapshot
    BY <1>2, <1>6, DeleteSnapshotEffect
<1>7. CASE PruneAutos
    BY <1>2, <1>7, PruneAutosEffect
<1>8. CASE SwitchTo
    BY <1>8, SwitchToEffect DEF SwitchBegins, Safe, Post, Spared, Undisturbed
<1>9. CASE AutoBackup
    <2>1. /\ Moves("nightly") /\ Undisturbed /\ Emptied("nightly") /\ "nightly" \in Actors
          /\ nightly'.at # "record"
        BY <1>9, AutoBackupEffect DEF Actors
    <2>2. desk'["nightly"].held.datasets = {} /\ Named(desk'["nightly"].doomed) = {}
        BY <2>1, NothingFacts DEF Emptied, Named
    <2>3. Post' => Post
        BY <2>1 DEF Moves, Actors, Post
    <2>. QED
        BY <2>1, <2>2, <2>3, SafeQuiet DEF Undisturbed, FilesSame
<1>10. ASSUME NEW a \in Actors, Backup(a)
       PROVE  Safe'
    BY <1>10, SafeBackup
<1>11. ASSUME NEW a \in Actors, Record(a)
       PROVE  Safe'
    BY <1>11, SafeRecord
<1>12. ASSUME NEW a \in Actors, WriteManifest(a)
       PROVE  Safe'
    <2>1. Moves(a) /\ live' = live /\ FilesSame /\ manifest' = desk[a].held /\ desk[a].at = "write"
        BY <1>12, WriteEffect
    <2>2. CASE Rests(a)
        BY <2>1, <2>2, SafeAtRest
    <2>3. CASE a = "admin" /\ SwitchBegins
        BY <2>1, <2>3 DEF SwitchBegins, Safe, Post, Spared, FilesSame
    <2>4. CASE /\ desk[a].then \in {"prune", "delete"} /\ desk'[a].at = desk[a].then
               /\ Goes(a) /\ desk'[a].doomed = desk[a].doomed /\ desk'[a].held = Nothing
        <3>1. Post' => Post
            BY <2>1, <2>4 DEF Moves, Actors, Post, Goes
        <3>2. \A s : Survives(s) => s \notin Named(desk'[a].doomed)
            BY <2>4 DEF Survives
        <3>3. desk'[a].held.datasets = {} /\ desk'[a].at # "record"
            BY <2>4, NothingFacts
        <3>. QED
            BY <2>1, <3>1, <3>2, <3>3, SafeQuiet
    <2>. QED
        BY <1>12, <2>2, <2>3, <2>4, WriteEffect
<1>13. ASSUME NEW a \in Actors, Rotate(a)
       PROVE  Safe'
    <2>1. /\ Moves(a) /\ Undisturbed /\ desk[a].at = "prune" /\ desk'[a].at = "delete"
          /\ Goes(a) /\ KeepsHeld(a)
        BY <1>13, RotateEffect
    <2>2. PICK keep \in Nat \ {0, 1} : desk'[a].doomed = Victims(manifest, keep)
        BY <1>13, RotateEffect
    <2>3. \A s : Survives(s) => s \notin Named(desk'[a].doomed)
        BY <2>2, LastTwoAreKept DEF Survives, Lasts, Types
    <2>4. Post' => Post
        BY <2>1 DEF Moves, Actors, Post, Goes
    <2>. QED
        BY <2>1, <2>3, <2>4, SafeQuiet DEF Undisturbed, FilesSame, KeepsHeld
<1>14. ASSUME NEW a \in Actors, Delete(a)
       PROVE  Safe'
    <2>1. Moves(a) /\ RestSame /\ desk[a].at = "delete"
        BY <1>14, DeleteEffect
    <2>2. CASE Rests(a) /\ FilesSame
        BY <2>1, <2>2, SafeAtRest DEF RestSame
    <2>3. ASSUME NEW e \in desk[a].doomed, FileGone(e.slug), NoneUnexcused,
                 desk'[a].at = "write", Goes(a), desk'[a].doomed = desk[a].doomed \ {e},
                 desk'[a].held = Drop(manifest, e.slug)
          PROVE  Safe'
        <3>1. live' = live /\ manifest' = manifest /\ excused \subseteq excused'
            BY <2>1, <2>3 DEF RestSame, NoneUnexcused
        <3>2. \A s \in DOMAIN files \ Named(desk[a].doomed) :
                  s \in DOMAIN files' /\ files'[s] = files[s]
            BY <2>3 DEF FileGone, Named
        <3>3. \A s : Survives(s) => s \notin Named(desk'[a].doomed)
            BY <2>3 DEF Survives, Named
        <3>4. desk'[a].held.datasets \subseteq manifest.datasets
            BY <2>3, DropFacts DEF Types
        <3>5. Post' => Post
            BY <2>1, <2>3 DEF Moves, Actors, Post, Goes
        <3>6. admin'.op = "switch" /\ admin'.at = "record" => admin' = admin
            BY <2>1, <2>3 DEF Moves, Actors
        <3>7. StaleToCome' => nightly' = nightly
            BY <2>1, <2>3 DEF Moves, Actors, StaleToCome
        <3>. QED
            BY <2>1, <3>1, <3>2, <3>3, <3>4, <3>5, <3>6, <3>7, SafeKept
    <2>. QED
        BY <1>14, <2>2, <2>3, DeleteEffect
<1>15. ASSUME NEW a \in Actors, DeletedAll(a)
       PROVE  Safe'
    <2>1. Moves(a) /\ Undisturbed /\ desk[a].at = "delete"
        BY <1>15, DeletedAllEffect
    <2>2. CASE Rests(a)
        BY <2>1, <2>2, SafeAtRest DEF Undisturbed, FilesSame
    <2>3. CASE /\ desk'[a].at = "copy" /\ Goes(a) /\ KeepsHeld(a)
               /\ desk'[a].doomed = desk[a].doomed
        <3>1. Post' => Post
            BY <2>1, <2>3 DEF Moves, Actors, Post, Goes
        <3>2. \A s : Survives(s) => s \notin Named(desk'[a].doomed)
            BY <2>3 DEF Survives
        <3>. QED
            BY <2>1, <2>3, <3>1, <3>2, SafeQuiet DEF Undisturbed, FilesSame, KeepsHeld
    <2>. QED
        BY <1>15, <2>2, <2>3, DeletedAllEffect
<1>16. ASSUME NEW a \in Actors, Die(a)
       PROVE  Safe'
    BY <1>16, DieEffect, SafeAtRest DEF Undisturbed, FilesSame
<1>17. CASE CopyIncoming
    <2>1. Moves("admin") /\ Undisturbed /\ "admin" \in Actors /\ admin.at = "copy"
        BY <1>17, CopyEffect DEF Actors
    <2>2. CASE Rests("admin")
        BY <2>1, <2>2, SafeAtRest DEF Undisturbed, FilesSame
    <2>3. CASE /\ admin'.at = "swap" /\ Goes("admin") /\ KeepsHeld("admin")
               /\ admin'.doomed = admin.doomed
        <3>1. Post' => Post
            BY <2>1, <2>3 DEF Post, Goes
        <3>2. \A s : Survives(s) => s \notin Named(desk'["admin"].doomed)
            BY <2>1, <2>3 DEF Survives
        <3>. QED
            BY <2>1, <2>3, <3>1, <3>2, SafeQuiet DEF Undisturbed, FilesSame, KeepsHeld
    <2>. QED
        BY <1>17, <2>2, <2>3, CopyEffect
<1>18. CASE Swap
    BY <1>18, SwapEffect DEF Safe, Post
<1>19. CASE Point
    BY <1>19, PointEffect DEF Safe, Post
<1>. QED
    BY <1>1, <1>3, <1>4, <1>5, <1>6, <1>7, <1>8, <1>9, <1>10, <1>11, <1>12, <1>13, <1>14,
       <1>15, <1>16, <1>17, <1>18, <1>19 DEF DatasetsNext

-----------------------------------------------------------------------------
(* No ride is lost. *)

LEMMA StillKept ==
    ASSUME RidesAreKept, stored' = stored, live' = live, FilesSame \/ NoneUnexcused
    PROVE  RidesAreKept'
BY DEF RidesAreKept, FilesSame, NoneUnexcused

LEMMA KeptStep ==
    ASSUME Types, Shapes, Fresh, Safe, RidesAreKept, DatasetsNext
    PROVE  RidesAreKept'
<1>1. CASE Ride
    <2>1. /\ files' = files /\ stored' = stored + 1 /\ live \subseteq live'
          /\ stored' \in live' \/ Swapped
          /\ excused \subseteq excused' /\ (admin.risk => stored' \in excused')
        BY <1>1, RideEffect
    <2>2. Swapped => admin.risk
        BY DEF Swapped, Shapes, admin
    <2>3. 1..stored' = (1..stored) \cup {stored'}
        BY <2>1 DEF Types
    <2>. QED
        BY <2>1, <2>2, <2>3 DEF RidesAreKept
<1>2. CASE SaveSnapshot
    BY <1>2, SaveEffect, StillKept DEF Undisturbed, FilesSame
<1>3. CASE CreateEmpty \/ ImportFile
    BY <1>3, AddEffect, StillKept
<1>4. CASE Rename
    BY <1>4, RenameEffect, StillKept DEF Undisturbed, FilesSame
<1>5. CASE DeleteSnapshot
    BY <1>5, DeleteSnapshotEffect, StillKept DEF Undisturbed, FilesSame
<1>6. CASE PruneAutos
    BY <1>6, PruneAutosEffect, StillKept DEF Undisturbed, FilesSame
<1>7. CASE SwitchTo
    BY <1>7, SwitchToEffect, StillKept DEF Undisturbed, FilesSame
<1>8. CASE AutoBackup
    BY <1>8, AutoBackupEffect, StillKept DEF Undisturbed, FilesSame
<1>9. ASSUME NEW a \in Actors, Backup(a)
      PROVE  RidesAreKept'
    BY <1>9, BackupEffect, StillKept DEF RestSame
<1>10. ASSUME NEW a \in Actors, Record(a)
       PROVE  RidesAreKept'
    BY <1>10, RecordEffect, StillKept DEF Undisturbed, FilesSame
<1>11. ASSUME NEW a \in Actors, WriteManifest(a)
       PROVE  RidesAreKept'
    BY <1>11, WriteEffect, StillKept
<1>12. ASSUME NEW a \in Actors, Rotate(a)
       PROVE  RidesAreKept'
    BY <1>12, RotateEffect, StillKept DEF Undisturbed, FilesSame
<1>13. ASSUME NEW a \in Actors, Delete(a)
       PROVE  RidesAreKept'
    BY <1>13, DeleteEffect, StillKept DEF RestSame
<1>14. ASSUME NEW a \in Actors, DeletedAll(a)
       PROVE  RidesAreKept'
    BY <1>14, DeletedAllEffect, StillKept DEF Undisturbed, FilesSame
<1>15. ASSUME NEW a \in Actors, Die(a)
       PROVE  RidesAreKept'
    BY <1>15, DieEffect, StillKept DEF Undisturbed, FilesSame
<1>16. CASE CopyIncoming
    BY <1>16, CopyEffect, StillKept DEF Undisturbed, FilesSame
<1>17. CASE Swap
    <2>1. admin.at = "swap" /\ FilesSame /\ stored' = stored
        BY <1>17, SwapEffect
    <2>2. Spared
        BY <2>1 DEF Safe, Post, Shapes
    <2>3. live \subseteq Kept(files) \cup excused
        BY <2>2 DEF Spared, Survives, Covers, Kept
    <2>. QED
        BY <2>1, <2>3 DEF RidesAreKept, FilesSame
<1>18. CASE Point
    BY <1>18, PointEffect, StillKept DEF Undisturbed, FilesSame
<1>. QED
    BY <1>1, <1>2, <1>3, <1>4, <1>5, <1>6, <1>7, <1>8, <1>9, <1>10, <1>11, <1>12, <1>13,
       <1>14, <1>15, <1>16, <1>17, <1>18 DEF DatasetsNext

LEMMA TypesStep ==
    ASSUME Types, Shapes, Fresh, DatasetsNext
    PROVE  Types'
BY RideEffect, SaveEffect, AddEffect, RenameEffect, DeleteSnapshotEffect, PruneAutosEffect,
   SwitchToEffect, AutoBackupEffect, BackupEffect, RecordEffect, WriteEffect, RotateEffect,
   DeleteEffect, DeletedAllEffect, CopyEffect, SwapEffect, PointEffect, DieEffect
   DEF DatasetsNext

LEMMA TypesStutter ==
    ASSUME Types, UNCHANGED datasetVars
    PROVE  Types'
BY DEF Types, datasetVars, datasetHistory, Bounded

LEMMA KeptStutter ==
    ASSUME KeptInv, UNCHANGED datasetVars
    PROVE  KeptInv'
<1>1. /\ live' = live /\ files' = files /\ manifest' = manifest /\ desk' = desk
      /\ stored' = stored /\ excused' = excused /\ crossed' = crossed
    BY DEF datasetVars, datasetHistory
<1>2. Types'
    BY TypesStutter DEF KeptInv
<1>3. Shapes' /\ Fresh' /\ RidesAreKept'
    BY <1>1 DEF KeptInv, Shapes, Fresh, RidesAreKept, admin, nightly
<1>4. Safe'
    BY <1>1 DEF KeptInv, Safe, Post, Spared, Survives, Covers, Lasts, StaleToCome, admin, nightly
<1>. QED
    BY <1>2, <1>3, <1>4 DEF KeptInv

LEMMA InitTypes ==
    ASSUME DatasetsInit
    PROVE  Types /\ Shapes /\ Fresh
<1>1. /\ live = {} /\ files = <<>> /\ stored = 0 /\ crossed = FALSE /\ manifest = Nothing
      /\ desk = [a \in Actors |-> AtRest]
    BY DEF DatasetsInit
<1>2. DOMAIN files = {}
    BY <1>1
<1>3. Types
    BY <1>1, <1>2, AtRestType, NothingFacts DEF Types
<1>4. \A a \in Actors : desk[a] = AtRest
    BY <1>1
<1>5. Shapes
    BY <1>4, AtRestType DEF Shapes, admin, nightly, Actors
<1>. QED
    BY <1>3, <1>4, <1>5, AtRestType DEF Fresh

\* Rides, files and manifest as the admin's request and the nightly job leave
\* them, with what makes a switch safe.
THEOREM KeptSound == DatasetsSpec => []KeptInv
<1>1. DatasetsInit => KeptInv
    <2>1. SUFFICES ASSUME DatasetsInit PROVE KeptInv
        OBVIOUS
    <2>2. Safe
        <3>1. admin = AtRest
            BY <2>1 DEF DatasetsInit, admin, Actors
        <3>. QED
            BY <3>1, AtRestType DEF Safe, Post
    <2>3. RidesAreKept
        <3>1. stored = 0 /\ 1..0 = {}
            BY <2>1 DEF DatasetsInit
        <3>. QED
            BY <3>1 DEF RidesAreKept
    <2>. QED
        BY <2>1, <2>2, <2>3, InitTypes DEF KeptInv
<1>2. KeptInv /\ DatasetsNext => KeptInv'
    BY TypesStep, ShapesStep, FreshStep, SafeStep, KeptStep DEF KeptInv
<1>3. KeptInv /\ UNCHANGED datasetVars => KeptInv'
    BY KeptStutter
<1>. QED
    BY <1>1, <1>2, <1>3, PTL DEF DatasetsSpec

\* Every ride acknowledged is in the live database or in a snapshot, but for
\* those a switch or a deletion is excused for: for any slots, any number of
\* rides, switches and nights, and rotations of two or more.
THEOREM KeptCorrect == DatasetsSpec => []RidesAreKept
<1>1. KeptInv => RidesAreKept
    BY DEF KeptInv
<1>. QED
    BY <1>1, KeptSound, PTL

-----------------------------------------------------------------------------
(* Only its deletion touches a snapshot an admin named. *)

LEMMA MarksKept ==
    ASSUME MarksRight, NEW a \in Actors, Moves(a),
           Marked(manifest'.datasets), Marked(desk'[a].held.datasets), Marked(desk'[a].doomed),
           desk'[a].op # "delete" => \A e \in desk'[a].doomed : ~e.manual
    PROVE  MarksRight'
<1>1. ASSUME NEW b \in Actors
      PROVE  /\ Marked(desk'[b].held.datasets) /\ Marked(desk'[b].doomed)
             /\ desk'[b].op # "delete" => \A e \in desk'[b].doomed : ~e.manual
    BY <1>1 DEF Moves, MarksRight
<1>. QED
    BY <1>1 DEF MarksRight, Marked

LEMMA MarkedThinner ==
    ASSUME NEW E, NEW F, F \subseteq E, Marked(E)
    PROVE  Marked(F)
BY DEF Marked

LEMMA MarksAtRest ==
    ASSUME MarksRight, NEW a \in Actors, Moves(a), Rests(a),
           manifest' = manifest \/ manifest' = desk[a].held
    PROVE  MarksRight'
<1>1. desk'[a].held.datasets = {} /\ desk'[a].doomed = {}
    BY AtRestType, NothingFacts DEF Rests
<1>2. Marked(manifest'.datasets)
    BY DEF MarksRight
<1>3. Marked({})
    BY DEF Marked
<1>. QED
    BY <1>1, <1>2, <1>3, MarksKept

LEMMA MarksEmptied ==
    ASSUME MarksRight, NEW a \in Actors, Moves(a), desk'[a].held = Nothing, desk'[a].doomed = {},
           manifest' = manifest \/ manifest' = desk[a].held
    PROVE  MarksRight'
<1>1. Marked({}) /\ Marked(manifest'.datasets)
    BY DEF Marked, MarksRight
<1>. QED
    BY <1>1, NothingFacts, MarksKept

LEMMA MarksStep ==
    ASSUME Types, Shapes, Fresh, MarksRight, DatasetsNext
    PROVE  MarksRight'
<1>0. "admin" \in Actors /\ "nightly" \in Actors /\ Marked({}) /\ Marked(manifest.datasets)
    BY DEF Actors, Marked, MarksRight
<1>1. CASE Ride
    BY <1>1, RideEffect DEF MarksRight, Marked
<1>2. CASE SaveSnapshot \/ CreateEmpty \/ ImportFile
    BY <1>0, <1>2, SaveEffect, AddEffect, MarksEmptied DEF Emptied, Undisturbed
<1>3. CASE Rename
    BY <1>0, <1>3, RenameEffect, MarksKept DEF Undisturbed, admin
<1>4. CASE DeleteSnapshot \/ PruneAutos
    <2>1. /\ Moves("admin") /\ Undisturbed /\ admin'.held = Nothing
          /\ admin'.doomed \subseteq manifest.datasets
          /\ admin'.op # "delete" => \A e \in admin'.doomed : ~e.manual
        BY <1>4, DeleteSnapshotEffect, PruneAutosEffect
    <2>2. Marked(admin'.doomed)
        BY <1>0, <2>1, MarkedThinner
    <2>. QED
        BY <1>0, <2>1, <2>2, NothingFacts, MarksKept DEF Undisturbed, admin
<1>5. CASE SwitchTo
    BY <1>0, <1>5, SwitchToEffect, MarksEmptied DEF SwitchBegins, Emptied, Undisturbed
<1>6. CASE AutoBackup
    BY <1>0, <1>6, AutoBackupEffect, MarksEmptied DEF Emptied, Undisturbed
<1>7. ASSUME NEW a \in Actors, Backup(a)
      PROVE  MarksRight'
    <2>1. Moves(a) /\ RestSame
        BY <1>7, BackupEffect
    <2>2. CASE Rests(a)
        BY <2>1, <2>2, MarksAtRest DEF RestSame
    <2>3. CASE Goes(a) /\ KeepsHeld(a) /\ desk'[a].doomed = desk[a].doomed
        BY <1>0, <2>1, <2>3, MarksKept DEF RestSame, Goes, KeepsHeld, MarksRight
    <2>. QED
        BY <1>7, <2>2, <2>3, BackupEffect
<1>8. ASSUME NEW a \in Actors, Record(a)
      PROVE  MarksRight'
    <2>. DEFINE manual == desk[a].op \in ByHand
                s == desk[a].slot
    <2>1. /\ Moves(a) /\ Undisturbed /\ desk[a].at = "record" /\ Goes(a)
          /\ desk'[a].doomed = desk[a].doomed /\ s \in Slots
          /\ desk'[a].held = Appended(manifest, s, manual)
        BY <1>8, RecordEffect
    <2>2. manual <=> s \in ManualSlots
        BY <2>1, SlotFacts DEF Fresh, Shapes, Actors, admin, nightly, Stamping, ByHand
    <2>3. manifest \in Manifests /\ Bounded(manifest) /\ manual \in BOOLEAN
        BY DEF Types
    <2>. HIDE DEF manual
    <2>4. /\ desk'[a].held.datasets = Drop(manifest, s).datasets \cup {Entry(manifest, s, manual)}
          /\ Entry(manifest, s, manual).slug = s /\ Entry(manifest, s, manual).manual = manual
        BY <2>1, <2>3, AppendedFacts
    <2>5. Drop(manifest, s).datasets \subseteq manifest.datasets
        BY <2>3, DropFacts
    <2>6. Marked(desk'[a].held.datasets)
        BY <1>0, <2>2, <2>4, <2>5 DEF Marked
    <2>. QED
        BY <1>0, <2>1, <2>6, MarksKept DEF Undisturbed, Goes, MarksRight
<1>9. ASSUME NEW a \in Actors, WriteManifest(a)
      PROVE  MarksRight'
    <2>1. Moves(a) /\ manifest' = desk[a].held
        BY <1>9, WriteEffect
    <2>2. CASE Rests(a)
        BY <2>1, <2>2, MarksAtRest
    <2>3. CASE a = "admin" /\ SwitchBegins
        BY <2>1, <2>3, MarksEmptied DEF SwitchBegins, Emptied
    <2>4. CASE Goes(a) /\ desk'[a].doomed = desk[a].doomed /\ desk'[a].held = Nothing
        BY <1>0, <2>1, <2>4, NothingFacts, MarksKept DEF Goes, MarksRight
    <2>. QED
        BY <1>9, <2>2, <2>3, <2>4, WriteEffect
<1>10. ASSUME NEW a \in Actors, Rotate(a)
       PROVE  MarksRight'
    <2>1. /\ Moves(a) /\ Undisturbed /\ KeepsHeld(a)
          /\ \E keep : desk'[a].doomed = Victims(manifest, keep)
        BY <1>10, RotateEffect
    <2>2. desk'[a].doomed \subseteq manifest.datasets /\ \A e \in desk'[a].doomed : ~e.manual
        BY <2>1, VictimsFacts DEF Types
    <2>3. Marked(desk'[a].doomed)
        BY <1>0, <2>2, MarkedThinner
    <2>. QED
        BY <1>0, <2>1, <2>2, <2>3, MarksKept DEF Undisturbed, KeepsHeld, MarksRight
<1>11. ASSUME NEW a \in Actors, Delete(a)
       PROVE  MarksRight'
    <2>1. Moves(a) /\ RestSame
        BY <1>11, DeleteEffect
    <2>2. CASE Rests(a)
        BY <2>1, <2>2, MarksAtRest DEF RestSame
    <2>3. ASSUME NEW e \in desk[a].doomed, Goes(a), desk'[a].doomed = desk[a].doomed \ {e},
                 desk'[a].held = Drop(manifest, e.slug)
          PROVE  MarksRight'
        <3>1. desk'[a].held.datasets \subseteq manifest.datasets
            BY <2>3, DropFacts DEF Types
        <3>2. Marked(desk'[a].held.datasets) /\ Marked(desk'[a].doomed)
            BY <1>0, <2>3, <3>1, MarkedThinner DEF MarksRight
        <3>. QED
            BY <1>0, <2>1, <2>3, <3>2, MarksKept DEF RestSame, Goes, MarksRight
    <2>. QED
        BY <1>11, <2>2, <2>3, DeleteEffect
<1>12. ASSUME NEW a \in Actors, DeletedAll(a)
       PROVE  MarksRight'
    <2>1. Moves(a) /\ Undisturbed
        BY <1>12, DeletedAllEffect
    <2>2. CASE Rests(a)
        BY <2>1, <2>2, MarksAtRest DEF Undisturbed
    <2>3. CASE Goes(a) /\ KeepsHeld(a) /\ desk'[a].doomed = desk[a].doomed
        BY <1>0, <2>1, <2>3, MarksKept DEF Undisturbed, Goes, KeepsHeld, MarksRight
    <2>. QED
        BY <1>12, <2>2, <2>3, DeletedAllEffect
<1>13. ASSUME NEW a \in Actors, Die(a)
       PROVE  MarksRight'
    BY <1>13, DieEffect, MarksAtRest DEF Undisturbed
<1>14. CASE CopyIncoming
    <2>1. Moves("admin") /\ Undisturbed
        BY <1>14, CopyEffect
    <2>2. CASE Rests("admin")
        BY <1>0, <2>1, <2>2, MarksAtRest DEF Undisturbed
    <2>3. CASE Goes("admin") /\ KeepsHeld("admin") /\ admin'.doomed = admin.doomed
        BY <1>0, <2>1, <2>3, MarksKept DEF Undisturbed, Goes, KeepsHeld, MarksRight, admin
    <2>. QED
        BY <1>14, <2>2, <2>3, CopyEffect
<1>15. CASE Swap
    BY <1>0, <1>15, SwapEffect, MarksKept DEF Goes, KeepsHeld, MarksRight, admin
<1>16. CASE Point
    BY <1>0, <1>16, PointEffect, MarksKept DEF Goes, Undisturbed, MarksRight, admin
<1>. QED
    BY <1>1, <1>2, <1>3, <1>4, <1>5, <1>6, <1>7, <1>8, <1>9, <1>10, <1>11, <1>12, <1>13,
       <1>14, <1>15, <1>16 DEF DatasetsNext

LEMMA TypedFreeStep ==
    ASSUME Types, Shapes, Fresh, TypedFree, DatasetsNext
    PROVE  TypedFree'
<1>. USE DEF admin, nightly
\* The admin's own steps, while the nightly job rests or is at another step.
<1>1. ASSUME Moves("admin"), crossed' = crossed, admin'.at # "backup" \/ admin'.op # "save"
      PROVE  TypedFree'
    BY <1>1 DEF TypedFree, Moves, Actors
<1>2. ASSUME Moves("nightly"), nightly'.at # "write", manifest' = manifest, crossed' = crossed
      PROVE  TypedFree'
    BY <1>2 DEF TypedFree, Moves, Actors
<1>3. ASSUME NEW a \in Actors, Moves(a), desk'[a].at \notin {"write", "backup"},
             manifest' = manifest, crossed' = crossed
      PROVE  TypedFree'
    BY <1>1, <1>2, <1>3 DEF Actors
<1>4. ASSUME NEW a \in Actors, Moves(a), Rests(a), manifest' = manifest, crossed' = crossed
      PROVE  TypedFree'
    BY <1>3, <1>4, AtRestType DEF Rests
<1>5. CASE Ride
    BY <1>5, RideEffect DEF TypedFree
<1>6. CASE SaveSnapshot
    BY <1>6, SaveEffect DEF TypedFree, Moves, Actors, Undisturbed
<1>7. CASE CreateEmpty \/ ImportFile
    BY <1>1, <1>7, AddEffect
<1>8. CASE Rename
    BY <1>1, <1>8, RenameEffect DEF Undisturbed
<1>9. CASE DeleteSnapshot \/ PruneAutos
    BY <1>1, <1>9, DeleteSnapshotEffect, PruneAutosEffect DEF Undisturbed
<1>10. CASE SwitchTo
    BY <1>1, <1>10, SwitchToEffect DEF SwitchBegins, Undisturbed
<1>11. CASE AutoBackup
    BY <1>2, <1>11, AutoBackupEffect DEF Undisturbed
<1>12. ASSUME NEW a \in Actors, Backup(a)
       PROVE  TypedFree'
    BY <1>3, <1>4, <1>12, BackupEffect DEF RestSame
<1>13. ASSUME NEW a \in Actors, Record(a)
       PROVE  TypedFree'
    <2>. DEFINE manual == desk[a].op \in ByHand
                s == desk[a].slot
    <2>1. /\ Moves(a) /\ Undisturbed /\ desk[a].at = "record" /\ Goes(a) /\ desk'[a].at = "write"
          /\ desk'[a].read = manifest /\ s \in Slots
          /\ desk'[a].held = Appended(manifest, s, manual)
        BY <1>13, RecordEffect
    <2>2. CASE a = "admin"
        BY <1>1, <2>1, <2>2 DEF Undisturbed
    <2>3. CASE a = "nightly"
        <3>1. s \notin ManualSlots
            BY <2>1, <2>3, SlotFacts DEF Fresh, Shapes, Stamping
        <3>2. manifest \in Manifests /\ Bounded(manifest) /\ manual \in BOOLEAN
            BY DEF Types
        <3>. HIDE DEF manual
        <3>3. Listed(desk'[a].held) \subseteq Listed(manifest) \cup {s}
            BY <2>1, <3>2, AppendedFacts
        <3>. QED
            BY <2>1, <2>3, <3>1, <3>3 DEF TypedFree, Moves, Actors, Undisturbed
    <2>. QED
        BY <2>2, <2>3 DEF Actors
<1>14. ASSUME NEW a \in Actors, WriteManifest(a)
       PROVE  TypedFree'
    <2>1. /\ Moves(a) /\ desk[a].at = "write" /\ manifest' = desk[a].held
          /\ crossed' = (crossed \/ manifest # desk[a].read)
        BY <1>14, WriteEffect
    <2>2. desk'[a].at # "write" /\ (a = "admin" => admin'.at # "backup" \/ admin'.op # "save")
        BY <1>14, WriteEffect, AtRestType DEF Rests, SwitchBegins, Goes
    <2>3. CASE a = "admin"
        BY <2>1, <2>2, <2>3 DEF TypedFree, Moves, Actors
    <2>4. CASE a = "nightly"
        <3>1. ASSUME ~crossed', admin'.at = "backup", admin'.op = "save"
              PROVE  admin'.slot \notin Listed(manifest')
            <4>1. admin' = admin
                BY <2>1, <2>4 DEF Moves, Actors
            <4>2. manifest = nightly.read /\ ~crossed
                BY <2>1, <2>4, <3>1
            <4>3. Listed(manifest') \cap ManualSlots \subseteq Listed(manifest)
                BY <2>1, <2>4, <4>2 DEF TypedFree
            <4>4. admin.slot \in ManualSlots /\ admin.slot \notin Listed(manifest)
                BY <3>1, <4>1, <4>2 DEF TypedFree, Fresh, Actors, ByHand
            <4>. QED
                BY <4>1, <4>3, <4>4
        <3>. QED
            BY <2>2, <2>4, <3>1 DEF TypedFree
    <2>. QED
        BY <2>3, <2>4 DEF Actors
<1>15. ASSUME NEW a \in Actors, Rotate(a)
       PROVE  TypedFree'
    BY <1>3, <1>15, RotateEffect DEF Undisturbed
<1>16. ASSUME NEW a \in Actors, Delete(a)
       PROVE  TypedFree'
    <2>1. Moves(a) /\ RestSame
        BY <1>16, DeleteEffect
    <2>2. CASE Rests(a)
        BY <1>4, <2>1, <2>2 DEF RestSame
    <2>3. ASSUME NEW s, desk'[a].at = "write", desk'[a].read = manifest,
                 desk'[a].held = Drop(manifest, s)
          PROVE  TypedFree'
        <3>1. Listed(desk'[a].held) \subseteq Listed(manifest)
            BY <2>3, DropFacts DEF Types
        <3>. QED
            BY <2>1, <2>3, <3>1 DEF TypedFree, Moves, Actors, RestSame
    <2>. QED
        BY <1>16, <2>2, <2>3, DeleteEffect
<1>17. ASSUME NEW a \in Actors, DeletedAll(a)
       PROVE  TypedFree'
    BY <1>3, <1>4, <1>17, DeletedAllEffect DEF Undisturbed
<1>18. ASSUME NEW a \in Actors, Die(a)
       PROVE  TypedFree'
    BY <1>4, <1>18, DieEffect DEF Undisturbed
<1>19. CASE CopyIncoming
    BY <1>1, <1>19, CopyEffect, AtRestType DEF Undisturbed, Rests
<1>20. CASE Swap
    BY <1>1, <1>20, SwapEffect
<1>21. CASE Point
    BY <1>1, <1>21, PointEffect DEF Undisturbed
<1>. QED
    BY <1>5, <1>6, <1>7, <1>8, <1>9, <1>10, <1>11, <1>12, <1>13, <1>14, <1>15, <1>16, <1>17,
       <1>18, <1>19, <1>20, <1>21 DEF DatasetsNext

LEMMA ManualStep ==
    ASSUME Types, Shapes, Fresh, MarksRight, TypedFree, ~crossed, DatasetsNext,
           NEW s \in ManualSlots \cap Listed(manifest) \cap DOMAIN files
    PROVE  \/ s \in DOMAIN files' /\ files'[s] = files[s]
           \/ admin.op = "delete" /\ \E e \in admin.doomed : e.slug = s
<1>. USE DEF admin, nightly
<1>1. CASE files' = files
    BY <1>1
<1>2. CASE CreateEmpty \/ ImportFile
    BY <1>2, AddEffect DEF FileWritten
<1>3. ASSUME NEW a \in Actors, Backup(a), files' # files
      PROVE  s \in DOMAIN files' /\ files'[s] = files[s]
    <2>1. desk[a].at = "backup" /\ FileWritten(desk[a].slot, live)
        BY <1>3, BackupEffect DEF FilesSame
    <2>2. desk[a].slot # s
        <3>1. CASE desk[a].op \in Stamping
            BY <2>1, <3>1 DEF Fresh
        <3>2. CASE desk[a].op \notin Stamping
            BY <2>1, <3>2 DEF Shapes, TypedFree, Actors, Stamping
        <3>. QED
            BY <3>1, <3>2
    <2>. QED
        BY <2>1, <2>2 DEF FileWritten
<1>4. ASSUME NEW a \in Actors, Delete(a), files' # files
      PROVE  \/ s \in DOMAIN files' /\ files'[s] = files[s]
             \/ admin.op = "delete" /\ \E e \in admin.doomed : e.slug = s
    <2>1. PICK e \in desk[a].doomed : FileGone(e.slug)
        BY <1>4, DeleteEffect DEF FilesSame
    <2>2. CASE e.slug # s
        BY <2>1, <2>2 DEF FileGone
    <2>3. CASE e.slug = s
        <3>1. e.manual
            BY <2>3 DEF MarksRight, Marked
        <3>2. desk[a].op = "delete"
            BY <3>1 DEF MarksRight
        <3>3. a = "admin"
            BY <3>2 DEF Shapes, Actors
        <3>. QED
            BY <2>3, <3>2, <3>3
    <2>. QED
        BY <2>2, <2>3
<1>5. \/ files' = files
      \/ CreateEmpty \/ ImportFile
      \/ \E a \in Actors : Backup(a) \/ Delete(a)
    BY RideEffect, SaveEffect, RenameEffect, DeleteSnapshotEffect, PruneAutosEffect,
       SwitchToEffect, AutoBackupEffect, RecordEffect, WriteEffect, RotateEffect,
       DeletedAllEffect, CopyEffect, SwapEffect, PointEffect, DieEffect
       DEF DatasetsNext, Undisturbed, FilesSame
<1>. QED
    BY <1>1, <1>2, <1>3, <1>4, <1>5

\* Whose slugs the snapshots an admin named have, and what is under way with them.
THEOREM ManualSound == DatasetsSpec => []ManualInv
<1>1. DatasetsInit => ManualInv
    <2>1. SUFFICES ASSUME DatasetsInit PROVE ManualInv
        OBVIOUS
    <2>2. \A a \in Actors : desk[a] = AtRest
        BY <2>1 DEF DatasetsInit
    <2>3. MarksRight
        BY <2>1, <2>2, AtRestType, NothingFacts DEF DatasetsInit, MarksRight, Marked
    <2>4. TypedFree
        BY <2>2, AtRestType DEF TypedFree, admin, nightly, Actors
    <2>. QED
        BY <2>1, <2>3, <2>4, InitTypes DEF ManualInv
<1>2. ManualInv /\ DatasetsNext => ManualInv'
    BY TypesStep, ShapesStep, FreshStep, MarksStep, TypedFreeStep DEF ManualInv
<1>3. ManualInv /\ UNCHANGED datasetVars => ManualInv'
    <2>1. SUFFICES ASSUME ManualInv, UNCHANGED datasetVars PROVE ManualInv'
        OBVIOUS
    <2>2. /\ files' = files /\ manifest' = manifest /\ desk' = desk /\ crossed' = crossed
        BY <2>1 DEF datasetVars, datasetHistory
    <2>3. Types'
        BY <2>1, TypesStutter DEF ManualInv
    <2>4. Shapes' /\ Fresh' /\ MarksRight' /\ TypedFree'
        BY <2>1, <2>2 DEF ManualInv, Shapes, Fresh, MarksRight, Marked, TypedFree, admin, nightly
    <2>. QED
        BY <2>3, <2>4 DEF ManualInv
<1>. QED
    BY <1>1, <1>2, <1>3, PTL DEF DatasetsSpec

\* The file of a snapshot an admin named goes, or changes, by its own deletion
\* alone, as long as nobody has saved the manifest over what the other had just
\* written: no rotation, backup, import or switch touches it.
THEOREM ManualCorrect == DatasetsSpec => ManualKept
<1>. DEFINE Untouched ==
         ~crossed => \A s \in ManualSlots \cap Listed(manifest) \cap DOMAIN files :
             \/ s \in DOMAIN files' /\ files'[s] = files[s]
             \/ desk["admin"].op = "delete" /\ \E e \in desk["admin"].doomed : e.slug = s
<1>1. ManualInv /\ DatasetsNext => Untouched
    BY ManualStep DEF ManualInv, admin
<1>2. ManualInv /\ [DatasetsNext]_datasetVars => [Untouched]_datasetVars
    BY <1>1
<1>. QED
    BY <1>2, ManualSound, PTL DEF DatasetsSpec, ManualKept

-----------------------------------------------------------------------------
(* What a switch is to. *)

\* What an admin named and is switching to, or has just made to switch to, is on disk.
TargetThere ==
    /\ admin.op = "switch" /\ admin.target \in ManualSlots => admin.target \in DOMAIN files
    /\ admin.op = "new" => admin.slot \in DOMAIN files \cap ManualSlots

\* No file of such a slug goes but in an order to delete it.
LEMMA TypedFilesStay ==
    ASSUME Types, Shapes, Fresh, MarksRight, DatasetsNext, admin.op # "delete"
    PROVE  DOMAIN files \cap ManualSlots \subseteq DOMAIN files'
<1>. USE DEF admin, nightly
<1>1. CASE files' = files
    BY <1>1
<1>2. CASE CreateEmpty \/ ImportFile
    BY <1>2, AddEffect DEF FileWritten
<1>3. ASSUME NEW a \in Actors, Backup(a)
      PROVE  DOMAIN files \cap ManualSlots \subseteq DOMAIN files'
    BY <1>3, BackupEffect DEF FilesSame, FileWritten
<1>4. ASSUME NEW a \in Actors, Delete(a)
      PROVE  DOMAIN files \cap ManualSlots \subseteq DOMAIN files'
  <2>1. ASSUME NEW e \in desk[a].doomed, FileGone(e.slug)
        PROVE  DOMAIN files \cap ManualSlots \subseteq DOMAIN files'
    <3>1. desk[a].op # "delete"
        BY DEF Shapes, Actors
    <3>2. e.slug \notin ManualSlots
        BY <3>1 DEF MarksRight, Marked
    <3>. QED
        BY <2>1, <3>2 DEF FileGone
  <2>. QED
      BY <1>4, <2>1, DeleteEffect DEF FilesSame
<1>5. \/ files' = files
      \/ CreateEmpty \/ ImportFile
      \/ \E a \in Actors : Backup(a) \/ Delete(a)
    BY RideEffect, SaveEffect, RenameEffect, DeleteSnapshotEffect, PruneAutosEffect,
       SwitchToEffect, AutoBackupEffect, RecordEffect, WriteEffect, RotateEffect,
       DeletedAllEffect, CopyEffect, SwapEffect, PointEffect, DieEffect
       DEF DatasetsNext, Undisturbed, FilesSame
<1>. QED
    BY <1>1, <1>2, <1>3, <1>4, <1>5

\* An operation keeps its slug and its target as long as it goes on.
KeepsTarget(a) == Goes(a) /\ desk'[a].target = desk[a].target

LEMMA TargetKept ==
    ASSUME Types, Shapes, Fresh, NEW a \in Actors,
           \/ Backup(a) \/ Record(a) \/ Rotate(a) \/ Delete(a) \/ DeletedAll(a) \/ Die(a)
           \/ a = "admin" /\ (CopyIncoming \/ Swap \/ Point)
    PROVE  Moves(a) /\ (Rests(a) \/ KeepsTarget(a))
<1>. USE DEF admin, nightly
<1>1. desk \in [Actors -> Desks] /\ desk[a] \in Desks
    BY DEF Types
<1>2. Moves(a)
    BY BackupEffect, RecordEffect, RotateEffect, DeleteEffect, DeletedAllEffect, DieEffect,
       CopyEffect, SwapEffect, PointEffect
<1>3. Rests(a) \/ Goes(a)
    BY BackupEffect, RecordEffect, RotateEffect, DeleteEffect, DeletedAllEffect, DieEffect,
       CopyEffect, SwapEffect, PointEffect
<1>4. desk'[a] = AtRest \/ desk'[a].target = desk[a].target
  <2>1. CASE Backup(a)
      BY <1>1, <2>1 DEF Backup, Desks
  <2>2. CASE Record(a)
      BY <1>1, <2>2 DEF Record, Load, Desks
  <2>3. CASE Rotate(a)
      BY <1>1, <2>3 DEF Rotate, Desks
  <2>4. CASE Delete(a)
    <3>1. CASE desk' = [desk EXCEPT ![a] = AtRest]
        BY <1>1, <3>1
    <3>2. ASSUME NEW m, NEW doomed,
                 desk' = [desk EXCEPT ![a] =
                             [Load(desk[a], m) EXCEPT !.doomed = doomed, !.then = "delete"]]
          PROVE  desk'[a].target = desk[a].target
        BY <1>1, <3>2 DEF Load, Desks
    <3>. QED
        BY <2>4, <3>1, <3>2 DEF Delete
  <2>5. CASE DeletedAll(a)
      BY <1>1, <2>5 DEF DeletedAll, Desks
  <2>6. CASE Die(a)
      BY <1>1, <2>6 DEF Die
  <2>7. CASE CopyIncoming /\ a = "admin"
      BY <1>1, <2>7 DEF CopyIncoming, Desks
  <2>8. CASE Swap /\ a = "admin"
      BY <1>1, <2>8 DEF Swap, Desks
  <2>9. CASE Point /\ a = "admin"
      BY <1>1, <2>9 DEF Point, Load, Desks
  <2>. QED
      BY <2>1, <2>2, <2>3, <2>4, <2>5, <2>6, <2>7, <2>8, <2>9
<1>. QED
    BY <1>2, <1>3, <1>4 DEF Rests, KeepsTarget

LEMMA SwitchOnTarget ==
    ASSUME NEW s, NEW d \in SwitchOn(s)
    PROVE  d.target = s /\ d.op = "switch"
BY DEF SwitchOn, AtRest

LEMMA TargetStep ==
    ASSUME Types, Shapes, Fresh, MarksRight, TargetThere, DatasetsNext
    PROVE  TargetThere'
<1>. USE DEF admin, nightly
<1>0. "admin" \in Actors /\ "nightly" \in Actors /\ desk \in [Actors -> Desks]
    BY DEF Actors, Types
\* The operation goes on.
<1>1. ASSUME admin'.op = admin.op, admin'.target = admin.target, admin'.slot = admin.slot
      PROVE  TargetThere'
  <2>1. CASE admin.op \in {"switch", "new"}
    <3>1. DOMAIN files \cap ManualSlots \subseteq DOMAIN files'
        BY <2>1, TypedFilesStay
    <3>. QED
        BY <1>1, <2>1, <3>1 DEF TargetThere
  <2>2. CASE admin.op \notin {"switch", "new"}
      BY <1>1, <2>2 DEF TargetThere
  <2>. QED
      BY <2>1, <2>2
\* Another moves, or nobody.
<1>2. ASSUME admin' = admin PROVE TargetThere'
    BY <1>1, <1>2
<1>3. ASSUME NEW a \in Actors, Moves(a), Rests(a) \/ KeepsTarget(a) PROVE TargetThere'
  <2>1. CASE a = "nightly"
      BY <1>0, <1>2, <1>3, <2>1 DEF Moves
  <2>2. CASE a = "admin" /\ Rests(a)
      BY <2>2 DEF Rests, AtRest, TargetThere
  <2>3. CASE a = "admin" /\ KeepsTarget(a)
      BY <1>1, <2>3 DEF KeepsTarget, Goes
  <2>. QED
      BY <1>3, <2>1, <2>2, <2>3 DEF Actors
<1>4. ASSUME admin'.op \notin {"switch", "new"} PROVE TargetThere'
    BY <1>4 DEF TargetThere
\* A switch begins.
<1>5. ASSUME NEW s, s \in ManualSlots => s \in DOMAIN files, files' = files,
             admin' \in SwitchOn(s)
      PROVE  TargetThere'
  <2>1. admin'.target = s /\ admin'.op = "switch"
      BY <1>5, SwitchOnTarget
  <2>. QED
      BY <1>5, <2>1 DEF TargetThere
<1>6. CASE Ride
    BY <1>2, <1>6, RideEffect
<1>7. CASE SaveSnapshot \/ Rename \/ DeleteSnapshot \/ PruneAutos
  <2>1. admin'.op \in {"save", "rename", "delete", "prune"}
      BY <1>7, SaveEffect, RenameEffect, DeleteSnapshotEffect, PruneAutosEffect
  <2>. QED
      BY <1>4, <2>1
<1>8. CASE CreateEmpty \/ ImportFile
    BY <1>8, AddEffect DEF FileWritten, TargetThere
<1>9. CASE SwitchTo
  <2>1. PICK s \in DOMAIN files : \E d \in SwitchOn(s) : Order(d)
      BY <1>9 DEF SwitchTo
  <2>2. admin' \in SwitchOn(s)
      BY <1>0, <2>1 DEF Order, Starts
  <2>3. files' = files
      BY <1>9 DEF SwitchTo
  <2>. QED
      BY <1>5, <2>2, <2>3
<1>10. CASE AutoBackup
    BY <1>0, <1>2, <1>10, AutoBackupEffect DEF Moves, Actors
<1>11. ASSUME NEW a \in Actors,
              \/ Backup(a) \/ Record(a) \/ Rotate(a) \/ Delete(a) \/ DeletedAll(a) \/ Die(a)
              \/ a = "admin" /\ (CopyIncoming \/ Swap \/ Point)
       PROVE  TargetThere'
    BY <1>3, <1>11, TargetKept
<1>12. ASSUME NEW a \in Actors, WriteManifest(a) PROVE TargetThere'
  <2>1. Moves(a) /\ files' = files /\ desk[a] \in Desks
      BY <1>0, <1>12, WriteEffect DEF FilesSame
  <2>2. CASE desk[a].then = "idle"
    <3>1. Rests(a)
        BY <1>0, <1>12, <2>2 DEF WriteManifest, Rests
    <3>. QED
        BY <1>3, <2>1, <3>1
  <2>3. CASE desk[a].then = "switch"
    <3>1. a = "admin" /\ admin.at = "write"
        BY <1>12, <2>3 DEF WriteManifest, Shapes, Actors
    <3>2. admin.slot \in DOMAIN files
        BY <2>3, <3>1 DEF Shapes, TargetThere
    <3>3. PICK d \in SwitchOn(admin.slot) : desk' = [desk EXCEPT !["admin"] = d]
        BY <1>12, <2>3, <3>1 DEF WriteManifest
    <3>4. admin' \in SwitchOn(admin.slot)
        BY <1>0, <3>3
    <3>. QED
        BY <1>5, <2>1, <3>2, <3>4
  <2>4. CASE desk[a].then \notin {"idle", "switch"}
    <3>1. desk' = [desk EXCEPT ![a] = [desk[a] EXCEPT !.at = desk[a].then, !.read = Nothing,
                                                     !.held = Nothing]]
        BY <1>0, <1>12, <2>4 DEF WriteManifest
    <3>2. KeepsTarget(a)
        BY <1>0, <2>1, <3>1 DEF KeepsTarget, Goes, Desks
    <3>. QED
        BY <1>3, <2>1, <3>2
  <2>. QED
      BY <2>2, <2>3, <2>4
<1>. QED
    BY <1>0, <1>6, <1>7, <1>8, <1>9, <1>10, <1>11, <1>12 DEF DatasetsNext

\* A snapshot an admin named is there whenever the switch that was asked for it
\* comes to copy it: what the nightly rotation can take from under a switch is an
\* automatic backup, and nothing else.
TypedTargetIsThere ==
    admin.at = "copy" /\ admin.target \in ManualSlots => admin.target \in DOMAIN files

THEOREM TypedTargetStays == DatasetsSpec => []TypedTargetIsThere
<1>. USE DEF admin, nightly
<1>1. DatasetsInit => TargetThere
  <2>1. SUFFICES ASSUME DatasetsInit PROVE TargetThere
      OBVIOUS
  <2>2. desk["admin"] = AtRest
      BY <2>1 DEF DatasetsInit, Actors
  <2>. QED
      BY <2>2 DEF TargetThere, AtRest
<1>2. ManualInv /\ TargetThere /\ DatasetsNext => TargetThere'
    BY TargetStep DEF ManualInv
<1>3. TargetThere /\ UNCHANGED datasetVars => TargetThere'
    BY DEF datasetVars, TargetThere
<1>4. ManualInv /\ TargetThere => TypedTargetIsThere
    BY DEF ManualInv, Shapes, TargetThere, TypedTargetIsThere
<1>. QED
    BY <1>1, <1>2, <1>3, <1>4, ManualSound, PTL DEF DatasetsSpec

-----------------------------------------------------------------------------
(* What the manifests list, and what the files hold. *)

\* The backups an actor has still to record: two while a new slot, to which the
\* console switches at once, is not recorded itself.
ToRecord(d) == IF d.at = "record" /\ d.op = "new" THEN 2
          ELSE IF \/ d.at \in {"backup", "record"}
                  \/ d.at = "write" /\ d.then = "switch" THEN 1 ELSE 0
\* No more entries have been made than this.
Made == 2 * orders + nights - ToRecord(admin) - ToRecord(nightly)

Dated(entries, n) == \A e \in entries : e.created \in 1..n
Apart(entries) ==
    \A e, f \in entries : e.slug = f.slug \/ e.created = f.created => e = f
ListsRight ==
    /\ Dated(manifest.datasets, Made) /\ Apart(manifest.datasets)
    /\ \A a \in Actors :
          /\ Dated(desk[a].held.datasets, Made) /\ Apart(desk[a].held.datasets)
          /\ Dated(desk[a].doomed, Made)
Counts == orders \in 0..MaxOrders /\ nights \in 0..MaxNights /\ Made \in Nat

\* Nothing is in a file, on its way or excused that was not stored.
OnlyStored ==
    /\ stored <= MaxStored /\ live \subseteq 1..stored /\ excused \subseteq 1..stored
    /\ \A s \in DOMAIN files : files[s] \subseteq 1..stored
    /\ \A a \in Actors : desk[a].bag \subseteq 1..stored

ListsInv == Types /\ Shapes /\ Fresh /\ Counts /\ ListsRight /\ OnlyStored

\* With nothing listed later than n, _now() is n + 1 at the latest.
LEMMA NowInTime ==
    ASSUME NEW m \in Manifests, NEW n \in Nat, Dated(m.datasets, n)
    PROVE  Now(m) \in 1..(n + 1)
<1>. DEFINE S == {0} \cup {e.created : e \in m.datasets}
<1>1. \A e \in m.datasets : e.created \in Nat /\ e.created <= n
    BY DEF Dated
<1>2. S \subseteq Nat /\ S # {} /\ \A x \in S : x <= n
    BY <1>1
<1>3. Now(m) = 1 + Max(S)
    BY DEF Now
<1>. HIDE DEF S
<1>4. Max(S) \in S
    BY <1>2, Greatest
<1>5. PICK x \in S : x = Max(S)
    BY <1>4
<1>6. x \in Nat /\ x <= n /\ Now(m) = 1 + x
    BY <1>2, <1>3, <1>5
<1>. QED
    BY <1>6

LEMMA FewerRight ==
    ASSUME NEW E, NEW F, F \subseteq E, NEW n \in Int, NEW k \in Int, n <= k
    PROVE  (Dated(E, n) => Dated(F, k)) /\ (Apart(E) => Apart(F))
BY DEF Dated, Apart

\* The new entry has a slug and a time of its own.
LEMMA AppendedRight ==
    ASSUME NEW m \in Manifests, NEW n \in Nat, Bounded(m), NEW s \in Slots, NEW b \in BOOLEAN,
           Dated(m.datasets, n), Apart(m.datasets)
    PROVE  /\ Dated(Appended(m, s, b).datasets, n + 1) /\ Apart(Appended(m, s, b).datasets)
<1>. DEFINE D == Drop(m, s).datasets
            x == Entry(m, s, b)
<1>1. Appended(m, s, b).datasets = D \cup {x}
    BY AppendedFacts
<1>2. x.slug = s /\ \A e \in m.datasets : e.created < x.created
    BY AppendedFacts
<1>3. x.created \in 1..(n + 1)
    BY NowInTime DEF Entry
<1>4. D \subseteq m.datasets /\ \A e \in D : e.slug # s
    BY DropFacts
<1>. HIDE DEF D, x
<1>5. n + 1 \in Int /\ n <= n + 1
    OBVIOUS
<1>6. Dated(D, n + 1) /\ Apart(D)
    BY <1>4, <1>5, FewerRight
<1>7. Dated(D \cup {x}, n + 1)
    BY <1>3, <1>6 DEF Dated
<1>8. \A e \in D : e.slug # x.slug /\ e.created # x.created
  <2>1. \A e \in D : e.created \in Int
      BY <1>6 DEF Dated
  <2>. QED
      BY <1>2, <1>3, <1>4, <2>1
<1>9. Apart(D \cup {x})
    BY <1>6, <1>8 DEF Apart
<1>. QED
    BY <1>1, <1>7, <1>9

LEMMA ToRecordFacts ==
    /\ \A d : ToRecord(d) \in 0..2
    /\ \A d : d.at \notin {"backup", "record", "write"} => ToRecord(d) = 0
    /\ \A d : d.at = "backup" => ToRecord(d) = 1
    /\ \A d : d.at = "record" => ToRecord(d) = (IF d.op = "new" THEN 2 ELSE 1)
    /\ \A d : d.at = "write" => ToRecord(d) = (IF d.then = "switch" THEN 1 ELSE 0)
BY DEF ToRecord

\* A backup that is recorded makes one entry.
LEMMA RecordMakes ==
    ASSUME Types, Shapes, Fresh, Counts, NEW a \in Actors, Record(a)
    PROVE  Counts' /\ Made' = Made + 1
<1>. USE DEF admin, nightly
<1>1. orders' = orders /\ nights' = nights
    BY DEF Record, datasetCounts
<1>2. /\ Moves(a) /\ desk[a].at = "record" /\ desk'[a].at = "write"
      /\ desk[a].op \notin ByHand => desk'[a].then = "prune"
      /\ desk'[a].then = "switch" => desk[a].op = "new"
    BY RecordEffect
<1>3. desk[a].op = "new" => desk'[a].then = "switch"
    BY DEF Record, Load, Types, Desks
<1>4. ToRecord(desk'[a]) = ToRecord(desk[a]) - 1
    BY <1>2, <1>3, ToRecordFacts
<1>5. /\ ToRecord(admin) \in 0..2 /\ ToRecord(nightly) \in 0..2
      /\ \A b \in Actors \ {a} : ToRecord(desk'[b]) = ToRecord(desk[b])
    BY <1>2, ToRecordFacts DEF Moves
<1>6. ToRecord(desk'["admin"]) + ToRecord(desk'["nightly"])
          = ToRecord(desk["admin"]) + ToRecord(desk["nightly"]) - 1
    BY <1>4, <1>5 DEF Actors
<1>7. ToRecord(desk'["admin"]) \in 0..2 /\ ToRecord(desk'["nightly"]) \in 0..2
    BY ToRecordFacts
<1>8. orders \in Nat /\ nights \in Nat
    BY DEF Counts
<1>9. Made' = Made + 1
    BY <1>1, <1>5, <1>6, <1>7, <1>8 DEF Made
<1>. QED
    BY <1>1, <1>9 DEF Counts

\* An order may make two entries, a night one; no other step makes more likely.
LEMMA MadeGrows ==
    ASSUME Types, Shapes, Fresh, Counts, DatasetsNext
    PROVE  Counts' /\ Made <= Made'
<1>. USE DEF admin, nightly
<1>0. /\ orders \in Nat /\ nights \in Nat /\ MaxOrders \in Nat /\ MaxNights \in Nat
      /\ "admin" \in Actors /\ "nightly" \in Actors
    BY DatasetsAssumption DEF Counts, Actors
<1>1. /\ ToRecord(admin) \in 0..2 /\ ToRecord(nightly) \in 0..2
      /\ ToRecord(admin)' \in 0..2 /\ ToRecord(nightly)' \in 0..2
    BY ToRecordFacts
\* What is due falls when nothing starts.
<1>2. ASSUME NEW a \in Actors, Moves(a), UNCHANGED datasetCounts,
             ToRecord(desk'[a]) <= ToRecord(desk[a])
      PROVE  Counts' /\ Made <= Made'
  <2>1. orders' = orders /\ nights' = nights
      BY <1>2 DEF datasetCounts
  <2>2. ToRecord(admin)' <= ToRecord(admin) /\ ToRecord(nightly)' <= ToRecord(nightly)
      BY <1>1, <1>2 DEF Moves, Actors
  <2>3. Made \in Nat /\ Made' \in Int /\ Made <= Made'
      BY <1>0, <1>1, <2>1, <2>2 DEF Counts, Made
  <2>. QED
      BY <2>1, <2>3 DEF Counts
<1>3. ASSUME NEW a \in Actors, Moves(a), UNCHANGED datasetCounts,
             ToRecord(desk'[a]) = 0
      PROVE  Counts' /\ Made <= Made'
  <2>1. ToRecord(desk[a]) \in 0..2
      BY ToRecordFacts
  <2>. QED
      BY <1>2, <1>3, <2>1
<1>4. ASSUME NEW a \in Actors, Moves(a), UNCHANGED datasetCounts, Rests(a)
      PROVE  Counts' /\ Made <= Made'
    BY <1>3, <1>4, AtRestType, ToRecordFacts DEF Rests
\* What an order starts makes two entries at the most.
<1>5. ASSUME Moves("admin"), admin.at = "idle", orders' = orders + 1, orders < MaxOrders,
             nights' = nights
      PROVE  Counts' /\ Made <= Made'
  <2>1. ToRecord(admin) = 0 /\ ToRecord(nightly)' = ToRecord(nightly)
      BY <1>5, ToRecordFacts DEF Moves, Actors
  <2>2. Made \in Nat /\ Made' \in Int /\ Made <= Made'
      BY <1>0, <1>1, <1>5, <2>1 DEF Counts, Made
  <2>. QED
      BY <1>0, <1>5, <2>2 DEF Counts
<1>6. CASE Ride
  <2>1. desk' = desk /\ UNCHANGED datasetCounts
      BY <1>6, RideEffect DEF Ride
  <2>. QED
      BY <1>0, <1>2, <2>1, ToRecordFacts DEF Moves
<1>7. CASE SaveSnapshot
    BY <1>5, <1>7, SaveEffect DEF SaveSnapshot, Order
<1>8. CASE CreateEmpty \/ ImportFile
    BY <1>5, <1>8, AddEffect DEF CreateEmpty, ImportFile, AddSlot, Order
<1>9. CASE Rename
    BY <1>0, <1>3, <1>9, RenameEffect, ToRecordFacts DEF Rename
<1>10. CASE DeleteSnapshot
    BY <1>5, <1>10, DeleteSnapshotEffect DEF DeleteSnapshot, Order
<1>11. CASE PruneAutos
    BY <1>0, <1>3, <1>11, PruneAutosEffect, ToRecordFacts DEF PruneAutos
<1>12. CASE SwitchTo
    BY <1>5, <1>12, SwitchToEffect DEF SwitchTo, Order
<1>13. CASE AutoBackup
  <2>1. /\ Moves("nightly") /\ nightly.at = "idle" /\ nights' = nights + 1 /\ nights < MaxNights
        /\ orders' = orders /\ nightly'.at \in {"prune", "backup"}
      BY <1>13, AutoBackupEffect DEF AutoBackup
  <2>2. ToRecord(nightly) = 0 /\ ToRecord(nightly)' <= 1 /\ ToRecord(admin)' = ToRecord(admin)
      BY <2>1, ToRecordFacts DEF Moves, Actors
  <2>3. Made \in Nat /\ Made' \in Int /\ Made <= Made'
      BY <1>0, <1>1, <2>1, <2>2 DEF Counts, Made
  <2>. QED
      BY <1>0, <2>1, <2>3 DEF Counts
<1>14. ASSUME NEW a \in Actors, Backup(a)
       PROVE  Counts' /\ Made <= Made'
  <2>1. Moves(a) /\ UNCHANGED datasetCounts /\ desk[a].at = "backup"
      BY <1>14, BackupEffect DEF Backup
  <2>2. CASE Rests(a)
      BY <1>4, <2>1, <2>2
  <2>3. CASE desk'[a].at = "record" /\ Goes(a)
    <3>1. desk[a].op # "new"
        BY <2>1 DEF Shapes, Actors
    <3>2. ToRecord(desk'[a]) = 1 /\ ToRecord(desk[a]) = 1
        BY <2>1, <2>3, <3>1, ToRecordFacts DEF Goes
    <3>. QED
        BY <1>2, <2>1, <3>2
  <2>. QED
      BY <1>14, <2>2, <2>3, BackupEffect
<1>15. ASSUME NEW a \in Actors, Record(a)
       PROVE  Counts' /\ Made <= Made'
  <2>1. Counts' /\ Made' = Made + 1 /\ Made \in Nat
      BY <1>15, RecordMakes DEF Counts
  <2>. QED
      BY <2>1
<1>16. ASSUME NEW a \in Actors, WriteManifest(a)
       PROVE  Counts' /\ Made <= Made'
  <2>1. Moves(a) /\ UNCHANGED datasetCounts /\ desk[a].at = "write"
      BY <1>16, WriteEffect DEF WriteManifest
  <2>2. CASE Rests(a)
      BY <1>4, <2>1, <2>2
  <2>3. CASE a = "admin" /\ desk[a].then = "switch" /\ SwitchBegins
    <3>1. ToRecord(desk[a]) = 1 /\ ToRecord(desk'[a]) \in {0, 1}
        BY <2>1, <2>3, ToRecordFacts DEF SwitchBegins
    <3>. QED
        BY <1>2, <2>1, <3>1
  <2>4. CASE desk'[a].at \in {"prune", "delete"}
      BY <1>3, <2>1, <2>4, ToRecordFacts
  <2>. QED
      BY <1>16, <2>2, <2>3, <2>4, WriteEffect
<1>17. ASSUME NEW a \in Actors, Rotate(a) \/ Delete(a) \/ DeletedAll(a) \/ Die(a)
       PROVE  Counts' /\ Made <= Made'
  <2>1. UNCHANGED datasetCounts
      BY <1>17 DEF Rotate, Delete, DeletedAll, Die
  <2>2. /\ Moves(a)
        /\ \/ Rests(a) \/ desk'[a].at \in {"delete", "copy"}
           \/ desk'[a].at = "write" /\ desk'[a].then = "delete"
      BY <1>17, RotateEffect, DeleteEffect, DeletedAllEffect, DieEffect
  <2>. QED
      BY <1>3, <1>4, <2>1, <2>2, ToRecordFacts
<1>18. CASE CopyIncoming \/ Swap \/ Point
  <2>1. UNCHANGED datasetCounts
      BY <1>18 DEF CopyIncoming, Swap, Point
  <2>2. /\ Moves("admin")
        /\ \/ Rests("admin") \/ desk'["admin"].at \in {"swap", "point"}
           \/ desk'["admin"].at = "write" /\ desk'["admin"].then = "idle"
      BY <1>18, CopyEffect, SwapEffect, PointEffect
  <2>. QED
      BY <1>0, <1>3, <1>4, <2>1, <2>2, ToRecordFacts
<1>. QED
    BY <1>6, <1>7, <1>8, <1>9, <1>10, <1>11, <1>12, <1>13, <1>14, <1>15, <1>16, <1>17, <1>18
       DEF DatasetsNext

Right(entries, n) == Dated(entries, n) /\ Apart(entries)

\* A step of one actor keeps what the manifest and the other's hands list.
LEMMA ListsKept ==
    ASSUME ListsRight, Made \in Nat, Made' \in Nat, Made <= Made', NEW a \in Actors, Moves(a),
           Right(manifest'.datasets, Made'), Right(desk'[a].held.datasets, Made'),
           Dated(desk'[a].doomed, Made')
    PROVE  ListsRight'
<1>0. \A E : /\ Right(E, Made) => Right(E, Made')
             /\ Dated(E, Made) => Dated(E, Made')
  <2>1. Made \in Int /\ Made' \in Int
      OBVIOUS
  <2>2. \A E : E \subseteq E
      OBVIOUS
  <2>. QED
      BY <2>1, <2>2, FewerRight DEF Right
<1>1. ASSUME NEW b \in Actors
      PROVE  /\ Right(desk'[b].held.datasets, Made')
             /\ Dated(desk'[b].doomed, Made')
  <2>1. CASE b = a
      BY <2>1
  <2>2. CASE b # a
    <3>1. desk'[b] = desk[b] /\ Right(desk[b].held.datasets, Made) /\ Dated(desk[b].doomed, Made)
        BY <2>2 DEF Moves, ListsRight, Right
    <3>. QED
        BY <1>0, <3>1
  <2>. QED
      BY <2>1, <2>2
<1>. QED
    BY <1>1 DEF ListsRight, Right

LEMMA NoneRight == \A n \in Nat : Right({}, n) /\ Dated({}, n)
BY DEF Right, Dated, Apart

\* Whoever loads, changes and saves the manifest, it lists no slug twice.
LEMMA ListsStep ==
    ASSUME Types, Shapes, Fresh, Counts, ListsRight, DatasetsNext
    PROVE  ListsRight'
<1>. USE DEF admin, nightly
<1>1. Made \in Nat /\ Made' \in Nat /\ Made <= Made' /\ Made \in Int /\ Made' \in Int
    BY MadeGrows DEF Counts
<1>2. \A E : /\ Right(E, Made) => Right(E, Made')
             /\ \A F : F \subseteq E /\ Right(E, Made) => Right(F, Made')
             /\ \A F : F \subseteq E /\ Dated(E, Made) => Dated(F, Made')
    BY <1>1, FewerRight DEF Right
<1>3. /\ Right(manifest.datasets, Made)
      /\ \A a \in Actors : Right(desk[a].held.datasets, Made) /\ Dated(desk[a].doomed, Made)
    BY DEF ListsRight, Right
<1>4. /\ Right({}, Made') /\ Dated({}, Made') /\ Nothing.datasets = {}
      /\ "admin" \in Actors /\ "nightly" \in Actors
    BY <1>1, NoneRight, NothingFacts DEF Actors
\* The manifest stands and the desk has less, or what the manifest has.
<1>5. ASSUME NEW a \in Actors, Moves(a), manifest' = manifest,
             \/ desk'[a].held.datasets \subseteq manifest.datasets
             \/ desk'[a].held = desk[a].held,
             desk'[a].doomed \subseteq manifest.datasets \/ desk'[a].doomed \subseteq desk[a].doomed
      PROVE  ListsRight'
  <2>1. Right(desk'[a].held.datasets, Made')
      BY <1>2, <1>3, <1>5
  <2>2. Dated(desk'[a].doomed, Made')
    <3>1. Dated(manifest.datasets, Made) /\ Dated(desk[a].doomed, Made)
        BY <1>3 DEF Right
    <3>. QED
        BY <1>2, <1>5, <3>1
  <2>. QED
      BY <1>1, <1>2, <1>3, <1>5, <2>1, <2>2, ListsKept
<1>6. ASSUME NEW a \in Actors, Moves(a), manifest' = manifest, Emptied(a) \/ Rests(a)
      PROVE  ListsRight'
  <2>1. desk'[a].held = Nothing /\ desk'[a].doomed = {}
      BY <1>6, AtRestType DEF Emptied, Rests
  <2>. QED
      BY <1>4, <1>5, <1>6, <2>1
<1>7. CASE Ride
  <2>1. desk' = desk /\ manifest' = manifest
      BY <1>7, RideEffect
  <2>. QED
      BY <1>4, <1>5, <2>1 DEF Moves
<1>8. CASE SaveSnapshot \/ CreateEmpty \/ ImportFile \/ SwitchTo
    BY <1>4, <1>6, <1>8, SaveEffect, AddEffect, SwitchToEffect DEF Undisturbed, SwitchBegins
<1>9. CASE AutoBackup
    BY <1>4, <1>6, <1>9, AutoBackupEffect DEF Undisturbed
<1>10. CASE Rename \/ DeleteSnapshot \/ PruneAutos
  <2>1. /\ Moves("admin") /\ manifest' = manifest
        /\ desk'["admin"].held \in {Nothing, manifest}
        /\ desk'["admin"].doomed \subseteq manifest.datasets
      BY <1>10, RenameEffect, DeleteSnapshotEffect, PruneAutosEffect DEF Undisturbed
  <2>. QED
      BY <1>4, <1>5, <2>1
<1>11. ASSUME NEW a \in Actors, Backup(a) \/ DeletedAll(a)
       PROVE  ListsRight'
  <2>1. /\ Moves(a) /\ manifest' = manifest
        /\ \/ Rests(a)
           \/ desk'[a].held = desk[a].held /\ desk'[a].doomed = desk[a].doomed
      BY <1>11, BackupEffect, DeletedAllEffect DEF Undisturbed, RestSame, KeepsHeld
  <2>. QED
      BY <1>5, <1>6, <2>1
<1>12. ASSUME NEW a \in Actors, Record(a)
       PROVE  ListsRight'
  <2>. DEFINE manual == desk[a].op \in ByHand
  <2>1. /\ Moves(a) /\ manifest' = manifest /\ desk[a].slot \in Slots
        /\ desk'[a].doomed = desk[a].doomed
        /\ desk'[a].held = Appended(manifest, desk[a].slot, manual)
      BY <1>12, RecordEffect DEF Undisturbed
  <2>2. Made' = Made + 1
      BY <1>12, RecordMakes
  <2>3. manual \in BOOLEAN /\ manifest \in Manifests /\ Bounded(manifest)
      BY DEF Types
  <2>. HIDE DEF manual
  <2>4. Right(desk'[a].held.datasets, Made')
      BY <1>1, <1>3, <2>1, <2>2, <2>3, AppendedRight DEF Right
  <2>5. Dated(desk'[a].doomed, Made')
      BY <1>2, <1>3, <2>1
  <2>. QED
      BY <1>1, <1>2, <1>3, <2>1, <2>4, <2>5, ListsKept
<1>13. ASSUME NEW a \in Actors, WriteManifest(a)
       PROVE  ListsRight'
  <2>1. /\ Moves(a) /\ manifest' = desk[a].held /\ desk'[a].held = Nothing
        /\ desk'[a].doomed \subseteq desk[a].doomed
      BY <1>13, WriteEffect, AtRestType DEF Rests, SwitchBegins, Emptied
  <2>2. Right(manifest'.datasets, Made') /\ Dated(desk'[a].doomed, Made')
      BY <1>2, <1>3, <2>1
  <2>. QED
      BY <1>1, <1>4, <2>1, <2>2, ListsKept
<1>14. ASSUME NEW a \in Actors, Rotate(a)
       PROVE  ListsRight'
  <2>1. /\ Moves(a) /\ manifest' = manifest /\ desk'[a].held = desk[a].held
        /\ desk'[a].doomed \subseteq manifest.datasets
      BY <1>14, RotateEffect, VictimsFacts DEF Undisturbed, KeepsHeld, Types
  <2>. QED
      BY <1>5, <2>1
<1>15. ASSUME NEW a \in Actors, Delete(a)
       PROVE  ListsRight'
  <2>1. Moves(a) /\ manifest' = manifest
      BY <1>15, DeleteEffect DEF RestSame
  <2>2. CASE Rests(a)
      BY <1>6, <2>1, <2>2
  <2>3. ASSUME NEW e \in desk[a].doomed, desk'[a].doomed = desk[a].doomed \ {e},
               desk'[a].held = Drop(manifest, e.slug)
        PROVE  ListsRight'
    <3>1. desk'[a].held.datasets \subseteq manifest.datasets
        BY <2>3, DropFacts DEF Types
    <3>. QED
        BY <1>5, <2>1, <2>3, <3>1
  <2>. QED
      BY <1>15, <2>2, <2>3, DeleteEffect
<1>16. ASSUME NEW a \in Actors, Die(a)
       PROVE  ListsRight'
    BY <1>6, <1>16, DieEffect DEF Undisturbed
<1>17. CASE CopyIncoming \/ Swap \/ Point
  <2>1. /\ Moves("admin") /\ manifest' = manifest
        /\ \/ Rests("admin")
           \/ /\ \/ desk'["admin"].held = desk["admin"].held
                 \/ desk'["admin"].held.datasets = manifest.datasets
              /\ desk'["admin"].doomed = desk["admin"].doomed
      BY <1>17, CopyEffect, SwapEffect, PointEffect DEF Undisturbed, KeepsHeld
  <2>. QED
      BY <1>4, <1>5, <1>6, <2>1
<1>. QED
    BY <1>7, <1>8, <1>9, <1>10, <1>11, <1>12, <1>13, <1>14, <1>15, <1>16, <1>17
       DEF DatasetsNext

-----------------------------------------------------------------------------
\* The files and what is excused hold no more than was stored before the step.
StillStored ==
    excused' \subseteq 1..stored /\ \A x \in DOMAIN files' : files'[x] \subseteq 1..stored

\* Every copy is of the live file, of a file or of a bag.
LEMMA ExcusedStored ==
    ASSUME OnlyStored, NEW s, excused' = excused \cup LostBy(s)
    PROVE  excused' \subseteq 1..stored
BY DEF OnlyStored, LostBy

LEMMA WrittenStored ==
    ASSUME OnlyStored, NEW s, NEW rides \in SUBSET (1..stored), Put(s, rides)
    PROVE  StillStored
<1>1. excused' \subseteq 1..stored
    BY ExcusedStored DEF Put
<1>. QED
    BY <1>1 DEF OnlyStored, Put, StillStored

LEMMA RemovedStored ==
    ASSUME OnlyStored, NEW s, Removed(s)
    PROVE  StillStored
<1>1. excused' \subseteq 1..stored
    BY ExcusedStored DEF Removed
<1>. QED
    BY <1>1 DEF OnlyStored, Removed, StillStored

\* What is copied beside the live file is what the snapshot has.
LEMMA BagsStored ==
    ASSUME Types, OnlyStored, DatasetsNext, NEW a \in Actors
    PROVE  desk'[a].bag \subseteq 1..stored
<1>. USE DEF admin, nightly
<1>0. desk \in [Actors -> Desks] /\ (desk[a].bag \subseteq 1..stored) /\ AtRest.bag = {}
    BY AtRestType DEF Types, OnlyStored
<1>1. CASE UNCHANGED desk
    BY <1>0, <1>1
<1>2. ASSUME NEW b \in Actors, NEW d, desk' = [desk EXCEPT ![b] = d],
             d.bag \in {{}, desk[b].bag} \cup {files[s] : s \in DOMAIN files}
      PROVE  desk'[a].bag \subseteq 1..stored
  <2>1. d.bag \subseteq 1..stored
      BY <1>2 DEF OnlyStored
  <2>2. desk'[a] = IF a = b THEN d ELSE desk[a]
      BY <1>0, <1>2
  <2>. QED
      BY <1>0, <2>1, <2>2
<1>3. CASE Ride
    BY <1>1, <1>3 DEF Ride
<1>4. CASE SaveSnapshot
  <2>1. PICK s \in ManualSlots :
            desk' = [desk EXCEPT !["admin"] = [AtRest EXCEPT !.at = "backup", !.op = "save", !.slot = s]]
      BY <1>4 DEF SaveSnapshot, Order, Starts
  <2>2. [AtRest EXCEPT !.at = "backup", !.op = "save", !.slot = s].bag = {}
      BY DEF AtRest
  <2>. QED
      BY <1>2, <2>1, <2>2 DEF Actors
<1>5. ASSUME NEW op, NEW rides, AddSlot(op, rides)
      PROVE  desk'[a].bag \subseteq 1..stored
  <2>1. PICK s \in ManualSlots :
            desk' = [desk EXCEPT !["admin"] = [AtRest EXCEPT !.at = "record", !.op = op, !.slot = s]]
      BY <1>5 DEF AddSlot, Order, Starts
  <2>2. [AtRest EXCEPT !.at = "record", !.op = op, !.slot = s].bag = {}
      BY DEF AtRest
  <2>. QED
      BY <1>2, <2>1, <2>2 DEF Actors
<1>6. CASE Rename
  <2>1. desk' = [desk EXCEPT !["admin"] = Load([AtRest EXCEPT !.op = "rename"], manifest)]
      BY <1>6 DEF Rename, Starts
  <2>2. Load([AtRest EXCEPT !.op = "rename"], manifest).bag = {}
      BY DEF AtRest, Load
  <2>. QED
      BY <1>2, <2>1, <2>2 DEF Actors
<1>7. CASE DeleteSnapshot \/ PruneAutos
  <2>1. PICK op, doomed :
            desk' = [desk EXCEPT !["admin"] =
                        [AtRest EXCEPT !.at = "delete", !.op = op, !.doomed = doomed]]
      BY <1>7 DEF DeleteSnapshot, PruneAutos, Order, Starts
  <2>2. [AtRest EXCEPT !.at = "delete", !.op = op, !.doomed = doomed].bag = {}
      BY DEF AtRest
  <2>. QED
      BY <1>2, <2>1, <2>2 DEF Actors
<1>8. \A s : \A d \in SwitchOn(s) : d.bag = {}
    BY DEF SwitchOn, AtRest
<1>9. CASE SwitchTo
  <2>1. PICK s : \E d \in SwitchOn(s) : desk' = [desk EXCEPT !["admin"] = d]
      BY <1>9 DEF SwitchTo, Order, Starts
  <2>. QED
      BY <1>2, <1>8, <2>1 DEF Actors
<1>10. CASE AutoBackup
  <2>1. PICK d : /\ desk' = [desk EXCEPT !["nightly"] = d]
                 /\ \/ d = [AtRest EXCEPT !.at = "prune", !.op = "auto"]
                    \/ \E s : d = [AtRest EXCEPT !.at = "backup", !.op = "auto", !.slot = s]
      BY <1>10 DEF AutoBackup, Starts
  <2>2. d.bag = {}
      BY <2>1 DEF AtRest
  <2>. QED
      BY <1>2, <2>1, <2>2 DEF Actors
<1>11. ASSUME NEW b \in Actors, desk' = [desk EXCEPT ![b] = AtRest]
       PROVE  desk'[a].bag \subseteq 1..stored
    BY <1>0, <1>2, <1>11
<1>12. ASSUME NEW b \in Actors, Backup(b)
       PROVE  desk'[a].bag \subseteq 1..stored
  <2>1. CASE desk' = [desk EXCEPT ![b] = AtRest]
      BY <1>11, <2>1
  <2>2. CASE desk' = [desk EXCEPT ![b].at = "record", ![b].risk = desk[b].op = "switch"]
    <3>1. desk' = [desk EXCEPT ![b] = [desk[b] EXCEPT !.at = "record", !.risk = desk[b].op = "switch"]]
        BY <1>0, <2>2
    <3>2. [desk[b] EXCEPT !.at = "record", !.risk = desk[b].op = "switch"].bag = desk[b].bag
        BY <1>0 DEF Desks
    <3>. QED
        BY <1>2, <3>1, <3>2
  <2>. QED
      BY <1>12, <2>1, <2>2 DEF Backup
<1>13. ASSUME NEW b \in Actors, Record(b)
       PROVE  desk'[a].bag \subseteq 1..stored
  <2>1. PICK m, next : desk' = [desk EXCEPT ![b] = [Load(desk[b], m) EXCEPT !.then = next]]
      BY <1>13 DEF Record
  <2>2. [Load(desk[b], m) EXCEPT !.then = next].bag = desk[b].bag
      BY <1>0 DEF Load, Desks
  <2>. QED
      BY <1>2, <2>1, <2>2
<1>14. ASSUME NEW b \in Actors, WriteManifest(b)
       PROVE  desk'[a].bag \subseteq 1..stored
  <2>1. CASE desk' = [desk EXCEPT ![b] = AtRest]
      BY <1>11, <2>1
  <2>2. ASSUME NEW d \in SwitchOn(desk[b].slot), desk' = [desk EXCEPT ![b] = d]
        PROVE  desk'[a].bag \subseteq 1..stored
      BY <1>2, <1>8, <2>2
  <2>3. CASE desk' = [desk EXCEPT ![b].at = desk[b].then, ![b].read = Nothing, ![b].held = Nothing]
    <3>1. desk' = [desk EXCEPT ![b] =
                       [desk[b] EXCEPT !.at = desk[b].then, !.read = Nothing, !.held = Nothing]]
        BY <1>0, <2>3
    <3>2. [desk[b] EXCEPT !.at = desk[b].then, !.read = Nothing, !.held = Nothing].bag = desk[b].bag
        BY <1>0 DEF Desks
    <3>. QED
        BY <1>2, <3>1, <3>2
  <2>. QED
      BY <1>14, <2>1, <2>2, <2>3 DEF WriteManifest
<1>15. ASSUME NEW b \in Actors, Rotate(b)
       PROVE  desk'[a].bag \subseteq 1..stored
  <2>1. PICK v : desk' = [desk EXCEPT ![b].at = "delete", ![b].doomed = v]
      BY <1>15 DEF Rotate
  <2>2. desk' = [desk EXCEPT ![b] = [desk[b] EXCEPT !.at = "delete", !.doomed = v]]
      BY <1>0, <2>1
  <2>3. [desk[b] EXCEPT !.at = "delete", !.doomed = v].bag = desk[b].bag
      BY <1>0 DEF Desks
  <2>. QED
      BY <1>2, <2>2, <2>3
<1>16. ASSUME NEW b \in Actors, Delete(b)
       PROVE  desk'[a].bag \subseteq 1..stored
  <2>1. CASE desk' = [desk EXCEPT ![b] = AtRest]
      BY <1>11, <2>1
  <2>2. ASSUME NEW m, NEW doomed,
               desk' = [desk EXCEPT ![b] = [Load(desk[b], m) EXCEPT !.doomed = doomed, !.then = "delete"]]
        PROVE  desk'[a].bag \subseteq 1..stored
    <3>1. [Load(desk[b], m) EXCEPT !.doomed = doomed, !.then = "delete"].bag = desk[b].bag
        BY <1>0 DEF Load, Desks
    <3>. QED
        BY <1>2, <2>2, <3>1
  <2>. QED
      BY <1>16, <2>1, <2>2 DEF Delete
<1>17. ASSUME NEW b \in Actors, DeletedAll(b)
       PROVE  desk'[a].bag \subseteq 1..stored
  <2>1. PICK d : desk' = [desk EXCEPT ![b] = d] /\ d \in {AtRest, [desk[b] EXCEPT !.at = "copy"]}
      BY <1>0, <1>17 DEF DeletedAll
  <2>2. [desk[b] EXCEPT !.at = "copy"].bag = desk[b].bag
      BY <1>0 DEF Desks
  <2>. QED
      BY <1>0, <1>2, <2>1, <2>2
<1>18. ASSUME NEW b \in Actors, Die(b)
       PROVE  desk'[a].bag \subseteq 1..stored
    BY <1>11, <1>18 DEF Die
<1>19. CASE CopyIncoming
  <2>1. CASE desk' = [desk EXCEPT !["admin"] = AtRest]
      BY <1>11, <2>1 DEF Actors
  <2>2. ASSUME NEW s \in DOMAIN files,
               desk' = [desk EXCEPT !["admin"] = [desk["admin"] EXCEPT !.at = "swap", !.bag = files[s]]]
        PROVE  desk'[a].bag \subseteq 1..stored
    <3>1. [desk["admin"] EXCEPT !.at = "swap", !.bag = files[s]].bag = files[s]
        BY <1>0 DEF Desks, Actors
    <3>. QED
        BY <1>2, <2>2, <3>1 DEF Actors
  <2>. QED
      BY <1>0, <1>19, <2>1, <2>2 DEF CopyIncoming, Actors
<1>20. CASE Swap
  <2>1. desk' = [desk EXCEPT !["admin"] = [desk["admin"] EXCEPT !.at = "point"]]
      BY <1>0, <1>20 DEF Swap, Actors
  <2>2. [desk["admin"] EXCEPT !.at = "point"].bag = desk["admin"].bag
      BY <1>0 DEF Desks, Actors
  <2>. QED
      BY <1>2, <2>1, <2>2 DEF Actors
<1>21. CASE Point
  <2>1. PICK m : desk' = [desk EXCEPT !["admin"] = [Load(desk["admin"], m) EXCEPT !.then = "idle"]]
      BY <1>21 DEF Point
  <2>2. [Load(desk["admin"], m) EXCEPT !.then = "idle"].bag = desk["admin"].bag
      BY <1>0 DEF Load, Desks, Actors
  <2>. QED
      BY <1>2, <2>1, <2>2 DEF Actors
<1>. QED
    BY <1>3, <1>4, <1>5, <1>6, <1>7, <1>9, <1>10, <1>12, <1>13, <1>14, <1>15, <1>16, <1>17,
       <1>18, <1>19, <1>20, <1>21 DEF DatasetsNext, CreateEmpty, ImportFile

\* No step brings a ride into a file that was not stored.
LEMMA StoredStep ==
    ASSUME Types, Shapes, Fresh, OnlyStored, DatasetsNext
    PROVE  OnlyStored'
<1>1. CASE Ride
  <2>1. /\ stored' = stored + 1 /\ stored' <= MaxStored /\ files' = files /\ desk' = desk
        /\ live' \subseteq live \cup {stored'} /\ excused' \subseteq excused \cup {stored'}
      BY <1>1, DatasetsAssumption DEF Ride, Types
  <2>2. stored \in Nat /\ (1..stored) \cup {stored'} \subseteq 1..stored'
      BY <2>1 DEF Types
  <2>. QED
      BY <2>1, <2>2 DEF OnlyStored
<1>2. CASE ~Ride
  <2>1. stored' = stored
      BY <1>2, SaveEffect, AddEffect, RenameEffect, DeleteSnapshotEffect, PruneAutosEffect,
         SwitchToEffect, AutoBackupEffect, BackupEffect, RecordEffect, WriteEffect, RotateEffect,
         DeleteEffect, DeletedAllEffect, CopyEffect, SwapEffect, PointEffect, DieEffect
         DEF DatasetsNext, Undisturbed, RestSame
  <2>2. live' \subseteq 1..stored
    <3>1. CASE Swap
        BY <3>1 DEF Swap, OnlyStored, Actors
    <3>2. CASE ~Swap
      <4>1. live' = live
          BY <1>2, <3>2, SaveEffect, AddEffect, RenameEffect, DeleteSnapshotEffect,
             PruneAutosEffect, SwitchToEffect, AutoBackupEffect, BackupEffect, RecordEffect,
             WriteEffect, RotateEffect, DeleteEffect, DeletedAllEffect, CopyEffect, PointEffect,
             DieEffect DEF DatasetsNext, Undisturbed, RestSame
      <4>. QED
          BY <4>1 DEF OnlyStored
    <3>. QED
        BY <3>1, <3>2
  <2>3. StillStored
    <3>1. CASE files' = files /\ excused' = excused
        BY <3>1 DEF OnlyStored, StillStored
    <3>2. ASSUME NEW op, NEW rides \in SUBSET (1..stored), AddSlot(op, rides)
          PROVE  StillStored
        BY <3>2, WrittenStored DEF AddSlot
    <3>3. ASSUME CreateEmpty \/ ImportFile
          PROVE  StillStored
      <4>1. \E op, rides : rides \in SUBSET (1..stored) /\ AddSlot(op, rides)
          BY <3>3 DEF CreateEmpty, ImportFile, OnlyStored
      <4>. QED
          BY <3>2, <4>1
    <3>4. ASSUME NEW a \in Actors, Backup(a)
          PROVE  StillStored
      <4>1. live \in SUBSET (1..stored)
          BY DEF OnlyStored
      <4>. QED
          BY <3>1, <3>4, <4>1, WrittenStored DEF Backup
    <3>5. ASSUME NEW a \in Actors, Delete(a)
          PROVE  StillStored
        BY <3>1, <3>5, RemovedStored DEF Delete
    <3>6. \/ files' = files /\ excused' = excused
          \/ CreateEmpty \/ ImportFile \/ \E a \in Actors : Backup(a) \/ Delete(a)
        BY <1>2, SaveEffect, RenameEffect, DeleteSnapshotEffect, PruneAutosEffect,
           SwitchToEffect, AutoBackupEffect, RecordEffect, WriteEffect, RotateEffect,
           DeletedAllEffect, CopyEffect, SwapEffect, PointEffect, DieEffect
           DEF DatasetsNext, Undisturbed, FilesSame
    <3>. QED
        BY <3>1, <3>3, <3>4, <3>5, <3>6
  <2>4. \A a \in Actors : desk'[a].bag \subseteq 1..stored
      BY BagsStored
  <2>. QED
      BY <2>1, <2>2, <2>3, <2>4 DEF OnlyStored, StillStored
<1>. QED
    BY <1>1, <1>2

\* What the manifests list and the files hold, whoever saves and dies.
THEOREM ListsSound == DatasetsSpec => []ListsInv
<1>1. DatasetsInit => ListsInv
  <2>1. SUFFICES ASSUME DatasetsInit PROVE ListsInv
      OBVIOUS
  <2>2. \A a \in Actors : desk[a] = AtRest
      BY <2>1 DEF DatasetsInit
  <2>3. /\ live = {} /\ excused = {} /\ stored = 0 /\ DOMAIN files = {} /\ manifest = Nothing
        /\ orders = 0 /\ nights = 0
      BY <2>1 DEF DatasetsInit
  <2>4. Types /\ Shapes /\ Fresh
      BY <2>1, InitTypes
  <2>5. ToRecord(admin) = 0 /\ ToRecord(nightly) = 0
      BY <2>2, AtRestType, ToRecordFacts DEF Actors, admin, nightly
  <2>6. Counts /\ Made = 0
      BY <2>3, <2>5, DatasetsAssumption DEF Counts, Made
  <2>7. ListsRight
      BY <2>2, <2>3, AtRestType, NothingFacts DEF ListsRight, Dated, Apart
  <2>8. OnlyStored
      BY <2>2, <2>3, AtRestType, DatasetsAssumption DEF OnlyStored
  <2>. QED
      BY <2>4, <2>6, <2>7, <2>8 DEF ListsInv
<1>2. ListsInv /\ DatasetsNext => ListsInv'
    BY TypesStep, ShapesStep, FreshStep, MadeGrows, ListsStep, StoredStep DEF ListsInv
<1>3. ListsInv /\ UNCHANGED datasetVars => ListsInv'
  <2>1. SUFFICES ASSUME ListsInv, UNCHANGED datasetVars PROVE ListsInv'
      OBVIOUS
  <2>2. /\ files' = files /\ manifest' = manifest /\ desk' = desk /\ live' = live
        /\ stored' = stored /\ excused' = excused /\ orders' = orders /\ nights' = nights
      BY <2>1 DEF datasetVars, datasetHistory, datasetCounts
  <2>3. Types'
      BY <2>1, TypesStutter DEF ListsInv
  <2>4. Shapes' /\ Fresh'
      BY <2>1, <2>2 DEF ListsInv, Shapes, Fresh, admin, nightly
  <2>5. Made' = Made
      BY <2>2 DEF Made, admin, nightly
  <2>6. Counts' /\ ListsRight' /\ OnlyStored'
      BY <2>1, <2>2, <2>5 DEF ListsInv, Counts, ListsRight, OnlyStored
  <2>. QED
      BY <2>3, <2>4, <2>6 DEF ListsInv
<1>. QED
    BY <1>1, <1>2, <1>3, PTL DEF DatasetsSpec

\* There are two entries for each order and one for each night, at the most.
LEMMA ListsTyped ==
    ASSUME ListsInv
    PROVE  DatasetsTypeOK
<1>1. /\ Types /\ Counts /\ ListsRight /\ OnlyStored
      /\ {MaxStored, MaxOrders, MaxNights} \subseteq Nat
    BY DatasetsAssumption DEF ListsInv
<1>2. stored \in 0..MaxStored /\ (1..stored) \subseteq 1..MaxStored
    BY <1>1 DEF Types, OnlyStored
<1>3. Made \in Nat /\ Made <= 2 * MaxOrders + MaxNights
    BY <1>1, ToRecordFacts DEF Counts, Made
<1>4. \A E \in SUBSET Entries : Dated(E, Made) => E \subseteq Recorded
    BY <1>1, <1>3 DEF Dated, Entries, Recorded
<1>5. \A m \in Manifests : Dated(m.datasets, Made) /\ Apart(m.datasets) => IsManifest(m)
    BY <1>4 DEF Manifests, IsManifest, Apart
<1>6. IsManifest(manifest)
    BY <1>1, <1>5 DEF Types, ListsRight
<1>7. ASSUME NEW a \in Actors
      PROVE  /\ desk[a].at \in Steps /\ desk[a].op \in Ops /\ desk[a].bag \in Content
             /\ IsManifest(desk[a].held) /\ desk[a].doomed \subseteq Recorded
  <2>1. desk[a] \in Desks
      BY <1>1 DEF Types
  <2>2. /\ desk[a].at \in Steps /\ desk[a].op \in Ops /\ desk[a].held \in Manifests
        /\ desk[a].doomed \in SUBSET Entries
      BY <2>1 DEF Desks
  <2>3. desk[a].bag \in Content
      BY <1>1, <1>2 DEF OnlyStored, Content
  <2>. QED
      BY <1>1, <1>4, <1>5, <2>2, <2>3 DEF ListsRight
<1>8. live \in Content /\ Kept(files) \in Content /\ excused \in Content
    BY <1>1, <1>2 DEF OnlyStored, Content, Kept
<1>. QED
    BY <1>1, <1>2, <1>6, <1>7, <1>8 DEF DatasetsTypeOK, Types, Counts

\* Each step of the run is one of the jobs or of the snapshots, and leaves the others alone.
LEMMA CronSteps ==
    [CronNext]_cronVars => [Next]_vars /\ [DatasetsNext]_datasetVars
BY DEF CronNext, SumsMove, SnapshotsMove, cronVars

\* No behaviour of the run shows a component anything it would not do by itself:
\* what is proved of the jobs and of the snapshots, each for itself, holds of the
\* cron process beside the web process.
THEOREM CronSound == CronSpec => Spec /\ DatasetsSpec
BY CronSteps, PTL DEF CronSpec, CronInit, Spec, DatasetsSpec

\* The manifest never lists a slug twice, whoever writes it, and tells the ages
\* of its snapshots apart; no file holds a ride that was not stored; jobs and
\* sums are what they should be.
THEOREM CronTyped == CronSpec => []CronTypeOK
<1>1. IInv /\ ListsInv => CronTypeOK
    BY ListsTyped DEF IInv, CronTypeOK
<1>. QED
    BY <1>1, CronSound, AggregationSound, ListsSound, PTL
=============================================================================
