# A verification project for eucstats

eucstats collects rides from the EUC Planet app, keeps statistics of them and lets
riders form crews that hold territory. It is one FastAPI process over one SQLite
database, with a cron job beside it. These TLA+ modules model the parts in which steps
of several actors, crashes and long histories decide whether the data stays right.
TLC checks them on small instances, and the TLA+ proof system proves the most important
invariants for every instance.

## How the program runs

- Ordinary handlers run in a pool of threads, so two requests can be between the same
  two statements. `POST /trips` is an async handler whose work is synchronous: uploads
  run one after another, but beside everything else.
- The session does not flush by itself and SQLite opens a transaction at the first
  write. A handler therefore reads outside any transaction, decides, and writes in one
  commit. What it decided on may be out of date by then.
- Loops in `main.py` run retention, the pairing sweep and the territory rebuild, redraw
  the map after a ride, and post the daily Telegram summary. `scripts/run_jobs.py` is
  started by cron as a process of its own; it reconciles trips that were never counted
  and takes the nightly snapshot.
- Three things are files beside the database: the snapshots with their manifest, the
  served map, and the Telegram settings. They are read and written whole, without locks.
- A crash loses what is in memory (jobs under way, the dirty mark of the map, the rate
  limiter) and keeps every commit.

## The components

| Component | State | Operations | Interacts with | Hard because | Correct means |
|---|---|---|---|---|---|
| Crew membership (`services/crews.py`, `web/crews_api.py`, `web/admin_crews.py`) | `clans`, `clan_members` | create, join, leave, accept, decline, set role, remove, take over, disband, edit, admin disband and restore, notices, sweep | sessions, accounts, territory (a folded crew holds no ground) | a row per rider and crew is reused for ever, and its status says both what the rider is and what they were told | one crew per rider, manned crews, one leader, the cap, the cooldown, somebody can always take over, a restore is an undo |
| Pairing and sessions (`services/pairing.py`) | `pair_tokens`, `web_sessions`, a cookie | start, confirm, poll, look up, sign out, revoke all, sweep | every crew request; admin sign-in | phone, browser and sweep race on one row | a session acts for the rider who confirmed, a lifetime slides with use, revoked is out, unheld sessions end |
| Trip ingest and aggregation (`services/ingest.py`, `services/aggregator.py`) | `trips`, `rider_stats` and other materialized tables | upload, approve, reject, ban, purge, rebuild, reconcile | accounts, bans, crews (a trip is stamped with one), territory (dirty mark) | jobs of many commits overlap and die half-way | each validated trip counts once, banned riders not at all |
| Telemetry algorithms (`ingest/`) | none; each pass carries state over the samples of one log | summary, plausibility, downsampling | ingest | holes, pauses, equal times, dropouts between two samples | a record is one the log as a whole supports |
| Crew territory, the rules (`services/territory.py`) | `clan_cells`, figures on `clans` | accumulate, award, bridge, close holes | trips, crews | the last map is an input of the next | a square belongs to one crew, ground is lost to somebody and never to nobody, riding takes it |
| Crew territory, the redraw (`services/territory.py`, `main.py`) | the dirty mark, the time of the last pass, the served file | mark, hourly pass, fresh pass, admin's button, write and publish | uploads, crews, settings | three threads, one file, a mark taken before the work | a ride reaches the map, the map settles |
| Telegram (`services/telegram.py`) | `tg_crew_state`, `telegram.json` | crew milestones, daily recap, settings | territory rebuild, slugs of crews, admins | ground comes and goes at every redraw; send, then mark | a rung is told once and only when new; a day is recapped once and marked |
| Raw retention (`services/retention.py`) | `raw_uploads` | eviction by age and by disk | ingest, settings | zero days, a full disk, a file that does not shrink | old uploads go, a wish to keep everything is kept |
| Datasets (`services/datasets.py`, `scripts/run_jobs.py`) | database files, manifest | save, new, import, rename, delete, prune, switch, nightly backup | everything, through the file under it | file operations of two processes with crashes between them | no ride is lost by a switch, manual snapshots stay |
| Background loops (`main.py`) | timers | see above | territory, retention, pairing, Telegram | lateness, overlap, exceptions | what is due happens |
| Admin sign-in (`services/adminauth.py`) | `admin.json`, the cookie session | first factor, pairing, claim | pairing | first use wins | two factors, one owner |
| Rate limiter (`services/ratelimit.py`) | counters in memory | hit, sweep | routes | window edges | never over the limit |
| Settings, names, identity | `app_meta`, names, colours, handles | set, check for clashes | routes | check, then write | unique stays unique |
| Statistics, pages, admin pages, health, audit, i18n, scripts | none of their own | queries and rendering | all | | |

## The modules

| Module | What it is |
|---|---|
| `Crews` | membership, one action per request, admin action and loop pass, with the history of folds |
| `Membership` | what the membership tables promise: where each rider stands in each crew; `Crews` implements it |
| `CrewsRace` | `Crews` with one request that decides early and commits late |
| `CrewsProofs` | theorems about `Crews`, from one inductive invariant, and that it implements `Membership` |
| `MembershipProofs` | the theorem about `Membership` |
| `Pairing` | phones, browsers, tokens and sessions |
| `Aggregation`, `AggregationProofs` | the jobs that count trips; theorems about them |
| `Credit` | which crew a ride is credited to while membership moves on |
| `Telemetry` | the passes over a log behind the records of a ride |
| `Territory`, `TerritoryProofs` | the rules by which rides become ground, and the map that is carried on; theorems about them |
| `Redraw` | how a ride reaches the map: mark, loops, rebuild, commit and file |
| `Announcements` | the crew milestones read off each redraw |
| `Recap` | the daily recap and its mark |
| `LoopsProofs` | theorems about `Redraw`, `Announcements`, `Pairing`, `Retention` and `Recap`, and about the run that joins them |
| `Retention` | the archive of raw uploads and the disk under it |
| `UploadProofs` | theorems about `Credit` and `Telemetry`, and about the run that joins them and `Aggregation` |
| `Counting` | lemmas the proofs share: induction over numbers and measures, what a recursive function is, sums over sets |
| `Datasets`, `DatasetsProofs` | snapshots, their manifest, rotation and the switch; theorems about them and about the run that joins them and `Aggregation` |
| `MCCrews`, `MCAggregation`, `MCTerritory` | constants and symmetry of the runs |
| `MCLoops` | `Redraw`, `Announcements`, `Retention`, `Recap` and `Pairing`: what the loops of `main.py` drive |
| `MCUpload` | `Aggregation`, `Telemetry` and `Credit`: what becomes of an upload |
| `MCCron` | `Aggregation` and `Datasets`: what the cron process runs beside |

A definition whose name begins with `Bad` is a mistake the code could make in the
definition after it. None is part of a model; each is there to show that the properties
notice it.

The components are modelled apart and meet in few places. `Credit` puts ingest and
membership together, on the abstract `Membership`: a trip carries the crew its rider was in.
A session (`Pairing`) is what a membership request needs, so `Crews` lets any rider act; any
living crew may ride in `Territory`; a crew that folds or returns is an input
of `Territory`, `Redraw` and `Announcements`; what a rebuild computes is `Territory`, when
and how it runs is `Redraw`, and what is told of it is `Announcements`.

`MCLoops`, `MCUpload` and `MCCron` put components that share no state into one run. The
variable `moving` is chosen at the start: the component it names moves, the others rest in
their initial state. The states are the sum of the components' and not the product, no
interleaving is lost because there is none that matters, and the invariants and the
fairness are those of the components, the latter stated again where its component moves.

### Crews, Membership, CrewsRace

`crew`, `asks` and `rows` are `clans.disbanded_at`, `clans.join_policy` and
`clan_members`. A row keeps role, status and whether it is live (`left_at IS NULL`); its
two time stamps are ages in ticks that stop growing where no rule looks further, and
`joined_at`, which is only ever compared, is the set of riders whose row is older. Each
action is one whole request: its guard is the conjunction of the refusals in the code, and
a refused request changes nothing. The trailing work is part of the action: the fold in
Leave and Disband, the election of a leader in Restore, the gates in Accept. A restore may
be pressed a second time on a page drawn before the crew came back, as the route does not
check. `took` is history, who was in the crew when it folded. Names, colours and the
invite code are left out; an invite-only crew is an open one for who holds the code.
Closed accounts are left out as well: closing leaves the row, and a crew whose
longest-serving member has closed the account cannot be taken over, which is a hazard
without a property until membership and accounts are composed.

`Membership` has nothing of rows, ages and notices: a rider is out of a crew, asking, or in
it as member, officer or leader, and there are seven kinds of change. `Crews` maps to it
by `Standing`, and every request is one of those changes or none. That is what says, in one
place, that nobody enters above a member, that a leader leaves an officer behind, that an
officer ranks neither leader nor officers, and that a restore takes nobody out of another
crew. It also shows what the code does not promise: a restore may make members of
riders who had only asked, and a second restore may add a second leader.

`CrewsRace` takes apart what `Crews` takes whole. One request at a time is slow: it decides
on a draft of the tables, which follows them until then, and commits later the columns it
has changed, or is refused where the table forbids it (a row inserted twice, an update of
a row that is gone). Any number of quick requests come in between. Time stands still
meanwhile, as requests take no days. One slow request is enough to lose an update or pass
a stale check; a restore flushes early and is always quick. `OneCrewPerRider`, which is
proved for requests taken whole, does not survive this.

| Run | Instance | Shows |
|---|---|---|
| `crews_one` | one crew, three riders, a cap of two, one restore | The cap holds at all three doors; a pending request holds no office (the edit route relies on it); there is one leader until a second restore, and as long an idle crew can be taken over; a leader who is about is not deposed; a living crew is manned and a folded one empty; everybody a fold took returns with the restore unless they are elsewhere or were swept; and the tables implement `Membership`. |
| `crews_two` | two crews, two riders, no restore | One crew per rider, and no door lets a rider in while the cooldown runs, which here outlasts the sweep, as an admin may choose (0 to 90 days; rows are swept at 30). |
| `restore_fold` (violation) | one crew, two riders | After the sweep a restore revives a rider who had walked out before the fold, where the docstring says "nobody else". |
| `crews_race` (violation) | two crews, two riders, no restore | Two requests of one rider that both check before either commits put the rider into two crews. |

Three riders give a leader, an officer and a third who arrives or is left out; two crews
are what a second membership needs; a tick before and after each window is all the
comparisons distinguish. Restores are bounded by `MaxRestores`, the only counter; the
model is finite otherwise. The cap of two is the smallest that leaves a third at the door.
Riders and crews are symmetric in the two passing runs, which check safety only.

### Pairing

Tokens and sessions are rows with ages. `ConfirmRead` and `ConfirmWrite`, `PollRead` and
`PollMint` are two steps each because the code reads and commits apart; the panel polls
on a timer whether or not the last poll was answered, so polls of one token overlap, up
to `MaxPolls`. The answer with the cookie may be lost. `vouched` is history: which
confirms were answered "ok". In `loops`, with two phones, a browser, a token and two
sessions:

- `SessionVouchedFor`: no interleaving gives a session to a rider who did not confirm that
  very token.
- `SessionSlides`: nobody is signed out, but for a closed account, before the lifetime
  less one renewal interval has passed unused, nor served after it.
- `UsedTokensGo`: no token stays confirmed for ever.
- `UnheldSessionsEnd`: a session whose cookie was lost comes to an end.

A second token would repeat the first, as nothing relates two tokens but the browser that
holds one at a time; two sessions are what two polls of one token can mint. Ages stop one
tick past their limits. Fairness is weak fairness of the sweep, which the retention loop
calls on every pass and whose exceptions do not end the loop, and of time. Nothing is
assumed of phones and browsers.

### Aggregation

A worker is a thread of the web process or the cron process; `job` says where in its
request it is. Steps are cut where another commit can come in between: the checks and the
insert of an upload; the clear, the listing and the trips of a rebuild; and for each trip
the check of the flag, the read of the sums and the write. The sums are written as values,
so a stale read loses another job's update; a row that appeared or vanished meanwhile is
an exception that ends the job. `totals` keeps, for a rider, how often each trip is in the
sums, which is what double counting and lost updates are about; it saturates at two.
`drift` is history: two jobs overlapped, or one died, since a rebuild last ran alone.

| Run | Instance | Shows |
|---|---|---|
| `aggregation_alone` | three trips of two riders, one worker, one crash | The flag of a trip says whether it is in the sums; a validated trip the process died on is counted in the end. |
| `aggregation_settled` | two trips of one rider, two workers, one crash | Whatever overlapping jobs leave, the next rebuild that runs alone makes the sums exact. |
| `aggregation_overlap` (violation) | two trips, two workers | Two jobs count one trip twice, where the module says "idempotent per trip" and the cron job "safe to run frequently". |

Two trips of one rider are what a lost update needs, a second rider what an exclusion
needs. Fairness: a request runs to its end, and cron starts reconciling again and again
however busy the worker is (strong fairness, because a busy worker refuses it in the
model while the cron process waits for nobody). Crashes are bounded by `MaxCrashes`;
liveness needs them to stop.

### Credit

An upload reads its rider's crew and inserts the trip with it later; founding, joining and
being let in commit the membership first and stamp the rides of the last fortnight, those
that count for nobody, in a commit of their own. In between membership takes any step of
`Membership`, among them restores, which do not stamp; crews and rides grow old, trips are
approved and rejected, the process dies between commit and stamp. `CreditEarned`
(`aggregation_settled`): a ride is given to a crew once, and only to a crew its rider has
been in by then. Two crews and two riders, one of whom lets the other in, and one trip:
nothing relates two trips of a rider, and uploads run one after another. The purge of a
rider is left out, as it raises for one who was ever in a crew.

### Telemetry

The passes of `ingest/summary.py` behind the records: the corroborated speed of a sample,
the top speed that believable acceleration can reach, the window of a sustained figure,
the launch to a target speed and the stop from one. Each is a record of what the loop
carries over, and a step per sample, so that a behaviour is a log as it grows. The figures
are whole numbers; an average or an interpolated time is a pair of numerator and
denominator and never rounded. The properties (`aggregation_settled`) say of each figure
what it should be, by quantifying over the whole log and with nothing carried over:

- `TopSpeedIsReached`: the highest speed that could be reached at from every earlier sample.
- `SustainedIsHeld`: the best average over a window without a hole that covers half of it,
  told by the places of its samples in the log.
- `LaunchIsGenuine`: the best launch between a standstill and the target without a pause, a
  sample the GPS does not vouch for or a dip.
- `StopIsReal`: the best stop from the last fast sample to the first standstill.

Five readings (standing, moving, moving with a GPS that stands, fast, moving with no GPS)
and three gaps (none, within every window, beyond all) in every order give every log of up
to five samples; five are what a launch with a false start takes. The constants of the
configuration are scaled, and keep the order of those in the code. Sample times do not go
back: the parser does not sort, and logs that run backwards are left out.

### Territory

`rides` is the window of validated trips, as what each counts for in each square; `live` the
crews that exist; `cells` the `clan_cells` rows, which are at once the map and the
incumbents of the next one. The operators have the names and the arguments of the functions:
`Accumulate`, `Winners` with the holder's edge (`Score`) and the claim that outlives its
rides (`Standing`), `Seeded`, the rounds of `Awarded`, `Bridge` and `CloseHoles`. `Rebuild`
applies them in one step. Kilometres are integers and a half-life is a division by two,
rounded down, which keeps every comparison exact where the code rounds to six places. Where
two crews are level and nobody holds the square, the code takes the crew it met first:
`Rebuild` takes any. A crew folds with its rows (`Disband`) or without them (`LastOneOut`),
and may return before the next rebuild. The weekly cap and the scaling to the odometer come
before what a ride counts for; the cap on enclosed ground cannot bite on a grid below eight
squares a side, and larger ones are beyond TLC.

| Run | Instance | Shows |
|---|---|---|
| `territory_map` | two crews on a 6 x 6 grid, three routes, three rides in the window, one crew that folds | No square is drawn for two crews; each patch a rebuild draws has a full block in it after bridging and filling, or other ground closes it in on every side; a patch with a block in it that nobody else is above the floor in outlives every rebuild whole; a block a crew out-rides in every square, the holder's edge included, is drawn for it. |

The routes are chosen so that each rule bites. The belt runs along the edge of the grid with
a block in one corner. The hook, for either crew, has a block of its own and goes round a
square inside the belt but for the belt's corner. The outer block breaks the belt at the far
corner, meets the hook at a point and passes one of the two squares beside that point below
the floor. Three rides at a time are a holder, a rival and a third claim. Belt and hook
together are a ring within a ring, which with a block in each takes six squares one way: the
crew of the belt is given the one square inside the hook, a patch without a block.

### Redraw

The ground of a crew is a number, how many of its rides the rows take into account; what the
rules make of them is `Territory`. An upload stores its ride and then sets the mark; the
fresh loop looks at the mark, claims it on a thread and rebuilds; the hourly pass and the
admin's button rebuild without it. The upload may raise in between, when it saves the track
or the file or counts the ride, or what setting the mark raises is swallowed: the process
lives on, the retry is a duplicate, and the mark is missed (`MarkMissed`). A rebuild of any of the three reads the rides, then the
living crews, commits the rows, opens the one temporary file, closes it and moves it over
the served one. Files are inodes: opening truncates what another pass is writing, and what
two passes wrote at once is no map, unless by luck. A pass may raise, the process may die, a
crew fold or return, the switch be turned at any moment. In `loops`:

- `RideIsOwed`: a ride that is not on the map is marked, or in a pass that has read it or
  will, unless one of the named events left it to the hourly pass (`slipped`): an upload
  that raised past its insert, an approval, a fresh pass that raised, a crash, crews
  switched off, a crew that returned, an older map written over a newer.
- `MapSettles`: however passes overlap and die, rows and file come to show every ride of
  every living crew and no ground of a folded one, and stay so.

`redraw_half` (violation) is the file of the same module: a pass moves over the served map
the temporary file that another pass has just emptied, where the code says "atomic: a
reader never sees half a file". `MapSettles` says that the next pass repairs it, and the
theorem `AloneNeverHalf` that two passes writing at once are all that can go wrong.

Fairness: the retention loop comes round for ever, as it swallows what a pass raises, and a
thread that has begun runs to its end; nothing is assumed of the fresh loop, of uploads or
of the admin, so that the hourly pass alone has to settle the map. One crew with one ride
and two upsets (folds, returns, switches, admin rebuilds, exceptions, crashes) is enough for
an older map to win over a newer one: a pass that read before and one that read after.

### Announcements and Recap

`Announcements` keeps the snapshot of `tg_crew_state`, by slug, and draws the ground of
every crew afresh at each redraw: none, a patch, or a rung of the ladder. Crews are founded,
fold, free their slug and take it back or find it taken; switches are turned between
redraws; the process may die between the commit of the snapshot and the messages.
`RungSpent` says that a rung which is told is above every rung told of its slug before, so
that none is told twice, and that what was told is forgotten only when a watched redraw
finds no crew on the slug. `NewsIsNew` says that a rung which is told was not held at the
redraw before, unless redraws went by with every switch off. Redraws are taken one after
another here; what two that overlap may do is among the findings. Two crews
and two slugs with two rungs are what handing over a slug and skipping a rung take; `MaxShuffles` bounds what happens to crews and switches.

`Recap` is the loop of the daily summary: look at the clock, post, read the file, write it
with the mark; an admin's save of the settings reads and writes the same file. `RecapSettles`
says that the day is marked in the end and stays so, so that it is not posted for ever; a
crash or a crossing save may post a day once more. Four days and two
mishaps; the clock stops at the end of the last day. Fairness: the loop comes round every
five minutes, and its thread runs to its end.

### Retention

An upload is one page of the database file and a day is one tick. SQLite keeps the pages a
delete empties and fills them before the file grows, and nothing in the repository runs
VACUUM; so a deleted upload becomes a spare page and not free disk. A pass reads its
settings once, evicts by age in one commit, then looks at the disk and evicts the oldest
one commit at a time. Uploads, days, other use of the disk and changes of the settings come
in between, and a pass may die. In `loops`:

- `OldUploadsGo`: an upload past the chosen days goes, whatever passes die.
- `KeepEverything`: once the days are zero and the disk has room, nothing is evicted any more.

`retention_floor` (violation): the sweep takes another upload although what it has deleted
would put the disk above the floor, where the code and the design document say "until above
the floor". Four pages, three uploads and two evictions a pass are a full disk, a sweep
that reaches its limit, and one that does not. Fairness: the loop sleeps, passes, and
swallows what a pass raises.

### Datasets

A database is the set of rides in it. The functions of the manager load the manifest,
work, and save it as a whole, with no lock between the web process and the nightly job, so
both are step by step: the backup to a file, the entry, the rotation with its deletions,
and for a switch the copy beside the live file, the replacement and the new active slug.
Either may die anywhere. A slug is a number: the slugs a typed name can get, and the stamped
ones of automatic backups, which grow. The manifest is its active slug and a set of entries,
each with its slug, whether it is manual and when it was recorded; the rotation goes by that
time, which `_now()` makes later than every entry the writer has read. In `aggregation_alone`:

- `RidesAreKept`: a ride acknowledged is in the live file or a snapshot, but for those
  that came after the backup of a switch under way and those whose last copy an
  admin or the rotation removed (`excused`).
- `ManualKept`: no rotation, save or switch touches the file of a manual snapshot, until
  one process has saved the manifest over what the other had just written (`crossed`).

`switch_target` (violation): the rotation inside a switch may delete the very backup that
was asked for. One ride, three orders of the admin, one night and a rotation of two (ten in
the code, seven at night) are enough for the oldest of three backups to go; prunes and
renames are not counted. A snapshot an admin named is always there (`TypedTargetStays`). Two
is also the least a rotation may keep: one that keeps a single backup may keep a nightly one
that was taken before and recorded after the backup of the switch, and `RidesAreKept` is
then false.

## The runs

Six runs pass and six show a violation. The passing ones that put components together:

| Run | Components | Properties |
|---|---|---|
| `loops` | Redraw, Announcements, Retention, Recap, Pairing | `LoopsTypeOK` `RideIsOwed` `MapSettles` `RungSpent` `NewsIsNew` `OldUploadsGo` `KeepEverything` `RecapSettles` `SessionVouchedFor` `SessionSlides` `UsedTokensGo` `UnheldSessionsEnd` |
| `aggregation_alone` | Aggregation (one worker), Datasets | `CronTypeOK` `CountedAsFlagged` `MissedAreCounted` `RidesAreKept` `ManualKept` |
| `aggregation_settled` | Aggregation (two workers), Telemetry, Credit | `UploadTypeOK` `SumsSettled` `CreditEarned` `TopSpeedIsReached` `SustainedIsHeld` `LaunchIsGenuine` `StopIsReal` |

Every property of a passing run has a mutant in `PROJECT.json`: a mistake in the modelled
code with which TLC finds the property violated.

## Findings

The six violation runs are the places where the code does something other than a
docstring, a comment or a test says; `PROJECT.json` quotes each. More were met while the
code was translated, and no run shows them.

Membership, sessions and sums:

- A request that was pending when the crew was disbanded comes back as a membership
  nobody granted, as the fold marks every row alike.
- `leave` by the last member keeps the crew's `clan_cells` until the next rebuild, while
  `disband` deletes them, with a comment that two maps must not be left standing.
- `purge_rider` deletes the rider's rows but not those in `clan_members` and `clans`, whose
  foreign keys are enforced: the purge of a rider who was ever in a crew raises and is rolled
  back.
- A ride uploaded while its rider joins a crew can be credited to nobody: the crew is read
  before the join, and the joiner's backfill runs before the insert.
- `revoke_all` leaves a confirmed token alone; the browser that polls it signs in afterwards,
  where the docstring says "Every session for a rider".
- Approving a banned rider's trip gives the rider sums again, until the next rebuild.
- `retry_after` of the rate limiter does not look at the limit, and `set_crews` drops its
  cache before it writes, so that a reader in between keeps the old value.

Territory and what is told of it:

- `accumulate` keeps `max(recency.get(key, 0.0), -age_days)`, which is always zero. The
  tie-break "whoever rode it most recently" never decides, and new rows are dated from the
  rebuild where a comment says "dated from the ride that won it".
- Enclosed squares are held squares at the next rebuild, so the cap "A crew may not gain
  more than it rode" counts from a larger ring each time: a 12 x 12 ring with
  one square beside it, 45 squares, becomes 90 and then 144.
- A hole within a hole, which one crew's ring encloses and ground of another inside that ring,
  goes to the outer crew if it comes first: `_close_holes` floods from each ring alone. It is
  then a patch without a block, where `emblem_slot` says "a patch that is drawn at all is
  grown from a SEED x SEED block" and "a badge is never squeezed onto a single tile", and
  when the outer ring breaks it is lost to nobody, which `winners` says never happens.
- A claim whose rides have faded is pinned to the floor; a crew that draws nothing then
  takes another crew's block off the map, where award() says such a crew "no longer takes
  the ground down with it".
- A first patch is announced each time a crew's ground goes from nothing to something,
  where a comment says once per crew.
- A crew that folds, misses a redraw and returns is told its rungs again; one that takes
  over a slug inherits the snapshot of the crew before it; redraws with every switch off
  leave the snapshot old, and the first after them tells old history. Two rebuilds that
  overlap may both read the snapshot before either has saved it, and both tell a rung.
- `telegram.json` is written in place, so a crash in the write loses the settings; moving
  the time zone back posts a day again.

Snapshots and uploads:

- A crash between `os.replace` and the removal of the write-ahead log leaves a log of the
  replaced file beside the new one.
- A live file whose figures cannot be read counts as empty, and is replaced without a
  backup; a file that a crash left out of the manifest is overwritten by the next snapshot
  of that name.
- Two processes that save the manifest lose one of the entries.
- The pressure sweep of retention is said to take validated trips' uploads and takes any.

Summaries:

- Samples are not sorted by time; the passes assume they are.
- `downsample` keeps up to three points more than asked; `gps_distance_km` credits a hop
  between two samples of equal time; an odometer dropout of less than 5 km counts twice; a
  pause with a change of more than 20 degrees makes the temperature walk refuse all that
  follows.

## What is proved

Every theorem is about the specification that TLC runs on the small instance, for every
value of its constants that the named assumptions allow.

| Theorem | Says | Module |
|---|---|---|
| `TypeCorrect` | `TypeOK` of `Crews` | `CrewsProofs` |
| `OneCrewCorrect` | `OneCrewPerRider`: a rider is never in two crews, as long as requests are taken one after another | |
| `CrewsSound` | the inductive invariant `IInv` | |
| `LivingCorrect` | `LivingIffManned` | |
| `CapCorrect` | `CapHeld` | |
| `PendingCorrect` | `PendingHoldsNoOffice` | |
| `OneLeaderCorrect` | `OneLeader` | |
| `ClaimCorrect` | `QuietCrewCanBeClaimed` | |
| `CooldownCorrect` | `CooldownServed`, an action property, as the next three | |
| `RestoreCorrect` | `RestoreIsComplete` | |
| `FirstRestoreCorrect` | a first restore brings back nobody but who the fold took, as long as the row of one of them is left | |
| `LeaderCorrect` | `LeaderNotDeposed` | |
| `CrewsRefine` | `ImplementsMembership`: every behaviour of `Crews` is one of `Membership` | |
| `MembershipCorrect` | what `Membership` promises, and so `Crews`: one crew, manned, nobody in a folded one | `MembershipProofs` |
| `AggregationSound` | the inductive invariant of the jobs | `AggregationProofs` |
| `SumsCorrect` | `SumsSettled`, for any number of workers | |
| `FlagsCorrect` | `CountedAsFlagged`, for one worker | |
| `CreditSound` | the inductive invariant of crediting | `UploadProofs` |
| `EarnedCorrect` | `CreditEarned` | |
| `PassesSound` | what the four passes of `Telemetry` carry over | |
| `TopSpeedCorrect` | `TopSpeedIsReached`, for logs of any length, as the next three | |
| `SustainedCorrect` | `SustainedIsHeld` | |
| `StopCorrect` | `StopIsReal` | |
| `LaunchCorrect` | `LaunchIsGenuine` | |
| `UploadSound` | the run `aggregation_settled` is, for each of its components, a run of that component | |
| `UploadTyped` | `UploadTypeOK` | |
| `OwedCorrect` | `RideIsOwed` | `LoopsProofs` |
| `SpentCorrect` | `RungSpent` | |
| `NewsCorrect` | `NewsIsNew` | |
| `PairingSound` | the inductive invariant of tokens and sessions | |
| `VouchedCorrect` | `SessionVouchedFor` | |
| `SlidesCorrect` | `SessionSlides` | |
| `AloneNeverHalf` | the served map is a whole file as long as no two passes write at once | |
| `LoopsSound` | the run `loops` is, for each of its components, a run of that component | |
| `LoopsTyped` | `LoopsTypeOK` | |
| `InvHolds` | the inductive invariant of the map, `TypeOK` and `DrawnOnce` together | `TerritoryProofs` |
| `TypeCorrect` | `TypeOK` of `Territory` | |
| `OneCrewPerSquare` | `DrawnOnce` | |
| `PlantedHolds` | `PatchesArePlanted`, an action property, as the next two | |
| `NothingLost` | `NothingLostToNobody` | |
| `OutriddenTaken` | `OutriddenBlockChangesHands` | |
| `KeptSound` | the inductive invariant of the switch | `DatasetsProofs` |
| `KeptCorrect` | `RidesAreKept` | |
| `ManualSound` | the inductive invariant of manual snapshots | |
| `ManualCorrect` | `ManualKept` | |
| `TypedTargetStays` | a snapshot an admin named is there when the switch to it copies it | |
| `ListsSound` | the inductive invariant of what manifests list and files hold | |
| `CronSound` | the run `aggregation_alone` is, for each of its components, a run of that component | |
| `CronTyped` | `CronTypeOK` | |

A component moves by itself in the runs that join several (`MCLoops`, `MCUpload`, `MCCron`);
`LoopsSound`, `UploadSound` and `CronSound` say that no behaviour of such a run shows a
component anything it would not do alone, so that what is proved of the component holds there.

### From which assumptions

The sets (crews, riders, tokens, trips, workers, names, slots) are any sets, infinite ones
included, unless said here. `Crews`: founders are riders, and a notice does not outlast the
sweep (7 and 30 days, both fixed in the code); the cooldown is any number. `Pairing`: the renewal interval is below the lifetime. `Aggregation`:
every trip has an owner, and there is a worker; `FlagsCorrect` says `OneWorker` in its
statement, because with two it is false (`aggregation_overlap`). `Announcements`: finitely
many rungs can be told of, as they are put in an order. `Telemetry`: times, readings and
thresholds are natural numbers, and all that is said of them is that a standstill is below
the target, the end of a stop below its start, and a dip a fraction; a log has room for one
sample. `Retention`: the days and floors to choose from are within the ages that are told
apart and the disk. `Territory`: the crews and the routes are finitely many, as they are
added up and put in an order, a crew is a number, a ride counts for a natural number in a
square, the floor is at least one, and the grid is below eight squares a side, because
beyond that the cap on enclosed ground, which is not modelled, could bite. `Datasets`: slugs
are numbers other than 0, which stands for no slug; typed ones come before stamped ones;
both rotations keep two backups or more. `AloneNeverHalf` says `[]OneWrites` in its
statement, which `redraw_half` shows it cannot do without. Any other assumption names an
"absent" value or bounds a counter by a natural number.

### Along which arguments

**Crews.** `IInv` adds to the type what no single property says. `RowsSound`: a pending row,
or one declined, is a member's. `ElderOrder`: `joined_at` orders the rows of a crew, so that
there is a longest-serving member to name. `FewRows`: a crew has finitely many rows however
many riders there are, which counting needs. `FoldMarks`: who carries the mark of a fold is
who the fold took or had been taken by one before, with one leader among them until the
first restore. `FirstMarks`: until then only its fold has marked a row of the crew, which is
why `FirstRestoreCorrect` can say "nobody else". `SoleLeader` is `OneLeader` without
counting. `StepKinds` sorts the actions by what they do to one row, so that each part of the
invariant is carried by one lemma per kind of change and one per action that is of no kind.
One crew per rider is proved apart, as it needs the type only: `OneCrewKept` says that it
survives if everybody who becomes live in a crew was live in none, and the `...Enters`
lemmas show that of the doors. The proof of `QuietCrewCanBeClaimed` found that it is false
after a second restore, when `SittingLeader` may name one of two leaders and the
longest-serving of the others be the second; the property now says so.

**Crews and Membership.** `Standings` says what each standing means of a row, `NobodyMoves`,
`OneMoves` and `TwoPuts` what a step that touches the rows of none, one or two riders is on
the other side, and one lemma per action names the change of `Membership` it is, or the
stutter. `MembershipCorrect` is proved of `Membership` alone and comes down along `CrewsRefine`.

**Pairing.** The steps between a read and a write are what has to be covered:
`UsedVouchedFor` says of a used token, and `PollsVouchedFor` of a poll that has read it and
may mint much later, that the confirm is in `vouched`. `LastUsedLags` says that the stored
time of use is behind the real one by no more than the renewal interval, which is what is
taken off the lifetime in `SessionSlides`.

**Aggregation.** `Sound(w)` is what the job of `w` may rely on when it is the only one: the
sums are those of the flags, the flags are of validated trips, and each trip that should be
counted is, or is in the job's hands; a job between its read and its write has read what is
still there. `SumsRight` says it of a job that runs without drift, `OneJob` that no other job
is about then. With drift nothing is claimed until a rebuild has run whole, which is what `whole`
in the job remembers.

**Credit.** Whatever crew an upload, a joiner's stamp or the row of a member has in hand,
the pair is in `hasBeen` (`ComersKnown`, `StampsKnown`, `ReadsKnown`).

**Telemetry.** The invariant says of what a pass carries over which samples it is of. For
the launch and the stop, `Since(i)` and `Armed(i)` name the one sample of the log an attempt
began at, `Peak` the highest speed since. For the top speed, `TrackTells`: the plausible
speed is the least, over the samples so far, of the speed there and the rise allowed since,
so that the next one adds the same allowance to each (`RiseGrows`) or starts from itself. For
the load, `HeldTells`: the window kept is the one that ends at the last point, and the sum is
the sum of its loads; the next window is what the slide leaves of it and the new point
(`TrailGrows`, `LoadParts`). The best of the figures of a longer log is the better of the best
so far and those that end at the new sample (`BestIs`, `HighestIs`), and those are what the
step computes. None of this needs induction over the log, as the invariant is about all its
samples at every step; a sum over a set of samples does need one, over the set (`SumMore`
and `SumBoth` of `Counting`).

**Redraw.** A ride that is not in the rows is marked, or in a fresh pass that has claimed
the mark and not yet read the rides or that has read this one: `FreshOwes`. The other
passes take no mark away, so they need no part in it. For `AloneNeverHalf`, `FileInv`
says that the pass which writes has the one temporary file open, that nobody else has, and
that a file which is closed is whole.

**Territory.** The invariant is no more than `TypeOK` and `DrawnOnce`: what is hard is what
one rebuild does. Its rules are recursive functions, and TLA+ makes such a function the
choice of one that solves its equation, so it has first to be shown that there is one
(`Recursion`). Each recursion here goes down in a measure (the squares not yet reached or
left, the rounds, the crews still to come), and so does each argument about it
(`LeastFirst`); as the library's induction cannot be cited, both are drawn, in `Counting`,
from its theorem that a set of numbers has a least one. `FloodFacts` and `RegionsPieces` say
what a flood and the patches are. `WinnersOnce` has one winner a square at most, as `Beats`
goes one way. For `OutriddenTaken`, a crew that out-rides everybody in a block wins it in
every round, because it is never withdrawn from a block it can draw (`Spared`). For
`NothingLost`, the holder stands where nobody is in line, and its patch hangs on its block
as long as no square of it changes hands. For `PlantedHolds`, what the rounds leave is
`Rooted`, connected to a block of its crew, and bridging keeps it so; a square that is
filled joins the region that encloses it, or it is shut in by ground of others, which
`CloseHoles` never takes away.

**Announcements.** `SpokenBelow`: what was told of a slug is at most what its snapshot holds;
`QueueRight`: what waits to be told is above what was told, in the snapshot, and once per
slug, so the head of the queue is new whenever it goes out (`HeadIsNew`); `SnapshotFresh`:
the snapshot is of the redraw before, unless every switch was off. `OneEach`: a slug is one
crew's, as no crew takes one that another holds.

**Retention and Recap.** The archive is in the order of age, a new upload being the youngest
and a day passing for all alike; what goes by age are the first of it (`OldestGone`), so
what stays keeps the order. The pages in use, spare and of others never outgrow the disk, and
a sweep that is to take one has one left. `RecapBehind`: the day that the loop or an open
form has in hand is behind today, so the mark they save is, too.

**Datasets.** The difficulty of `RidesAreKept` is the switch: from its backup on, the live
rides are about to be replaced, and two processes rotate. `Safe` says that until the
replacement some file `Covers` them, that no manifest that may yet be saved, on disk or in
the hands of either process, lists two backups later than it (`OneLater`), and none at all
while the nightly job has an older backup still to record (`StaleToCome`, `Newest`). Then a
rotation that keeps two never chooses it (`LastTwoAreKept`). `Fresh` says that the slug of a
backup under way is nobody else's, and `Greatest` that `_now()` has a value later than all
entries. `ManualKept` rests on `MarksRight`, which says of every manifest and list to
delete that manual entries are those with typed slugs, and `TypedFree`, which says that
nobody else lists the slug an admin's save has chosen unless a manifest was crossed.
`TypedTargetStays` needs no such exception: as long as the admin's operation is a switch, or
the new slot that ends in one, nothing deletes a file with a typed slug, listed or not
(`TargetThere`). For `CronTyped`, `Made` counts the records that orders and nights have made
so far: a new entry is later than those read, and within that count, so the ages of a
manifest differ and are bounded; `Appended` drops the slug it adds, so none is listed twice,
also when one process saves over the other. `OnlyStored`: a copy holds what the live
file held, and that was stored.
The strengthenings were checked by TLC before they were proved.

### Only checked by TLC

- Liveness, which needs fairness and ENABLED: `UsedTokensGo`, `UnheldSessionsEnd`,
  `MissedAreCounted`, `MapSettles`, `OldUploadsGo`, `KeepEverything`, `RecapSettles`.

Every other property of the passing runs, invariants and action properties, is a theorem.

## What is not modelled

- Most lines of the repository are tables of translations, HTML and CSS in Python strings,
  admin and public pages, and checks of generated pages: rendering of queries, in which no
  step depends on another. They are most of the implementation, which is why the modules
  map a small share of its lines.
- Of membership: names, slugs, colours, emblems and texts, the rotation of invite codes, closed
  accounts. Several slow requests at once beyond one
  slow and any number of quick ones.
- Of territory: rankings, warnings and targets, the weekly cap and the cap on enclosed ground.
- Of ingest: plausibility and anomalies, tracks, distances, personal records, temperatures,
  g-force, battery and downsampling, the reprocessing job, orphaned uploads.
- Of the snapshots: the write-ahead log beside the live file, the integrity check of an
  import, sizes.
- Of Telegram: ground changing hands, records, first rides, new riders and crews, alerts.
- Of sessions: admin pairings, rate limits, the kill switch, colliding codes.
- Admin sign-in, the rate limiter, and settings, names and identity: planned.
- Statistics, pages, health, audit and scripts: queries and rendering, without shared state.

## Plan

In this order; a module comes with its runs and, where named, its theorems.

1. `AdminAuth` and `RateLimit`, each small; names and colours as check-then-act.
2. Membership composed with accounts, for the take-over and the purge.
3. `Territory` with the cap on enclosed ground and grids where it bites.
