---------------------------- MODULE Aggregation ----------------------------
(***************************************************************************)
(* How a ride comes to count: services/ingest.py inserts the trip and      *)
(* services/aggregator.py adds it to the materialized tables; the admin    *)
(* routes of web/admin.py, the purge of services/identity.py and the       *)
(* reconcile step of the cron job take trips out and put them back.        *)
(*                                                                         *)
(* A worker is a thread of the web process or the cron process.  Reads are *)
(* not part of a transaction here: a job reads, and its first write takes  *)
(* the write lock and holds it until the commit.  So a step is one commit  *)
(* with what goes before it unread by others, or one read another commit   *)
(* may outdate.  A listing is one step with the read of the exclusions,    *)
(* and an admin's click is one step up to its first commit.                *)
(*                                                                         *)
(* totals stands for every table apply() adds to (rider_stats,             *)
(* daily_distance, map cells): for a rider, how often each trip is in the  *)
(* sums.  country stands for country_stats, recomputed from the trips;     *)
(* every trip is ridden in one country.  The order in which a list of      *)
(* trips is applied is left open.  Distances, records and the wheel rules  *)
(* are left out, and so is a rider who was ever in a crew: for them the    *)
(* purge raises on a foreign key.                                          *)
(*                                                                         *)
(* A definition named Bad... is no part of the model: it is a mistake the  *)
(* code could make in the definition after it, to show that the properties *)
(* notice.                                                                 *)
(***************************************************************************)
EXTENDS Naturals, FiniteSets

CONSTANTS
    Trips, Riders, Workers, NoTrip,
    NoRow,              \* a rider without a rider_stats row
    Owner,              \* Owner[t]: rider_store_id
    MaxCrashes          \* bound: crashes of the process in all

ASSUME NamesAssumption == NoTrip \notin Trips /\ Owner \in [Trips -> Riders]
ASSUME RowAssumption == NoRow \notin [Trips -> 0..2]
ASSUME CrashAssumption == MaxCrashes \in Nat
ASSUME WorkersAssumption == Workers # {}

VARIABLES
    status,         \* validation_status, "none" while there is no such trip
    aggregated,     \* trips whose aggregated flag is set
    totals,         \* rider_stats and the like, per rider
    country,        \* the trips country_stats was last computed from
    registered, closed, banned,     \* riders
    job,            \* what each worker is doing
    crashes,
    drift           \* history: jobs overlapped or died since a rebuild ran alone

people == <<registered, closed, banned>>
tables == <<status, aggregated, totals, country>>
vars == <<tables, people, job, crashes, drift>>

-----------------------------------------------------------------------------
Twice == 2      \* sums tell 0, 1 and more apart
Sums == [Trips -> 0..Twice]

\* whole: a rebuild that nothing has overlapped.
Job == [step: {"idle", "insert", "clear", "list", "apply", "read", "write"},
        trip: Trips \cup {NoTrip}, todo: SUBSET Trips, seen: Sums \cup {NoRow},
        whole: BOOLEAN]
NoJob == [step |-> "idle", trip |-> NoTrip, todo |-> {}, seen |-> NoRow, whole |-> FALSE]

Idle(w) == job[w].step = "idle"
Others(w) == Workers \ {w}
Excluded == banned \cup closed
Validated == {t \in Trips : status[t] = "validated"}

Zero == [t \in Trips |-> 0]
Plus(sums, t) == [sums EXCEPT ![t] = IF @ = Twice THEN Twice ELSE @ + 1]
Count(t) == IF totals[Owner[t]] = NoRow THEN 0 ELSE totals[Owner[t]][t]

Applying(todo) == [NoJob EXCEPT !.step = "apply", !.todo = todo]
Rebuilding == [NoJob EXCEPT !.step = "clear"]

\* A job that starts while another is under way spoils a rebuild.
Begin(w, begun) ==
    /\ Idle(w)
    /\ job' = [v \in Workers |-> IF v = w THEN begun ELSE [job[v] EXCEPT !.whole = FALSE]]
    /\ drift' = (drift \/ \E v \in Others(w) : ~Idle(v))

Go(w, next) == job' = [job EXCEPT ![w] = next]

\* An exception ends the request; what it wrote last is rolled back.
Abort(w) == Go(w, NoJob) /\ drift' = TRUE

Init ==
    /\ status = [t \in Trips |-> "none"]
    /\ aggregated = {} /\ country = {}
    /\ totals = [r \in Riders |-> NoRow]
    /\ registered = {} /\ closed = {} /\ banned = {}
    /\ job = [w \in Workers |-> NoJob]
    /\ crashes = 0 /\ drift = FALSE

-----------------------------------------------------------------------------
\* A closed account cannot be registered again.
Register(r) ==
    /\ r \notin registered
    /\ registered' = registered \cup {r}
    /\ UNCHANGED <<tables, closed, banned, job, crashes, drift>>

CloseAccount(r) ==
    /\ r \in registered
    /\ closed' = closed \cup {r}
    /\ UNCHANGED <<tables, registered, banned, job, crashes, drift>>

\* handle() up to the insert: a ban is checked, a closed account is not.  A
\* trip that is there already is answered as a duplicate and nothing happens.
Upload(w, t) ==
    /\ status[t] = "none" /\ Owner[t] \in registered \ banned
    /\ Begin(w, [NoJob EXCEPT !.step = "insert", !.trip = t])
    /\ UNCHANGED <<tables, people, crashes>>

\* The insert fails if the trip has appeared or the rider has gone.
Insert(w) ==
    LET t == job[w].trip IN
    /\ job[w].step = "insert"
    /\ IF status[t] = "none" /\ Owner[t] \in registered
       THEN \/ /\ status' = [status EXCEPT ![t] = "flagged"]
               /\ Go(w, NoJob)
            \/ /\ status' = [status EXCEPT ![t] = "validated"]
               /\ Go(w, Applying({t}))
       ELSE Go(w, NoJob) /\ UNCHANGED status
    /\ UNCHANGED <<aggregated, totals, country, people, crashes, drift>>

Flagged == {t \in Trips : status[t] = "flagged"}
BadApproved == "accepted"

\* What the app is told is "accepted"; the column says "validated".
Approved == "validated"
Approve(w, S) ==
    /\ status' = [t \in Trips |-> IF t \in S THEN Approved ELSE status[t]]
    /\ Begin(w, Applying(S))
    /\ UNCHANGED <<aggregated, totals, country, people, crashes>>
ApproveTrip(w, t) == t \in Flagged /\ Approve(w, {t})
ApproveAll(w) == Flagged # {} /\ Approve(w, Flagged)

BadAfterReject(was) == NoJob

\* Only a trip that counted has to be taken out of the sums.
AfterReject(was) == IF was = "validated" THEN Rebuilding ELSE NoJob
RejectTrip(w, t) ==
    /\ status[t] \in {"flagged", "validated"}
    /\ status' = [status EXCEPT ![t] = "rejected"]
    /\ Begin(w, AfterReject(status[t]))
    /\ UNCHANGED <<aggregated, totals, country, people, crashes>>

RejectAll(w) ==
    /\ Flagged # {}
    /\ status' = [t \in Trips |-> IF t \in Flagged THEN "rejected" ELSE status[t]]
    /\ Begin(w, NoJob)
    /\ UNCHANGED <<aggregated, totals, country, people, crashes>>

Ban(w, r) ==
    /\ banned' = banned \cup {r}
    /\ Begin(w, Rebuilding)
    /\ UNCHANGED <<tables, registered, closed, crashes>>

Unban(w, r) ==
    /\ banned' = banned \ {r}
    /\ Begin(w, Rebuilding)
    /\ UNCHANGED <<tables, registered, closed, crashes>>

\* purge_rider(): the rider, the trips and the rider's rows go in one commit.
Purge(w, r) ==
    LET mine == {t \in Trips : Owner[t] = r} IN
    /\ r \in registered
    /\ status' = [t \in Trips |-> IF t \in mine THEN "none" ELSE status[t]]
    /\ aggregated' = aggregated \ mine
    /\ totals' = [totals EXCEPT ![r] = NoRow]
    /\ registered' = registered \ {r} /\ closed' = closed \ {r}
    /\ Begin(w, Rebuilding)
    /\ UNCHANGED <<country, banned, crashes>>

\* /rebuild, and what reprocessing and the wheel rules end with.
Rebuild(w) == Begin(w, Rebuilding) /\ UNCHANGED <<tables, people, crashes>>

-----------------------------------------------------------------------------
\* The rows of a list are loaded with it, so the first is judged by what the
\* list read; every commit outdates the others, which are read again.
FirstOf(S) ==
    IF S \subseteq aggregated THEN {Applying(S)}
    ELSE {[Applying(S \ {t}) EXCEPT !.step = "read", !.trip = t] : t \in S \ aggregated}

BadMissed == {t \in Validated \ aggregated : Owner[t] \in Excluded}

\* Validated trips that were never counted.
Missed == {t \in Validated \ aggregated : Owner[t] \notin Excluded}
Reconcile(w) ==
    /\ Missed # {}
    /\ \E begun \in FirstOf(Missed) : Begin(w, begun)
    /\ UNCHANGED <<tables, people, crashes>>

BadUnflagged == aggregated

\* rebuild_all() clears the flags with the tables.
Unflagged == {}
Clear(w) ==
    /\ job[w].step = "clear"
    /\ totals' = [r \in Riders |-> NoRow] /\ country' = {} /\ aggregated' = Unflagged
    /\ Go(w, [Rebuilding EXCEPT !.step = "list", !.whole = \A v \in Others(w) : Idle(v)])
    /\ UNCHANGED <<status, people, crashes, drift>>

List(w) ==
    /\ job[w].step = "list"
    /\ \E begun \in FirstOf({t \in Validated : Owner[t] \notin Excluded}) :
          Go(w, [begun EXCEPT !.whole = job[w].whole])
    /\ UNCHANGED <<tables, people, crashes, drift>>

\* apply() returns at once for a trip that does not count or is in already.
Due(t) == t \in Validated /\ t \notin aggregated
Check(w, t) ==
    /\ job[w].step = "apply" /\ t \in job[w].todo
    /\ IF status[t] = "none" THEN Abort(w)
       ELSE /\ Go(w, [job[w] EXCEPT !.todo = @ \ {t},
                      !.step = IF Due(t) THEN "read" ELSE "apply",
                      !.trip = IF Due(t) THEN t ELSE NoTrip])
            /\ UNCHANGED drift
    /\ UNCHANGED <<tables, people, crashes>>

Read(w) ==
    /\ job[w].step = "read"
    /\ Go(w, [job[w] EXCEPT !.step = "write", !.seen = totals[Owner[job[w].trip]]])
    /\ UNCHANGED <<tables, people, crashes, drift>>

\* The sums are written as values, not as increments.  A row that has appeared
\* since it was read, or has gone, or a trip that has gone, is an error.
Write(w) ==
    LET t == job[w].trip
        seen == job[w].seen
    IN
    /\ job[w].step = "write"
    /\ IF status[t] # "none" /\ (seen = NoRow <=> totals[Owner[t]] = NoRow)
       THEN /\ totals' = [totals EXCEPT ![Owner[t]] =
                    Plus(IF seen = NoRow THEN Zero ELSE seen, t)]
            /\ country' = Validated
            /\ aggregated' = aggregated \cup {t}
            /\ Go(w, [job[w] EXCEPT !.step = "apply", !.trip = NoTrip, !.seen = NoRow])
            /\ UNCHANGED drift
       ELSE Abort(w) /\ UNCHANGED <<totals, country, aggregated>>
    /\ UNCHANGED <<status, people, crashes>>

Finish(w) ==
    /\ job[w].step = "apply" /\ job[w].todo = {}
    /\ Go(w, NoJob)
    /\ drift' = (drift /\ ~job[w].whole)
    /\ UNCHANGED <<tables, people, crashes>>

Crash ==
    /\ crashes < MaxCrashes /\ \E w \in Workers : ~Idle(w)
    /\ crashes' = crashes + 1
    /\ job' = [w \in Workers |-> NoJob]
    /\ drift' = TRUE
    /\ UNCHANGED <<tables, people>>

-----------------------------------------------------------------------------
Accounts == \E r \in Riders : Register(r) \/ CloseAccount(r)
Requests(w) ==
    \/ \E t \in Trips : Upload(w, t) \/ ApproveTrip(w, t) \/ RejectTrip(w, t)
    \/ \E r \in Riders : Ban(w, r) \/ Unban(w, r) \/ Purge(w, r)
    \/ ApproveAll(w) \/ RejectAll(w) \/ Rebuild(w) \/ Reconcile(w)
Step(w) ==
    \/ Insert(w) \/ Clear(w) \/ List(w) \/ Read(w) \/ Write(w) \/ Finish(w)
    \/ \E t \in Trips : Check(w, t)
Next == Accounts \/ Crash \/ \E w \in Workers : Requests(w) \/ Step(w)

Spec == Init /\ [][Next]_vars

\* A request runs to its end, and cron reconciles again and again, whatever
\* else the worker is asked to do.
FairSpec == Spec /\ \A w \in Workers : WF_vars(Step(w)) /\ SF_vars(Reconcile(w))

-----------------------------------------------------------------------------
TypeOK ==
    /\ status \in [Trips -> {"none", "flagged", "validated", "rejected"}]
    /\ aggregated \subseteq Trips /\ country \subseteq Trips
    /\ totals \in [Riders -> Sums \cup {NoRow}]
    /\ registered \subseteq Riders /\ closed \subseteq Riders /\ banned \subseteq Riders
    /\ job \in [Workers -> Job]
    /\ crashes \in 0..MaxCrashes /\ drift \in BOOLEAN

Quiet == \A w \in Workers : Idle(w)

\* services/aggregator.py promises that apply() is "idempotent per trip", and
\* scripts/run_jobs.py that reconciling is "safe to run frequently": the flag
\* says of every trip whether it is in the sums, and it is there once.
CountedAsFlagged == \A t \in Trips : Count(t) = IF t \in aggregated THEN 1 ELSE 0

\* Whenever nothing is under way the sums are those of the validated trips,
\* each once, unless jobs overlapped or died; and then the next rebuild that
\* runs alone puts that right.  Trips of excluded riders may be in or out.
SumsSettled ==
    Quiet /\ ~drift =>
        \A t \in Trips :
            /\ Count(t) <= 1
            /\ Count(t) = 1 => t \in Validated
            /\ t \in Validated /\ Owner[t] \notin Excluded => Count(t) = 1 /\ t \in country

\* A validated trip is counted in the end although the process died before it
\* was: the cron job finds it.
MissedAreCounted ==
    \A t \in Trips :
        t \in Validated /\ Owner[t] \notin Excluded
            ~> Count(t) = 1 \/ t \notin Validated \/ Owner[t] \in Excluded
=============================================================================
