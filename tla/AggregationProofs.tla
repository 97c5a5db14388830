-------------------------- MODULE AggregationProofs --------------------------
(***************************************************************************)
(* Aggregation for every set of trips, riders and workers: the types, the  *)
(* sums whenever nothing is under way, and the flag of every trip where    *)
(* one worker does all the work.                                           *)
(***************************************************************************)
EXTENDS Aggregation, TLAPS

-----------------------------------------------------------------------------
(* The inductive invariant. *)

\* No worker but w is doing anything.
Calm(w) == \A v \in Others(w) : Idle(v)

\* The sums can be relied on while nothing has overlapped or died, and again
\* once a rebuild has run alone so far.
Trusted == ~drift \/ \E w \in Workers : job[w].whole

Taking(w) == job[w].step \in {"read", "write"}

\* w is about to count the trip.
Holds(w, t) ==
    t \in job[w].todo \/ (Taking(w) /\ t = job[w].trip) \/ job[w].step = "list"

\* What a job holds fits the step it is at.
TodoRight ==
    \A w \in Workers :
        /\ Taking(w) \/ job[w].step = "insert" => job[w].trip \in Trips
        /\ job[w].step \notin {"apply", "read", "write"} => job[w].todo = {}

OneJob ==
    /\ ~drift => \A v, w \in Workers : ~Idle(v) /\ ~Idle(w) => v = w
    /\ \A w \in Workers :
          job[w].whole => Calm(w) /\ job[w].step \in {"list", "apply", "read", "write"}

\* With w alone at work, and about to clear nothing: the sums are right for
\* the flags, the flags for the trips, and whatever should be counted and is
\* not is about to be.  A trip being counted is one that should be, and what
\* was read of the sums still holds.
Sound(w) ==
    /\ CountedAsFlagged
    /\ aggregated \subseteq Validated \cap country
    /\ \A t \in Validated : Owner[t] \notin Excluded => t \in aggregated \/ Holds(w, t)
    /\ Taking(w) => job[w].trip \in Validated \ aggregated
    /\ job[w].step = "write" => job[w].seen = totals[Owner[job[w].trip]]

SumsRight == \A w \in Workers : Trusted /\ Calm(w) /\ job[w].step # "clear" => Sound(w)

IInv == TypeOK /\ TodoRight /\ OneJob /\ SumsRight

-----------------------------------------------------------------------------
(* The jobs and the ways they change. *)

LEMMA JobsMade ==
    /\ NoJob \in Job /\ NoJob.step = "idle" /\ NoJob.todo = {} /\ NoJob.whole = FALSE
    /\ Rebuilding \in Job /\ Rebuilding.step = "clear" /\ Rebuilding.todo = {}
    /\ Rebuilding.whole = FALSE
BY DEF NoJob, Rebuilding, Job

LEMMA ApplyingMade ==
    ASSUME NEW S \in SUBSET Trips
    PROVE  /\ Applying(S) \in Job /\ Applying(S).step = "apply" /\ Applying(S).todo = S
           /\ Applying(S).whole = FALSE
BY DEF NoJob, Applying, Job

LEMMA InsertMade ==
    ASSUME NEW t \in Trips, NEW begun, begun = [NoJob EXCEPT !.step = "insert", !.trip = t]
    PROVE  begun \in Job /\ begun.step = "insert" /\ begun.trip = t /\ begun.todo = {}
           /\ begun.whole = FALSE
BY DEF NoJob, Job

LEMMA FirstOfMade ==
    ASSUME NEW S \in SUBSET Trips, NEW begun \in FirstOf(S)
    PROVE  /\ begun \in Job /\ begun.whole = FALSE
           /\ \/ S \subseteq aggregated /\ begun.step = "apply" /\ begun.todo = S
              \/ /\ begun.step = "read" /\ begun.trip \in S \ aggregated
                 /\ begun.todo = S \ {begun.trip}
<1>1. CASE S \subseteq aggregated
    BY <1>1, ApplyingMade DEF FirstOf
<1>2. CASE ~(S \subseteq aggregated)
  <2>1. PICK t \in S \ aggregated : begun = [Applying(S \ {t}) EXCEPT !.step = "read", !.trip = t]
    BY <1>2 DEF FirstOf
  <2>2. Applying(S \ {t}) \in Job /\ Applying(S \ {t}).todo = S \ {t}
        /\ Applying(S \ {t}).whole = FALSE
    BY ApplyingMade
  <2>3. t \in Trips
    BY <2>1
  <2>. QED
    BY <2>1, <2>2, <2>3 DEF Job
<1>. QED
    BY <1>1, <1>2

LEMMA PlusType ==
    ASSUME NEW sums \in Sums, NEW t \in Trips
    PROVE  /\ Plus(sums, t) \in Sums
           /\ \A u \in Trips : u # t => Plus(sums, t)[u] = sums[u]
           /\ sums[t] = 0 => Plus(sums, t)[t] = 1
BY DEF Plus, Sums, Twice

LEMMA BeginEffect ==
    ASSUME TypeOK, NEW w \in Workers, NEW begun \in Job, Begin(w, begun)
    PROVE  /\ job' \in [Workers -> Job] /\ drift' \in BOOLEAN
           /\ Idle(w) /\ job'[w] = begun
           /\ \A v \in Others(w) :
                 /\ job'[v].step = job[v].step /\ job'[v].trip = job[v].trip
                 /\ job'[v].todo = job[v].todo /\ job'[v].seen = job[v].seen
                 /\ job'[v].whole = FALSE
           /\ drift' <=> drift \/ \E v \in Others(w) : ~Idle(v)
<1>1. Idle(w) /\ (drift' <=> drift \/ \E v \in Others(w) : ~Idle(v))
    BY DEF Begin
<1>2. \A v \in Workers : [job[v] EXCEPT !.whole = FALSE] \in Job
    BY DEF TypeOK, Job
<1>3. job' = [v \in Workers |-> IF v = w THEN begun ELSE [job[v] EXCEPT !.whole = FALSE]]
    BY DEF Begin
<1>4. job' \in [Workers -> Job]
    BY <1>2, <1>3
<1>5. ASSUME NEW v \in Others(w)
      PROVE  /\ job'[v].step = job[v].step /\ job'[v].trip = job[v].trip
             /\ job'[v].todo = job[v].todo /\ job'[v].seen = job[v].seen
             /\ job'[v].whole = FALSE
  <2>1. v \in Workers /\ v # w /\ job[v] \in Job
    BY DEF Others, TypeOK
  <2>2. job'[v] = [job[v] EXCEPT !.whole = FALSE]
    BY <1>3, <2>1
  <2>. QED
    BY <2>1, <2>2 DEF Job
<1>6. drift' \in BOOLEAN
    BY DEF Begin, TypeOK
<1>. QED
    BY <1>1, <1>3, <1>4, <1>5, <1>6

LEMMA GoEffect ==
    ASSUME TypeOK, NEW w \in Workers, NEW next \in Job, Go(w, next)
    PROVE  /\ job' \in [Workers -> Job] /\ job'[w] = next
           /\ \A v \in Others(w) : job'[v] = job[v]
BY DEF Go, TypeOK, Others

-----------------------------------------------------------------------------
(* Types. *)

LEMMA AccountsType == ASSUME TypeOK, Accounts PROVE TypeOK'
BY DEF TypeOK, Accounts, Register, CloseAccount, tables

LEMMA CrashType == ASSUME TypeOK, Crash PROVE TypeOK'
<1>1. job' \in [Workers -> Job] /\ crashes' \in 0..MaxCrashes /\ drift' = TRUE
    BY JobsMade, CrashAssumption DEF Crash, TypeOK
<1>2. UNCHANGED <<tables, people>>
    BY DEF Crash
<1>. QED
    BY <1>1, <1>2 DEF TypeOK, tables, people

LEMMA ApproveType ==
    ASSUME TypeOK, NEW w \in Workers, NEW S \in SUBSET Trips, Approve(w, S)
    PROVE  TypeOK'
<1>1. job' \in [Workers -> Job] /\ drift' \in BOOLEAN
    BY ApplyingMade, BeginEffect DEF Approve
<1>2. status' \in [Trips -> {"none", "flagged", "validated", "rejected"}]
    BY DEF Approve, Approved, TypeOK
<1>. QED
    BY <1>1, <1>2 DEF Approve, TypeOK, people

LEMMA RequestsType ==
    ASSUME TypeOK, NEW w \in Workers, Requests(w)
    PROVE  TypeOK'
<1>1. ASSUME NEW t \in Trips, Upload(w, t)
      PROVE  TypeOK'
  <2>1. job' \in [Workers -> Job] /\ drift' \in BOOLEAN
    BY <1>1, InsertMade, BeginEffect DEF Upload
  <2>. QED
    BY <1>1, <2>1 DEF Upload, TypeOK, tables, people
<1>2. ASSUME NEW t \in Trips, ApproveTrip(w, t)
      PROVE  TypeOK'
    BY <1>2, ApproveType DEF ApproveTrip
<1>3. ASSUME NEW t \in Trips, RejectTrip(w, t)
      PROVE  TypeOK'
  <2>1. job' \in [Workers -> Job] /\ drift' \in BOOLEAN
    BY <1>3, JobsMade, BeginEffect DEF RejectTrip, AfterReject
  <2>2. status' \in [Trips -> {"none", "flagged", "validated", "rejected"}]
    BY <1>3 DEF RejectTrip, TypeOK
  <2>. QED
    BY <1>3, <2>1, <2>2 DEF RejectTrip, TypeOK, people
<1>4. ASSUME NEW r \in Riders, Ban(w, r) \/ Unban(w, r)
      PROVE  TypeOK'
  <2>1. job' \in [Workers -> Job] /\ drift' \in BOOLEAN
    BY <1>4, JobsMade, BeginEffect DEF Ban, Unban
  <2>. QED
    BY <1>4, <2>1 DEF Ban, Unban, TypeOK, tables
<1>5. ASSUME NEW r \in Riders, Purge(w, r)
      PROVE  TypeOK'
  <2>1. job' \in [Workers -> Job] /\ drift' \in BOOLEAN
    BY <1>5, JobsMade, BeginEffect DEF Purge
  <2>2. status' \in [Trips -> {"none", "flagged", "validated", "rejected"}]
    BY <1>5 DEF Purge, TypeOK
  <2>3. totals' \in [Riders -> Sums \cup {NoRow}]
    BY <1>5 DEF Purge, TypeOK
  <2>. QED
    BY <1>5, <2>1, <2>2, <2>3 DEF Purge, TypeOK
<1>6. CASE ApproveAll(w)
    BY <1>6, ApproveType DEF ApproveAll, Flagged
<1>7. CASE RejectAll(w)
  <2>1. job' \in [Workers -> Job] /\ drift' \in BOOLEAN
    BY <1>7, JobsMade, BeginEffect DEF RejectAll
  <2>2. status' \in [Trips -> {"none", "flagged", "validated", "rejected"}]
    BY <1>7 DEF RejectAll, TypeOK
  <2>. QED
    BY <1>7, <2>1, <2>2 DEF RejectAll, TypeOK, people
<1>8. CASE Rebuild(w)
  <2>1. job' \in [Workers -> Job] /\ drift' \in BOOLEAN
    BY <1>8, JobsMade, BeginEffect DEF Rebuild
  <2>. QED
    BY <1>8, <2>1 DEF Rebuild, TypeOK, tables, people
<1>9. CASE Reconcile(w)
  <2>1. PICK begun \in FirstOf(Missed) : Begin(w, begun)
    BY <1>9 DEF Reconcile
  <2>2. Missed \in SUBSET Trips
    BY DEF Missed, Validated
  <2>3. job' \in [Workers -> Job] /\ drift' \in BOOLEAN
    BY <2>1, <2>2, FirstOfMade, BeginEffect
  <2>. QED
    BY <1>9, <2>3 DEF Reconcile, TypeOK, tables, people
<1>. QED
    BY <1>1, <1>2, <1>3, <1>4, <1>5, <1>6, <1>7, <1>8, <1>9 DEF Requests

LEMMA StepType ==
    ASSUME TypeOK, TodoRight, NEW w \in Workers, Step(w)
    PROVE  TypeOK'
<1>0. job[w] \in Job
    BY DEF TypeOK
<1>1. CASE Insert(w)
  <2>1. job[w].trip \in Trips
    BY <1>1 DEF Insert, TodoRight
  <2>2. job' \in [Workers -> Job]
    BY <1>1, <2>1, JobsMade, ApplyingMade, GoEffect DEF Insert
  <2>3. status' \in [Trips -> {"none", "flagged", "validated", "rejected"}]
    BY <1>1 DEF Insert, TypeOK
  <2>. QED
    BY <1>1, <2>2, <2>3 DEF Insert, TypeOK, people
<1>2. CASE Clear(w)
  <2>1. job' \in [Workers -> Job]
    BY <1>2, JobsMade, GoEffect DEF Clear, Job
  <2>2. totals' \in [Riders -> Sums \cup {NoRow}]
    BY <1>2 DEF Clear
  <2>. QED
    BY <1>2, <2>1, <2>2 DEF Clear, Unflagged, TypeOK, people
<1>3. CASE List(w)
  <2>1. PICK begun \in FirstOf({t \in Validated : Owner[t] \notin Excluded}) :
            Go(w, [begun EXCEPT !.whole = job[w].whole])
    BY <1>3 DEF List
  <2>2. begun \in Job
    BY <2>1, FirstOfMade DEF Validated
  <2>3. [begun EXCEPT !.whole = job[w].whole] \in Job
    BY <1>0, <2>2 DEF Job
  <2>4. job' \in [Workers -> Job]
    BY <2>1, <2>3, GoEffect
  <2>. QED
    BY <1>3, <2>4 DEF List, TypeOK, tables, people
<1>4. CASE Read(w)
  <2>1. job[w].trip \in Trips
    BY <1>4 DEF Read, TodoRight, Taking
  <2>2. totals[Owner[job[w].trip]] \in Sums \cup {NoRow}
    BY <2>1, NamesAssumption DEF TypeOK
  <2>3. [job[w] EXCEPT !.step = "write", !.seen = totals[Owner[job[w].trip]]] \in Job
    BY <1>0, <2>2 DEF Job
  <2>4. job' \in [Workers -> Job]
    BY <1>4, <2>3, GoEffect DEF Read
  <2>. QED
    BY <1>4, <2>4 DEF Read, TypeOK, tables, people
<1>5. CASE Write(w)
  <2>1. job[w].trip \in Trips
    BY <1>5 DEF Write, TodoRight, Taking
  <2>2. [job[w] EXCEPT !.step = "apply", !.trip = NoTrip, !.seen = NoRow] \in Job
    BY <1>0 DEF Job
  <2>3. job' \in [Workers -> Job] /\ drift' \in BOOLEAN
    BY <1>5, <2>2, JobsMade, GoEffect DEF Write, Abort, TypeOK
  <2>4. Plus(IF job[w].seen = NoRow THEN Zero ELSE job[w].seen, job[w].trip) \in Sums
    BY <1>0, <2>1, PlusType DEF Job, Zero, Sums, Twice
  <2>5. totals' \in [Riders -> Sums \cup {NoRow}]
    BY <1>5, <2>4 DEF Write, TypeOK
  <2>6. country' \subseteq Trips /\ aggregated' \subseteq Trips
    BY <1>5, <2>1 DEF Write, Validated, TypeOK
  <2>. QED
    BY <1>5, <2>3, <2>5, <2>6 DEF Write, TypeOK, people
<1>6. CASE Finish(w)
  <2>1. job' \in [Workers -> Job] /\ drift' \in BOOLEAN
    BY <1>6, JobsMade, GoEffect DEF Finish, TypeOK
  <2>. QED
    BY <1>6, <2>1 DEF Finish, TypeOK, tables, people
<1>7. ASSUME NEW t \in Trips, Check(w, t)
      PROVE  TypeOK'
  <2>1. [job[w] EXCEPT !.todo = @ \ {t}, !.step = IF Due(t) THEN "read" ELSE "apply",
                      !.trip = IF Due(t) THEN t ELSE NoTrip] \in Job
    BY <1>0 DEF Job
  <2>2. job' \in [Workers -> Job] /\ drift' \in BOOLEAN
    BY <1>7, <2>1, JobsMade, GoEffect DEF Check, Abort, TypeOK
  <2>. QED
    BY <1>7, <2>2 DEF Check, TypeOK, tables, people
<1>. QED
    BY <1>1, <1>2, <1>3, <1>4, <1>5, <1>6, <1>7 DEF Step

LEMMA InitType == Init => TypeOK /\ TodoRight
<1> SUFFICES ASSUME Init PROVE TypeOK /\ TodoRight
    OBVIOUS
<1>1. job \in [Workers -> Job] /\ \A w \in Workers : job[w] = NoJob
    BY JobsMade DEF Init
<1>2. TodoRight
    BY <1>1, JobsMade DEF TodoRight, Taking
<1>3. totals \in [Riders -> Sums \cup {NoRow}] /\ crashes \in 0..MaxCrashes
    BY CrashAssumption DEF Init
<1>. QED
    BY <1>1, <1>2, <1>3 DEF Init, TypeOK

-----------------------------------------------------------------------------
(* Who is at work, and whether the sums can be relied on. *)

\* What is right of a worker alone is right of all the idle ones as well.
LEMMA SoundForAll ==
    ASSUME TypeOK', TodoRight', NEW w \in Workers,
           (Trusted => Calm(w) /\ (job[w].step # "clear" => Sound(w)))'
    PROVE  SumsRight'
<1> SUFFICES ASSUME NEW v \in Workers, Trusted', Calm(v)', job'[v].step # "clear"
             PROVE  Sound(v)'
    BY DEF SumsRight
<1>1. CASE v = w
    BY <1>1
<1>2. CASE v # w
  <2>1. Idle(v)' /\ Idle(w)'
    BY <1>2 DEF Calm, Others
  <2>2. Sound(w)'
    BY <2>1 DEF Idle
  <2>3. job'[v].todo = {} /\ job'[w].todo = {} /\ ~Taking(v)' /\ ~Taking(w)'
    BY <2>1 DEF Idle, TodoRight, Taking
  <2>4. \A t \in Trips : Holds(v, t)' <=> Holds(w, t)'
    BY <2>1, <2>3 DEF Holds, Idle
  <2>. QED
    BY <2>1, <2>2, <2>3, <2>4 DEF Sound, Idle, Validated
<1>. QED
    BY <1>1, <1>2

\* A job may only begin, in a time that can be relied on, where nobody works.
LEMMA BeginAlone ==
    ASSUME TypeOK, TodoRight, OneJob, NEW w \in Workers, NEW begun \in Job, Begin(w, begun),
           begun.whole = FALSE,
           begun.step \in {"read", "write", "insert"} => begun.trip \in Trips,
           begun.step \notin {"apply", "read", "write"} => begun.todo = {}
    PROVE  /\ TodoRight' /\ OneJob'
           /\ Trusted' => Trusted /\ Calm(w) /\ Calm(w)'
<1>1. /\ Idle(w) /\ job'[w] = begun
      /\ \A v \in Others(w) : job'[v].step = job[v].step /\ job'[v].trip = job[v].trip
            /\ job'[v].todo = job[v].todo /\ job'[v].whole = FALSE
      /\ drift' <=> drift \/ \E v \in Others(w) : ~Idle(v)
    BY BeginEffect
<1>2. \A v \in Workers : v = w \/ v \in Others(w)
    BY DEF Others
<1>3. \A v \in Workers : job'[v].whole = FALSE
    BY <1>1, <1>2
<1>4. Trusted' => ~drift /\ Calm(w)
    BY <1>1, <1>3 DEF Trusted, Calm
<1>5. Calm(w) => Calm(w)'
    BY <1>1 DEF Calm, Others, Idle
<1>6. TodoRight'
    BY <1>1, <1>2 DEF TodoRight, Taking
<1>7. OneJob'
  <2>1. ~drift' => \A v \in Workers : ~Idle(v)' => v = w
    BY <1>1, <1>2, <1>4, <1>5 DEF Trusted, Calm
  <2>. QED
    BY <1>3, <2>1 DEF OneJob
<1>. QED
    BY <1>4, <1>5, <1>6, <1>7 DEF Trusted

\* A step of a job never makes the sums reliable: where they are, its worker
\* was alone already.
LEMMA GoAlone ==
    ASSUME TypeOK, TodoRight, OneJob, NEW w \in Workers, NEW next \in Job, Go(w, next), ~Idle(w),
           ~drift' => ~drift \/ job[w].whole,
           next.whole => /\ job[w].whole \/ Calm(w)
                         /\ next.step \in {"list", "apply", "read", "write"},
           next.step \in {"read", "write", "insert"} => next.trip \in Trips,
           next.step \notin {"apply", "read", "write"} => next.todo = {}
    PROVE  /\ TodoRight' /\ OneJob'
           /\ Trusted' => Calm(w) /\ Calm(w)' /\ (~drift' \/ next.whole)
           /\ Trusted' /\ (next.whole => job[w].whole) => Trusted
<1>1. job'[w] = next /\ \A v \in Others(w) : job'[v] = job[v]
    BY GoEffect
<1>2. \A v \in Workers : v = w \/ v \in Others(w)
    BY DEF Others
<1>3. job[w].whole => Calm(w)
    BY DEF OneJob
<1>4. ~drift => Calm(w)
    BY <1>2 DEF OneJob, Calm, Others
<1>5. \A v \in Others(w) : ~job[v].whole
    BY DEF OneJob, Calm, Others
<1>6. \A v \in Others(w) : ~job'[v].whole
    BY <1>1, <1>5
<1>7. Trusted' => ~drift' \/ next.whole
    BY <1>1, <1>2, <1>6 DEF Trusted
<1>8. Trusted' => Calm(w)
    BY <1>3, <1>4, <1>7
<1>9. Calm(w) => Calm(w)'
    BY <1>1 DEF Calm, Others, Idle
<1>10. Trusted' /\ (next.whole => job[w].whole) => Trusted
    BY <1>7 DEF Trusted
<1>11. TodoRight'
    BY <1>1, <1>2 DEF TodoRight, Taking
<1>12. OneJob'
  <2>1. ~drift' => \A v \in Workers : ~Idle(v)' => v = w
    BY <1>2, <1>3, <1>4, <1>9 DEF Calm
  <2>2. \A v \in Workers : job'[v].whole => v = w /\ next.whole
    BY <1>1, <1>2, <1>6
  <2>3. next.whole => Calm(w)'
    BY <1>3, <1>9
  <2>. QED
    BY <1>1, <2>1, <2>2, <2>3 DEF OneJob
<1>. QED
    BY <1>7, <1>8, <1>9, <1>10, <1>11, <1>12

LEMMA SoundBefore ==
    ASSUME SumsRight, NEW w \in Workers, Trusted, Calm(w), job[w].step # "clear"
    PROVE  Sound(w)
BY DEF SumsRight

-----------------------------------------------------------------------------
(* Requests: what begins a job. *)

LEMMA AccountsPreserve ==
    ASSUME IInv, Accounts
    PROVE  IInv'
<1>1. TypeOK' /\ UNCHANGED <<tables, banned, job, drift>> /\ closed \subseteq closed'
    BY AccountsType DEF IInv, Accounts, Register, CloseAccount, tables
<1>2. TodoRight' /\ OneJob'
    BY <1>1 DEF IInv, TodoRight, OneJob, Taking, Calm, Idle
<1>3. ASSUME NEW w \in Workers, Sound(w)
      PROVE  Sound(w)'
    BY <1>1, <1>3 DEF Sound, CountedAsFlagged, Count, Validated, Excluded, Holds, Taking, tables
<1>4. SumsRight'
    BY <1>1, <1>3 DEF IInv, SumsRight, Trusted, Calm, Idle
<1>. QED
    BY <1>1, <1>2, <1>4 DEF IInv

LEMMA CrashPreserves ==
    ASSUME IInv, Crash
    PROVE  IInv'
<1>1. TypeOK' /\ drift' /\ \A w \in Workers : job'[w] = NoJob
    BY CrashType DEF IInv, Crash
<1>2. TodoRight' /\ OneJob' /\ ~Trusted'
    BY <1>1, JobsMade DEF TodoRight, OneJob, Taking, Trusted
<1>. QED
    BY <1>1, <1>2 DEF IInv, SumsRight

\* A request that ends in a rebuild, whatever else it does.
LEMMA RebuildPreserves ==
    ASSUME IInv, TypeOK', NEW w \in Workers, Begin(w, Rebuilding)
    PROVE  IInv'
<1>1. TodoRight' /\ OneJob' /\ (Trusted' => Calm(w)')
    BY BeginAlone, JobsMade DEF IInv
<1>2. job'[w].step = "clear"
    BY BeginEffect, JobsMade DEF IInv
<1>3. (Trusted => Calm(w) /\ (job[w].step # "clear" => Sound(w)))'
    BY <1>1, <1>2
<1>4. SumsRight'
    BY <1>1, <1>3, SoundForAll
<1>. QED
    BY <1>1, <1>4 DEF IInv

LEMMA SoundWhenIdle ==
    ASSUME TypeOK, TodoRight, NEW w \in Workers, Idle(w), Sound(w)
    PROVE  /\ CountedAsFlagged /\ aggregated \subseteq Validated \cap country
           /\ \A t \in Validated : Owner[t] \notin Excluded => t \in aggregated
BY DEF Sound, Holds, TodoRight, Taking, Idle

\* A request that changes no sum and begins a job without one to clear.
LEMMA RequestPreserves ==
    ASSUME IInv, TypeOK', NEW w \in Workers, NEW begun \in Job, Begin(w, begun),
           begun.whole = FALSE,
           begun.step = "insert" => begun.trip \in Trips,
           begun.step \in {"idle", "insert", "apply"},
           begun.step # "apply" => begun.todo = {},
           UNCHANGED <<aggregated, totals, country, people>>,
           Validated \cap aggregated \subseteq Validated',
           \A t \in Validated' : t \in Validated \/ t \in begun.todo
    PROVE  IInv'
<1>1. TodoRight' /\ OneJob' /\ (Trusted' => Trusted /\ Calm(w) /\ Calm(w)')
    BY BeginAlone DEF IInv
<1>2. Idle(w) /\ job'[w] = begun
    BY BeginEffect DEF IInv
<1>3. ASSUME Trusted'
      PROVE  Sound(w)'
  <2>1. Sound(w)
    BY <1>1, <1>2, <1>3, SoundBefore DEF IInv, Idle
  <2>2. /\ CountedAsFlagged /\ aggregated \subseteq Validated \cap country
        /\ \A t \in Validated : Owner[t] \notin Excluded => t \in aggregated
    BY <1>2, <2>1, SoundWhenIdle DEF IInv
  <2>3. CountedAsFlagged'
    BY <2>2 DEF CountedAsFlagged, Count
  <2>4. (aggregated \subseteq Validated \cap country)'
    BY <2>2
  <2>5. ASSUME NEW t \in Validated', (Owner[t] \notin Excluded)'
        PROVE  (t \in aggregated \/ Holds(w, t))'
    BY <1>2, <2>2, <2>5 DEF Holds, Excluded, people
  <2>6. ~Taking(w)' /\ job'[w].step # "write"
    BY <1>2 DEF Taking
  <2>. QED
    BY <2>3, <2>4, <2>5, <2>6 DEF Sound
<1>4. (Trusted => Calm(w) /\ (job[w].step # "clear" => Sound(w)))'
    BY <1>1, <1>3
<1>5. SumsRight'
    BY <1>1, <1>4, SoundForAll
<1>. QED
    BY <1>1, <1>5 DEF IInv

LEMMA ApprovePreserves ==
    ASSUME IInv, TypeOK', NEW w \in Workers, NEW S \in SUBSET Trips, Approve(w, S)
    PROVE  IInv'
<1>1. Validated \subseteq Validated' /\ \A t \in Validated' : t \in Validated \/ t \in S
    BY DEF Validated, Approve, Approved
<1>. QED
    BY <1>1, ApplyingMade, RequestPreserves DEF Approve

LEMMA RequestsPreserve ==
    ASSUME IInv, NEW w \in Workers, Requests(w)
    PROVE  IInv'
<1>0. TypeOK'
    BY RequestsType DEF IInv
<1>1. ASSUME NEW t \in Trips, Upload(w, t)
      PROVE  IInv'
  <2>1. Validated' = Validated /\ UNCHANGED <<aggregated, totals, country, people>>
    BY <1>1 DEF Upload, Validated, tables
  <2>2. PICK begun \in Job :
            /\ begun.step = "insert" /\ begun.trip = t /\ begun.todo = {}
            /\ begun.whole = FALSE /\ Begin(w, begun)
    <3> DEFINE begun == [NoJob EXCEPT !.step = "insert", !.trip = t]
    <3>1. Begin(w, begun)
      BY <1>1 DEF Upload
    <3>2. /\ begun \in Job /\ begun.step = "insert" /\ begun.trip = t /\ begun.todo = {}
          /\ begun.whole = FALSE
      BY InsertMade
    <3>. QED
      BY <3>1, <3>2
  <2>. QED
    BY <1>0, <2>1, <2>2, RequestPreserves
<1>2. ASSUME NEW t \in Trips, ApproveTrip(w, t)
      PROVE  IInv'
    BY <1>0, <1>2, ApprovePreserves DEF ApproveTrip
<1>3. ASSUME NEW t \in Trips, RejectTrip(w, t)
      PROVE  IInv'
  <2>1. CASE status[t] = "validated"
    BY <1>0, <1>3, <2>1, RebuildPreserves DEF RejectTrip, AfterReject
  <2>2. CASE status[t] # "validated"
    <3>1. Validated' = Validated
      BY <1>3, <2>2 DEF RejectTrip, Validated, IInv, TypeOK
    <3>. QED
      BY <1>0, <1>3, <2>2, <3>1, JobsMade, RequestPreserves DEF RejectTrip, AfterReject
  <2>. QED
    BY <2>1, <2>2
<1>4. ASSUME NEW r \in Riders, Ban(w, r) \/ Unban(w, r) \/ Purge(w, r)
      PROVE  IInv'
    BY <1>0, <1>4, RebuildPreserves DEF Ban, Unban, Purge
<1>5. CASE ApproveAll(w)
    BY <1>0, <1>5, ApprovePreserves DEF ApproveAll, Flagged
<1>6. CASE RejectAll(w)
  <2>1. Validated' = Validated
    BY <1>6 DEF RejectAll, Validated, Flagged
  <2>. QED
    BY <1>0, <1>6, <2>1, JobsMade, RequestPreserves DEF RejectAll
<1>7. CASE Rebuild(w)
    BY <1>0, <1>7, RebuildPreserves DEF Rebuild
<1>8. CASE Reconcile(w)
  <2>1. PICK begun \in FirstOf(Missed) : Begin(w, begun)
    BY <1>8 DEF Reconcile
  <2>2. Missed \in SUBSET Trips
    BY DEF Missed, Validated
  <2>3. /\ begun \in Job /\ begun.whole = FALSE /\ begun.step \in {"apply", "read"}
        /\ begun.step = "read" => begun.trip \in Trips
    BY <2>1, <2>2, FirstOfMade
  <2>4. TodoRight' /\ OneJob' /\ (Trusted' => Trusted /\ Calm(w))
    BY <2>1, <2>3, BeginAlone DEF IInv
  <2>5. Idle(w)
    BY <2>1 DEF Begin
  <2>6. ~Trusted'
    <3> SUFFICES ASSUME Trusted' PROVE FALSE
      OBVIOUS
    <3>1. Sound(w)
      BY <2>4, <2>5, SoundBefore DEF IInv, Idle
    <3>2. \A t \in Validated : Owner[t] \notin Excluded => t \in aggregated
      BY <2>5, <3>1, SoundWhenIdle DEF IInv
    <3>. QED
      BY <1>8, <3>2 DEF Reconcile, Missed
  <2>. QED
    BY <1>0, <2>4, <2>6 DEF IInv, SumsRight
<1>. QED
    BY <1>1, <1>2, <1>3, <1>4, <1>5, <1>6, <1>7, <1>8 DEF Requests

-----------------------------------------------------------------------------
(* Steps of a job. *)

LEMMA InsertPreserves ==
    ASSUME IInv, TypeOK', NEW w \in Workers, Insert(w)
    PROVE  IInv'
<1> DEFINE t == job[w].trip
<1>1. t \in Trips /\ job[w].todo = {} /\ job[w].step = "insert" /\ ~Idle(w)
    BY DEF Insert, IInv, TodoRight, Idle
<1>2. UNCHANGED <<aggregated, totals, country, people, drift>>
    BY DEF Insert
<1>3. PICK next \in {NoJob, Applying({t})} :
        /\ Go(w, next)
        /\ Validated \subseteq Validated'
        /\ \A u \in Validated' : u \in Validated \/ u \in next.todo
  <2>1. CASE UNCHANGED status /\ Go(w, NoJob)
    BY <2>1 DEF Validated
  <2>2. CASE status[t] = "none" /\ status' = [status EXCEPT ![t] = "flagged"] /\ Go(w, NoJob)
    BY <1>1, <2>2 DEF Validated, IInv, TypeOK
  <2>3. CASE /\ status[t] = "none" /\ status' = [status EXCEPT ![t] = "validated"]
             /\ Go(w, Applying({t}))
    <3>1. Applying({t}).todo = {t}
      BY <1>1, ApplyingMade
    <3>2. Validated' = Validated \cup {t}
      BY <1>1, <2>3 DEF Validated, IInv, TypeOK
    <3>. QED
      BY <2>3, <3>1, <3>2
  <2>4. \/ UNCHANGED status /\ Go(w, NoJob)
        \/ status[t] = "none" /\ status' = [status EXCEPT ![t] = "flagged"] /\ Go(w, NoJob)
        \/ /\ status[t] = "none" /\ status' = [status EXCEPT ![t] = "validated"]
           /\ Go(w, Applying({t}))
    BY DEF Insert
  <2>. QED
    BY <2>1, <2>2, <2>3, <2>4
<1>4. next \in Job /\ next.step \in {"idle", "apply"} /\ next.whole = FALSE
      /\ (next.step = "idle" => next.todo = {})
  <2>1. {t} \in SUBSET Trips
    BY <1>1
  <2>2. Applying({t}) \in Job /\ Applying({t}).step = "apply" /\ Applying({t}).whole = FALSE
    BY <2>1, ApplyingMade
  <2>. QED
    BY <2>2, JobsMade
<1>5. TodoRight' /\ OneJob' /\ (Trusted' => Trusted /\ Calm(w) /\ Calm(w)')
    BY <1>1, <1>2, <1>3, <1>4, GoAlone DEF IInv
<1>6. job'[w] = next
    BY <1>3, <1>4, GoEffect DEF IInv
<1>7. ASSUME Trusted' PROVE Sound(w)'
  <2>1. Sound(w)
    BY <1>1, <1>5, <1>7, SoundBefore DEF IInv
  <2>2. \A u \in Validated : Owner[u] \notin Excluded => u \in aggregated
    BY <1>1, <2>1 DEF Sound, Holds, Taking
  <2>3. CountedAsFlagged' /\ (aggregated \subseteq Validated \cap country)'
    BY <1>2, <1>3, <2>1 DEF Sound, CountedAsFlagged, Count
  <2>4. ASSUME NEW u \in Validated', (Owner[u] \notin Excluded)'
        PROVE  (u \in aggregated \/ Holds(w, u))'
    BY <1>2, <1>3, <1>6, <2>2, <2>4 DEF Holds, Excluded, people
  <2>5. ~Taking(w)' /\ job'[w].step # "write"
    BY <1>4, <1>6 DEF Taking
  <2>. QED
    BY <2>3, <2>4, <2>5 DEF Sound
<1>8. (Trusted => Calm(w) /\ (job[w].step # "clear" => Sound(w)))'
    BY <1>5, <1>7
<1>9. SumsRight'
    BY <1>5, <1>8, SoundForAll
<1>. QED
    BY <1>5, <1>9 DEF IInv

LEMMA ClearPreserves ==
    ASSUME IInv, TypeOK', NEW w \in Workers, Clear(w)
    PROVE  IInv'
<1> DEFINE next == [Rebuilding EXCEPT !.step = "list", !.whole = Calm(w)]
<1>1. /\ next \in Job /\ next.step = "list" /\ next.todo = {} /\ (next.whole <=> Calm(w))
    BY JobsMade DEF Job, Calm
<1>2. Go(w, next) /\ ~Idle(w) /\ drift' = drift
    BY DEF Clear, Idle, Calm
<1>3. TodoRight' /\ OneJob' /\ (Trusted' => Calm(w)')
    BY <1>1, <1>2, GoAlone DEF IInv
<1>4. job'[w] = next
    BY <1>1, <1>2, GoEffect DEF IInv
<1>5. Sound(w)'
  <2>1. CountedAsFlagged'
    BY NamesAssumption DEF Clear, Unflagged, CountedAsFlagged, Count
  <2>2. \A t : Holds(w, t)'
    BY <1>1, <1>4 DEF Holds
  <2>3. aggregated' = {} /\ ~Taking(w)' /\ job'[w].step # "write"
    BY <1>1, <1>4 DEF Clear, Unflagged, Taking
  <2>. QED
    BY <2>1, <2>2, <2>3 DEF Sound
<1>6. (Trusted => Calm(w) /\ (job[w].step # "clear" => Sound(w)))'
    BY <1>3, <1>5
<1>7. SumsRight'
    BY <1>3, <1>6, SoundForAll
<1>. QED
    BY <1>3, <1>7 DEF IInv

\* A step that writes nothing and keeps what is at hand consistent.
LEMMA QuietPreserves ==
    ASSUME IInv, TypeOK', NEW w \in Workers, NEW next \in Job, Go(w, next), ~Idle(w),
           job[w].step # "clear",
           ~drift' => ~drift \/ job[w].whole,
           next.whole => /\ job[w].whole
                         /\ next.step \in {"list", "apply", "read", "write"},
           next.step \notin {"clear", "insert"},
           next.step \in {"read", "write"} => next.trip \in Trips,
           next.step \notin {"apply", "read", "write"} => next.todo = {},
           UNCHANGED <<tables, people>>,
           (~drift' \/ next.whole) /\ Sound(w) =>
              /\ \A t \in Validated : Owner[t] \notin Excluded =>
                    \/ t \in aggregated \cup next.todo
                    \/ next.step \in {"read", "write"} /\ t = next.trip
              /\ next.step \in {"read", "write"} => next.trip \in Validated \ aggregated
              /\ next.step = "write" => next.seen = totals[Owner[next.trip]]
    PROVE  IInv'
<1>1. /\ TodoRight' /\ OneJob'
      /\ Trusted' => Trusted /\ Calm(w) /\ Calm(w)' /\ (~drift' \/ next.whole)
    BY GoAlone DEF IInv
<1>2. job'[w] = next
    BY GoEffect DEF IInv
<1>3. ASSUME Trusted' PROVE Sound(w)'
  <2>1. Sound(w)
    BY <1>1, <1>3, SoundBefore DEF IInv
  <2>2. Validated' = Validated /\ Excluded' = Excluded /\ UNCHANGED <<aggregated, totals, country>>
    BY DEF Validated, Excluded, tables, people
  <2>3. CountedAsFlagged' /\ (aggregated \subseteq Validated \cap country)'
    BY <2>1, <2>2 DEF Sound, CountedAsFlagged, Count
  <2>4. \A t \in Validated : Owner[t] \notin Excluded => t \in aggregated \/ Holds(w, t)'
    BY <1>1, <1>2, <1>3, <2>1 DEF Holds, Taking
  <2>5. Taking(w)' => job'[w].trip \in Validated \ aggregated
    BY <1>1, <1>2, <1>3, <2>1 DEF Taking
  <2>6. job'[w].step = "write" => job'[w].seen = totals[Owner[job'[w].trip]]
    BY <1>1, <1>2, <1>3, <2>1
  <2>. QED
    BY <2>2, <2>3, <2>4, <2>5, <2>6 DEF Sound
<1>4. (Trusted => Calm(w) /\ (job[w].step # "clear" => Sound(w)))'
    BY <1>1, <1>3
<1>5. SumsRight'
    BY <1>1, <1>4, SoundForAll
<1>. QED
    BY <1>1, <1>5 DEF IInv

LEMMA AbortPreserves ==
    ASSUME IInv, TypeOK', NEW w \in Workers, Abort(w), ~Idle(w)
    PROVE  IInv'
<1>1. TodoRight' /\ OneJob' /\ ~Trusted'
    BY JobsMade, GoAlone DEF Abort, IInv
<1>. QED
    BY <1>1 DEF IInv, SumsRight

LEMMA ListPreserves ==
    ASSUME IInv, TypeOK', NEW w \in Workers, List(w)
    PROVE  IInv'
<1> DEFINE S == {t \in Validated : Owner[t] \notin Excluded}
<1>0. S \in SUBSET Trips
    BY DEF Validated
<1>1. PICK begun \in FirstOf(S) : Go(w, [begun EXCEPT !.whole = job[w].whole])
    BY DEF List
<1> HIDE DEF S
<1>2. /\ begun \in Job
      /\ \/ S \subseteq aggregated /\ begun.step = "apply" /\ begun.todo = S
         \/ /\ begun.step = "read" /\ begun.trip \in S \ aggregated
            /\ begun.todo = S \ {begun.trip}
    BY <1>0, FirstOfMade
<1> DEFINE next == [begun EXCEPT !.whole = job[w].whole]
<1>3. job[w].whole \in BOOLEAN
    BY DEF IInv, TypeOK, Job
<1>4. /\ next \in Job /\ next.step = begun.step /\ next.todo = begun.todo
      /\ next.trip = begun.trip /\ (next.whole <=> job[w].whole)
    BY <1>2, <1>3 DEF Job
<1>5. job[w].step = "list" /\ drift' = drift /\ UNCHANGED <<tables, people>>
    BY DEF List
<1> HIDE DEF next
<1>6. ~Idle(w) /\ Go(w, next)
    BY <1>1, <1>5 DEF next, Idle
<1>7. next.step \in {"read", "apply"} /\ (next.step = "read" => next.trip \in Validated \ aggregated)
    BY <1>2, <1>4 DEF S
<1>8. \A t \in Validated : Owner[t] \notin Excluded =>
          \/ t \in aggregated \cup next.todo
          \/ next.step = "read" /\ t = next.trip
    BY <1>2, <1>4 DEF S
<1>9. Validated \subseteq Trips
    BY DEF Validated
<1>. QED
    BY <1>4, <1>5, <1>6, <1>7, <1>8, <1>9, QuietPreserves

LEMMA CheckPreserves ==
    ASSUME IInv, TypeOK', NEW w \in Workers, NEW t \in Trips, Check(w, t)
    PROVE  IInv'
<1>1. job[w].step = "apply" /\ ~Idle(w) /\ UNCHANGED <<tables, people>>
    BY DEF Check, Idle
<1>2. CASE status[t] = "none"
    BY <1>1, <1>2, AbortPreserves DEF Check
<1>3. CASE status[t] # "none"
  <2> DEFINE next == [job[w] EXCEPT !.todo = @ \ {t}, !.step = IF Due(t) THEN "read" ELSE "apply",
                      !.trip = IF Due(t) THEN t ELSE NoTrip]
  <2>1. Go(w, next) /\ drift' = drift
    BY <1>3 DEF Check
  <2>2. /\ next \in Job /\ next.todo = job[w].todo \ {t} /\ (next.whole <=> job[w].whole)
        /\ IF Due(t) THEN next.step = "read" /\ next.trip = t ELSE next.step = "apply"
    BY DEF Job, IInv, TypeOK
  <2> HIDE DEF next
  <2>3. Sound(w) => \A u \in Validated : Owner[u] \notin Excluded =>
                        u \in aggregated \cup next.todo \/ (next.step = "read" /\ u = next.trip)
    BY <1>1, <2>2 DEF Sound, Holds, Taking, Due
  <2>4. next.step = "read" => next.trip \in Validated \ aggregated /\ next.trip \in Trips
    BY <2>2 DEF Due
  <2>. QED
    BY <1>1, <2>1, <2>2, <2>3, <2>4, QuietPreserves
<1>. QED
    BY <1>2, <1>3

LEMMA ReadPreserves ==
    ASSUME IInv, TypeOK', NEW w \in Workers, Read(w)
    PROVE  IInv'
<1> DEFINE next == [job[w] EXCEPT !.step = "write", !.seen = totals[Owner[job[w].trip]]]
<1>1. job[w].step = "read" /\ ~Idle(w) /\ UNCHANGED <<tables, people>> /\ drift' = drift
      /\ Go(w, next)
    BY DEF Read, Idle
<1>2. job[w].trip \in Trips /\ totals[Owner[job[w].trip]] \in Sums \cup {NoRow}
    BY <1>1, NamesAssumption DEF IInv, TodoRight, Taking, TypeOK
<1>3. /\ next \in Job /\ next.todo = job[w].todo /\ (next.whole <=> job[w].whole)
      /\ next.trip = job[w].trip /\ next.step = "write"
      /\ next.seen = totals[Owner[job[w].trip]]
    BY <1>2 DEF Job, IInv, TypeOK
<1> HIDE DEF next
<1>4. Sound(w) =>
        /\ \A u \in Validated : Owner[u] \notin Excluded =>
                u \in aggregated \cup next.todo \/ u = next.trip
        /\ next.trip \in Validated \ aggregated
    BY <1>1, <1>3 DEF Sound, Holds, Taking
<1>. QED
    BY <1>1, <1>2, <1>3, <1>4, QuietPreserves

LEMMA FinishPreserves ==
    ASSUME IInv, TypeOK', NEW w \in Workers, Finish(w)
    PROVE  IInv'
<1>1. /\ job[w].step = "apply" /\ job[w].todo = {} /\ ~Idle(w) /\ UNCHANGED <<tables, people>>
      /\ Go(w, NoJob) /\ (~drift' => ~drift \/ job[w].whole)
    BY DEF Finish, Idle
<1>2. Sound(w) => \A u \in Validated : Owner[u] \notin Excluded => u \in aggregated
    BY <1>1 DEF Sound, Holds, Taking
<1>. QED
    BY <1>1, <1>2, JobsMade, QuietPreserves

LEMMA WritePreserves ==
    ASSUME IInv, TypeOK', NEW w \in Workers, Write(w)
    PROVE  IInv'
<1> DEFINE t == job[w].trip
           seen == job[w].seen
           next == [job[w] EXCEPT !.step = "apply", !.trip = NoTrip, !.seen = NoRow]
           before == IF seen = NoRow THEN Zero ELSE seen
           after == Plus(before, t)
<1>1. job[w].step = "write" /\ ~Idle(w) /\ UNCHANGED <<status, people>>
    BY DEF Write, Idle
<1>2. CASE Abort(w)
    BY <1>1, <1>2, AbortPreserves
<1>3. CASE /\ totals' = [totals EXCEPT ![Owner[t]] = after]
           /\ country' = Validated /\ aggregated' = aggregated \cup {t}
           /\ Go(w, next) /\ UNCHANGED drift
  <2>1. t \in Trips /\ Owner \in [Trips -> Riders] /\ totals \in [Riders -> Sums \cup {NoRow}]
        /\ seen \in Sums \cup {NoRow}
    BY <1>1, NamesAssumption DEF IInv, TodoRight, Taking, TypeOK, Job
  <2>2. /\ next \in Job /\ next.step = "apply" /\ next.todo = job[w].todo
        /\ (next.whole <=> job[w].whole)
    <3>1. job[w] \in Job
      BY DEF IInv, TypeOK
    <3>2. /\ next \in Job /\ next.step = "apply" /\ next.todo = job[w].todo
          /\ next.whole = job[w].whole
      BY <3>1 DEF Job
    <3>. QED
      BY <3>2
  <2>3. /\ TodoRight' /\ OneJob'
        /\ Trusted' => Trusted /\ Calm(w) /\ Calm(w)'
    BY <1>1, <1>3, <2>2, GoAlone DEF IInv
  <2>4. job'[w] = next
    BY <1>3, <2>2, GoEffect DEF IInv
  <2>5. ASSUME Trusted' PROVE Sound(w)'
    <3>1. Sound(w)
      BY <1>1, <2>3, <2>5, SoundBefore DEF IInv
    <3>2. t \in Validated \ aggregated /\ seen = totals[Owner[t]] /\ Count(t) = 0
      BY <1>1, <2>1, <3>1 DEF Sound, Taking, CountedAsFlagged
    <3>3. Zero \in Sums /\ \A u \in Trips : Zero[u] = 0
      BY DEF Zero, Sums, Twice
    <3>4. after \in Sums /\ after[t] = 1
          /\ \A u \in Trips : u # t => after[u] = IF seen = NoRow THEN 0 ELSE seen[u]
      <4>1. before \in Sums /\ before[t] = 0
        BY <2>1, <3>2, <3>3 DEF Count
      <4> HIDE DEF before
      <4>2. after \in Sums /\ after[t] = 1 /\ \A u \in Trips : u # t => after[u] = before[u]
        BY <2>1, <4>1, PlusType
      <4>. QED
        BY <3>3, <4>2 DEF before
    <3> HIDE DEF after
    <3>5. after # NoRow
      BY <3>4, RowAssumption DEF Sums, Twice
    <3>6. ASSUME NEW u \in Trips
          PROVE  Count(u)' = IF u = t THEN 1 ELSE Count(u)
      BY <1>3, <2>1, <3>2, <3>4, <3>5 DEF Count
    <3>7. CountedAsFlagged'
      BY <1>3, <3>1, <3>6 DEF Sound, CountedAsFlagged
    <3>8. Validated' = Validated /\ Excluded' = Excluded
      BY <1>1 DEF Validated, Excluded, people
    <3>9. (aggregated \subseteq Validated \cap country)'
      BY <1>3, <3>1, <3>2, <3>8 DEF Sound
    <3>10. \A u \in Validated : Owner[u] \notin Excluded => u \in aggregated' \/ u \in next.todo
      BY <1>1, <1>3, <2>2, <3>1 DEF Sound, Holds, Taking
    <3>11. ~Taking(w)' /\ job'[w].step # "write"
      BY <2>2, <2>4 DEF Taking
    <3>. QED
      BY <2>4, <3>7, <3>8, <3>9, <3>10, <3>11 DEF Sound, Holds
  <2>6. (Trusted => Calm(w) /\ (job[w].step # "clear" => Sound(w)))'
    BY <2>3, <2>5
  <2>7. SumsRight'
    BY <2>3, <2>6, SoundForAll
  <2>. QED
    BY <2>3, <2>7 DEF IInv
<1>. QED
    BY <1>2, <1>3 DEF Write

-----------------------------------------------------------------------------
LEMMA NextPreserves ==
    ASSUME IInv, Next
    PROVE  IInv'
<1>1. ASSUME NEW w \in Workers, Step(w)
      PROVE  IInv'
  <2>1. TypeOK'
    BY <1>1, StepType DEF IInv
  <2>. QED
    BY <1>1, <2>1, InsertPreserves, ClearPreserves, ListPreserves, ReadPreserves,
       WritePreserves, FinishPreserves, CheckPreserves DEF Step
<1>. QED
    BY <1>1, AccountsPreserve, CrashPreserves, RequestsPreserve DEF Next

LEMMA StutterPreserves ==
    ASSUME IInv, UNCHANGED vars
    PROVE  IInv'
<1>1. UNCHANGED <<status, aggregated, totals, country, registered, closed, banned, job,
                  crashes, drift>>
    BY DEF vars, tables, people
<1>2. TypeOK' /\ TodoRight' /\ OneJob'
    BY <1>1 DEF IInv, TypeOK, TodoRight, OneJob, Taking, Calm, Idle
<1>3. \A w \in Workers : Sound(w) => Sound(w)'
    BY <1>1 DEF Sound, CountedAsFlagged, Count, Validated, Excluded, Holds, Taking
<1>4. SumsRight'
    BY <1>1, <1>3 DEF IInv, SumsRight, Trusted, Calm, Idle
<1>. QED
    BY <1>2, <1>4 DEF IInv

LEMMA InitSound == Init => IInv
<1> SUFFICES ASSUME Init PROVE IInv
    OBVIOUS
<1>1. TypeOK /\ TodoRight
    BY InitType
<1>2. \A w \in Workers : Idle(w) /\ job[w].whole = FALSE /\ job[w].step = "idle"
    BY JobsMade DEF Init, Idle
<1>3. OneJob
    BY <1>2 DEF OneJob
<1>4. CountedAsFlagged /\ Validated = {} /\ aggregated = {}
    BY NamesAssumption DEF Init, CountedAsFlagged, Count, Validated
<1>5. SumsRight
    BY <1>2, <1>4 DEF SumsRight, Sound, Taking
<1>. QED
    BY <1>1, <1>3, <1>5 DEF IInv

\* The inductive invariant holds in every state.
THEOREM AggregationSound == Spec => []IInv
<1>1. IInv /\ [Next]_vars => IInv'
    BY NextPreserves, StutterPreserves
<1>. QED
    BY <1>1, InitSound, PTL DEF Spec

\* Whenever nothing is under way, and no jobs have overlapped or died since a
\* rebuild last ran alone, every validated ride of a rider who is not excluded
\* is in the sums exactly once, and nothing else is: for any number of
\* workers, riders and trips, and however often the process dies.
THEOREM SumsCorrect == Spec => []SumsSettled
<1>1. IInv => SumsSettled
  <2> SUFFICES ASSUME IInv, Quiet, ~drift PROVE SumsSettled
    BY DEF SumsSettled
  <2>1. PICK w \in Workers : TRUE
    BY WorkersAssumption
  <2>2. Idle(w) /\ Sound(w)
    BY SoundBefore DEF IInv, Quiet, Trusted, Calm, Others, Idle
  <2>3. /\ CountedAsFlagged /\ aggregated \subseteq Validated \cap country
        /\ \A t \in Validated : Owner[t] \notin Excluded => t \in aggregated
    BY <2>2, SoundWhenIdle DEF IInv
  <2>. QED
    BY <2>3 DEF SumsSettled, CountedAsFlagged, Validated
<1>. QED
    BY <1>1, AggregationSound, PTL

-----------------------------------------------------------------------------
(* One worker: a flag that can always be relied on. *)

OneWorker == \A v, w \in Workers : v = w

\* The worker, when it is counting a trip, has read what is there.
Steady ==
    /\ CountedAsFlagged
    /\ \A w \in Workers :
          /\ Taking(w) => job[w].trip \notin aggregated
          /\ job[w].step = "write" => job[w].seen = totals[Owner[job[w].trip]]

OInv == IInv /\ OneWorker /\ Steady

LEMMA SteadyKept ==
    ASSUME OInv, NEW w \in Workers, UNCHANGED <<aggregated, totals>>,
           job'[w].step \in {"read", "write"} => job'[w].trip \notin aggregated,
           job'[w].step = "write" => job'[w].seen = totals[Owner[job'[w].trip]]
    PROVE  Steady'
<1>1. CountedAsFlagged'
    BY DEF OInv, Steady, CountedAsFlagged, Count
<1>2. \A v \in Workers : v = w
    BY DEF OInv, OneWorker
<1>. QED
    BY <1>1, <1>2 DEF Steady, Taking

LEMMA RequestsSteady ==
    ASSUME OInv, NEW w \in Workers, Requests(w)
    PROVE  Steady'
<1>0. TypeOK
    BY DEF OInv, IInv
<1>1. ASSUME NEW t \in Trips, Upload(w, t)
      PROVE  Steady'
  <2> DEFINE begun == [NoJob EXCEPT !.step = "insert", !.trip = t]
  <2>1. begun \in Job /\ begun.step = "insert"
    BY InsertMade
  <2> HIDE DEF begun
  <2>2. Begin(w, begun) /\ UNCHANGED <<aggregated, totals>>
    BY <1>1 DEF Upload, tables, begun
  <2>3. job'[w] = begun
    BY <1>0, <2>1, <2>2, BeginEffect
  <2>. QED
    BY <2>1, <2>2, <2>3, SteadyKept
<1>2. ASSUME NEW S \in SUBSET Trips, Approve(w, S)
      PROVE  Steady'
  <2>1. Applying(S) \in Job /\ Applying(S).step = "apply"
    BY ApplyingMade
  <2>2. job'[w] = Applying(S)
    BY <1>0, <1>2, <2>1, BeginEffect DEF Approve
  <2>. QED
    BY <1>2, <2>1, <2>2, SteadyKept DEF Approve
<1>3. ASSUME NEW begun \in {NoJob, Rebuilding}, Begin(w, begun), UNCHANGED <<aggregated, totals>>
      PROVE  Steady'
  <2>1. job'[w].step \in {"idle", "clear"}
    BY <1>0, <1>3, JobsMade, BeginEffect
  <2>. QED
    BY <1>3, <2>1, SteadyKept
<1>4. ASSUME NEW t \in Trips, RejectTrip(w, t)
      PROVE  Steady'
    BY <1>3, <1>4 DEF RejectTrip, AfterReject
<1>5. ASSUME NEW r \in Riders, Ban(w, r) \/ Unban(w, r)
      PROVE  Steady'
    BY <1>3, <1>5 DEF Ban, Unban, tables
<1>6. ASSUME NEW r \in Riders, Purge(w, r)
      PROVE  Steady'
  <2>1. job'[w].step = "clear"
    BY <1>0, <1>6, JobsMade, BeginEffect DEF Purge
  <2>2. ASSUME NEW t \in Trips
        PROVE  Count(t)' = IF t \in aggregated' THEN 1 ELSE 0
    <3>1. Count(t) = IF t \in aggregated THEN 1 ELSE 0
      BY DEF OInv, Steady, CountedAsFlagged
    <3>2. CASE Owner[t] = r
      BY <1>0, <1>6, <3>2, NamesAssumption DEF Purge, Count, TypeOK
    <3>3. CASE Owner[t] # r
      BY <1>0, <1>6, <3>1, <3>3, NamesAssumption DEF Purge, Count, TypeOK
    <3>. QED
      BY <3>2, <3>3
  <2>3. \A v \in Workers : v = w
    BY DEF OInv, OneWorker
  <2>. QED
    BY <2>1, <2>2, <2>3 DEF Steady, Taking, CountedAsFlagged
<1>7. CASE Reconcile(w)
  <2>1. PICK begun \in FirstOf(Missed) : Begin(w, begun)
    BY <1>7 DEF Reconcile
  <2>2. Missed \in SUBSET Trips
    BY DEF Missed, Validated
  <2>3. /\ begun \in Job /\ begun.step \in {"apply", "read"}
        /\ begun.step = "read" => begun.trip \notin aggregated
    BY <2>1, <2>2, FirstOfMade
  <2>4. job'[w] = begun
    BY <1>0, <2>1, <2>3, BeginEffect
  <2>. QED
    BY <1>7, <2>3, <2>4, SteadyKept DEF Reconcile, tables
<1>8. CASE ApproveAll(w) \/ \E t \in Trips : ApproveTrip(w, t)
    BY <1>2, <1>8 DEF ApproveAll, ApproveTrip, Flagged
<1>9. CASE RejectAll(w) \/ Rebuild(w)
    BY <1>3, <1>9 DEF RejectAll, Rebuild, tables
<1>. QED
    BY <1>1, <1>4, <1>5, <1>6, <1>7, <1>8, <1>9 DEF Requests

LEMMA StepSteady ==
    ASSUME OInv, NEW w \in Workers, Step(w)
    PROVE  Steady'
<1>0. TypeOK /\ TodoRight /\ job[w] \in Job
    BY DEF OInv, IInv, TypeOK
<1>1. ASSUME Go(w, NoJob), UNCHANGED <<aggregated, totals>>
      PROVE  Steady'
  <2>1. job'[w].step = "idle"
    BY <1>0, <1>1, JobsMade, GoEffect
  <2>. QED
    BY <1>1, <2>1, SteadyKept
<1>2. CASE Insert(w)
  <2> DEFINE t == job[w].trip
  <2>1. t \in Trips
    BY <1>0, <1>2 DEF Insert, TodoRight
  <2>2. CASE Go(w, Applying({t}))
    <3>1. {t} \in SUBSET Trips
      BY <2>1
    <3>2. Applying({t}) \in Job /\ Applying({t}).step = "apply"
      BY <3>1, ApplyingMade
    <3>3. job'[w] = Applying({t})
      BY <1>0, <2>2, <3>2, GoEffect
    <3>. QED
      BY <1>2, <3>2, <3>3, SteadyKept DEF Insert
  <2>. QED
    BY <1>1, <1>2, <2>2 DEF Insert
<1>3. CASE Clear(w)
  <2> DEFINE next == [Rebuilding EXCEPT !.step = "list", !.whole = Calm(w)]
  <2>1. next \in Job /\ next.step = "list"
    BY JobsMade DEF Job, Calm
  <2> HIDE DEF next
  <2>2. job'[w] = next
    BY <1>0, <1>3, <2>1, GoEffect DEF Clear, Calm, next
  <2>3. \A v \in Workers : v = w
    BY DEF OInv, OneWorker
  <2>. QED
    BY <1>3, <2>1, <2>2, <2>3, NamesAssumption
       DEF Clear, Unflagged, Steady, Taking, CountedAsFlagged, Count
<1>4. CASE List(w)
  <2> DEFINE S == {t \in Validated : Owner[t] \notin Excluded}
  <2>1. S \in SUBSET Trips
    BY DEF Validated
  <2>2. PICK begun \in FirstOf(S) : Go(w, [begun EXCEPT !.whole = job[w].whole])
    BY <1>4 DEF List
  <2> HIDE DEF S
  <2>3. /\ begun \in Job /\ begun.step \in {"apply", "read"}
        /\ begun.step = "read" => begun.trip \notin aggregated
    BY <2>1, <2>2, FirstOfMade
  <2>4. [begun EXCEPT !.whole = job[w].whole] \in Job
    BY <1>0, <2>3 DEF Job
  <2>5. job'[w].step = begun.step /\ job'[w].trip = begun.trip
    BY <1>0, <2>2, <2>3, <2>4, GoEffect DEF Job
  <2>. QED
    BY <1>4, <2>3, <2>5, SteadyKept DEF List, tables
<1>5. CASE Read(w)
  <2>1. job[w].step = "read" /\ job[w].trip \in Trips
    BY <1>0, <1>5 DEF Read, TodoRight, Taking
  <2>2. totals[Owner[job[w].trip]] \in Sums \cup {NoRow} /\ job[w].trip \notin aggregated
    BY <1>0, <2>1, NamesAssumption DEF TypeOK, OInv, Steady, Taking
  <2> DEFINE next == [job[w] EXCEPT !.step = "write", !.seen = totals[Owner[job[w].trip]]]
  <2>3. next \in Job /\ next.trip = job[w].trip /\ next.seen = totals[Owner[job[w].trip]]
    BY <1>0, <2>2 DEF Job
  <2> HIDE DEF next
  <2>4. job'[w] = next
    BY <1>0, <1>5, <2>3, GoEffect DEF Read, next
  <2>. QED
    BY <1>5, <2>2, <2>3, <2>4, SteadyKept DEF Read, tables
<1>6. CASE Write(w)
  <2> DEFINE t == job[w].trip
             seen == job[w].seen
             next == [job[w] EXCEPT !.step = "apply", !.trip = NoTrip, !.seen = NoRow]
             before == IF seen = NoRow THEN Zero ELSE seen
             after == Plus(before, t)
  <2>1. CASE Go(w, NoJob) /\ UNCHANGED <<aggregated, totals>>
    BY <1>1, <2>1
  <2>2. CASE /\ totals' = [totals EXCEPT ![Owner[t]] = after]
             /\ aggregated' = aggregated \cup {t} /\ Go(w, next)
    <3>1. /\ t \in Trips /\ t \notin aggregated /\ seen = totals[Owner[t]]
          /\ seen \in Sums \cup {NoRow} /\ totals \in [Riders -> Sums \cup {NoRow}]
          /\ Owner \in [Trips -> Riders]
      BY <1>0, <1>6, NamesAssumption DEF Write, TodoRight, Taking, TypeOK, Job, OInv, Steady
    <3>2. Count(t) = 0 /\ Zero \in Sums /\ \A u \in Trips : Zero[u] = 0
      BY <3>1 DEF OInv, Steady, CountedAsFlagged, Zero, Sums, Twice
    <3>3. before \in Sums /\ before[t] = 0
          /\ \A u \in Trips : Owner[u] = Owner[t] => before[u] = Count(u)
      BY <3>1, <3>2 DEF Count
    <3> HIDE DEF before
    <3>4. after \in Sums /\ after[t] = 1 /\ \A u \in Trips : u # t => after[u] = before[u]
      BY <3>1, <3>3, PlusType
    <3> HIDE DEF after
    <3>5. after # NoRow
      BY <3>4, RowAssumption DEF Sums, Twice
    <3>6. \A u \in Trips : Count(u)' = IF u = t THEN 1 ELSE Count(u)
      BY <2>2, <3>1, <3>3, <3>4, <3>5 DEF Count
    <3>7. CountedAsFlagged'
      BY <2>2, <3>6 DEF OInv, Steady, CountedAsFlagged
    <3>8. next \in Job /\ next.step = "apply"
      BY <1>0 DEF Job
    <3> HIDE DEF next
    <3>9. job'[w] = next /\ \A v \in Workers : v = w
      BY <1>0, <2>2, <3>8, GoEffect DEF OInv, OneWorker
    <3>. QED
      BY <3>7, <3>8, <3>9 DEF Steady, Taking
  <2>. QED
    BY <1>6, <2>1, <2>2 DEF Write, Abort
<1>7. CASE Finish(w)
    BY <1>1, <1>7 DEF Finish, tables
<1>8. ASSUME NEW t \in Trips, Check(w, t)
      PROVE  Steady'
  <2> DEFINE next == [job[w] EXCEPT !.todo = @ \ {t}, !.step = IF Due(t) THEN "read" ELSE "apply",
                      !.trip = IF Due(t) THEN t ELSE NoTrip]
  <2>1. CASE Go(w, next)
    <3>1. next \in Job /\ (IF Due(t) THEN next.step = "read" /\ next.trip = t
                                     ELSE next.step = "apply")
      BY <1>0 DEF Job
    <3>2. job'[w] = next
      BY <1>0, <2>1, <3>1, GoEffect
    <3> HIDE DEF next
    <3>. QED
      BY <1>8, <3>1, <3>2, SteadyKept DEF Check, tables, Due
  <2>. QED
    BY <1>1, <1>8, <2>1 DEF Check, Abort, tables
<1>. QED
    BY <1>2, <1>3, <1>4, <1>5, <1>6, <1>7, <1>8 DEF Step

\* Where all the work is done by one worker, who may die in the middle of it
\* and be asked anything in any order, the flag of a trip says at every moment
\* whether it is in the sums, and it is there once.
THEOREM FlagsCorrect == OneWorker /\ Spec => []CountedAsFlagged
<1>1. OneWorker /\ Init => OInv
  <2> SUFFICES ASSUME OneWorker, Init PROVE OInv
    OBVIOUS
  <2>1. \A w \in Workers : job[w].step = "idle"
    BY JobsMade DEF Init
  <2>. QED
    BY <2>1, InitSound, NamesAssumption
       DEF Init, OInv, Steady, Taking, CountedAsFlagged, Count
<1>2. OInv /\ Next => Steady'
  <2> SUFFICES ASSUME OInv, Next PROVE Steady'
    OBVIOUS
  <2>1. CASE Accounts
    BY <2>1 DEF Accounts, Register, CloseAccount, tables, OInv, Steady, CountedAsFlagged, Count,
       Taking
  <2>2. CASE Crash
    <3>1. \A w \in Workers : job'[w].step = "idle"
      BY <2>2, JobsMade DEF Crash
    <3>. QED
      BY <2>2, <3>1 DEF Crash, tables, OInv, Steady, CountedAsFlagged, Count, Taking
  <2>. QED
    BY <2>1, <2>2, RequestsSteady, StepSteady DEF Next
<1>3. OInv /\ UNCHANGED vars => Steady'
    BY DEF vars, tables, OInv, Steady, CountedAsFlagged, Count, Taking
<1>4. OInv /\ [Next]_vars => OInv'
  <2>1. IInv /\ [Next]_vars => IInv'
    BY NextPreserves, StutterPreserves
  <2>. QED
    BY <1>2, <1>3, <2>1 DEF OInv, OneWorker
<1>5. OInv => CountedAsFlagged
    BY DEF OInv, Steady
<1>. QED
    BY <1>1, <1>4, <1>5, PTL DEF Spec
=============================================================================
