---------------------------- MODULE UploadProofs ----------------------------
(***************************************************************************)
(* What holds of the crew a ride counts for, whatever uploads, requests    *)
(* and judgements overlap, for any rides, riders and crews; and of the     *)
(* records that a summary finds (top speed, sustained load, launch and     *)
(* stop), for any log of any length.                                       *)
(***************************************************************************)
EXTENDS MCUpload, AggregationProofs, Counting

MP == INSTANCE MembershipProofs WITH CrewIds <- Teams, Riders <- Cyclists, crew <- team

-----------------------------------------------------------------------------
\* Who is in a crew has been in it.
ComersKnown ==
    \A c \in Teams, r \in Cyclists : In(c, r) => <<r, c>> \in hasBeen

\* What a request goes on to stamp it has let in.
StampsKnown == stamping \subseteq hasBeen

\* The crew an upload has read is one its rider has been in, and its ride is
\* not stored yet.
ReadsKnown ==
    \A u \in deciding :
        /\ verdict[u.ride] = "none"
        /\ u.for = NoTeam \/ <<RiddenBy[u.ride], u.for>> \in hasBeen

\* A ride that is not stored counts for nobody.
UnstoredIsFree == \A t \in Rides : verdict[t] = "none" => credit[t] = NoTeam

CreditInv == CreditTypeOK /\ ComersKnown /\ StampsKnown /\ ReadsKnown /\ UnstoredIsFree

\* A step that writes the credits writes only what has been earned.
Earns ==
    \A t \in Rides : credit'[t] # credit[t] =>
        credit[t] = NoTeam /\ <<RiddenBy[t], credit'[t]>> \in hasBeen

LEMMA TablesTyped ==
    ASSUME M!TypeOK,
           \/ \E c \in Teams, r \in Cyclists :
                 M!Found(c, r) \/ M!Enter(c, r) \/ M!Depart(c, r) \/ M!TakeOver(c, r)
           \/ \E c \in Teams, a, r \in Cyclists : M!Rank(c, a, r)
           \/ \E c \in Teams : M!Close(c) \/ M!Reopen(c)
    PROVE  M!TypeOK'
<1>1. MP!Next
    BY DEF MP!Next, M!Found, MP!Found, M!Enter, MP!Enter, M!Depart, MP!Depart, M!TakeOver,
       MP!TakeOver, M!Rank, MP!Rank, M!Close, MP!Close, M!Reopen, MP!Reopen, M!Free, MP!Free,
       M!Members, MP!Members, M!Leaders, MP!Leaders, M!Stands, MP!Stands, M!Office, MP!Office,
       M!Manning, MP!Manning, M!Standings, MP!Standings
<1>. QED
    BY <1>1, MP!TypeStep DEF M!TypeOK, MP!TypeOK, M!Standings, MP!Standings, M!Manning, MP!Manning,
       M!Office, MP!Office

LEMMA CreditInitSound == CreditInit => CreditInv
<1> SUFFICES ASSUME CreditInit PROVE CreditInv
    OBVIOUS
<1>1. M!TypeOK
    BY DEF CreditInit, M!Init, M!TypeOK, M!Standings
<1>2. CreditTypeOK
    BY <1>1, FS_EmptySet DEF CreditInit, CreditTypeOK
<1>3. \A c \in Teams, r \in Cyclists : ~In(c, r)
    BY DEF CreditInit, M!Init, In, M!Manning, M!Office
<1>. QED
    BY <1>2, <1>3 DEF CreditInit, CreditInv, ComersKnown, StampsKnown, ReadsKnown, UnstoredIsFree

\* What a request does beside the tables of the crews.
Lets ==
    /\ hasBeen' = hasBeen \cup {p \in Cyclists \X Teams : In(p[2], p[1])'}
    /\ stamping' \subseteq stamping \cup {p \in Cyclists \X Teams : In(p[2], p[1])'}
    /\ UNCHANGED <<credit, verdict, deciding, longAgo>>

\* A request, whichever it is: who is in afterwards has been in.
LEMMA RequestSound == ASSUME CreditInv, M!TypeOK', Lets PROVE CreditInv' /\ Earns
<1>1. /\ stamping' \subseteq stamping \cup {p \in Cyclists \X Teams : In(p[2], p[1])'}
      /\ hasBeen' = hasBeen \cup {p \in Cyclists \X Teams : In(p[2], p[1])'}
      /\ UNCHANGED <<credit, verdict, deciding, longAgo>>
    BY DEF Lets
<1>2. ComersKnown'
  <2> SUFFICES ASSUME NEW c \in Teams, NEW r \in Cyclists, In(c, r)' PROVE <<r, c>> \in hasBeen'
    BY DEF ComersKnown
  <2>. QED
    BY <1>1
<1>3. StampsKnown'
    BY <1>1 DEF CreditInv, StampsKnown
<1>4. CreditTypeOK'
    BY <1>1 DEF CreditInv, CreditTypeOK
<1>5. ReadsKnown' /\ UnstoredIsFree' /\ Earns
    BY <1>1 DEF CreditInv, ReadsKnown, UnstoredIsFree, Earns
<1>. QED
    BY <1>2, <1>3, <1>4, <1>5 DEF CreditInv

\* A step that leaves the crews alone changes nothing of who is in which.
LEMMA TablesRest ==
    ASSUME CreditInv, UNCHANGED <<crewTables, hasBeen>>
    PROVE  M!TypeOK' /\ ComersKnown'
BY DEF CreditInv, CreditTypeOK, ComersKnown, crewTables, In, M!TypeOK, M!Standings, M!Manning,
       M!Office

LEMMA CreditStep == ASSUME CreditInv, [CreditNext]_creditVars PROVE CreditInv' /\ Earns
<1>0. M!TypeOK
    BY DEF CreditInv, CreditTypeOK
<1>1. ASSUME NEW c \in Teams, NEW r \in Cyclists, ComeIn(c, r) PROVE CreditInv' /\ Earns
  <2>1. Lets
    BY <1>1 DEF ComeIn, Request, Lets, tripTables
  <2>2. M!TypeOK'
    BY <1>0, <1>1, TablesTyped DEF ComeIn, Request
  <2>. QED
    BY <2>1, <2>2, RequestSound
<1>2. CASE MoveOn
  <2>1. ASSUME NEW c \in Teams, NEW r \in Cyclists, Request(M!Depart(c, r) \/ M!TakeOver(c, r), {})
        PROVE  CreditInv' /\ Earns
    <3>1. M!TypeOK'
      BY <1>0, <2>1, TablesTyped DEF Request
    <3>. QED
      BY <2>1, <3>1, RequestSound DEF Request, Lets, tripTables
  <2>2. ASSUME NEW c \in Teams, NEW a \in Cyclists, NEW r \in Cyclists, Request(M!Rank(c, a, r), {})
        PROVE  CreditInv' /\ Earns
    <3>1. M!TypeOK'
      BY <1>0, <2>2, TablesTyped DEF Request
    <3>. QED
      BY <2>2, <3>1, RequestSound DEF Request, Lets, tripTables
  <2>3. ASSUME NEW c \in Teams, Request(M!Close(c) \/ M!Reopen(c), {})
        PROVE  CreditInv' /\ Earns
    <3>1. M!TypeOK'
      BY <1>0, <2>3, TablesTyped DEF Request
    <3>. QED
      BY <2>3, <3>1, RequestSound DEF Request, Lets, tripTables
  <2>. QED
    BY <1>2, <2>1, <2>2, <2>3 DEF MoveOn
<1>3. ASSUME NEW c \in Teams, NEW r \in Cyclists, Stamp(r, c) PROVE CreditInv' /\ Earns
  <2>1. /\ <<r, c>> \in hasBeen /\ stamping' \subseteq stamping
        /\ credit' = [t \in Rides |-> IF Stamped(t, r, c) THEN c ELSE credit[t]]
        /\ UNCHANGED <<verdict, deciding, longAgo, hasBeen>>
    BY <1>3 DEF Stamp, CreditInv, StampsKnown
  <2>2. M!TypeOK' /\ ComersKnown'
    BY <1>3, TablesRest DEF Stamp
  <2>3. \A t \in Rides : Stamped(t, r, c) =>
           RiddenBy[t] = r /\ credit[t] = NoTeam /\ verdict[t] = "validated"
    BY DEF Stamped
  <2>4. CreditTypeOK'
    BY <2>1, <2>2 DEF CreditInv, CreditTypeOK
  <2>5. StampsKnown' /\ ReadsKnown'
    BY <2>1 DEF CreditInv, StampsKnown, ReadsKnown
  <2>6. UnstoredIsFree'
    BY <2>1, <2>3 DEF CreditInv, UnstoredIsFree
  <2>7. Earns
    BY <2>1, <2>3 DEF Earns
  <2>. QED
    BY <2>2, <2>4, <2>5, <2>6, <2>7 DEF CreditInv
<1>4. ASSUME NEW t \in Rides, ReadCrew(t) PROVE CreditInv' /\ Earns
  <2>1. PICK c \in CurrentCrew(RiddenBy[t]) \cup {NoTeam} : deciding' = {[ride |-> t, for |-> c]}
    BY <1>4 DEF ReadCrew
  <2>2. verdict[t] = "none" /\ UNCHANGED <<credit, verdict, stamping, longAgo, hasBeen>>
    BY <1>4 DEF ReadCrew
  <2>3. M!TypeOK' /\ ComersKnown'
    BY <1>4, TablesRest DEF ReadCrew
  <2>4. RiddenBy[t] \in Cyclists
    BY CreditAssumption
  <2>5. c \in Teams \cup {NoTeam} /\ (c = NoTeam \/ <<RiddenBy[t], c>> \in hasBeen)
    BY <2>4 DEF CurrentCrew, CreditInv, ComersKnown
  <2> DEFINE u == [ride |-> t, for |-> c]
  <2>6. Cardinality(deciding') <= 1
    <3> HIDE DEF u
    <3>1. Cardinality({u}) = 1
      BY FS_Singleton
    <3>. QED
      BY <2>1, <3>1 DEF u
  <2>7. CreditTypeOK'
    BY <2>1, <2>2, <2>3, <2>5, <2>6 DEF CreditInv, CreditTypeOK, Uploading
  <2>8. ReadsKnown'
    BY <2>1, <2>2, <2>5 DEF ReadsKnown
  <2>9. StampsKnown' /\ UnstoredIsFree' /\ Earns
    BY <2>2 DEF CreditInv, StampsKnown, UnstoredIsFree, Earns
  <2>. QED
    BY <2>3, <2>7, <2>8, <2>9 DEF CreditInv
<1>5. ASSUME NEW u \in Uploading, InsertRide(u) PROVE CreditInv' /\ Earns
  <2>1. PICK result \in {"flagged", "validated"} : verdict' = [verdict EXCEPT ![u.ride] = result]
    BY <1>5 DEF InsertRide
  <2>2. /\ u \in deciding /\ deciding' = {} /\ credit' = [credit EXCEPT ![u.ride] = u.for]
        /\ UNCHANGED <<stamping, longAgo, hasBeen>>
    BY <1>5 DEF InsertRide
  <2>3. M!TypeOK' /\ ComersKnown'
    BY <1>5, TablesRest DEF InsertRide
  <2>4. u.ride \in Rides /\ u.for \in Teams \cup {NoTeam}
    BY DEF Uploading
  <2>5. verdict[u.ride] = "none" /\ (u.for = NoTeam \/ <<RiddenBy[u.ride], u.for>> \in hasBeen)
    BY <2>2 DEF CreditInv, ReadsKnown
  <2>6. credit[u.ride] = NoTeam
    BY <2>4, <2>5 DEF CreditInv, UnstoredIsFree
  <2>7. /\ credit \in [Rides -> Teams \cup {NoTeam}]
        /\ verdict \in [Rides -> {"none", "flagged", "validated", "rejected"}]
    BY DEF CreditInv, CreditTypeOK
  <2>8. /\ credit' \in [Rides -> Teams \cup {NoTeam}]
        /\ \A t \in Rides : credit'[t] = IF t = u.ride THEN u.for ELSE credit[t]
    BY <2>2, <2>4, <2>7
  <2>9. /\ verdict' \in [Rides -> {"none", "flagged", "validated", "rejected"}]
        /\ \A t \in Rides : verdict'[t] = IF t = u.ride THEN result ELSE verdict[t]
    BY <2>1, <2>4, <2>7
  <2>10. CreditTypeOK'
    BY <2>2, <2>3, <2>8, <2>9, FS_EmptySet DEF CreditInv, CreditTypeOK
  <2>11. UnstoredIsFree'
    BY <2>8, <2>9 DEF CreditInv, UnstoredIsFree
  <2>12. Earns
    BY <2>2, <2>5, <2>6, <2>8 DEF Earns
  <2>13. StampsKnown' /\ ReadsKnown'
    BY <2>2 DEF CreditInv, StampsKnown, ReadsKnown
  <2>. QED
    BY <2>3, <2>10, <2>11, <2>12, <2>13 DEF CreditInv
<1>6. ASSUME NEW t \in Rides, Judge(t) PROVE CreditInv' /\ Earns
  <2>1. PICK result \in {"validated", "rejected"} : verdict' = [verdict EXCEPT ![t] = result]
    BY <1>6 DEF Judge
  <2>2. verdict[t] # "none" /\ UNCHANGED <<credit, deciding, stamping, longAgo, hasBeen>>
    BY <1>6 DEF Judge
  <2>3. M!TypeOK' /\ ComersKnown'
    BY <1>6, TablesRest DEF Judge
  <2>4. verdict \in [Rides -> {"none", "flagged", "validated", "rejected"}]
    BY DEF CreditInv, CreditTypeOK
  <2>5. /\ verdict' \in [Rides -> {"none", "flagged", "validated", "rejected"}]
        /\ \A x \in Rides : verdict'[x] = IF x = t THEN result ELSE verdict[x]
    BY <2>1, <2>4
  <2>6. CreditTypeOK'
    BY <2>2, <2>3, <2>5 DEF CreditInv, CreditTypeOK
  <2>7. \A u \in deciding : u.ride \in Rides
    BY DEF CreditInv, CreditTypeOK, Uploading
  <2>8. ReadsKnown'
    BY <2>2, <2>5, <2>7 DEF CreditInv, ReadsKnown
  <2>9. StampsKnown' /\ UnstoredIsFree' /\ Earns
    BY <2>2, <2>5 DEF CreditInv, StampsKnown, UnstoredIsFree, Earns
  <2>. QED
    BY <2>3, <2>6, <2>8, <2>9 DEF CreditInv
<1>7. CASE GrowOld
  <2>1. longAgo' \subseteq longAgo \cup Rides \cup Teams
    BY <1>7 DEF GrowOld
  <2>2. UNCHANGED <<credit, verdict, deciding, stamping, hasBeen>>
    BY <1>7 DEF GrowOld, tripTables
  <2>3. M!TypeOK' /\ ComersKnown'
    BY <1>7, TablesRest DEF GrowOld
  <2>4. CreditTypeOK'
    BY <2>1, <2>2, <2>3 DEF CreditInv, CreditTypeOK
  <2>5. StampsKnown' /\ ReadsKnown' /\ UnstoredIsFree' /\ Earns
    BY <2>2 DEF CreditInv, StampsKnown, ReadsKnown, UnstoredIsFree, Earns
  <2>. QED
    BY <2>3, <2>4, <2>5 DEF CreditInv
<1>8. CASE DieCredit
  <2>1. deciding' = {} /\ stamping' = {} /\ UNCHANGED <<credit, verdict, longAgo, hasBeen>>
    BY <1>8 DEF DieCredit
  <2>2. M!TypeOK' /\ ComersKnown'
    BY <1>8, TablesRest DEF DieCredit
  <2>. QED
    BY <2>1, <2>2, FS_EmptySet
       DEF CreditInv, CreditTypeOK, StampsKnown, ReadsKnown, UnstoredIsFree, Earns
<1>9. CASE UNCHANGED creditVars
  <2>1. M!TypeOK' /\ ComersKnown'
    BY <1>9, TablesRest DEF creditVars
  <2>. QED
    BY <1>9, <2>1 DEF creditVars, tripTables, CreditInv, CreditTypeOK, StampsKnown, ReadsKnown,
                      UnstoredIsFree, Earns
<1>. QED
    BY <1>1, <1>2, <1>3, <1>4, <1>5, <1>6, <1>7, <1>8, <1>9 DEF CreditNext

\* The tables of crews and credits keep their types, and whatever is under way
\* is about riders who have been in the crews it names.
THEOREM CreditSound == CreditSpec => []CreditInv
<1>1. CreditInv /\ [CreditNext]_creditVars => CreditInv'
    BY CreditStep
<1>. QED
    BY <1>1, CreditInitSound, PTL DEF CreditSpec

\* However uploads, requests and stamps overlap, a ride is given to a crew
\* once, and only to one its rider has been in.
THEOREM EarnedCorrect == CreditSpec => CreditEarned
<1>1. CreditInv /\ [CreditNext]_creditVars =>
        [\A t \in Rides : credit'[t] # credit[t] =>
            credit[t] = NoTeam /\ <<RiddenBy[t], credit'[t]>> \in hasBeen]_creditVars
    BY CreditStep DEF Earns
<1>. QED
    BY <1>1, CreditSound, PTL DEF CreditSpec, CreditEarned

-----------------------------------------------------------------------------
Fractions == Int \X (Nat \ {0})

LEMMA LessTransitive ==
    ASSUME NEW a \in Fractions, NEW b \in Fractions, NEW c \in Fractions, Less(a, b), Less(b, c)
    PROVE  Less(a, c)
<1>1. PICK a1 \in Int, a2 \in Nat \ {0} : a = <<a1, a2>>
    BY DEF Fractions
<1>2. PICK b1 \in Int, b2 \in Nat \ {0} : b = <<b1, b2>>
    BY DEF Fractions
<1>3. PICK c1 \in Int, c2 \in Nat \ {0} : c = <<c1, c2>>
    BY DEF Fractions
<1>4. a1 * b2 < b1 * a2 /\ b1 * c2 < c1 * b2
    BY <1>1, <1>2, <1>3 DEF Less
<1>5. (a1 * b2) * c2 < (b1 * a2) * c2
    BY <1>4
<1>6. (b1 * c2) * a2 < (c1 * b2) * a2
    BY <1>4
<1>7. b2 * (a1 * c2) < b2 * (c1 * a2)
    BY <1>5, <1>6
<1>8. a1 * c2 < c1 * a2
    BY <1>7
<1>. QED
    BY <1>1, <1>3, <1>8 DEF Less

\* The figure is the lowest of those there are.
BestIs(best, figures) ==
    IF figures = {} THEN best = None
    ELSE best \in figures /\ \A g \in figures : ~Less(g, best)

LEMMA NoFigure == ASSUME NEW f \in Fractions PROVE f # None
BY DEF Fractions, None

\* One more figure, and the pass takes the lower of the two.
LEMMA BestExtends ==
    ASSUME NEW figures \in SUBSET Fractions, NEW best, BestIs(best, figures), NEW f \in Fractions
    PROVE  BestIs(Lower(best, f), figures \cup {f})
<1>0. ~Less(f, f)
  <2>1. PICK a \in Int, b \in Nat \ {0} : f = <<a, b>>
    BY DEF Fractions
  <2>. QED
    BY <2>1 DEF Less
<1>1. CASE figures = {}
    BY <1>0, <1>1 DEF BestIs, Lower
<1>2. CASE figures # {}
  <2>1. best \in Fractions /\ best \in figures /\ \A g \in figures : ~Less(g, best)
    BY <1>2 DEF BestIs
  <2>2. best # None /\ f # None
    BY <2>1, NoFigure
  <2>3. CASE Less(f, best)
    <3>1. \A g \in figures : ~Less(g, f)
      BY <2>1, <2>3, LessTransitive
    <3>. QED
      BY <1>0, <2>2, <2>3, <3>1 DEF BestIs, Lower
  <2>4. CASE ~Less(f, best)
    BY <2>1, <2>2, <2>4 DEF BestIs, Lower
  <2>. QED
    BY <2>3, <2>4
<1>. QED
    BY <1>1, <1>2

LEMMA BestIsBest ==
    ASSUME NEW figures \in SUBSET Fractions, NEW best, BestIs(best, figures)
    PROVE  IsBest(best, figures, Less)
<1>1. CASE figures = {}
    BY <1>1 DEF BestIs, IsBest
<1>2. CASE figures # {}
  <2>1. best \in figures /\ \A g \in figures : ~Less(g, best)
    BY <1>2 DEF BestIs
  <2>2. best # None
    BY <2>1, NoFigure
  <2>. QED
    BY <1>2, <2>1, <2>2 DEF IsBest
<1>. QED
    BY <1>1, <1>2

-----------------------------------------------------------------------------
Sample == [wheel: Nat \cup {Absent}, gps: Nat \cup {Absent}, load: Nat, t: Nat]
Speed(i) == CorrobSpeed(log[i])

\* The log has one sample more, and the two passes have read it.
Grows(s) ==
    /\ log \in Seq(Sample) /\ log' \in Seq(Sample) /\ Len(log') = Len(log) + 1
    /\ \A i \in 1..Len(log) : log'[i] = log[i]
    /\ log'[Len(log) + 1] = s
    /\ launch' = LaunchStep(launch, s) /\ braking' = StopStep(braking, s)
    /\ track' = TrackStep(track, s)
    /\ held' = IF IsMoving(s) THEN HeldStep(held, log') ELSE held

LEMMA Thresholds ==
    /\ NearStop \in Nat /\ Target \in Nat /\ LaunchGap \in Nat /\ DipNum \in Nat /\ DipDen \in Nat
    /\ LeastS \in Nat /\ MostS \in Nat /\ StopFrom \in Nat /\ StopTo \in Nat /\ MaxDecel \in Nat
    /\ NearStop < Target /\ StopTo < StopFrom /\ DipNum <= DipDen
BY TelemetryAssumption

LEMMA SpeedIs ==
    ASSUME NEW s \in Sample
    PROVE  /\ CorrobSpeed(s) \in Nat \cup {Absent}
           /\ CorrobSpeed(s) = Absent <=> s.wheel = Absent
           /\ s.wheel # Absent => s.wheel \in Nat /\ CorrobSpeed(s) <= s.wheel
BY DEF CorrobSpeed, Least, Sample, Absent

LEMMA LogGrows ==
    ASSUME log \in Seq(Sample), NEW reading \in Readings, NEW gap \in Gaps,
           NextSample(reading, gap)
    PROVE  \E s \in Sample : Grows(s)
<1> DEFINE s == [wheel |-> reading.wheel, gps |-> reading.gps, load |-> reading.load,
                 t |-> IF log = <<>> THEN 0 ELSE log[Len(log)].t + gap]
<1>1. log # <<>> => log[Len(log)].t \in Nat
  <2>1. log # <<>> => Len(log) \in 1..Len(log)
    OBVIOUS
  <2>2. log # <<>> => log[Len(log)] \in Sample
    BY <2>1
  <2>. QED
    BY <2>2 DEF Sample
<1>2. gap \in Nat
    BY TelemetryAssumption
<1>3. /\ reading.wheel \in Nat \cup {Absent} /\ reading.gps \in Nat \cup {Absent}
      /\ reading.load \in Nat
    BY TelemetryAssumption
<1>4. s \in Sample
    BY <1>1, <1>2, <1>3 DEF Sample
<1>5. /\ log' = Append(log, s)
      /\ launch' = LaunchStep(launch, s) /\ braking' = StopStep(braking, s)
      /\ track' = TrackStep(track, s)
      /\ held' = IF IsMoving(s) THEN HeldStep(held, log') ELSE held
    BY DEF NextSample
<1> HIDE DEF s
<1>6. /\ log' \in Seq(Sample) /\ Len(log') = Len(log) + 1
      /\ \A i \in 1..Len(log) : log'[i] = log[i]
      /\ log'[Len(log) + 1] = s
    BY <1>4, <1>5
<1>. QED
    BY <1>4, <1>5, <1>6 DEF Grows

-----------------------------------------------------------------------------
Fast(i) == Speed(i) >= StopFrom
Still(i) == Speed(i) \in 0..StopTo

\* A stop that is under way began at the last sample at the entry speed, and
\* nothing has stood still since.
Since(i) ==
    /\ i \in 1..Len(log) /\ Fast(i)
    /\ \A k \in (i + 1)..Len(log) : ~Fast(k) /\ ~Still(k)

StopFigures == {<<log[p[2]].t - log[p[1]].t, 1>> : p \in Stops}

BrakingRight ==
    /\ braking.at = Absent => \A i \in 1..Len(log) : ~Since(i)
    /\ braking.at # Absent =>
          \E i \in 1..Len(log) : Since(i) /\ braking.at = log[i].t /\ braking.v = Speed(i)
    /\ BestIs(braking.best, StopFigures)

BrakingInv ==
    /\ log \in Seq(Sample)
    /\ braking \in [at: Nat \cup {Absent}, v: Nat, best: Fractions \cup {None}]
    /\ BrakingRight

\* There is one such sample at most.
LEMMA SinceOnce ==
    ASSUME NEW i \in 1..Len(log), NEW j \in 1..Len(log), Since(i), Since(j), log \in Seq(Sample)
    PROVE  i = j
BY DEF Since

\* What becomes of the stops in a log that has grown.
New(i, s) ==
    /\ Since(i) /\ CorrobSpeed(s) \in 0..StopTo /\ log[i].t < s.t
    /\ Speed(i) - CorrobSpeed(s) <= MaxDecel * (s.t - log[i].t)

LEMMA SinceGrows ==
    ASSUME NEW n \in Nat, Len(log) = n, NEW s \in Sample, Grows(s)
    PROVE  /\ \A i \in 1..n :
                 Since(i)' <=> /\ Since(i) /\ ~(CorrobSpeed(s) >= StopFrom)
                               /\ CorrobSpeed(s) \notin 0..StopTo
           /\ Since(n + 1)' <=> CorrobSpeed(s) >= StopFrom
<1>1. Len(log') = n + 1
    BY DEF Grows
<1>2. \A i \in 1..n : Speed(i)' = Speed(i)
    BY DEF Grows, Speed
<1>3. Speed(n + 1)' = CorrobSpeed(s)
    BY DEF Grows, Speed
<1>4. n + 1 \in 1..Len(log') /\ \A k \in (n + 2)..Len(log') : FALSE
    BY <1>1
<1>5. Since(n + 1)' <=> CorrobSpeed(s) >= StopFrom
    BY <1>1, <1>3, <1>4 DEF Since, Fast
<1>6. ASSUME NEW i \in 1..n
      PROVE  Since(i)' <=> /\ Since(i) /\ ~(CorrobSpeed(s) >= StopFrom)
                           /\ CorrobSpeed(s) \notin 0..StopTo
  <2>1. i \in 1..Len(log') /\ \A k : k \in (i + 1)..Len(log') <=> k \in (i + 1)..n \/ k = n + 1
    BY <1>1
  <2>2. \A k \in (i + 1)..n : k \in 1..n
    BY <1>1
  <2>3. (\A k \in (i + 1)..Len(log') : ~Fast(k)' /\ ~Still(k)') <=>
           (\A k \in (i + 1)..n : ~Fast(k) /\ ~Still(k)) /\ ~Fast(n + 1)' /\ ~Still(n + 1)'
    BY <1>2, <2>1, <2>2 DEF Fast, Still
  <2>4. Fast(i)' <=> Fast(i)
    BY <1>2 DEF Fast
  <2>5. /\ Fast(n + 1)' <=> CorrobSpeed(s) >= StopFrom
        /\ Still(n + 1)' <=> CorrobSpeed(s) \in 0..StopTo
    BY <1>3 DEF Fast, Still
  <2>. QED
    BY <2>1, <2>3, <2>4, <2>5 DEF Since
<1>. QED
    BY <1>5, <1>6

LEMMA StopsGrow ==
    ASSUME NEW n \in Nat, Len(log) = n, NEW s \in Sample, Grows(s)
    PROVE  StopFigures' = StopFigures \cup
              {<<s.t - log[i].t, 1>> : i \in {j \in 1..n : New(j, s)}}
<1>1. Len(log') = n + 1
    BY DEF Grows
<1>2. \A i \in 1..n : log'[i] = log[i]
    BY DEF Grows
<1>3. log'[n + 1] = s
    BY DEF Grows
<1>4. ASSUME NEW i \in 1..n, NEW j \in 1..n
      PROVE  <<i, j>> \in Stops' <=> <<i, j>> \in Stops
  <2>1. i \in 1..Len(log') /\ j \in 1..Len(log') /\ \A k \in (i + 1)..(j - 1) : k \in 1..n
    BY <1>1
  <2>. QED
    BY <1>2, <2>1 DEF Stops
<1>5. ASSUME NEW i \in 1..n
      PROVE  <<i, n + 1>> \in Stops' <=> New(i, s)
  <2>1. /\ i \in 1..Len(log') /\ n + 1 \in 1..Len(log') /\ i < n + 1
        /\ (i + 1)..((n + 1) - 1) = (i + 1)..n /\ \A k \in (i + 1)..n : k \in 1..n
    BY <1>1
  <2>2. <<i, n + 1>> \in Stops' <=>
          /\ log[i].t < s.t /\ Speed(i) >= StopFrom /\ CorrobSpeed(s) \in 0..StopTo
          /\ \A k \in (i + 1)..n : Speed(k) \notin 0..StopTo /\ Speed(k) < StopFrom
          /\ Speed(i) - CorrobSpeed(s) <= MaxDecel * (s.t - log[i].t)
    BY <1>2, <1>3, <2>1 DEF Stops, Speed
  <2>3. \A k \in (i + 1)..n : Speed(k) < StopFrom <=> ~Fast(k)
    <3>1. ASSUME NEW k \in (i + 1)..n PROVE Speed(k) < StopFrom <=> ~Fast(k)
      <4>1. log[k] \in Sample
        BY <2>1 DEF Grows
      <4>2. Speed(k) \in Int
        BY <4>1, SpeedIs DEF Speed, Absent
      <4>. QED
        BY <4>2, Thresholds DEF Fast
    <3>. QED
      BY <3>1
  <2>. QED
    BY <2>2, <2>3 DEF New, Since, Fast, Still
<1>6. ASSUME NEW j PROVE <<n + 1, j>> \notin Stops'
    BY <1>1 DEF Stops
<1>7. ASSUME NEW p \in Stops'
      PROVE  \E i \in 1..n : p = <<i, n + 1>> \/ \E j \in 1..n : p = <<i, j>>
  <2>1. PICK i \in 1..Len(log'), j \in 1..Len(log') : p = <<i, j>>
    BY DEF Stops
  <2>2. i # n + 1
    BY <1>6, <2>1
  <2>. QED
    BY <1>1, <2>1, <2>2
<1>8. ASSUME NEW p \in Stops
      PROVE  \E i \in 1..n, j \in 1..n : p = <<i, j>>
    BY DEF Stops
<1>9. ASSUME NEW f \in StopFigures'
      PROVE  f \in StopFigures \cup {<<s.t - log[i].t, 1>> : i \in {j \in 1..n : New(j, s)}}
  <2>1. PICK p \in Stops' : f = <<log'[p[2]].t - log'[p[1]].t, 1>>
    BY DEF StopFigures
  <2>2. PICK i \in 1..n : p = <<i, n + 1>> \/ \E j \in 1..n : p = <<i, j>>
    BY <1>7
  <2>3. CASE p = <<i, n + 1>>
    BY <1>2, <1>3, <1>5, <2>1, <2>3
  <2>4. ASSUME NEW j \in 1..n, p = <<i, j>> PROVE f \in StopFigures
    BY <1>2, <1>4, <2>1, <2>4 DEF StopFigures
  <2>. QED
    BY <2>2, <2>3, <2>4
<1>10. ASSUME NEW f \in StopFigures PROVE f \in StopFigures'
  <2>1. PICK p \in Stops : f = <<log[p[2]].t - log[p[1]].t, 1>>
    BY DEF StopFigures
  <2>2. PICK i \in 1..n, j \in 1..n : p = <<i, j>>
    BY <1>8
  <2>. QED
    BY <1>2, <1>4, <2>1, <2>2 DEF StopFigures
<1>11. ASSUME NEW i \in 1..n, New(i, s) PROVE <<s.t - log[i].t, 1>> \in StopFigures'
  <2>1. <<i, n + 1>> \in Stops'
    BY <1>5, <1>11
  <2>. QED
    BY <1>2, <1>3, <2>1 DEF StopFigures
<1>. QED
    BY <1>9, <1>10, <1>11

LEMMA StopFiguresAre == ASSUME log \in Seq(Sample) PROVE StopFigures \in SUBSET Fractions
<1> SUFFICES ASSUME NEW p \in Stops PROVE <<log[p[2]].t - log[p[1]].t, 1>> \in Fractions
    BY DEF StopFigures
<1>1. p[1] \in 1..Len(log) /\ p[2] \in 1..Len(log)
    BY DEF Stops
<1>2. log[p[1]] \in Sample /\ log[p[2]] \in Sample
    BY <1>1
<1>3. \A x \in Sample : x.t \in Int
    BY DEF Sample
<1>4. log[p[2]].t - log[p[1]].t \in Int
    BY <1>2, <1>3
<1>. QED
    BY <1>4 DEF Fractions

LEMMA BrakingStep ==
    ASSUME BrakingInv, NEW s \in Sample, Grows(s)
    PROVE  BrakingInv'
<1> DEFINE v == CorrobSpeed(s)
           n == Len(log)
           dt == s.t - braking.at
<1>1. n \in Nat /\ Len(log') = n + 1 /\ log' \in Seq(Sample) /\ braking' = StopStep(braking, s)
    BY DEF Grows
<1>2. v \in Nat \cup {Absent} /\ Absent \notin Nat /\ s.t \in Nat
    BY SpeedIs DEF Sample, Absent
<1>3. \A i \in 1..n : Since(i)' <=> Since(i) /\ ~(v >= StopFrom) /\ v \notin 0..StopTo
    BY <1>1, SinceGrows
<1>4. \A m \in Nat : m = n => (Since(m + 1)' <=> v >= StopFrom)
    BY SinceGrows
<1>5. StopFigures' = StopFigures \cup {<<s.t - log[i].t, 1>> : i \in {j \in 1..n : New(j, s)}}
    BY <1>1, StopsGrow
<1>6. \A i \in 1..Len(log') : i \in 1..n \/ i = n + 1
    BY <1>1
<1>7. \A i \in 1..n : log'[i] = log[i] /\ Speed(i)' = Speed(i)
    BY DEF Grows, Speed
<1>8. \A m \in Nat : m = n => log'[m + 1] = s /\ Speed(m + 1)' = v
    BY DEF Grows, Speed
<1>9. /\ braking.at \in Nat \cup {Absent} /\ braking.v \in Nat
      /\ braking.best \in Fractions \cup {None} /\ BestIs(braking.best, StopFigures)
    BY DEF BrakingInv, BrakingRight
<1>10. StopFigures \in SUBSET Fractions
    BY StopFiguresAre DEF BrakingInv
<1>11. \A i \in 1..n : New(i, s) <=> /\ Since(i) /\ v \in 0..StopTo /\ log[i].t < s.t
                                    /\ Speed(i) - v <= MaxDecel * (s.t - log[i].t)
    BY DEF New
<1> HIDE DEF v
\* A sample that ends nothing and begins nothing.
<1>12. CASE v = Absent \/ (~(v >= StopFrom) /\ v \notin 0..StopTo)
  <2>1. braking' = braking
    BY <1>1, <1>2, <1>12, Thresholds DEF StopStep, v
  <2>2. ~(v >= StopFrom) /\ v \notin 0..StopTo
    BY <1>12, Thresholds DEF Absent
  <2>3. StopFigures' = StopFigures
    BY <1>5, <1>11, <2>2
  <2>4. \A i \in 1..Len(log') : Since(i)' <=> i \in 1..n /\ Since(i)
    BY <1>1, <1>3, <1>4, <1>6, <2>2
  <2>5. BrakingRight'
    BY <1>1, <1>7, <2>1, <2>3, <2>4 DEF BrakingInv, BrakingRight
  <2>. QED
    BY <1>1, <2>1, <2>5 DEF BrakingInv
\* The entry speed, again or for the first time.
<1>13. CASE v >= StopFrom /\ v # Absent
  <2>1. braking' = [braking EXCEPT !.at = s.t, !.v = v]
    BY <1>1, <1>13 DEF StopStep, v
  <2>2. braking'.at = s.t /\ braking'.v = v /\ braking'.best = braking.best
    BY <2>1 DEF BrakingInv
  <2>3. v \notin 0..StopTo
    BY <1>2, <1>13, Thresholds
  <2>4. StopFigures' = StopFigures
    BY <1>5, <1>11, <2>3
  <2>5. \E i \in 1..Len(log') : Since(i)' /\ log'[i].t = s.t /\ Speed(i)' = v
    <3>1. PICK m \in Nat : m = n
      BY <1>1
    <3>2. m + 1 \in 1..Len(log') /\ Since(m + 1)' /\ log'[m + 1].t = s.t /\ Speed(m + 1)' = v
      BY <1>1, <1>4, <1>8, <1>13, <3>1
    <3>. QED
      BY <3>2
  <2>6. BrakingRight'
    BY <1>2, <1>9, <2>2, <2>4, <2>5 DEF BrakingRight
  <2>. QED
    BY <1>1, <1>2, <1>13, <2>1, <2>6 DEF BrakingInv
\* A standstill, with nothing under way or at the end of a stop.
<1>14. CASE v \in 0..StopTo
  <2>1. v # Absent /\ ~(v >= StopFrom) /\ v <= StopTo
    BY <1>2, <1>14, Thresholds
  <2>2. \A i \in 1..Len(log') : ~Since(i)'
    BY <1>1, <1>3, <1>4, <1>6, <1>14, <2>1
  <2>3. CASE braking.at = Absent
    <3>1. braking' = braking
      BY <1>1, <2>1, <2>3 DEF StopStep, v
    <3>2. \A i \in 1..n : ~New(i, s)
      BY <1>11, <2>3 DEF BrakingInv, BrakingRight
    <3>3. StopFigures' = StopFigures
      BY <1>5, <3>2
    <3>. QED
      BY <1>1, <1>9, <2>2, <2>3, <3>1, <3>3 DEF BrakingInv, BrakingRight
  <2>4. CASE braking.at # Absent
    <3>1. PICK i \in 1..n : Since(i) /\ braking.at = log[i].t /\ braking.v = Speed(i)
      BY <2>4 DEF BrakingInv, BrakingRight
    <3> DEFINE physical == dt > 0 /\ braking.v - v <= MaxDecel * dt
    <3>2. braking' = [at |-> Absent, v |-> 0,
              best |-> IF physical THEN Lower(braking.best, <<dt, 1>>) ELSE braking.best]
      BY <1>1, <2>1, <2>4 DEF StopStep, v
    <3>3. dt \in Int
      BY <1>2, <1>9, <2>4
    <3>4. dt > 0 <=> log[i].t < s.t
      BY <1>2, <1>9, <2>4, <3>1
    <3>5. New(i, s) <=> physical
      BY <1>11, <1>14, <3>1, <3>4
    <3>6. \A j \in 1..n : New(j, s) => j = i
      BY <1>11, <3>1, SinceOnce DEF BrakingInv
    <3> HIDE DEF physical, dt
    <3>7. StopFigures' = IF physical THEN StopFigures \cup {<<dt, 1>>} ELSE StopFigures
      BY <1>5, <3>1, <3>5, <3>6 DEF dt
    <3>8. <<dt, 1>> \in Fractions
      BY <3>3 DEF Fractions
    <3>9. BestIs(braking'.best, StopFigures')
      BY <1>9, <1>10, <3>2, <3>7, <3>8, BestExtends
    <3>10. Lower(braking.best, <<dt, 1>>) \in Fractions \cup {None}
      BY <1>9, <3>8 DEF Lower
    <3>11. braking' \in [at: Nat \cup {Absent}, v: Nat, best: Fractions \cup {None}]
      BY <1>9, <3>2, <3>10
    <3>. QED
      BY <1>1, <2>2, <3>2, <3>9, <3>11 DEF BrakingInv, BrakingRight
  <2>. QED
    BY <2>3, <2>4
<1>. QED
    BY <1>2, <1>12, <1>13, <1>14

-----------------------------------------------------------------------------
Seen(i) == log[i].wheel # Absent /\ log[i].gps # Absent
Dips(k, m) == Speed(k) * DipDen < Speed(m) * DipNum

\* A launch is under way that began with the sample i.
Armed(i) ==
    /\ i \in 1..Len(log) /\ log[i].wheel <= NearStop
    /\ \A k \in i..Len(log) : Seen(k)
    /\ \A k \in (i + 1)..Len(log) :
          /\ log[k].t - log[k - 1].t <= LaunchGap
          /\ log[k].wheel > NearStop /\ Speed(k) < Target
    /\ \A k \in i..Len(log) : \A m \in i..k : ~Dips(k, m)

Peak(i, p) ==
    /\ \A k \in i..Len(log) : Speed(k) <= p
    /\ \E k \in i..Len(log) : Speed(k) = p

\* The sample before, as the pass remembers it: nothing where one of its speeds
\* was missing.
LastSeen ==
    IF log # <<>> /\ Seen(Len(log))
    THEN launch.at = log[Len(log)].t /\ launch.v = Speed(Len(log))
    ELSE launch.at = Absent

LaunchFigures == {Counted(x) : x \in LaunchTimes} \ {None}

LaunchPass ==
    [start: Nat \cup {Absent}, peak: Nat, at: Nat \cup {Absent}, v: Nat,
     best: Fractions \cup {None}]

LaunchRight ==
    /\ LastSeen
    /\ launch.start = Absent => \A i \in 1..Len(log) : ~Armed(i)
    /\ launch.start # Absent =>
          \E i \in 1..Len(log) :
              Armed(i) /\ launch.start = log[i].t /\ Peak(i, launch.peak)
    /\ LaunchFigures \subseteq Fractions /\ BestIs(launch.best, LaunchFigures)

LaunchInv ==
    /\ log \in Seq(Sample)
    /\ launch \in LaunchPass
    /\ LaunchRight

\* There is one such sample at most: the wheel has turned since.
LEMMA ArmedOnce ==
    ASSUME log \in Seq(Sample), NEW i \in 1..Len(log), NEW j \in 1..Len(log), Armed(i), Armed(j)
    PROVE  i = j
<1>1. \A k \in 1..Len(log) : Seen(k) => log[k].wheel \in Nat
  <2> SUFFICES ASSUME NEW k \in 1..Len(log), Seen(k) PROVE log[k].wheel \in Nat
    OBVIOUS
  <2>1. log[k] \in Sample
    OBVIOUS
  <2>. QED
    BY <2>1 DEF Seen, Sample
<1>2. log[i].wheel \in Nat /\ log[j].wheel \in Nat
    BY <1>1 DEF Armed
<1>3. i < j => log[j].wheel > NearStop
    BY DEF Armed
<1>4. j < i => log[i].wheel > NearStop
    BY DEF Armed
<1>. QED
    BY <1>2, <1>3, <1>4, Thresholds DEF Armed

\* What the sample s must be for a launch that is under way to go on, and for
\* it to end at the target.
Follows(i, s) ==
    /\ Armed(i) /\ s.wheel # Absent /\ s.gps # Absent
    /\ s.t - log[Len(log)].t <= LaunchGap /\ s.wheel > NearStop
    /\ \A m \in i..Len(log) : ~(CorrobSpeed(s) * DipDen < Speed(m) * DipNum)

LEMMA SelfDoesNotDip == ASSUME NEW v \in Nat PROVE ~(v * DipDen < v * DipNum)
<1>1. \A a, b \in Nat : a <= b => v * a <= v * b
    OBVIOUS
<1>. QED
    BY <1>1, Thresholds

LEMMA ArmedGrows ==
    ASSUME NEW n \in Nat, Len(log) = n, NEW s \in Sample, Grows(s)
    PROVE  /\ \A i \in 1..n : Armed(i)' <=> Follows(i, s) /\ CorrobSpeed(s) < Target
           /\ Armed(n + 1)' <=> s.wheel # Absent /\ s.gps # Absent /\ s.wheel <= NearStop
<1>1. Len(log') = n + 1
    BY DEF Grows
<1>2. \A i \in 1..n : log'[i] = log[i] /\ Speed(i)' = Speed(i) /\ (Seen(i)' <=> Seen(i))
    BY DEF Grows, Speed, Seen
<1>3. /\ log'[n + 1] = s /\ Speed(n + 1)' = CorrobSpeed(s)
      /\ Seen(n + 1)' <=> s.wheel # Absent /\ s.gps # Absent
    BY DEF Grows, Speed, Seen
<1>4. CorrobSpeed(s) # Absent => ~(CorrobSpeed(s) * DipDen < CorrobSpeed(s) * DipNum)
    BY SpeedIs, SelfDoesNotDip
<1>5. s.wheel # Absent => CorrobSpeed(s) # Absent
    BY SpeedIs
<1>6. Armed(n + 1)' <=> s.wheel # Absent /\ s.gps # Absent /\ s.wheel <= NearStop
  <2>1. /\ n + 1 \in 1..Len(log') /\ \A k \in (n + 2)..Len(log') : FALSE
        /\ \A k \in (n + 1)..Len(log') : k = n + 1 /\ \A m \in (n + 1)..k : m = n + 1
        /\ n + 1 \in (n + 1)..Len(log')
    BY <1>1
  <2>2. (\A k \in (n + 1)..Len(log') : Seen(k)') <=> Seen(n + 1)'
    BY <2>1
  <2>3. (n + 1) + 1 = n + 2
    OBVIOUS
  <2>4. s.wheel # Absent => ~Dips(n + 1, n + 1)'
    BY <1>3, <1>4, <1>5 DEF Dips
  <2>. QED
    BY <1>3, <2>1, <2>2, <2>3, <2>4 DEF Armed
<1>7. ASSUME NEW i \in 1..n
      PROVE  Armed(i)' <=> Follows(i, s) /\ CorrobSpeed(s) < Target
  <2>1. /\ i \in 1..Len(log')
        /\ \A k : k \in i..Len(log') <=> k \in i..n \/ k = n + 1
        /\ \A k : k \in (i + 1)..Len(log') <=> k \in (i + 1)..n \/ k = n + 1
        /\ \A k \in i..n : k \in 1..n
        /\ \A k \in (i + 1)..n : k \in 1..n /\ k - 1 \in 1..n
        /\ (n + 1) - 1 = n /\ n \in 1..n /\ i \in i..n
        /\ \A m : m \in i..(n + 1) <=> m \in i..n \/ m = n + 1
    BY <1>1
  <2>2. (\A k \in i..Len(log') : Seen(k)') <=>
           (\A k \in i..n : Seen(k)) /\ s.wheel # Absent /\ s.gps # Absent
    BY <1>2, <1>3, <2>1
  <2>3. (\A k \in (i + 1)..Len(log') :
            log'[k].t - log'[k - 1].t <= LaunchGap /\ log'[k].wheel > NearStop /\ Speed(k)' < Target)
          <=> /\ \A k \in (i + 1)..n :
                    log[k].t - log[k - 1].t <= LaunchGap /\ log[k].wheel > NearStop /\ Speed(k) < Target
              /\ s.t - log[n].t <= LaunchGap /\ s.wheel > NearStop /\ CorrobSpeed(s) < Target
    BY <1>2, <1>3, <2>1
  <2>4. \A k \in i..n : \A m \in i..k : m \in 1..n /\ (Dips(k, m)' <=> Dips(k, m))
    BY <1>2, <2>1 DEF Dips
  <2>5. (\A m \in i..(n + 1) : ~Dips(n + 1, m)') <=>
            (\A m \in i..n : ~(CorrobSpeed(s) * DipDen < Speed(m) * DipNum)) /\ ~Dips(n + 1, n + 1)'
    BY <1>2, <1>3, <2>1 DEF Dips
  <2>6. s.wheel # Absent => ~Dips(n + 1, n + 1)'
    BY <1>3, <1>4, <1>5 DEF Dips
  <2>7. (\A k \in i..Len(log') : \A m \in i..k : ~Dips(k, m)') <=>
            (\A k \in i..n : \A m \in i..k : ~Dips(k, m)) /\ (\A m \in i..(n + 1) : ~Dips(n + 1, m)')
    BY <2>1, <2>4
  <2>. QED
    BY <1>2, <2>1, <2>2, <2>3, <2>5, <2>6, <2>7 DEF Armed, Follows
<1>. QED
    BY <1>6, <1>7

LEMMA SpeedsAre ==
    ASSUME log \in Seq(Sample)
    PROVE  \A i \in 1..Len(log) :
              /\ log[i] \in Sample /\ Speed(i) \in Int
              /\ Seen(i) => Speed(i) \in Nat
<1> SUFFICES ASSUME NEW i \in 1..Len(log)
             PROVE  /\ log[i] \in Sample /\ Speed(i) \in Int
                    /\ Seen(i) => Speed(i) \in Nat
    OBVIOUS
<1>1. log[i] \in Sample
    OBVIOUS
<1>. QED
    BY <1>1, SpeedIs DEF Speed, Seen, Absent

LEMMA NoDip == \A a, b \in Int : a * DipDen >= b * DipNum <=> ~(a * DipDen < b * DipNum)
BY Thresholds

\* A launch is one that is under way at the sample before its last.
LEMMA GenuineIsArmed ==
    ASSUME NEW n \in Nat, Len(log) = n, NEW s \in Sample, Grows(s)
    PROVE  /\ \A i, j \in 1..n : GenuineLaunch(i, j)' <=> GenuineLaunch(i, j)
           /\ \A i \in 1..n : GenuineLaunch(i, n + 1)' <=> Follows(i, s) /\ CorrobSpeed(s) >= Target
<1>1. Len(log') = n + 1
    BY DEF Grows
<1>2. \A i \in 1..n : log'[i] = log[i]
    BY DEF Grows
<1>3. log'[n + 1] = s
    BY DEF Grows
<1>4. CorrobSpeed(s) \in Int
    BY SpeedIs DEF Absent
<1>5. \A i \in 1..n : Speed(i) \in Int
    BY SpeedsAre DEF Grows
<1>6. CorrobSpeed(s) \in Nat => ~(CorrobSpeed(s) * DipDen < CorrobSpeed(s) * DipNum)
    BY SelfDoesNotDip
<1>7. s.wheel # Absent => CorrobSpeed(s) \in Nat
    BY SpeedIs
<1>8. ASSUME NEW i \in 1..n, NEW j \in 1..n
      PROVE  GenuineLaunch(i, j)' <=> GenuineLaunch(i, j)
  <2>1. /\ \A k \in i..j : k \in 1..n /\ \A m \in i..k : m \in 1..n
        /\ \A k \in (i + 1)..j : k \in 1..n /\ k - 1 \in 1..n
        /\ \A k \in (i + 1)..(j - 1) : k \in 1..n
    OBVIOUS
  <2>. QED
    BY <1>2, <2>1 DEF GenuineLaunch
<1>9. ASSUME NEW i \in 1..n
      PROVE  GenuineLaunch(i, n + 1)' <=> Follows(i, s) /\ CorrobSpeed(s) >= Target
  <2>1. /\ i < n + 1 /\ \A k : k \in i..(n + 1) <=> k \in i..n \/ k = n + 1
        /\ \A k : k \in (i + 1)..(n + 1) <=> k \in (i + 1)..n \/ k = n + 1
        /\ \A k \in i..n : k \in 1..n /\ \A m \in i..k : m \in 1..n
        /\ \A k \in (i + 1)..n : k \in 1..n /\ k - 1 \in 1..n
        /\ (n + 1) - 1 = n /\ n \in 1..n /\ i \in i..n
    OBVIOUS
  <2>2. (\A k \in i..(n + 1) : log'[k].wheel # Absent /\ log'[k].gps # Absent) <=>
           (\A k \in i..n : Seen(k)) /\ s.wheel # Absent /\ s.gps # Absent
    BY <1>2, <1>3, <2>1 DEF Seen
  <2>3. (\A k \in (i + 1)..(n + 1) : log'[k].t - log'[k - 1].t <= LaunchGap)
          <=> (\A k \in (i + 1)..n : log[k].t - log[k - 1].t <= LaunchGap) /\ s.t - log[n].t <= LaunchGap
    BY <1>2, <1>3, <2>1
  <2>4. (\A k \in (i + 1)..(n + 1) : log'[k].wheel > NearStop)
          <=> (\A k \in (i + 1)..n : log[k].wheel > NearStop) /\ s.wheel > NearStop
    BY <1>2, <1>3, <2>1
  <2>5. (\A k \in (i + 1)..((n + 1) - 1) : CorrobSpeed(log'[k]) < Target)
          <=> \A k \in (i + 1)..n : Speed(k) < Target
    BY <1>2, <2>1 DEF Speed
  <2>6. \A k \in i..n : \A m \in i..k :
            CorrobSpeed(log'[k]) * DipDen >= CorrobSpeed(log'[m]) * DipNum <=> ~Dips(k, m)
    BY <1>2, <1>5, <2>1, NoDip DEF Speed, Dips
  <2>7. s.wheel # Absent =>
          ((\A m \in i..(n + 1) : CorrobSpeed(log'[n + 1]) * DipDen >= CorrobSpeed(log'[m]) * DipNum)
            <=> \A m \in i..n : ~(CorrobSpeed(s) * DipDen < Speed(m) * DipNum))
    <3>1. \A m \in i..n : CorrobSpeed(s) * DipDen >= CorrobSpeed(log'[m]) * DipNum
                            <=> ~(CorrobSpeed(s) * DipDen < Speed(m) * DipNum)
      BY <1>2, <1>4, <1>5, <2>1, NoDip DEF Speed
    <3>2. s.wheel # Absent => CorrobSpeed(s) * DipDen >= CorrobSpeed(s) * DipNum
      BY <1>4, <1>6, <1>7, NoDip
    <3>. QED
      BY <1>3, <2>1, <3>1, <3>2
  <2>8. s.wheel # Absent =>
          ((\A k \in i..(n + 1) : \A m \in i..k :
                CorrobSpeed(log'[k]) * DipDen >= CorrobSpeed(log'[m]) * DipNum)
            <=> /\ \A k \in i..n : \A m \in i..k : ~Dips(k, m)
                /\ \A m \in i..n : ~(CorrobSpeed(s) * DipDen < Speed(m) * DipNum))
    BY <2>1, <2>6, <2>7
  <2>9. log'[i].wheel = log[i].wheel /\ CorrobSpeed(log'[n + 1]) = CorrobSpeed(s)
    BY <1>2, <1>3
  <2>. QED
    BY <2>1, <2>2, <2>3, <2>4, <2>5, <2>8, <2>9 DEF GenuineLaunch, Follows, Armed
<1>. QED
    BY <1>8, <1>9

\* What becomes of the launches in a log that has grown.
Ending(i, s) == Crossing(log[i].t, log[Len(log)].t, Speed(Len(log)), s.t, CorrobSpeed(s))

LEMMA LaunchesGrow ==
    ASSUME NEW n \in Nat, Len(log) = n, NEW s \in Sample, Grows(s)
    PROVE  LaunchTimes' = LaunchTimes \cup
              {Ending(i, s) : i \in {j \in 1..n : Follows(j, s) /\ CorrobSpeed(s) >= Target}}
<1> DEFINE T(i, j) == Crossing(log[i].t, log[j - 1].t, CorrobSpeed(log[j - 1]),
                               log[j].t, CorrobSpeed(log[j]))
           Late == {Ending(i, s) : i \in {j \in 1..n : Follows(j, s) /\ CorrobSpeed(s) >= Target}}
<1>1. Len(log') = n + 1
    BY DEF Grows
<1>2. \A i \in 1..n : log'[i] = log[i]
    BY DEF Grows
<1>3. log'[n + 1] = s /\ (n + 1) - 1 = n
    BY DEF Grows
<1>4. \A i, j \in 1..n : GenuineLaunch(i, j)' <=> GenuineLaunch(i, j)
    BY GenuineIsArmed
<1>5. \A i \in 1..n : GenuineLaunch(i, n + 1)' <=> Follows(i, s) /\ CorrobSpeed(s) >= Target
    BY GenuineIsArmed
<1>6. \A i, j \in 1..n : GenuineLaunch(i, j) => j - 1 \in 1..n
    BY DEF GenuineLaunch
<1>7. \A i, j \in 1..n : GenuineLaunch(i, j) => T(i, j)' = T(i, j)
    BY <1>2, <1>6
<1>8. \A i \in 1..n : T(i, n + 1)' = Ending(i, s)
    BY <1>1, <1>2, <1>3 DEF Ending, Speed
<1>9. LaunchTimes = {T(p[1], p[2]) : p \in {q \in (1..n) \X (1..n) : GenuineLaunch(q[1], q[2])}}
    BY DEF LaunchTimes
<1>10. LaunchTimes' = {T(p[1], p[2])' : p \in {q \in (1..(n + 1)) \X (1..(n + 1)) :
                                                    GenuineLaunch(q[1], q[2])'}}
    BY <1>1 DEF LaunchTimes
<1> HIDE DEF T
<1>11. \A x : x \in LaunchTimes' <=>
                \E i, j \in 1..(n + 1) : GenuineLaunch(i, j)' /\ x = T(i, j)'
  <2>1. ASSUME NEW x \in LaunchTimes'
        PROVE  \E i, j \in 1..(n + 1) : GenuineLaunch(i, j)' /\ x = T(i, j)'
    <3>1. PICK p \in (1..(n + 1)) \X (1..(n + 1)) :
             GenuineLaunch(p[1], p[2])' /\ x = T(p[1], p[2])'
      BY <1>10
    <3>. QED
      BY <3>1
  <2>2. ASSUME NEW i \in 1..(n + 1), NEW j \in 1..(n + 1), GenuineLaunch(i, j)'
        PROVE  T(i, j)' \in LaunchTimes'
    <3>1. <<i, j>> \in {q \in (1..(n + 1)) \X (1..(n + 1)) : GenuineLaunch(q[1], q[2])'}
      BY <2>2
    <3>2. <<i, j>>[1] = i /\ <<i, j>>[2] = j
      OBVIOUS
    <3>. QED
      BY <1>10, <3>1, <3>2
  <2>. QED
    BY <2>1, <2>2
<1>12. \A j : ~GenuineLaunch(n + 1, j)' \/ j \notin 1..(n + 1)
    BY DEF GenuineLaunch
<1>13. ASSUME NEW x \in LaunchTimes' PROVE x \in LaunchTimes \cup Late
  <2>1. PICK i \in 1..(n + 1), j \in 1..(n + 1) : GenuineLaunch(i, j)' /\ x = T(i, j)'
    BY <1>11
  <2>2. i \in 1..n
    BY <1>12, <2>1
  <2>3. CASE j = n + 1
    BY <1>5, <1>8, <2>1, <2>2, <2>3
  <2>4. CASE j \in 1..n
    <3>1. GenuineLaunch(i, j) /\ x = T(i, j)
      BY <1>4, <1>7, <2>1, <2>2, <2>4
    <3>2. <<i, j>> \in {q \in (1..n) \X (1..n) : GenuineLaunch(q[1], q[2])}
      BY <2>2, <2>4, <3>1
    <3>3. <<i, j>>[1] = i /\ <<i, j>>[2] = j
      OBVIOUS
    <3>. QED
      BY <1>9, <3>1, <3>2, <3>3
  <2>. QED
    BY <2>3, <2>4
<1>14. ASSUME NEW x \in LaunchTimes PROVE x \in LaunchTimes'
  <2>1. PICK p \in (1..n) \X (1..n) : GenuineLaunch(p[1], p[2]) /\ x = T(p[1], p[2])
    BY <1>9
  <2>2. p[1] \in 1..(n + 1) /\ p[2] \in 1..(n + 1) /\ p[1] \in 1..n /\ p[2] \in 1..n
    OBVIOUS
  <2>. QED
    BY <1>4, <1>7, <1>11, <2>1, <2>2
<1>15. ASSUME NEW x \in Late PROVE x \in LaunchTimes'
  <2>1. PICK i \in 1..n : Follows(i, s) /\ CorrobSpeed(s) >= Target /\ x = Ending(i, s)
    OBVIOUS
  <2>2. i \in 1..(n + 1) /\ n + 1 \in 1..(n + 1)
    OBVIOUS
  <2>. QED
    BY <1>5, <1>8, <1>11, <2>1, <2>2
<1>. QED
    BY <1>13, <1>14, <1>15

\* The time of a launch is a fraction: the target is crossed on the way up.
LEMMA EndingIs ==
    ASSUME NEW n \in Nat, Len(log) = n, NEW s \in Sample, Grows(s), NEW i \in 1..n,
           Follows(i, s), CorrobSpeed(s) >= Target
    PROVE  Ending(i, s) \in Fractions
<1>1. log[i] \in Sample /\ log[n] \in Sample /\ n \in 1..n
    BY DEF Grows
<1>2. log[i].t \in Nat /\ log[n].t \in Nat /\ s.t \in Nat
    BY <1>1 DEF Sample
<1>3. s.wheel # Absent /\ CorrobSpeed(s) \in Nat
    BY SpeedIs DEF Follows
<1>4. Seen(n) /\ Seen(i)
    BY <1>1 DEF Follows, Armed
<1>5. Speed(n) \in Nat
    BY <1>1, <1>4, SpeedsAre DEF Grows
<1>6. Speed(n) < Target
  <2>1. CASE i = n
    <3>1. log[i].wheel <= NearStop /\ log[i].wheel # Absent
      BY <1>4 DEF Follows, Armed, Seen
    <3>2. Speed(i) <= log[i].wheel /\ log[i].wheel \in Nat
      BY <1>1, <3>1, SpeedIs DEF Speed
    <3>. QED
      BY <1>5, <2>1, <3>1, <3>2, Thresholds
  <2>2. CASE i # n
    <3>1. n \in (i + 1)..n
      BY <2>2
    <3>. QED
      BY <3>1 DEF Follows, Armed
  <2>. QED
    BY <2>1, <2>2
<1> DEFINE v == CorrobSpeed(s)
           u == Speed(n)
           x == log[n].t - log[i].t
           y == s.t - log[n].t
<1>7. x \in Int /\ y \in Int
    BY <1>2
<1>8. v - u \in Nat \ {0} /\ Target - u \in Int
  <2>1. v \in Nat /\ u \in Nat /\ u < Target /\ v >= Target
    BY <1>3, <1>5, <1>6
  <2> HIDE DEF v, u
  <2>. QED
    BY <2>1, Thresholds
<1>9. Ending(i, s) = <<x * (v - u) + y * (Target - u), v - u>>
    BY DEF Ending, Crossing
<1> HIDE DEF v, u, x, y
<1>10. x * (v - u) + y * (Target - u) \in Int
    BY <1>7, <1>8
<1>. QED
    BY <1>8, <1>9, <1>10 DEF Fractions

LEMMA CountedIs ==
    ASSUME NEW x \in Fractions
    PROVE  Counted(x) = None \/ (Counted(x) = x /\ Counted(x) # None)
BY NoFigure DEF Counted

\* A figure that counts is one more; one that does not changes nothing.
LEMMA CountedExtends ==
    ASSUME NEW figures \in SUBSET Fractions, NEW best \in Fractions \cup {None},
           BestIs(best, figures), NEW x \in Fractions
    PROVE  /\ BestIs(Lower(best, Counted(x)), figures \cup ({Counted(x)} \ {None}))
           /\ Lower(best, Counted(x)) \in Fractions \cup {None}
           /\ {Counted(x)} \ {None} \subseteq Fractions
<1>1. CASE Counted(x) = None
  <2>1. Lower(best, Counted(x)) = best
    BY <1>1 DEF Lower
  <2>2. figures \cup ({Counted(x)} \ {None}) = figures
    BY <1>1
  <2>. QED
    BY <1>1, <2>1, <2>2
<1>2. CASE Counted(x) = x /\ Counted(x) # None
  <2>1. figures \cup ({Counted(x)} \ {None}) = figures \cup {x}
    BY <1>2
  <2>2. BestIs(Lower(best, x), figures \cup {x})
    BY BestExtends
  <2>3. Lower(best, x) \in Fractions \cup {None}
    BY DEF Lower
  <2>. QED
    BY <1>2, <2>1, <2>2, <2>3
<1>. QED
    BY <1>1, <1>2, CountedIs

\* The peak is above every sample of the launch: no dip below it is no dip.
LEMMA PeakTells ==
    ASSUME log \in Seq(Sample), NEW i \in 1..Len(log), NEW p \in Nat, Peak(i, p), NEW v \in Nat
    PROVE  v * DipDen < p * DipNum <=> \E m \in i..Len(log) : v * DipDen < Speed(m) * DipNum
<1>1. \A m \in i..Len(log) : Speed(m) \in Int /\ Speed(m) <= p
    BY SpeedsAre DEF Peak
<1>2. PICK k \in i..Len(log) : Speed(k) = p
    BY DEF Peak
<1>3. \A a, b \in Int : a <= b => a * DipNum <= b * DipNum
    BY Thresholds
<1>4. \A m \in i..Len(log) : Speed(m) * DipNum <= p * DipNum
    BY <1>1, <1>3
<1>5. p * DipNum \in Int /\ v * DipDen \in Int
    BY Thresholds
<1>6. \A m \in i..Len(log) : Speed(m) * DipNum \in Int
    BY <1>1, Thresholds
<1>7. ASSUME NEW m \in i..Len(log), v * DipDen < Speed(m) * DipNum
      PROVE  v * DipDen < p * DipNum
    BY <1>4, <1>5, <1>6, <1>7
<1>. QED
    BY <1>2, <1>7

LEMMA UnarmedIs ==
    ASSUME NEW a \in LaunchPass
    PROVE  /\ Unarmed(a) \in LaunchPass /\ Unarmed(a).start = Absent /\ Unarmed(a).best = a.best
           /\ Unarmed(a).at = a.at /\ Unarmed(a).v = a.v
<1> DEFINE b == [a EXCEPT !.start = Absent, !.peak = 0]
<1>1. /\ a.start \in Nat \cup {Absent} /\ a.peak \in Nat /\ a.at \in Nat \cup {Absent}
      /\ a.v \in Nat /\ a.best \in Fractions \cup {None}
    BY DEF LaunchPass
<1>2. b \in LaunchPass
    BY <1>1 DEF LaunchPass
<1>3. b.start = Absent /\ b.at = a.at /\ b.v = a.v /\ b.best = a.best
    BY DEF LaunchPass
<1>4. Unarmed(a) = b
    BY DEF Unarmed
<1>. QED
    BY <1>2, <1>3, <1>4

\* What the pass remembers once it has looked at the time since the sample
\* before.
Resumed(s) ==
    IF launch.at # Absent /\ s.t - launch.at > LaunchGap THEN Unarmed(launch) ELSE launch
InTime(i, s) == Armed(i) /\ s.t - log[Len(log)].t <= LaunchGap

LEMMA ResumedIs ==
    ASSUME LaunchInv, NEW s \in Sample
    PROVE  LET a == Resumed(s)
           IN  /\ a \in LaunchPass /\ a.at = launch.at /\ a.v = launch.v /\ a.best = launch.best
               /\ a.start = Absent => \A i \in 1..Len(log) : ~InTime(i, s)
               /\ a.start # Absent =>
                     \E i \in 1..Len(log) :
                         InTime(i, s) /\ a.start = log[i].t /\ Peak(i, a.peak)
<1> DEFINE n == Len(log)
           a == Resumed(s)
<1>1. launch \in LaunchPass /\ s.t \in Nat /\ n \in Nat
    BY DEF LaunchInv, Sample
<1>2. \A i \in 1..n : Armed(i) => launch.at = log[n].t /\ launch.at # Absent
  <2> SUFFICES ASSUME NEW i \in 1..n, Armed(i) PROVE launch.at = log[n].t /\ launch.at # Absent
    OBVIOUS
  <2>1. n \in i..n /\ n \in 1..n /\ log # <<>>
    BY DEF LaunchInv
  <2>2. Seen(n) /\ log[n] \in Sample
    BY <2>1 DEF Armed, LaunchInv
  <2>3. launch.at = log[n].t
    BY <2>1, <2>2 DEF LaunchInv, LaunchRight, LastSeen
  <2>. QED
    BY <2>2, <2>3 DEF Sample, Absent
<1>3. CASE launch.at # Absent /\ s.t - launch.at > LaunchGap
  <2>1. a = Unarmed(launch)
    BY <1>3 DEF Resumed
  <2>2. /\ a \in LaunchPass /\ a.at = launch.at /\ a.v = launch.v /\ a.best = launch.best
        /\ a.start = Absent
    BY <1>1, <2>1, UnarmedIs
  <2>3. launch.at \in Nat
    BY <1>1, <1>3 DEF LaunchPass
  <2>4. ASSUME NEW i \in 1..n PROVE ~InTime(i, s)
    BY <1>1, <1>2, <1>3, <2>3, Thresholds DEF InTime
  <2>. QED
    BY <2>2, <2>4
<1>4. CASE ~(launch.at # Absent /\ s.t - launch.at > LaunchGap)
  <2>1. a = launch
    BY <1>4 DEF Resumed
  <2>2. ASSUME NEW i \in 1..n, Armed(i) PROVE InTime(i, s)
    <3>1. launch.at \in Nat /\ launch.at = log[n].t
      BY <1>1, <1>2, <2>2 DEF LaunchPass
    <3>. QED
      BY <1>1, <1>2, <1>4, <2>2, <3>1, Thresholds DEF InTime
  <2>3. a.start = Absent => \A i \in 1..n : ~InTime(i, s)
    BY <2>1 DEF LaunchInv, LaunchRight, InTime
  <2>4. a.start # Absent => \E i \in 1..n : InTime(i, s) /\ a.start = log[i].t /\ Peak(i, a.peak)
    BY <2>1, <2>2 DEF LaunchInv, LaunchRight
  <2>. QED
    BY <1>1, <2>1, <2>3, <2>4
<1>. QED
    BY <1>3, <1>4

\* The sample is the last one now, and the pass remembers it.
LEMMA LastSeenGrows ==
    ASSUME NEW n \in Nat, Len(log) = n, NEW s \in Sample, Grows(s),
           IF s.wheel # Absent /\ s.gps # Absent
           THEN launch'.at = s.t /\ launch'.v = CorrobSpeed(s)
           ELSE launch'.at = Absent
    PROVE  LastSeen'
<1>1. Len(log') = n + 1 /\ log'[n + 1] = s /\ log' # <<>>
    BY DEF Grows
<1>2. log'[Len(log')] = s
    BY <1>1
<1>. QED
    BY <1>1, <1>2 DEF LastSeen, Seen, Speed

\* What is left to show of each outcome: how the launch stands that is under
\* way, and which figure there is in addition.
LEMMA OutcomeSound ==
    ASSUME LaunchInv, NEW n \in Nat, Len(log) = n, NEW s \in Sample, Grows(s),
           s.wheel # Absent, s.gps # Absent,
           NEW r \in LaunchPass, launch' = [r EXCEPT !.at = s.t, !.v = CorrobSpeed(s)],
           r.start = Absent => \A i \in 1..(n + 1) : ~Armed(i)',
           r.start # Absent =>
              \E i \in 1..(n + 1) : Armed(i)' /\ r.start = log'[i].t /\ Peak(i, r.peak)',
           LaunchFigures' \subseteq Fractions, BestIs(r.best, LaunchFigures')
    PROVE  LaunchInv'
<1>1. CorrobSpeed(s) \in Nat /\ s.t \in Nat
    BY SpeedIs DEF Sample
<1>2. /\ launch' \in LaunchPass /\ launch'.start = r.start /\ launch'.peak = r.peak
      /\ launch'.best = r.best /\ launch'.at = s.t /\ launch'.v = CorrobSpeed(s)
  <2> DEFINE v == CorrobSpeed(s)
             t == s.t
  <2>1. v \in Nat /\ t \in Nat
    BY <1>1
  <2>2. PICK b : b = launch'
    OBVIOUS
  <2>3. b = [r EXCEPT !.at = t, !.v = v]
    BY <2>2
  <2> HIDE DEF v, t
  <2>4. b \in LaunchPass
    BY <2>1, <2>3 DEF LaunchPass
  <2>5. b.start = r.start /\ b.peak = r.peak /\ b.best = r.best /\ b.at = t /\ b.v = v
    BY <2>3 DEF LaunchPass
  <2>. QED
    BY <2>2, <2>4, <2>5 DEF v, t
<1>3. LastSeen'
    BY <1>2, LastSeenGrows
<1>4. Len(log') = n + 1 /\ log' \in Seq(Sample)
    BY DEF Grows
<1>5. LaunchRight'
    BY <1>2, <1>3, <1>4 DEF LaunchRight
<1>. QED
    BY <1>2, <1>4, <1>5 DEF LaunchInv

LEMMA FiguresStay ==
    ASSUME LaunchInv, NEW n \in Nat, Len(log) = n, NEW s \in Sample, Grows(s),
           \A i \in 1..n : ~(Follows(i, s) /\ CorrobSpeed(s) >= Target)
    PROVE  /\ LaunchFigures' = LaunchFigures /\ LaunchFigures \subseteq Fractions
           /\ BestIs(launch.best, LaunchFigures)
<1>1. LaunchTimes' = LaunchTimes
    BY LaunchesGrow
<1>. QED
    BY <1>1 DEF LaunchFigures, LaunchInv, LaunchRight

LEMMA LaunchStepSound ==
    ASSUME LaunchInv, NEW n \in Nat, Len(log) = n, NEW s \in Sample, Grows(s)
    PROVE  LaunchInv'
<1> DEFINE v == CorrobSpeed(s)
           a == Resumed(s)
<1>0. PICK r : r = Attempt(a, s)
    OBVIOUS
<1>1. Len(log') = n + 1 /\ log' \in Seq(Sample) /\ launch' = LaunchStep(launch, s)
    BY DEF Grows
<1>2. /\ \A i \in 1..n : log'[i] = log[i] /\ Speed(i)' = Speed(i)
      /\ log'[n + 1] = s /\ Speed(n + 1)' = v
    BY DEF Grows, Speed
<1>3. \A i \in 1..n : Armed(i)' <=> Follows(i, s) /\ v < Target
    BY ArmedGrows
<1>4. Armed(n + 1)' <=> s.wheel # Absent /\ s.gps # Absent /\ s.wheel <= NearStop
    BY ArmedGrows
<1>5. \A i \in 1..(n + 1) : i \in 1..n \/ i = n + 1
    OBVIOUS
<1>6. /\ a \in LaunchPass /\ a.at = launch.at /\ a.v = launch.v /\ a.best = launch.best
      /\ a.start = Absent => \A i \in 1..n : ~InTime(i, s)
      /\ a.start # Absent =>
            \E i \in 1..n : InTime(i, s) /\ a.start = log[i].t /\ Peak(i, a.peak)
    BY ResumedIs
<1>7. s.t \in Nat /\ v \in Nat \cup {Absent}
    BY SpeedIs DEF Sample
<1>8. \A i \in 1..n : Follows(i, s) => InTime(i, s)
    BY DEF Follows, InTime
\* A sample that the GPS does not vouch for.
<1>9. CASE s.wheel = Absent \/ s.gps = Absent
  <2>1. launch' = [Unarmed(launch) EXCEPT !.at = Absent]
    BY <1>1, <1>9 DEF LaunchStep
  <2>2. \A i \in 1..n : ~Follows(i, s)
    BY <1>9 DEF Follows
  <2>3. Unarmed(launch) \in LaunchPass /\ Unarmed(launch).start = Absent
        /\ Unarmed(launch).best = launch.best
    BY UnarmedIs DEF LaunchInv
  <2>4. launch' \in LaunchPass /\ launch'.start = Absent /\ launch'.at = Absent
        /\ launch'.best = launch.best
    <3> DEFINE u == Unarmed(launch)
    <3> HIDE DEF u
    <3>1. launch' = [u EXCEPT !.at = Absent] /\ u \in LaunchPass /\ u.start = Absent
          /\ u.best = launch.best
      BY <2>1, <2>3 DEF u
    <3>. QED
      BY <3>1 DEF LaunchPass
  <2>5. \A i \in 1..(n + 1) : ~Armed(i)'
    BY <1>3, <1>4, <1>5, <1>9, <2>2
  <2>6. LastSeen'
    BY <1>9, <2>4, LastSeenGrows
  <2>7. LaunchFigures' \subseteq Fractions /\ BestIs(launch'.best, LaunchFigures')
    BY <2>2, <2>4, FiguresStay
  <2>8. LaunchRight'
    BY <1>1, <2>4, <2>5, <2>6, <2>7 DEF LaunchRight
  <2>. QED
    BY <1>1, <2>4, <2>8 DEF LaunchInv
<1>10. CASE s.wheel # Absent /\ s.gps # Absent
  <2>1. v \in Nat /\ s.wheel \in Nat /\ v <= s.wheel
    BY <1>10, SpeedIs
  <2>2. launch' = [r EXCEPT !.at = s.t, !.v = v]
    BY <1>0, <1>1, <1>10 DEF LaunchStep, Resumed
  <2> HIDE DEF v, a
  \* The wheel stands: a launch may begin here.
  <2>3. CASE s.wheel <= NearStop
    <3>1. r = [a EXCEPT !.start = s.t, !.peak = v]
      BY <1>0, <2>1, <2>3, Thresholds DEF Attempt, v
    <3>2. r \in LaunchPass /\ r.start = s.t /\ r.peak = v /\ r.best = launch.best
      BY <1>6, <1>7, <2>1, <3>1 DEF LaunchPass
    <3>3. \A i \in 1..n : ~Follows(i, s)
      BY <2>1, <2>3, Thresholds DEF Follows
    <3>4. Peak(n + 1, v)'
      <4>1. \A k \in (n + 1)..Len(log') : k = n + 1
        BY <1>1
      <4>2. n + 1 \in (n + 1)..Len(log') /\ v <= v
        BY <1>1, <2>1
      <4>3. (\A k \in (n + 1)..Len(log') : Speed(k)' <= v) /\ \E k \in (n + 1)..Len(log') : Speed(k)' = v
        BY <1>2, <4>1, <4>2
      <4>. QED
        BY <4>3 DEF Peak, v
    <3>5. LaunchFigures' \subseteq Fractions /\ BestIs(r.best, LaunchFigures')
      BY <3>2, <3>3, FiguresStay
    <3>6. \E i \in 1..(n + 1) : Armed(i)' /\ r.start = log'[i].t /\ Peak(i, r.peak)'
      BY <1>2, <1>4, <1>10, <2>3, <3>2, <3>4
    <3>7. r.start # Absent
      BY <1>7, <3>2 DEF Absent
    <3>. QED
      BY <1>10, <2>2, <3>2, <3>5, <3>6, <3>7, OutcomeSound DEF v
  <2>4. CASE ~(s.wheel <= NearStop)
    <3>1. ~Armed(n + 1)' /\ s.wheel > NearStop
      BY <1>4, <2>1, <2>4, Thresholds
    \* Nothing is under way.
    <3>2. CASE a.start = Absent
      <4>1. r = a
        BY <1>0, <2>4, <3>2 DEF Attempt, v
      <4>2. \A i \in 1..n : ~Follows(i, s)
        BY <1>6, <1>8, <3>2
      <4>3. \A i \in 1..(n + 1) : ~Armed(i)'
        BY <1>3, <1>5, <3>1, <4>2
      <4>4. LaunchFigures' \subseteq Fractions /\ BestIs(r.best, LaunchFigures')
        BY <1>6, <4>1, <4>2, FiguresStay
      <4>. QED
        BY <1>6, <1>10, <2>2, <3>2, <4>1, <4>3, <4>4, OutcomeSound DEF v
    <3>3. CASE a.start # Absent
      <4>1. PICK i \in 1..n : InTime(i, s) /\ a.start = log[i].t /\ Peak(i, a.peak)
        BY <1>6, <3>3
      <4>2. Armed(i) /\ s.t - log[n].t <= LaunchGap /\ log \in Seq(Sample)
        BY <4>1 DEF InTime, LaunchInv
      <4>3. \A j \in 1..n : Follows(j, s) => j = i
        BY <4>2, ArmedOnce DEF Follows
      <4>4. a.peak \in Nat
        BY <1>6 DEF LaunchPass
      <4>5. Follows(i, s) <=> ~(v * DipDen < a.peak * DipNum)
        <5>1. v * DipDen < a.peak * DipNum <=> \E m \in i..n : v * DipDen < Speed(m) * DipNum
          BY <2>1, <4>1, <4>2, <4>4, PeakTells
        <5>. QED
          BY <1>10, <3>1, <4>2, <5>1 DEF Follows, v
      \* The speed has dipped.
      <4>6. CASE v * DipDen < a.peak * DipNum
        <5>1. r = Unarmed(a)
          BY <1>0, <2>4, <3>3, <4>6 DEF Attempt, v
        <5>2. r \in LaunchPass /\ r.start = Absent /\ r.best = launch.best
          BY <1>6, <5>1, UnarmedIs
        <5>3. \A j \in 1..n : ~Follows(j, s)
          BY <4>3, <4>5, <4>6
        <5>4. \A j \in 1..(n + 1) : ~Armed(j)'
          BY <1>3, <1>5, <3>1, <5>3
        <5>5. LaunchFigures' \subseteq Fractions /\ BestIs(r.best, LaunchFigures')
          BY <5>2, <5>3, FiguresStay
        <5>. QED
          BY <1>10, <2>2, <5>2, <5>4, <5>5, OutcomeSound DEF v
      \* The launch goes on.
      <4>7. CASE ~(v * DipDen < a.peak * DipNum) /\ v < Target
        <5>1. r = [a EXCEPT !.peak = Most(a.peak, v)]
          BY <1>0, <2>4, <3>3, <4>7 DEF Attempt, v
        <5>2. Most(a.peak, v) \in Nat /\ a.peak <= Most(a.peak, v) /\ v <= Most(a.peak, v)
              /\ Most(a.peak, v) \in {a.peak, v}
          BY <2>1, <4>4 DEF Most
        <5>3. /\ r \in LaunchPass /\ r.start = a.start /\ r.peak = Most(a.peak, v)
              /\ r.best = launch.best
          BY <1>6, <5>1, <5>2 DEF LaunchPass
        <5>4. \A j \in 1..n : ~(Follows(j, s) /\ v >= Target)
          BY <2>1, <4>7, Thresholds
        <5>5. LaunchFigures' \subseteq Fractions /\ BestIs(r.best, LaunchFigures')
          BY <5>3, <5>4, FiguresStay DEF v
        <5>6. Armed(i)' /\ log'[i].t = r.start /\ i \in 1..(n + 1) /\ r.start # Absent
          BY <1>2, <1>3, <3>3, <4>1, <4>5, <4>7, <5>3
        <5>7. Peak(i, r.peak)'
          <6>1. \A k : k \in i..Len(log') <=> k \in i..n \/ k = n + 1
            BY <1>1
          <6>2. \A k \in i..n : k \in 1..n /\ Speed(k) \in Int /\ Speed(k) <= a.peak
            BY <4>1, <4>2, SpeedsAre DEF Peak
          <6>3. PICK k \in i..n : Speed(k) = a.peak
            BY <4>1 DEF Peak
          <6>4. \A m \in i..Len(log') : Speed(m)' <= Most(a.peak, v)
            BY <1>2, <2>1, <4>4, <5>2, <6>1, <6>2
          <6>5. \E m \in i..Len(log') : Speed(m)' = Most(a.peak, v)
            BY <1>2, <5>2, <6>1, <6>2, <6>3
          <6>6. r.peak = Most(a.peak, v)
            BY <5>3
          <6>. QED
            BY <6>4, <6>5, <6>6 DEF Peak
        <5>. QED
          BY <1>10, <2>2, <5>3, <5>5, <5>6, <5>7, OutcomeSound DEF v
      \* It reaches the target.
      <4>8. CASE ~(v * DipDen < a.peak * DipNum) /\ ~(v < Target)
        <5>1. v >= Target /\ Follows(i, s)
          BY <2>1, <4>5, <4>8, Thresholds
        <5>2. a.at = log[n].t /\ a.v = Speed(n)
          <6>1. n \in i..n /\ log # <<>>
            BY <4>2
          <6>2. Seen(n)
            BY <4>2, <6>1 DEF Armed
          <6>. QED
            BY <1>6, <6>1, <6>2 DEF LaunchInv, LaunchRight, LastSeen
        <5> DEFINE time == Ending(i, s)
        <5>3. time \in Fractions
          BY <5>1, EndingIs DEF v
        <5>4. Crossing(a.start, a.at, a.v, s.t, v) = time
          BY <4>1, <5>2 DEF Ending, v
        <5> HIDE DEF time
        <5>5. r = [Unarmed(a) EXCEPT !.best = Lower(Unarmed(a).best, Counted(time))]
          BY <1>0, <2>4, <3>3, <4>8, <5>4 DEF Attempt, v
        <5>6. LaunchTimes' = LaunchTimes \cup {time}
          BY <4>3, <5>1, LaunchesGrow DEF time, v
        <5>7. LaunchFigures' = LaunchFigures \cup ({Counted(time)} \ {None})
          BY <5>6 DEF LaunchFigures
        <5>8. /\ launch.best \in Fractions \cup {None} /\ LaunchFigures \in SUBSET Fractions
              /\ BestIs(launch.best, LaunchFigures)
          BY DEF LaunchInv, LaunchRight, LaunchPass
        <5>9. /\ BestIs(Lower(launch.best, Counted(time)), LaunchFigures')
              /\ Lower(launch.best, Counted(time)) \in Fractions \cup {None}
              /\ LaunchFigures' \subseteq Fractions
          BY <5>3, <5>7, <5>8, CountedExtends
        <5>10. Unarmed(a) \in LaunchPass /\ Unarmed(a).start = Absent /\ Unarmed(a).best = launch.best
          BY <1>6, UnarmedIs
        <5>11. /\ r \in LaunchPass /\ r.start = Absent
               /\ r.best = Lower(launch.best, Counted(time))
          <6> DEFINE u == Unarmed(a)
                     b == Lower(launch.best, Counted(time))
          <6>1. r = [u EXCEPT !.best = b] /\ u \in LaunchPass /\ u.start = Absent
            BY <5>5, <5>10
          <6>2. b \in Fractions \cup {None}
            BY <5>9
          <6> HIDE DEF u, b
          <6>3. r \in LaunchPass /\ r.start = Absent /\ r.best = b
            BY <6>1, <6>2 DEF LaunchPass
          <6>. QED
            BY <6>3 DEF b
        <5>12. \A j \in 1..(n + 1) : ~Armed(j)'
          BY <1>3, <1>5, <3>1, <4>8
        <5>. QED
          BY <1>10, <2>2, <5>9, <5>11, <5>12, OutcomeSound DEF v
      <4>. QED
        BY <4>6, <4>7, <4>8
    <3>. QED
      BY <3>2, <3>3
  <2>. QED
    BY <2>3, <2>4
<1>. QED
    BY <1>9, <1>10

-----------------------------------------------------------------------------
\* A log in the order of its times, and one that goes on with one sample more.
Ordered(L) == L \in Seq(Sample) /\ \A i, j \in 1..Len(L) : i <= j => L[i].t <= L[j].t
Longer(L, s, N) ==
    /\ Ordered(L) /\ Ordered(N) /\ s \in Sample /\ Len(N) = Len(L) + 1
    /\ \A i \in 1..Len(L) : N[i] = L[i]
    /\ N[Len(L) + 1] = s

LEMMA OrderGrows ==
    ASSUME Ordered(log), NEW reading \in Readings, NEW gap \in Gaps,
           NextSample(reading, gap), NEW s \in Sample, Grows(s)
    PROVE  Longer(log, s, log')
<1> DEFINE n == Len(log)
<1>1. /\ n \in Nat /\ Len(log') = n + 1 /\ \A i \in 1..n : log'[i] = log[i]
      /\ log'[n + 1] = s /\ log \in Seq(Sample) /\ log' \in Seq(Sample)
    BY DEF Grows, Ordered
<1>2. ASSUME n # 0 PROVE log[n] \in Sample /\ log[n].t \in Nat
    <2>1. n \in 1..n
        BY <1>1, <1>2
    <2>2. log[n] \in Sample
        BY <1>1, <2>1
    <2>. QED
        BY <2>2 DEF Sample
<1>3. gap \in Nat
    BY TelemetryAssumption
<1>4. s.t = IF n = 0 THEN 0 ELSE log[n].t + gap
    <2> DEFINE q == [wheel |-> reading.wheel, gps |-> reading.gps, load |-> reading.load,
                     t |-> IF log = <<>> THEN 0 ELSE log[Len(log)].t + gap]
    <2>1. log' = Append(log, q)
        BY DEF NextSample
    <2>2. q = s
        <3> HIDE DEF q
        <3>. QED
            BY <1>1, <2>1
    <2>3. log = <<>> <=> n = 0
        OBVIOUS
    <2>. QED
        BY <2>2, <2>3
<1>5. \A i \in 1..n : log[i].t \in Nat /\ log[i].t <= log[n].t
    <2>1. \A i \in 1..n : log[i] \in Sample /\ n \in 1..n /\ i <= n
        BY <1>1
    <2>. QED
        BY <2>1 DEF Ordered, Sample
<1>6. \A i \in 1..n : log[i].t <= s.t
    BY <1>2, <1>3, <1>4, <1>5
<1>7. ASSUME NEW i \in 1..Len(log'), NEW j \in 1..Len(log'), i <= j
      PROVE  log'[i].t <= log'[j].t
    <2>1. CASE j \in 1..n
        <3>1. i \in 1..n
            BY <1>1, <1>7, <2>1
        <3>. QED
            BY <1>1, <1>7, <2>1, <3>1 DEF Ordered
    <2>2. CASE j = n + 1 /\ i \in 1..n
        BY <1>1, <1>6, <2>2
    <2>3. CASE j = n + 1 /\ i = n + 1
        BY <1>1, <2>3 DEF Sample
    <2>. QED
        BY <1>1, <1>7, <2>1, <2>2, <2>3
<1>8. Ordered(log')
    BY <1>1, <1>7 DEF Ordered
<1>. QED
    BY <1>1, <1>8 DEF Longer

-----------------------------------------------------------------------------
\* The last of the places before one is one of them.
LEMMA BeforeIs ==
    ASSUME NEW n \in Nat, NEW P \in SUBSET (1..n), NEW k \in Nat, \E e \in P : e < k
    PROVE  /\ Before(P, k) \in P /\ Before(P, k) < k
           /\ \A j \in P : j < k => j <= Before(P, k)
<1> DEFINE S == {j \in P : j < k}
<1>0. \A j \in P : j \in 0..n
    OBVIOUS
<1>1. S \in SUBSET (0..n) /\ S # {}
    BY <1>0
<1>2. Max(S) \in S /\ \A y \in S : y <= Max(S)
    <2> HIDE DEF S
    <2>. QED
        BY <1>1, GreatestOf
<1>. QED
    BY <1>2 DEF Before

\* A place that is added later is not before those there are.
LEMMA BeforeStays ==
    ASSUME NEW n \in Nat, NEW P \in SUBSET (1..n), NEW k \in 1..n
    PROVE  Before(P \cup {n + 1}, k) = Before(P, k)
<1>1. {j \in P \cup {n + 1} : j < k} = {j \in P : j < k}
    OBVIOUS
<1>. QED
    BY <1>1 DEF Before

LEMMA BeforeNew ==
    ASSUME NEW n \in Nat, NEW P \in SUBSET (1..n), NEW last \in P, \A e \in P : e <= last
    PROVE  Before(P \cup {n + 1}, n + 1) = last
<1> DEFINE S == {j \in P \cup {n + 1} : j < n + 1}
<1>0. \A j \in P : j \in Int /\ j <= n /\ j < n + 1
    OBVIOUS
<1>1. S \in SUBSET Int /\ last \in S /\ \A y \in S : y <= last
    <2>1. last \in S
        BY <1>0
    <2>3. ~(n + 1 < n + 1)
        OBVIOUS
    <2>2. ASSUME NEW j PROVE j \in S <=> j \in P
        BY <1>0, <2>3
    <2>. QED
        BY <1>0, <2>1, <2>2
<1>2. Max(S) = last
    <2> HIDE DEF S
    <2>. QED
        BY <1>1, MaxIs
<1>. QED
    BY <1>2 DEF Before

-----------------------------------------------------------------------------
LEMMA LengthNat == ASSUME NEW L, Ordered(L) PROVE Len(L) \in Nat
BY DEF Ordered

LEMMA AllowanceNat ==
    ASSUME NEW d \in Nat
    PROVE  Allowance(d) \in Nat
<1>1. Accel \in Nat /\ AccelGap \in Nat
    BY TelemetryAssumption
<1>2. Least(d, AccelGap) \in Nat
    BY <1>1 DEF Least
<1>. QED
    BY <1>1, <1>2 DEF Allowance

Climbed(P, i, k) == {m \in P : i < m /\ m <= k}
Climb(L, P, m) == Allowance(L[m].t - L[Before(P, m)].t)
Climbs(L, P, i, k) == [m \in Climbed(P, i, k) |-> Climb(L, P, m)]
RiseIn(L, P, i, k) == SumFunction(Climbs(L, P, i, k))

LEMMA ClimbNat ==
    ASSUME NEW L, Ordered(L), NEW P \in SUBSET (1..Len(L)),
           NEW m \in 1..Len(L), \E e \in P : e < m
    PROVE  Climb(L, P, m) \in Nat
<1> DEFINE b == Before(P, m)
<1>0. Len(L) \in Nat /\ m \in Nat
    BY LengthNat
<1>1. b \in P /\ b < m
    BY <1>0, BeforeIs
<1>2. b \in 1..Len(L)
    BY <1>1
<1> HIDE DEF b
<1>3. L[b] \in Sample /\ L[m] \in Sample /\ L[b].t <= L[m].t
    BY <1>1, <1>2, LengthNat DEF Ordered
<1>4. L[b].t \in Nat /\ L[m].t \in Nat
    BY <1>3 DEF Sample
<1>5. L[m].t - L[b].t \in Nat
    BY <1>3, <1>4
<1>. QED
    BY <1>5, AllowanceNat DEF b, Climb

LEMMA RiseNat ==
    ASSUME NEW L, Ordered(L), NEW P \in SUBSET (1..Len(L)), NEW i \in P, NEW k \in Nat
    PROVE  /\ IsFiniteSet(Climbed(P, i, k))
           /\ Climbs(L, P, i, k) \in [Climbed(P, i, k) -> Nat]
           /\ RiseIn(L, P, i, k) \in Nat
<1>1. IsFiniteSet(Climbed(P, i, k))
    <2>1. Len(L) \in Int /\ 1 \in Int
        BY LengthNat
    <2>2. IsFiniteSet(1..Len(L))
        BY <2>1, FS_Interval
    <2>3. Climbed(P, i, k) \in SUBSET (1..Len(L))
        BY DEF Climbed
    <2>. QED
        BY <2>2, <2>3, FS_Subset
<1>2. \A m \in Climbed(P, i, k) : Climb(L, P, m) \in Nat
    BY ClimbNat DEF Climbed
<1>3. Climbs(L, P, i, k) \in [Climbed(P, i, k) -> Nat]
    BY <1>2 DEF Climbs
<1>. QED
    BY <1>1, <1>3, SumNat DEF RiseIn

\* The rise between two samples does not change with what is read later.
LEMMA RiseStays ==
    ASSUME NEW L, NEW s, NEW N, Longer(L, s, N), NEW n \in Nat, Len(L) = n,
           NEW P \in SUBSET (1..n), NEW i \in P, NEW k \in P
    PROVE  RiseIn(N, P, i, k) = RiseIn(L, P, i, k)
<1>1. \A j \in 1..n : N[j] = L[j]
    BY DEF Longer
<1>2. ASSUME NEW m \in Climbed(P, i, k) PROVE Climb(N, P, m) = Climb(L, P, m)
    <2>1. m \in 1..n /\ m \in Nat /\ i \in P /\ i < m
        BY DEF Climbed
    <2>2. Before(P, m) \in P
        BY <2>1, BeforeIs
    <2>3. Before(P, m) \in 1..n
        BY <2>2
    <2>. QED
        BY <1>1, <2>1, <2>3 DEF Climb
<1>3. Climbs(N, P, i, k) = Climbs(L, P, i, k)
    BY <1>2 DEF Climbs
<1>. QED
    BY <1>3 DEF RiseIn

LEMMA RiseStaysToo ==
    ASSUME NEW L, NEW s, NEW N, Longer(L, s, N), NEW n \in Nat, Len(L) = n,
           NEW P \in SUBSET (1..n), NEW i \in P, NEW k \in P
    PROVE  RiseIn(N, P \cup {n + 1}, i, k) = RiseIn(L, P, i, k)
<1>1. ASSUME NEW m \in Climbed(P, i, k) PROVE Climb(N, P \cup {n + 1}, m) = Climb(N, P, m)
    <2>1. m \in 1..n
        BY DEF Climbed
    <2>2. Before(P \cup {n + 1}, m) = Before(P, m)
        BY <2>1, BeforeStays
    <2>. QED
        BY <2>2 DEF Climb
<1>2. Climbed(P \cup {n + 1}, i, k) = Climbed(P, i, k)
    BY DEF Climbed
<1>3. Climbs(N, P \cup {n + 1}, i, k) = Climbs(N, P, i, k)
    BY <1>1, <1>2 DEF Climbs
<1>4. RiseIn(N, P \cup {n + 1}, i, k) = RiseIn(N, P, i, k)
    BY <1>3 DEF RiseIn
<1>. QED
    BY <1>4, RiseStays

\* Up to the new sample it is the rise up to the last and what is allowed since.
LEMMA RiseGrows ==
    ASSUME NEW L, NEW s, NEW N, Longer(L, s, N), NEW n \in Nat, Len(L) = n,
           NEW P \in SUBSET (1..n), NEW i \in P, NEW last \in P, \A e \in P : e <= last
    PROVE  RiseIn(N, P \cup {n + 1}, i, n + 1) =
              RiseIn(L, P, i, last) + Allowance(s.t - L[last].t)
<1> DEFINE Q == P \cup {n + 1}
           D == Climbed(P, i, last)
           f == Climbs(N, Q, i, n + 1)
<1>1. /\ Ordered(N) /\ Ordered(L) /\ Len(N) = n + 1 /\ N[n + 1] = s
      /\ \A j \in 1..n : N[j] = L[j]
    BY DEF Longer
<1>0. \A j \in P : j \in 1..n /\ j <= last /\ j < n + 1 /\ j <= n + 1
    OBVIOUS
<1>2. Climbed(Q, i, n + 1) = D \cup {n + 1} /\ n + 1 \notin D
    <2>3. i < n + 1 /\ n + 1 <= n + 1
        BY <1>0
    <2>1. ASSUME NEW m PROVE m \in Climbed(Q, i, n + 1) <=> m \in D \cup {n + 1}
        <3>1. CASE m \in P
            BY <1>0, <2>3, <3>1 DEF Climbed
        <3>2. CASE m = n + 1
            BY <2>3, <3>2 DEF Climbed
        <3>. QED
            BY <3>1, <3>2 DEF Climbed
    <2>2. n + 1 \notin D
        BY <1>0 DEF Climbed
    <2>. QED
        BY <2>1, <2>2
<1>3. Q \in SUBSET (1..Len(N)) /\ i \in Q /\ n + 1 \in Nat /\ last \in Nat
    BY <1>1
<1>4. f \in [D \cup {n + 1} -> Nat] /\ IsFiniteSet(D)
    <2> HIDE DEF Q, D, f
    <2>1. f \in [Climbed(Q, i, n + 1) -> Nat]
        BY <1>1, <1>3, RiseNat DEF f
    <2>2. IsFiniteSet(D)
        <3>1. P \in SUBSET (1..Len(L))
            OBVIOUS
        <3>. QED
            BY <1>1, <1>3, <3>1, RiseNat DEF D
    <2>. QED
        BY <1>2, <2>1, <2>2
<1>5. [m \in D |-> f[m]] = Climbs(L, P, i, last)
    <2>1. ASSUME NEW m \in D PROVE f[m] = Climb(L, P, m)
        <3>1. m \in 1..n /\ i < m
            BY DEF Climbed
        <3>6. m \in Nat /\ i \in P /\ i < m
            BY <3>1
        <3>7. Before(P, m) \in P
            BY <3>6, BeforeIs
        <3>2. Before(P, m) \in 1..n
            BY <3>7
        <3>3. Before(Q, m) = Before(P, m)
            BY <3>1, BeforeStays
        <3>4. Climb(N, Q, m) = Climb(L, P, m)
            BY <1>1, <3>1, <3>2, <3>3 DEF Climb
        <3>5. m \in Climbed(Q, i, n + 1)
            BY <1>2
        <3>. QED
            BY <3>4, <3>5 DEF Climbs
    <2> HIDE DEF f
    <2>. QED
        BY <2>1 DEF Climbs
<1>6. f[n + 1] = Allowance(s.t - L[last].t)
    <2>1. n + 1 \in Climbed(Q, i, n + 1)
        BY <1>2
    <2>2. f[n + 1] = Climb(N, Q, n + 1)
        BY <2>1 DEF Climbs
    <2>3. Before(Q, n + 1) = last
        BY BeforeNew
    <2>. QED
        BY <1>1, <2>2, <2>3 DEF Climb
<1>7. SumFunction(f) = SumFunction([m \in D |-> f[m]]) + f[n + 1]
    <2> HIDE DEF f, D
    <2>1. n + 1 \notin D
        BY <1>2
    <2>. QED
        BY <1>4, <2>1, SumMore
<1>8. RiseIn(N, Q, i, n + 1) = SumFunction(f)
    BY DEF RiseIn
<1> HIDE DEF f, D, Q
<1>9. RiseIn(N, Q, i, n + 1) = RiseIn(L, P, i, last) + Allowance(s.t - L[last].t)
    BY <1>5, <1>6, <1>7, <1>8 DEF RiseIn
<1>. QED
    BY <1>9 DEF Q

-----------------------------------------------------------------------------
PacedIn(L) == {i \in 1..Len(L) : CorrobSpeed(L[i]) # Absent}

\* What the speed can have risen to by k from the sample at e, and the least of
\* it over the samples up to k.
From(L, P, e, k) == CorrobSpeed(L[e]) + RiseIn(L, P, e, k)
IsReached(L, P, k, p) ==
    /\ \E e \in P : e <= k /\ p = From(L, P, e, k)
    /\ \A e \in P : e <= k => p <= From(L, P, e, k)

\* The greatest of it over all samples.
IsTop(L, P, r) ==
    /\ \E k \in P : IsReached(L, P, k, r)
    /\ \A k \in P : \E p \in Nat : p <= r /\ IsReached(L, P, k, p)

TrackPass == [plausible: Nat, at: Nat, realistic: Nat]
TrackTells(L, k) ==
    IF PacedIn(L) = {} THEN k = NoTrack
    ELSE /\ k \in TrackPass
         /\ IsTop(L, PacedIn(L), k.realistic)
         /\ \E last \in PacedIn(L) :
               /\ \A e \in PacedIn(L) : e <= last
               /\ k.at = L[last].t
               /\ IsReached(L, PacedIn(L), last, k.plausible)

LEMMA PacedGrows ==
    ASSUME NEW L, NEW s, NEW N, Longer(L, s, N), NEW n \in Nat, Len(L) = n
    PROVE  PacedIn(N) = IF CorrobSpeed(s) = Absent THEN PacedIn(L) ELSE PacedIn(L) \cup {n + 1}
<1>1. Len(N) = n + 1 /\ N[n + 1] = s /\ \A i \in 1..n : N[i] = L[i]
    BY DEF Longer
<1>2. ASSUME NEW i
      PROVE  i \in PacedIn(N) <=>
                i \in IF CorrobSpeed(s) = Absent THEN PacedIn(L) ELSE PacedIn(L) \cup {n + 1}
    <2>1. CASE i \in 1..n
        BY <1>1, <2>1 DEF PacedIn
    <2>2. CASE i = n + 1
        <3>1. i \in 1..Len(N) /\ N[i] = s /\ i \notin 1..n
            BY <1>1, <2>2
        <3>. QED
            BY <2>2, <3>1 DEF PacedIn
    <2>3. CASE i \notin 1..n /\ i # n + 1
        <3>1. i \notin 1..Len(N)
            BY <1>1, <2>3
        <3>. QED
            BY <2>3, <3>1 DEF PacedIn
    <2>. QED
        BY <2>1, <2>2, <2>3
<1>. QED
    BY <1>2

LEMMA PacedSpeeds ==
    ASSUME NEW L, Ordered(L), NEW n \in Nat, Len(L) = n
    PROVE  PacedIn(L) \in SUBSET (1..n) /\ \A e \in PacedIn(L) : CorrobSpeed(L[e]) \in Nat
<1>1. ASSUME NEW e \in PacedIn(L) PROVE e \in 1..n /\ CorrobSpeed(L[e]) \in Nat
    <2>1. e \in 1..n /\ CorrobSpeed(L[e]) # Absent
        BY DEF PacedIn
    <2>2. L[e] \in Sample
        BY <2>1 DEF Ordered
    <2>. QED
        BY <2>1, <2>2, SpeedIs
<1>. QED
    BY <1>1

LEMMA FromNat ==
    ASSUME NEW L, Ordered(L), NEW e \in PacedIn(L), NEW k \in Nat
    PROVE  From(L, PacedIn(L), e, k) \in Nat
<1>1. Len(L) \in Nat
    BY LengthNat
<1>2. PacedIn(L) \in SUBSET (1..Len(L)) /\ CorrobSpeed(L[e]) \in Nat
    BY <1>1, PacedSpeeds
<1>3. RiseIn(L, PacedIn(L), e, k) \in Nat
    BY <1>2, RiseNat
<1>. QED
    BY <1>2, <1>3 DEF From

\* What was reached by an earlier sample stays as it was.
LEMMA ReachedStays ==
    ASSUME NEW L, NEW s, NEW N, Longer(L, s, N), NEW n \in Nat, Len(L) = n,
           NEW k \in PacedIn(L), NEW p
    PROVE  IsReached(N, PacedIn(N), k, p) <=> IsReached(L, PacedIn(L), k, p)
<1>1. Ordered(L) /\ N[n + 1] = s /\ \A i \in 1..n : N[i] = L[i]
    BY DEF Longer
<1>2. PacedIn(L) \in SUBSET (1..n) /\ PacedIn(N) \in {PacedIn(L), PacedIn(L) \cup {n + 1}}
    BY <1>1, PacedSpeeds, PacedGrows
<1>3. \A e \in PacedIn(L) : e \in 1..n
    BY <1>2
<1>4. ASSUME NEW e \in PacedIn(L) PROVE From(N, PacedIn(N), e, k) = From(L, PacedIn(L), e, k)
    <2>1. /\ RiseIn(N, PacedIn(L), e, k) = RiseIn(L, PacedIn(L), e, k)
          /\ RiseIn(N, PacedIn(L) \cup {n + 1}, e, k) = RiseIn(L, PacedIn(L), e, k)
        BY <1>2, RiseStays, RiseStaysToo
    <2>2. RiseIn(N, PacedIn(N), e, k) = RiseIn(L, PacedIn(L), e, k)
        BY <1>2, <2>1
    <2>. QED
        BY <1>1, <1>3, <2>2 DEF From
<1>5. ASSUME NEW e PROVE e \in PacedIn(N) /\ e <= k <=> e \in PacedIn(L) /\ e <= k
    <2>1. ~(n + 1 <= k)
        BY <1>3
    <2>. QED
        BY <1>2, <2>1
<1>. QED
    BY <1>4, <1>5 DEF IsReached

LEMMA LeastIs == ASSUME NEW a \in Nat, NEW b \in Nat
                 PROVE  Least(a, b) \in {a, b} /\ Least(a, b) <= a /\ Least(a, b) <= b
BY DEF Least

LEMMA MostIs == ASSUME NEW a \in Int, NEW b \in Int
                PROVE  Most(a, b) \in {a, b} /\ a <= Most(a, b) /\ b <= Most(a, b)
BY DEF Most

\* What is reached by a new sample, the first or one more.
LEMMA ReachedGrows ==
    ASSUME NEW L, NEW s, NEW N, Longer(L, s, N), NEW n \in Nat, Len(L) = n,
           CorrobSpeed(s) \in Nat
    PROVE  /\ PacedIn(L) = {} => IsReached(N, PacedIn(N), n + 1, CorrobSpeed(s))
           /\ \A last \in PacedIn(L), p \in Nat :
                 (\A e \in PacedIn(L) : e <= last) /\ IsReached(L, PacedIn(L), last, p) =>
                     IsReached(N, PacedIn(N), n + 1,
                               Least(CorrobSpeed(s), p + Allowance(s.t - L[last].t)))
<1> DEFINE P == PacedIn(L)
           v == CorrobSpeed(s)
<1>1. /\ Ordered(L) /\ Ordered(N) /\ Len(N) = n + 1 /\ N[n + 1] = s
      /\ \A i \in 1..n : N[i] = L[i]
    BY DEF Longer
<1>2. P \in SUBSET (1..n) /\ PacedIn(N) = P \cup {n + 1} /\ v \in Nat
    BY <1>1, PacedSpeeds, PacedGrows DEF Absent
<1>3. From(N, PacedIn(N), n + 1, n + 1) = v
    <2>1. Climbed(PacedIn(N), n + 1, n + 1) = {}
        <3>1. \A m \in P : m \in 1..n
            BY <1>2
        <3>. QED
            BY <1>2, <3>1 DEF Climbed
    <2>2. Climbs(N, PacedIn(N), n + 1, n + 1) \in [{} -> Nat]
        BY <2>1 DEF Climbs
    <2>3. RiseIn(N, PacedIn(N), n + 1, n + 1) = 0
        BY <2>2, SumNone DEF RiseIn
    <2>. QED
        BY <1>1, <1>2, <2>3 DEF From
<1> HIDE DEF v
<1>4. ASSUME P = {} PROVE IsReached(N, PacedIn(N), n + 1, v)
    <2>1. PacedIn(N) = {n + 1} /\ v <= v /\ n + 1 <= n + 1
        BY <1>2, <1>4
    <2>. QED
        BY <1>3, <2>1 DEF IsReached
<1>5. ASSUME NEW last \in P, NEW p \in Nat, \A e \in P : e <= last, IsReached(L, P, last, p)
      PROVE  IsReached(N, PacedIn(N), n + 1, Least(v, p + Allowance(s.t - L[last].t)))
    <2> DEFINE A == Allowance(s.t - L[last].t)
               low == Least(v, p + A)
    <2>1. A \in Nat
        <3>1. last \in 1..n
            BY <1>2
        <3>2. last \in 1..Len(N) /\ n + 1 \in 1..Len(N) /\ last <= n + 1 /\ last \in 1..Len(L)
            BY <1>1, <3>1
        <3>3. N[last].t <= N[n + 1].t
            BY <1>1, <3>2 DEF Ordered
        <3>6. L[last].t <= s.t
            BY <1>1, <3>1, <3>3
        <3>4. L[last] \in Sample /\ s \in Sample
            BY <1>1, <3>2 DEF Ordered, Longer
        <3>5. s.t - L[last].t \in Nat
            BY <3>4, <3>6 DEF Sample
        <3>. QED
            BY <3>5, AllowanceNat
    <2> HIDE DEF A
    <2>2. low \in {v, p + A} /\ low <= v /\ low <= p + A
        BY <1>2, <2>1, LeastIs
    <2>9. low \in Nat
        BY <1>2, <2>1, <2>2
    <2> HIDE DEF low
    <2>3. ASSUME NEW e \in P
          PROVE  From(N, PacedIn(N), e, n + 1) = From(L, P, e, last) + A
        <3>1. e \in 1..n
            BY <1>2
        <3>2. RiseIn(N, PacedIn(N), e, n + 1) = RiseIn(L, P, e, last) + A
            <4> HIDE DEF P
            <4>. QED
                BY <1>2, <1>5, RiseGrows DEF A
        <3>3. CorrobSpeed(N[e]) = CorrobSpeed(L[e]) /\ CorrobSpeed(L[e]) \in Nat
            BY <1>1, <3>1, PacedSpeeds
        <3>4. RiseIn(L, P, e, last) \in Nat
            <4>1. last \in Nat /\ P \in SUBSET (1..Len(L))
                BY <1>2
            <4>. QED
                BY <1>1, <4>1, RiseNat
        <3> HIDE DEF P
        <3>. QED
            BY <2>1, <3>2, <3>3, <3>4 DEF From
    <2>4. \A e \in P : From(L, P, e, last) \in Nat /\ e <= n + 1 /\ e <= last /\ e \in PacedIn(N)
        <3>1. \A e \in P : e \in 1..n
            BY <1>2
        <3>2. last \in Nat
            BY <3>1
        <3>. QED
            BY <1>1, <1>2, <1>5, <3>1, <3>2, FromNat
    <2> HIDE DEF P
    <2>5. PICK g \in P : g <= last /\ p = From(L, P, g, last)
        BY <1>5 DEF IsReached
    <2>6. \A e \in P : p <= From(L, P, e, last)
        BY <1>5, <2>4 DEF IsReached
    <2>7. \E e \in PacedIn(N) : e <= n + 1 /\ low = From(N, PacedIn(N), e, n + 1)
        <3>1. CASE low = v
            <4>1. n + 1 \in PacedIn(N) /\ n + 1 <= n + 1
                BY <1>2
            <4>. QED
                BY <1>3, <3>1, <4>1
        <3>2. CASE low = p + A
            BY <2>3, <2>4, <2>5, <3>2
        <3>. QED
            BY <2>2, <3>1, <3>2
    <2>8. ASSUME NEW e \in PacedIn(N) PROVE low <= From(N, PacedIn(N), e, n + 1)
        <3>1. CASE e = n + 1
            BY <1>3, <2>2, <3>1
        <3>2. CASE e \in P
            <4>1. From(N, PacedIn(N), e, n + 1) = From(L, P, e, last) + A
                BY <2>3, <3>2
            <4>2. From(L, P, e, last) \in Nat /\ p <= From(L, P, e, last)
                BY <2>4, <2>6, <3>2
            <4>. QED
                BY <2>1, <2>2, <2>9, <4>1, <4>2
        <3>. QED
            BY <1>2, <3>1, <3>2
    <2>10. IsReached(N, PacedIn(N), n + 1, low)
        BY <2>7, <2>8 DEF IsReached
    <2>. QED
        BY <2>10 DEF low, A
<1>. QED
    BY <1>4, <1>5 DEF v

\* Reading a sample with a speed: the samples before it may be none, or some.
LEMMA PaceStep ==
    ASSUME NEW L, NEW s, NEW N, Longer(L, s, N), NEW n \in Nat, Len(L) = n,
           NEW k, TrackTells(L, k), CorrobSpeed(s) \in Nat
    PROVE  TrackTells(N, TrackStep(k, s))
<1> DEFINE P == PacedIn(L)
           Q == PacedIn(N)
           v == CorrobSpeed(s)
<1>1. /\ Ordered(L) /\ N[n + 1] = s /\ s \in Sample /\ \A i \in 1..n : N[i] = L[i]
    BY DEF Longer
<1>2. v \in Nat /\ v # Absent /\ s.t \in Nat
    BY <1>1 DEF Absent, Sample
<1>3. P \in SUBSET (1..n) /\ Q = P \cup {n + 1}
    BY <1>1, <1>2, PacedSpeeds, PacedGrows
<1>4. n + 1 \in Q /\ Q # {} /\ N[n + 1].t = s.t
    BY <1>1, <1>3
<1>5. \A e \in Q : e <= n + 1
    <2>1. \A e \in P : e \in 1..n
        BY <1>3
    <2>. QED
        BY <1>3, <2>1
<1>6. SUFFICES ASSUME NEW p \in Nat, NEW r \in Nat,
                      TrackStep(k, s) = [plausible |-> p, at |-> s.t, realistic |-> r],
                      IsReached(N, Q, n + 1, p), IsTop(N, Q, r)
               PROVE  TrackTells(N, TrackStep(k, s))

    <2>1. CASE P = {}
        <3>1. k = NoTrack
            BY <2>1 DEF TrackTells
        <3>2. k.plausible = Absent /\ k.realistic = Absent
            BY <3>1 DEF NoTrack
        <3>3. Most(Absent, v) = v
            BY <1>2 DEF Most, Absent
        <3>4. TrackStep(k, s) = [plausible |-> v, at |-> s.t, realistic |-> v]
            BY <1>2, <3>2, <3>3 DEF TrackStep
        <3>5. IsReached(N, Q, n + 1, v)
            BY <2>1, ReachedGrows
        <3>6. Q = {n + 1} /\ v <= v
            BY <1>2, <1>3, <2>1
        <3> HIDE DEF P, Q, v
        <3>7. IsTop(N, Q, v)
            BY <1>2, <3>5, <3>6 DEF IsTop
        <3>. QED
            BY <1>2, <1>6, <3>4, <3>5, <3>7
    <2>2. CASE P # {}
        <3>1. /\ k \in TrackPass /\ IsTop(L, P, k.realistic)
              /\ \E last \in P : /\ \A e \in P : e <= last
                                 /\ k.at = L[last].t
                                 /\ IsReached(L, P, last, k.plausible)
            BY <2>2 DEF TrackTells
        <3>2. PICK last \in P : (\A e \in P : e <= last) /\ k.at = L[last].t
                                /\ IsReached(L, P, last, k.plausible)
            BY <3>1
        <3>3. k.plausible \in Nat /\ k.realistic \in Nat /\ k.plausible # Absent
            BY <3>1 DEF TrackPass, Absent
        <3> DEFINE A == Allowance(s.t - L[last].t)
                   p == Least(v, k.plausible + A)
                   r == Most(k.realistic, p)
        <3>4. A \in Nat
            <4>1. last \in 1..n
                BY <1>3
            <4>2. last \in 1..Len(N) /\ n + 1 \in 1..Len(N) /\ last <= n + 1 /\ last \in 1..Len(L)
                BY <4>1 DEF Longer
            <4>3. N[last].t <= N[n + 1].t
                BY <4>2 DEF Ordered, Longer
            <4>4. L[last].t <= s.t
                BY <1>1, <4>1, <4>3
            <4>5. L[last] \in Sample
                BY <1>1, <4>2 DEF Ordered
            <4>6. s.t - L[last].t \in Nat
                BY <1>2, <4>4, <4>5 DEF Sample
            <4>. QED
                BY <4>6, AllowanceNat
        <3>5. IsReached(N, Q, n + 1, p)
            BY <3>2, <3>3, ReachedGrows
        <3>6. p = IF v <= k.plausible THEN v ELSE Least(v, k.plausible + A)
            <4> HIDE DEF A, v
            <4>. QED
                BY <1>2, <3>3, <3>4 DEF Least
        <3>7. TrackStep(k, s) = [plausible |-> p, at |-> s.t, realistic |-> r]
            <4> HIDE DEF p, r
            <4>. QED
                BY <1>2, <3>2, <3>3, <3>6 DEF TrackStep, r
        <3> HIDE DEF A, v
        <3>8. p \in Nat
            BY <1>2, <3>3, <3>4, LeastIs
        <3> HIDE DEF p
        <3>9. r \in Nat /\ r \in {k.realistic, p} /\ k.realistic <= r /\ p <= r
            <4>1. k.realistic \in Int /\ p \in Int
                BY <3>3, <3>8
            <4>2. r \in {k.realistic, p} /\ k.realistic <= r /\ p <= r
                BY <4>1, MostIs
            <4>. QED
                BY <3>3, <3>8, <4>2
        <3> HIDE DEF r
        <3>10. \A e \in P, q \in Nat : IsReached(N, Q, e, q) <=> IsReached(L, P, e, q)
            BY ReachedStays
        <3>11. \E e \in Q : IsReached(N, Q, e, r)
            <4>1. CASE r = p
                BY <1>4, <3>5, <4>1
            <4>2. CASE r = k.realistic
                <5>1. PICK e \in P : IsReached(L, P, e, r)
                    BY <3>1, <4>2 DEF IsTop
                <5>. QED
                    BY <1>3, <3>9, <3>10, <5>1
            <4>. QED
                BY <3>9, <4>1, <4>2
        <3>12. ASSUME NEW e \in Q PROVE \E q \in Nat : q <= r /\ IsReached(N, Q, e, q)
            <4>1. CASE e = n + 1
                BY <3>5, <3>8, <3>9, <4>1
            <4>2. CASE e \in P
                <5>1. PICK q \in Nat : q <= k.realistic /\ IsReached(L, P, e, q)
                    BY <3>1, <4>2 DEF IsTop
                <5>2. q <= r
                    BY <3>3, <3>9, <5>1
                <5>. QED
                    BY <3>10, <4>2, <5>1, <5>2
            <4>. QED
                BY <1>3, <4>1, <4>2
        <3>13. IsTop(N, Q, r)
            BY <3>11, <3>12 DEF IsTop
        <3>. QED
            BY <1>6, <3>5, <3>7, <3>8, <3>9, <3>13
    <2>. QED
        BY <2>1, <2>2
<1>7. TrackStep(k, s) \in TrackPass
    BY <1>2, <1>6 DEF TrackPass
<1> HIDE DEF P, v
<1>. QED
    BY <1>4, <1>5, <1>6, <1>7 DEF TrackTells

LEMMA TrackStepSound ==
    ASSUME NEW L, NEW s, NEW N, Longer(L, s, N), NEW n \in Nat, Len(L) = n,
           NEW k, TrackTells(L, k)
    PROVE  TrackTells(N, TrackStep(k, s))
<1>1. s \in Sample /\ \A i \in 1..n : N[i] = L[i]
    BY DEF Longer
<1>2. CASE CorrobSpeed(s) \in Nat
    BY <1>2, PaceStep
<1>3. CASE CorrobSpeed(s) = Absent
    <2>1. PacedIn(N) = PacedIn(L) /\ TrackStep(k, s) = k
        BY <1>3, PacedGrows DEF TrackStep
    <2>2. \A e \in PacedIn(L) : e \in 1..n
        BY DEF PacedIn
    <2>3. \A e \in PacedIn(L) : N[e].t = L[e].t
        BY <1>1, <2>2
    <2>4. \A e \in PacedIn(L) : \A p : IsReached(N, PacedIn(L), e, p) <=> IsReached(L, PacedIn(L), e, p)
        BY <2>1, ReachedStays
    <2>5. CASE PacedIn(L) = {}
        BY <2>1, <2>5 DEF TrackTells
    <2>6. CASE PacedIn(L) # {}
        <3>1. k \in TrackPass /\ IsTop(L, PacedIn(L), k.realistic)
            BY <2>6 DEF TrackTells
        <3>2. PICK last \in PacedIn(L) :
                    /\ \A e \in PacedIn(L) : e <= last
                    /\ k.at = L[last].t
                    /\ IsReached(L, PacedIn(L), last, k.plausible)
            BY <2>6 DEF TrackTells
        <3>3. IsTop(N, PacedIn(L), k.realistic)
            BY <2>4, <3>1 DEF IsTop
        <3>. QED
            BY <2>1, <2>3, <2>4, <2>6, <3>1, <3>2, <3>3 DEF TrackTells
    <2>. QED
        BY <2>5, <2>6
<1>. QED
    BY <1>1, <1>2, <1>3, SpeedIs

\* The realistic speed that the pass keeps is what the log says.
LEMMA TrackFound ==
    ASSUME Ordered(log), TrackTells(log, track)
    PROVE  TopSpeedIsReached
<1> DEFINE n == Len(log)
           r == track.realistic
<1>1. Paced = PacedIn(log) /\ n \in Nat
    BY LengthNat DEF Paced, PacedIn
<1>2. CASE Paced = {}
    <2>1. track = NoTrack
        BY <1>1, <1>2 DEF TrackTells
    <2>. QED
        BY <1>2, <2>1 DEF TopSpeedIsReached, TopSpeed, NoTrack
<1>3. CASE Paced # {}
    <2>1. track \in TrackPass /\ IsTop(log, Paced, r)
        BY <1>1, <1>3 DEF TrackTells
    <2>2. r \in Nat
        BY <2>1 DEF TrackPass
    <2>3. Paced \in SUBSET (1..n)
        BY <1>1, PacedSpeeds
    <2>4. ASSUME NEW k \in Paced, NEW p, IsReached(log, Paced, k, p)
          PROVE  Reached(Paced, k) = p
        <3> DEFINE S == {From(log, Paced, e, k) : e \in {e \in Paced : e <= k}}
        <3>1. Reached(Paced, k) = Min(S)
            BY DEF Reached, From, RiseIn, Climbs, Climbed, Climb, Rise
        <3>2. k \in Nat
            BY <2>3
        <3>3. \A e \in Paced : From(log, Paced, e, k) \in Int
            BY <1>1, <3>2, FromNat
        <3>4. S \in SUBSET Int /\ p \in S /\ \A y \in S : p <= y
            BY <2>4, <3>3 DEF IsReached
        <3> HIDE DEF S
        <3>. QED
            BY <3>1, <3>4, MinIs
    <2> DEFINE T == {Reached(Paced, k) : k \in Paced}
    <2>5. \A k \in Paced : Reached(Paced, k) \in Nat /\ Reached(Paced, k) <= r
        BY <2>1, <2>4 DEF IsTop
    <2>6. r \in T
        BY <2>1, <2>4 DEF IsTop
    <2>7. T \in SUBSET Int /\ \A y \in T : y <= r
        BY <2>5
    <2>8. Max(T) = r
        <3> HIDE DEF T, r
        <3>. QED
            BY <2>6, <2>7, MaxIs
    <2>. QED
        BY <1>3, <2>8 DEF TopSpeedIsReached, TopSpeed
<1>. QED
    BY <1>2, <1>3

-----------------------------------------------------------------------------
LEMMA PointsGrow ==
    ASSUME NEW L, NEW s, NEW N, Longer(L, s, N), NEW n \in Nat, Len(L) = n
    PROVE  /\ Points(L) \in SUBSET (1..n)
           /\ Points(N) = IF IsMoving(s) THEN Points(L) \cup {n + 1} ELSE Points(L)
<1>1. Len(N) = n + 1 /\ N[n + 1] = s /\ \A i \in 1..n : N[i] = L[i]
    BY DEF Longer
<1>2. ASSUME NEW i
      PROVE  i \in Points(N) <=> i \in IF IsMoving(s) THEN Points(L) \cup {n + 1} ELSE Points(L)
    <2>1. CASE i \in 1..n
        BY <1>1, <2>1 DEF Points
    <2>2. CASE i = n + 1
        <3>1. i \in 1..Len(N) /\ N[i] = s /\ i \notin 1..n
            BY <1>1, <2>2
        <3>. QED
            BY <2>2, <3>1 DEF Points
    <2>3. CASE i \notin 1..n /\ i # n + 1
        <3>1. i \notin 1..Len(N)
            BY <1>1, <2>3
        <3>. QED
            BY <2>3, <3>1 DEF Points
    <2>. QED
        BY <2>1, <2>2, <2>3
<1>3. Points(L) \in SUBSET (1..n)
    BY DEF Points
<1>. QED
    BY <1>2, <1>3

\* What the samples of a set carry in all.
Loads(L, S) == [i \in S |-> L[i].load]

LEMMA LoadNat ==
    ASSUME NEW L, Ordered(L), NEW n \in Nat, Len(L) = n, NEW S \in SUBSET (1..n)
    PROVE  IsFiniteSet(S) /\ Loads(L, S) \in [S -> Nat] /\ LoadOf(L, S) \in Nat
<1>1. IsFiniteSet(S)
    <2>1. n \in Int /\ 1 \in Int
        OBVIOUS
    <2>2. IsFiniteSet(1..n)
        BY <2>1, FS_Interval
    <2>. QED
        BY <2>2, FS_Subset
<1>2. ASSUME NEW i \in S PROVE L[i].load \in Nat
    <2>1. L \in Seq(Sample) /\ i \in 1..Len(L)
        BY DEF Ordered
    <2>2. L[i] \in Sample
        BY <2>1
    <2>. QED
        BY <2>2 DEF Sample
<1>3. Loads(L, S) \in [S -> Nat]
    BY <1>2 DEF Loads
<1>4. SumFunction(Loads(L, S)) \in Nat
    BY <1>1, <1>3, SumNat
<1>. QED
    BY <1>1, <1>3, <1>4 DEF LoadOf, Loads

LEMMA LoadStays ==
    ASSUME NEW L, NEW s, NEW N, Longer(L, s, N), NEW n \in Nat, Len(L) = n, NEW S \in SUBSET (1..n)
    PROVE  LoadOf(N, S) = LoadOf(L, S)
<1>1. \A i \in S : N[i] = L[i]
    BY DEF Longer
<1>2. [i \in S |-> N[i].load] = [i \in S |-> L[i].load]
    BY <1>1
<1>. QED
    BY <1>2 DEF LoadOf

LEMMA LoadMore ==
    ASSUME NEW L, NEW s, NEW N, Longer(L, s, N), NEW n \in Nat, Len(L) = n, NEW S \in SUBSET (1..n)
    PROVE  LoadOf(N, S \cup {n + 1}) = LoadOf(L, S) + s.load
<1> DEFINE T == S \cup {n + 1}
           f == Loads(N, T)
<1>1. Ordered(N) /\ Len(N) = n + 1 /\ n + 1 \in Nat /\ N[n + 1] = s
    BY DEF Longer
<1>2. T \in SUBSET (1..(n + 1)) /\ S \in SUBSET (1..(n + 1)) /\ n + 1 \notin S
    OBVIOUS
<1>3. f \in [T -> Nat] /\ IsFiniteSet(S)
    <2> HIDE DEF T
    <2>. QED
        BY <1>1, <1>2, LoadNat
<1>4. f[n + 1] = s.load /\ [i \in S |-> f[i]] = [i \in S |-> N[i].load]
    BY <1>1 DEF Loads
<1>5. SumFunction(f) = SumFunction([i \in S |-> f[i]]) + f[n + 1]
    <2>1. n + 1 \notin S /\ f \in [S \cup {n + 1} -> Nat]
        BY <1>2, <1>3
    <2>2. IsFiniteSet(S)
        BY <1>3
    <2> HIDE DEF f
    <2>. QED
        BY <2>1, <2>2, SumMore
<1>6. LoadOf(N, T) = SumFunction(f) /\ LoadOf(N, S) = SumFunction([i \in S |-> N[i].load])
    BY DEF LoadOf, Loads
<1> HIDE DEF f, T
<1>7. LoadOf(N, T) = LoadOf(L, S) + s.load
    <2>1. LoadOf(N, S) = LoadOf(L, S)
        BY LoadStays
    <2>. QED
        BY <1>4, <1>5, <1>6, <2>1
<1>. QED
    BY <1>7 DEF T

LEMMA LoadSplit ==
    ASSUME NEW S, IsFiniteSet(S), NEW T, IsFiniteSet(T), S \cap T = {},
           NEW L, Loads(L, S \cup T) \in [S \cup T -> Nat]
    PROVE  LoadOf(L, S \cup T) = LoadOf(L, S) + LoadOf(L, T)
<1> DEFINE f == Loads(L, S \cup T)
<1>1. /\ [i \in S |-> f[i]] = [i \in S |-> L[i].load]
      /\ [i \in T |-> f[i]] = [i \in T |-> L[i].load]
    BY DEF Loads
<1>2. f \in [S \cup T -> Nat]
    OBVIOUS
<1>3. SumFunction(f) = SumFunction([i \in S |-> f[i]]) + SumFunction([i \in T |-> f[i]])
    <2> HIDE DEF f
    <2>. QED
        BY <1>2, SumBoth
<1>. QED
    BY <1>1, <1>3 DEF LoadOf, Loads

LEMMA LoadParts ==
    ASSUME NEW L, Ordered(L), NEW n \in Nat, Len(L) = n,
           NEW S \in SUBSET (1..n), NEW T \in SUBSET (1..n), S \cap T = {}
    PROVE  LoadOf(L, S \cup T) = LoadOf(L, S) + LoadOf(L, T)
<1>1. S \cup T \in SUBSET (1..n)
    OBVIOUS
<1>2. Loads(L, S \cup T) \in [S \cup T -> Nat] /\ IsFiniteSet(S) /\ IsFiniteSet(T)
    BY <1>1, LoadNat
<1>. QED
    BY <1>2, LoadSplit

-----------------------------------------------------------------------------
\* The window that ends at a place, whether it covers enough, and its average.
Joined(L, P, k) == L[k].t - L[Before(P, k)].t <= Window
TrailIn(L, P, r) ==
    {l \in P : /\ l <= r /\ L[r].t - L[l].t <= Window
               /\ \A k \in P : l < k /\ k <= r => Joined(L, P, k)}
Spans(L, P, r) == \E l \in TrailIn(L, P, r) : l < r /\ 2 * (L[r].t - L[l].t) >= Window
Figure(L, P, r) == <<LoadOf(L, TrailIn(L, P, r)), Cardinality(TrailIn(L, P, r))>>
AveragesIn(L, P) == {Figure(L, P, r) : r \in {e \in P : Spans(L, P, e)}}

LEMMA JoinedStays ==
    ASSUME NEW L, NEW s, NEW N, Longer(L, s, N), NEW n \in Nat, Len(L) = n,
           NEW P \in SUBSET (1..n), NEW k \in P, \E e \in P : e < k
    PROVE  /\ Joined(N, P, k) <=> Joined(L, P, k)
           /\ Joined(N, P \cup {n + 1}, k) <=> Joined(L, P, k)
<1>1. k \in 1..n /\ k \in Nat /\ \A i \in 1..n : N[i] = L[i]
    BY DEF Longer
<1>2. Before(P, k) \in P
    BY <1>1, BeforeIs
<1>3. Before(P, k) \in 1..n
    BY <1>2
<1>4. Before(P \cup {n + 1}, k) = Before(P, k)
    BY <1>1, BeforeStays
<1>. QED
    BY <1>1, <1>3, <1>4 DEF Joined

LEMMA TrailStays ==
    ASSUME NEW L, NEW s, NEW N, Longer(L, s, N), NEW n \in Nat, Len(L) = n,
           NEW P \in SUBSET (1..n), NEW r \in P
    PROVE  TrailIn(N, P, r) = TrailIn(L, P, r)
<1>1. \A i \in P : N[i] = L[i]
    BY DEF Longer
<1>2. \A k \in P : \A l \in P : l < k => (Joined(N, P, k) <=> Joined(L, P, k))
    BY JoinedStays
<1>3. ASSUME NEW l \in P PROVE l \in TrailIn(N, P, r) <=> l \in TrailIn(L, P, r)
    BY <1>1, <1>2 DEF TrailIn
<1>. QED
    BY <1>3 DEF TrailIn

LEMMA TrailStaysToo ==
    ASSUME NEW L, NEW s, NEW N, Longer(L, s, N), NEW n \in Nat, Len(L) = n,
           NEW P \in SUBSET (1..n), NEW r \in P
    PROVE  TrailIn(N, P \cup {n + 1}, r) = TrailIn(L, P, r)
<1>1. \A i \in P : N[i] = L[i]
    BY DEF Longer
<1>2. \A k \in P : \A l \in P : l < k => (Joined(N, P \cup {n + 1}, k) <=> Joined(L, P, k))
    BY JoinedStays
<1>3. ~(n + 1 <= r)
    <2>1. r \in 1..n
        OBVIOUS
    <2>. QED
        BY <2>1
<1>4. \A k \in P \cup {n + 1} : k <= r => k \in P
    BY <1>3
<1>5. ASSUME NEW l PROVE l \in TrailIn(N, P \cup {n + 1}, r) <=> l \in TrailIn(L, P, r)
    <2>1. CASE l \notin P
        BY <1>4, <2>1 DEF TrailIn
    <2>2. CASE l \in P
        <3>1. (\A k \in P \cup {n + 1} : l < k /\ k <= r => Joined(N, P \cup {n + 1}, k)) <=>
              (\A k \in P : l < k /\ k <= r => Joined(L, P, k))
            BY <1>2, <1>4, <2>2
        <3>. QED
            BY <1>1, <2>2, <3>1 DEF TrailIn
    <2>. QED
        BY <2>1, <2>2
<1>. QED
    BY <1>5

-----------------------------------------------------------------------------
LEMMA TrailIsFinite ==
    ASSUME NEW L, Ordered(L), NEW n \in Nat, Len(L) = n, NEW P \in SUBSET (1..n), NEW r \in P
    PROVE  /\ TrailIn(L, P, r) \in SUBSET (1..n) /\ r \in TrailIn(L, P, r)
           /\ Figure(L, P, r) \in Fractions
<1> DEFINE T == TrailIn(L, P, r)
<1>1. r \in 1..n
    OBVIOUS
<1>2. L[r] \in Sample
    BY <1>1 DEF Ordered
<1>3. L[r].t \in Nat /\ Window \in Nat
    BY <1>2, TelemetryAssumption DEF Sample
<1>4. L[r].t - L[r].t <= Window
    BY <1>3
<1>5. T \in SUBSET (1..n)
    BY DEF TrailIn
<1>6. r \in T
    <2>1. \A k \in P : ~(r < k /\ k <= r)
        <3>1. \A k \in P : k \in 1..n
            OBVIOUS
        <3>. QED
            BY <1>1, <3>1
    <2>. QED
        BY <1>1, <1>4, <2>1 DEF TrailIn
<1>7. IsFiniteSet(T) /\ LoadOf(L, T) \in Nat
    <2> HIDE DEF T
    <2>. QED
        BY <1>5, LoadNat
<1>8. Cardinality(T) \in Nat \ {0}
    <2> HIDE DEF T
    <2>1. Cardinality(T) \in Nat /\ Cardinality(T) # 0
        BY <1>6, <1>7, FS_CardinalityType, FS_EmptySet
    <2>. QED
        BY <2>1
<1>. QED
    BY <1>5, <1>6, <1>7, <1>8 DEF Figure, Fractions

LEMMA AveragesAre ==
    ASSUME NEW L, Ordered(L), NEW n \in Nat, Len(L) = n, NEW P \in SUBSET (1..n)
    PROVE  AveragesIn(L, P) \in SUBSET Fractions
<1>1. \A r \in P : Figure(L, P, r) \in Fractions
    BY TrailIsFinite
<1>. QED
    BY <1>1 DEF AveragesIn

\* The windows of earlier samples stay as they were.
LEMMA WindowsStay ==
    ASSUME NEW L, NEW s, NEW N, Longer(L, s, N), NEW n \in Nat, Len(L) = n,
           NEW P \in SUBSET (1..n), NEW r \in P
    PROVE  (Spans(N, P, r) <=> Spans(L, P, r)) /\ Figure(N, P, r) = Figure(L, P, r)
<1>1. TrailIn(N, P, r) = TrailIn(L, P, r)
    BY TrailStays
<1>2. \A i \in P : N[i] = L[i]
    BY DEF Longer
<1>3. TrailIn(L, P, r) \in SUBSET (1..n) /\ \A l \in TrailIn(L, P, r) : l \in P
    BY DEF TrailIn
<1>4. LoadOf(N, TrailIn(L, P, r)) = LoadOf(L, TrailIn(L, P, r))
    BY <1>3, LoadStays
<1>. QED
    BY <1>1, <1>2, <1>3, <1>4 DEF Spans, Figure

LEMMA WindowsStayToo ==
    ASSUME NEW L, NEW s, NEW N, Longer(L, s, N), NEW n \in Nat, Len(L) = n,
           NEW P \in SUBSET (1..n), NEW r \in P
    PROVE  (Spans(N, P \cup {n + 1}, r) <=> Spans(L, P, r)) /\ Figure(N, P \cup {n + 1}, r) = Figure(L, P, r)
<1>1. TrailIn(N, P \cup {n + 1}, r) = TrailIn(L, P, r)
    BY TrailStaysToo
<1>2. \A i \in P : N[i] = L[i]
    BY DEF Longer
<1>3. TrailIn(L, P, r) \in SUBSET (1..n) /\ \A l \in TrailIn(L, P, r) : l \in P
    BY DEF TrailIn
<1>4. LoadOf(N, TrailIn(L, P, r)) = LoadOf(L, TrailIn(L, P, r))
    BY <1>3, LoadStays
<1>. QED
    BY <1>1, <1>2, <1>3, <1>4 DEF Spans, Figure

LEMMA AveragesStay ==
    ASSUME NEW L, NEW s, NEW N, Longer(L, s, N), NEW n \in Nat, Len(L) = n,
           NEW P \in SUBSET (1..n)
    PROVE  AveragesIn(N, P) = AveragesIn(L, P)
<1>1. \A r \in P : (Spans(N, P, r) <=> Spans(L, P, r)) /\ Figure(N, P, r) = Figure(L, P, r)
    BY WindowsStay
<1>. QED
    BY <1>1 DEF AveragesIn

LEMMA AveragesGrow ==
    ASSUME NEW L, NEW s, NEW N, Longer(L, s, N), NEW n \in Nat, Len(L) = n,
           NEW P \in SUBSET (1..n)
    PROVE  AveragesIn(N, P \cup {n + 1}) = AveragesIn(L, P) \cup
              (IF Spans(N, P \cup {n + 1}, n + 1) THEN {Figure(N, P \cup {n + 1}, n + 1)} ELSE {})
<1>1. PICK Q : Q = P \cup {n + 1}
    OBVIOUS
<1>2. \A r \in P : (Spans(N, Q, r) <=> Spans(L, P, r)) /\ Figure(N, Q, r) = Figure(L, P, r)
    BY <1>1, WindowsStayToo
<1>3. AveragesIn(N, Q) = AveragesIn(L, P) \cup
         (IF Spans(N, Q, n + 1) THEN {Figure(N, Q, n + 1)} ELSE {})
    <2>1. ASSUME NEW f \in AveragesIn(N, Q)
          PROVE  f \in AveragesIn(L, P) \/ (Spans(N, Q, n + 1) /\ f = Figure(N, Q, n + 1))
        <3>1. PICK r \in Q : Spans(N, Q, r) /\ f = Figure(N, Q, r)
            BY DEF AveragesIn
        <3>. QED
            BY <1>1, <1>2, <3>1 DEF AveragesIn
    <2>2. ASSUME NEW f \in AveragesIn(L, P) PROVE f \in AveragesIn(N, Q)
        <3>1. PICK r \in P : Spans(L, P, r) /\ f = Figure(L, P, r)
            BY DEF AveragesIn
        <3>2. r \in Q /\ Spans(N, Q, r) /\ f = Figure(N, Q, r)
            BY <1>1, <1>2, <3>1
        <3>. QED
            BY <3>2 DEF AveragesIn
    <2>3. Spans(N, Q, n + 1) => Figure(N, Q, n + 1) \in AveragesIn(N, Q)
        <3>1. n + 1 \in Q
            BY <1>1
        <3>. QED
            BY <3>1 DEF AveragesIn
    <2>. QED
        BY <2>1, <2>2, <2>3
<1>. QED
    BY <1>1, <1>3

-----------------------------------------------------------------------------
\* The figure is the highest of those there are.
HighestIs(best, figures) ==
    IF figures = {} THEN best = None
    ELSE best \in figures /\ \A g \in figures : ~Less(best, g)

LEMMA HighestExtends ==
    ASSUME NEW figures \in SUBSET Fractions, NEW best, HighestIs(best, figures), NEW f \in Fractions
    PROVE  HighestIs(Higher(best, f), figures \cup {f})
<1>0. ~Less(f, f)
  <2>1. PICK a \in Int, b \in Nat \ {0} : f = <<a, b>>
    BY DEF Fractions
  <2>. QED
    BY <2>1 DEF Less
<1>1. CASE figures = {}
    BY <1>0, <1>1 DEF HighestIs, Higher
<1>2. CASE figures # {}
  <2>1. best \in Fractions /\ best \in figures /\ \A g \in figures : ~Less(best, g)
    BY <1>2 DEF HighestIs
  <2>2. best # None /\ f # None
    BY <2>1, NoFigure
  <2>3. CASE Less(best, f)
    <3>1. \A g \in figures : ~Less(f, g)
      BY <2>1, <2>3, LessTransitive
    <3>. QED
      BY <1>0, <2>2, <2>3, <3>1 DEF HighestIs, Higher
  <2>4. CASE ~Less(best, f)
    BY <2>1, <2>2, <2>4 DEF HighestIs, Higher
  <2>. QED
    BY <2>3, <2>4
<1>. QED
    BY <1>1, <1>2

LEMMA HighestIsBest ==
    ASSUME NEW figures \in SUBSET Fractions, NEW best, HighestIs(best, figures)
    PROVE  IsBest(best, figures, Greater)
<1>1. CASE figures = {}
    BY <1>1 DEF HighestIs, IsBest
<1>2. CASE figures # {}
  <2>1. best \in figures /\ \A g \in figures : ~Less(best, g)
    BY <1>2 DEF HighestIs
  <2>2. best # None
    BY <2>1, NoFigure
  <2>. QED
    BY <1>2, <2>1, <2>2 DEF IsBest, Greater
<1>. QED
    BY <1>1, <1>2

\* The window that is kept is the one that ends at the last sample that passes
\* the gate; its sum is what its samples carry.
HeldTells(L, h) ==
    /\ HighestIs(h.best, AveragesIn(L, Points(L)))
    /\ IF Points(L) = {} THEN h.left = 1 /\ h.sum = 0
       ELSE \E last \in Points(L) :
               /\ \A e \in Points(L) : e <= last
               /\ h.left \in Points(L)
               /\ TrailIn(L, Points(L), last) = {e \in Points(L) : h.left <= e}
               /\ h.sum = LoadOf(L, {e \in Points(L) : h.left <= e})

LEMMA HeldFound ==
    ASSUME Ordered(log), HeldTells(log, held)
    PROVE  SustainedIsHeld
<1>1. Len(log) \in Nat /\ Points(log) \in SUBSET (1..Len(log))
    BY LengthNat DEF Points
<1>2. AveragesIn(log, Points(log)) \in SUBSET Fractions
    BY <1>1, AveragesAre
<1>3. Averages(Points(log)) = AveragesIn(log, Points(log))
    <2>1. \A r : Trailing(Points(log), r) = TrailIn(log, Points(log), r)
        BY DEF Trailing, TrailIn, Joined
    <2>. QED
        BY <2>1 DEF Averages, AveragesIn, Spans, Figure
<1>4. HighestIs(held.best, AveragesIn(log, Points(log)))
    BY DEF HeldTells
<1>5. IsBest(held.best, AveragesIn(log, Points(log)), Greater)
    BY <1>2, <1>4, HighestIsBest
<1>. QED
    BY <1>3, <1>5 DEF SustainedIsHeld

-----------------------------------------------------------------------------
\* What a turn of the loop works out from the log as it now is.
LateIn(N, k) == N[Len(N)].t - N[k].t > Window
HoleIn(N) == Points(N) # {Len(N)} /\ LateIn(N, Before(Points(N), Len(N)))
FromIn(h, N) == IF HoleIn(N) THEN Len(N) ELSE h.left
IsLeft(N, from, l) ==
    from <= l /\ ~LateIn(N, l) /\ \A k \in Points(N) : from <= k /\ k < l => LateIn(N, k)
LeftIn(N, from) == CHOOSE l \in Points(N) : IsLeft(N, from, l)
SumIn(h, N, from, left) ==
    (IF HoleIn(N) THEN 0 ELSE h.sum) + N[Len(N)].load
        - LoadOf(N, {k \in Points(N) : from <= k /\ k < left})
Counts(N, left) == left < Len(N) /\ 2 * (N[Len(N)].t - N[left].t) >= Window
Kept(N, left) == {k \in Points(N) : left <= k}

Turn(h, N, left, sum) ==
    [left |-> left, sum |-> sum,
     best |-> IF Counts(N, left)
              THEN Higher(h.best, <<sum, Cardinality(Kept(N, left))>>)
              ELSE h.best]

LEMMA HeldStepIs ==
    ASSUME NEW h, NEW N
    PROVE  HeldStep(h, N) =
              Turn(h, N, LeftIn(N, FromIn(h, N)),
                   SumIn(h, N, FromIn(h, N), LeftIn(N, FromIn(h, N))))
BY DEF HeldStep, FromIn, LeftIn, IsLeft, SumIn, Counts, Kept, LateIn, HoleIn, Turn

\* The loop stops at the first sample that is not late, the new one if no other.
LEMMA LeftFound ==
    ASSUME NEW N, Ordered(N), NEW m \in Nat, Len(N) = m, m \in Points(N),
           NEW from \in Nat, from <= m
    PROVE  /\ LeftIn(N, from) \in Points(N) /\ from <= LeftIn(N, from) /\ LeftIn(N, from) <= m
           /\ ~LateIn(N, LeftIn(N, from))
           /\ Kept(N, LeftIn(N, from)) = {e \in Points(N) : from <= e /\ ~LateIn(N, e)}
<1> DEFINE S == {e \in Points(N) : from <= e /\ ~LateIn(N, e)}
           l == LeftIn(N, from)
<1>1. \A e \in Points(N) : e \in 1..m /\ e \in Nat
    BY DEF Points
<1>2. \A e \in 1..m : N[e] \in Sample /\ N[e].t \in Nat
    <2>1. \A e \in 1..m : N[e] \in Sample
        BY DEF Ordered
    <2>. QED
        BY <2>1 DEF Sample
<1>3. m \in S
    <2>1. m \in 1..m /\ Window \in Nat
        BY <1>1, TelemetryAssumption
    <2>2. N[m].t - N[m].t <= Window
        BY <1>2, <2>1
    <2>3. ~LateIn(N, m)
        BY <1>2, <2>1, <2>2 DEF LateIn
    <2>. QED
        BY <2>3
<1>4. S \in SUBSET Nat /\ S # {}
    BY <1>1, <1>3
<1>5. PICK g \in S : \A y \in S : g <= y
    <2> HIDE DEF S
    <2>. QED
        BY <1>4, LeastOf
<1>6. IsLeft(N, from, g)
    <2>1. ASSUME NEW e \in Points(N), from <= e, e < g PROVE LateIn(N, e)
        <3>1. ~(g <= e)
            BY <1>1, <1>4, <2>1
        <3>. QED
            BY <1>5, <2>1, <3>1
    <2>. QED
        BY <2>1 DEF IsLeft
<1>7. l \in Points(N) /\ IsLeft(N, from, l)
    <2>1. g \in Points(N)
        OBVIOUS
    <2>. QED
        BY <1>6, <2>1 DEF LeftIn
<1> HIDE DEF l
<1>8. from <= l /\ ~LateIn(N, l) /\ l \in 1..m
    BY <1>1, <1>7 DEF IsLeft
<1>9. ASSUME NEW e \in Points(N) PROVE l <= e <=> from <= e /\ ~LateIn(N, e)
    <2>1. e \in 1..m /\ e \in Nat /\ l \in Nat /\ m \in 1..m
        BY <1>1, <1>8
    <2>2. CASE l <= e
        <3>1. N[l].t <= N[e].t
            BY <1>8, <2>1, <2>2 DEF Ordered
        <3>2. N[l].t \in Nat /\ N[e].t \in Nat /\ N[m].t \in Nat /\ Window \in Nat
            BY <1>2, <1>8, <2>1, TelemetryAssumption
        <3>3. ~LateIn(N, e)
            BY <1>8, <3>1, <3>2 DEF LateIn
        <3>. QED
            BY <1>8, <2>1, <2>2, <3>3
    <2>3. CASE ~(l <= e)
        <3>1. e < l
            BY <2>1, <2>3
        <3>2. from <= e => LateIn(N, e)
            BY <1>7, <3>1 DEF IsLeft
        <3>. QED
            BY <2>3, <3>2
    <2>. QED
        BY <2>2, <2>3
<1>10. Kept(N, l) = S
    BY <1>9 DEF Kept
<1>. QED
    BY <1>7, <1>8, <1>10 DEF l

\* The window that ends at the new sample: the new sample alone after a hole,
\* and else what is left of the last window, with the new sample.
LEMMA TrailGrows ==
    ASSUME NEW L, NEW s, NEW N, Longer(L, s, N), NEW n \in Nat, Len(L) = n, IsMoving(s),
           NEW last \in Points(L), \A e \in Points(L) : e <= last
    PROVE  /\ HoleIn(N) <=> LateIn(N, last)
           /\ HoleIn(N) => TrailIn(N, Points(N), n + 1) = {n + 1}
           /\ ~HoleIn(N) => TrailIn(N, Points(N), n + 1) =
                 {n + 1} \cup {e \in TrailIn(L, Points(L), last) : ~LateIn(N, e)}
<1> DEFINE P == Points(L)
           Q == Points(N)
<1>1. /\ Ordered(L) /\ Ordered(N) /\ Len(N) = n + 1 /\ N[n + 1] = s
      /\ \A i \in 1..n : N[i] = L[i]
    BY DEF Longer
<1>2. P \in SUBSET (1..n) /\ Q = P \cup {n + 1}
    BY PointsGrow
<1>3. \A e \in P : e \in 1..n /\ e \in 1..(n + 1) /\ e <= last /\ e <= n + 1 /\ e < n + 1
    BY <1>2
<1>4. \A e \in 1..(n + 1) : N[e] \in Sample
    BY <1>1 DEF Ordered
<1>5. \A e \in 1..(n + 1) : N[e].t \in Nat
    BY <1>4 DEF Sample
<1>6. n + 1 \in 1..(n + 1) /\ last \in 1..n /\ last \in 1..(n + 1) /\ Window \in Nat
    BY <1>3, TelemetryAssumption
<1>7. Before(Q, n + 1) = last
    BY <1>2, BeforeNew
<1>8. HoleIn(N) <=> LateIn(N, last)
    <2>1. Q # {n + 1}
        BY <1>2, <1>3
    <2>. QED
        BY <1>1, <1>7, <2>1 DEF HoleIn
<1>9. LateIn(N, last) <=> ~Joined(N, Q, n + 1)
    BY <1>1, <1>5, <1>6, <1>7 DEF LateIn, Joined
<1>10. \A e \in P : LateIn(N, e) <=> ~(N[n + 1].t - N[e].t <= Window)
    BY <1>1, <1>3, <1>5, <1>6 DEF LateIn
<1>11. n + 1 \in TrailIn(N, Q, n + 1)
    <2>1. Q \in SUBSET (1..(n + 1)) /\ n + 1 \in Nat
        BY <1>2, <1>3
    <2>2. n + 1 \in Q
        BY <1>2
    <2> HIDE DEF Q
    <2>. QED
        BY <1>1, <2>1, <2>2, TrailIsFinite
<1>12. ASSUME NEW l \in P
       PROVE  l \in TrailIn(N, Q, n + 1) <=>
                 l \in TrailIn(L, P, last) /\ ~LateIn(N, l) /\ ~LateIn(N, last)
    <2>1. ASSUME NEW e \in P, l < e PROVE Joined(N, Q, e) <=> Joined(L, P, e)
        <3> HIDE DEF P, Q
        <3>. QED
            BY <1>2, <2>1, JoinedStays
    <2>2. \A e \in Q : l < e /\ e <= n + 1 <=> (e \in P /\ l < e) \/ e = n + 1
        BY <1>2, <1>3
    <2>3. (\A e \in Q : l < e /\ e <= n + 1 => Joined(N, Q, e)) <=>
             (\A e \in P : l < e => Joined(L, P, e)) /\ ~LateIn(N, last)
        BY <1>2, <1>9, <2>1, <2>2
    <2>4. (\A e \in P : l < e /\ e <= last => Joined(L, P, e)) <=>
             (\A e \in P : l < e => Joined(L, P, e))
        BY <1>3
    <2>5. ~LateIn(N, l) => L[last].t - L[l].t <= Window
        <3>1. N[last].t <= N[n + 1].t
            BY <1>1, <1>3, <1>6 DEF Ordered
        <3>2. l \in 1..n /\ l \in 1..(n + 1) /\ N[l] = L[l] /\ N[last] = L[last]
            BY <1>1, <1>3, <1>6
        <3>3. N[l].t \in Nat /\ N[last].t \in Nat /\ N[n + 1].t \in Nat
            BY <1>5, <1>6, <3>2
        <3>4. ~LateIn(N, l) => N[n + 1].t - N[l].t <= Window
            BY <1>10
        <3>. QED
            BY <1>6, <3>1, <3>2, <3>3, <3>4
    <2>6. l \in TrailIn(N, Q, n + 1) <=>
             ~LateIn(N, l) /\ (\A e \in Q : l < e /\ e <= n + 1 => Joined(N, Q, e))
        BY <1>2, <1>3, <1>10 DEF TrailIn
    <2>7. l \in TrailIn(L, P, last) <=>
             L[last].t - L[l].t <= Window /\ (\A e \in P : l < e /\ e <= last => Joined(L, P, e))
        BY <1>3 DEF TrailIn
    <2>. QED
        BY <2>3, <2>4, <2>5, <2>6, <2>7
<1>13. \A l \in TrailIn(N, Q, n + 1) : l \in P \/ l = n + 1
    BY <1>2 DEF TrailIn
<1>14. \A l \in TrailIn(L, P, last) : l \in P
    BY DEF TrailIn
<1> HIDE DEF P, Q
<1>15. HoleIn(N) => TrailIn(N, Q, n + 1) = {n + 1}
    BY <1>8, <1>11, <1>12, <1>13
<1>16. ~HoleIn(N) => TrailIn(N, Q, n + 1) = {n + 1} \cup {e \in TrailIn(L, P, last) : ~LateIn(N, e)}
    <2>1. ASSUME ~HoleIn(N), NEW e
          PROVE  e \in TrailIn(N, Q, n + 1) <=>
                    e \in {n + 1} \cup {x \in TrailIn(L, P, last) : ~LateIn(N, x)}
        BY <1>8, <1>11, <1>12, <1>13, <1>14, <2>1
    <2>. QED
        BY <2>1
<1>. QED
    BY <1>8, <1>15, <1>16 DEF P, Q

-----------------------------------------------------------------------------
LEMMA LoadNone == ASSUME NEW L PROVE LoadOf(L, {}) = 0
<1> DEFINE f == [i \in {} |-> L[i].load]
<1>1. f \in [{} -> Nat]
    OBVIOUS
<1>2. SumFunction(f) = 0
    <2> HIDE DEF f
    <2>. QED
        BY <1>1, SumNone
<1>. QED
    BY <1>2 DEF LoadOf

\* A turn that has found its window and the sum of it has done all it should.
LEMMA WindowTells ==
    ASSUME NEW L, NEW s, NEW N, Longer(L, s, N), NEW n \in Nat, Len(L) = n, IsMoving(s),
           NEW h, HeldTells(L, h),
           NEW from, from = FromIn(h, N), NEW left, left = LeftIn(N, from),
           NEW sum, sum = SumIn(h, N, from, left),
           left \in Points(N), Kept(N, left) = TrailIn(N, Points(N), n + 1),
           sum = LoadOf(N, Kept(N, left))
    PROVE  HeldTells(N, HeldStep(h, N))
<1> DEFINE P == Points(L)
           Q == Points(N)
           g == HeldStep(h, N)
<1>1. Ordered(L) /\ Ordered(N) /\ Len(N) = n + 1
    BY DEF Longer
<1>2. P \in SUBSET (1..n) /\ Q = P \cup {n + 1}
    BY PointsGrow
<1>3. Q \in SUBSET (1..(n + 1)) /\ n + 1 \in Q /\ n + 1 \in Nat
    BY <1>2
<1>4. \A e \in Q : e \in 1..(n + 1) /\ e \in Nat /\ e <= n + 1
    BY <1>3
<1>5. \A e \in Q : N[e].t \in Nat
    <2>1. \A e \in Q : N[e] \in Sample
        BY <1>1, <1>4 DEF Ordered
    <2>. QED
        BY <2>1 DEF Sample
<1> DEFINE best == IF Counts(N, left)
                   THEN Higher(h.best, <<sum, Cardinality(Kept(N, left))>>) ELSE h.best
<1>6. g = [left |-> left, sum |-> sum, best |-> best]
    <2> HIDE DEF P, Q
    <2>1. HeldStep(h, N) = Turn(h, N, left, sum)
        BY HeldStepIs
    <2>. QED
        BY <2>1 DEF Turn
<1>7. Figure(N, Q, n + 1) = <<sum, Cardinality(Kept(N, left))>>
    BY DEF Figure
<1>8. Counts(N, left) <=> Spans(N, Q, n + 1)
    <2>1. Window \in Nat
        BY TelemetryAssumption
    <2>2. \A l : l \in TrailIn(N, Q, n + 1) <=> l \in Q /\ left <= l
        BY DEF Kept
    <2>3. left \in Nat /\ left <= left
        BY <1>4
    <2>4. ASSUME NEW l \in Q, left <= l, l < n + 1, 2 * (N[n + 1].t - N[l].t) >= Window
          PROVE  left < n + 1 /\ 2 * (N[n + 1].t - N[left].t) >= Window
        <3>1. N[left].t <= N[l].t
            BY <1>1, <1>4, <2>4 DEF Ordered
        <3>2. N[left].t \in Nat /\ N[l].t \in Nat /\ N[n + 1].t \in Nat /\ l \in Nat
            BY <1>3, <1>4, <1>5
        <3>. QED
            BY <2>1, <2>3, <2>4, <3>1, <3>2
    <2>. QED
        BY <1>1, <2>2, <2>3, <2>4 DEF Counts, Spans
<1>9. HighestIs(best, AveragesIn(N, Q))
    <2>1. AveragesIn(L, P) \in SUBSET Fractions /\ HighestIs(h.best, AveragesIn(L, P))
        BY <1>1, <1>2, AveragesAre DEF HeldTells
    <2>2. Figure(N, Q, n + 1) \in Fractions
        <3> HIDE DEF Q
        <3>. QED
            BY <1>1, <1>3, TrailIsFinite
    <2>3. AveragesIn(N, Q) = AveragesIn(L, P) \cup
             (IF Spans(N, Q, n + 1) THEN {Figure(N, Q, n + 1)} ELSE {})
        <3>1. P \in SUBSET (1..n)
            BY <1>2
        <3> HIDE DEF P, Q, best, g
        <3>2. AveragesIn(N, P \cup {n + 1}) = AveragesIn(L, P) \cup
                 (IF Spans(N, P \cup {n + 1}, n + 1) THEN {Figure(N, P \cup {n + 1}, n + 1)} ELSE {})
            BY <3>1, AveragesGrow
        <3>. QED
            BY <1>2, <3>2
    <2> HIDE DEF P, Q
    <2>4. CASE Spans(N, Q, n + 1)
        <3>1. AveragesIn(N, Q) = AveragesIn(L, P) \cup {Figure(N, Q, n + 1)}
            BY <2>3, <2>4
        <3>2. best = Higher(h.best, Figure(N, Q, n + 1))
            BY <1>7, <1>8, <2>4
        <3> HIDE DEF best
        <3>. QED
            BY <2>1, <2>2, <3>1, <3>2, HighestExtends
    <2>5. CASE ~Spans(N, Q, n + 1)
        BY <1>8, <2>1, <2>3, <2>5
    <2>. QED
        BY <2>4, <2>5
<1> HIDE DEF best
<1>10. g.left = left /\ g.sum = sum /\ g.best = best
    BY <1>6
<1>11. Q # {}
    BY <1>3
<1> HIDE DEF g, Q
<1>12. \E last \in Q : /\ \A e \in Q : e <= last
                       /\ g.left \in Q
                       /\ TrailIn(N, Q, last) = {e \in Q : g.left <= e}
                       /\ g.sum = LoadOf(N, {e \in Q : g.left <= e})
    BY <1>3, <1>4, <1>10 DEF Kept, Q
<1>13. HighestIs(g.best, AveragesIn(N, Q))
    BY <1>9, <1>10
<1>. QED
    BY <1>11, <1>12, <1>13 DEF HeldTells, g, Q

\* The first sample that passes the gate, and one after a hole, is alone.
LEMMA AloneTells ==
    ASSUME NEW L, NEW s, NEW N, Longer(L, s, N), NEW n \in Nat, Len(L) = n, IsMoving(s),
           NEW h, HeldTells(L, h), Points(L) = {} \/ HoleIn(N)
    PROVE  HeldTells(N, HeldStep(h, N))
<1> DEFINE P == Points(L)
           Q == Points(N)
<1>1. /\ Ordered(L) /\ Ordered(N) /\ Len(N) = n + 1 /\ N[n + 1] = s /\ s \in Sample
    BY DEF Longer
<1>2. P \in SUBSET (1..n) /\ Q = P \cup {n + 1} /\ n + 1 \in Nat
    BY PointsGrow
<1>3. \A e \in P : e \in 1..n /\ e < n + 1 /\ ~(n + 1 <= e)
    BY <1>2
<1>4. PICK from : from = FromIn(h, N)
    OBVIOUS
<1>5. PICK left : left = LeftIn(N, from)
    OBVIOUS
<1>6. /\ from \in Nat /\ from <= n + 1 /\ (IF HoleIn(N) THEN 0 ELSE h.sum) = 0
      /\ \A e \in Q : from <= e => e = n + 1
    <2>1. CASE HoleIn(N)
        <3>1. from = n + 1
            BY <1>1, <1>4, <2>1 DEF FromIn
        <3>. QED
            BY <1>2, <1>3, <2>1, <3>1
    <2>2. CASE P = {} /\ ~HoleIn(N)
        <3>1. from = 1 /\ h.sum = 0
            BY <1>4, <2>2 DEF FromIn, HeldTells
        <3>2. 1 \in Nat /\ 1 <= n + 1
            OBVIOUS
        <3>. QED
            BY <1>2, <2>2, <3>1, <3>2
    <2>. QED
        BY <2>1, <2>2
<1>7. n + 1 \in Q
    BY <1>2
<1> HIDE DEF Q
<1>8. left \in Q /\ from <= left
    BY <1>1, <1>2, <1>5, <1>6, <1>7, LeftFound DEF Q
<1>9. left = n + 1
    BY <1>6, <1>8
<1>10. Kept(N, left) = {n + 1}
    <2>1. \A e \in Q : left <= e <=> e = n + 1
        BY <1>2, <1>3, <1>9
    <2>. QED
        BY <1>7, <2>1 DEF Kept, Q
<1>11. TrailIn(N, Q, n + 1) = {n + 1}
    <2>1. CASE P = {}
        <3>1. Q = {n + 1} /\ Q \in SUBSET (1..(n + 1))
            BY <1>2, <2>1
        <3>2. n + 1 \in TrailIn(N, Q, n + 1)
            BY <1>1, <1>2, <1>7, <3>1, TrailIsFinite
        <3>3. \A e \in TrailIn(N, Q, n + 1) : e \in Q
            BY DEF TrailIn
        <3>. QED
            BY <3>1, <3>2, <3>3
    <2>2. CASE P # {}
        <3>1. P \in SUBSET (0..n)
            <4>1. \A e \in P : e \in 0..n
                BY <1>3
            <4>. QED
                BY <4>1
        <3>2. PICK last \in P : \A e \in P : e <= last
            <4> HIDE DEF P
            <4>. QED
                BY <2>2, <3>1, GreatestOf
        <3>3. HoleIn(N)
            BY <2>2
        <3>. QED
            BY <3>2, <3>3, TrailGrows DEF Q
    <2>. QED
        BY <2>1, <2>2
<1>12. {e \in Q : from <= e /\ e < left} = {}
    BY <1>6, <1>9, <1>3, <1>2
<1>13. SumIn(h, N, from, left) = LoadOf(N, Kept(N, left))
    <2>1. LoadOf(N, {}) = 0 /\ LoadOf(L, {}) = 0
        BY LoadNone
    <2>2. LoadOf(N, {} \cup {n + 1}) = LoadOf(L, {}) + s.load
        <3>1. {} \in SUBSET (1..n)
            OBVIOUS
        <3>. QED
            BY <3>1, LoadMore
    <2>3. s.load \in Nat
        BY <1>1 DEF Sample
    <2>4. SumIn(h, N, from, left) = 0 + s.load - 0
        BY <1>1, <1>6, <1>12, <2>1 DEF SumIn, Q
    <2>. QED
        BY <1>10, <2>1, <2>2, <2>3, <2>4
<1>14. Kept(N, left) = TrailIn(N, Points(N), n + 1)
    BY <1>10, <1>11 DEF Q
<1>15. left \in Points(N)
    BY <1>8 DEF Q
<1>. QED
    BY <1>4, <1>5, <1>13, <1>14, <1>15, WindowTells

-----------------------------------------------------------------------------
\* Without a hole the window slides, and its sum loses what the window leaves.
LEMMA SlideTells ==
    ASSUME NEW L, NEW s, NEW N, Longer(L, s, N), NEW n \in Nat, Len(L) = n, IsMoving(s),
           NEW h, HeldTells(L, h), Points(L) # {}, ~HoleIn(N)
    PROVE  HeldTells(N, HeldStep(h, N))
<1> DEFINE P == Points(L)
           Q == Points(N)
<1>1. /\ Ordered(L) /\ Ordered(N) /\ Len(N) = n + 1 /\ N[n + 1] = s /\ s \in Sample
    BY DEF Longer
<1>2. P \in SUBSET (1..n) /\ Q = P \cup {n + 1} /\ n + 1 \in Nat /\ n + 1 \in Q
    BY PointsGrow
<1>3. \A e \in P : e \in 1..n /\ e \in Nat /\ e < n + 1 /\ e <= n + 1 /\ ~(n + 1 <= e)
    BY <1>2
<1>4. PICK last \in P : /\ \A e \in P : e <= last
                        /\ h.left \in P
                        /\ TrailIn(L, P, last) = {e \in P : h.left <= e}
                        /\ h.sum = LoadOf(L, {e \in P : h.left <= e})
    BY DEF HeldTells
<1>5. PICK from : from = h.left
    OBVIOUS
<1>6. from = FromIn(h, N)
    BY <1>5 DEF FromIn
<1>7. PICK left : left = LeftIn(N, from)
    OBVIOUS
<1>8. from \in P /\ from \in Nat /\ from <= n + 1
    BY <1>3, <1>4, <1>5
<1>9. /\ left \in Q /\ from <= left /\ left <= n + 1
      /\ Kept(N, left) = {e \in Q : from <= e /\ ~LateIn(N, e)}
    <2> HIDE DEF P
    <2>. QED
        BY <1>1, <1>2, <1>7, <1>8, LeftFound
<1>10. ~LateIn(N, n + 1)
    <2>1. s.t \in Nat /\ Window \in Nat
        BY <1>1, TelemetryAssumption DEF Sample
    <2>2. ~(s.t - s.t > Window)
        BY <2>1
    <2>. QED
        BY <1>1, <2>2 DEF LateIn
<1>11. Kept(N, left) = TrailIn(N, Q, n + 1)
    <2>1. TrailIn(N, Q, n + 1) = {n + 1} \cup {e \in TrailIn(L, P, last) : ~LateIn(N, e)}
        BY <1>4, TrailGrows
    <2>2. ASSUME NEW e
          PROVE  e \in Kept(N, left) <=> e \in TrailIn(N, Q, n + 1)
        BY <1>2, <1>4, <1>5, <1>8, <1>9, <1>10, <2>1
    <2>. QED
        BY <2>2
<1> DEFINE A == {e \in Q : from <= e /\ e < left}
           B == {e \in P : left <= e}
<1>12. A \in SUBSET (1..n) /\ B \in SUBSET (1..n) /\ A \cap B = {} /\ A \in SUBSET (1..(n + 1))
    <2>1. \A e \in A : e \in P
        BY <1>2, <1>9
    <2>2. left \in Nat
        BY <1>2, <1>3, <1>9
    <2>3. \A e \in A : e \in 1..n /\ ~(left <= e)
        BY <1>3, <2>1, <2>2
    <2>4. \A e \in 1..n : e \in 1..(n + 1)
        OBVIOUS
    <2>. QED
        BY <1>2, <2>3, <2>4
<1>13. A \cup B = {e \in P : from <= e}
    <2>1. left \in Nat
        BY <1>2, <1>3, <1>9
    <2>2. ASSUME NEW e \in P PROVE e \in A \cup B <=> from <= e
        BY <1>2, <1>3, <1>8, <1>9, <2>1
    <2>3. \A e \in A : e \in P
        BY <1>2, <1>9
    <2>. QED
        BY <2>2, <2>3
<1>14. Kept(N, left) = B \cup {n + 1}
    <2>1. \A e \in Q : e \in P \/ e = n + 1
        BY <1>2
    <2>. QED
        BY <1>2, <1>9, <2>1 DEF Kept
<1>15. SumIn(h, N, from, left) = LoadOf(N, Kept(N, left))
    <2> HIDE DEF A, B
    <2>1. h.sum = LoadOf(L, A) + LoadOf(L, B)
        <3>1. h.sum = LoadOf(L, A \cup B)
            BY <1>4, <1>5, <1>13
        <3>. QED
            BY <1>1, <1>12, <3>1, LoadParts
    <2>2. LoadOf(N, A) = LoadOf(L, A)
        BY <1>12, LoadStays
    <2>3. LoadOf(N, B \cup {n + 1}) = LoadOf(L, B) + s.load
        BY <1>12, LoadMore
    <2>4. LoadOf(L, A) \in Nat /\ LoadOf(L, B) \in Nat /\ s.load \in Nat
        BY <1>1, <1>12, LoadNat DEF Sample
    <2>5. SumIn(h, N, from, left) = h.sum + s.load - LoadOf(N, A)
        BY <1>1 DEF SumIn, A
    <2>. QED
        BY <1>14, <2>1, <2>2, <2>3, <2>4, <2>5
<1> HIDE DEF A, B, P
<1>16. left \in Points(N) /\ Kept(N, left) = TrailIn(N, Points(N), n + 1)
    BY <1>9, <1>11
<1> HIDE DEF Q
<1>. QED
    BY <1>6, <1>7, <1>15, <1>16, WindowTells

LEMMA HeldStepSound ==
    ASSUME NEW L, NEW s, NEW N, Longer(L, s, N), NEW n \in Nat, Len(L) = n,
           NEW h, HeldTells(L, h)
    PROVE  HeldTells(N, IF IsMoving(s) THEN HeldStep(h, N) ELSE h)
<1>1. CASE IsMoving(s)
    BY <1>1, AloneTells, SlideTells
<1>2. CASE ~IsMoving(s)
    <2>1. Points(L) \in SUBSET (1..n) /\ Points(N) = Points(L)
        BY <1>2, PointsGrow
    <2>2. PICK P : P = Points(L)
        OBVIOUS
    <2>3. P \in SUBSET (1..n) /\ Points(N) = P
        BY <2>1, <2>2
    <2>4. AveragesIn(N, P) = AveragesIn(L, P)
        BY <2>3, AveragesStay
    <2>5. \A r \in P : TrailIn(N, P, r) = TrailIn(L, P, r)
        BY <2>3, TrailStays
    <2>6. LoadOf(N, {e \in P : h.left <= e}) = LoadOf(L, {e \in P : h.left <= e})
        <3>1. {e \in P : h.left <= e} \in SUBSET (1..n)
            BY <2>3
        <3>. QED
            BY <3>1, LoadStays
    <2>7. HeldTells(N, h)
        BY <2>2, <2>3, <2>4, <2>5, <2>6 DEF HeldTells
    <2>. QED
        BY <1>2, <2>7
<1>. QED
    BY <1>1, <1>2

-----------------------------------------------------------------------------
PassesInv ==
    /\ BrakingInv /\ LaunchInv
    /\ Ordered(log) /\ TrackTells(log, track) /\ HeldTells(log, held)

\* Before the first sample there is nothing to find.
EmptyLog ==
    log = <<>> /\ track = NoTrack /\ held = NoneHeld /\ launch = NoLaunch /\ braking = NoStop

LEMMA EmptySound == EmptyLog => PassesInv
<1> SUFFICES ASSUME EmptyLog PROVE PassesInv
    OBVIOUS
<1>1. /\ log \in Seq(Sample) /\ log = <<>> /\ Len(log) = 0 /\ (1..Len(log)) = {}
      /\ launch = NoLaunch /\ braking = NoStop
    BY DEF EmptyLog
<1>2. Stops = {}
    BY <1>1 DEF Stops
<1>3. StopFigures = {}
    BY <1>2 DEF StopFigures
<1>4. {q \in (1..Len(log)) \X (1..Len(log)) : GenuineLaunch(q[1], q[2])} = {}
    BY <1>1
<1>5. LaunchTimes = {}
    BY <1>4 DEF LaunchTimes
<1>6. LaunchFigures = {}
    BY <1>5 DEF LaunchFigures
<1>7. /\ braking.at = Absent /\ braking.best = None
      /\ braking \in [at: Nat \cup {Absent}, v: Nat, best: Fractions \cup {None}]
    BY <1>1 DEF NoStop
<1>8. /\ launch.start = Absent /\ launch.at = Absent /\ launch.best = None
      /\ launch \in LaunchPass
    BY <1>1 DEF NoLaunch, LaunchPass
<1>9. BrakingInv
    BY <1>1, <1>3, <1>7 DEF BrakingInv, BrakingRight, BestIs
<1>10. LaunchInv
    BY <1>1, <1>6, <1>8 DEF LaunchInv, LaunchRight, LastSeen, BestIs
<1>11. Ordered(log)
    BY <1>1 DEF Ordered
<1>12. PacedIn(log) = {} /\ Points(log) = {}
    BY <1>1 DEF PacedIn, Points
<1>13. TrackTells(log, track)
    BY <1>12 DEF EmptyLog, TrackTells
<1>14. AveragesIn(log, Points(log)) = {}
    BY <1>12 DEF AveragesIn
<1>15. HeldTells(log, held)
    BY <1>12, <1>14 DEF EmptyLog, NoneHeld, HeldTells, HighestIs
<1>. QED
    BY <1>9, <1>10, <1>11, <1>13, <1>15 DEF PassesInv

LEMMA PassesStay == ASSUME PassesInv, UNCHANGED telemetryVars PROVE PassesInv'
<1>1. log' = log /\ launch' = launch /\ braking' = braking
    BY DEF telemetryVars
<1>2. BrakingInv'
    BY <1>1 DEF PassesInv, BrakingInv, BrakingRight, Since, Fast, Still, Speed, StopFigures, Stops
<1>3. LaunchFigures' = LaunchFigures
    BY <1>1 DEF LaunchFigures, LaunchTimes, GenuineLaunch
<1>4. /\ \A i \in 1..Len(log) : Armed(i)' <=> Armed(i)
      /\ \A i, p : Peak(i, p)' <=> Peak(i, p)
    BY <1>1 DEF Armed, Peak, Speed, Seen, Dips
<1>5. LastSeen' <=> LastSeen
    BY <1>1 DEF LastSeen, Seen, Speed
<1>6. LaunchRight'
    BY <1>1, <1>3, <1>4, <1>5 DEF PassesInv, LaunchInv, LaunchRight
<1>7. Ordered(log') /\ TrackTells(log', track') /\ HeldTells(log', held')
    BY DEF PassesInv, telemetryVars
<1>. QED
    BY <1>1, <1>2, <1>6, <1>7 DEF PassesInv, LaunchInv

LEMMA PassesStep == ASSUME PassesInv, [TelemetryNext]_telemetryVars PROVE PassesInv'
<1>1. ASSUME NEW reading \in Readings, NEW gap \in Gaps, NextSample(reading, gap)
      PROVE  PassesInv'
  <2>1. log \in Seq(Sample) /\ Len(log) \in Nat
    BY DEF PassesInv, LaunchInv
  <2>2. PICK s \in Sample : Grows(s)
    BY <1>1, <2>1, LogGrows
  <2>3. BrakingInv'
    BY <2>2, BrakingStep DEF PassesInv
  <2>4. LaunchInv'
    BY <2>1, <2>2, LaunchStepSound DEF PassesInv
  <2>5. Longer(log, s, log')
    BY <1>1, <2>2, OrderGrows DEF PassesInv
  <2>6. track' = TrackStep(track, s) /\ held' = IF IsMoving(s) THEN HeldStep(held, log') ELSE held
    BY <2>2 DEF Grows
  <2>7. Ordered(log')
    BY <2>5 DEF Longer
  <2>8. TrackTells(log', track')
    BY <2>1, <2>5, <2>6, TrackStepSound DEF PassesInv
  <2>9. HeldTells(log', held')
    BY <2>1, <2>5, <2>6, HeldStepSound DEF PassesInv
  <2>. QED
    BY <2>3, <2>4, <2>7, <2>8, <2>9 DEF PassesInv
<1>2. CASE NextUpload
  <2>1. EmptyLog'
    BY <1>2 DEF NextUpload, EmptyLog
  <2>2. EmptyLog' => PassesInv'
    BY EmptySound, PTL
  <2>. QED
    BY <2>1, <2>2
<1>3. CASE UNCHANGED telemetryVars
    BY <1>3, PassesStay
<1>. QED
    BY <1>1, <1>2, <1>3 DEF TelemetryNext

\* For any log of any length, what each of the four passes keeps tells of the
\* log it has read what it should.
THEOREM PassesSound == TelemetrySpec => []PassesInv
<1>1. TelemetryInit => PassesInv
    BY EmptySound DEF TelemetryInit, EmptyLog
<1>2. PassesInv /\ [TelemetryNext]_telemetryVars => PassesInv'
    BY PassesStep
<1>. QED
    BY <1>1, <1>2, PTL DEF TelemetrySpec

LEMMA StopFound == PassesInv => StopIsReal
<1> SUFFICES ASSUME PassesInv PROVE IsBest(braking.best, StopFigures, Less)
    BY DEF StopIsReal, StopFigures
<1>. QED
    BY StopFiguresAre, BestIsBest DEF PassesInv, BrakingInv, BrakingRight

LEMMA LaunchFound == PassesInv => LaunchIsGenuine
<1> SUFFICES ASSUME PassesInv PROVE IsBest(launch.best, LaunchFigures, Less)
    BY DEF LaunchIsGenuine, LaunchFigures
<1>. QED
    BY BestIsBest DEF PassesInv, LaunchInv, LaunchRight

\* The stopping time of a ride is that of a stop that happened.
THEOREM StopCorrect == TelemetrySpec => []StopIsReal
BY PassesSound, StopFound, PTL

\* The launch time of a ride is that of a launch that happened.
THEOREM LaunchCorrect == TelemetrySpec => []LaunchIsGenuine
BY PassesSound, LaunchFound, PTL

\* The realistic top speed of a ride is one that its samples lead up to.
THEOREM TopSpeedCorrect == TelemetrySpec => []TopSpeedIsReached
<1>1. PassesInv => TopSpeedIsReached
    BY TrackFound DEF PassesInv
<1>. QED
    BY <1>1, PassesSound, PTL

\* The sustained load of a ride is the average of a window that was held, the
\* highest there is: the running sum never drifts.
THEOREM SustainedCorrect == TelemetrySpec => []SustainedIsHeld
<1>1. PassesInv => SustainedIsHeld
    BY HeldFound DEF PassesInv
<1>. QED
    BY <1>1, PassesSound, PTL

-----------------------------------------------------------------------------
(* The run that puts them together. *)

\* What the passes carry over are numbers and fractions, in a log within its bound.
LEMMA PassesTyped ==
    ASSUME PassesInv, Len(log) <= MaxSamples
    PROVE  TelemetryTypeOK
<1>1. /\ log \in Seq(Sample) /\ Len(log) \in Nat
      /\ \A i, j \in 1..Len(log) : i <= j => log[i].t <= log[j].t
    BY LengthNat DEF PassesInv, Ordered
<1>2. \A i \in 1..Len(log) : log[i].t \in Nat /\ (i > 1 => log[i - 1].t <= log[i].t)
  <2> SUFFICES ASSUME NEW i \in 1..Len(log)
               PROVE  log[i].t \in Nat /\ (i > 1 => log[i - 1].t <= log[i].t)
      OBVIOUS
  <2>1. log[i] \in Sample
      BY <1>1
  <2>2. i > 1 => i - 1 \in 1..Len(log) /\ i - 1 <= i
      BY <1>1
  <2>. QED
      BY <1>1, <2>1, <2>2 DEF Sample
<1>3. {track.plausible, track.realistic} \subseteq Nat \cup {Absent}
    BY DEF PassesInv, TrackTells, NoTrack, TrackPass
<1>4. Points(log) \in SUBSET (1..Len(log))
    BY <1>1 DEF Points
<1>5. held.left = 1 \/ held.left \in Points(log)
    BY DEF PassesInv, HeldTells
<1>6. held.left \in 1..MaxSamples
  <2>1. MaxSamples \in Nat \ {0}
      BY TelemetryAssumption DEF TelemetryAssumption
  <2>2. held.left \in Points(log) => held.left \in 1..Len(log)
      BY <1>4
  <2>. QED
      BY <1>1, <1>5, <2>1, <2>2
<1>7. held.sum \in Nat
  <2>1. PICK S : S = {e \in Points(log) : held.left <= e}
      OBVIOUS
  <2>2. S \in SUBSET (1..Len(log))
      BY <1>4, <2>1
  <2>3. LoadOf(log, S) \in Nat
      BY <1>1, <2>2, LoadNat DEF PassesInv
  <2>. QED
      BY <2>1, <2>3 DEF PassesInv, HeldTells
<1>8. held.best \in Rational
  <2>1. AveragesIn(log, Points(log)) \in SUBSET Fractions
      BY <1>1, <1>4, AveragesAre DEF PassesInv
  <2>. QED
      BY <2>1 DEF PassesInv, HeldTells, HighestIs, Rational, Fractions
<1>9. launch.best \in Rational /\ braking.best \in Rational
    BY DEF PassesInv, LaunchInv, LaunchPass, BrakingInv, Rational, Fractions
<1>. QED
    BY <1>2, <1>3, <1>6, <1>7, <1>8, <1>9 DEF TelemetryTypeOK

LEMMA TelemetryTyped == TelemetrySpec => []TelemetryTypeOK
<1>1. TelemetryInit => Len(log) <= MaxSamples
    BY TelemetryAssumption DEF TelemetryInit
<1>2. PassesInv /\ Len(log) <= MaxSamples /\ [TelemetryNext]_telemetryVars
          => (Len(log) <= MaxSamples)'
  <2> SUFFICES ASSUME PassesInv, Len(log) <= MaxSamples, [TelemetryNext]_telemetryVars
               PROVE  Len(log') <= MaxSamples
      OBVIOUS
  <2>1. log \in Seq(Sample) /\ Len(log) \in Nat
      BY DEF PassesInv, LaunchInv
  <2>2. ASSUME NEW reading \in Readings, NEW gap \in Gaps, NextSample(reading, gap)
        PROVE  Len(log') <= MaxSamples
    <3>1. PICK s \in Sample : Grows(s)
        BY <2>1, <2>2, LogGrows
    <3>2. Len(log') = Len(log) + 1
        BY <2>1, <3>1 DEF Grows
    <3>. QED
        BY <2>1, <2>2, <3>2, TelemetryAssumption DEF NextSample
  <2>3. CASE NextUpload
      BY <2>3, TelemetryAssumption DEF NextUpload
  <2>4. CASE UNCHANGED telemetryVars
      BY <2>4 DEF telemetryVars
  <2>. QED
      BY <2>2, <2>3, <2>4 DEF TelemetryNext
<1>3. PassesInv /\ Len(log) <= MaxSamples => TelemetryTypeOK
    BY PassesTyped
<1>. QED
    BY <1>1, <1>2, <1>3, PassesSound, PTL DEF TelemetrySpec

\* Each step of the run is one of every component, or leaves it alone.
LEMMA UploadSteps ==
    [UploadNext]_uploadVars =>
        [Next]_vars /\ [TelemetryNext]_telemetryVars /\ [CreditNext]_creditVars
BY DEF UploadNext, JobsMove, SummaryMoves, CreditMoves, uploadVars

\* No behaviour of the run shows a component anything it would not do by itself:
\* what is proved of the jobs, the passes and the credits, each for itself, holds
\* of an upload as a whole.
THEOREM UploadSound == UploadSpec => Spec /\ TelemetrySpec /\ CreditSpec
BY UploadSteps, PTL DEF UploadSpec, UploadInit, Spec, TelemetrySpec, CreditSpec

\* A log keeps its order and its passes carry over numbers and fractions; jobs
\* and sums are what they should be; a credit is a crew's or nobody's, and one
\* upload at a time decides on one.
THEOREM UploadTyped == UploadSpec => []UploadTypeOK
<1>1. IInv /\ TelemetryTypeOK /\ CreditInv => UploadTypeOK
    BY DEF IInv, CreditInv, UploadTypeOK
<1>. QED
    BY <1>1, AggregationSound, TelemetryTyped, CreditSound, UploadSound, PTL
=============================================================================
