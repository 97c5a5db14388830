------------------------------- MODULE Credit -------------------------------
(***************************************************************************)
(* Which crew a ride counts for.  An upload looks up its rider's crew and  *)
(* stores the ride with it (services/ingest.py); whoever founds, joins or  *)
(* is let into a crew brings the rides of the last fortnight that count    *)
(* for nobody (_stamp_recent of web/crews_api.py).  Both read or commit    *)
(* more than once, and membership moves on in between, as Membership has   *)
(* it.  Uploads run one after another.                                     *)
(*                                                                         *)
(* The purge of a rider is left out: of one who was ever in a crew it      *)
(* raises on a foreign key.                                                *)
(***************************************************************************)
EXTENDS Naturals, FiniteSets

CONSTANTS
    Teams, Cyclists, NoTeam,
    Rides,
    RiddenBy        \* RiddenBy[t]: rider_store_id

ASSUME CreditAssumption == NoTeam \notin Teams /\ RiddenBy \in [Rides -> Cyclists]

VARIABLES
    team, standing,     \* crew and standing of Membership
    credit,         \* credit[t]: clan_id of a trip
    verdict,        \* validation_status, "none" while there is no such trip
    deciding,       \* the upload under way: its trip, and the crew it has read
    stamping,       \* requests that have let <<rider, crew>> in and not stamped
    longAgo,        \* crews and trips past JOIN_BACKFILL_DAYS
    hasBeen         \* history: <<rider, crew>>, who has ever been in which

M == INSTANCE Membership WITH CrewIds <- Teams, Riders <- Cyclists, crew <- team

crewTables == <<team, standing>>
tripTables == <<credit, verdict, deciding>>
creditVars == <<crewTables, tripTables, stamping, longAgo, hasBeen>>

Uploading == [ride: Rides, for: Teams \cup {NoTeam}]

CreditInit ==
    /\ M!Init
    /\ credit = [t \in Rides |-> NoTeam]
    /\ verdict = [t \in Rides |-> "none"]
    /\ deciding = {} /\ stamping = {} /\ longAgo = {} /\ hasBeen = {}

In(c, r) == standing[c][r] \in M!Manning

-----------------------------------------------------------------------------
\* Requests by which a rider comes in go on to stamp; the others do not, and
\* neither does an admin's restore.
Request(step, stamped) ==
    /\ step /\ stamping' = stamping \cup stamped
    /\ hasBeen' = hasBeen \cup {p \in Cyclists \X Teams : In(p[2], p[1])'}
    /\ UNCHANGED <<tripTables, longAgo>>

ComeIn(c, r) ==
    Request(M!Found(c, r) \/ M!Enter(c, r), IF In(c, r)' THEN {<<r, c>>} ELSE {})

MoveOn ==
    \/ \E c \in Teams, r \in Cyclists :
          Request(M!Depart(c, r) \/ M!TakeOver(c, r), {})
    \/ \E c \in Teams, a, r \in Cyclists : Request(M!Rank(c, a, r), {})
    \/ \E c \in Teams : Request(M!Close(c) \/ M!Reopen(c), {})

BadCurrentCrew(r) == {c \in Teams : standing[c][r] # "out"}

\* current_clan_id(): a request that waits is no membership.
CurrentCrew(r) == {c \in Teams : In(c, r)}

\* "decided once, here, and never rewritten": nobody's, too, where crews are
\* switched off or the look-up raises.
ReadCrew(t) ==
    /\ verdict[t] = "none" /\ deciding = {}
    /\ \E c \in CurrentCrew(RiddenBy[t]) \cup {NoTeam} :
          deciding' = {[ride |-> t, for |-> c]}
    /\ UNCHANGED <<crewTables, credit, verdict, stamping, longAgo, hasBeen>>

InsertRide(u) ==
    /\ u \in deciding /\ deciding' = {}
    /\ credit' = [credit EXCEPT ![u.ride] = u.for]
    /\ \E status \in {"flagged", "validated"} : verdict' = [verdict EXCEPT ![u.ride] = status]
    /\ UNCHANGED <<crewTables, stamping, longAgo, hasBeen>>

\* approve_trip() and reject_trip() leave the credit as it is.
Judge(t) ==
    /\ \/ verdict[t] = "flagged" /\ verdict' = [verdict EXCEPT ![t] = "validated"]
       \/ verdict[t] \in {"flagged", "validated"} /\ verdict' = [verdict EXCEPT ![t] = "rejected"]
    /\ UNCHANGED <<crewTables, credit, deciding, stamping, longAgo, hasBeen>>

\* "nothing is ever taken from another crew's history", and a crew past its
\* first fortnight gets nothing.
Stamped(t, r, c) ==
    /\ RiddenBy[t] = r /\ credit[t] = NoTeam /\ verdict[t] = "validated"
    /\ longAgo \cap {t, c} = {}

\* _stamp_recent(), one update for all trips.
Stamp(r, c) ==
    /\ <<r, c>> \in stamping /\ stamping' = stamping \ {<<r, c>>}
    /\ credit' = [t \in Rides |-> IF Stamped(t, r, c) THEN c ELSE credit[t]]
    /\ UNCHANGED <<crewTables, verdict, deciding, longAgo, hasBeen>>

\* A fortnight passes; a ride may be that old when it is uploaded.
GrowOld ==
    /\ \E x \in Rides \cup {c \in Teams : team[c] # "none"} : longAgo' = longAgo \cup {x}
    /\ UNCHANGED <<crewTables, tripTables, stamping, hasBeen>>

\* The process dies: who was let in is in, and is never stamped for.
DieCredit ==
    /\ deciding' = {} /\ stamping' = {}
    /\ UNCHANGED <<crewTables, credit, verdict, longAgo, hasBeen>>

CreditNext ==
    \/ \E c \in Teams, r \in Cyclists : ComeIn(c, r) \/ Stamp(r, c)
    \/ MoveOn
    \/ \E t \in Rides : ReadCrew(t) \/ Judge(t)
    \/ \E u \in Uploading : InsertRide(u)
    \/ GrowOld \/ DieCredit

CreditSpec == CreditInit /\ [][CreditNext]_creditVars

-----------------------------------------------------------------------------
CreditTypeOK ==
    /\ M!TypeOK
    /\ credit \in [Rides -> Teams \cup {NoTeam}]
    /\ verdict \in [Rides -> {"none", "flagged", "validated", "rejected"}]
    /\ deciding \subseteq Uploading /\ Cardinality(deciding) <= 1
    /\ stamping \cup hasBeen \subseteq Cyclists \X Teams
    /\ longAgo \subseteq Rides \cup Teams

\* A ride is given to a crew once, and only to one its rider has been in by
\* then: however uploads, requests and stamps overlap with riders who come,
\* go, ask and change crews, no ground changes hands behind a crew's back and
\* no crew holds ground for a rider it never let in.
CreditEarned ==
    [][\A t \in Rides : credit'[t] # credit[t] =>
          credit[t] = NoTeam /\ <<RiddenBy[t], credit'[t]>> \in hasBeen]_creditVars
=============================================================================
