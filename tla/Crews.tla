------------------------------- MODULE Crews -------------------------------
(***************************************************************************)
(* Crew membership: the clan_members table and the crews it belongs to, as *)
(* services/crews.py, the crew routes of web/crews_api.py and the admin    *)
(* routes of web/admin_crews.py change them.                               *)
(*                                                                         *)
(* Every action is one whole request.  A refused request changes nothing,  *)
(* so a refusal is the action's guard being false.  Time is relative:      *)
(* a row that has ended carries how long ago that was, a row's last_seen   *)
(* how long ago that was, both counted in ticks and saturating once no     *)
(* rule can tell them apart any more.  joined_at is only ever compared, so *)
(* a row keeps the set of riders whose row in the same crew is older.      *)
(* Riders act with a session; who has one is the business of Pairing.      *)
(*                                                                         *)
(* Names, slugs, colours and emblems are not part of this module.          *)
(*                                                                         *)
(* A definition named Bad... is no part of the model: it is a mistake the  *)
(* code could make in the definition after it, to show that the properties *)
(* notice.                                                                 *)
(***************************************************************************)
EXTENDS Naturals, FiniteSets, Functions

CONSTANTS
    CrewIds,        \* rows the clans table will ever hold
    Riders,         \* store_ids
    Proven,         \* riders with a validated trip, who may found a crew
    MaxMembers,     \* settings.get_crews()["max_members"]; 0 is no cap
    Cooldown,       \* settings.get_crews()["cooldown_days"], in ticks
    NoticeFor,      \* the week a notice stays readable, in ticks
    SpentAfter,     \* the thirty days before a spent row is swept, in ticks
    IdleLeader,     \* IDLE_LEADER_DAYS, in ticks
    MaxRestores     \* bound: how many restores the admin makes in all

ASSUME SetsAssumption == Proven \subseteq Riders
ASSUME NumbersAssumption ==
    /\ MaxMembers \in Nat /\ Cooldown \in Nat /\ MaxRestores \in Nat
    /\ NoticeFor \in Nat /\ SpentAfter \in Nat /\ IdleLeader \in Nat
    /\ NoticeFor <= SpentAfter

VARIABLES
    crew,       \* "none": not founded, "living", or "folded": disbanded_at set
    asks,       \* crews whose join_policy is "approval"
    rows,       \* rows[c][r]: the clan_members row of rider r in crew c
    restored,   \* how often each crew was restored
    took        \* history: who was in a folded crew when it folded

past == <<restored, took>>
vars == <<crew, asks, rows, restored, took>>

-----------------------------------------------------------------------------
Roles == {"leader", "officer", "member"}
Folded == {"disbanded", "disbanded_seen"}
Declined == {"declined", "declined_seen"}
Spent == Folded \cup Declined \cup {"removed", "removed_seen"}
Statuses == {"active", "pending"} \cup Spent

BadSeen == [declined |-> "declined_seen", removed |-> "removed_seen",
            disbanded |-> "folded_seen"]

\* What a waiting notice becomes once the panel has shown it.
Seen == [declined |-> "declined_seen", removed |-> "removed_seen",
         disbanded |-> "disbanded_seen"]

\* Neither the cooldown nor the sweep tells an age apart from a greater one.
LongAgo == IF Cooldown > SpentAfter THEN Cooldown ELSE SpentAfter + 1

\* live is left_at IS NULL; left is the age of left_at, seen that of last_seen.
Row == [role: Roles, status: Statuses \cup {"none"}, live: BOOLEAN,
        left: 0..LongAgo, seen: 0..IdleLeader, elders: SUBSET Riders]
NoRow == [role |-> "member", status |-> "none", live |-> FALSE,
          left |-> 0, seen |-> 0, elders |-> {}]

Nobody == [members |-> {}, waiting |-> {}]

Live(c, r) == rows[c][r].live
Active(c, r) == Live(c, r) /\ rows[c][r].status = "active"
Holds(c, r, role) == Live(c, r) /\ rows[c][r].role = role

LiveIn(c) == {r \in Riders : Live(c, r)}
ActiveIn(c) == {r \in Riders : Active(c, r)}
LeadersIn(c) == {r \in Riders : Holds(c, r, "leader")}
OfficersIn(c) == {r \in ActiveIn(c) : rows[c][r].role = "officer"}
Alone(c, r) == ActiveIn(c) = {r}

\* membership(): any row without left_at, a pending request included.
HasCrew(r) == \E c \in CrewIds : Live(c, r)

\* cooldown_until(): rows still "active" with a left_at are walk-outs.
WalkedOut(c, r) == rows[c][r].status = "active" /\ ~Live(c, r)
Cooling(r) == /\ ~HasCrew(r)
              /\ \E c \in CrewIds : WalkedOut(c, r) /\ rows[c][r].left < Cooldown

BadFull(c) == MaxMembers # 0 /\ Cardinality(ActiveIn(c)) > MaxMembers
Full(c) == MaxMembers # 0 /\ Cardinality(ActiveIn(c)) >= MaxMembers

\* _require_power(), for a rider with a session and a crew found by its slug.
Powered(c, r) == /\ crew[c] = "living" /\ Active(c, r)
                 /\ rows[c][r].role \in {"leader", "officer"}

\* The first of S by joined_at.
Senior(c, S, r) == r \in S /\ rows[c][r].elders \cap S = {}

Ended(row, status) == [row EXCEPT !.live = FALSE, !.left = 0, !.status = status]
Revived(row, status) == [row EXCEPT !.live = TRUE, !.left = 0, !.status = status]

\* Everybody still in the crew goes down with it; the rider who did it, if it
\* was one, has seen it.
Fold(c, by) ==
    /\ crew' = [crew EXCEPT ![c] = "folded"]
    /\ rows' = [rows EXCEPT ![c] = [r \in Riders |->
            IF ~Live(c, r) THEN rows[c][r]
            ELSE Ended(rows[c][r], IF r \in by THEN "disbanded_seen" ELSE "disbanded")]]
    /\ took' = IF crew[c] = "folded" THEN took
               ELSE [took EXCEPT ![c] = [members |-> ActiveIn(c),
                                         waiting |-> LiveIn(c) \ ActiveIn(c)]]

-----------------------------------------------------------------------------
Init ==
    /\ crew = [c \in CrewIds |-> "none"]
    /\ asks = {}
    /\ rows = [c \in CrewIds |-> [r \in Riders |-> NoRow]]
    /\ restored = [c \in CrewIds |-> 0]
    /\ took = [c \in CrewIds |-> Nobody]

Create(r, c) ==
    /\ crew[c] = "none" /\ r \in Proven
    /\ ~HasCrew(r) /\ ~Cooling(r)
    /\ crew' = [crew EXCEPT ![c] = "living"]
    /\ asks' \in {asks, asks \cup {c}}
    /\ rows' = [rows EXCEPT ![c][r] =
            [NoRow EXCEPT !.role = "leader", !.status = "active", !.live = TRUE]]
    /\ UNCHANGED past

BadRejoin(row) == row.role

\* Coming back is not coming back in charge.
Rejoin(row) == "member"

\* A rider who was ever in this crew has a row already: it is taken up again,
\* as a plain member and as the youngest.  An invite-only crew behaves as an
\* open one towards the riders who hold its code.
Join(r, c) ==
    /\ crew[c] = "living" /\ ~Full(c)
    /\ ~HasCrew(r) /\ ~Cooling(r)
    /\ rows' = [rows EXCEPT ![c] = [o \in Riders |->
            IF o = r
            THEN [role |-> Rejoin(rows[c][r]), live |-> TRUE, left |-> 0, seen |-> 0,
                  status |-> IF c \in asks THEN "pending" ELSE "active",
                  elders |-> {e \in Riders \ {r} : rows[c][e].status # "none"}]
            ELSE [rows[c][o] EXCEPT !.elders = @ \ {r}]]]
    /\ UNCHANGED <<crew, asks, past>>

BadLastOut(c, r) == FALSE

\* The last active rider out folds the crew, waiting requests and all.
LastOut(c, r) == Alone(c, r) /\ crew[c] = "living"
Leave(r, c) ==
    /\ Live(c, r)
    /\ ~(Holds(c, r, "leader") /\ Cardinality(ActiveIn(c)) > 1 /\ OfficersIn(c) = {})
    /\ IF LastOut(c, r)
       THEN Fold(c, {r})
       ELSE /\ rows' = [rows EXCEPT ![c][r] = Ended(@, @.status)]
            /\ UNCHANGED <<crew, took>>
    /\ UNCHANGED <<asks, restored>>

BadReconsider(c, r) == rows[c][r].status \in Declined

\* A request declined before has to pass the two gates of the front door again.
Reconsider(c, r) == rows[c][r].status \in Declined /\ ~HasCrew(r) /\ ~Cooling(r)

\* decide(accept=True), for a waiting request or one declined before.
Accept(a, c, r) ==
    /\ Powered(c, a)
    /\ \/ Live(c, r) /\ rows[c][r].status = "pending"
       \/ Reconsider(c, r)
    /\ ~Full(c)
    /\ rows' = [rows EXCEPT ![c][r] = Revived(@, "active")]
    /\ UNCHANGED <<crew, asks, past>>

Decline(a, c, r) ==
    /\ Powered(c, a)
    /\ Live(c, r) /\ rows[c][r].status = "pending"
    /\ rows' = [rows EXCEPT ![c][r] = Ended(@, "declined")]
    /\ UNCHANGED <<crew, asks, past>>

BadMayRank(a, c, r, role) ==
    rows[c][a].role # "leader" =>
        role # "leader" /\ (rows[c][r].role = "officer" => r = a)

MayRank(a, c, r, role) ==
    /\ rows[c][a].role # "leader" =>
          /\ role # "leader" /\ rows[c][r].role # "leader"
          /\ rows[c][r].role = "officer" => r = a
    /\ r = a /\ rows[c][a].role = "leader" => role = "leader"

BadHandOver(row, role) == row.role

\* A leader who names another stays on as an officer.
HandOver(row, role) == IF role = "leader" THEN "officer" ELSE row.role

SetRole(a, c, r, role) ==
    /\ Powered(c, a) /\ Active(c, r) /\ MayRank(a, c, r, role)
    /\ rows' = [rows EXCEPT
            ![c][a].role = HandOver(rows[c][a], role),
            ![c][r].role = role]
    /\ UNCHANGED <<crew, asks, past>>

Remove(a, c, r) ==
    /\ Powered(c, a) /\ r # a /\ Active(c, r)
    /\ rows[c][r].role # "leader"
    /\ rows[c][r].role = "officer" => rows[c][a].role = "leader"
    /\ rows' = [rows EXCEPT ![c][r] = Ended(@, "removed")]
    /\ UNCHANGED <<crew, asks, past>>

BadEligible(c, r, leader) ==
    /\ \A l \in leader : rows[c][l].seen >= IdleLeader
    /\ Senior(c, ActiveIn(c), r)

\* _eligible_for() with the leader row the query happens to return, if any.
Eligible(c, r, leader) ==
    /\ \A l \in leader : rows[c][l].seen >= IdleLeader
    /\ Senior(c, ActiveIn(c) \ leader, r)

\* A leader may walk out once there is an officer, and then nobody leads.
SittingLeader(c) == IF LeadersIn(c) = {} THEN {{}} ELSE {{l} : l \in LeadersIn(c)}

Claim(r, c) ==
    /\ crew[c] = "living"
    /\ \E leader \in SittingLeader(c) :
          /\ Eligible(c, r, leader)
          /\ rows' = [rows EXCEPT ![c] = [o \in Riders |->
                CASE o = r -> [rows[c][o] EXCEPT !.role = "leader"]
                  [] o # r /\ o \in leader -> [rows[c][o] EXCEPT !.role = "member"]
                  [] OTHER -> rows[c][o]]]
    /\ UNCHANGED <<crew, asks, past>>

Disband(a, c) ==
    /\ Powered(c, a) /\ rows[c][a].role = "leader"
    /\ Cardinality({l \in ActiveIn(c) : rows[c][l].role = "leader"}) <= 1
    /\ Fold(c, {a})
    /\ UNCHANGED <<asks, restored>>

\* The join_policy part of /edit, whose power check does not read status.
EditPolicy(a, c) ==
    /\ crew[c] = "living"
    /\ Live(c, a) /\ rows[c][a].role \in {"leader", "officer"}
    /\ asks' \in {asks \cup {c}, asks \ {c}}
    /\ UNCHANGED <<crew, rows, past>>

-----------------------------------------------------------------------------
AdminDisband(c) ==
    /\ crew[c] # "none"
    /\ Fold(c, {})
    /\ UNCHANGED <<asks, restored>>

BadMarked(c) == {r \in Riders : rows[c][r].status = "disbanded"}
Marked(c) == {r \in Riders : rows[c][r].status \in Folded}

\* _folded_with(): the rows the fold marked; where it marked none, the only
\* walk-out there is.  A walk-out at the moment of the fold does not occur:
\* the last one out is marked like any other.
FellWith(c) ==
    LET walked == {r \in Riders : WalkedOut(c, r)}
    IN  IF Marked(c) # {} THEN Marked(c)
        ELSE IF Cardinality(walked) = 1 THEN walked ELSE {}

Coming(c) == {r \in FellWith(c) : ~HasCrew(r)}

RestoresMade == FoldFunction(+, 0, restored)

\* unretire().  The button is drawn for a folded crew only, but nothing stops
\* it from being pressed again on a page drawn before the crew came back.
Restore(c) ==
    /\ crew[c] = "folded" \/ (crew[c] = "living" /\ restored[c] > 0)
    /\ RestoresMade < MaxRestores
    /\ Coming(c) # {}
    /\ LET back == [r \in Riders |->
               IF r \in Coming(c) THEN Revived(rows[c][r], "active") ELSE rows[c][r]]
           led == \E r \in Riders : back[r].live /\ back[r].role = "leader"
           there == {r \in Riders : back[r].live /\ back[r].status = "active"}
       IN  rows' = [rows EXCEPT ![c] = [r \in Riders |->
               IF ~led /\ Senior(c, there, r)
               THEN [back[r] EXCEPT !.role = "leader"] ELSE back[r]]]
    /\ crew' = [crew EXCEPT ![c] = "living"]
    /\ restored' = [restored EXCEPT ![c] = @ + 1]
    /\ took' = [took EXCEPT ![c] = Nobody]
    /\ UNCHANGED asks

-----------------------------------------------------------------------------
Touch(r, c) ==
    /\ Live(c, r)
    /\ rows' = [rows EXCEPT ![c][r].seen = 0]
    /\ UNCHANGED <<crew, asks, past>>

\* mark_notice_seen(): the latest notice of its kind, while it is readable.
Readable(c, r, kind) == rows[c][r].status = kind /\ rows[c][r].left <= NoticeFor
NoticeSeen(r, c, kind) ==
    /\ Readable(c, r, kind)
    /\ \A d \in CrewIds : Readable(d, r, kind) => rows[c][r].left <= rows[d][r].left
    /\ rows' = [rows EXCEPT ![c][r].status = Seen[kind]]
    /\ UNCHANGED <<crew, asks, past>>

\* _sweep_spent_notices(): every spent row older than thirty days is deleted.
Sweep ==
    /\ LET gone(c) == {r \in Riders :
               rows[c][r].status \in Spent /\ rows[c][r].left > SpentAfter}
       IN  rows' = [c \in CrewIds |-> [r \in Riders |->
               IF r \in gone(c) THEN NoRow
               ELSE [rows[c][r] EXCEPT !.elders = @ \ gone(c)]]]
    /\ UNCHANGED <<crew, asks, past>>

\* Time passes for every row.
Aged(row) ==
    IF row.status = "none" THEN row
    ELSE [row EXCEPT !.left = IF row.live \/ @ >= LongAgo THEN @ ELSE @ + 1,
                     !.seen = IF @ >= IdleLeader THEN @ ELSE @ + 1]
Tick ==
    /\ rows' = [c \in CrewIds |-> [r \in Riders |-> Aged(rows[c][r])]]
    /\ UNCHANGED <<crew, asks, past>>

-----------------------------------------------------------------------------
RiderStep(r, c) ==
    \/ Create(r, c) \/ Join(r, c) \/ Leave(r, c) \/ Claim(r, c) \/ Disband(r, c)
    \/ EditPolicy(r, c) \/ Touch(r, c)
    \/ \E kind \in DOMAIN Seen : NoticeSeen(r, c, kind)
RosterStep(a, c, r) ==
    \/ Accept(a, c, r) \/ Decline(a, c, r) \/ Remove(a, c, r)
    \/ \E role \in Roles : SetRole(a, c, r, role)

Next ==
    \/ \E c \in CrewIds, r \in Riders : RiderStep(r, c)
    \/ \E c \in CrewIds, a, r \in Riders : RosterStep(a, c, r)
    \/ \E c \in CrewIds : AdminDisband(c) \/ Restore(c)
    \/ Sweep \/ Tick

Spec == Init /\ [][Next]_vars

-----------------------------------------------------------------------------
TypeOK ==
    /\ crew \in [CrewIds -> {"none", "living", "folded"}]
    /\ asks \subseteq CrewIds
    /\ rows \in [CrewIds -> [Riders -> Row]]
    /\ restored \in [CrewIds -> Nat]
    /\ took \in [CrewIds -> [members: SUBSET Riders, waiting: SUBSET Riders]]

\* A rider is in one crew at a time, requests included, however crews fold,
\* come back and change their minds about a declined request.
OneCrewPerRider ==
    \A r \in Riders, c, d \in CrewIds : Live(c, r) /\ Live(d, r) => c = d

\* A living crew has somebody in it and a folded one has nobody: the last one
\* out folds it, an accept needs somebody with power, and a restore that
\* would bring nobody back is refused.
LivingIffManned ==
    \A c \in CrewIds :
        IF crew[c] = "living" THEN ActiveIn(c) # {} ELSE LiveIn(c) = {}

\* A rider who has only asked to join holds no office.  /edit and /newcode
\* check a row's role without its status and lean on this.
PendingHoldsNoOffice ==
    \A c \in CrewIds, r \in Riders :
        Live(c, r) /\ ~Active(c, r) =>
            rows[c][r].status = "pending" /\ rows[c][r].role = "member"

\* A crew has one leader at most, until it is restored a second time.
OneLeader ==
    \A c \in CrewIds : restored[c] <= 1 => Cardinality(LeadersIn(c)) <= 1

\* The member cap holds for a crew that was never restored.
CapHeld ==
    \A c \in CrewIds :
        MaxMembers # 0 /\ restored[c] = 0 => Cardinality(ActiveIn(c)) <= MaxMembers

\* Whenever nobody leads a living crew, or its leader has gone quiet, and there
\* are other members, the take-over succeeds for one of them: claim_leadership
\* names the longest-serving of the others, and there always is one.  With two
\* leaders, which takes a second restore, it may name the other leader.
Quiet(c) == crew[c] = "living" /\ \A l \in LeadersIn(c) : rows[c][l].seen >= IdleLeader
Others(c) == ActiveIn(c) \ LeadersIn(c)
QuietCrewCanBeClaimed ==
    \A c \in CrewIds :
        restored[c] <= 1 /\ Quiet(c) /\ Others(c) # {} =>
            \E l \in SittingLeader(c), r \in Others(c) : Eligible(c, r, l)

\* A sole leader seen lately keeps the title, or hands it over and stays as an
\* officer: nobody else's request takes it while the leader stays.
LeaderNotDeposed ==
    [][\A c \in CrewIds, l \in Riders :
        LeadersIn(c) = {l} /\ rows[c][l].seen < IdleLeader /\ Live(c, l)' =>
            \/ rows'[c][l].role = "leader"
            \/ rows'[c][l].role = "officer" /\ \E r \in Riders \ {l} : Holds(c, r, "leader")']_vars

\* Only an admin's restore puts a rider into a crew while the cooldown of a
\* walk-out runs: founding, joining and a reconsidered request all wait.
CooldownServed ==
    [][\A r \in Riders, c \in CrewIds :
        Live(c, r)' /\ ~Live(c, r) /\ Cooling(r) => restored'[c] = restored[c] + 1]_vars

Restored(c) == restored'[c] > restored[c]
BroughtBack(c, r) == crew[c] = "folded" /\ Restored(c) /\ Live(c, r)'

\* A restored crew gets back everybody its fold took, except a rider who is in
\* another crew by then and one whose row has been swept away.
RestoreIsComplete ==
    [][\A c \in CrewIds : Restored(c) /\ crew[c] = "folded" =>
        \A r \in took[c].members \cup took[c].waiting :
            HasCrew(r) \/ rows[c][r].status = "none" \/ Live(c, r)']_vars

\* services/crews.py says of _folded_with: "Who a restore brings back:
\* everybody the fold took down with it, and nobody else."
RestoreBringsBackTheFold ==
    [][\A c \in CrewIds, r \in Riders :
        BroughtBack(c, r) => r \in took[c].members \cup took[c].waiting]_vars

-----------------------------------------------------------------------------
\* Where a rider stands in a crew, as the rows tell it.
Standing(c, r) ==
    IF ~Live(c, r) THEN "out"
    ELSE IF Active(c, r) THEN rows[c][r].role ELSE "asking"

M == INSTANCE Membership WITH
        standing <- [c \in CrewIds |-> [r \in Riders |-> Standing(c, r)]]

\* Every request, admin action and loop pass on the rows is one of the few
\* changes of standing that Membership allows, or none: nobody comes in above
\* a member, a leader leaves an officer behind, an officer touches neither
\* leader nor officer, and a restore takes nobody out of another crew.
ImplementsMembership == M!Spec
=============================================================================
